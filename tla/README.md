# A TLA+ model of the blog API

This directory specifies the parts of *simple-drf-blog* whose correctness
depends on the order in which concurrent requests, background tasks and
crashes take effect. Each module is written from the Django code it names;
TLC checks small instances and TLAPS proves the invariants that matter most
for instances of every size.

## 1. The system

One Django application behind nginx serves a JSON:API; Gunicorn runs several
workers, Celery runs tasks beside them. They share a MariaDB database, a
media directory and a Redis cache.

Three facts about the code shape every module:

* `ATOMIC_REQUESTS` is not set, so a request is a *series* of transactions.
  A view reads its object (`get_object`), validates against it and writes
  later; other requests may run in between.
* Django asks MariaDB for READ COMMITTED, and the settings leave that alone:
  every statement sees what is committed at that moment.
* `Model.save()` without `update_fields` writes **every** column from memory.
  Most updates use it (DRF's `ModelSerializer.update`); the few that name
  their columns or lock the row are pointed out below.

| component | state | operations | what is hard | what makes it correct |
|---|---|---|---|---|
| post workflow (`content/models/posts.py`, `serializers/posts.py`, `views/posts.py`) | `status`, `published_at`, title, content, tags of each post | create, update, change_status, destroy, restore | validation on an unlocked snapshot; a locked status change beside unlocked full-row saves; tags in a second transaction | statuses follow `ALLOWED_TRANSITIONS`; released posts are dated once; published posts keep title and tags and have content |
| slugs (`content/mixins.py`) | the unique `slug` columns | save, with probing and retries | probe and write are not atomic; bounded retries; other constraints fail in the same place | no creation fails for its slug while the retries suffice, each takes the smallest free suffix, and every save ends |
| uploads (`uploads/services.py`, `views.py`, `utils/path.py`) | rows of uploads; files of the media directory | create, update (visibility, purpose), soft-delete, restore | no transaction spans row and file; crashes; saves after the lock is released | the `private/` prefix agrees with the visibility; content is not lost; a path is written only when the file is there |
| cleanup (`cleanup_deleted_uploads.py`, `uploads/tasks.py`) | the same | deletes old soft-deleted uploads | works on an old query result; two deletions per upload | only soft-deleted uploads lose their files |
| post media | thumbnail (one to one), attachments | set, remove, add | unique index; uploads vanish | a post shows only uploads that exist, a thumbnail belongs to one post |
| categories, tags | rows, PROTECT from posts | create, update, delete | create against delete | a post always has a category |
| accounts (`accounts/services.py`, `views/users.py`, `serializers/users.py`, `signals.py`) | users, roles, passwords, profiles as rows, outstanding and blacklisted refresh tokens | create, update, delete, change role, both password changes, login, refresh, logout | two administrators demote each other; a stale update; a token issued during a password change; a worker dies before the signal | the refresh tokens an account has when its password changes are good no more; nobody makes himself an administrator; every user gets a profile |
| profiles (`accounts/serializers/profiles.py`, `views/profiles.py`, `managers.py`) | one profile, its social media links | PUT, PATCH, toggle, deletion with the account | links reconciled in memory against two unique constraints; saves from a snapshot; partial items | a list leaves the links of one request; a link fits its platform; queryset and serializer agree on who sees what |
| metrics (`metrics/`) | dedup keys in the cache, metric records, queued tasks | middleware, event bus, task, ingestion | retries after a failure between cache and database; redelivery; cache down; expiry | a key is counted at most once per window, a key is that of one visitor where the address shows the network, and every task ends |
| throttling (`config/throttle.py`, `urls.py`) | request histories in the cache | choose throttles, allow or refuse | histories read and written without a lock; several throttles per request; cache down | no more than the rates pass, and no client (the user, or the address where nobody is logged in and on the login and token routes) pays for another |
| file inspection (`uploads/utils/file_processor.py`) | the stream's position, size, head and hash while one file is read | size, type, extension and image checks | reads of any length; exceptions at every point | the type is that of the first bytes; a file is accepted exactly if it is what it says; the stream is rewound |
| filters, encryption, text tools, health and metric views, schemas, routes, settings, nginx | none, or configuration | pure | none | not a matter of order |

Interactions: posts refer to uploads, categories, tags and users by foreign
keys; posts, categories and tags share `SlugMixin`; the cleanup and the upload
views share rows and files; the metrics middleware watches the post view and
feeds a task through a signal; nginx serves public files directly and private
ones by `X-Accel-Redirect`, trusting the path stored in the row.

## 2. Plan

Ordered by what matters most to readers and authors of the blog.

| step | module | state |
|---|---|---|
| 1 | `PostStatus`, `PostWorkflow`: concurrent requests on posts; `PostLifecycle`, the abstract life cycle they implement without updates; `PostWorkflowProofs` | done |
| 2 | `SlugSave`, `SlugSaveProofs` | done |
| 3 | `UploadStorage`: rows, files, cleanup, crashes, and what the API and nginx serve; `UploadStorageProofs` | done |
| 4 | `Accounts`: roles, passwords, tokens, profiles as rows; `AccountsProofs` | done |
| 5 | `Profiles`: the contents of a profile and its links; `ProfilesProofs` | done |
| 6 | `MetricIngestion` and `EventKey`: from a view to its record; `MetricIngestionProofs` | done |
| 7 | `Throttle`, `ThrottleProofs` | done |
| 8 | `FileInspection`, `FileInspectionProofs` | done |
| 9 | the scenarios proved: serial and locked posts, uncleaned and serial uploads, creations of slugs, calm metrics, serial throttling; `LayersAgree`, `OnlyProvidedFields`, `ProfileUnlessCrash`; the keys of `EventKey` | done |
| 10 | `MCPostOverlap`: a small instance for the rules that overlapping requests break | done |
| 11 | thumbnails and attachments of posts | left out, see section 6 |

Each module takes its sets as CONSTANTS with named assumptions, has one action
per step of the code between two points where others may intervene, and uses
no recursive operator, so that it can be proved about. Definitions whose comment
begins with "Mutant" are broken variants of the definition that follows them;
the model does not use them. `PROJECT.json` pairs each with a property that
fails when it takes the definition's place.

## 3. The modules

### PostStatus, PostWorkflow, PostLifecycle

`rows` is the posts table (status, `published_at`, title, content), `tags` its
many-to-many table, `reqs` what each of the overlapping requests holds in
memory, `now` the clock of `timezone.now()`.

| code | action |
|---|---|
| `get_object` + `PostUpdateSerializer.validate` | `LoadUpdate`: keeps the snapshot and the validated data |
| DRF's `update`: `instance.save()` | `SaveUpdate`: the whole row from the snapshot (`Overwritten`) |
| DRF's many-to-many `set` after the save | `SetTags` |
| `PostCreateSerializer.create` | `CreatePost`, then `SetTags` |
| `change_status`, `destroy`, `restore` up to the validation | `LoadStatusChange`, `LoadDestroy`, `LoadRestore` |
| `transition_to` (SELECT ... FOR UPDATE to commit) | `Transition`, one step: the lock keeps everybody else out |

`Owns`, `Alive` and `MayReach` are the permission `IsOwner` and the query sets
of the view together. A full PUT is a PATCH that leaves nothing out. Category
and slug, protected like the title, and the summary, free like the content, are not
repeated as columns. The object held by a `transition_to` is not kept
because only its primary key is used.

`transition_to` writes through `locked.save()` on an instance fetched with
`.only("status", "published_at")`: Django then saves just the loaded columns
(and the slug, which `_set_slug` loads under the lock and writes unchanged),
so `Moved` touches nothing else.

`PostLifecycle` promises what readers see: a status that moves along the table
and a first publication date that stays. `PostWorkflow` implements it under
`rows[p].status` and `rows[p].publishedAt` **when no update is among the
requests**; with updates it does not, which is one of the findings.

### SlugSave

`table` holds the committed slugs, `savers` the saves in flight. One SELECT of
the probing loop is `Probe`; INSERT or UPDATE with the commit is `Write` (the
unique index makes the second of two writers wait and then fail). `WriteFails` is a
write that another constraint rejects: the unique name of a category or a tag, the
thumbnail, a foreign key. The `except` branch is `Resolve`: it does not look at which
constraint it was, only again at whether the slug is taken, and starts over
(`Again`) or raises the error again, as `test_save_reraises_non_slug_integrity_error`
(`src/apps/content/tests/test_content_mixins.py:124`) expects. `error` keeps the
constraint for the properties: no property promises that a creation succeeds, only
that its slug is not what it fails for. Slugs are sequences so that "a 1" and the first suffix of "a"
are the same slug, as in the code. `slugify` is not modelled: titles are
represented by the slugs they give. `CreatesNext` is the part of `Next` that asks
for no slug and gives none up.

### UploadStorage

`rows` is the uploads table, `files` says whose content is at each path, `lock`
who holds a row's lock, `reqs` what each request holds, `cleaner` what the
command has still to do. A path is a pair of an area (with or without
`private/`) and the rest.

| code | action |
|---|---|
| `FileField.pre_save`: storage picks a free name, writes | `StoreFile` |
| INSERT | `InsertRow` |
| `get_object`, `change_visibility`'s unlocked early return | `LoadPatch` |
| `select_for_update().get` | `TakeLock` |
| the tests of the old and the new name | `CheckFiles` |
| `os.replace` | `MoveFile` |
| save and commit | `CommitMove` |
| `save(update_fields=["purpose", ...])` | `SavePurpose` |
| the serializer's final full save | `SavePatched` |
| `perform_destroy`, `restore` | `LoadDestroy`/`MarkDeleted`, `LoadRestore`/`MarkRestored` |
| the command's query, `file.delete`, `upload.delete`, `except` | `StartCleanup`, `CleanFile`, `CleanRow`, `CleanRowFails` |
| time passing the cutoff | `Expire` |
| a killed worker | `Crash`, `CrashCleaner`: the transaction is rolled back, files stay |

A name the storage may choose comes from `RelPathsOf[u]`: own names where the
hashes differ, shared names where the first eight digits agree and the storage
falls back to another name. There is no request for an upload another slot is
still creating: its key is not known to anybody yet.

What is shown and served is in the same module: `UrlFor` is `get_url`,
`ContentOf` the content action, `Serve` nginx's media location (and
`dev_media_serve`), which knows nothing but the prefix of the path.

### Accounts

`users` is the users table (role and password, the columns with rules),
`profiles` the users with a profile row, `tokens` the outstanding refresh tokens
and whether they are blacklisted, `changes` how often each password was changed
(a ghost variable), `reqs` the requests.

| code | action |
|---|---|
| `get_object`, `get_permissions`, the serializers' validation | `LoadUpdate`, `LoadPassword`, `LoadRole`, `LoadDelete` |
| `UserCreateSerializer.create` | `InsertUser`, then `CreateProfile` |
| `create_profile` (post_save, its own transaction) | `CreateProfile` |
| the serializer's save of a PUT or PATCH | `SaveUpdate`: the whole row; an INSERT, with the signal, if the row is gone |
| `change_user_role` | `ChangeRole`, one transaction |
| `change_password`, `force_password_change`, `_blacklist_user_tokens` | `ChangePassword`, one transaction that holds the row |
| the deletion | `LoadDelete` (Django collects), `DeleteUser` |
| `/token/`, `/token/refresh/`, `/token/blacklist/` (simplejwt) | `LoadLogin`, `LoadRefresh`, `Rotate`, `Issue`, `Logout` |
| a killed worker | `Crash` |

The two password endpoints differ in what they validate, not in what they
write. An insertion of a token needs its user's row by foreign key, so it waits
for the X lock of a password change and cannot slip past the blacklisting loop. A
login or a rotation that was let in with the old password and inserts its token after
the change does get a token that stays good: `ChangeRevokes` promises only that the
tokens inserted before the change are good no more.

### Profiles

`row` and `links` are the profile and the table of its links, `lock` the request
whose transaction holds the row, `reqs` the requests.

| code | action |
|---|---|
| `get_object` through `editable_by`, or `me` | `LoadUpdate` |
| `transaction.atomic`, `_patch_instance` or `_put_instance` | `SaveRow`: takes the lock; nobody sees the new row yet |
| the query for the existing links, and the validated list | `ReadLinks` |
| `_put_social_media` | `Put`: delete all, insert all |
| `_patch_social_media` | `Patch`: bulk_create, bulk_update in the order of the keys, delete what was not sent |
| end of the transaction, or an integrity error | `Commit` |
| `toggle_public` | `LoadToggle`, `SaveToggle` |
| deletion of the account, a killed worker | `DeleteAccount`, `Crash` |

A list is the set of its items, each with its place there. An item that leaves out a
field is an item with `Absent`; what a row gets for it is `Blank` on insertion and the
old value on an update. Of several items of a PATCH for one link the last that gives
a field decides (`Giving`, `Latest`, `FieldOf`). Keys of other profiles' links are
`Taken`. `Platforms` name their own sites, so `_platform_url_ok` becomes
`platform = site`, and nothing where either is missing. Other sites do not occur
because the address's own validator (`src/apps/accounts/models/profiles.py:47-51`)
refuses them. It is this validator, and not the comparison, that rejects the partial
item of `test_platform_url_partial_key_bypass_rejected`
(`src/tests/integration_tests/test_accounts_profiles.py:837`), whose address is on
evil.com; a partial item with the site of another known platform is accepted, which is
what `MismatchNeedsPartialItem` allows.

### MetricIngestion, EventKey

`task` says where the event of each view is, `keys` and `records` are the cache
and the table, `expired` and `deaths` count faults.

| code | action |
|---|---|
| `PostViewTrackingMiddleware`, `EventBus.send`, the signal, `PostViewHandler` | `View`: tracked or not, queued unless the broker is out of reach |
| the task begins | `Start` |
| `is_duplicate` (`cache.add`) | `Dedup` |
| `MetricRecord.objects.create` | `Create` |
| an exception anywhere in the task, the soft time limit included; `autoretry_for` | `TaskFails` (then `Retried`), with the key added or not when it strikes in the cache's call |
| late acknowledgement | `Ack`; `Die` puts the task back in the queue or loses it |
| ttl, `IGNORE_EXCEPTIONS` | `Expire`, `CacheToggles` |

`EventKey` is the pure part: `anonymize_ip`, the event, `generate_key`. A string
is the sequence of its parts at ":" and ".", since that is what the code takes
apart and joins; the hash is left out. `MCMetricIngestion` joins the two: each view
is a request (`RequestOf`) and its `KeyOf` is the key of that request.

Addresses come as `ipware` writes them, IPv6 shortened with "::" where it can be.
`anonymize_ip` takes the first four parts of the text, which are the network only if
the "::" is not among them (`NetworkShown`). For 2001:db8::b they are 2001, db8, an
empty part and b, a piece of the host, so two visitors of one network get two keys.
The instance has such an address beside three that show their network, and the
properties say what is promised to whom: visitors with a shown network are told
apart, from one another and from the rest, by network, post and agent; the others
only have one record per key.

### Throttle

The throttles of each route come from `get_throttles` and the `throttle_classes`
of the routes; the histories are those of the framework. `Ask` reads the history
and decides, `Put` writes it back, `Answer` sums up: one refusal is enough, but
all throttles are asked, and those that did not refuse have recorded the
request. `Recent` is the loop that pops the old end of a history. `admitted` and
`passed` record what happened for the properties.

### FileInspection

One call of `create_upload` up to the storage. `ReadChunk(n)` reads any number of
bytes up to a chunk, as a stream may; bytes are named by their positions, so
that `head` shows which bytes it has. What libmagic, mimetypes and PIL say of a
file are fields of the file. `Rewind` is the `finally` clause, `Status` the
exception handler's answer.

## 4. Runs

Several instances share a run through the variable `scenario`, which is chosen at the
start and never changes; a property whose name begins with a scenario ("Serial...",
"Locked...", "Uncleaned...") or that says so speaks of that one only. A scenario
restricts the module's `Next`, so each of its steps is a step of the module and what
is proved of the module holds in it. The bounds are those of the `.cfg` files and MC
modules. One or two rows suffice where rows influence one another only through shared
names (uploads) and slugs; two overlapping requests are the least for a stale write,
and three let a third see, and act on, its result.

| run | instance | shows |
|---|---|---|
| `post_all` | *overlapping*: 1 post, 3 requests of all kinds; *locked*: 2 posts of 2 authors, one an administrator, 3 requests, no updates, clock to 2; *serial*: 1 post, 2 users, 2 titles, 1 tag, one request at a time | types; released posts are dated; only stale updates leave the table; refinement of `PostLifecycle`; frozen titles and tags, no publication without content, the table, the first date |
| `slug_all` | *creates*: 3 saves, 3 attempts, clashing bases, other constraints; *errors*: the same with given slugs and removals; *rivals*: 4 saves, 3 attempts, given slugs, removals, no other constraints | no creation fails for its slug, no free suffix is skipped; a save gives up only after losing to as many commits; every save ends |
| `upload_all` | *overlapping*: 1 upload, 2 requests, cleanup, crashes, database errors; *uncleaned*: 2 uploads with own names, crashes; *serial*: 3 uploads sharing 2 names, one request at a time, cleanup | types and locks, prefix and visibility; content stays recoverable and moves find their file; uploads at rest serve their own content, to those who may see it |
| `accounts_all` | 2 administrators and a newcomer, 2 requests, 2 tokens: *roles*, *crashes*, *sessions* | tokens the account has when the password changes are good no more; administrators are made by others; the last demotion is stale; profiles are not forgotten |
| `profiles_all` | 2 requests (*concurrent* or *serial*), 4 keys, one of them taken, 2 platforms, 11 lists, one with two items for one link | the lock; the links of one request; mismatches need partial items; the layers agree; fields not sent stay |
| `metrics_all` | 4 views of 3 visitors, one with a shortened address, 2 retries, 2 expiries, 1 death; *calm*, or *faults* of the two views that share a key | once per window; visitors whose addresses show their networks are told apart; every task ends; what is tracked is counted when nothing fails |
| `throttle_all` | 2 users behind 1 address, 8 scopes, every route, clock to 4 for serial requests, 3 overlapping ones | rates kept by serial requests; no client is refused for the requests of another or of long ago, the two users being one client on the login and token routes |
| `inspection_all` | chunk 2, head 3, limit 5; 8 types against every extension, every size to the limit and 2 beyond | the head is the beginning; the answer is right |

Runs that end in a counterexample, each against a sentence of the repository:

| run | counterexample |
|---|---|
| `post_lost_status` | a PATCH that read the draft writes it back over a post published since: draft, published, draft, which the table does not have, and the date is lost (`test_full_status_cycle_preserves_publish_timestamp` expects it to last) |
| `post_revived` | a change to draft validated before a deletion takes the post out of the trash; the step is on the table, so `OnTable` allows it, but it is no restore |
| `upload_restored` | the cleanup deletes the file of an upload restored after its query |
| `last_admin` | two administrators demote each other; the check in `change_user_role` is only for oneself, which `CanChangeUserRole` has excluded already |

`PROJECT.json` quotes the sentence each of them stands against. They have one cause, an
unlocked read that is written back or acted upon later. It breaks other rules as well,
which have no run; the serial properties say what holds without overlap:

* a PATCH validated on the draft writes its tags after the publication, and one that
  clears the content does so between `PostStatusSerializer.validate` and
  `transition_to`;
* a change of an upload's purpose writes back the path it read, and so undoes another
  request's change of visibility (the prefix still agrees with the visibility and the
  content stays recoverable);
* two uploads with a shared name: a file stored between the other's check and its
  `os.replace` is overwritten; and when the cleanup has deleted a file and not its row,
  its next run deletes what a change of visibility has moved to the name since;
* a PATCH of a profile that gives no visibility writes back the one it read before a
  toggle, and two overlapping toggles count as one;
* of two requests that read the same history the later write forgets the earlier one,
  and with the cache away nothing is counted: more pass than the rate.

Without any overlap, `src/apps/accounts/schemas/profiles.py:76` says of the PATCH of a
profile that links are "merged without removing unspecified items"; `Patch` deletes
them, as the code and `test_delete_social_media_profile_by_omission` do.

`MaxTime`, `MaxStarts`, `MaxChanges`, `MaxExpiries`, `MaxDeaths` and
`MaxOverlapping` bound counters. `MaxTime` is enough to tell a first publication
from a later one, and for a history to leave its window; one change of a password
is enough for a token to be older than it; two expiries open three windows.
`CHECK_DEADLOCK FALSE` is set where a behaviour may end: when all saves, views or
checks are made, when the account is deleted or nobody is left to act, and when
crashed creations have left files without rows on every name.

Fairness appears twice. In `MCSlugSave` a worker inside `save` goes on with it; new
requests and removals are not fair. `EverySaveEnds` also needs the bound on
starts: against an endless stream of rivals the suffix loop has no bound of its
own. In `MetricIngestion` the workers keep taking and executing queued tasks
(`Work`); faults are not fair, and the cache may stay away for ever.

## 5. Proofs

TLAPS checks these for all values of the constants that meet the named
assumptions. Every invariant is proved through an inductive one, `IInv`. Where a
property speaks of a scenario, the proof module extends the MC module, shows that
the scenario's steps are steps of `Next`, and adds to `IInv` what only the scenario
keeps; the theorem is then about `MCSpec`, still for all values of the constants.

* `PostWorkflowProofs`. `IInv` is `TypeOK`, "released rows are dated", the same of
  every **snapshot** a request holds, with snapshot dates not after `now`, that
  only the kinds in use are in flight and that what was read still exists.
  Without the part on snapshots it is not inductive: `SaveUpdate` copies a
  snapshot to the table. From it: `TypeCorrect`, `ReleasedPostsAreDated`,
  `OnlyUpdatesLeaveTheTable` (an action property; one step per action), and
  `LockedRequestsImplementLifecycle`, which assumes `"update" \notin Kinds` and
  maps every step to `Create`, `Move`, `Publish`, `Tick` or a stutter.
  `ScenarioInv` adds that no update is in flight in *locked*, which gives
  `LockedScenarioImplementsLifecycle`, and for *serial* that at most one request is in
  flight and that it is `Fresh`: what it read is still in the table and what its
  validation found still true. From it: `SerialUpdatesFreeze`,
  `SerialPublicationsHaveContent`, `SerialStatusesFollowTable`, `SerialDatesStay`.
* `SlugSaveProofs`. `IInv` is `TypeOK` and, for every save in flight, that the
  failures counted so far (less one when the slug was given) do not exceed the
  commits, strictly while a rival's commit is still to be counted. From it:
  `TypeCorrect` and `GivingUpNeedsRivals`.
  For `CreatesSpec`, `CreatesInv` adds
  that rows keep their slugs, so what a save has passed over or lost to stays
  taken (`KeptInv`), and that the commits and the saves in flight do not exceed the
  starts (`BudgetKept`, with the library's theorems on cardinality). From it:
  `FirstFreeIsTaken` (`SmallestSuffix`), and `NoSlugFailsACreation`: with no more saves
  than retries none exhausts them, and an error that is raised is that of another
  constraint. That needs that a rejected slug is still taken when `Resolve` looks,
  which `KeptInv` says. `MCFirstFreeIsTaken` and `MCNoSlugFailsACreation` state the
  same of the scenario *creates*.
* `UploadStorageProofs`. `IInv` is `TypeOK`, "prefix tracks visibility" in every
  row and in every copy a request holds, stored or in memory (a stale save
  writes such a copy), and "a locked row is there" (the cleanup waits for the
  lock), without which `CommitPair` could not be shown to write a row. `TypeOK`
  includes that a row is locked exactly while a request is inside
  `change_visibility`. From it: `TypeCorrect` and `PrefixFollowsVisibility`.
  `ContentInv(names)`, for names no two uploads share, says that all copies of a row
  have the row's name, that a request with the lock holds the row as it is, that only
  the upload's own content lies at its names, and that what `CheckFiles` saw and
  `MoveFile` left is still so. It gives `ContentStays` (`ContentRecoverable`) and
  `MovesFindTheirFile` (`MovedToFile`) of the module without the cleanup (`NoCleanup`)
  and with separate names (`NamesSeparate`), and `UncleanedContentStays` and
  `UncleanedMovesFindFile` of the scenario *uncleaned*. Both assumptions are needed:
  the cleanup deletes content, and a second upload of the same name may be overwritten.
  `SerialInv`, for *serial*, allows the names to be shared: a row's content is
  exactly where the row says, unless the one request is moving it or the cleanup has
  just deleted it; an upload without a row has no file but the one being stored; the
  request's copy is the row; and the cleanup touches only what expired. From it:
  `SerialFilesAreOwn` and `SerialUrlsAreGood`, for any number of uploads and names,
  with the cleanup between any two steps.
* `AccountsProofs`. `IInv` is `TypeOK`, `ChangeRevokes` (of tokens inserted before the change), "a token's row link is to
  the user it names, until the account is deleted" and "a role request was let in
  for an administrator who is not its target". The link is what the blacklisting
  loop follows, so without it revoking by row would say nothing of the user in
  the token. From it: `TypeCorrect`, `GoodTokensAreNew`, `MadeByOthers`,
  `LastDemotion`. `ProfilesAreComing` needs no more than "a user without a profile
  has a request that is about to make it", kept by every step but a crash.
* `ProfilesProofs`. `IInv` is `TypeOK` (with the lock) and "what a request has read
  of the links is still true": nobody commits while it holds the row. The lists are those of
  the assumptions: items in order, so that each part has a last item (`PartsHaveALast`),
  which `LatestIsOne` needs. Lemmas say
  what `Inserted`, `Updated`, `Patch` and `Put` make of a table. From it:
  `TypeCorrect`, `LinksAreOneRequests`, `MismatchIsPartial`,
  `QuerysetAndSerializerAgree`. For *serial*, "a request's copy of the profile is the
  row" gives `PatchKeepsWhatIsNotGiven`.
* `MetricIngestionProofs`. `IInv` is `TypeOK` and "each window pays for one record,
  stored or due": records plus the views that have added their key and not
  stored yet do not exceed the windows. It counts a finite set of views with
  the library's theorems on cardinality. From it: `TypeCorrect`, `CountedOnce`.
  `KeysAreOfVisitors` is about `EventKey` alone: a request whose address shows its
  network has the key of another, from any address, shortened or not, exactly if that
  one shows the same network and agrees in post, browser, system and device, for any
  texts between the separators. It takes the joined
  key apart again from its lengths. Two requests neither of which shows its network
  are not in it, because nothing true can be said of their visitors, nor are
  collisions of the hash. `CalmInv` adds, for *calm*, that a key
  in the cache has a record, stored or due, that a record has a view that stored it,
  and that a view past the dedup check has left its key in the cache unless it
  expired. With both, `OneRecordPerVisitor`, for views from any addresses.
* `ThrottleProofs`. `IInv` is `TypeOK`, that every history and every record of
  admissions is in the order of time, newest first, and that the young part of
  a history, and of what a request is about to write, is covered entry by entry by
  admissions: however writes overlap, a history never counts more than was admitted. From it:
  `TypeCorrect`, and `RefusalsAreEarned` (`NoFalseRefusal`). Lemmas say what `Recent`
  leaves of a list in order. For requests that do not overlap and find the cache up,
  `SerialInv` has the converse: what passed and is young is in the history, or in what
  the one request is about to write. From it: `SerialRequestsKeepRates`.
* `FileInspectionProofs`. `IInv` is `TypeOK`, `HeadIsPrefix` and, for every point of the
  code, what has been checked there of the file, the position and the answer.
  From it: `TypeCorrect`, `HeadIsTheBeginning`, `AnswersAreRight`.

Every safety property of a passing run is stated by one of these theorems. Model-checked
only: liveness (`EverySaveEnds`, `EveryTaskEnds`, `CountedWhenCalm`), which with ENABLED
and induction over data is out of this prover's reach, and the four properties that
runs violate.

## 6. Not modelled

* **Thumbnails and attachments of posts.** The code was read: a thumbnail is a
  unique foreign key set to null when its upload is deleted, attachments are a
  many-to-many table, both are written in one statement each, and what keeps
  them consistent is the database. A model would restate its constraints.
  Three behaviours worth knowing: a PATCH writes back the thumbnail
  it read (the full save `SaveUpdate` has); `add_attachments` counts its uploads
  when it validates and reads them again when it adds them; an attachment whose
  upload is soft-deleted stays linked and comes back with a restore.
* **Categories of posts, authors' accounts.** PROTECT and CASCADE are the
  database's; a category's slug is in `SlugSave`.
* **Pure code.** User-agent parsing, referrers, filters, encryption, text tools,
  rendering, API schemas, settings, routes, admin, deployment. `update_metadata`,
  `generate_slug` and the encryption helpers are called by no code outside the
  tests.
* **Passwords as strings.** Their strength and hashing; access tokens, which are
  never stored. Health and metric views only read.
* **Response codes**, except in `FileInspection`; a refused request leaves the
  tables as they were.
