-------------------------------- MODULE Accounts --------------------------------
(***************************************************************************)
(* The users table, the profiles that come with it and the refresh tokens, *)
(* under concurrent requests (apps/accounts and the token endpoints).      *)
(*                                                                         *)
(* Roles and passwords have operations of their own, which write one       *)
(* column; a PUT or PATCH of a user writes the whole row from the snapshot *)
(* it was read with, and inserts it again when it is gone.  A change of    *)
(* password revokes the refresh tokens in its own transaction: the X lock  *)
(* on the row keeps new tokens, whose foreign key needs the row, out of it.*)
(***************************************************************************)
EXTENDS Naturals, FiniteSets

CONSTANTS
  Users,      \* primary keys the table may come to hold
  Founders,   \* the administrators made by createsuperuser
  Requests,   \* slots for requests in flight
  Tokens,     \* refresh tokens that may be issued: bounds the sessions
  Kinds,      \* which operations happen
  MaxChanges, \* bound on the changes of one password
  Nobody

AllKinds == {"update", "role", "password", "create", "delete",
             "login", "refresh", "logout", "crash"}

ASSUME FoundersAreUsers == Founders \subseteq Users
ASSUME KindsKnown == Kinds \subseteq AllKinds
ASSUME MaxChangesIsNat == MaxChanges \in Nat
ASSUME NobodyIsNobody == Nobody \notin Users \cup Tokens

VARIABLES
  users,     \* the users table
  profiles,  \* the users who have a profile row
  tokens,    \* the outstanding tokens and whether they are blacklisted
  changes,   \* how often each password was changed
  reqs       \* what each request slot is doing

vars == <<users, profiles, tokens, changes, reqs>>

-------------------------------------------------------------------------------
Roles == {"admin", "editor"}

\* A password is named by the number of the change that set it.
Row == [role : Roles, password : Nat]
NoUser == [role |-> "none", password |-> 0]

\* user is the claim inside the token, row the foreign key of its table row
\* (null once the account is deleted), era the changes made when it was issued.
Token == [user : Users, row : Users \cup {Nobody}, valid : BOOLEAN, era : Nat]
NoToken == [valid |-> FALSE, user |-> Nobody]

Idle == [pc |-> "idle"]
Request ==
  {Idle}
  \cup [pc : {"update"}, user : Users, snap : Row]
  \cup [pc : {"role"}, actor : Users, rank : Roles, user : Users, snap : Row, role : Roles]
  \cup [pc : {"password"}, user : Users]
  \cup [pc : {"delete"}, user : Users, profile : BOOLEAN]
  \cup [pc : {"inserted", "issue"}, user : Users]
  \cup [pc : {"rotate"}, user : Users, token : Tokens]

Init ==
  /\ users = [u \in Users |-> IF u \in Founders THEN [role |-> "admin", password |-> 0]
                              ELSE NoUser]
  /\ profiles = Founders
  /\ tokens = [t \in Tokens |-> NoToken]
  /\ changes = [u \in Users |-> 0]
  /\ reqs = [r \in Requests |-> Idle]

Exists(u) == users[u] # NoUser
IsAdmin(u) == users[u].role = "admin"

-------------------------------------------------------------------------------
(* Reading: authentication, permissions, get_object, validation            *)

Load(r, kind, request) ==
  /\ kind \in Kinds
  /\ reqs[r] = Idle
  /\ reqs' = [reqs EXCEPT ![r] = request]
  /\ UNCHANGED <<users, profiles, tokens, changes>>

\* Administrators act on everybody, everybody on himself (me, me/change-password).
MayActOn(a, u) == Exists(a) /\ Exists(u) /\ (IsAdmin(a) \/ a = u)

LoadUpdate(r, a, u) ==
  MayActOn(a, u) /\ Load(r, "update", [pc |-> "update", user |-> u, snap |-> users[u]])

\* me/change-password checks the old password of this snapshot;
\* force_password_change asks for none.
LoadPassword(r, a, u) ==
  MayActOn(a, u) /\ Load(r, "password", [pc |-> "password", user |-> u])

\* Mutant: the role of the requester is not looked at.
MayChangeRoleAnyone(a, u) == Exists(a) /\ a # u /\ Exists(u)

\* Mutant: an administrator may change his own role.
MayChangeRoleOwn(a, u) == IsAdmin(a) /\ Exists(u)

\* CanChangeUserRole
MayChangeRole(a, u) == IsAdmin(a) /\ a # u /\ Exists(u)

LoadRole(r, a, u, role) ==
  /\ MayChangeRole(a, u)
  /\ Load(r, "role", [pc |-> "role", actor |-> a, rank |-> users[a].role,
                      user |-> u, snap |-> users[u], role |-> role])

\* The deletion collects the profile that goes with the user first.
LoadDelete(r, a, u) ==
  /\ IsAdmin(a) /\ Exists(u)
  /\ Load(r, "delete", [pc |-> "delete", user |-> u, profile |-> u \in profiles])

\* The password was right; the token is yet to be issued.
LoadLogin(r, u) == Exists(u) /\ Load(r, "login", [pc |-> "issue", user |-> u])

\* The token is not blacklisted and its user exists.
LoadRefresh(r, t) ==
  /\ tokens[t].valid /\ Exists(tokens[t].user)
  /\ Load(r, "refresh", [pc |-> "rotate", user |-> tokens[t].user, token |-> t])

-------------------------------------------------------------------------------
(* Writing                                                                 *)

Done(r) == reqs' = [reqs EXCEPT ![r] = Idle]

\* A primary key that was never used (or that nothing remembers).
Fresh(u) ==
  /\ ~Exists(u) /\ changes[u] = 0
  /\ \A t \in Tokens : tokens[t].user # u
  /\ \A r \in Requests : reqs[r] # Idle => reqs[r].user # u

\* Mutant: the role comes from the request.
NewRolesAny == Roles

\* UserCreateSerializer.create forces the role.
NewRoles == {"editor"}

InsertUser(r, a, u) ==
  /\ "create" \in Kinds
  /\ reqs[r] = Idle
  /\ IsAdmin(a) /\ Fresh(u)
  /\ \E role \in NewRoles : users' = [users EXCEPT ![u] = [role |-> role, password |-> 0]]
  /\ reqs' = [reqs EXCEPT ![r] = [pc |-> "inserted", user |-> u]]
  /\ UNCHANGED <<profiles, tokens, changes>>

\* Mutant: the signal is heeded for new accounts only.
SaveUpdateSilently(r) ==
  /\ reqs[r].pc = "update"
  /\ users' = [users EXCEPT ![reqs[r].user] = reqs[r].snap]
  /\ Done(r)
  /\ UNCHANGED <<profiles, tokens, changes>>

\* serializer.save: every column, and an INSERT (with its signal) if need be.
SaveUpdate(r) ==
  /\ reqs[r].pc = "update"
  /\ LET u == reqs[r].user IN
     /\ users' = [users EXCEPT ![u] = reqs[r].snap]
     /\ IF Exists(u) THEN Done(r)
        ELSE reqs' = [reqs EXCEPT ![r] = [pc |-> "inserted", user |-> u]]
  /\ UNCHANGED <<profiles, tokens, changes>>

\* post_save: the profile, in a transaction of its own; the foreign key
\* refuses it when the user is gone.
CreateProfile(r) ==
  /\ reqs[r].pc = "inserted"
  /\ profiles' = IF Exists(reqs[r].user) THEN profiles \cup {reqs[r].user} ELSE profiles
  /\ Done(r)
  /\ UNCHANGED <<users, tokens, changes>>

\* change_user_role: the check for the last administrator is for oneself only.
RoleChangeRefused(q) ==
  \/ q.snap.role = q.role
  \/ ~Exists(q.user)
  \/ /\ q.actor = q.user /\ q.role # "admin"
     /\ Cardinality({u \in Users : IsAdmin(u)}) <= 1

ChangeRole(r) ==
  /\ reqs[r].pc = "role"
  /\ users' = IF RoleChangeRefused(reqs[r]) THEN users
              ELSE [users EXCEPT ![reqs[r].user].role = reqs[r].role]
  /\ Done(r)
  /\ UNCHANGED <<profiles, tokens, changes>>

\* Mutant: nothing is revoked.
RevokedNot(u) == tokens

\* _blacklist_user_tokens
Revoked(u) ==
  [t \in Tokens |-> IF tokens[t] # NoToken /\ tokens[t].row = u
                    THEN [tokens[t] EXCEPT !.valid = FALSE] ELSE tokens[t]]

ChangePassword(r) ==
  /\ reqs[r].pc = "password"
  /\ LET u == reqs[r].user IN
     IF Exists(u)
     THEN /\ changes[u] < MaxChanges
          /\ changes' = [changes EXCEPT ![u] = @ + 1]
          /\ users' = [users EXCEPT ![u].password = changes[u] + 1]
          /\ tokens' = Revoked(u)
     ELSE UNCHANGED <<users, tokens, changes>>
  /\ Done(r)
  /\ UNCHANGED profiles

\* The profile goes with the user; one inserted since it was collected makes
\* the deletion fail.  The tokens lose their foreign key, not their life.
DeleteUser(r) ==
  /\ reqs[r].pc = "delete"
  /\ LET u == reqs[r].user IN
     IF u \in profiles /\ ~reqs[r].profile
     THEN UNCHANGED <<users, profiles, tokens>>
     ELSE /\ users' = [users EXCEPT ![u] = NoUser]
          /\ profiles' = profiles \ {u}
          /\ tokens' = [t \in Tokens |-> IF tokens[t] # NoToken /\ tokens[t].row = u
                                         THEN [tokens[t] EXCEPT !.row = Nobody]
                                         ELSE tokens[t]]
  /\ Done(r)
  /\ UNCHANGED changes

\* BLACKLIST_AFTER_ROTATION
Rotate(r) ==
  /\ reqs[r].pc = "rotate"
  /\ tokens' = [tokens EXCEPT ![reqs[r].token].valid = FALSE]
  /\ reqs' = [reqs EXCEPT ![r] = [pc |-> "issue", user |-> reqs[r].user]]
  /\ UNCHANGED <<users, profiles, changes>>

\* The outstanding token of a login or a refresh is inserted.
Issue(r, t) ==
  /\ reqs[r].pc = "issue"
  /\ tokens[t] = NoToken
  /\ LET u == reqs[r].user IN
     tokens' = IF Exists(u)
               THEN [tokens EXCEPT ![t] = [user |-> u, row |-> u, valid |-> TRUE,
                                           era |-> changes[u]]]
               ELSE tokens
  /\ Done(r)
  /\ UNCHANGED <<users, profiles, changes>>

\* POST /token/blacklist/
Logout(t) ==
  /\ "logout" \in Kinds
  /\ tokens[t].valid
  /\ tokens' = [tokens EXCEPT ![t].valid = FALSE]
  /\ UNCHANGED <<users, profiles, changes, reqs>>

Crash(r) ==
  /\ "crash" \in Kinds
  /\ reqs[r] # Idle
  /\ Done(r)
  /\ UNCHANGED <<users, profiles, tokens, changes>>

-------------------------------------------------------------------------------
Begin(r) ==
  \/ \E a, u \in Users :
       \/ LoadUpdate(r, a, u) \/ LoadPassword(r, a, u) \/ LoadDelete(r, a, u)
       \/ \E role \in Roles : LoadRole(r, a, u, role)
       \/ InsertUser(r, a, u)
  \/ \E u \in Users : LoadLogin(r, u)
  \/ \E t \in Tokens : LoadRefresh(r, t)

Finish(r) ==
  \/ SaveUpdate(r) \/ CreateProfile(r) \/ ChangeRole(r) \/ ChangePassword(r)
  \/ DeleteUser(r) \/ Rotate(r)
  \/ \E t \in Tokens : Issue(r, t)

\* What the handlers do while no worker dies.
Work == (\E r \in Requests : Begin(r) \/ Finish(r)) \/ \E t \in Tokens : Logout(t)

Next == Work \/ \E r \in Requests : Crash(r)

Spec == Init /\ [][Next]_vars

-------------------------------------------------------------------------------
(* Properties                                                              *)

\* Every variable has its type, profiles belong to existing users (the
\* foreign key), and nobody is about to change his own role.
TypeOK ==
  /\ users \in [Users -> Row \cup {NoUser}]
  /\ profiles \subseteq {u \in Users : Exists(u)}
  /\ tokens \in [Tokens -> Token \cup {NoToken}]
  /\ changes \in [Users -> Nat]
  /\ reqs \in [Requests -> Request]
  /\ \A r \in Requests : reqs[r].pc = "role" => reqs[r].actor # reqs[r].user

\* A refresh token that is still good was inserted after the last change of its
\* user's password (_blacklist_user_tokens in both password services), however
\* logins, rotations and changes overlap.  It says nothing of a login or rotation
\* that was let in before the change and inserts its token after it: that token
\* stays good.  The tokens the table no longer links to the account, because it
\* was deleted, are out of its reach.
ChangeRevokes ==
  \A t \in Tokens :
    tokens[t].valid /\ tokens[t].row # Nobody => tokens[t].era = changes[tokens[t].user]

\* Request r writes back the row of u as it had read it.
PutBackBy(r, u) == reqs[r].pc = "update" /\ reqs[r].user = u /\ users'[u] = reqs[r].snap

\* Nobody becomes an administrator by being created, by an update of his own
\* or by his own request for it: only by the role endpoint in the hands of
\* somebody else (CanChangeUserRole), or because an update puts an old row back.
AdminsAreMadeByOthers ==
  [][\A u \in Users : ~IsAdmin(u) /\ users'[u].role = "admin" =>
       \E r \in Requests :
         \/ reqs[r].pc = "role" /\ reqs[r].user = u /\ reqs[r].actor # u
         \/ PutBackBy(r, u)]_vars

\* A change of role leaves no administrator behind only when its actor was an
\* administrator when the request began and has lost that role, or the account,
\* since (CanChangeUserRole, change_user_role).
LastDemotionIsStale ==
  [][\A r \in Requests :
       /\ reqs[r].pc = "role" /\ reqs'[r] = Idle
       /\ \E u \in Users : IsAdmin(u)
       /\ \A u \in Users : users'[u].role # "admin"
       => reqs[r].rank = "admin" /\ ~IsAdmin(reqs[r].actor)]_vars

\* Every user has a profile or a request about to create it (signals.py),
\* also when an update inserts a deleted user again.
ProfileOrPending ==
  \A u \in Users : Exists(u) /\ u \notin profiles =>
    \E r \in Requests : reqs[r].pc = "inserted" /\ reqs[r].user = u

\* No change of role leaves the blog without an administrator.
LastAdminKept ==
  [][\A r \in Requests :
       reqs[r].pc = "role" /\ reqs'[r] = Idle /\ (\E u \in Users : IsAdmin(u)) =>
         \E u \in Users : users'[u].role = "admin"]_vars

===============================================================================
