------------------------------ MODULE PostStatus ------------------------------
(***************************************************************************)
(* The statuses of a blog post and the table of the transitions the code   *)
(* allows between them (apps/content/models/posts.py).  Timestamps are     *)
(* natural numbers; the database's NULL is the number 0.                   *)
(***************************************************************************)
EXTENDS Naturals

\* Post.Status
Statuses == {"draft", "published", "archived", "deleted"}

\* Post.ALLOWED_TRANSITIONS
AllowedTransitions ==
  [draft     |-> {"published", "deleted"},
   published |-> {"archived", "deleted"},
   archived  |-> {"draft", "deleted"},
   deleted   |-> {"draft"}]

\* published_at IS NULL
Never == 0

\* The two statuses of a post that has been shown to readers.
Released == {"published", "archived"}

===============================================================================
