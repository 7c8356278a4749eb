---------------------------- MODULE MCFileInspection ----------------------------
(***************************************************************************)
(* Instances of FileInspection for TLC.                                    *)
(***************************************************************************)
EXTENDS FileInspection, TLC

Extensions == UNION {AllowedExtensions[t] : t \in AllowedMimes} \cup {"exe", ""}

\* mimetypes.guess_type
GuessFor(ext) ==
  IF \E t \in AllowedMimes : ext \in AllowedExtensions[t]
  THEN CHOOSE t \in AllowedMimes : ext \in AllowedExtensions[t]
  ELSE IF ext = "exe" THEN "application/x-msdos-program" ELSE Silent

Named(ext, bytes, declared, magic, picture, choices) ==
  [named |-> TRUE, size |-> bytes, declared |-> declared, extension |-> ext,
   magic |-> magic, guess |-> GuessFor(ext), picture |-> picture, choices |-> choices]

\* Every type against every extension at one size; every size and every picture
\* for three of them; a file without a name and a bad choice.
MCFiles ==
  {Named(ext, 2, TRUE, magic, "fine", TRUE) :
     ext \in Extensions, magic \in AllowedMimes \cup {"application/zip", Silent}}
  \cup {Named("png", bytes, declared, magic, picture, TRUE) :
     bytes \in 0..MaxSize + 2, declared \in BOOLEAN, magic \in {"image/png", "text/plain", Silent},
     picture \in {"fine", "bomb", "broken", "crash"}}
  \cup {Named("txt", 1, TRUE, "text/plain", "broken", FALSE),
        [Named("", 0, TRUE, Silent, "broken", TRUE) EXCEPT !.named = FALSE]}

===============================================================================
