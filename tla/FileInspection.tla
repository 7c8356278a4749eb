----------------------------- MODULE FileInspection -----------------------------
(***************************************************************************)
(* What UploadService.create_upload does with a file before it stores it:  *)
(* FileProcessor reads the stream once, in chunks, for its size, its hash  *)
(* and its first bytes, takes the MIME type from those bytes or, if they   *)
(* say nothing, from the name, holds the extension against it, opens       *)
(* images, and leaves the stream at its start on every way out.            *)
(***************************************************************************)
EXTENDS Integers, Sequences

CONSTANTS
  Files,      \* the files that may be sent
  ChunkSize,  \* chunk_size of _stream_file
  HeadSize,   \* 2048
  MaxSize     \* max_size of the processor

AllowedMimes == {"image/jpeg", "image/png", "image/gif", "image/webp",
                 "application/pdf", "text/plain", "video/mp4", "audio/mpeg"}

\* ALLOWED_MIME_EXTENSIONS
AllowedExtensions ==
  [mime \in AllowedMimes |->
    CASE mime = "image/jpeg"      -> {"jpg", "jpeg"}
      [] mime = "image/png"       -> {"png"}
      [] mime = "image/gif"       -> {"gif"}
      [] mime = "image/webp"      -> {"webp"}
      [] mime = "application/pdf" -> {"pdf"}
      [] mime = "text/plain"      -> {"txt"}
      [] mime = "video/mp4"       -> {"mp4"}
      [] mime = "audio/mpeg"      -> {"mp3"}]

Images == {"image/jpeg", "image/png", "image/gif", "image/webp"}
Silent == "silent"

\* named: the file object is truthy; declared: it has a size; magic: what
\* libmagic makes of the head (silent when it fails); guess: what mimetypes
\* makes of the name; picture: what PIL makes of the content.
File == [named : BOOLEAN, size : Nat, declared : BOOLEAN, extension : STRING,
         magic : STRING, guess : STRING, picture : {"fine", "bomb", "broken", "crash"},
         choices : BOOLEAN]

ASSUME FilesAreFiles == Files \subseteq File
ASSUME SizesArePositive == /\ ChunkSize \in Nat \ {0} /\ HeadSize \in Nat \ {0}
                           /\ MaxSize \in Nat \ {0}

VARIABLES
  file,    \* the file that was sent
  pc,      \* the next step
  pos,     \* the position of the stream
  size,    \* the bytes counted so far
  head,    \* the first bytes, each of them named by its position
  hashed,  \* how many bytes the hash has seen
  mime,    \* the detected type
  answer   \* the metadata, or the exception

vars == <<file, pc, pos, size, head, hashed, mime, answer>>

-------------------------------------------------------------------------------
DomainErrors == {"invalid_choice", "invalid_file", "too_large", "unsupported_type"}
Errors == DomainErrors \cup {"uncaught"}
NoAnswer == [kind |-> "none"]
Refusal == [kind : Errors]
Metadata == [kind : {"metadata"}, mime : AllowedMimes, size : Nat, hashed : Nat, image : BOOLEAN]

Init ==
  /\ file \in Files
  /\ pc = "choices"
  /\ pos = 0 /\ size = 0 /\ hashed = 0
  /\ head = <<>>
  /\ mime = Silent
  /\ answer = NoAnswer

\* Inside the try: the finally clause still rewinds the stream.
Leave(a) == answer' = a /\ pc' = "finally"
Refuse(error) == Leave([kind |-> error])

\* Before the try, and in the service.
RefuseUnread(error) == answer' = [kind |-> error] /\ pc' = "end"

\* _validate_choices, _validate_file and the first lines of process
CheckRequest ==
  /\ pc = "choices"
  /\ \/ ~file.choices /\ RefuseUnread("invalid_choice")
     \/ file.choices /\ ~file.named /\ RefuseUnread("invalid_file")
     \/ file.choices /\ file.named /\ pc' = "declared" /\ UNCHANGED answer
  /\ UNCHANGED <<file, pos, size, head, hashed, mime>>

CheckDeclaredSize ==
  /\ pc = "declared"
  /\ IF file.declared /\ file.size > MaxSize
     THEN Refuse("too_large") /\ UNCHANGED pos
     ELSE pc' = "read" /\ pos' = 0 /\ UNCHANGED answer
  /\ UNCHANGED <<file, size, head, hashed, mime>>

\* The next n bytes of the stream.
Chunk(n) == [i \in 1..n |-> pos + i]

SmallerOf(a, b) == IF a <= b THEN a ELSE b

\* Mutant: what the head has already is not deducted.
HeadWithRest(chunk) ==
  IF size < HeadSize THEN head \o SubSeq(chunk, 1, SmallerOf(Len(chunk), HeadSize)) ELSE head

\* head += chunk[: 2048 - previous_size]
HeadWith(chunk) ==
  IF size < HeadSize
  THEN head \o SubSeq(chunk, 1, SmallerOf(Len(chunk), HeadSize - size))
  ELSE head

\* Mutant: the limit is compared before the chunk is counted.
TooLongBefore(n) == size > MaxSize

TooLong(n) == size + n > MaxSize

\* A read gives at least one byte and at most a chunk, until the end.
ReadChunk(n) ==
  /\ pc = "read"
  /\ n \in 1..SmallerOf(ChunkSize, file.size - pos)
  /\ pos' = pos + n
  /\ size' = size + n
  /\ IF TooLong(n)
     THEN Refuse("too_large") /\ UNCHANGED <<head, hashed>>
     ELSE /\ head' = HeadWith(Chunk(n))
          /\ hashed' = hashed + n
          /\ UNCHANGED <<pc, answer>>
  /\ UNCHANGED <<file, mime>>

EndOfFile ==
  /\ pc = "read"
  /\ pos >= file.size
  /\ IF size = 0 THEN Refuse("invalid_file") ELSE pc' = "detect" /\ UNCHANGED answer
  /\ UNCHANGED <<file, pos, size, head, hashed, mime>>

\* Mutant: the name is believed first.
TypeByName(f) == IF f.guess # Silent THEN f.guess ELSE f.magic

\* magic.from_buffer, and mimetypes.guess_type when it fails
TypeOf(f) == IF f.magic # Silent THEN f.magic ELSE f.guess

DetectMime ==
  /\ pc = "detect"
  /\ IF TypeOf(file) \in AllowedMimes
     THEN pc' = "extension" /\ mime' = TypeOf(file) /\ UNCHANGED answer
     ELSE Refuse("unsupported_type") /\ UNCHANGED mime
  /\ UNCHANGED <<file, pos, size, head, hashed>>

\* validate_extension; an absent extension is in no set either.
ValidateExtension ==
  /\ pc = "extension"
  /\ IF file.extension \in AllowedExtensions[mime]
     THEN pc' = "strategy" /\ pos' = 0 /\ UNCHANGED answer
     ELSE Refuse("invalid_file") /\ UNCHANGED pos
  /\ UNCHANGED <<file, size, head, hashed, mime>>

\* What process returns.
Built(image) ==
  [kind |-> "metadata", mime |-> mime, size |-> size, hashed |-> hashed, image |-> image]

\* DefaultStrategy, or ImageStrategy with the exceptions it knows; an image
\* library may raise others.  PIL leaves the stream where it likes.
Inspect ==
  /\ pc = "strategy"
  /\ IF mime \notin Images THEN Leave(Built(FALSE)) /\ UNCHANGED pos
     ELSE /\ pos' \in 0..file.size
          /\ CASE file.picture = "fine"                -> Leave(Built(TRUE))
               [] file.picture \in {"bomb", "broken"}  -> Refuse("invalid_file")
               [] file.picture = "crash"               -> Refuse("uncaught")
  /\ UNCHANGED <<file, size, head, hashed, mime>>

\* Mutant: only a success rewinds the stream.
RewindAccepted ==
  /\ pc = "finally"
  /\ pos' = IF answer.kind = "metadata" THEN 0 ELSE pos
  /\ pc' = "end"
  /\ UNCHANGED <<file, size, head, hashed, mime, answer>>

Rewind ==
  /\ pc = "finally"
  /\ pos' = 0
  /\ pc' = "end"
  /\ UNCHANGED <<file, size, head, hashed, mime, answer>>

\* custom_exception_handler: domain errors are the client's, others are not.
Status ==
  CASE answer.kind = "metadata"     -> 201
    [] answer.kind \in DomainErrors -> 400
    [] answer.kind = "uncaught"     -> 500

Next ==
  \/ CheckRequest \/ CheckDeclaredSize
  \/ \E n \in 1..ChunkSize : ReadChunk(n)
  \/ EndOfFile \/ DetectMime \/ ValidateExtension \/ Inspect \/ Rewind

Spec == Init /\ [][Next]_vars

-------------------------------------------------------------------------------
(* Properties                                                              *)

\* Every variable has its type, and no stream takes the reader further than a
\* chunk beyond the limit, whatever size it declares.
TypeOK ==
  /\ file \in Files
  /\ pc \in {"choices", "declared", "read", "detect", "extension", "strategy",
             "finally", "end"}
  /\ pos \in Nat /\ size \in 0..MaxSize + ChunkSize
  /\ head \in Seq(Nat) /\ hashed \in 0..MaxSize
  /\ mime \in AllowedMimes \cup {Silent}
  /\ answer \in Refusal \cup Metadata \cup {NoAnswer}

\* However the reads cut the stream, the head is its first bytes, each once and
\* in order, as many as there are up to HeadSize (_stream_file).
HeadIsPrefix ==
  /\ \A i \in 1..Len(head) : head[i] = i
  /\ Len(head) = IF hashed < HeadSize THEN hashed ELSE HeadSize

\* What a file is: the content decides, and the name if the content is silent.
RightType(f) == IF f.magic = Silent THEN f.guess ELSE f.magic

Acceptable(f) ==
  /\ f.choices /\ f.named
  /\ 0 < f.size /\ f.size <= MaxSize
  /\ RightType(f) \in AllowedMimes
  /\ f.extension \in AllowedExtensions[RightType(f)]
  /\ RightType(f) \in Images => f.picture = "fine"

\* A file is accepted exactly if it is not empty, within the limit, of an
\* allowed type by its content (by its name only if the content is silent), with
\* an extension of that type and, if an image, one PIL can open; the metadata
\* describes all of it; and the stream is back at its start, accepted or not.
AnswerIsRight ==
  pc = "end" =>
    /\ answer.kind = "metadata" <=> Acceptable(file)
    /\ answer.kind = "metadata" =>
         /\ answer.size = file.size /\ answer.hashed = file.size
         /\ answer.mime = RightType(file)
         /\ answer.image <=> answer.mime \in Images
    /\ answer.kind = "too_large" => file.size > MaxSize
    /\ answer.kind = "unsupported_type" => RightType(file) \notin AllowedMimes
    /\ Status = 500 => file.picture = "crash"
    /\ pos = 0

===============================================================================
