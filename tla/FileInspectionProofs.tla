-------------------------- MODULE FileInspectionProofs --------------------------
(***************************************************************************)
(* Proofs about FileInspection: the types, the head of the stream and the  *)
(* answer, for every set of files, chunk, head and maximal size.           *)
(***************************************************************************)
EXTENDS FileInspection, TLAPS

-------------------------------------------------------------------------------
(* The inductive invariant                                                 *)

\* Until the strategy the answer is open; what has been checked by each step.
Unread == pos = 0 /\ size = 0 /\ hashed = 0 /\ head = <<>> /\ answer = NoAnswer

Reading ==
  /\ file.choices /\ file.named /\ answer = NoAnswer
  /\ size = pos /\ hashed = pos /\ pos <= file.size

Streamed ==
  /\ file.choices /\ file.named /\ answer = NoAnswer
  /\ size = file.size /\ hashed = file.size /\ 0 < size /\ size <= MaxSize

Typed == Streamed /\ mime = RightType(file) /\ mime \in AllowedMimes

Checked == Typed /\ file.extension \in AllowedExtensions[mime]

\* AnswerIsRight but for the position of the stream.
Answered ==
  /\ answer \in Refusal \cup Metadata
  /\ answer.kind = "metadata" <=> Acceptable(file)
  /\ answer.kind = "metadata" =>
       /\ answer.size = file.size /\ answer.hashed = file.size
       /\ answer.mime = RightType(file)
       /\ answer.image <=> answer.mime \in Images
  /\ answer.kind = "too_large" => file.size > MaxSize
  /\ answer.kind = "unsupported_type" => RightType(file) \notin AllowedMimes
  /\ answer.kind = "uncaught" => file.picture = "crash"

StepFacts ==
  /\ pc = "choices" => Unread
  /\ pc = "declared" => Unread /\ file.choices /\ file.named
  /\ pc = "read" => Reading
  /\ pc = "detect" => Streamed
  /\ pc = "extension" => Typed
  /\ pc = "strategy" => Checked
  /\ pc \in {"finally", "end"} => Answered
  /\ pc = "end" => pos = 0

IInv == TypeOK /\ HeadIsPrefix /\ StepFacts

-------------------------------------------------------------------------------
(* Lemmas                                                                  *)

LEMMA FileTypes ==
  ASSUME file \in Files
  PROVE  /\ file \in File
         /\ file.size \in Nat
         /\ file.choices \in BOOLEAN /\ file.named \in BOOLEAN /\ file.declared \in BOOLEAN
         /\ file.picture \in {"fine", "bomb", "broken", "crash"}
         /\ file.magic \in STRING /\ file.guess \in STRING
BY FilesAreFiles DEF File

\* The head after a chunk, the first bytes once more.
LEMMA HeadGrows ==
  ASSUME HeadIsPrefix, head \in Seq(Nat), pos \in Nat, size = pos, hashed = pos,
         NEW n \in Nat, n > 0
  PROVE  /\ HeadWith(Chunk(n)) \in Seq(Nat)
         /\ \A i \in 1..Len(HeadWith(Chunk(n))) : HeadWith(Chunk(n))[i] = i
         /\ Len(HeadWith(Chunk(n))) = IF pos + n < HeadSize THEN pos + n ELSE HeadSize
<1> DEFINE c == Chunk(n)
           k == SmallerOf(n, HeadSize - size)
           part == SubSeq(c, 1, k)
<1>1. c \in Seq(Nat) /\ Len(c) = n /\ \A i \in 1..n : c[i] = pos + i
  BY DEF Chunk
<1>2. CASE size < HeadSize
  <2>1. k \in 1..n /\ k <= HeadSize - size
    BY <1>2, SizesArePositive DEF SmallerOf
  <2>2. part \in Seq(Nat) /\ Len(part) = k /\ \A i \in 1..k : part[i] = pos + i
    BY <1>1, <2>1
  <2>3. Len(head) = pos
    BY <1>2 DEF HeadIsPrefix
  <2>4. HeadWith(c) = head \o part
    BY <1>1, <1>2 DEF HeadWith
  <2> HIDE DEF part, k, c
  <2>5. head \o part \in Seq(Nat) /\ Len(head \o part) = pos + k
    BY <2>2, <2>3
  <2>6. \A i \in 1..pos + k : (head \o part)[i] = i
    <3> SUFFICES ASSUME NEW i \in 1..pos + k PROVE (head \o part)[i] = i
      OBVIOUS
    <3>1. CASE i <= pos
      BY <3>1, <2>2, <2>3, <2>1 DEF HeadIsPrefix
    <3>2. CASE i > pos
      <4>1. i - pos \in 1..k
        BY <3>2, <2>1
      <4>2. (head \o part)[i] = part[i - pos]
        BY <3>2, <4>1, <2>2, <2>3
      <4> QED BY <4>1, <4>2, <2>2
    <3>3. i <= pos \/ i > pos
      BY <2>1
    <3> QED BY ONLY <3>1, <3>2, <3>3
  <2>7. pos + k = IF pos + n < HeadSize THEN pos + n ELSE HeadSize
    BY <2>1, <1>2, SizesArePositive DEF k, SmallerOf
  <2> QED BY <2>4, <2>5, <2>6, <2>7 DEF c
<1>3. CASE ~(size < HeadSize)
  BY <1>3, SizesArePositive DEF HeadWith, HeadIsPrefix
<1> QED BY <1>2, <1>3

LEMMA InitInv == Init => IInv
<1> SUFFICES ASSUME Init PROVE IInv
  OBVIOUS
<1>1. TypeOK
  BY SizesArePositive DEF Init, TypeOK, NoAnswer
<1>2. HeadIsPrefix
  BY SizesArePositive DEF Init, HeadIsPrefix
<1>3. StepFacts
  BY DEF Init, StepFacts, Unread
<1> QED BY <1>1, <1>2, <1>3 DEF IInv

\* Steps that leave the head and the hash alone keep HeadIsPrefix.
LEMMA HeadKept == HeadIsPrefix /\ UNCHANGED <<head, hashed>> => HeadIsPrefix'
BY DEF HeadIsPrefix

LEMMA CheckRequestInv == IInv /\ CheckRequest => IInv'
<1> SUFFICES ASSUME IInv, CheckRequest PROVE IInv'
  OBVIOUS
<1> USE DEF IInv
<1>1. HeadIsPrefix'
  BY HeadKept DEF CheckRequest
<1>2. Unread /\ file \in Files /\ file' = file
  BY DEF CheckRequest, StepFacts, TypeOK
<1>3. CASE UNCHANGED answer /\ pc' = "declared" /\ file.choices /\ file.named
  BY <1>1, <1>2, <1>3, FileTypes, SizesArePositive
     DEF CheckRequest, TypeOK, StepFacts, Unread, NoAnswer
<1>4. CASE /\ pc' = "end" /\ ~(file.choices /\ file.named)
           /\ answer' \in {[kind |-> "invalid_choice"], [kind |-> "invalid_file"]}
  <2>1. answer' \in Refusal /\ answer'.kind \in {"invalid_choice", "invalid_file"}
    BY <1>4 DEF Refusal, Errors, DomainErrors
  <2>2. Answered'
    BY <2>1, <1>2, <1>4 DEF Answered, Acceptable
  <2> QED BY <1>1, <1>2, <1>4, <2>1, <2>2 DEF CheckRequest, TypeOK, StepFacts, Unread
<1> QED BY <1>2, <1>3, <1>4 DEF CheckRequest, RefuseUnread

LEMMA CheckDeclaredSizeInv == IInv /\ CheckDeclaredSize => IInv'
<1> SUFFICES ASSUME IInv, CheckDeclaredSize PROVE IInv'
  OBVIOUS
<1> USE DEF IInv
<1>1. HeadIsPrefix'
  BY HeadKept DEF CheckDeclaredSize
<1>2. Unread /\ file \in Files /\ file' = file /\ file.choices /\ file.named
  BY DEF CheckDeclaredSize, StepFacts, TypeOK
<1>3. CASE pc' = "read" /\ pos' = 0 /\ UNCHANGED answer
  BY <1>1, <1>2, <1>3, FileTypes, SizesArePositive
     DEF CheckDeclaredSize, TypeOK, StepFacts, Unread, Reading
<1>4. CASE file.size > MaxSize /\ Refuse("too_large") /\ UNCHANGED pos
  <2>1. answer' \in Refusal /\ answer'.kind = "too_large"
    BY <1>4 DEF Refuse, Leave, Refusal, Errors, DomainErrors
  <2>2. Answered'
    BY <2>1, <1>2, <1>4, FileTypes, SizesArePositive DEF Answered, Acceptable
  <2> QED BY <1>1, <1>2, <1>4, <2>1, <2>2
          DEF CheckDeclaredSize, TypeOK, StepFacts, Unread, Refuse, Leave
<1> QED BY <1>3, <1>4 DEF CheckDeclaredSize

LEMMA ReadChunkInv ==
  ASSUME IInv, NEW n \in 1..ChunkSize, ReadChunk(n)
  PROVE  IInv'
<1> USE DEF IInv
<1>1. Reading /\ file \in Files /\ file' = file /\ pos \in Nat /\ head \in Seq(Nat)
  BY DEF ReadChunk, StepFacts, TypeOK
<1>2. n \in Nat /\ n > 0 /\ pos + n <= file.size /\ pos' = pos + n /\ size' = size + n
  BY <1>1, FileTypes, SizesArePositive DEF ReadChunk, SmallerOf, Reading
<1>3. pos <= MaxSize
  BY <1>1 DEF TypeOK, Reading
<1>4. CASE TooLong(n)
  <2>1. answer' \in Refusal /\ answer'.kind = "too_large" /\ pc' = "finally"
    BY <1>4 DEF ReadChunk, Refuse, Leave, Refusal, Errors, DomainErrors
  <2>2. file.size > MaxSize
    BY <1>1, <1>2, <1>4, FileTypes, SizesArePositive DEF TooLong, Reading
  <2>3. Answered'
    BY <2>1, <2>2, <1>1, FileTypes, SizesArePositive DEF Answered, Acceptable
  <2>4. HeadIsPrefix'
    BY <1>4, HeadKept DEF ReadChunk
  <2> QED BY <1>1, <1>2, <1>3, <1>4, <2>1, <2>3, <2>4, SizesArePositive
          DEF ReadChunk, TypeOK, StepFacts, Reading
<1>5. CASE ~TooLong(n)
  <2>1. head' = HeadWith(Chunk(n)) /\ hashed' = hashed + n /\ UNCHANGED <<pc, answer, mime>>
    BY <1>5 DEF ReadChunk
  <2>2. HeadIsPrefix' /\ head' \in Seq(Nat)
    BY <2>1, <1>1, <1>2, HeadGrows DEF HeadIsPrefix, Reading
  <2>3. size' <= MaxSize
    BY <1>2, <1>5, <1>1, SizesArePositive DEF TooLong, Reading
  <2> QED BY <1>1, <1>2, <2>1, <2>2, <2>3, SizesArePositive
          DEF ReadChunk, TypeOK, StepFacts, Reading
<1> QED BY <1>4, <1>5

LEMMA EndOfFileInv == IInv /\ EndOfFile => IInv'
<1> SUFFICES ASSUME IInv, EndOfFile PROVE IInv'
  OBVIOUS
<1> USE DEF IInv
<1>1. Reading /\ file \in Files /\ file' = file /\ pos \in Nat
  BY DEF EndOfFile, StepFacts, TypeOK
<1>2. HeadIsPrefix'
  BY HeadKept DEF EndOfFile
<1>3. size = file.size /\ size \in Nat /\ size <= MaxSize
  BY <1>1, FileTypes DEF EndOfFile, Reading, TypeOK
<1>4. CASE size = 0
  <2>1. answer' \in Refusal /\ answer'.kind = "invalid_file" /\ pc' = "finally"
    BY <1>4 DEF EndOfFile, Refuse, Leave, Refusal, Errors, DomainErrors
  <2>2. Answered'
    BY <2>1, <1>1, <1>3, <1>4 DEF Answered, Acceptable
  <2> QED BY <1>1, <1>2, <2>1, <2>2 DEF EndOfFile, TypeOK, StepFacts
<1>5. CASE size # 0
  BY <1>1, <1>2, <1>3, <1>5 DEF EndOfFile, TypeOK, StepFacts, Reading, Streamed
<1> QED BY <1>4, <1>5

LEMMA DetectMimeInv == IInv /\ DetectMime => IInv'
<1> SUFFICES ASSUME IInv, DetectMime PROVE IInv'
  OBVIOUS
<1> USE DEF IInv
<1>1. Streamed /\ file \in Files /\ file' = file
  BY DEF DetectMime, StepFacts, TypeOK
<1>2. HeadIsPrefix'
  BY HeadKept DEF DetectMime
<1>3. TypeOf(file) = RightType(file)
  BY DEF TypeOf, RightType
<1>4. CASE TypeOf(file) \in AllowedMimes
  BY <1>1, <1>2, <1>3, <1>4 DEF DetectMime, TypeOK, StepFacts, Streamed, Typed
<1>5. CASE TypeOf(file) \notin AllowedMimes
  <2>1. answer' \in Refusal /\ answer'.kind = "unsupported_type" /\ pc' = "finally"
    BY <1>5 DEF DetectMime, Refuse, Leave, Refusal, Errors, DomainErrors
  <2>2. Answered'
    BY <2>1, <1>1, <1>3, <1>5 DEF Answered, Acceptable
  <2> QED BY <1>1, <1>2, <1>5, <2>1, <2>2 DEF DetectMime, TypeOK, StepFacts
<1> QED BY <1>4, <1>5

LEMMA ValidateExtensionInv == IInv /\ ValidateExtension => IInv'
<1> SUFFICES ASSUME IInv, ValidateExtension PROVE IInv'
  OBVIOUS
<1> USE DEF IInv
<1>1. Typed /\ file \in Files /\ file' = file
  BY DEF ValidateExtension, StepFacts, TypeOK
<1>2. HeadIsPrefix'
  BY HeadKept DEF ValidateExtension
<1>3. CASE file.extension \in AllowedExtensions[mime]
  <2>1. Checked'
    BY <1>1, <1>3 DEF ValidateExtension, Typed, Streamed, Checked, RightType
  <2> QED BY <1>1, <1>2, <1>3, <2>1 DEF ValidateExtension, TypeOK, StepFacts
<1>4. CASE file.extension \notin AllowedExtensions[mime]
  <2>1. answer' \in Refusal /\ answer'.kind = "invalid_file" /\ pc' = "finally"
    BY <1>4 DEF ValidateExtension, Refuse, Leave, Refusal, Errors, DomainErrors
  <2>2. Answered'
    BY <2>1, <1>1, <1>4 DEF Answered, Acceptable, Typed
  <2> QED BY <1>1, <1>2, <1>4, <2>1, <2>2 DEF ValidateExtension, TypeOK, StepFacts
<1> QED BY <1>3, <1>4

\* The metadata of a file that has passed every check.
LEMMA BuiltIsRight ==
  ASSUME IInv, Checked, NEW image \in BOOLEAN,
         answer' = Built(image), image <=> mime \in Images,
         mime \in Images => file.picture = "fine", file' = file
  PROVE  Answered' /\ answer' \in Metadata
<1>1. file \in Files /\ mime \in AllowedMimes /\ size \in Nat /\ hashed \in Nat
  BY FileTypes DEF IInv, TypeOK, Checked, Typed, Streamed
<1>2. answer' \in Metadata
  BY <1>1 DEF Built, Metadata
<1>3. Acceptable(file)
  BY <1>1 DEF Acceptable, Checked, Typed, Streamed
<1>4. /\ answer'.kind = "metadata" /\ answer'.size = size /\ answer'.hashed = hashed
      /\ answer'.mime = mime /\ answer'.image = image
  BY DEF Built
<1> QED BY <1>2, <1>3, <1>4 DEF Answered, Checked, Typed, Streamed

LEMMA InspectInv == IInv /\ Inspect => IInv'
<1> SUFFICES ASSUME IInv, Inspect PROVE IInv'
  OBVIOUS
<1>1. Checked /\ file \in Files /\ file' = file /\ HeadIsPrefix /\ pos \in Nat
  BY DEF Inspect, IInv, StepFacts, TypeOK
<1>2. HeadIsPrefix'
  BY <1>1, HeadKept DEF Inspect
<1>3. pos' \in Nat
  <2>1. CASE mime \in Images
    <3>1. pos' \in 0..file.size
      BY <2>1 DEF Inspect
    <3> QED BY <3>1, <1>1, FileTypes
  <2>2. CASE mime \notin Images
    BY <2>2, <1>1 DEF Inspect
  <2> QED BY <2>1, <2>2
<1>4. pc' = "finally" /\ Answered' /\ answer' \in Refusal \cup Metadata
  <2>1. CASE mime \notin Images
    BY <2>1, <1>1, BuiltIsRight DEF Inspect, Leave
  <2>2. CASE mime \in Images /\ file.picture = "fine"
    BY <2>2, <1>1, BuiltIsRight DEF Inspect, Leave
  <2>3. CASE mime \in Images /\ file.picture \in {"bomb", "broken"}
    <3>1. answer' = [kind |-> "invalid_file"] /\ pc' = "finally"
      BY <2>3 DEF Inspect, Refuse, Leave
    <3>2. answer' \in Refusal /\ answer'.kind = "invalid_file"
      BY <3>1 DEF Refusal, Errors, DomainErrors
    <3> QED BY <3>1, <3>2, <2>3, <1>1 DEF Answered, Acceptable, Checked, Typed
  <2>4. CASE mime \in Images /\ file.picture = "crash"
    <3>1. answer' = [kind |-> "uncaught"] /\ pc' = "finally"
      BY <2>4 DEF Inspect, Refuse, Leave
    <3>2. answer' \in Refusal /\ answer'.kind = "uncaught"
      BY <3>1 DEF Refusal, Errors, DomainErrors
    <3> QED BY <3>1, <3>2, <2>4, <1>1 DEF Answered, Acceptable, Checked, Typed
  <2> QED BY <2>1, <2>2, <2>3, <2>4, <1>1, FileTypes
<1> QED BY <1>1, <1>2, <1>3, <1>4 DEF Inspect, IInv, TypeOK, StepFacts

LEMMA RewindInv == IInv /\ Rewind => IInv'
BY HeadKept DEF IInv, Rewind, TypeOK, StepFacts, Answered, Acceptable, RightType

LEMMA StutterInv == IInv /\ UNCHANGED vars => IInv'
BY DEF IInv, vars, TypeOK, HeadIsPrefix, StepFacts, Unread, Reading, Streamed, Typed,
       Checked, Answered, Acceptable, RightType

LEMMA StepInv == IInv /\ [Next]_vars => IInv'
BY CheckRequestInv, CheckDeclaredSizeInv, ReadChunkInv, EndOfFileInv, DetectMimeInv,
   ValidateExtensionInv, InspectInv, RewindInv, StutterInv DEF Next

LEMMA Invariant == Spec => []IInv
BY InitInv, StepInv, PTL DEF Spec

-------------------------------------------------------------------------------
(* Theorems                                                                *)

\* Every variable keeps its type; no stream is read further than a chunk
\* beyond the limit.
THEOREM TypeCorrect == Spec => []TypeOK
<1>1. IInv => TypeOK
  BY DEF IInv
<1> QED BY <1>1, Invariant, PTL

\* Whatever the reads return, the head is the beginning of the stream.
THEOREM HeadIsTheBeginning == Spec => []HeadIsPrefix
<1>1. IInv => HeadIsPrefix
  BY DEF IInv
<1> QED BY <1>1, Invariant, PTL

\* process accepts exactly the files it should, with the metadata of all of
\* their bytes, and always rewinds them.
THEOREM AnswersAreRight == Spec => []AnswerIsRight
<1>1. IInv => AnswerIsRight
  <2> SUFFICES ASSUME IInv, pc = "end" PROVE AnswerIsRight
    BY DEF AnswerIsRight
  <2>1. Answered /\ pos = 0
    BY DEF IInv, StepFacts
  <2>2. Status = 500 => file.picture = "crash"
    BY <2>1 DEF Status, Answered, Refusal, Metadata, Errors, DomainErrors
  <2> QED BY <2>1, <2>2 DEF AnswerIsRight, Answered
<1> QED BY <1>1, Invariant, PTL

===============================================================================
