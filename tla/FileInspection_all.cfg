\* Chunks smaller than the head, which is smaller than the limit.
SPECIFICATION Spec
CONSTANTS
  Files <- MCFiles
  ChunkSize = 2
  HeadSize = 3
  MaxSize = 5
INVARIANTS TypeOK HeadIsPrefix AnswerIsRight
\* Every inspection ends.
CHECK_DEADLOCK FALSE
