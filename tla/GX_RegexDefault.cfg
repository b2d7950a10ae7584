SPECIFICATION Spec
CONSTANTS
  Kinds = {"regex"}
  RawOf <- MCRawOf
  BodyOf <- MCBodyOf
  ReplyOf <- MCReplyOf
  ChunkOf <- MCChunkOf
  AnswerOf <- MCAnswerOf
  MaxLines = 4
  HoldLines = 1
INVARIANT
  SplitPatternCaught
CHECK_DEADLOCK FALSE
