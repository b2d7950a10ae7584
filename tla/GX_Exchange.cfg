SPECIFICATION Spec
CONSTANTS
  Kinds <- AllKinds
  RawOf <- MCRawOf
  BodyOf <- MCBodyOf
  ReplyOf <- MCReplyOf
  ChunkOf <- MCChunkOf
  AnswerOf <- MCAnswerOf
  MaxLines = 4
  HoldLines = 1
INVARIANTS
  RequestFailsClosed
  NoPiiUpstream
  StreamedInRange
  OneVerdict
  NothingForbiddenReleased
  EchoRestored
PROPERTY
  ImplementsStreamGate
CHECK_DEADLOCK FALSE
