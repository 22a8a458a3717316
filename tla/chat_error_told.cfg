CONSTANTS
  Callers <- StreamAndJob
  Streams <- OneStream
  Jobs <- OneJob
  Readers <- TwoReaders
  Watched <- OneStream
  MappedTools <- Web
  Threads <- SomeThreads
  MaxConcurrent = 1
  MaxAttempts = 2
  MaxRetries = 1
  MaxChunks <- OneChunk
  Calls <- TwoCalls
  MaxFaults = 1

SPECIFICATION Spec

INVARIANT StreamErrorsAreTold

\* Once the stream is over and read, nothing is left to do.
CHECK_DEADLOCK FALSE
