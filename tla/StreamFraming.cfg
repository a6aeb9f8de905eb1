\* Pipelined requests, bodies of up to three units, a buffer of two; read()
\* and write() may fail at any chunk.
\* The client may stop sending for good.
SPECIFICATION FairSpec
CONSTANTS
    MaxRequests = 3
    MaxBody = 3
    Chunk = 2
INVARIANTS DaemonFramed ClientFramed Inv
PROPERTIES Answered ImplementsExchange
CHECK_DEADLOCK FALSE
