\* A file becomes shorter while get_file sends it.
\* The client may stop sending for good.
SPECIFICATION Spec
CONSTANTS
    MaxRequests = 2
    MaxBody = 3
    Chunk = 2
INVARIANTS ExactlyAsAnnounced
CHECK_DEADLOCK FALSE
