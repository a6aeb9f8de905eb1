\* Two clients, two lines between them; fork() may fail at any time.
\* Clients may stop sending for good, and the machine may go down.
SPECIFICATION FairSpec
CONSTANTS
    c1 = c1
    c2 = c2
    Conn = {c1, c2}
    Main = Main
    NoConn = NoConn
    MaxLines = 2
INVARIANTS ShutdownOnlyIfAsked AckFirst NoDescriptorLeak Inv
PROPERTIES NothingAfterShutdown EveryoneServed IntentHonoured
CHECK_DEADLOCK FALSE
