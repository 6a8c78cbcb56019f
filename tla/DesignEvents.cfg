SPECIFICATION FairSpec
CONSTANTS
    NoStream = NoStream
    Streams = {s1}
    Threads = {t1, t2}
    MaxEvents = 3
CHECK_DEADLOCK FALSE
INVARIANTS StreamsSound
PROPERTIES StreamsServe
