\* One connection against the dispatcher, a worker, a writer, its timer and its peer:
\* connections share nothing but the lists of the manager.
SPECIFICATION FairSpec
CONSTANT Conns = {c1}
INVARIANTS TypeOK OneTask InputIsSeen OutputIsSeen TimeoutIsKept
PROPERTY ShutdownEnds
\* When the dispatcher has ended nothing happens any more.
CHECK_DEADLOCK FALSE
