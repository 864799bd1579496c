------------------------- MODULE ConnectionsProofs -------------------------
(***************************************************************************)
(* What the runs of Connections show of one connection, for any number of  *)
(* them.  The five safety properties are proved together from one          *)
(* inductive invariant.                                                    *)
(***************************************************************************)
EXTENDS Connections, TLAPS

\* What is true of a connection until it is accepted.
Fresh ==
  \A c \in Conns \ born :
    /\ ~held[c] /\ ~closed[c] /\ ~noRead[c] /\ ~out[c] /\ ~writing[c]
    /\ sock[c] = {} /\ events[c] = {}

\* While no worker has it, epoll reports the input of an open connection.
InputIsWatched ==
  \A c \in all : ~held[c] /\ ~noRead[c] /\ ~closed[c] => "READ" \in interest[c]

\* Nothing is left over between two turns of the dispatcher.
BatchIsTaken == dispatcher # "caught" => \A c \in Conns : batch[c] = {}

\* A worker past the test for a timeout has none left to look at, or gives up.
TimeoutIsTested ==
  \A c \in all :
    /\ pc[c] \in {"rotate", "release"} => "TIMEOUT" \notin events[c]
    /\ pc[c] = "finish" /\ "TIMEOUT" \in events[c] => failed[c]

IInv ==
  /\ TypeOK /\ OneTask /\ Fresh /\ BatchIsTaken
  /\ InputIsWatched /\ InputIsSeen /\ OutputIsSeen
  /\ TimeoutIsTested /\ TimeoutIsKept

-----------------------------------------------------------------------------
\* What TcpConnection::watch asks for and what epoll reports are kinds of events.
LEMMA InterestType == \A c \in Conns : Interest(c) \in SUBSET Kinds
  BY DEF Interest, Kinds
\* epoll_wait reports events of the kinds there are.
LEMMA ReportedType == \A s, asked : Reported(s, asked) \in SUBSET Kinds
  BY DEF Reported, Conditions, Kinds

\* An open connection is watched for input, and for space if it has output.
LEMMA WatchesInput ==
  \A c \in Conns : ~closed[c] /\ ~noRead[c] => "READ" \in Interest(c)
  BY DEF Interest
\* A connection that has output asks epoll for space.
LEMMA WatchesOutput ==
  \A c \in Conns : ~closed[c] /\ ~failed[c] /\ out[c] => "WRITE" \in Interest(c)
  BY DEF Interest

\* Epoll reports both to whoever asks.
LEMMA ReportsInput ==
  \A s, asked : "input" \in s /\ "READ" \in asked => "READ" \in Reported(s, asked)
  BY DEF Reported, Conditions
\* EPOLL_CTL_MOD reports space that is there already.
LEMMA ReportsSpace ==
  \A s, asked : "full" \notin s /\ "WRITE" \in asked => "WRITE" \in Reported(s, asked)
  BY DEF Reported, Conditions

-----------------------------------------------------------------------------
\* A new connection is watched for input from its first moment.
LEMMA AcceptKeeps ==
  ASSUME IInv, NEW c \in Conns, Accept(c)
  PROVE  IInv'
<1>1. TypeOK'
  BY InterestType, ReportedType DEF TypeOK, Kinds, Flags, Accept, IInv, manager, state,
       kernel
<1>2. OneTask' /\ Fresh' /\ BatchIsTaken'
  BY DEF TypeOK, OneTask, Fresh, BatchIsTaken, Accept, IInv, manager, state, kernel,
       Interest
<1>3. InputIsWatched' /\ InputIsSeen'
  BY WatchesInput, ReportsInput DEF TypeOK, OneTask, Fresh, BatchIsTaken, InputIsWatched,
       InputIsSeen, Attended, Accept, IInv, manager, state, kernel, Interest
<1>4. OutputIsSeen'
  BY WatchesOutput, ReportsSpace DEF TypeOK, OneTask, Fresh, BatchIsTaken, OutputIsSeen,
       Attended, Accept, IInv, manager, state, kernel, Interest
<1>5. TimeoutIsTested' /\ TimeoutIsKept'
  BY DEF TypeOK, OneTask, Fresh, TimeoutIsTested, TimeoutIsKept, Accept, IInv, manager,
       state, kernel, Interest
<1> QED BY <1>1, <1>2, <1>3, <1>4, <1>5 DEF IInv

\* Input raises an edge, for epoll watches an open connection that no worker has.
LEMMA PeerSendsKeeps ==
  ASSUME IInv, NEW c \in Conns, PeerSends(c)
  PROVE  IInv'
<1>1. TypeOK'
  BY DEF TypeOK, Kinds, Flags, PeerSends, Peer, IInv, manager, state, kernel
<1>2. OneTask' /\ Fresh' /\ BatchIsTaken'
  BY DEF TypeOK, OneTask, Fresh, BatchIsTaken, PeerSends, Peer, IInv, manager, state,
       kernel
<1>3. InputIsWatched' /\ InputIsSeen'
  BY DEF TypeOK, OneTask, Fresh, BatchIsTaken, InputIsWatched, InputIsSeen, Attended,
       PeerSends, Peer, IInv, manager, state, kernel
<1>4. OutputIsSeen'
  BY DEF TypeOK, OneTask, Fresh, BatchIsTaken, OutputIsSeen, Attended, PeerSends, Peer,
       IInv, manager, state, kernel
<1>5. TimeoutIsTested' /\ TimeoutIsKept'
  BY DEF TypeOK, OneTask, Fresh, TimeoutIsTested, TimeoutIsKept, PeerSends, Peer, IInv,
       manager, state, kernel
<1> QED BY <1>1, <1>2, <1>3, <1>4, <1>5 DEF IInv

\* The peer closes its side.
LEMMA PeerEndsKeeps ==
  ASSUME IInv, NEW c \in Conns, PeerEnds(c)
  PROVE  IInv'
<1>1. TypeOK'
  BY DEF TypeOK, Kinds, Flags, PeerEnds, Peer, IInv, manager, state, kernel
<1>2. OneTask' /\ Fresh' /\ BatchIsTaken'
  BY DEF TypeOK, OneTask, Fresh, BatchIsTaken, PeerEnds, Peer, IInv, manager, state, kernel
<1>3. InputIsWatched' /\ InputIsSeen'
  BY DEF TypeOK, OneTask, Fresh, BatchIsTaken, InputIsWatched, InputIsSeen, Attended,
       PeerEnds, Peer, IInv, manager, state, kernel
<1>4. OutputIsSeen'
  BY DEF TypeOK, OneTask, Fresh, BatchIsTaken, OutputIsSeen, Attended, PeerEnds, Peer,
       IInv, manager, state, kernel
<1>5. TimeoutIsTested' /\ TimeoutIsKept'
  BY DEF TypeOK, OneTask, Fresh, TimeoutIsTested, TimeoutIsKept, PeerEnds, Peer, IInv,
       manager, state, kernel
<1> QED BY <1>1, <1>2, <1>3, <1>4, <1>5 DEF IInv

\* The peer resets the connection.
LEMMA PeerResetsKeeps ==
  ASSUME IInv, NEW c \in Conns, PeerResets(c)
  PROVE  IInv'
<1>1. TypeOK'
  BY DEF TypeOK, Kinds, Flags, PeerResets, Peer, IInv, manager, state, kernel
<1>2. OneTask' /\ Fresh' /\ BatchIsTaken'
  BY DEF TypeOK, OneTask, Fresh, BatchIsTaken, PeerResets, Peer, IInv, manager, state,
       kernel
<1>3. InputIsWatched' /\ InputIsSeen'
  BY DEF TypeOK, OneTask, Fresh, BatchIsTaken, InputIsWatched, InputIsSeen, Attended,
       PeerResets, Peer, IInv, manager, state, kernel
<1>4. OutputIsSeen'
  BY DEF TypeOK, OneTask, Fresh, BatchIsTaken, OutputIsSeen, Attended, PeerResets, Peer,
       IInv, manager, state, kernel
<1>5. TimeoutIsTested' /\ TimeoutIsKept'
  BY DEF TypeOK, OneTask, Fresh, TimeoutIsTested, TimeoutIsKept, PeerResets, Peer, IInv,
       manager, state, kernel
<1> QED BY <1>1, <1>2, <1>3, <1>4, <1>5 DEF IInv

\* Space raises an edge where output waits for it.
LEMMA PeerReadsKeeps ==
  ASSUME IInv, NEW c \in Conns, PeerReads(c)
  PROVE  IInv'
<1>1. TypeOK'
  BY DEF TypeOK, Kinds, Flags, PeerReads, Peer, IInv, manager, state, kernel
<1>2. OneTask' /\ Fresh' /\ BatchIsTaken'
  BY DEF TypeOK, OneTask, Fresh, BatchIsTaken, PeerReads, Peer, IInv, manager, state,
       kernel
<1>3. InputIsWatched' /\ InputIsSeen'
  BY DEF TypeOK, OneTask, Fresh, BatchIsTaken, InputIsWatched, InputIsSeen, Attended,
       PeerReads, Peer, IInv, manager, state, kernel
<1>4. OutputIsSeen'
  BY DEF TypeOK, OneTask, Fresh, BatchIsTaken, OutputIsSeen, Attended, PeerReads, Peer,
       IInv, manager, state, kernel
<1>5. TimeoutIsTested' /\ TimeoutIsKept'
  BY DEF TypeOK, OneTask, Fresh, TimeoutIsTested, TimeoutIsKept, PeerReads, Peer, IInv,
       manager, state, kernel
<1> QED BY <1>1, <1>2, <1>3, <1>4, <1>5 DEF IInv

\* The edges it takes are all in the batch.
LEMMA EpollWaitKeeps ==
  ASSUME IInv, EpollWait
  PROVE  IInv'
<1>1. TypeOK'
  BY InterestType, ReportedType DEF TypeOK, Kinds, Flags, EpollWait, IInv, manager, state,
       kernel
<1>2. OneTask' /\ Fresh' /\ BatchIsTaken'
  BY DEF TypeOK, OneTask, Fresh, BatchIsTaken, EpollWait, IInv, manager, state, kernel
<1>3. InputIsWatched' /\ InputIsSeen'
  BY WatchesInput, ReportsInput DEF TypeOK, OneTask, Fresh, BatchIsTaken, InputIsWatched,
       InputIsSeen, Attended, EpollWait, IInv, manager, state, kernel
<1>4. OutputIsSeen'
  BY WatchesOutput, ReportsSpace DEF TypeOK, OneTask, Fresh, BatchIsTaken, OutputIsSeen,
       Attended, EpollWait, IInv, manager, state, kernel
<1>5. TimeoutIsTested' /\ TimeoutIsKept'
  BY DEF TypeOK, OneTask, Fresh, TimeoutIsTested, TimeoutIsKept, EpollWait, IInv, manager,
       state, kernel
<1> QED BY <1>1, <1>2, <1>3, <1>4, <1>5 DEF IInv

\* The batch goes to the ready connections; what a worker has is postponed.
LEMMA CatchKeeps ==
  ASSUME IInv, Catch
  PROVE  IInv'
<1>1. TypeOK'
  BY DEF TypeOK, Kinds, Flags, Catch, Insert, IInv, manager, state, kernel
<1>2. OneTask' /\ Fresh' /\ BatchIsTaken'
  BY DEF TypeOK, OneTask, Fresh, BatchIsTaken, Catch, Insert, IInv, manager, state, kernel
<1>3. InputIsWatched' /\ InputIsSeen'
  BY DEF TypeOK, OneTask, Fresh, BatchIsTaken, InputIsWatched, InputIsSeen, Attended,
       Catch, Insert, IInv, manager, state, kernel
<1>4. OutputIsSeen'
  BY DEF TypeOK, OneTask, Fresh, BatchIsTaken, OutputIsSeen, Attended, Catch, Insert, IInv,
       manager, state, kernel
<1>5. TimeoutIsTested' /\ TimeoutIsKept'
  BY DEF TypeOK, OneTask, Fresh, TimeoutIsTested, TimeoutIsKept, Catch, Insert, IInv,
       manager, state, kernel
<1> QED BY <1>1, <1>2, <1>3, <1>4, <1>5 DEF IInv

\* The first worker a connection is given is the only one.
LEMMA CaptureKeeps ==
  ASSUME IInv, NEW c \in Conns, Capture(c)
  PROVE  IInv'
<1>1. TypeOK'
  BY DEF TypeOK, Kinds, Flags, Capture, IInv, manager, state, kernel
<1>2. OneTask' /\ Fresh' /\ BatchIsTaken'
  BY DEF TypeOK, OneTask, Fresh, BatchIsTaken, Capture, IInv, manager, state, kernel
<1>3. InputIsWatched' /\ InputIsSeen'
  BY DEF TypeOK, OneTask, Fresh, BatchIsTaken, InputIsWatched, InputIsSeen, Attended,
       Capture, IInv, manager, state, kernel
<1>4. OutputIsSeen'
  BY DEF TypeOK, OneTask, Fresh, BatchIsTaken, OutputIsSeen, Attended, Capture, IInv,
       manager, state, kernel
<1>5. TimeoutIsTested' /\ TimeoutIsKept'
  BY DEF TypeOK, OneTask, Fresh, TimeoutIsTested, TimeoutIsKept, Capture, IInv, manager,
       state, kernel
<1> QED BY <1>1, <1>2, <1>3, <1>4, <1>5 DEF IInv

\* dispatch() returns when nothing is left.
LEMMA DispatchEndsKeeps ==
  ASSUME IInv, DispatchEnds
  PROVE  IInv'
<1>1. TypeOK'
  BY DEF TypeOK, Kinds, Flags, DispatchEnds, IInv, manager, state, kernel
<1>2. OneTask' /\ Fresh' /\ BatchIsTaken'
  BY DEF TypeOK, OneTask, Fresh, BatchIsTaken, DispatchEnds, IInv, manager, state, kernel
<1>3. InputIsWatched' /\ InputIsSeen'
  BY DEF TypeOK, OneTask, Fresh, BatchIsTaken, InputIsWatched, InputIsSeen, Attended,
       DispatchEnds, IInv, manager, state, kernel
<1>4. OutputIsSeen'
  BY DEF TypeOK, OneTask, Fresh, BatchIsTaken, OutputIsSeen, Attended, DispatchEnds, IInv,
       manager, state, kernel
<1>5. TimeoutIsTested' /\ TimeoutIsKept'
  BY DEF TypeOK, OneTask, Fresh, TimeoutIsTested, TimeoutIsKept, DispatchEnds, IInv,
       manager, state, kernel
<1> QED BY <1>1, <1>2, <1>3, <1>4, <1>5 DEF IInv

\* The daemon tells the dispatcher to stop.
LEMMA ShutdownKeeps ==
  ASSUME IInv, Shutdown
  PROVE  IInv'
<1>1. TypeOK'
  BY DEF TypeOK, Kinds, Flags, Shutdown, IInv, manager, state, kernel
<1>2. OneTask' /\ Fresh' /\ BatchIsTaken'
  BY DEF TypeOK, OneTask, Fresh, BatchIsTaken, Shutdown, IInv, manager, state, kernel
<1>3. InputIsWatched' /\ InputIsSeen'
  BY DEF TypeOK, OneTask, Fresh, BatchIsTaken, InputIsWatched, InputIsSeen, Attended,
       Shutdown, IInv, manager, state, kernel
<1>4. OutputIsSeen'
  BY DEF TypeOK, OneTask, Fresh, BatchIsTaken, OutputIsSeen, Attended, Shutdown, IInv,
       manager, state, kernel
<1>5. TimeoutIsTested' /\ TimeoutIsKept'
  BY DEF TypeOK, OneTask, Fresh, TimeoutIsTested, TimeoutIsKept, Shutdown, IInv, manager,
       state, kernel
<1> QED BY <1>1, <1>2, <1>3, <1>4, <1>5 DEF IInv

\* The timeout is kept with the connection, whoever has it.
LEMMA RingKeeps ==
  ASSUME IInv, NEW c \in Conns, Ring(c)
  PROVE  IInv'
<1>1. TypeOK'
  BY DEF TypeOK, Kinds, Flags, Ring, Registered, Append, Insert, IInv, manager, state,
       kernel
<1>2. OneTask' /\ Fresh' /\ BatchIsTaken'
  BY DEF TypeOK, OneTask, Fresh, BatchIsTaken, Ring, Registered, Append, Insert, IInv,
       manager, state, kernel
<1>3. InputIsWatched' /\ InputIsSeen'
  BY DEF TypeOK, OneTask, Fresh, BatchIsTaken, InputIsWatched, InputIsSeen, Attended, Ring,
       Registered, Append, Insert, IInv, manager, state, kernel
<1>4. OutputIsSeen'
  BY DEF TypeOK, OneTask, Fresh, BatchIsTaken, OutputIsSeen, Attended, Ring, Registered,
       Append, Insert, IInv, manager, state, kernel
<1>5. TimeoutIsTested' /\ TimeoutIsKept'
  BY DEF TypeOK, OneTask, Fresh, TimeoutIsTested, TimeoutIsKept, Ring, Registered, Append,
       Insert, IInv, manager, state, kernel
<1> QED BY <1>1, <1>2, <1>3, <1>4, <1>5 DEF IInv

\* A writer of another thread adds to the output.
LEMMA WriteKeeps ==
  ASSUME IInv, NEW c \in Conns, Write(c)
  PROVE  IInv'
<1>1. TypeOK'
  BY DEF TypeOK, Kinds, Flags, Write, IInv, manager, state, kernel
<1>2. OneTask' /\ Fresh' /\ BatchIsTaken'
  BY DEF TypeOK, OneTask, Fresh, BatchIsTaken, Write, IInv, manager, state, kernel
<1>3. InputIsWatched' /\ InputIsSeen'
  BY DEF TypeOK, OneTask, Fresh, BatchIsTaken, InputIsWatched, InputIsSeen, Attended,
       Write, IInv, manager, state, kernel
<1>4. OutputIsSeen'
  BY DEF TypeOK, OneTask, Fresh, BatchIsTaken, OutputIsSeen, Attended, Write, IInv,
       manager, state, kernel
<1>5. TimeoutIsTested' /\ TimeoutIsKept'
  BY DEF TypeOK, OneTask, Fresh, TimeoutIsTested, TimeoutIsKept, Write, IInv, manager,
       state, kernel
<1> QED BY <1>1, <1>2, <1>3, <1>4, <1>5 DEF IInv

\* Watching again reports what has not been seen, unless a worker has it.
LEMMA WatchAfterWriteKeeps ==
  ASSUME IInv, NEW c \in Conns, WatchAfterWrite(c)
  PROVE  IInv'
<1>1. TypeOK'
  BY InterestType, ReportedType DEF TypeOK, Kinds, Flags, WatchAfterWrite, Modify, IInv,
       manager, state, kernel
<1>2. OneTask' /\ Fresh' /\ BatchIsTaken'
  BY DEF TypeOK, OneTask, Fresh, BatchIsTaken, WatchAfterWrite, Modify, IInv, manager,
       state, kernel
<1>3. InputIsWatched' /\ InputIsSeen'
  <2>1. CASE held[c] \/ c \notin all
    BY <2>1 DEF WatchAfterWrite, IInv, TypeOK, OneTask, Fresh, BatchIsTaken,
        InputIsWatched, InputIsSeen, Attended, manager, state, kernel, Modify
  <2>2. CASE ~held[c] /\ c \in all
    <3>1. /\ interest'[c] = Interest(c)
          /\ signal'[c] = (Reported(sock[c], Interest(c)) # {})
          /\ \A d \in Conns \ {c} : interest'[d] = interest[d] /\ signal'[d] = signal[d]
      BY <2>2 DEF WatchAfterWrite, Modify, IInv, TypeOK
    <3>2. /\ UNCHANGED <<all, captured, ready, batch, held, events, noRead, closed, failed, out, sock>>
          /\ writing' = [writing EXCEPT ![c] = FALSE]
      BY <2>2 DEF WatchAfterWrite, IInv, TypeOK, manager, state, kernel
    <3>3. ASSUME NEW d \in all, d # c
          PROVE  /\ ~held'[d] /\ ~noRead[d] /\ ~closed[d] => "READ" \in interest'[d]
                 /\ "input" \in sock[d] /\ ~noRead[d] /\ ~closed[d] => Attended(d, "READ")'
      BY <3>1, <3>2, <3>3 DEF IInv, TypeOK, InputIsWatched, InputIsSeen, Attended
    <3>4. /\ ~closed[c] /\ ~noRead[c] => "READ" \in interest'[c]
          /\ ~closed[c] /\ ~noRead[c] /\ "input" \in sock[c] => signal'[c]
      <4>1. ~closed[c] /\ ~noRead[c] => "READ" \in Interest(c)
        BY <2>2, WatchesInput DEF IInv, TypeOK
      <4>2. ~closed[c] /\ ~noRead[c] /\ "input" \in sock[c] => Reported(sock[c], Interest(c)) # {}
        BY <4>1, ReportsInput
      <4> QED BY <3>1, <4>1, <4>2
    <3> QED
      BY <2>2, <3>2, <3>3, <3>4 DEF InputIsWatched, InputIsSeen, Attended
  <2> QED BY <2>1, <2>2
<1>4. OutputIsSeen'
  <2>1. CASE held[c] \/ c \notin all
    BY <2>1 DEF WatchAfterWrite, IInv, TypeOK, OneTask, Fresh, OutputIsSeen,
        Attended, manager, state, kernel, Modify
  <2>2. CASE ~held[c] /\ c \in all
    <3>1. /\ interest'[c] = Interest(c)
          /\ signal'[c] = (Reported(sock[c], Interest(c)) # {})
          /\ \A d \in Conns \ {c} : interest'[d] = interest[d] /\ signal'[d] = signal[d]
      BY <2>2 DEF WatchAfterWrite, Modify, IInv, TypeOK
    <3>2. /\ UNCHANGED <<all, captured, ready, batch, held, events, noRead, closed, failed, out, sock>>
          /\ writing' = [writing EXCEPT ![c] = FALSE]
      BY <2>2 DEF WatchAfterWrite, IInv, TypeOK, manager, state, kernel
    <3>3. ASSUME NEW d \in all, d # c, out[d], ~closed[d], ~failed[d]
          PROVE  \/ writing'[d] \/ Attended(d, "WRITE")'
                 \/ "full" \in sock'[d] /\ "WRITE" \in interest'[d]
      BY <3>1, <3>2, <3>3 DEF IInv, TypeOK, OutputIsSeen, Attended
    <3>4. ~closed[c] /\ out[c] /\ ~failed[c] =>
            "WRITE" \in interest'[c] /\ ("full" \notin sock[c] => signal'[c])
      <4>1. ~closed[c] /\ out[c] /\ ~failed[c] => "WRITE" \in Interest(c)
        BY <2>2, WatchesOutput DEF IInv, TypeOK
      <4>2. ~closed[c] /\ out[c] /\ ~failed[c] /\ "full" \notin sock[c] =>
              Reported(sock[c], Interest(c)) # {}
        BY <4>1, ReportsSpace
      <4> QED BY <3>1, <4>1, <4>2
    <3> QED
      BY <2>2, <3>2, <3>3, <3>4 DEF OutputIsSeen, Attended
  <2> QED BY <2>1, <2>2
<1>5. TimeoutIsTested' /\ TimeoutIsKept'
  BY DEF TypeOK, OneTask, Fresh, TimeoutIsTested, TimeoutIsKept, WatchAfterWrite, Modify,
       IInv, manager, state, kernel
<1> QED BY <1>1, <1>2, <1>3, <1>4, <1>5 DEF IInv

\* A worker begins the processing of a connection it was handed.
LEMMA BeginKeeps ==
  ASSUME IInv, NEW c \in Conns, Begin(c)
  PROVE  IInv'
<1>1. TypeOK'
  BY DEF TypeOK, Kinds, Flags, Begin, IInv, manager, state, kernel
<1>2. OneTask' /\ Fresh' /\ BatchIsTaken'
  BY DEF TypeOK, OneTask, Fresh, BatchIsTaken, Begin, IInv, manager, state, kernel
<1>3. InputIsWatched' /\ InputIsSeen'
  BY DEF TypeOK, OneTask, Fresh, BatchIsTaken, InputIsWatched, InputIsSeen, Attended,
       Begin, IInv, manager, state, kernel
<1>4. OutputIsSeen'
  BY DEF TypeOK, OneTask, Fresh, BatchIsTaken, OutputIsSeen, Attended, Begin, IInv,
       manager, state, kernel
<1>5. TimeoutIsTested' /\ TimeoutIsKept'
  BY DEF TypeOK, OneTask, Fresh, TimeoutIsTested, TimeoutIsKept, Begin, IInv, manager,
       state, kernel
<1> QED BY <1>1, <1>2, <1>3, <1>4, <1>5 DEF IInv

\* A turn of processing() that ends its loop at once.
LEMMA GiveUpKeeps ==
  ASSUME IInv, NEW c \in Conns, GiveUp(c)
  PROVE  IInv'
<1>1. TypeOK'
  BY DEF TypeOK, Kinds, Flags, GiveUp, IInv, manager, state, kernel
<1>2. OneTask' /\ Fresh' /\ BatchIsTaken'
  BY DEF TypeOK, OneTask, Fresh, BatchIsTaken, GiveUp, IInv, manager, state, kernel
<1>3. InputIsWatched' /\ InputIsSeen'
  BY DEF TypeOK, OneTask, Fresh, BatchIsTaken, InputIsWatched, InputIsSeen, Attended,
       GiveUp, IInv, manager, state, kernel
<1>4. OutputIsSeen'
  BY DEF TypeOK, OneTask, Fresh, BatchIsTaken, OutputIsSeen, Attended, GiveUp, IInv,
       manager, state, kernel
<1>5. TimeoutIsTested' /\ TimeoutIsKept'
  BY DEF TypeOK, OneTask, Fresh, TimeoutIsTested, TimeoutIsKept, GiveUp, IInv, manager,
       state, kernel
<1> QED BY <1>1, <1>2, <1>3, <1>4, <1>5 DEF IInv

\* Everything a worker does meanwhile concerns a captured connection.
LEMMA ServeKeeps ==
  ASSUME IInv, NEW c \in Conns, Serve(c)
  PROVE  IInv'
<1>1. TypeOK'
  BY DEF TypeOK, Kinds, Flags, Serve, Ended, IInv, manager, state, kernel
<1>2. OneTask' /\ Fresh' /\ BatchIsTaken'
  BY DEF TypeOK, OneTask, Fresh, BatchIsTaken, Serve, Ended, IInv, manager, state, kernel
<1>3. InputIsWatched' /\ InputIsSeen'
  BY DEF TypeOK, OneTask, Fresh, BatchIsTaken, InputIsWatched, InputIsSeen, Attended,
       Serve, Ended, IInv, manager, state, kernel
<1>4. OutputIsSeen'
  BY DEF TypeOK, OneTask, Fresh, BatchIsTaken, OutputIsSeen, Attended, Serve, Ended, IInv,
       manager, state, kernel
<1>5. TimeoutIsTested' /\ TimeoutIsKept'
  BY DEF TypeOK, OneTask, Fresh, TimeoutIsTested, TimeoutIsKept, Serve, Ended, IInv,
       manager, state, kernel
<1> QED BY <1>1, <1>2, <1>3, <1>4, <1>5 DEF IInv

\* rotateEvents takes over what was postponed.
LEMMA RotateKeeps ==
  ASSUME IInv, NEW c \in Conns, Rotate(c)
  PROVE  IInv'
<1>1. TypeOK'
  BY DEF TypeOK, Kinds, Flags, Rotate, Rotated, IInv, manager, state, kernel
<1>2. OneTask' /\ Fresh' /\ BatchIsTaken'
  BY DEF TypeOK, OneTask, Fresh, BatchIsTaken, Rotate, Rotated, IInv, manager, state,
       kernel
<1>3. InputIsWatched' /\ InputIsSeen'
  BY DEF TypeOK, OneTask, Fresh, BatchIsTaken, InputIsWatched, InputIsSeen, Attended,
       Rotate, Rotated, IInv, manager, state, kernel
<1>4. OutputIsSeen'
  BY DEF TypeOK, OneTask, Fresh, BatchIsTaken, OutputIsSeen, Attended, Rotate, Rotated,
       IInv, manager, state, kernel
<1>5. TimeoutIsTested' /\ TimeoutIsKept'
  BY DEF TypeOK, OneTask, Fresh, TimeoutIsTested, TimeoutIsKept, Rotate, Rotated, IInv,
       manager, state, kernel
<1> QED BY <1>1, <1>2, <1>3, <1>4, <1>5 DEF IInv

\* A connection that gave up is removed; one that goes on had no timeout left.
LEMMA FinishKeeps ==
  ASSUME IInv, NEW c \in Conns, Finish(c)
  PROVE  IInv'
<1>1. TypeOK'
  BY DEF TypeOK, Kinds, Flags, Finish, Closes, IInv, manager, state, kernel
<1>2. OneTask' /\ Fresh' /\ BatchIsTaken'
  BY DEF TypeOK, OneTask, Fresh, BatchIsTaken, Finish, Closes, IInv, manager, state, kernel
<1>3. InputIsWatched' /\ InputIsSeen'
  BY DEF TypeOK, OneTask, Fresh, BatchIsTaken, InputIsWatched, InputIsSeen, Attended,
       Finish, Closes, IInv, manager, state, kernel
<1>4. OutputIsSeen'
  BY DEF TypeOK, OneTask, Fresh, BatchIsTaken, OutputIsSeen, Attended, Finish, Closes,
       IInv, manager, state, kernel
<1>5. TimeoutIsTested' /\ TimeoutIsKept'
  BY DEF TypeOK, OneTask, Fresh, TimeoutIsTested, TimeoutIsKept, Finish, Closes, IInv,
       manager, state, kernel
<1> QED BY <1>1, <1>2, <1>3, <1>4, <1>5 DEF IInv

\* The events that are dropped here are reported again, but for the timeout, which is
\* not among them.
LEMMA ReleaseKeeps ==
  ASSUME IInv, NEW c \in Conns, Release(c)
  PROVE  IInv'
<1>1. TypeOK'
  <2>1. interest' \in [Conns -> SUBSET Kinds] /\ signal' \in [Conns -> BOOLEAN]
    BY InterestType DEF Release, Rewatch, Modify, IInv, TypeOK
  <2> QED
    BY <2>1 DEF Release, IInv, TypeOK, Kinds, Flags
<1>2. OneTask' /\ Fresh' /\ BatchIsTaken'
  BY DEF TypeOK, OneTask, Fresh, BatchIsTaken, Release, Rewatch, Modify, IInv, manager,
       state, kernel
<1>3. InputIsWatched' /\ InputIsSeen'
  <2>1. CASE closed[c] \/ c \notin all
    BY <2>1 DEF Release, IInv, TypeOK, OneTask, Fresh, BatchIsTaken,
        InputIsWatched, InputIsSeen, Attended, manager, state, kernel,
        Rewatch, Modify
  <2>2. CASE ~closed[c] /\ c \in all
    <3>1. /\ interest'[c] = Interest(c)
          /\ signal'[c] = (Reported(sock[c], Interest(c)) # {})
          /\ \A d \in Conns \ {c} : interest'[d] = interest[d] /\ signal'[d] = signal[d]
      BY <2>2 DEF Release, Modify, IInv, TypeOK, Rewatch
    <3>2. /\ UNCHANGED <<all, ready, batch, noRead, closed, failed, out, sock, writing>>
          /\ captured' = captured \ {c} /\ held' = [held EXCEPT ![c] = FALSE]
          /\ events' = [events EXCEPT ![c] = {}]
      BY <2>2 DEF Release, IInv, TypeOK, manager, state, kernel
    <3>3. ASSUME NEW d \in all, d # c
          PROVE  /\ ~held'[d] /\ ~noRead[d] /\ ~closed[d] => "READ" \in interest'[d]
                 /\ "input" \in sock[d] /\ ~noRead[d] /\ ~closed[d] => Attended(d, "READ")'
      BY <3>1, <3>2, <3>3 DEF IInv, TypeOK, InputIsWatched, InputIsSeen, Attended
    <3>4. /\ ~closed[c] /\ ~noRead[c] => "READ" \in interest'[c]
          /\ ~closed[c] /\ ~noRead[c] /\ "input" \in sock[c] => signal'[c]
      <4>1. ~closed[c] /\ ~noRead[c] => "READ" \in Interest(c)
        BY <2>2, WatchesInput DEF IInv, TypeOK
      <4>2. ~closed[c] /\ ~noRead[c] /\ "input" \in sock[c] => Reported(sock[c], Interest(c)) # {}
        BY <4>1, ReportsInput
      <4> QED BY <3>1, <4>1, <4>2
    <3> QED
      BY <2>2, <3>2, <3>3, <3>4 DEF InputIsWatched, InputIsSeen, Attended
  <2> QED BY <2>1, <2>2
<1>4. OutputIsSeen'
  <2>1. CASE closed[c] \/ c \notin all
    BY <2>1 DEF Release, IInv, TypeOK, OneTask, Fresh, OutputIsSeen,
        Attended, manager, state, kernel,
        Rewatch, Modify
  <2>2. CASE ~closed[c] /\ c \in all
    <3>1. /\ interest'[c] = Interest(c)
          /\ signal'[c] = (Reported(sock[c], Interest(c)) # {})
          /\ \A d \in Conns \ {c} : interest'[d] = interest[d] /\ signal'[d] = signal[d]
      BY <2>2 DEF Release, Modify, IInv, TypeOK, Rewatch
    <3>2. /\ UNCHANGED <<all, ready, batch, noRead, closed, failed, out, sock, writing>>
          /\ captured' = captured \ {c} /\ held' = [held EXCEPT ![c] = FALSE]
          /\ events' = [events EXCEPT ![c] = {}]
      BY <2>2 DEF Release, IInv, TypeOK, manager, state, kernel
    <3>3. ASSUME NEW d \in all, d # c, out[d], ~closed[d], ~failed[d]
          PROVE  \/ writing'[d] \/ Attended(d, "WRITE")'
                 \/ "full" \in sock'[d] /\ "WRITE" \in interest'[d]
      BY <3>1, <3>2, <3>3 DEF IInv, TypeOK, OutputIsSeen, Attended
    <3>4. ~closed[c] /\ out[c] /\ ~failed[c] =>
            "WRITE" \in interest'[c] /\ ("full" \notin sock[c] => signal'[c])
      <4>1. ~closed[c] /\ out[c] /\ ~failed[c] => "WRITE" \in Interest(c)
        BY <2>2, WatchesOutput DEF IInv, TypeOK
      <4>2. ~closed[c] /\ out[c] /\ ~failed[c] /\ "full" \notin sock[c] =>
              Reported(sock[c], Interest(c)) # {}
        BY <4>1, ReportsSpace
      <4> QED BY <3>1, <4>1, <4>2
    <3> QED
      BY <2>2, <3>2, <3>3, <3>4 DEF OutputIsSeen, Attended
  <2> QED BY <2>1, <2>2
<1>5. TimeoutIsTested' /\ TimeoutIsKept'
  BY DEF TypeOK, OneTask, Fresh, TimeoutIsTested, TimeoutIsKept, Release, Rewatch, Modify,
       IInv, manager, state, kernel
<1> QED BY <1>1, <1>2, <1>3, <1>4, <1>5 DEF IInv

-----------------------------------------------------------------------------
\* IInv holds at the start and every step keeps it.
THEOREM Invariance == Spec => []IInv
<1>1. Init => IInv
  <2> SUFFICES ASSUME Init PROVE IInv
    OBVIOUS
  <2>1. TypeOK
    BY DEF Init, TypeOK
  <2>2. OneTask /\ Fresh /\ BatchIsTaken
    BY DEF Init, OneTask, Fresh, BatchIsTaken
  <2>3. /\ InputIsWatched /\ InputIsSeen /\ OutputIsSeen
        /\ TimeoutIsTested /\ TimeoutIsKept
    BY DEF Init, InputIsWatched, InputIsSeen, OutputIsSeen, TimeoutIsTested, TimeoutIsKept
  <2> QED BY <2>1, <2>2, <2>3 DEF IInv
<1>2. IInv /\ [Next]_vars => IInv'
  <2> SUFFICES ASSUME IInv, [Next]_vars PROVE IInv'
    OBVIOUS
  <2>1. CASE Dispatch
    BY <2>1, EpollWaitKeeps, CatchKeeps, CaptureKeeps, DispatchEndsKeeps DEF Dispatch
  <2>2. CASE Shutdown
    BY <2>2, ShutdownKeeps
  <2>3. ASSUME NEW c \in Conns,
               \/ PeerSends(c) \/ PeerEnds(c) \/ PeerResets(c) \/ PeerReads(c)
        PROVE  IInv'
    BY <2>3, PeerSendsKeeps, PeerEndsKeeps, PeerResetsKeeps, PeerReadsKeeps
  <2>4. ASSUME NEW c \in Conns, Accept(c) \/ Ring(c) \/ Write(c) \/ WatchAfterWrite(c)
        PROVE  IInv'
    BY <2>4, AcceptKeeps, RingKeeps, WriteKeeps, WatchAfterWriteKeeps
  <2>5. ASSUME NEW c \in Conns, Work(c)
        PROVE  IInv'
    BY <2>5, BeginKeeps, GiveUpKeeps, ServeKeeps, RotateKeeps, FinishKeeps, ReleaseKeeps
       DEF Work
  <2>6. CASE UNCHANGED vars
    BY <2>6 DEF vars, manager, state, kernel, IInv, TypeOK, OneTask, Fresh, BatchIsTaken,
         InputIsWatched, InputIsSeen, OutputIsSeen, Attended, TimeoutIsTested, TimeoutIsKept
  <2> QED BY <2>1, <2>2, <2>3, <2>4, <2>5, <2>6 DEF Next
<1> QED BY <1>1, <1>2, PTL DEF Spec

\* The state of ConnectionManager and of its connections keeps its type.
THEOREM TypeCorrect == Spec => []TypeOK
  BY Invariance, PTL DEF IInv

\* capture() never hands out a connection that a worker still has.
THEOREM OneTaskAlways == Spec => []OneTask
  BY Invariance, PTL DEF IInv

\* No input is forgotten by the edge-triggered wait, although release() drops events.
THEOREM InputIsAlwaysSeen == Spec => []InputIsSeen
  BY Invariance, PTL DEF IInv

\* No output is forgotten, although watch() ignores captured connections.
THEOREM OutputIsAlwaysSeen == Spec => []OutputIsSeen
  BY Invariance, PTL DEF IInv

\* A timeout stays with its connection until the connection is removed.
THEOREM TimeoutIsAlwaysKept == Spec => []TimeoutIsKept
  BY Invariance, PTL DEF IInv
=============================================================================
