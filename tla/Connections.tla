---------------------------- MODULE Connections ----------------------------
(***************************************************************************)
(* ConnectionManager, Connection and TcpConnection of                      *)
(* src/lib/primitive/src/net: one dispatcher waits on an edge-triggered    *)
(* epoll and hands each connection that has events to a worker, which      *)
(* reads, writes and closes it; other threads write to it (the transmit of *)
(* MsgContext) and its timer may ring at any moment.                       *)
(*                                                                         *)
(* What ConnectionManager does under _mutex is one step.  HUP stands for   *)
(* the two hang-up events, which the code never tells apart.  The kernel's *)
(* side of a socket and of epoll is modelled from how these files use it.  *)
(***************************************************************************)
EXTENDS Naturals, FiniteSets

CONSTANT Conns   \* connections that may be accepted

VARIABLES
  born,       \* connections that were ever accepted
  all, ready, captured,  \* _allConnections, _readyConnections, _capturedConnections
  held,       \* Connection::_captured
  events, postponed,     \* _events, _postponedEvents
  noRead, closed, failed, \* _noRead, _closed, and _error or _timeout
  out,        \* hasDataForSend()
  sock,       \* kernel: input waits, input has ended, reset, no space, shut down
  interest,   \* kernel: what epoll was told to report
  signal,     \* kernel: an edge epoll_wait has not returned yet
  batch,      \* _epev: the events epoll_wait returned
  dispatcher, \* where dispatch() is
  queued,     \* tasks enqueued for a connection that have not begun
  pc,         \* where the worker that processes a connection is
  writing,    \* a thread that wrote has still to call watch()
  armed,      \* the timer of setTtl has still to ring
  stopping    \* Daemon::shutingdown()

manager == <<born, all, ready, captured, batch, dispatcher, queued, stopping>>
state == <<held, events, postponed, noRead, closed, failed, out, pc, writing, armed>>
kernel == <<sock, interest, signal>>
vars == <<manager, state, kernel>>

Kinds == {"READ", "WRITE", "HUP", "ERROR", "TIMEOUT"}
Flags == {"input", "ended", "reset", "full", "shut"}

\* A reset socket, and one shut down on both sides, has no other state to show.
Conditions(s) ==
  (IF s \cap {"input", "ended", "reset", "shut"} # {} THEN {"READ"} ELSE {})
  \cup (IF "full" \notin s THEN {"WRITE"} ELSE {})
  \cup (IF s \cap {"ended", "reset", "shut"} # {} THEN {"HUP"} ELSE {})
  \cup (IF "reset" \in s THEN {"ERROR"} ELSE {})

\* What epoll reports of a socket: errors and full hang-ups whatever was asked for.
Reported(s, asked) ==
  Conditions(s) \cap (asked \cup {"ERROR"} \cup
                      (IF s \cap {"reset", "shut"} # {} THEN {"HUP"} ELSE {}))

\* TcpConnection::watch.
Interest(c) ==
  IF closed[c] THEN {}
  ELSE {"HUP"} \cup (IF noRead[c] THEN {} ELSE {"READ"})
               \cup (IF out[c] /\ ~failed[c] THEN {"WRITE"} ELSE {})

\* ConnectionManager::watch without its test: EPOLL_CTL_MOD reports again what is
\* still so.  It fails for a connection that epoll does not know.
Modify(c) ==
  IF c \in all
    THEN /\ interest' = [interest EXCEPT ![c] = Interest(c)]
         /\ signal' = [signal EXCEPT ![c] = Reported(sock[c], Interest(c)) # {}]
    ELSE UNCHANGED <<interest, signal>>

-----------------------------------------------------------------------------
Init ==
  /\ born = {} /\ all = {} /\ ready = {} /\ captured = {}
  /\ held = [c \in Conns |-> FALSE]
  /\ events = [c \in Conns |-> {}] /\ postponed = [c \in Conns |-> {}]
  /\ noRead = [c \in Conns |-> FALSE] /\ closed = [c \in Conns |-> FALSE]
  /\ failed = [c \in Conns |-> FALSE] /\ out = [c \in Conns |-> FALSE]
  /\ sock = [c \in Conns |-> {}] /\ interest = [c \in Conns |-> {}]
  /\ signal = [c \in Conns |-> FALSE]
  /\ batch = [c \in Conns |-> {}] /\ dispatcher = "capture"
  /\ queued = [c \in Conns |-> 0] /\ pc = [c \in Conns |-> "idle"]
  /\ writing = [c \in Conns |-> FALSE] /\ armed = [c \in Conns |-> FALSE]
  /\ stopping = FALSE

\* TcpAcceptor::createConnection and ConnectionManager::add.
Accept(c) ==
  /\ ~stopping /\ c \notin born
  /\ born' = born \cup {c} /\ all' = all \cup {c}
  /\ armed' = [armed EXCEPT ![c] = TRUE]
  /\ interest' = [interest EXCEPT ![c] = Interest(c)]
  /\ UNCHANGED <<ready, captured, batch, dispatcher, queued, stopping, held, events,
                 postponed, noRead, closed, failed, out, pc, writing, sock, signal>>

\* The peer sends, ends its side, resets or reads: an edge for whoever asked.
Peer(c, s, kinds) ==
  /\ c \in all
  /\ sock' = [sock EXCEPT ![c] = s]
  /\ signal' = [signal EXCEPT ![c] = @ \/ interest[c] \cap kinds # {}
                                       \/ "ERROR" \in kinds]
  /\ UNCHANGED <<manager, state, interest>>

PeerSends(c) ==
  /\ sock[c] \cap {"ended", "reset", "shut"} = {}
  /\ Peer(c, sock[c] \cup {"input"}, {"READ"})
PeerEnds(c) ==
  /\ sock[c] \cap {"ended", "reset", "shut"} = {}
  /\ Peer(c, sock[c] \cup {"ended"}, {"READ", "HUP"})
PeerResets(c) == "reset" \notin sock[c] /\ Peer(c, {"reset"}, {"ERROR", "HUP"})
PeerReads(c) ==
  "full" \in sock[c] /\ Peer(c, sock[c] \ {"full"}, {"WRITE"})

-----------------------------------------------------------------------------
\* appendEvents.
Append(now, later, c, kinds) ==
  /\ events' = [events EXCEPT ![c] = IF held[c] THEN now ELSE now \cup kinds]
  /\ postponed' = [postponed EXCEPT ![c] = IF held[c] THEN later \cup kinds ELSE later]

\* wait(): epoll_wait, without the lock.
EpollWait ==
  /\ dispatcher = "capture" /\ ready = {}
  /\ \E c \in all : signal[c]
  /\ batch' = [c \in Conns |-> IF signal[c] THEN Reported(sock[c], interest[c]) ELSE {}]
  /\ signal' = [c \in Conns |-> FALSE]
  /\ dispatcher' = "caught"
  /\ UNCHANGED <<born, all, ready, captured, queued, stopping, state, sock, interest>>

\* Mutant: a captured connection is put among the ready ones too.
Insert_Always(caught) == ready' = ready \cup caught

\* Connections with events are ready unless a worker has them.
Insert(caught) == ready' = ready \cup (caught \ captured)

\* wait(): the events of the connections that are still registered.
Catch ==
  LET caught == {c \in all : batch[c] # {}}
  IN  /\ dispatcher = "caught"
      /\ events' = [c \in Conns |-> IF c \in caught /\ ~held[c]
                                      THEN events[c] \cup batch[c] ELSE events[c]]
      /\ postponed' = [c \in Conns |-> IF c \in caught /\ held[c]
                                         THEN postponed[c] \cup batch[c] ELSE postponed[c]]
      /\ Insert(caught)
      /\ batch' = [c \in Conns |-> {}] /\ dispatcher' = "capture"
      /\ UNCHANGED <<born, all, captured, queued, stopping, held, noRead, closed, failed,
                     out, pc, writing, armed, kernel>>

\* capture() and the enqueueing of the task in dispatch().
Capture(c) ==
  /\ dispatcher = "capture" /\ c \in ready
  /\ ready' = ready \ {c} /\ captured' = captured \cup {c}
  /\ held' = [held EXCEPT ![c] = TRUE]
  /\ queued' = [queued EXCEPT ![c] = @ + 1]
  /\ UNCHANGED <<born, all, batch, dispatcher, stopping, events, postponed, noRead,
                 closed, failed, out, pc, writing, armed, kernel>>

\* dispatch() ends when there is nothing left to wait for.
DispatchEnds ==
  /\ dispatcher = "capture" /\ ready = {} /\ stopping /\ all = {}
  /\ dispatcher' = "ended"
  /\ UNCHANGED <<born, all, ready, captured, batch, queued, stopping, state, kernel>>

Shutdown ==
  /\ ~stopping /\ stopping' = TRUE
  /\ UNCHANGED <<born, all, ready, captured, batch, dispatcher, queued, state, kernel>>

\* Mutant: the timeout of a connection that is not registered is not ignored.
Registered_Any(c) == TRUE

Registered(c) == c \in all

\* The timer's handler: ConnectionManager::timeout.
Ring(c) ==
  /\ armed[c] /\ armed' = [armed EXCEPT ![c] = FALSE]
  /\ IF Registered(c)
       THEN Append(events[c], postponed[c], c, {"TIMEOUT"}) /\ Insert({c})
       ELSE UNCHANGED <<events, postponed, ready>>
  /\ UNCHANGED <<born, all, captured, batch, dispatcher, queued, stopping, held, noRead,
                 closed, failed, out, pc, writing, kernel>>

-----------------------------------------------------------------------------
\* MsgContext::transmit, from any thread: it writes, then it watches.
Write(c) ==
  /\ c \in all /\ ~writing[c]
  /\ out' = [out EXCEPT ![c] = TRUE]
  /\ writing' = [writing EXCEPT ![c] = TRUE]
  /\ UNCHANGED <<manager, held, events, postponed, noRead, closed, failed, pc, armed, kernel>>

\* Mutant: nothing is watched after a write.
WatchAfterWrite_Never(c) ==
  /\ writing[c] /\ writing' = [writing EXCEPT ![c] = FALSE]
  /\ UNCHANGED <<manager, held, events, postponed, noRead, closed, failed, out, pc, armed,
                 kernel>>

\* ConnectionManager::watch leaves a connection that a worker has alone.
WatchAfterWrite(c) ==
  /\ writing[c] /\ writing' = [writing EXCEPT ![c] = FALSE]
  /\ IF held[c] THEN UNCHANGED <<interest, signal>> ELSE Modify(c)
  /\ UNCHANGED <<manager, held, events, postponed, noRead, closed, failed, out, pc, armed,
                 sock>>

-----------------------------------------------------------------------------
Begin(c) ==
  /\ queued[c] > 0 /\ pc[c] = "idle"
  /\ queued' = [queued EXCEPT ![c] = @ - 1]
  /\ pc' = [pc EXCEPT ![c] = "serve"]
  /\ UNCHANGED <<born, all, ready, captured, batch, dispatcher, stopping, held, events,
                 postponed, noRead, closed, failed, out, writing, armed, kernel>>

\* processing(), a turn that ends the loop at once.
GiveUp(c) ==
  /\ pc[c] = "serve" /\ events[c] \cap {"TIMEOUT", "ERROR"} # {}
  /\ failed' = [failed EXCEPT ![c] = TRUE]
  /\ pc' = [pc EXCEPT ![c] = "finish"]
  /\ UNCHANGED <<manager, held, events, postponed, noRead, closed, out, writing, armed,
                 kernel>>

\* shutdown(SHUT_RD), by close(), of a socket that is still open.
Ended(s) == IF s \cap {"reset", "shut"} = {} THEN s \cup {"ended"} ELSE s

\* A turn that reads all there is, lets the transport answer, close or throw, and
\* writes what it can.
Serve(c) ==
  LET reads == "READ" \in events[c]
      fed == reads /\ "input" \in sock[c]
  IN  /\ pc[c] = "serve" /\ events[c] \cap {"TIMEOUT", "ERROR"} = {}
      /\ \E answers, closes, throws \in BOOLEAN, wrote \in {"all", "part", "error"} :
           LET pending == out[c] \/ answers
           IN  /\ answers \/ closes \/ throws => fed
               /\ ~pending \/ throws => wrote = "all"
               /\ pending /\ "full" \in sock[c] => wrote # "all"
               /\ pending /\ ~throws /\ sock[c] \cap {"reset", "shut"} # {} => wrote = "error"
               /\ out' = [out EXCEPT ![c] = pending /\ (throws \/ wrote # "all")]
               /\ failed' = [failed EXCEPT ![c] = @ \/ wrote = "error"]
               /\ noRead' = [noRead EXCEPT ![c] = @ \/ closes
                                                    \/ (reads /\ "HUP" \in events[c])]
               /\ LET left == IF reads THEN sock[c] \ {"input"} ELSE sock[c]
                  IN  sock' = [sock EXCEPT ![c] =
                                 (IF closes THEN Ended(left) ELSE left)
                                 \cup (IF wrote = "part" THEN {"full"} ELSE {})]
               /\ signal' = [signal EXCEPT ![c] =
                    @ \/ (closes /\ interest[c] \cap {"READ", "HUP"} # {})]
               /\ pc' = [pc EXCEPT ![c] = IF throws THEN "release" ELSE "rotate"]
      /\ UNCHANGED <<manager, held, events, postponed, closed, writing, armed, interest>>

\* Mutant: the postponed events are forgotten.
Rotated_None(c) == {}

Rotated(c) == postponed[c]

\* rotateEvents and the test of the loop.
Rotate(c) ==
  LET next == Rotated(c)
      again == \/ next \cap {"READ", "ERROR", "TIMEOUT"} # {}
               \/ "WRITE" \in next /\ out[c]
  IN  /\ pc[c] = "rotate"
      /\ events' = [events EXCEPT ![c] = next]
      /\ postponed' = [postponed EXCEPT ![c] = {}]
      /\ pc' = [pc EXCEPT ![c] = IF again THEN "serve" ELSE "finish"]
      /\ UNCHANGED <<manager, held, noRead, closed, failed, out, writing, armed, kernel>>

\* Mutant: a closed connection stays registered.
Closes_Never(c) == FALSE

Closes(c) == closed[c] \/ failed[c]

\* The end of processing().  Its own call of watch() does nothing, the connection
\* being captured.
Finish(c) ==
  LET shuts == noRead[c] /\ ~out[c]
      s == IF shuts /\ "reset" \notin sock[c]
             THEN (sock[c] \cap {"input"}) \cup {"shut"} ELSE sock[c]
  IN  /\ pc[c] = "finish" /\ pc' = [pc EXCEPT ![c] = "release"]
      /\ sock' = [sock EXCEPT ![c] = s]
      /\ \/ /\ Closes(c)
            /\ all' = all \ {c} /\ ready' = ready \ {c} /\ captured' = captured \ {c}
            /\ closed' = [closed EXCEPT ![c] = TRUE]
            /\ interest' = [interest EXCEPT ![c] = {}]
            /\ signal' = [signal EXCEPT ![c] = FALSE]
         \/ /\ ~Closes(c)
            /\ closed' = [closed EXCEPT ![c] = shuts]
            /\ signal' = [signal EXCEPT ![c] = @ \/ shuts]
            /\ UNCHANGED <<all, ready, captured, interest>>
      /\ UNCHANGED <<born, batch, dispatcher, queued, stopping, held, events, postponed,
                     noRead, failed, out, writing, armed>>

\* Mutant: watch() is called while the connection still counts as captured.
Rewatch_Skipped(c) == UNCHANGED <<interest, signal>>

Rewatch(c) == IF closed[c] THEN UNCHANGED <<interest, signal>> ELSE Modify(c)

\* release().
Release(c) ==
  /\ pc[c] = "release" /\ pc' = [pc EXCEPT ![c] = "idle"]
  /\ captured' = captured \ {c}
  /\ held' = [held EXCEPT ![c] = FALSE]
  /\ events' = [events EXCEPT ![c] = {}]
  /\ Rewatch(c)
  /\ UNCHANGED <<born, all, ready, batch, dispatcher, queued, stopping, postponed, noRead,
                 closed, failed, out, writing, armed, sock>>

Work(c) == Begin(c) \/ GiveUp(c) \/ Serve(c) \/ Rotate(c) \/ Finish(c) \/ Release(c)
Dispatch == EpollWait \/ Catch \/ (\E c \in Conns : Capture(c)) \/ DispatchEnds

Next ==
  \/ Dispatch \/ Shutdown
  \/ \E c \in Conns :
       \/ Accept(c)
       \/ PeerSends(c) \/ PeerEnds(c) \/ PeerResets(c) \/ PeerReads(c)
       \/ Ring(c)
       \/ Write(c)
       \/ WatchAfterWrite(c)
       \/ Work(c)

Spec == Init /\ [][Next]_vars

\* The dispatcher and the workers run and timers ring; the peer and the threads
\* that write owe nothing, but one that has written goes on to watch().
Fairness ==
  /\ WF_vars(Dispatch)
  /\ \A c \in Conns : WF_vars(Work(c)) /\ WF_vars(Ring(c)) /\ WF_vars(WatchAfterWrite(c))
FairSpec == Spec /\ Fairness

-----------------------------------------------------------------------------
\* The state keeps its type, and the manager has only registered connections in
\* its lists.
TypeOK ==
  /\ all \subseteq born /\ born \subseteq Conns
  /\ ready \cup captured \subseteq all
  /\ events \in [Conns -> SUBSET Kinds] /\ postponed \in [Conns -> SUBSET Kinds]
  /\ interest \in [Conns -> SUBSET Kinds] /\ batch \in [Conns -> SUBSET Kinds]
  /\ held \in [Conns -> BOOLEAN] /\ noRead \in [Conns -> BOOLEAN]
  /\ closed \in [Conns -> BOOLEAN] /\ failed \in [Conns -> BOOLEAN]
  /\ out \in [Conns -> BOOLEAN] /\ signal \in [Conns -> BOOLEAN]
  /\ writing \in [Conns -> BOOLEAN] /\ armed \in [Conns -> BOOLEAN]
  /\ sock \in [Conns -> SUBSET Flags]
  /\ queued \in [Conns -> Nat]
  /\ pc \in [Conns -> {"idle", "serve", "rotate", "finish", "release"}]
  /\ dispatcher \in {"capture", "caught", "ended"} /\ stopping \in BOOLEAN

\* Safety: a connection is processed by one worker at a time, and is never handed
\* out while one has it, whatever events and timeouts come in between.
OneTask ==
  /\ ready \cap captured = {}
  /\ \A c \in Conns : queued[c] + (IF pc[c] = "idle" THEN 0 ELSE 1)
                        = IF held[c] THEN 1 ELSE 0
  /\ \A c \in all : c \in captured <=> held[c]

\* A connection with this condition is with a worker, or on its way to one.
Attended(c, kind) ==
  \/ c \in captured
  \/ c \in ready /\ kind \in events[c]
  \/ kind \in batch[c]
  \/ signal[c] /\ kind \in interest[c]

\* Safety of the edge-triggered wait: input that came while a worker had the
\* connection, whose edge went to events that release() drops, is never forgotten.
InputIsSeen ==
  \A c \in all : "input" \in sock[c] /\ ~noRead[c] /\ ~closed[c] => Attended(c, "READ")

\* Safety: what another thread wrote is sent as soon as there is space, although
\* its watch() is ignored when a worker has the connection.
OutputIsSeen ==
  \A c \in all : out[c] /\ ~closed[c] /\ ~failed[c] =>
    \/ writing[c] \/ Attended(c, "WRITE")
    \/ "full" \in sock[c] /\ "WRITE" \in interest[c]

\* Safety: the one ring of a timer is not lost.  Until the connection is removed
\* its TIMEOUT is among its events or its postponed ones.
TimeoutIsKept ==
  \A c \in all : ~armed[c] => "TIMEOUT" \in events[c] \cup postponed[c]

\* Liveness: once the daemon stops, dispatch() ends, unless the timeout of some
\* connection stays postponed: it came after the last rotateEvents() of a run, or
\* every run ends in an exception before it, and release() does not look at it.
ShutdownEnds ==
  <>stopping => \/ <>(dispatcher = "ended")
                \/ <>[](\E c \in all : "TIMEOUT" \in postponed[c])
=============================================================================
