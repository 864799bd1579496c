----------------------------- MODULE MCLibrary -----------------------------
(* Two parts of the library that meet nowhere, checked by one run: a pool of *)
(* three workers, where one dispatches, one is left and one may go too early; *)
(* and one timer, whose owner uses one operation only or all of them, with    *)
(* durations of one and three units and a horizon long enough for a call      *)
(* before, at and after the alarm of an earlier one.  The part that is not    *)
(* looked at has come to its end: the timer's clock stands at its horizon,    *)
(* the pool has crashed.                                                      *)
EXTENDS Workers, Timer

SomeUses == {{"startOnce"}, {"prolong"},
             {"startOnce", "restart", "prolong", "shorten", "stop"}}
SomeDurations == {1, 3}

PoolOnly ==
  /\ Init
  /\ calls = (CHOOSE u \in Uses : TRUE) /\ now = MaxTime /\ actual = 0 /\ next = Forever
  /\ helper = FALSE /\ tasks = [t \in Instants |-> 0]
  /\ spent = FALSE /\ armed = FALSE /\ shutdown = FALSE /\ broken = TRUE

TimerOnly ==
  /\ TimerInit
  /\ main = "create" /\ pc = [w \in Workers |-> "absent"]
  /\ task = [w \in Workers |-> None] /\ sleep = [w \in Workers |-> 0]
  /\ queue = <<>> /\ left = [t \in Tasks |-> 0] /\ fresh = {} /\ hold = 0
  /\ stopping = FALSE /\ crashed = TRUE

LibraryNext ==
  \/ ~crashed /\ Next /\ UNCHANGED timerVars
  \/ crashed /\ TimerNext /\ UNCHANGED vars

LibrarySpec ==
  /\ PoolOnly \/ TimerOnly
  /\ [][LibraryNext]_<<vars, timerVars>>
  /\ Fairness /\ TimerFairness

\* The types of Workers and of Timer.
LibraryTypeOK == TypeOK /\ TimerTypeOK
=============================================================================
