---------------------------- MODULE LockOverhead ----------------------------
(***************************************************************************)
(* ycsbc_lock_overhead.cc: the program ycsbc, in which client threads and  *)
(* main meet at start_barrier before the transactions.  The barrier counts *)
(* up only, and a client that loads records votes in it as well.           *)
(***************************************************************************)
EXTENDS Driver

VARIABLES
  start_barrier,  (* votes given *)
  voted           (* main has given its vote *)

lvars == <<dvars, start_barrier, voted>>

LockOverheadInit == Init /\ start_barrier = 0 /\ voted = FALSE

AllVoted == start_barrier = NumThreads + 1

LockOverheadSpawn == Spawn("vote") /\ UNCHANGED <<start_barrier, voted>>

Vote(t) ==
  /\ cl[t].pc = "vote"
  /\ start_barrier' = start_barrier + 1
  /\ Move(t, [cl[t] EXCEPT !.pc = "spin"])
  /\ UNCHANGED <<counter, inserted, voted>>

\* while (start_barrier != num_threads + 1) {}
Spin(t) == cl[t].pc = "spin" /\ ~AllVoted /\ UNCHANGED lvars

Pass(t) ==
  /\ cl[t].pc = "spin" /\ AllVoted
  /\ Move(t, [cl[t] EXCEPT !.pc = "loop"])
  /\ UNCHANGED <<counter, inserted, start_barrier, voted>>

MainVote ==
  /\ phase = "run" /\ spawned = NumThreads /\ ~voted
  /\ start_barrier' = start_barrier + 1 /\ voted' = TRUE
  /\ UNCHANGED dvars

\* main joins the transaction threads once it has passed the barrier.
MainJoin ==
  /\ phase = "run" => voted /\ AllVoted
  /\ Join \/ Rethrow
  /\ UNCHANGED <<start_barrier, voted>>

MainRest == (StartRun \/ Destroy) /\ UNCHANGED <<start_barrier, voted>>

LockOverheadClient(t) ==
  \/ Vote(t) \/ Spin(t) \/ Pass(t)
  \/ DelegateClient(t) /\ UNCHANGED <<start_barrier, voted>>

LockOverheadMain == LockOverheadSpawn \/ MainVote \/ MainJoin \/ MainRest

LockOverheadNext ==
  \/ \E t \in Client : LockOverheadClient(t)
  \/ LockOverheadMain
  \/ Ended /\ UNCHANGED lvars

LockOverheadSpec ==
  /\ LockOverheadInit /\ [][LockOverheadNext]_lvars
  /\ WF_lvars(LockOverheadMain)
  /\ \A t \in Client : WF_lvars(LockOverheadClient(t))

-----------------------------------------------------------------------------
\* "Main thread give his vote and check": every client thread that has given
\* its vote gets past the barrier.
BarrierPassed ==
  \A t \in Client : cl[t].pc = "spin" ~> cl[t].pc # "spin"
=============================================================================
