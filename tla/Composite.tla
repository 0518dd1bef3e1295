----------------------------- MODULE Composite -----------------------------
(***************************************************************************)
(* Operations of the tree structures, which are made of many stores: the   *)
(* program of an operation is put together piece by piece, each piece from *)
(* the memory the ones before it will have left.                           *)
(***************************************************************************)
EXTENDS Storeds, FiniteSetsExt, SequencesExt

(***************************************************************************)
(* What the three kinds of class do differently around their assignments.  *)
(* A transaction inside a transaction adds nothing: it shares the log and  *)
(* the end of the outer one.                                               *)
(***************************************************************************)
Allocate(C) == IF cls.medium = "tx" THEN <<TAl(C)>> ELSE <<Al(C)>>
Flush(C) == IF cls.medium = "pmem" THEN <<Fl(C)>> ELSE <<>>
Snapshot(C) == IF cls.medium = "tx" THEN <<Sn(C)>> ELSE <<>>
InTx(p) == IF cls.medium = "tx" THEN <<Bg>> \o p \o <<Cm>> ELSE p

(***************************************************************************)
(* An operation in the making: the steps so far, the memory they will      *)
(* leave, and the node the operation has come to.                          *)
(***************************************************************************)
Written(m, u) ==
  CASE u.op = "store" -> [m EXCEPT ![u.c] = u.v]
    [] u.op = "free_in" -> [m EXCEPT ![u.c] = Zero]
    [] OTHER -> m

After(m, p) == FoldLeft(Written, m, p)

Begun(o) == [m |-> mem, at |-> o, steps |-> <<>>]

Then(w, p) == [w EXCEPT !.m = After(w.m, p), !.steps = w.steps \o p]

\* What is allocated once the steps so far are done.
Taken(w) ==
  live \cup UNION {u.C : u \in {v \in ToSet(w.steps) :
                                 v.op \in {"alloc", "tx_alloc"}}}

-----------------------------------------------------------------------------
(***************************************************************************)
(* The load phase of a run: the keys of cls.load, inserted by one client   *)
(* before anything else is called.                                         *)
(***************************************************************************)
Loaded(C, keys) == {[c EXCEPT !.load = keys] : c \in C}

Loading == calls < Len(cls.load)

CallLoad(t) ==
  /\ Loading /\ Quiet /\ t = CHOOSE s \in Thread : TRUE
  /\ LET k == cls.load[calls + 1] IN StartCall(t, "insert", k, ValOf(k, 1))

CallWrite(t, k, n) ==
  /\ ~Loading
  /\ \E op \in {"insert", "update"} : Call(t, op, k, ValOf(k, n))

CallRead(t, k) == ~Loading /\ Call(t, "read", k, 0)
=============================================================================
