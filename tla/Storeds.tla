------------------------------- MODULE Storeds -------------------------------
(***************************************************************************)
(* One storeds class behind StoredsDB: the main thread opens it (init),    *)
(* client threads call Read, Update and Insert, the main thread destroys   *)
(* it; the process or the machine can fail at any point and be restarted   *)
(* on the same pool.                                                       *)
(*                                                                         *)
(* A structure module supplies what differs between structures: for every  *)
(* operation the program of memory steps it performs, computed from the    *)
(* memory at the time the operation's lock has been taken.  This module    *)
(* runs those programs one memory step at a time.                          *)
(***************************************************************************)
EXTENDS PMem, Sequences

CONSTANTS
  Thread,      (* client threads *)
  Key,         (* record keys; the runs leave out 0, what cleared cells hold *)
  Version,     (* distinguishes the values written under one key *)
  Absent,      (* no record *)
  Torn,        (* a value buffer in the middle of a strcpy / memcpy *)
  None,        (* no pointer: the result argument was not assigned *)
  Classes      (* the classes a run looks at, each with its bounds *)

ASSUME BoundAssumption ==
  \A c \in Classes :
    c.bound \in [keys: SUBSET Key, calls: Nat, fails: Nat, restarts: Nat]

VARIABLES
  cls,     (* the class the run uses; never changes *)
  phase,   (* main: "init", "serve", "destroy", "closed", "down" *)
  th,      (* what each client thread is doing *)
  prog,    (* the memory steps it has still to perform; main's too *)
  rd, wr,  (* threads holding the class's lock for reading, for writing *)
  expect,  (* history: Key -> the contents a correct map may show *)
  dirty,   (* history: the keys with a write that has not returned *)
  calls, fails, starts   (* counters for the bounds *)

svars == <<cls, phase, th, prog, rd, wr, expect, dirty, calls, fails, starts>>
vars == <<pvars, svars>>

main == "main"

\* DB::kOK and DB::kErrorNoData.
kOK == 0
kErrorNoData == 1

\* Values are numbers that tell under which key they were written.
ValOf(k, n) == 100 * k + n
Val == {ValOf(k, n) : k \in Key, n \in Version}

\* Client threads, but not main; YCSB's keys; the kinds of memory and of locks.
ASSUME StoredsAssumption ==
  /\ "main" \notin Thread /\ Thread # {}
  /\ Key \subseteq Nat
  /\ \A c \in Classes : /\ c.medium \in {"dram", "vmem", "pmem", "tx"}
                        /\ c.lock \in {"none", "mutex", "rwlock"}
  /\ Val \subseteq Value

-----------------------------------------------------------------------------
(***************************************************************************)
(* The memory steps a program is made of.                                  *)
(***************************************************************************)
St(c, v) == [op |-> "store", c |-> c, v |-> v]
Fl(C)    == [op |-> "persist", C |-> C]
Al(C)    == [op |-> "alloc", C |-> C]
AlTo(C, c, v)  == [op |-> "alloc_to", C |-> C, c |-> c, v |-> v]
ZAlTo(C, c, v) == [op |-> "zalloc_to", C |-> C, c |-> c, v |-> v]
Fr(C)    == [op |-> "free", C |-> C]
FrIn(C, c) == [op |-> "free_in", C |-> C, c |-> c]
Bg       == [op |-> "tx_begin"]
Sn(C)    == [op |-> "tx_add_range", C |-> C]
TAl(C)   == [op |-> "tx_alloc", C |-> C]
TZAl(C)  == [op |-> "tx_zalloc", C |-> C]
TFr(C)   == [op |-> "tx_free", C |-> C]
Cm       == [op |-> "tx_end"]

\* strcpy / memcpy into a value buffer takes more than one store.
Cp(c, v) == <<St(c, Torn), St(c, v)>>

\* pmemobj_memcpy_persist.
CpFl(c, v) == Cp(c, v) \o <<Fl({c})>>

MemoryStep(u) ==
  \/ u.op = "store" /\ Store(u.c, u.v)
  \/ u.op = "persist" /\ Persist(u.C)
  \/ u.op = "alloc" /\ Alloc(u.C)
  \/ u.op = "alloc_to" /\ AllocTo(u.C, u.c, u.v)
  \/ u.op = "zalloc_to" /\ ZAllocTo(u.C, u.c, u.v)
  \/ u.op = "free" /\ Free(u.C)
  \/ u.op = "free_in" /\ FreeFrom(u.C, u.c)
  \/ u.op = "tx_begin" /\ TxBegin
  \/ u.op = "tx_add_range" /\ TxAddRange(u.C)
  \/ u.op = "tx_alloc" /\ TxAlloc(u.C)
  \/ u.op = "tx_zalloc" /\ TxZAlloc(u.C)
  \/ u.op = "tx_free" /\ TxFree(u.C)
  \/ u.op = "tx_end" /\ TxCommit

-----------------------------------------------------------------------------
(***************************************************************************)
(* A class: where its cells live, how an operation locks, and whether an   *)
(* update of a missing key inserts it.  Its bounds limit the keys and the   *)
(* operations called, the power failures and the restarts of a behaviour.  *)
(***************************************************************************)
Class(name, medium, lock, upsert) ==
  [name |-> name, medium |-> medium, lock |-> lock, upsert |-> upsert,
   bound |-> [keys |-> {}, calls |-> 0, fails |-> 0, restarts |-> 0]]

Bounded(C, K, c, f, r) ==
  {[x EXCEPT !.bound = [keys |-> K, calls |-> c, fails |-> f, restarts |-> r]]
     : x \in C}

Volatile(c) == c.medium \in {"dram", "vmem"}

\* Mutant: scan forgets the lock.
Mode_scanUnlocked(op) ==
  CASE cls.lock = "none" \/ op = "scan" -> "none"
    [] cls.lock = "mutex" -> "wr"
    [] cls.lock = "rwlock" -> IF op = "read" THEN "rd" ELSE "wr"

\* What an operation holds while it runs.
Mode(op) ==
  CASE cls.lock = "none" -> "none"
    [] cls.lock = "mutex" -> "wr"
    [] cls.lock = "rwlock" -> IF op \in {"read", "scan"} THEN "rd" ELSE "wr"

\* Only a class with a lock is run with more than one client thread.
Clients == IF cls.lock = "none" THEN {CHOOSE t \in Thread : TRUE} ELSE Thread

Idle == [pc |-> "idle", op |-> "none", key |-> 0, val |-> 0, ptr |-> None,
         got |-> None, seen |-> {}, legal |-> {}, ret |-> kOK]

Quiet == \A t \in Thread : th[t].pc = "idle"

-----------------------------------------------------------------------------
\* dramCells are what a persistent class keeps outside its pool.
StoredsInit(rootCells, dramCells, initProg) ==
  /\ cls \in Classes
  /\ IF Volatile(cls) THEN PoolInit(Cell, {})
     ELSE PoolInit(dramCells, rootCells)
  /\ phase = "init"
  /\ th = [t \in Thread |-> Idle]
  /\ prog = [t \in Thread \cup {main} |-> IF t = main THEN initProg ELSE <<>>]
  /\ rd = {} /\ wr = {}
  /\ expect = [k \in Key |-> {Absent}] /\ dirty = {}
  /\ calls = 0 /\ fails = 0 /\ starts = 0

\* Mutant: the cursor of a copying loop does not advance.
Exec_stuck(t) ==
  /\ prog[t] # <<>>
  /\ MemoryStep(Head(prog[t]))
  /\ prog' = [prog EXCEPT ![t] = IF Head(@).op = "store" THEN @ ELSE Tail(@)]
  /\ UNCHANGED <<cls, phase, th, rd, wr, expect, dirty, calls, fails, starts>>

\* The next memory step of thread t.
Exec(t) ==
  /\ prog[t] # <<>>
  /\ MemoryStep(Head(prog[t]))
  /\ prog' = [prog EXCEPT ![t] = Tail(@)]
  /\ UNCHANGED <<cls, phase, th, rd, wr, expect, dirty, calls, fails, starts>>

\* init has returned; the clients see what it left in the structure.
InitDone(found) ==
  /\ phase = "init" /\ power = "up" /\ prog[main] = <<>>
  /\ phase' = "serve"
  /\ expect' = [k \in Key |-> {found[k]}] /\ dirty' = {}
  /\ UNCHANGED <<pvars, cls, th, prog, rd, wr, calls, fails, starts>>

\* StoredsDB calls the class, once for a record: records have one field, the
\* default of fieldcount.
StartCall(t, op, k, v) ==
  /\ phase = "serve" /\ t \in Clients
  /\ calls < cls.bound.calls
  /\ th[t].pc = "idle"
  /\ th' = [th EXCEPT ![t] = [Idle EXCEPT !.pc = "want", !.op = op, !.key = k,
                              !.val = v, !.legal = expect[k]]]
  /\ calls' = calls + 1
  /\ UNCHANGED <<pvars, cls, phase, prog, rd, wr, expect, dirty, fails, starts>>

Call(t, op, k, v) == k \in cls.bound.keys /\ StartCall(t, op, k, v)

\* Mutant: the lock calls are left out.
Available_unlocked(mode, t) == TRUE

\* pthread and PMEM mutexes and rwlocks.
Available(mode, t) ==
  CASE mode = "none" -> TRUE
    [] mode = "rd" -> wr = {}
    [] mode = "wr" -> wr = {} /\ rd = {}

\* An update of a missing key changes nothing unless the class upserts.
Writes(op, k) ==
  op = "insert" \/ (op = "update" /\ (cls.upsert \/ expect[k] # {Absent}))

\* The lock is taken; p is what the operation will do and ptr the value
\* buffer it found.
Enter(t, p, ptr) ==
  LET o == th[t]
      m == Mode(o.op)
      w == Writes(o.op, o.key)
  IN
  /\ o.pc = "want" /\ power = "up"
  /\ Available(m, t)
  /\ rd' = IF m = "rd" THEN rd \cup {t} ELSE rd
  /\ wr' = IF m = "wr" THEN wr \cup {t} ELSE wr
  /\ prog' = [prog EXCEPT ![t] = p]
  /\ expect' = IF w THEN [expect EXCEPT ![o.key] = @ \cup {o.val}] ELSE expect
  /\ dirty' = IF w THEN dirty \cup {o.key} ELSE dirty
  /\ th' = [s \in Thread |->
              IF s = t THEN [o EXCEPT !.pc = "in", !.ptr = ptr]
              ELSE IF w /\ th[s].op = "read" /\ th[s].key = o.key
                   THEN [th[s] EXCEPT !.legal = @ \cup {o.val}]
                   ELSE th[s]]
  /\ UNCHANGED <<pvars, cls, phase, calls, fails, starts>>

\* A scan copies the values it meets while it holds the lock.
EnterScan(t, values) ==
  LET o == th[t]
      m == Mode("scan")
  IN
  /\ o.pc = "want" /\ power = "up"
  /\ Available(m, t)
  /\ rd' = IF m = "rd" THEN rd \cup {t} ELSE rd
  /\ wr' = IF m = "wr" THEN wr \cup {t} ELSE wr
  /\ th' = [th EXCEPT ![t] = [o EXCEPT !.pc = "in", !.seen = values]]
  /\ UNCHANGED <<pvars, cls, phase, prog, expect, dirty, calls, fails, starts>>

\* The unlock at the end of the operation.  A read has assigned a pointer
\* into the structure, which StoredsDB::Read dereferences only afterwards.
Leave(t) ==
  LET o == th[t] IN
  /\ o.pc = "in" /\ power = "up" /\ prog[t] = <<>>
  /\ rd' = rd \ {t}
  /\ wr' = wr \ {t}
  /\ expect' = IF Writes(o.op, o.key) THEN [expect EXCEPT ![o.key] = {o.val}]
               ELSE expect
  /\ dirty' = dirty \ {o.key}
  /\ th' = [th EXCEPT ![t] = CASE o.op = "read" -> [o EXCEPT !.pc = "copy"]
                               [] o.op = "scan" -> [o EXCEPT !.pc = "got"]
                               [] OTHER -> Idle]
  /\ UNCHANGED <<pvars, cls, phase, prog, calls, fails, starts>>

\* What StoredsDB::Read returns, whatever the class's read found.
ReadStatus(o) == kOK

\* StoredsDB::Read makes a string of *dummy.  A miss leaves dummy
\* uninitialised: the string is whatever it points to (None) ...
CopyOut(t) ==
  LET o == th[t] IN
  /\ o.pc = "copy" /\ power = "up"
  /\ th' = [th EXCEPT ![t] =
              [o EXCEPT !.pc = "got", !.ret = ReadStatus(o),
                        !.got = IF o.ptr = None THEN None ELSE mem[o.ptr]]]
  /\ UNCHANGED <<pvars, cls, phase, prog, rd, wr, expect, dirty, calls, fails,
                 starts>>

\* The client has its answer.
Return(t) ==
  /\ th[t].pc = "got" /\ power = "up"
  /\ th' = [th EXCEPT ![t] = Idle]
  /\ UNCHANGED <<pvars, cls, phase, prog, rd, wr, expect, dirty, calls, fails,
                 starts>>

\* The threads are joined and the DB is destroyed.
Destroy(p) ==
  /\ phase = "serve" /\ power = "up" /\ Quiet
  /\ phase' = "destroy"
  /\ prog' = [prog EXCEPT ![main] = p]
  /\ expect' = [k \in Key |-> expect[k] \cup {Absent}]
  /\ UNCHANGED <<pvars, cls, th, rd, wr, dirty, calls, fails, starts>>

\* destroy has returned: the pool is closed and the process ends.
Close ==
  /\ phase = "destroy" /\ prog[main] = <<>>
  /\ ProcessExit
  /\ phase' = "closed"
  /\ UNCHANGED <<cls, th, prog, rd, wr, expect, dirty, calls, fails, starts>>

-----------------------------------------------------------------------------
\* All threads of the process are gone, and so are its locks: PMEMmutex and
\* PMEMrwlock are reinitialised when the pool is opened again.
Gone ==
  /\ phase' = "down"
  /\ th' = [t \in Thread |-> Idle]
  /\ prog' = [t \in Thread \cup {main} |-> <<>>]
  /\ rd' = {} /\ wr' = {}
  /\ UNCHANGED <<cls, expect, dirty, calls, starts>>

Crash ==
  /\ phase \in {"init", "serve", "destroy"} /\ fails < cls.bound.fails
  /\ PowerFail
  /\ fails' = fails + 1
  /\ Gone

\* abort(), assert(0) or a fatal signal: the process ends by its own doing.
Dies ==
  /\ ProcessExit
  /\ Gone
  /\ UNCHANGED fails

\* check() finds the structure empty: assert(0).
CheckFails(t) == th[t].pc = "want" /\ Dies

\* ... or dummy points nowhere and the copy is a fatal signal.
MissDies(t) == th[t].pc = "copy" /\ th[t].ptr = None /\ Dies

\* Freeing what is not allocated is undefined: it goes unnoticed (Exec) or
\* the allocator ends the process.
FreesDead(t) ==
  /\ prog[t] # <<>>
  /\ Head(prog[t]).op \in {"free", "free_in", "tx_free"}
  /\ ~(Head(prog[t]).C \subseteq live \ dying)

DoubleFree(t) == FreesDead(t) /\ Dies

Settling == SettleNext /\ UNCHANGED svars

\* The next process opens the pool and runs init.
Reopen(initProg) ==
  /\ phase \in {"down", "closed"} /\ starts < cls.bound.restarts
  /\ Open
  /\ phase' = "init"
  /\ prog' = [prog EXCEPT ![main] = initProg]
  /\ starts' = starts + 1
  /\ UNCHANGED <<cls, th, rd, wr, expect, dirty, calls, fails>>

\* The benchmark is over, or it is not restarted any more.
Finished ==
  /\ Recovered /\ starts = cls.bound.restarts
  /\ UNCHANGED vars

\* The steps of a client that are the same in every structure.
ClientStep(t) ==
  Exec(t) \/ Leave(t) \/ CopyOut(t) \/ MissDies(t) \/ Return(t)

-----------------------------------------------------------------------------
(***************************************************************************)
(* Properties that read the same for every structure; Find(k) is what the  *)
(* structure's read() would show for key k.                                *)
(***************************************************************************)

\* No operation is between its lock and its unlock.
Unlocked == \A t \in Thread : th[t].pc # "in"

Shows(Find(_)) == \A k \in Key : Find(k) \in expect[k]

\* As Shows, but the value an unfinished operation was copying may be torn.
ShowsOrTorn(Find(_)) ==
  \A k \in Key : Find(k) \in expect[k]
                  \/ (Find(k) = Torn /\ k \in dirty)

\* What StoredsDB::Read copies out of the buffer after the class has released
\* its lock belongs to the key, and was current at some time during the call,
\* or is a copy torn by a concurrent update; it finds nothing only if there
\* may have been nothing.
ReadLegal ==
  \A t \in Thread : th[t].pc = "got" /\ th[t].op = "read" =>
    IF th[t].ptr = None \/ th[t].got = Zero THEN Absent \in th[t].legal
    ELSE th[t].got \in th[t].legal \cup {Torn}

\* A scan copies while it holds the lock: it never sees half a value.
ScanWhole == \A t \in Thread : Torn \notin th[t].seen

\* Nothing is freed twice, and nothing that was not allocated, in the first
\* process that uses a pool.  (destroy frees the pool's root object, which the
\* next process is given again by pmemobj_root, and frees again.)
FreesLiveOnly == starts = 0 => \A t \in Thread \cup {main} : ~FreesDead(t)

\* A called operation ends, or the process does.
CallsEnd == \A t \in Thread : th[t].pc # "idle" ~> th[t].pc = "idle"

(***************************************************************************)
(* The part of an inductive invariant that every structure shares: which   *)
(* threads are where, and what their locks keep apart.                     *)
(***************************************************************************)
Actor == Thread \cup {main}

CallState ==
  [pc: {"idle", "want", "in", "copy", "got"},
   op: {"none", "insert", "update", "read", "scan"},
   key: Key \cup {0}, val: Val \cup {0}, ptr: Cell \cup {None},
   got: Value \cup {None}, seen: SUBSET Value,
   legal: SUBSET (Value \cup {Absent}), ret: {kOK}]

\* Every variable has its type; what a program consists of is the structure's.
CallTypeOK ==
  /\ cls \in Classes
  /\ phase \in {"init", "serve", "destroy", "closed", "down"}
  /\ th \in [Thread -> CallState]
  /\ prog = [a \in Actor |-> prog[a]]
  /\ rd \subseteq Thread /\ wr \subseteq Thread
  /\ expect \in [Key -> SUBSET (Value \cup {Absent})] /\ dirty \subseteq Key
  /\ calls \in Nat /\ fails \in Nat /\ starts \in Nat

\* The thread is between the lock and the unlock of an insert or an update.
Updating(t) == th[t].pc = "in" /\ th[t].op \in {"insert", "update"}

\* What a thread has been asked, wherever it is in the call.
Asked ==
  \A t \in Thread :
    /\ th[t].pc # "idle" => th[t].key \in Key /\ th[t].op # "none"
    /\ th[t].pc \in {"want", "in"} /\ th[t].op \in {"insert", "update"}
         => th[t].val \in Val
    /\ th[t].pc = "copy" => th[t].op = "read"

\* Threads call only a DB that serves, and only the class's clients do.
CallsServed ==
  /\ phase # "serve" => Quiet
  /\ \A t \in Thread \ Clients : th[t].pc = "idle"
  /\ power = "up" <=> phase \in {"init", "serve", "destroy"}

\* A thread in an operation holds the lock the operation takes, ...
HoldsLock ==
  \A t \in Thread : th[t].pc = "in" =>
    /\ Mode(th[t].op) = "rd" => t \in rd
    /\ Mode(th[t].op) = "wr" => t \in wr

\* ... so that two threads in operations are both readers.
Excluded ==
  \A t, u \in Thread :
    t # u /\ th[t].pc = "in" /\ th[u].pc = "in" => ~Updating(t)

\* Only an insert or update, init or destroy has memory steps to perform.
ProgramsOwned ==
  /\ \A t \in Thread : prog[t] # <<>> => Updating(t)
  /\ prog[main] # <<>> => phase \in {"init", "destroy"}

\* What an operation writes is expected while it runs.
WritesExpected ==
  \A t \in Thread : Updating(t) /\ Writes(th[t].op, th[t].key) =>
    th[t].val \in expect[th[t].key] /\ th[t].key \in dirty

\* A read accepts whatever its key may show until it has made its copy.
LegalGrows ==
  \A t \in Thread :
    th[t].op = "read" /\ th[t].pc \in {"want", "in", "copy"}
      => expect[th[t].key] \subseteq th[t].legal

CallInv ==
  /\ CallTypeOK /\ Asked /\ CallsServed /\ HoldsLock /\ Excluded
  /\ ProgramsOwned /\ WritesExpected /\ LegalGrows

-----------------------------------------------------------------------------
(***************************************************************************)
(* What a program of memory steps does to the memory, for the invariants   *)
(* of the structures.                                                      *)
(***************************************************************************)
Step ==
  [op: {"store"}, c: Cell, v: Value]
  \cup [op: {"persist", "alloc", "free", "tx_add_range", "tx_alloc",
             "tx_zalloc", "tx_free"}, C: SUBSET Cell]
  \cup [op: {"alloc_to", "zalloc_to"}, C: SUBSET Cell, c: Cell, v: Value]
  \cup [op: {"free_in"}, C: SUBSET Cell, c: Cell]
  \cup [op: {"tx_begin", "tx_end"}]

\* The cells a step assigns, and what it leaves in them.
Assigns(u) ==
  CASE u.op \in {"store", "alloc_to", "free_in"} -> {u.c}
    [] u.op = "zalloc_to" -> {u.c} \cup u.C
    [] u.op = "tx_zalloc" -> u.C
    [] OTHER -> {}

Assigned(u, c) ==
  IF u.op \in {"store", "alloc_to"} \/ (u.op = "zalloc_to" /\ c = u.c)
  THEN u.v ELSE Zero

\* The cells it allocates, frees and puts into the log of the transaction.
Allocates(u) ==
  IF u.op \in {"alloc", "alloc_to", "zalloc_to", "tx_alloc", "tx_zalloc"}
  THEN u.C ELSE {}

Releases(u) ==
  IF u.op \in {"free", "free_in", "tx_free"} THEN u.C ELSE {}

Logs(u) ==
  IF u.op \in {"tx_add_range", "tx_alloc", "tx_zalloc"} THEN u.C ELSE {}

\* Performing the program p in the memory m ends in the memory F.
Yields(p, m, F) ==
  \A c \in Cell :
    \/ F[c] = m[c] /\ \A j \in DOMAIN p : c \notin Assigns(p[j])
    \/ \E j \in DOMAIN p :
         /\ c \in Assigns(p[j]) /\ F[c] = Assigned(p[j], c)
         /\ \A i \in DOMAIN p : i > j => c \notin Assigns(p[i])

\* What p has still to allocate, to free and to log.
ToAllocate(p) == UNION {Allocates(p[j]) : j \in DOMAIN p}
FreesNothing(p) == \A j \in DOMAIN p : Releases(p[j]) = {}
ToLog(p) == UNION {Logs(p[j]) : j \in DOMAIN p}

\* The cells C hold nothing but R, whatever happens; p stores nothing else.
HoldOnly(C, R) ==
  \A c \in C : /\ mem[c] \in R /\ may[c] \subseteq R
               /\ c \in DOMAIN undo => undo[c] \in R

StoresOnly(p, C, R) ==
  \A j \in DOMAIN p : \A c \in C \cap Assigns(p[j]) : Assigned(p[j], c) \in R

\* p, with the cells A in the log, is the rest of a transaction: it stores
\* only what A and the steps before have logged, and ends with TX_END.
LogsFirst(p, A) ==
  \A j \in DOMAIN p :
    /\ p[j].op \in {"store", "tx_begin", "tx_add_range", "tx_alloc",
                    "tx_zalloc", "tx_free", "tx_end"}
    /\ p[j].op = "store" =>
         \/ p[j].c \in A
         \/ \E i \in DOMAIN p : i < j /\ p[j].c \in Logs(p[i])
    /\ p[j].op = "tx_end" => j = Len(p)

\* p is nothing or ends with TX_END.
EndsTx(p) == p # <<>> => p[Len(p)].op = "tx_end"

\* Programs consist of steps, those of a transaction log before they store.
ProgramsTyped == prog \in [Actor -> Seq(Step)]

Logged == DOMAIN undo \cup fresh

TxPrograms ==
  cls.medium = "tx" => \A a \in Actor : LogsFirst(prog[a], Logged)
=============================================================================
