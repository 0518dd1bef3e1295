---------------------------- MODULE StoredsProofs ----------------------------
(***************************************************************************)
(* What every storeds class owes to its lock and to the way StoredsDB      *)
(* calls it, for any number of threads and keys: each action of Storeds    *)
(* keeps CallInv, whatever programs a structure gives it to run.           *)
(***************************************************************************)
EXTENDS Storeds, TLAPS

\* Locks and clients depend on the class alone.
LEMMA FixedByClass ==
  ASSUME cls' = cls
  PROVE  /\ \A op : Mode(op)' = Mode(op)
         /\ Clients' = Clients
BY DEF Mode, Clients

LEMMA ClientsAreThreads == Clients \subseteq Thread
BY StoredsAssumption DEF Clients

\* A memory step leaves the machine running.
LEMMA MemoryStepUp ==
  ASSUME NEW u, MemoryStep(u)
  PROVE  power = "up" /\ power' = "up"
BY DEF MemoryStep, Store, Persist, Alloc, AllocTo, ZAllocTo, Free, FreeFrom,
       TxBegin, TxAddRange, TxAlloc, TxZAlloc, TxFree, TxCommit

\* A thread that can have its lock finds no other one updating, and one that
\* wants to update finds nobody in an operation.
LEMMA LockExcludes ==
  ASSUME CallInv, NEW t \in Thread, th[t].pc = "want",
         Available(Mode(th[t].op), t), NEW u \in Thread, th[u].pc = "in"
  PROVE  ~Updating(u) /\ th[t].op \notin {"insert", "update"}
<1>1. cls.lock \in {"none", "mutex", "rwlock"}
  BY StoredsAssumption DEF CallInv, CallTypeOK
<1>2. /\ Mode(th[u].op) = "rd" => u \in rd
      /\ Mode(th[u].op) = "wr" => u \in wr
  BY DEF CallInv, HoldsLock
<1>3. th[t] \in CallState /\ th[u] \in CallState
  BY DEF CallInv, CallTypeOK
<1>4. CASE cls.lock = "none"
  <2>1. t \in Clients /\ u \in Clients BY DEF CallInv, CallsServed
  <2>2. t = u BY <1>4, <2>1 DEF Clients
  <2> QED BY <2>2
<1>5. CASE cls.lock = "mutex"
  <2>1. u \in wr /\ wr = {} BY <1>2, <1>5 DEF Mode, Available
  <2> QED BY <2>1
<1>6. CASE cls.lock = "rwlock"
  <2>1. CASE th[t].op \in {"read", "scan"}
    <3>1. wr = {} BY <1>6, <2>1 DEF Mode, Available
    <3> QED BY <1>2, <1>6, <2>1, <3>1 DEF Mode, Updating
  <2>2. CASE th[t].op \notin {"read", "scan"}
    <3>1. wr = {} /\ rd = {} BY <1>6, <2>2 DEF Mode, Available
    <3>2. u \in rd \/ u \in wr BY <1>2, <1>6 DEF Mode
    <3> QED BY <3>1, <3>2
  <2> QED BY <2>1, <2>2
<1> QED BY <1>1, <1>4, <1>5, <1>6

\* The first process starts with init to run and nothing else.
LEMMA InitCalls ==
  ASSUME NEW R, NEW D, NEW p, StoredsInit(R, D, p) PROVE CallInv
<1> USE DEF StoredsInit, Idle
<1>1. \A t \in Thread : th[t] = Idle OBVIOUS
<1>2. CallTypeOK
  <2>1. Idle \in CallState BY DEF CallState
  <2>2. th \in [Thread -> CallState] BY <2>1
  <2>3. expect \in [Key -> SUBSET (Value \cup {Absent})] OBVIOUS
  <2>4. prog = [a \in Actor |-> prog[a]] BY DEF Actor
  <2> QED BY <2>2, <2>3, <2>4 DEF CallTypeOK
<1>3. Asked BY <1>1 DEF Asked
<1>4. CallsServed
  <2>1. power = "up" BY DEF PoolInit
  <2> QED BY <1>1, <2>1 DEF CallsServed, Quiet
<1>5. HoldsLock /\ Excluded BY <1>1 DEF HoldsLock, Excluded
<1>6. ProgramsOwned BY StoredsAssumption DEF ProgramsOwned, main
<1>7. LegalGrows /\ WritesExpected
  BY <1>1 DEF LegalGrows, WritesExpected, Updating
<1> QED BY <1>2, <1>3, <1>4, <1>5, <1>6, <1>7 DEF CallInv

\* A memory step takes one step off one program.
LEMMA ExecCalls ==
  ASSUME CallInv, NEW a \in Actor, Exec(a) PROVE CallInv'
<1>1. /\ prog[a] # <<>> /\ prog' = [prog EXCEPT ![a] = Tail(@)]
      /\ UNCHANGED <<cls, phase, th, rd, wr, expect, dirty, calls, fails,
                     starts>>
      /\ power = "up" /\ power' = "up"
  BY MemoryStepUp DEF Exec
<1>2. \A b \in Actor \ {a} : prog'[b] = prog[b]
  BY <1>1 DEF CallInv, CallTypeOK
<1>3. CallTypeOK' BY <1>1 DEF CallInv, CallTypeOK
<1>4. Asked' /\ LegalGrows' BY <1>1 DEF CallInv, Asked, LegalGrows
<1>5. CallsServed' BY <1>1, FixedByClass DEF CallInv, CallsServed, Quiet
<1>6. HoldsLock' BY <1>1, FixedByClass DEF CallInv, HoldsLock
<1>7. Excluded' BY <1>1 DEF CallInv, Excluded, Updating
<1>8. ProgramsOwned'
  <2>1. \A b \in Actor : prog'[b] # <<>> => prog[b] # <<>> BY <1>1, <1>2
  <2> QED BY <1>1, <2>1 DEF CallInv, ProgramsOwned, Updating, Actor
<1>9. WritesExpected'
  BY <1>1 DEF CallInv, WritesExpected, Updating, Writes
<1> QED BY <1>3, <1>4, <1>5, <1>6, <1>7, <1>8, <1>9 DEF CallInv

\* init has returned: nobody has called yet.
LEMMA InitDoneCalls ==
  ASSUME CallInv, NEW found \in [Key -> Value \cup {Absent}], InitDone(found)
  PROVE  CallInv'
<1>1. /\ phase = "init" /\ power = "up" /\ prog[main] = <<>>
      /\ phase' = "serve"
      /\ expect' = [k \in Key |-> {found[k]}] /\ dirty' = {}
      /\ power' = power
      /\ UNCHANGED <<cls, th, prog, rd, wr, calls, fails, starts>>
  BY DEF InitDone, pvars
<1>2. \A t \in Thread : th[t].pc = "idle"
  BY <1>1 DEF CallInv, CallsServed, Quiet
<1>3. CallTypeOK' BY <1>1 DEF CallInv, CallTypeOK
<1>4. Asked' /\ LegalGrows' /\ HoldsLock' /\ Excluded' /\ WritesExpected'
  BY <1>1, <1>2 DEF Asked, LegalGrows, HoldsLock, Excluded, WritesExpected,
                    Updating
<1>5. CallsServed' BY <1>1, <1>2 DEF CallsServed, Quiet
<1>6. ProgramsOwned' BY <1>1 DEF CallInv, ProgramsOwned, Updating
<1> QED BY <1>3, <1>4, <1>5, <1>6 DEF CallInv

\* A step of thread t outside its operation that leaves the locks, the
\* programs and the history alone.
LEMMA OutsideCalls ==
  ASSUME CallInv, NEW t \in Thread, NEW o \in CallState,
         th' = [th EXCEPT ![t] = o],
         o.pc # "in", th[t].pc # "in", o.pc # "idle" => t \in Clients,
         o.pc # "idle" => phase = "serve" /\ o.key \in Key /\ o.op # "none",
         o.pc = "want" /\ o.op \in {"insert", "update"} => o.val \in Val,
         o.pc = "copy" => o.op = "read",
         o.pc \in {"want", "copy"} /\ o.op = "read"
           => expect[o.key] \subseteq o.legal,
         calls' \in Nat,
         UNCHANGED <<pvars, cls, phase, prog, rd, wr, expect, dirty, fails,
                     starts>>
  PROVE  CallInv'
<1>1. th'[t] = o /\ \A u \in Thread \ {t} : th'[u] = th[u]
  BY DEF CallInv, CallTypeOK
<1>2. CallTypeOK' BY DEF CallInv, CallTypeOK
<1>3. Asked' BY <1>1 DEF CallInv, Asked
<1>4. CallsServed'
  BY <1>1, FixedByClass DEF CallInv, CallsServed, Quiet, pvars
<1>5. HoldsLock' BY <1>1, FixedByClass DEF CallInv, HoldsLock
<1>6. Excluded' BY <1>1 DEF CallInv, Excluded, Updating
<1>7. ProgramsOwned' BY <1>1 DEF CallInv, ProgramsOwned, Updating
<1>8. LegalGrows' BY <1>1 DEF CallInv, LegalGrows
<1>9. WritesExpected'
  BY <1>1 DEF CallInv, WritesExpected, Updating, Writes
<1> QED BY <1>2, <1>3, <1>4, <1>5, <1>6, <1>7, <1>8, <1>9 DEF CallInv

\* StoredsDB calls the class.
LEMMA StartCallCalls ==
  ASSUME CallInv, NEW t \in Thread, NEW k \in Key, NEW v \in Val \cup {0},
         NEW op \in {"insert", "update", "read", "scan"},
         op \in {"insert", "update"} => v \in Val,
         StartCall(t, op, k, v)
  PROVE  CallInv'
<1> DEFINE o == [Idle EXCEPT !.pc = "want", !.op = op, !.key = k,
                             !.val = v, !.legal = expect[k]]
<1>1. expect[k] \subseteq Value \cup {Absent} BY DEF CallInv, CallTypeOK
<1>2. /\ o \in CallState /\ o.pc = "want" /\ o.op = op /\ o.key = k
      /\ o.val = v /\ o.legal = expect[k]
  BY <1>1 DEF Idle, CallState
<1>3. calls' \in Nat BY DEF StartCall, CallInv, CallTypeOK
<1>4. /\ th' = [th EXCEPT ![t] = o] /\ th[t].pc = "idle"
      /\ t \in Clients /\ phase = "serve"
      /\ UNCHANGED <<pvars, cls, phase, prog, rd, wr, expect, dirty, fails,
                     starts>>
  BY DEF StartCall
<1> HIDE DEF o
<1> QED BY <1>2, <1>3, <1>4, OutsideCalls

\* StoredsDB::Read copies what the pointer points to.
LEMMA CopyOutCalls ==
  ASSUME CallInv, mem \in [Cell -> Value], NEW t \in Thread, CopyOut(t)
  PROVE  CallInv'
<1> DEFINE got == IF th[t].ptr = None THEN None ELSE mem[th[t].ptr]
           o == [th[t] EXCEPT !.pc = "got", !.ret = kOK, !.got = got]
<1>1. th[t] \in CallState BY DEF CallInv, CallTypeOK
<1>2. got \in Value \cup {None} BY <1>1 DEF CallState
<1> HIDE DEF got
<1>3. /\ o \in CallState /\ o.pc = "got" /\ o.key = th[t].key
      /\ o.op = th[t].op
  BY <1>1, <1>2 DEF CallState
<1>4. /\ th' = [th EXCEPT ![t] = o] /\ th[t].pc = "copy"
      /\ UNCHANGED <<pvars, cls, phase, prog, rd, wr, expect, dirty, calls,
                     fails, starts>>
  BY DEF CopyOut, ReadStatus, got
<1>5. t \in Clients /\ phase = "serve" /\ o.key \in Key /\ o.op # "none"
  BY <1>3, <1>4 DEF CallInv, CallsServed, Quiet, Asked
<1>6. calls' \in Nat BY <1>4 DEF CallInv, CallTypeOK
<1> HIDE DEF o
<1> QED BY <1>3, <1>4, <1>5, <1>6, OutsideCalls

\* The client has its answer.
LEMMA ReturnCalls == ASSUME CallInv, NEW t \in Thread, Return(t) PROVE CallInv'
<1>1. Idle \in CallState /\ Idle.pc = "idle" BY DEF Idle, CallState
<1>2. calls' \in Nat BY DEF Return, CallInv, CallTypeOK
<1> QED BY <1>1, <1>2, OutsideCalls DEF Return

\* The lock is taken for an insert, an update or a read.
LEMMA EnterCalls ==
  ASSUME CallInv, NEW t \in Thread, NEW p, NEW ptr \in Cell \cup {None},
         p # <<>> => th[t].op \in {"insert", "update"},
         Enter(t, p, ptr)
  PROVE  CallInv'
<1> DEFINE k == th[t].key  v == th[t].val  w == Writes(th[t].op, k)
           m == Mode(th[t].op)
<1>1. th[t] \in CallState BY DEF CallInv, CallTypeOK
<1>2. /\ th[t].pc = "want" /\ power = "up" /\ Available(m, t)
      /\ rd' = IF m = "rd" THEN rd \cup {t} ELSE rd
      /\ wr' = IF m = "wr" THEN wr \cup {t} ELSE wr
      /\ prog' = [prog EXCEPT ![t] = p]
      /\ expect' = IF w THEN [expect EXCEPT ![k] = @ \cup {v}] ELSE expect
      /\ dirty' = IF w THEN dirty \cup {k} ELSE dirty
      /\ UNCHANGED <<pvars, cls, phase, calls, fails, starts>>
  BY DEF Enter
<1>3. /\ k \in Key /\ t \in Clients /\ phase = "serve"
      /\ w => th[t].op \in {"insert", "update"} /\ v \in Val /\ v \in Value
  BY <1>2, StoredsAssumption
     DEF CallInv, Asked, CallsServed, Quiet, Writes
<1> DEFINE o == [th[t] EXCEPT !.pc = "in", !.ptr = ptr]
<1>4. /\ o \in CallState /\ o.pc = "in" /\ o.op = th[t].op /\ o.key = k
      /\ o.val = v /\ o.legal = th[t].legal
  BY <1>1 DEF CallState
<1>5. /\ th' = [s \in Thread |-> th'[s]] /\ th'[t] = o
      /\ \A s \in Thread \ {t} : th'[s] =
           IF w /\ th[s].op = "read" /\ th[s].key = k
           THEN [th[s] EXCEPT !.legal = @ \cup {v}] ELSE th[s]
  BY DEF Enter
<1>6. ASSUME NEW s \in Thread \ {t}
      PROVE  /\ th'[s] \in CallState /\ th'[s].pc = th[s].pc
             /\ th'[s].op = th[s].op /\ th'[s].key = th[s].key
             /\ th'[s].val = th[s].val
             /\ th[s].legal \subseteq th'[s].legal
             /\ w /\ th[s].op = "read" /\ th[s].key = k => v \in th'[s].legal
  <2>1. th[s] \in CallState BY DEF CallInv, CallTypeOK
  <2>2. CASE w /\ th[s].op = "read" /\ th[s].key = k
    <3>1. th'[s] = [th[s] EXCEPT !.legal = th[s].legal \cup {v}]
      BY <1>5, <2>1, <2>2 DEF CallState
    <3>2. th[s].legal \cup {v} \in SUBSET (Value \cup {Absent})
      BY <1>3, <2>1, <2>2 DEF CallState
    <3> QED BY <2>1, <3>1, <3>2 DEF CallState
  <2>3. CASE ~(w /\ th[s].op = "read" /\ th[s].key = k)
    BY <1>5, <2>1, <2>3
  <2> QED BY <2>2, <2>3
<1> HIDE DEF o, k, v, w
<1>7. \A s \in Thread :
        Updating(s)' <=> IF s = t THEN th[t].op \in {"insert", "update"}
                         ELSE Updating(s)
  BY <1>4, <1>5, <1>6 DEF Updating
<1>8. \A s \in Thread : th[s].pc = "in" =>
        ~Updating(s) /\ th[t].op \notin {"insert", "update"}
  BY <1>2, LockExcludes DEF m
<1>9. /\ expect' \in [Key -> SUBSET (Value \cup {Absent})]
      /\ \A l \in Key : expect'[l] = IF w /\ l = k THEN expect[l] \cup {v}
                                     ELSE expect[l]
  BY <1>2, <1>3 DEF CallInv, CallTypeOK
<1>10. CallTypeOK'
  <2>1. th' \in [Thread -> CallState] BY <1>4, <1>5, <1>6
  <2>2. dirty' \subseteq Key BY <1>2, <1>3 DEF CallInv, CallTypeOK
  <2>3. rd' \subseteq Thread /\ wr' \subseteq Thread
    BY <1>2 DEF CallInv, CallTypeOK
  <2>4. prog' = [a \in Actor |-> prog'[a]] BY <1>2 DEF CallInv, CallTypeOK
  <2> QED BY <1>2, <1>9, <2>1, <2>2, <2>3, <2>4 DEF CallInv, CallTypeOK
<1>11. Asked' BY <1>2, <1>3, <1>4, <1>5, <1>6 DEF CallInv, Asked, k, v
<1>12. CallsServed'
  <2>1. power' = power BY <1>2 DEF pvars
  <2> QED BY <1>2, <1>3, <1>6, <2>1, FixedByClass DEF CallInv, CallsServed, Quiet
<1>13. HoldsLock'
  <2>1. \A op : Mode(op)' = Mode(op) BY <1>2, FixedByClass
  <2>2. rd \subseteq rd' /\ wr \subseteq wr' BY <1>2
  <2>3. (m = "rd" => t \in rd') /\ (m = "wr" => t \in wr') BY <1>2
  <2> QED BY <1>4, <1>5, <1>6, <2>1, <2>2, <2>3 DEF CallInv, HoldsLock, m
<1>14. Excluded'
  <2>1. \A s \in Thread \ {t} : th'[s].pc = "in" => th[s].pc = "in" BY <1>6
  <2> QED BY <1>7, <1>8, <2>1 DEF CallInv, Excluded
<1>15. ProgramsOwned'
  <2>1. main \in Actor \ {t} /\ t \in Actor
    BY StoredsAssumption DEF Actor, main
  <2>2. \A a \in Actor : prog'[a] = IF a = t THEN p ELSE prog[a]
    BY <1>2, <2>1 DEF CallInv, CallTypeOK
  <2> QED BY <1>2, <1>7, <2>1, <2>2 DEF CallInv, ProgramsOwned, Actor
<1>16. LegalGrows'
  <2> SUFFICES ASSUME NEW s \in Thread, th'[s].op = "read",
                      th'[s].pc \in {"want", "in", "copy"}
               PROVE  expect'[th'[s].key] \subseteq th'[s].legal
    BY DEF LegalGrows
  <2>1. CASE s = t
    <3>1. ~w BY <1>3, <1>4, <1>5, <2>1
    <3>2. expect[k] \subseteq th[t].legal
      BY <1>2, <1>4, <1>5, <2>1 DEF CallInv, LegalGrows, k
    <3> QED BY <1>3, <1>4, <1>5, <1>9, <2>1, <3>1, <3>2
  <2>2. CASE s # t
    <3>1. th[s].key \in Key /\ expect[th[s].key] \subseteq th[s].legal
      BY <1>6, <2>2 DEF CallInv, LegalGrows, Asked
    <3> QED BY <1>6, <1>9, <2>2, <3>1
  <2> QED BY <2>1, <2>2
<1>17. WritesExpected'
  <2> SUFFICES ASSUME NEW s \in Thread, Updating(s)',
                      Writes(th[s].op, th[s].key)'
               PROVE  th'[s].val \in expect'[th'[s].key]
                      /\ th'[s].key \in dirty'
    BY DEF WritesExpected
  <2>1. CASE s = t
    <3>1. th'[t].op = th[t].op /\ th'[t].key = th[t].key
      BY <1>4, <1>5 DEF k
    <3>2. w \/ (expect' = expect /\ cls' = cls) BY <1>2
    <3>3. w BY <2>1, <3>1, <3>2 DEF w, k, Writes
    <3> QED BY <1>2, <1>3, <1>4, <1>5, <1>9, <2>1, <3>3
  <2>2. CASE s # t
    <3>1. Updating(s) /\ th[s].pc = "in" BY <1>7, <2>2 DEF Updating
    <3> QED BY <1>8, <3>1
  <2> QED BY <2>1, <2>2
<1> QED BY <1>10, <1>11, <1>12, <1>13, <1>14, <1>15, <1>16, <1>17 DEF CallInv

\* The lock is taken for a scan.
LEMMA EnterScanCalls ==
  ASSUME CallInv, NEW t \in Thread, th[t].op = "scan",
         NEW values \in SUBSET Value, EnterScan(t, values)
  PROVE  CallInv'
<1> DEFINE o == [th[t] EXCEPT !.pc = "in", !.seen = values]
           m == Mode("scan")
<1>1. /\ th[t].pc = "want" /\ power = "up" /\ Available(m, t)
      /\ rd' = IF m = "rd" THEN rd \cup {t} ELSE rd
      /\ wr' = IF m = "wr" THEN wr \cup {t} ELSE wr
      /\ th' = [th EXCEPT ![t] = o]
      /\ UNCHANGED <<pvars, cls, phase, prog, expect, dirty, calls, fails,
                     starts>>
  BY DEF EnterScan
<1>2. /\ o \in CallState /\ o.pc = "in" /\ o.op = "scan"
      /\ o.key = th[t].key /\ o.val = th[t].val
  BY DEF CallInv, CallTypeOK, CallState
<1> HIDE DEF o
<1>3. th'[t] = o /\ \A u \in Thread \ {t} : th'[u] = th[u]
  BY <1>1 DEF CallInv, CallTypeOK
<1>4. \A u \in Thread : Updating(u)' <=> Updating(u)
  BY <1>1, <1>2, <1>3 DEF Updating
<1>5. \A u \in Thread : th[u].pc = "in" => ~Updating(u)
  BY <1>1, LockExcludes
<1>6. CallTypeOK' BY <1>1, <1>2 DEF CallInv, CallTypeOK
<1>7. Asked' BY <1>1, <1>2, <1>3 DEF CallInv, Asked
<1>8. CallsServed'
  <2>1. t \in Clients /\ phase = "serve"
    BY <1>1 DEF CallInv, CallsServed, Quiet
  <2> QED BY <1>1, <1>3, <2>1, FixedByClass
          DEF CallInv, CallsServed, Quiet, pvars
<1>9. HoldsLock'
  <2>1. \A op : Mode(op)' = Mode(op) BY <1>1, FixedByClass
  <2> QED BY <1>1, <1>2, <1>3, <2>1 DEF CallInv, HoldsLock
<1>10. Excluded'
  <2>1. \A u \in Thread : ~Updating(u) BY <1>5 DEF Updating
  <2> QED BY <1>4, <2>1 DEF Excluded
<1>11. ProgramsOwned' BY <1>1, <1>4 DEF CallInv, ProgramsOwned
<1>12. LegalGrows' BY <1>1, <1>2, <1>3 DEF CallInv, LegalGrows
<1>13. WritesExpected'
  <2>1. \A u \in Thread : ~Updating(u) BY <1>5 DEF Updating
  <2> QED BY <1>4, <2>1 DEF WritesExpected
<1> QED BY <1>6, <1>7, <1>8, <1>9, <1>10, <1>11, <1>12, <1>13 DEF CallInv

\* The unlock at the end of an operation.
LEMMA LeaveCalls == ASSUME CallInv, NEW t \in Thread, Leave(t) PROVE CallInv'
<1> DEFINE k == th[t].key  v == th[t].val  w == Writes(th[t].op, k)
           o == CASE th[t].op = "read" -> [th[t] EXCEPT !.pc = "copy"]
                  [] th[t].op = "scan" -> [th[t] EXCEPT !.pc = "got"]
                  [] OTHER -> Idle
<1>1. /\ th[t].pc = "in" /\ power = "up" /\ prog[t] = <<>>
      /\ rd' = rd \ {t} /\ wr' = wr \ {t}
      /\ expect' = IF w THEN [expect EXCEPT ![k] = {v}] ELSE expect
      /\ dirty' = dirty \ {k}
      /\ th' = [th EXCEPT ![t] = o]
      /\ UNCHANGED <<pvars, cls, phase, prog, calls, fails, starts>>
  BY DEF Leave
<1>2. /\ k \in Key /\ t \in Clients /\ phase = "serve"
      /\ w => Updating(t) /\ v \in Val /\ v \in Value
  BY <1>1, StoredsAssumption
     DEF CallInv, Asked, CallsServed, Quiet, Writes, Updating
<1>3. /\ o \in CallState /\ o.pc \notin {"in", "want"}
      /\ (o.pc = "copy" => o.op = "read" /\ th[t].op = "read"
                            /\ o.key = k /\ o.legal = th[t].legal)
      /\ (o.pc # "idle" => o.key = k /\ o.op # "none")
  BY DEF CallInv, CallTypeOK, CallState, Idle
<1>4. w => v \in expect[k] BY <1>2 DEF CallInv, WritesExpected
<1> HIDE DEF o, k, v, w
<1>5. th'[t] = o /\ \A u \in Thread \ {t} : th'[u] = th[u]
  BY <1>1 DEF CallInv, CallTypeOK
<1>6. \A u \in Thread : Updating(u)' <=> u # t /\ Updating(u)
  BY <1>3, <1>5 DEF Updating
<1>7. /\ expect' \in [Key -> SUBSET (Value \cup {Absent})]
      /\ \A l \in Key : expect'[l] \subseteq expect[l]
      /\ \A l \in Key \ {k} : expect'[l] = expect[l]
  BY <1>1, <1>2, <1>4 DEF CallInv, CallTypeOK
<1>8. CallTypeOK'
  <2>1. dirty' \subseteq Key /\ rd' \subseteq Thread /\ wr' \subseteq Thread
    BY <1>1 DEF CallInv, CallTypeOK
  <2> QED BY <1>1, <1>3, <1>7, <2>1 DEF CallInv, CallTypeOK
<1>9. Asked' BY <1>2, <1>3, <1>5 DEF CallInv, Asked
<1>10. CallsServed'
  <2>1. power' = power BY <1>1 DEF pvars
  <2> QED BY <1>1, <1>2, <1>5, <2>1, FixedByClass DEF CallInv, CallsServed, Quiet
<1>11. HoldsLock'
  <2>1. \A op : Mode(op)' = Mode(op) BY <1>1, FixedByClass
  <2> QED BY <1>1, <1>3, <1>5, <2>1 DEF CallInv, HoldsLock
<1>12. Excluded' BY <1>3, <1>5, <1>6 DEF CallInv, Excluded
<1>13. ProgramsOwned' BY <1>1, <1>6 DEF CallInv, ProgramsOwned
<1>14. LegalGrows'
  <2> SUFFICES ASSUME NEW s \in Thread, th'[s].op = "read",
                      th'[s].pc \in {"want", "in", "copy"}
               PROVE  expect'[th'[s].key] \subseteq th'[s].legal
    BY DEF LegalGrows
  <2>1. CASE s = t
    <3>1. expect[k] \subseteq th[t].legal
      BY <1>1, <1>3, <1>5, <2>1 DEF CallInv, LegalGrows, k
    <3> QED BY <1>2, <1>3, <1>5, <1>7, <2>1, <3>1
  <2>2. CASE s # t
    <3>1. th[s].key \in Key /\ expect[th[s].key] \subseteq th[s].legal
      BY <1>5, <2>2 DEF CallInv, LegalGrows, Asked
    <3> QED BY <1>5, <1>7, <2>2, <3>1
  <2> QED BY <2>1, <2>2
<1>15. WritesExpected'
  <2> SUFFICES ASSUME NEW s \in Thread, Updating(s)',
                      Writes(th[s].op, th[s].key)'
               PROVE  th'[s].val \in expect'[th'[s].key]
                      /\ th'[s].key \in dirty'
    BY DEF WritesExpected
  <2>1. s # t /\ Updating(s) /\ th[s].pc = "in"
    BY <1>6 DEF Updating
  <2> QED BY <1>1, <2>1 DEF CallInv, Excluded
<1> QED BY <1>8, <1>9, <1>10, <1>11, <1>12, <1>13, <1>14, <1>15 DEF CallInv

\* A step of main, of a failure or of the next process while no thread is in a
\* call: whatever it does to the memory and to the phase.
LEMMA QuietCalls ==
  ASSUME CallInv, th' = [t \in Thread |-> th'[t]],
         \A t \in Thread : th'[t] \in CallState /\ th'[t].pc = "idle",
         cls' = cls, phase' \in {"init", "serve", "destroy", "closed", "down"},
         prog' = [a \in Actor |-> prog'[a]],
         \A t \in Thread : prog'[t] = <<>>,
         prog'[main] # <<>> => phase' \in {"init", "destroy"},
         rd' \subseteq Thread, wr' \subseteq Thread,
         expect' \in [Key -> SUBSET (Value \cup {Absent})], dirty' \subseteq Key,
         calls' \in Nat, fails' \in Nat, starts' \in Nat,
         power' = "up" <=> phase' \in {"init", "serve", "destroy"}
  PROVE  CallInv'
<1>1. CallTypeOK' BY DEF CallInv, CallTypeOK
<1>2. /\ Asked' /\ CallsServed' /\ HoldsLock' /\ Excluded' /\ ProgramsOwned'
      /\ WritesExpected' /\ LegalGrows'
  BY DEF Asked, CallsServed, Quiet, HoldsLock, Excluded, ProgramsOwned,
         WritesExpected, LegalGrows, Updating
<1> QED BY <1>1, <1>2 DEF CallInv

\* While no thread is in a call, none has steps to perform.
LEMMA QuietPrograms ==
  ASSUME CallInv, Quiet
  PROVE  /\ \A t \in Thread : prog[t] = <<>> /\ th[t].pc = "idle"
         /\ \A t \in Thread : th[t] \in CallState
         /\ th = [t \in Thread |-> th[t]]
BY DEF CallInv, CallTypeOK, Quiet, ProgramsOwned, Updating

\* The threads are joined and main calls destroy.
LEMMA DestroyCalls == ASSUME CallInv, NEW p, Destroy(p) PROVE CallInv'
<1>1. /\ power = "up" /\ Quiet /\ phase' = "destroy"
      /\ prog' = [prog EXCEPT ![main] = p]
      /\ expect' = [k \in Key |-> expect[k] \cup {Absent}]
      /\ power' = power
      /\ UNCHANGED <<cls, th, rd, wr, dirty, calls, fails, starts>>
  BY DEF Destroy, pvars
<1>2. /\ \A t \in Thread : prog'[t] = <<>>
      /\ prog' = [a \in Actor |-> prog'[a]]
  BY <1>1, QuietPrograms, StoredsAssumption DEF CallInv, CallTypeOK, Actor, main
<1>3. expect' \in [Key -> SUBSET (Value \cup {Absent})]
  BY <1>1 DEF CallInv, CallTypeOK
<1>4. /\ cls \in Classes /\ rd \subseteq Thread /\ wr \subseteq Thread
      /\ dirty \subseteq Key /\ calls \in Nat /\ fails \in Nat /\ starts \in Nat
  BY DEF CallInv, CallTypeOK
<1> QED BY <1>1, <1>2, <1>3, <1>4, QuietPrograms, QuietCalls

\* destroy has returned.
LEMMA CloseCalls == ASSUME CallInv, Close PROVE CallInv'
<1>1. /\ phase = "destroy" /\ prog[main] = <<>> /\ phase' = "closed"
      /\ power' = "exited"
      /\ UNCHANGED <<cls, th, prog, rd, wr, expect, dirty, calls, fails,
                     starts>>
  BY DEF Close, ProcessExit, Fail
<1>2. Quiet BY <1>1 DEF CallInv, CallsServed
<1>3. /\ cls \in Classes /\ rd \subseteq Thread /\ wr \subseteq Thread
      /\ dirty \subseteq Key /\ calls \in Nat /\ fails \in Nat /\ starts \in Nat
      /\ expect \in [Key -> SUBSET (Value \cup {Absent})]
      /\ prog = [a \in Actor |-> prog[a]]
  BY DEF CallInv, CallTypeOK
<1> QED BY <1>1, <1>2, <1>3, QuietPrograms, QuietCalls

\* The process ends, by a power failure or by its own doing.
LEMMA GoneCalls ==
  ASSUME CallInv, Gone, power' # "up", fails' \in Nat PROVE CallInv'
<1>1. /\ phase' = "down" /\ th' = [t \in Thread |-> Idle]
      /\ prog' = [a \in Actor |-> <<>>]
      /\ rd' = {} /\ wr' = {}
      /\ UNCHANGED <<cls, expect, dirty, calls, starts>>
  BY DEF Gone, Actor
<1>2. Idle \in CallState /\ Idle.pc = "idle" BY DEF Idle, CallState
<1>3. /\ th' = [t \in Thread |-> th'[t]]
      /\ \A t \in Thread : th'[t] \in CallState /\ th'[t].pc = "idle"
  BY <1>1, <1>2
<1>4. /\ prog' = [a \in Actor |-> prog'[a]] /\ prog'[main] = <<>>
      /\ \A t \in Thread : prog'[t] = <<>>
  BY <1>1 DEF Actor
<1>5. /\ dirty \subseteq Key /\ calls \in Nat /\ starts \in Nat
      /\ expect \in [Key -> SUBSET (Value \cup {Absent})]
  BY DEF CallInv, CallTypeOK
<1> HIDE DEF Idle
<1> QED BY <1>1, <1>3, <1>4, <1>5, QuietCalls

LEMMA CrashCalls == ASSUME CallInv, Crash PROVE CallInv'
<1>1. fails' \in Nat BY DEF Crash, CallInv, CallTypeOK
<1>2. power' # "up" BY DEF Crash, PowerFail, Fail
<1> QED BY <1>1, <1>2, GoneCalls DEF Crash

LEMMA DiesCalls == ASSUME CallInv, Dies PROVE CallInv'
<1>1. fails' \in Nat BY DEF Dies, CallInv, CallTypeOK
<1>2. power' # "up" BY DEF Dies, ProcessExit, Fail
<1> QED BY <1>1, <1>2, GoneCalls DEF Dies

\* The image settles while no process runs; or nothing happens.
LEMMA SettlingCalls ==
  ASSUME CallInv, Settling \/ UNCHANGED vars PROVE CallInv'
<1>1. UNCHANGED svars /\ power' = power
  BY DEF Settling, SettleNext, Settle, vars, pvars
<1>2. UNCHANGED <<cls, phase, th, prog, rd, wr, expect, dirty, calls, fails,
                  starts>>
  BY <1>1 DEF svars
<1>3. CallTypeOK' /\ Asked' /\ LegalGrows'
  BY <1>2 DEF CallInv, CallTypeOK, Asked, LegalGrows
<1>4. CallsServed'
  BY <1>1, <1>2, FixedByClass DEF CallInv, CallsServed, Quiet
<1>5. HoldsLock' BY <1>2, FixedByClass DEF CallInv, HoldsLock
<1>6. Excluded' /\ ProgramsOwned'
  BY <1>2 DEF CallInv, Excluded, ProgramsOwned, Updating
<1>7. WritesExpected' BY <1>2 DEF CallInv, WritesExpected, Updating, Writes
<1> QED BY <1>3, <1>4, <1>5, <1>6, <1>7 DEF CallInv

\* The next process starts with init.
LEMMA ReopenCalls == ASSUME CallInv, NEW p, Reopen(p) PROVE CallInv'
<1>1. /\ phase \in {"down", "closed"} /\ power' = "up" /\ phase' = "init"
      /\ prog' = [prog EXCEPT ![main] = p] /\ starts' = starts + 1
      /\ UNCHANGED <<cls, th, rd, wr, expect, dirty, calls, fails>>
  BY DEF Reopen, Open
<1>2. Quiet BY <1>1 DEF CallInv, CallsServed
<1>3. /\ \A t \in Thread : prog'[t] = <<>>
      /\ prog' = [a \in Actor |-> prog'[a]]
  BY <1>1, <1>2, QuietPrograms, StoredsAssumption
     DEF CallInv, CallTypeOK, Actor, main
<1>4. /\ cls \in Classes /\ rd \subseteq Thread /\ wr \subseteq Thread
      /\ dirty \subseteq Key /\ calls \in Nat /\ fails \in Nat
      /\ starts + 1 \in Nat
      /\ expect \in [Key -> SUBSET (Value \cup {Absent})]
  BY DEF CallInv, CallTypeOK
<1> QED BY <1>1, <1>2, <1>3, <1>4, QuietPrograms, QuietCalls

-----------------------------------------------------------------------------
(***************************************************************************)
(* The memory keeps its types, call by call.                               *)
(***************************************************************************)
LEMMA NoUndoFacts == DOMAIN NoUndo = {} /\ NoUndo \in [{} -> Value]
BY DEF NoUndo

LEMMA StoreTypes ==
  ASSUME MemoryTypeOK, NEW c \in Cell, NEW v \in Value, Store(c, v)
  PROVE  MemoryTypeOK'
BY DEF MemoryTypeOK, Store

LEMMA PersistTypes ==
  ASSUME MemoryTypeOK, NEW C \in SUBSET Cell, Persist(C) PROVE MemoryTypeOK'
BY DEF MemoryTypeOK, Persist

LEMMA AllocTypes ==
  ASSUME MemoryTypeOK, NEW C \in SUBSET Cell, Alloc(C) \/ Free(C) \/ TxAlloc(C)
  PROVE  MemoryTypeOK'
BY DEF MemoryTypeOK, Alloc, Free, TxAlloc

LEMMA AllocToTypes ==
  ASSUME MemoryTypeOK, NEW C \in SUBSET Cell, NEW c \in Cell, NEW v \in Value,
         AllocTo(C, c, v) \/ FreeFrom(C, c)
  PROVE  MemoryTypeOK'
BY ZeroAssumption DEF MemoryTypeOK, AllocTo, FreeFrom

LEMMA TxTypes ==
  ASSUME MemoryTypeOK, NEW C \in SUBSET Cell,
         TxBegin \/ TxAddRange(C) \/ TxFree(C) \/ TxCommit
  PROVE  MemoryTypeOK'
<1>1. CASE TxBegin \/ TxFree(C) BY <1>1 DEF MemoryTypeOK, TxBegin, TxFree
<1>2. CASE TxAddRange(C) BY <1>2 DEF MemoryTypeOK, TxAddRange
<1>3. CASE TxCommit BY <1>3, NoUndoFacts DEF MemoryTypeOK, TxCommit
<1> QED BY <1>1, <1>2, <1>3

LEMMA FailTypes ==
  ASSUME MemoryTypeOK, NEW how \in {"failed", "exited"}, Fail(how)
  PROVE  MemoryTypeOK'
<1>1. mem' \in [Cell -> Value] BY ZeroAssumption DEF MemoryTypeOK, Fail, AfterExit
<1>2. may' \in [Cell -> SUBSET Value]
  BY ZeroAssumption DEF MemoryTypeOK, Fail, AfterFailure
<1> QED BY <1>1, <1>2, NoUndoFacts DEF MemoryTypeOK, Fail

LEMMA SettleTypes == ASSUME MemoryTypeOK, SettleNext PROVE MemoryTypeOK'
BY DEF MemoryTypeOK, SettleNext, Settle, Unsettled

\* What the steps of a program do.
LEMMA StepIs ==
  /\ \A c, v : MemoryStep(St(c, v)) => Store(c, v)
  /\ \A C : MemoryStep(Fl(C)) => Persist(C)
  /\ \A C : MemoryStep(Al(C)) => Alloc(C)
  /\ \A C, c, v : MemoryStep(AlTo(C, c, v)) => AllocTo(C, c, v)
  /\ \A C : MemoryStep(Fr(C)) => Free(C)
  /\ \A C, c : MemoryStep(FrIn(C, c)) => FreeFrom(C, c)
  /\ MemoryStep(Bg) => TxBegin
  /\ \A C : MemoryStep(Sn(C)) => TxAddRange(C)
  /\ \A C : MemoryStep(TAl(C)) => TxAlloc(C)
  /\ \A C : MemoryStep(TFr(C)) => TxFree(C)
  /\ MemoryStep(Cm) => TxCommit
<1> USE DEF MemoryStep
<1>1. /\ \A c, v : MemoryStep(St(c, v)) => Store(c, v)
      /\ \A C : MemoryStep(Fl(C)) => Persist(C)
      /\ \A C : MemoryStep(Al(C)) => Alloc(C)
      /\ \A C, c, v : MemoryStep(AlTo(C, c, v)) => AllocTo(C, c, v)
  BY DEF St, Fl, Al, AlTo
<1>2. /\ \A C : MemoryStep(Fr(C)) => Free(C)
      /\ \A C, c : MemoryStep(FrIn(C, c)) => FreeFrom(C, c)
      /\ MemoryStep(Bg) => TxBegin
      /\ \A C : MemoryStep(Sn(C)) => TxAddRange(C)
  BY DEF Fr, FrIn, Bg, Sn
<1>3. /\ \A C : MemoryStep(TAl(C)) => TxAlloc(C)
      /\ \A C : MemoryStep(TFr(C)) => TxFree(C)
      /\ MemoryStep(Cm) => TxCommit
  BY DEF TAl, TFr, Cm
<1> QED BY <1>1, <1>2, <1>3

\* A step is the head of the program; its tail is what is left.
LEMMA ExecIs ==
  ASSUME CallInv, NEW a \in Actor, Exec(a)
  PROVE  /\ prog[a] # <<>> /\ MemoryStep(Head(prog[a]))
         /\ prog'[a] = Tail(prog[a])
         /\ \A b \in Actor \ {a} : prog'[b] = prog[b]
         /\ UNCHANGED <<cls, phase, th, rd, wr, expect, dirty, calls, fails,
                        starts>>
BY DEF Exec, CallInv, CallTypeOK

LEMMA HeadsAndTails ==
  /\ \A a : <<a>> # <<>> /\ Head(<<a>>) = a /\ Tail(<<a>>) = <<>>
  /\ \A a, b : Head(<<a, b>>) = a /\ Tail(<<a, b>>) = <<b>>
  /\ \A a, b, c : Head(<<a, b, c>>) = a /\ Tail(<<a, b, c>>) = <<b, c>>
  /\ \A a, b, c, d : Head(<<a, b, c, d>>) = a
                     /\ Tail(<<a, b, c, d>>) = <<b, c, d>>
  /\ \A a, b, c, d, e : Head(<<a, b, c, d, e>>) = a
                        /\ Tail(<<a, b, c, d, e>>) = <<b, c, d, e>>
  /\ \A a, b, c, d, e, f : Head(<<a, b, c, d, e, f>>) = a
                           /\ Tail(<<a, b, c, d, e, f>>) = <<b, c, d, e, f>>
OBVIOUS
=============================================================================
