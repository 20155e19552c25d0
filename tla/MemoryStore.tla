------------------------------ MODULE MemoryStore ------------------------------
(***************************************************************************)
(* store/store.go: a plain map guarded by one RWMutex.  Every goroutine    *)
(* runs the body of Get, Set or Delete one statement at a time; the lock   *)
(* calls take the steps of module RWMutex.  The deferred unlock runs when  *)
(* the function returns, so one step stands for both.                      *)
(***************************************************************************)
EXTENDS RWMutex

CONSTANTS
    Keys,
    Values,   \* the strings that are stored
    Empty,    \* the empty string, Go's zero value for a missing key
    Absent    \* marks a key the map does not hold

ASSUME ValuesAssumption == Empty \in Values /\ Absent \notin Values

VARIABLES
    data,     \* s.data, a total function that maps missing keys to Absent
    pc,       \* the statement each goroutine is about to run
    req,      \* the arguments of its call
    res       \* v and ok, the results it will return

storeVars == <<data, pc, req, res>>
vars == <<writer, readers, parked, data, pc, req, res>>

--------------------------------------------------------------------------------

\* The caller sees a call in progress until the step that fixes its results.
Phase(at) ==
    CASE at = "idle"                  -> "idle"
      [] at \in {"runlock", "unlock"} -> "done"
      [] OTHER                        -> "called"

Abs == INSTANCE AtomicStore WITH phase <- [p \in Procs |-> Phase(pc[p])]

PcLabels == {"idle", "rlock", "rwait", "load", "runlock",
             "lock", "wwait", "store", "find", "remove", "unlock"}

TypeOK ==
    /\ MuTypeOK
    /\ data \in [Keys -> Values \cup {Absent}]
    /\ pc \in [Procs -> PcLabels]
    /\ req \in [Procs -> Abs!Requests]
    /\ res \in [Procs -> Abs!Results]

Goto(p, from, to) == pc[p] = from /\ pc' = [pc EXCEPT ![p] = to]

Yield(p, value, ok) == res' = [res EXCEPT ![p] = [value |-> value, ok |-> ok]]

--------------------------------------------------------------------------------

\* NewMemoryStore; no call has been made yet.
Init ==
    /\ MuInit
    /\ data = [k \in Keys |-> Absent]
    /\ pc = [p \in Procs |-> "idle"]
    /\ req \in [Procs -> Abs!Requests]
    /\ res = [p \in Procs |-> Abs!NoResult]

\* Mutant of EntryLock: Delete takes the read lock.
EntryLockSharedDelete(op) == IF op = "set" THEN "lock" ELSE "rlock"

\* The lock each method takes on its first line.
EntryLock(op) == IF op = "get" THEN "rlock" ELSE "lock"

\* The statement each method runs once it has its lock.
Body(op) == CASE op = "get" -> "load" [] op = "set" -> "store" [] op = "del" -> "find"

Call(p, r) ==
    /\ Goto(p, "idle", EntryLock(r.op))
    /\ req' = [req EXCEPT ![p] = r]
    /\ res' = [res EXCEPT ![p] = Abs!NoResult]
    /\ UNCHANGED <<muVars, data>>

\* s.mu.RLock(), s.mu.Lock(): ask, then get the lock.
AskRead(p)  == Goto(p, "rlock", "rwait") /\ RLock(p) /\ UNCHANGED <<data, req, res>>
GetRead(p)  == Goto(p, "rwait", Body(req[p].op)) /\ RLocked(p) /\ UNCHANGED <<data, req, res>>
AskWrite(p) == Goto(p, "lock", "wwait") /\ Lock(p) /\ UNCHANGED <<data, req, res>>
GetWrite(p) == Goto(p, "wwait", Body(req[p].op)) /\ Locked(p) /\ UNCHANGED <<data, req, res>>

\* Mutant of Load: a missing key yields whatever the map has for it.
LoadRaw(p) ==
    /\ Goto(p, "load", "runlock")
    /\ Yield(p, data[req[p].key], data[req[p].key] # Absent)
    /\ UNCHANGED <<muVars, data, req>>

\* v, ok := s.data[key]
Load(p) ==
    LET v == data[req[p].key]
    IN  /\ Goto(p, "load", "runlock")
        /\ Yield(p, IF v = Absent THEN Empty ELSE v, v # Absent)
        /\ UNCHANGED <<muVars, data, req>>

\* s.data[key] = value
Store(p) ==
    /\ Goto(p, "store", "unlock")
    /\ data' = [data EXCEPT ![req[p].key] = req[p].value]
    /\ UNCHANGED <<muVars, req, res>>

\* Mutant of Find: every key is taken to be present.
FindAlways(p) == Goto(p, "find", "remove") /\ UNCHANGED <<muVars, data, req, res>>

\* Mutant of Find: the early exit forgets the lock.
FindLeaks(p) ==
    /\ IF data[req[p].key] # Absent THEN Goto(p, "find", "remove") ELSE Goto(p, "find", "idle")
    /\ UNCHANGED <<muVars, data, req, res>>

\* _, ok := s.data[key]; an absent key goes straight to return ok, which is
\* the FALSE that res already holds.
Find(p) ==
    /\ IF data[req[p].key] # Absent THEN Goto(p, "find", "remove") ELSE Goto(p, "find", "unlock")
    /\ UNCHANGED <<muVars, data, req, res>>

\* delete(s.data, key); return ok
Remove(p) ==
    /\ Goto(p, "remove", "unlock")
    /\ data' = [data EXCEPT ![req[p].key] = Absent]
    /\ Yield(p, Empty, TRUE)
    /\ UNCHANGED <<muVars, req>>

\* The deferred s.mu.RUnlock() and s.mu.Unlock() run as the method returns.
ReturnRead(p)  == Goto(p, "runlock", "idle") /\ RUnlock(p) /\ UNCHANGED <<data, req, res>>
ReturnWrite(p) == Goto(p, "unlock", "idle") /\ Unlock(p) /\ UNCHANGED <<data, req, res>>

\* The steps of a call that has begun.
Step(p) ==
    \/ AskRead(p) \/ GetRead(p) \/ AskWrite(p) \/ GetWrite(p)
    \/ Load(p) \/ Store(p) \/ Find(p) \/ Remove(p)
    \/ ReturnRead(p) \/ ReturnWrite(p)

Next == \E p \in Procs : Step(p) \/ \E r \in Abs!Requests : Call(p, r)

Spec == Init /\ [][Next]_vars

\* A goroutine that can run does run.  AskWrite needs strong fairness: the
\* internal mutex may be taken by others again and again, and Go's mutex is
\* fair to a waiter that has starved for a millisecond.
Fairness == \A p \in Procs : WF_vars(Step(p)) /\ SF_vars(AskWrite(p))

FairSpec == Spec /\ Fairness

--------------------------------------------------------------------------------

Writing == {"store", "find", "remove", "unlock"}
Reading == {"load", "runlock"}

(***************************************************************************)
(* A goroutine inside the critical section of Set or Delete is alone: no   *)
(* other goroutine is inside Set or Delete, and none is reading the map in *)
(* Get.  A Go map that is written while it is accessed aborts the process. *)
(***************************************************************************)
MapExclusive ==
    \A p, q \in Procs :
        p # q /\ pc[p] \in Writing => pc[q] \notin Writing \cup Reading

(***************************************************************************)
(* The strengthening of MapExclusive that every step preserves: who owns   *)
(* the lock is known from where each goroutine is, every goroutine runs    *)
(* the code of the method it called, results are untouched before the step *)
(* that fixes them, and the key Delete has found is still there when it    *)
(* removes it.                                                             *)
(***************************************************************************)
OwnerInv ==
    /\ \A p \in Procs : pc[p] \in Writing \cup {"wwait"} => writer = p
    /\ \A p \in Procs : pc[p] \in Writing => readers = {}
    /\ \A p \in Procs : pc[p] \in Reading => p \in readers

CodeInv ==
    \A p \in Procs :
        /\ pc[p] \in {"rlock", "rwait", "load"} => req[p].op = "get"
        /\ pc[p] \in {"lock", "wwait"} => req[p].op \in {"set", "del"}
        /\ pc[p] = "store" => req[p].op = "set"
        /\ pc[p] \in {"find", "remove"} => req[p].op = "del"

ResultInv ==
    \A p \in Procs :
        /\ Phase(pc[p]) = "called" => res[p] = Abs!NoResult
        /\ pc[p] = "remove" => data[req[p].key] # Absent

IndInv == TypeOK /\ OwnerInv /\ CodeInv /\ ResultInv

(***************************************************************************)
(* Get, Set and Delete are linearizable: each takes effect at one instant  *)
(* inside its call.  In particular two Deletes never both report TRUE for  *)
(* one Set.                                                                *)
(***************************************************************************)
Linearizable == Abs!Spec

(***************************************************************************)
(* Every call of Get, Set or Delete returns: no method leaves without      *)
(* giving its lock back, and neither readers nor writers are locked out.   *)
(***************************************************************************)
CallReturns == \A p \in Procs : pc[p] # "idle" ~> pc[p] = "idle"

================================================================================
