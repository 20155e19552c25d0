--------------------------- MODULE MemoryStoreProofs ---------------------------
(***************************************************************************)
(* MemoryStore for any number of goroutines, keys and values: the map is   *)
(* never accessed while it is written, and the store implements            *)
(* AtomicStore.                                                            *)
(***************************************************************************)
EXTENDS MemoryStore, TLAPS

\* Every request is a get, a set or a del on a key, and carries a value.
LEMMA RequestShape ==
    ASSUME NEW r \in Abs!Requests
    PROVE  /\ r.op \in {"get", "set", "del"}
           /\ r.key \in Keys
           /\ r.value \in Values
  BY ValuesAssumption DEF Abs!Requests

\* The answer that stands for "no answer yet" is a result.
LEMMA NoResultType == Abs!NoResult \in Abs!Results
  BY ValuesAssumption DEF Abs!NoResult, Abs!Results

\* A fresh store satisfies the inductive invariant.
LEMMA InitIndInv == Init => IndInv
  BY ValuesAssumption, NoResultType
  DEF Init, IndInv, TypeOK, MuInit, MuTypeOK, OwnerInv, CodeInv, ResultInv, PcLabels,
      Writing, Reading, Phase

\* Every step of every method keeps the variables in their types.
LEMMA TypeStep == IndInv /\ [Next]_vars => TypeOK'
<1> SUFFICES ASSUME IndInv, [Next]_vars PROVE TypeOK'
  OBVIOUS
<1> USE DEF IndInv, TypeOK, MuTypeOK, PcLabels, Goto
<1>1. CASE UNCHANGED vars
  BY <1>1 DEF vars
<1>2. ASSUME NEW p \in Procs, NEW r \in Abs!Requests, Call(p, r)
      PROVE  TypeOK'
  BY <1>2, NoResultType DEF Call, EntryLock, muVars
<1>3. ASSUME NEW p \in Procs, AskRead(p) \/ AskWrite(p)
      PROVE  TypeOK'
  BY <1>3 DEF AskRead, AskWrite, RLock, Lock
<1>4. ASSUME NEW p \in Procs, GetRead(p) \/ GetWrite(p)
      PROVE  TypeOK'
  <2>1. req[p].op \in {"get", "set", "del"}
    BY RequestShape
  <2>2. Body(req[p].op) \in PcLabels
    BY <2>1 DEF Body
  <2> QED
    BY <1>4, <2>2 DEF GetRead, GetWrite, RLocked, Locked, muVars
<1>5. ASSUME NEW p \in Procs, Load(p) \/ Store(p) \/ Find(p) \/ Remove(p)
      PROVE  TypeOK'
  <2>1. req[p].key \in Keys /\ req[p].value \in Values
    BY RequestShape
  <2>2. CASE Load(p)
    <3> DEFINE v == data[req[p].key]
    <3>1. [value |-> IF v = Absent THEN Empty ELSE v, ok |-> v # Absent] \in Abs!Results
      BY <2>1, ValuesAssumption DEF Abs!Results
    <3> QED
      BY <2>2, <3>1 DEF Load, Yield, muVars
  <2>3. CASE Store(p) \/ Find(p)
    BY <2>1, <2>3 DEF Store, Find, muVars
  <2>4. CASE Remove(p)
    <3>1. [value |-> Empty, ok |-> TRUE] \in Abs!Results
      BY ValuesAssumption DEF Abs!Results
    <3> QED
      BY <2>1, <2>4, <3>1 DEF Remove, Yield, muVars
  <2> QED
    BY <1>5, <2>2, <2>3, <2>4
<1>6. ASSUME NEW p \in Procs, ReturnRead(p) \/ ReturnWrite(p)
      PROVE  TypeOK'
  BY <1>6 DEF ReturnRead, ReturnWrite, RUnlock, Unlock
<1> QED
  BY <1>1, <1>2, <1>3, <1>4, <1>5, <1>6 DEF Next, Step

\* Every step keeps lock ownership in line with where each goroutine is.
LEMMA OwnerStep == IndInv /\ [Next]_vars => OwnerInv'
<1> SUFFICES ASSUME IndInv, [Next]_vars PROVE OwnerInv'
  OBVIOUS
<1> USE NobodyAssumption DEF IndInv, TypeOK, MuTypeOK, OwnerInv, Goto, Writing, Reading
<1>1. CASE UNCHANGED vars
  BY <1>1 DEF vars
<1>2. ASSUME NEW p \in Procs, NEW r \in Abs!Requests, Call(p, r)
      PROVE  OwnerInv'
  BY <1>2 DEF Call, EntryLock, muVars
<1>3. ASSUME NEW p \in Procs, AskRead(p)
      PROVE  OwnerInv'
  BY <1>3 DEF AskRead, RLock
<1>4. ASSUME NEW p \in Procs, AskWrite(p)
      PROVE  OwnerInv'
  BY <1>4 DEF AskWrite, Lock
<1>5. ASSUME NEW p \in Procs, GetRead(p)
      PROVE  OwnerInv'
  <2>1. Body(req[p].op) = "load"
    BY <1>5 DEF GetRead, CodeInv, Body
  <2> QED
    BY <1>5, <2>1 DEF GetRead, RLocked, muVars
<1>6. ASSUME NEW p \in Procs, GetWrite(p)
      PROVE  OwnerInv'
  <2>1. Body(req[p].op) \in {"store", "find"}
    BY <1>6 DEF GetWrite, CodeInv, Body
  <2> QED
    BY <1>6, <2>1 DEF GetWrite, Locked, muVars
<1>7. ASSUME NEW p \in Procs, Load(p) \/ Store(p) \/ Find(p) \/ Remove(p)
      PROVE  OwnerInv'
  BY <1>7 DEF Load, Store, Find, Remove, muVars
<1>8. ASSUME NEW p \in Procs, ReturnRead(p)
      PROVE  OwnerInv'
  BY <1>8 DEF ReturnRead, RUnlock
<1>9. ASSUME NEW p \in Procs, ReturnWrite(p)
      PROVE  OwnerInv'
  BY <1>9 DEF ReturnWrite, Unlock
<1> QED
  BY <1>1, <1>2, <1>3, <1>4, <1>5, <1>6, <1>7, <1>8, <1>9 DEF Next, Step

\* Every goroutine stays in the code of the method it called.
LEMMA CodeStep == IndInv /\ [Next]_vars => CodeInv'
<1> SUFFICES ASSUME IndInv, [Next]_vars PROVE CodeInv'
  OBVIOUS
<1> USE DEF IndInv, TypeOK, CodeInv, Goto
<1>1. CASE UNCHANGED vars
  BY <1>1 DEF vars
<1>2. ASSUME NEW p \in Procs, NEW r \in Abs!Requests, Call(p, r)
      PROVE  CodeInv'
  BY <1>2, RequestShape DEF Call, EntryLock
<1>3. ASSUME NEW p \in Procs, AskRead(p) \/ AskWrite(p)
      PROVE  CodeInv'
  BY <1>3 DEF AskRead, AskWrite
<1>4. ASSUME NEW p \in Procs, GetRead(p) \/ GetWrite(p)
      PROVE  CodeInv'
  BY <1>4 DEF GetRead, GetWrite, Body
<1>5. ASSUME NEW p \in Procs, Load(p) \/ Store(p) \/ Find(p) \/ Remove(p)
      PROVE  CodeInv'
  BY <1>5 DEF Load, Store, Find, Remove
<1>6. ASSUME NEW p \in Procs, ReturnRead(p) \/ ReturnWrite(p)
      PROVE  CodeInv'
  BY <1>6 DEF ReturnRead, ReturnWrite
<1> QED
  BY <1>1, <1>2, <1>3, <1>4, <1>5, <1>6 DEF Next, Step

\* Results stay untouched until they are fixed, and the key that Delete has
\* found stays in the map: only the owner of the lock can take it out.
LEMMA ResultStep == IndInv /\ [Next]_vars => ResultInv'
<1> SUFFICES ASSUME IndInv, [Next]_vars PROVE ResultInv'
  OBVIOUS
<1> USE DEF IndInv, TypeOK, ResultInv, Goto, Phase
<1>1. CASE UNCHANGED vars
  BY <1>1 DEF vars
<1>2. ASSUME NEW p \in Procs, NEW r \in Abs!Requests, Call(p, r)
      PROVE  ResultInv'
  BY <1>2 DEF Call, EntryLock
<1>3. ASSUME NEW p \in Procs, AskRead(p) \/ AskWrite(p)
      PROVE  ResultInv'
  BY <1>3 DEF AskRead, AskWrite
<1>4. ASSUME NEW p \in Procs, GetRead(p) \/ GetWrite(p)
      PROVE  ResultInv'
  BY <1>4 DEF GetRead, GetWrite, Body, CodeInv
<1>5. ASSUME NEW p \in Procs, Load(p) \/ Find(p)
      PROVE  ResultInv'
  BY <1>5 DEF Load, Find, Yield
<1>6. ASSUME NEW p \in Procs, Store(p) \/ Remove(p)
      PROVE  ResultInv'
  <2>1. \A q \in Procs : q # p => pc[q] # "remove"
    BY <1>6 DEF Store, Remove, OwnerInv, Writing
  <2> QED
    BY <1>6, <2>1 DEF Store, Remove, Yield
<1>7. ASSUME NEW p \in Procs, ReturnRead(p) \/ ReturnWrite(p)
      PROVE  ResultInv'
  BY <1>7 DEF ReturnRead, ReturnWrite
<1> QED
  BY <1>1, <1>2, <1>3, <1>4, <1>5, <1>6, <1>7 DEF Next, Step

\* The inductive invariant holds in every reachable state.
THEOREM Invariance == Spec => []IndInv
<1>1. Init => IndInv
  BY InitIndInv
<1>2. IndInv /\ [Next]_vars => IndInv'
  BY TypeStep, OwnerStep, CodeStep, ResultStep DEF IndInv
<1> QED
  BY <1>1, <1>2, PTL DEF Spec

\* The variables of the store and its lock keep their types.
THEOREM TypeCorrect == Spec => []TypeOK
<1>1. IndInv => TypeOK
  BY DEF IndInv
<1> QED
  BY <1>1, Invariance, PTL

\* However many goroutines call the store, a goroutine in the critical section
\* of Set or Delete is alone with the map.
THEOREM Exclusion == Spec => []MapExclusive
<1>1. IndInv => MapExclusive
  BY NobodyAssumption DEF IndInv, OwnerInv, MapExclusive, Writing, Reading
<1> QED
  BY <1>1, Invariance, PTL

\* What the abstract store answers and does, operation by operation.
LEMMA AnswerCases ==
    ASSUME NEW r \in Abs!Requests, NEW m
    PROVE  /\ r.op = "get" => /\ Abs!Answer(r, m) =
                                    [value |-> IF m[r.key] = Absent THEN Empty ELSE m[r.key],
                                     ok    |-> m[r.key] # Absent]
                              /\ Abs!Effect(r, m) = m
           /\ r.op = "set" => /\ Abs!Answer(r, m) = Abs!NoResult
                              /\ Abs!Effect(r, m) = [m EXCEPT ![r.key] = r.value]
           /\ r.op = "del" => /\ Abs!Answer(r, m) = [value |-> Empty, ok |-> m[r.key] # Absent]
                              /\ Abs!Effect(r, m) = [m EXCEPT ![r.key] = Absent]
  BY Zenon DEF Abs!Answer, Abs!Effect

\* The steps at which a call takes effect: Load, Store, Remove, and Find when
\* it misses.  All other steps of a call only move its goroutine along.
LEMMA RefinementStep == IndInv /\ [Next]_vars => [Abs!Next]_(Abs!vars)
<1> SUFFICES ASSUME IndInv, [Next]_vars PROVE [Abs!Next]_(Abs!vars)
  OBVIOUS
<1> USE DEF IndInv, TypeOK, Goto
<1>1. CASE UNCHANGED vars
  BY <1>1 DEF vars, Abs!vars
<1>2. ASSUME NEW p \in Procs, NEW r \in Abs!Requests, Call(p, r)
      PROVE  Abs!Call(p, r)
  BY <1>2 DEF Call, EntryLock, Abs!Call, Phase
<1>3. ASSUME NEW p \in Procs, AskRead(p) \/ AskWrite(p)
      PROVE  UNCHANGED Abs!vars
  BY <1>3 DEF AskRead, AskWrite, Abs!vars, Phase
<1>4. ASSUME NEW p \in Procs, GetRead(p) \/ GetWrite(p)
      PROVE  UNCHANGED Abs!vars
  BY <1>4 DEF GetRead, GetWrite, Body, CodeInv, Abs!vars, Phase
<1>5. ASSUME NEW p \in Procs, Load(p)
      PROVE  Abs!Apply(p)
  BY <1>5, AnswerCases DEF Load, Yield, CodeInv, Abs!Apply, Phase
<1>6. ASSUME NEW p \in Procs, Store(p)
      PROVE  Abs!Apply(p)
  BY <1>6, AnswerCases DEF Store, CodeInv, ResultInv, Abs!Apply, Phase
<1>7. ASSUME NEW p \in Procs, Find(p), data[req[p].key] # Absent
      PROVE  UNCHANGED Abs!vars
  BY <1>7 DEF Find, Abs!vars, Phase
<1>8. ASSUME NEW p \in Procs, Find(p), data[req[p].key] = Absent
      PROVE  Abs!Apply(p)
  <2>1. req[p].op = "del" /\ res[p] = Abs!NoResult
    BY <1>8 DEF Find, CodeInv, ResultInv, Phase
  <2>2. Abs!Answer(req[p], data) = res[p]
    BY <1>8, <2>1, AnswerCases DEF Abs!NoResult
  <2>3. Abs!Effect(req[p], data) = data
    BY <1>8, <2>1, AnswerCases
  <2> QED
    BY <1>8, <2>2, <2>3 DEF Find, Abs!Apply, Phase
<1>9. ASSUME NEW p \in Procs, Remove(p)
      PROVE  Abs!Apply(p)
  BY <1>9, AnswerCases DEF Remove, Yield, CodeInv, ResultInv, Abs!Apply, Phase
<1>10. ASSUME NEW p \in Procs, ReturnRead(p) \/ ReturnWrite(p)
       PROVE  Abs!Return(p)
  BY <1>10 DEF ReturnRead, ReturnWrite, Abs!Return, Phase
<1> QED
  BY <1>1, <1>2, <1>3, <1>4, <1>5, <1>6, <1>7, <1>8, <1>9, <1>10 DEF Next, Step, Abs!Next

\* MemoryStore implements the linearizable store, for every set of goroutines,
\* keys and values.
THEOREM Refinement == Spec => Linearizable
<1>1. Init => Abs!Init
  BY DEF Init, Abs!Init, Phase
<1>2. IndInv /\ [Next]_vars => [Abs!Next]_(Abs!vars)
  BY RefinementStep
<1> QED
  BY <1>1, <1>2, Invariance, PTL DEF Spec, Linearizable, Abs!Spec

================================================================================
