------------------------------ MODULE AtomicStore ------------------------------
(***************************************************************************)
(* What the Store interface of store/store.go promises its callers: a map  *)
(* whose Get, Set and Delete each take effect at one instant between the   *)
(* call and its return (linearizability).  MemoryStore is shown to         *)
(* implement this specification.                                           *)
(***************************************************************************)
CONSTANTS
    Procs,    \* the goroutines that call the store
    Keys,
    Values,   \* the strings that are stored
    Empty,    \* the empty string, Go's zero value for a missing key
    Absent    \* marks a key the map does not hold

VARIABLES
    data,     \* the map
    phase,    \* where each caller is: "idle", "called" or "done"
    req,      \* the last request of each caller
    res       \* the answer to it once phase is "done"

vars == <<data, phase, req, res>>

Requests == [op : {"get", "del"}, key : Keys, value : {Empty}]
              \cup [op : {"set"}, key : Keys, value : Values]

Results == [value : Values, ok : BOOLEAN]

\* Set returns nothing; the record stands for "no answer" as well.
NoResult == [value |-> Empty, ok |-> FALSE]

\* What r answers when it takes effect on the map m.
Answer(r, m) ==
    CASE r.op = "get" -> [value |-> IF m[r.key] = Absent THEN Empty ELSE m[r.key],
                          ok    |-> m[r.key] # Absent]
      [] r.op = "del" -> [value |-> Empty, ok |-> m[r.key] # Absent]
      [] OTHER        -> NoResult

\* The map after r took effect on m.
Effect(r, m) ==
    CASE r.op = "set" -> [m EXCEPT ![r.key] = r.value]
      [] r.op = "del" -> [m EXCEPT ![r.key] = Absent]
      [] OTHER        -> m

--------------------------------------------------------------------------------

Init ==
    /\ data = [k \in Keys |-> Absent]
    /\ phase = [p \in Procs |-> "idle"]
    /\ req \in [Procs -> Requests]
    /\ res = [p \in Procs |-> NoResult]

Call(p, r) ==
    /\ phase[p] = "idle"
    /\ phase' = [phase EXCEPT ![p] = "called"]
    /\ req' = [req EXCEPT ![p] = r]
    /\ res' = [res EXCEPT ![p] = NoResult]
    /\ UNCHANGED data

Apply(p) ==
    /\ phase[p] = "called"
    /\ phase' = [phase EXCEPT ![p] = "done"]
    /\ data' = Effect(req[p], data)
    /\ res' = [res EXCEPT ![p] = Answer(req[p], data)]
    /\ UNCHANGED req

Return(p) ==
    /\ phase[p] = "done"
    /\ phase' = [phase EXCEPT ![p] = "idle"]
    /\ UNCHANGED <<data, req, res>>

Next == \E p \in Procs : Apply(p) \/ Return(p) \/ \E r \in Requests : Call(p, r)

Spec == Init /\ [][Next]_vars

================================================================================
