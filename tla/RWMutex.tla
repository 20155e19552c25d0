-------------------------------- MODULE RWMutex --------------------------------
(***************************************************************************)
(* Go's sync.RWMutex (standard library, not part of the repository), as    *)
(* store/store.go uses it.  A writer first owns the internal mutex, which  *)
(* announces it and parks every reader that arrives later; it proceeds     *)
(* when the readers that were already inside have left.  Unlock hands the  *)
(* lock to all parked readers before another writer can get in.            *)
(***************************************************************************)
CONSTANTS
    Procs,
    Nobody     \* the owner of a lock that nobody holds

ASSUME NobodyAssumption == Nobody \notin Procs

VARIABLES
    writer,    \* the goroutine that holds or has announced the write lock
    readers,   \* the goroutines that hold the read lock
    parked     \* the goroutines waiting in RLock behind a writer

muVars == <<writer, readers, parked>>

MuTypeOK ==
    /\ writer \in Procs \cup {Nobody}
    /\ readers \subseteq Procs
    /\ parked \subseteq Procs

MuInit ==
    /\ writer = Nobody
    /\ readers = {}
    /\ parked = {}

\* The first half of RLock: go in, or park behind an announced writer.
RLock(p) ==
    /\ UNCHANGED writer
    /\ \/ /\ writer = Nobody
          /\ readers' = readers \cup {p}
          /\ UNCHANGED parked
       \/ /\ writer # Nobody
          /\ parked' = parked \cup {p}
          /\ UNCHANGED readers

\* RLock returns.
RLocked(p) == p \in readers /\ UNCHANGED muVars

RUnlock(p) ==
    /\ readers' = readers \ {p}
    /\ UNCHANGED <<writer, parked>>

\* The first half of Lock: own the internal mutex and announce the writer.
Lock(p) ==
    /\ writer = Nobody
    /\ writer' = p
    /\ UNCHANGED <<readers, parked>>

\* Lock returns.
Locked(p) == writer = p /\ readers = {} /\ UNCHANGED muVars

Unlock(p) ==
    /\ writer' = Nobody
    /\ readers' = readers \cup parked
    /\ parked' = {}

================================================================================
