-------------------------------- MODULE RefTable --------------------------------
(***************************************************************************)
(* The reference table of docs/wasm_exec.js: JavaScript values that the    *)
(* Go program holds are entered in _values under an id, counted in         *)
(* _goRefCounts and found again through _ids; finalizeRef, which Go's      *)
(* finalizers call, frees an entry with its last reference and puts its id *)
(* in _idPool for the next value.                                          *)
(***************************************************************************)
EXTENDS Naturals, Sequences, FiniteSets

CONSTANTS
    Objects,    \* values that need an entry: objects, functions, strings, symbols
    Handles,    \* the js.Value objects of the Go program, with a finalizer each
    NoRef,      \* a handle that is not in use
    Inline,     \* the id of a reference that needs no entry
    Infinity    \* the count of an entry that is never freed

\* The values _values starts with, and those a reference holds in itself.
Pinned    == <<"NaN", "0", "null", "true", "false", "globalThis", "go">>
PinnedIds == 0 .. Len(Pinned) - 1
Immediate == {"undefined", "number"}

JsValues == Objects \cup {Pinned[i] : i \in DOMAIN Pinned} \cup Immediate

\* typeFlag: Go attaches a finalizer to objects, functions, strings and symbols.
Finalized == Objects \cup {"globalThis", "go"}

Refs == [id : Nat \cup {Inline}, value : JsValues]

ASSUME RefAssumption ==
    /\ Objects \cap ({Pinned[i] : i \in DOMAIN Pinned} \cup Immediate) = {}
    /\ Inline \notin Nat /\ Infinity \notin Nat /\ NoRef \notin Refs
    /\ IsFiniteSet(Handles)

VARIABLES
    values,     \* _values, a function on the ids in use or free
    counts,     \* _goRefCounts
    ids,        \* _ids, a function on the values that have an entry
    pool,       \* _idPool, its last element on top
    held        \* what each handle refers to: an id, and the value it stands for

tableVars == <<values, counts, ids, pool, held>>

\* Before run and after the exit there are no tables.
NoTables ==
    /\ values = <<>> /\ counts = <<>> /\ ids = <<>> /\ pool = <<>>
    /\ held = [h \in Handles |-> NoRef]

DropTables ==
    /\ values' = <<>> /\ counts' = <<>> /\ ids' = <<>> /\ pool' = <<>>
    /\ held' = [h \in Handles |-> NoRef]

\* NaN has an entry and is not in _ids.
MakeTables ==
    /\ values' = [i \in PinnedIds |-> Pinned[i + 1]]
    /\ counts' = [i \in PinnedIds |-> Infinity]
    /\ ids' = [v \in {Pinned[i + 1] : i \in 1 .. Len(Pinned) - 1} |->
                 CHOOSE i \in PinnedIds : Pinned[i + 1] = v]
    /\ pool' = <<>>
    /\ UNCHANGED held

--------------------------------------------------------------------------------

LoadValue(ref) == IF ref.id = Inline THEN ref.value ELSE values[ref.id]

Put(f, x, y) == [z \in DOMAIN f \cup {x} |-> IF z = x THEN y ELSE f[z]]

Plus(c)  == IF c = Infinity THEN c ELSE c + 1
Minus(c) == IF c = Infinity THEN c ELSE c - 1

Ref(i, v) == [id |-> i, value |-> v]

\* A number or undefined needs no entry, NaN has a fixed one.
StoreImmediate(h, v) ==
    /\ v \in Immediate \cup {"NaN"}
    /\ held' = [held EXCEPT ![h] = Ref(IF v = "NaN" THEN 0 ELSE Inline, v)]
    /\ UNCHANGED <<values, counts, ids, pool>>

StoreKnown(h, v) ==
    /\ v \in DOMAIN ids
    /\ counts' = [counts EXCEPT ![ids[v]] = Plus(@)]
    /\ held' = [held EXCEPT ![h] = Ref(ids[v], v)]
    /\ UNCHANGED <<values, ids, pool>>

\* A value without an entry takes the id that was freed last, or the next one.
StoreNew(h, v) ==
    LET id == IF pool = <<>> THEN Cardinality(DOMAIN values) ELSE pool[Len(pool)]
    IN  /\ v \notin DOMAIN ids \cup Immediate \cup {"NaN"}
        /\ values' = Put(values, id, v)
        /\ counts' = Put(counts, id, 1)
        /\ ids' = Put(ids, v, id)
        /\ pool' = IF pool = <<>> THEN pool ELSE SubSeq(pool, 1, Len(pool) - 1)
        /\ held' = [held EXCEPT ![h] = Ref(id, v)]

StoreValue(h, v) == StoreImmediate(h, v) \/ StoreKnown(h, v) \/ StoreNew(h, v)

\* Mutant of FreeEntry: the value stays in _ids.
FreeEntryKeepsId(id) ==
    /\ values' = [values EXCEPT ![id] = "null"]
    /\ pool' = Append(pool, id)
    /\ UNCHANGED ids

FreeEntry(id) ==
    /\ values' = [values EXCEPT ![id] = "null"]
    /\ ids' = [v \in DOMAIN ids \ {values[id]} |-> ids[v]]
    /\ pool' = Append(pool, id)

FinalizeRef(id) ==
    /\ counts' = [counts EXCEPT ![id] = Minus(@)]
    /\ IF counts'[id] = 0 THEN FreeEntry(id) ELSE UNCHANGED <<values, ids, pool>>

\* The Go program drops a handle: its finalizer runs when it has one.
DropHandle(h) ==
    /\ held[h] # NoRef
    /\ IF held[h].value \in Finalized
       THEN FinalizeRef(held[h].id)
       ELSE UNCHANGED <<values, counts, ids, pool>>
    /\ held' = [held EXCEPT ![h] = NoRef]

--------------------------------------------------------------------------------

(***************************************************************************)
(* As long as the Go program holds a reference, loadValue finds the value  *)
(* it was made for, however ids have been freed and given out again in the *)
(* meantime.                                                               *)
(***************************************************************************)
RefsResolve ==
    \A h \in Handles : held[h] # NoRef => LoadValue(held[h]) = held[h].value

(***************************************************************************)
(* Why RefsResolve holds: an entry counts the handles that have its id, a  *)
(* value in _ids has an entry in use, and the ids in the pool are those of *)
(* entries that nobody holds, each once.                                   *)
(***************************************************************************)
Holders(i) == {h \in Handles : held[h] # NoRef /\ held[h].id = i}

Entries == DOMAIN values \ PinnedIds

DomainOK ==
    /\ Cardinality(DOMAIN values) \in Nat /\ Cardinality(DOMAIN values) >= Len(Pinned)
    /\ DOMAIN values = 0 .. Cardinality(DOMAIN values) - 1
    /\ DOMAIN counts = DOMAIN values
    /\ \A i \in PinnedIds : values[i] = Pinned[i + 1] /\ counts[i] = Infinity

CountsExact == \A i \in Entries : counts[i] = Cardinality(Holders(i))

IdsExact ==
    /\ \A v \in DOMAIN ids :
          /\ ids[v] \in DOMAIN values /\ values[ids[v]] = v
          /\ v \in Objects => ids[v] \in Entries /\ counts[ids[v]] # 0
          /\ v \notin Objects => ids[v] \in PinnedIds
    /\ JsValues \ (Objects \cup Immediate \cup {"NaN"}) \subseteq DOMAIN ids

PoolExact ==
    /\ pool \in Seq(Entries)
    /\ \A k \in DOMAIN pool : counts[pool[k]] = 0
    /\ \A k, m \in DOMAIN pool : pool[k] = pool[m] => k = m

HeldExact ==
    /\ held \in [Handles -> Refs \cup {NoRef}]
    /\ \A h \in Handles : held[h] # NoRef =>
          IF held[h].id = Inline
          THEN held[h].value \in Immediate
          ELSE /\ held[h].id \in DOMAIN values /\ values[held[h].id] = held[h].value
               /\ IF held[h].value \in Objects THEN held[h].id \in Entries ELSE held[h].id \in PinnedIds

TableLive == DomainOK /\ CountsExact /\ IdsExact /\ PoolExact /\ HeldExact

================================================================================
