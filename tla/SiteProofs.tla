------------------------------ MODULE SiteProofs ------------------------------
(***************************************************************************)
(* The web site in docs/, for any lines a visitor may enter, any limits of *)
(* the drawer, any number of steps and any pointer positions.              *)
(*                                                                         *)
(* The demo page: its own copy of execute agrees with the server's, the    *)
(* drawer is never wrong and misses a label only at its limits, the stored *)
(* session is one the server could have had, loadData falls back.  The kit *)
(* has three parts that share no variable: each invariant is proved of the *)
(* steps of its own part, and the composition adds MountAll and Reload.    *)
(***************************************************************************)
EXTENDS Page, Kit, ProtocolProofs

\* Parse returns one of three commands, or an error.
LEMMA ParseOps ==
    ASSUME NEW line
    PROVE  Parse(line).op \in {"get", "set", "del", "error"}
<1>1. \A op, key, value : Command(op, key, value).op = op
  BY DEF Command
<1>2. \A why : Fail(why).op = "error"
  BY DEF Fail
<1> DEFINE parts == SplitN(TrimRight(line))
           verb  == ToUpper(parts[1])
<1>3. Parse(line) \in {Command("del", parts[2], <<>>), Command("get", parts[2], <<>>),
                       Command("set", parts[2], parts[3]), Fail("empty"), Fail("key"),
                       Fail("keyvalue"), Fail("unknown")}
  <2>1. CASE Blank(TrimRight(line))
    BY <2>1 DEF Parse
  <2>2. CASE ~Blank(TrimRight(line)) /\ verb \in {<<"GET">>, <<"DEL">>}
    BY <2>2 DEF Parse
  <2>3. CASE ~Blank(TrimRight(line)) /\ verb = <<"SET">>
    <3>1. verb \notin {<<"GET">>, <<"DEL">>}
      BY <2>3
    <3> QED
      BY <2>3, <3>1 DEF Parse
  <2>4. CASE ~Blank(TrimRight(line)) /\ verb \notin {<<"GET">>, <<"DEL">>, <<"SET">>}
    BY <2>4 DEF Parse
  <2> QED
    BY <2>1, <2>2, <2>3, <2>4
<1> HIDE DEF parts, verb
<1> QED
  BY <1>1, <1>2, <1>3

\* The execute of docs/wasm/main.go mirrors the one of server/server.go.
LEMMA ExecuteAgrees ==
    ASSUME NEW cmd, NEW m, cmd.op \in {"get", "set", "del"}
    PROVE  PageExecute(cmd, m).reply = ExecuteReply(cmd, m) /\ PageExecute(cmd, m).data = ExecuteEffect(cmd, m)
<1>1. CASE cmd.op = "get"
  BY <1>1 DEF PageExecute, ExecuteReply, ExecuteEffect
<1>2. CASE cmd.op = "set"
  BY <1>2 DEF PageExecute, ExecuteReply, ExecuteEffect
<1>3. CASE cmd.op = "del"
  BY <1>3 DEF PageExecute, ExecuteReply, ExecuteEffect
<1> QED
  BY <1>1, <1>2, <1>3

(***************************************************************************)
(* kvstoreEval gives the reply the TCP server would give to any line, and  *)
(* leaves the map the server would leave.                                  *)
(***************************************************************************)
THEOREM AnswersAgree == Spec => AnswersAsServer
<1>1. ASSUME NEW text \in Inputs, Run(text)
      PROVE  ServeLine([data |-> data, replies |-> <<>>], text) = [data |-> data', replies |-> <<reply'>>]
  <2> DEFINE cmd == Parse(text)
  <2>1. CASE cmd.op = "error"
    <3>1. reply' = ReplyError(cmd.value) /\ data' = data
      BY <1>1, <2>1 DEF Run, Eval, evalVars
    <3> QED
      BY <2>1, <3>1 DEF ServeLine
  <2>2. CASE cmd.op # "error"
    <3>1. cmd.op \in {"get", "set", "del"}
      BY <2>2, ParseOps
    <3>2. reply' = PageExecute(cmd, data).reply /\ data' = PageExecute(cmd, data).data
      BY <1>1, <2>2 DEF Run, Eval
    <3>3. reply' = ExecuteReply(cmd, data) /\ data' = ExecuteEffect(cmd, data)
      BY <3>1, <3>2, ExecuteAgrees
    <3> QED
      BY <2>2, <3>3 DEF ServeLine
  <2> QED
    BY <2>1, <2>2
<1>2. [\A text \in Inputs :
          Run(text) => ServeLine([data |-> data, replies |-> <<>>], text) =
                           [data |-> data', replies |-> <<reply'>>]]_vars
  BY <1>1
<1> QED
  BY <1>2, PTL DEF AnswersAsServer

(***************************************************************************)
(* Kit.loadData rejects only when there is no inlined copy either, and     *)
(* never waits for the network on a page opened from a file.               *)
(***************************************************************************)
THEOREM LoadCorrect == Spec => []LoadFallsBack
<1>1. Init => LoadFallsBack
  BY DEF Init, LoadInit, LoadFallsBack
<1>2. LoadFallsBack /\ [Next]_vars => LoadFallsBack'
  <2> SUFFICES ASSUME LoadFallsBack, [Next]_vars PROVE LoadFallsBack'
    OBVIOUS
  <2>1. CASE UNCHANGED loadVars
    BY <2>1 DEF loadVars, LoadFallsBack
  <2>2. CASE LoadStart
    BY <2>2 DEF LoadStart, Fallback, LoadFallsBack
  <2>3. CASE LoadNext
    BY <2>3 DEF LoadNext, Responds, Parsed, Fallback, LoadFallsBack
  <2>4. UNCHANGED loadVars \/ LoadStart \/ LoadNext
    BY DEF vars, Next, Boot, BootFallback, BootFetch, StreamingFails, Instantiated, PlainFails,
       OnReady, LoadStep, ShowStored, StoredAbsent, StoredFails, Run
  <2> QED
    BY <2>1, <2>2, <2>3, <2>4
<1> QED
  BY <1>1, <1>2, PTL DEF Spec

--------------------------------------------------------------------------------
(* The drawer. *)

Distinct(s) == \A i, j \in DOMAIN s : s[i] = s[j] => i = j

\* rows lists the remembered labels that are in the map, each once, with their
\* values, and leaves none of them out.
LEMMA RowsAre ==
    ASSUME NEW A, NEW names \in Seq(A), Distinct(names), NEW m, IsFiniteSet(DOMAIN m),
           NEW rows, rows = Rows(names, m)
    PROVE  /\ rows \in Seq(Range(rows)) /\ Len(rows) \in Nat /\ Len(rows) <= Cardinality(DOMAIN m)
           /\ \A n \in 1..Len(rows) : rows[n].key \in DOMAIN m /\ rows[n].value = m[rows[n].key]
           /\ \A n, k \in 1..Len(rows) : rows[n].key = rows[k].key => n = k
           /\ \A x \in DOMAIN m : x \in Range(names) => \E n \in 1..Len(rows) : rows[n].key = x
<1> DEFINE held == {i \in DOMAIN names : names[i] \in DOMAIN m}
           c == Cardinality(held)
<1>1. Len(names) \in Nat /\ DOMAIN names = 1..Len(names) /\ held \in SUBSET (1..Len(names))
  BY LenProperties
<1>2. c \in Nat
  BY <1>1, BoundedFinite
<1>3. rows = [n \in 1..c |-> Row(names[Nth(held, n)], m[names[Nth(held, n)]])]
  BY DEF Rows
<1>4. \A i \in held : i \in DOMAIN names /\ names[i] \in DOMAIN m
  OBVIOUS
<1>5. \A i \in DOMAIN names : names[i] \in DOMAIN m => i \in held
  OBVIOUS
<1> HIDE DEF held
<1>6. \A n \in 1..c : Nth(held, n) \in held /\ Rank(held, Nth(held, n)) = n
  BY <1>1, NthIn
<1>7. ASSUME NEW i \in held
      PROVE  Rank(held, i) \in 1..c /\ Nth(held, Rank(held, i)) = i
  BY <1>1, RankOnce
<1> HIDE DEF c
<1>8. rows \in Seq(Range(rows)) /\ Len(rows) = c
  BY <1>2, <1>3, OwnRange
<1>9. \A n \in 1..c : rows[n].key = names[Nth(held, n)] /\ rows[n].value = m[names[Nth(held, n)]]
  BY <1>3 DEF Row
<1>10. \A n \in 1..c : rows[n].key \in DOMAIN m /\ rows[n].value = m[rows[n].key]
  BY <1>4, <1>6, <1>9
<1>11. ASSUME NEW n \in 1..c, NEW k \in 1..c, rows[n].key = rows[k].key
       PROVE  n = k
  <2>1. Nth(held, n) = Nth(held, k)
    BY <1>4, <1>6, <1>9, <1>11 DEF Distinct
  <2> QED
    BY <1>6, <2>1
<1>12. ASSUME NEW x \in DOMAIN m, x \in Range(names)
       PROVE  \E n \in 1..c : rows[n].key = x
  <2>1. PICK i \in DOMAIN names : names[i] = x
    BY <1>12 DEF Range
  <2>2. i \in held
    BY <1>5, <2>1
  <2>3. Rank(held, i) \in 1..c /\ Nth(held, Rank(held, i)) = i
    BY <1>7, <2>2
  <2> QED
    BY <1>9, <2>1, <2>3
<1>13. c <= Cardinality(DOMAIN m)
  <2> DEFINE f == [n \in 1..c |-> rows[n].key]
  <2>1. f \in Injection(1..c, DOMAIN m)
    <3>1. f \in [1..c -> DOMAIN m]
      BY <1>10
    <3>2. \A n, k \in 1..c : f[n] = f[k] => n = k
      BY <1>11
    <3> QED
      BY <3>1, <3>2 DEF Injection, IsInjective
  <2>2. Cardinality(1..c) <= Cardinality(DOMAIN m)
    BY <2>1, FS_Injection
  <2>3. Cardinality(1..c) = c
    BY <1>2, FS_Interval
  <2> QED
    BY <2>2, <2>3
<1> QED
  BY <1>2, <1>8, <1>10, <1>11, <1>12, <1>13

\* What paintDrawer leaves on the page.
Painted(rows) ==
    /\ drawer = SubSeq(rows, 1, Min({Slots, Len(rows)}))
    /\ count = Len(rows)
    /\ marked \in 0..Len(drawer)

\* The drawer holds the first rows, as many as there are slots.
LEMMA CutIs ==
    ASSUME NEW A, NEW rows \in Seq(A), NEW d, d = SubSeq(rows, 1, Min({Slots, Len(rows)}))
    PROVE  /\ d \in Seq(A) /\ Len(d) = Min({Slots, Len(rows)}) /\ Len(d) \in Nat
           /\ Len(d) = IF Slots <= Len(rows) THEN Slots ELSE Len(rows)
           /\ Len(d) <= Len(rows) /\ \A i \in 1..Len(d) : d[i] = rows[i]
<1>1. Len(rows) \in Nat /\ Slots \in Nat
  BY PageAssumption, LenProperties
<1>2. Min({Slots, Len(rows)}) = IF Slots <= Len(rows) THEN Slots ELSE Len(rows)
  BY <1>1, MinTwo
<1>3. Min({Slots, Len(rows)}) \in 0..Len(rows)
  BY <1>1, <1>2
<1>4. PICK n \in 0..Len(rows) : n = Min({Slots, Len(rows)})
  BY <1>3
<1>5. d \in Seq(A) /\ Len(d) = n /\ \A i \in 1..n : d[i] = rows[i]
  BY <1>4, PrefixIs
<1>6. Len(d) = Min({Slots, Len(rows)}) /\ Len(d) \in Nat /\ Len(d) <= Len(rows)
  BY <1>1, <1>4, <1>5
<1>7. \A i \in 1..Len(d) : d[i] = rows[i]
  BY <1>5
<1> QED
  BY <1>2, <1>5, <1>6, <1>7

\* paintDrawer marks a slot that is filled, or none.
LEMMA PaintIs ==
    ASSUME NEW A, NEW rows \in Seq(A), NEW touched, NEW verb, PaintDrawer(rows, touched, verb)
    PROVE  /\ drawer' = SubSeq(rows, 1, Min({Slots, Len(rows)}))
           /\ count' = Len(rows) /\ marked' \in 0..Len(drawer')
<1> DEFINE top == Min({Slots, Len(rows)})
           hit == {i \in 1..top : rows[i].key = touched}
<1>1. drawer' = SubSeq(rows, 1, top) /\ count' = Len(rows)
  BY DEF PaintDrawer
<1>2. marked' = IF verb \in {"get", "set"} /\ hit # {} THEN Min(hit) ELSE 0
  BY DEF PaintDrawer
<1>3. Len(drawer') = top /\ top \in Nat
  BY <1>1, CutIs
<1>4. hit # {} => Min(hit) \in 1..top
  <2>1. hit \in SUBSET Nat /\ hit \in SUBSET (1..top)
    BY <1>3
  <2> QED
    BY <2>1, MinIn
<1>5. drawer' = SubSeq(rows, 1, Min({Slots, Len(rows)}))
  BY <1>1
<1> HIDE DEF top, hit
<1>6. marked' \in 0..top
  BY <1>2, <1>3, <1>4
<1> QED
  BY <1>1, <1>3, <1>5, <1>6

\* The list of names and the map, and the drawer once the code is ready.
NamesInv ==
    /\ seen \in Seq(Range(seen)) /\ Distinct(seen) /\ Len(seen) <= SeenCap
    /\ IsFiniteSet(DOMAIN data)
    /\ \A k \in DOMAIN data : k \in Range(seen) \/ Len(seen) = SeenCap

DrawerInv ==
    /\ NamesInv
    /\ enabled <=> page = "ready"
    /\ ~enabled => data = <<>> /\ seen = <<>>
    /\ enabled => Painted(Rows(seen, data))

\* Before anything is remembered there are no rows.
LEMMA NoRows == Rows(<<>>, <<>>) = <<>>
<1>1. IsFiniteSet(DOMAIN <<>>) /\ Cardinality(DOMAIN <<>>) = 0
  <2>1. DOMAIN <<>> = {}
    OBVIOUS
  <2> QED
    BY <2>1, FS_EmptySet
<1>2. <<>> \in Seq({}) /\ Distinct(<<>>)
  BY EmptySeq DEF Distinct
<1> DEFINE rows == Rows(<<>>, <<>>)
<1>3. rows \in Seq(Range(rows)) /\ Len(rows) \in Nat /\ Len(rows) <= 0
  BY <1>1, <1>2, RowsAre
<1> HIDE DEF rows
<1>4. rows = <<>>
  BY <1>3, EmptySeq
<1> QED
  BY <1>4 DEF rows

\* remember keeps the names apart, within the limit, and adds the new one
\* unless the list is full.
LEMMA RememberIs ==
    ASSUME NEW names, names \in Seq(Range(names)), Distinct(names), Len(names) <= SeenCap,
           NEW key, NEW after, after = Remember(names, key)
    PROVE  /\ after \in Seq(Range(after)) /\ Distinct(after) /\ Len(after) <= SeenCap
           /\ Range(names) \subseteq Range(after) /\ Len(names) <= Len(after)
           /\ key \in Range(after) \/ Len(after) = SeenCap
<1>1. SeenCap \in Nat /\ Len(names) \in Nat /\ DOMAIN names = 1..Len(names)
  BY PageAssumption, LenProperties
<1>2. Len(names) <= Len(names) /\ Range(names) \subseteq Range(names)
  BY <1>1
<1>3. CASE \E i \in DOMAIN names : names[i] = key
  <2>1. after = names
    BY <1>3 DEF Remember
  <2>2. key \in Range(names)
    BY <1>3 DEF Range
  <2> QED
    BY <1>2, <2>1, <2>2
<1>4. CASE ~(\E i \in DOMAIN names : names[i] = key) /\ Len(names) >= SeenCap
  <2>1. after = names
    BY <1>4 DEF Remember
  <2>2. Len(names) = SeenCap
    <3>1. \A a, b \in Nat : a <= b /\ a >= b => a = b
      OBVIOUS
    <3> QED
      BY <1>1, <1>4, <3>1
  <2> QED
    BY <1>2, <2>1, <2>2
<1>5. CASE ~(\E i \in DOMAIN names : names[i] = key) /\ ~(Len(names) >= SeenCap)
  <2>1. after = Append(names, key)
    BY <1>5 DEF Remember
  <2> DEFINE B == Range(names) \cup {key}
  <2>2. names \in Seq(B) /\ key \in B
    BY SeqMonotonic
  <2>3. /\ Len(after) = Len(names) + 1 /\ after[Len(names) + 1] = key
        /\ \A i \in 1..Len(names) : after[i] = names[i]
    BY <2>1, <2>2, AppendProperties
  <2>4. after \in Seq(Range(after))
    BY <2>1, AppendEnds
  <2>5. DOMAIN after = 1..(Len(names) + 1)
    BY <2>3, <2>4, LenProperties
  <2>6. Distinct(after)
    <3> SUFFICES ASSUME NEW i \in 1..(Len(names) + 1), NEW j \in 1..(Len(names) + 1), after[i] = after[j]
                 PROVE  i = j
      BY <2>5 DEF Distinct
    <3>1. CASE i \in 1..Len(names) /\ j \in 1..Len(names)
      BY <1>1, <2>3, <3>1 DEF Distinct
    <3>2. CASE i = Len(names) + 1 /\ j \in 1..Len(names)
      BY <1>1, <1>5, <2>3, <3>2
    <3>3. CASE i \in 1..Len(names) /\ j = Len(names) + 1
      BY <1>1, <1>5, <2>3, <3>3
    <3> QED
      BY <1>1, <3>1, <3>2, <3>3
  <2>7. Range(names) \subseteq Range(after) /\ key \in Range(after)
    <3>1. \A i \in DOMAIN names : i \in DOMAIN after /\ after[i] = names[i]
      BY <1>1, <2>3, <2>5
    <3>2. Len(names) + 1 \in DOMAIN after
      BY <1>1, <2>5
    <3> QED
      BY <2>3, <3>1, <3>2 DEF Range
  <2> QED
    BY <1>1, <1>5, <2>3, <2>4, <2>6, <2>7
<1> QED
  BY <1>3, <1>4, <1>5

\* A line that is evaluated keeps names and map in step, and the drawer is
\* painted from both as they are then.
LEMMA EvalKeeps ==
    ASSUME NamesInv, NEW text, Eval(text)
    PROVE  NamesInv' /\ Painted(Rows(seen, data))'
<1> DEFINE cmd == Parse(text)
<1>1. CASE cmd.op = "error"
  <2>1. seen' = seen /\ data' = data /\ PaintDrawer(Rows(seen, data), <<>>, "")
    BY <1>1 DEF Eval, evalVars
  <2>2. NamesInv'
    BY <2>1 DEF NamesInv
  <2>3. Rows(seen, data) \in Seq(Range(Rows(seen, data)))
    BY RowsAre DEF NamesInv
  <2> QED
    BY <2>1, <2>2, <2>3, PaintIs DEF Painted
<1>2. CASE cmd.op # "error"
  <2>1. cmd.op \in {"get", "set", "del"}
    BY <1>2, ParseOps
  <2>2. /\ seen' = IF cmd.op = "set" THEN Remember(seen, cmd.key) ELSE seen
        /\ data' = ExecuteEffect(cmd, data)
        /\ PaintDrawer(Rows(seen', data'), cmd.key, cmd.op)
    BY <1>2, <2>1, ExecuteAgrees DEF Eval
  <2> HIDE DEF cmd
  <2>3. NamesInv'
    <3>1. CASE cmd.op = "get"
      <4>1. seen' = seen /\ data' = data
        BY <2>2, <3>1 DEF ExecuteEffect
      <4> QED
        BY <4>1 DEF NamesInv
    <3>2. CASE cmd.op = "set"
      <4>1. seen' = Remember(seen, cmd.key) /\ DOMAIN data' = DOMAIN data \cup {cmd.key}
        BY <2>2, <3>2 DEF ExecuteEffect, Put
      <4>2. IsFiniteSet(DOMAIN data')
        BY <4>1, FS_AddElement DEF NamesInv
      <4>3. /\ seen' \in Seq(Range(seen')) /\ Distinct(seen') /\ Len(seen') <= SeenCap
            /\ Range(seen) \subseteq Range(seen') /\ Len(seen) <= Len(seen')
            /\ cmd.key \in Range(seen') \/ Len(seen') = SeenCap
        BY <4>1, RememberIs DEF NamesInv
      <4>4. Len(seen) = SeenCap => Len(seen') = SeenCap
        BY <4>3, PageAssumption, LenProperties
      <4> QED
        BY <4>1, <4>2, <4>3, <4>4 DEF NamesInv
    <3>3. CASE cmd.op = "del"
      <4>1. seen' = seen /\ DOMAIN data' = DOMAIN data \ {cmd.key}
        BY <2>2, <3>3 DEF ExecuteEffect
      <4>2. IsFiniteSet(DOMAIN data')
        BY <4>1, FS_RemoveElement DEF NamesInv
      <4> QED
        BY <4>1, <4>2 DEF NamesInv
    <3> QED
      BY <2>1, <3>1, <3>2, <3>3
  <2>4. Rows(seen', data') \in Seq(Range(Rows(seen', data')))
    BY <2>3, RowsAre DEF NamesInv
  <2>5. Painted(Rows(seen, data))'
    BY <2>2, <2>4, PaintIs DEF Painted
  <2> QED
    BY <2>3, <2>5
<1> QED
  BY <1>1, <1>2

\* The drawer is painted anew when the code is ready and after each line.
LEMMA DrawerInductive == DrawerInv /\ [Next]_vars => DrawerInv'
<1> SUFFICES ASSUME DrawerInv, [Next]_vars PROVE DrawerInv'
  OBVIOUS
<1>1. CASE \E text \in Inputs : Run(text)
  <2>1. PICK text \in Inputs : Run(text)
    BY <1>1
  <2>2. enabled /\ enabled' = enabled /\ page' = page
    BY <2>1 DEF Run
  <2>3. NamesInv' /\ Painted(Rows(seen, data))'
    BY <2>1, EvalKeeps DEF Run, DrawerInv
  <2> QED
    BY <2>2, <2>3 DEF DrawerInv
<1>2. CASE OnReady
  <2>1. page' = "ready" /\ enabled' /\ seen' = seen /\ data' = data /\ PaintDrawer(<<>>, <<>>, "")
    BY <1>2 DEF OnReady, evalVars
  <2>2. seen = <<>> /\ data = <<>>
    BY <1>2 DEF OnReady, DrawerInv
  <2>3. Rows(seen', data') = <<>>
    BY <2>1, <2>2, NoRows
  <2>4. <<>> \in Seq({})
    BY EmptySeq
  <2>5. Painted(Rows(seen, data))'
    BY <2>1, <2>3, <2>4, PaintIs DEF Painted
  <2>6. NamesInv'
    BY <2>1 DEF DrawerInv, NamesInv
  <2> QED
    BY <2>1, <2>5, <2>6 DEF DrawerInv
<1>3. CASE (Boot /\ ~OnReady) \/ UNCHANGED vars
  <2>1. /\ enabled' = enabled /\ seen' = seen /\ data' = data
        /\ page' = "ready" <=> page = "ready"
        /\ page = "ready" => UNCHANGED <<drawer, count, marked>>
    BY <1>3 DEF vars, Boot, BootFallback, BootFetch, StreamingFails, Instantiated, PlainFails,
       LoadStep, ShowStored, StoredAbsent, StoredFails, evalVars, shownVars
  <2>2. NamesInv'
    BY <2>1 DEF DrawerInv, NamesInv
  <2>3. enabled => Painted(Rows(seen, data))'
    BY <2>1 DEF DrawerInv, Painted
  <2> QED
    BY <2>1, <2>2, <2>3 DEF DrawerInv
<1> QED
  BY <1>1, <1>2, <1>3 DEF Next, Boot

\* It holds before boot.
LEMMA DrawerInitial == Init => DrawerInv
<1> SUFFICES ASSUME Init PROVE DrawerInv
  OBVIOUS
<1>1. page = "loading" /\ enabled = FALSE /\ data = <<>> /\ seen = <<>>
  BY DEF Init
<1>2. DOMAIN data = {} /\ IsFiniteSet({})
  BY <1>1, FS_EmptySet
<1>3. seen \in Seq(Range(seen)) /\ Len(seen) = 0 /\ DOMAIN seen = {}
  BY <1>1, EmptySeq
<1> QED
  BY <1>1, <1>2, <1>3, PageAssumption DEF DrawerInv, NamesInv, Distinct

\* The facts about the drawer that both properties rest on.
LEMMA DrawerFacts ==
    ASSUME DrawerInv, enabled
    PROVE  DrawerTrue /\ DrawerMissesOnlyAtCap
<1> DEFINE rows == Rows(seen, data)
<1>1. /\ rows \in Seq(Range(rows)) /\ Len(rows) \in Nat /\ Len(rows) <= Cardinality(DOMAIN data)
      /\ \A n \in 1..Len(rows) : rows[n].key \in DOMAIN data /\ rows[n].value = data[rows[n].key]
      /\ \A n, k \in 1..Len(rows) : rows[n].key = rows[k].key => n = k
      /\ \A x \in DOMAIN data : x \in Range(seen) => \E n \in 1..Len(rows) : rows[n].key = x
  BY RowsAre DEF DrawerInv, NamesInv
<1>2. drawer = SubSeq(rows, 1, Min({Slots, Len(rows)})) /\ count = Len(rows) /\ marked \in 0..Len(drawer)
  BY DEF DrawerInv, Painted
<1> HIDE DEF rows
<1>3. /\ drawer \in Seq(Range(rows)) /\ Len(drawer) \in Nat
      /\ Len(drawer) = IF Slots <= Len(rows) THEN Slots ELSE Len(rows)
      /\ Len(drawer) <= Len(rows) /\ \A i \in 1..Len(drawer) : drawer[i] = rows[i]
  <2>1. PICK A : A = Range(rows)
    OBVIOUS
  <2>2. rows \in Seq(A)
    BY <1>1, <2>1
  <2>3. /\ drawer \in Seq(A) /\ Len(drawer) \in Nat
        /\ Len(drawer) = IF Slots <= Len(rows) THEN Slots ELSE Len(rows)
        /\ Len(drawer) <= Len(rows) /\ \A i \in 1..Len(drawer) : drawer[i] = rows[i]
    BY <1>2, <2>2, CutIs
  <2> QED
    BY <2>1, <2>3
<1>4. DOMAIN drawer = 1..Len(drawer) /\ 1..Len(drawer) \subseteq 1..Len(rows)
  BY <1>1, <1>3, LenProperties
<1>5. Cardinality(Shown) = Len(drawer)
  <2> DEFINE f == [i \in 1..Len(drawer) |-> drawer[i].key]
  <2>1. Shown = {f[i] : i \in 1..Len(drawer)}
    BY <1>4 DEF Shown
  <2>2. f \in Bijection(1..Len(drawer), Shown)
    <3>1. f \in [1..Len(drawer) -> Shown]
      BY <2>1
    <3>2. \A i, j \in 1..Len(drawer) : f[i] = f[j] => i = j
      BY <1>1, <1>3, <1>4
    <3>3. \A x \in Shown : \E i \in 1..Len(drawer) : f[i] = x
      BY <2>1
    <3> QED
      BY <3>1, <3>2, <3>3 DEF Bijection, Injection, Surjection, IsInjective
  <2>3. ExistsBijection(1..Len(drawer), Shown)
    BY <2>2 DEF ExistsBijection
  <2> QED
    BY <1>3, <2>3, FS_CountingElements
<1>6. DrawerTrue
  BY <1>1, <1>2, <1>3, <1>4, <1>5 DEF DrawerTrue
<1>7. ASSUME NEW k \in DOMAIN data
      PROVE  k \in Shown \/ Len(drawer) = Slots \/ (Len(seen) = SeenCap /\ k \notin Range(seen))
  <2>1. CASE k \notin Range(seen)
    BY <2>1 DEF DrawerInv, NamesInv
  <2>2. CASE k \in Range(seen)
    <3>1. PICK n \in 1..Len(rows) : rows[n].key = k
      BY <1>1, <2>2
    <3>2. CASE n \in 1..Len(drawer)
      BY <1>3, <1>4, <3>1, <3>2 DEF Shown
    <3>3. CASE n \notin 1..Len(drawer)
      BY <1>1, <1>3, <3>3
    <3> QED
      BY <3>2, <3>3
  <2> QED
    BY <2>1, <2>2
<1> QED
  BY <1>6, <1>7 DEF DrawerMissesOnlyAtCap

(***************************************************************************)
(* paintDrawer never shows a stale value, a deleted label or a label       *)
(* twice, whatever is entered and whatever the limits are.                 *)
(***************************************************************************)
THEOREM DrawerCorrect == Spec => []DrawerTrue
<1>1. Init => DrawerInv
  BY DrawerInitial
<1>2. DrawerInv /\ [Next]_vars => DrawerInv'
  BY DrawerInductive
<1>3. DrawerInv => DrawerTrue
  BY DrawerFacts DEF DrawerTrue
<1> QED
  BY <1>1, <1>2, <1>3, PTL DEF Spec

(***************************************************************************)
(* A label in the map is missing from the drawer only for want of slots or *)
(* because remember had reached seenCap when it was first set.             *)
(***************************************************************************)
THEOREM DrawerComplete == Spec => []DrawerMissesOnlyAtCap
<1>1. Init => DrawerInv
  BY DrawerInitial
<1>2. DrawerInv /\ [Next]_vars => DrawerInv'
  BY DrawerInductive
<1>3. DrawerInv => DrawerMissesOnlyAtCap
  BY DrawerFacts DEF DrawerMissesOnlyAtCap
<1> QED
  BY <1>1, <1>2, <1>3, PTL DEF Spec

--------------------------------------------------------------------------------
(* The stored session. *)

\* A part of one atom.
LEMMA OneAtom ==
    ASSUME NEW A, NEW s \in Seq(A), NEW i \in 1..Len(s)
    PROVE  SubSeq(s, i, i) = <<s[i]>>
<1> DEFINE t == SubSeq(s, i, i)
<1>1. i \in Int /\ s[i] \in A /\ \A x \in i..i : s[x] \in A
  OBVIOUS
<1>2. /\ t \in Seq(A) /\ Len(t) = IF i <= i THEN i - i + 1 ELSE 0
      /\ \A x \in 1..(i - i + 1) : t[x] = s[i + x - 1]
  BY <1>1, SubSeqProperties
<1> HIDE DEF t
<1>3. Len(t) = 1 /\ t[1] = s[i]
  BY <1>1, <1>2
<1>4. <<s[i]>> \in Seq(A) /\ Len(<<s[i]>>) = 1 /\ <<s[i]>>[1] = s[i]
  BY <1>1
<1>5. \A x \in 1..1 : t[x] = <<s[i]>>[x]
  BY <1>3, <1>4
<1>6. t = <<s[i]>>
  BY <1>2, <1>3, <1>4, <1>5, SeqEqual
<1> QED
  BY <1>6 DEF t

\* A line of a verb, a blank and one atom is GET or DEL of that atom.
LEMMA ParseKey ==
    ASSUME NEW op \in {"get", "del"}, NEW v, v \in Verbs(op), NEW k, k \notin {SP, CR, LF}
    PROVE  Parse(<<v, SP, k>>) = Command(op, <<k>>, <<>>)
<1> DEFINE s == <<v, SP, k>>
           A == {v, SP, k}
<1>1. s \in Seq(A) /\ Len(s) = 3 /\ s[1] = v /\ s[2] = SP /\ s[3] = k
  OBVIOUS
<1> HIDE DEF s, A
<1>2. Short(s, 3, op)
  <2>1. Trims(s, 3)
    BY <1>1 DEF Trims
  <2> QED
    BY <1>1, <2>1 DEF Short
<1>3. Parse(s) = Command(op, SubSeq(s, 3, 3), <<>>)
  BY <1>1, <1>2, ParseShort
<1>4. SubSeq(s, 3, 3) = <<k>>
  BY <1>1, OneAtom
<1> QED
  BY <1>3, <1>4 DEF s

\* The line s of SET, the atom k and a value of n atoms.
ValueLine(A, s, k, val, n) ==
    /\ k \in A /\ k # SP /\ val \in Seq(A) /\ n \in Nat \ {0} /\ Len(val) = n /\ val[n] \notin {CR, LF}
    /\ s \in Seq(A) /\ Len(s) = n + 4
    /\ s[1] = "SET" /\ s[2] = SP /\ s[3] = k /\ s[4] = SP /\ \A i \in 1..n : s[i + 4] = val[i]

\* It is SET of that atom to the whole value.
LEMMA ParseValue ==
    ASSUME NEW A, NEW s, NEW k, NEW val, NEW n, ValueLine(A, s, k, val, n)
    PROVE  Parse(s) = Command("set", <<k>>, val)
<1> USE DEF ValueLine
<1>1. Long(s, n + 4, 4)
  <2>1. s[n + 4] = val[n]
    OBVIOUS
  <2>2. Trims(s, n + 4)
    BY <2>1 DEF Trims
  <2>3. "SET" \in Verbs("set")
    BY VerbsIs
  <2> QED
    BY <2>2, <2>3 DEF Long
<1>2. Parse(s) = Command("set", SubSeq(s, 3, 4 - 1), SubSeq(s, 4 + 1, n + 4))
  BY <1>1, ParseLong
<1>3. SubSeq(s, 3, 3) = <<k>>
  BY OneAtom
<1>4. SubSeq(s, 5, n + 4) = val
  <2>1. 5 \in Int /\ n + 4 \in Int /\ \A i \in 5..(n + 4) : s[i] \in A
    OBVIOUS
  <2> DEFINE t == SubSeq(s, 5, n + 4)
  <2>2. /\ t \in Seq(A)
        /\ Len(t) = IF 5 <= n + 4 THEN (n + 4) - 5 + 1 ELSE 0
        /\ \A i \in 1..((n + 4) - 5 + 1) : t[i] = s[5 + i - 1]
    BY <2>1, SubSeqProperties
  <2> HIDE DEF t
  <2>3. Len(t) = n
    BY <2>2
  <2>4. ASSUME NEW i \in 1..n PROVE t[i] = val[i]
    <3>1. i \in 1..((n + 4) - 5 + 1) /\ 5 + i - 1 = i + 4
      OBVIOUS
    <3>2. t[i] = s[5 + i - 1]
      BY <2>2, <3>1
    <3> QED
      BY <3>1, <3>2
  <2>5. t = val
    BY <2>2, <2>3, <2>4, SeqEqual
  <2> QED
    BY <2>5 DEF t
<1>5. 4 - 1 = 3 /\ 4 + 1 = 5
  OBVIOUS
<1> QED
  BY <1>2, <1>3, <1>4, <1>5

\* A line of one atom that is neither blank nor the end of a line.
LEMMA ParseVerb ==
    /\ Parse(<<"PING">>) = Fail("unknown")
    /\ Parse(<<"GET">>) = Fail("key")
<1>1. ASSUME NEW v \in {"PING", "GET"}
      PROVE  ~Blank(TrimRight(<<v>>)) /\ Parts(<<v>>) = <<<<v>>>> /\ Verb(<<v>>) = <<v>>
  <2> DEFINE s == <<v>>
             A == {v}
  <2>1. s \in Seq(A) /\ Len(s) = 1 /\ s[1] = v
    OBVIOUS
  <2>2. v \notin {SP, TAB, CR, LF}
    BY DEF SP, TAB, CR, LF
  <2> HIDE DEF s, A
  <2>3. Trims(s, 1)
    BY <2>1, <2>2 DEF Trims
  <2>4. /\ TrimRight(s) \in Seq(A) /\ Len(TrimRight(s)) = 1
        /\ \A i \in 1..1 : TrimRight(s)[i] = s[i]
    BY <2>1, <2>3, TextIs
  <2>5. TrimRight(s) = s
    BY <2>1, <2>4, SeqEqual
  <2>6. ~Blank(s)
    BY <2>1, <2>2 DEF Blank
  <2>7. SplitN(s) = <<s>>
    <3>1. \A x \in DOMAIN s : s[x] # SP
      BY <2>1, <2>2
    <3> QED
      BY <3>1, SplitOne
  <2>8. ToUpper(s) = s
    <3>1. s \notin {<<"get">>, <<"set">>, <<"del">>}
      BY <2>1
    <3> QED
      BY <3>1, Zenon DEF ToUpper
  <2>9. Parts(s) = <<s>> /\ Verb(s) = s
    BY <2>5, <2>7, <2>8 DEF Parts, Verb
  <2> QED
    BY <2>5, <2>6, <2>9 DEF s
<1>2. Parse(<<"PING">>) = Fail("unknown")
  <2>1. <<"PING">> \notin {<<"GET">>, <<"DEL">>, <<"SET">>}
    OBVIOUS
  <2> QED
    BY <1>1, <2>1, ParseCases, Zenon
<1>3. Parse(<<"GET">>) = Fail("key")
  <2>1. ~Fields(Parts(<<"GET">>), 2)
    BY <1>1 DEF Fields
  <2> QED
    BY <1>1, <2>1, ParseCases, Zenon
<1> QED
  BY <1>2, <1>3

\* Serving a GET appends the value, or nil, and leaves the map alone.
LEMMA ServeGet ==
    ASSUME NEW acc, NEW l, NEW k, Parse(l) = Command("get", k, <<>>)
    PROVE  /\ ServeLine(acc, l).data = acc.data
           /\ ServeLine(acc, l).replies =
                 Append(acc.replies, IF k \in DOMAIN acc.data THEN ReplyValue(acc.data[k]) ELSE ReplyNil)
<1> DEFINE cmd == Parse(l)
<1>1. cmd.op = "get" /\ cmd.key = k
  BY DEF Command
<1> HIDE DEF cmd
<1>2. ExecuteEffect(cmd, acc.data) = acc.data
  BY <1>1 DEF ExecuteEffect
<1>3. ExecuteReply(cmd, acc.data) = IF k \in DOMAIN acc.data THEN ReplyValue(acc.data[k]) ELSE ReplyNil
  BY <1>1 DEF ExecuteReply
<1>4. ServeLine(acc, l) = [data    |-> ExecuteEffect(cmd, acc.data),
                           replies |-> Append(acc.replies, ExecuteReply(cmd, acc.data))]
  BY <1>1 DEF ServeLine, cmd
<1> QED
  BY <1>2, <1>3, <1>4

\* The reply to a GET of a key in the map.
LEMMA GetFound ==
    ASSUME NEW acc, NEW l, NEW k, Parse(l) = Command("get", k, <<>>), NEW after, after = ServeLine(acc, l),
           NEW m, acc.data = m, k \in DOMAIN m
    PROVE  after.data = m /\ after.replies = Append(acc.replies, ReplyValue(m[k]))
  BY ServeGet

\* The reply to a GET of any other key.
LEMMA GetNil ==
    ASSUME NEW acc, NEW l, NEW k, Parse(l) = Command("get", k, <<>>), NEW after, after = ServeLine(acc, l),
           k \notin DOMAIN acc.data
    PROVE  after.data = acc.data /\ after.replies = Append(acc.replies, ReplyNil)
  BY ServeGet

\* Serving a SET appends OK and puts the value.
LEMMA ServeSet ==
    ASSUME NEW acc, NEW l, NEW k, NEW v, Parse(l) = Command("set", k, v)
    PROVE  /\ ServeLine(acc, l).data = Put(acc.data, k, v)
           /\ ServeLine(acc, l).replies = Append(acc.replies, ReplyOK)
<1> DEFINE cmd == Parse(l)
<1>1. cmd.op = "set" /\ cmd.key = k /\ cmd.value = v
  BY DEF Command
<1> HIDE DEF cmd
<1>2. ExecuteEffect(cmd, acc.data) = Put(acc.data, k, v)
  BY <1>1 DEF ExecuteEffect
<1>3. ExecuteReply(cmd, acc.data) = ReplyOK
  BY <1>1 DEF ExecuteReply
<1>4. ServeLine(acc, l) = [data    |-> ExecuteEffect(cmd, acc.data),
                           replies |-> Append(acc.replies, ExecuteReply(cmd, acc.data))]
  BY <1>1 DEF ServeLine, cmd
<1> QED
  BY <1>2, <1>3, <1>4

\* Serving a DEL of a key in the map appends 1 and takes the key out.
LEMMA ServeDel ==
    ASSUME NEW acc, NEW l, NEW k, Parse(l) = Command("del", k, <<>>), k \in DOMAIN acc.data,
           NEW after, after = ServeLine(acc, l)
    PROVE  /\ after.data = [x \in DOMAIN acc.data \ {k} |-> acc.data[x]]
           /\ after.replies = Append(acc.replies, ReplyInt(1))
<1> DEFINE cmd == Parse(l)
<1>1. cmd.op = "del" /\ cmd.key = k
  BY DEF Command
<1> HIDE DEF cmd
<1>2. ExecuteEffect(cmd, acc.data) = [x \in DOMAIN acc.data \ {k} |-> acc.data[x]]
  BY <1>1 DEF ExecuteEffect
<1>3. ExecuteReply(cmd, acc.data) = ReplyInt(1)
  BY <1>1 DEF ExecuteReply
<1>4. ServeLine(acc, l) = [data    |-> ExecuteEffect(cmd, acc.data),
                           replies |-> Append(acc.replies, ExecuteReply(cmd, acc.data))]
  BY <1>1 DEF ServeLine, cmd
<1> QED
  BY <1>2, <1>3, <1>4

\* Serving a line that does not parse appends the error.
LEMMA ServeError ==
    ASSUME NEW acc, NEW l, NEW why, Parse(l) = Fail(why)
    PROVE  /\ ServeLine(acc, l).data = acc.data
           /\ ServeLine(acc, l).replies = Append(acc.replies, ReplyError(<<why>>))
<1>1. Parse(l).op = "error" /\ Parse(l).value = <<why>>
  BY DEF Fail
<1> QED
  BY <1>1 DEF ServeLine

\* Two atoms, put together one by one.
LEMMA TwoAtoms ==
    ASSUME NEW a, NEW b
    PROVE  Append(<<a>>, b) = <<a, b>> /\ <<a>> \o <<b>> = <<a, b>>
<1> DEFINE A == {a, b}
<1>1. <<a>> \in Seq(A) /\ <<b>> \in Seq(A) /\ <<a, b>> \in Seq(A) /\ b \in A
  OBVIOUS
<1>2. Len(<<a>>) = 1 /\ <<a>>[1] = a /\ Len(<<a, b>>) = 2 /\ <<a, b>>[1] = a /\ <<a, b>>[2] = b
  OBVIOUS
<1> HIDE DEF A
<1>3. PICK t \in Seq(A) : t = <<a>>
  BY <1>1
<1>4. PICK u \in Seq(A) : u = <<a, b>>
  BY <1>1
<1>5. /\ Append(t, b) \in Seq(A) /\ Len(Append(t, b)) = Len(t) + 1 /\ Append(t, b)[Len(t) + 1] = b
      /\ \A i \in 1..Len(t) : Append(t, b)[i] = t[i]
  BY <1>1, AppendProperties
<1>6. Append(t, b) = u
  <2>1. Len(Append(t, b)) = 2 /\ Len(u) = 2 /\ \A i \in 1..2 : Append(t, b)[i] = u[i]
    BY <1>2, <1>3, <1>4, <1>5
  <2> QED
    BY <1>5, <2>1, SeqEqual
<1>7. Append(t, b) = t \o <<b>>
  BY <1>1, AppendIsConcat
<1> QED
  BY <1>3, <1>4, <1>6, <1>7

\* The texts of the replies, each with its line feed.
LEMMA ReplyTexts ==
    /\ Append(<<"OK">>, LF) = ReplyOK
    /\ Append(<<"(nil)">>, LF) = ReplyNil
    /\ Append(<<"1">>, LF) = ReplyInt(1)
    /\ Append(<<"alice">>, LF) = ReplyValue(<<"alice">>)
    /\ Append(Greeting, LF) = ReplyValue(Greeting)
    /\ Append(<<"ERR ", "unknown">>, LF) = ReplyError(<<"unknown">>)
    /\ Append(<<"ERR ", "key">>, LF) = ReplyError(<<"key">>)
<1>1. ASSUME NEW A, NEW v \in Seq(A) PROVE Append(v, LF) = ReplyValue(v)
  <2>1. PICK B : B = A \cup {LF}
    OBVIOUS
  <2>2. v \in Seq(B) /\ LF \in B
    BY <2>1, SeqMonotonic
  <2> QED
    BY <2>2, AppendIsConcat DEF ReplyValue
<1>2. <<"alice">> \in Seq({"alice"}) /\ Greeting \in Seq({"hello", SP, "there", "friend"})
  BY DEF Greeting
<1>3. ASSUME NEW why PROVE Append(<<"ERR ", why>>, LF) = ReplyError(<<why>>)
  <2>1. <<"ERR ">> \o <<why>> = <<"ERR ", why>>
    BY TwoAtoms
  <2>2. <<"ERR ", why>> \in Seq({"ERR ", why})
    OBVIOUS
  <2>3. ReplyError(<<why>>) = ReplyValue(<<"ERR ", why>>)
    BY <2>1 DEF ReplyError, ReplyValue
  <2> QED
    BY <1>1, <2>2, <2>3
<1>4. Append(<<"OK">>, LF) = ReplyOK /\ Append(<<"(nil)">>, LF) = ReplyNil
  BY TwoAtoms DEF ReplyOK, ReplyNil
<1>5. Append(<<"1">>, LF) = ReplyInt(1)
  BY TwoAtoms DEF ReplyInt
<1> QED
  BY <1>1, <1>2, <1>3, <1>4, <1>5

\* The elements of a tuple of nine.
LEMMA NineOf ==
    ASSUME NEW a, NEW b, NEW c, NEW d, NEW e, NEW f, NEW g, NEW h, NEW i, NEW s,
           s = <<a, b, c, d, e, f, g, h, i>>
    PROVE  /\ DOMAIN s = 1..9
           /\ s[1] = a /\ s[2] = b /\ s[3] = c /\ s[4] = d /\ s[5] = e
           /\ s[6] = f /\ s[7] = g /\ s[8] = h /\ s[9] = i
  OBVIOUS

\* The parts of the captured session, line by line.
LEMMA CapturedIs ==
    /\ DOMAIN CapturedLines = 1..9
    /\ CapturedLines[1] = Exchange(<<"SET", SP, "name", SP, "alice">>, <<"OK">>)
    /\ CapturedLines[2] = Exchange(<<"GET", SP, "name">>, <<"alice">>)
    /\ CapturedLines[3] = Exchange(<<"SET", SP, "greeting", SP>> \o Greeting, <<"OK">>)
    /\ CapturedLines[4] = Exchange(<<"GET", SP, "greeting">>, Greeting)
    /\ CapturedLines[5] = Exchange(<<"GET", SP, "nothing">>, <<"(nil)">>)
    /\ CapturedLines[6] = Exchange(<<"DEL", SP, "name">>, <<"1">>)
    /\ CapturedLines[7] = Exchange(<<"GET", SP, "name">>, <<"(nil)">>)
    /\ CapturedLines[8] = Exchange(<<"PING">>, <<"ERR ", "unknown">>)
    /\ CapturedLines[9] = Exchange(<<"GET">>, <<"ERR ", "key">>)
<1> DEFINE e1 == Exchange(<<"SET", SP, "name", SP, "alice">>, <<"OK">>)
           e2 == Exchange(<<"GET", SP, "name">>, <<"alice">>)
           e3 == Exchange(<<"SET", SP, "greeting", SP>> \o Greeting, <<"OK">>)
           e4 == Exchange(<<"GET", SP, "greeting">>, Greeting)
           e5 == Exchange(<<"GET", SP, "nothing">>, <<"(nil)">>)
           e6 == Exchange(<<"DEL", SP, "name">>, <<"1">>)
           e7 == Exchange(<<"GET", SP, "name">>, <<"(nil)">>)
           e8 == Exchange(<<"PING">>, <<"ERR ", "unknown">>)
           e9 == Exchange(<<"GET">>, <<"ERR ", "key">>)
<1>1. CapturedLines = <<e1, e2, e3, e4, e5, e6, e7, e8, e9>>
  BY Zenon DEF CapturedLines
<1> HIDE DEF e1, e2, e3, e4, e5, e6, e7, e8, e9
<1>2. /\ DOMAIN CapturedLines = 1..9
      /\ CapturedLines[1] = e1 /\ CapturedLines[2] = e2 /\ CapturedLines[3] = e3
      /\ CapturedLines[4] = e4 /\ CapturedLines[5] = e5 /\ CapturedLines[6] = e6
      /\ CapturedLines[7] = e7 /\ CapturedLines[8] = e8 /\ CapturedLines[9] = e9
  BY <1>1, NineOf
<1> QED
  BY <1>2, Zenon DEF e1, e2, e3, e4, e5, e6, e7, e8, e9

\* What Parse makes of the commands of the session.
LEMMA CapturedParse ==
    /\ Parse(CapturedLines[1].command) = Command("set", <<"name">>, <<"alice">>)
    /\ Parse(CapturedLines[2].command) = Command("get", <<"name">>, <<>>)
    /\ Parse(CapturedLines[3].command) = Command("set", <<"greeting">>, Greeting)
    /\ Parse(CapturedLines[4].command) = Command("get", <<"greeting">>, <<>>)
    /\ Parse(CapturedLines[5].command) = Command("get", <<"nothing">>, <<>>)
    /\ Parse(CapturedLines[6].command) = Command("del", <<"name">>, <<>>)
    /\ Parse(CapturedLines[7].command) = Command("get", <<"name">>, <<>>)
    /\ Parse(CapturedLines[8].command) = Fail("unknown")
    /\ Parse(CapturedLines[9].command) = Fail("key")
<1>1. "GET" \in Verbs("get") /\ "DEL" \in Verbs("del")
  BY VerbsIs
<1>2. \A k \in {"name", "greeting", "nothing"} : k \notin {SP, CR, LF}
  BY DEF SP, CR, LF
<1>3. \A k \in {"name", "greeting", "nothing"} :
         /\ Parse(<<"GET", SP, k>>) = Command("get", <<k>>, <<>>)
         /\ Parse(<<"DEL", SP, k>>) = Command("del", <<k>>, <<>>)
  BY <1>1, <1>2, ParseKey
<1>4. Parse(<<"SET", SP, "name", SP, "alice">>) = Command("set", <<"name">>, <<"alice">>)
  <2> DEFINE A == {"SET", SP, "name", "alice"}
             s == <<"SET", SP, "name", SP, "alice">>
             val == <<"alice">>
  <2>1. /\ s \in Seq(A) /\ Len(s) = 1 + 4 /\ "name" \in A
        /\ s[1] = "SET" /\ s[2] = SP /\ s[3] = "name" /\ s[4] = SP /\ s[5] = "alice"
    OBVIOUS
  <2>2. val \in Seq(A) /\ Len(val) = 1 /\ val[1] = "alice"
    OBVIOUS
  <2>3. "alice" \notin {CR, LF} /\ "name" # SP
    BY DEF SP, CR, LF
  <2> HIDE DEF A, s, val
  <2>4. PICK n \in Nat \ {0} : n = 1
    OBVIOUS
  <2>5. /\ Len(s) = n + 4 /\ Len(val) = n /\ val[n] \notin {CR, LF}
        /\ \A i \in 1..n : s[i + 4] = val[i]
    BY <2>1, <2>2, <2>3, <2>4
  <2>6. Parse(s) = Command("set", <<"name">>, val)
    <3>1. s \in Seq(A) /\ "name" \in A /\ val \in Seq(A)
      BY <2>1, <2>2
    <3>2. s[1] = "SET" /\ s[2] = SP /\ s[3] = "name" /\ s[4] = SP
      BY <2>1
    <3>3. ValueLine(A, s, "name", val, n)
      BY <2>3, <2>5, <3>1, <3>2 DEF ValueLine
    <3> QED
      BY <3>3, ParseValue
  <2> QED
    BY <2>6 DEF s, val
<1>5. Parse(<<"SET", SP, "greeting", SP>> \o Greeting) = Command("set", <<"greeting">>, Greeting)
  <2> DEFINE A == {"SET", SP, "greeting", "hello", "there", "friend"}
             h == <<"SET", SP, "greeting", SP>>
             s == h \o Greeting
  <2>1. /\ h \in Seq(A) /\ Len(h) = 4 /\ "greeting" \in A
        /\ h[1] = "SET" /\ h[2] = SP /\ h[3] = "greeting" /\ h[4] = SP
    OBVIOUS
  <2>2. Greeting \in Seq(A) /\ Len(Greeting) = 5 /\ Greeting[5] = "friend"
    BY DEF Greeting
  <2>3. "friend" \notin {CR, LF} /\ "greeting" # SP
    BY DEF SP, CR, LF
  <2> HIDE DEF A, h
  <2>4. /\ s \in Seq(A) /\ Len(s) = Len(h) + Len(Greeting)
        /\ \A i \in 1..(Len(h) + Len(Greeting)) :
              s[i] = IF i <= Len(h) THEN h[i] ELSE Greeting[i - Len(h)]
    BY <2>1, <2>2, ConcatProperties
  <2> HIDE DEF s
  <2>5. PICK n \in Nat \ {0} : n = 5
    OBVIOUS
  <2>6. s[1] = "SET" /\ s[2] = SP /\ s[3] = "greeting" /\ s[4] = SP
    BY <2>1, <2>2, <2>4
  <2>7. /\ Len(s) = n + 4 /\ Len(Greeting) = n /\ Greeting[n] \notin {CR, LF}
        /\ \A i \in 1..n : s[i + 4] = Greeting[i]
    BY <2>1, <2>2, <2>3, <2>4, <2>5
  <2>8. s \in Seq(A) /\ "greeting" \in A /\ Greeting \in Seq(A)
    BY <2>1, <2>2, <2>4
  <2>9. Parse(s) = Command("set", <<"greeting">>, Greeting)
    <3>1. ValueLine(A, s, "greeting", Greeting, n)
      BY <2>3, <2>6, <2>7, <2>8 DEF ValueLine
    <3> QED
      BY <3>1, ParseValue
  <2> QED
    BY <2>9 DEF s, h
<1>6. \A c, r : Exchange(c, r).command = c
  BY DEF Exchange
<1> QED
  BY <1>3, <1>4, <1>5, <1>6, CapturedIs, ParseVerb, Zenon

\* The server after the first n commands of the session.
Upto(n) == Served([i \in 1..n |-> CapturedLines[i].command])

\* Each reply of it is the captured one, with its line feed.
RepliesUpto(n) ==
    /\ Upto(n).replies \in Seq(Range(Upto(n).replies)) /\ Len(Upto(n).replies) = n
    /\ \A i \in 1..n : Upto(n).replies[i] = Append(CapturedLines[i].reply, LF)

\* One more command.
LEMMA UptoStep ==
    ASSUME NEW n \in Nat
    PROVE  Upto(n + 1) = ServeLine(Upto(n), CapturedLines[n + 1].command)
<1> DEFINE c == [i \in 1..(n + 1) |-> CapturedLines[i].command]
           b == [i \in 1..n |-> CapturedLines[i].command]
           l == CapturedLines[n + 1].command
<1>1. /\ c = [i \in 1..(n + 1) |-> c[i]] /\ b = [i \in 1..n |-> b[i]]
      /\ c[n + 1] = l /\ \A i \in 1..n : c[i] = b[i]
  OBVIOUS
<1> HIDE DEF b, c, l
<1>2. PICK A : A = Range(c)
  OBVIOUS
<1>3. c \in Seq(A) /\ Len(c) = n + 1
  <2>1. n + 1 \in Nat
    OBVIOUS
  <2> QED
    BY <1>1, <1>2, <2>1, OwnRange
<1>4. l \in A /\ \A i \in 1..n : b[i] \in A
  <2>1. \A i \in 1..(n + 1) : c[i] \in A
    BY <1>3, ElementOfSeq
  <2>2. n + 1 \in 1..(n + 1) /\ \A i \in 1..n : i \in 1..(n + 1)
    OBVIOUS
  <2>3. c[n + 1] = l /\ \A i \in 1..n : c[i] = b[i]
    BY <1>1
  <2> QED
    BY <2>1, <2>2, <2>3
<1>5. b \in Seq(A) /\ Len(b) = n
  <2>1. b \in [1..n -> A]
    BY <1>1, <1>4
  <2>2. b \in Seq(A)
    BY <2>1, SeqDef
  <2> QED
    BY <2>1, <2>2, LenProperties
<1>6. /\ Append(b, l) \in Seq(A) /\ Len(Append(b, l)) = n + 1 /\ Append(b, l)[n + 1] = l
      /\ \A i \in 1..n : Append(b, l)[i] = b[i]
  BY <1>4, <1>5, AppendProperties
<1>7. \A i \in 1..(n + 1) : c[i] = Append(b, l)[i]
  <2>1. c[n + 1] = l /\ \A i \in 1..n : c[i] = b[i]
    BY <1>1
  <2>2. \A i \in 1..(n + 1) : i = n + 1 \/ i \in 1..n
    OBVIOUS
  <2> QED
    BY <1>6, <2>1, <2>2
<1>8. c = Append(b, l)
  BY <1>3, <1>6, <1>7, SeqEqual
<1>9. Served(c) = ServeLine(Served(b), l)
  BY <1>4, <1>5, <1>8, ServedAppend
<1> QED
  BY <1>9 DEF Upto, b, c, l

\* At first nothing has been served.
LEMMA UptoZero == Upto(0) = Unserved /\ RepliesUpto(0)
<1>1. [i \in 1..0 |-> CapturedLines[i].command] = <<>>
  OBVIOUS
<1>2. Upto(0) = Unserved
  BY <1>1, ServedEmpty DEF Upto
<1>3. Upto(0).replies = <<>>
  BY <1>2 DEF Unserved
<1>4. <<>> \in Seq(Range(<<>>)) /\ Len(<<>>) = 0
  BY EmptySeq
<1>5. \A i \in 1..0 : FALSE
  OBVIOUS
<1> QED
  BY <1>2, <1>3, <1>4, <1>5 DEF RepliesUpto

\* One more reply.
LEMMA RepliesStep ==
    ASSUME NEW n \in Nat, RepliesUpto(n), NEW m, m = n + 1,
           NEW c, NEW p, CapturedLines[m] = Exchange(c, p), NEW r, r = Append(p, LF),
           Upto(m).replies = Append(Upto(n).replies, r)
    PROVE  RepliesUpto(m)
<1> DEFINE before == Upto(n).replies
           after  == Upto(n + 1).replies
<1>0. CapturedLines[n + 1].reply = p
  BY DEF Exchange
<1>1. /\ before \in Seq(Range(before)) /\ Len(before) = n
      /\ \A i \in 1..n : before[i] = Append(CapturedLines[i].reply, LF)
  BY DEF RepliesUpto
<1>2. after = Append(before, r)
  OBVIOUS
<1> HIDE DEF before, after
<1>3. after \in Seq(Range(after))
  BY <1>1, <1>2, AppendEnds
<1>4. Len(after) = n + 1 /\ after[n + 1] = r /\ \A i \in 1..n : after[i] = before[i]
  <2>1. PICK A : A = Range(before) \cup {r}
    OBVIOUS
  <2>2. before \in Seq(A) /\ r \in A
    BY <1>1, <2>1, SeqMonotonic
  <2> QED
    BY <1>1, <1>2, <2>2, AppendProperties
<1>5. \A i \in 1..(n + 1) : after[i] = Append(CapturedLines[i].reply, LF)
  <2>1. \A i \in 1..(n + 1) : i = n + 1 \/ i \in 1..n
    OBVIOUS
  <2>2. after[n + 1] = Append(CapturedLines[n + 1].reply, LF)
    BY <1>0, <1>4
  <2>3. \A i \in 1..n : after[i] = Append(CapturedLines[i].reply, LF)
    BY <1>1, <1>4
  <2> QED
    BY <2>1, <2>2, <2>3
<1> QED
  BY <1>3, <1>4, <1>5 DEF RepliesUpto, after

\* Served one by one, the captured commands give the captured replies and
\* leave the greeting behind.
LEMMA CapturedServed ==
    /\ RepliesUpto(9)
    /\ DOMAIN Upto(9).data = {<<"greeting">>} /\ Upto(9).data[<<"greeting">>] = Greeting
<1> DEFINE name == <<"name">>
           greet == <<"greeting">>
           none == <<"nothing">>
<1>1. name # greet /\ none # name /\ none # greet
  OBVIOUS
<1>2. /\ 0 \in Nat /\ 1 \in Nat /\ 2 \in Nat /\ 3 \in Nat /\ 4 \in Nat
      /\ 5 \in Nat /\ 6 \in Nat /\ 7 \in Nat /\ 8 \in Nat
      /\ 1 = 0 + 1 /\ 2 = 1 + 1 /\ 3 = 2 + 1 /\ 4 = 3 + 1 /\ 5 = 4 + 1
      /\ 6 = 5 + 1 /\ 7 = 6 + 1 /\ 8 = 7 + 1 /\ 9 = 8 + 1
  OBVIOUS
<1>3. \A n \in 0..8 : Upto(n + 1) = ServeLine(Upto(n), CapturedLines[n + 1].command)
  BY UptoStep
<1>4. /\ Upto(1) = ServeLine(Upto(0), CapturedLines[1].command)
      /\ Upto(2) = ServeLine(Upto(1), CapturedLines[2].command)
      /\ Upto(3) = ServeLine(Upto(2), CapturedLines[3].command)
      /\ Upto(4) = ServeLine(Upto(3), CapturedLines[4].command)
      /\ Upto(5) = ServeLine(Upto(4), CapturedLines[5].command)
      /\ Upto(6) = ServeLine(Upto(5), CapturedLines[6].command)
      /\ Upto(7) = ServeLine(Upto(6), CapturedLines[7].command)
      /\ Upto(8) = ServeLine(Upto(7), CapturedLines[8].command)
      /\ Upto(9) = ServeLine(Upto(8), CapturedLines[9].command)
  <2>1. /\ 0 + 1 = 1 /\ 1 + 1 = 2 /\ 2 + 1 = 3 /\ 3 + 1 = 4 /\ 4 + 1 = 5
        /\ 5 + 1 = 6 /\ 6 + 1 = 7 /\ 7 + 1 = 8 /\ 8 + 1 = 9
    OBVIOUS
  <2>2. {0, 1, 2, 3, 4, 5, 6, 7, 8} \subseteq 0..8
    OBVIOUS
  <2> QED
    BY <1>3, <2>1, <2>2
<1> HIDE DEF name, greet, none
<1>5. Upto(0).data = <<>> /\ DOMAIN Upto(0).data = {}
  BY UptoZero DEF Unserved
<1>6. /\ DOMAIN Upto(1).data = {name} /\ Upto(1).data[name] = <<"alice">>
       /\ Upto(1).replies = Append(Upto(0).replies, ReplyOK)
  <2>1. /\ Upto(1).data = Put(Upto(0).data, name, <<"alice">>)
        /\ Upto(1).replies = Append(Upto(0).replies, ReplyOK)
    BY <1>4, CapturedParse, ServeSet DEF name
  <2> QED
    BY <1>5, <2>1 DEF Put
<1>7. Upto(2).data = Upto(1).data /\ Upto(2).replies = Append(Upto(1).replies, ReplyValue(<<"alice">>))
  <2>1. Parse(CapturedLines[2].command) = Command("get", name, <<>>)
    BY CapturedParse DEF name
  <2>2. PICK m : m = Upto(1).data
    OBVIOUS
  <2>3. name \in DOMAIN m /\ m[name] = <<"alice">>
    BY <1>6, <2>2
  <2>4. Upto(2) = ServeLine(Upto(1), CapturedLines[2].command)
    BY <1>4
  <2>5. Upto(2).data = m /\ Upto(2).replies = Append(Upto(1).replies, ReplyValue(m[name]))
    BY <2>1, <2>2, <2>3, <2>4, GetFound
  <2> QED
    BY <2>2, <2>3, <2>5
<1>8. /\ DOMAIN Upto(3).data = {name, greet} /\ Upto(3).data[greet] = Greeting
       /\ Upto(3).replies = Append(Upto(2).replies, ReplyOK)
  <2>1. /\ Upto(3).data = Put(Upto(2).data, greet, Greeting)
        /\ Upto(3).replies = Append(Upto(2).replies, ReplyOK)
    BY <1>4, CapturedParse, ServeSet DEF greet
  <2> QED
    BY <1>6, <1>7, <2>1 DEF Put
<1>9. Upto(4).data = Upto(3).data /\ Upto(4).replies = Append(Upto(3).replies, ReplyValue(Greeting))
  <2>1. Parse(CapturedLines[4].command) = Command("get", greet, <<>>)
    BY CapturedParse DEF greet
  <2>2. PICK m : m = Upto(3).data
    OBVIOUS
  <2>3. greet \in DOMAIN m /\ m[greet] = Greeting
    BY <1>8, <2>2
  <2>4. Upto(4) = ServeLine(Upto(3), CapturedLines[4].command)
    BY <1>4
  <2>5. Upto(4).data = m /\ Upto(4).replies = Append(Upto(3).replies, ReplyValue(m[greet]))
    BY <2>1, <2>2, <2>3, <2>4, GetFound
  <2> QED
    BY <2>2, <2>3, <2>5
<1>10. Upto(5).data = Upto(4).data /\ Upto(5).replies = Append(Upto(4).replies, ReplyNil)
  <2>1. Parse(CapturedLines[5].command) = Command("get", none, <<>>)
    BY CapturedParse DEF none
  <2>2. none \notin DOMAIN Upto(4).data
    BY <1>1, <1>8, <1>9
  <2>3. Upto(5) = ServeLine(Upto(4), CapturedLines[5].command)
    BY <1>4
  <2> QED
    BY <2>1, <2>2, <2>3, GetNil
<1>11. /\ DOMAIN Upto(6).data = {greet} /\ Upto(6).data[greet] = Greeting
       /\ Upto(6).replies = Append(Upto(5).replies, ReplyInt(1))
  <2>1. Parse(CapturedLines[6].command) = Command("del", name, <<>>)
    BY CapturedParse DEF name
  <2>2. /\ DOMAIN Upto(5).data = {name, greet} /\ Upto(5).data[greet] = Greeting
        /\ name \in DOMAIN Upto(5).data
    BY <1>8, <1>9, <1>10
  <2>3. Upto(6) = ServeLine(Upto(5), CapturedLines[6].command)
    BY <1>4
  <2>4. /\ Upto(6).data = [x \in DOMAIN Upto(5).data \ {name} |-> Upto(5).data[x]]
        /\ Upto(6).replies = Append(Upto(5).replies, ReplyInt(1))
    BY <2>1, <2>2, <2>3, ServeDel, Zenon
  <2> QED
    BY <1>1, <2>2, <2>4
<1>12. Upto(7).data = Upto(6).data /\ Upto(7).replies = Append(Upto(6).replies, ReplyNil)
  <2>1. Parse(CapturedLines[7].command) = Command("get", name, <<>>)
    BY CapturedParse DEF name
  <2>2. name \notin DOMAIN Upto(6).data
    BY <1>1, <1>11
  <2>3. Upto(7) = ServeLine(Upto(6), CapturedLines[7].command)
    BY <1>4
  <2> QED
    BY <2>1, <2>2, <2>3, GetNil
<1>13. Upto(8).data = Upto(7).data /\ Upto(8).replies = Append(Upto(7).replies, ReplyError(<<"unknown">>))
  BY <1>4, CapturedParse, ServeError
<1>14. Upto(9).data = Upto(8).data /\ Upto(9).replies = Append(Upto(8).replies, ReplyError(<<"key">>))
  BY <1>4, CapturedParse, ServeError
<1>15. RepliesUpto(1)
  BY <1>2, <1>6, UptoZero, CapturedIs, ReplyTexts, RepliesStep, Zenon
<1>16. RepliesUpto(2)
  BY <1>2, <1>7, <1>15, CapturedIs, ReplyTexts, RepliesStep, Zenon
<1>17. RepliesUpto(3)
  BY <1>2, <1>8, <1>16, CapturedIs, ReplyTexts, RepliesStep, Zenon
<1>18. RepliesUpto(4)
  BY <1>2, <1>9, <1>17, CapturedIs, ReplyTexts, RepliesStep, Zenon
<1>19. RepliesUpto(5)
  BY <1>2, <1>10, <1>18, CapturedIs, ReplyTexts, RepliesStep, Zenon
<1>20. RepliesUpto(6)
  BY <1>2, <1>11, <1>19, CapturedIs, ReplyTexts, RepliesStep, Zenon
<1>21. RepliesUpto(7)
  BY <1>2, <1>12, <1>20, CapturedIs, ReplyTexts, RepliesStep, Zenon
<1>22. RepliesUpto(8)
  BY <1>2, <1>13, <1>21, CapturedIs, ReplyTexts, RepliesStep, Zenon
<1>23. RepliesUpto(9)
  BY <1>2, <1>14, <1>22, CapturedIs, ReplyTexts, RepliesStep, Zenon
<1> QED
  BY <1>11, <1>12, <1>13, <1>14, <1>23 DEF greet

\* The stored session is drawn whole, once, and nothing is drawn over it.
StoredInv ==
    tape # <<>> =>
        /\ page = "stored" /\ tape = CapturedLines
        /\ DOMAIN drawer = {1} /\ drawer[1] = Row(<<"greeting">>, Greeting)
        /\ count = 1

\* It is inductive together with the invariant of the drawer, which says that
\* no line is evaluated on a page that shows the stored session.
LEMMA StoredInductive == DrawerInv /\ StoredInv /\ [Next]_vars => StoredInv'
<1> SUFFICES ASSUME DrawerInv, StoredInv, [Next]_vars PROVE StoredInv'
  OBVIOUS
<1>1. CASE ShowStored
  <2>1. PICK rows : rows = FinalState
    OBVIOUS
  <2> DEFINE A == {Row(<<"greeting">>, Greeting)}
  <2>2. rows \in Seq(A) /\ Len(rows) = 1 /\ rows[1] = Row(<<"greeting">>, Greeting)
    BY <2>1 DEF FinalState
  <2> HIDE DEF A
  <2>3. page' = "stored" /\ tape' = CapturedLines /\ PaintDrawer(rows, <<>>, "")
    BY <1>1, <2>1 DEF ShowStored
  <2>4. drawer' = SubSeq(rows, 1, Min({Slots, Len(rows)})) /\ count' = Len(rows)
    BY <2>2, <2>3, PaintIs
  <2>5. PICK d : d = drawer'
    OBVIOUS
  <2>6. /\ d \in Seq(A) /\ Len(d) = IF Slots <= Len(rows) THEN Slots ELSE Len(rows)
        /\ \A i \in 1..Len(d) : d[i] = rows[i]
    BY <2>2, <2>4, <2>5, CutIs
  <2>7. Len(d) = 1
    BY <2>2, <2>6, PageAssumption
  <2>8. DOMAIN d = {1} /\ d[1] = rows[1]
    BY <2>6, <2>7, LenProperties
  <2> QED
    BY <2>2, <2>3, <2>4, <2>5, <2>8 DEF StoredInv
<1>2. CASE OnReady
  BY <1>2 DEF OnReady, StoredInv
<1>3. CASE \E text \in Inputs : Run(text)
  BY <1>3 DEF Run, StoredInv, DrawerInv
<1>4. CASE \/ BootFallback \/ BootFetch \/ StreamingFails \/ Instantiated \/ PlainFails
           \/ LoadStep \/ StoredAbsent \/ StoredFails \/ UNCHANGED vars
  <2>1. UNCHANGED shownVars /\ (page # "stored" \/ page' = page)
    BY <1>4 DEF vars, BootFallback, BootFetch, StreamingFails, Instantiated, PlainFails,
       LoadStep, StoredAbsent, StoredFails, shownVars
  <2> QED
    BY <2>1 DEF StoredInv, shownVars
<1> QED
  BY <1>1, <1>2, <1>3, <1>4 DEF Next, Boot

\* What is drawn is what the server leaves after the commands that are shown.
LEMMA StoredFacts == StoredInv => StoredIsReal
<1> SUFFICES ASSUME StoredInv, tape # <<>> PROVE StoredIsReal
  BY DEF StoredIsReal
<1> DEFINE ref == Served([i \in DOMAIN tape |-> tape[i].command])
<1>1. /\ tape = CapturedLines /\ DOMAIN tape = 1..9
      /\ DOMAIN drawer = {1} /\ drawer[1] = Row(<<"greeting">>, Greeting) /\ count = 1
  BY CapturedIs DEF StoredInv
<1>2. ref = Upto(9)
  BY <1>1 DEF Upto
<1> HIDE DEF ref
<1>3. \A i \in DOMAIN tape : Append(tape[i].reply, LF) = ref.replies[i]
  BY <1>1, <1>2, CapturedServed DEF RepliesUpto
<1>4. drawer[1].key = <<"greeting">> /\ drawer[1].value = Greeting
  BY <1>1 DEF Row
<1>5. DOMAIN ref.data = {<<"greeting">>} /\ ref.data[<<"greeting">>] = Greeting
  BY <1>2, CapturedServed
<1>6. {drawer[i].key : i \in DOMAIN drawer} = DOMAIN ref.data
  BY <1>1, <1>4, <1>5
<1>7. \A i \in DOMAIN drawer : drawer[i].value = ref.data[drawer[i].key]
  BY <1>1, <1>4, <1>5
<1>8. count = Cardinality(DOMAIN ref.data)
  BY <1>1, <1>5, FS_Singleton
<1> QED
  BY <1>3, <1>6, <1>7, <1>8 DEF StoredIsReal, ref

(***************************************************************************)
(* The stored session that showStored draws is one the server could have   *)
(* had, on a page with any number of slots: served one by one, its         *)
(* commands give its replies and leave the labels that are drawn.          *)
(***************************************************************************)
THEOREM StoredCorrect == Spec => []StoredIsReal
<1>1. Init => DrawerInv /\ StoredInv
  BY DrawerInitial DEF Init, StoredInv
<1>2. DrawerInv /\ StoredInv /\ [Next]_vars => DrawerInv' /\ StoredInv'
  BY DrawerInductive, StoredInductive
<1>3. StoredInv => StoredIsReal
  BY StoredFacts
<1> QED
  BY <1>1, <1>2, <1>3, PTL DEF Spec

--------------------------------------------------------------------------------
(* The step player *)

\* clampIndex returns the index of a step, whatever it is given.
LEMMA ClampInRange ==
    ASSUME NEW i \in Int \cup {NotFinite}
    PROVE  ClampIndex(i) \in 0..LastStep
  BY PlayerAssumption DEF ClampIndex, LastStep

\* Every event of the player keeps the types of its variables.
LEMMA PlayerTypeStep ==
    ASSUME PlayerTypeOK, PlayerNext
    PROVE  PlayerTypeOK'
<1> USE PlayerAssumption DEF PlayerTypeOK, View, LastStep
<1>1. ASSUME NEW i \in Targets, Mount(i) PROVE PlayerTypeOK'
  <2>1. ClampIndex(i) \in 0..LastStep
    BY ClampInRange DEF Targets
  <2> QED
    BY <1>1, <2>1 DEF Mount, FirstRender, SetPlayLabel, Render
<1>2. ASSUME NEW i \in Targets, Jump(i) PROVE PlayerTypeOK'
  <2>1. ClampIndex(i) \in 0..LastStep
    BY ClampInRange DEF Targets
  <2> QED
    BY <1>2, <2>1 DEF Jump, GoTo, StopClock, ClearTimer, SetPlayLabel, Render
<1>3. CASE Play
  BY <1>3 DEF Play, Schedule, NewTimer, SetPlayLabel, Render
<1>4. CASE Pause
  BY <1>4 DEF Pause, StopClock, ClearTimer, SetPlayLabel, Render
<1>5. CASE NextStep
  <2>1. ClampIndex(index + 1) \in 0..LastStep
    BY ClampInRange
  <2> QED
    BY <1>5, <2>1 DEF NextStep, GoTo, StopClock, ClearTimer, SetPlayLabel, Render
<1>6. CASE PrevStep
  <2>1. ClampIndex(index - 1) \in 0..LastStep
    BY ClampInRange
  <2> QED
    BY <1>6, <2>1 DEF PrevStep, GoTo, StopClock, ClearTimer, SetPlayLabel, Render
<1>7. CASE Tick
  <2>1. CASE player # "live" \/ ~playing
    <3>1. PICK h \in armed : timer' = 0 /\ armed' = armed \ {h}
      BY <1>7, <2>1 DEF Tick
    <3>2. UNCHANGED <<index, playing, playLabel, shown, player, hidden>>
      BY <1>7, <2>1 DEF Tick
    <3> QED
      BY <3>1, <3>2
  <2>2. CASE ~(player # "live" \/ ~playing) /\ index >= LastStep
    <3>1. PICK h \in armed : timer' = 0 /\ armed' = armed \ {h}
      BY <1>7, <2>2 DEF Tick
    <3>2. UNCHANGED <<index, player, hidden>> /\ playing' = FALSE /\ playLabel' = "Play"
      BY <1>7, <2>2 DEF Tick, SetPlayLabel
    <3>3. shown' = [at |-> index', playing |-> playing']
      BY <1>7, <2>2 DEF Tick, Render
    <3> QED
      BY <3>1, <3>2, <3>3
  <2>3. CASE ~(player # "live" \/ ~playing) /\ ~(index >= LastStep)
    <3>1. PICK h \in armed : timer' = NewTimer(armed \ {h}) /\ armed' = (armed \ {h}) \cup {timer'}
      BY <1>7, <2>3 DEF Tick
    <3>2. UNCHANGED <<playing, playLabel, player, hidden>> /\ index' = index + 1
      BY <1>7, <2>3 DEF Tick
    <3>3. shown' = [at |-> index', playing |-> playing']
      BY <1>7, <2>3 DEF Tick, Render
    <3>4. timer' \in Nat \ {0}
      BY <3>1 DEF NewTimer
    <3>5. index' \in 0..LastStep
      BY <2>3, <3>2
    <3> QED
      BY <3>1, <3>2, <3>3, <3>4, <3>5
  <2> QED
    BY <2>1, <2>2, <2>3
<1>8. CASE Hide
  <2>1. CASE player = "live" /\ playing
    <3>1. StopClock /\ UNCHANGED <<player, index>> /\ hidden' = TRUE
      BY <1>8, <2>1 DEF Hide
    <3>2. shown' = [at |-> index', playing |-> playing']
      BY <1>8, <2>1 DEF Hide, Render
    <3>3. playing' = FALSE /\ playLabel' = "Play" /\ timer' = 0 /\ armed' = armed \ {timer}
      BY <3>1 DEF StopClock, ClearTimer, SetPlayLabel
    <3> QED
      BY <3>1, <3>2, <3>3
  <2>2. CASE ~(player = "live" /\ playing)
    BY <1>8, <2>2 DEF Hide, playerVars
  <2> QED
    BY <2>1, <2>2
<1>9. CASE Show
  BY <1>9 DEF Show, playerVars
<1>10. CASE Destroy
  BY <1>10 DEF Destroy, ClearTimer
<1>11. CASE LateGoTo
  BY <1>11 DEF LateGoTo, StopClock, ClearTimer, SetPlayLabel
<1> QED
  BY <1>1, <1>2, <1>3, <1>4, <1>5, <1>6, <1>7, <1>8, <1>9, <1>10, <1>11 DEF PlayerNext, Toggle

\* Every event that moves the player or its state renders.
LEMMA ShownStep ==
    ASSUME PlayerTypeOK, ShownIsCurrent, PlayerNext
    PROVE  ShownIsCurrent'
<1> USE DEF PlayerTypeOK, ShownIsCurrent, Render, SetPlayLabel
<1>1. ASSUME NEW i \in Targets, Mount(i) \/ Jump(i) PROVE ShownIsCurrent'
  BY <1>1 DEF Mount, Jump, FirstRender, GoTo, StopClock
<1>2. CASE Toggle \/ Pause
  BY <1>2 DEF Toggle, Play, Pause, StopClock
<1>3. CASE NextStep \/ PrevStep
  BY <1>3 DEF NextStep, PrevStep, GoTo, StopClock
<1>4. CASE Tick
  BY <1>4 DEF Tick
<1>5. CASE Hide \/ Show
  BY <1>5 DEF Hide, Show, StopClock, playerVars
<1>6. CASE Destroy \/ LateGoTo
  BY <1>6 DEF Destroy, LateGoTo
<1> QED
  BY <1>1, <1>2, <1>3, <1>4, <1>5, <1>6 DEF PlayerNext

\* Every event that starts or stops the clock sets or clears its timeout.
LEMMA ClockStep ==
    ASSUME PlayerTypeOK, ClockMatchesPlay, PlayerNext
    PROVE  ClockMatchesPlay'
<1> USE DEF PlayerTypeOK, ClockMatchesPlay
<1>0. ASSUME StopClock PROVE armed' = {} /\ ~playing'
  BY <1>0 DEF StopClock, ClearTimer
<1>1. ASSUME NEW i \in Targets, Mount(i) PROVE ClockMatchesPlay'
  BY <1>1 DEF Mount, FirstRender
<1>2. ASSUME NEW i \in Targets, Jump(i) PROVE ClockMatchesPlay'
  BY <1>0, <1>2 DEF Jump
<1>3. CASE Play
  BY <1>3 DEF Play, Schedule
<1>4. CASE Pause \/ NextStep \/ PrevStep
  BY <1>0, <1>4 DEF Pause, NextStep, PrevStep
<1>5. CASE Tick
  BY <1>5 DEF Tick
<1>6. CASE Hide \/ Show
  BY <1>0, <1>6 DEF Hide, Show, playerVars
<1>7. CASE Destroy \/ LateGoTo
  BY <1>0, <1>7 DEF Destroy, LateGoTo, ClearTimer
<1> QED
  BY <1>1, <1>2, <1>3, <1>4, <1>5, <1>6, <1>7 DEF PlayerNext, Toggle

--------------------------------------------------------------------------------
(* The wash *)

WashStepNext == WashNext \/ Paint \/ WashMount

\* Settling leaves no frame, so that nothing can move the wash.
LEMMA SettleKeeps ==
    ASSUME WashTypeOK, WashRests, Settle
    PROVE  frame' = 0 /\ frames' = {} /\ wash' = Rest /\ moved' = FALSE
  BY DEF WashRests, Settle, Reset

\* Taking the listeners off, if they are on, keeps types and rest.
LEMMA DetachKeeps ==
    ASSUME WashTypeOK, WashRests, Detach
    PROVE  /\ attached' \in BOOLEAN /\ frame' \in Nat /\ frames' \in SUBSET (Nat \ {0})
           /\ wash' \in -20..120 \cup {Rest} /\ moved' \in BOOLEAN
           /\ WashRests'
<1>1. CASE attached
  <2>1. Settle /\ attached' = FALSE
    BY <1>1 DEF Detach
  <2>2. frame' = 0 /\ frames' = {} /\ wash' = Rest /\ moved' = FALSE
    BY <2>1, SettleKeeps
  <2>3. WashRests'
    BY <2>2 DEF WashRests
  <2> QED
    BY <2>1, <2>2, <2>3
<1>2. CASE ~attached
  BY <1>2 DEF Detach, WashTypeOK, WashRests
<1> QED
  BY <1>1, <1>2

\* Applying the preference, in all its outcomes, keeps types and rest.
LEMMA ApplyKeeps ==
    ASSUME WashTypeOK, WashRests, NEW canHover \in BOOLEAN, Apply(canHover)
    PROVE  /\ attached' \in BOOLEAN /\ frame' \in Nat /\ frames' \in SUBSET (Nat \ {0})
           /\ wash' \in -20..120 \cup {Rest} /\ moved' \in BOOLEAN
           /\ WashRests'
<1>1. CASE Detach
  BY <1>1, DetachKeeps
<1>2. CASE Attach
  BY <1>2 DEF Attach, WashTypeOK, WashRests
<1> QED
  BY <1>1, <1>2 DEF Apply

\* Every event of the wash keeps its types, its one frame and its rest.
LEMMA WashStepKeeps ==
    ASSUME WashTypeOK, WashRests, WashStepNext
    PROVE  WashTypeOK' /\ WashRests'
<1>1. ASSUME NEW x \in Positions, PointerMove(x) PROVE WashTypeOK' /\ WashRests'
  BY <1>1, WashAssumption DEF PointerMove, WashTypeOK, WashRests
<1>2. CASE PointerLeave
  BY <1>2 DEF PointerLeave, Settle, Reset, WashTypeOK, WashRests
<1>3. CASE FlipPreference
  BY <1>3 DEF FlipPreference, WashTypeOK, WashRests
<1>4. CASE PreferenceChange
  <2>1. CASE washPhase = "live"
    <3>1. PICK canHover \in BOOLEAN : Apply(canHover)
      BY <1>4, <2>1 DEF PreferenceChange
    <3> QED
      BY <1>4, <3>1, ApplyKeeps DEF PreferenceChange, WashTypeOK
  <2>2. CASE washPhase # "live"
    BY <1>4, <2>2 DEF PreferenceChange, WashTypeOK, WashRests
  <2> QED
    BY <2>1, <2>2
<1>5. CASE WashDestroy
  BY <1>5, DetachKeeps DEF WashDestroy, WashTypeOK
<1>6. CASE Paint
  <2>1. PICK h \in frames :
          /\ frame' = 0 /\ frames' = frames \ {h}
          /\ wash' = Clamp(px) \/ wash' = wash
          /\ UNCHANGED <<washPhase, attached, px, reduce, flipped, moved>>
    BY <1>6 DEF Paint
  <2>2. Clamp(px) \in -20..120
    BY DEF Clamp, WashTypeOK
  <2>3. frames' = {}
    BY <2>1 DEF WashRests
  <2> QED
    BY <2>1, <2>2, <2>3 DEF WashTypeOK, WashRests
<1>7. CASE WashMount
  <2>1. PICK canHover \in BOOLEAN : Apply(canHover)
    BY <1>7 DEF WashMount
  <2> QED
    BY <1>7, <2>1, ApplyKeeps DEF WashMount, WashTypeOK
<1> QED
  BY <1>1, <1>2, <1>3, <1>4, <1>5, <1>6, <1>7 DEF WashStepNext, WashNext

--------------------------------------------------------------------------------
(* The theme *)

\* The toggle goes from a mode to a mode.
LEMMA FollowingMode ==
    ASSUME NEW mode \in Modes
    PROVE  Following(mode) \in Modes
<1> DEFINE order == <<"system", "light", "dark">>
           at == CHOOSE i \in 1..3 : order[i] = mode
<1>1. \E i \in 1..3 : order[i] = mode
  <2>1. order[1] = "system" /\ order[2] = "light" /\ order[3] = "dark"
    OBVIOUS
  <2> QED
    BY <2>1 DEF Modes
<1>2. at \in 1..3
  BY <1>1
<1>3. (at % 3) + 1 \in 1..3
  <2> HIDE DEF at
  <2> QED
    BY <1>2
<1>4. order[(at % 3) + 1] \in Modes
  <2> HIDE DEF at
  <2> QED
    BY <1>3 DEF Modes
<1> QED
  BY <1>4 DEF Following

\* What set stores is what restore will read.
LEMMA SetKeepsTrue ==
    ASSUME ThemeTypeOK, NEW mode \in Modes, Set(mode)
    PROVE  /\ theme' = mode /\ saved' \in Saved /\ own' \in BOOLEAN
           /\ own' => Restored(saved') = theme'
  BY DEF ThemeTypeOK, Set, Store, Restored, Modes, Saved

\* Every step of the theme keeps its types and its truth.
LEMMA ThemeStepKeeps ==
    ASSUME ThemeTypeOK, ThemeTrue, ThemeNext \/ AutoInit \/ ReloadTheme
    PROVE  ThemeTypeOK' /\ ThemeTrue'
<1>1. CASE ToggleTheme
  <2>1. Following(theme) \in Modes
    BY FollowingMode DEF ThemeTypeOK
  <2>2. Set(Following(theme))
    BY <1>1 DEF ToggleTheme
  <2>3. /\ theme' = Following(theme) /\ saved' \in Saved /\ own' \in BOOLEAN
        /\ own' => Restored(saved') = theme'
    BY <2>1, <2>2, SetKeepsTrue
  <2> QED
    BY <1>1, <2>1, <2>3 DEF ToggleTheme, ThemeTypeOK, ThemeTrue
<1>2. ASSUME NEW mode \in Modes, ScriptSet(mode) PROVE ThemeTypeOK' /\ ThemeTrue'
  <2>1. /\ theme' = mode /\ saved' \in Saved /\ own' \in BOOLEAN
        /\ own' => Restored(saved') = theme'
    BY <1>2, SetKeepsTrue DEF ScriptSet
  <2> QED
    BY <1>2, <2>1 DEF ScriptSet, ThemeTypeOK, ThemeTrue
<1>3. ASSUME NEW v \in {"light", "dark", "absent"}, OtherTab(v) PROVE ThemeTypeOK' /\ ThemeTrue'
  BY <1>3 DEF OtherTab, ThemeTypeOK, ThemeTrue, Saved
<1>4. CASE AutoInit
  BY <1>4 DEF AutoInit, ThemeTypeOK, ThemeTrue
<1>5. CASE ReloadTheme
  BY <1>5 DEF ReloadTheme, ThemeTypeOK, ThemeTrue, Restored, Modes
<1> QED
  BY <1>1, <1>2, <1>3, <1>4, <1>5 DEF ThemeNext

--------------------------------------------------------------------------------
(* The kit *)

KitInv == KitTypeOK /\ ShownIsCurrent /\ ClockMatchesPlay /\ WashRests /\ ThemeTrue

\* The kit starts with nothing mounted and the saved theme restored.
LEMMA KitInitial == KitInit => KitInv
<1> SUFFICES ASSUME KitInit PROVE KitInv
  OBVIOUS
<1>1. PlayerTypeOK /\ ShownIsCurrent /\ ClockMatchesPlay
  <2>1. ShownIsCurrent /\ ClockMatchesPlay
    BY DEF KitInit, PlayerInit, ShownIsCurrent, ClockMatchesPlay
  <2>2. 0 \in 0..LastStep /\ armed \in SUBSET (Nat \ {0})
    BY PlayerAssumption DEF KitInit, PlayerInit, LastStep
  <2> QED
    BY <2>1, <2>2 DEF KitInit, PlayerInit, PlayerTypeOK, View
<1>2. WashTypeOK /\ WashRests
  <2>1. frames \in SUBSET (Nat \ {0})
    BY DEF KitInit, WashInit
  <2>2. wash \in -20..120 \cup {Rest} /\ px \in Int /\ frame \in Nat
    BY DEF KitInit, WashInit
  <2>3. WashTypeOK
    BY <2>1, <2>2, Zenon DEF KitInit, WashInit, WashTypeOK
  <2>4. WashRests
    BY DEF KitInit, WashInit, WashRests
  <2> QED
    BY <2>3, <2>4
<1>3. ThemeTypeOK /\ ThemeTrue
  BY DEF KitInit, ThemeInit, ThemeTypeOK, ThemeTrue, Restored, Modes, Saved
<1> QED
  BY <1>1, <1>2, <1>3 DEF KitInv, KitTypeOK

\* A step of one part leaves the others alone.
LEMMA PlayerUntouched ==
    ASSUME KitInv, UNCHANGED <<playerVars, hidden>>
    PROVE  PlayerTypeOK' /\ ShownIsCurrent' /\ ClockMatchesPlay'
  BY DEF KitInv, KitTypeOK, playerVars, PlayerTypeOK, ShownIsCurrent, ClockMatchesPlay

LEMMA WashUntouched ==
    ASSUME KitInv, UNCHANGED washVars
    PROVE  WashTypeOK' /\ WashRests'
  BY DEF KitInv, KitTypeOK, washVars, WashTypeOK, WashRests

LEMMA ThemeUntouched ==
    ASSUME KitInv, UNCHANGED themeVars
    PROVE  ThemeTypeOK' /\ ThemeTrue'
  BY DEF KitInv, KitTypeOK, themeVars, ThemeTypeOK, ThemeTrue

\* Every step of the kit keeps the invariant of all three parts.
LEMMA KitInductive == KitInv /\ [KitNext]_kitVars => KitInv'
<1> SUFFICES ASSUME KitInv, [KitNext]_kitVars PROVE KitInv'
  OBVIOUS
<1>1. CASE PlayerStep
  BY <1>1, PlayerTypeStep, ShownStep, ClockStep, WashUntouched, ThemeUntouched
     DEF PlayerStep, KitInv, KitTypeOK
<1>2. CASE WashStep
  BY <1>2, WashStepKeeps, PlayerUntouched, ThemeUntouched
     DEF WashStep, WashStepNext, KitInv, KitTypeOK
<1>3. CASE ServeFrame
  BY <1>3, WashStepKeeps, PlayerUntouched, ThemeUntouched
     DEF ServeFrame, WashStepNext, KitInv, KitTypeOK
<1>4. CASE ThemeStep
  BY <1>4, ThemeStepKeeps, PlayerUntouched, WashUntouched
     DEF ThemeStep, KitInv, KitTypeOK
<1>5. CASE MountAll
  BY <1>5, ThemeStepKeeps, WashStepKeeps, PlayerUntouched
     DEF MountAll, WashStepNext, KitInv, KitTypeOK
<1>6. CASE Reload
  <2>1. PlayerTypeOK' /\ ShownIsCurrent' /\ ClockMatchesPlay'
    <3>1. ShownIsCurrent' /\ ClockMatchesPlay'
      BY <1>6 DEF Reload, ShownIsCurrent, ClockMatchesPlay
    <3>2. 0 \in 0..LastStep /\ armed' \in SUBSET (Nat \ {0})
      BY <1>6, PlayerAssumption DEF Reload, LastStep
    <3> QED
      BY <1>6, <3>1, <3>2 DEF Reload, KitInv, KitTypeOK, PlayerTypeOK, View
  <2>2. WashTypeOK' /\ WashRests'
    <3>1. frames' \in SUBSET (Nat \ {0})
      BY <1>6 DEF Reload
    <3>2. wash' \in -20..120 \cup {Rest} /\ px' \in Int /\ frame' \in Nat
      BY <1>6 DEF Reload
    <3>3. WashTypeOK'
      BY <1>6, <3>1, <3>2, Zenon DEF Reload, KitInv, KitTypeOK, WashTypeOK
    <3>4. WashRests'
      BY <1>6 DEF Reload, WashRests
    <3> QED
      BY <3>3, <3>4
  <2>3. ThemeTypeOK' /\ ThemeTrue'
    BY <1>6, ThemeStepKeeps DEF Reload, KitInv, KitTypeOK
  <2> QED
    BY <2>1, <2>2, <2>3 DEF KitInv, KitTypeOK
<1>7. CASE UNCHANGED kitVars
  BY <1>7, PlayerUntouched, WashUntouched, ThemeUntouched DEF kitVars, KitInv, KitTypeOK
<1> QED
  BY <1>1, <1>2, <1>3, <1>4, <1>5, <1>6, <1>7 DEF KitNext

LEMMA KitInvariant == KitSpec => []KitInv
  BY KitInitial, KitInductive, PTL DEF KitSpec

(***************************************************************************)
(* What the player shows is the step and the state it is in, for any       *)
(* number of steps and whatever the reader does.                           *)
(***************************************************************************)
THEOREM ShownCorrect == KitSpec => []ShownIsCurrent
<1>1. KitInv => ShownIsCurrent
  BY DEF KitInv
<1> QED
  BY <1>1, KitInvariant, PTL

(***************************************************************************)
(* A playing player has its one timeout pending, any other player none.    *)
(***************************************************************************)
THEOREM ClockCorrect == KitSpec => []ClockMatchesPlay
<1>1. KitInv => ClockMatchesPlay
  BY DEF KitInv
<1> QED
  BY <1>1, KitInvariant, PTL

(***************************************************************************)
(* Late frames never move the wash from its rest, for any positions.       *)
(***************************************************************************)
THEOREM WashCorrect == KitSpec => []WashRests
<1>1. KitInv => WashRests
  BY DEF KitInv
<1> QED
  BY <1>1, KitInvariant, PTL

(***************************************************************************)
(* The saved theme, the theme of the page and the word on the toggle agree *)
(* wherever the code can make them.                                        *)
(***************************************************************************)
THEOREM ThemeCorrect == KitSpec => []ThemeTrue
<1>1. KitInv => ThemeTrue
  BY DEF KitInv
<1> QED
  BY <1>1, KitInvariant, PTL

================================================================================
