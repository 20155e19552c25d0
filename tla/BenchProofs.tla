----------------------------- MODULE BenchProofs -----------------------------
(***************************************************************************)
(* The load harness for any number of clients, requests and repeats, and   *)
(* its percentiles for samples of every size.                              *)
(***************************************************************************)
EXTENDS Bench, FiniteSetTheorems, SequenceTheorems, WellFoundedInduction, TLAPS

\* Nobody is released before t0 is read; who records has been released; before
\* the first dial there is no connection.
TimedInv ==
    /\ client \in [Clients -> {"none", "warmup", "parked", "measured", "finished"}]
    /\ lat \in [Clients -> Nat]
    /\ harness = "timed" => timing
    /\ started => timing
    /\ TimedFromT0

ConnInv ==
    /\ conn \in [Clients -> {"none", "open", "closed"}]
    /\ harness = "populate" => \A c \in Clients : conn[c] = "none"
    /\ NoConnLeft

\* It holds at the start.
LEMMA BenchInitial ==
    ASSUME Init
    PROVE  TimedInv /\ ConnInv
  BY DEF Init, TimedInv, ConnInv, TimedFromT0, NoConnLeft

\* A latency is recorded only by a client that was released.
LEMMA RecordFacts ==
    ASSUME TimedInv, NEW c \in Clients, Record(c) \/ UNCHANGED lat
    PROVE  /\ lat' \in [Clients -> Nat]
           /\ \A d \in Clients : lat'[d] > 0 => timing
<1>1. /\ lat \in [Clients -> Nat] /\ \A d \in Clients : client[d] = "measured" \/ lat[d] > 0 => timing
  BY DEF TimedInv, TimedFromT0
<1>2. CASE UNCHANGED lat
  BY <1>1, <1>2
<1>3. CASE client[c] = "measured" /\ lat' = [lat EXCEPT ![c] = @ + 1]
  BY <1>1, <1>3
<1> QED
  BY <1>2, <1>3 DEF Record

\* The steps of a client keep both parts.
LEMMA ClientInductive ==
    ASSUME TimedInv, ConnInv, NEW c \in Clients, ClientStep(c)
    PROVE  TimedInv' /\ ConnInv'
<1>1. UNCHANGED <<harness, conn, timing, started>>
  BY DEF ClientStep, Request, RequestFails, Park, Release, Finish
<1>2. ConnInv'
  BY <1>1 DEF ConnInv, NoConnLeft
<1>3. lat' \in [Clients -> Nat] /\ \A d \in Clients : lat'[d] > 0 => timing
  BY RecordFacts DEF ClientStep, Request, RequestFails, Park, Release, Finish
<1>4. client' \in [Clients -> {"none", "warmup", "parked", "measured", "finished"}]
  BY DEF ClientStep, Request, RequestFails, Park, Release, Finish, TimedInv
<1>5. \A d \in Clients : client'[d] = "measured" => timing
  <2>1. CASE Release(c)
    BY <2>1 DEF Release, TimedInv
  <2>2. CASE ~Release(c)
    BY <2>2 DEF ClientStep, Request, RequestFails, Park, Finish, TimedInv, TimedFromT0
  <2> QED
    BY <2>1, <2>2
<1> QED
  BY <1>1, <1>2, <1>3, <1>4, <1>5 DEF TimedInv, TimedFromT0

\* The steps of populate, repeat and measure keep both parts.
LEMMA HarnessInductive ==
    ASSUME TimedInv, ConnInv, HarnessStep
    PROVE  TimedInv' /\ ConnInv'
<1> USE DEF TimedInv, ConnInv, TimedFromT0, NoConnLeft
<1>1. CASE PopulateOk \/ PopulateFail \/ AllDone \/ RepeatDone
  BY <1>1 DEF PopulateOk, PopulateFail, AllDone, RepeatDone, cellVars
<1>2. CASE \E c \in Clients : DialOk(c)
  BY <1>2 DEF DialOk
<1>3. CASE DialFail \/ CollectFail \/ CollectOk
  BY <1>3 DEF DialFail, CollectFail, CollectOk, CloseAll
<1>4. CASE Spawn
  BY <1>4 DEF Spawn
<1>5. CASE ReadClock \/ Start
  BY <1>5 DEF ReadClock, Start
<1>6. CASE Repeat
  BY <1>6 DEF Repeat, Afresh
<1> QED
  BY <1>1, <1>2, <1>3, <1>4, <1>5, <1>6 DEF HarnessStep

\* Both parts hold in every reachable state.
LEMMA BenchInvariant == Spec => [](TimedInv /\ ConnInv)
<1>1. Init => TimedInv /\ ConnInv
  BY BenchInitial
<1>2. TimedInv /\ ConnInv /\ [Next]_vars => TimedInv' /\ ConnInv'
  <2> SUFFICES ASSUME TimedInv, ConnInv, [Next]_vars PROVE TimedInv' /\ ConnInv'
    OBVIOUS
  <2>1. CASE UNCHANGED vars
    BY <2>1 DEF vars, TimedInv, ConnInv, TimedFromT0, NoConnLeft
  <2> QED
    BY <2>1, ClientInductive, HarnessInductive DEF Next
<1> QED
  BY <1>1, <1>2, PTL DEF Spec

(***************************************************************************)
(* In measure no latency is recorded before t0 is read, whatever the       *)
(* number of clients and however long their warmups take.                  *)
(***************************************************************************)
THEOREM TimedCorrect == Spec => []TimedFromT0
  BY BenchInvariant, PTL DEF TimedInv

(***************************************************************************)
(* measure leaves no connection open when it returns, in every repeat and  *)
(* however it ends.                                                        *)
(***************************************************************************)
THEOREM ConnCorrect == Spec => []NoConnLeft
  BY BenchInvariant, PTL DEF ConnInv

(***************************************************************************)
(* What pct picks, for samples of every size and not only up to the bound  *)
(* of the run: the nearest rank, or the one above it when p percent of the *)
(* sample is a whole number.                                               *)
(***************************************************************************)
THEOREM PctCorrect == (\A n \in Nat \ {0} : PctSound(n)) /\ PctWithinOneRank
<1>1. ASSUME NEW n \in Nat \ {0} PROVE PctSound(n)
  <2> DEFINE i(p) == (p * n) \div 100
  <2>1. /\ 100 * i(50) <= 50 * n /\ 50 * n < 100 * (i(50) + 1) /\ i(50) \in Int
        /\ 100 * i(90) <= 90 * n /\ 90 * n < 100 * (i(90) + 1) /\ i(90) \in Int
        /\ 100 * i(99) <= 99 * n /\ 99 * n < 100 * (i(99) + 1) /\ i(99) \in Int
    OBVIOUS
  <2>2. PctIndex(50, n) = i(50) /\ PctIndex(90, n) = i(90) /\ PctIndex(99, n) = i(99)
    BY <2>1 DEF PctIndex
  <2>3. \A p \in Percentiles : (p * n) % 100 = 0 <=> 100 * i(p) = p * n
    BY DEF Percentiles
  <2> HIDE DEF i
  <2>4. ASSUME NEW p \in Percentiles
        PROVE  LET j == PctIndex(p, n)
               IN  j \in 0 .. n - 1 /\ NearestRank(IF (p * n) % 100 = 0 THEN j - 1 ELSE j, p, n)
    <3>1. /\ PctIndex(p, n) = i(p) /\ i(p) \in Int /\ p * n \in Nat
          /\ 100 * i(p) <= p * n /\ p * n < 100 * (i(p) + 1)
          /\ 0 < p * n /\ p * n < 100 * n
      BY <2>1, <2>2 DEF Percentiles
    <3>2. i(p) \in 0 .. n - 1
      BY <3>1
    <3>3. CASE (p * n) % 100 = 0
      BY <2>3, <3>1, <3>2, <3>3 DEF NearestRank
    <3>4. CASE (p * n) % 100 # 0
      BY <2>3, <3>1, <3>2, <3>4 DEF NearestRank
    <3> QED
      BY <3>3, <3>4
  <2>5. /\ PctIndex(50, n) <= PctIndex(90, n)
        /\ PctIndex(90, n) <= PctIndex(99, n) /\ PctIndex(99, n) <= MaxIndex(n)
    BY <2>1, <2>2 DEF MaxIndex
  <2> QED
    BY <2>4, <2>5 DEF PctSound
<1>2. PctWithinOneRank
  BY <1>1, BenchAssumption DEF PctWithinOneRank
<1> QED
  BY <1>1, <1>2

--------------------------------------------------------------------------------
(* The sample that CollectOk makes of the latencies. *)

\* A set of naturals that is not empty has a least element: induction over
\* data, in a form that asks for no operator.
LEMMA NatLeast ==
    ASSUME NEW T, T \subseteq Nat, T # {}
    PROVE  \E n \in T : \A m \in T : n <= m
<1> DEFINE R == {ss \in Nat \X Nat : ss[1] < ss[2]}
<1>1. IsWellFoundedOn(R, Nat)
  BY NatLessThanWellFounded DEF OpToRel
<1> HIDE DEF R
<1>2. \E n \in T : \A m \in T : ~ (<<m, n>> \in R)
  BY <1>1, WFMin
<1>3. \A m, n \in Nat : <<m, n>> \in R <=> m < n
  BY DEF R
<1>4. PICK n \in T : \A m \in T : ~ (<<m, n>> \in R)
  BY <1>2
<1>5. \A m \in T : n <= m
  <2> TAKE m \in T
  <2>1. m \in Nat /\ n \in Nat
    OBVIOUS
  <2>2. ~(m < n)
    BY <1>3, <1>4, <2>1
  <2> QED
    BY <2>1, <2>2
<1> QED
  BY <1>5

\* The function by which the sum is computed, one client after the other.
SumDef(g) ==
    g = [s \in SUBSET Clients |->
            IF s = {} THEN 0
            ELSE LET x == CHOOSE x \in s : TRUE IN lat[x] + g[s \ {x}]]

\* The sum reads off its value for all clients.
LEMMA SumUnfold == MapThenSumSet(LAMBDA c : lat[c], Clients) = (CHOOSE g : SumDef(g))[Clients]
  BY DEF MapThenSumSet, MapThenFoldSet, SumDef

\* One client less.
LEMMA OneLess ==
    ASSUME NEW s \in SUBSET Clients, s # {}
    PROVE  LET x == CHOOSE x \in s : TRUE
           IN  /\ x \in s /\ x \in Clients /\ s \ {x} \in SUBSET Clients
               /\ Cardinality(s) \in Nat /\ Cardinality(s \ {x}) \in Nat
               /\ Cardinality(s) = Cardinality(s \ {x}) + 1
<1> DEFINE x == CHOOSE x \in s : TRUE
<1>1. x \in s
  OBVIOUS
<1> HIDE DEF x
<1>2. IsFiniteSet(s)
  BY BenchAssumption, FS_Subset
<1>3. IsFiniteSet(s \ {x}) /\ Cardinality(s \ {x}) = Cardinality(s) - 1
  BY <1>1, <1>2, FS_RemoveElement
<1>4. Cardinality(s) \in Nat /\ Cardinality(s \ {x}) \in Nat
  BY <1>2, <1>3, FS_CardinalityType
<1>5. Cardinality(s) = Cardinality(s \ {x}) + 1
  BY <1>3, <1>4
<1> QED
  BY <1>1, <1>4, <1>5 DEF x

\* Equal latencies add up to their product with the number of the clients.
LEMMA SumEqual ==
    ASSUME \A c \in Clients : lat[c] = Ops
    PROVE  MapThenSumSet(LAMBDA c : lat[c], Clients) = Ops * Cardinality(Clients)
<1>1. Ops \in Nat
  BY BenchAssumption
<1>2. Cardinality({}) = 0
  BY FS_EmptySet
<1>3. \A n \in Nat : Ops + Ops * n = Ops * (n + 1)
  BY <1>1
<1>4. Ops * 0 = 0
  BY <1>1
<1>5. SumDef([s \in SUBSET Clients |-> Ops * Cardinality(s)])
  <2> DEFINE h == [s \in SUBSET Clients |-> Ops * Cardinality(s)]
  <2>1. ASSUME NEW s \in SUBSET Clients
        PROVE  h[s] = IF s = {} THEN 0 ELSE LET x == CHOOSE x \in s : TRUE IN lat[x] + h[s \ {x}]
    <3>1. CASE s = {}
      BY <1>2, <1>4, <3>1
    <3>2. CASE s # {}
      <4> DEFINE x == CHOOSE x \in s : TRUE
      <4>1. /\ x \in Clients /\ s \ {x} \in SUBSET Clients
            /\ Cardinality(s \ {x}) \in Nat /\ Cardinality(s) = Cardinality(s \ {x}) + 1
        BY <3>2, OneLess
      <4>2. lat[x] + h[s \ {x}] = Ops + Ops * Cardinality(s \ {x})
        BY <4>1
      <4> HIDE DEF x
      <4>3. h[s] = lat[x] + h[s \ {x}]
        BY <1>3, <4>1, <4>2
      <4> QED
        BY <3>2, <4>3 DEF x
    <3> QED
      BY <3>1, <3>2
  <2> QED
    BY <2>1 DEF SumDef
<1>6. PICK g : SumDef(g) /\ MapThenSumSet(LAMBDA c : lat[c], Clients) = g[Clients]
  <2>1. SumDef(CHOOSE g : SumDef(g))
    BY <1>5
  <2> QED
    BY <2>1, SumUnfold
<1> DEFINE Bad == {n \in Nat : \E s \in SUBSET Clients : Cardinality(s) = n /\ g[s] # Ops * n}
<1>7. Bad = {}
  <2> SUFFICES ASSUME Bad # {} PROVE FALSE
    OBVIOUS
  <2>1. PICK n \in Bad : \A m \in Bad : n <= m
    BY NatLeast
  <2>2. PICK s \in SUBSET Clients : Cardinality(s) = n /\ g[s] # Ops * n
    OBVIOUS
  <2>3. CASE s = {}
    <3>1. g[s] = 0
      BY <1>6, <2>3 DEF SumDef
    <3> QED
      BY <1>2, <1>4, <2>2, <2>3, <3>1
  <2>4. CASE s # {}
    <3> DEFINE x == CHOOSE x \in s : TRUE
    <3>1. /\ x \in Clients /\ s \ {x} \in SUBSET Clients
          /\ Cardinality(s \ {x}) \in Nat /\ Cardinality(s) = Cardinality(s \ {x}) + 1
      BY <2>4, OneLess
    <3>2. g[s] = lat[x] + g[s \ {x}]
      BY <1>6, <2>4 DEF SumDef
    <3> HIDE DEF x
    <3>3. Cardinality(s \ {x}) \notin Bad
      <4>1. n \in Nat /\ n = Cardinality(s \ {x}) + 1
        BY <2>2, <3>1
      <4>2. ~(n <= Cardinality(s \ {x}))
        BY <3>1, <4>1
      <4> HIDE DEF Bad
      <4> QED
        BY <2>1, <4>2
    <3>4. g[s \ {x}] = Ops * Cardinality(s \ {x})
      BY <3>1, <3>3
    <3> QED
      BY <1>3, <2>2, <3>1, <3>2, <3>4
  <2> QED
    BY <2>3, <2>4
<1>8. Cardinality(Clients) \in Nat
  BY BenchAssumption, FS_CardinalityType
<1>9. g[Clients] = Ops * Cardinality(Clients)
  BY <1>7, <1>8
<1> QED
  BY <1>6, <1>9

\* What a client has recorded follows from where it is; the sample is taken
\* when all have finished.
SampleInv ==
    /\ client \in [Clients -> {"none", "warmup", "parked", "measured", "finished"}]
    /\ left \in [Clients -> Nat] /\ lat \in [Clients -> Nat] /\ failed \in [Clients -> BOOLEAN]
    /\ results \in Seq(Nat)
    /\ \A c \in Clients :
          /\ client[c] \in {"none", "warmup", "parked"} => lat[c] = 0
          /\ client[c] = "measured" => lat[c] + left[c] = Ops
          /\ client[c] = "finished" => lat[c] = Ops \/ failed[c]
    /\ harness \in {"populate", "dial"} => \A c \in Clients : client[c] = "none"
    /\ harness = "collect" => \A c \in Clients : client[c] = "finished"
    /\ SampleComplete

\* It holds at the start.
LEMMA SampleInitial == Init => SampleInv
<1>1. <<>> \in Seq(Nat) /\ DOMAIN <<>> = {}
  BY EmptySeq
<1> QED
  BY <1>1 DEF Init, SampleInv, SampleComplete

\* A client of measure records one latency for each request of its measured loop.
LEMMA SampleClient ==
    ASSUME SampleInv, NEW c \in Clients, ClientStep(c)
    PROVE  SampleInv'
<1> USE BenchAssumption DEF SampleInv
<1>1. harness' = harness /\ results' = results
  BY DEF ClientStep, Request, RequestFails, Park, Release, Finish
<1>2. SampleComplete'
  BY <1>1 DEF SampleComplete
<1>3. client[c] \notin {"none", "finished"}
  BY DEF ClientStep, Request, RequestFails, Park, Release, Finish, InLoop
<1>4. harness \notin {"populate", "dial", "collect"}
  BY <1>3
<1>5. CASE Request(c)
  <2>1. CASE client[c] = "measured"
    <3>1. /\ lat' = [lat EXCEPT ![c] = lat[c] + 1] /\ left' = [left EXCEPT ![c] = left[c] - 1]
          /\ client' = client /\ failed' = failed /\ left[c] > 0
      BY <1>5, <2>1 DEF Request, InLoop, Record
    <3>2. lat[c] \in Nat /\ left[c] \in Nat /\ lat[c] + left[c] = Ops
      BY <2>1
    <3>3. lat'[c] + left'[c] = Ops /\ lat' \in [Clients -> Nat] /\ left' \in [Clients -> Nat]
      BY <3>1, <3>2
    <3>4. \A d \in Clients \ {c} : lat'[d] = lat[d] /\ left'[d] = left[d]
      BY <3>1
    <3> QED
      BY <1>1, <1>2, <1>4, <2>1, <3>1, <3>3, <3>4
  <2>2. CASE client[c] # "measured"
    BY <1>1, <1>2, <1>4, <1>5, <2>2 DEF Request, InLoop, Record
  <2> QED
    BY <2>1, <2>2
<1>6. CASE RequestFails(c)
  <2>1. lat' \in [Clients -> Nat] /\ \A d \in Clients \ {c} : lat'[d] = lat[d]
    <3>1. lat' = lat \/ lat' = [lat EXCEPT ![c] = lat[c] + 1]
      BY <1>6 DEF RequestFails, Record
    <3>2. lat \in [Clients -> Nat] /\ lat[c] \in Nat
      OBVIOUS
    <3>3. CASE lat' = lat
      BY <3>2, <3>3
    <3>4. CASE lat' = [lat EXCEPT ![c] = lat[c] + 1]
      BY <3>2, <3>4
    <3> QED
      BY <3>1, <3>3, <3>4
  <2> QED
    BY <1>1, <1>2, <1>4, <1>6, <2>1 DEF RequestFails
<1>7. CASE Park(c)
  BY <1>1, <1>2, <1>4, <1>7 DEF Park
<1>8. CASE Release(c)
  BY <1>1, <1>2, <1>4, <1>8 DEF Release
<1>9. CASE Finish(c)
  BY <1>1, <1>2, <1>4, <1>9 DEF Finish
<1> QED
  BY <1>5, <1>6, <1>7, <1>8, <1>9 DEF ClientStep

\* The steps of the harness; CollectOk adds a complete sample.
LEMMA SampleHarness ==
    ASSUME SampleInv, HarnessStep
    PROVE  SampleInv'
<1>1. CASE ~CollectOk /\ ~Repeat
  <2>1. results' = results /\ lat' = lat /\ failed' = failed
    BY <1>1 DEF HarnessStep, PopulateOk, PopulateFail, AllDone, RepeatDone, cellVars, DialOk, DialFail, CollectFail,
                Spawn, ReadClock, Start
  <2>2. SampleComplete'
    BY <2>1 DEF SampleInv, SampleComplete
  <2>3. CASE Spawn
    BY <2>1, <2>2, <2>3, BenchAssumption DEF Spawn, SampleInv
  <2>4. CASE ~Spawn
    <3>1. client' = client /\ left' = left
      BY <1>1, <2>4 DEF HarnessStep, PopulateOk, PopulateFail, AllDone, RepeatDone, cellVars, DialOk, DialFail, CollectFail,
                ReadClock, Start
    <3>2. harness' \in {"populate", "dial"} => harness \in {"populate", "dial"}
      BY <1>1, <2>4 DEF HarnessStep, PopulateOk, PopulateFail, AllDone, RepeatDone, DialOk, DialFail, CollectFail,
                ReadClock, Start
    <3>3. harness' = "collect" => \A c \in Clients : client[c] = "finished"
      BY <1>1, <2>4 DEF HarnessStep, PopulateOk, PopulateFail, AllDone, RepeatDone, DialOk, DialFail, CollectFail,
                ReadClock, Start
    <3> QED
      BY <2>1, <2>2, <3>1, <3>2, <3>3 DEF SampleInv
  <2> QED
    BY <2>3, <2>4
<1>2. CASE CollectOk
  <2> DEFINE sum == MapThenSumSet(LAMBDA c : lat[c], Clients)
  <2>1. \A c \in Clients : lat[c] = Ops
    BY <1>2 DEF CollectOk, Healthy, SampleInv
  <2>2. sum = Ops * Cardinality(Clients)
    BY <2>1, SumEqual
  <2>3. results' = Append(results, sum)
    BY <1>2 DEF CollectOk
  <2> HIDE DEF sum
  <2>4. Ops * Cardinality(Clients) \in Nat
    BY BenchAssumption, FS_CardinalityType
  <2>5. results' \in Seq(Nat) /\ SampleComplete'
    <3>1. results \in Seq(Nat) /\ \A i \in 1..Len(results) : results[i] = Ops * Cardinality(Clients)
      BY DEF SampleInv, SampleComplete
    <3>2. /\ results' \in Seq(Nat) /\ Len(results') = Len(results) + 1
          /\ \A i \in 1..Len(results) : results'[i] = results[i]
          /\ results'[Len(results) + 1] = sum
      BY <2>2, <2>3, <2>4, <3>1, AppendProperties
    <3>3. \A i \in 1..(Len(results) + 1) : results'[i] = Ops * Cardinality(Clients)
      BY <2>2, <3>1, <3>2
    <3> QED
      BY <3>2, <3>3 DEF SampleComplete
  <2> QED
    BY <1>2, <2>5 DEF CollectOk, SampleInv
<1>3. CASE Repeat
  BY <1>3 DEF Repeat, Afresh, SampleInv, SampleComplete
<1> QED
  BY <1>1, <1>2, <1>3

(***************************************************************************)
(* Every sample that measure returns holds Ops latencies of each client,   *)
(* whatever the number of clients, requests and repeats.                   *)
(***************************************************************************)
THEOREM SampleCorrect == Spec => []SampleComplete
<1>1. Init => SampleInv
  BY SampleInitial
<1>2. SampleInv /\ [Next]_vars => SampleInv'
  <2> SUFFICES ASSUME SampleInv, [Next]_vars PROVE SampleInv'
    OBVIOUS
  <2>1. CASE UNCHANGED vars
    BY <2>1 DEF vars, SampleInv, SampleComplete
  <2> QED
    BY <2>1, SampleClient, SampleHarness DEF Next
<1>3. SampleInv => SampleComplete
  BY DEF SampleInv
<1> QED
  BY <1>1, <1>2, <1>3, PTL DEF Spec

================================================================================
