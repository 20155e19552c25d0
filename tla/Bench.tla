---------------------------------- MODULE Bench ----------------------------------
(***************************************************************************)
(* bench/main.go: one cell of the load harness.  populate fills the store, *)
(* then repeat calls measure Runs times; measure dials the clients, lets   *)
(* them warm up, releases them together through the channel start, waits   *)
(* for all of them and collects their latencies.  Any error ends the       *)
(* program.  The server is the environment: it may fail at any request.    *)
(***************************************************************************)
EXTENDS Naturals, Sequences, FiniteSets, FiniteSetsExt

CONSTANTS
    Clients,
    Warmup,    \* unmeasured requests per client
    Ops,       \* measured requests per client
    Runs,      \* repeats per cell
    MaxSample  \* bound on the sizes for which the percentiles are checked

ASSUME BenchAssumption ==
    /\ IsFiniteSet(Clients) /\ Warmup \in Nat /\ Ops \in Nat /\ Runs \in Nat \ {0}
    /\ MaxSample \in Nat

VARIABLES
    harness,   \* where main, repeat and measure are
    conn,      \* the connection of each client: "none", "open" or "closed"
    client,    \* where the goroutine of each client is
    left,      \* requests it has yet to make in its loop
    lat,       \* how many latencies it has recorded
    failed,    \* errs[i] is not nil
    timing,    \* t0 has been read
    started,   \* start is closed
    results    \* the sample sizes that repeat has collected

vars == <<harness, conn, client, left, lat, failed, timing, started, results>>
cellVars == <<conn, client, left, lat, failed, timing, started>>

TypeOK ==
    /\ harness \in {"populate", "dial", "sleep", "timed", "wait", "collect", "returned", "done", "exit"}
    /\ conn \in [Clients -> {"none", "open", "closed"}]
    /\ client \in [Clients -> {"none", "warmup", "parked", "measured", "finished"}]
    /\ left \in [Clients -> 0..(Warmup + Ops)]
    /\ lat \in [Clients -> 0..Ops]
    /\ failed \in [Clients -> BOOLEAN]
    /\ timing \in BOOLEAN
    /\ started \in BOOLEAN
    /\ results \in Seq(Nat) /\ Len(results) <= Runs

Init ==
    /\ harness = "populate" /\ results = <<>>
    /\ conn = [c \in Clients |-> "none"]
    /\ client = [c \in Clients |-> "none"]
    /\ left = [c \in Clients |-> 0]
    /\ lat = [c \in Clients |-> 0]
    /\ failed = [c \in Clients |-> FALSE]
    /\ timing = FALSE /\ started = FALSE

\* measure begins again with new locals.
Afresh ==
    /\ conn' = [c \in Clients |-> "none"]
    /\ client' = [c \in Clients |-> "none"]
    /\ left' = [c \in Clients |-> 0]
    /\ lat' = [c \in Clients |-> 0]
    /\ failed' = [c \in Clients |-> FALSE]
    /\ timing' = FALSE /\ started' = FALSE

\* fail: os.Exit ends the program.
PopulateOk   == harness = "populate" /\ harness' = "dial" /\ UNCHANGED <<cellVars, results>>
PopulateFail == harness = "populate" /\ harness' = "exit" /\ UNCHANGED <<cellVars, results>>

--------------------------------------------------------------------------------
(* measure. *)

\* closeAll skips the clients that were never dialed.
CloseAll == conn' = [c \in Clients |-> IF conn[c] = "open" THEN "closed" ELSE conn[c]]

DialOk(c) ==
    /\ harness = "dial" /\ conn[c] = "none"
    /\ conn' = [conn EXCEPT ![c] = "open"]
    /\ UNCHANGED <<harness, client, left, lat, failed, timing, started, results>>

\* Mutant of DialFail: the clients dialed so far stay connected.
DialFailLeaks ==
    /\ harness = "dial" /\ \E c \in Clients : conn[c] = "none"
    /\ harness' = "exit"
    /\ UNCHANGED <<cellVars, results>>

DialFail ==
    /\ harness = "dial" /\ \E c \in Clients : conn[c] = "none"
    /\ harness' = "exit"
    /\ CloseAll
    /\ UNCHANGED <<client, left, lat, failed, timing, started, results>>

\* One goroutine per client; it begins with its warmup.
Spawn ==
    /\ harness = "dial" /\ \A c \in Clients : conn[c] = "open"
    /\ harness' = "sleep"
    /\ client' = [c \in Clients |-> "warmup"]
    /\ left' = [c \in Clients |-> Warmup]
    /\ UNCHANGED <<conn, lat, failed, timing, started, results>>

\* Mutant of ReadClock: start is closed before the clock is read.
StartFirst ==
    /\ harness = "sleep" /\ ~started
    /\ started' = TRUE
    /\ UNCHANGED <<harness, conn, client, left, lat, failed, timing, results>>

\* The sleep of 100 ms is over: t0 := nanos()
ReadClock ==
    /\ harness = "sleep"
    /\ harness' = "timed"
    /\ timing' = TRUE
    /\ UNCHANGED <<conn, client, left, lat, failed, started, results>>

\* close(start)
Start ==
    /\ harness = "timed"
    /\ harness' = "wait"
    /\ started' = TRUE
    /\ UNCHANGED <<conn, client, left, lat, failed, timing, results>>

\* wg.Wait() returns.
AllDone ==
    /\ harness = "wait" /\ \A c \in Clients : client[c] = "finished"
    /\ harness' = "collect"
    /\ UNCHANGED <<cellVars, results>>

\* The first error is returned and ends the program.
CollectFail ==
    /\ harness = "collect" /\ \E c \in Clients : failed[c]
    /\ harness' = "exit"
    /\ CloseAll
    /\ UNCHANGED <<client, left, lat, failed, timing, started, results>>

\* Mutant of Healthy: the errors are not looked at.
HealthyAlways == TRUE

Healthy == \A c \in Clients : ~failed[c]

\* All latencies make one sample; measure returns it, with the deferred closeAll.
CollectOk ==
    /\ harness = "collect" /\ Healthy
    /\ harness' = "returned"
    /\ results' = Append(results, MapThenSumSet(LAMBDA c : lat[c], Clients))
    /\ CloseAll
    /\ UNCHANGED <<client, left, lat, failed, timing, started>>

\* repeat calls measure again, or has all its results.
Repeat     == harness = "returned" /\ Len(results) < Runs /\ harness' = "dial" /\ Afresh /\ UNCHANGED results
RepeatDone == harness = "returned" /\ Len(results) >= Runs /\ harness' = "done" /\ UNCHANGED <<cellVars, results>>

--------------------------------------------------------------------------------
(* The goroutine of a client: run(warmup, false), then run(ops, true). *)

Record(c) == IF client[c] = "measured" THEN lat' = [lat EXCEPT ![c] = @ + 1] ELSE UNCHANGED lat

InLoop(c) == client[c] \in {"warmup", "measured"} /\ left[c] > 0

\* A request and its reply.
Request(c) ==
    /\ InLoop(c)
    /\ left' = [left EXCEPT ![c] = @ - 1]
    /\ Record(c)
    /\ UNCHANGED <<harness, conn, client, failed, timing, started, results>>

\* Mutant of RequestFails: the goroutine leaves without wg.Done.
RequestHangs(c) ==
    /\ InLoop(c)
    /\ client' = [client EXCEPT ![c] = "none"]
    /\ failed' = [failed EXCEPT ![c] = TRUE]
    /\ UNCHANGED <<harness, conn, left, lat, timing, started, results>>

\* A read or write fails, or the reply is an error or a miss; the latency of a
\* bad reply has been recorded by then.
RequestFails(c) ==
    /\ InLoop(c)
    /\ Record(c) \/ UNCHANGED lat
    /\ client' = [client EXCEPT ![c] = "finished"]
    /\ failed' = [failed EXCEPT ![c] = TRUE]
    /\ UNCHANGED <<harness, conn, left, timing, started, results>>

\* The warmup is over; <-start
Park(c) ==
    /\ client[c] = "warmup" /\ left[c] = 0
    /\ client' = [client EXCEPT ![c] = "parked"]
    /\ UNCHANGED <<harness, conn, left, lat, failed, timing, started, results>>

Release(c) ==
    /\ client[c] = "parked" /\ started
    /\ client' = [client EXCEPT ![c] = "measured"]
    /\ left' = [left EXCEPT ![c] = Ops]
    /\ UNCHANGED <<harness, conn, lat, failed, timing, started, results>>

Finish(c) ==
    /\ client[c] = "measured" /\ left[c] = 0
    /\ client' = [client EXCEPT ![c] = "finished"]
    /\ UNCHANGED <<harness, conn, left, lat, failed, timing, started, results>>

--------------------------------------------------------------------------------
(* The statistics of a result: indices into its n latencies, sorted, from 0. *)

\* What main prints of the median result.
Percentiles == {50, 90, 99}

\* Mutant of PctIndex: the rank is taken for an index.
PctIndexRank(p, n) == IF (p * n) % 100 = 0 THEN (p * n) \div 100 ELSE (p * n) \div 100 + 1

\* pct: the product is truncated, and kept below the length.
PctIndex(p, n) == LET i == (p * n) \div 100 IN IF i >= n THEN n - 1 ELSE i

MaxIndex(n) == n - 1

--------------------------------------------------------------------------------

HarnessStep ==
    \/ PopulateOk \/ PopulateFail \/ (\E c \in Clients : DialOk(c)) \/ DialFail \/ Spawn
    \/ ReadClock \/ Start \/ AllDone \/ CollectFail \/ CollectOk \/ Repeat \/ RepeatDone

ClientStep(c) == Request(c) \/ RequestFails(c) \/ Park(c) \/ Release(c) \/ Finish(c)

Next == HarnessStep \/ \E c \in Clients : ClientStep(c)

Spec == Init /\ [][Next]_vars

\* Goroutines run when they can, and the server answers or drops a request.
FairSpec == Spec /\ WF_vars(HarnessStep) /\ \A c \in Clients : WF_vars(ClientStep(c))

--------------------------------------------------------------------------------

(***************************************************************************)
(* A sample that counts is complete: it holds the latency of every request *)
(* of the measured phase of every client, however the clients raced.       *)
(***************************************************************************)
SampleComplete == \A i \in DOMAIN results : results[i] = Ops * Cardinality(Clients)

(***************************************************************************)
(* No latency is recorded before t0 is read: the elapsed time that the     *)
(* throughput is computed from covers every measured request.              *)
(***************************************************************************)
TimedFromT0 == \A c \in Clients : client[c] = "measured" \/ lat[c] > 0 => timing

(***************************************************************************)
(* measure never leaves a connection to the server open: not when it       *)
(* returns a sample, so the repeats do not pile up clients, and not when   *)
(* it fails, a failed dial halfway through the clients included.           *)
(***************************************************************************)
NoConnLeft == harness \in {"returned", "exit", "done"} => \A c \in Clients : conn[c] # "open"

(***************************************************************************)
(* The harness ends: a client that fails in its warmup neither blocks the  *)
(* others on start nor leaves wg.Wait waiting.                             *)
(***************************************************************************)
HarnessEnds == <>(harness \in {"exit", "done"})

\* Index i is the nearest rank: the least one with p percent of the n latencies
\* up to it.
NearestRank(i, p, n) == 100 * (i + 1) >= p * n /\ 100 * i < p * n

\* The figures of a sample of n latencies.
PctSound(n) ==
    /\ \A p \in Percentiles :
          LET i == PctIndex(p, n)
          IN  i \in 0 .. n - 1 /\ NearestRank(IF (p * n) % 100 = 0 THEN i - 1 ELSE i, p, n)
    /\ PctIndex(50, n) <= PctIndex(90, n)
    /\ PctIndex(90, n) <= PctIndex(99, n) /\ PctIndex(99, n) <= MaxIndex(n)

(***************************************************************************)
(* How far the figures that main prints are off: of a sample of any size   *)
(* from one latency on, pct picks the nearest rank when p percent of the   *)
(* sample is no whole number and the rank above it when it is, never one   *)
(* past the last latency; and p50, p90, p99 and max never fall.            *)
(***************************************************************************)
PctWithinOneRank == harness = "done" => \A n \in 1 .. MaxSample : PctSound(n)

(***************************************************************************)
(* "pct is nearest rank on the sorted sample with no interpolation"        *)
(* (bench/main.go), for the samples the harness has collected.             *)
(***************************************************************************)
PctNearestRank ==
    harness = "done" =>
        \A i \in DOMAIN results, p \in Percentiles :
            results[i] > 0 => NearestRank(PctIndex(p, results[i]), p, results[i])

(***************************************************************************)
(* "the timer covers the measured phase only and starts once every client  *)
(* is parked on start" (bench/main.go).                                    *)
(***************************************************************************)
TimerAfterWarmup == [][timing' /\ ~timing => \A c \in Clients : client[c] \in {"parked", "finished"}]_vars

================================================================================
