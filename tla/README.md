# Kvasir in TLA+

Kvasir is a small key value server in Go: a map behind a lock, a text protocol,
a TCP server with graceful shutdown, a web bridge, a load harness, and a demo
page that runs the same Go code in the browser.  This directory holds a
specification of it: TLA+ modules translated from the source, TLC
configurations, and proofs that TLAPS checks.

## 1. Inventory

| Part | Source | State | Operations | Talks to |
|---|---|---|---|---|
| store | `store/store.go` | a map, one `RWMutex` | `Get`, `Set`, `Delete` | called by every handler goroutine at once |
| protocol | `protocol/protocol.go` | none | `Parse`, `Reply*` | called by the server and the demo page |
| server lifecycle | `server/server.go` | listener, `done`, `mu`, `conns`, `wg` | `Serve`, `handle`, `Shutdown` | kernel sockets, clients, `main` |
| request loop | `server/server.go` | scanner buffer, socket | `handle`, `execute` | protocol, store |
| process | `cmd/kvstore/main.go` | error channel, signal context | `main` | server |
| bridge | `cmd/kvstore-web/` | one connection per request, the page's log | `handleCmd`, the page's submit handler | server over TCP, browser over HTTP |
| load harness | `bench/main.go`, `bench/clock_*.go` | clients, latencies, timer | `populate`, `repeat`, `measure`, `run`, statistics | server over TCP |
| demo page | `docs/wasm/main.go`, `docs/index.html` | the map, remembered keys, drawer | `eval`, `boot`, `run`, `paintDrawer` | protocol, store, page kit, Go host |
| page kit | `docs/kit.js` | player, wash and theme state | `loadData`, `stepPlayer`, `heroWash`, `theme`, `autoInit` | browser: timeouts, frames, storage, media queries |
| Go host | `docs/wasm_exec.js` | reference table, event slot, timeouts, exit promise | `run`, `_resume`, `_makeFuncWrapper`, imports | the compiled Go program, the page |
| captured data | `docs/data/kvstore.js` | a session and its final state | none | drawn by the page when the code does not load |

What is hard here:

* *Interleavings.*  Any number of goroutines in the store; `Serve`, the
  handlers, `Shutdown` and the drain goroutine in the server.  The admission
  gate exists because an accepted connection and a shutdown can miss each other.
  On the page JavaScript and Go call each other on one stack, through one slot.
* *Failure.*  Clients that vanish, stall, or stop in the middle of a line;
  `Accept` errors; dial, write and read errors in the bridge and the harness; a
  page whose compiled code does not load; a storage that refuses.
* *Ordering.*  `done` before the listener, close before `wg.Done`, t0 before
  `close(start)`, rows after the command, the event before the resume.
* *Timeouts.*  The five second drain, the bridge's two second deadline, the
  player's clock, the wake-ups of the Go runtime; each can fire late.
* *Limits.*  The scanner's 64 KB, the 64 remembered keys, the eight slots, the
  ids of references, which are used again.

What makes each part correct: the store is linearizable and its map is never
written under another access; the server admits and drains without losing a
connection, and terminates; each line gets one reply, in order; the process
exits after an interrupt; the bridge never misstates what became of a command;
the harness counts complete, timed samples; the page never shows something the
map does not hold; the player's clock and the page agree, and nothing that fires
late changes a page that has moved on; references, timeouts and answers between
Go and JavaScript are never mixed up or lost.  `PROJECT.json` lists the hazards
at their source lines with the properties aimed at them.

## 2. Modules

| Module | Models |
|---|---|
| `AtomicStore` | the promise of the `Store` interface: each call takes effect at one instant between call and return |
| `RWMutex` | Go's `sync.RWMutex` (external): announced writers park later readers; `Unlock` lets the parked readers in first |
| `MemoryStore` | `store.go`, one step per statement; refines `AtomicStore` |
| `Server` | `Serve`, handlers, `Shutdown`, drain goroutine, context, clients |
| `Kvstore` | extends `Server` with `main`; the process freezes when it exits |
| `Protocol` | `Parse` and the replies |
| `Grammar` | a grammar of the command line, which `Parse` is checked against and proved to follow |
| `Executor` | `execute`: a command against the map, and what serving a list of lines means (shared by the request loop and the page) |
| `Ranks` | the numbers of a finite set in ascending order: how the lines of a text and the rows of the drawer are listed |
| `Connection`, `MCConnection` | the request loop over a scanner, one client stream |
| `WebBridge` | `handleCmd` and the script of its page, requests side by side |
| `Bench` | `populate`, `repeat`, `measure`, the client goroutines, the percentiles |
| `CapturedSession` | the session and final state of `data/kvstore.js` |
| `LoadData` | `Kit.loadData`: fetch, parse, fall back to the inlined copy |
| `Page`, `MCPage` | the demo page over the two above: `boot`, `showStored`, `run`, `eval`, `remember`, `rows`, `paintDrawer` |
| `StepPlayer`, `HeroWash`, `Theme` | the three stateful parts of `kit.js` |
| `Kit` | composes them in one event loop, with `autoInit` and reloads |
| `RefTable` | the reference table of `wasm_exec.js` |
| `GoHost`, `MCGoHost` | the rest of the class `Go` over it: calls both ways, timeouts, run and exit |
| `MemoryStoreProofs`, `ProcessProofs` (server and process), `ProtocolProofs`, `ConnectionProofs`, `BenchProofs`, `WebBridgeProofs`, `SiteProofs` (demo page and kit), `GoHostProofs` | theorems |

How state and actions correspond to the code:

* **MemoryStore.**  `pc[p]` is the statement goroutine `p` is about to run.
  A lock call is two steps, asking and getting; a deferred unlock and the return
  are one.  `data` is total, with `Absent` for a missing key.  A call takes
  effect at the map access: `Load`, `Store`, `Remove`, or `Find` when the key is
  missing.  The refinement mapping derives the caller's phase from `pc`.
* **Server.**  One variable per field of the struct, one label per place where a
  goroutine touches shared state.  `Serve`'s critical section is split into
  taking the lock and deciding; `Shutdown`'s is split at every statement,
  because `done`, the listener and the sockets are visible without the lock.
  The handler's lock, delete, unlock is one step: nothing in it is visible
  outside the lock.  A client may send, stop reading or vanish at any time; a
  write to one that does not read blocks until the socket is closed.
* **Kvstore.**  The same actions under the guard that the process is running.
  `main` calls `Shutdown` after an interrupt or a nil from `Serve`.
* **Protocol.**  Text is a sequence of atoms: the characters the code looks at,
  and opaque words.  The wording of an error is one atom.
* **Connection.**  Positions in the stream (`start <= read <= sent`) stand for
  the buffer.  The scanner is external and is modelled as the standard library
  behaves: it hands out complete lines, fails on a full buffer without a line
  feed, and after the end of the input or an error hands out the rest as a line.
  `room` says whether the socket takes another reply.  A client that does not
  read takes it away (`Stall`) and may give it back (`Resume`); without it
  `io.WriteString`, which has no deadline, blocks until a close or a hang-up.
* **WebBridge.**  One label per call of `handleCmd` that can fail.  The kvstore
  server is the environment, but it is as `Connection` shows it to be: a line it
  has received is executed whether or not the bridge still waits, and a piece of
  a line is executed when the connection ends, and may then store a value that
  was cut off.  The page may lose a request or
  its answer (`FetchFails`).
* **Bench.**  The server is the environment; a request may fail at any point.
  `measure` returns with its deferred `closeAll`, and `repeat` then calls it with
  fresh locals.  The percentiles are index arithmetic on a sorted sample.
* **Page.**  `boot`'s promises are its labels; `eval` is the whole call,
  `remember` and the re-reading of rows included.
* **StepPlayer.**  An action per event: buttons, keys, `goTo`, the timeout, the
  tab being hidden.  `armed` holds the timeouts the browser would still fire,
  `timer` is the one the code remembers; a timeout that was cleared is gone, one
  that was forgotten still fires.
* **HeroWash.**  The same with animation frames, which are served only while the
  tab is visible, and a media query whose change event comes later than the
  change.
* **Theme.**  The attribute, the saved value, the word on the toggle; the
  storage may refuse any access and other tabs may write to it.
* **RefTable.**  `_values`, `_goRefCounts`, `_ids` and `_idPool` as they are;
  `held` is what the Go side holds, with the value each reference was made for.
* **GoHost.**  JavaScript and Go take turns on one stack: a frame is an
  activation of Go (`run`, a wrapped function, a timeout) or a call from Go into
  JavaScript.  The Go runtime is external: it takes the pending event first,
  then calls, stores, drops, schedules or exits, then returns.

A definition whose comment starts with "Mutant of" is a wrong version of the
definition it names.  `PROJECT.json` pairs each property with one: put in place
of the original it makes TLC report that property.

## 3. Runs

| Run | Checks | Bounds |
|---|---|---|
| `store` | `TypeOK`, `MapExclusive`, `Linearizable` (refinement), `CallReturns` | 3 goroutines, so that a reader parks behind a writer that waits for a reader; 1 key, so that all calls conflict; the empty value and one other |
| `server` | `WgCountsLive`, `ShutdownClean`, `NoAddAfterWait`, `CloseIsNoError`, `ShutdownDrains`, `EveryConnCloses` | 2 connections: one live, one caught at the gate; 1 unread line each |
| `process` | `CutOffOnlyLate`, `InterruptExits` | as `server` |
| `connection` | `OneReplyPerLine`, `WholeLines`, `ParseExact`, `Answered`, `HandlerEnds` | 5 streams of 2 to 4 lines, cut anywhere by a hang-up or a close; buffer of 6 atoms: a line that just fits and one that does not; blank and empty values, an empty key, several carriage returns |
| `bridge` | `AnswersTruthful`, `EveryCommandLogged` | 2 requests, so that one overtakes the other; one key |
| `bench` | `SampleComplete`, `TimedFromT0`, `NoConnLeft`, `PctWithinOneRank`, `HarnessEnds` | 3 clients, 1 warmup and 2 measured requests, 2 repeats; percentiles of samples of up to 300, past every residue of the division by 100 |
| `page` | `DrawerTrue`, `DrawerMissesOnlyAtCap`, `LoadFallsBack`, `StoredIsReal`, `AnswersAsServer`, `PageSettles` | 4 labels, 3 remembered names, 2 slots: both limits are exceeded |
| `kit` | `ShownIsCurrent`, `ClockMatchesPlay`, `WashRests`, `ThemeTrue`, `AutoplayEnds`, `MotionStops` | 3 steps: a first, a middle and a last; one pointer position, beyond the clamp; targets below, above and not a number |
| `host` | `RefsResolve`, `TimeoutsLive`, `AnswersOwnCall`, `ExitSettles` | 2 objects and 3 handles, so that an id is shared, freed and given out again; 2 calls, 2 timeouts, a stack of 5: Go in JavaScript in Go in JavaScript in Go; argument lists up to and one byte past the limit |

Three runs show where the code and its documentation differ:

* `truncated` (`TerminatedOnly`): the README says commands are newline terminated, but the scanner
  hands out an unfinished last line when the connection ends.  In the trace
  a client hangs up after the blank before the value of its `SET`, and the key is
  set to the empty value.
* `bench_timer` (`TimerAfterWarmup`): the comment in `measure` says that the timer starts once every
  client is parked; the code sleeps 100 ms, which a slow warmup outlasts.
* `bench_pct` (`PctNearestRank`): the comment on `pct` says nearest rank; where the
  percentage of the sample is a whole number the code takes the rank above.  In
  the trace two clients collect 100 latencies, and p50 is the 51st of them.
  `PctWithinOneRank` in the run `bench` says exactly how far the figures are off.

`DrawerMissesOnlyAtCap` says how far the drawer is the map: after 64 names have
ever been set a new label is stored and not drawn.

Runs that reach a final state (a server that has shut down, a handler that has
ended, a harness that is done, a program that has exited) do not check for
deadlock; the store and the kit never stop, and their runs do.

## 4. Fairness

* Store: each goroutine in a call takes steps (weak fairness; the Go scheduler
  is preemptive).  Taking the writer's mutex is strongly fair, because Go's
  mutex hands itself to a waiter that has starved for a millisecond.
* Server: weak fairness of `Serve`, of each handler, of `Shutdown` and of the
  drain goroutine.  Each locks `s.mu` finitely often, so weak fairness is enough
  for the lock.  Nothing is assumed of clients, of `Accept` errors, of the
  context, or of whether `Shutdown` is called; an `Accept` error is not a step
  of `Serve` that fairness could force.
* Process: the same, and the five second timer fires.
* Connection: the handler only.  A write without room is no step that fairness
  could force.  That the client reads is a premise of `Answered`: it is for a
  client that, from some moment on, has sent everything, leaves room, and is
  closed by neither side.  A client that stops reading for good gets no more
  replies, and `HandlerEnds` says what releases its handler.
* Bridge: each handler goes on when it can, its deadline expires, and the page
  gets the answer or an error.  Nothing is assumed of the kvstore server.
* Bench: the harness and its clients; a request is answered or fails.  The
  harness has no timeout of its own, so a server that never answers is excluded.
* Page: every promise of `boot` is settled.
* Kit: a timeout that stays armed fires, a change event is dispatched.  Nothing
  is assumed of the visitor or of animation frames, which a hidden tab never
  gets.

## 5. Proofs

The proof modules hold for every value of the constants, under the assumptions
the modules name (finite sets of connections, clients and handles; streams that
are finite sequences; at least one slot in the drawer; marks such as `Absent`,
`NoConn`, `NoRef` that are none of the real values).  Every invariant and every
action property that a run checks is also a theorem.

What a fold computes needs induction over data, and the library's induction
theorems cannot be instantiated here.  The proofs use least counterexamples
instead: a set of numbers that is not empty has a least element (`NatLeast`,
from well-foundedness of the naturals), so the first number at which a claim
fails contradicts the step before it.

**MemoryStoreProofs.**  `MapExclusive` is not inductive: it does not say who
owns the lock.  `IndInv` adds that a goroutine in a writer's section is the
announced writer with no reader inside, and that one in a reader's section is
registered (`OwnerInv`); that each goroutine runs the code of the method it
called (`CodeInv`), without which getting the lock could lead anywhere; and that
results are untouched before they are fixed and the key that `Delete` found is
still there (`ResultInv`), which the refinement needs.  Proved: `TypeCorrect`,
`Exclusion`, `Refinement` (every step maps to a step of `AtomicStore` or to a
stutter).

**ProcessProofs**, the server.  `IndInv` says that the owner of `s.mu`, `done`,
the listener and the drain follow from where `Serve` and `Shutdown` are
(`PhaseInv`), that the accepted connection belongs to `Serve` until its handler
starts (`GateInv`), that `s.conns` and the sockets follow from the handlers
(`HandlerInv`), that the WaitGroup counts the live handlers, and that it stays
at zero once the drain is over (`DrainInv`).  The argument for `NoAddAfterWait`
is the one in the comment in `Serve`: `Admit` needs `~done` under the lock, and
`Shutdown` closes `done` under the same lock before the drain starts. 
`ShutdownClean` follows: the counter was zero and can only have stayed there, so
no handler is live. Proved: `TypeCorrect`, `CountCorrect`, `ShutdownCorrect`,
`AddBeforeWait`, `CloseCorrect`.

**ProcessProofs**, the process.  Every step of the process is a step of the
server or leaves it alone, so the server's `IndInv` carries over.  `MainInv`
adds where `main` is relative to `Shutdown`, and that only a done context gives
an error.  Proved: `CutOffCorrect`.

**ProtocolProofs.**  `TrimRight`, `SplitN` and `ToUpper` are shown to do what
their names say (`TrimIs`, `SplitOne`, `SplitTwo`, `SplitThree`, `UpperIs`), for
lines of any length over any atoms.  A line then has one of two shapes, short
(GET, DEL) or long (SET), or is rejected; `Parse` returns the command of the
shape (`ParseShort`, `ParseLong`), and a line that the grammar gives a meaning
has that shape.  Proved: `ParseCorrect`, and `ParseComplete`: the
grammar is not ambiguous, `Parse` finds the one command a line denotes.  The
module also holds what the other proofs need of sequences, of `Rank` and `Nth`,
and that `Served` of one more line serves that line last (`ServedAppend`).

**ConnectionProofs.**  `OneReplyPerLine` compares the replies with the lines of
the part of the stream that has been consumed; it is not inductive, because it
does not say where that part may end.  `LoopInv` adds the order of the positions
(`Positions`), that what has been handed out ends with a line feed unless it is
all there is (`Boundary`), and that the line in hand is the last of those lines
but for a carriage return, which `Parse` does not see (`Held`, `DropParse`).
The heart is `LinesAppend`: consuming up to the next line feed appends exactly
one line.  Proved: `RepliesRight`, `LinesWhole`, `ParsedRight` (`ParseCorrect` for
the lines of the loop).

**BenchProofs.**  `TimedInv`: start is closed only after t0 is read, and only a
released client records.  `ConnInv`: nothing is open before the first dial.
`PctCorrect` is arithmetic: it characterises what `pct` picks for samples of
every size, which is the nearest rank only where the share of the sample is no
whole number.  `SampleInv`: what a
client has recorded and what it has left add up to `Ops`, and one that finished
has recorded `Ops` unless it failed; the sum over the clients is then `Ops`
times their number (`SumEqual`, one client less at a time).  Proved:
`TimedCorrect`, `ConnCorrect`, `PctCorrect`, `SampleCorrect`.

**WebBridgeProofs.**  `Consistent(r)`: how far `handleCmd` is bounds what the
server can have received, and that what it can have executed.  A step touches
one request (`OneRequestSteps`), so the invariant is checked for that one.
Proved: `AnswersTrue`.

**SiteProofs**, the page.  `Parse` returns a command or an error (`ParseOps`),
and on each command the page's copy of `execute` agrees with the server's
(`ExecuteAgrees`).  `LoadFallsBack` is inductive by itself.  The properties of
the drawer are not: they say nothing of the names that were remembered.
`DrawerInv` adds that the names are distinct and within the limit, that every
label in the map is among them unless the list is full (`RememberIs`), and that
the drawer was painted from the names and the map as they are now.  `RowsAre`
says what `rows` then lists: each remembered label that is in the map, once,
with its value.  `StoredInv` says that the stored session is drawn once and
never drawn over; `CapturedServed` serves its nine commands one by one.  Proved:
`AnswersAgree`, `LoadCorrect`, `DrawerCorrect`, `DrawerComplete`,
`StoredCorrect`.

**SiteProofs**, the kit.  The three parts share only the hidden flag of the tab,
so each invariant is proved of the steps of its own part and `MountAll` and
`Reload` are added for the composition.  With the types the four invariants are
inductive together.  Proved: `ShownCorrect`, `ClockCorrect`, `WashCorrect`,
`ThemeCorrect`.

**GoHostProofs.**  Two inductions.  On the stack: an activation Go has not
looked at is the innermost one and has its event, and only it, in the slot;
later it works on its own event (`SlotExact`); an exit not yet made known has
its activation on top, about to return (`ExitUnderway`); `TimeoutsLive` is
inductive given the types.  Steps are reduced to pushing, popping or changing
the top frame (`PushStep`, `PopStep`, `SetTopStep`).  On the table
(`TableLive`): an entry counts the handles that have its id (`CountsExact`), a
value in `_ids` has an entry in use (`IdsExact`), and the pool holds ids that
nobody holds, each once (`PoolExact`), so that `storeValue` always takes an id
that is free (`FreshId`).  `TablesThere` ties the two: whatever can run Go
before the exit has tables.  Proved: `TimeoutsCorrect`, `AnswersCorrect`,
`ExitCorrect`, `RefsCorrect`.

**Only model-checked.**  Liveness: `CallReturns`, `ShutdownDrains`,
`EveryConnCloses`, `InterruptExits`, `Answered`, `HandlerEnds`,
`EveryCommandLogged`,
`HarnessEnds`, `PageSettles`, `AutoplayEnds`, `MotionStops`.  They rest on
fairness and `ENABLED`, which TLAPS does not reason about here.

## 6. Not modelled

* Harness: flag parsing, the choice of keys, the loop over cells, the median and
  spread of the runs (with `-runs 0` the median's index panics; the model has at
  least one run), `probeClock`, printing; the clock files, which read the
  operating system's clock.
* Go host: the stand-ins for `fs`, `process` and `path`, byte copies, clocks and
  random data, which keep no state the rest depends on.  `run` is called once,
  as the page does.  Getters and setters of the page are assumed not to throw.
* Page kit: `escapeHtml` and `recordedRunBadge`, which are formatting; more than
  one player or wash on a page.  An `onRender` that calls the player back: no
  page of the repository has one.
* Page: the transcript of a live session, the wording of captions.
* Bridge: serving the page, flags.
* The measurements in the captured data, the style sheet and the diagrams, log
  output and the wording of messages.

## 7. Plan

1. Done: store with its abstract specification and proofs; server lifecycle with
   proofs; process; protocol; request loop; bridge; harness; demo page; page kit;
   Go host; proofs for each of them.
2. Several connections composed with the store: replies of all clients against
   one linearizable map.
3. Median and spread of the harness's runs.
