--------------------------------- MODULE GoHost ---------------------------------
(***************************************************************************)
(* docs/wasm_exec.js: the host of the compiled Go program on the demo      *)
(* page.  JavaScript and Go share one thread and call each other, so what  *)
(* runs is a stack: at the bottom an activation of the Go program (by run, *)
(* by a wrapped Go function, by a timeout), on it a call from Go into      *)
(* JavaScript, on it an activation by a wrapped function called there, and *)
(* so on.  The host keeps one slot for the event that Go is to pick up.    *)
(* Inside the Go program (its runtime and package syscall/js) is external: *)
(* it picks up the event first, may then call, schedule, store, drop or    *)
(* exit, and returns when the handler has finished.                        *)
(***************************************************************************)
EXTENDS RefTable, SequencesExt

CONSTANTS
    Argvs,          \* the argument lists: sequences of the lengths of strings
    Events,         \* the calls of wrapped Go functions
    NoEvent,
    MaxDepth,       \* bound on the stack
    MaxTimeouts     \* bound on the timeouts that are scheduled

ASSUME HostAssumption ==
    /\ NoEvent \notin Events /\ {"undefined", "thrown"} \cap Events = {}
    /\ MaxDepth \in Nat /\ MaxTimeouts \in Nat

VARIABLES
    stack,          \* the activations and calls in progress, the innermost last
    pending,        \* _pendingEvent
    results,        \* the result property of each event
    answers,        \* what each call of a wrapped function has returned
    scheduled,      \* the keys of _scheduledTimeouts
    timers,         \* the timeouts the browser has not fired
    nextTimeout,    \* _nextCallbackTimeoutID
    idle,           \* the timeout the Go runtime waits for, 0 for none
    exited,
    exitPromise,    \* _exitPromise
    run             \* the promise of run(): "none" before the call

callVars  == <<pending, results, answers>>
timeVars  == <<scheduled, timers, nextTimeout, idle>>
exitVars  == <<exited, exitPromise, run>>
vars      == <<tableVars, stack, callVars, timeVars, exitVars>>

Activations == {"run", "event", "timeout"}
Imports     == {"call", "set"}

Frame(kind, event, timeout, phase) ==
    [kind |-> kind, event |-> event, timeout |-> timeout, phase |-> phase, taken |-> NoEvent]

Frames ==
    [kind : Activations \cup Imports, event : Events \cup {NoEvent}, timeout : Nat,
     phase : {"resumed", "running", "done"}, taken : Events \cup {NoEvent}]

HostTypeOK ==
    /\ stack \in Seq(Frames)
    /\ pending \in Events \cup {NoEvent}
    /\ results \in [Events -> Events \cup {"undefined"}]
    /\ answers \in [Events -> Events \cup {"none", "undefined", "thrown"}]
    /\ scheduled \subseteq Nat /\ timers \subseteq Nat /\ nextTimeout \in Nat /\ idle \in Nat
    /\ exited \in BOOLEAN /\ exitPromise \in {"pending", "resolved"}
    /\ run \in {"none", "started", "awaiting", "rejected"}

Init ==
    /\ NoTables
    /\ stack = <<>>
    /\ pending = NoEvent
    /\ results = [e \in Events |-> "undefined"]
    /\ answers = [e \in Events |-> "none"]
    /\ scheduled = {} /\ timers = {} /\ nextTimeout = 1 /\ idle = 0
    /\ exited = FALSE /\ exitPromise = "pending" /\ run = "none"

Top == stack[Len(stack)]
Pop == SubSeq(stack, 1, Len(stack) - 1)

\* Go runs in the innermost activation, JavaScript above a call or on its own.
GoRuns == stack # <<>> /\ Top.kind \in Activations /\ Top.phase = "running"
JsRuns == stack # <<>> => Top.kind \in Imports

SetTop(frame) == Append(Pop, frame)

--------------------------------------------------------------------------------
(* run *)

\* strPtr puts a string and its NUL at the offset and moves to the next multiple of 8.
StrEnd(offset, length) ==
    LET end == offset + length + 1 IN IF end % 8 = 0 THEN end ELSE end + 8 - (end % 8)

\* The strings, then their pointers, with one null pointer after the arguments
\* and one after the environment (which the page leaves empty).
ArgsEnd(argv) == FoldLeft(StrEnd, 4096, argv) + 8 * (Len(argv) + 2)

wasmMinDataAddr == 4096 + 8192

Run(argv) ==
    /\ run = "none"
    /\ MakeTables
    /\ IF ArgsEnd(argv) >= wasmMinDataAddr
       THEN run' = "rejected" /\ UNCHANGED stack
       ELSE run' = "started" /\ stack' = <<Frame("run", NoEvent, 0, "running")>>
    /\ UNCHANGED <<callVars, timeVars, exited, exitPromise>>

\* run is given something that is no instance.
RunNothing ==
    /\ run = "none" /\ run' = "rejected"
    /\ UNCHANGED <<tableVars, stack, callVars, timeVars, exited, exitPromise>>

--------------------------------------------------------------------------------
(* Calls from JavaScript into Go *)

\* Mutant of WrapperCall: Go is resumed before the event is in its slot.
WrapperCallLate(e) ==
    /\ JsRuns /\ run \in {"started", "awaiting"} /\ answers[e] = "none"
    /\ ~exited /\ \A i \in DOMAIN stack : stack[i].event # e
    /\ Len(stack) < MaxDepth
    /\ stack' = Append(stack, Frame("event", e, 0, "resumed"))
    /\ UNCHANGED <<tableVars, callVars, timeVars, exitVars>>

\* A function made by _makeFuncWrapper is called; _resume throws after the exit.
WrapperCall(e) ==
    /\ JsRuns /\ run \in {"started", "awaiting"} /\ answers[e] = "none"
    /\ \A i \in DOMAIN stack : stack[i].event # e
    /\ Len(stack) < MaxDepth
    /\ pending' = e
    /\ IF exited
       THEN answers' = [answers EXCEPT ![e] = "thrown"] /\ UNCHANGED stack
       ELSE stack' = Append(stack, Frame("event", e, 0, "resumed")) /\ UNCHANGED answers
    /\ UNCHANGED <<tableVars, results, timeVars, exitVars>>

\* The browser fires a timeout; _resume throws after the exit.
TimeoutFires(t) ==
    /\ stack = <<>> /\ t \in timers
    /\ timers' = timers \ {t}
    /\ stack' = IF exited THEN stack ELSE <<Frame("timeout", NoEvent, t, "resumed")>>
    /\ UNCHANGED <<tableVars, callVars, scheduled, nextTimeout, idle, exitVars>>

\* exports.run or exports.resume returns: the exit, if there was one, is made known.
Settle == exitPromise' = IF exited THEN "resolved" ELSE exitPromise

\* Mutant of ResumeSettles: _resume does not look for the exit.
ResumeForgets == UNCHANGED exitPromise

ResumeSettles == Settle

RunReturns ==
    /\ stack # <<>> /\ Top.kind = "run" /\ Top.phase = "done"
    /\ Settle /\ run' = "awaiting" /\ stack' = Pop
    /\ UNCHANGED <<tableVars, callVars, timeVars, exited>>

WrapperReturns ==
    /\ stack # <<>> /\ Top.kind = "event" /\ Top.phase = "done"
    /\ ResumeSettles /\ stack' = Pop
    /\ answers' = [answers EXCEPT ![Top.event] = results[Top.event]]
    /\ UNCHANGED <<tableVars, pending, results, timeVars, exited, run>>

\* Mutant of TimeoutReturns: Go is resumed once.
TimeoutReturnsOnce ==
    /\ stack # <<>> /\ Top.kind = "timeout" /\ Top.phase = "done"
    /\ ResumeSettles /\ stack' = Pop
    /\ UNCHANGED <<tableVars, callVars, timeVars, exited, run>>

\* Go is resumed again while the timeout is still scheduled, unless the program
\* has exited, which makes the next _resume throw.
TimeoutReturns ==
    /\ stack # <<>> /\ Top.kind = "timeout" /\ Top.phase = "done"
    /\ ResumeSettles
    /\ stack' = IF Top.timeout \in scheduled /\ ~exited
                THEN SetTop([Top EXCEPT !.phase = "resumed"]) ELSE Pop
    /\ UNCHANGED <<tableVars, callVars, timeVars, exited, run>>

--------------------------------------------------------------------------------
(* Imports: what the Go program asks of the host *)

ClearTimeoutEvent(id) ==
    /\ timers' = timers \ {id}
    /\ scheduled' = scheduled \ {id}

\* beforeIdle of the Go runtime: the timeout it waited for is replaced.
ScheduleTimeoutEvent ==
    /\ GoRuns /\ ~exited /\ nextTimeout <= MaxTimeouts
    /\ scheduled' = (scheduled \ {idle}) \cup {nextTimeout}
    /\ timers' = (timers \ {idle}) \cup {nextTimeout}
    /\ nextTimeout' = nextTimeout + 1
    /\ idle' = nextTimeout
    /\ UNCHANGED <<tableVars, stack, callVars, exitVars>>

\* stringVal, valueIndex, valuePrepareString and the like give Go a value.
GiveValue(h, v) ==
    /\ GoRuns /\ ~exited /\ held[h] = NoRef /\ StoreValue(h, v)
    /\ UNCHANGED <<stack, callVars, timeVars, exitVars>>

Finalize(h) ==
    /\ GoRuns /\ ~exited /\ DropHandle(h)
    /\ UNCHANGED <<stack, callVars, timeVars, exitVars>>

\* Into JavaScript: "call" for valueGet, valueCall, valueInvoke and valueNew, which
\* go on to use the instance, "set" for valueSet, valueDelete and valueSetIndex.
Import(kind) ==
    /\ GoRuns /\ ~exited /\ Len(stack) < MaxDepth
    /\ stack' = Append(stack, Frame(kind, NoEvent, 0, "running"))
    /\ UNCHANGED <<tableVars, callVars, timeVars, exitVars>>

\* The result, or the error that was thrown, is stored; an immediate one needs no handle.
ValueReturns ==
    /\ stack # <<>> /\ Top.kind = "call" /\ ~exited
    /\ stack' = Pop
    /\ \/ UNCHANGED tableVars
       \/ \E h \in Handles, v \in JsValues : held[h] = NoRef /\ StoreValue(h, v)
    /\ UNCHANGED <<callVars, timeVars, exitVars>>

SetReturns ==
    /\ stack # <<>> /\ Top.kind = "set"
    /\ stack' = Pop
    /\ UNCHANGED <<tableVars, callVars, timeVars, exitVars>>

\* The call comes back to an instance that is gone, or Go runs on after a set and
\* asks for something: the TypeError ends the activation, and whoever made it.
Unwind ==
    /\ exited /\ stack # <<>> /\ (Top.kind = "call" \/ GoRuns)
    /\ LET n == IF Top.kind = "call" THEN Len(stack) - 1 ELSE Len(stack)
           ended == stack[n]
       IN  /\ stack' = SubSeq(stack, 1, n - 1)
           /\ run' = IF ended.kind = "run" THEN "rejected" ELSE run
           /\ answers' = IF ended.kind = "event"
                         THEN [answers EXCEPT ![ended.event] = "thrown"] ELSE answers
    /\ UNCHANGED <<tableVars, pending, results, timeVars, exited, exitPromise>>

\* The runtime exits; the export that was called returns.
WasmExit ==
    /\ GoRuns /\ ~exited
    /\ exited' = TRUE /\ DropTables
    /\ stack' = SetTop([Top EXCEPT !.phase = "done"])
    /\ UNCHANGED <<callVars, timeVars, exitPromise, run>>

--------------------------------------------------------------------------------
(* External: the Go runtime *)

\* handleEvent picks up the event, or takes it that its timeout has come.
GoPicksUp ==
    /\ stack # <<>> /\ Top.phase = "resumed"
    /\ stack' = SetTop([Top EXCEPT !.phase = "running", !.taken = pending])
    /\ IF pending # NoEvent
       THEN pending' = NoEvent /\ UNCHANGED timeVars
       ELSE ClearTimeoutEvent(idle) /\ idle' = 0 /\ UNCHANGED <<pending, nextTimeout>>
    /\ UNCHANGED <<tableVars, results, answers, exitVars>>

\* The case the host retries for: Go does not notice its timeout.
GoMisses ==
    /\ stack # <<>> /\ Top.phase = "resumed" /\ Top.kind = "timeout"
    /\ stack' = SetTop([Top EXCEPT !.phase = "running", !.taken = NoEvent])
    /\ UNCHANGED <<tableVars, callVars, timeVars, exitVars>>

\* The handler has finished, its result is set on the event, Go pauses.
GoPauses ==
    /\ GoRuns
    /\ stack' = SetTop([Top EXCEPT !.phase = "done"])
    /\ results' = IF Top.taken = NoEvent \/ exited THEN results
                  ELSE [results EXCEPT ![Top.taken] = Top.taken]
    /\ UNCHANGED <<tableVars, pending, answers, timeVars, exitVars>>

GoStep ==
    \/ ScheduleTimeoutEvent \/ WasmExit \/ GoPicksUp \/ GoMisses \/ GoPauses
    \/ \E h \in Handles : Finalize(h) \/ \E v \in JsValues : GiveValue(h, v)
    \/ \E kind \in Imports : Import(kind)

HostStep ==
    \/ RunReturns \/ WrapperReturns \/ TimeoutReturns \/ ValueReturns \/ SetReturns \/ Unwind

PageStep ==
    \/ RunNothing \/ (\E argv \in Argvs : Run(argv))
    \/ (\E e \in Events : WrapperCall(e)) \/ (\E t \in timers : TimeoutFires(t))

Next == GoStep \/ HostStep \/ PageStep

Spec == Init /\ [][Next]_vars

--------------------------------------------------------------------------------

(***************************************************************************)
(* A timeout the Go runtime waits for will come: it is scheduled, and what *)
(* is scheduled is armed in the browser or in its callback; the browser    *)
(* holds no timeout that was cleared.  A timeout that fires and is missed, *)
(* replaced or overtaken by an event must not be lost.                     *)
(***************************************************************************)
TimeoutsLive ==
    /\ timers \subseteq scheduled
    /\ ~exited =>
         /\ idle # 0 => idle \in scheduled
         /\ \A t \in scheduled :
               t \in timers \/ \E i \in DOMAIN stack :
                                  stack[i].kind = "timeout" /\ stack[i].timeout = t

(***************************************************************************)
(* A call of a wrapped Go function returns the result its own handler      *)
(* computed, however calls nest through the one slot; it returns nothing   *)
(* only when the program exited in it, and throws only after the exit.     *)
(***************************************************************************)
AnswersOwnCall ==
    \A e \in Events : answers[e] \in {"none", e} \/ (exited /\ answers[e] \in {"undefined", "thrown"})

(***************************************************************************)
(* When the program has exited, at whatever depth, and the stack is empty, *)
(* the exit promise has been resolved: whoever awaits run() learns of it.  *)
(***************************************************************************)
ExitSettles == exited /\ stack = <<>> => exitPromise = "resolved"

(***************************************************************************)
(* The inductive parts: nothing happens before run, and while the program  *)
(* has not exited, whatever can run Go has tables to work with.            *)
(***************************************************************************)
RunFirst == run = "none" => stack = <<>> /\ timers = {} /\ ~exited

TablesThere ==
    /\ NoTables \/ TableLive
    /\ run = "none" => NoTables
    /\ ~exited /\ (stack # <<>> \/ timers # {} \/ run \in {"started", "awaiting"}) => TableLive

\* An exit that is not yet known is about to be made known.
ExitUnderway ==
    exited /\ exitPromise # "resolved" =>
        stack # <<>> /\ Top.kind \in Activations /\ Top.phase = "done"

\* An activation that Go has yet to look at is the innermost one, and has its
\* event, and only it, in the slot; later it works on its own event.
SlotExact ==
    /\ \A i \in DOMAIN stack :
          /\ stack[i].phase = "resumed" => i = Len(stack) /\ ~exited
          /\ stack[i].kind \in Imports => stack[i].phase = "running"
          /\ stack[i].kind = "event" => stack[i].event \in Events
          /\ stack[i].kind = "event" /\ stack[i].phase # "resumed" => stack[i].taken = stack[i].event
          /\ stack[i].kind # "event" => stack[i].taken = NoEvent
          /\ stack[i].kind = "event" /\ stack[i].phase = "done" /\ ~exited =>
                results[stack[i].event] = stack[i].event
    /\ ~exited =>
          pending = IF stack # <<>> /\ Top.kind = "event" /\ Top.phase = "resumed"
                    THEN Top.event ELSE NoEvent
    /\ \A e \in Events : results[e] \in {"undefined", e}

================================================================================
