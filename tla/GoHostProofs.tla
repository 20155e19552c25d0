----------------------------- MODULE GoHostProofs -----------------------------
(***************************************************************************)
(* The Go host for any number of values, handles, calls and timeouts, and  *)
(* any depth of calls.                                                     *)
(***************************************************************************)
EXTENDS GoHost, FiniteSetTheorems, SequenceTheorems, TLAPS

--------------------------------------------------------------------------------
(* The stack *)

\* The first n elements of a sequence.
LEMMA FrontFacts ==
    ASSUME NEW S, NEW s \in Seq(S), NEW n \in Int, n <= Len(s), NEW p, p = SubSeq(s, 1, n)
    PROVE  /\ p \in Seq(S)
           /\ n >= 0 => Len(p) = n
           /\ n < 0 => Len(p) = 0
           /\ \A i \in 1 .. n : p[i] = s[i]
<1>1. Len(s) \in Nat /\ \A i \in 1 .. Len(s) : s[i] \in S
  BY LenProperties, ElementOfSeq
<1>2. \A i \in 1 .. n : s[i] \in S
  BY <1>1
<1>3. /\ SubSeq(s, 1, n) \in Seq(S)
      /\ Len(SubSeq(s, 1, n)) = IF 1 <= n THEN n - 1 + 1 ELSE 0
      /\ \A i \in 1 .. n - 1 + 1 : SubSeq(s, 1, n)[i] = s[1 + i - 1]
  BY <1>2, SubSeqProperties
<1>4. /\ p \in Seq(S)
      /\ Len(p) = IF 1 <= n THEN n - 1 + 1 ELSE 0
      /\ \A i \in 1 .. n - 1 + 1 : p[i] = s[1 + i - 1]
  BY <1>3, Zenon
<1> QED
  BY <1>4

\* What is under the innermost frame stays when it is taken off.
LEMMA PopFacts ==
    ASSUME stack \in Seq(Frames), stack # <<>>
    PROVE  /\ Len(stack) \in Nat \ {0} /\ Top \in Frames
           /\ Pop \in Seq(Frames) /\ Len(Pop) = Len(stack) - 1
           /\ \A i \in 1 .. Len(stack) - 1 : Pop[i] = stack[i]
<1>1. Len(stack) \in Nat \ {0} /\ stack[Len(stack)] \in Frames
  OBVIOUS
<1>2. Len(stack) - 1 \in Int /\ Len(stack) - 1 <= Len(stack) /\ Len(stack) - 1 >= 0
  BY <1>1
<1>3. /\ Pop \in Seq(Frames)
      /\ Len(Pop) = Len(stack) - 1
      /\ \A i \in 1 .. Len(stack) - 1 : Pop[i] = stack[i]
  BY <1>2, FrontFacts, Zenon DEF Pop
<1>4. Top \in Frames
  BY <1>1 DEF Top
<1> QED
  BY <1>1, <1>3, <1>4

\* SetTop changes the innermost frame and no other.
LEMMA SetTopFacts ==
    ASSUME stack \in Seq(Frames), stack # <<>>, NEW f \in Frames
    PROVE  /\ SetTop(f) \in Seq(Frames) /\ Len(SetTop(f)) = Len(stack)
           /\ \A i \in 1 .. Len(stack) - 1 : SetTop(f)[i] = stack[i]
           /\ SetTop(f)[Len(stack)] = f
<1>1. /\ Len(stack) \in Nat \ {0} /\ Pop \in Seq(Frames) /\ Len(Pop) = Len(stack) - 1
      /\ \A i \in 1 .. Len(stack) - 1 : Pop[i] = stack[i]
  BY PopFacts
<1> QED
  BY <1>1 DEF SetTop

\* A frame is put on the others.
LEMMA PushFacts ==
    ASSUME stack \in Seq(Frames), NEW f \in Frames
    PROVE  /\ Len(stack) \in Nat
           /\ Append(stack, f) \in Seq(Frames) /\ Len(Append(stack, f)) = Len(stack) + 1
           /\ \A i \in 1 .. Len(stack) : Append(stack, f)[i] = stack[i]
           /\ Append(stack, f)[Len(stack) + 1] = f
  OBVIOUS

--------------------------------------------------------------------------------
(* The exit, the slot and the timeouts *)

HostInv == HostTypeOK /\ ExitUnderway /\ SlotExact /\ TimeoutsLive /\ AnswersOwnCall

\* It holds at the start.
LEMMA HostInitial ==
    ASSUME Init
    PROVE  HostInv
<1>1. stack \in Seq(Frames)
  BY DEF Init
<1>2. HostTypeOK
  BY <1>1 DEF Init, HostTypeOK
<1> QED
  BY <1>2 DEF Init, HostInv, ExitUnderway, SlotExact, TimeoutsLive, AnswersOwnCall

\* A step that changes neither the stack nor the slot, the answers and the exit.
LEMMA QuietStep ==
    ASSUME HostInv, UNCHANGED <<stack, callVars, timeVars, exited, exitPromise>>,
           run' \in {"none", "started", "awaiting", "rejected"}
    PROVE  HostInv'
  BY DEF HostInv, HostTypeOK, ExitUnderway, SlotExact, TimeoutsLive, AnswersOwnCall,
         callVars, timeVars, Top

\* run makes the first activation.
LEMMA RunStep ==
    ASSUME HostInv, RunFirst, NEW argv \in Argvs, Run(argv)
    PROVE  HostInv'
<1> stack = <<>> /\ ~exited
  BY DEF Run, RunFirst
<1>1. CASE run' = "rejected" /\ UNCHANGED stack
  BY <1>1, QuietStep DEF Run
<1>2. CASE run' = "started" /\ stack' = <<Frame("run", NoEvent, 0, "running")>>
  <2>1. UNCHANGED <<pending, results, answers, scheduled, timers, nextTimeout, idle,
                    exited, exitPromise>>
    BY <1>2 DEF Run, callVars, timeVars
  <2>2. /\ stack' \in Seq(Frames) /\ Len(stack') = 1
        /\ stack'[1] = [kind |-> "run", event |-> NoEvent, timeout |-> 0,
                        phase |-> "running", taken |-> NoEvent]
    BY <1>2 DEF Frame, Frames, Activations
  <2>3. HostTypeOK' /\ ExitUnderway' /\ AnswersOwnCall'
    BY <1>2, <2>1, <2>2 DEF HostInv, HostTypeOK, ExitUnderway, AnswersOwnCall
  <2>4. SlotExact'
    BY <2>1, <2>2 DEF HostInv, HostTypeOK, SlotExact, Top, Imports
  <2>5. TimeoutsLive'
    BY <2>1, <2>2 DEF HostInv, TimeoutsLive
  <2> QED
    BY <2>3, <2>4, <2>5 DEF HostInv
<1> QED
  BY <1>1, <1>2 DEF Run

\* A frame is put on a stack that Go has taken up: a call of a wrapped function,
\* which fills the slot, a timeout or a call from Go.
LEMMA PushStep ==
    ASSUME HostInv, NEW f \in Frames, stack' = Append(stack, f), ~exited,
           \A i \in DOMAIN stack : stack[i].phase # "resumed",
           f.taken = NoEvent, f.phase # "done",
           f.kind \in Imports => f.phase = "running",
           f.kind = "event" => f.phase = "resumed" /\ f.event \in Events,
           pending' = IF f.kind = "event" THEN f.event ELSE NoEvent,
           scheduled' = scheduled, timers \ timers' \subseteq {f.timeout},
           timers' \subseteq timers, timers' # timers => f.kind = "timeout",
           UNCHANGED <<results, answers, nextTimeout, idle, exited, exitPromise, run>>
    PROVE  HostInv'
<1> USE DEF HostInv
<1>1. /\ Len(stack) \in Nat /\ DOMAIN stack = 1 .. Len(stack)
      /\ stack' \in Seq(Frames) /\ Len(stack') = Len(stack) + 1
      /\ DOMAIN stack' = 1 .. Len(stack) + 1
      /\ \A i \in 1 .. Len(stack) : stack'[i] = stack[i]
      /\ stack'[Len(stack) + 1] = f
  BY PushFacts DEF HostTypeOK
<1>2. HostTypeOK'
  BY <1>1 DEF HostTypeOK, Frames
<1>3. ExitUnderway' /\ AnswersOwnCall'
  BY DEF ExitUnderway, AnswersOwnCall
<1>4. SlotExact'
  <2>1. stack' # <<>> /\ Top' = f
    BY <1>1 DEF Top
  <2>2. pending' = IF stack' # <<>> /\ Top'.kind = "event" /\ Top'.phase = "resumed"
                   THEN Top'.event ELSE NoEvent
    BY <2>1
  <2>3. ASSUME NEW i \in DOMAIN stack'
        PROVE  /\ stack'[i].phase = "resumed" => i = Len(stack') /\ ~exited'
               /\ stack'[i].kind \in Imports => stack'[i].phase = "running"
               /\ stack'[i].kind = "event" => stack'[i].event \in Events
               /\ stack'[i].kind = "event" /\ stack'[i].phase # "resumed" => stack'[i].taken = stack'[i].event
               /\ stack'[i].kind # "event" => stack'[i].taken = NoEvent
               /\ stack'[i].kind = "event" /\ stack'[i].phase = "done" /\ ~exited' =>
                     results'[stack'[i].event] = stack'[i].event
    <3>1. CASE i = Len(stack) + 1
      BY <1>1, <3>1
    <3>2. CASE i \in 1 .. Len(stack)
      BY <1>1, <3>2 DEF SlotExact
    <3> QED
      BY <1>1, <2>3, <3>1, <3>2
  <2> QED
    BY <2>2, <2>3 DEF SlotExact
<1>5. TimeoutsLive'
  BY <1>1 DEF TimeoutsLive
<1> QED
  BY <1>2, <1>3, <1>4, <1>5

\* The innermost frame is left.
LEMMA PopStep ==
    ASSUME HostInv, stack # <<>>, stack' = Pop, Top.phase # "resumed",
           Top.kind = "timeout" => exited \/ Top.timeout \notin scheduled,
           exited => exitPromise' = "resolved",
           exitPromise' \in {"pending", "resolved"},
           run' \in {"none", "started", "awaiting", "rejected"},
           answers' \in [Events -> Events \cup {"none", "undefined", "thrown"}], AnswersOwnCall',
           UNCHANGED <<pending, results, scheduled, timers, nextTimeout, idle, exited>>
    PROVE  HostInv'
<1> USE DEF HostInv
<1>1. /\ Len(stack) \in Nat \ {0} /\ DOMAIN stack = 1 .. Len(stack)
      /\ stack' \in Seq(Frames) /\ Len(stack') = Len(stack) - 1
      /\ DOMAIN stack' = 1 .. Len(stack) - 1
      /\ \A i \in 1 .. Len(stack) - 1 : stack'[i] = stack[i]
  BY PopFacts DEF HostTypeOK
<1>2. HostTypeOK'
  BY <1>1 DEF HostTypeOK
<1>3. ExitUnderway'
  BY DEF ExitUnderway
<1>4. SlotExact'
  <2>1. \A i \in DOMAIN stack' : stack'[i] = stack[i] /\ stack'[i].phase # "resumed"
    BY <1>1 DEF SlotExact
  <2>2. stack' # <<>> => Top'.phase # "resumed"
    BY <1>1, <2>1 DEF Top
  <2>3. ~exited => pending = NoEvent
    BY DEF SlotExact
  <2> QED
    BY <1>1, <2>1, <2>2, <2>3 DEF SlotExact
<1>5. TimeoutsLive'
  BY <1>1 DEF TimeoutsLive, Top
<1> QED
  BY <1>2, <1>3, <1>4, <1>5

\* The innermost frame goes to another phase.
LEMMA SetTopStep ==
    ASSUME HostInv, stack # <<>>, NEW f \in Frames, stack' = SetTop(f),
           f.kind = Top.kind, f.event = Top.event, f.timeout = Top.timeout,
           f.phase = "resumed" => ~exited',
           f.kind \in Imports => f.phase = "running",
           f.kind = "event" /\ f.phase # "resumed" => f.taken = f.event,
           f.kind # "event" => f.taken = NoEvent,
           f.kind = "event" /\ f.phase = "done" /\ ~exited' => results'[f.event] = f.event,
           results' \in [Events -> Events \cup {"undefined"}],
           \A e \in Events : results'[e] = results[e] \/ results'[e] = e,
           ~exited' => pending' = (IF f.kind = "event" /\ f.phase = "resumed" THEN f.event ELSE NoEvent),
           pending' \in Events \cup {NoEvent},
           exited' \in BOOLEAN, exited => exited', exitPromise' \in {"pending", "resolved"},
           exited' /\ exitPromise' # "resolved" => f.kind \in Activations /\ f.phase = "done",
           NEW C, scheduled' = scheduled \ C, timers' = timers \ C,
           (idle' = idle /\ idle \notin C) \/ idle' = 0,
           UNCHANGED <<answers, nextTimeout, run>>
    PROVE  HostInv'
<1> USE DEF HostInv
<1>1. /\ Len(stack) \in Nat \ {0} /\ DOMAIN stack = 1 .. Len(stack)
      /\ stack' \in Seq(Frames) /\ Len(stack') = Len(stack)
      /\ DOMAIN stack' = 1 .. Len(stack)
      /\ \A i \in 1 .. Len(stack) - 1 : stack'[i] = stack[i]
      /\ stack'[Len(stack)] = f
  BY SetTopFacts DEF HostTypeOK
<1>2. stack' # <<>> /\ Top' = f
  BY <1>1 DEF Top
<1>3. HostTypeOK'
  <2>1. scheduled' \subseteq Nat /\ timers' \subseteq Nat /\ idle' \in Nat /\ nextTimeout' \in Nat
    <3>1. scheduled \subseteq Nat /\ timers \subseteq Nat /\ nextTimeout \in Nat /\ idle \in Nat
      BY DEF HostTypeOK
    <3>2. idle' \in Nat
      BY <3>1
    <3>3. scheduled' \subseteq Nat /\ timers' \subseteq Nat
      BY <3>1, Zenon
    <3> QED
      BY <3>1, <3>2, <3>3
  <2>2. /\ answers' \in [Events -> Events \cup {"none", "undefined", "thrown"}]
        /\ run' \in {"none", "started", "awaiting", "rejected"}
    BY DEF HostTypeOK
  <2> QED
    BY <1>1, <2>1, <2>2 DEF HostTypeOK
<1>4. ExitUnderway' /\ AnswersOwnCall'
  BY <1>2 DEF ExitUnderway, AnswersOwnCall
<1>5. SlotExact'
  <2>1. ~exited' => pending' = IF stack' # <<>> /\ Top'.kind = "event" /\ Top'.phase = "resumed"
                               THEN Top'.event ELSE NoEvent
    BY <1>2
  <2>2. ASSUME NEW i \in DOMAIN stack'
        PROVE  /\ stack'[i].phase = "resumed" => i = Len(stack') /\ ~exited'
               /\ stack'[i].kind \in Imports => stack'[i].phase = "running"
               /\ stack'[i].kind = "event" => stack'[i].event \in Events
               /\ stack'[i].kind = "event" /\ stack'[i].phase # "resumed" => stack'[i].taken = stack'[i].event
               /\ stack'[i].kind # "event" => stack'[i].taken = NoEvent
               /\ stack'[i].kind = "event" /\ stack'[i].phase = "done" /\ ~exited' =>
                     results'[stack'[i].event] = stack'[i].event
    <3>1. CASE i = Len(stack)
      <4>1. Len(stack) \in DOMAIN stack /\ Top = stack[Len(stack)]
        BY <1>1 DEF Top
      <4>2. Top.kind = "event" => Top.event \in Events
        BY <4>1 DEF SlotExact
      <4> QED
        BY <1>1, <3>1, <4>2
    <3>2. CASE i \in 1 .. Len(stack) - 1
      BY <1>1, <3>2 DEF SlotExact
    <3> QED
      BY <1>1, <2>2, <3>1, <3>2
  <2>3. \A e \in Events : results'[e] \in {"undefined", e}
    BY DEF SlotExact
  <2> QED
    BY <2>1, <2>2, <2>3 DEF SlotExact
<1>6. TimeoutsLive'
  <2>1. ASSUME ~exited', NEW t \in scheduled',
               NEW i \in DOMAIN stack, stack[i].kind = "timeout", stack[i].timeout = t
        PROVE  stack'[i].kind = "timeout" /\ stack'[i].timeout = t
    BY <1>1, <2>1 DEF Top
  <2> QED
    BY <1>1, <2>1 DEF TimeoutsLive
<1> QED
  BY <1>3, <1>4, <1>5, <1>6

\* A call of a wrapped function is put on the stack, or throws after the exit.
LEMMA WrapperCallStep ==
    ASSUME HostInv, NEW e \in Events, WrapperCall(e)
    PROVE  HostInv'
<1> DEFINE f == Frame("event", e, 0, "resumed")
<1>1. CASE ~exited
  <2>1. f \in Frames /\ f.kind = "event" /\ f.event = e /\ f.phase = "resumed" /\ f.taken = NoEvent
    BY DEF Frame, Frames, Activations
  <2>2. stack' = Append(stack, f) /\ pending' = e
        /\ UNCHANGED <<results, answers, scheduled, timers, nextTimeout, idle, exited, exitPromise, run>>
    BY <1>1 DEF WrapperCall, timeVars, exitVars
  <2>3. ASSUME NEW i \in DOMAIN stack PROVE stack[i].phase # "resumed"
    <3>1. stack # <<>> /\ Top.kind \in Imports /\ Len(stack) \in DOMAIN stack
      BY DEF WrapperCall, JsRuns, HostInv, HostTypeOK
    <3>2. Top.phase = "running"
      BY <3>1 DEF HostInv, SlotExact, Top
    <3> QED
      BY <3>2 DEF HostInv, SlotExact, Top
  <2> HIDE DEF f
  <2> QED
    BY <1>1, <2>1, <2>2, <2>3, PushStep DEF Imports
<1>2. CASE exited
  <2>1. answers' = [answers EXCEPT ![e] = "thrown"] /\ pending' = e
        /\ UNCHANGED <<stack, results, scheduled, timers, nextTimeout, idle, exited, exitPromise, run>>
    BY <1>2 DEF WrapperCall, timeVars, exitVars
  <2>2. HostTypeOK'
    BY <2>1 DEF HostInv, HostTypeOK
  <2>3. SlotExact' /\ TimeoutsLive' /\ ExitUnderway'
    BY <1>2, <2>1 DEF HostInv, SlotExact, TimeoutsLive, ExitUnderway, Top
  <2>4. AnswersOwnCall'
    BY <1>2, <2>1 DEF HostInv, HostTypeOK, AnswersOwnCall
  <2> QED
    BY <2>2, <2>3, <2>4 DEF HostInv
<1> QED
  BY <1>1, <1>2 DEF HostInv, HostTypeOK

\* A timeout is put on the empty stack, or throws after the exit.
LEMMA TimeoutFiresStep ==
    ASSUME HostInv, NEW t \in timers, TimeoutFires(t)
    PROVE  HostInv'
<1> DEFINE f == Frame("timeout", NoEvent, t, "resumed")
<1>1. /\ stack = <<>> /\ timers' = timers \ {t}
      /\ UNCHANGED <<pending, results, answers, scheduled, nextTimeout, idle, exited, exitPromise, run>>
  BY DEF TimeoutFires, callVars, exitVars
<1>2. CASE ~exited
  <2>1. stack' = Append(stack, f)
    BY <1>1, <1>2 DEF TimeoutFires
  <2>2. f \in Frames /\ f.kind = "timeout" /\ f.phase = "resumed" /\ f.taken = NoEvent /\ f.timeout = t
    BY DEF Frame, Frames, Activations, HostInv, HostTypeOK
  <2>3. pending' = NoEvent
    BY <1>1, <1>2 DEF HostInv, SlotExact
  <2> HIDE DEF f
  <2> QED
    BY <1>1, <1>2, <2>1, <2>2, <2>3, PushStep DEF Imports
<1>3. CASE exited
  <2>1. stack' = stack
    BY <1>1, <1>3 DEF TimeoutFires
  <2>2. HostTypeOK'
    BY <1>1, <2>1 DEF HostInv, HostTypeOK
  <2>3. SlotExact' /\ TimeoutsLive' /\ ExitUnderway' /\ AnswersOwnCall'
    BY <1>1, <1>3, <2>1 DEF HostInv, SlotExact, TimeoutsLive, ExitUnderway, AnswersOwnCall, Top
  <2> QED
    BY <2>2, <2>3 DEF HostInv
<1> QED
  BY <1>2, <1>3 DEF HostInv, HostTypeOK

\* run and the wrapped function return, and with them the exit is made known.
LEMMA ReturnStep ==
    ASSUME HostInv, RunReturns \/ WrapperReturns
    PROVE  HostInv'
<1>1. stack # <<>> /\ stack' = Pop /\ Top.phase = "done" /\ Top.kind # "timeout"
  BY DEF RunReturns, WrapperReturns
<1>2. UNCHANGED <<pending, results, scheduled, timers, nextTimeout, idle, exited>>
  BY DEF RunReturns, WrapperReturns, callVars, timeVars
<1>3. /\ exited => exitPromise' = "resolved"
      /\ exitPromise' \in {"pending", "resolved"}
      /\ run' \in {"none", "started", "awaiting", "rejected"}
  BY DEF RunReturns, WrapperReturns, ResumeSettles, Settle, HostInv, HostTypeOK
<1>4. answers' \in [Events -> Events \cup {"none", "undefined", "thrown"}] /\ AnswersOwnCall'
  <2>1. CASE RunReturns
    BY <1>2, <2>1 DEF RunReturns, callVars, HostInv, HostTypeOK, AnswersOwnCall
  <2>2. CASE WrapperReturns
    <3>1. Len(stack) \in DOMAIN stack /\ Top = stack[Len(stack)]
      BY <1>1 DEF HostInv, HostTypeOK, Top
    <3>2. /\ Top.event \in Events
          /\ ~exited => results[Top.event] = Top.event
          /\ results[Top.event] \in {"undefined", Top.event}
      BY <1>1, <2>2, <3>1 DEF WrapperReturns, HostInv, SlotExact
    <3>3. answers' = [answers EXCEPT ![Top.event] = results[Top.event]]
      BY <2>2 DEF WrapperReturns
    <3> QED
      BY <1>2, <3>2, <3>3 DEF HostInv, HostTypeOK, AnswersOwnCall
  <2> QED
    BY <2>1, <2>2
<1> QED
  BY <1>1, <1>2, <1>3, <1>4, PopStep

\* A frame of Go with another phase: what SetTopStep asks of every such step.
LEMMA PhaseFacts ==
    ASSUME HostInv, stack # <<>>, NEW p \in {"resumed", "running", "done"},
           NEW k \in Events \cup {NoEvent}
    PROVE  /\ Top \in Frames /\ Len(stack) \in DOMAIN stack /\ Top = stack[Len(stack)]
           /\ [Top EXCEPT !.phase = p] \in Frames
           /\ [Top EXCEPT !.phase = p, !.taken = k] \in Frames
<1>1. Top \in Frames /\ Len(stack) \in DOMAIN stack
  BY PopFacts DEF HostInv, HostTypeOK
<1>2. Top = stack[Len(stack)]
  BY DEF Top
<1> HIDE DEF Top
<1> QED
  BY <1>1, <1>2 DEF Frames

\* A timeout is left when Go has seen it or has exited, and tried again otherwise.
LEMMA TimeoutReturnsStep ==
    ASSUME HostInv, TimeoutReturns
    PROVE  HostInv'
<1>1. /\ stack # <<>> /\ Top.kind = "timeout" /\ Top.phase = "done"
      /\ UNCHANGED <<pending, results, answers, scheduled, timers, nextTimeout, idle, exited, run>>
  BY DEF TimeoutReturns, callVars, timeVars
<1>2. /\ exited => exitPromise' = "resolved"
      /\ exitPromise' \in {"pending", "resolved"}
  BY DEF TimeoutReturns, ResumeSettles, Settle, HostInv, HostTypeOK
<1>3. CASE Top.timeout \in scheduled /\ ~exited
  <2> DEFINE f == [Top EXCEPT !.phase = "resumed"]
  <2>1. stack' = SetTop(f)
    BY <1>3 DEF TimeoutReturns
  <2>2. Top \in Frames /\ f \in Frames /\ Len(stack) \in DOMAIN stack /\ Top = stack[Len(stack)]
    BY <1>1, PhaseFacts
  <2>3. f.kind = "timeout" /\ f.event = Top.event /\ f.timeout = Top.timeout
        /\ f.phase = "resumed" /\ f.taken = Top.taken
    BY <1>1, <2>2 DEF Frames
  <2>4. f.taken = NoEvent /\ pending' = NoEvent
    BY <1>1, <1>3, <2>2, <2>3 DEF HostInv, SlotExact
  <2>5. results' \in [Events -> Events \cup {"undefined"}]
    BY <1>1 DEF HostInv, HostTypeOK
  <2> HIDE DEF f
  <2>6. scheduled' = scheduled \ {} /\ timers' = timers \ {} /\ idle' = idle /\ idle \notin {}
    BY <1>1
  <2>7. exited' \in BOOLEAN
    BY <1>1 DEF HostInv, HostTypeOK
  <2> QED
    BY <1>1, <1>2, <1>3, <2>1, <2>2, <2>3, <2>4, <2>5, <2>6, <2>7, SetTopStep DEF Imports
<1>4. CASE ~(Top.timeout \in scheduled /\ ~exited)
  <2>1. stack' = Pop
    BY <1>4 DEF TimeoutReturns
  <2>2. /\ answers' \in [Events -> Events \cup {"none", "undefined", "thrown"}]
        /\ AnswersOwnCall' /\ run' \in {"none", "started", "awaiting", "rejected"}
    BY <1>1 DEF HostInv, HostTypeOK, AnswersOwnCall
  <2> QED
    BY <1>1, <1>2, <1>4, <2>1, <2>2, PopStep
<1> QED
  BY <1>3, <1>4

\* A call from Go is answered.
LEMMA ImportReturnsStep ==
    ASSUME HostInv, ValueReturns \/ SetReturns
    PROVE  HostInv'
<1>1. /\ stack # <<>> /\ Top.kind \in Imports /\ stack' = Pop
      /\ UNCHANGED <<pending, results, answers, scheduled, timers, nextTimeout, idle, exited,
                     exitPromise, run>>
  BY DEF ValueReturns, SetReturns, callVars, timeVars, exitVars, Imports
<1>2. Len(stack) \in DOMAIN stack /\ Top = stack[Len(stack)]
  BY <1>1, PhaseFacts
<1>3. Top.phase = "running"
  BY <1>1, <1>2 DEF HostInv, SlotExact
<1>4. exited => exitPromise' = "resolved"
  BY <1>1, <1>3 DEF HostInv, ExitUnderway
<1>5. /\ answers' \in [Events -> Events \cup {"none", "undefined", "thrown"}]
      /\ AnswersOwnCall' /\ run' \in {"none", "started", "awaiting", "rejected"}
      /\ exitPromise' \in {"pending", "resolved"}
  BY <1>1 DEF HostInv, HostTypeOK, AnswersOwnCall
<1> QED
  BY <1>1, <1>3, <1>4, <1>5, PopStep DEF Imports

\* After the exit an error takes one or two frames off.
LEMMA UnwindStep ==
    ASSUME HostInv, Unwind
    PROVE  HostInv'
<1> DEFINE n == IF Top.kind = "call" THEN Len(stack) - 1 ELSE Len(stack)
<1>1. /\ exited /\ stack # <<>> /\ stack' = SubSeq(stack, 1, n - 1)
      /\ answers' = answers \/ answers' = [answers EXCEPT ![stack[n].event] = "thrown"]
      /\ run' = run \/ run' = "rejected"
      /\ UNCHANGED <<pending, results, scheduled, timers, nextTimeout, idle, exited, exitPromise>>
  BY DEF Unwind, timeVars
<1>2. Len(stack) \in Nat \ {0} /\ DOMAIN stack = 1 .. Len(stack)
  BY <1>1, PopFacts DEF HostInv, HostTypeOK
<1>3. n - 1 \in Int /\ n - 1 <= Len(stack) /\ n - 1 < Len(stack) /\ n \in Int
  BY <1>2
<1> HIDE DEF n
<1>4. /\ stack' \in Seq(Frames)
      /\ n - 1 >= 0 => Len(stack') = n - 1
      /\ n - 1 < 0 => Len(stack') = 0
      /\ \A i \in 1 .. n - 1 : stack'[i] = stack[i]
  <2>1. stack \in Seq(Frames)
    BY DEF HostInv, HostTypeOK
  <2>2. stack' = SubSeq(stack, 1, n - 1) /\ n - 1 \in Int /\ n - 1 <= Len(stack)
    BY <1>1, <1>3
  <2>3. stack' \in Seq(Frames)
    BY <2>1, <2>2, FrontFacts, Zenon
  <2>4. (n - 1 >= 0 => Len(stack') = n - 1) /\ (n - 1 < 0 => Len(stack') = 0)
    BY <2>1, <2>2, FrontFacts
  <2>5. \A i \in 1 .. n - 1 : stack'[i] = stack[i]
    BY <2>1, <2>2, FrontFacts, Zenon
  <2> QED
    BY <2>3, <2>4, <2>5
<1>5. \A i \in DOMAIN stack' : i \in DOMAIN stack /\ i # Len(stack) /\ stack'[i] = stack[i]
  BY <1>2, <1>3, <1>4
<1>6. HostTypeOK'
  <2>1. answers' \in [Events -> Events \cup {"none", "undefined", "thrown"}]
    BY <1>1 DEF HostInv, HostTypeOK
  <2> QED
    BY <1>1, <1>4, <2>1 DEF HostInv, HostTypeOK
<1>7. exitPromise = "resolved"
  BY <1>1 DEF Unwind, GoRuns, HostInv, ExitUnderway, Activations
<1>8. SlotExact'
  <2>1. SlotExact /\ exited' /\ results' = results
    BY <1>1 DEF HostInv
  <2>2. \A i \in DOMAIN stack' : stack'[i] = stack[i] /\ i \in DOMAIN stack /\ stack'[i].phase # "resumed"
    BY <1>5, <2>1 DEF SlotExact
  <2> QED
    BY <2>1, <2>2 DEF SlotExact
<1>9. TimeoutsLive' /\ ExitUnderway'
  BY <1>1, <1>7 DEF HostInv, TimeoutsLive, ExitUnderway
<1>10. AnswersOwnCall'
  BY <1>1 DEF HostInv, HostTypeOK, AnswersOwnCall
<1> QED
  BY <1>6, <1>8, <1>9, <1>10 DEF HostInv

\* Go calls into JavaScript.
LEMMA ImportStep ==
    ASSUME HostInv, NEW kind \in Imports, Import(kind)
    PROVE  HostInv'
<1> DEFINE f == Frame(kind, NoEvent, 0, "running")
<1>1. f \in Frames /\ f.kind = kind /\ f.phase = "running" /\ f.taken = NoEvent
  BY DEF Frame, Frames
<1>2. /\ stack # <<>> /\ Top.phase = "running" /\ ~exited /\ stack' = Append(stack, f)
      /\ UNCHANGED <<pending, results, answers, scheduled, timers, nextTimeout, idle, exited,
                     exitPromise, run>>
  BY DEF Import, GoRuns, callVars, timeVars, exitVars
<1> HIDE DEF f
<1>3. \A i \in DOMAIN stack : stack[i].phase # "resumed"
  BY <1>2 DEF HostInv, SlotExact, Top
<1>4. pending' = NoEvent
  BY <1>2 DEF HostInv, SlotExact
<1> QED
  BY <1>1, <1>2, <1>3, <1>4, PushStep DEF Imports

\* A timeout is scheduled in place of the one Go waited for.
LEMMA ScheduleStep ==
    ASSUME HostInv, ScheduleTimeoutEvent
    PROVE  HostInv'
<1>1. /\ scheduled' = (scheduled \ {idle}) \cup {nextTimeout}
      /\ timers' = (timers \ {idle}) \cup {nextTimeout}
      /\ nextTimeout' = nextTimeout + 1 /\ idle' = nextTimeout
      /\ UNCHANGED <<stack, pending, results, answers, exited, exitPromise, run>>
  BY DEF ScheduleTimeoutEvent, callVars, exitVars
<1>2. HostTypeOK'
  BY <1>1 DEF HostInv, HostTypeOK
<1>3. SlotExact' /\ ExitUnderway' /\ AnswersOwnCall'
  BY <1>1 DEF HostInv, SlotExact, ExitUnderway, AnswersOwnCall, Top
<1>4. TimeoutsLive'
  BY <1>1 DEF HostInv, TimeoutsLive
<1> QED
  BY <1>2, <1>3, <1>4 DEF HostInv

\* The program exits in the innermost activation.
LEMMA ExitStep ==
    ASSUME HostInv, WasmExit
    PROVE  HostInv'
<1> DEFINE f == [Top EXCEPT !.phase = "done"]
<1>1. /\ stack # <<>> /\ Top.kind \in Activations /\ Top.phase = "running" /\ ~exited
      /\ exited' = TRUE /\ stack' = SetTop(f)
      /\ UNCHANGED <<pending, results, answers, scheduled, timers, nextTimeout, idle, exitPromise, run>>
  BY DEF WasmExit, GoRuns, callVars, timeVars
<1>2. Top \in Frames /\ f \in Frames /\ Len(stack) \in DOMAIN stack /\ Top = stack[Len(stack)]
  BY <1>1, PhaseFacts
<1>3. f.kind = Top.kind /\ f.event = Top.event /\ f.timeout = Top.timeout
      /\ f.phase = "done" /\ f.taken = Top.taken
  BY <1>2 DEF Frames
<1> HIDE DEF f
<1>4. /\ f.kind = "event" => f.taken = f.event
      /\ f.kind # "event" => f.taken = NoEvent
      /\ f.kind \notin Imports
  BY <1>1, <1>2, <1>3 DEF HostInv, SlotExact, Imports, Activations
<1>5. /\ results' \in [Events -> Events \cup {"undefined"}] /\ pending' \in Events \cup {NoEvent}
      /\ exitPromise' \in {"pending", "resolved"}
      /\ scheduled' = scheduled \ {} /\ timers' = timers \ {} /\ idle' = idle /\ idle \notin {}
  BY <1>1 DEF HostInv, HostTypeOK
<1> QED
  BY <1>1, <1>2, <1>3, <1>4, <1>5, SetTopStep

\* Go takes up the activation: the event in the slot, or the timeout.
LEMMA PickUpStep ==
    ASSUME HostInv, GoPicksUp
    PROVE  HostInv'
<1> DEFINE f == [Top EXCEPT !.phase = "running", !.taken = pending]
<1>1. /\ stack # <<>> /\ Top.phase = "resumed" /\ stack' = SetTop(f)
      /\ UNCHANGED <<results, answers, nextTimeout, exited, exitPromise, run>>
  BY DEF GoPicksUp, exitVars, timeVars
<1>2. Top \in Frames /\ f \in Frames /\ Len(stack) \in DOMAIN stack /\ Top = stack[Len(stack)]
  BY <1>1, PhaseFacts DEF HostInv, HostTypeOK
<1>3. f.kind = Top.kind /\ f.event = Top.event /\ f.timeout = Top.timeout
      /\ f.phase = "running" /\ f.taken = pending
  BY <1>2 DEF Frames
<1> HIDE DEF f
<1>4. /\ ~exited
      /\ pending = IF Top.kind = "event" THEN Top.event ELSE NoEvent
      /\ Top.kind = "event" => Top.event \in Events
  BY <1>1, <1>2 DEF HostInv, SlotExact
<1>5. /\ results' \in [Events -> Events \cup {"undefined"}] /\ exited' \in BOOLEAN
      /\ exitPromise' \in {"pending", "resolved"}
  BY <1>1 DEF HostInv, HostTypeOK
<1>6. pending' = NoEvent
  BY DEF GoPicksUp
<1>7. \E C : scheduled' = scheduled \ C /\ timers' = timers \ C /\ ((idle' = idle /\ idle \notin C) \/ idle' = 0)
  <2>1. CASE pending # NoEvent
    <3>1. scheduled' = scheduled \ {} /\ timers' = timers \ {} /\ idle' = idle /\ idle \notin {}
      BY <2>1 DEF GoPicksUp, timeVars
    <3> QED
      BY <3>1, Zenon
  <2>2. CASE pending = NoEvent
    <3>1. scheduled' = scheduled \ {idle} /\ timers' = timers \ {idle} /\ idle' = 0
      BY <2>2 DEF GoPicksUp, ClearTimeoutEvent
    <3> QED
      BY <3>1, Zenon
  <2> QED
    BY <2>1, <2>2
<1>8. PICK C : scheduled' = scheduled \ C /\ timers' = timers \ C /\ ((idle' = idle /\ idle \notin C) \/ idle' = 0)
  BY <1>7
<1>9. f.kind \notin Imports
  BY <1>1, <1>2, <1>3 DEF HostInv, SlotExact
<1>10. /\ f.kind = "event" => f.taken = f.event
       /\ f.kind # "event" => f.taken = NoEvent
  BY <1>3, <1>4
<1> QED
  BY <1>1, <1>2, <1>3, <1>4, <1>5, <1>6, <1>8, <1>9, <1>10, SetTopStep

\* Go does not notice its timeout.
LEMMA MissStep ==
    ASSUME HostInv, GoMisses
    PROVE  HostInv'
<1> DEFINE f == [Top EXCEPT !.phase = "running", !.taken = NoEvent]
<1>1. /\ stack # <<>> /\ stack' = SetTop(f) /\ Top.kind = "timeout" /\ Top.phase = "resumed"
      /\ UNCHANGED <<pending, results, answers, scheduled, timers, nextTimeout, idle, exited,
                     exitPromise, run>>
  BY DEF GoMisses, callVars, timeVars, exitVars
<1>2. Top \in Frames /\ f \in Frames /\ Len(stack) \in DOMAIN stack /\ Top = stack[Len(stack)]
  BY <1>1, PhaseFacts
<1>3. f.kind = "timeout" /\ f.event = Top.event /\ f.timeout = Top.timeout
      /\ f.phase = "running" /\ f.taken = NoEvent
  BY <1>1, <1>2 DEF Frames
<1> HIDE DEF f
<1>4. ~exited /\ pending' = NoEvent
  BY <1>1, <1>2 DEF HostInv, SlotExact
<1>5. /\ pending' \in Events \cup {NoEvent} /\ exited' \in BOOLEAN
      /\ exitPromise' \in {"pending", "resolved"}
      /\ results' \in [Events -> Events \cup {"undefined"}]
      /\ scheduled' = scheduled \ {} /\ timers' = timers \ {} /\ idle' = idle /\ idle \notin {}
  BY <1>1 DEF HostInv, HostTypeOK
<1> QED
  BY <1>1, <1>2, <1>3, <1>4, <1>5, SetTopStep DEF Imports

\* The handler has finished.
LEMMA PauseStep ==
    ASSUME HostInv, GoPauses
    PROVE  HostInv'
<1> DEFINE f == [Top EXCEPT !.phase = "done"]
<1>1. /\ stack # <<>> /\ stack' = SetTop(f) /\ Top.kind \in Activations /\ Top.phase = "running"
      /\ UNCHANGED <<pending, answers, scheduled, timers, nextTimeout, idle, exited, exitPromise, run>>
  BY DEF GoPauses, GoRuns, timeVars, exitVars
<1>2. Top \in Frames /\ f \in Frames /\ Len(stack) \in DOMAIN stack /\ Top = stack[Len(stack)]
  BY <1>1, PhaseFacts
<1>3. f.kind = Top.kind /\ f.event = Top.event /\ f.timeout = Top.timeout
      /\ f.phase = "done" /\ f.taken = Top.taken /\ Top.taken \in Events \cup {NoEvent}
  BY <1>2 DEF Frames
<1> HIDE DEF f
<1>4. /\ f.kind = "event" => f.taken = f.event /\ f.event \in Events
      /\ f.kind # "event" => f.taken = NoEvent
      /\ f.kind \notin Imports
  BY <1>1, <1>2, <1>3 DEF HostInv, SlotExact, Activations, Imports
<1>5. /\ pending' \in Events \cup {NoEvent} /\ exited' \in BOOLEAN
      /\ exitPromise' \in {"pending", "resolved"}
      /\ scheduled' = scheduled \ {} /\ timers' = timers \ {} /\ idle' = idle /\ idle \notin {}
  BY <1>1 DEF HostInv, HostTypeOK
<1>6. /\ results' \in [Events -> Events \cup {"undefined"}]
      /\ \A e \in Events : results'[e] = results[e] \/ results'[e] = e
      /\ f.kind = "event" /\ ~exited' => results'[f.event] = f.event
  <2>1. results' = IF Top.taken = NoEvent \/ exited THEN results
                   ELSE [results EXCEPT ![Top.taken] = Top.taken]
    BY DEF GoPauses
  <2>2. results \in [Events -> Events \cup {"undefined"}]
    BY DEF HostInv, HostTypeOK
  <2> QED
    BY <1>1, <1>3, <1>4, <2>1, <2>2, HostAssumption
<1>7. ~exited' => pending' = NoEvent
  BY <1>1, <1>2 DEF HostInv, SlotExact
<1>8. exited => exitPromise = "resolved"
  BY <1>1 DEF HostInv, ExitUnderway
<1> QED
  BY <1>1, <1>2, <1>3, <1>4, <1>5, <1>6, <1>7, <1>8, SetTopStep

\* Every step keeps the invariant.
LEMMA HostInductive ==
    ASSUME HostInv, RunFirst, [Next]_vars
    PROVE  HostInv'
<1>1. CASE UNCHANGED vars
  BY <1>1, QuietStep DEF vars, exitVars, HostInv, HostTypeOK
<1>2. CASE RunNothing
  BY <1>2, QuietStep DEF RunNothing
<1>3. ASSUME NEW h \in Handles, Finalize(h) PROVE HostInv'
  BY <1>3, QuietStep DEF Finalize, exitVars, HostInv, HostTypeOK
<1>4. ASSUME NEW h \in Handles, NEW v \in JsValues, GiveValue(h, v) PROVE HostInv'
  BY <1>4, QuietStep DEF GiveValue, exitVars, HostInv, HostTypeOK
<1>5. CASE GoStep
  BY <1>3, <1>4, <1>5, ScheduleStep, ExitStep, PickUpStep, MissStep, PauseStep, ImportStep DEF GoStep
<1>6. CASE HostStep
  BY <1>6, ReturnStep, TimeoutReturnsStep, ImportReturnsStep, UnwindStep DEF HostStep
<1>7. CASE PageStep
  BY <1>2, <1>7, RunStep, WrapperCallStep, TimeoutFiresStep DEF PageStep
<1> QED
  BY <1>1, <1>5, <1>6, <1>7 DEF Next

\* Nothing happens before run.
LEMMA RunFirstInductive ==
    ASSUME HostInv, RunFirst, [Next]_vars
    PROVE  RunFirst'
<1>1. CASE run # "none"
  <2>1. run' # "none"
    BY <1>1 DEF Next, GoStep, HostStep, PageStep, ScheduleTimeoutEvent, WasmExit, GoPicksUp, GoMisses,
       GoPauses, Finalize, GiveValue, Import, RunReturns, WrapperReturns, TimeoutReturns, ValueReturns,
       SetReturns, Unwind, RunNothing, Run, WrapperCall, TimeoutFires, exitVars, vars
  <2> QED
    BY <2>1 DEF RunFirst
<1>2. CASE run = "none"
  <2>1. stack = <<>> /\ timers = {} /\ ~exited
    BY <1>2 DEF RunFirst
  <2>2. ~GoStep /\ ~HostStep
    BY <2>1 DEF GoStep, HostStep, ScheduleTimeoutEvent, WasmExit, GoPicksUp, GoMisses,
       GoPauses, Finalize, GiveValue, Import, RunReturns, WrapperReturns, TimeoutReturns, ValueReturns,
       SetReturns, Unwind, GoRuns
  <2>3. CASE PageStep
    BY <1>2, <2>1, <2>3 DEF PageStep, RunNothing, Run, WrapperCall, TimeoutFires, RunFirst
  <2>4. CASE UNCHANGED vars
    BY <2>1, <2>4 DEF vars, timeVars, exitVars, RunFirst
  <2> QED
    BY <2>2, <2>3, <2>4 DEF Next
<1> QED
  BY <1>1, <1>2

\* The invariant of the host.
LEMMA HostInvariant == Spec => [](HostInv /\ RunFirst)
<1>1. Init => HostInv /\ RunFirst
  BY HostInitial DEF Init, RunFirst
<1>2. HostInv /\ RunFirst /\ [Next]_vars => HostInv' /\ RunFirst'
  BY HostInductive, RunFirstInductive
<1> QED
  BY <1>1, <1>2, PTL DEF Spec

(***************************************************************************)
(* wasm_exec.js never loses a timeout of the Go program: while it runs,    *)
(* every scheduled timeout is armed or in its callback.                    *)
(***************************************************************************)
THEOREM TimeoutsCorrect == Spec => []TimeoutsLive
  BY HostInvariant, PTL DEF HostInv

(***************************************************************************)
(* A call of a function made by _makeFuncWrapper gets its own result, at   *)
(* any depth of nesting.                                                   *)
(***************************************************************************)
THEOREM AnswersCorrect == Spec => []AnswersOwnCall
  BY HostInvariant, PTL DEF HostInv

(***************************************************************************)
(* Once the program has exited and the stack is empty, _exitPromise is     *)
(* resolved.                                                               *)
(***************************************************************************)
THEOREM ExitCorrect == Spec => []ExitSettles
<1>1. HostInv => ExitSettles
  BY DEF HostInv, ExitUnderway, ExitSettles
<1> QED
  BY <1>1, HostInvariant, PTL

--------------------------------------------------------------------------------
(* The reference table *)

\* The seven values the table starts with.
LEMMA PinnedFacts ==
    /\ Len(Pinned) = 7 /\ DOMAIN Pinned = 1 .. 7 /\ PinnedIds = 0 .. 6
    /\ {Pinned[i] : i \in DOMAIN Pinned} = {"NaN", "0", "null", "true", "false", "globalThis", "go"}
    /\ Objects \cap {"NaN", "0", "null", "true", "false", "globalThis", "go", "undefined", "number"} = {}
<1>1. /\ Len(Pinned) = 7 /\ DOMAIN Pinned = 1 .. 7
      /\ Pinned[1] = "NaN" /\ Pinned[2] = "0" /\ Pinned[3] = "null" /\ Pinned[4] = "true"
      /\ Pinned[5] = "false" /\ Pinned[6] = "globalThis" /\ Pinned[7] = "go"
  BY DEF Pinned
<1>2. PinnedIds = 0 .. 6
  BY <1>1 DEF PinnedIds
<1> HIDE DEF Pinned
<1>3. {Pinned[i] : i \in DOMAIN Pinned} = {"NaN", "0", "null", "true", "false", "globalThis", "go"}
  BY <1>1
<1> QED
  BY <1>1, <1>2, <1>3, RefAssumption DEF Immediate

\* As many handles have an id as there are elements in a finite set.
LEMMA HoldersFinite ==
    ASSUME NEW i
    PROVE  IsFiniteSet(Holders(i)) /\ Cardinality(Holders(i)) \in Nat
<1>1. Holders(i) \subseteq Handles
  BY DEF Holders
<1>2. IsFiniteSet(Holders(i))
  BY <1>1, RefAssumption, FS_Subset
<1> QED
  BY <1>2, FS_CardinalityType

\* A free handle that gets a reference is one more holder of its id.
LEMMA HolderAdded ==
    ASSUME HeldExact, NEW h \in Handles, held[h] = NoRef,
           NEW i \in Nat \cup {Inline}, NEW v \in JsValues, held' = [held EXCEPT ![h] = Ref(i, v)]
    PROVE  /\ held' \in [Handles -> Refs \cup {NoRef}]
           /\ held'[h] = Ref(i, v) /\ held'[h] # NoRef /\ held'[h].id = i /\ held'[h].value = v
           /\ \A g \in Handles : g # h => held'[g] = held[g]
           /\ Cardinality(Holders(i)') = Cardinality(Holders(i)) + 1
           /\ \A j : j # i => Holders(j)' = Holders(j)
<1>1. Ref(i, v) \in Refs /\ Ref(i, v) # NoRef /\ Ref(i, v).id = i /\ Ref(i, v).value = v
  BY RefAssumption DEF Ref, Refs
<1>2. held \in [Handles -> Refs \cup {NoRef}]
  BY DEF HeldExact
<1>3. /\ held' \in [Handles -> Refs \cup {NoRef}]
      /\ held'[h] = Ref(i, v) /\ \A g \in Handles : g # h => held'[g] = held[g]
  BY <1>1, <1>2
<1>4. Holders(i)' = Holders(i) \cup {h} /\ h \notin Holders(i)
  BY <1>1, <1>3 DEF Holders
<1>5. ASSUME NEW j, j # i PROVE Holders(j)' = Holders(j)
  BY <1>1, <1>3, <1>5 DEF Holders
<1>6. Cardinality(Holders(i) \cup {h}) = Cardinality(Holders(i)) + 1
  BY <1>4, HoldersFinite, FS_AddElement
<1> QED
  BY <1>1, <1>3, <1>4, <1>5, <1>6

\* A handle that is dropped is one holder less.
LEMMA HolderDropped ==
    ASSUME HeldExact, NEW h \in Handles, held[h] # NoRef, NEW i, i = held[h].id,
           held' = [held EXCEPT ![h] = NoRef]
    PROVE  /\ held' \in [Handles -> Refs \cup {NoRef}]
           /\ held'[h] = NoRef /\ \A g \in Handles : g # h => held'[g] = held[g]
           /\ h \in Holders(i)
           /\ Cardinality(Holders(i)') = Cardinality(Holders(i)) - 1
           /\ Holders(i)' = Holders(i) \ {h}
           /\ \A j : j # i => Holders(j)' = Holders(j)
<1>1. held \in [Handles -> Refs \cup {NoRef}]
  BY DEF HeldExact
<1>2. /\ held' \in [Handles -> Refs \cup {NoRef}]
      /\ held'[h] = NoRef /\ \A g \in Handles : g # h => held'[g] = held[g]
  BY <1>1
<1>3. ASSUME NEW j PROVE Holders(j)' = Holders(j) \ {h}
  BY <1>2 DEF Holders
<1>4. h \in Holders(i) /\ \A j : j # i => h \notin Holders(j)
  BY DEF Holders
<1>5. Cardinality(Holders(i) \ {h}) = Cardinality(Holders(i)) - 1
  BY <1>4, HoldersFinite, FS_RemoveElement
<1> QED
  BY <1>2, <1>3, <1>4, <1>5

\* The tables that run makes.
LEMMA MakeTablesLive ==
    ASSUME NoTables, MakeTables
    PROVE  TableLive'
<1>1. /\ PinnedIds = 0 .. 6 /\ Len(Pinned) = 7
      /\ Pinned[1] = "NaN" /\ Pinned[2] = "0" /\ Pinned[3] = "null" /\ Pinned[4] = "true"
      /\ Pinned[5] = "false" /\ Pinned[6] = "globalThis" /\ Pinned[7] = "go"
  BY PinnedFacts DEF Pinned
<1>2. /\ DOMAIN values' = 0 .. 6 /\ DOMAIN counts' = 0 .. 6
      /\ \A i \in 0 .. 6 : values'[i] = Pinned[i + 1] /\ counts'[i] = Infinity
  BY <1>1 DEF MakeTables
<1>3. pool' = <<>> /\ held' = [h \in Handles |-> NoRef]
  BY DEF MakeTables, NoTables
<1>4. DomainOK' /\ Entries' = {}
  <2>1. Cardinality(0 .. 6) = IF 0 > 6 THEN 0 ELSE 6 - 0 + 1
    <3>1. 0 \in Int /\ 6 \in Int
      OBVIOUS
    <3> QED
      BY <3>1, FS_Interval, Zenon
  <2> QED
    BY <1>1, <1>2, <2>1 DEF DomainOK, Entries
<1>5. CountsExact'
  BY <1>4 DEF CountsExact
<1>6. IdsExact'
  <2>1. {Pinned[i + 1] : i \in 1 .. Len(Pinned) - 1} = {"0", "null", "true", "false", "globalThis", "go"}
    BY <1>1
  <2>2. DOMAIN ids' = {"0", "null", "true", "false", "globalThis", "go"}
    BY <2>1 DEF MakeTables
  <2>3. ASSUME NEW v \in DOMAIN ids'
        PROVE  ids'[v] \in PinnedIds /\ Pinned[ids'[v] + 1] = v
    <3>1. ids'[v] = CHOOSE i \in PinnedIds : Pinned[i + 1] = v
      BY <2>1, <2>2, <2>3 DEF MakeTables
    <3>2. \E i \in PinnedIds : Pinned[i + 1] = v
      <4>1. v \in {Pinned[i + 1] : i \in 1 .. Len(Pinned) - 1}
        BY <2>1, <2>2, <2>3
      <4> QED
        BY <1>1, <4>1
    <3> QED
      BY <3>1, <3>2
  <2>4. \A v \in DOMAIN ids' : v \notin Objects
    BY <2>2, PinnedFacts
  <2>5. JsValues \ (Objects \cup Immediate \cup {"NaN"}) \subseteq DOMAIN ids'
    BY <2>2, PinnedFacts DEF JsValues
  <2> QED
    BY <1>1, <1>2, <2>3, <2>4, <2>5 DEF IdsExact
<1>7. PoolExact'
  BY <1>3 DEF PoolExact
<1>8. HeldExact'
  BY <1>3 DEF HeldExact
<1> QED
  BY <1>4, <1>5, <1>6, <1>7, <1>8 DEF TableLive

\* The ids of the table are numbers, and so is what an entry counts.
LEMMA TableFacts ==
    ASSUME TableLive
    PROVE  /\ DOMAIN values \subseteq Nat /\ PinnedIds \subseteq DOMAIN values
           /\ Entries \subseteq Nat /\ Entries \subseteq DOMAIN values
           /\ Entries \cap PinnedIds = {}
           /\ DOMAIN counts = DOMAIN values
           /\ \A i \in Entries : counts[i] \in Nat /\ counts[i] # Infinity
<1>1. DOMAIN values \subseteq Nat /\ PinnedIds \subseteq DOMAIN values /\ DOMAIN counts = DOMAIN values
  BY PinnedFacts DEF TableLive, DomainOK
<1>2. ASSUME NEW i \in Entries PROVE counts[i] \in Nat
  BY <1>2, HoldersFinite DEF TableLive, CountsExact
<1> QED
  BY <1>1, <1>2, RefAssumption DEF Entries

\* storeValue: a number, undefined or NaN.
LEMMA StoreImmediateLive ==
    ASSUME TableLive, NEW h \in Handles, held[h] = NoRef, NEW v \in JsValues, StoreImmediate(h, v)
    PROVE  TableLive'
<1>1. PICK i \in {0, Inline} : i = IF v = "NaN" THEN 0 ELSE Inline
  OBVIOUS
<1>2. held' = [held EXCEPT ![h] = Ref(i, v)] /\ UNCHANGED <<values, counts, ids, pool>>
  BY <1>1 DEF StoreImmediate
<1>3. v \in {"NaN", "undefined", "number"}
  BY DEF StoreImmediate, Immediate
<1>4. /\ held' \in [Handles -> Refs \cup {NoRef}]
      /\ held'[h].id = i /\ held'[h].value = v
      /\ \A g \in Handles : g # h => held'[g] = held[g]
      /\ \A j : j # i => Holders(j)' = Holders(j)
  <2>1. HeldExact /\ i \in Nat \cup {Inline}
    BY DEF TableLive
  <2> QED
    BY <1>2, <2>1, HolderAdded
<1>5. Entries' = Entries /\ \A j \in Entries : j # i
  BY <1>2, TableFacts, PinnedFacts, RefAssumption DEF Entries
<1>6. CountsExact'
  BY <1>2, <1>4, <1>5 DEF TableLive, CountsExact
<1>7. DomainOK' /\ IdsExact' /\ PoolExact'
  BY <1>2, <1>5 DEF TableLive, DomainOK, IdsExact, PoolExact
<1>8. HeldExact'
  <2>1. v \notin Objects /\ 0 \in PinnedIds /\ Inline # 0
    BY <1>3, PinnedFacts, RefAssumption
  <2>2. 0 \in DOMAIN values /\ values[0] = "NaN"
    BY <2>1, PinnedFacts, TableFacts DEF TableLive, DomainOK, Pinned
  <2>3. i = Inline => v \in Immediate
    BY <1>1, <1>3, <2>1 DEF Immediate
  <2>4. i # Inline => i = 0 /\ v = "NaN"
    BY <1>1
  <2> QED
    BY <1>2, <1>4, <1>5, <2>1, <2>2, <2>3, <2>4 DEF TableLive, HeldExact
<1> QED
  BY <1>6, <1>7, <1>8 DEF TableLive

\* storeValue: a value that has an entry.
LEMMA StoreKnownLive ==
    ASSUME TableLive, NEW h \in Handles, held[h] = NoRef, NEW v \in JsValues, StoreKnown(h, v)
    PROVE  TableLive'
<1>1. v \in DOMAIN ids /\ UNCHANGED <<values, ids, pool>>
  BY DEF StoreKnown
<1>2. PICK i \in DOMAIN values : i = ids[v]
  BY <1>1 DEF TableLive, IdsExact
<1>3. /\ values[i] = v
      /\ v \in Objects => i \in Entries /\ counts[i] # 0
      /\ v \notin Objects => i \in PinnedIds
  BY <1>1, <1>2 DEF TableLive, IdsExact
<1>4. /\ counts' = [counts EXCEPT ![i] = Plus(@)] /\ held' = [held EXCEPT ![h] = Ref(i, v)]
      /\ i \in Nat
  BY <1>2, TableFacts DEF StoreKnown
<1>5. /\ held' \in [Handles -> Refs \cup {NoRef}]
      /\ held'[h].id = i /\ held'[h].value = v
      /\ \A g \in Handles : g # h => held'[g] = held[g]
      /\ Cardinality(Holders(i)') = Cardinality(Holders(i)) + 1
      /\ \A j : j # i => Holders(j)' = Holders(j)
  <2>1. HeldExact /\ i \in Nat \cup {Inline}
    BY <1>4 DEF TableLive
  <2> QED
    BY <1>4, <2>1, HolderAdded
<1>6. Entries' = Entries
  BY <1>1 DEF Entries
<1>7. /\ DOMAIN counts' = DOMAIN counts
      /\ \A j \in DOMAIN counts : j # i => counts'[j] = counts[j]
      /\ i \in Entries => counts'[i] = counts[i] + 1
      /\ i \in PinnedIds => counts'[i] = Infinity
  <2>1. /\ DOMAIN counts' = DOMAIN counts /\ counts'[i] = Plus(counts[i])
        /\ \A j \in DOMAIN counts : j # i => counts'[j] = counts[j]
    BY <1>2, <1>4, TableFacts
  <2>2. i \in PinnedIds => counts[i] = Infinity
    BY DEF TableLive, DomainOK
  <2>3. i \in Entries => counts[i] # Infinity
    BY TableFacts
  <2> QED
    BY <2>1, <2>2, <2>3 DEF Plus
<1>8. DomainOK'
  BY <1>1, <1>7, TableFacts DEF TableLive, DomainOK
<1>9. CountsExact'
  BY <1>5, <1>6, <1>7, TableFacts DEF TableLive, CountsExact
<1>10. IdsExact'
  <2>1. \A j \in Entries : counts[j] # 0 => counts'[j] # 0
    BY <1>7, TableFacts
  <2> QED
    BY <1>1, <1>6, <2>1 DEF TableLive, IdsExact
<1>11. PoolExact'
  <2>1. \A k \in DOMAIN pool : pool[k] \in Entries /\ counts[pool[k]] = 0
    BY DEF TableLive, PoolExact
  <2>2. i \in PinnedIds => i \notin Entries
    BY TableFacts
  <2>3. \A k \in DOMAIN pool : pool[k] # i
    BY <1>3, <2>1, <2>2
  <2>4. \A k \in DOMAIN pool : counts'[pool[k]] = 0
    BY <1>7, <2>1, <2>3, TableFacts DEF Entries
  <2> QED
    BY <1>1, <1>6, <2>4 DEF TableLive, PoolExact
<1>12. HeldExact'
  <2>1. i # Inline
    BY <1>4, RefAssumption
  <2> QED
    BY <1>1, <1>2, <1>3, <1>5, <1>6, <2>1 DEF TableLive, HeldExact
<1> QED
  BY <1>8, <1>9, <1>10, <1>11, <1>12 DEF TableLive

\* The id for a new value is one that nobody holds and no value has: after the
\* entries, or the last of the pool.
LEMMA FreshId ==
    ASSUME TableLive, NEW h \in Handles, NEW v \in JsValues, StoreNew(h, v),
           NEW i, i = IF pool = <<>> THEN Cardinality(DOMAIN values) ELSE pool[Len(pool)]
    PROVE  /\ i \in Nat /\ i \notin PinnedIds
           /\ Holders(i) = {}
           /\ \A w \in DOMAIN ids : ids[w] # i
           /\ Cardinality(DOMAIN values \cup {i}) \in Nat
           /\ Cardinality(DOMAIN values \cup {i}) >= Len(Pinned)
           /\ DOMAIN values \cup {i} = 0 .. Cardinality(DOMAIN values \cup {i}) - 1
           /\ pool' \in Seq(Entries)
           /\ \A k \in DOMAIN pool' : k \in DOMAIN pool /\ pool'[k] = pool[k] /\ pool[k] # i
<1> DEFINE n == Cardinality(DOMAIN values)
<1>1. n \in Nat /\ n >= 7 /\ DOMAIN values = 0 .. n - 1
  BY PinnedFacts DEF TableLive, DomainOK
<1>2. \A g \in Handles : held[g] # NoRef => held[g].id = Inline \/ held[g].id \in DOMAIN values
  BY DEF TableLive, HeldExact
<1>3. pool \in Seq(Entries) /\ Entries \subseteq DOMAIN values
  BY TableFacts DEF TableLive, PoolExact
<1>4. CASE pool = <<>>
  <2>1. i = n /\ pool' = pool
    BY <1>4 DEF StoreNew
  <2> HIDE DEF n
  <2>2. i \in Nat /\ i \notin PinnedIds /\ i \notin DOMAIN values /\ i # Inline
    BY <1>1, <2>1, PinnedFacts, RefAssumption
  <2>3. Holders(i) = {}
    BY <1>2, <2>2 DEF Holders
  <2>4. \A w \in DOMAIN ids : ids[w] # i
    BY <2>2 DEF TableLive, IdsExact
  <2>5. Cardinality(DOMAIN values \cup {i}) = n + 1 /\ DOMAIN values \cup {i} = 0 .. n
    <3>1. DOMAIN values \cup {i} = 0 .. n
      BY <1>1, <2>1
    <3>2. Cardinality(0 .. n) = IF 0 > n THEN 0 ELSE n - 0 + 1
      <4>1. 0 \in Int /\ n \in Int
        BY <1>1
      <4> QED
        BY <4>1, FS_Interval, Zenon
    <3> QED
      BY <1>1, <3>1, <3>2
  <2>6. n + 1 \in Nat /\ n + 1 >= Len(Pinned) /\ n + 1 - 1 = n
    BY <1>1, PinnedFacts
  <2>7. DOMAIN pool' = {}
    BY <1>4, <2>1
  <2>8. /\ Cardinality(DOMAIN values \cup {i}) \in Nat
        /\ Cardinality(DOMAIN values \cup {i}) >= Len(Pinned)
        /\ DOMAIN values \cup {i} = 0 .. Cardinality(DOMAIN values \cup {i}) - 1
    <3>1. /\ Cardinality(DOMAIN values \cup {i}) \in Nat
          /\ Cardinality(DOMAIN values \cup {i}) >= Len(Pinned)
          /\ n = Cardinality(DOMAIN values \cup {i}) - 1
      <4>1. n \in Nat /\ Cardinality(DOMAIN values \cup {i}) = n + 1 /\ n + 1 >= Len(Pinned)
        BY <1>1, <2>5, <2>6, Zenon
      <4> QED
        BY <4>1
    <3> QED
      BY <2>5, <3>1, Zenon
  <2>9. pool' \in Seq(Entries)
    BY <1>3, <2>1
  <2> QED
    BY <2>2, <2>3, <2>4, <2>7, <2>8, <2>9
<1>5. CASE pool # <<>>
  <2>1. i = pool[Len(pool)] /\ pool' = SubSeq(pool, 1, Len(pool) - 1)
    BY <1>5 DEF StoreNew
  <2>2. Len(pool) \in Nat \ {0} /\ DOMAIN pool = 1 .. Len(pool)
    BY <1>3, <1>5
  <2>3. i \in Entries /\ counts[i] = 0
    BY <1>3, <2>1, <2>2 DEF TableLive, PoolExact
  <2>4. i \in Nat /\ i \notin PinnedIds /\ i \in DOMAIN values
    BY <2>3, TableFacts
  <2>5. Holders(i) = {}
    <3>1. Cardinality(Holders(i)) = 0
      BY <2>3 DEF TableLive, CountsExact
    <3> QED
      BY <3>1, HoldersFinite, FS_EmptySet
  <2>6. \A w \in DOMAIN ids : ids[w] # i
    BY <2>3, <2>4 DEF TableLive, IdsExact
  <2>7. DOMAIN values \cup {i} = DOMAIN values
    BY <2>4
  <2>8. /\ pool' \in Seq(Entries) /\ Len(pool') = Len(pool) - 1
        /\ \A k \in 1 .. Len(pool) - 1 : pool'[k] = pool[k]
    <3>1. Len(pool) - 1 \in Int /\ Len(pool) - 1 <= Len(pool) /\ Len(pool) - 1 >= 0
      BY <2>2
    <3>2. pool' \in Seq(Entries)
      BY <1>3, <2>1, <3>1, FrontFacts, Zenon
    <3>3. Len(pool') = Len(pool) - 1
      BY <1>3, <2>1, <3>1, FrontFacts, Zenon
    <3>4. ASSUME NEW k \in 1 .. Len(pool) - 1 PROVE pool'[k] = pool[k]
      BY <1>3, <2>1, <3>1, <3>4, FrontFacts
    <3> QED
      BY <3>2, <3>3, <3>4
  <2>9. \A k \in DOMAIN pool' : k \in DOMAIN pool /\ pool'[k] = pool[k] /\ pool[k] # i
    <3>1. DOMAIN pool' = 1 .. Len(pool) - 1
      BY <2>2, <2>8
    <3>2. \A k, m \in DOMAIN pool : pool[k] = pool[m] => k = m
      BY DEF TableLive, PoolExact
    <3> QED
      BY <2>1, <2>2, <2>8, <3>1, <3>2
  <2> QED
    BY <1>1, <2>4, <2>5, <2>6, <2>7, <2>8, <2>9, PinnedFacts
<1> QED
  BY <1>4, <1>5

\* storeValue: a value that has no entry.
LEMMA StoreNewLive ==
    ASSUME TableLive, NEW h \in Handles, held[h] = NoRef, NEW v \in JsValues, StoreNew(h, v)
    PROVE  TableLive'
<1>1. PICK i : i = IF pool = <<>> THEN Cardinality(DOMAIN values) ELSE pool[Len(pool)]
  OBVIOUS
<1>2. /\ i \in Nat /\ i \notin PinnedIds /\ Holders(i) = {}
      /\ \A w \in DOMAIN ids : ids[w] # i
      /\ pool' \in Seq(Entries)
      /\ \A k \in DOMAIN pool' : k \in DOMAIN pool /\ pool'[k] = pool[k] /\ pool[k] # i
  BY <1>1, FreshId, Zenon
<1>3. /\ Cardinality(DOMAIN values \cup {i}) \in Nat
      /\ Cardinality(DOMAIN values \cup {i}) >= Len(Pinned)
      /\ DOMAIN values \cup {i} = 0 .. Cardinality(DOMAIN values \cup {i}) - 1
  BY <1>1, FreshId, Zenon
<1>4. v \in Objects /\ v \notin DOMAIN ids
  BY DEF StoreNew, TableLive, IdsExact
<1>5. /\ values' = Put(values, i, v) /\ counts' = Put(counts, i, 1) /\ ids' = Put(ids, v, i)
      /\ held' = [held EXCEPT ![h] = Ref(i, v)]
  BY <1>1 DEF StoreNew
<1>6. /\ DOMAIN values' = DOMAIN values \cup {i} /\ DOMAIN counts' = DOMAIN values'
      /\ values'[i] = v /\ counts'[i] = 1
      /\ \A j \in DOMAIN values : j # i => values'[j] = values[j] /\ counts'[j] = counts[j]
      /\ DOMAIN ids' = DOMAIN ids \cup {v} /\ ids'[v] = i
      /\ \A w \in DOMAIN ids : ids'[w] = ids[w]
  BY <1>4, <1>5, TableFacts DEF Put
<1>7. /\ held' \in [Handles -> Refs \cup {NoRef}]
      /\ held'[h].id = i /\ held'[h].value = v
      /\ \A g \in Handles : g # h => held'[g] = held[g]
      /\ Cardinality(Holders(i)') = Cardinality(Holders(i)) + 1
      /\ \A j : j # i => Holders(j)' = Holders(j)
  <2>1. HeldExact /\ i \in Nat \cup {Inline}
    BY <1>2 DEF TableLive
  <2> QED
    BY <1>5, <2>1, HolderAdded
<1>8. Entries' = Entries \cup {i}
  BY <1>2, <1>6 DEF Entries
<1>9. DomainOK'
  <2>1. \A j \in PinnedIds : values'[j] = Pinned[j + 1] /\ counts'[j] = Infinity
    BY <1>2, <1>6, TableFacts DEF TableLive, DomainOK
  <2> QED
    BY <1>3, <1>6, <2>1 DEF DomainOK
<1>10. CountsExact'
  <2>1. Cardinality(Holders(i)') = 1
    BY <1>2, <1>7, FS_EmptySet
  <2>2. ASSUME NEW j \in Entries, j # i PROVE counts'[j] = Cardinality(Holders(j)')
    BY <1>6, <1>7, <2>2, TableFacts DEF TableLive, CountsExact
  <2> QED
    BY <1>6, <1>8, <2>1, <2>2 DEF CountsExact
<1>11. IdsExact'
  <2>1. ASSUME NEW w \in DOMAIN ids
        PROVE  /\ ids'[w] \in DOMAIN values' /\ values'[ids'[w]] = w
               /\ w \in Objects => ids'[w] \in Entries' /\ counts'[ids'[w]] # 0
               /\ w \notin Objects => ids'[w] \in PinnedIds
    BY <1>2, <1>6, <1>8, <2>1 DEF TableLive, IdsExact
  <2>2. DOMAIN ids \subseteq DOMAIN ids'
    BY <1>6
  <2> QED
    BY <1>4, <1>6, <1>8, <2>1, <2>2 DEF TableLive, IdsExact
<1>12. PoolExact'
  <2>1. \A k \in DOMAIN pool : pool[k] \in Entries /\ counts[pool[k]] = 0
    BY DEF TableLive, PoolExact
  <2>2. \A k \in DOMAIN pool' : counts'[pool'[k]] = 0
    BY <1>2, <1>6, <2>1, TableFacts
  <2>3. \A k, m \in DOMAIN pool' : pool'[k] = pool'[m] => k = m
    BY <1>2 DEF TableLive, PoolExact
  <2>4. pool' \in Seq(Entries')
    BY <1>2, <1>8
  <2> QED
    BY <2>2, <2>3, <2>4 DEF PoolExact
<1>13. HeldExact'
  <2>1. i # Inline
    BY <1>2, RefAssumption
  <2>2. \A g \in Handles : held[g] # NoRef => held[g].id # i
    BY <1>2 DEF Holders
  <2> QED
    BY <1>4, <1>6, <1>7, <1>8, <2>1, <2>2 DEF TableLive, HeldExact
<1> QED
  BY <1>9, <1>10, <1>11, <1>12, <1>13 DEF TableLive

\* The entry of an object loses its last holder, and its id goes to the pool.
LEMMA FreeEntryLive ==
    ASSUME TableLive, NEW h \in Handles, held[h] # NoRef, held' = [held EXCEPT ![h] = NoRef],
           NEW i \in Entries, i = held[h].id, held[h].value \in Objects,
           counts' = [counts EXCEPT ![i] = counts[i] - 1], counts'[i] = 0, FreeEntry(i)
    PROVE  TableLive'
<1>1. /\ held' \in [Handles -> Refs \cup {NoRef}]
      /\ held'[h] = NoRef /\ \A g \in Handles : g # h => held'[g] = held[g]
      /\ h \in Holders(i)
      /\ Cardinality(Holders(i)') = Cardinality(Holders(i)) - 1
      /\ \A j : j # i => Holders(j)' = Holders(j)
  BY HolderDropped DEF TableLive
<1>2. /\ i \in Nat /\ i \in DOMAIN values /\ i \notin PinnedIds /\ i # Inline
      /\ DOMAIN counts = DOMAIN values /\ counts[i] = Cardinality(Holders(i))
  BY TableFacts, RefAssumption DEF TableLive, CountsExact
<1>3. values[i] \in Objects
  BY <1>2 DEF TableLive, HeldExact
<1>4. /\ DOMAIN values' = DOMAIN values /\ DOMAIN counts' = DOMAIN counts
      /\ \A j \in DOMAIN values : j # i => values'[j] = values[j] /\ counts'[j] = counts[j]
      /\ ids' = [v \in DOMAIN ids \ {values[i]} |-> ids[v]]
      /\ pool' = Append(pool, i)
      /\ counts'[i] = counts[i] - 1
  BY <1>2 DEF FreeEntry
<1>5. Entries' = Entries
  BY <1>4 DEF Entries
<1>6. Holders(i)' = {}
  <2>1. Cardinality(Holders(i)') = 0
    BY <1>1, <1>2, <1>4
  <2>2. IsFiniteSet(Holders(i)')
    <3>1. Holders(i)' \subseteq Handles
      BY DEF Holders
    <3> QED
      BY <3>1, RefAssumption, FS_Subset
  <2> QED
    BY <2>1, <2>2, FS_EmptySet
<1>7. DomainOK'
  BY <1>2, <1>4, TableFacts DEF TableLive, DomainOK
<1>8. CountsExact'
  BY <1>1, <1>2, <1>4, <1>5, TableFacts DEF TableLive, CountsExact
<1>9. IdsExact'
  <2>1. /\ DOMAIN ids' = DOMAIN ids \ {values[i]}
        /\ \A w \in DOMAIN ids' : w \in DOMAIN ids /\ ids'[w] = ids[w] /\ ids[w] # i
    BY <1>4 DEF TableLive, IdsExact
  <2>2. ASSUME NEW w \in DOMAIN ids'
        PROVE  /\ ids'[w] \in DOMAIN values' /\ values'[ids'[w]] = w
               /\ w \in Objects => ids'[w] \in Entries' /\ counts'[ids'[w]] # 0
               /\ w \notin Objects => ids'[w] \in PinnedIds
    BY <1>4, <1>5, <2>1, <2>2 DEF TableLive, IdsExact
  <2>3. JsValues \ (Objects \cup Immediate \cup {"NaN"}) \subseteq DOMAIN ids'
    BY <1>3, <2>1 DEF TableLive, IdsExact
  <2> QED
    BY <2>2, <2>3 DEF IdsExact
<1>10. PoolExact'
  <2>1. /\ pool \in Seq(Entries) /\ \A k \in DOMAIN pool : pool[k] \in Entries /\ counts[pool[k]] = 0
        /\ \A k, m \in DOMAIN pool : pool[k] = pool[m] => k = m
    BY DEF TableLive, PoolExact
  <2>2. counts[i] # 0
    BY <1>4, TableFacts
  <2>3. \A k \in DOMAIN pool : pool[k] # i
    BY <2>1, <2>2
  <2>4. /\ Len(pool) \in Nat /\ DOMAIN pool = 1 .. Len(pool)
        /\ pool' \in Seq(Entries) /\ DOMAIN pool' = 1 .. Len(pool) + 1
        /\ pool'[Len(pool) + 1] = i /\ \A k \in 1 .. Len(pool) : pool'[k] = pool[k]
    BY <1>4, <2>1
  <2>5. \A k \in DOMAIN pool' : counts'[pool'[k]] = 0
    BY <1>4, <2>1, <2>3, <2>4, TableFacts
  <2>6. \A k, m \in DOMAIN pool' : pool'[k] = pool'[m] => k = m
    BY <2>1, <2>3, <2>4
  <2> QED
    BY <1>5, <2>4, <2>5, <2>6 DEF PoolExact
<1>11. HeldExact'
  <2>1. \A g \in Handles : held'[g] # NoRef => held'[g].id # i
    BY <1>6 DEF Holders
  <2> QED
    BY <1>1, <1>4, <1>5, <2>1 DEF TableLive, HeldExact
<1> QED
  BY <1>7, <1>8, <1>9, <1>10, <1>11 DEF TableLive

\* A handle is dropped, and finalizeRef called for it.
LEMMA DropLive ==
    ASSUME TableLive, NEW h \in Handles, DropHandle(h)
    PROVE  TableLive'
<1>1. PICK i : i = held[h].id
  OBVIOUS
<1>2. held[h] # NoRef /\ held' = [held EXCEPT ![h] = NoRef]
  BY DEF DropHandle
<1>3. /\ held' \in [Handles -> Refs \cup {NoRef}]
      /\ held'[h] = NoRef /\ \A g \in Handles : g # h => held'[g] = held[g]
      /\ Cardinality(Holders(i)') = Cardinality(Holders(i)) - 1
      /\ \A j : j # i => Holders(j)' = Holders(j)
  BY <1>1, <1>2, HolderDropped DEF TableLive
<1>4. CASE held[h].value \in Objects
  <2>1. i # Inline /\ i \in Entries
    BY <1>1, <1>2, <1>4, PinnedFacts DEF TableLive, HeldExact, Immediate
  <2>2. /\ counts[i] \in Nat /\ counts[i] # Infinity /\ i \in DOMAIN counts
        /\ DOMAIN counts = DOMAIN values
    BY <2>1, TableFacts
  <2>3. FinalizeRef(i)
    BY <1>1, <1>4 DEF DropHandle, Finalized
  <2>4. counts' = [counts EXCEPT ![i] = counts[i] - 1] /\ counts'[i] = counts[i] - 1
    BY <2>2, <2>3 DEF FinalizeRef, Minus
  <2>5. CASE counts'[i] = 0
    BY <1>1, <1>2, <1>4, <2>1, <2>3, <2>4, <2>5, FreeEntryLive DEF FinalizeRef
  <2>6. CASE counts'[i] # 0
    <3>1. UNCHANGED <<values, ids, pool>>
      BY <2>3, <2>6 DEF FinalizeRef
    <3>2. DOMAIN counts' = DOMAIN counts /\ \A j \in DOMAIN counts : j # i => counts'[j] = counts[j]
      BY <2>4
    <3>3. Entries' = Entries
      BY <3>1 DEF Entries
    <3>4. DomainOK'
      BY <2>1, <3>1, <3>2, TableFacts DEF TableLive, DomainOK
    <3>5. CountsExact'
      BY <1>3, <2>4, <3>2, <3>3, TableFacts DEF TableLive, CountsExact
    <3>6. IdsExact'
      BY <2>2, <2>6, <3>1, <3>2, <3>3 DEF TableLive, IdsExact
    <3>7. PoolExact'
      <4>1. pool \in Seq(Entries) /\ \A k \in DOMAIN pool : pool[k] \in Entries /\ counts[pool[k]] = 0
        BY DEF TableLive, PoolExact
      <4>2. counts[i] # 0
        <5>1. h \in Holders(i) /\ counts[i] = Cardinality(Holders(i))
          BY <1>1, <1>2, <2>1 DEF Holders, TableLive, CountsExact
        <5> QED
          BY <5>1, HoldersFinite, FS_EmptySet
      <4>3. \A k \in DOMAIN pool : counts'[pool[k]] = 0
        BY <2>2, <3>2, <4>1, <4>2, TableFacts
      <4> QED
        BY <3>1, <3>3, <4>3 DEF TableLive, PoolExact
    <3>8. HeldExact'
      BY <1>3, <3>1, <3>3 DEF TableLive, HeldExact
    <3> QED
      BY <3>4, <3>5, <3>6, <3>7, <3>8 DEF TableLive
  <2> QED
    BY <2>5, <2>6
<1>5. CASE held[h].value \notin Objects
  <2>1. i \notin Entries
    BY <1>1, <1>2, <1>5, TableFacts, RefAssumption DEF TableLive, HeldExact
  <2>2. /\ UNCHANGED <<values, ids, pool>> /\ DOMAIN counts' = DOMAIN counts
        /\ \A j \in DOMAIN values : counts'[j] = counts[j]
    <3>1. CASE held[h].value \in Finalized
      <4>1. held[h].value \notin Immediate
        BY <1>5, <3>1 DEF Finalized, Immediate
      <4>2. i \in PinnedIds /\ i \in DOMAIN counts
        BY <1>1, <1>2, <1>5, <4>1, TableFacts DEF TableLive, HeldExact
      <4>3. counts[i] = Infinity /\ Infinity # 0
        BY <4>2, RefAssumption DEF TableLive, DomainOK
      <4>4. FinalizeRef(i)
        BY <1>1, <3>1 DEF DropHandle
      <4>5. counts' = [counts EXCEPT ![i] = Infinity]
        BY <4>3, <4>4 DEF FinalizeRef, Minus
      <4>6. counts'[i] # 0
        BY <4>2, <4>3, <4>5
      <4>7. UNCHANGED <<values, ids, pool>>
        BY <4>4, <4>6 DEF FinalizeRef
      <4>8. DOMAIN counts' = DOMAIN counts /\ \A j \in DOMAIN values : counts'[j] = counts[j]
        BY <4>2, <4>3, <4>5, TableFacts
      <4> QED
        BY <4>7, <4>8
    <3>2. CASE held[h].value \notin Finalized
      BY <3>2 DEF DropHandle
    <3> QED
      BY <3>1, <3>2
  <2>3. Entries' = Entries
    BY <2>2 DEF Entries
  <2>4. CountsExact'
    BY <1>3, <2>1, <2>2, <2>3, TableFacts DEF TableLive, CountsExact
  <2>5. DomainOK' /\ IdsExact'
    BY <2>2, <2>3, TableFacts DEF TableLive, DomainOK, IdsExact
  <2>6. PoolExact'
    BY <2>2, <2>3, TableFacts DEF TableLive, PoolExact
  <2>7. HeldExact'
    BY <1>3, <2>2, <2>3 DEF TableLive, HeldExact
  <2> QED
    BY <2>4, <2>5, <2>6, <2>7 DEF TableLive
<1> QED
  BY <1>4, <1>5

\* Without tables nothing is held, and the exit drops them all.
LEMMA TablesDropped ==
    ASSUME DropTables
    PROVE  NoTables'
  BY DEF DropTables, NoTables

\* The tables change only where they are there.
LEMMA TablesInductive ==
    ASSUME HostInv, RunFirst, TablesThere, [Next]_vars
    PROVE  TablesThere'
<1>1. CASE UNCHANGED <<tableVars, exited>> /\ (run' = run \/ run' \in {"rejected", "awaiting"})
            /\ (stack' # <<>> /\ stack = <<>> => run \in {"started", "awaiting"} \/ timers # {})
            /\ (timers' # {} /\ timers = {} => stack # <<>>)
            /\ (run' = "awaiting" => run = "awaiting" \/ stack # <<>>)
  <2>1. (NoTables' <=> NoTables) /\ (TableLive' <=> TableLive)
    BY <1>1 DEF tableVars, NoTables, TableLive, DomainOK, CountsExact, IdsExact, PoolExact, HeldExact,
       Entries, Holders
  <2> QED
    BY <1>1, <2>1 DEF TablesThere
<1>2. ASSUME NEW h \in Handles, NEW v \in JsValues, held[h] = NoRef, StoreValue(h, v), TableLive
      PROVE  TableLive'
  BY <1>2, StoreImmediateLive, StoreKnownLive, StoreNewLive DEF StoreValue
<1>3. CASE TableLive /\ TableLive' /\ run' = run /\ run # "none"
  BY <1>3 DEF TablesThere
<1>4. stack # <<>> => run # "none"
  BY DEF RunFirst
<1>5. CASE GoStep
  <2>1. ASSUME NEW h \in Handles, Finalize(h) PROVE TablesThere'
    <3>1. TableLive
      BY <2>1 DEF Finalize, GoRuns, TablesThere
    <3>2. TableLive'
      BY <2>1, <3>1, DropLive DEF Finalize
    <3> QED
      BY <1>3, <1>4, <2>1, <3>1, <3>2 DEF Finalize, GoRuns, exitVars
  <2>2. ASSUME NEW h \in Handles, NEW v \in JsValues, GiveValue(h, v) PROVE TablesThere'
    <3>1. TableLive
      BY <2>2 DEF GiveValue, GoRuns, TablesThere
    <3>2. TableLive'
      BY <1>2, <2>2, <3>1 DEF GiveValue
    <3> QED
      BY <1>3, <1>4, <2>2, <3>1, <3>2 DEF GiveValue, GoRuns, exitVars
  <2>3. CASE WasmExit
    <3>1. NoTables' /\ exited' /\ run' = run
      BY <2>3, TablesDropped DEF WasmExit
    <3> QED
      BY <3>1 DEF TablesThere
  <2>4. CASE ScheduleTimeoutEvent \/ GoPauses \/ GoMisses \/ \E kind \in Imports : Import(kind)
    BY <1>1, <2>4 DEF ScheduleTimeoutEvent, GoPauses, GoMisses, Import, GoRuns, timeVars, exitVars
  <2>5. CASE GoPicksUp
    BY <1>1, <2>5 DEF GoPicksUp, ClearTimeoutEvent, timeVars, exitVars
  <2> QED
    BY <1>5, <2>1, <2>2, <2>3, <2>4, <2>5 DEF GoStep
<1>6. CASE HostStep
  <2>1. CASE RunReturns \/ WrapperReturns \/ TimeoutReturns \/ SetReturns \/ Unwind
    BY <1>1, <2>1 DEF RunReturns, WrapperReturns, TimeoutReturns, SetReturns, Unwind, timeVars, exitVars
  <2>2. CASE ValueReturns
    <3>1. TableLive /\ run' = run /\ run # "none"
      BY <1>4, <2>2 DEF ValueReturns, TablesThere, exitVars
    <3>2. CASE UNCHANGED tableVars
      BY <1>1, <2>2, <3>2 DEF ValueReturns, timeVars, exitVars
    <3>3. CASE \E h \in Handles, v \in JsValues : held[h] = NoRef /\ StoreValue(h, v)
      BY <1>2, <1>3, <3>1, <3>3
    <3> QED
      BY <2>2, <3>2, <3>3 DEF ValueReturns
  <2> QED
    BY <1>6, <2>1, <2>2 DEF HostStep
<1>7. CASE PageStep
  <2>1. CASE RunNothing
    BY <1>1, <2>1 DEF RunNothing, timeVars
  <2>2. ASSUME NEW argv \in Argvs, Run(argv) PROVE TablesThere'
    <3>1. run = "none" /\ MakeTables /\ run' # "none"
      BY <2>2 DEF Run
    <3>2. TableLive'
      BY <3>1, MakeTablesLive DEF TablesThere
    <3> QED
      BY <3>1, <3>2 DEF TablesThere
  <2>3. CASE \E e \in Events : WrapperCall(e)
    BY <1>1, <2>3 DEF WrapperCall, timeVars, exitVars
  <2>4. CASE \E t \in timers : TimeoutFires(t)
    BY <1>1, <2>4 DEF TimeoutFires, exitVars
  <2> QED
    BY <1>7, <2>1, <2>2, <2>3, <2>4 DEF PageStep
<1>8. CASE UNCHANGED vars
  BY <1>1, <1>8 DEF vars, timeVars, exitVars
<1> QED
  BY <1>5, <1>6, <1>7, <1>8 DEF Next

(***************************************************************************)
(* A reference that the Go program holds stands for the value it was made  *)
(* for, whatever storeValue and finalizeRef have done with the ids.        *)
(***************************************************************************)
THEOREM RefsCorrect == Spec => []RefsResolve
<1>1. Init => TablesThere
  BY DEF Init, TablesThere
<1>2. HostInv /\ RunFirst /\ TablesThere /\ [Next]_vars => TablesThere'
  BY TablesInductive
<1>3. TablesThere => RefsResolve
  <2>1. NoTables => RefsResolve
    BY DEF NoTables, RefsResolve
  <2>2. TableLive => RefsResolve
    BY DEF TableLive, HeldExact, RefsResolve, LoadValue
  <2> QED
    BY <2>1, <2>2 DEF TablesThere
<1> QED
  BY <1>1, <1>2, <1>3, HostInvariant, PTL DEF Spec

================================================================================
