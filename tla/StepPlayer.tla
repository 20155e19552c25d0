------------------------------- MODULE StepPlayer -------------------------------
(***************************************************************************)
(* Kit.stepPlayer of docs/kit.js: a player that walks through the steps of *)
(* a recorded run, by hand or on a clock.  JavaScript handlers run to      *)
(* completion, so every event is one action; the clock is a browser        *)
(* timeout that the code has to cancel itself.                             *)
(***************************************************************************)
EXTENDS Integers, FiniteSets

CONSTANTS
    Total,      \* the number of steps
    NotFinite   \* an index that is no finite number, NaN for one

ASSUME PlayerAssumption == Total \in Nat \ {0} /\ NotFinite \notin Int

VARIABLES
    player,     \* "none" before the page mounts it, "live", then "destroyed"
    index,
    playing,
    timer,      \* the handle of the timeout the code remembers, 0 for null
    armed,      \* the handles of the timeouts the browser will fire
    shown,      \* what render wrote last: the step, and data-state
    playLabel,  \* the word on the play button
    hidden      \* document.hidden

playerVars == <<player, index, playing, timer, armed, shown, playLabel>>

LastStep == Total - 1

View == [at : 0..LastStep, playing : BOOLEAN]

PlayerTypeOK ==
    /\ player \in {"none", "live", "destroyed"}
    /\ index \in 0..LastStep
    /\ playing \in BOOLEAN
    /\ timer \in Nat
    /\ armed \in SUBSET (Nat \ {0})
    /\ shown \in View
    /\ playLabel \in {"Play", "Pause"}
    /\ hidden \in BOOLEAN

\* Where the page or a caller may ask to go.
Targets == -1..Total \cup {NotFinite}

ClampIndex(i) ==
    IF i = NotFinite \/ i < 0 THEN 0 ELSE IF i > LastStep THEN LastStep ELSE i

PlayerInit ==
    /\ player = "none" /\ index = 0 /\ playing = FALSE
    /\ timer = 0 /\ armed = {}
    /\ shown = [at |-> 0, playing |-> FALSE] /\ playLabel = "Play"

--------------------------------------------------------------------------------
(* The functions inside the player. *)

\* The stage, filled by onRender or, when that throws, by defaultRender; the
\* caption, the counter, the live region, the ticks and the two buttons all
\* follow the index; data-state follows playing.
Render == shown' = [at |-> index', playing |-> playing']

SetPlayLabel == playLabel' = IF playing' THEN "Pause" ELSE "Play"

ClearTimer == timer' = 0 /\ armed' = armed \ {timer}

\* window.setTimeout returns a handle that is not in use.
NewTimer(pending) == IF 1 \in pending THEN 2 ELSE 1

\* clearTimer, and a new timeout.
Schedule ==
    LET rest == armed \ {timer}
    IN  timer' = NewTimer(rest) /\ armed' = rest \cup {NewTimer(rest)}

\* Mutant of StopClock: the timeout is left to fire.
StopClockLeft == playing' = FALSE /\ UNCHANGED <<timer, armed>> /\ SetPlayLabel

\* stopClock: no repainting.
StopClock == playing' = FALSE /\ ClearTimer /\ SetPlayLabel

\* Mutant of GoTo: the announcement is skipped when the step does not change.
GoToQuiet(i) ==
    /\ index' = ClampIndex(i)
    /\ IF ClampIndex(i) = index THEN UNCHANGED shown ELSE Render

\* goTo(i, true).  Its callers have all stopped the clock.
GoTo(i) == index' = ClampIndex(i) /\ Render

--------------------------------------------------------------------------------
(* The events, while the player is live. *)

FirstRender(start) ==
    /\ index' = ClampIndex(start) /\ playing' = FALSE
    /\ SetPlayLabel /\ Render

\* Kit.stepPlayer with steps and a stage; without them nothing is mounted.
Mount(start) ==
    /\ player = "none"
    /\ player' = "live"
    /\ FirstRender(start)
    /\ UNCHANGED <<timer, armed, hidden>>

\* Play on the last step starts again from the first.
Play ==
    /\ player = "live" /\ ~playing
    /\ index' = IF index >= LastStep THEN 0 ELSE index
    /\ playing' = TRUE /\ SetPlayLabel /\ Render
    /\ Schedule
    /\ UNCHANGED <<player, hidden>>

Pause ==
    /\ player = "live"
    /\ StopClock
    /\ UNCHANGED <<player, index, hidden>> /\ Render

\* The button, the space bar on the stage, and the controller's toggle.
Toggle == IF playing THEN Pause ELSE Play

NextStep ==
    /\ player = "live" /\ index < LastStep
    /\ StopClock /\ GoTo(index + 1)
    /\ UNCHANGED <<player, hidden>>

PrevStep ==
    /\ player = "live" /\ index > 0
    /\ StopClock /\ GoTo(index - 1)
    /\ UNCHANGED <<player, hidden>>

\* The keys Home and End, and the controller's goTo.
Jump(i) ==
    /\ player = "live"
    /\ StopClock /\ GoTo(i)
    /\ UNCHANGED <<player, hidden>>

\* Mutant of Tick: the clock wraps to the first step instead of stopping.
TickWraps ==
    /\ player = "live" /\ timer \in armed
    /\ index' = (index + 1) % Total
    /\ UNCHANGED <<player, playing, playLabel, hidden>>
    /\ Render /\ Schedule

\* The timeout fires.  At the last step the player pauses, else it moves on
\* and schedules again.  One that fires when nothing plays does nothing.
Tick ==
    \E h \in armed :
        /\ IF player # "live" \/ ~playing
           THEN timer' = 0 /\ armed' = armed \ {h} /\ UNCHANGED <<index, playing, playLabel, shown>>
           ELSE IF index >= LastStep
           THEN /\ playing' = FALSE /\ timer' = 0 /\ armed' = armed \ {h}
                /\ SetPlayLabel /\ UNCHANGED index /\ Render
           ELSE /\ index' = index + 1 /\ UNCHANGED <<playing, playLabel>> /\ Render
                /\ timer' = NewTimer(armed \ {h})
                /\ armed' = (armed \ {h}) \cup {NewTimer(armed \ {h})}
        /\ UNCHANGED <<player, hidden>>

\* visibilitychange: a player that is playing pauses.
Hide ==
    /\ ~hidden /\ hidden' = TRUE
    /\ IF player = "live" /\ playing
       THEN StopClock /\ UNCHANGED <<player, index>> /\ Render
       ELSE UNCHANGED playerVars

Show == hidden /\ hidden' = FALSE /\ UNCHANGED playerVars

--------------------------------------------------------------------------------
(* destroy, and the calls of the controller after it. *)

Destroy ==
    /\ player = "live"
    /\ player' = "destroyed"
    /\ ClearTimer
    /\ UNCHANGED <<index, playing, shown, playLabel, hidden>>

\* play, pause, next and prev return at once; goTo stops the clock first.
LateGoTo ==
    /\ player = "destroyed"
    /\ StopClock
    /\ UNCHANGED <<player, index, shown, hidden>>

PlayerNext ==
    \/ (\E i \in Targets : Mount(i) \/ Jump(i))
    \/ Toggle \/ Pause \/ NextStep \/ PrevStep \/ Tick
    \/ Hide \/ Show \/ Destroy \/ LateGoTo

--------------------------------------------------------------------------------

(***************************************************************************)
(* Between two events the page shows what the player is in: the rendered   *)
(* step is the current one, and data-state and the word on the button both *)
(* say whether it plays.                                                   *)
(***************************************************************************)
ShownIsCurrent ==
    player = "live" =>
        /\ shown = [at |-> index, playing |-> playing]
        /\ playLabel = IF playing THEN "Pause" ELSE "Play"

(***************************************************************************)
(* The clock and the playing state belong together: a player that plays    *)
(* has exactly one timeout pending, the one it remembers and can cancel; a *)
(* player that is paused, destroyed or gone has none.                      *)
(***************************************************************************)
ClockMatchesPlay == armed = IF player = "live" /\ playing THEN {timer} ELSE {}

(***************************************************************************)
(* "Autoplay stops at the last step.  It never loops and never wraps":     *)
(* once it plays, the player stops, by itself or by the reader's hand.     *)
(***************************************************************************)
AutoplayEnds == player = "live" /\ playing ~> ~(player = "live" /\ playing)

================================================================================
