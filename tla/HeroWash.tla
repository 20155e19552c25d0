-------------------------------- MODULE HeroWash --------------------------------
(***************************************************************************)
(* Kit.heroWash of docs/kit.js: a wash that follows the mouse over the     *)
(* hero.  A pointer event only stores where the pointer is and asks for an *)
(* animation frame; the frame paints.  The wash is off for visitors who    *)
(* prefer reduced motion, and that preference can change at any time.      *)
(***************************************************************************)
EXTENDS Integers, FiniteSets

CONSTANTS
    Positions,  \* where the pointer may be, in percent of the hero's width
    Rest        \* the resting position that CSS or the page gives the wash

ASSUME WashAssumption == Positions \subseteq Int /\ Rest \notin Int

VARIABLES
    washPhase,  \* "none" before heroWash is called, "live", then "dead"
    attached,   \* the pointer listeners are on
    px,         \* the stored pointer position
    frame,      \* the handle of the frame the code remembers, 0 for none
    frames,     \* the handles of the frames the browser will serve
    wash,       \* the inline position, or Rest
    reduce,     \* (prefers-reduced-motion: reduce) matches
    flipped,    \* a change event of that query is yet to be dispatched
    moved       \* the mouse has moved over the hero since it last left it

washVars == <<washPhase, attached, px, frame, frames, wash, reduce, flipped, moved>>

WashTypeOK ==
    /\ washPhase \in {"none", "live", "dead"}
    /\ attached \in BOOLEAN
    /\ px \in Int
    /\ frame \in Nat
    /\ frames \in SUBSET (Nat \ {0})
    /\ wash \in -20..120 \cup {Rest}
    /\ reduce \in BOOLEAN
    /\ flipped \in BOOLEAN
    /\ moved \in BOOLEAN

WashInit ==
    /\ washPhase = "none" /\ attached = FALSE /\ px = 0
    /\ frame = 0 /\ frames = {} /\ wash = Rest
    /\ reduce \in BOOLEAN /\ flipped = FALSE /\ moved = FALSE

--------------------------------------------------------------------------------

\* Both coordinates are kept within 20 percent around the hero.
Clamp(x) == IF x < -20 THEN -20 ELSE IF x > 120 THEN 120 ELSE x

Reset == wash' = Rest /\ moved' = FALSE

\* cancelAnimationFrame, and back to rest.
Settle == frame' = 0 /\ frames' = frames \ {frame} /\ Reset

\* Mutant of Detach: a frame that was asked for is still served.
DetachOnly ==
    IF attached
    THEN /\ attached' = FALSE /\ Reset
         /\ UNCHANGED <<frame, frames>>
    ELSE UNCHANGED <<attached, frame, frames, wash, moved>>

Detach ==
    IF attached
    THEN attached' = FALSE /\ Settle
    ELSE UNCHANGED <<attached, frame, frames, wash, moved>>

Attach == attached' = TRUE /\ UNCHANGED <<frame, frames, wash, moved>>

\* Mutant of Apply: the preference is only looked at to attach.
ApplyOnce(canHover) ==
    IF reduce \/ ~canHover THEN UNCHANGED <<attached, frame, frames, wash, moved>> ELSE Attach

\* The hover query is evaluated anew each time; so is requestAnimationFrame.
Apply(canHover) == IF reduce \/ ~canHover THEN Detach ELSE Attach

\* heroWash: reset, then apply.
WashMount ==
    /\ washPhase = "none"
    /\ washPhase' = "live"
    /\ \E canHover \in BOOLEAN : Apply(canHover)
    /\ UNCHANGED <<px, reduce, flipped>>

\* onMove for a mouse; a finger or a stylus returns at once.
PointerMove(x) ==
    /\ attached
    /\ px' = x /\ moved' = TRUE
    /\ IF frame # 0
       THEN UNCHANGED <<frame, frames>>
       ELSE LET h == IF 1 \in frames THEN 2 ELSE 1
            IN  frame' = h /\ frames' = frames \cup {h}
    /\ UNCHANGED <<washPhase, attached, wash, reduce, flipped>>

PointerLeave ==
    /\ attached
    /\ Settle
    /\ UNCHANGED <<washPhase, attached, px, reduce, flipped>>

\* paint.  A hero without a size, or a dead wash, is left alone.
Paint ==
    \E h \in frames :
        /\ frame' = 0 /\ frames' = frames \ {h}
        /\ \/ washPhase # "dead" /\ wash' = Clamp(px)
           \/ UNCHANGED wash
        /\ UNCHANGED <<washPhase, attached, px, reduce, flipped, moved>>

\* The visitor changes the preference; the event follows.
FlipPreference ==
    /\ reduce' = ~reduce /\ flipped' = TRUE
    /\ UNCHANGED <<washPhase, attached, px, frame, frames, wash, moved>>

\* The change event.  Nobody listens before heroWash or after destroy.
PreferenceChange ==
    /\ flipped /\ flipped' = FALSE
    /\ IF washPhase = "live"
       THEN \E canHover \in BOOLEAN : Apply(canHover)
       ELSE UNCHANGED <<attached, frame, frames, wash, moved>>
    /\ UNCHANGED <<washPhase, px, reduce>>

WashDestroy ==
    /\ washPhase = "live"
    /\ washPhase' = "dead"
    /\ Detach
    /\ UNCHANGED <<px, reduce, flipped>>

WashNext ==
    \/ (\E x \in Positions : PointerMove(x)) \/ PointerLeave
    \/ FlipPreference \/ PreferenceChange \/ WashDestroy

--------------------------------------------------------------------------------

(***************************************************************************)
(* At most one frame is pending, and only it can move the wash: as long as *)
(* the mouse has not come over the hero, has left it, motion is switched   *)
(* off or the wash destroyed, no frame is pending and the wash rests.  A   *)
(* late frame never moves it again.                                        *)
(***************************************************************************)
WashRests ==
    /\ frames = IF frame = 0 THEN {} ELSE {frame}
    /\ frames # {} \/ wash # Rest => attached /\ moved

(***************************************************************************)
(* "Off entirely under prefers-reduced-motion: reduce, and re-checked live *)
(* when the user flips that setting": the wash comes to rest unless the    *)
(* preference is taken back.                                               *)
(***************************************************************************)
MotionStops == reduce ~> ~reduce \/ (~attached /\ wash = Rest)

================================================================================
