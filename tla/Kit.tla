----------------------------------- MODULE Kit -----------------------------------
(***************************************************************************)
(* docs/kit.js on a page: the step player, the hero's wash and the theme   *)
(* in one event loop.  They share the tab: a hidden tab is served no       *)
(* animation frames and pauses the player, autoInit mounts the wash and    *)
(* the theme's toggle, and a reload takes everything but the saved theme.  *)
(***************************************************************************)
EXTENDS StepPlayer, HeroWash, Theme

kitVars == <<playerVars, hidden, washVars, themeVars>>

KitTypeOK == PlayerTypeOK /\ WashTypeOK /\ ThemeTypeOK

KitInit == PlayerInit /\ hidden = FALSE /\ WashInit /\ ThemeInit

PlayerStep == PlayerNext /\ UNCHANGED <<washVars, themeVars>>

WashStep == WashNext /\ UNCHANGED <<playerVars, hidden, themeVars>>

\* Frames are served while the tab is visible.
ServeFrame == ~hidden /\ Paint /\ UNCHANGED <<playerVars, hidden, themeVars>>

ThemeStep == ThemeNext /\ UNCHANGED <<playerVars, hidden, washVars>>

\* autoInit mounts the hero's wash, then the toggle.
MountAll == AutoInit /\ WashMount /\ UNCHANGED <<playerVars, hidden>>

\* The browser drops the timeouts and frames of the page it leaves.
Reload ==
    /\ player' = "none" /\ index' = 0 /\ playing' = FALSE
    /\ timer' = 0 /\ armed' = {}
    /\ shown' = [at |-> 0, playing |-> FALSE] /\ playLabel' = "Play"
    /\ washPhase' = "none" /\ attached' = FALSE /\ px' = 0
    /\ frame' = 0 /\ frames' = {} /\ wash' = Rest /\ moved' = FALSE /\ flipped' = FALSE
    /\ ReloadTheme
    /\ UNCHANGED <<hidden, reduce>>

KitNext == PlayerStep \/ WashStep \/ ServeFrame \/ ThemeStep \/ MountAll \/ Reload

KitSpec == KitInit /\ [][KitNext]_kitVars

\* The browser fires timeouts that stay armed, and dispatches change events.
KitFairSpec ==
    /\ KitSpec
    /\ WF_kitVars(Tick /\ UNCHANGED <<washVars, themeVars>>)
    /\ WF_kitVars(PreferenceChange /\ UNCHANGED <<playerVars, hidden, themeVars>>)

================================================================================
