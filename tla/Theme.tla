---------------------------------- MODULE Theme ----------------------------------
(***************************************************************************)
(* Kit.theme of docs/kit.js: the colour theme is an attribute of the page, *)
(* a saved value that outlives the page, and a word on the toggle button.  *)
(* localStorage may refuse any access, and other tabs share it.            *)
(***************************************************************************)
EXTENDS Naturals, Sequences

VARIABLES
    kit,         \* "restored" when kit.js has run, "mounted" after autoInit
    theme,       \* what Kit.theme.get returns
    saved,       \* the value under k-theme: a mode, "absent" or anything else
    themeLabel,  \* the mode whose word is on the toggle
    own,         \* saved is what this page stored or read last
    behind       \* a script has set the theme since the toggle was last labelled

themeVars == <<kit, theme, saved, themeLabel, own, behind>>

Modes == {"system", "light", "dark"}
Saved == {"light", "dark", "absent", "other"}

ThemeTypeOK ==
    /\ kit \in {"restored", "mounted"}
    /\ theme \in Modes
    /\ saved \in Saved
    /\ themeLabel \in Modes
    /\ own \in BOOLEAN
    /\ behind \in BOOLEAN

\* What restore makes of a value: anything but the two modes is ignored.
Restored(v) == IF v \in {"light", "dark"} THEN v ELSE "system"

ThemeInit ==
    /\ kit = "restored" /\ saved \in Saved /\ theme = Restored(saved)
    /\ themeLabel = "system" /\ own = TRUE /\ behind = FALSE

--------------------------------------------------------------------------------

\* The storage may refuse.
Store(v) ==
    \/ saved' = v /\ own' = TRUE
    \/ UNCHANGED saved /\ own' = FALSE

\* Mutant of Set: going back to the system's theme leaves the saved value.
SetKeeps(mode) == theme' = mode /\ Store(IF mode = "system" THEN saved ELSE mode)

\* set: the attribute first, then the storage.
Set(mode) == theme' = mode /\ Store(IF mode = "system" THEN "absent" ELSE mode)

\* The order in which the toggle goes round.
Following(mode) ==
    LET order == <<"system", "light", "dark">>
        at    == CHOOSE i \in 1..3 : order[i] = mode
    IN  order[(at % 3) + 1]

\* mount: the toggle shows the theme that restore has left.
AutoInit ==
    /\ kit = "restored"
    /\ kit' = "mounted"
    /\ themeLabel' = theme /\ behind' = FALSE
    /\ UNCHANGED <<theme, saved, own>>

ToggleTheme ==
    /\ kit = "mounted"
    /\ Set(Following(theme))
    /\ themeLabel' = theme' /\ behind' = FALSE
    /\ UNCHANGED kit

\* A script of the page calls Kit.theme.set: no toggle hears of it.
ScriptSet(mode) ==
    /\ Set(mode)
    /\ behind' = TRUE
    /\ UNCHANGED <<kit, themeLabel>>

\* Another tab of the same site stores or clears the theme.
OtherTab(v) ==
    /\ saved' = v /\ own' = FALSE
    /\ UNCHANGED <<kit, theme, themeLabel, behind>>

\* The page is loaded again: restore reads what is saved, or is refused.
ReloadTheme ==
    /\ kit' = "restored"
    /\ \/ theme' = Restored(saved) /\ own' = TRUE
       \/ theme' = "system" /\ own' = FALSE
    /\ themeLabel' = "system" /\ behind' = FALSE
    /\ UNCHANGED saved

ThemeNext ==
    \/ ToggleTheme
    \/ (\E mode \in Modes : ScriptSet(mode))
    \/ (\E v \in {"light", "dark", "absent"} : OtherTab(v))

--------------------------------------------------------------------------------

(***************************************************************************)
(* The theme a visitor has chosen is the one the next load restores, as    *)
(* long as the storage works and no other tab has stored another one; and  *)
(* the toggle names the theme unless a script has set it behind its back.  *)
(***************************************************************************)
ThemeTrue ==
    /\ own => Restored(saved) = theme
    /\ kit = "mounted" /\ ~behind => themeLabel = theme

================================================================================
