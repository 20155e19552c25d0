---------------------------------- MODULE Page ----------------------------------
(***************************************************************************)
(* The demo page: docs/index.html and the Go code compiled into it from    *)
(* docs/wasm/main.go.  boot loads the compiled code, or falls back to a    *)
(* stored session; run evaluates a line against the same Parse and store   *)
(* as the server and paints the drawer from the rows that come back.       *)
(***************************************************************************)
EXTENDS CapturedSession, LoadData, Ranks

CONSTANTS
    Inputs,     \* the lines a visitor may enter
    SeenCap,    \* seenCap, 64 in the code
    Slots       \* the slots of the drawer, 8 on the page

ASSUME PageAssumption == SeenCap \in Nat /\ Slots \in Nat \ {0}

VARIABLES
    page,       \* how far boot has come
    enabled,    \* the form and the chips accept input (ready and setEnabled)
    data,       \* st, as in Executor
    seen,       \* the key names that were remembered
    reply,      \* the last reply on the tape
    tape,       \* the stored session on the tape
    drawer,     \* the rows in the slots
    count,      \* the number in "n labels stored"
    marked      \* the slot marked as just written or read, 0 if none

vars == <<page, enabled, data, seen, reply, tape, drawer, count, marked, loadVars>>
evalVars == <<data, seen>>
shownVars == <<reply, tape, drawer, count, marked>>

PageLabels == {"loading", "streaming", "plain", "instantiated", "ready",
               "fallback", "stored", "unreadable"}

Init ==
    /\ page = "loading" /\ enabled = FALSE
    /\ data = <<>> /\ seen = <<>>
    /\ reply = <<>> /\ tape = <<>> /\ drawer = <<>> /\ count = 0 /\ marked = 0
    /\ LoadInit

\* paintDrawer: the first rows fill the slots, the count is of all rows.
PaintDrawer(rows, touched, verb) ==
    /\ drawer' = SubSeq(rows, 1, Min({Slots, Len(rows)}))
    /\ count' = Len(rows)
    /\ marked' = LET hit == {i \in 1..Min({Slots, Len(rows)}) : rows[i].key = touched}
                 IN  IF verb \in {"get", "set"} /\ hit # {} THEN Min(hit) ELSE 0

--------------------------------------------------------------------------------
(* boot. *)

\* A browser without WebAssembly, or a page opened from a file, cannot load
\* the compiled code: showStored calls loadData.
BootFallback ==
    /\ page = "loading"
    /\ page' = "fallback" /\ LoadStart
    /\ UNCHANGED <<enabled, evalVars, shownVars>>

\* Streaming first where the browser has it, a plain fetch otherwise.
BootFetch ==
    /\ page = "loading" /\ ~onFile
    /\ page' \in {"streaming", "plain"}
    /\ UNCHANGED <<enabled, evalVars, shownVars, loadVars>>

StreamingFails ==
    /\ page = "streaming"
    /\ page' = "plain"
    /\ UNCHANGED <<enabled, evalVars, shownVars, loadVars>>

Instantiated ==
    /\ page \in {"streaming", "plain"}
    /\ page' = "instantiated"
    /\ UNCHANGED <<enabled, evalVars, shownVars, loadVars>>

\* The catch at the end of the chain.
PlainFails ==
    /\ page = "plain"
    /\ page' = "fallback" /\ LoadStart
    /\ UNCHANGED <<enabled, evalVars, shownVars>>

\* Mutant of OnReady: setEnabled is not called.
OnReadyDisabled ==
    /\ page = "instantiated"
    /\ page' = "ready"
    /\ PaintDrawer(<<>>, <<>>, "")
    /\ UNCHANGED <<enabled, evalVars, reply, tape, loadVars>>

\* go.run starts main, which calls kvstoreOnReady before it parks.
OnReady ==
    /\ page = "instantiated"
    /\ page' = "ready"
    /\ enabled' = TRUE
    /\ PaintDrawer(<<>>, <<>>, "")
    /\ UNCHANGED <<evalVars, reply, tape, loadVars>>

\* loadData goes on, then showStored draws the captured session.
LoadStep ==
    /\ page = "fallback" /\ LoadNext
    /\ UNCHANGED <<page, enabled, evalVars, shownVars>>

ShowStored ==
    /\ page = "fallback" /\ load = "resolved"
    /\ page' = "stored"
    /\ tape' = CapturedLines
    /\ PaintDrawer(FinalState, <<>>, "")
    /\ UNCHANGED <<enabled, evalVars, reply, loadVars>>

\* The file that was fetched holds no captured session: nothing is drawn.
StoredAbsent ==
    /\ page = "fallback" /\ load = "resolved" /\ source = "json"
    /\ page' = "stored"
    /\ UNCHANGED <<enabled, evalVars, shownVars, loadVars>>

StoredFails ==
    /\ page = "fallback" /\ load = "rejected"
    /\ page' = "unreadable"
    /\ UNCHANGED <<enabled, evalVars, shownVars, loadVars>>

--------------------------------------------------------------------------------
(* run, and eval in the compiled code. *)

\* Mutant of Remember: the list counts as full one name early.
RememberEarly(names, key) ==
    IF (\E i \in DOMAIN names : names[i] = key) \/ Len(names) + 1 >= SeenCap
    THEN names ELSE Append(names, key)

Remember(names, key) ==
    IF (\E i \in DOMAIN names : names[i] = key) \/ Len(names) >= SeenCap
    THEN names ELSE Append(names, key)

\* rows: every remembered key is read from the store again.
Rows(names, m) ==
    LET held   == {i \in DOMAIN names : names[i] \in DOMAIN m}
        key(n) == names[Nth(held, n)]
    IN  [n \in 1..Cardinality(held) |-> Row(key(n), m[key(n)])]

\* Mutant of PageExecute: DEL always reports a deletion.
PageExecuteBlind(cmd, m) ==
    CASE cmd.op = "get" ->
            [reply |-> IF cmd.key \in DOMAIN m THEN ReplyValue(m[cmd.key]) ELSE ReplyNil,
             data  |-> m]
      [] cmd.op = "set" -> [reply |-> ReplyOK, data |-> Put(m, cmd.key, cmd.value)]
      [] cmd.op = "del" -> [reply |-> ReplyInt(1), data |-> [k \in DOMAIN m \ {cmd.key} |-> m[k]]]

\* execute of docs/wasm/main.go, which mirrors the one of the server.
PageExecute(cmd, m) ==
    CASE cmd.op = "get" ->
            [reply |-> IF cmd.key \in DOMAIN m THEN ReplyValue(m[cmd.key]) ELSE ReplyNil,
             data  |-> m]
      [] cmd.op = "set" -> [reply |-> ReplyOK, data |-> Put(m, cmd.key, cmd.value)]
      [] cmd.op = "del" ->
            [reply |-> ReplyInt(IF cmd.key \in DOMAIN m THEN 1 ELSE 0),
             data  |-> [k \in DOMAIN m \ {cmd.key} |-> m[k]]]

\* Mutant of Eval: the rows are read before the command runs.
EvalStale(text) ==
    LET cmd == Parse(text)
        x   == PageExecute(cmd, data)
    IN  IF cmd.op = "error"
        THEN /\ reply' = ReplyError(cmd.value)
             /\ PaintDrawer(Rows(seen, data), <<>>, "")
             /\ UNCHANGED evalVars
        ELSE /\ seen' = IF cmd.op = "set" THEN Remember(seen, cmd.key) ELSE seen
             /\ data' = x.data
             /\ reply' = x.reply
             /\ PaintDrawer(Rows(seen', data), cmd.key, cmd.op)

\* kvstoreEval, and the painting of what it returns.
Eval(text) ==
    LET cmd == Parse(text)
        x   == PageExecute(cmd, data)
    IN  IF cmd.op = "error"
        THEN /\ reply' = ReplyError(cmd.value)
             /\ PaintDrawer(Rows(seen, data), <<>>, "")
             /\ UNCHANGED evalVars
        ELSE /\ seen' = IF cmd.op = "set" THEN Remember(seen, cmd.key) ELSE seen
             /\ data' = x.data
             /\ reply' = x.reply
             /\ PaintDrawer(Rows(seen', data'), cmd.key, cmd.op)

\* run: nothing happens before the code is ready, or for a blank line.
Run(text) ==
    /\ enabled /\ ~Blank(text)
    /\ Eval(text)
    /\ UNCHANGED <<page, enabled, tape, loadVars>>

Boot ==
    \/ BootFallback \/ BootFetch \/ StreamingFails \/ Instantiated \/ PlainFails
    \/ OnReady \/ LoadStep \/ ShowStored \/ StoredAbsent \/ StoredFails

Next == Boot \/ \E text \in Inputs : Run(text)

\* Every promise of boot is settled one way or the other.
Spec == Init /\ [][Next]_vars /\ WF_vars(Boot)

--------------------------------------------------------------------------------

Shown == {drawer[i].key : i \in DOMAIN drawer}

(***************************************************************************)
(* Once the code is ready, a slot of the drawer never shows a stale value, *)
(* a deleted label or a label twice, and the mark is on a label that is in *)
(* the map.                                                                *)
(***************************************************************************)
DrawerTrue ==
    enabled =>
        /\ \A i \in DOMAIN drawer :
              drawer[i].key \in DOMAIN data /\ drawer[i].value = data[drawer[i].key]
        /\ Cardinality(Shown) = Len(drawer)
        /\ marked \in 0..Len(drawer)
        /\ count <= Cardinality(DOMAIN data)

(***************************************************************************)
(* A label in the map is missing from the drawer only when the drawer's    *)
(* slots are all taken or the list of names has been full: a label that    *)
(* was ever shown comes back when it is set again.                         *)
(***************************************************************************)
DrawerMissesOnlyAtCap ==
    enabled =>
        \A k \in DOMAIN data :
            k \in Shown \/ Len(drawer) = Slots \/ (Len(seen) = SeenCap /\ k \notin Range(seen))

(***************************************************************************)
(* The page answers as the TCP server would: the same reply to every line, *)
(* one that does not parse included, and the same map after it.            *)
(***************************************************************************)
AnswersAsServer ==
    [][\A text \in Inputs :
          Run(text) => ServeLine([data |-> data, replies |-> <<>>], text) =
                           [data |-> data', replies |-> <<reply'>>]]_vars

(***************************************************************************)
(* The page settles: it runs the compiled code, shows the stored session,  *)
(* or says that this cannot be read; and it takes input only when live.    *)
(***************************************************************************)
PageSettles == <>[](page \in {"ready", "stored", "unreadable"} /\ (enabled <=> page = "ready"))

(***************************************************************************)
(* The stored session is one the server could have had (docs/NOTES.md:     *)
(* "the exact bytes it wrote back"): served one by one, its commands give  *)
(* its replies, and the labels drawn below are what they leave behind.     *)
(***************************************************************************)
StoredIsReal ==
    tape # <<>> =>
        LET ref == Served([i \in DOMAIN tape |-> tape[i].command])
        IN  /\ \A i \in DOMAIN tape : Append(tape[i].reply, LF) = ref.replies[i]
            /\ {drawer[i].key : i \in DOMAIN drawer} = DOMAIN ref.data
            /\ \A i \in DOMAIN drawer : drawer[i].value = ref.data[drawer[i].key]
            /\ count = Cardinality(DOMAIN ref.data)

================================================================================
