-------------------------------- MODULE LoadData --------------------------------
(***************************************************************************)
(* Kit.loadData of docs/kit.js: a promise for the page's data, from the    *)
(* JSON file when it can be fetched, else from the copy that a script tag  *)
(* has put into window.DEMO_DATA.                                          *)
(***************************************************************************)

VARIABLES
    onFile,   \* the page was opened from a file
    inline,   \* window.DEMO_DATA holds the data
    load,     \* "idle", "fetching", "parsing", "resolved" or "rejected"
    source    \* where the data came from: "none", "json" or "inline"

loadVars == <<onFile, inline, load, source>>

LoadInit ==
    /\ onFile \in BOOLEAN /\ inline \in BOOLEAN
    /\ load = "idle" /\ source = "none"

\* The inlined copy, or a rejection when there is none.
Fallback ==
    /\ load' = IF inline THEN "resolved" ELSE "rejected"
    /\ source' = IF inline THEN "inline" ELSE "none"
    /\ UNCHANGED <<onFile, inline>>

\* The call.  Opened from a file, without fetch, or when fetch throws, it
\* settles at once.
LoadStart ==
    \/ Fallback
    \/ ~onFile /\ load' = "fetching" /\ UNCHANGED <<onFile, inline, source>>

\* The answer arrives with a good status; or it does not.
Responds ==
    /\ load = "fetching"
    /\ \/ load' = "parsing" /\ UNCHANGED <<onFile, inline, source>>
       \/ Fallback

\* Mutant of Parsed: an unreadable body rejects the promise.
ParsedOrRejected ==
    /\ load = "parsing"
    /\ \/ load' = "resolved" /\ source' = "json" /\ UNCHANGED <<onFile, inline>>
       \/ load' = "rejected" /\ UNCHANGED <<onFile, inline, source>>

\* The body is read as JSON; or it cannot be.
Parsed ==
    /\ load = "parsing"
    /\ \/ load' = "resolved" /\ source' = "json" /\ UNCHANGED <<onFile, inline>>
       \/ Fallback

LoadNext == Responds \/ Parsed

--------------------------------------------------------------------------------

(***************************************************************************)
(* "Any failure at all (network, bad status, unparseable JSON) falls back":*)
(* the promise is rejected only when the inlined copy is missing too, and  *)
(* a page opened from a file never waits for the network.                  *)
(***************************************************************************)
LoadFallsBack ==
    /\ load = "rejected" => ~inline
    /\ load = "resolved" => source = "json" \/ (source = "inline" /\ inline)
    /\ onFile => load \notin {"fetching", "parsing"} /\ source # "json"

================================================================================
