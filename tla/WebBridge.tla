-------------------------------- MODULE WebBridge --------------------------------
(***************************************************************************)
(* cmd/kvstore-web: the script of the console page posts a command,        *)
(* handleCmd dials the kvstore server for it, writes one line, reads one   *)
(* line and answers.  Requests run side by side, each on a connection of   *)
(* its own with a deadline of two seconds.  The kvstore server is the      *)
(* environment: it serves a line sooner or later or closes the connection, *)
(* and it goes on with a line it has received when the bridge has left     *)
(* (module Connection).                                                    *)
(***************************************************************************)
EXTENDS Naturals, Sequences, Functions

CONSTANTS
    Requests,   \* the requests that are made
    Absent      \* what GET finds before any SET

ASSUME BridgeAssumption == Absent \notin Requests

\* What a client may post: commands, nothing but blanks, text with a line feed,
\* and a body that is no JSON object.  The page's own script posts commands.
Commands == {"set", "get"}
Bodies   == Commands \cup {"blank", "lines", "garbage"}

VARIABLES
    body,       \* the body of each request, "none" before it is made
    handler,    \* where handleCmd is
    deadline,   \* the connection has a deadline; then it has expired
    line,       \* what the server has received: "none", "piece" or "whole"
    conn,       \* the connection: "none", "open", "left" by the bridge, "closed"
    executed,   \* what the server has executed: "none", "piece" or "whole"
    reply,      \* the server's reply to the whole line
    answer,     \* what the bridge has answered, "none" before
    got,        \* the reply in a 200
    store,      \* the value of the one key: the request that set it last, or
                \* "piece" for a value that was cut off
    log         \* the lines of the page: sent commands and their outcomes

vars == <<body, handler, deadline, line, conn, executed, reply, answer, got, store, log>>
serverVars == <<executed, reply, store>>
pageVars   == <<body, log>>

Init ==
    /\ body = [r \in Requests |-> "none"]
    /\ handler = [r \in Requests |-> "none"]
    /\ deadline = [r \in Requests |-> "unset"]
    /\ line = [r \in Requests |-> "none"]
    /\ conn = [r \in Requests |-> "none"]
    /\ executed = [r \in Requests |-> "none"]
    /\ reply = [r \in Requests |-> "none"]
    /\ answer = [r \in Requests |-> "none"]
    /\ got = [r \in Requests |-> "none"]
    /\ store = Absent
    /\ log = <<>>

--------------------------------------------------------------------------------
(* The page, and other clients of the endpoint. *)

Entry(r, w) == [request |-> r, what |-> w]
Sent(r)     == Entry(r, "sent")
Settled(r)  == \E i \in DOMAIN log : log[i].request = r /\ log[i].what # "sent"

\* The page's submit handler: the command is logged and posted; the handler
\* then awaits the answer, and the visitor may submit the next command.
Submit(r, c) ==
    /\ body[r] = "none"
    /\ body' = [body EXCEPT ![r] = c]
    /\ handler' = [handler EXCEPT ![r] = "posted"]
    /\ log' = IF c \in Commands THEN Append(log, Sent(r)) ELSE log
    /\ UNCHANGED <<deadline, line, conn, serverVars, answer, got>>

\* The answer arrives: a reply, or the text of an error.
Receive(r) ==
    /\ answer[r] # "none" /\ Sent(r) \in Range(log) /\ ~Settled(r)
    /\ log' = Append(log, Entry(r, IF answer[r] = "200" THEN "reply" ELSE "err"))
    /\ UNCHANGED <<body, handler, deadline, line, conn, serverVars, answer, got>>

\* The request never reaches the bridge or its answer is lost: fetch rejects.
FetchFails(r) ==
    /\ Sent(r) \in Range(log) /\ ~Settled(r)
    /\ log' = Append(log, Entry(r, "err"))
    /\ \/ UNCHANGED handler
       \/ handler[r] = "posted" /\ handler' = [handler EXCEPT ![r] = "lost"]
    /\ UNCHANGED <<body, deadline, line, conn, serverVars, answer, got>>

--------------------------------------------------------------------------------
(* handleCmd. *)

\* http.Error or the result, and the deferred conn.Close().
Answer(r, status) ==
    /\ handler' = [handler EXCEPT ![r] = "answered"]
    /\ answer' = [answer EXCEPT ![r] = status]
    /\ conn' = [conn EXCEPT ![r] = IF @ = "open" THEN "left" ELSE @]

\* The body must decode to one line that is not blank.
Check(r) ==
    /\ handler[r] = "posted"
    /\ IF body[r] \in Commands
       THEN handler' = [handler EXCEPT ![r] = "checked"] /\ UNCHANGED <<answer, conn>>
       ELSE Answer(r, "400")
    /\ UNCHANGED <<pageVars, deadline, line, serverVars, got>>

\* Mutant of DialOk: no deadline is set on the connection.
DialOkUnlimited(r) ==
    /\ handler[r] = "checked"
    /\ handler' = [handler EXCEPT ![r] = "dialed"]
    /\ conn' = [conn EXCEPT ![r] = "open"]
    /\ UNCHANGED <<pageVars, deadline, line, serverVars, answer, got>>

DialOk(r) ==
    /\ handler[r] = "checked"
    /\ handler' = [handler EXCEPT ![r] = "dialed"]
    /\ conn' = [conn EXCEPT ![r] = "open"]
    /\ deadline' = [deadline EXCEPT ![r] = "set"]
    /\ UNCHANGED <<pageVars, line, serverVars, answer, got>>

\* Refused, or no answer within two seconds.
DialFail(r) ==
    /\ handler[r] = "checked"
    /\ Answer(r, "unreachable")
    /\ UNCHANGED <<pageVars, deadline, line, serverVars, got>>

WriteOk(r) ==
    /\ handler[r] = "dialed" /\ conn[r] = "open"
    /\ handler' = [handler EXCEPT ![r] = "written"]
    /\ line' = [line EXCEPT ![r] = "whole"]
    /\ UNCHANGED <<pageVars, deadline, conn, serverVars, answer, got>>

\* The connection breaks or the deadline expires; part of the line may be out.
WriteFail(r) ==
    /\ handler[r] = "dialed" /\ (conn[r] = "closed" \/ deadline[r] = "expired")
    /\ \E sent \in {"none", "piece"} : line' = [line EXCEPT ![r] = sent]
    /\ Answer(r, "write failed")
    /\ UNCHANGED <<pageVars, deadline, serverVars, got>>

ReadOk(r) ==
    /\ handler[r] = "written" /\ reply[r] # "none"
    /\ got' = [got EXCEPT ![r] = reply[r]]
    /\ Answer(r, "200")
    /\ UNCHANGED <<pageVars, deadline, line, serverVars>>

\* Mutant of ReadFail: the error of the read is ignored.
ReadFailIgnored(r) ==
    /\ handler[r] = "written" /\ (conn[r] = "closed" \/ deadline[r] = "expired")
    /\ Answer(r, "200")
    /\ UNCHANGED <<pageVars, deadline, line, serverVars, got>>

\* The connection ends or the deadline expires before a whole line has come.
ReadFail(r) ==
    /\ handler[r] = "written" /\ (conn[r] = "closed" \/ deadline[r] = "expired")
    /\ Answer(r, "read failed")
    /\ UNCHANGED <<pageVars, deadline, line, serverVars, got>>

Handle(r) ==
    \/ Check(r) \/ DialOk(r) \/ DialFail(r) \/ WriteOk(r) \/ WriteFail(r)
    \/ ReadOk(r) \/ ReadFail(r)

\* Two seconds after the dial.
Expire(r) ==
    /\ deadline[r] = "set"
    /\ deadline' = [deadline EXCEPT ![r] = "expired"]
    /\ UNCHANGED <<pageVars, handler, line, conn, serverVars, answer, got>>

--------------------------------------------------------------------------------
(* The kvstore server. *)

\* A whole line is executed, whether or not the bridge still waits, and even when
\* the server has closed the connection by then: only the reply is lost.
Execute(r) ==
    /\ line[r] = "whole" /\ executed[r] = "none"
    /\ executed' = [executed EXCEPT ![r] = "whole"]
    /\ reply' = [reply EXCEPT ![r] = IF conn[r] = "closed" THEN @
                                     ELSE IF body[r] = "set" THEN "OK" ELSE store]
    /\ store' = IF body[r] = "set" THEN r ELSE store
    /\ UNCHANGED <<pageVars, handler, deadline, line, conn, answer, got>>

\* What has arrived of a broken-off line counts as a line: it may be no command
\* any more, or it may set a value that was not meant.
ExecutePiece(r) ==
    /\ line[r] = "piece" /\ conn[r] \in {"left", "closed"} /\ executed[r] = "none"
    /\ executed' = [executed EXCEPT ![r] = "piece"]
    /\ store' \in {store} \cup (IF body[r] = "set" THEN {"piece"} ELSE {})
    /\ UNCHANGED <<pageVars, handler, deadline, line, conn, reply, answer, got>>

\* The server shuts down or gives up the connection.
ServerCloses(r) ==
    /\ conn[r] \in {"open", "left"}
    /\ conn' = [conn EXCEPT ![r] = "closed"]
    /\ UNCHANGED <<pageVars, handler, deadline, line, serverVars, answer, got>>

Environment(r) == Execute(r) \/ ExecutePiece(r) \/ ServerCloses(r)

Next ==
    \E r \in Requests :
        \/ (\E c \in Bodies : Submit(r, c))
        \/ Receive(r) \/ FetchFails(r) \/ Handle(r) \/ Expire(r) \/ Environment(r)

Spec == Init /\ [][Next]_vars

\* Handlers and the page go on when they can, deadlines expire; nothing is
\* assumed of the kvstore server.
FairSpec ==
    Spec /\ \A r \in Requests : WF_vars(Handle(r)) /\ WF_vars(Expire(r)) /\ WF_vars(Receive(r))

--------------------------------------------------------------------------------

(***************************************************************************)
(* What an answer says of the command holds when it is given and for ever  *)
(* after: with a 200 the whole command ran and the reply is its own; after *)
(* a 400 or a failed dial nothing ran and nothing will; only when writing  *)
(* or reading failed may the command have run, or still run, and only      *)
(* after a failed write may a piece of it have run.                        *)
(***************************************************************************)
AnswersTruthful ==
    \A r \in Requests :
        /\ answer[r] = "200" => executed[r] = "whole" /\ got[r] = reply[r] /\ got[r] # "none"
        /\ answer[r] \in {"400", "unreachable"} => executed[r] = "none"
        /\ executed[r] = "piece" => answer[r] = "write failed"

(***************************************************************************)
(* Every command the page shows as sent gets its outcome on the page, even *)
(* when the kvstore server accepts the connection and never answers.       *)
(***************************************************************************)
EveryCommandLogged ==
    \A r \in Requests :
        Sent(r) \in Range(log) ~> Settled(r)

================================================================================
