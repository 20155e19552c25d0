--------------------------- MODULE WebBridgeProofs ---------------------------
(***************************************************************************)
(* The bridge for any number of requests at once.                          *)
(***************************************************************************)
EXTENDS WebBridge, TLAPS

\* Everything but the log and the shared value is a function on the requests.
BridgeFunctions ==
    /\ DOMAIN body = Requests /\ DOMAIN handler = Requests /\ DOMAIN line = Requests
    /\ DOMAIN executed = Requests /\ DOMAIN reply = Requests
    /\ DOMAIN answer = Requests /\ DOMAIN got = Requests

\* How far handleCmd is tells what the server can have received, and that tells
\* what it can have executed; a reply belongs to an executed command.
Consistent(r) ==
    /\ line[r] \in {"none", "piece", "whole"} /\ executed[r] \in {"none", line[r]}
    /\ body[r] = "none" => handler[r] = "none"
    /\ handler[r] # "answered" => answer[r] = "none"
    /\ handler[r] \in {"none", "posted", "checked", "dialed", "lost"} => line[r] = "none"
    /\ handler[r] \in {"none", "posted", "checked", "dialed", "lost", "written", "answered"}
    /\ handler[r] = "written" => line[r] = "whole"
    /\ answer[r] \in {"400", "unreachable"} => line[r] = "none"
    /\ line[r] = "piece" => answer[r] = "write failed"
    /\ reply[r] # "none" => executed[r] = "whole"
    /\ answer[r] = "200" => got[r] = reply[r] /\ got[r] # "none"

BridgeInv == BridgeFunctions /\ \A r \in Requests : Consistent(r)

\* The other requests stay as they are.
Untouched(r) ==
    \A q \in Requests \ {r} :
        /\ body'[q] = body[q] /\ handler'[q] = handler[q] /\ line'[q] = line[q]
        /\ executed'[q] = executed[q] /\ reply'[q] = reply[q] /\ answer'[q] = answer[q]
        /\ got'[q] = got[q]

\* A step leaves the requests alone that it is not about.
LEMMA OneRequestSteps ==
    ASSUME BridgeInv, NEW r \in Requests, BridgeFunctions', Consistent(r)', Untouched(r)
    PROVE  BridgeInv'
<1>1. ASSUME NEW q \in Requests, q # r PROVE Consistent(q)'
  <2>1. Consistent(q)
    BY DEF BridgeInv
  <2>2. /\ body'[q] = body[q] /\ handler'[q] = handler[q] /\ line'[q] = line[q]
        /\ executed'[q] = executed[q] /\ reply'[q] = reply[q] /\ answer'[q] = answer[q]
        /\ got'[q] = got[q]
    BY <1>1 DEF Untouched
  <2> QED
    BY <2>1, <2>2 DEF Consistent
<1> QED
  BY <1>1 DEF BridgeInv

\* Every step keeps the invariant.
LEMMA BridgeInductive ==
    ASSUME BridgeInv, [Next]_vars
    PROVE  BridgeInv'
<1> USE DEF serverVars, pageVars
<1>1. CASE UNCHANGED vars
  BY <1>1 DEF vars, BridgeInv, BridgeFunctions, Consistent
<1>2. ASSUME NEW r \in Requests, NEW c \in Bodies, Submit(r, c) PROVE BridgeInv'
  <2>1. BridgeFunctions /\ Consistent(r)
    BY DEF BridgeInv
  <2>2. BridgeFunctions' /\ Untouched(r)
    BY <1>2, <2>1 DEF BridgeFunctions, Untouched, Submit, Bodies, Commands
  <2>3. Consistent(r)'
    BY <1>2, <2>1 DEF BridgeFunctions, Consistent, Submit, Bodies, Commands
  <2> QED
    BY <2>2, <2>3, OneRequestSteps
<1>3. ASSUME NEW r \in Requests, Receive(r) PROVE BridgeInv'
  <2>1. BridgeFunctions /\ Consistent(r)
    BY DEF BridgeInv
  <2>2. BridgeFunctions' /\ Untouched(r)
    BY <1>3, <2>1 DEF BridgeFunctions, Untouched, Receive
  <2>3. Consistent(r)'
    BY <1>3, <2>1 DEF BridgeFunctions, Consistent, Receive
  <2> QED
    BY <2>2, <2>3, OneRequestSteps
<1>4. ASSUME NEW r \in Requests, FetchFails(r) PROVE BridgeInv'
  <2>1. BridgeFunctions /\ Consistent(r)
    BY DEF BridgeInv
  <2>2. BridgeFunctions' /\ Untouched(r)
    BY <1>4, <2>1 DEF BridgeFunctions, Untouched, FetchFails
  <2>3. Consistent(r)'
    BY <1>4, <2>1 DEF BridgeFunctions, Consistent, FetchFails
  <2> QED
    BY <2>2, <2>3, OneRequestSteps
<1>5. ASSUME NEW r \in Requests, Check(r) PROVE BridgeInv'
  <2>1. BridgeFunctions /\ Consistent(r)
    BY DEF BridgeInv
  <2>2. BridgeFunctions' /\ Untouched(r)
    BY <1>5, <2>1 DEF BridgeFunctions, Untouched, Check, Answer
  <2>3. Consistent(r)'
    BY <1>5, <2>1 DEF BridgeFunctions, Consistent, Check, Answer
  <2> QED
    BY <2>2, <2>3, OneRequestSteps
<1>6. ASSUME NEW r \in Requests, DialOk(r) PROVE BridgeInv'
  <2>1. BridgeFunctions /\ Consistent(r)
    BY DEF BridgeInv
  <2>2. BridgeFunctions' /\ Untouched(r)
    BY <1>6, <2>1 DEF BridgeFunctions, Untouched, DialOk
  <2>3. Consistent(r)'
    BY <1>6, <2>1 DEF BridgeFunctions, Consistent, DialOk
  <2> QED
    BY <2>2, <2>3, OneRequestSteps
<1>7. ASSUME NEW r \in Requests, DialFail(r) PROVE BridgeInv'
  <2>1. BridgeFunctions /\ Consistent(r)
    BY DEF BridgeInv
  <2>2. BridgeFunctions' /\ Untouched(r)
    BY <1>7, <2>1 DEF BridgeFunctions, Untouched, DialFail, Answer
  <2>3. Consistent(r)'
    BY <1>7, <2>1 DEF BridgeFunctions, Consistent, DialFail, Answer
  <2> QED
    BY <2>2, <2>3, OneRequestSteps
<1>8. ASSUME NEW r \in Requests, WriteOk(r) PROVE BridgeInv'
  <2>1. BridgeFunctions /\ Consistent(r)
    BY DEF BridgeInv
  <2>2. BridgeFunctions' /\ Untouched(r)
    BY <1>8, <2>1 DEF BridgeFunctions, Untouched, WriteOk
  <2>3. Consistent(r)'
    BY <1>8, <2>1 DEF BridgeFunctions, Consistent, WriteOk
  <2> QED
    BY <2>2, <2>3, OneRequestSteps
<1>9. ASSUME NEW r \in Requests, WriteFail(r) PROVE BridgeInv'
  <2>1. BridgeFunctions /\ Consistent(r)
    BY DEF BridgeInv
  <2>2. BridgeFunctions' /\ Untouched(r)
    BY <1>9, <2>1 DEF BridgeFunctions, Untouched, WriteFail, Answer
  <2>3. Consistent(r)'
    BY <1>9, <2>1 DEF BridgeFunctions, Consistent, WriteFail, Answer
  <2> QED
    BY <2>2, <2>3, OneRequestSteps
<1>10. ASSUME NEW r \in Requests, ReadOk(r) PROVE BridgeInv'
  <2>1. BridgeFunctions /\ Consistent(r)
    BY DEF BridgeInv
  <2>2. BridgeFunctions' /\ Untouched(r)
    BY <1>10, <2>1 DEF BridgeFunctions, Untouched, ReadOk, Answer
  <2>3. Consistent(r)'
    BY <1>10, <2>1 DEF BridgeFunctions, Consistent, ReadOk, Answer
  <2> QED
    BY <2>2, <2>3, OneRequestSteps
<1>11. ASSUME NEW r \in Requests, ReadFail(r) PROVE BridgeInv'
  <2>1. BridgeFunctions /\ Consistent(r)
    BY DEF BridgeInv
  <2>2. BridgeFunctions' /\ Untouched(r)
    BY <1>11, <2>1 DEF BridgeFunctions, Untouched, ReadFail, Answer
  <2>3. Consistent(r)'
    BY <1>11, <2>1 DEF BridgeFunctions, Consistent, ReadFail, Answer
  <2> QED
    BY <2>2, <2>3, OneRequestSteps
<1>12. ASSUME NEW r \in Requests, Expire(r) PROVE BridgeInv'
  <2>1. BridgeFunctions /\ Consistent(r)
    BY DEF BridgeInv
  <2>2. BridgeFunctions' /\ Untouched(r)
    BY <1>12, <2>1 DEF BridgeFunctions, Untouched, Expire
  <2>3. Consistent(r)'
    BY <1>12, <2>1 DEF BridgeFunctions, Consistent, Expire
  <2> QED
    BY <2>2, <2>3, OneRequestSteps
<1>13. ASSUME NEW r \in Requests, ServerCloses(r) PROVE BridgeInv'
  <2>1. BridgeFunctions /\ Consistent(r)
    BY DEF BridgeInv
  <2>2. BridgeFunctions' /\ Untouched(r)
    BY <1>13, <2>1 DEF BridgeFunctions, Untouched, ServerCloses
  <2>3. Consistent(r)'
    BY <1>13, <2>1 DEF BridgeFunctions, Consistent, ServerCloses
  <2> QED
    BY <2>2, <2>3, OneRequestSteps
<1>14. ASSUME NEW r \in Requests, Execute(r) PROVE BridgeInv'
  <2>1. BridgeFunctions /\ Consistent(r)
    BY DEF BridgeInv
  <2>2. BridgeFunctions' /\ Untouched(r)
    BY <1>14, <2>1 DEF BridgeFunctions, Untouched, Execute
  <2>3. Consistent(r)'
    BY <1>14, <2>1 DEF BridgeFunctions, Consistent, Execute
  <2> QED
    BY <2>2, <2>3, OneRequestSteps
<1>15. ASSUME NEW r \in Requests, ExecutePiece(r) PROVE BridgeInv'
  <2>1. BridgeFunctions /\ Consistent(r)
    BY DEF BridgeInv
  <2>2. BridgeFunctions' /\ Untouched(r)
    BY <1>15, <2>1 DEF BridgeFunctions, Untouched, ExecutePiece
  <2>3. Consistent(r)'
    BY <1>15, <2>1 DEF BridgeFunctions, Consistent, ExecutePiece
  <2> QED
    BY <2>2, <2>3, OneRequestSteps
<1> QED
  BY <1>1, <1>2, <1>3, <1>4, <1>5, <1>6, <1>7, <1>8, <1>9, <1>10, <1>11, <1>12, <1>13, <1>14, <1>15
     DEF Next, Handle, Environment

(***************************************************************************)
(* What handleCmd answers about a command is true then and ever after,     *)
(* whatever other requests, the deadline and the kvstore server do.        *)
(***************************************************************************)
THEOREM AnswersTrue == Spec => []AnswersTruthful
<1>1. Init => BridgeInv
  BY DEF Init, BridgeInv, BridgeFunctions, Consistent
<1>2. BridgeInv /\ [Next]_vars => BridgeInv'
  BY BridgeInductive
<1>3. BridgeInv => AnswersTruthful
  BY DEF BridgeInv, Consistent, AnswersTruthful
<1> QED
  BY <1>1, <1>2, <1>3, PTL DEF Spec

================================================================================
