----------------------------- MODULE CapturedSession -----------------------------
(***************************************************************************)
(* The session that docs/data/kvstore.js carries, captured from the TCP    *)
(* server: the commands, the reply lines and the labels left at the end.   *)
(***************************************************************************)
EXTENDS Executor

Row(k, v) == [key |-> k, value |-> v]

Exchange(c, r) == [command |-> c, reply |-> r]

Greeting == <<"hello", SP, "there", SP, "friend">>

\* captured_session.lines; the wording of an error is one atom, as in Protocol.
CapturedLines == <<
    Exchange(<<"SET", SP, "name", SP, "alice">>,         <<"OK">>),
    Exchange(<<"GET", SP, "name">>,                      <<"alice">>),
    Exchange(<<"SET", SP, "greeting", SP>> \o Greeting,  <<"OK">>),
    Exchange(<<"GET", SP, "greeting">>,                  Greeting),
    Exchange(<<"GET", SP, "nothing">>,                   <<"(nil)">>),
    Exchange(<<"DEL", SP, "name">>,                      <<"1">>),
    Exchange(<<"GET", SP, "name">>,                      <<"(nil)">>),
    Exchange(<<"PING">>,                                 <<"ERR ", "unknown">>),
    Exchange(<<"GET">>,                                  <<"ERR ", "key">>) >>

\* captured_session.final_state
FinalState == <<Row(<<"greeting">>, Greeting)>>

================================================================================
