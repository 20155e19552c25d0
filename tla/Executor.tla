-------------------------------- MODULE Executor --------------------------------
(***************************************************************************)
(* execute of server/server.go: a parsed command against the store.  The   *)
(* store is a function on the keys it holds.  A call of the store is one   *)
(* step here, which MemoryStore justifies.                                 *)
(***************************************************************************)
EXTENDS Protocol, SequencesExt

\* The reply to a command.
ExecuteReply(cmd, m) ==
    LET found == cmd.key \in DOMAIN m
    IN  CASE cmd.op = "get" -> IF found THEN ReplyValue(m[cmd.key]) ELSE ReplyNil
          [] cmd.op = "set" -> ReplyOK
          [] cmd.op = "del" -> ReplyInt(IF found THEN 1 ELSE 0)

Put(m, k, v) == [x \in DOMAIN m \cup {k} |-> IF x = k THEN v ELSE m[x]]

\* What the map becomes.
ExecuteEffect(cmd, m) ==
    CASE cmd.op = "get" -> m
      [] cmd.op = "set" -> Put(m, cmd.key, cmd.value)
      [] cmd.op = "del" -> [k \in DOMAIN m \ {cmd.key} |-> m[k]]

\* One line served: the command's effect and reply, or the error reply.
ServeLine(acc, l) ==
    LET cmd == Parse(l)
    IN  IF cmd.op = "error"
        THEN [data    |-> acc.data,
              replies |-> Append(acc.replies, ReplyError(cmd.value))]
        ELSE [data    |-> ExecuteEffect(cmd, acc.data),
              replies |-> Append(acc.replies, ExecuteReply(cmd, acc.data))]

Unserved == [data |-> <<>>, replies |-> <<>>]

\* The store and the replies after lines have been served one by one.
Served(lines) == FoldLeft(ServeLine, Unserved, lines)

================================================================================
