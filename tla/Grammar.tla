--------------------------------- MODULE Grammar ---------------------------------
(***************************************************************************)
(* A grammar of the command line, as README.md gives it, to check Parse    *)
(* against.                                                                *)
(***************************************************************************)
EXTENDS Protocol

Verbs(op) == CASE op = "get" -> {"GET", "get"} [] op = "set" -> {"SET", "set"} [] op = "del" -> {"DEL", "del"}

Ending(s) == \A i \in DOMAIN s : s[i] \in {CR, LF}

\* The grammar: verb blank key [blank value] ending.  The key is not empty and
\* holds no blank, and the ending is as long as it can be.
Denotes(s, cmd) ==
    \E v \in Verbs(cmd.op), n \in 0..Len(s) :
        LET text == <<v, SP>> \o cmd.key \o (IF cmd.op = "set" THEN <<SP>> \o cmd.value ELSE <<>>)
        IN  /\ s = text \o SubSeq(s, n + 1, Len(s))
            /\ Ending(SubSeq(s, n + 1, Len(s)))
            /\ n = Len(text)
            /\ text[n] \notin {CR, LF}
            /\ cmd.key # <<>> /\ \A i \in DOMAIN cmd.key : cmd.key[i] # SP

\* Every command that some cut of s into a key and a value could mean.
Readings(s) ==
    {Command(op, SubSeq(s, 3, i), IF op = "set" THEN SubSeq(s, i + 2, j) ELSE <<>>) :
        op \in {"get", "set", "del"}, i \in 2..Len(s), j \in 2..Len(s)}

\* Parse returns what the grammar says: the command that s denotes, or an error
\* when it denotes none.
Exact(s) ==
    LET cmd == Parse(s)
    IN  IF cmd.op = "error" THEN \A r \in Readings(s) : ~Denotes(s, r)
                            ELSE Denotes(s, cmd)

================================================================================
