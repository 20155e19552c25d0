-------------------------------- MODULE Protocol --------------------------------
(***************************************************************************)
(* protocol/protocol.go: lines to commands, replies to lines.              *)
(*                                                                         *)
(* Text is a sequence of atoms.  An atom is one of the characters that the *)
(* code looks at (blank, tab, CR, LF) or a string without any of them,     *)
(* such as a verb, a key or a piece of a value; two atoms side by side     *)
(* make one longer string.                                                 *)
(***************************************************************************)
EXTENDS Naturals, Sequences, FiniteSets, FiniteSetsExt

SP  == " "
TAB == "TAB"
CR  == "CR"
LF  == "LF"

\* strings.ToUpper on the first field.
ToUpper(s) ==
    CASE s = <<"get">> -> <<"GET">>
      [] s = <<"set">> -> <<"SET">>
      [] s = <<"del">> -> <<"DEL">>
      [] OTHER         -> s

\* strings.TrimRight(line, "\r\n")
TrimRight(s) == SubSeq(s, 1, Max({0} \cup {i \in DOMAIN s : s[i] \notin {CR, LF}}))

\* strings.TrimSpace(line) == ""
Blank(s) == \A i \in DOMAIN s : s[i] \in {SP, TAB, CR, LF}

\* Mutant of SplitN: the value ends at the next blank, as strings.Split has it.
SplitAll(s) ==
    LET blanks == {i \in DOMAIN s : s[i] = SP}
        i == Min(blanks)
        j == Min(blanks \ {i})
        k == Min((blanks \ {i, j}) \cup {Len(s) + 1})
    IN  CASE blanks = {}             -> <<s>>
          [] Cardinality(blanks) = 1 -> <<SubSeq(s, 1, i - 1), SubSeq(s, i + 1, Len(s))>>
          [] OTHER                   -> <<SubSeq(s, 1, i - 1), SubSeq(s, i + 1, j - 1),
                                          SubSeq(s, j + 1, k - 1)>>

\* strings.SplitN(line, " ", 3): at most two cuts, at the first two blanks.
SplitN(s) ==
    LET blanks == {i \in DOMAIN s : s[i] = SP}
        i == Min(blanks)
        j == Min(blanks \ {i})
    IN  CASE blanks = {}             -> <<s>>
          [] Cardinality(blanks) = 1 -> <<SubSeq(s, 1, i - 1), SubSeq(s, i + 1, Len(s))>>
          [] OTHER                   -> <<SubSeq(s, 1, i - 1), SubSeq(s, i + 1, j - 1),
                                          SubSeq(s, j + 1, Len(s))>>

Command(op, key, value) == [op |-> op, key |-> key, value |-> value]
Fail(why) == [op |-> "error", key |-> <<>>, value |-> <<why>>]

\* Mutant of Fields: an empty key passes.
FieldsAny(parts, n) == Len(parts) = n

\* Exactly n fields, the second of which is a key that is not empty.
Fields(parts, n) == Len(parts) = n /\ parts[2] # <<>>

Parse(line) ==
    LET text  == TrimRight(line)
        parts == SplitN(text)
        verb  == ToUpper(parts[1])
        op    == IF verb = <<"DEL">> THEN "del" ELSE "get"
    IN  IF Blank(text) THEN Fail("empty") ELSE
        CASE verb \in {<<"GET">>, <<"DEL">>} ->
                IF Fields(parts, 2) THEN Command(op, parts[2], <<>>) ELSE Fail("key")
          [] verb = <<"SET">> ->
                IF Fields(parts, 3) THEN Command("set", parts[2], parts[3]) ELSE Fail("keyvalue")
          [] OTHER -> Fail("unknown")

ReplyValue(v)   == v \o <<LF>>
ReplyNil        == <<"(nil)", LF>>
ReplyOK         == <<"OK", LF>>
ReplyInt(n)     == <<IF n = 1 THEN "1" ELSE "0", LF>>

ReplyError(why) == <<"ERR ">> \o why \o <<LF>>

================================================================================
