---------------------------- MODULE ConnectionProofs ----------------------------
(***************************************************************************)
(* The request loop for streams of any length, any buffer limit and any    *)
(* split into reads: what has been executed is the lines of what has been  *)
(* consumed, served one by one.                                            *)
(***************************************************************************)
EXTENDS Connection, ProtocolProofs

--------------------------------------------------------------------------------
(* The lines of a growing text. *)

\* Its lines end at its line feeds, and at its end if it stops within a line.
LEMMA EndsIs ==
    ASSUME NEW A, NEW t \in Seq(A), NEW a \in 0..Len(t)
    PROVE  LineEnds(SubSeq(t, 1, a)) =
               {i \in 1..a : t[i] = LF} \cup (IF a = 0 \/ t[a] = LF THEN {} ELSE {a + 1})
<1> DEFINE p == SubSeq(t, 1, a)
<1>1. p \in Seq(A) /\ Len(p) = a /\ a \in Nat /\ \A k \in 1..a : p[k] = t[k]
  BY PrefixIs
<1> HIDE DEF p
<1>2. {i \in DOMAIN p : p[i] = LF} = {i \in 1..a : t[i] = LF}
  BY <1>1
<1>3. p = <<>> <=> a = 0
  BY <1>1
<1>4. a # 0 => Last(p) = t[a]
  BY <1>1 DEF Last
<1>5. (p = <<>> \/ Last(p) = LF) <=> (a = 0 \/ t[a] = LF)
  BY <1>3, <1>4
<1> QED
  BY <1>1, <1>2, <1>5 DEF LineEnds, p

\* After whole lines, the next line of t ends before e: with the line feed at
\* b, or at b for want of more.
NextLine(t, a, b, e) ==
    /\ a = 0 \/ t[a] = LF
    /\ \A i \in (a + 1)..(b - 1) : t[i] # LF
    /\ e = IF t[b] = LF THEN b ELSE b + 1

LEMMA LinesAppend ==
    ASSUME NEW A, NEW t \in Seq(A), NEW a \in 0..Len(t), NEW b \in (a + 1)..Len(t),
           NEW e, NextLine(t, a, b, e)
    PROVE  Lines(SubSeq(t, 1, b)) = Append(Lines(SubSeq(t, 1, a)), SubSeq(t, a + 1, e - 1))
<1> DEFINE p == SubSeq(t, 1, a)
           q == SubSeq(t, 1, b)
           S == {i \in 1..a : t[i] = LF}
           T == S \cup {e}
           c == Cardinality(S)
<1>1. /\ a \in Nat /\ b \in Nat /\ e \in Nat /\ a < b /\ b <= Len(t) /\ Len(t) \in Nat
      /\ e > a /\ e - 1 \in a..b /\ e - 1 <= b
  BY DEF NextLine
<1>2. p \in Seq(A) /\ Len(p) = a /\ \A k \in 1..a : p[k] = t[k]
  BY <1>1, PrefixIs
<1>3. q \in Seq(A) /\ Len(q) = b /\ \A k \in 1..b : q[k] = t[k]
  BY <1>1, PrefixIs
<1>4. LineEnds(p) = S
  BY <1>1, EndsIs DEF NextLine
<1>5. LineEnds(q) = T
  <2>1. CASE t[b] = LF
    BY <1>1, <2>1, EndsIs DEF NextLine
  <2>2. CASE t[b] # LF
    BY <1>1, <2>2, EndsIs DEF NextLine
  <2> QED
    BY <2>1, <2>2
<1>6. S \in SUBSET (1..a) /\ c \in Nat
  BY <1>1, BoundedFinite
<1>7. /\ Cardinality(T) = c + 1
      /\ Nth(T, c + 1) = e
      /\ \A n \in 1..c : Nth(T, n) = Nth(S, n)
  <2>1. T = S \cup {e}
    OBVIOUS
  <2>2. a \in Nat /\ e \in Nat /\ e > a /\ S \in SUBSET (1..a)
    BY <1>1, <1>6
  <2> HIDE DEF S, T
  <2>3. PICK U \in SUBSET (1..a) : U = S
    BY <2>2
  <2>4. PICK V : V = U \cup {e}
    OBVIOUS
  <2>5. Cardinality(V) = Cardinality(U) + 1 /\ Nth(V, Cardinality(U) + 1) = e
    BY <2>2, <2>4, NthAdd
  <2>6. ASSUME NEW n \in 1..Cardinality(U) PROVE Nth(V, n) = Nth(U, n)
    BY <2>2, <2>4, NthKeeps
  <2> QED
    BY <2>1, <2>3, <2>4, <2>5, <2>6
<1>8. \A n \in 1..c : Nth(S, n) \in 1..a
  BY <1>1, <1>6, NthIn
<1>9. /\ a = 0 => c = 0
      /\ a # 0 => c # 0 /\ Nth(S, c) = a
  <2>1. a = 0 => S = {}
    OBVIOUS
  <2>2. a # 0 => a \in S
    BY <1>1 DEF NextLine
  <2> QED
    BY <1>1, <1>6, <2>1, <2>2, NthTop, FS_EmptySet
<1> DEFINE from(U, n) == IF n = 1 THEN 1 ELSE Nth(U, n - 1) + 1
<1>10. Lines(p) = [n \in 1..c |-> SubSeq(p, from(S, n), Nth(S, n) - 1)]
  BY <1>4 DEF Lines
<1>11. Lines(q) = [n \in 1..(c + 1) |-> SubSeq(q, from(T, n), Nth(T, n) - 1)]
  BY <1>5, <1>7 DEF Lines
<1> HIDE DEF p, q, S, T, c
<1>12. ASSUME NEW n \in 1..c
       PROVE  SubSeq(q, from(T, n), Nth(T, n) - 1) = SubSeq(p, from(S, n), Nth(S, n) - 1)
  <2>1. n # 1 => n - 1 \in 1..c
    BY <1>6
  <2>2. from(T, n) = from(S, n) /\ Nth(T, n) = Nth(S, n)
    BY <1>7, <2>1
  <2>3. from(S, n) \in 1..(a + 1) /\ Nth(S, n) - 1 \in 0..a
    BY <1>1, <1>8, <2>1
  <2> HIDE DEF from
  <2>4. PICK i \in 1..(a + 1), j \in 0..a : i = from(S, n) /\ j = Nth(S, n) - 1
    BY <2>3
  <2>5. a <= Len(q) /\ a <= Len(p) /\ \A k \in 1..a : q[k] = p[k]
    BY <1>1, <1>2, <1>3
  <2>6. SubSeq(q, i, j) = SubSeq(p, i, j)
    BY <1>1, <1>2, <1>3, <2>5, SamePart
  <2> QED
    BY <2>2, <2>4, <2>6
<1>13. SubSeq(q, from(T, c + 1), Nth(T, c + 1) - 1) = SubSeq(t, a + 1, e - 1)
  <2>1. from(T, c + 1) = a + 1
    <3>1. CASE a = 0
      BY <1>6, <1>9, <3>1
    <3>2. CASE a # 0
      <4>1. c \in 1..c /\ c + 1 # 1 /\ (c + 1) - 1 = c
        BY <1>6, <1>9, <3>2
      <4> QED
        BY <1>7, <1>9, <3>2, <4>1
    <3> QED
      BY <3>1, <3>2
  <2>2. a + 1 \in 1..(b + 1) /\ e - 1 \in 0..b /\ b <= Len(q)
    BY <1>1, <1>3
  <2> HIDE DEF from
  <2>3. PICK i \in 1..(b + 1), j \in 0..b : i = a + 1 /\ j = e - 1
    BY <2>2
  <2>4. SubSeq(q, i, j) = SubSeq(t, i, j)
    BY <1>1, <1>3, <2>2, SamePart
  <2> QED
    BY <1>7, <2>1, <2>3, <2>4
<1> DEFINE last == SubSeq(t, a + 1, e - 1)
           B == Range(Lines(p)) \cup Range(Lines(q)) \cup {last}
<1> HIDE DEF from, last
<1>14. Lines(p) \in Seq(B) /\ Len(Lines(p)) = c
  <2>1. Lines(p) \in Seq(Range(Lines(p))) /\ Len(Lines(p)) = c
    BY <1>6, <1>10, OwnRange
  <2> QED
    BY <2>1, SeqMonotonic
<1>15. Lines(q) \in Seq(B) /\ Len(Lines(q)) = c + 1
  <2>1. Lines(q) \in Seq(Range(Lines(q))) /\ Len(Lines(q)) = c + 1
    BY <1>6, <1>11, OwnRange
  <2> QED
    BY <2>1, SeqMonotonic
<1>16. /\ Append(Lines(p), last) \in Seq(B) /\ Len(Append(Lines(p), last)) = c + 1
       /\ \A n \in 1..c : Append(Lines(p), last)[n] = Lines(p)[n]
       /\ Append(Lines(p), last)[c + 1] = last
  BY <1>6, <1>14, AppendProperties
<1>17. ASSUME NEW n \in 1..(c + 1) PROVE Lines(q)[n] = Append(Lines(p), last)[n]
  <2>1. CASE n \in 1..c
    BY <1>10, <1>11, <1>12, <1>16, <2>1
  <2>2. CASE n = c + 1
    BY <1>11, <1>13, <1>16, <2>2 DEF last
  <2>3. n \in 1..c \/ n = c + 1
    BY <1>6
  <2> QED
    BY <2>1, <2>2, <2>3
<1>18. Lines(q) = Append(Lines(p), last)
  BY <1>15, <1>16, <1>17, SeqEqual
<1> QED
  BY <1>18 DEF p, q, last

\* The lines of a prefix are a sequence.
LEMMA LinesSeq ==
    ASSUME NEW A, NEW t \in Seq(A), NEW a \in 0..Len(t)
    PROVE  Lines(SubSeq(t, 1, a)) \in Seq(Range(Lines(SubSeq(t, 1, a))))
<1> DEFINE L == LineEnds(SubSeq(t, 1, a))
           ls == Lines(SubSeq(t, 1, a))
<1>1. a + 1 \in Nat /\ L \in SUBSET (1..(a + 1))
  BY EndsIs
<1>2. Cardinality(L) \in Nat
  BY <1>1, BoundedFinite
<1>3. ls = [n \in 1..Cardinality(L) |-> ls[n]]
  BY DEF Lines
<1> HIDE DEF L, ls
<1>4. ls \in Seq(Range(ls))
  BY <1>2, <1>3, OwnRange
<1> QED
  BY <1>4 DEF ls

\* Parse looks at a line only after TrimRight.
LEMMA ParseOfText ==
    ASSUME NEW s, NEW t, TrimRight(s) = TrimRight(t)
    PROVE  Parse(s) = Parse(t)
<1>1. Parts(s) = Parts(t) /\ Verb(s) = Verb(t)
  BY DEF Parts, Verb
<1>2. CASE Blank(TrimRight(s))
  BY <1>2, ParseCases, Zenon
<1>3. CASE ~Blank(TrimRight(s)) /\ Verb(s) \in {<<"GET">>, <<"DEL">>, <<"SET">>}
  BY <1>1, <1>3, ParseCases
<1>4. CASE ~Blank(TrimRight(s)) /\ Verb(s) \notin {<<"GET">>, <<"DEL">>, <<"SET">>}
  BY <1>1, <1>4, ParseCases
<1> QED
  BY <1>2, <1>3, <1>4

\* The carriage return that the scanner drops makes no difference to Parse.
LEMMA DropParse ==
    ASSUME NEW A, NEW s \in Seq(A)
    PROVE  Parse(DropCR(s)) = Parse(s)
<1>1. CASE s # <<>> /\ Last(s) = CR
  <2>1. PICK n \in Nat : Len(s) = n + 1
    <3>1. Len(s) \in Nat \ {0}
      BY <1>1, EmptySeq
    <3>2. Len(s) - 1 \in Nat /\ Len(s) = (Len(s) - 1) + 1
      BY <3>1
    <3> QED
      BY <3>2
  <2> DEFINE f == Front(s)
  <2>2. f \in Seq(A) /\ Len(f) = n /\ \A i \in 1..n : f[i] = s[i]
    <3>1. n \in 0..Len(s) /\ Len(s) - 1 = n
      BY <2>1
    <3> QED
      BY <3>1, PrefixIs DEF Front
  <2>3. s[n + 1] = CR
    BY <1>1, <2>1 DEF Last
  <2>4. DropCR(s) = f
    BY <1>1 DEF DropCR
  <2> HIDE DEF f
  <2>5. PICK k : Trims(f, k)
    BY <2>2, TrimExists
  <2>6. k \in 0..n /\ k \in Nat
    BY <2>2, <2>5 DEF Trims
  <2>7. Trims(s, k)
    <3>1. \A i \in (k + 1)..Len(s) : s[i] \in {CR, LF}
      <4> TAKE i \in (k + 1)..Len(s)
      <4>1. CASE i = n + 1
        BY <2>3, <4>1
      <4>2. CASE i \in (k + 1)..n
        BY <2>2, <2>5, <2>6, <4>2 DEF Trims
      <4> QED
        BY <2>1, <2>6, <4>1, <4>2
    <3>2. k > 0 => s[k] \notin {CR, LF}
      BY <2>2, <2>5, <2>6 DEF Trims
    <3> QED
      BY <2>1, <2>6, <3>1, <3>2 DEF Trims
  <2>8. TrimRight(f) = SubSeq(f, 1, k) /\ TrimRight(s) = SubSeq(s, 1, k)
    BY <2>2, <2>5, <2>7, TrimIs
  <2>9. SubSeq(f, 1, k) = SubSeq(s, 1, k)
    <3>1. n <= Len(s) /\ n <= Len(f) /\ 1 \in 1..(n + 1)
      BY <2>1, <2>2
    <3> QED
      BY <2>2, <2>6, <3>1, SamePart
  <2> QED
    BY <2>4, <2>8, <2>9, ParseOfText
<1>2. CASE ~(s # <<>> /\ Last(s) = CR)
  BY <1>2 DEF DropCR
<1> QED
  BY <1>1, <1>2

\* What is left is a text of the same atoms.
LEMMA DropSeq ==
    ASSUME NEW A, NEW s \in Seq(A)
    PROVE  DropCR(s) \in Seq(A)
<1>1. CASE s # <<>> /\ Last(s) = CR
  <2>1. Len(s) - 1 \in 0..Len(s)
    BY <1>1, EmptySeq
  <2>2. PICK n \in 0..Len(s) : n = Len(s) - 1
    BY <2>1
  <2>3. SubSeq(s, 1, n) \in Seq(A)
    BY PrefixIs
  <2> QED
    BY <1>1, <2>2, <2>3 DEF DropCR, Front
<1>2. CASE ~(s # <<>> /\ Last(s) = CR)
  BY <1>2 DEF DropCR
<1> QED
  BY <1>1, <1>2

--------------------------------------------------------------------------------
(* The inductive invariant of the request loop. *)

\* The lines that have been handed out, and what serving them one by one gives.
Given == Lines(SubSeq(stream, 1, start))
Ref   == Served(IF pc = "execute" THEN Front(Given) ELSE Given)

\* The positions are in order, and there is a cause for the end of the input.
Positions ==
    /\ stream \in Streams /\ stream \in Seq(Range(stream))
    /\ start \in Nat /\ read \in Nat /\ sent \in Nat
    /\ start <= read /\ read <= sent /\ sent <= Len(stream)
    /\ pc \in {"scan", "execute", "reply", "ended"}
    /\ err => hungUp \/ closed

\* What has been handed out ends with a line feed, unless it is all there is.
Boundary == start = 0 \/ stream[start] = LF \/ (err /\ start = read)

\* What is executed is the last line handed out, but for a carriage return.
Held ==
    pc = "execute" =>
        /\ start # 0 /\ Given # <<>> /\ Given \in Seq(Range(Given))
        /\ line \in Seq(Range(stream))
        /\ Parse(line) = Parse(Last(Given))

\* The replies so far, and the store, are those of the lines served.
Replied ==
    /\ replies \in Seq(Range(replies))
    /\ data = Ref.data
    /\ pc \in {"scan", "execute"} => replies = Ref.replies
    /\ pc = "reply" => Append(replies, reply) = Ref.replies
    /\ pc = "ended" => replies \in {Ref.replies, Front(Ref.replies)}

LoopInv == Positions /\ Boundary /\ Held /\ Replied

\* The handler starts with nothing handed out.
LEMMA LoopInit == Init => LoopInv
<1> SUFFICES ASSUME Init PROVE LoopInv
  OBVIOUS
<1>1. Positions
  BY ConnectionAssumption DEF Init, Positions
<1>2. stream \in Seq(Range(stream)) /\ 0 \in 0..Len(stream) /\ start = 0 /\ pc = "scan"
  BY <1>1 DEF Init, Positions
<1>3. Given = <<>>
  <2>1. LineEnds(SubSeq(stream, 1, 0)) = {}
    BY <1>2, EndsIs
  <2>2. Cardinality({}) = 0
    BY FS_EmptySet
  <2>3. Lines(SubSeq(stream, 1, 0)) = <<>>
    <3> DEFINE ls == Lines(SubSeq(stream, 1, 0))
    <3>1. ls = [n \in 1..0 |-> ls[n]]
      BY <2>1, <2>2 DEF Lines
    <3> HIDE DEF ls
    <3>2. ls \in Seq(Range(ls)) /\ Len(ls) = 0
      BY <3>1, OwnRange
    <3>3. ls = <<>>
      BY <3>2, EmptySeq
    <3> QED
      BY <3>3 DEF ls
  <2> QED
    BY <1>2, <2>3 DEF Given
<1>4. Ref = Unserved
  BY <1>2, <1>3, ServedEmpty DEF Ref
<1>5. Replied
  <2>1. <<>> \in Seq(Range(<<>>))
    BY EmptySeq
  <2> QED
    BY <1>4, <2>1 DEF Init, Replied, Unserved
<1> QED
  BY <1>1, <1>2, <1>5 DEF LoopInv, Boundary, Held

\* Steps that hand out nothing and serve nothing keep what has been served.
LEMMA ServedStays ==
    ASSUME UNCHANGED <<stream, start, pc, line, reply, data, replies>>
    PROVE  /\ Given' = Given /\ Ref' = Ref
           /\ Held => Held'
           /\ Replied => Replied'
<1>1. Given' = Given
  BY DEF Given
<1>2. Ref' = Ref
  BY <1>1 DEF Ref
<1> QED
  BY <1>1, <1>2 DEF Held, Replied

\* The client, Shutdown and the reads change no line.
LEMMA InputStep ==
    ASSUME LoopInv, Send \/ Hangup \/ Stall \/ Resume \/ CloseSocket \/ Read \/ ReadErr
    PROVE  LoopInv'
<1>1. UNCHANGED <<stream, start, pc, line, reply, data, replies>>
  BY DEF Send, Hangup, Stall, Resume, CloseSocket, Read, ReadErr
<1>2. Held' /\ Replied'
  BY <1>1, ServedStays DEF LoopInv
<1>3. CASE Send
  BY <1>2, <1>3 DEF LoopInv, Positions, Boundary, Send
<1>4. CASE Hangup
  BY <1>2, <1>4 DEF LoopInv, Positions, Boundary, Hangup
<1>5. CASE CloseSocket
  BY <1>2, <1>5 DEF LoopInv, Positions, Boundary, CloseSocket
<1>6. CASE Read
  <2> DEFINE top == Min({sent, start + MaxToken})
  <2>1. top <= sent /\ top \in Nat
    <3>1. sent \in Nat /\ start + MaxToken \in Nat
      BY ConnectionAssumption DEF LoopInv, Positions
    <3> QED
      BY <3>1, MinTwo
  <2> HIDE DEF top
  <2>2. read' \in (read + 1)..top /\ UNCHANGED <<stream, sent, hungUp, closed, start, err, pc>> /\ ~err
    BY <1>6 DEF Read, Starved, top
  <2>3. Positions'
    BY <2>1, <2>2 DEF LoopInv, Positions
  <2>4. Boundary'
    BY <2>2 DEF LoopInv, Boundary
  <2> QED
    BY <1>2, <2>3, <2>4 DEF LoopInv
<1>7. CASE ReadErr
  <2>1. Positions'
    BY <1>7 DEF LoopInv, Positions, ReadErr
  <2>2. Boundary'
    BY <1>7 DEF LoopInv, Boundary, ReadErr, Starved
  <2> QED
    BY <1>2, <2>1, <2>2 DEF LoopInv
<1>8. CASE Stall \/ Resume
  BY <1>2, <1>8 DEF LoopInv, Positions, Boundary, Stall, Resume
<1> QED
  BY <1>3, <1>4, <1>5, <1>6, <1>7, <1>8

\* The scanner's buffer is a part of the stream.
LEMMA BufferIs ==
    ASSUME Positions
    PROVE  /\ Len(Buffer) = read - start /\ DOMAIN Buffer = 1..(read - start)
           /\ \A i \in 1..(read - start) : Buffer[i] = stream[start + i]
           /\ Buffer = <<>> <=> start = read
<1> DEFINE A == Range(stream)
<1>1. stream \in Seq(A) /\ start \in Nat /\ read \in Nat /\ start <= read /\ read <= Len(stream)
  BY DEF Positions
<1>2. \A i \in (start + 1)..read : stream[i] \in A
  BY <1>1
<1>3. /\ Buffer \in Seq(A)
      /\ Len(Buffer) = IF start + 1 <= read THEN read - (start + 1) + 1 ELSE 0
      /\ \A i \in 1..(read - (start + 1) + 1) : Buffer[i] = stream[start + 1 + i - 1]
  BY <1>1, <1>2, SubSeqProperties DEF Buffer
<1>4. Len(Buffer) = read - start
  BY <1>1, <1>3
<1>5. \A i \in 1..(read - start) : Buffer[i] = stream[start + i]
  BY <1>1, <1>3
<1>6. DOMAIN Buffer = 1..(read - start)
  BY <1>3, <1>4
<1>7. Buffer = <<>> <=> start = read
  BY <1>1, <1>3, <1>4
<1> QED
  BY <1>4, <1>5, <1>6, <1>7

\* A token that is the next line of the stream keeps the invariant.
LEMMA TokenStep ==
    ASSUME LoopInv, pc = "scan", NEW end \in Nat, NEW upto \in Nat,
           start < upto, upto <= read, NextLine(stream, start, upto, end + 1),
           stream[upto] = LF \/ (err /\ upto = read),
           Token(end, upto)
    PROVE  LoopInv'
<1> DEFINE A == Range(stream)
           last == SubSeq(stream, start + 1, end)
<1>1. /\ stream \in Seq(A) /\ start \in Nat /\ read \in Nat /\ read <= Len(stream)
      /\ start \in 0..Len(stream) /\ upto \in (start + 1)..Len(stream) /\ end <= upto
  BY DEF LoopInv, Positions, NextLine
<1>2. /\ pc' = "execute" /\ line' = DropCR(last) /\ start' = upto
      /\ UNCHANGED <<stream, sent, hungUp, closed, read, err, reply, data, replies>>
  BY DEF Token
<1>3. Given' = Append(Given, last)
  <2>1. (end + 1) - 1 = end
    OBVIOUS
  <2>2. Lines(SubSeq(stream, 1, upto)) = Append(Lines(SubSeq(stream, 1, start)), SubSeq(stream, start + 1, (end + 1) - 1))
    BY <1>1, LinesAppend
  <2> QED
    BY <1>2, <2>1, <2>2 DEF Given
<1>4. Given \in Seq(Range(Given))
  BY <1>1, LinesSeq DEF Given
<1>5. last \in Seq(A)
  <2>1. \A i \in (start + 1)..end : stream[i] \in A
    BY <1>1
  <2> QED
    BY <1>1, <2>1, SubSeqProperties
<1> HIDE DEF last
<1>6. /\ Front(Given') = Given /\ Last(Given') = last
      /\ Given' # <<>> /\ Given' \in Seq(Range(Given'))
  BY <1>3, <1>4, AppendEnds
<1>7. Parse(line') = Parse(Last(Given'))
  BY <1>2, <1>5, <1>6, DropParse
<1>8. Ref' = Ref
  <2>1. Ref' = Served(Front(Given'))
    BY <1>2 DEF Ref
  <2>2. Ref = Served(Given)
    BY DEF Ref
  <2> QED
    BY <1>6, <2>1, <2>2
<1>9. Positions'
  BY <1>1, <1>2 DEF LoopInv, Positions
<1>10. Boundary'
  BY <1>2 DEF Boundary
<1>11. Held'
  <2>1. line' \in Seq(Range(stream'))
    BY <1>2, <1>5, DropSeq
  <2> QED
    BY <1>1, <1>2, <1>6, <1>7, <2>1 DEF Held
<1>12. Replied'
  BY <1>2, <1>8 DEF LoopInv, Replied
<1> QED
  BY <1>9, <1>10, <1>11, <1>12 DEF LoopInv

\* Scan hands out the next line.
LEMMA ScanLineStep ==
    ASSUME LoopInv, ScanLine
    PROVE  LoopInv'
<1> DEFINE S == {i \in DOMAIN Buffer : Buffer[i] = LF}
<1>1. Positions /\ start \in Nat /\ read \in Nat /\ start <= read
  BY DEF LoopInv, Positions
<1>2. /\ DOMAIN Buffer = 1..(read - start)
      /\ \A i \in 1..(read - start) : Buffer[i] = stream[start + i]
  BY <1>1, BufferIs
<1>3. PICK n \in S : \A i \in S : n <= i
  <2>1. S # {} /\ S \subseteq Nat
    BY <1>1, <1>2 DEF ScanLine, HasLine
  <2> QED
    BY <2>1, NatLeast
<1>4. n \in 1..(read - start) /\ stream[start + n] = LF
  BY <1>1, <1>2
<1>5. Min(S) = n
  <2>1. S \in SUBSET Int
    BY <1>1, <1>2
  <2> QED
    BY <1>3, <2>1, MinIs
<1>6. pc = "scan" /\ Token(start + n - 1, start + n)
  BY <1>5 DEF ScanLine
<1>7. \A i \in (start + 1)..(start + n - 1) : stream[i] # LF
  <2> SUFFICES ASSUME NEW i \in (start + 1)..(start + n - 1), stream[i] = LF PROVE FALSE
    OBVIOUS
  <2>1. i - start \in 1..(read - start) /\ start + (i - start) = i /\ i - start < n
    BY <1>1, <1>4
  <2>2. i - start \in S
    BY <1>2, <2>1
  <2> QED
    BY <1>3, <1>4, <2>1, <2>2
<1> HIDE DEF S
<1>8. start = 0 \/ stream[start] = LF
  BY <1>1, <1>4 DEF LoopInv, Boundary
<1>9. PICK end \in Nat, upto \in Nat : end = start + n - 1 /\ upto = start + n
  BY <1>1, <1>4
<1>10. start < upto /\ upto <= read /\ stream[upto] = LF /\ end + 1 = upto /\ end = upto - 1
  BY <1>1, <1>4, <1>9
<1>11. NextLine(stream, start, upto, end + 1)
  BY <1>7, <1>8, <1>9, <1>10 DEF NextLine
<1> QED
  BY <1>6, <1>9, <1>10, <1>11, TokenStep

\* Scan hands out what is left when the input has ended.
LEMMA ScanRestStep ==
    ASSUME LoopInv, ScanRest
    PROVE  LoopInv'
<1>1. Positions /\ start \in Nat /\ read \in Nat /\ start <= read
  BY DEF LoopInv, Positions
<1>2. /\ DOMAIN Buffer = 1..(read - start)
      /\ \A i \in 1..(read - start) : Buffer[i] = stream[start + i]
      /\ Buffer = <<>> <=> start = read
  BY <1>1, BufferIs
<1>3. start < read /\ pc = "scan" /\ err /\ Token(read, read)
  BY <1>1, <1>2 DEF ScanRest
<1>4. \A i \in (start + 1)..read : stream[i] # LF
  <2> SUFFICES ASSUME NEW i \in (start + 1)..read, stream[i] = LF PROVE FALSE
    OBVIOUS
  <2>1. i - start \in 1..(read - start) /\ start + (i - start) = i
    BY <1>1
  <2> QED
    BY <1>2, <2>1 DEF ScanRest, HasLine
<1>5. start = 0 \/ stream[start] = LF
  BY <1>1, <1>3 DEF LoopInv, Boundary
<1>6. NextLine(stream, start, read, read + 1)
  BY <1>1, <1>3, <1>4, <1>5 DEF NextLine
<1>7. read <= read
  BY <1>1
<1> QED
  BY <1>1, <1>3, <1>6, <1>7, TokenStep

\* Execute serves the last line handed out.
LEMMA ExecuteStep ==
    ASSUME LoopInv, Execute
    PROVE  LoopInv'
<1> DEFINE cmd == Parse(line)
           f == Front(Given)
           l == Last(Given)
           B == Range(Given)
<1>1. /\ pc = "execute" /\ pc' = "reply"
      /\ UNCHANGED <<stream, sent, hungUp, closed, read, start, err, line, replies>>
  BY DEF Execute
<1>2. f \in Seq(B) /\ l \in B /\ Given = Append(f, l) /\ cmd = Parse(l)
  BY <1>1, FrontAndLast DEF LoopInv, Held
<1>3. Given' = Given
  BY <1>1 DEF Given
<1>4. Ref = Served(f)
  BY <1>1 DEF Ref
<1>5. Ref' = Served(Given)
  BY <1>1, <1>3 DEF Ref
<1> HIDE DEF f, l, B
<1>6. Served(Given) = ServeLine(Served(f), l)
  BY <1>2, ServedAppend
<1>7. data = Ref.data /\ replies = Ref.replies /\ replies \in Seq(Range(replies))
  BY <1>1 DEF LoopInv, Replied
<1>8. /\ Ref'.data = data'
      /\ Ref'.replies = Append(replies, reply')
  <2> HIDE DEF cmd
  <2>1. CASE cmd.op = "error"
    <3>1. reply' = ReplyError(cmd.value) /\ data' = data
      BY <2>1 DEF Execute, cmd
    <3>2. ServeLine(Served(f), l) = [data |-> Ref.data, replies |-> Append(Ref.replies, ReplyError(cmd.value))]
      BY <1>2, <1>4, <2>1 DEF ServeLine
    <3> QED
      BY <1>5, <1>6, <1>7, <3>1, <3>2
  <2>2. CASE cmd.op # "error"
    <3>1. reply' = ExecuteReply(cmd, data) /\ data' = ExecuteEffect(cmd, data)
      BY <2>2 DEF Execute, cmd
    <3>2. ServeLine(Served(f), l) = [data |-> ExecuteEffect(cmd, Ref.data),
                                     replies |-> Append(Ref.replies, ExecuteReply(cmd, Ref.data))]
      BY <1>2, <1>4, <2>2 DEF ServeLine
    <3> QED
      BY <1>5, <1>6, <1>7, <3>1, <3>2
  <2> QED
    BY <2>1, <2>2
<1>9. Positions' /\ Boundary' /\ Held'
  BY <1>1 DEF LoopInv, Positions, Boundary, Held
<1>10. Replied'
  BY <1>1, <1>7, <1>8 DEF Replied
<1> QED
  BY <1>9, <1>10 DEF LoopInv

\* The reply is written, or the handler ends.
LEMMA LoopStep ==
    ASSUME LoopInv, WriteOk \/ WriteFail \/ ScanEnd \/ ScanTooLong
    PROVE  LoopInv'
<1>1. /\ pc \in {"scan", "reply"} /\ pc' \in {"scan", "ended"}
      /\ UNCHANGED <<stream, sent, hungUp, closed, read, start, err, line, reply, data>>
  BY DEF WriteOk, WriteFail, ScanEnd, ScanTooLong, Starved
<1>2. Given' = Given /\ Ref' = Ref
  BY <1>1 DEF Given, Ref
<1>3. Positions' /\ Boundary' /\ Held'
  BY <1>1 DEF LoopInv, Positions, Boundary, Held
<1>4. data = Ref.data /\ replies \in Seq(Range(replies))
  BY DEF LoopInv, Replied
<1>5. CASE WriteOk
  <2>1. replies' = Append(replies, reply) /\ replies' = Ref.replies /\ pc' = "scan"
    BY <1>5 DEF WriteOk, LoopInv, Replied
  <2>2. replies' \in Seq(Range(replies'))
    BY <1>4, <2>1, AppendEnds
  <2>3. Replied'
    BY <1>1, <1>2, <1>4, <2>1, <2>2 DEF Replied
  <2> QED
    BY <1>3, <2>3 DEF LoopInv
<1>6. CASE WriteFail
  <2>1. replies' = replies /\ Append(replies, reply) = Ref.replies /\ pc' = "ended"
    BY <1>6 DEF WriteFail, LoopInv, Replied
  <2>2. replies = Front(Ref.replies)
    BY <1>4, <2>1, AppendEnds
  <2>3. Replied'
    BY <1>1, <1>2, <1>4, <2>1, <2>2 DEF Replied
  <2> QED
    BY <1>3, <2>3 DEF LoopInv
<1>7. CASE ScanEnd \/ ScanTooLong
  <2>1. replies' = replies /\ pc = "scan" /\ pc' = "ended"
    BY <1>7 DEF ScanEnd, ScanTooLong, Starved
  <2>2. replies = Ref.replies
    BY <2>1 DEF LoopInv, Replied
  <2>3. Replied'
    BY <1>1, <1>2, <1>4, <2>1, <2>2 DEF Replied
  <2> QED
    BY <1>3, <2>3 DEF LoopInv
<1> QED
  BY <1>5, <1>6, <1>7

\* Every step keeps the invariant.
LEMMA LoopNext == LoopInv /\ [Next]_vars => LoopInv'
<1> SUFFICES ASSUME LoopInv, [Next]_vars PROVE LoopInv'
  OBVIOUS
<1>1. CASE UNCHANGED vars
  <2>1. Held' /\ Replied'
    BY <1>1, ServedStays DEF vars, LoopInv
  <2>2. Positions' /\ Boundary'
    BY <1>1 DEF vars, LoopInv, Positions, Boundary
  <2> QED
    BY <2>1, <2>2 DEF LoopInv
<1>2. CASE Send \/ Hangup \/ Stall \/ Resume \/ CloseSocket \/ Read \/ ReadErr
  BY <1>2, InputStep
<1>3. CASE ScanLine
  BY <1>3, ScanLineStep
<1>4. CASE ScanRest
  BY <1>4, ScanRestStep
<1>5. CASE Execute
  BY <1>5, ExecuteStep
<1>6. CASE WriteOk \/ WriteFail \/ ScanEnd \/ ScanTooLong
  BY <1>6, LoopStep
<1> QED
  BY <1>1, <1>2, <1>3, <1>4, <1>5, <1>6 DEF Next, Handler

\* The invariant states one reply per line.
LEMMA RepliedIs ==
    ASSUME LoopInv
    PROVE  OneReplyPerLine
<1>1. data = Ref.data
  BY DEF LoopInv, Replied
<1> DEFINE good == CASE pc \in {"scan", "execute"} -> replies = Ref.replies
                     [] pc = "reply"               -> Append(replies, reply) = Ref.replies
                     [] pc = "ended"               -> replies \in {Ref.replies, Front(Ref.replies)}
<1>2. OneReplyPerLine <=> data = Ref.data /\ good
  BY Zenon DEF OneReplyPerLine, Ref, Given
<1>3. "scan" # "reply" /\ "scan" # "ended" /\ "execute" # "reply" /\ "execute" # "ended" /\ "reply" # "ended"
  OBVIOUS
<1>4. pc \in {"scan", "execute", "reply", "ended"}
  BY DEF LoopInv, Positions
<1>5. CASE pc \in {"scan", "execute"}
  <2>1. replies = Ref.replies
    BY <1>5 DEF LoopInv, Replied
  <2>2. good
    BY <1>3, <1>5, <2>1, Zenon
  <2> QED
    BY <1>1, <1>2, <2>2
<1>6. CASE pc = "reply"
  <2>1. Append(replies, reply) = Ref.replies
    BY <1>6 DEF LoopInv, Replied
  <2>2. good
    BY <1>3, <1>6, <2>1, Zenon
  <2> QED
    BY <1>1, <1>2, <2>2
<1>7. CASE pc = "ended"
  <2>1. replies \in {Ref.replies, Front(Ref.replies)}
    BY <1>7 DEF LoopInv, Replied
  <2>2. good
    BY <1>3, <1>7, <2>1, Zenon
  <2> QED
    BY <1>1, <1>2, <2>2
<1> QED
  BY <1>4, <1>5, <1>6, <1>7

(***************************************************************************)
(* However the stream is cut into pieces by the network, handle of         *)
(* server/server.go serves the lines of what it has been given one by one, *)
(* with one reply each, in order, for streams and lines of any length.     *)
(***************************************************************************)
THEOREM RepliesRight == Spec => []OneReplyPerLine
<1>1. Init => LoopInv
  BY LoopInit
<1>2. LoopInv /\ [Next]_vars => LoopInv'
  BY LoopNext
<1>3. LoopInv => OneReplyPerLine
  BY RepliedIs
<1> QED
  BY <1>1, <1>2, <1>3, PTL DEF Spec

(***************************************************************************)
(* Whatever the streams are made of and however they end, what handle      *)
(* executes for a line is the command that the grammar gives to it.        *)
(***************************************************************************)
THEOREM ParsedRight == Spec => []ParseExact
<1>1. Init => LoopInv
  BY LoopInit
<1>2. LoopInv /\ [Next]_vars => LoopInv'
  BY LoopNext
<1>3. LoopInv => ParseExact
  BY ParseCorrect DEF LoopInv, Held, ParseExact
<1> QED
  BY <1>1, <1>2, <1>3, PTL DEF Spec

(***************************************************************************)
(* The scanner of handle never cuts a line in two, whatever the size of    *)
(* its buffer: what is executed ends with a line feed, or the input ended. *)
(***************************************************************************)
THEOREM LinesWhole == Spec => []WholeLines
<1>1. Init => LoopInv
  BY LoopInit
<1>2. LoopInv /\ [Next]_vars => LoopInv'
  BY LoopNext
<1>3. LoopInv => WholeLines
  BY DEF LoopInv, Positions, Boundary, Held, WholeLines
<1> QED
  BY <1>1, <1>2, <1>3, PTL DEF Spec

================================================================================
