------------------------------- MODULE Connection -------------------------------
(***************************************************************************)
(* The request loop of server/server.go: handle reads lines through a      *)
(* bufio.Scanner, parses them (module Protocol), executes them against the *)
(* store and writes one reply each.  One client sends a stream of atoms,   *)
(* which arrives in pieces of any size; the client may stop reading its    *)
(* replies or hang up, and Shutdown may close the socket, at any moment.   *)
(*                                                                         *)
(* Positions in the stream:  start <= read <= sent.  The scanner's buffer  *)
(* holds the atoms after start up to read.                                 *)
(***************************************************************************)
EXTENDS Executor, Grammar, Ranks

CONSTANTS
    Streams,    \* what the client may send
    MaxToken    \* the size of the scanner's buffer, 64 KB in the code

ASSUME ConnectionAssumption == (\A s \in Streams : s \in Seq(Range(s))) /\ MaxToken \in Nat

VARIABLES
    stream,     \* what the client is going to send
    sent,       \* how much of it has reached the server's kernel
    hungUp,     \* the client has closed its end
    closed,     \* the server's socket has been closed by Shutdown
    room,       \* the socket takes another reply: its buffers are not full
    read,       \* how much the scanner has read
    start,      \* how much the scanner has handed out
    err,        \* the scanner has met the end of the input or an error
    pc,         \* "scan", "execute", "reply" or "ended"
    line,       \* sc.Text()
    reply,      \* the reply that is being written
    data,       \* the store, a function on the keys it holds
    replies     \* the replies the client has been sent

vars == <<stream, sent, hungUp, closed, room, read, start, err, pc, line, reply, data, replies>>

Buffer == SubSeq(stream, start + 1, read)

Init ==
    /\ stream \in Streams
    /\ sent = 0 /\ hungUp = FALSE /\ closed = FALSE /\ room = TRUE
    /\ read = 0 /\ start = 0 /\ err = FALSE
    /\ pc = "scan" /\ line = <<>> /\ reply = <<>>
    /\ data = <<>> /\ replies = <<>>

--------------------------------------------------------------------------------
(* The client and Shutdown. *)

Send ==
    /\ ~hungUp /\ ~closed /\ sent < Len(stream)
    /\ sent' = sent + 1
    /\ UNCHANGED <<stream, hungUp, closed, room, read, start, err, pc, line, reply, data, replies>>

Hangup ==
    /\ ~hungUp
    /\ hungUp' = TRUE
    /\ UNCHANGED <<stream, sent, closed, room, read, start, err, pc, line, reply, data, replies>>

\* The client leaves its replies unread until the buffers on the way are full.
Stall ==
    /\ room
    /\ room' = FALSE
    /\ UNCHANGED <<stream, sent, hungUp, closed, read, start, err, pc, line, reply, data, replies>>

\* It reads again.
Resume ==
    /\ ~room /\ ~hungUp
    /\ room' = TRUE
    /\ UNCHANGED <<stream, sent, hungUp, closed, read, start, err, pc, line, reply, data, replies>>

\* Shutdown closes the socket under the handler.
CloseSocket ==
    /\ ~closed /\ pc # "ended"
    /\ closed' = TRUE
    /\ UNCHANGED <<stream, sent, hungUp, room, read, start, err, pc, line, reply, data, replies>>

--------------------------------------------------------------------------------
(* sc.Scan(), from the standard library. *)

HasLine == \E i \in DOMAIN Buffer : Buffer[i] = LF

\* Scan needs more input, and the buffer has room for it.
Starved == pc = "scan" /\ ~HasLine /\ ~err

\* Some of what has arrived is read; after a close nothing is.
Read ==
    /\ Starved /\ read - start < MaxToken /\ ~closed
    /\ read' \in (read + 1)..Min({sent, start + MaxToken})
    /\ UNCHANGED <<stream, sent, hungUp, closed, room, start, err, pc, line, reply, data, replies>>

\* The read reports the end of the input, a reset, or the closed socket.
ReadErr ==
    /\ Starved /\ read - start < MaxToken
    /\ closed \/ (hungUp /\ read = sent)
    /\ err' = TRUE
    /\ UNCHANGED <<stream, sent, hungUp, closed, room, read, start, pc, line, reply, data, replies>>

\* ScanLines cuts off the line feed and one carriage return before it.
DropCR(s) == IF s # <<>> /\ Last(s) = CR THEN Front(s) ELSE s

\* A token ends at stream position end, and the next one starts after upto.
Token(end, upto) ==
    /\ pc' = "execute"
    /\ line' = DropCR(SubSeq(stream, start + 1, end))
    /\ start' = upto
    /\ UNCHANGED <<stream, sent, hungUp, closed, room, read, err, reply, data, replies>>

ScanLine ==
    /\ pc = "scan" /\ HasLine
    /\ LET n == Min({i \in DOMAIN Buffer : Buffer[i] = LF})
       IN  Token(start + n - 1, start + n)

\* When no more input can come, what is left in the buffer is a line too.
ScanRest == pc = "scan" /\ ~HasLine /\ err /\ Buffer # <<>> /\ Token(read, read)

ScanEnd ==
    /\ pc = "scan" /\ err /\ Buffer = <<>>
    /\ pc' = "ended"
    /\ UNCHANGED <<stream, sent, hungUp, closed, room, read, start, err, line, reply, data, replies>>

\* Mutant of ScanTooLong: a full buffer is handed out as if it were a line.
ScanPiece == Starved /\ read - start >= MaxToken /\ Token(read, read)

\* Mutant of ScanTooLong: the buffer counts as full one atom early.
ScanTooSoon ==
    /\ Starved /\ read - start >= MaxToken - 1
    /\ pc' = "ended"
    /\ UNCHANGED <<stream, sent, hungUp, closed, room, read, start, err, line, reply, data, replies>>

\* The buffer is full and holds no line feed: the scan ends for good.
ScanTooLong ==
    /\ Starved /\ read - start >= MaxToken
    /\ pc' = "ended"
    /\ UNCHANGED <<stream, sent, hungUp, closed, room, read, start, err, line, reply, data, replies>>

--------------------------------------------------------------------------------
(* The body of the loop. *)

\* Mutant of Execute: a line that does not parse is skipped without a reply.
ExecuteSilent ==
    /\ pc = "execute"
    /\ \E cmd \in {Parse(line)} :
          IF cmd.op = "error"
          THEN pc' = "scan" /\ UNCHANGED <<reply, data>>
          ELSE /\ pc' = "reply"
               /\ reply' = ExecuteReply(cmd, data) /\ data' = ExecuteEffect(cmd, data)
    /\ UNCHANGED <<stream, sent, hungUp, closed, room, read, start, err, line, replies>>

\* Parse, and run the command or form the error reply.
Execute ==
    /\ pc = "execute"
    /\ pc' = "reply"
    /\ \E cmd \in {Parse(line)} :
          IF cmd.op = "error"
          THEN reply' = ReplyError(cmd.value) /\ UNCHANGED data
          ELSE reply' = ExecuteReply(cmd, data) /\ data' = ExecuteEffect(cmd, data)
    /\ UNCHANGED <<stream, sent, hungUp, closed, room, read, start, err, line, replies>>

\* io.WriteString has no deadline: it blocks while there is no room for the
\* reply, until the client reads, hangs up or Shutdown closes the socket.
WriteOk ==
    /\ pc = "reply" /\ ~closed /\ room
    /\ replies' = Append(replies, reply)
    /\ pc' = "scan"
    /\ UNCHANGED <<stream, sent, hungUp, closed, room, read, start, err, line, reply, data>>

\* Mutant of WriteFail: a failed write is tried again.
WriteRetried == pc = "reply" /\ (closed \/ hungUp) /\ UNCHANGED vars

\* It fails, which ends the handler.
WriteFail ==
    /\ pc = "reply" /\ (closed \/ hungUp)
    /\ pc' = "ended"
    /\ UNCHANGED <<stream, sent, hungUp, closed, room, read, start, err, line, reply, data, replies>>

Handler ==
    \/ Read \/ ReadErr \/ ScanLine \/ ScanRest \/ ScanEnd \/ ScanTooLong
    \/ Execute \/ WriteOk \/ WriteFail

Next == Send \/ Hangup \/ Stall \/ Resume \/ CloseSocket \/ Handler

\* The handler's goroutine runs when it can; nothing is assumed of the client.
Spec == Init /\ [][Next]_vars /\ WF_vars(Handler)

--------------------------------------------------------------------------------

\* Where the lines of a text end; a text may end in a line without a line feed.
LineEnds(s) ==
    {i \in DOMAIN s : s[i] = LF} \cup (IF s = <<>> \/ Last(s) = LF THEN {} ELSE {Len(s) + 1})

Lines(s) ==
    [n \in 1..Cardinality(LineEnds(s)) |->
        SubSeq(s, IF n = 1 THEN 1 ELSE Nth(LineEnds(s), n - 1) + 1, Nth(LineEnds(s), n) - 1)]

(***************************************************************************)
(* However the stream is cut into pieces, the client gets exactly one      *)
(* reply for each line, in order, and the store holds what those lines     *)
(* did; only the reply to the last line may be lost.                       *)
(***************************************************************************)
OneReplyPerLine ==
    LET lines == Lines(SubSeq(stream, 1, start))
        ref   == Served(IF pc = "execute" THEN Front(lines) ELSE lines)
    IN  /\ data = ref.data
        /\ CASE pc \in {"scan", "execute"} -> replies = ref.replies
             [] pc = "reply"               -> Append(replies, reply) = ref.replies
             [] pc = "ended"               -> replies \in {ref.replies, Front(ref.replies)}

(***************************************************************************)
(* Whatever the stream and its end make of a line, a piece of one and one  *)
(* with carriage returns included, Parse executes the command that the     *)
(* grammar gives to it and rejects a line that denotes none.               *)
(***************************************************************************)
ParseExact == pc = "execute" => Exact(line)

(***************************************************************************)
(* What the handler executes is a whole line of the stream, unless the     *)
(* connection ended in the middle of it: the 64 KB limit never cuts a line *)
(* in two.                                                                 *)
(***************************************************************************)
WholeLines == pc = "execute" => stream[start] = LF \/ (err /\ (hungUp \/ closed))

\* Every line fits into the buffer together with its line feed.
Fits == \A i \in 0..(Len(stream) - MaxToken) : \E n \in 1..MaxToken : stream[i + n] = LF

(***************************************************************************)
(* A client that has sent its lines, from then on reads its replies, and   *)
(* is closed by neither side, gets the reply to every line that it ended,  *)
(* however often it stalled before; if a line is too long, the handler     *)
(* ends instead.                                                           *)
(***************************************************************************)
Answered ==
    <>[](sent = Len(stream) /\ room /\ ~hungUp /\ ~closed) =>
        <>(IF Fits THEN Len(replies) = Cardinality({i \in DOMAIN stream : stream[i] = LF})
                   ELSE pc = "ended")

(***************************************************************************)
(* A client that vanishes, or a close by Shutdown, ends the handler, even  *)
(* one that is blocked in a write nobody reads: the goroutine, its entry   *)
(* in conns and the drain never hang on a dead connection.                 *)
(***************************************************************************)
HandlerEnds == hungUp \/ closed ~> pc = "ended"

(***************************************************************************)
(* "Commands are single lines, space separated, newline terminated."       *)
(* (README.md): what is executed as a command has its newline.             *)
(***************************************************************************)
TerminatedOnly == pc = "execute" /\ Parse(line).op # "error" => stream[start] = LF

================================================================================
