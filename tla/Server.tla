--------------------------------- MODULE Server ---------------------------------
(***************************************************************************)
(* server/server.go: the accept loop of Serve, one handler goroutine per   *)
(* connection, and Shutdown with its drain goroutine.  The four interleave *)
(* at the points where they touch shared state: the mutex s.mu, the        *)
(* channel s.done, the map s.conns, the WaitGroup s.wg and the sockets.    *)
(* What a line does to the store is the subject of Connection; here a line *)
(* is only something that a handler has to get through.                    *)
(***************************************************************************)
EXTENDS Naturals, FiniteSets

CONSTANTS
    Conns,       \* the connections that clients may open
    NoConn,      \* no connection
    MaxUnread    \* bound on the lines a client sends ahead of the handler

ASSUME ConnsAssumption == IsFiniteSet(Conns) /\ NoConn \notin Conns
ASSUME MaxUnreadAssumption == MaxUnread \in Nat

VARIABLES
    done,        \* s.done is closed
    listening,   \* s.ln is open
    mu,          \* who holds s.mu: "nobody", "serve" or "shutdown"
    conns,       \* s.conns
    wg,          \* the counter of s.wg
    sock,        \* the server's end of each connection
    peer,        \* the client of each connection
    unread,      \* complete lines sent by the client and not yet scanned
    serve,       \* where Serve is
    accepted,    \* the local variable conn of Serve
    serveErr,    \* what Serve returned
    handler,     \* where the handler of each connection is
    shutdown,    \* where Shutdown is
    shutdownErr, \* what Shutdown returned
    drain,       \* the drain goroutine: "none", "waiting" or "drained"
    expired      \* the context of Shutdown is done

vars == <<done, listening, mu, conns, wg, sock, peer, unread, serve, accepted,
          serveErr, handler, shutdown, shutdownErr, drain, expired>>

netVars      == <<sock, peer, unread>>
serveVars    == <<serve, accepted, serveErr>>
shutdownVars == <<shutdown, shutdownErr, drain, expired>>
lockedVars   == <<done, listening, conns, wg>>

ServeLabels    == {"accept", "failed", "gate", "gated", "spawn", "refuse", "returned"}
HandlerLabels  == {"none", "admitted", "scan", "execute", "reply", "cleanup",
                   "close", "wgdone", "finished"}
ShutdownLabels == {"idle", "lock", "signal", "listener", "sweep", "wait", "returned"}

TypeOK ==
    /\ done \in BOOLEAN
    /\ listening \in BOOLEAN
    /\ mu \in {"nobody", "serve", "shutdown"}
    /\ conns \subseteq Conns
    /\ wg \in Nat
    /\ sock \in [Conns -> {"new", "backlog", "open", "closed"}]
    /\ peer \in [Conns -> {"up", "stalled", "gone"}]
    /\ unread \in [Conns -> 0..MaxUnread]
    /\ serve \in ServeLabels
    /\ accepted \in Conns \cup {NoConn}
    /\ serveErr \in {"none", "nil", "err"}
    /\ handler \in [Conns -> HandlerLabels]
    /\ shutdown \in ShutdownLabels
    /\ shutdownErr \in {"none", "nil", "ctx"}
    /\ drain \in {"none", "waiting", "drained"}
    /\ expired \in BOOLEAN

\* New and Listen have run; Serve is about to call Accept.
Init ==
    /\ done = FALSE /\ listening = TRUE /\ mu = "nobody"
    /\ conns = {} /\ wg = 0
    /\ sock = [c \in Conns |-> "new"]
    /\ peer = [c \in Conns |-> "up"]
    /\ unread = [c \in Conns |-> 0]
    /\ serve = "accept" /\ accepted = NoConn /\ serveErr = "none"
    /\ handler = [c \in Conns |-> "none"]
    /\ shutdown = "idle" /\ shutdownErr = "none" /\ drain = "none" /\ expired = FALSE

--------------------------------------------------------------------------------
(* The clients and the network. *)

\* The kernel completes the handshake; the connection waits for Accept.
Dial(c) ==
    /\ listening /\ sock[c] = "new"
    /\ sock' = [sock EXCEPT ![c] = "backlog"]
    /\ UNCHANGED <<mu, peer, unread, lockedVars, serveVars, handler, shutdownVars>>

Send(c) ==
    /\ sock[c] \in {"backlog", "open"} /\ peer[c] # "gone" /\ unread[c] < MaxUnread
    /\ unread' = [unread EXCEPT ![c] = @ + 1]
    /\ UNCHANGED <<mu, sock, peer, lockedVars, serveVars, handler, shutdownVars>>

\* The client stops reading its replies, or vanishes.
Stall(c) ==
    /\ sock[c] # "new" /\ peer[c] = "up"
    /\ peer' = [peer EXCEPT ![c] = "stalled"]
    /\ UNCHANGED <<mu, sock, unread, lockedVars, serveVars, handler, shutdownVars>>

Hangup(c) ==
    /\ sock[c] # "new" /\ peer[c] # "gone"
    /\ peer' = [peer EXCEPT ![c] = "gone"]
    /\ UNCHANGED <<mu, sock, unread, lockedVars, serveVars, handler, shutdownVars>>

--------------------------------------------------------------------------------
(* Serve. *)

ServeGoto(from, to) == serve = from /\ serve' = to

\* conn, err := s.ln.Accept()
Accept(c) ==
    /\ ServeGoto("accept", "gate")
    /\ listening /\ sock[c] = "backlog"
    /\ sock' = [sock EXCEPT ![c] = "open"]
    /\ accepted' = c
    /\ UNCHANGED <<mu, peer, unread, lockedVars, serveErr, handler, shutdownVars>>

AcceptClosed ==
    /\ ServeGoto("accept", "failed")
    /\ ~listening
    /\ UNCHANGED <<mu, netVars, lockedVars, accepted, serveErr, handler, shutdownVars>>

\* Accept can also fail while the listener is open: the process is out of
\* file descriptors, or the client aborted.
AcceptError ==
    /\ ServeGoto("accept", "failed")
    /\ listening
    /\ UNCHANGED <<mu, netVars, lockedVars, accepted, serveErr, handler, shutdownVars>>

\* Mutant of ServeFail: every error of Accept is returned.
ServeFailAlways ==
    /\ ServeGoto("failed", "returned")
    /\ serveErr' = "err"
    /\ UNCHANGED <<mu, netVars, lockedVars, accepted, handler, shutdownVars>>

\* The select on s.done that tells an expected error from a real one.
ServeFail ==
    /\ ServeGoto("failed", "returned")
    /\ serveErr' = IF done THEN "nil" ELSE "err"
    /\ UNCHANGED <<mu, netVars, lockedVars, accepted, handler, shutdownVars>>

\* s.mu.Lock() in front of the admission gate.
GateLock ==
    /\ ServeGoto("gate", "gated")
    /\ mu = "nobody" /\ mu' = "serve"
    /\ UNCHANGED <<netVars, lockedVars, accepted, serveErr, handler, shutdownVars>>

\* Mutant of Enter: s.wg.Add is left to the handler.
EnterUncounted(c) ==
    /\ conns' = conns \cup {c}
    /\ handler' = [handler EXCEPT ![c] = "admitted"]
    /\ UNCHANGED <<done, listening, wg>>

\* The connection enters s.conns and the WaitGroup before the lock is released.
Enter(c) ==
    /\ conns' = conns \cup {c}
    /\ wg' = wg + 1
    /\ handler' = [handler EXCEPT ![c] = "admitted"]
    /\ UNCHANGED <<done, listening>>

\* Mutant of Admit: the gate does not look at s.done.
AdmitUnchecked ==
    /\ ServeGoto("gated", "spawn")
    /\ mu' = "nobody"
    /\ Enter(accepted)
    /\ UNCHANGED <<netVars, accepted, serveErr, shutdownVars>>

\* The default branch of the gate, up to s.mu.Unlock().
Admit ==
    /\ ServeGoto("gated", "spawn")
    /\ ~done
    /\ mu' = "nobody"
    /\ Enter(accepted)
    /\ UNCHANGED <<netVars, accepted, serveErr, shutdownVars>>

\* go s.handle(conn)
Spawn ==
    /\ ServeGoto("spawn", "accept")
    /\ handler' = [handler EXCEPT ![accepted] = "scan"]
    /\ accepted' = NoConn
    /\ UNCHANGED <<mu, netVars, lockedVars, serveErr, shutdownVars>>

\* The done branch of the gate: unlock, then close the connection and return.
RefuseUnlock ==
    /\ ServeGoto("gated", "refuse")
    /\ done
    /\ mu' = "nobody"
    /\ UNCHANGED <<netVars, lockedVars, accepted, serveErr, handler, shutdownVars>>

\* Mutant of RefuseClose: the refused connection is left open.
RefuseLeaks ==
    /\ ServeGoto("refuse", "returned")
    /\ accepted' = NoConn
    /\ serveErr' = "nil"
    /\ UNCHANGED <<mu, netVars, lockedVars, handler, shutdownVars>>

RefuseClose ==
    /\ ServeGoto("refuse", "returned")
    /\ sock' = [sock EXCEPT ![accepted] = "closed"]
    /\ accepted' = NoConn
    /\ serveErr' = "nil"
    /\ UNCHANGED <<mu, peer, unread, lockedVars, handler, shutdownVars>>

ServeStep ==
    \/ \E c \in Conns : Accept(c)
    \/ AcceptClosed \/ ServeFail \/ GateLock \/ Admit \/ Spawn
    \/ RefuseUnlock \/ RefuseClose

--------------------------------------------------------------------------------
(* handle. *)

HandlerGoto(c, from, to) == handler[c] = from /\ handler' = [handler EXCEPT ![c] = to]

\* sc.Scan() finds a line and Parse accepts it or not.  Lines the scanner has
\* buffered are still delivered after the socket is closed.
ScanLine(c) ==
    /\ \/ HandlerGoto(c, "scan", "execute")
       \/ HandlerGoto(c, "scan", "reply")
    /\ unread[c] > 0
    /\ unread' = [unread EXCEPT ![c] = @ - 1]
    /\ UNCHANGED <<mu, sock, peer, lockedVars, serveVars, shutdownVars>>

\* sc.Scan() returns false: end of input, reset, or the socket was closed.
ScanEnd(c) ==
    /\ HandlerGoto(c, "scan", "cleanup")
    /\ sock[c] = "closed" \/ peer[c] = "gone"
    /\ UNCHANGED <<mu, netVars, lockedVars, serveVars, shutdownVars>>

\* s.execute(cmd) calls the store, which always returns (MemoryStore).
Execute(c) ==
    /\ HandlerGoto(c, "execute", "reply")
    /\ UNCHANGED <<mu, netVars, lockedVars, serveVars, shutdownVars>>

\* io.WriteString: it blocks on a client that does not read, for as long as
\* the socket is open; a write to a vanished client may still succeed.
WriteOk(c) ==
    /\ HandlerGoto(c, "reply", "scan")
    /\ sock[c] = "open" /\ peer[c] # "stalled"
    /\ UNCHANGED <<mu, netVars, lockedVars, serveVars, shutdownVars>>

WriteFail(c) ==
    /\ HandlerGoto(c, "reply", "cleanup")
    /\ sock[c] = "closed" \/ peer[c] = "gone"
    /\ UNCHANGED <<mu, netVars, lockedVars, serveVars, shutdownVars>>

\* The deferred calls, in the order they run: forget the connection under
\* s.mu, close it, s.wg.Done().
Cleanup(c) ==
    /\ HandlerGoto(c, "cleanup", "close")
    /\ mu = "nobody"
    /\ conns' = conns \ {c}
    /\ UNCHANGED <<mu, done, listening, wg, netVars, serveVars, shutdownVars>>

\* Mutant of CloseConn: the handler exits without closing its socket.
CloseForgotten(c) ==
    /\ HandlerGoto(c, "close", "wgdone")
    /\ UNCHANGED <<mu, netVars, lockedVars, serveVars, shutdownVars>>

CloseConn(c) ==
    /\ HandlerGoto(c, "close", "wgdone")
    /\ sock' = [sock EXCEPT ![c] = "closed"]
    /\ UNCHANGED <<mu, peer, unread, lockedVars, serveVars, shutdownVars>>

WgDone(c) ==
    /\ HandlerGoto(c, "wgdone", "finished")
    /\ wg' = wg - 1
    /\ UNCHANGED <<mu, done, listening, conns, netVars, serveVars, shutdownVars>>

HandlerStep(c) ==
    \/ ScanLine(c) \/ ScanEnd(c) \/ Execute(c) \/ WriteOk(c) \/ WriteFail(c)
    \/ Cleanup(c) \/ CloseConn(c) \/ WgDone(c)

--------------------------------------------------------------------------------
(* Shutdown and its drain goroutine. *)

ShutdownGoto(from, to) == shutdown = from /\ shutdown' = to

\* The owner of the server calls Shutdown, once.
ShutdownCall ==
    /\ ShutdownGoto("idle", "lock")
    /\ UNCHANGED <<mu, netVars, lockedVars, serveVars, handler, shutdownErr, drain, expired>>

ShutdownLock ==
    /\ ShutdownGoto("lock", "signal")
    /\ mu = "nobody" /\ mu' = "shutdown"
    /\ UNCHANGED <<netVars, lockedVars, serveVars, handler, shutdownErr, drain, expired>>

\* close(s.done)
CloseDone ==
    /\ ShutdownGoto("signal", "listener")
    /\ done' = TRUE
    /\ UNCHANGED <<mu, listening, conns, wg, netVars, serveVars, handler, shutdownErr, drain, expired>>

\* s.ln.Close(): the kernel resets the connections that nobody accepted.
CloseListener ==
    /\ ShutdownGoto("listener", "sweep")
    /\ listening' = FALSE
    /\ sock' = [c \in Conns |-> IF sock[c] = "backlog" THEN "closed" ELSE sock[c]]
    /\ UNCHANGED <<mu, done, conns, wg, peer, unread, serveVars, handler, shutdownErr, drain, expired>>

\* One iteration of the loop over s.conns.
SweepOne(c) ==
    /\ shutdown = "sweep" /\ c \in conns /\ sock[c] = "open"
    /\ sock' = [sock EXCEPT ![c] = "closed"]
    /\ UNCHANGED <<mu, peer, unread, lockedVars, serveVars, handler, shutdownVars>>

\* Mutant of SweepDone: live connections are left to their clients.
SweepSkipped ==
    /\ ShutdownGoto("sweep", "wait")
    /\ mu' = "nobody"
    /\ drain' = "waiting"
    /\ UNCHANGED <<netVars, lockedVars, serveVars, handler, shutdownErr, expired>>

\* After the loop: s.mu.Unlock() and the drain goroutine starts.
SweepDone ==
    /\ ShutdownGoto("sweep", "wait")
    /\ \A c \in conns : sock[c] # "open"
    /\ mu' = "nobody"
    /\ drain' = "waiting"
    /\ UNCHANGED <<netVars, lockedVars, serveVars, handler, shutdownErr, expired>>

\* s.wg.Wait() returns; close(drained)
Drain ==
    /\ drain = "waiting" /\ wg = 0
    /\ drain' = "drained"
    /\ UNCHANGED <<mu, netVars, lockedVars, serveVars, handler, shutdown, shutdownErr, expired>>

\* The context that the caller passed to Shutdown gives up.
Expire ==
    /\ shutdown # "idle" /\ ~expired
    /\ expired' = TRUE
    /\ UNCHANGED <<mu, netVars, lockedVars, serveVars, handler, shutdown, shutdownErr, drain>>

\* The select at the end takes whichever case is ready.
ReturnDrained ==
    /\ ShutdownGoto("wait", "returned")
    /\ drain = "drained"
    /\ shutdownErr' = "nil"
    /\ UNCHANGED <<mu, netVars, lockedVars, serveVars, handler, drain, expired>>

ReturnExpired ==
    /\ ShutdownGoto("wait", "returned")
    /\ expired
    /\ shutdownErr' = "ctx"
    /\ UNCHANGED <<mu, netVars, lockedVars, serveVars, handler, drain, expired>>

ShutdownStep ==
    \/ ShutdownLock \/ CloseDone \/ CloseListener
    \/ (\E c \in Conns : SweepOne(c)) \/ SweepDone
    \/ ReturnDrained \/ ReturnExpired

--------------------------------------------------------------------------------

Environment ==
    \/ \E c \in Conns : Dial(c) \/ Send(c) \/ Stall(c) \/ Hangup(c)
    \/ AcceptError \/ Expire

Program == ServeStep \/ (\E c \in Conns : HandlerStep(c)) \/ ShutdownStep \/ Drain

Next == Environment \/ Program \/ ShutdownCall

Spec == Init /\ [][Next]_vars

\* The Go scheduler runs every goroutine that can run.  Nothing is assumed of
\* the clients, of the context, or of whether Shutdown is called.
Fairness ==
    /\ WF_vars(ServeStep)
    /\ \A c \in Conns : WF_vars(HandlerStep(c))
    /\ WF_vars(ShutdownStep)
    /\ WF_vars(Drain)

FairSpec == Spec /\ Fairness

--------------------------------------------------------------------------------

\* The handlers that the WaitGroup accounts for.
Live == {c \in Conns : handler[c] \notin {"none", "finished"}}

(***************************************************************************)
(* The WaitGroup counts exactly the handlers that were admitted and have   *)
(* not finished, from before their goroutine exists until their last step. *)
(***************************************************************************)
WgCountsLive == wg = Cardinality(Live)

(***************************************************************************)
(* When Shutdown has returned nil, no handler runs or will run, and every  *)
(* connection is closed, except one that Serve has accepted but not yet    *)
(* refused at the gate.                                                    *)
(***************************************************************************)
ShutdownClean ==
    shutdownErr = "nil" =>
        /\ Live = {} /\ conns = {}
        /\ \A c \in Conns :
              sock[c] \in {"open", "backlog"} =>
                  c = accepted /\ serve \in {"gate", "gated", "refuse"}

(***************************************************************************)
(* The strengthening that every step preserves: who holds s.mu and what    *)
(* has been closed follows from where Serve and Shutdown are (PhaseInv);   *)
(* the accepted connection belongs to Serve until its handler starts       *)
(* (GateInv); s.conns and the sockets follow from where the handlers are   *)
(* (HandlerInv); and once the drain has finished the counter stays at zero *)
(* (DrainInv).                                                             *)
(***************************************************************************)
PhaseInv ==
    /\ mu = "serve" <=> serve = "gated"
    /\ mu = "shutdown" <=> shutdown \in {"signal", "listener", "sweep"}
    /\ done <=> shutdown \in {"listener", "sweep", "wait", "returned"}
    /\ listening <=> shutdown \in {"idle", "lock", "signal", "listener"}
    /\ drain = "none" <=> shutdown \notin {"wait", "returned"}

Undecided == {"gate", "gated", "refuse"}

GateInv ==
    /\ serve \in Undecided =>
          accepted \in Conns /\ sock[accepted] = "open" /\ handler[accepted] = "none"
    /\ serve = "spawn" => accepted \in Conns /\ handler[accepted] = "admitted"

Registered == {"admitted", "scan", "execute", "reply", "cleanup"}

HandlerInv ==
    /\ conns = {c \in Conns : handler[c] \in Registered}
    /\ \A c \in Conns :
          /\ handler[c] = "admitted" => serve = "spawn" /\ accepted = c
          /\ handler[c] # "none" => sock[c] \in {"open", "closed"}
          /\ handler[c] \in {"wgdone", "finished"} => sock[c] = "closed"
          /\ handler[c] = "none" /\ sock[c] = "open" => serve \in Undecided /\ accepted = c
          /\ sock[c] = "backlog" => listening

DrainInv ==
    /\ drain = "drained" => wg = 0
    /\ shutdownErr = "nil" => drain = "drained"

IndInv == TypeOK /\ PhaseInv /\ GateInv /\ HandlerInv /\ WgCountsLive /\ DrainInv

(***************************************************************************)
(* s.wg.Add never races the s.wg.Wait of the drain goroutine: once that    *)
(* has started, the counter only falls.                                    *)
(***************************************************************************)
NoAddAfterWait == [][drain # "none" => wg' <= wg]_vars

(***************************************************************************)
(* An Accept that fails because Shutdown closed the listener is never      *)
(* reported as an error: s.done is closed before the listener is.          *)
(***************************************************************************)
CloseIsNoError == [][~listening => serveErr' \in {serveErr, "nil"}]_vars

(***************************************************************************)
(* Once Shutdown starts, it drains and Serve returns, with idle clients,   *)
(* with clients that never read a reply, and without help of the context.  *)
(***************************************************************************)
ShutdownDrains == shutdown # "idle" ~> drain = "drained" /\ serve = "returned"

(***************************************************************************)
(* Every connection that a client has opened by the time Shutdown closes   *)
(* the listener is closed in the end, the one caught at the gate included. *)
(***************************************************************************)
EveryConnCloses ==
    \A c \in Conns : ~listening /\ sock[c] # "new" ~> sock[c] = "closed"

================================================================================
