----------------------------- MODULE ProcessProofs -----------------------------
(***************************************************************************)
(* The server and the process around it, for any number of connections:    *)
(* the WaitGroup counts the live handlers, its counter never rises once    *)
(* the drain goroutine waits, and a Shutdown that returns nil has left no  *)
(* handler and no admitted connection behind.  The server's invariant      *)
(* holds in the process, and main adds what it knows when it exits.        *)
(***************************************************************************)
EXTENDS Kvstore, FiniteSetTheorems, TLAPS

\* The initial state satisfies the inductive invariant.
LEMMA InitIndInv == Init => IndInv
<1> SUFFICES ASSUME Init PROVE IndInv
  OBVIOUS
<1> USE DEF Init
<1>1. TypeOK
  <2>1. 0 \in 0..MaxUnread
    BY MaxUnreadAssumption
  <2>2. unread \in [Conns -> 0..MaxUnread]
    BY <2>1
  <2> QED
    BY <2>2 DEF TypeOK, ServeLabels, HandlerLabels, ShutdownLabels
<1>2. PhaseInv /\ GateInv /\ HandlerInv /\ DrainInv
  BY DEF PhaseInv, GateInv, HandlerInv, DrainInv, Undecided, Registered
<1>3. WgCountsLive
  <2>1. Live = {}
    BY DEF Live
  <2> QED
    BY <2>1, FS_EmptySet DEF WgCountsLive
<1> QED
  BY <1>1, <1>2, <1>3 DEF IndInv

\* Locks and closed channels follow Serve and Shutdown.
LEMMA PhaseStep == IndInv /\ [Next]_vars => PhaseInv'
<1> SUFFICES ASSUME IndInv, [Next]_vars PROVE PhaseInv'
  OBVIOUS
<1> USE DEF IndInv, TypeOK, PhaseInv, netVars, serveVars, shutdownVars, lockedVars
<1>0. CASE UNCHANGED vars
  BY <1>0 DEF vars
<1>1. ASSUME NEW c \in Conns, Dial(c) \/ Send(c) \/ Stall(c) \/ Hangup(c)
      PROVE  PhaseInv'
  BY <1>1 DEF Dial, Send, Stall, Hangup
<1>2. ASSUME AcceptError \/ Expire
      PROVE  PhaseInv'
  BY <1>2 DEF AcceptError, Expire, ServeGoto
<1>3. ASSUME NEW c \in Conns, Accept(c)
      PROVE  PhaseInv'
  BY <1>3 DEF Accept, ServeGoto
<1>4. ASSUME AcceptClosed \/ ServeFail \/ GateLock
      PROVE  PhaseInv'
  BY <1>4 DEF AcceptClosed, ServeFail, GateLock, ServeGoto
<1>5. ASSUME Admit
      PROVE  PhaseInv'
  BY <1>5 DEF Admit, Enter, ServeGoto
<1>6. ASSUME Spawn
      PROVE  PhaseInv'
  BY <1>6 DEF Spawn, ServeGoto
<1>7. ASSUME RefuseUnlock \/ RefuseClose
      PROVE  PhaseInv'
  BY <1>7 DEF RefuseUnlock, RefuseClose, ServeGoto
<1>8. ASSUME NEW c \in Conns, ScanLine(c) \/ ScanEnd(c) \/ Execute(c)
      PROVE  PhaseInv'
  BY <1>8 DEF ScanLine, ScanEnd, Execute, HandlerGoto
<1>9. ASSUME NEW c \in Conns, WriteOk(c) \/ WriteFail(c)
      PROVE  PhaseInv'
  BY <1>9 DEF WriteOk, WriteFail, HandlerGoto
<1>10. ASSUME NEW c \in Conns, Cleanup(c)
      PROVE  PhaseInv'
  BY <1>10 DEF Cleanup, HandlerGoto
<1>11. ASSUME NEW c \in Conns, CloseConn(c)
      PROVE  PhaseInv'
  BY <1>11 DEF CloseConn, HandlerGoto
<1>12. ASSUME NEW c \in Conns, WgDone(c)
      PROVE  PhaseInv'
  BY <1>12 DEF WgDone, HandlerGoto
<1>13. ASSUME ShutdownCall \/ ShutdownLock \/ CloseDone
      PROVE  PhaseInv'
  BY <1>13 DEF ShutdownCall, ShutdownLock, CloseDone, ShutdownGoto
<1>14. ASSUME CloseListener
      PROVE  PhaseInv'
  BY <1>14 DEF CloseListener, ShutdownGoto
<1>15. ASSUME NEW c \in Conns, SweepOne(c)
      PROVE  PhaseInv'
  BY <1>15 DEF SweepOne
<1>16. ASSUME SweepDone \/ Drain
      PROVE  PhaseInv'
  BY <1>16 DEF SweepDone, Drain, ShutdownGoto
<1>17. ASSUME ReturnDrained \/ ReturnExpired
      PROVE  PhaseInv'
  BY <1>17 DEF ReturnDrained, ReturnExpired, ShutdownGoto
<1> QED
  BY <1>0, <1>1, <1>2, <1>3, <1>4, <1>5, <1>6, <1>7, <1>8, <1>9, <1>10, <1>11,
     <1>12, <1>13, <1>14, <1>15, <1>16, <1>17 DEF Next, Environment, Program,
     ServeStep, HandlerStep, ShutdownStep

\* The accepted connection is Serve's until its handler starts.
LEMMA GateStep == IndInv /\ [Next]_vars => GateInv'
<1> SUFFICES ASSUME IndInv, [Next]_vars PROVE GateInv'
  OBVIOUS
<1> USE DEF IndInv, TypeOK, PhaseInv, GateInv, HandlerInv, Undecided, Registered, netVars, serveVars, shutdownVars, lockedVars
<1>0. CASE UNCHANGED vars
  BY <1>0 DEF vars
<1>1. ASSUME NEW c \in Conns, Dial(c) \/ Send(c) \/ Stall(c) \/ Hangup(c)
      PROVE  GateInv'
  BY <1>1 DEF Dial, Send, Stall, Hangup
<1>2. ASSUME AcceptError \/ Expire
      PROVE  GateInv'
  BY <1>2 DEF AcceptError, Expire, ServeGoto
<1>3. ASSUME NEW c \in Conns, Accept(c)
      PROVE  GateInv'
  BY <1>3 DEF Accept, ServeGoto
<1>4. ASSUME AcceptClosed \/ ServeFail \/ GateLock
      PROVE  GateInv'
  BY <1>4 DEF AcceptClosed, ServeFail, GateLock, ServeGoto
<1>5. ASSUME Admit
      PROVE  GateInv'
  BY <1>5 DEF Admit, Enter, ServeGoto
<1>6. ASSUME Spawn
      PROVE  GateInv'
  BY <1>6 DEF Spawn, ServeGoto
<1>7. ASSUME RefuseUnlock \/ RefuseClose
      PROVE  GateInv'
  BY <1>7 DEF RefuseUnlock, RefuseClose, ServeGoto
<1>8. ASSUME NEW c \in Conns, ScanLine(c) \/ ScanEnd(c) \/ Execute(c)
      PROVE  GateInv'
  BY <1>8 DEF ScanLine, ScanEnd, Execute, HandlerGoto
<1>9. ASSUME NEW c \in Conns, WriteOk(c) \/ WriteFail(c)
      PROVE  GateInv'
  BY <1>9 DEF WriteOk, WriteFail, HandlerGoto
<1>10. ASSUME NEW c \in Conns, Cleanup(c)
      PROVE  GateInv'
  BY <1>10 DEF Cleanup, HandlerGoto
<1>11. ASSUME NEW c \in Conns, CloseConn(c)
      PROVE  GateInv'
  BY <1>11 DEF CloseConn, HandlerGoto
<1>12. ASSUME NEW c \in Conns, WgDone(c)
      PROVE  GateInv'
  BY <1>12 DEF WgDone, HandlerGoto
<1>13. ASSUME ShutdownCall \/ ShutdownLock \/ CloseDone
      PROVE  GateInv'
  BY <1>13 DEF ShutdownCall, ShutdownLock, CloseDone, ShutdownGoto
<1>14. ASSUME CloseListener
      PROVE  GateInv'
  BY <1>14 DEF CloseListener, ShutdownGoto
<1>15. ASSUME NEW c \in Conns, SweepOne(c)
      PROVE  GateInv'
  BY <1>15 DEF SweepOne
<1>16. ASSUME SweepDone \/ Drain
      PROVE  GateInv'
  BY <1>16 DEF SweepDone, Drain, ShutdownGoto
<1>17. ASSUME ReturnDrained \/ ReturnExpired
      PROVE  GateInv'
  BY <1>17 DEF ReturnDrained, ReturnExpired, ShutdownGoto
<1> QED
  BY <1>0, <1>1, <1>2, <1>3, <1>4, <1>5, <1>6, <1>7, <1>8, <1>9, <1>10, <1>11,
     <1>12, <1>13, <1>14, <1>15, <1>16, <1>17 DEF Next, Environment, Program,
     ServeStep, HandlerStep, ShutdownStep

\* The map and the sockets follow the handlers.
LEMMA HandlerInvStep == IndInv /\ [Next]_vars => HandlerInv'
<1> SUFFICES ASSUME IndInv, [Next]_vars PROVE HandlerInv'
  OBVIOUS
<1> USE DEF IndInv, TypeOK, PhaseInv, GateInv, HandlerInv, Undecided, Registered, netVars, serveVars, shutdownVars, lockedVars
<1>0. CASE UNCHANGED vars
  BY <1>0 DEF vars
<1>1. ASSUME NEW c \in Conns, Dial(c) \/ Send(c) \/ Stall(c) \/ Hangup(c)
      PROVE  HandlerInv'
  BY <1>1 DEF Dial, Send, Stall, Hangup
<1>2. ASSUME AcceptError \/ Expire
      PROVE  HandlerInv'
  BY <1>2 DEF AcceptError, Expire, ServeGoto
<1>3. ASSUME NEW c \in Conns, Accept(c)
      PROVE  HandlerInv'
  BY <1>3 DEF Accept, ServeGoto
<1>4. ASSUME AcceptClosed \/ ServeFail \/ GateLock
      PROVE  HandlerInv'
  BY <1>4 DEF AcceptClosed, ServeFail, GateLock, ServeGoto
<1>5. ASSUME Admit
      PROVE  HandlerInv'
  BY <1>5 DEF Admit, Enter, ServeGoto
<1>6. ASSUME Spawn
      PROVE  HandlerInv'
  BY <1>6 DEF Spawn, ServeGoto
<1>7. ASSUME RefuseUnlock \/ RefuseClose
      PROVE  HandlerInv'
  BY <1>7 DEF RefuseUnlock, RefuseClose, ServeGoto
<1>8. ASSUME NEW c \in Conns, ScanLine(c) \/ ScanEnd(c) \/ Execute(c)
      PROVE  HandlerInv'
  BY <1>8 DEF ScanLine, ScanEnd, Execute, HandlerGoto
<1>9. ASSUME NEW c \in Conns, WriteOk(c) \/ WriteFail(c)
      PROVE  HandlerInv'
  BY <1>9 DEF WriteOk, WriteFail, HandlerGoto
<1>10. ASSUME NEW c \in Conns, Cleanup(c)
      PROVE  HandlerInv'
  BY <1>10 DEF Cleanup, HandlerGoto
<1>11. ASSUME NEW c \in Conns, CloseConn(c)
      PROVE  HandlerInv'
  BY <1>11 DEF CloseConn, HandlerGoto
<1>12. ASSUME NEW c \in Conns, WgDone(c)
      PROVE  HandlerInv'
  BY <1>12 DEF WgDone, HandlerGoto
<1>13. ASSUME ShutdownCall \/ ShutdownLock \/ CloseDone
      PROVE  HandlerInv'
  BY <1>13 DEF ShutdownCall, ShutdownLock, CloseDone, ShutdownGoto
<1>14. ASSUME CloseListener
      PROVE  HandlerInv'
  BY <1>14 DEF CloseListener, ShutdownGoto
<1>15. ASSUME NEW c \in Conns, SweepOne(c)
      PROVE  HandlerInv'
  BY <1>15 DEF SweepOne
<1>16. ASSUME SweepDone \/ Drain
      PROVE  HandlerInv'
  BY <1>16 DEF SweepDone, Drain, ShutdownGoto
<1>17. ASSUME ReturnDrained \/ ReturnExpired
      PROVE  HandlerInv'
  BY <1>17 DEF ReturnDrained, ReturnExpired, ShutdownGoto
<1> QED
  BY <1>0, <1>1, <1>2, <1>3, <1>4, <1>5, <1>6, <1>7, <1>8, <1>9, <1>10, <1>11,
     <1>12, <1>13, <1>14, <1>15, <1>16, <1>17 DEF Next, Environment, Program,
     ServeStep, HandlerStep, ShutdownStep

\* The set of live handlers is finite, and empty exactly when the counter is 0.
LEMMA LiveIsCounted ==
    ASSUME WgCountsLive
    PROVE  IsFiniteSet(Live) /\ (wg = 0 <=> Live = {})
<1>1. IsFiniteSet(Live)
  <2>1. Live \subseteq Conns
    BY DEF Live
  <2> QED
    BY <2>1, ConnsAssumption, FS_Subset
<1>2. wg = 0 <=> Live = {}
  BY <1>1, FS_EmptySet DEF WgCountsLive
<1> QED
  BY <1>1, <1>2

\* Every step keeps the variables in their types.
LEMMA TypeStep == IndInv /\ [Next]_vars => TypeOK'
<1> SUFFICES ASSUME IndInv, [Next]_vars PROVE TypeOK'
  OBVIOUS
<1> USE DEF IndInv, TypeOK, ServeLabels, HandlerLabels, ShutdownLabels, netVars, serveVars, shutdownVars, lockedVars
<1>0. CASE UNCHANGED vars
  BY <1>0 DEF vars
<1>1. ASSUME NEW c \in Conns, Dial(c) \/ Send(c) \/ Stall(c) \/ Hangup(c)
      PROVE  TypeOK'
  <2>1. CASE Send(c)
    <3>1. unread' = [unread EXCEPT ![c] = @ + 1] /\ unread[c] + 1 \in 0..MaxUnread
      BY <2>1, MaxUnreadAssumption DEF Send
    <3>2. unread' \in [Conns -> 0..MaxUnread]
      BY <3>1
    <3> QED
      BY <2>1, <3>2 DEF Send
  <2>2. CASE Dial(c) \/ Stall(c) \/ Hangup(c)
    BY <2>2 DEF Dial, Stall, Hangup
  <2> QED
    BY <1>1, <2>1, <2>2
<1>2. ASSUME AcceptError \/ Expire
      PROVE  TypeOK'
  <2>1. CASE AcceptError
    BY <2>1 DEF AcceptError, ServeGoto
  <2>2. CASE Expire
    <3>1. expired' \in BOOLEAN
      BY <2>2, Zenon DEF Expire
    <3> QED
      BY <2>2, <3>1 DEF Expire
  <2> QED
    BY <1>2, <2>1, <2>2
<1>3. ASSUME NEW c \in Conns, Accept(c)
      PROVE  TypeOK'
  BY <1>3 DEF Accept, ServeGoto
<1>4. ASSUME AcceptClosed \/ ServeFail \/ GateLock
      PROVE  TypeOK'
  BY <1>4 DEF AcceptClosed, ServeFail, GateLock, ServeGoto
<1>5. ASSUME Admit
      PROVE  TypeOK'
  <2>1. accepted \in Conns
    BY <1>5 DEF Admit, ServeGoto, GateInv, Undecided
  <2> QED
    BY <1>5, <2>1 DEF Admit, Enter, ServeGoto
<1>6. ASSUME Spawn
      PROVE  TypeOK'
  <2>1. accepted \in Conns
    BY <1>6 DEF Spawn, ServeGoto, GateInv
  <2> QED
    BY <1>6, <2>1 DEF Spawn, ServeGoto
<1>7. ASSUME RefuseUnlock \/ RefuseClose
      PROVE  TypeOK'
  BY <1>7 DEF RefuseUnlock, RefuseClose, ServeGoto
<1>8. ASSUME NEW c \in Conns, ScanLine(c) \/ ScanEnd(c) \/ Execute(c)
      PROVE  TypeOK'
  <2>1. CASE ScanLine(c)
    <3>1. unread' = [unread EXCEPT ![c] = @ - 1] /\ unread[c] - 1 \in 0..MaxUnread
      BY <2>1, MaxUnreadAssumption DEF ScanLine
    <3>2. unread' \in [Conns -> 0..MaxUnread]
      BY <3>1
    <3> QED
      BY <2>1, <3>2 DEF ScanLine, HandlerGoto
  <2>2. CASE ScanEnd(c) \/ Execute(c)
    BY <2>2 DEF ScanEnd, Execute, HandlerGoto
  <2> QED
    BY <1>8, <2>1, <2>2
<1>9. ASSUME NEW c \in Conns, WriteOk(c) \/ WriteFail(c)
      PROVE  TypeOK'
  BY <1>9 DEF WriteOk, WriteFail, HandlerGoto
<1>10. ASSUME NEW c \in Conns, Cleanup(c)
      PROVE  TypeOK'
  BY <1>10 DEF Cleanup, HandlerGoto
<1>11. ASSUME NEW c \in Conns, CloseConn(c)
      PROVE  TypeOK'
  BY <1>11 DEF CloseConn, HandlerGoto
<1>12. ASSUME NEW c \in Conns, WgDone(c)
      PROVE  TypeOK'
  <2>1. wg # 0
    BY <1>12, LiveIsCounted DEF WgDone, HandlerGoto, Live
  <2>2. wg - 1 \in Nat
    BY <2>1
  <2> QED
    BY <1>12, <2>2 DEF WgDone, HandlerGoto
<1>13. ASSUME ShutdownCall \/ ShutdownLock \/ CloseDone
      PROVE  TypeOK'
  <2>1. CASE ShutdownCall \/ ShutdownLock
    BY <2>1 DEF ShutdownCall, ShutdownLock, ShutdownGoto
  <2>2. CASE CloseDone
    <3>1. done' \in BOOLEAN
      BY <2>2, Zenon DEF CloseDone
    <3> QED
      BY <2>2, <3>1 DEF CloseDone, ShutdownGoto
  <2> QED
    BY <1>13, <2>1, <2>2
<1>14. ASSUME CloseListener
      PROVE  TypeOK'
  <2>1. listening' \in BOOLEAN
    BY <1>14, Zenon DEF CloseListener
  <2> QED
    BY <1>14, <2>1 DEF CloseListener, ShutdownGoto
<1>15. ASSUME NEW c \in Conns, SweepOne(c)
      PROVE  TypeOK'
  BY <1>15 DEF SweepOne
<1>16. ASSUME SweepDone \/ Drain
      PROVE  TypeOK'
  BY <1>16 DEF SweepDone, Drain, ShutdownGoto
<1>17. ASSUME ReturnDrained \/ ReturnExpired
      PROVE  TypeOK'
  BY <1>17 DEF ReturnDrained, ReturnExpired, ShutdownGoto
<1> QED
  BY <1>0, <1>1, <1>2, <1>3, <1>4, <1>5, <1>6, <1>7, <1>8, <1>9, <1>10, <1>11,
     <1>12, <1>13, <1>14, <1>15, <1>16, <1>17 DEF Next, Environment, Program,
     ServeStep, HandlerStep, ShutdownStep

\* The WaitGroup keeps counting the live handlers: Admit adds one, WgDone takes one.
LEMMA CountStep == IndInv /\ [Next]_vars => WgCountsLive'
<1> SUFFICES ASSUME IndInv, [Next]_vars PROVE WgCountsLive'
  OBVIOUS
<1> USE DEF IndInv, TypeOK, GateInv, Undecided, netVars, serveVars, shutdownVars, lockedVars
<1>0. CASE UNCHANGED vars
  BY <1>0 DEF vars, WgCountsLive, Live
<1>1. ASSUME NEW c \in Conns, Dial(c) \/ Send(c) \/ Stall(c) \/ Hangup(c)
      PROVE  WgCountsLive'
  <2>1. Live' = Live /\ wg' = wg
    BY <1>1 DEF Dial, Send, Stall, Hangup, Live
  <2> QED
    BY <2>1 DEF WgCountsLive
<1>2. ASSUME AcceptError \/ Expire
      PROVE  WgCountsLive'
  <2>1. Live' = Live /\ wg' = wg
    BY <1>2 DEF AcceptError, Expire, ServeGoto, Live
  <2> QED
    BY <2>1 DEF WgCountsLive
<1>3. ASSUME NEW c \in Conns, Accept(c)
      PROVE  WgCountsLive'
  <2>1. Live' = Live /\ wg' = wg
    BY <1>3 DEF Accept, ServeGoto, Live
  <2> QED
    BY <2>1 DEF WgCountsLive
<1>4. ASSUME AcceptClosed \/ ServeFail \/ GateLock
      PROVE  WgCountsLive'
  <2>1. Live' = Live /\ wg' = wg
    BY <1>4 DEF AcceptClosed, ServeFail, GateLock, ServeGoto, Live
  <2> QED
    BY <2>1 DEF WgCountsLive
<1>5. ASSUME Admit
      PROVE  WgCountsLive'
  <2>1. accepted \in Conns /\ handler[accepted] = "none"
    BY <1>5 DEF Admit, ServeGoto
  <2>2. accepted \notin Live
    BY <2>1 DEF Live
  <2>3. Live' = Live \cup {accepted}
    BY <1>5, <2>1 DEF Admit, Enter, Live
  <2>4. Cardinality(Live') = Cardinality(Live) + 1
    BY <2>2, <2>3, LiveIsCounted, FS_AddElement
  <2> QED
    BY <1>5, <2>4 DEF Admit, Enter, WgCountsLive
<1>6. ASSUME Spawn
      PROVE  WgCountsLive'
  <2>1. accepted \in Conns /\ handler[accepted] = "admitted"
    BY <1>6 DEF Spawn, ServeGoto
  <2>2. Live' = Live /\ wg' = wg
    BY <1>6, <2>1 DEF Spawn, Live
  <2> QED
    BY <2>2 DEF WgCountsLive
<1>7. ASSUME RefuseUnlock \/ RefuseClose
      PROVE  WgCountsLive'
  <2>1. Live' = Live /\ wg' = wg
    BY <1>7 DEF RefuseUnlock, RefuseClose, ServeGoto, Live
  <2> QED
    BY <2>1 DEF WgCountsLive
<1>8. ASSUME NEW c \in Conns, ScanLine(c) \/ ScanEnd(c) \/ Execute(c)
      PROVE  WgCountsLive'
  <2>1. Live' = Live /\ wg' = wg
    BY <1>8 DEF ScanLine, ScanEnd, Execute, HandlerGoto, Live
  <2> QED
    BY <2>1 DEF WgCountsLive
<1>9. ASSUME NEW c \in Conns, WriteOk(c) \/ WriteFail(c)
      PROVE  WgCountsLive'
  <2>1. Live' = Live /\ wg' = wg
    BY <1>9 DEF WriteOk, WriteFail, HandlerGoto, Live
  <2> QED
    BY <2>1 DEF WgCountsLive
<1>10. ASSUME NEW c \in Conns, Cleanup(c)
      PROVE  WgCountsLive'
  <2>1. Live' = Live /\ wg' = wg
    BY <1>10 DEF Cleanup, HandlerGoto, Live
  <2> QED
    BY <2>1 DEF WgCountsLive
<1>11. ASSUME NEW c \in Conns, CloseConn(c)
      PROVE  WgCountsLive'
  <2>1. Live' = Live /\ wg' = wg
    BY <1>11 DEF CloseConn, HandlerGoto, Live
  <2> QED
    BY <2>1 DEF WgCountsLive
<1>12. ASSUME NEW c \in Conns, WgDone(c)
      PROVE  WgCountsLive'
  <2>1. c \in Live
    BY <1>12 DEF WgDone, HandlerGoto, Live
  <2>2. Live' = Live \ {c}
    BY <1>12 DEF WgDone, HandlerGoto, Live
  <2>3. Cardinality(Live') = Cardinality(Live) - 1
    BY <2>1, <2>2, LiveIsCounted, FS_RemoveElement
  <2> QED
    BY <1>12, <2>3 DEF WgDone, WgCountsLive
<1>13. ASSUME ShutdownCall \/ ShutdownLock \/ CloseDone
      PROVE  WgCountsLive'
  <2>1. Live' = Live /\ wg' = wg
    BY <1>13 DEF ShutdownCall, ShutdownLock, CloseDone, ShutdownGoto, Live
  <2> QED
    BY <2>1 DEF WgCountsLive
<1>14. ASSUME CloseListener
      PROVE  WgCountsLive'
  <2>1. Live' = Live /\ wg' = wg
    BY <1>14 DEF CloseListener, ShutdownGoto, Live
  <2> QED
    BY <2>1 DEF WgCountsLive
<1>15. ASSUME NEW c \in Conns, SweepOne(c)
      PROVE  WgCountsLive'
  <2>1. Live' = Live /\ wg' = wg
    BY <1>15 DEF SweepOne, Live
  <2> QED
    BY <2>1 DEF WgCountsLive
<1>16. ASSUME SweepDone \/ Drain
      PROVE  WgCountsLive'
  <2>1. Live' = Live /\ wg' = wg
    BY <1>16 DEF SweepDone, Drain, ShutdownGoto, Live
  <2> QED
    BY <2>1 DEF WgCountsLive
<1>17. ASSUME ReturnDrained \/ ReturnExpired
      PROVE  WgCountsLive'
  <2>1. Live' = Live /\ wg' = wg
    BY <1>17 DEF ReturnDrained, ReturnExpired, ShutdownGoto, Live
  <2> QED
    BY <2>1 DEF WgCountsLive
<1> QED
  BY <1>0, <1>1, <1>2, <1>3, <1>4, <1>5, <1>6, <1>7, <1>8, <1>9, <1>10, <1>11,
     <1>12, <1>13, <1>14, <1>15, <1>16, <1>17 DEF Next, Environment, Program,
     ServeStep, HandlerStep, ShutdownStep

\* Once the drain has finished the counter stays at zero.
LEMMA DrainStep == IndInv /\ [Next]_vars => DrainInv'
<1> SUFFICES ASSUME IndInv, [Next]_vars PROVE DrainInv'
  OBVIOUS
<1> USE DEF IndInv, TypeOK, DrainInv, netVars, serveVars, shutdownVars, lockedVars
<1>0. CASE UNCHANGED vars
  BY <1>0 DEF vars
<1>1. ASSUME NEW c \in Conns, Dial(c) \/ Send(c) \/ Stall(c) \/ Hangup(c)
      PROVE  DrainInv'
  BY <1>1 DEF Dial, Send, Stall, Hangup
<1>2. ASSUME AcceptError \/ Expire
      PROVE  DrainInv'
  BY <1>2 DEF AcceptError, Expire, ServeGoto
<1>3. ASSUME NEW c \in Conns, Accept(c)
      PROVE  DrainInv'
  BY <1>3 DEF Accept, ServeGoto
<1>4. ASSUME AcceptClosed \/ ServeFail \/ GateLock
      PROVE  DrainInv'
  BY <1>4 DEF AcceptClosed, ServeFail, GateLock, ServeGoto
<1>5. ASSUME Admit
      PROVE  DrainInv'
  <2>1. drain = "none"
    BY <1>5 DEF Admit, PhaseInv
  <2> QED
    BY <1>5, <2>1 DEF Admit, Enter, ServeGoto
<1>6. ASSUME Spawn
      PROVE  DrainInv'
  BY <1>6 DEF Spawn, ServeGoto
<1>7. ASSUME RefuseUnlock \/ RefuseClose
      PROVE  DrainInv'
  BY <1>7 DEF RefuseUnlock, RefuseClose, ServeGoto
<1>8. ASSUME NEW c \in Conns, ScanLine(c) \/ ScanEnd(c) \/ Execute(c)
      PROVE  DrainInv'
  BY <1>8 DEF ScanLine, ScanEnd, Execute, HandlerGoto
<1>9. ASSUME NEW c \in Conns, WriteOk(c) \/ WriteFail(c)
      PROVE  DrainInv'
  BY <1>9 DEF WriteOk, WriteFail, HandlerGoto
<1>10. ASSUME NEW c \in Conns, Cleanup(c)
      PROVE  DrainInv'
  BY <1>10 DEF Cleanup, HandlerGoto
<1>11. ASSUME NEW c \in Conns, CloseConn(c)
      PROVE  DrainInv'
  BY <1>11 DEF CloseConn, HandlerGoto
<1>12. ASSUME NEW c \in Conns, WgDone(c)
      PROVE  DrainInv'
  <2>1. wg # 0
    BY <1>12, LiveIsCounted DEF WgDone, HandlerGoto, Live
  <2> QED
    BY <1>12, <2>1 DEF WgDone, HandlerGoto
<1>13. ASSUME ShutdownCall \/ ShutdownLock \/ CloseDone
      PROVE  DrainInv'
  BY <1>13 DEF ShutdownCall, ShutdownLock, CloseDone, ShutdownGoto
<1>14. ASSUME CloseListener
      PROVE  DrainInv'
  BY <1>14 DEF CloseListener, ShutdownGoto
<1>15. ASSUME NEW c \in Conns, SweepOne(c)
      PROVE  DrainInv'
  BY <1>15 DEF SweepOne
<1>16. ASSUME SweepDone \/ Drain
      PROVE  DrainInv'
  <2>1. CASE SweepDone
    <3>1. drain = "none"
      BY <2>1 DEF SweepDone, ShutdownGoto, PhaseInv
    <3> QED
      BY <2>1, <3>1 DEF SweepDone, ShutdownGoto
  <2>2. CASE Drain
    BY <2>2 DEF Drain
  <2> QED
    BY <1>16, <2>1, <2>2
<1>17. ASSUME ReturnDrained \/ ReturnExpired
      PROVE  DrainInv'
  BY <1>17 DEF ReturnDrained, ReturnExpired, ShutdownGoto
<1> QED
  BY <1>0, <1>1, <1>2, <1>3, <1>4, <1>5, <1>6, <1>7, <1>8, <1>9, <1>10, <1>11,
     <1>12, <1>13, <1>14, <1>15, <1>16, <1>17 DEF Next, Environment, Program,
     ServeStep, HandlerStep, ShutdownStep

\* The inductive invariant holds in every reachable state.
THEOREM Invariance == Spec => []IndInv
<1>1. Init => IndInv
  BY InitIndInv
<1>2. IndInv /\ [Next]_vars => IndInv'
  BY TypeStep, PhaseStep, GateStep, HandlerInvStep, CountStep, DrainStep DEF IndInv
<1> QED
  BY <1>1, <1>2, PTL DEF Spec

\* The variables of the server keep their types.
THEOREM TypeCorrect == Spec => []TypeOK
<1>1. IndInv => TypeOK
  BY DEF IndInv
<1> QED
  BY <1>1, Invariance, PTL

\* For any number of connections the WaitGroup counts exactly the handlers
\* that were admitted and have not finished.
THEOREM CountCorrect == Spec => []WgCountsLive
<1>1. IndInv => WgCountsLive
  BY DEF IndInv
<1> QED
  BY <1>1, Invariance, PTL

\* A Shutdown that returns nil leaves no handler and no admitted connection.
THEOREM ShutdownCorrect == Spec => []ShutdownClean
<1>1. IndInv => ShutdownClean
  <2> SUFFICES ASSUME IndInv, shutdownErr = "nil"
               PROVE  /\ Live = {} /\ conns = {}
                      /\ \A c \in Conns :
                            sock[c] \in {"open", "backlog"} =>
                                c = accepted /\ serve \in {"gate", "gated", "refuse"}
    BY DEF ShutdownClean
  <2>1. Live = {}
    BY LiveIsCounted DEF IndInv, DrainInv
  <2>2. \A c \in Conns : handler[c] \in {"none", "finished"}
    BY <2>1 DEF Live
  <2>3. conns = {}
    BY <2>2 DEF IndInv, HandlerInv, Registered
  <2>4. ~listening
    BY DEF IndInv, DrainInv, PhaseInv
  <2>5. ASSUME NEW c \in Conns, sock[c] \in {"open", "backlog"}
        PROVE  c = accepted /\ serve \in {"gate", "gated", "refuse"}
    BY <2>2, <2>4, <2>5 DEF IndInv, HandlerInv, Undecided
  <2> QED
    BY <2>1, <2>3, <2>5
<1> QED
  BY <1>1, Invariance, PTL

\* s.wg.Add never runs once the drain goroutine has called s.wg.Wait.
THEOREM AddBeforeWait == Spec => NoAddAfterWait
<1>1. IndInv /\ [Next]_vars => [drain # "none" => wg' <= wg]_vars
  <2> SUFFICES ASSUME IndInv, Next, drain # "none" PROVE wg' <= wg
    OBVIOUS
  <2> USE DEF netVars, serveVars, shutdownVars, lockedVars
  <2>1. wg \in Nat /\ ~Admit
    BY DEF IndInv, TypeOK, PhaseInv, Admit
  <2>2. CASE Environment \/ ShutdownCall
    BY <2>1, <2>2 DEF Environment, Dial, Send, Stall, Hangup, AcceptError, Expire, ShutdownCall
  <2>3. CASE ServeStep
    BY <2>1, <2>3
    DEF ServeStep, Accept, AcceptClosed, ServeFail, GateLock, Spawn, RefuseUnlock, RefuseClose
  <2>4. ASSUME NEW c \in Conns, HandlerStep(c)
        PROVE  wg' <= wg
    BY <2>1, <2>4
    DEF HandlerStep, ScanLine, ScanEnd, Execute, WriteOk, WriteFail, Cleanup, CloseConn, WgDone
  <2>5. CASE ShutdownStep \/ Drain
    BY <2>1, <2>5
    DEF ShutdownStep, ShutdownLock, CloseDone, CloseListener, SweepOne, SweepDone,
        ReturnDrained, ReturnExpired, Drain
  <2> QED
    BY <2>2, <2>3, <2>4, <2>5 DEF Next, Program
<1> QED
  BY <1>1, Invariance, PTL DEF Spec, NoAddAfterWait

\* A listener that Shutdown has closed never makes Serve return an error.
THEOREM CloseCorrect == Spec => CloseIsNoError
<1>1. IndInv /\ [Next]_vars => [~listening => serveErr' \in {serveErr, "nil"}]_vars
  <2> SUFFICES ASSUME IndInv, Next, ~listening PROVE serveErr' \in {serveErr, "nil"}
    OBVIOUS
  <2> USE DEF netVars, serveVars, shutdownVars, lockedVars
  <2>1. done
    BY DEF IndInv, TypeOK, PhaseInv, ShutdownLabels
  <2>2. CASE Environment \/ ShutdownCall
    BY <2>2 DEF Environment, Dial, Send, Stall, Hangup, AcceptError, Expire, ShutdownCall
  <2>3. CASE ServeStep
    BY <2>1, <2>3
    DEF ServeStep, Accept, AcceptClosed, ServeFail, GateLock, Admit, Spawn, RefuseUnlock, RefuseClose
  <2>4. ASSUME NEW c \in Conns, HandlerStep(c)
        PROVE  serveErr' \in {serveErr, "nil"}
    BY <2>4
    DEF HandlerStep, ScanLine, ScanEnd, Execute, WriteOk, WriteFail, Cleanup, CloseConn, WgDone
  <2>5. CASE ShutdownStep \/ Drain
    BY <2>5
    DEF ShutdownStep, ShutdownLock, CloseDone, CloseListener, SweepOne, SweepDone,
        ReturnDrained, ReturnExpired, Drain
  <2> QED
    BY <2>2, <2>3, <2>4, <2>5 DEF Next, Program
<1> QED
  BY <1>1, Invariance, PTL DEF Spec, CloseIsNoError

--------------------------------------------------------------------------------
(* The process. *)

\* main calls Shutdown once, exits when it has returned, and ends in log.Fatal
\* only before; Shutdown returns an error only when its context is done.
MainInv ==
    /\ main \in {"select", "stopping", "exited", "fatal"}
    /\ main \in {"select", "fatal"} => shutdown = "idle"
    /\ main = "exited" => shutdown = "returned"
    /\ main = "fatal" => serveErr = "err"
    /\ shutdown = "returned" => shutdownErr \in {"nil", "ctx"}
    /\ shutdownErr = "ctx" => expired

\* What a step of the server may do to Shutdown.
LEMMA ServerStepFacts ==
    ASSUME Environment \/ Program
    PROVE  /\ shutdown = "idle" => shutdown' = "idle"
           /\ expired => expired'
           /\ \/ shutdownErr' = shutdownErr /\ (shutdown' = "returned" => shutdown = "returned")
              \/ shutdownErr' = "nil"
              \/ shutdownErr' = "ctx" /\ expired
<1> USE DEF shutdownVars, ShutdownGoto
<1>1. CASE Environment
  BY <1>1 DEF Environment, Dial, Send, Stall, Hangup, AcceptError, Expire
<1>2. CASE ServeStep
  BY <1>2 DEF ServeStep, Accept, AcceptClosed, ServeFail, GateLock, Admit, Spawn, RefuseUnlock, RefuseClose
<1>3. ASSUME NEW c \in Conns, HandlerStep(c)
      PROVE  UNCHANGED <<shutdown, shutdownErr, expired>>
  BY <1>3 DEF HandlerStep, ScanLine, ScanEnd, Execute, WriteOk, WriteFail, Cleanup, CloseConn, WgDone
<1>4. CASE ShutdownStep
  BY <1>4 DEF ShutdownStep, ShutdownLock, CloseDone, CloseListener, SweepOne, SweepDone,
     ReturnDrained, ReturnExpired
<1>5. CASE Drain
  BY <1>5 DEF Drain
<1> QED
  BY <1>1, <1>2, <1>3, <1>4, <1>5 DEF Program

\* Every step of the process keeps both invariants.
LEMMA MainInductive ==
    ASSUME IndInv, MainInv, [MainNext]_allVars
    PROVE  IndInv' /\ MainInv'
<1>1. [Next]_vars
  BY DEF MainNext, MainStep, ServeReports, Interrupt, MainFatal, MainShutdown, MainExit, Next, allVars
<1>2. IndInv'
  BY <1>1, TypeStep, PhaseStep, GateStep, HandlerInvStep, CountStep, DrainStep DEF IndInv
<1>3. MainInv'
  <2>1. CASE UNCHANGED allVars
    BY <2>1 DEF allVars, vars, mainVars, MainInv
  <2>2. CASE ServeReports \/ Interrupt
    BY <2>2 DEF ServeReports, Interrupt, vars, MainInv
  <2>3. CASE MainFatal \/ MainExit
    BY <2>3 DEF MainFatal, MainExit, vars, MainInv
  <2>4. CASE MainShutdown
    BY <2>4 DEF MainShutdown, ShutdownCall, ShutdownGoto, MainInv
  <2>5. CASE Running /\ (Environment \/ Program) /\ UNCHANGED mainVars
    <3>1. main \in {"select", "stopping"} /\ main' = main
      BY <2>5 DEF Running, mainVars
    <3> QED
      BY <2>5, <3>1, ServerStepFacts DEF MainInv
  <2> QED
    BY <2>1, <2>2, <2>3, <2>4, <2>5 DEF MainNext, MainStep
<1> QED
  BY <1>2, <1>3

(***************************************************************************)
(* When the process of cmd/kvstore ends with a handler still in a command, *)
(* the drain had missed its deadline, or the accept loop had failed before *)
(* any shutdown.                                                           *)
(***************************************************************************)
THEOREM CutOffCorrect == MainSpec => []CutOffOnlyLate
<1>1. MainInit => IndInv /\ MainInv
  BY InitIndInv DEF MainInit, MainInv, Init
<1>2. IndInv /\ MainInv /\ [MainNext]_allVars => IndInv' /\ MainInv'
  BY MainInductive
<1>3. IndInv /\ MainInv => CutOffOnlyLate
  <2> SUFFICES ASSUME IndInv, MainInv, ~Running, Live # {}
               PROVE  \/ main = "exited" /\ shutdownErr = "ctx" /\ expired
                      \/ main = "fatal" /\ serveErr = "err" /\ ~done
    BY DEF CutOffOnlyLate
  <2>1. shutdownErr # "nil"
    BY LiveIsCounted DEF IndInv, DrainInv
  <2>2. CASE main = "exited"
    BY <2>1, <2>2 DEF MainInv
  <2>3. CASE main = "fatal"
    BY <2>3 DEF MainInv, IndInv, PhaseInv
  <2> QED
    BY <2>2, <2>3 DEF MainInv, Running
<1> QED
  BY <1>1, <1>2, <1>3, PTL DEF MainSpec

================================================================================
