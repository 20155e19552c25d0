--------------------------------- MODULE Kvstore ---------------------------------
(***************************************************************************)
(* cmd/kvstore/main.go: the process around the server.  main waits for     *)
(* Serve to return or for an interrupt, runs Shutdown with a deadline of   *)
(* five seconds, and exits; an error of Serve ends the process on the      *)
(* spot.  When the process exits, every goroutine stops where it is.       *)
(***************************************************************************)
EXTENDS Server

VARIABLES
    main,         \* "select", "stopping", "exited" or "fatal"
    errc,         \* Serve has sent its result to the channel
    interrupted   \* the signal context is done

mainVars == <<main, errc, interrupted>>
allVars  == <<vars, mainVars>>

MainTypeOK ==
    /\ TypeOK
    /\ main \in {"select", "stopping", "exited", "fatal"}
    /\ errc \in BOOLEAN
    /\ interrupted \in BOOLEAN

\* Listen has succeeded and the goroutine that runs Serve has started.
MainInit == Init /\ main = "select" /\ errc = FALSE /\ interrupted = FALSE

Running == main \in {"select", "stopping"}

\* errc <- srv.Serve(): the channel has room, so the goroutine never blocks.
ServeReports ==
    /\ Running /\ serve = "returned" /\ ~errc
    /\ errc' = TRUE
    /\ UNCHANGED <<vars, main, interrupted>>

Interrupt ==
    /\ Running /\ ~interrupted
    /\ interrupted' = TRUE
    /\ UNCHANGED <<vars, main, errc>>

\* The select takes an error: log.Fatal ends the process.
MainFatal ==
    /\ main = "select" /\ errc /\ serveErr = "err"
    /\ main' = "fatal"
    /\ UNCHANGED <<vars, errc, interrupted>>

\* Mutant of MainShutdown: an interrupt skips Shutdown.
MainExitsAtOnce ==
    /\ main = "select" /\ interrupted
    /\ main' = "exited"
    /\ UNCHANGED <<vars, errc, interrupted>>

\* The select takes the interrupt, or a nil from Serve: call Shutdown.
MainShutdown ==
    /\ main = "select" /\ (interrupted \/ (errc /\ serveErr = "nil"))
    /\ main' = "stopping"
    /\ ShutdownCall
    /\ UNCHANGED <<errc, interrupted>>

\* Mutant of MainExit: main waits for a clean drain, whatever the deadline says.
MainExitClean ==
    /\ main = "stopping" /\ shutdownErr = "nil"
    /\ main' = "exited"
    /\ UNCHANGED <<vars, errc, interrupted>>

\* Shutdown has returned; its error is only logged.
MainExit ==
    /\ main = "stopping" /\ shutdown = "returned"
    /\ main' = "exited"
    /\ UNCHANGED <<vars, errc, interrupted>>

MainStep == ServeReports \/ MainFatal \/ MainShutdown \/ MainExit

MainNext ==
    \/ MainStep
    \/ Interrupt
    \/ Running /\ (Environment \/ Program) /\ UNCHANGED mainVars

MainSpec == MainInit /\ [][MainNext]_allVars

\* As in Server, and the five second timer of Shutdown's context fires.
MainFairness ==
    /\ WF_allVars(MainStep)
    /\ WF_allVars(Running /\ ServeStep /\ UNCHANGED mainVars)
    /\ \A c \in Conns : WF_allVars(Running /\ HandlerStep(c) /\ UNCHANGED mainVars)
    /\ WF_allVars(Running /\ ShutdownStep /\ UNCHANGED mainVars)
    /\ WF_allVars(Running /\ Drain /\ UNCHANGED mainVars)
    /\ WF_allVars(Running /\ Expire /\ UNCHANGED mainVars)

MainFairSpec == MainSpec /\ MainFairness

--------------------------------------------------------------------------------

(***************************************************************************)
(* The process exits after an interrupt, whatever its clients do and       *)
(* whether or not the drain meets the deadline.                            *)
(***************************************************************************)
InterruptExits == interrupted ~> main \in {"exited", "fatal"}

(***************************************************************************)
(* A handler is cut off in the middle of a command or a reply only when    *)
(* the drain missed its deadline, or the accept loop failed before any     *)
(* shutdown began; an orderly exit leaves no admitted connection open.     *)
(***************************************************************************)
CutOffOnlyLate ==
    ~Running /\ Live # {} =>
        \/ main = "exited" /\ shutdownErr = "ctx" /\ expired
        \/ main = "fatal" /\ serveErr = "err" /\ ~done

================================================================================
