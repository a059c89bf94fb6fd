-------------------------- MODULE ReplicaLifecycle --------------------------
(***************************************************************************)
(* One hub replica from start to exit (cmd/cellcast-hub/main.go,           *)
(* internal/hub/server.go, warmup.go): the process with its manager and    *)
(* its server, which stop each other, the goroutines of the server's Run,  *)
(* startup and trackWarmth, and the two flags they share with the          *)
(* handlers, ready (what /readyz answers) and warm (whether a placement    *)
(* may be decided).                                                        *)
(*                                                                         *)
(* Each goroutine moves from one shared read, write or wait to the next.   *)
(* Whether the capacity index covers the fleet is the environment's doing; *)
(* so are the cache sync, failures and the shutdown signal.                *)
(***************************************************************************)
EXTENDS Naturals

CONSTANTS
  DrainDelay  \* Config.DrainDelay; zero closes without a pause

ASSUME DrainDelayAssumption == DrainDelay \in Nat

VARIABLES
  wired,     \* which optional checks the server was built with
  process,   \* main's run: waits for the first to stop, then the second
  manager,   \* whether mgr.Start is still running
  cancelled, \* runCtx is done
  synced,    \* the registry cache has synced
  covered,   \* the capacity index covers the fleet right now
  startup,   \* where the startup goroutine is
  tracker,   \* where the trackWarmth goroutine is
  run,       \* where Run is
  ready,     \* Server.ready
  warm       \* Server.warm

vars == <<wired, process, manager, cancelled, synced, covered, startup,
          tracker, run, ready, warm>>

world == <<wired, process, manager, cancelled, synced, covered>>

TypeOK ==
  /\ wired \in [waitForSync : BOOLEAN, warmupCheck : BOOLEAN]
  /\ process \in {"first", "second", "exited"}
  /\ manager \in {"running", "stopped"}
  /\ cancelled \in BOOLEAN /\ synced \in BOOLEAN /\ covered \in BOOLEAN
  /\ startup \in {"sync", "await", "check", "mark", "done"}
  /\ tracker \in {"off", "polling", "closed", "gone"}
  /\ run \in {"serving", "draining", "closing", "returned"}
  /\ ready \in BOOLEAN /\ warm \in BOOLEAN

\* NewServer latches warm when there is no check to be cold by, and Run
\* starts the listeners and startup.
Init ==
  /\ wired \in [waitForSync : BOOLEAN, warmupCheck : BOOLEAN]
  /\ process = "first" /\ manager = "running"
  /\ cancelled = FALSE /\ synced = FALSE /\ covered = FALSE
  /\ startup = "sync"
  /\ tracker = "off"
  /\ run = "serving"
  /\ ready = FALSE
  /\ warm = ~wired.warmupCheck

-----------------------------------------------------------------------------
(***************************************************************************)
(* startup and awaitWarmth.                                                *)
(***************************************************************************)
\* waitForSync returned true, or there is none; awaitWarmth starts the
\* tracker.
Synced ==
  /\ startup = "sync"
  /\ wired.waitForSync => synced
  /\ startup' = "await"
  /\ tracker' = "polling"
  /\ UNCHANGED <<world, run, ready, warm>>

\* waitForSync returned false: the replica stays unready.
SyncAborted ==
  /\ startup = "sync" /\ wired.waitForSync /\ cancelled
  /\ startup' = "done"
  /\ UNCHANGED <<world, tracker, run, ready, warm>>

\* awaitWarmth returns: warm, shutting down, or (always in the end) past the
\* deadline, in which case the replica goes on while cold.
AwaitReturns ==
  /\ startup = "await"
  /\ startup' = "check"
  /\ UNCHANGED <<world, tracker, run, ready, warm>>

\* ctx.Err() is read ...
CheckContext ==
  /\ startup = "check"
  /\ startup' = IF cancelled THEN "done" ELSE "mark"
  /\ UNCHANGED <<world, tracker, run, ready, warm>>

\* ... and SetReady(true) follows it.
MarkReady ==
  /\ startup = "mark"
  /\ ready' = TRUE
  /\ startup' = "done"
  /\ UNCHANGED <<world, tracker, run, warm>>

-----------------------------------------------------------------------------
(***************************************************************************)
(* trackWarmth.                                                            *)
(***************************************************************************)
\* trackWarmth, giving up once startup has stopped waiting for it.
TrackUntilDeadline ==
  /\ tracker = "polling" /\ startup = "await"
  /\ ~wired.warmupCheck \/ covered
  /\ warm' = TRUE
  /\ tracker' = "closed"
  /\ UNCHANGED <<world, startup, run, ready>>

\* The check passed: markWarm latches and the channel is closed.  With no
\* check the channel is closed at once.
TrackSucceeds ==
  /\ tracker = "polling"
  /\ ~wired.warmupCheck \/ covered
  /\ warm' = TRUE
  /\ tracker' = "closed"
  /\ UNCHANGED <<world, startup, run, ready>>

\* The check failed and the context is done before the next poll.
TrackStops ==
  /\ tracker = "polling" /\ wired.warmupCheck /\ cancelled
  /\ tracker' = "gone"
  /\ UNCHANGED <<world, startup, run, ready, warm>>

-----------------------------------------------------------------------------
(***************************************************************************)
(* Run.                                                                    *)
(***************************************************************************)
\* The context is done: drain reports unready first.
Drain ==
  /\ run = "serving" /\ cancelled
  /\ ready' = FALSE
  /\ run' = IF DrainDelay > 0 THEN "draining" ELSE "closing"
  /\ UNCHANGED <<world, startup, tracker, warm>>

\* The drain delay is over.
DelayElapses ==
  /\ run = "draining"
  /\ run' = "closing"
  /\ UNCHANGED <<world, startup, tracker, ready, warm>>

\* A listener failed: unready, and no pause before the rest closes.
ListenerFails ==
  /\ run = "serving"
  /\ ready' = FALSE
  /\ run' = "closing"
  /\ UNCHANGED <<world, startup, tracker, warm>>

\* shutdown finished or timed out.
Shutdown ==
  /\ run = "closing"
  /\ run' = "returned"
  /\ UNCHANGED <<world, startup, tracker, ready, warm>>

-----------------------------------------------------------------------------
(***************************************************************************)
(* main's run.                                                             *)
(***************************************************************************)
rest == <<wired, synced, covered, startup, tracker, run, ready, warm>>

\* The first of the two has stopped, and the other is waited for.
FirstStopsAlone ==
  /\ process = "first"
  /\ manager = "stopped" \/ run = "returned"
  /\ process' = "second"
  /\ UNCHANGED <<manager, cancelled, rest>>

\* The first of the two has stopped: cancel stops the other.
FirstStops ==
  /\ process = "first"
  /\ manager = "stopped" \/ run = "returned"
  /\ process' = "second" /\ cancelled' = TRUE
  /\ UNCHANGED <<manager, rest>>

\* Both have stopped; telemetry is flushed, and the process ends.
SecondStops ==
  /\ process = "second"
  /\ manager = "stopped" /\ run = "returned"
  /\ process' = "exited"
  /\ UNCHANGED <<manager, cancelled, rest>>

\* mgr.Start returns once its context is done.
ManagerReturns ==
  /\ manager = "running" /\ cancelled
  /\ manager' = "stopped"
  /\ UNCHANGED <<process, cancelled, rest>>

\* mgr.Start fails: a lost lease, a cache that cannot sync.
ManagerFails ==
  /\ process # "exited" /\ manager = "running"
  /\ manager' = "stopped"
  /\ UNCHANGED <<process, cancelled, rest>>

\* Cells report and fall silent, the cache syncs while the manager runs it,
\* the signal arrives.
Environment ==
  /\ process # "exited"
  /\ \/ covered' = ~covered /\ UNCHANGED <<synced, cancelled>>
     \/ /\ ~synced /\ manager = "running" /\ synced' = TRUE
        /\ UNCHANGED <<covered, cancelled>>
     \/ ~cancelled /\ cancelled' = TRUE /\ UNCHANGED <<synced, covered>>
  /\ UNCHANGED <<wired, process, manager, startup, tracker, run, ready, warm>>

\* The process takes its goroutines with it.
Alive == process # "exited"

Startup ==
  Alive /\ (Synced \/ SyncAborted \/ AwaitReturns \/ CheckContext \/ MarkReady)
Tracker == Alive /\ (TrackSucceeds \/ TrackStops)
Main == Drain \/ DelayElapses \/ Shutdown
Process == FirstStops \/ SecondStops

Exited == process = "exited" /\ UNCHANGED vars

Next ==
  \/ Startup \/ Tracker \/ Main \/ ListenerFails
  \/ Process \/ ManagerReturns \/ ManagerFails
  \/ Environment \/ Exited

Spec == Init /\ [][Next]_vars

\* Goroutines run when they can, timers fire, and a cancelled manager stops.
\* Nothing is assumed of the environment.
Fairness ==
  /\ WF_vars(Startup) /\ WF_vars(Tracker) /\ WF_vars(Main)
  /\ WF_vars(Process) /\ WF_vars(ManagerReturns)

-----------------------------------------------------------------------------
(***************************************************************************)
(* Properties.                                                             *)
(***************************************************************************)
\* Starting up ends in service.  Once the registry is readable the replica
\* becomes ready or is stopped, whether or not the fleet ever reports: it
\* must not wait for heartbeats only a ready replica can receive.  And having
\* gone ready while cold it still notices the heartbeats that let in: a fleet
\* that stays covered makes it warm (awaitWarmth's deadline, trackWarmth).
WarmupEnds ==
  /\ synced ~> (ready \/ cancelled \/ run # "serving" \/ manager = "stopped")
  /\ (startup # "sync" /\ []covered) ~> (warm \/ cancelled)

\* The server and the manager share a fate: once either has stopped or
\* failed, or the signal has come, the process ends, however far startup and
\* the drain had got.  No replica serves on without its controllers (main's
\* run, Server.Run and drain).
ShutdownEnds ==
  (cancelled \/ manager = "stopped" \/ run = "returned") ~> (process = "exited")

\* What drain's comment and docs/high-availability.md say: a stopping replica
\* reports itself unready for the whole of the drain delay, which is what
\* takes it out of the Service before its listener closes.
DrainingIsUnready == run = "draining" => ~ready
=============================================================================
