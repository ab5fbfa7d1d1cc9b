------------------------------- MODULE Service ------------------------------
(***************************************************************************)
(* The two long-running commands, "serve" and "schedule", as one process:  *)
(* the command's goroutine, the cron scheduler and its jobs, the HTTP      *)
(* server and its requests, the goroutine that shuts the server down, and  *)
(* the runs (runner.Run) that jobs and POST /scan requests start.          *)
(*                                                                         *)
(* A run opens the state source, builds the provider, scans, saves.  What  *)
(* a scan does is in module Scan, what a save does in module Store: here   *)
(* they are the phases in which a run can be when the process is told to   *)
(* stop, and in which it can be cut off when the process exits.            *)
(***************************************************************************)
EXTENDS Integers, FiniteSets

CONSTANTS
  Jobs,     \* firings of scheduled targets; one target may fire while it runs
  Requests  \* POST /scan requests

ASSUME ServiceAssumption == Jobs \cap Requests = {}

Runs == Jobs \cup Requests

VARIABLES
  command,   \* "serve" or "schedule"
  config,    \* "none", or what its targets' schedules are
  main,      \* the command's goroutine
  code,      \* the exit code it will return
  ctxDone,   \* SIGINT or SIGTERM was received
  cron,      \* the cron loop: "off", "running" or "stopped"
  http,      \* the http.Server: "new", "serving", "broken" or "closed"
  shutdown,  \* the goroutine of ListenAndServe that waits for the context
  phase,     \* where each run is
  gone       \* requests whose client has gone: r.Context() is done

setup == <<command, config>>
vars == <<setup, main, code, ctxDone, cron, http, shutdown, phase, gone>>

\* "invalid": one that does not load or does not parse.
Configs == {"none", "unscheduled", "scheduled", "invalid"}
Active == {"opening", "building", "scanning", "saving"}
Over == {"saved", "failed", "killed"}

Init ==
  /\ command \in {"serve", "schedule"} /\ config \in Configs
  /\ main = "starting" /\ code = 0 /\ ctxDone = FALSE
  /\ cron = "off" /\ http = "new" /\ shutdown = "none"
  /\ phase = [r \in Runs |-> "none"]
  /\ gone = {}

Alive == main # "exited"

-----------------------------------------------------------------------------
(* The command's goroutine.                                                *)

\* os.Exit cuts off whatever still runs.
CutOff == phase' = [r \in Runs |-> IF phase[r] \in Active THEN "killed" ELSE phase[r]]

Exit(c) ==
  /\ main' = "exited" /\ code' = c
  /\ CutOff
  /\ UNCHANGED <<setup, ctxDone, cron, http, shutdown, gone>>

\* The command line does not parse, or schedule is given no configuration.
UsageError == main = "starting" /\ Exit(2)

\* The configuration does not load, the store's directory cannot be made, or
\* Scheduler.Start meets a cron expression that does not parse.
StartFails == main = "starting" /\ Exit(1)

StartScheduler ==
  /\ main = "starting" /\ config \in {"unscheduled", "scheduled"}
  /\ cron' = "running"
  /\ main' = IF command = "serve" THEN "listening"
             ELSE IF config = "scheduled" THEN "waiting" ELSE "idle"
  /\ UNCHANGED <<setup, code, ctxDone, http, shutdown, phase, gone>>

\* schedule: no target has a schedule.
NothingScheduled == main = "idle" /\ Exit(1)

\* schedule: <-ctx.Done().
Interrupted ==
  /\ main = "waiting" /\ ctxDone
  /\ main' = "stopping"
  /\ UNCHANGED <<setup, code, ctxDone, cron, http, shutdown, phase, gone>>

\* serve without a configuration: no scheduler.
NoScheduler ==
  /\ main = "starting" /\ command = "serve" /\ config = "none"
  /\ main' = "listening"
  /\ UNCHANGED <<setup, code, ctxDone, cron, http, shutdown, phase, gone>>

\* Server.ListenAndServe starts the goroutine that will shut the server down.
SpawnShutdown ==
  /\ main = "listening"
  /\ main' = "binding" /\ shutdown' = "waiting"
  /\ UNCHANGED <<setup, code, ctxDone, cron, http, phase, gone>>

Bind ==
  /\ main = "binding" /\ http = "new"
  /\ main' = "serving" /\ http' = "serving"
  /\ UNCHANGED <<setup, code, ctxDone, cron, shutdown, phase, gone>>

\* Mutated forms: the error is taken for a clean stop; os.Exit(-1).
ServerErrorIgnored == 0
ServerErrorNegative == -1

\* What serve returns of an error other than http.ErrServerClosed, after its
\* deferred Stop.
ServerErrorCode == 1

\* The address cannot be bound; Shutdown may have been called meanwhile.
BindFails ==
  /\ main = "binding"
  /\ main' = "stopping" /\ code' = ServerErrorCode
  /\ UNCHANGED <<setup, ctxDone, cron, http, shutdown, phase, gone>>

\* Accept fails for good: no new connection, while the requests that are being
\* handled go on.
AcceptFails ==
  /\ main = "serving" /\ http = "serving"
  /\ main' = "stopping" /\ code' = ServerErrorCode /\ http' = "broken"
  /\ UNCHANGED <<setup, ctxDone, cron, shutdown, phase, gone>>

\* http.ErrServerClosed, as soon as Shutdown has been called.
ServeReturns ==
  /\ main \in {"binding", "serving"} /\ http = "closed"
  /\ main' = "stopping"
  /\ UNCHANGED <<setup, code, ctxDone, cron, http, shutdown, phase, gone>>

\* Scheduler.Stop: cron.Stop ends the loop and gives a context that is done
\* when the running jobs are.
StopCron ==
  /\ main = "stopping"
  /\ cron' = IF cron = "running" THEN "stopped" ELSE cron
  /\ main' = "draining"
  /\ UNCHANGED <<setup, code, ctxDone, http, shutdown, phase, gone>>

\* Mutated forms: Stop does not wait for the context; waits for the wrong one.
JobsDrainedAtOnce == TRUE
JobsDrainedOnSignal == ctxDone

JobsDrained == \A j \in Jobs : phase[j] \notin Active

Return == main = "draining" /\ JobsDrained /\ Exit(code)

Main ==
  \/ UsageError \/ StartFails \/ StartScheduler \/ NothingScheduled \/ Interrupted \/ NoScheduler
  \/ SpawnShutdown \/ Bind \/ BindFails \/ AcceptFails \/ ServeReturns \/ StopCron \/ Return

-----------------------------------------------------------------------------
(* The goroutine that shuts the HTTP server down.                          *)

\* Shutdown closes the listeners and the idle connections; from now on Serve
\* returns, if it has not returned already.
BeginShutdown ==
  /\ Alive /\ shutdown = "waiting" /\ ctxDone
  /\ shutdown' = "draining" /\ http' = IF http = "broken" THEN http ELSE "closed"
  /\ UNCHANGED <<setup, main, code, ctxDone, cron, phase, gone>>

\* Shutdown returns: no request is active.
ShutdownDrained ==
  /\ Alive /\ shutdown = "draining" /\ \A r \in Requests : phase[r] \notin Active
  /\ shutdown' = "drained"
  /\ UNCHANGED <<setup, main, code, ctxDone, cron, http, phase, gone>>

\* Shutdown returns: shutdownTimeout has passed.
ShutdownTimesOut ==
  /\ Alive /\ shutdown = "draining"
  /\ shutdown' = "timed out"
  /\ UNCHANGED <<setup, main, code, ctxDone, cron, http, phase, gone>>

-----------------------------------------------------------------------------
(* Runs.                                                                   *)

CanFire == config = "scheduled" /\ cron = "running"

Move(r, from, to) ==
  /\ Alive /\ phase[r] = from
  /\ phase' = [phase EXCEPT ![r] = to]

\* The cron loop starts a job, whether or not the target's last one is over.
Fire(j) ==
  /\ CanFire
  /\ Move(j, "none", "opening")
  /\ UNCHANGED <<setup, main, code, ctxDone, cron, http, shutdown, gone>>

\* A server that accepts no more still serves the connections it has.
TakesRequests == http \in {"serving", "broken"} /\ shutdown = "waiting"

\* handleRunScan: a POST, and a configured target to run.
Accept(q) ==
  /\ TakesRequests /\ config # "none"
  /\ Move(q, "none", "opening")
  /\ UNCHANGED <<setup, main, code, ctxDone, cron, http, shutdown, gone>>

\* Mutated form: jobs do not get the context of the process.
ContextDoneDetached(r) == r \in gone

\* A job runs under the context of the process, a request under its own.
ContextDone(r) == IF r \in Jobs THEN ctxDone ELSE r \in gone

\* runner.Run: tfstate.Open, then provider.New, then scan.Scan succeed.
Advance(r) ==
  /\ \/ Move(r, "opening", "building")
     \/ Move(r, "building", "scanning")
     \/ Move(r, "scanning", "saving")
  /\ UNCHANGED <<setup, main, code, ctxDone, cron, http, shutdown, gone>>

\* One of them fails, and nothing is saved.
Abandon(r) ==
  /\ \/ Move(r, "opening", "failed")
     \/ Move(r, "building", "failed")
     \/ Move(r, "scanning", "failed")
  /\ UNCHANGED <<setup, main, code, ctxDone, cron, http, shutdown, gone>>

\* Store.Save: the job is logged, or the request answered with a redirect.
Save(r) ==
  /\ Move(r, "saving", "saved")
  /\ UNCHANGED <<setup, main, code, ctxDone, cron, http, shutdown, gone>>

SaveFails(r) ==
  /\ Move(r, "saving", "failed")
  /\ UNCHANGED <<setup, main, code, ctxDone, cron, http, shutdown, gone>>

Run(r) == Advance(r) \/ Abandon(r) \/ Save(r) \/ SaveFails(r)

-----------------------------------------------------------------------------

Signal ==
  /\ Alive /\ ~ctxDone /\ ctxDone' = TRUE
  /\ UNCHANGED <<setup, main, code, cron, http, shutdown, phase, gone>>

\* The client of a request disconnects.
HangUp(q) ==
  /\ Alive /\ phase[q] \in Active /\ q \notin gone
  /\ gone' = gone \cup {q}
  /\ UNCHANGED <<setup, main, code, ctxDone, cron, http, shutdown, phase>>

Exited == ~Alive /\ UNCHANGED vars

Next ==
  \/ Main
  \/ BeginShutdown \/ ShutdownDrained \/ ShutdownTimesOut
  \/ \E j \in Jobs : Fire(j)
  \/ \E q \in Requests : Accept(q) \/ HangUp(q)
  \/ \E r \in Runs : Run(r)
  \/ Signal \/ Exited

Spec == Init /\ [][Next]_vars

-----------------------------------------------------------------------------
(* Properties.                                                             *)

(* The types of all variables.                                             *)
TypeOK ==
  /\ command \in {"serve", "schedule"} /\ config \in Configs
  /\ main \in {"starting", "idle", "waiting", "listening", "binding", "serving",
               "stopping", "draining", "exited"}
  /\ code \in {0, 1, 2} /\ ctxDone \in BOOLEAN
  /\ cron \in {"off", "running", "stopped"}
  /\ http \in {"new", "serving", "broken", "closed"}
  /\ shutdown \in {"none", "waiting", "draining", "drained", "timed out"}
  /\ phase \in [Runs -> {"none"} \cup Active \cup Over]
  /\ gone \subseteq Requests

(* Scheduler.Stop waits "for running jobs to finish": on every way out of  *)
(* both commands, a failed bind included, no scheduled scan is cut off, in *)
(* particular not between the truncation and the write of its file.        *)
JobsAreWaitedFor == \A j \in Jobs : phase[j] # "killed"

(* The exit code tells a shutdown that was asked for from a failure: 0     *)
(* only after a signal, and never when the server broke down, whichever of *)
(* the two came first; 1 only when it broke down or nothing was ever       *)
(* served; 2 only when nothing was ever started.                           *)
ExitCodeTellsWhy ==
  main = "exited" =>
    /\ (code = 0) => (ctxDone /\ http # "broken")
    /\ (code = 1) => (http = "broken" \/ \A q \in Requests : phase[q] = "none")
    /\ (code = 2) => (cron = "off" /\ http = "new" /\ \A j \in Jobs : phase[j] = "none")

(* A process that is told to stop exits, though a lookup may hang for ever *)
(* when it is not told: neither Scheduler.Stop nor the server's shutdown   *)
(* can hold the command up.                                                *)
StopsOnSignal == ctxDone ~> (main = "exited")

(* A server that cannot bind, or breaks down later, ends the process too,  *)
(* without a signal, if scheduled scans come to an end by themselves: the  *)
(* Stop that serve has deferred waits for those that fired meanwhile, and  *)
(* for nothing else.                                                       *)
ServerFailureEnds ==
  (\A j \in Jobs : WF_vars(Run(j))) => ((code = 1) ~> (main = "exited"))

(* What the comment on shutdownTimeout says: it "bounds graceful shutdown  *)
(* when the context is canceled".  When that is what ended the server, no  *)
(* request is cut off before Shutdown has drained it or run out of time.   *)
ShutdownIsGraceful ==
  (http = "closed") => \A q \in Requests : (phase[q] = "killed") => (shutdown = "timed out")
=============================================================================
