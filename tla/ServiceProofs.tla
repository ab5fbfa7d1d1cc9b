---------------------------- MODULE ServiceProofs ---------------------------
(***************************************************************************)
(* What module Service guarantees for any number of firings and requests:  *)
(* no scheduled scan is cut off, and the exit code tells why the process   *)
(* ended.                                                                  *)
(***************************************************************************)
EXTENDS Service, TLAPS

\* Where the command's goroutine is tells what it has started so far.
NothingUpYet ==
  /\ main \in {"starting", "idle", "waiting", "listening"} => http = "new" /\ shutdown = "none"
  /\ main = "starting" => cron = "off"
  /\ main = "idle" => config = "unscheduled"
  /\ main = "binding" => http \in {"new", "closed"}

\* Only a running loop starts jobs, and only an open server takes requests.
JobsNeedCron == \A j \in Jobs : phase[j] # "none" => config = "scheduled" /\ cron # "off"
RequestsNeedServer ==
  http = "new" \/ main = "binding" => \A q \in Requests : phase[q] = "none"

\* The command returns after a failure to start or after a signal, and the
\* exit code it has already chosen says which.
OnTheWayOut == {"stopping", "draining", "exited"}
EndHasCause ==
  /\ http = "closed" => ctxDone
  /\ http = "broken" => code = 1
  /\ main \in OnTheWayOut /\ code = 0 => ctxDone
  /\ code = 1 => /\ main \in OnTheWayOut
                 /\ \/ http = "broken"
                    \/ http # "serving" /\ \A q \in Requests : phase[q] = "none"
  /\ code = 2 => /\ main = "exited" /\ cron = "off" /\ http = "new"
                 /\ \A j \in Jobs : phase[j] = "none"

IInv ==
  /\ TypeOK /\ JobsAreWaitedFor
  /\ NothingUpYet /\ JobsNeedCron /\ RequestsNeedServer /\ EndHasCause

-----------------------------------------------------------------------------

(* The invariant holds before start-up.                                    *)
LEMMA InitialStates == Init => IInv
<1> SUFFICES ASSUME Init PROVE IInv
  OBVIOUS
<1>1. \A r \in Runs : phase[r] = "none"
  BY DEF Init
<1>2. TypeOK
  BY DEF Init, TypeOK, Configs
<1>3. JobsAreWaitedFor /\ JobsNeedCron
  BY <1>1 DEF JobsAreWaitedFor, JobsNeedCron, Runs
<1>4. NothingUpYet /\ RequestsNeedServer /\ EndHasCause
  BY <1>1 DEF Init, NothingUpYet, RequestsNeedServer, EndHasCause, OnTheWayOut, Runs
<1>5. QED
  BY <1>2, <1>3, <1>4 DEF IInv

(* Next is the steps of the command, of the shutdown, of a run and of the  *)
(* world outside.                                                          *)
LEMMA StepCases ==
  ASSUME [Next]_vars
  PROVE  \/ Main
         \/ BeginShutdown \/ ShutdownDrained \/ ShutdownTimesOut
         \/ \E j \in Jobs : Fire(j)
         \/ \E q \in Requests : Accept(q)
         \/ \E q \in Requests : HangUp(q)
         \/ \E r \in Runs : Run(r)
         \/ Signal \/ UNCHANGED vars
BY DEF Next, Exited

(* Leaving cuts off no job when none is active.                            *)
LEMMA ExitKeeps ==
  ASSUME IInv, NEW c \in {0, 1, 2}, Exit(c), JobsDrained,
         c = 0 => ctxDone, http = "broken" => c = 1,
         c = 1 => \/ http = "broken"
                  \/ http # "serving" /\ \A q \in Requests : phase[q] = "none",
         c = 2 => cron = "off" /\ http = "new"
  PROVE  IInv'
<1> USE DEF Exit, CutOff, setup, IInv
<1>1. \A r \in Runs : phase'[r] = IF phase[r] \in Active THEN "killed" ELSE phase[r]
  OBVIOUS
<1>2. \A j \in Jobs : phase'[j] = phase[j]
  BY <1>1 DEF JobsDrained, Runs
<1>3. \A q \in Requests : phase[q] = "none" => phase'[q] = "none"
  BY <1>1 DEF Active, Runs
<1>4. TypeOK'
  <2>1. \A r \in Runs : phase'[r] \in {"none"} \cup Active \cup Over
    BY <1>1 DEF TypeOK, Over
  <2>2. phase' \in [Runs -> {"none"} \cup Active \cup Over]
    BY <2>1
  <2>3. QED
    BY <2>2 DEF TypeOK
<1>5. JobsAreWaitedFor'
  BY <1>2 DEF JobsAreWaitedFor
<1>6. NothingUpYet'
  BY DEF NothingUpYet
<1>7. JobsNeedCron'
  BY <1>2 DEF JobsNeedCron
<1>8. RequestsNeedServer'
  BY <1>3 DEF RequestsNeedServer
<1>9. EndHasCause'
  <2>1. cron = "off" => \A j \in Jobs : phase'[j] = "none"
    BY <1>2 DEF JobsNeedCron
  <2>2. QED
    BY <1>3, <2>1 DEF EndHasCause, OnTheWayOut
<1>10. QED
  BY <1>4, <1>5, <1>6, <1>7, <1>8, <1>9

(* The main goroutine keeps it.                                            *)
LEMMA MainKeeps == ASSUME IInv, Main PROVE IInv'
<1> USE DEF IInv, setup
<1>0. cron = "off" \/ config = "unscheduled" => JobsDrained
  BY DEF JobsNeedCron, JobsDrained, Active
<1>13. CASE UsageError
  BY <1>0, <1>13, ExitKeeps DEF UsageError, NothingUpYet
<1>1. CASE StartFails
  BY <1>0, <1>1, ExitKeeps DEF StartFails, NothingUpYet, RequestsNeedServer
<1>2. CASE StartScheduler
  BY <1>2 DEF StartScheduler, TypeOK, JobsAreWaitedFor, NothingUpYet, JobsNeedCron,
              RequestsNeedServer, EndHasCause, OnTheWayOut
<1>3. CASE NothingScheduled
  BY <1>0, <1>3, ExitKeeps DEF NothingScheduled, NothingUpYet, RequestsNeedServer
<1>4. CASE Interrupted
  BY <1>4 DEF Interrupted, TypeOK, JobsAreWaitedFor, NothingUpYet, JobsNeedCron,
              RequestsNeedServer, EndHasCause, OnTheWayOut
<1>5. CASE NoScheduler
  BY <1>5 DEF NoScheduler, TypeOK, JobsAreWaitedFor, NothingUpYet, JobsNeedCron,
              RequestsNeedServer, EndHasCause, OnTheWayOut
<1>6. CASE SpawnShutdown
  BY <1>6 DEF SpawnShutdown, TypeOK, JobsAreWaitedFor, NothingUpYet, JobsNeedCron,
              RequestsNeedServer, EndHasCause, OnTheWayOut
<1>7. CASE Bind
  BY <1>7 DEF Bind, TypeOK, JobsAreWaitedFor, NothingUpYet, JobsNeedCron,
              RequestsNeedServer, EndHasCause, OnTheWayOut
<1>8. CASE BindFails
  <2>1. (TypeOK /\ JobsAreWaitedFor /\ NothingUpYet)'
    BY <1>8 DEF BindFails, ServerErrorCode, TypeOK, JobsAreWaitedFor, NothingUpYet
  <2>2. (JobsNeedCron /\ RequestsNeedServer)'
    BY <1>8 DEF BindFails, JobsNeedCron, RequestsNeedServer
  <2>3. /\ main' = "stopping" /\ code' = 1 /\ http' = http /\ phase' = phase
        /\ http \in {"new", "closed"} /\ ctxDone' = ctxDone
        /\ \A q \in Requests : phase[q] = "none"
    BY <1>8 DEF BindFails, ServerErrorCode, NothingUpYet, RequestsNeedServer
  <2>4. EndHasCause'
    BY <2>3 DEF EndHasCause, OnTheWayOut
  <2>5. QED
    BY <2>1, <2>2, <2>4
<1>14. CASE AcceptFails
  <2>1. (TypeOK /\ JobsAreWaitedFor /\ NothingUpYet)'
    BY <1>14 DEF AcceptFails, ServerErrorCode, TypeOK, JobsAreWaitedFor, NothingUpYet
  <2>2. (JobsNeedCron /\ RequestsNeedServer)'
    BY <1>14 DEF AcceptFails, JobsNeedCron, RequestsNeedServer
  <2>3. EndHasCause'
    BY <1>14 DEF AcceptFails, ServerErrorCode, EndHasCause, OnTheWayOut
  <2>4. QED
    BY <2>1, <2>2, <2>3
<1>9. CASE ServeReturns
  BY <1>9 DEF ServeReturns, TypeOK, JobsAreWaitedFor, NothingUpYet, JobsNeedCron,
              RequestsNeedServer, EndHasCause, OnTheWayOut
<1>10. CASE StopCron
  BY <1>10 DEF StopCron, TypeOK, JobsAreWaitedFor, NothingUpYet, JobsNeedCron,
               RequestsNeedServer, EndHasCause, OnTheWayOut
<1>11. CASE Return
  BY <1>11, ExitKeeps DEF Return, TypeOK, EndHasCause, OnTheWayOut
<1>12. QED
  BY <1>1, <1>2, <1>3, <1>4, <1>5, <1>6, <1>7, <1>8, <1>9, <1>10, <1>11, <1>13, <1>14
  DEF Main

(* The shutdown goroutine keeps it.                                        *)
LEMMA ShutdownKeeps ==
  ASSUME IInv, BeginShutdown \/ ShutdownDrained \/ ShutdownTimesOut
  PROVE  IInv'
<1> USE DEF IInv, setup, TypeOK, JobsAreWaitedFor, NothingUpYet, JobsNeedCron,
            RequestsNeedServer, EndHasCause, OnTheWayOut
<1>1. CASE BeginShutdown
  <2>1. (TypeOK /\ JobsAreWaitedFor /\ JobsNeedCron)'
    BY <1>1 DEF BeginShutdown
  <2>2. (NothingUpYet /\ RequestsNeedServer)'
    BY <1>1 DEF BeginShutdown
  <2>3. EndHasCause'
    BY <1>1 DEF BeginShutdown, Alive
  <2>4. QED
    BY <2>1, <2>2, <2>3
<1>2. CASE ShutdownDrained
  BY <1>2 DEF ShutdownDrained
<1>3. CASE ShutdownTimesOut
  BY <1>3 DEF ShutdownTimesOut
<1>4. QED
  BY <1>1, <1>2, <1>3

(* Where a run may be, and that its step moves no other run.               *)
LEMMA MoveFacts ==
  ASSUME TypeOK, NEW r \in Runs, NEW from, NEW to, Move(r, from, to),
         to \in Active \cup Over
  PROVE  /\ phase' \in [Runs -> {"none"} \cup Active \cup Over]
         /\ phase'[r] = to /\ phase[r] = from /\ main # "exited"
         /\ \A s \in Runs : s # r => phase'[s] = phase[s]
BY DEF Move, TypeOK, Alive

(* The cron entries keep it.                                               *)
LEMMA FireKeeps == ASSUME IInv, NEW j \in Jobs, Fire(j) PROVE IInv'
<1> USE DEF IInv, setup
<1>1. j \in Runs /\ Jobs \subseteq Runs /\ Requests \subseteq Runs /\ j \notin Requests
  BY ServiceAssumption DEF Runs, ServiceAssumption
<1>2. /\ phase' \in [Runs -> {"none"} \cup Active \cup Over]
      /\ phase'[j] = "opening" /\ main # "exited"
      /\ \A s \in Runs : s # j => phase'[s] = phase[s]
  BY <1>1, MoveFacts DEF Fire, Active
<1>3. CanFire /\ UNCHANGED <<setup, main, code, ctxDone, cron, http, shutdown, gone>>
  BY DEF Fire
<1>4. TypeOK' /\ NothingUpYet'
  BY <1>2, <1>3 DEF TypeOK, NothingUpYet
<1>5. JobsAreWaitedFor' /\ JobsNeedCron'
  BY <1>1, <1>2, <1>3 DEF JobsAreWaitedFor, JobsNeedCron, CanFire
<1>6. RequestsNeedServer' /\ EndHasCause'
  BY <1>1, <1>2, <1>3 DEF RequestsNeedServer, EndHasCause
<1>7. QED
  BY <1>4, <1>5, <1>6

(* The HTTP server keeps it.                                               *)
LEMMA AcceptKeeps == ASSUME IInv, NEW q \in Requests, Accept(q) PROVE IInv'
<1> USE DEF IInv, setup
<1>1. q \in Runs /\ Jobs \subseteq Runs /\ Requests \subseteq Runs /\ q \notin Jobs
  BY ServiceAssumption DEF Runs, ServiceAssumption
<1>2. /\ phase' \in [Runs -> {"none"} \cup Active \cup Over]
      /\ \A s \in Runs : s # q => phase'[s] = phase[s]
  BY <1>1, MoveFacts DEF Accept, Active
<1>3. /\ http \in {"serving", "broken"}
      /\ UNCHANGED <<setup, main, code, ctxDone, cron, http, shutdown, gone>>
  BY DEF Accept, TakesRequests
<1>4. TypeOK' /\ NothingUpYet'
  BY <1>2, <1>3 DEF TypeOK, NothingUpYet
<1>5. JobsAreWaitedFor' /\ JobsNeedCron'
  BY <1>1, <1>2, <1>3 DEF JobsAreWaitedFor, JobsNeedCron
<1>6. RequestsNeedServer' /\ EndHasCause'
  BY <1>1, <1>2, <1>3 DEF RequestsNeedServer, EndHasCause, NothingUpYet
<1>7. QED
  BY <1>4, <1>5, <1>6

(* A step of a run takes an active run to an active or a finished phase,   *)
(* never to "killed".                                                      *)
LEMMA RunKeeps == ASSUME IInv, NEW r \in Runs, Run(r) PROVE IInv'
<1> USE DEF IInv, setup
<1>1. PICK from \in Active, to \in (Active \cup Over) \ {"killed"} : Move(r, from, to)
  BY DEF Run, Advance, Abandon, Save, SaveFails, Active, Over
<1>2. UNCHANGED <<setup, main, code, ctxDone, cron, http, shutdown, gone>>
  BY DEF Run, Advance, Abandon, Save, SaveFails
<1>3. /\ phase' \in [Runs -> {"none"} \cup Active \cup Over]
      /\ phase'[r] # "killed" /\ phase[r] # "none"
      /\ \A s \in Runs : s # r => phase'[s] = phase[s]
  BY <1>1, MoveFacts DEF Active
<1>4. Jobs \subseteq Runs /\ Requests \subseteq Runs
  BY DEF Runs
<1>5. TypeOK' /\ NothingUpYet'
  BY <1>2, <1>3 DEF TypeOK, NothingUpYet
<1>6. JobsAreWaitedFor' /\ JobsNeedCron'
  BY <1>2, <1>3, <1>4 DEF JobsAreWaitedFor, JobsNeedCron
<1>7. RequestsNeedServer' /\ EndHasCause'
  BY <1>2, <1>3, <1>4 DEF RequestsNeedServer, EndHasCause
<1>8. QED
  BY <1>5, <1>6, <1>7

(* Clients, signals and stutters keep it.                                  *)
LEMMA OutsideKeeps ==
  ASSUME IInv, Signal \/ (\E q \in Requests : HangUp(q)) \/ UNCHANGED vars
  PROVE  IInv'
<1> USE DEF IInv, setup, TypeOK, JobsAreWaitedFor, NothingUpYet, JobsNeedCron,
            RequestsNeedServer, EndHasCause
<1>1. CASE Signal
  <2>1. (TypeOK /\ JobsAreWaitedFor)'
    BY <1>1 DEF Signal
  <2>2. (NothingUpYet /\ JobsNeedCron /\ RequestsNeedServer)'
    BY <1>1 DEF Signal
  <2>3. EndHasCause'
    BY <1>1 DEF Signal
  <2>4. QED
    BY <2>1, <2>2, <2>3
<1>2. ASSUME NEW q \in Requests, HangUp(q) PROVE IInv'
  <2>1. (TypeOK /\ JobsAreWaitedFor)'
    BY <1>2 DEF HangUp
  <2>2. (NothingUpYet /\ JobsNeedCron /\ RequestsNeedServer)'
    BY <1>2 DEF HangUp
  <2>3. EndHasCause'
    BY <1>2 DEF HangUp
  <2>4. QED
    BY <2>1, <2>2, <2>3
<1>3. CASE UNCHANGED vars
  <2>1. (TypeOK /\ JobsAreWaitedFor)'
    BY <1>3 DEF vars
  <2>2. (NothingUpYet /\ JobsNeedCron /\ RequestsNeedServer)'
    BY <1>3 DEF vars
  <2>3. EndHasCause'
    BY <1>3 DEF vars
  <2>4. QED
    BY <2>1, <2>2, <2>3
<1>4. QED
  BY <1>1, <1>2, <1>3

-----------------------------------------------------------------------------
(* Theorems.                                                               *)

(* The inductive invariant holds in every reachable state.                 *)
THEOREM Inductive == Spec => []IInv
<1>1. IInv /\ [Next]_vars => IInv'
  BY StepCases, MainKeeps, ShutdownKeeps, FireKeeps, AcceptKeeps, RunKeeps, OutsideKeeps
<1>2. QED
  BY InitialStates, <1>1, PTL DEF Spec

(* Every variable keeps its type.                                          *)
THEOREM TypeCorrect == Spec => []TypeOK
BY Inductive, PTL DEF IInv

(* No way out of serve or schedule cuts a scheduled scan off.              *)
THEOREM JobsFinish == Spec => []JobsAreWaitedFor
BY Inductive, PTL DEF IInv

(* 0 is returned only after a signal and never when the server broke down, *)
(* 1 only when it did or nothing was served, 2 only when nothing was       *)
(* started.                                                                *)
THEOREM ExitCodeRight == Spec => []ExitCodeTellsWhy
<1>1. IInv => ExitCodeTellsWhy
  BY DEF IInv, EndHasCause, OnTheWayOut, ExitCodeTellsWhy
<1>2. QED
  BY <1>1, Inductive, PTL
=============================================================================
