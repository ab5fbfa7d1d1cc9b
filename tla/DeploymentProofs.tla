-------------------------- MODULE DeploymentProofs --------------------------
(***************************************************************************)
(* For all command lines and files: serve and schedule, started from them, *)
(* are the processes of module Service, so that what ServiceProofs proves  *)
(* holds of them; a target that names a backend or a provider that is not  *)
(* there never saves a report; and the store and the address are those     *)
(* flags and file say.                                                     *)
(***************************************************************************)
EXTENDS Deployment, ServiceProofs

\* What the process knows of its configuration is what the file says.
Loaded ==
  /\ line \in Lines /\ command = line.command /\ config = Kind(line.file)
  /\ cfg # None => /\ line.file # None /\ Loads(line.file)
                   /\ cfg = WithDefaults(line.file)
  /\ step = "loading" => line.file # None
  /\ step \in {"opening store", "scheduling"} /\ cfg = None
       => line.file = None /\ command = "serve"

\* What the cron loop has registered is what the file schedules.
Entered ==
  /\ cron # "off" => cfg # None /\ entries = Registered(cfg.targets)
  /\ cron = "off" => \A e \in DOMAIN entries : FALSE
  /\ DOMAIN entries # {} => config = "scheduled"

FileInv == Loaded /\ Entered

-----------------------------------------------------------------------------

(* A file is one of the kinds of configuration that Service knows.         *)
LEMMA KindIsConfig == ASSUME NEW file PROVE Kind(file) \in Configs
BY DEF Kind, Configs

(* The kind of a file that loads.                                          *)
LEMMA KindOfLoaded ==
  ASSUME NEW file, file # None, Loads(file)
  PROVE  /\ Kind(file) # "none"
         /\ AllParse(file.targets) =>
              Kind(file) = IF Scheduled(file.targets) = {} THEN "unscheduled" ELSE "scheduled"
BY DEF Kind

(* The target list goes through the defaults unchanged.                    *)
LEMMA TargetsKept == ASSUME NEW file PROVE WithDefaults(file).targets = file.targets
BY DEF WithDefaults

(* No file has been loaded at first.                                       *)
LEMMA FileInvInit == DeploymentInit => FileInv
<1> SUFFICES ASSUME DeploymentInit PROVE FileInv
  OBVIOUS
<1>1. Loaded
  BY DEF DeploymentInit, Loaded
<1>2. DOMAIN entries = {}
  BY DEF DeploymentInit, Registered, Scheduled
<1>3. Entered
  BY <1>2 DEF DeploymentInit, Init, Entered
<1>4. QED
  BY <1>1, <1>3 DEF FileInv

(* Each step of a deployment is a step of Service or changes none of its   *)
(* variables, and keeps FileInv.                                           *)
LEMMA StartUpSteps ==
  ASSUME FileInv, StartUp
  PROVE  [Next]_vars /\ FileInv'
<1> USE DEF FileInv, setup, vars, chosen
<1>1. CASE ParseFlags
  <2>1. Loaded'
    BY <1>1 DEF ParseFlags, Loaded
  <2>2. QED
    BY <1>1, <2>1 DEF ParseFlags, Entered
<1>2. CASE BadUsage
  BY <1>2 DEF BadUsage, UsageError, Exit, Next, Main, Loaded, Entered
<1>3. CASE LoadConfig
  <2>1. line.file # None /\ Loads(line.file) /\ line.file # Unreadable
    BY <1>3 DEF LoadConfig, Loaded, Loads
  <2>2. WithDefaults(line.file) # None
    BY <2>1, DeploymentAssumption DEF Loaded, DeploymentAssumption
  <2>3. Loaded'
    BY <1>3, <2>1, <2>2 DEF LoadConfig, Loaded
  <2>4. cron' = cron /\ entries' = entries /\ config' = config
    BY <1>3 DEF LoadConfig
  <2>5. cfg # None => cfg' = cfg
    BY <1>3 DEF LoadConfig, Loaded
  <2>6. Entered'
    BY <2>4, <2>5 DEF Entered
  <2>7. QED
    BY <1>3, <2>3, <2>6 DEF LoadConfig
<1>4. CASE LoadFails
  BY <1>4 DEF LoadFails, StartFails, Exit, Next, Main, Loaded, Entered
<1>5. CASE OpenStore
  <2>1. Loaded'
    BY <1>5 DEF OpenStore, Loaded
  <2>2. QED
    BY <1>5, <2>1 DEF OpenStore, Entered
<1>6. CASE OpenStoreFails
  BY <1>6 DEF OpenStoreFails, StartFails, Exit, Next, Main, Loaded, Entered
<1>7. CASE StartLoop
  <2>1. cfg.targets = line.file.targets /\ line.file # None /\ Loads(line.file)
    BY <1>7, TargetsKept DEF StartLoop, Loaded
  <2>2. config = IF Scheduled(cfg.targets) = {} THEN "unscheduled" ELSE "scheduled"
    BY <1>7, <2>1, KindOfLoaded DEF StartLoop, Loaded
  <2>3. StartScheduler
    BY <1>7, <2>2 DEF StartLoop, StartScheduler
  <2>4. Loaded'
    BY <1>7 DEF StartLoop, Loaded
  <2>5. DOMAIN entries' = Scheduled(cfg.targets)
    BY <1>7 DEF StartLoop, Registered
  <2>6. Entered'
    BY <1>7, <2>2, <2>5 DEF StartLoop, Entered
  <2>7. QED
    BY <2>3, <2>4, <2>6 DEF Next, Main
<1>8. CASE StartLoopFails
  BY <1>8 DEF StartLoopFails, StartFails, Exit, Next, Main, Loaded, Entered
<1>9. CASE GoWithout
  <2>1. config = "none" /\ command = "serve"
    BY <1>9 DEF GoWithout, Loaded, Kind
  <2>2. NoScheduler
    BY <1>9, <2>1 DEF GoWithout, NoScheduler
  <2>3. FileInv'
    BY <1>9 DEF GoWithout, Loaded, Entered
  <2>4. QED
    BY <2>2, <2>3 DEF Next, Main
<1>10. QED
  BY <1>1, <1>2, <1>3, <1>4, <1>5, <1>6, <1>7, <1>8, <1>9 DEF StartUp

(* No other step touches what the start-up has settled.                    *)
LEMMA FileInvKept ==
  ASSUME FileInv, UNCHANGED <<setup, line, step, cfg, entries>>,
         cron' = cron \/ (cron # "off" /\ cron' # "off")
  PROVE  FileInv'
BY DEF FileInv, Loaded, Entered, setup

(* What happens elsewhere is a step of Service.                            *)
LEMMA ElsewhereSteps ==
  ASSUME FileInv, Elsewhere \/ Around, UNCHANGED chosen
  PROVE  [Next]_vars /\ FileInv'
<1>1. Next
  BY DEF Elsewhere, Around, Next, Main
<1>2. UNCHANGED setup /\ (cron' = cron \/ (cron # "off" /\ cron' # "off"))
  <2>1. CASE StopCron
    BY <2>1 DEF StopCron
  <2>2. CASE Elsewhere /\ ~StopCron
    BY <2>2 DEF Elsewhere, NothingScheduled, Interrupted, SpawnShutdown, Bind, BindFails,
                AcceptFails, ServeReturns, Return, Exit
  <2>3. CASE Around
    BY <2>3 DEF Around, BeginShutdown, ShutdownDrained, ShutdownTimesOut, HangUp, Signal,
                Exited, vars, setup
  <2>4. QED
    BY <2>1, <2>2, <2>3
<1>3. FileInv'
  BY <1>2, FileInvKept DEF chosen, setup
<1>4. QED
  BY <1>1, <1>3

(* Firings, requests and runs are steps of Service.                        *)
LEMMA RunSteps ==
  ASSUME FileInv,
         \/ \E j \in Jobs : FireEntry(j)
         \/ \E q \in Requests : AcceptFirst(q)
         \/ \E r \in Runs : RunOn(r)
  PROVE  [Next]_vars /\ FileInv'
<1>1. ASSUME NEW j \in Jobs, FireEntry(j) PROVE Next /\ FileInv'
  <2>1. DOMAIN entries # {}
    BY <1>1 DEF FireEntry
  <2>2. Fire(j)
    BY <1>1, <2>1 DEF FireEntry, LoopRuns, Fire, CanFire, FileInv, Entered
  <2>3. FileInv'
    BY <1>1, FileInvKept DEF FireEntry, setup
  <2>4. QED
    BY <2>2, <2>3 DEF Next
<1>2. ASSUME NEW q \in Requests, AcceptFirst(q) PROVE Next /\ FileInv'
  <2>1. config # "none"
    BY <1>2, KindOfLoaded DEF AcceptFirst, FileInv, Loaded
  <2>2. Accept(q)
    BY <1>2, <2>1 DEF AcceptFirst, Accept
  <2>3. FileInv'
    BY <1>2, FileInvKept DEF AcceptFirst, setup
  <2>4. QED
    BY <2>2, <2>3 DEF Next
<1>3. ASSUME NEW r \in Runs, RunOn(r) PROVE Next /\ FileInv'
  <2>1. Run(r)
    BY <1>3 DEF RunOn, Run
  <2>2. UNCHANGED <<setup, cron>>
    BY <2>1 DEF Run, Advance, Abandon, Save, SaveFails
  <2>3. FileInv'
    BY <1>3, <2>2, FileInvKept DEF RunOn, chosen, setup
  <2>4. QED
    BY <2>1, <2>3 DEF Next
<1>4. QED
  BY <1>1, <1>2, <1>3

(* So is every step of the deployment.                                     *)
LEMMA DeploymentSteps ==
  FileInv /\ [DeploymentNext]_allVars => [Next]_vars /\ FileInv'
<1> SUFFICES ASSUME FileInv, [DeploymentNext]_allVars PROVE [Next]_vars /\ FileInv'
  OBVIOUS
<1>1. CASE DeploymentNext
  BY <1>1, StartUpSteps, ElsewhereSteps, RunSteps DEF DeploymentNext
<1>2. CASE UNCHANGED allVars
  BY <1>2, FileInvKept DEF allVars, vars, chosen
<1>3. QED
  BY <1>1, <1>2

-----------------------------------------------------------------------------
(* Theorems.                                                               *)

(* Started from any command line and file, serve and schedule behave as    *)
(* module Service says of a configuration of that kind.                    *)
THEOREM DeploymentImplements == DeploymentSpec => ImplementsService
<1>1. DeploymentInit => Init
  BY DEF DeploymentInit
<1>2. QED
  BY <1>1, FileInvInit, DeploymentSteps, PTL DEF DeploymentSpec, ImplementsService, Spec

(* FileInv holds throughout.                                               *)
THEOREM FileKnown == DeploymentSpec => []FileInv
BY FileInvInit, DeploymentSteps, PTL DEF DeploymentSpec

-----------------------------------------------------------------------------
(* What each run scans.                                                    *)

Built == {"scanning", "saving", "saved"}
Opened == {"building"} \cup Built

\* A run has a target, and has got as far as it can.
RunInv ==
  /\ target = [r \in Runs |-> target[r]]
  /\ \A r \in Runs :
       /\ phase[r] # "none" => cfg # None
       /\ phase[r] \in Opened => Opens(TargetOf(r).path)
       /\ phase[r] \in Built => Builds(TargetOf(r))

(* Before the process is up there are no runs, and none begins.            *)
LEMMA StartUpRuns ==
  ASSUME IInv, StartUp
  PROVE  target' = target /\ \A r \in Runs : phase'[r] = "none"
<1>1. main = "starting"
  BY DEF StartUp, ParseFlags, BadUsage, UsageError, LoadConfig, LoadFails, StartFails, OpenStore,
         OpenStoreFails, StartLoop, StartLoopFails, GoWithout
<1>2. \A r \in Runs : phase[r] = "none"
  BY <1>1 DEF IInv, NothingUpYet, JobsNeedCron, RequestsNeedServer, Runs
<1>3. target' = target
  BY DEF StartUp, ParseFlags, BadUsage, LoadConfig, LoadFails, OpenStore, OpenStoreFails, StartLoop,
         StartLoopFails, GoWithout, chosen
<1>4. phase' = phase \/ CutOff
  BY DEF StartUp, ParseFlags, BadUsage, UsageError, LoadConfig, LoadFails, StartFails, OpenStore,
         OpenStoreFails, StartLoop, StartLoopFails, GoWithout, Exit, vars
<1>5. QED
  BY <1>2, <1>3, <1>4 DEF CutOff, Active

(* Apart from the steps of the runs themselves, a run can only be cut off. *)
LEMMA ElsewhereRuns ==
  ASSUME Elsewhere \/ Around
  PROVE  \A r \in Runs : \/ phase'[r] = phase[r]
                         \/ phase[r] \in Active /\ phase'[r] = "killed"
<1>1. phase' = phase \/ CutOff
  BY DEF Elsewhere, Around, NothingScheduled, Interrupted, SpawnShutdown, Bind, BindFails,
         AcceptFails, ServeReturns, StopCron, Return, Exit, BeginShutdown, ShutdownDrained,
         ShutdownTimesOut, HangUp, Signal, Exited, vars
<1>2. QED
  BY <1>1 DEF CutOff

(* Every step keeps what the runs are about.                               *)
LEMMA RunInvKept ==
  ASSUME IInv, FileInv, RunInv, [DeploymentNext]_allVars
  PROVE  RunInv'
<1> USE DEF RunInv
<1>0. Jobs \subseteq Runs /\ Requests \subseteq Runs
  BY DEF Runs
<1>1. CASE StartUp
  <2>1. \A r \in Runs : phase'[r] = "none"
    BY <1>1, StartUpRuns
  <2>2. target' = [r \in Runs |-> target'[r]]
    BY <1>1, StartUpRuns
  <2>3. QED
    BY <1>0, <2>1, <2>2 DEF Opened, Built
<1>2. CASE (Elsewhere \/ Around) /\ UNCHANGED chosen
  <2>1. \A r \in Runs : \/ phase'[r] = phase[r]
                        \/ phase[r] # "none" /\ phase'[r] = "killed"
    BY <1>2, ElsewhereRuns DEF Active
  <2>2. QED
    BY <1>0, <1>2, <2>1 DEF chosen, TargetOf, Opened, Built
<1>3. ASSUME NEW j \in Jobs, FireEntry(j) PROVE RunInv'
  <2>1. PICK e \in DOMAIN entries : target' = [target EXCEPT ![j] = entries[e]]
    BY <1>3 DEF FireEntry
  <2>2. cfg # None /\ cfg' = cfg /\ entries = Registered(cfg.targets)
    BY <1>3 DEF FireEntry, LoopRuns, FileInv, Entered
  <2>4. phase'[j] = "opening" /\ \A s \in Runs : s # j => phase'[s] = phase[s]
    BY <1>0, <1>3, MoveFacts DEF FireEntry, IInv, Active
  <2>5. /\ target' = [r \in Runs |-> target'[r]]
        /\ target'[j] = entries[e]
        /\ \A s \in Runs : s # j => target'[s] = target[s]
    BY <1>0, <2>1
  <2>6. QED
    BY <1>0, <2>2, <2>4, <2>5 DEF TargetOf, Opened, Built
<1>4. ASSUME NEW q \in Requests, AcceptFirst(q) PROVE RunInv'
  <2>1. cfg # None /\ cfg' = cfg /\ target' = [target EXCEPT ![q] = 1]
    BY <1>4 DEF AcceptFirst
  <2>2. phase'[q] = "opening" /\ \A s \in Runs : s # q => phase'[s] = phase[s]
    BY <1>0, <1>4, MoveFacts DEF AcceptFirst, IInv, Active
  <2>3. /\ target' = [r \in Runs |-> target'[r]]
        /\ \A s \in Runs : s # q => target'[s] = target[s]
    BY <1>0, <2>1
  <2>4. q \notin Jobs
    BY ServiceAssumption DEF ServiceAssumption
  <2>5. QED
    BY <1>0, <2>1, <2>2, <2>3, <2>4 DEF TargetOf, Opened, Built
<1>5. ASSUME NEW r \in Runs, RunOn(r) PROVE RunInv'
  <2>1. cfg' = cfg /\ target' = target
    BY <1>5 DEF RunOn, chosen
  <2>2. PICK to : /\ phase[r] \in Active /\ Move(r, phase[r], to) /\ to \in Active \cup Over
                  /\ to = "building" => Opens(TargetOf(r).path)
                  /\ to = "scanning" => phase[r] = "building" /\ Builds(TargetOf(r))
                  /\ to = "saving" => phase[r] = "scanning"
                  /\ to = "saved" => phase[r] = "saving"
                  /\ to \in {"building", "scanning", "saving", "saved", "failed"}
    BY <1>5 DEF RunOn, Possible, Advance, Abandon, Save, SaveFails, Move, Active, Over
  <2>3. phase'[r] = to /\ \A s \in Runs : s # r => phase'[s] = phase[s]
    BY <2>2, MoveFacts DEF IInv
  <2>4. \A s \in Runs : TargetOf(s)' = TargetOf(s)
    BY <2>1 DEF TargetOf
  <2>5. /\ phase'[r] \in Opened => Opens(TargetOf(r).path)
        /\ phase'[r] \in Built => Builds(TargetOf(r))
        /\ phase[r] # "none"
    BY <2>2, <2>3 DEF Opened, Built, Active
  <2>6. QED
    BY <1>0, <2>1, <2>3, <2>4, <2>5
<1>6. CASE UNCHANGED allVars
  BY <1>6 DEF allVars, vars, chosen, TargetOf
<1>7. QED
  BY <1>1, <1>2, <1>3, <1>4, <1>5, <1>6 DEF DeploymentNext

(* There are no runs at first.                                             *)
LEMMA RunInvInit == DeploymentInit => RunInv
BY DEF DeploymentInit, Init, RunInv, Runs, Opened, Built

(* Throughout.                                                             *)
THEOREM RunsKnown == DeploymentSpec => [](IInv /\ FileInv /\ RunInv)
<1>1. DeploymentSpec => []IInv
  BY DeploymentImplements, Inductive, PTL DEF ImplementsService
<1>2. QED
  BY <1>1, FileKnown, RunInvInit, RunInvKept, PTL DEF DeploymentSpec

(* For every file: a target that names a backend or a provider that is not *)
(* there, or leaves out what they ask for, has no report saved.            *)
THEOREM NothingFromBroken == DeploymentSpec => []BrokenTargetsSaveNothing
<1>1. ASSUME FileInv, RunInv PROVE BrokenTargetsSaveNothing
  <2>1. ASSUME NEW parts, S3Right(parts) PROVE parts # <<parts[1], "">>
    <3>1. ASSUME NEW a PROVE Len(<<a, "">>) = 2 /\ <<a, "">>[2] = ""
      OBVIOUS
    <3>2. QED
      BY <2>1, <3>1 DEF S3Right
  <2>2. ASSUME NEW r \in Runs, phase[r] = "saved"
        PROVE  /\ TargetOf(r) = line.file.targets[target[r]]
               /\ Opens(TargetOf(r).path)
               /\ Builds(TargetOf(r))
    <3>1. cfg # None
      BY <1>1, <2>2 DEF RunInv
    <3>2. cfg = WithDefaults(line.file)
      BY <1>1, <3>1 DEF FileInv, Loaded
    <3>3. QED
      BY <1>1, <2>2, <3>2, TargetsKept DEF RunInv, TargetOf, Opened, Built
  <2>3. ASSUME NEW t, Opens(t.path), Builds(t)
        PROVE  /\ t.path.scheme \in {"", "s3"}
               /\ t.provider \in {"mock", "aws", "azure", "gcp"}
               /\ t.path.scheme = "s3" =>
                    Len(t.path.parts) > 1 /\ t.path.parts[1] # ""
                      /\ t.path.parts # <<t.path.parts[1], "">>
               /\ t.provider = "mock" => "fixture" \in t.options
               /\ t.provider = "azure" => "subscription" \in t.options
               /\ t.provider = "gcp" => "project" \in t.options
    BY <2>1, <2>3 DEF Opens, Builds, S3Right
  <2>4. QED
    BY <2>2, <2>3 DEF BrokenTargetsSaveNothing
<1>2. QED
  BY <1>1, RunsKnown, PTL

-----------------------------------------------------------------------------
(* Where the process listens and writes.                                   *)

FlagPlaces ==
  /\ dir = IF line.store = None THEN "./reports" ELSE line.store
  /\ addr = IF line.addr = None THEN ":8080" ELSE line.addr

FilePlaces ==
  /\ (line.addr # None) => (addr = line.addr)
  /\ (line.addr = None /\ line.file.addr # "") => (addr = line.file.addr)
  /\ (line.file.store_dir # "") => (dir = line.file.store_dir)

\* The flags first, then the file if there is one, then nothing.
PlacesInv ==
  /\ step = "loading" => line.file # None /\ FlagPlaces
  /\ step \in {"opening store", "scheduling", "up"} =>
       IF line.file = None THEN FlagPlaces ELSE FilePlaces

(* No place has been chosen at first.                                      *)
LEMMA PlacesInit == DeploymentInit => PlacesInv
BY DEF DeploymentInit, PlacesInv

(* Start-up takes the places from the flags and the file.                  *)
LEMMA PlacesStart ==
  ASSUME PlacesInv, StartUp
  PROVE  PlacesInv'
<1>1. CASE ParseFlags
  BY <1>1 DEF ParseFlags, PlacesInv, FlagPlaces
<1>2. CASE LoadConfig
  <2>1. line.file # None /\ FlagPlaces /\ line' = line /\ step' = "opening store"
    BY <1>2 DEF LoadConfig, PlacesInv
  <2>2. dir' = WithDefaults(line.file).store_dir /\ addr' = AddressOf(line.file)
    BY <1>2 DEF LoadConfig
  <2>3. FilePlaces'
    BY <2>1, <2>2 DEF FlagPlaces, FilePlaces, AddressOf, WithDefaults
  <2>4. QED
    BY <2>1, <2>3 DEF PlacesInv
<1>3. CASE OpenStore \/ StartLoop \/ GoWithout
  BY <1>3 DEF OpenStore, StartLoop, GoWithout, PlacesInv, FlagPlaces, FilePlaces
<1>4. CASE BadUsage \/ LoadFails \/ OpenStoreFails \/ StartLoopFails
  BY <1>4 DEF BadUsage, LoadFails, OpenStoreFails, StartLoopFails, chosen, PlacesInv,
              FlagPlaces, FilePlaces
<1>5. QED
  BY <1>1, <1>2, <1>3, <1>4 DEF StartUp

(* No step changes them later.                                             *)
LEMMA PlacesKept == PlacesInv /\ [DeploymentNext]_allVars => PlacesInv'
<1> SUFFICES ASSUME PlacesInv, [DeploymentNext]_allVars PROVE PlacesInv'
  OBVIOUS
<1>1. CASE StartUp
  BY <1>1, PlacesStart
<1>2. CASE UNCHANGED <<line, step, dir, addr>>
  BY <1>2 DEF PlacesInv, FlagPlaces, FilePlaces
<1>3. [DeploymentNext]_allVars => StartUp \/ UNCHANGED <<line, step, dir, addr>>
  BY DEF DeploymentNext, chosen, allVars, FireEntry, AcceptFirst, RunOn
<1>4. QED
  BY <1>1, <1>2, <1>3

(* For every command line and file: the store and the address of a process *)
(* that is up are those the flags and the file together say.               *)
THEOREM PlacesAsConfigured == DeploymentSpec => []ConfiguredPlaces
<1>1. PlacesInv => ConfiguredPlaces
  BY DEF PlacesInv, ConfiguredPlaces, FlagPlaces, FilePlaces
<1>2. QED
  BY <1>1, PlacesInit, PlacesKept, PTL DEF DeploymentSpec
=============================================================================
