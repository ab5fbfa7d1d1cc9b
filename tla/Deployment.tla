----------------------------- MODULE Deployment -----------------------------
(***************************************************************************)
(* serve and schedule from their command line on: what the flags and the   *)
(* configuration file say, what the process makes of it, and which target  *)
(* each of its runs scans.  From the moment it is up the process is that   *)
(* of module Service, which this module implements: Service takes the      *)
(* outcome of the start-up as given, here it is computed.                  *)
(*                                                                         *)
(* A state reference is [scheme, parts], parts what its text is cut into   *)
(* at "/".  What a provider asks for beside its name is in "options".      *)
(***************************************************************************)
EXTENDS Service, Sequences

CONSTANTS
  Lines,      \* command lines, each with the content of its configuration file
  Schedules,  \* the cron expressions that parse; "" is none
  None,       \* a flag not given, no configuration
  Unreadable  \* a file that cannot be read, or is no YAML

VARIABLES
  line,     \* the command line: [command, usage, addr, store, file]
  step,     \* where the start-up is
  cfg,      \* the loaded configuration
  dir,      \* the directory of the store
  addr,     \* the dashboard's address
  entries,  \* the target each cron entry runs; both are places in the file
  target    \* which target each run scans

chosen == <<line, step, cfg, dir, addr, entries, target>>
allVars == <<vars, chosen>>

-----------------------------------------------------------------------------
(* internal/config.                                                        *)

TargetRight(t) == t.name # "" /\ t.provider # "" /\ t.path # None

validate(targets) ==
  /\ targets # <<>>
  /\ \A i \in DOMAIN targets :
       /\ TargetRight(targets[i])
       /\ \A k \in 1..(i - 1) : targets[k].name # targets[i].name

WithDefaults(file) ==
  [store_dir |-> IF file.store_dir = "" THEN "./reports" ELSE file.store_dir,
   addr |-> IF file.addr = "" THEN ":8080" ELSE file.addr,
   targets |-> file.targets]

\* A configuration is not None.
ASSUME DeploymentAssumption ==
  \A l \in Lines : l.file \in {None, Unreadable} \/ WithDefaults(l.file) # None

\* Nobody checks the schedules, the providers' names or the schemes here.
Loads(file) == file # Unreadable /\ validate(file.targets)

-----------------------------------------------------------------------------
(* internal/schedule, internal/runner and what they call to begin a run.   *)

Scheduled(targets) == {i \in DOMAIN targets : targets[i].schedule # ""}

\* Start: one cron entry per scheduled target, each with its own copy of it.
Registered(targets) == [i \in Scheduled(targets) |-> i]

AllParse(targets) ==
  \A i \in DOMAIN targets : targets[i].schedule \in Schedules \cup {""}

\* newS3Source: a bucket, and a key after the first "/".
S3Right(parts) ==
  Len(parts) > 1 /\ parts[1] # "" /\ (Len(parts) = 2 => parts[2] # "")

\* Mutated form: an unknown scheme is taken for a local file.
OpensLocally(ref) == ref.scheme = "s3" => S3Right(ref.parts)

\* tfstate.Open: no scheme is a local file, "s3" the one registered backend.
Opens(ref) ==
  \/ ref.scheme = ""
  \/ ref.scheme = "s3" /\ S3Right(ref.parts)

\* provider.New with the four factories compiled in; what they demand at once.
Builds(t) ==
  \/ t.provider = "aws"
  \/ t.provider = "mock" /\ "fixture" \in t.options
  \/ t.provider = "azure" /\ "subscription" \in t.options
  \/ t.provider = "gcp" /\ "project" \in t.options

-----------------------------------------------------------------------------

\* What Service calls the configuration.
Kind(file) ==
  IF file = None THEN "none"
  ELSE IF ~Loads(file) \/ ~AllParse(file.targets) THEN "invalid"
  ELSE IF Scheduled(file.targets) = {} THEN "unscheduled" ELSE "scheduled"

DeploymentInit ==
  /\ Init
  /\ line \in Lines
  /\ command = line.command
  /\ config = Kind(line.file)
  /\ step = "flags"
  /\ cfg = None /\ dir = None /\ addr = None
  /\ entries = Registered(<<>>) /\ target = [r \in Runs |-> 0]

\* The flags parse; serve may go without a configuration.
ParseFlags ==
  /\ main = "starting" /\ step = "flags" /\ line.usage
  /\ (line.file = None) => (command = "serve")
  /\ step' = IF line.file = None THEN "opening store" ELSE "loading"
  /\ dir' = IF line.store = None THEN "./reports" ELSE line.store
  /\ addr' = IF line.addr = None THEN ":8080" ELSE line.addr
  /\ UNCHANGED <<vars, line, cfg, entries, target>>

BadUsage ==
  /\ step = "flags" /\ (line.usage => (line.file = None /\ command = "schedule"))
  /\ UsageError
  /\ UNCHANGED chosen

\* Mutated form: the flag's value is compared with its default instead.
AddressByValue(file) == IF addr = ":8080" THEN WithDefaults(file).addr ELSE addr

\* The address of the file counts unless the flag is set.
AddressOf(file) == IF line.addr = None THEN WithDefaults(file).addr ELSE addr

\* config.Load; the store's directory of the file counts, whatever the flag says.
LoadConfig ==
  /\ main = "starting" /\ step = "loading" /\ Loads(line.file)
  /\ step' = "opening store"
  /\ cfg' = WithDefaults(line.file)
  /\ dir' = WithDefaults(line.file).store_dir
  /\ addr' = AddressOf(line.file)
  /\ UNCHANGED <<vars, line, entries, target>>

LoadFails ==
  /\ step = "loading" /\ ~Loads(line.file)
  /\ StartFails
  /\ UNCHANGED chosen

\* store.New makes the directory.
OpenStore ==
  /\ main = "starting" /\ step = "opening store"
  /\ step' = "scheduling"
  /\ UNCHANGED <<vars, line, cfg, dir, addr, entries, target>>

OpenStoreFails ==
  /\ step = "opening store"
  /\ StartFails
  /\ UNCHANGED chosen

\* Mutated form: the loop is started before the targets are registered.
StartLoopEarly ==
  /\ main = "starting" /\ step = "scheduling" /\ cfg # None
  /\ cron' = "running" /\ step' = "up"
  /\ entries' = Registered(cfg.targets)
  /\ main' = IF ~AllParse(cfg.targets) THEN "idle"
             ELSE IF command = "serve" THEN "listening"
             ELSE IF Scheduled(cfg.targets) # {} THEN "waiting" ELSE "idle"
  /\ UNCHANGED <<setup, code, ctxDone, http, shutdown, phase, gone>>
  /\ UNCHANGED <<line, cfg, dir, addr, target>>

\* Scheduler.Start registers the targets, then starts the loop.  serve goes on
\* to listen, schedule waits if it has registered any.
StartLoop ==
  /\ main = "starting" /\ step = "scheduling" /\ cfg # None
  /\ AllParse(cfg.targets)
  /\ cron' = "running" /\ step' = "up"
  /\ entries' = Registered(cfg.targets)
  /\ main' = IF command = "serve" THEN "listening"
             ELSE IF Scheduled(cfg.targets) # {} THEN "waiting" ELSE "idle"
  /\ UNCHANGED <<setup, code, ctxDone, http, shutdown, phase, gone>>
  /\ UNCHANGED <<line, cfg, dir, addr, target>>

\* An expression does not parse: Start returns before it starts the loop.
StartLoopFails ==
  /\ step = "scheduling" /\ cfg # None /\ ~AllParse(cfg.targets)
  /\ StartFails
  /\ UNCHANGED chosen

GoWithout ==
  /\ main = "starting" /\ step = "scheduling" /\ cfg = None
  /\ main' = "listening" /\ step' = "up"
  /\ UNCHANGED <<setup, code, ctxDone, cron, http, shutdown, phase, gone>>
  /\ UNCHANGED <<line, cfg, dir, addr, entries, target>>

StartUp ==
  \/ ParseFlags \/ BadUsage \/ LoadConfig \/ LoadFails \/ OpenStore \/ OpenStoreFails
  \/ StartLoop \/ StartLoopFails \/ GoWithout

-----------------------------------------------------------------------------
(* The process is up.                                                      *)

LoopRuns == cron = "running"

\* An entry of the cron loop is due.
FireEntry(j) ==
  /\ LoopRuns
  /\ \E e \in DOMAIN entries : target' = [target EXCEPT ![j] = entries[e]]
  /\ Move(j, "none", "opening")
  /\ UNCHANGED <<setup, main, code, ctxDone, cron, http, shutdown, gone>>
  /\ UNCHANGED <<line, step, cfg, dir, addr, entries>>

\* POST /scan runs the first target of the file, scheduled or not.
AcceptFirst(q) ==
  /\ TakesRequests /\ cfg # None
  /\ target' = [target EXCEPT ![q] = 1]
  /\ Move(q, "none", "opening")
  /\ UNCHANGED <<setup, main, code, ctxDone, cron, http, shutdown, gone>>
  /\ UNCHANGED <<line, step, cfg, dir, addr, entries>>

TargetOf(r) == cfg.targets[target[r]]

\* Opening only looks at the reference.  A provider may also fail to be built
\* for want of credentials.
Possible(r) ==
  CASE phase[r] = "opening" -> Opens(TargetOf(r).path)
    [] phase[r] = "building" -> Builds(TargetOf(r))
    [] OTHER -> TRUE

\* runner.Run, for the target that was handed to it.
RunOn(r) ==
  /\ \/ phase[r] \in Active /\ Possible(r) /\ Advance(r)
     \/ (phase[r] = "opening" => ~Opens(TargetOf(r).path)) /\ Abandon(r)
     \/ Save(r)
     \/ SaveFails(r)
  /\ UNCHANGED chosen

Elsewhere ==
  \/ NothingScheduled \/ Interrupted \/ SpawnShutdown \/ Bind \/ BindFails \/ AcceptFails
  \/ ServeReturns \/ StopCron \/ Return
Around ==
  \/ BeginShutdown \/ ShutdownDrained \/ ShutdownTimesOut
  \/ \E q \in Requests : HangUp(q)
  \/ Signal \/ Exited

DeploymentNext ==
  \/ StartUp
  \/ (Elsewhere \/ Around) /\ UNCHANGED chosen
  \/ \E j \in Jobs : FireEntry(j)
  \/ \E q \in Requests : AcceptFirst(q)
  \/ \E r \in Runs : RunOn(r)

DeploymentSpec == DeploymentInit /\ [][DeploymentNext]_allVars

(* Fairness.  Goroutines that can run are run.  A run whose context is     *)
(* done goes on to its end: Scan returns (CancelStops of module Scan), and *)
(* opening, building and saving do not wait for anything else.  Nothing is *)
(* assumed of a run whose context is live: a lookup may hang.              *)
FairDeployment ==
  /\ DeploymentSpec
  /\ WF_allVars(StartUp \/ (Elsewhere /\ UNCHANGED chosen))
  /\ WF_allVars(BeginShutdown /\ UNCHANGED chosen)
  /\ \A r \in Runs : WF_allVars(ContextDone(r) /\ RunOn(r))

-----------------------------------------------------------------------------
(* Properties.                                                             *)

(* What serve and schedule do of a file, started from a command line, is   *)
(* what module Service says of a configuration of that kind: a file is     *)
(* refused whole before any of its targets can fire, one with a cron       *)
(* expression that does not parse after others that do included.           *)
ImplementsService == Spec

(* Whatever sets them, a process that is up listens and writes where the   *)
(* command line and the file together say: an --addr that is given wins,   *)
(* its default value included, but a --store that is given does not.       *)
ConfiguredPlaces ==
  (step = "up") =>
    IF line.file = None
    THEN /\ dir = IF line.store = None THEN "./reports" ELSE line.store
         /\ addr = IF line.addr = None THEN ":8080" ELSE line.addr
    ELSE /\ (line.addr # None) => (addr = line.addr)
         /\ (line.addr = None /\ line.file.addr # "") => (addr = line.file.addr)
         /\ (line.file.store_dir # "") => (dir = line.file.store_dir)

(* A target the configuration lets pass though nothing can come of it, for *)
(* it names a backend or a provider that is not compiled in or leaves out  *)
(* what they ask for, never gets a report saved, whoever starts it.        *)
BrokenTargetsSaveNothing ==
  \A r \in Runs : (phase[r] = "saved") =>
    LET t == line.file.targets[target[r]] IN
    /\ t.path.scheme \in {"", "s3"} /\ t.provider \in {"mock", "aws", "azure", "gcp"}
    /\ (t.path.scheme = "s3") => (Len(t.path.parts) > 1 /\ t.path.parts[1] # ""
                                 /\ t.path.parts # <<t.path.parts[1], "">>)
    /\ (t.provider = "mock") => ("fixture" \in t.options)
    /\ (t.provider = "azure") => ("subscription" \in t.options)
    /\ (t.provider = "gcp") => ("project" \in t.options)
=============================================================================
