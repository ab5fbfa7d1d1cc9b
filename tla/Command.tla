------------------------------ MODULE Command -------------------------------
(***************************************************************************)
(* The command line: one invocation after another of cli.Run, with all     *)
(* that runScan does to the store and to the output file until the process *)
(* exits.  Files are read, truncated and written at different steps, each  *)
(* of which may fail; the state file and the fixture are edited, and the   *)
(* process killed, in between.  The scan is that of the mock provider      *)
(* (module Mock).                                                          *)
(*                                                                         *)
(* A state reference is [scheme], "" for a path.  Invocations do not       *)
(* overlap here and have scan ids of their own; module Store is about the  *)
(* others.  A write the system has accepted is in the file: what Close     *)
(* might report, which nobody looks at, is left out.                       *)
(***************************************************************************)
EXTENDS Mock

CONSTANTS
  Invocations,  \* command lines: records of command, wellFormed and flags
  StateFiles,   \* contents of the state file; None if it does not parse
  Fixtures,     \* contents of the fixture; None if it does not parse
  Backends,     \* the schemes init functions have registered
  MaxRuns,      \* bound: invocations
  MaxEdits,     \* bound: edits of the state file and the fixture
  None          \* no value

Texts == {"nothing", "part", "whole"}  \* how much of a report a file holds
Outputs == [of : 1..MaxRuns, text : Texts]

ASSUME CommandAssumption ==
  /\ MaxRuns \in Nat /\ MaxEdits \in Nat
  /\ "" \notin Backends
  /\ None \notin Nat /\ None \notin Outputs

\* The files are finite and their values JSON; tags are strings, as in every
\* Terraform schema; all names and keys have a place in the orders.
ASSUME FilesAssumption ==
  /\ \A file \in StateFiles \ {None} :
       /\ file \in Seq(Range(file))
       /\ \A block \in Range(file) :
            /\ block.instances \in Seq(Range(block.instances))
            /\ \A attrs \in Range(block.instances) :
                 /\ <<block.type, AttrString(attrs, "id")>> \in Keys
                 /\ \A k \in DOMAIN attrs : attrs[k].kind = "null" => attrs[k] = Null
                 /\ "tags" \in DOMAIN attrs /\ attrs["tags"].kind = "object" =>
                      \A k \in DOMAIN attrs["tags"].entries :
                        k \in Fields /\ attrs["tags"].entries[k].kind = "string"
  /\ \A fixture \in Fixtures \ {None} :
       /\ fixture.resources \in Seq(Range(fixture.resources))
       /\ \A r \in Range(fixture.resources) :
            DOMAIN r.attributes \subseteq Fields /\ DOMAIN r.tags \subseteq Fields

Killed == 137                          \* the status of a killed process

VARIABLES
  stage,    \* what the process does next
  args,     \* the command line of this invocation
  run,      \* invocations so far; the last one's scan id
  provider, \* the provider built from the fixture
  rep,      \* the report of the scan
  stored,   \* the invocations whose report is whole in the store
  out,      \* the output file: whose report, and how much of it
  stdout,   \* how much of the report this invocation has printed
  code,     \* the exit code
  world,    \* what the state file and the fixture hold now
  edits,    \* edits of them so far
  read,     \* what this invocation has read of them
  before    \* the output file as this invocation found it

process == <<stage, args, run, code>>
inputs  == <<world, edits>>
files   == <<stored, out, stdout>>
history == <<read, before>>
vars    == <<process, provider, rep, files, inputs, history>>

Init ==
  /\ stage = "exited" /\ args = None /\ run = 0 /\ code = None
  /\ provider = None /\ rep = None
  /\ stored = {} /\ out = None /\ stdout = "nothing"
  /\ world \in [state : StateFiles, fixture : Fixtures] /\ edits = 0
  /\ read = [state |-> None, fixture |-> None] /\ before = None

-----------------------------------------------------------------------------

\* main and cli.Run.
Invoke(a) ==
  /\ stage = "exited" /\ run < MaxRuns
  /\ stage' = "started" /\ args' = a /\ run' = run + 1 /\ code' = None
  /\ provider' = None /\ rep' = None /\ stdout' = "nothing"
  /\ read' = [state |-> None, fixture |-> None] /\ before' = out
  /\ UNCHANGED <<stored, out, inputs>>

At(s) == stage = s /\ UNCHANGED <<args, run, inputs, before>>
GoTo(s) == stage' = s /\ UNCHANGED code
Exit(c) == stage' = "exited" /\ code' = c

\* The other commands: providers and help print, anything else is refused.
Dispatch ==
  /\ At("started") /\ args.command # "scan"
  /\ Exit(IF args.command \in {"providers", "help"} THEN 0 ELSE 2)
  /\ UNCHANGED <<provider, rep, files, read>>

UsageRight == args.wellFormed /\ args.state # None /\ args.provider # None

ParseFlags ==
  /\ At("started") /\ args.command = "scan"
  /\ IF UsageRight THEN GoTo("opening") ELSE Exit(2)
  /\ UNCHANGED <<provider, rep, files, read>>

Local == args.state.scheme = ""

\* tfstate.Open: a path is taken as it is, the backend of a scheme may object.
OpenSource ==
  /\ At("opening")
  /\ \/ (Local \/ args.state.scheme \in Backends) /\ GoTo("constructing")
     \/ ~Local /\ Exit(1)
  /\ UNCHANGED <<provider, rep, files, read>>

\* provider.New: the fixture is read here, the state file only by the scan.
NewProvider ==
  /\ At("constructing") /\ args.provider = "mock"
  /\ args.fixture /\ world.fixture # None
  /\ provider' = FromBytes(world.fixture)
  /\ read' = [read EXCEPT !.fixture = world.fixture]
  /\ GoTo("scanning")
  /\ UNCHANGED <<rep, files>>

NewProviderFails ==
  /\ At("constructing")
  /\ args.provider # "mock" \/ ~args.fixture \/ world.fixture = None
  /\ Exit(1)
  /\ UNCHANGED <<provider, rep, files, read>>

NextAfterScan == IF args.store THEN "saving" ELSE "opening output"

Scan ==
  /\ At("scanning") /\ world.state # None
  /\ read' = [read EXCEPT !.state = world.state]
  /\ rep' = ScanReport(provider, Parse(world.state))
  /\ GoTo(NextAfterScan)
  /\ UNCHANGED <<provider, files>>

\* Mutated form: err is not looked at, and the zero report goes on.
ScanFailsIgnored ==
  /\ At("scanning") /\ (world.state = None \/ ~Local)
  /\ rep' = Finalize(<<>>, 0)
  /\ GoTo(NextAfterScan)
  /\ UNCHANGED <<provider, files, read>>

\* A remote state may also be out of reach, or the context cancelled.
ScanFails ==
  /\ At("scanning") /\ (world.state = None \/ ~Local)
  /\ Exit(1)
  /\ UNCHANGED <<provider, rep, files, read>>

\* store.New and Save.  A failed save may leave a file that is not whole.
Persist ==
  /\ At("saving")
  /\ stored' = stored \cup {run}
  /\ GoTo("opening output")
  /\ UNCHANGED <<provider, rep, out, stdout, read>>

\* Mutated form: the error is printed, and the report rendered all the same.
PersistFailsIgnored ==
  /\ At("saving")
  /\ GoTo("opening output")
  /\ UNCHANGED <<provider, rep, files, read>>

PersistFails ==
  /\ At("saving")
  /\ Exit(1)
  /\ UNCHANGED <<provider, rep, files, read>>

\* os.Create truncates what an earlier invocation has written.
CreateOutput ==
  /\ At("opening output") /\ args.out
  /\ out' = [of |-> run, text |-> "nothing"]
  /\ GoTo("rendering")
  /\ UNCHANGED <<provider, rep, stored, stdout, read>>

CreateFails ==
  /\ At("opening output") /\ args.out
  /\ Exit(1)
  /\ UNCHANGED <<provider, rep, files, read>>

UseStdout ==
  /\ At("opening output") /\ ~args.out
  /\ GoTo("rendering")
  /\ UNCHANGED <<provider, rep, files, read>>

\* The switch on the format has its default last: all else is done by then.
UnknownFormat ==
  /\ At("rendering") /\ args.format \notin {"json", "text"}
  /\ Exit(2)
  /\ UNCHANGED <<provider, rep, files, read>>

Written(text) ==
  IF args.out THEN out' = [out EXCEPT !.text = text] /\ UNCHANGED stdout
              ELSE stdout' = text /\ UNCHANGED out

\* Mutated form: the number of findings is the code.
ExitCodeAsCount == IF args.exitOnDrift THEN rep.summary.Total ELSE 0

ExitCode == IF args.exitOnDrift /\ HasDrift(rep) THEN 3 ELSE 0

Rendered ==
  /\ At("rendering") /\ args.format \in {"json", "text"}
  /\ Written("whole")
  /\ Exit(ExitCode)
  /\ UNCHANGED <<provider, rep, stored, read>>

\* The error of the encoder, or of flushing the table, is returned.
ReportsWriteError == args.format = "json" \/ (args.format = "text" /\ HasDrift(rep))

\* Mutated form: err is not looked at after the switch.
RenderFailsIgnored ==
  /\ At("rendering") /\ ReportsWriteError
  /\ \E text \in {"nothing", "part"} : Written(text)
  /\ Exit(ExitCode)
  /\ UNCHANGED <<provider, rep, stored, read>>

RenderFails ==
  /\ At("rendering") /\ ReportsWriteError
  /\ \E text \in {"nothing", "part"} : Written(text)
  /\ Exit(1)
  /\ UNCHANGED <<provider, rep, stored, read>>

\* report.Text does not look at what its Fprintf calls return.  They print all of
\* a report without findings, but only the head of one with findings: its table
\* has been flushed without an error then.
HeadIsLost ==
  /\ At("rendering") /\ args.format = "text"
  /\ IF HasDrift(rep) THEN Written("part") ELSE \E text \in {"nothing", "part"} : Written(text)
  /\ Exit(ExitCode)
  /\ UNCHANGED <<provider, rep, stored, read>>

RunScan ==
  \/ ParseFlags \/ OpenSource \/ NewProvider \/ NewProviderFails
  \/ Scan \/ ScanFails \/ Persist \/ PersistFails
  \/ CreateOutput \/ CreateFails \/ UseStdout
  \/ UnknownFormat \/ Rendered \/ RenderFails \/ HeadIsLost

\* SIGKILL, or the end of the machine: files stay as they are.
Kill ==
  /\ stage # "exited"
  /\ Exit(Killed)
  /\ UNCHANGED <<args, run, provider, rep, files, inputs, history>>

\* terraform apply, or somebody editing the fixture.
Edit(w) ==
  /\ edits < MaxEdits /\ w # world
  /\ world' = w /\ edits' = edits + 1
  /\ UNCHANGED <<process, provider, rep, files, history>>

Idle == stage = "exited" /\ run = MaxRuns /\ UNCHANGED vars

Next ==
  \/ \E a \in Invocations : Invoke(a)
  \/ Dispatch \/ RunScan \/ Kill
  \/ \E w \in [state : StateFiles, fixture : Fixtures] : Edit(w)
  \/ Idle

Spec == Init /\ [][Next]_vars

-----------------------------------------------------------------------------
(* Reference definitions.                                                  *)

\* What the cloud would show for an attribute the state file records.
CloudText(attrs, k) ==
  IF k \notin DOMAIN attrs THEN ""
  ELSE CASE attrs[k].kind = "null"   -> ""
         [] attrs[k].kind = "string" -> attrs[k].text
         [] attrs[k].kind = "bool"   -> IF attrs[k].truth THEN "true" ELSE "false"
         [] attrs[k].kind = "number" -> IF attrs[k].whole THEN attrs[k].decimal
                                        ELSE attrs[k].general
         [] OTHER                    -> attrs[k].printed

TagEntries(attrs) ==
  IF "tags" \in DOMAIN attrs /\ attrs["tags"].kind = "object"
  THEN {<<k, attrs["tags"].entries[k].text>> : k \in DOMAIN attrs["tags"].entries}
  ELSE {}

InSync(attrs, live) ==
  /\ \A k \in DOMAIN live.attributes : live.attributes[k] = CloudText(attrs, k)
  /\ TagEntries(attrs) = {<<k, live.tags[k]>> : k \in DOMAIN live.tags}

IdOf(attrs) == CloudText(attrs, "id")

\* What an invocation has read, as sets: the resources of the fixture, and
\* the managed instances of the types the fixture knows.
Live == Range(read.fixture.resources)
Recorded ==
  UNION {{[type |-> b.type, attributes |-> a] : a \in Range(b.instances)} :
           b \in {c \in Range(read.state) : c.mode \in {"", "managed"}}}
Known == Range(read.fixture.types) \cup {r.type : r \in Live}
Watched == {inst \in Recorded : inst.type \in Known}

\* One live resource per id, of the type the state file gives that id.
Unambiguous ==
  /\ Len(read.fixture.resources) = Cardinality({r.id : r \in Live})
  /\ \A inst \in Watched, r \in Live :
       r.id = IdOf(inst.attributes) => r.type = inst.type

Drifted(inst) ==
  ~ \E r \in Live : /\ r.type = inst.type /\ r.id = IdOf(inst.attributes)
                   /\ InSync(inst.attributes, r)

-----------------------------------------------------------------------------
(* Properties.                                                             *)

Stages ==
  {"started", "opening", "constructing", "scanning", "saving",
   "opening output", "rendering", "exited"}

(* The types of the variables; of a report, the field types of its items.  *)
TypeOK ==
  /\ stage \in Stages /\ args \in Invocations \cup {None} /\ run \in 0..MaxRuns
  /\ rep # None => \A i \in DOMAIN rep.items : rep.items[i].kind \in Kinds
  /\ stored \subseteq 1..MaxRuns
  /\ out \in Outputs \cup {None}
  /\ stdout \in Texts
  /\ code \in {None, 0, 1, 2, 3, Killed}
  /\ world.state \in StateFiles /\ world.fixture \in Fixtures /\ edits \in 0..MaxEdits
  /\ read \in [state : StateFiles \cup {None}, fixture : Fixtures \cup {None}]

Succeeded ==
  /\ stage = "exited" /\ args # None
  /\ args.command = "scan" /\ code \in {0, 3}

Destination == IF args.out THEN IF out = None \/ out.of # run THEN "nothing" ELSE out.text
               ELSE stdout

(* The gate a CI job sets with --exit-code is right from end to end: with  *)
(* it scan exits with 3 exactly when some managed resource of a known type *)
(* is missing in the cloud or differs there in an attribute the cloud      *)
(* shows or in a tag; without it never.  Both files may be edited while    *)
(* the scan runs: it is right about what it has read.  The fixture must    *)
(* not use one id twice, since it is indexed by id alone.                  *)
DriftGateIsRight ==
  (Succeeded /\ Unambiguous) =>
    (code = 3 <=> args.exitOnDrift /\ \E inst \in Watched : Drifted(inst))

(* 0 and 3 are only returned when everything asked for is done: the report *)
(* is in the store, and all of it has been written if it is JSON.          *)
SuccessIsDone ==
  Succeeded =>
    /\ args.store => run \in stored
    /\ args.format \in {"json", "text"}
    /\ args.format = "json" => Destination = "whole"

(* An invocation whose scan did not come to its end, for whatever reason,  *)
(* changes nothing: no report is stored, and the output file still holds   *)
(* what an earlier invocation has put there.                               *)
NoTraceWithoutScan == read.state = None => run \notin stored /\ out = before

(* The report of an earlier scan is only ever given up for one that is     *)
(* already safe: with --store the output file is touched after the report  *)
(* has been saved.                                                         *)
SavedBeforeOutput == [][(out' # out /\ args.store) => run \in stored]_out

(* What the README says of exit code 1: "error".  A scan that wrote none   *)
(* of its report to the --out file does not exit as one that did.          *)
SuccessIsWritten == (Succeeded /\ args.out) => Destination # "nothing"
=============================================================================
