# Verification of terraform-drift-detector

TLA+ models of the drift detector, the TLC runs that check them on small
instances, and TLAPS proofs of the results that hold for every instance. All
paths below are relative to the repository root; `PROJECT.json` maps every
definition to the lines it was translated from.

    tlc -config MCScan.cfg MCScan.tla       # one run
    tlapm ScanProofs.tla                    # the proofs of one module

## 1. The system

The program compares what a Terraform state file records with what the cloud
holds. It runs once (`scan`), on a schedule (`schedule`), or as a dashboard with
an optional scheduler in the same process (`serve`). All three share the same
pipeline: state source, mapper, lookup, diff, report, store.

| component | state it keeps | operations | talks to |
|---|---|---|---|
| diff engine `internal/diff` | none | `Compare` | pure, called by each scan worker |
| report model `internal/model` | a report's items and summary | `recount`, `Finalize`, `HasDrift`, `Key` | scan, store, rendering |
| scan engine `internal/scan` | per scan: semaphore, WaitGroup, mutex, item slice, first error | `Scan`, `recordErr` | state source, mappers (cloud), diff |
| report store `internal/store` | a directory of `<ScanID>.json` | `New`, `Save`, `Get`, `List` | runner, command `scan`, dashboard; several processes may share it |
| runner `internal/runner` | none | `Run`: open, build provider, scan, save | scheduler jobs, `POST /scan` |
| scheduler `internal/schedule` | the cron loop, its running jobs | `Start`, `Stop`, `runOne` | runner; cron library |
| dashboard `internal/server` | the HTTP server | handlers, `ListenAndServe` | store, runner; `net/http` |
| commands `internal/cli`, `cmd` | exit code, signal context | `scan`, `serve`, `schedule`, `providers` | all of the above |
| state parser `internal/tfstate` | scheme registry | `Parse`, `AttrString`, `AttrTags`, `Open`, `Read` | scan, mappers |
| provider seam `internal/provider` | factory registry under a lock | `Register`, `New`, `Names`, `MapperIndex` | scan, runner |
| providers `mock`, `aws`, `azure`, `gcp` | SDK clients, or the fixture | `FromState`, `FetchActual` | cloud APIs |
| configuration `internal/config` | none | `Load`, `validate` | `serve`, `schedule`; its targets go to the scheduler and the runner |
| rendering `internal/report` | none | JSON, text, HTML | commands, dashboard |

What is hard here, and hard to test:

* **Inside one scan.** A launch loop that blocks on a channel, workers that leave
  by three different returns, two shared variables under one lock, and a result
  whose order depends on who finished first. Some lookups may fail, hang or see
  the cloud change under them.
* **Between scans.** Reports are files named after the *second* a scan ended in,
  written by truncating and then writing, with no lock between the scheduler,
  the dashboard and any number of command-line scans.
* **At the end of the process.** Scheduled jobs, requests, the shutdown goroutine
  and the command's goroutine race from the moment a signal arrives; a failed
  bind and a server that breaks down take the same deferred path as a requested
  stop.
* **At the start of the process.** Flags, their defaults and a file decide
  together; the file may pass and its targets still be of no use, and the
  scheduler may refuse the file when half of it is registered.
* **In the lookup.** Each cloud has its own ways of saying that something is gone
  and of spelling a value; a bucket takes two calls, and may go in between.
* **In the comparison.** Presence and value of a map entry are different facts,
  and tags are compared both ways while attributes are not.

The list in full, each hazard at its line with the properties that would catch
it, is `"hazards"` in `PROJECT.json`.

## 2. The modules

    Diff            pure operators: comparison, counting, the sort
     ├─ DiffProofs      what they return, as lemmas
     ├─ Comparison      one resource, compared after every edit
     │   └─ ComparisonProofs    (EXTENDS DiffProofs)
     ├─ ScanContract    what a scan promises, without goroutines
     └─ Scan            the goroutines of one scan; implements ScanContract
         └─ ScanProofs          (EXTENDS DiffProofs)
    Store           the directory, its savers, its reader
     └─ Dashboard       the pages that lead to a report, and their links
         └─ StoreProofs         (both)
    Service         serve and schedule once they are up: cron, HTTP, signals, runs
     ├─ ServiceProofs
     └─ Deployment      command line, configuration, targets; implements Service
         └─ DeploymentProofs    (EXTENDS ServiceProofs)
    TfState         pure operators: JSON values, Parse, the attribute readers
     ├─ Mock            the mock provider, and a scan with it (EXTENDS Diff too)
     │   └─ Command         the command line, invocation after invocation
     │       └─ CommandProofs   (EXTENDS DiffProofs)
     └─ Mappers         the mappers of AWS, Azure and GCP (EXTENDS Diff too)
         └─ Lookup          FetchActual, call by call, against a changing cloud
             └─ LookupProofs    (EXTENDS DiffProofs)
    MCComparison, MCScan, MCStore, MCDeployment, MCLookup, MCCommand    instances for TLC

**Diff.** A resource is a record of key, attributes and tags; a Go map is a
function on the keys that are present, so "absent" and "empty" stay apart.
Strings are only ever ordered (`sort.Strings`, `Key.String()`), so the byte order
is a parameter. `Listed(S, R)` is the set `S` in the order `R`: it is `sort.Strings`
over names (`sortedKeys`) and, over the positions of the items,
`sort.SliceStable` with the comparator of `scan.go:95-100` (`StableSort`; two equal
items are ordered by position). Names and messages of findings are left out.

**Comparison.** Drives `Compare` and `Finalize` through every pair of an
expected and a live resource, and compares the result with a reference written
with sets of entries.

**Scan.** `pc` is the goroutine of `Scan`, `worker[j]` that of job `j`. Every
blocking operation and every read or write of a shared variable is an action of
its own; work on a goroutine's own variables is folded into its next action.

| action | code (`internal/scan/scan.go`) |
|---|---|
| `ReadState`, `ReadFails` | 32-54: read, parse, keep the instances that have a mapper |
| `AddToGroup`, `Start` | 65 `wg.Add`; 66-67 the token, then `go` |
| `Normalize`, `FetchAnswers`, `FetchFails` | 71-80 |
| `NothingToAppend`, `BeginAppend`, `EndAppend` | 81-86; `append` reads the slice, the assignment writes it |
| `BeginRecord`, `SeeNoError`, `SetError`, `KeepError` | 115-121 `recordErr`: the lock, the test, the assignment |
| `ReleaseToken`, `Done` | 69, then 68: deferred calls, last in first out |
| `ReturnError`, `ReturnReport` | 89-112 |
| `Cancel`, `EditCloud` | the caller's context; the world outside |

The mutex is taken and released in separate steps, and the slice and the first
error are read and written in separate steps under it, so that without it two
appends, or two tests of the error, would interleave (the mutant `LockIgnored`
breaks `NoPartialReport`, `ImplementsContract` and `FirstErrorSticks`). The
mapper seam (`provider.ResourceMapper`) is the constants `FromState`, which may
fail, and `Answers`; a lookup takes effect at one moment between its call and
its answer.

**ScanContract** has three states of a scan and no goroutine: jobs observe the
cloud one by one, and the scan ends with one genuine error and no report, or
with exactly the findings of all observations, in order. `Scan` refines it with
`stage` standing for `pc` and `observed` for `actual`.

**Store.** `files` maps scan ids to contents. A content is its size and the
report it parses to, if any: that is enough to tell a whole report, an emptied
file, a partial write, and a short text over a long one apart. The clock is not a
variable: `FinishScan` stamps a report with any moment, since runs of several
processes have clocks of their own and a clock may be set back; `Stamp` is the scan
id of `scan.go:104`, one for all moments of a second. `Foreign` are names of `.json`
files no save has made: they count as reports too, and need not parse.

| action | code (`internal/store/store.go`) |
|---|---|
| `FinishScan` | `scan/scan.go:102-112` |
| `OpenFile`, `OpenFails` | 40: `os.WriteFile` creates or truncates, or cannot |
| `WriteFile`, `WriteFails` | 40: it writes all, or stops at some byte, for an error or for good |
| `SaveReturns` | 43: `Save` returns nil; only now is the report acknowledged |
| `CloseFails` | 40-42: the text is there, but closing the file fails, or the process dies here |
| `ReadDir`, `ReadDirFails` | 62-73, 62-65 |
| `GetReport`, `ReadFileFails`, `ParseFails` | 46-58 and 76-81: one file, in descending order |
| `ReturnList` | 83 |

Savers move between the steps of the reader. `failure` is the error `List` returned:
the operation and the file it names.

**Dashboard.** `page` is the detail page a browser opened last: whose link it
followed, the id asked for, what it was shown. `OpenRow` follows a row of an index
that may be any time old (`report/html.go:98`), `FollowRedirect` the answer to `POST
/scan` (`server.go:89-94`, only for a run whose `Save` returned nil), `VisitURL` any
other id, foreign names included. All of them are one `Store.Get`: the report, or 404,
because there is none that parses (`ShowDetail`) or because the file cannot be read
(`ShowUnread`).

**Service.** `main` is the goroutine of `runServe` or `runSchedule`, `shutdown`
the goroutine started in `ListenAndServe`, `cron` and `http` the two libraries'
state as the code sees it, `phase[r]` where the run of a job or a request is.
`os.Exit` (`main.go:20`) is `CutOff`: whatever is still active is killed. The
scan and the save inside a run are single phases here; `Scan` and `Store` are
their insides. `http.Server.ListenAndServe` (`server.go:138`) has four ends: it
cannot bind (`BindFails`), it returns because of `Shutdown` (`ServeReturns`), its
accept loop fails after it has served (`AcceptFails`, after which the connections it
has are still served), or the process ends first.

**Deployment** replaces the start-up of `Service`, where the outcome is given, by the
code that computes it, and hands each run its target.

| action or operator | code |
|---|---|
| `ParseFlags`, `BadUsage` | `cli/serve.go:16-30`, `cli/schedule.go:16-24` |
| `validate`, `WithDefaults`, `Loads`, `LoadConfig`, `LoadFails` | `config.go:48-91`, `serve.go:29-42`; `AddressOf` is `isFlagSet` (72-81) |
| `OpenStore`, `OpenStoreFails` | `store.go:22-28` |
| `Scheduled`, `Registered`, `AllParse`, `StartLoop`, `StartLoopFails`, `GoWithout` | `schedule.go:35-53`, `serve.go:50-62` |
| `FireEntry`, `AcceptFirst` | a cron entry is due; `POST /scan` takes `Targets[0]` |
| `Opens`, `S3Right`, `Builds`, `RunOn` | `tfstate/backend.go:21-33`, `s3state.go:28-36`, `registry.go:28-37` with the four factories, `runner.go:19-44` |

All other actions are those of `Service`. `ImplementsService` is the specification of
`Service` over the variables they share: what a step does to them is a step of
`Service` or none. Opening a state source only parses its reference; reading it,
from S3 as well, is part of the phase "scanning", which may fail at will.

**Mappers** are operators, one pair per resource type: `...FromState` is the mapper's
`FromState`, `...Actual` what its `FetchActual` makes of the object an API returned. A
text is an atom but for what the code looks into: its segments between slashes
and its upper-case form, which are tables. An id is the sequence of its segments,
so that joining (`FromState`) and cutting (`strings.Cut`) are both modelled.

**Lookup** follows one resource from the moment Terraform wrote it. `applied` is what
was applied, `cloud` what is there now, `seen` what has been there since the lookup
began. `GetOnce` is the `FetchActual` of six mappers; `HeadBucket` and
`GetBucketTagging` are the two calls of the seventh, with `Edit` in between. The
replies of the clouds are external: success, each API's own codes for "not
there", and refusals (denied, throttled). The attributes Terraform may leave in
the state are every spelling the cloud takes for the same value.

**TfState** and **Mock** are operators. A JSON value is a record of its kind and
content; a number is what `%d` and `%g` print of it, since that is all the code
asks of it. `Mock!FromBytes` indexes the fixture, `FromState` and `FetchActual` are
the two sides of the mapper, and `ScanReport` is the scan as one step: module
`Scan` shows that its goroutines cannot be told apart from that
(`CompletionOrderHidden`).

**Command.** `stage` is where `runScan` is. Every step that can fail has an action
for its failure.

| action | code (`internal/cli/scan.go` unless named) |
|---|---|
| `Invoke`, `Dispatch` | `cmd/driftdetector/main.go`, `cli.go:17-40` |
| `ParseFlags` | 25-47 |
| `OpenSource` | 49-53, `tfstate/backend.go:24-33` |
| `NewProvider`, `NewProviderFails` | 55-64, `provider/registry.go:29-37`, `mock.go:30-38`: the fixture is read |
| `Scan`, `ScanFails` | 66-70: the state file is read |
| `Persist`, `PersistFails` | 72-82 |
| `CreateOutput`, `CreateFails`, `UseStdout` | 84-93 |
| `UnknownFormat`, `Rendered`, `RenderFails` | 95-112 |
| `HeadIsLost` | `report/text.go:13-25`: writes whose error nobody looks at; with findings the table that follows has to be flushed without an error, so that part of the report is there |
| `Kill`, `Edit` | the end of the process; `terraform apply`, edits of the fixture |

Two variables are history: `read` (what this invocation has read) and `before`
(the output file as it found it).

## 3. The runs

| run | question | instance | states |
|---|---|---|---|
| `comparison` | is drift found exactly, once, and countably? | one attribute, two tags (one name is both), three values, one empty | 4 160 |
| `scan` | is a scan bounded, joined, all or nothing, order-free, and does it implement its contract? | 0 to 3 jobs, 2 tokens, 1 edit; a shared key, an unmapped type, an instance that does not normalise | 138 776 |
| `scan_returns` | does a cancelled scan return when the cloud never answers, and any scan that is answered? | 2 jobs, concurrency 1 and 0 (not set) | 8 084 |
| `store` | does a saved report stay, is a list whole, complete and ordered, and do links lead to what they were made for? | 3 runs, 2 seconds in any order, 2 sizes, a foreign file, 1 page | 4 996 606 |
| `service` | do flags and file decide as they should, is nothing cut off that must not be, and does a signal end the process? | 18 command lines, 2 firings, 1 request | 53 864 |
| `providers` | is the drift found what has really happened to the resource, and does a lookup fail only for cause? | 7 resource types in 3 to 24 versions each, all spellings, 2 changes | 418 292 |
| `command` | do the exit codes tell the truth, and do files only change when they may? | 2 invocations of 33 command lines, 3 state files, 5 fixtures, 1 edit | 302 036 |

The bounds and why they suffice:

* Two tokens and three jobs are the least for "a job waits while two run", and
  for a late failure or a late append after an earlier one. One token and two
  jobs are the least for a leaked token to block the loop. `MaxEdits` bounds
  the edits of the cloud during one scan; one edit is enough for two lookups to
  see different clouds.
* Three savers are the least for two that share a second beside one that does
  not, in either order of time. Moments within one second matter only where a list
  could show both: no file does, since they share a name, so the passing run has one
  moment per second; the two violated runs have two (`MaxNow = 3`), for the reports
  they lose differ in time. Two sizes give a shorter text over a longer one and the
  reverse. One foreign file, absent, unreadable or a report of its own, is all that
  `List` can meet beside the files of saves. The reader may list again and again, and
  a page be opened at any time.
* One firing that still runs beside one that begins, and a request beside them, are
  what `Service` can tell apart; runs do not interact there. The
  command lines of `MCDeployment` are both commands without and with a file, every
  way a file is refused, every kind of target that loads and cannot run, and
  each flag beside a file that says otherwise.
* Two changes are the least for a resource that is deleted and made anew during
  its lookup. Most compared fields come in two values, or a value and nil where the
  API has pointers; tag sets have none, one or two tags.
* `comparison` is exhaustive over its maps, and findings are independent field
  by field, which `FindingsAreLocal` checks.
* Two invocations are the least for one to find the output of another. The
  command lines are all combinations of format, `--out`, `--store` and
  `--exit-code`, and one of every fault. The fixtures are in sync, drifted in
  four fields (more than any exit code), without the resource, with one id
  twice, and unreadable; one edit can fall between any two steps.

Five of the twelve runs are expected to be violated. Each states what a comment
or the README says and shows that the code does otherwise:

| run | says | does |
|---|---|---|
| `store_persisted` | each scheduled report "is persisted" (`README.md:132-133`) | two scans of one second: the later save replaces the other report |
| `store_quiet` | `List` "returns all stored reports" (`store.go:60`) | two overlapping saves of one second leave a file that never parses though both returned nil, and every later `List` fails |
| `service_shutdown` | `shutdownTimeout` "bounds graceful shutdown" (`server.go:19`) | the command returns as soon as `Shutdown` is *called*; a scan started by `POST /scan` is killed at once |
| `command_written` | exit codes: "`0` success/no drift · `1` error" (`README.md:160`) | `report.Text` ignores the errors of its writes: with `--out` on a full disk a report without findings leaves an empty file and exit code 0 |
| `providers_found` | "found is false when the resource no longer exists" (`provider.go:30-32`) | a bucket deleted between `HeadBucket` and `GetBucketTagging` is found, without tags, although the second call said it is gone: drift of every tag instead of a deletion |

Four more disagreements need no run to be seen:

* `Finalize` "sorts/normalizes" (`report.go:73`) but only counts. `Scan` sorts before
  it calls it.
* Types without a mapper are "counted as skipped" (`scan.go:25-26`); `scan.go:51`
  drops them without a count.
* `List` fails as a whole while one file is between truncation and write
  (`store.go:40`, `:77-80`), which is the first half of `store_quiet`.
* `state.type` of the configuration is `"local" or "s3"` (`config.go:40`), but nothing
  reads it: the scheme of `state.path` decides.

The passing runs of the store say what does hold: a report that shares its
second with no other is safe from every other save, crash and failed write
(`SavedStaysUnlessShared`), and `List` fails only when the directory or a file cannot
be read, or for the one file its error names: a foreign one, or one whose own save
is unfinished, was cut short or shares its second (`ListFailsForCause`). A list or a
page may show a report that no `Save` has acknowledged: it was written whole, and then
the process died or closing the file failed. `ListIsNewestFirst`, `LinksLead` and
`PagesAreWhole` say that it is shown as faithfully as any other, not that it is not
shown.

What some properties do not say:

* `DriftGateIsRight` is about what an invocation has read. The fixture and the state
  file are read at different moments (`mock.go:65`, `scan.go:32`), and an edit in
  between gives a right answer about two different moments. `FilesAssumption` takes tags
  to be strings; a number among them (as in `tfstate_test.go:33`) is printed by `%v`
  (`tfstate.go:130`), which differs from the cloud's text from a million on.
* In `FailsForCause` the half that is about ids holds by what `FromState` writes; what
  can go wrong is the recognition of "not there" codes. Two kinds of refusal stand
  for all others: none of them has `NotFound` in its code, which `aws.go:231` would
  take for an absence.
* Nothing is claimed of the cron library but that a stopped loop fires no more
  (`CanFire`, `LoopRuns`).

Every property of a passing run has a mutant in `PROJECT.json`: a slip in the
code (a dropped guard, an exchanged argument, an ignored error) under which TLC
finds the property violated. The mutated forms stand beside the definitions they
change and are used by nothing else.

### Fairness

* `Scan!Scheduling`: a goroutine that can run is run, and a mutex or channel
  that stays free is taken. Weak fairness is enough because each worker takes
  the lock once and the holder never waits while it holds it.
* `Scan!HonoursContext`: a call made with a context returns once the context is
  done. This is what the SDKs promise for the `ctx` of `scan.go:32` and `:76`.
* `Scan!CloudAnswers`: calls return at all. It is the premise of `Terminates` and
  of nothing else: the code sets no deadline, so without it a scan may hang until
  it is cancelled.
* `Deployment!FairDeployment`: the command and the shutdown goroutine move on; a run whose
  context is done comes to its end (this is `CancelStops`). Nothing is assumed of
  a run whose context is live: it may hang for ever. The cron loop fires when
  it likes, clients come and go when they like.
* `ServerFailureEnds` has one assumption more, as its premise: that scheduled scans
  come to an end by themselves. Without it a failed bind, or a failed accept loop, may
  never be reported, since `Stop` waits for a scan nobody has told to stop.

`Store`, `Dashboard`, `Lookup` and `Command` have safety properties only. The final states (`Returned`, `Exited`, `Idle`) loop,
so a deadlock that TLC reports would be one of the code; no run turns the check
off.

## 4. What is proved

Every invariant and every safety action property that a passing run checks is
stated by a theorem, for all values of the constants, and so are the two
refinements (`Scan` of `ScanContract`, `Deployment` of `Service`).

Assumptions are the named `ASSUME`s of the modules; TLC evaluates them on every
run. They say:

| assumption | what it says | why it holds |
|---|---|---|
| `OrderAssumption` | names and keys are listed in two finite orders, each once, the empty name first | the byte order of strings is total, and `""` is its least |
| `ComparisonAssumption`, `ScanAssumption` | resources and answers use listed keys and names; what was just applied can be answered; a state file is a sequence of instances | the orders are chosen to hold all names of the instance |
| `MappersAssumption`, `LookupAssumption`, `CloudsAssumption` | a text in the table of segments has two or more, upper case stays upper case; an address has no part with `/`, a bucket goes by its name, EC2 never leaves a type out | what `Split` and `ToUpper` do; rules of the three clouds |
| `CommandAssumption`, `FilesAssumption` | files are finite; there is one JSON null; tags in a state file are strings | JSON, and the schema of every taggable Terraform resource |
| `StoreAssumption` | sizes are positive, a foreign name is no stamp, `None` and `Other` are no reports | a report is never an empty text; a file named like a stamp would be one a save could have made |
| `DashboardAssumption`, `ServiceAssumption`, `DeploymentAssumption` | posts are runs, jobs are no requests, `None` is no configuration | |

**DiffProofs** (lemmas, any orders). A set that is ordered strictly and totally has
exactly one element per place, so `Listed` lists it once and in order
(`OnePerPlace`, `ListedInOrder`). From that: `sortedKeys` sorts (`KeysSorted`), the
sort of a report is a stable rearrangement (`SortRearranges`, `SortSorts`), and two
item sequences that are permutations of each other block by block and keep each
key's own order sort to the same report (`SortedAlike`). `FlattenSeq` is defined by
recursion; what it returns follows by induction, which is taken not from the library's
induction theorem (an operator is its parameter) but from the
well-foundedness of `<` on `Nat` (`NatSetInduction`): its equation has a solution, its result
is a sequence, and each element has one place (`FlattenPlaces`,
`FlattenHolds`, `FlattenGathers`). `CompareFound` says what `Compare` reports: one item
per drifted attribute, one per drifted tag, no two alike.

**ComparisonProofs** (any resources and answers). The invariant is only that the report
is the one on the latest answer; the work is in the lemmas that turn "an entry
is in one map and not in the other" into the guards of the two loops
(`AttributesDiffer`, `TagsDiffer`) and the list of findings into the set of the
reference (`ReferenceItems`). From these:

* `DriftPinpointed`, `SummaryAdds`, `TypeCorrect`;
* `TagDriftSymmetric`, `TagsRebuilt` (the findings about tags are a patch),
  `FindingsLocal`.

**ScanProofs** (any state files, mappers, answers, concurrency, edits). `TypeOK`
is not inductive: that `sem` and `wg` stay in `Nat` rests on their being counts.
The inductive invariant `IInv` says that the tokens in the channel are the
workers between start and release, that the WaitGroup counts the workers
between `Add` and `Done`, that the mutex is held exactly by a worker in a
critical section and that such a worker's copy of the slice is still the slice;
that the slice holds exactly the jobs with findings that are past their append;
that a worker about to set the first error still finds none, and that the first error
belongs to a job without an answer. From it:

* `LookupsBounded`, `NoWorkerLeft`, `AllOrNothing` (no partial report, nothing
  lost to a race), `FirstErrorKept`, `TypeCorrect`;
* `OrderHidden`: the slice gathers the same findings as the loop in state order, job by
  job and each job's together (`SliceGathers`), so the sort gives one report if
  no two resources share a key, and the lookups' order cannot be seen;
* `Implements`: every step of `Scan` is a step of `ScanContract` or none
  (`ContractStep`). The append, the lock and the semaphore are stutters, an
  answer is `Observe`, and the return is `Deliver` because the sorted slice holds
  all findings, each once (`ReportHolds`).

**StoreProofs** (any runs, sizes, clock, foreign files). `SavedStaysUnlessShared` needs
to know that a run which is writing alone has found its file empty (`Emptied`), that
a file which parses holds a report under its own id that some run has written to the
end (`OwnNames`), that such a report stays, acknowledged or not, unless its second is
shared (`WrittenStays`), and that a report is its run's own (`OwnReports`). `Reading`
adds what the reader relies on: what it has read is newer than what it has still to
read, and what was due is either read or still to be read. From these:

* `SavedStays`, `ListComplete`, `ListOrdered`, `TypeCorrect`;
* `ListFailsRightly`, with one invariant more: a file that does not parse is foreign, or
  has an unfinished or failed save, or two runs, under its id (`UnreadableHasCause`).

A step of the dashboard is a step of the store or leaves it alone
(`DashboardOnlyReads`, a lemma), so all of the above holds beneath it. `LinksLead` and
`PagesAreWhole` are inductive together with the store's invariant and with "what a page
was linked from has been written whole": `LinksAlwaysLead`, `PagesAlwaysWhole`.

**ServiceProofs** (any number of firings and requests). `JobsAreWaitedFor` rests
on: only a running loop starts jobs, and what `main` has reached tells what has
been started (`NothingUpYet`, `JobsNeedCron`). `EndHasCause` carries the reason for
the end through the deferred `Stop` to the exit: a server that broke down has chosen
its code, and neither a signal nor a shutdown that follows changes it. From these:
`JobsFinish`, `ExitCodeRight`, `TypeCorrect`.

**DeploymentProofs** (any command lines, files, cron expressions). `FileInv` ties what
the process has loaded and registered to the file, `RunInv` what each run has got
through to its target. From these:

* `DeploymentImplements`: `Deployment` refines `Service`, action by action, so what
  ServiceProofs shows holds of every command line and file;
* `NothingFromBroken`;
* `PlacesAsConfigured`, from `PlacesInv`: what the store and the address are before the
  file is read and after.

**LookupProofs** (any resources, texts, tables of segments, changes).
`LookupFailsForCause` needs that an id which `FromState` makes of two attributes has
two parts (`IdsAreRight`: concatenation of non-empty sequences), and that each code an API
uses for "not there" is recognised for its type (`AbsenceUnderstood`).
`DriftIsReal` (`DriftIsWhatMoved`) has two halves. `BothSides`, one case per resource type:
whatever spelling Terraform wrote, a compared attribute is equal on both sides exactly if
the cloud means the same by the two texts, and the tags are read back as they
are; `SidesMoved` hands that to `CompareFound`. The other half follows the lookup: all
that has been seen has the address that was applied (`Addressed`), the id made from the
state is that address (`IdIsPath`), and an answer is what the mapper makes of
something seen, or of nothing (`AnswerSeen`). The bucket that was deleted between its two
calls is the one way out, and the property excludes exactly it. `TypeCorrect` comes with these.
`SameAttributes` is the contract of `provider.go:33-34`: both sides of a mapper give
the same key and the same attribute names.

**CommandProofs** (any command lines, files and number of invocations). From
"saving" on a report exists (`ScannedFirst`), from "opening output" on it is in
the store if that was asked for (`SavedFirst`), and while it is rendered the
output file is this invocation's (`OwnOutput`). From these:

* `FailedScanLeavesNothing`, `SuccessMeansDone`, `SavedFirstAlways`.

`GateIsRight` (`DriftGateIsRight`) follows the contents of the two files: `Parse` lists
exactly the managed instances (`ParseLists`), the jobs are those of known types
(`JobsAre`), the index of the fixture holds the last entry of each id (`IndexHolds`),
the attribute readers agree with what a cloud would show
(`TextRead`, `TagsRead`), so a job has findings exactly if its instance is drifted
(`FoundIfDrifted`); flattening and sorting neither lose nor invent one
(`ReportRight`). The invariant `GateInv` carries that through the
invocation: the provider is that of the fixture read, the report that of both
files, the exit code that of the report. `TypeCorrect` needs the same, for the kinds
of the report's items.

Only model-checked: the liveness properties (`CancelStops`, `Terminates`,
`StopsOnSignal`, `ServerFailureEnds`), since TLAPS does not prove liveness under
fairness. What the five violated runs check is, of course, not provable.

## 5. What is not modelled, and the plan

Not modelled, with the reason:

* `Register` and `Names` of the registry, and its lock. Factories are registered by
  init functions, one after the other and before `main`; afterwards the map is only
  read, so there is nothing to interleave. `runProviders` only prints.
* The formatting of reports (text, JSON, HTML) and of messages: no property is
  about it. What of it decides an exit code is in `Command` (`HeadIsLost`).
* `stateRegion` (`runner.go:46-53`) and `parseProviderOpts` (`cli.go:78-88`): they choose
  texts that are handed on unread.
* The SDK calls behind a lookup and the S3 read: external, modelled by their
  replies. What retries an SDK makes stays inside one call.
* What `Close` might report of a file whose writes were accepted
  (`cli/scan.go:91` does not look at it).
* Refused methods and paths of the dashboard (405, 400, the redirect of `/scan/`):
  they change no state.

What could come next:

1. A composition of `Deployment` and `Store`: a request that is cut off while it
   saves, and what the next start of the process finds in the directory. Today
   `WriteFails` and `CloseFails` of `Store` are that crash, and `CutOff` of `Service` its
   cause.
2. A scan over the mappers of `Mappers`: `Scan` with the answers of `Lookup` in the
   place of its parameters. Their seam is `FromState` and `Answers`.
3. Proofs: that `Mock!ScanReport`, the scan in one step, is a behaviour of `Scan` seen from
   outside. Both are compared with the same sequential report today
   (`CompletionOrderHidden` and `ReportRight`); a theorem that has `Scan` with the mock
   mappers in the place of its parameters would join them.
