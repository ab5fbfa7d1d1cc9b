-------------------------------- MODULE Scan --------------------------------
(***************************************************************************)
(* scan.Scan: read the state file, look every managed instance up with a   *)
(* bounded number of goroutines, compare, and assemble one report.         *)
(*                                                                         *)
(* The goroutine of Scan (pc) launches one worker per job and waits for    *)
(* them; the workers share the item slice and the first error under one    *)
(* mutex.  The cloud is edited, and the context cancelled, at any moment.  *)
(* Blocking operations, and the read and the write of every shared         *)
(* variable, are separate actions; what a goroutine does with its own      *)
(* variables is folded into its next action.                               *)
(*                                                                         *)
(* The mapper seam is two parameters: FromState normalises an instance (or *)
(* gives None, its error), and a lookup answers with what the cloud holds  *)
(* under the resource's key.  The stamp of the report (ScanID, from the    *)
(* clock) is in module Store, where it matters.                            *)
(***************************************************************************)
EXTENDS Diff

CONSTANTS
  Concurrencies,   \* what callers give as opts.Concurrency; none is 0
  Instances,       \* instances a state file can hold: records with a type
  States,          \* the state files: sequences of instances
  MappedTypes,     \* the types the provider has a mapper for
  FromState(_),    \* the mapper's normalised resource, or None
  Answers,         \* what a lookup can answer: [found, attributes, tags]
  MaxEdits,        \* bound: edits of the cloud during one scan
  None             \* no value: nil error, no answer yet, mutex free

ASSUME ScanAssumption ==
  /\ Concurrencies \subseteq Int
  /\ MaxEdits \in Nat
  /\ States \subseteq Seq(Instances)
  /\ \A inst \in Instances : FromState(inst) # None =>
       /\ FromState(inst).key \in Keys
       /\ DOMAIN FromState(inst).attributes \subseteq Fields
       /\ DOMAIN FromState(inst).tags \subseteq Fields
  /\ \A a \in Answers : a.found \in BOOLEAN /\ DOMAIN a.tags \subseteq Fields
  /\ None \notin Nat /\ None \notin Answers

DefaultConcurrency == 8

\* Mutated form: the default is left out.
CapacityAsGiven(n) == n

\* The capacity of the semaphore channel.
Capacity(n) == IF n <= 0 THEN DefaultConcurrency ELSE n

StateError == 0  \* the state file could not be read or parsed

VARIABLES
  pc,         \* where the goroutine of Scan is
  instances,  \* the parsed state file
  worker,     \* where the goroutine of each job is
  actual,     \* the answer each job got
  wg,         \* the WaitGroup's counter
  sem,        \* tokens in the semaphore channel
  mu,         \* the job whose goroutine holds the mutex
  slice,      \* the item slice a worker's append started from
  appended,   \* the item slice, as the jobs whose findings it holds, in order
  firstErr,   \* the job of the first recorded error
  concurrency, \* opts.Concurrency as this caller gave it
  cancelled,  \* the caller's context is done
  cloud,      \* what each key holds in the cloud now
  edits,      \* edits of the cloud so far
  report,     \* the DriftReport returned
  err         \* the error returned: None, StateError or a job

main    == <<pc, instances>>
shared  == <<wg, sem, mu, appended, firstErr>>
local   == <<worker, actual, slice>>
outside == <<concurrency, cancelled, cloud, edits>>
result  == <<report, err>>
vars    == <<main, shared, local, outside, result>>

\* Data resources are gone already; other types without a mapper are skipped.
JobsOf(s) == {i \in DOMAIN s : s[i].type \in MappedTypes}
jobs == JobsOf(instances)

expected(j) == FromState(instances[j])
Findings(j) == Compare(expected(j), actual[j], actual[j].found)
items == FlattenSeq([i \in DOMAIN appended |-> Findings(appended[i])])

\* What Scan returns beside an error: the zero DriftReport.
ZeroReport == Finalize(<<>>, 0)

Init ==
  /\ pc = "reading" /\ instances = <<>>
  /\ worker = [j \in {} |-> "idle"]
  /\ actual = [j \in {} |-> None] /\ slice = [j \in {} |-> <<>>]
  /\ wg = 0 /\ sem = 0 /\ mu = None /\ appended = <<>> /\ firstErr = None
  /\ concurrency \in Concurrencies
  /\ cancelled = FALSE /\ cloud \in [Keys -> Answers] /\ edits = 0
  /\ report = ZeroReport /\ err = None

-----------------------------------------------------------------------------
(* The goroutine of Scan.                                                  *)

ReadState ==
  /\ pc = "reading"
  /\ \E s \in States :
       /\ instances' = s
       /\ worker' = [j \in JobsOf(s) |-> "idle"]
       /\ actual' = [j \in JobsOf(s) |-> None]
       /\ slice'  = [j \in JobsOf(s) |-> <<>>]
  /\ pc' = "launching"
  /\ UNCHANGED <<shared, outside, result>>

\* src.Read or tfstate.Parse fails.
ReadFails ==
  /\ pc = "reading"
  /\ pc' = "returned" /\ err' = StateError
  /\ UNCHANGED <<instances, shared, local, outside, report>>

Launched(j) == worker[j] # "idle"

\* Mutated form: wg.Add is left out.
AddToGroupUncounted(j) ==
  /\ pc = "launching"
  /\ ~Launched(j) /\ \A i \in jobs : i < j => Launched(i)
  /\ worker' = [worker EXCEPT ![j] = "queued"]
  /\ pc' = "acquiring"
  /\ UNCHANGED <<instances, shared, actual, slice, outside, result>>

\* wg.Add(1) for the next job of the loop, which then waits for a token.
AddToGroup(j) ==
  /\ pc = "launching"
  /\ ~Launched(j) /\ \A i \in jobs : i < j => Launched(i)
  /\ wg' = wg + 1
  /\ worker' = [worker EXCEPT ![j] = "queued"]
  /\ pc' = "acquiring"
  /\ UNCHANGED <<instances, sem, mu, appended, firstErr, actual, slice, outside, result>>

\* Mutated form: one token too many.
TokenFreeOneOver == sem <= Capacity(concurrency)

TokenFree == sem < Capacity(concurrency)

\* sem <- struct{}{} succeeds and the goroutine is started.
Start(j) ==
  /\ pc = "acquiring" /\ worker[j] = "queued" /\ TokenFree
  /\ sem' = sem + 1
  /\ worker' = [worker EXCEPT ![j] = "normalizing"]
  /\ pc' = "launching"
  /\ UNCHANGED <<instances, wg, mu, appended, firstErr, actual, slice, outside, result>>

\* Mutated form: wg.Wait is left out.
JoinedAtOnce == pc = "launching" /\ \A j \in jobs : Launched(j)

\* The loop is over and wg.Wait has returned.
Joined == pc = "launching" /\ (\A j \in jobs : Launched(j)) /\ wg = 0

ReturnError ==
  /\ Joined /\ firstErr # None
  /\ pc' = "returned" /\ err' = firstErr
  /\ UNCHANGED <<instances, shared, local, outside, report>>

\* Mutated form: the findings stay in the order they were appended in.
ArrangedAsAppended == items

Arranged == StableSort(items)

ReturnReport ==
  /\ Joined /\ firstErr = None
  /\ pc' = "returned"
  /\ report' = Finalize(Arranged, Cardinality(jobs))
  /\ UNCHANGED <<instances, shared, local, outside, err>>

Main ==
  \/ ReadState \/ ReadFails \/ ReturnError \/ ReturnReport
  \/ \E j \in jobs : AddToGroup(j) \/ Start(j)

-----------------------------------------------------------------------------
(* The goroutine of job j.                                                 *)

Step(j, from, to) == worker[j] = from /\ worker' = [worker EXCEPT ![j] = to]

Normalize(j) ==
  /\ Step(j, "normalizing", IF expected(j) = None THEN "failed" ELSE "fetching")
  /\ UNCHANGED <<main, shared, actual, slice, outside, result>>

\* The lookup answers with what the cloud holds at one moment of the call.
FetchAnswers(j) ==
  /\ Step(j, "fetching", "comparing")
  /\ actual' = [actual EXCEPT ![j] = cloud[expected(j).key]]
  /\ UNCHANGED <<main, shared, slice, outside, result>>

\* The API call fails, or gives up because the context is done.
FetchFails(j) ==
  /\ Step(j, "fetching", "failed")
  /\ UNCHANGED <<main, shared, actual, slice, outside, result>>

\* No drift: the slice is not touched, nor the lock taken.
NothingToAppend(j) ==
  /\ Step(j, "comparing", "unwinding")
  /\ Findings(j) = <<>>
  /\ UNCHANGED <<main, shared, actual, slice, outside, result>>

\* Mutated form: the critical sections run without the lock.
LockIgnored == TRUE

Unlocked == mu = None

\* mu.Lock, and append reads the slice.
BeginAppend(j) ==
  /\ Unlocked
  /\ Step(j, "comparing", "appending")
  /\ Findings(j) # <<>>
  /\ mu' = j
  /\ slice' = [slice EXCEPT ![j] = appended]
  /\ UNCHANGED <<main, wg, sem, appended, firstErr, actual, outside, result>>

\* The longer slice is stored in items, and mu.Unlock.
EndAppend(j) ==
  /\ Step(j, "appending", "unwinding")
  /\ appended' = Append(slice[j], j)
  /\ slice' = [slice EXCEPT ![j] = <<>>]
  /\ mu' = None
  /\ UNCHANGED <<main, wg, sem, firstErr, actual, outside, result>>

\* recordErr: mu.Lock ...
BeginRecord(j) ==
  /\ Unlocked
  /\ Step(j, "failed", "recording")
  /\ mu' = j
  /\ UNCHANGED <<main, wg, sem, appended, firstErr, actual, slice, outside, result>>

\* ... the test of *dst finds no error yet ...
SeeNoError(j) ==
  /\ firstErr = None
  /\ Step(j, "recording", "setting")
  /\ UNCHANGED <<main, shared, actual, slice, outside, result>>

\* ... and the error is set, and mu.Unlock;
SetError(j) ==
  /\ Step(j, "setting", "unwinding")
  /\ firstErr' = j
  /\ mu' = None
  /\ UNCHANGED <<main, wg, sem, appended, actual, slice, outside, result>>

\* or it finds one, and mu.Unlock.
KeepError(j) ==
  /\ firstErr # None
  /\ Step(j, "recording", "unwinding")
  /\ mu' = None
  /\ UNCHANGED <<main, wg, sem, appended, firstErr, actual, slice, outside, result>>

\* Mutated form: the token is kept.
TokensAfterLeak == sem

TokensAfterRelease == sem - 1

\* The deferred calls run last in, first out: the token, then wg.Done.
ReleaseToken(j) ==
  /\ Step(j, "unwinding", "leaving")
  /\ sem' = TokensAfterRelease
  /\ UNCHANGED <<main, wg, mu, appended, firstErr, actual, slice, outside, result>>

Done(j) ==
  /\ Step(j, "leaving", "gone")
  /\ wg' = wg - 1
  /\ UNCHANGED <<main, sem, mu, appended, firstErr, actual, slice, outside, result>>

\* The steps that never wait for the cloud.
Compute(j) ==
  \/ Normalize(j) \/ NothingToAppend(j)
  \/ BeginAppend(j) \/ EndAppend(j)
  \/ BeginRecord(j) \/ SeeNoError(j) \/ SetError(j) \/ KeepError(j)
  \/ ReleaseToken(j) \/ Done(j)

Worker(j) == Compute(j) \/ FetchAnswers(j) \/ FetchFails(j)

-----------------------------------------------------------------------------
(* What happens around the scan.                                           *)

Cancel ==
  /\ pc # "returned" /\ ~cancelled
  /\ cancelled' = TRUE
  /\ UNCHANGED <<main, shared, local, concurrency, cloud, edits, result>>

\* Somebody edits, deletes or creates a resource out of band.
EditCloud(k, a) ==
  /\ pc # "returned" /\ edits < MaxEdits /\ a # cloud[k]
  /\ cloud' = [cloud EXCEPT ![k] = a]
  /\ edits' = edits + 1
  /\ UNCHANGED <<main, shared, local, concurrency, cancelled, result>>

\* Scan has returned.
Returned == pc = "returned" /\ UNCHANGED vars

Next ==
  \/ Main
  \/ \E j \in jobs : Worker(j)
  \/ Cancel
  \/ \E k \in Keys, a \in Answers : EditCloud(k, a)
  \/ Returned

Spec == Init /\ [][Next]_vars

-----------------------------------------------------------------------------
(* Fairness.  A runnable goroutine is eventually run, a mutex or channel   *)
(* that stays free is eventually taken (each worker takes them once), and  *)
(* a call made with a context returns once the context is done.  That the  *)
(* state source and the cloud answer otherwise is a further assumption:    *)
(* Scan sets no deadline of its own.                                       *)

JobIndexes == UNION {DOMAIN s : s \in States}

ReadReturns == ReadState \/ ReadFails
FetchReturns(j) == FetchAnswers(j) \/ FetchFails(j)

Scheduling ==
  /\ WF_vars(ReturnError \/ ReturnReport)
  /\ WF_vars(\E j \in jobs : AddToGroup(j) \/ Start(j))
  /\ \A j \in JobIndexes : WF_vars(j \in jobs /\ Compute(j))

HonoursContext ==
  /\ WF_vars(cancelled /\ ReadReturns)
  /\ \A j \in JobIndexes : WF_vars(cancelled /\ j \in jobs /\ FetchReturns(j))

CloudAnswers ==
  /\ WF_vars(ReadReturns)
  /\ \A j \in JobIndexes : WF_vars(j \in jobs /\ FetchReturns(j))

FairSpec == Spec /\ Scheduling /\ HonoursContext

-----------------------------------------------------------------------------
(* Properties.                                                             *)

WorkerPlaces ==
  {"idle", "queued", "normalizing", "fetching", "comparing", "appending",
   "failed", "recording", "setting", "unwinding", "leaving", "gone"}

(* The types of all variables.                                             *)
TypeOK ==
  /\ pc \in {"reading", "launching", "acquiring", "returned"}
  /\ instances \in Seq(Instances)
  /\ worker \in [jobs -> WorkerPlaces]
  /\ actual \in [jobs -> Answers \cup {None}]
  /\ slice \in [jobs -> Seq(jobs)]
  /\ wg \in Nat /\ sem \in Nat
  /\ mu \in jobs \cup {None}
  /\ appended \in Seq(jobs)
  /\ firstErr \in jobs \cup {None}
  /\ concurrency \in Concurrencies /\ cancelled \in BOOLEAN
  /\ cloud \in [Keys -> Answers]
  /\ edits \in 0..MaxEdits
  /\ err \in jobs \cup {None, StateError}

(* Options.Concurrency "bounds simultaneous cloud API lookups": however    *)
(* workers start, fail and finish, no more calls to FetchActual run at     *)
(* once than the semaphore has room for, the default when it is not set.   *)
BoundedLookups ==
  Cardinality({j \in jobs : worker[j] = "fetching"}) <= Capacity(concurrency)

(* When Scan returns no goroutine of it is left, on the error path too: no *)
(* late lookup, no late append to a slice the caller now owns, no token    *)
(* and no lock kept.                                                       *)
NoWorkerOutlivesScan ==
  (pc = "returned" /\ err # StateError) =>
    /\ \A j \in jobs : worker[j] = "gone"
    /\ wg = 0 /\ sem = 0 /\ mu = None

(* Scan is all or nothing.  An error is that of a job that got no answer   *)
(* and comes with the zero report; a report is returned only when every    *)
(* job got its answer, and then the slice it was made of holds the         *)
(* findings of each job that drifted exactly once, none lost to a race.    *)
NoPartialReport ==
  pc = "returned" =>
    IF err # None
    THEN /\ report = ZeroReport
         /\ err # StateError => actual[err] = None
    ELSE /\ \A j \in jobs : actual[j] # None
         /\ Range(appended) = {j \in jobs : Findings(j) # <<>>}
         /\ IsInjective(appended)
         /\ report = Finalize(StableSort(items), Cardinality(jobs))

(* recordErr keeps the first error, though its test and its set are two    *)
(* steps: of workers that fail at the same time, none that saw no error    *)
(* overwrites what another has set meanwhile.                              *)
FirstErrorSticks == [][firstErr # None => firstErr' = firstErr]_firstErr

InStateOrder == Listed(jobs, {q \in jobs \X jobs : q[1] < q[2]})
DistinctKeys == \A i, j \in jobs : expected(i).key = expected(j).key => i = j

(* The order in which workers finish does not show: when no two instances  *)
(* have one key, the report is the one a sequential loop over the state    *)
(* file would have given for the same answers.                             *)
CompletionOrderHidden ==
  (pc = "returned" /\ err = None /\ DistinctKeys) =>
    report = Finalize(StableSort(FlattenSeq(MapSeq(InStateOrder, Findings))),
                      Cardinality(jobs))

(* A scan whose context is cancelled returns, whatever the cloud does: no  *)
(* worker waits for a token or the lock for ever, though the launch loop   *)
(* itself never looks at the context.                                      *)
CancelStops == cancelled ~> pc = "returned"

(* A scan whose every call is answered, well or badly, returns.            *)
Terminates == CloudAnswers => <>(pc = "returned")

Contract == INSTANCE ScanContract WITH
  stage    <- IF pc \in {"launching", "acquiring"} THEN "scanning" ELSE pc,
  observed <- actual

(* The concurrent scan implements its contract: each lookup takes effect   *)
(* at one moment, and the report holds exactly the drift the lookups saw,  *)
(* each finding as often as it was found, in the order of the sort.        *)
ImplementsContract == Contract!Spec
=============================================================================
