----------------------------- MODULE ScanProofs -----------------------------
(***************************************************************************)
(* What module Scan guarantees for every state file, every provider and    *)
(* every concurrency: proofs of its safety invariants.                     *)
(***************************************************************************)
EXTENDS Scan, DiffProofs

HoldsToken ==
  {"normalizing", "fetching", "comparing", "appending", "failed", "recording",
   "setting", "unwinding"}
Holding == {j \in jobs : worker[j] \in HoldsToken}
InGroup == {j \in jobs : worker[j] \notin {"idle", "gone"}}

\* The workers past their critical section, or past the need for one.
Past == {"unwinding", "leaving", "gone"}

\* The semaphore and the WaitGroup count what they are meant to count.
TokensCounted == sem = Cardinality(Holding) /\ sem <= Capacity(concurrency)
GroupCounted == wg = Cardinality(InGroup)

\* The critical sections exclude each other.
Critical == {"appending", "recording", "setting"}
Exclusion == \A j \in jobs : worker[j] \in Critical <=> mu = j

\* A job has an answer from the moment its lookup returned one.
Answered ==
  \A j \in jobs :
    /\ worker[j] \in {"comparing", "appending"} => actual[j] # None
    /\ worker[j] \notin {"comparing", "appending"} \cup Past => actual[j] = None
    /\ worker[j] = "fetching" \/ actual[j] # None => expected(j) # None

\* The slice holds the findings of exactly the drifted jobs that are past
\* their append, once each, and nobody appends to an outdated slice.
Collected ==
  /\ \A j \in jobs : worker[j] = "appending" =>
       slice[j] = appended /\ Findings(j) # <<>>
  /\ \A j \in jobs :
       j \in Range(appended) <=>
         worker[j] \in Past /\ actual[j] # None /\ Findings(j) # <<>>
  /\ IsInjective(appended)

\* An error is recorded once some worker has failed, and only then; what a
\* worker about to record one saw of firstErr still holds.
ErrorsRecorded ==
  /\ \A j \in jobs : worker[j] = "setting" => firstErr = None
  /\ firstErr # None => actual[firstErr] = None /\ worker[firstErr] \in Past
  /\ \A j \in jobs : worker[j] \in Past /\ actual[j] = None => firstErr # None

\* Scan's own goroutine: nothing to join before the file is read, nothing
\* returned before everybody is gone.
MainInv ==
  /\ pc = "reading" => instances = <<>>
  /\ pc # "returned" => report = ZeroReport /\ err = None
  /\ pc = "returned" => \A j \in jobs : worker[j] = "gone"
  /\ pc = "returned" /\ err = StateError => instances = <<>>

IInv ==
  /\ TypeOK
  /\ TokensCounted /\ GroupCounted
  /\ Exclusion /\ Answered /\ Collected /\ ErrorsRecorded
  /\ MainInv /\ NoPartialReport

-----------------------------------------------------------------------------
(* Facts about sets of jobs and about the item slice.                      *)

(* Jobs are positions of the state file: finitely many, none of them None. *)
LEMMA JobsOfFile ==
  ASSUME NEW s \in Seq(Instances)
  PROVE  /\ IsFiniteSet(JobsOf(s)) /\ JobsOf(s) \subseteq Nat \ {0} /\ None \notin JobsOf(s)
         /\ \A j \in JobsOf(s) : s[j] \in Instances
<1>1. DOMAIN s = 1..Len(s) /\ Len(s) \in Nat
  OBVIOUS
<1>2. JobsOf(s) \subseteq 1..Len(s)
  BY <1>1 DEF JobsOf
<1>3. IsFiniteSet(JobsOf(s))
  <2>1. IsFiniteSet(1..Len(s))
    BY <1>1, FS_Interval
  <2>2. QED
    BY <1>2, <2>1, FS_Subset
<1>4. \A j \in JobsOf(s) : s[j] \in Instances
  BY <1>1, <1>2
<1>5. 1..Len(s) \subseteq Nat \ {0}
  BY <1>1
<1>6. JobsOf(s) \subseteq Nat \ {0}
  BY <1>2, <1>5
<1>7. None \notin JobsOf(s)
  BY <1>6, ScanAssumption DEF ScanAssumption
<1>8. QED
  BY <1>3, <1>4, <1>6, <1>7

(* There are finitely many jobs, each of an instance of the state.         *)
LEMMA JobsFinite ==
  ASSUME TypeOK
  PROVE  /\ IsFiniteSet(jobs) /\ jobs \subseteq Nat \ {0} /\ None \notin jobs
         /\ \A j \in jobs : instances[j] \in Instances
BY JobsOfFile DEF TypeOK, jobs

(* One job more, or one less, is one more, or one less, to count.          *)
LEMMA OneMore ==
  ASSUME NEW S, NEW T, IsFiniteSet(S), NEW x, x \notin S, T = S \cup {x}
  PROVE  Cardinality(T) = Cardinality(S) + 1
BY FS_AddElement

(* A set without one of its elements has one less.                         *)
LEMMA OneLess ==
  ASSUME NEW S, NEW T, IsFiniteSet(S), NEW x \in S, T = S \ {x}
  PROVE  Cardinality(T) = Cardinality(S) - 1
BY FS_RemoveElement

(* Appending a job that is not in the slice puts exactly it in, once.      *)
LEMMA AppendOnce ==
  ASSUME NEW S, NEW s \in Seq(S), NEW x \in S
  PROVE  /\ Append(s, x) \in Seq(S)
         /\ \A y : y \in Range(Append(s, x)) <=> y \in Range(s) \/ y = x
         /\ IsInjective(s) /\ x \notin Range(s) => IsInjective(Append(s, x))
<1> DEFINE t == Append(s, x)
<1>1. /\ t \in Seq(S) /\ DOMAIN s = 1..Len(s) /\ DOMAIN t = 1..(Len(s) + 1)
      /\ Len(s) \in Nat /\ t[Len(s) + 1] = x
      /\ \A i \in 1..Len(s) : t[i] = s[i]
  OBVIOUS
<1>2. \A y : y \in Range(t) <=> y \in Range(s) \/ y = x
  <2>1. ASSUME NEW y, y \in Range(t) PROVE y \in Range(s) \/ y = x
    <3>1. PICK i \in 1..(Len(s) + 1) : y = t[i]
      BY <1>1, <2>1 DEF Range
    <3>2. i \in 1..Len(s) \/ i = Len(s) + 1
      BY <1>1
    <3>3. QED
      BY <1>1, <3>1, <3>2 DEF Range
  <2>2. ASSUME NEW y, y \in Range(s) \/ y = x PROVE y \in Range(t)
    <3>1. CASE y \in Range(s)
      <4>1. PICK i \in 1..Len(s) : y = s[i]
        BY <1>1, <3>1 DEF Range
      <4>2. i \in DOMAIN t /\ t[i] = y
        BY <1>1, <4>1
      <4>3. QED
        BY <4>2 DEF Range
    <3>2. CASE y = x
      <4>1. Len(s) + 1 \in DOMAIN t /\ t[Len(s) + 1] = y
        BY <1>1, <3>2
      <4>2. QED
        BY <4>1 DEF Range
    <3>3. QED
      BY <2>2, <3>1, <3>2
  <2>3. QED
    BY <2>1, <2>2
<1>3. ASSUME IsInjective(s), x \notin Range(s) PROVE IsInjective(t)
  <2>1. \A i \in 1..Len(s) : s[i] # x
    BY <1>1, <1>3 DEF Range
  <2>2. \A i, k \in 1..(Len(s) + 1) : t[i] = t[k] => i = k
    BY <1>1, <1>3, <2>1 DEF IsInjective
  <2>3. QED
    BY <1>1, <2>2 DEF IsInjective
<1>4. QED
  BY <1>1, <1>2, <1>3

-----------------------------------------------------------------------------
(* The initial states, and the steps one by one.                           *)

\* The steps of the job goroutines that move no token and leave no group.
Inner(j) ==
  \/ Normalize(j) \/ FetchAnswers(j) \/ FetchFails(j) \/ NothingToAppend(j)
  \/ BeginAppend(j) \/ EndAppend(j)
  \/ BeginRecord(j) \/ SeeNoError(j) \/ SetError(j) \/ KeepError(j)

\* A step that does not read the state file keeps the jobs.
Quiet == UNCHANGED vars
Environment == Cancel \/ \E k \in Keys, a \in Answers : EditCloud(k, a)

(* A step is one of the main goroutine, the environment or one worker.     *)
LEMMA StepCases ==
  ASSUME [Next]_vars
  PROVE  \/ ReadState
         \/ ReadFails \/ ReturnError \/ ReturnReport \/ Environment \/ Quiet
         \/ \E j \in jobs :
              AddToGroup(j) \/ Start(j) \/ Inner(j) \/ ReleaseToken(j) \/ Done(j)
BY DEF Next, Main, Worker, Compute, Inner, Environment, Quiet, Returned

(* The invariant holds before anything has been read.                      *)
LEMMA InitialStates ==
  ASSUME Init
  PROVE  IInv
<1> USE DEF Init, main, shared, local, outside, result
<1>1. jobs = {} /\ DOMAIN instances = {}
  BY DEF jobs, JobsOf
<1>2. TypeOK
  <2>1. <<>> \in Seq(Instances) /\ <<>> \in Seq(jobs)
    OBVIOUS
  <2>2. 0 \in 0..MaxEdits
    BY ScanAssumption DEF ScanAssumption
  <2>3. QED
    BY <1>1, <2>1, <2>2 DEF TypeOK, WorkerPlaces
<1>3. TokensCounted /\ GroupCounted
  <2>1. Holding = {} /\ InGroup = {}
    BY <1>1 DEF Holding, InGroup
  <2>2. 0 <= Capacity(concurrency)
    BY ScanAssumption, <1>2 DEF TypeOK, ScanAssumption, Capacity, DefaultConcurrency
  <2>3. Cardinality({}) = 0
    BY FS_EmptySet
  <2>4. QED
    BY <2>1, <2>2, <2>3 DEF TokensCounted, GroupCounted
<1>4. Exclusion /\ Answered /\ ErrorsRecorded
  BY <1>1 DEF Exclusion, Answered, ErrorsRecorded
<1>5. Collected
  BY <1>1 DEF Collected, IsInjective
<1>6. MainInv /\ NoPartialReport
  BY <1>1 DEF MainInv, NoPartialReport
<1>7. QED
  BY <1>2, <1>3, <1>4, <1>5, <1>6 DEF IInv

(* No step of a job's goroutine, or that starts one, changes which jobs    *)
(* there are, and it moves one goroutine.                                  *)
LEMMA JobStep ==
  ASSUME NEW j \in jobs,
         AddToGroup(j) \/ Start(j) \/ Inner(j) \/ ReleaseToken(j) \/ Done(j)
  PROVE  /\ jobs' = jobs /\ UNCHANGED <<instances, report, err>> 
         /\ worker \in [jobs -> WorkerPlaces] =>
              worker' = [worker EXCEPT ![j] = worker'[j]]
BY DEF jobs, JobsOf, AddToGroup, Start, Inner, Normalize, FetchAnswers, FetchFails,
  NothingToAppend, BeginAppend, EndAppend, BeginRecord, SeeNoError, SetError,
  KeepError, ReleaseToken, Done,
  Step, main, result

(* A scan keeps the concurrency it was called with.                        *)
LEMMA LimitKept ==
  ASSUME [Next]_vars
  PROVE  concurrency' = concurrency
BY DEF Next, Main, Worker, Compute, ReadState, ReadFails, ReturnError, ReturnReport,
  AddToGroup, Start, Normalize, FetchAnswers, FetchFails, NothingToAppend, BeginAppend,
  EndAppend, BeginRecord, SeeNoError, SetError,
  KeepError, ReleaseToken, Done, Cancel, EditCloud, Returned,
  outside, vars

(* The semaphore and the group are counted right after every step: a       *)
(* token is taken and given back once by each worker, on every path, and   *)
(* so is its entry in the group.                                           *)
LEMMA CountStep ==
  ASSUME IInv, [Next]_vars
  PROVE  TokensCounted' /\ GroupCounted' /\ sem' \in Nat /\ wg' \in Nat
<1> USE DEF IInv
<1>1. IsFiniteSet(jobs) /\ IsFiniteSet(Holding) /\ IsFiniteSet(InGroup)
  BY JobsFinite, FS_Subset DEF Holding, InGroup
<1>2. /\ sem = Cardinality(Holding) /\ wg = Cardinality(InGroup)
      /\ sem \in Nat /\ wg \in Nat /\ sem <= Capacity(concurrency)
      /\ Capacity(concurrency) \in Int /\ 0 < Capacity(concurrency)
      /\ concurrency' = concurrency
  BY ScanAssumption, LimitKept
  DEF TypeOK, TokensCounted, GroupCounted, ScanAssumption, Capacity, DefaultConcurrency
<1>3. ASSUME Holding' = Holding, InGroup' = InGroup, sem' = sem, wg' = wg
      PROVE  TokensCounted' /\ GroupCounted' /\ sem' \in Nat /\ wg' \in Nat
  BY <1>2, <1>3 DEF TokensCounted, GroupCounted
<1>4. CASE ReadState
  <2>1. PICK s \in States :
          instances' = s /\ worker' = [j \in JobsOf(s) |-> "idle"]
    BY <1>4 DEF ReadState
  <2>2. Holding' = {} /\ InGroup' = {}
    BY <2>1 DEF Holding, InGroup, HoldsToken, jobs
  <2>3. Holding = {} /\ InGroup = {}
    BY <1>4 DEF ReadState, MainInv, Holding, InGroup, jobs, JobsOf
  <2>4. sem' = sem /\ wg' = wg
    BY <1>4 DEF ReadState, shared
  <2>5. QED
    BY <1>3, <2>2, <2>3, <2>4
<1>5. CASE ReadFails \/ ReturnError \/ ReturnReport \/ Environment \/ Quiet
  <2>1. UNCHANGED <<instances, worker, sem, wg>>
    BY <1>5 DEF ReadFails, ReturnError, ReturnReport, Environment, Cancel, EditCloud,
      Quiet, vars, main, local, shared
  <2>2. QED
    BY <1>3, <2>1 DEF Holding, InGroup, jobs, JobsOf
<1>6. ASSUME NEW j \in jobs,
             AddToGroup(j) \/ Start(j) \/ Inner(j) \/ ReleaseToken(j) \/ Done(j)
      PROVE  TokensCounted' /\ GroupCounted' /\ sem' \in Nat /\ wg' \in Nat
  <2>1. /\ jobs' = jobs /\ worker' = [worker EXCEPT ![j] = worker'[j]]
        /\ worker \in [jobs -> WorkerPlaces]
    BY <1>6, JobStep DEF TypeOK
  <2>2. CASE Inner(j)
    <3>1. /\ sem' = sem /\ wg' = wg
          /\ worker[j] \in HoldsToken /\ worker'[j] \in HoldsToken
      BY <2>1, <2>2 DEF Inner, Normalize, FetchAnswers, FetchFails, NothingToAppend,
        BeginAppend, EndAppend, BeginRecord, SeeNoError, SetError,
        KeepError, Step, HoldsToken, shared
    <3>2. Holding' = Holding
      BY <2>1, <3>1 DEF Holding
    <3>3. InGroup' = InGroup
      BY <2>1, <3>1 DEF InGroup, HoldsToken
    <3>4. QED
      BY <1>3, <3>1, <3>2, <3>3
  <2>3. CASE AddToGroup(j)
    <3>1. /\ sem' = sem /\ wg' = wg + 1
          /\ worker[j] = "idle" /\ worker'[j] = "queued"
      BY <2>1, <2>3 DEF AddToGroup, Launched
    <3>2. Holding' = Holding
      BY <2>1, <3>1 DEF Holding, HoldsToken
    <3>3. InGroup' = InGroup \cup {j} /\ j \notin InGroup
      BY <2>1, <3>1 DEF InGroup
    <3>4. QED
      BY <1>1, <1>2, <3>1, <3>2, <3>3, OneMore DEF TokensCounted, GroupCounted
  <2>4. CASE Start(j)
    <3>1. /\ sem' = sem + 1 /\ wg' = wg /\ sem < Capacity(concurrency)
          /\ worker[j] = "queued" /\ worker'[j] = "normalizing"
      BY <2>1, <2>4 DEF Start, TokenFree
    <3>2. Holding' = Holding \cup {j} /\ j \notin Holding
      BY <2>1, <3>1 DEF Holding, HoldsToken
    <3>3. InGroup' = InGroup
      BY <2>1, <3>1 DEF InGroup
    <3>4. QED
      BY <1>1, <1>2, <3>1, <3>2, <3>3, OneMore DEF TokensCounted, GroupCounted
  <2>5. CASE ReleaseToken(j)
    <3>1. /\ sem' = sem - 1 /\ wg' = wg
          /\ worker[j] = "unwinding" /\ worker'[j] = "leaving"
      BY <2>1, <2>5 DEF ReleaseToken, Step, TokensAfterRelease
    <3>2. Holding' = Holding \ {j} /\ j \in Holding
      BY <2>1, <3>1 DEF Holding, HoldsToken
    <3>3. InGroup' = InGroup
      BY <2>1, <3>1 DEF InGroup
    <3>4. Cardinality(Holding') = sem - 1 /\ Cardinality(Holding') \in Nat
      BY <1>1, <1>2, <3>2, OneLess, FS_RemoveElement, FS_CardinalityType
    <3>5. QED
      BY <1>2, <3>1, <3>3, <3>4 DEF TokensCounted, GroupCounted
  <2>6. CASE Done(j)
    <3>1. /\ wg' = wg - 1 /\ sem' = sem
          /\ worker[j] = "leaving" /\ worker'[j] = "gone"
      BY <2>1, <2>6 DEF Done, Step
    <3>2. InGroup' = InGroup \ {j} /\ j \in InGroup
      BY <2>1, <3>1 DEF InGroup
    <3>3. Holding' = Holding
      BY <2>1, <3>1 DEF Holding, HoldsToken
    <3>4. Cardinality(InGroup') = wg - 1 /\ Cardinality(InGroup') \in Nat
      BY <1>1, <1>2, <3>2, OneLess, FS_RemoveElement, FS_CardinalityType
    <3>5. QED
      BY <1>2, <3>1, <3>3, <3>4 DEF TokensCounted, GroupCounted
  <2>7. QED
    BY <1>6, <2>2, <2>3, <2>4, <2>5, <2>6
<1>7. QED
  BY <1>4, <1>5, <1>6, StepCases

(* Every step keeps the types.                                             *)
LEMMA TypeStep ==
  ASSUME IInv, [Next]_vars
  PROVE  TypeOK'
<1> USE DEF IInv, main, shared, local, outside, result
<1>1. /\ jobs \subseteq Nat \ {0} /\ None \notin jobs
      /\ \A j \in jobs : instances[j] \in Instances
  BY JobsFinite
<1>2. CASE ReadState
  <2>1. PICK s \in States :
          /\ instances' = s
          /\ worker' = [j \in JobsOf(s) |-> "idle"]
          /\ actual' = [j \in JobsOf(s) |-> None]
          /\ slice'  = [j \in JobsOf(s) |-> <<>>]
    BY <1>2 DEF ReadState
  <2>2. jobs' = JobsOf(s) /\ s \in Seq(Instances)
    BY <2>1, ScanAssumption DEF jobs, ScanAssumption
  <2>3. jobs = {} /\ appended = <<>>
    BY <1>2 DEF MainInv, ReadState, jobs, JobsOf, TypeOK
  <2>4. QED
    BY <1>2, <2>1, <2>2, <2>3 DEF TypeOK, ReadState, WorkerPlaces, MainInv
<1>3. CASE ReadFails \/ ReturnError \/ ReturnReport \/ Environment \/ Quiet
  <2>1. jobs' = jobs
    BY <1>3 DEF jobs, JobsOf, ReadFails, ReturnError, ReturnReport, Environment,
      Cancel, EditCloud, Quiet, vars
  <2>2. CASE ReadFails \/ ReturnError \/ ReturnReport \/ Quiet
    BY <2>1, <2>2 DEF TypeOK, ReadFails, ReturnError, ReturnReport, Quiet, vars
  <2>3. CASE Environment
    <3>1. CASE Cancel
      BY <2>1, <3>1 DEF TypeOK, Cancel
    <3>2. ASSUME NEW k \in Keys, NEW a \in Answers, EditCloud(k, a) PROVE TypeOK'
      <4>1. cloud' \in [Keys -> Answers]
        BY <3>2 DEF TypeOK, EditCloud
      <4>2. edits' \in 0..MaxEdits
        BY <3>2, ScanAssumption DEF TypeOK, EditCloud, ScanAssumption
      <4>3. QED
        BY <2>1, <3>2, <4>1, <4>2 DEF TypeOK, EditCloud
    <3>3. QED
      BY <2>3, <3>1, <3>2 DEF Environment
  <2>4. QED
    BY <1>3, <2>2, <2>3
<1>4. ASSUME NEW j \in jobs,
             AddToGroup(j) \/ Start(j) \/ Inner(j) \/ ReleaseToken(j) \/ Done(j)
      PROVE  TypeOK'
  <2> USE DEF TypeOK, WorkerPlaces, Step
  <2>1. jobs' = jobs /\ sem' \in Nat /\ wg' \in Nat
    BY <1>4, JobStep, CountStep
  <2>2. CASE AddToGroup(j)
    BY <2>1, <2>2 DEF AddToGroup
  <2>3. CASE Start(j)
    BY <2>1, <2>3 DEF Start
  <2>4. CASE Normalize(j) \/ FetchFails(j) \/ NothingToAppend(j) \/ BeginRecord(j)
    BY <2>1, <2>4 DEF Normalize, FetchFails, NothingToAppend, BeginRecord
  <2>5. CASE SeeNoError(j) \/ SetError(j) \/ KeepError(j)
    BY <2>1, <2>5 DEF SeeNoError, SetError, KeepError
  <2>6. CASE FetchAnswers(j)
    <3>1. expected(j).key \in Keys
      BY <1>1, <2>6, ScanAssumption DEF FetchAnswers, Answered, ScanAssumption, expected
    <3>2. QED
      BY <2>1, <2>6, <3>1 DEF FetchAnswers
  <2>7. CASE BeginAppend(j)
    BY <2>1, <2>7 DEF BeginAppend
  <2>8. CASE EndAppend(j)
    <3>1. appended' \in Seq(jobs) /\ <<>> \in Seq(jobs)
      BY <2>8, AppendOnce DEF EndAppend
    <3>2. QED
      BY <2>1, <2>8, <3>1 DEF EndAppend
  <2>9. CASE ReleaseToken(j) \/ Done(j)
    BY <2>1, <2>9 DEF ReleaseToken, Done
  <2>10. QED
    BY <1>4, <2>2, <2>3, <2>4, <2>5, <2>6, <2>7, <2>8, <2>9 DEF Inner
<1>5. QED
  BY <1>2, <1>3, <1>4, StepCases

(* The lock: whoever is in a critical section holds it.                    *)
LEMMA LockStep ==
  ASSUME IInv, [Next]_vars
  PROVE  Exclusion'
<1> USE DEF IInv
<1>1. None \notin jobs
  BY JobsFinite
<1>2. CASE ReadState
  <2>1. jobs = {} /\ mu' = None
    BY <1>2 DEF ReadState, MainInv, jobs, JobsOf, TypeOK, shared
  <2>2. None \notin jobs'
    BY <1>2, JobsOfFile, ScanAssumption DEF ReadState, jobs, ScanAssumption
  <2>3. \A j \in jobs' : worker'[j] = "idle"
    BY <1>2 DEF ReadState, jobs
  <2>4. QED
    BY <2>1, <2>2, <2>3 DEF Exclusion, Critical
<1>3. CASE ReadFails \/ ReturnError \/ ReturnReport \/ Environment \/ Quiet
  <2>1. UNCHANGED <<instances, worker, mu>>
    BY <1>3 DEF ReadFails, ReturnError, ReturnReport, Environment, Cancel, EditCloud,
      Quiet, vars, main, local, shared
  <2>2. QED
    BY <2>1 DEF Exclusion, jobs, JobsOf
<1>4. ASSUME NEW j \in jobs,
             AddToGroup(j) \/ Start(j) \/ Inner(j) \/ ReleaseToken(j) \/ Done(j)
      PROVE  Exclusion'
  <2>1. jobs' = jobs /\ worker \in [jobs -> WorkerPlaces]
        /\ worker' = [worker EXCEPT ![j] = worker'[j]]
    BY <1>4, JobStep DEF TypeOK
  <2>2. CASE BeginAppend(j) \/ BeginRecord(j)
    BY <1>1, <2>1, <2>2 DEF BeginAppend, BeginRecord, Unlocked, Step, Exclusion, Critical
  <2>3. CASE EndAppend(j) \/ SetError(j) \/ KeepError(j)
    BY <1>1, <2>1, <2>3 DEF EndAppend, SetError, KeepError, Step, Exclusion, Critical
  <2>4. CASE AddToGroup(j) \/ Start(j) \/ Normalize(j) \/ FetchAnswers(j) \/ FetchFails(j)
             \/ NothingToAppend(j) \/ SeeNoError(j) \/ ReleaseToken(j) \/ Done(j)
    BY <1>1, <2>1, <2>4 DEF AddToGroup, Start, Launched, Normalize, FetchAnswers, FetchFails,
      NothingToAppend, SeeNoError, ReleaseToken, Done, Step, Exclusion, Critical, shared
  <2>5. QED
    BY <1>4, <2>2, <2>3, <2>4 DEF Inner
<1>5. QED
  BY <1>2, <1>3, <1>4, StepCases

(* Answers: a job has one from the return of its lookup on.                *)
LEMMA AnswerStep ==
  ASSUME IInv, [Next]_vars
  PROVE  Answered'
<1> USE DEF IInv
<1>1. CASE ReadState
  BY <1>1 DEF ReadState, Answered, Past, jobs
<1>2. CASE ReadFails \/ ReturnError \/ ReturnReport \/ Environment \/ Quiet
  <2>1. UNCHANGED <<instances, worker, actual>>
    BY <1>2 DEF ReadFails, ReturnError, ReturnReport, Environment, Cancel, EditCloud,
      Quiet, vars, main, local
  <2>2. QED
    BY <2>1 DEF Answered, jobs, JobsOf, expected
<1>3. ASSUME NEW j \in jobs,
             AddToGroup(j) \/ Start(j) \/ Inner(j) \/ ReleaseToken(j) \/ Done(j)
      PROVE  Answered'
  <2>1. /\ jobs' = jobs /\ instances' = instances /\ worker \in [jobs -> WorkerPlaces]
        /\ worker' = [worker EXCEPT ![j] = worker'[j]]
        /\ \A i \in jobs : expected(i)' = expected(i)
    BY <1>3, JobStep DEF TypeOK, expected
  <2>2. CASE FetchAnswers(j)
    <3>1. actual'[j] # None
      <4>1. expected(j).key \in Keys
        BY <2>2, JobsFinite, ScanAssumption
        DEF FetchAnswers, Step, Answered, ScanAssumption, expected
      <4>2. QED
        BY <2>2, <4>1, ScanAssumption DEF FetchAnswers, TypeOK, ScanAssumption
    <3>2. actual' = [actual EXCEPT ![j] = actual'[j]] /\ worker'[j] = "comparing"
      BY <2>1, <2>2 DEF FetchAnswers, Step, TypeOK
    <3>3. /\ expected(j) # None
          /\ \A i \in jobs : i # j => worker'[i] = worker[i] /\ actual'[i] = actual[i]
      BY <2>1, <2>2, <3>2 DEF FetchAnswers, Step, Answered, TypeOK
    <3>4. QED
      BY <2>1, <3>1, <3>2, <3>3 DEF Answered, Past
  <2>3. CASE Normalize(j)
    BY <2>1, <2>3 DEF Normalize, Step, Answered, Past
  <2>4. CASE AddToGroup(j) \/ Start(j) \/ FetchFails(j) \/ NothingToAppend(j)
             \/ BeginAppend(j) \/ EndAppend(j)
  \/ BeginRecord(j) \/ SeeNoError(j) \/ SetError(j) \/ KeepError(j)
             \/ ReleaseToken(j) \/ Done(j)
    BY <2>1, <2>4 DEF AddToGroup, Start, Launched, FetchFails, NothingToAppend, BeginAppend,
      EndAppend, BeginRecord, SeeNoError, SetError,
      KeepError, ReleaseToken, Done, Step, Answered, Past
  <2>5. QED
    BY <1>3, <2>2, <2>3, <2>4 DEF Inner
<1>4. QED
  BY <1>1, <1>2, <1>3, StepCases

(* The findings of a job depend on its instance and its answer alone.      *)
LEMMA FindingsKept ==
  ASSUME NEW i, instances' = instances, actual'[i] = actual[i]
  PROVE  Findings(i)' = Findings(i)
BY DEF Findings, expected

(* The item slice: no finding is lost to a concurrent append, none is      *)
(* appended twice.                                                         *)
LEMMA CollectStep ==
  ASSUME IInv, [Next]_vars
  PROVE  Collected'
<1> USE DEF IInv
<1>1. CASE ReadState
  <2>1. appended' = <<>> /\ \A j \in jobs' : worker'[j] = "idle"
    BY <1>1 DEF ReadState, MainInv, jobs, JobsOf, TypeOK, shared
  <2>2. QED
    BY <2>1 DEF Collected, Past, IsInjective, Range
<1>2. CASE ReadFails \/ ReturnError \/ ReturnReport \/ Environment \/ Quiet
  <2>1. UNCHANGED <<instances, worker, actual, slice, appended>>
    BY <1>2 DEF ReadFails, ReturnError, ReturnReport, Environment, Cancel, EditCloud,
      Quiet, vars, main, local, shared
  <2>2. jobs' = jobs /\ \A i \in jobs : Findings(i)' = Findings(i)
    BY <2>1, FindingsKept DEF jobs, JobsOf
  <2>3. QED
    BY <2>1, <2>2 DEF Collected
<1>3. ASSUME NEW j \in jobs,
             AddToGroup(j) \/ Start(j) \/ Inner(j) \/ ReleaseToken(j) \/ Done(j)
      PROVE  Collected'
  <2>1. /\ jobs' = jobs /\ instances' = instances /\ worker \in [jobs -> WorkerPlaces]
        /\ worker' = [worker EXCEPT ![j] = worker'[j]]
    BY <1>3, JobStep DEF TypeOK
  <2>2. CASE FetchAnswers(j)
    <3>1. /\ worker[j] = "fetching" /\ worker'[j] = "comparing"
          /\ \A i \in jobs : i # j => actual'[i] = actual[i]
          /\ UNCHANGED <<appended, slice>>
      BY <2>1, <2>2 DEF FetchAnswers, Step, TypeOK, shared
    <3>2. \A i \in jobs : i # j => Findings(i)' = Findings(i)
      BY <2>1, <3>1, FindingsKept
    <3>3. QED
      BY <2>1, <3>1, <3>2 DEF Collected, Past
  <2>3. CASE ~FetchAnswers(j)
    <3>1. actual' = actual
      BY <1>3, <2>3 DEF AddToGroup, Start, Inner, Normalize, FetchFails, NothingToAppend,
        BeginAppend, EndAppend, BeginRecord, SeeNoError, SetError, KeepError, ReleaseToken, Done
    <3>2. \A i \in jobs : Findings(i)' = Findings(i)
      BY <2>1, <3>1, FindingsKept
    <3>3. CASE BeginAppend(j)
      BY <2>1, <3>1, <3>2, <3>3 DEF BeginAppend, Step, Collected, Past, TypeOK
    <3>4. CASE EndAppend(j)
      <4>1. /\ worker[j] = "appending" /\ worker'[j] = "unwinding" /\ mu = j
            /\ appended' = Append(appended, j) /\ j \notin Range(appended)
            /\ actual[j] # None /\ Findings(j) # <<>>
        BY <3>4 DEF EndAppend, Step, Collected, Exclusion, Critical, Past, Answered, TypeOK
      <4>2. /\ IsInjective(appended')
            /\ \A i \in jobs : i \in Range(appended') <=> i \in Range(appended) \/ i = j
        BY <4>1, AppendOnce DEF Collected, TypeOK
      <4>3. \A i \in jobs : i # j => worker'[i] # "appending"
        BY <2>1, <4>1 DEF Exclusion, Critical
      <4>4. QED
        BY <2>1, <3>1, <3>2, <4>1, <4>2, <4>3 DEF Collected, Past
    <3>5. CASE NothingToAppend(j)
      BY <2>1, <3>1, <3>2, <3>5 DEF NothingToAppend, Step, Collected, Past, shared
    <3>6. CASE AddToGroup(j) \/ Start(j) \/ Normalize(j) \/ FetchFails(j)
               \/ BeginRecord(j) \/ SeeNoError(j) \/ SetError(j) \/ KeepError(j)
               \/ ReleaseToken(j) \/ Done(j)
      <4>1. UNCHANGED <<appended, slice>> /\ worker'[j] # "appending"
        BY <2>1, <3>6 DEF AddToGroup, Start, Normalize, FetchFails, BeginRecord,
          SeeNoError, SetError, KeepError, ReleaseToken, Done, Step, shared
      <4>2. (worker'[j] \in Past /\ actual[j] # None) <=> (worker[j] \in Past /\ actual[j] # None)
        BY <2>1, <3>6 DEF AddToGroup, Start, Launched, Normalize, FetchFails, BeginRecord,
          SeeNoError, SetError, KeepError, ReleaseToken, Done, Step, Past, Answered
      <4>3. QED
        BY <2>1, <3>1, <3>2, <4>1, <4>2 DEF Collected
    <3>7. QED
      BY <1>3, <2>3, <3>3, <3>4, <3>5, <3>6 DEF Inner
  <2>4. QED
    BY <2>2, <2>3
<1>4. QED
  BY <1>1, <1>2, <1>3, StepCases

(* The first error: set by a failed job, set once some job has failed.     *)
LEMMA ErrorStep ==
  ASSUME IInv, [Next]_vars
  PROVE  ErrorsRecorded' /\ (firstErr # None => firstErr' = firstErr)
<1> USE DEF IInv
<1>1. None \notin jobs
  BY JobsFinite
<1>2. CASE ReadState
  <2>1. /\ firstErr' = firstErr /\ jobs = {} /\ \A j \in jobs' : worker'[j] = "idle"
    BY <1>2 DEF ReadState, MainInv, jobs, JobsOf, TypeOK, shared
  <2>2. QED
    BY <2>1 DEF ErrorsRecorded, Past, TypeOK
<1>3. CASE ReadFails \/ ReturnError \/ ReturnReport \/ Environment \/ Quiet
  <2>1. UNCHANGED <<instances, worker, actual, firstErr>>
    BY <1>3 DEF ReadFails, ReturnError, ReturnReport, Environment, Cancel, EditCloud,
      Quiet, vars, main, local, shared
  <2>2. QED
    BY <2>1 DEF ErrorsRecorded, jobs, JobsOf
<1>4. ASSUME NEW j \in jobs,
             AddToGroup(j) \/ Start(j) \/ Inner(j) \/ ReleaseToken(j) \/ Done(j)
      PROVE  ErrorsRecorded' /\ (firstErr # None => firstErr' = firstErr)
  <2>1. /\ jobs' = jobs /\ worker \in [jobs -> WorkerPlaces]
        /\ worker' = [worker EXCEPT ![j] = worker'[j]]
        /\ firstErr \in jobs \cup {None}
    BY <1>4, JobStep DEF TypeOK
  <2>2. CASE SetError(j)
    <3>1. /\ worker[j] = "setting" /\ worker'[j] = "unwinding" /\ actual' = actual
          /\ actual[j] = None /\ firstErr = None /\ firstErr' = j
      BY <2>1, <2>2 DEF SetError, Step, Answered, Past, ErrorsRecorded
    <3>2. mu = j /\ \A i \in jobs : i # j => worker[i] # "setting"
      BY <3>1 DEF Exclusion, Critical
    <3>3. QED
      BY <1>1, <2>1, <3>1, <3>2 DEF ErrorsRecorded, Past
  <2>3. CASE FetchAnswers(j)
    <3>1. /\ worker[j] = "fetching" /\ worker'[j] = "comparing" /\ firstErr' = firstErr
          /\ \A i \in jobs : i # j => actual'[i] = actual[i]
      BY <2>1, <2>3 DEF FetchAnswers, Step, shared, TypeOK
    <3>2. QED
      BY <2>1, <3>1 DEF ErrorsRecorded, Past
  <2>4. CASE NothingToAppend(j) \/ EndAppend(j)
    <3>1. /\ actual' = actual /\ firstErr' = firstErr /\ actual[j] # None
          /\ worker[j] \notin Past /\ worker'[j] = "unwinding"
      BY <2>1, <2>4 DEF NothingToAppend, EndAppend, Step, shared, Answered, Past
    <3>2. QED
      BY <2>1, <3>1 DEF ErrorsRecorded
  <2>5. CASE AddToGroup(j) \/ Start(j) \/ Normalize(j) \/ FetchFails(j) \/ BeginAppend(j)
             \/ BeginRecord(j) \/ SeeNoError(j) \/ ReleaseToken(j) \/ Done(j)
    <3>1. /\ actual' = actual /\ firstErr' = firstErr
          /\ worker'[j] \in Past <=> worker[j] \in Past
          /\ worker'[j] = "setting" => firstErr = None
      BY <2>1, <2>5 DEF AddToGroup, Start, Launched, Normalize, FetchFails, BeginAppend,
        BeginRecord, SeeNoError, ReleaseToken, Done, Step, shared, Past
    <3>2. QED
      BY <2>1, <3>1 DEF ErrorsRecorded
  <2>6. CASE KeepError(j)
    <3>1. /\ actual' = actual /\ firstErr' = firstErr /\ firstErr # None
          /\ worker'[j] = "unwinding"
      BY <2>1, <2>6 DEF KeepError, Step
    <3>2. QED
      BY <2>1, <3>1 DEF ErrorsRecorded, Past
  <2>7. QED
    BY <1>4, <2>2, <2>3, <2>4, <2>5, <2>6 DEF Inner
<1>5. QED
  BY <1>2, <1>3, <1>4, StepCases

\* When the group is empty after the loop, every worker is gone.
LEMMA AllGone ==
  ASSUME IInv, Joined
  PROVE  \A j \in jobs : worker[j] = "gone"
<1>1. IsFiniteSet(InGroup) /\ Cardinality(InGroup) = 0
  BY JobsFinite, FS_Subset DEF IInv, Joined, GroupCounted, InGroup
<1>2. InGroup = {}
  BY <1>1, FS_EmptySet
<1>3. QED
  BY <1>2 DEF InGroup, Joined, Launched

(* What Scan returns, and that nothing happens to it afterwards.           *)
LEMMA ReturnStep ==
  ASSUME IInv, [Next]_vars
  PROVE  MainInv' /\ NoPartialReport'
<1> USE DEF IInv
<1>1. /\ jobs \subseteq Nat \ {0} /\ None \notin jobs /\ None # StateError
  BY JobsFinite, ScanAssumption DEF ScanAssumption, StateError
<1>2. CASE ReadState
  BY <1>2 DEF ReadState, MainInv, NoPartialReport, result
<1>3. CASE ReadFails
  <2>1. jobs' = {} /\ instances' = <<>> /\ ZeroReport' = ZeroReport
    BY <1>3 DEF ReadFails, MainInv, jobs, JobsOf, ZeroReport
  <2>2. QED
    BY <1>1, <1>3, <2>1 DEF ReadFails, MainInv, NoPartialReport
<1>4. CASE ReturnError
  <2>1. \A j \in jobs : worker[j] = "gone"
    BY <1>4, AllGone DEF ReturnError
  <2>2. UNCHANGED <<instances, worker, actual, report>> /\ jobs' = jobs
        /\ pc' = "returned" /\ err' = firstErr /\ firstErr # None /\ firstErr \in jobs
    BY <1>4 DEF ReturnError, local, jobs, JobsOf, TypeOK
  <2>3. report = ZeroReport /\ actual[firstErr] = None /\ firstErr # StateError
    BY <1>1, <1>4, <2>2 DEF MainInv, ReturnError, Joined, ErrorsRecorded, StateError
  <2>4. QED
    BY <2>1, <2>2, <2>3 DEF MainInv, NoPartialReport, ZeroReport
<1>5. CASE ReturnReport
  <2>1. \A j \in jobs : worker[j] = "gone"
    BY <1>5, AllGone DEF ReturnReport
  <2>2. UNCHANGED <<instances, worker, actual, appended, err>> /\ jobs' = jobs
        /\ pc' = "returned" /\ report' = Finalize(StableSort(items), Cardinality(jobs))
        /\ firstErr = None /\ err = None
    BY <1>5 DEF ReturnReport, Arranged, local, shared, jobs, JobsOf, MainInv, Joined
  <2>3. \A j \in jobs : actual[j] # None
    BY <2>1, <2>2 DEF ErrorsRecorded, Past
  <2>4. Range(appended) = {j \in jobs : Findings(j) # <<>>} /\ IsInjective(appended)
    <3>1. Range(appended) \subseteq jobs
      BY DEF Range, TypeOK
    <3>2. QED
      BY <2>1, <2>3, <3>1 DEF Collected, Past
  <2>5. items' = items /\ \A j \in jobs : Findings(j)' = Findings(j)
    BY <2>2 DEF items, Findings, expected
  <2>6. MainInv'
    BY <1>1, <2>1, <2>2 DEF MainInv
  <2>7. NoPartialReport'
    BY <2>2, <2>3, <2>4, <2>5 DEF NoPartialReport
  <2>8. QED
    BY <2>6, <2>7
<1>6. CASE Environment \/ Quiet
  <2>1. UNCHANGED <<pc, instances, worker, actual, appended, report, err>>
    BY <1>6 DEF Environment, Cancel, EditCloud, Quiet, vars, main, local, shared, result
  <2>2. /\ jobs' = jobs /\ items' = items /\ ZeroReport' = ZeroReport
        /\ \A j \in jobs : Findings(j)' = Findings(j)
    BY <2>1 DEF jobs, JobsOf, items, Findings, expected, ZeroReport
  <2>3. MainInv'
    BY <2>1, <2>2 DEF MainInv
  <2>4. NoPartialReport'
    BY <2>1, <2>2 DEF NoPartialReport
  <2>5. QED
    BY <2>3, <2>4
<1>7. ASSUME NEW j \in jobs,
             AddToGroup(j) \/ Start(j) \/ Inner(j) \/ ReleaseToken(j) \/ Done(j)
      PROVE  MainInv' /\ NoPartialReport'
  <2>1. worker[j] # "gone"
    BY <1>7 DEF AddToGroup, Start, Launched, Inner, Normalize, FetchAnswers, FetchFails,
      NothingToAppend, BeginAppend, EndAppend, BeginRecord, SeeNoError, SetError,
      KeepError, ReleaseToken, Done, Step
  <2>2. pc \notin {"returned", "reading"}
    BY <2>1 DEF MainInv, jobs, JobsOf
  <2>3. pc' \notin {"returned", "reading"} /\ UNCHANGED <<report, err>>
    BY <1>7, <2>2, JobStep DEF AddToGroup, Start, Inner, Normalize, FetchAnswers, FetchFails,
      NothingToAppend, BeginAppend, EndAppend, BeginRecord, SeeNoError, SetError,
      KeepError, ReleaseToken, Done, main
  <2>4. QED
    BY <2>2, <2>3 DEF MainInv, NoPartialReport, ZeroReport
<1>8. QED
  BY <1>2, <1>3, <1>4, <1>5, <1>6, <1>7, StepCases

-----------------------------------------------------------------------------
(* Theorems.                                                               *)

(* The inductive invariant holds in every reachable state.                 *)
THEOREM Inductive == Spec => []IInv
<1>1. Init => IInv
  BY InitialStates
<1>2. IInv /\ [Next]_vars => IInv'
  BY TypeStep, CountStep, LockStep, AnswerStep, CollectStep, ErrorStep, ReturnStep DEF IInv
<1>3. QED
  BY <1>1, <1>2, PTL DEF Spec

(* Every variable keeps its type.                                          *)
THEOREM TypeCorrect == Spec => []TypeOK
BY Inductive, PTL DEF IInv

(* Never more lookups at once than the concurrency allows, whatever the    *)
(* state file and however workers fail.                                    *)
THEOREM LookupsBounded == Spec => []BoundedLookups
<1>1. IInv => BoundedLookups
  <2> SUFFICES ASSUME IInv PROVE BoundedLookups
    OBVIOUS
  <2> DEFINE Fetching == {j \in jobs : worker[j] = "fetching"}
  <2>1. IsFiniteSet(Holding) /\ Fetching \subseteq Holding
    BY JobsFinite, FS_Subset DEF IInv, Holding, HoldsToken
  <2>2. Cardinality(Fetching) <= Cardinality(Holding) /\ IsFiniteSet(Fetching)
    BY <2>1, FS_Subset
  <2>3. Cardinality(Fetching) \in Nat /\ Cardinality(Holding) \in Nat
    BY <2>1, <2>2, FS_CardinalityType
  <2>4. Cardinality(Holding) <= Capacity(concurrency) /\ Capacity(concurrency) \in Int
    BY ScanAssumption
    DEF IInv, TypeOK, TokensCounted, ScanAssumption, Capacity, DefaultConcurrency
  <2>5. QED
    BY <2>2, <2>3, <2>4 DEF BoundedLookups
<1>2. QED
  BY <1>1, Inductive, PTL

(* No goroutine, token or lock of a scan is left when it returns.          *)
THEOREM NoWorkerLeft == Spec => []NoWorkerOutlivesScan
<1>1. IInv => NoWorkerOutlivesScan
  <2> SUFFICES ASSUME IInv, pc = "returned", err # StateError
               PROVE  (\A j \in jobs : worker[j] = "gone") /\ wg = 0 /\ sem = 0 /\ mu = None
    BY DEF NoWorkerOutlivesScan
  <2>1. \A j \in jobs : worker[j] = "gone"
    BY DEF IInv, MainInv
  <2>2. Holding = {} /\ InGroup = {}
    BY <2>1 DEF Holding, InGroup, HoldsToken
  <2>3. wg = 0 /\ sem = 0
    BY <2>2, FS_EmptySet DEF IInv, TokensCounted, GroupCounted
  <2>4. mu = None
    BY <2>1 DEF IInv, Exclusion, Critical, TypeOK
  <2>5. QED
    BY <2>1, <2>3, <2>4
<1>2. QED
  BY <1>1, Inductive, PTL

(* Scan returns one error and nothing else, or the drift of every job.     *)
THEOREM AllOrNothing == Spec => []NoPartialReport
BY Inductive, PTL DEF IInv

(* The first recorded error is never replaced.                             *)
THEOREM FirstErrorKept == Spec => FirstErrorSticks
<1>1. IInv /\ [Next]_vars => [firstErr # None => firstErr' = firstErr]_firstErr
  BY ErrorStep
<1>2. QED
  BY <1>1, Inductive, PTL DEF Spec, FirstErrorSticks

-----------------------------------------------------------------------------
(* What the report holds.                                                  *)

FindingsOf == [j \in jobs |-> Findings(j)]
AnyItem == UNION {MayReport(expected(j), actual[j]) : j \in jobs}

(* Once every job has its answer, their findings can be sorted, and each   *)
(* is about the key of its job.                                            *)
LEMMA FindingsKnown ==
  ASSUME IInv, \A j \in jobs : actual[j] # None
  PROVE  /\ FindingsOf \in [jobs -> Seq(AnyItem)]
         /\ \A x \in AnyItem : Sortable(x)
         /\ \A j \in jobs : \A i \in DOMAIN Findings(j) : Findings(j)[i].key = expected(j).key
<1>1. ASSUME NEW j \in jobs
      PROVE  /\ NamesKnown(expected(j), actual[j]) /\ expected(j).key \in Keys
             /\ actual[j].found \in BOOLEAN
  <2>1. expected(j) # None /\ instances[j] \in Instances
    BY JobsFinite DEF IInv, Answered
  <2>2. actual[j] \in Answers
    BY DEF IInv, TypeOK
  <2>3. QED
    BY <2>1, <2>2, ScanAssumption DEF ScanAssumption, expected, NamesKnown
<1>2. ASSUME NEW j \in jobs
      PROVE  /\ Findings(j) \in Seq(MayReport(expected(j), actual[j]))
             /\ \A x \in MayReport(expected(j), actual[j]) :
                  Sortable(x) /\ x.key = expected(j).key
  BY <1>1, CompareSortable DEF Findings
<1>3. ASSUME NEW j \in jobs PROVE Findings(j) \in Seq(AnyItem)
  <2>1. MayReport(expected(j), actual[j]) \subseteq AnyItem
    BY DEF AnyItem
  <2>2. QED
    BY <1>2, <2>1, SeqOfMore
<1>4. FindingsOf \in [jobs -> Seq(AnyItem)]
  BY <1>3 DEF FindingsOf
<1>5. \A x \in AnyItem : Sortable(x)
  BY <1>2 DEF AnyItem
<1>6. \A j \in jobs : \A i \in DOMAIN Findings(j) :
        Findings(j)[i] \in MayReport(expected(j), actual[j])
  BY <1>2
<1>7. QED
  BY <1>2, <1>4, <1>5, <1>6

(* The item slice gathers all findings when no drifted job is missing.     *)
LEMMA SliceGathers ==
  ASSUME IInv, \A j \in jobs : actual[j] # None,
         NEW order \in Seq(jobs), IsInjective(order),
         \A j \in jobs : Findings(j) # <<>> => j \in Range(order)
  PROVE  /\ FlattenSeq([i \in DOMAIN order |-> Findings(order[i])]) \in Seq(AnyItem)
         /\ \E at : Gathered(FlattenSeq([i \in DOMAIN order |-> Findings(order[i])]),
                             jobs, FindingsOf, at)
<1>1. FindingsOf \in [jobs -> Seq(AnyItem)]
  BY FindingsKnown
<1>2. \A j \in jobs : FindingsOf[j] = Findings(j)
  BY DEF FindingsOf
<1>3. [i \in DOMAIN order |-> Findings(order[i])] = [i \in DOMAIN order |-> FindingsOf[order[i]]]
  <2>1. \A i \in DOMAIN order : order[i] \in jobs
    OBVIOUS
  <2>2. QED
    BY <1>2, <2>1
<1>4. \A j \in jobs : FindingsOf[j] # <<>> => j \in Range(order)
  BY <1>2
<1> DEFINE ss == [i \in DOMAIN order |-> Findings(order[i])]
<1>5. /\ ss \in [DOMAIN order -> Seq(AnyItem)]
      /\ \A i \in DOMAIN order : ss[i] = FindingsOf[order[i]]
  BY <1>1, <1>3
<1> HIDE DEF ss
<1>6. FlattenSeq(ss) \in Seq(AnyItem) /\ \E at : Gathered(FlattenSeq(ss), jobs, FindingsOf, at)
  BY <1>1, <1>4, <1>5, FlattenGathers
<1>7. QED
  BY <1>6 DEF ss

(* The jobs in the order of the state file, each once.                     *)
LEMMA StateOrder ==
  ASSUME IInv
  PROVE  InStateOrder \in Seq(jobs) /\ IsInjective(InStateOrder) /\ Range(InStateOrder) = jobs
<1> DEFINE R == {q \in jobs \X jobs : q[1] < q[2]}
<1>1. IsFiniteSet(jobs) /\ jobs \subseteq Nat
  BY JobsFinite DEF IInv
<1>2. \A x, y \in jobs : <<x, y>> \in R <=> x < y
  OBVIOUS
<1>3. Orders(R, jobs)
  <2> HIDE DEF R
  <2>1. \A x \in jobs : <<x, x>> \notin R
    BY <1>1, <1>2
  <2>2. \A x, y \in jobs : x # y => <<x, y>> \in R \/ <<y, x>> \in R
    BY <1>1, <1>2
  <2>3. \A x, y, z \in jobs : <<x, y>> \in R /\ <<y, z>> \in R => <<x, z>> \in R
    BY <1>1, <1>2
  <2>4. QED
    BY <2>1, <2>2, <2>3 DEF Orders
<1>4. InStateOrder = Listed(jobs, R)
  BY DEF InStateOrder
<1> HIDE DEF R
<1>5. QED
  BY <1>1, <1>3, <1>4, ListedInOrder

(* The report is the one a sequential loop would have given: the order in  *)
(* which the workers finish is lost in the sort, for every state file      *)
(* whose instances have different keys.                                    *)
THEOREM OrderHidden == Spec => []CompletionOrderHidden
<1>1. IInv => CompletionOrderHidden
  <2> SUFFICES ASSUME IInv, pc = "returned", err = None, DistinctKeys
               PROVE  report = Finalize(StableSort(FlattenSeq(MapSeq(InStateOrder, Findings))),
                                        Cardinality(jobs))
    BY DEF CompletionOrderHidden
  <2> DEFINE other == FlattenSeq([i \in DOMAIN InStateOrder |-> Findings(InStateOrder[i])])
  <2>1. /\ \A j \in jobs : actual[j] # None
        /\ Range(appended) = {j \in jobs : Findings(j) # <<>>}
        /\ IsInjective(appended) /\ appended \in Seq(jobs)
        /\ report = Finalize(StableSort(items), Cardinality(jobs))
    BY DEF IInv, NoPartialReport, TypeOK
  <2>2. items \in Seq(AnyItem) /\ \E at : Gathered(items, jobs, FindingsOf, at)
    BY <2>1, SliceGathers DEF items
  <2>3. other \in Seq(AnyItem) /\ \E at : Gathered(other, jobs, FindingsOf, at)
    BY <2>1, StateOrder, SliceGathers
  <2>4. PICK at : Gathered(items, jobs, FindingsOf, at)
    BY <2>2
  <2> HIDE DEF other
  <2>5. PICK at2 : Gathered(other, jobs, FindingsOf, at2)
    BY <2>3
  <2>6. \A x, y \in PlacesOf(jobs, FindingsOf) :
          FindingsOf[x[1]][x[2]].key = FindingsOf[y[1]][y[2]].key => x[1] = y[1]
    <3>1. \A x \in PlacesOf(jobs, FindingsOf) :
            x[1] \in jobs /\ FindingsOf[x[1]][x[2]].key = expected(x[1]).key
      BY <2>1, FindingsKnown DEF PlacesOf, FindingsOf
    <3>2. QED
      BY <3>1 DEF DistinctKeys
  <2>7. /\ FindingsOf \in [jobs -> Seq(AnyItem)]
        /\ \A x \in AnyItem : Sortable(x)
    BY <2>1, FindingsKnown
  <2>8. StableSort(items) = StableSort(other)
    BY <2>2, <2>3, <2>4, <2>5, <2>6, <2>7, GatheredAlike
  <2>9. other = FlattenSeq(MapSeq(InStateOrder, Findings))
    BY DEF MapSeq, other
  <2>10. QED
    BY <2>1, <2>8, <2>9
<1>2. QED
  BY <1>1, Inductive, PTL

-----------------------------------------------------------------------------
(* The contract.  Its instance has operators of its own, which are those   *)
(* of module Diff.                                                         *)

(* The contract counts as the scan does.                                   *)
LEMMA SameCardinality ==
  ASSUME NEW S
  PROVE  Contract!Cardinality(S) = Cardinality(S)
BY DEF Contract!Cardinality, Cardinality

(* The contract finalizes a report as the scan does.                       *)
LEMMA SameFinalize ==
  ASSUME NEW its, NEW n
  PROVE  Contract!Finalize(its, n) = Finalize(its, n)
<1>1. \A k : Contract!CountKind(its, k) = CountKind(its, k)
  BY SameCardinality DEF Contract!CountKind, CountKind
<1>2. Contract!recount(its, n) = recount(its, n)
  BY <1>1 DEF Contract!recount, recount
<1>3. QED
  BY <1>2 DEF Contract!Finalize, Finalize

(* The contract compares as the scan does.                                 *)
LEMMA SameFindings ==
  ASSUME NEW j
  PROVE  Contract!Findings(j) = Findings(j)
<1> DEFINE e == expected(j)
           a == actual[j]
<1>1. \A S : Contract!sortedKeys(S) = sortedKeys(S)
  <2>1. \A S, R : Contract!Listed(S, R) = Listed(S, R)
    BY ZenonT(60) DEF Contract!Listed, Listed, Contract!Cardinality, Cardinality
  <2>2. Contract!NameOrder = NameOrder
    BY DEF Contract!NameOrder, NameOrder, Contract!Rank, Rank, Contract!Range, Range
  <2>3. QED
    BY <2>1, <2>2 DEF Contract!sortedKeys, sortedKeys
<1> HIDE DEF e, a
<1>2. Contract!compareAttributes(e, a) = compareAttributes(e, a)
  BY <1>1 DEF Contract!compareAttributes, compareAttributes, Contract!MapSeq, MapSeq,
    Contract!item, item, Contract!ValueOf, ValueOf, Contract!AttributeDrifted,
    AttributeDrifted, Contract!NoValue, NoValue
<1>3. Contract!compareTags(e, a) = compareTags(e, a)
  BY <1>1 DEF Contract!compareTags, compareTags, Contract!MapSeq, MapSeq, Contract!item,
    item, Contract!ValueOf, ValueOf, Contract!TagDrifted, TagDrifted, Contract!NoValue, NoValue
<1>4. Contract!Compare(e, a, a.found) = Compare(e, a, a.found)
  BY <1>2, <1>3 DEF Contract!Compare, Compare, Contract!item, item, Contract!NoValue, NoValue
<1>5. QED
  BY <1>4 DEF e, a, Contract!Findings, Findings, Contract!expected, expected

(* The contract asks for the same order.                                   *)
LEMMA SameOrder ==
  ASSUME NEW its
  PROVE  Contract!SortedItems(its) <=> SortedItems(its)
BY DEF Contract!SortedItems, SortedItems, Contract!ItemLess, ItemLess, Contract!Rank, Rank

(* The report Scan assembles holds every finding of every job, as often as *)
(* the job found it, in order.                                             *)
LEMMA ReportHolds ==
  ASSUME IInv, \A j \in jobs : actual[j] # None,
         \A j \in jobs : Findings(j) # <<>> => j \in Range(appended)
  PROVE  Contract!HoldsAllFindings(StableSort(items))
<1> DEFINE s == StableSort(items)
           P == PlacesOf(jobs, FindingsOf)
<1>1. items \in Seq(AnyItem) /\ \E at : Gathered(items, jobs, FindingsOf, at)
  BY SliceGathers DEF items, IInv, Collected, TypeOK
<1>2. PICK at : Gathered(items, jobs, FindingsOf, at)
  BY <1>1
<1>3. \A x \in AnyItem : Sortable(x)
  BY FindingsKnown
<1>4. /\ Len(s) = Cardinality(P)
      /\ \A x : Cardinality({i \in DOMAIN s : s[i] = x})
                  = Cardinality({q \in P : FindingsOf[q[1]][q[2]] = x})
  <2>1. HoldsEach(s, jobs, FindingsOf)
    BY <1>1, <1>2, <1>3, GatheredCounts
  <2> HIDE DEF s
  <2>2. QED
    BY <2>1 DEF HoldsEach
<1>5. SortedItems(s)
  BY <1>1, <1>3, SortSorts
<1>6. Contract!Places = P /\ \A q \in P : FindingsOf[q[1]][q[2]] = Contract!Findings(q[1])[q[2]]
  <2>1. \A j \in jobs : Contract!Findings(j) = FindingsOf[j]
    BY SameFindings DEF FindingsOf
  <2>2. Contract!jobs = jobs
    BY DEF Contract!jobs, jobs, JobsOf
  <2>3. Contract!Places = P
    BY <2>1, <2>2 DEF Contract!Places, PlacesOf
  <2>4. \A q \in P : q[1] \in jobs
    BY DEF PlacesOf
  <2>5. QED
    BY <2>1, <2>3, <2>4
<1> HIDE DEF P, s
<1>7. \A x : Contract!Occurrences(s, x) = Cardinality({q \in P : Contract!Findings(q[1])[q[2]] = x})
  <2>1. \A x : {q \in P : FindingsOf[q[1]][q[2]] = x}
                 = {q \in P : Contract!Findings(q[1])[q[2]] = x}
    BY <1>6
  <2>2. \A x : Contract!Occurrences(s, x) = Cardinality({i \in DOMAIN s : s[i] = x})
    BY SameCardinality DEF Contract!Occurrences
  <2>3. QED
    BY <1>4, <2>1, <2>2
<1>8. QED
  BY <1>4, <1>5, <1>6, <1>7, SameCardinality, SameOrder DEF Contract!HoldsAllFindings, s

(* Every step of the scan is a step of the contract or none: reading, one  *)
(* lookup, the return, an edit of the cloud; the rest is not seen.         *)
LEMMA ContractStep ==
  ASSUME IInv, IInv', [Next]_vars
  PROVE  Contract!Next \/ UNCHANGED Contract!vars
<1> USE DEF IInv
<1> DEFINE Stage == IF pc \in {"launching", "acquiring"} THEN "scanning" ELSE pc
<1>1. CASE ReadState
  <2>1. PICK s \in States : instances' = s /\ actual' = [j \in JobsOf(s) |-> None]
    BY <1>1 DEF ReadState
  <2>2. Contract!Read(s)
    BY <1>1, <2>1 DEF ReadState, Contract!Read, JobsOf, outside, result
  <2>3. QED
    BY <2>2 DEF Contract!Next
<1>2. CASE ReadFails
  <2>1. Contract!Fail(StateError)
    BY <1>2 DEF ReadFails, Contract!Fail, Contract!StateError, StateError, local, outside
  <2>2. QED
    BY <2>1 DEF Contract!Next, Contract!StateError, StateError
<1>3. CASE ReturnError
  <2>1. firstErr \in jobs /\ actual[firstErr] = None
    BY <1>3 DEF ReturnError, Joined, TypeOK, ErrorsRecorded
  <2>2. Contract!jobs = jobs
    BY DEF Contract!jobs, jobs, JobsOf
  <2>3. Contract!Fail(firstErr)
    BY <1>3, <2>1, <2>2 DEF ReturnError, Joined, Contract!Fail, local, outside
  <2>4. QED
    BY <2>1, <2>2, <2>3 DEF Contract!Next
<1>4. CASE ReturnReport
  <2>1. /\ pc = "launching" /\ pc' = "returned" /\ firstErr = None
        /\ UNCHANGED <<instances, actual, cloud, err, appended>>
        /\ report' = Finalize(StableSort(items), Cardinality(jobs))
    BY <1>4 DEF ReturnReport, Joined, Arranged, local, outside, shared
  <2>2. /\ \A j \in jobs : actual[j] # None
        /\ \A j \in jobs : Findings(j) # <<>> => j \in Range(appended)
    <3>1. \A j \in jobs : worker[j] = "gone"
      BY <1>4, AllGone DEF ReturnReport
    <3>2. \A j \in jobs : actual[j] # None
      BY <2>1, <3>1 DEF ErrorsRecorded, Past
    <3>3. QED
      BY <3>1, <3>2 DEF Collected, Past
  <2>3. Contract!HoldsAllFindings(report'.items)
    <3>1. report'.items = StableSort(items)
      BY <2>1 DEF Finalize
    <3>2. QED
      BY <2>2, <3>1, ReportHolds
  <2>4. report' = Contract!Finalize(report'.items, Contract!Cardinality(Contract!jobs))
    <3>1. Contract!Cardinality(Contract!jobs) = Cardinality(jobs)
      BY SameCardinality DEF Contract!jobs, jobs, JobsOf
    <3>2. report' = Finalize(report'.items, Cardinality(jobs))
      BY <2>1 DEF Finalize
    <3>3. QED
      BY <3>1, <3>2, SameFinalize
  <2>5. \A j \in Contract!jobs : actual[j] # None
    BY <2>2 DEF Contract!jobs, jobs, JobsOf
  <2>6. Contract!Deliver
    BY <2>1, <2>3, <2>4, <2>5 DEF Contract!Deliver
  <2>7. QED
    BY <2>6 DEF Contract!Next
<1>5. CASE Environment
  <2>1. CASE Cancel
    BY <2>1 DEF Cancel, Contract!vars, main, local, result
  <2>2. CASE \E k \in Keys, a \in Answers : EditCloud(k, a)
    <3>1. cloud' \in [Keys -> Answers]
      BY DEF TypeOK
    <3>2. UNCHANGED <<pc, instances, actual, report, err>>
      BY <2>2 DEF EditCloud, main, local, result
    <3>3. Contract!Keys = Keys
      BY DEF Contract!Keys, Keys, Contract!Range, Range
    <3>4. Contract!Edit
      BY <3>1, <3>2, <3>3 DEF Contract!Edit
    <3>5. QED
      BY <3>4 DEF Contract!Next
  <2>3. QED
    BY <1>5, <2>1, <2>2 DEF Environment
<1>6. CASE Quiet
  BY <1>6 DEF Quiet, Contract!vars, vars, main, local, outside, result
<1>7. ASSUME NEW j \in jobs,
             AddToGroup(j) \/ Start(j) \/ Inner(j) \/ ReleaseToken(j) \/ Done(j)
      PROVE  Contract!Next \/ UNCHANGED Contract!vars
  <2>1. UNCHANGED <<instances, report, err, cloud>>
    BY <1>7, JobStep DEF AddToGroup, Start, Inner, Normalize, FetchAnswers, FetchFails,
      NothingToAppend, BeginAppend, EndAppend, BeginRecord, SeeNoError, SetError,
      KeepError, ReleaseToken, Done,
      outside
  <2>2. Stage' = Stage
    BY <1>7 DEF AddToGroup, Start, Inner, Normalize, FetchAnswers, FetchFails,
      NothingToAppend, BeginAppend, EndAppend, BeginRecord, SeeNoError, SetError,
      KeepError, ReleaseToken, Done, main
  <2>3. CASE FetchAnswers(j)
    <3>1. /\ worker[j] = "fetching" /\ actual[j] = None /\ expected(j) # None
          /\ actual' = [actual EXCEPT ![j] = cloud[expected(j).key]]
      BY <2>3 DEF FetchAnswers, Step, Answered, Past
    <3>2. pc \in {"launching", "acquiring"}
      BY <3>1 DEF TypeOK, MainInv, jobs, JobsOf
    <3>3. j \in Contract!jobs
      BY DEF Contract!jobs, jobs, JobsOf
    <3>4. Contract!Observe(j)
      BY <2>1, <2>2, <3>1, <3>2 DEF Contract!Observe, Contract!expected, expected
    <3>5. QED
      BY <3>3, <3>4 DEF Contract!Next
  <2>4. CASE ~FetchAnswers(j)
    <3>1. actual' = actual
      BY <1>7, <2>4 DEF AddToGroup, Start, Inner, Normalize, FetchFails, NothingToAppend,
        BeginAppend, EndAppend, BeginRecord, SeeNoError, SetError, KeepError, ReleaseToken, Done
    <3>2. QED
      BY <2>1, <2>2, <3>1 DEF Contract!vars
  <2>5. QED
    BY <2>3, <2>4
<1>8. QED
  BY <1>1, <1>2, <1>3, <1>4, <1>5, <1>6, <1>7, StepCases

(* The concurrent scan implements its contract.                            *)
THEOREM Implements == Spec => ImplementsContract
<1>1. Init => Contract!Init
  <2>1. Init => actual = <<>>
    BY DEF Init
  <2>2. ZeroReport = Contract!NoReport
    BY SameFinalize DEF ZeroReport, Contract!NoReport
  <2>3. Contract!Keys = Keys
    BY DEF Contract!Keys, Keys, Contract!Range, Range
  <2>4. QED
    BY <2>1, <2>2, <2>3 DEF Init, Contract!Init
<1>2. IInv /\ IInv' /\ [Next]_vars => [Contract!Next]_(Contract!vars)
  BY ContractStep
<1>3. QED
  BY <1>1, <1>2, Inductive, PTL DEF Spec, ImplementsContract, Contract!Spec
=============================================================================
