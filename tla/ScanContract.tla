---------------------------- MODULE ScanContract ----------------------------
(***************************************************************************)
(* What a scan promises, with no goroutine, semaphore or lock in it: the   *)
(* state file is read once, every job looks its resource up at one moment  *)
(* of the scan, and the scan ends either with one error and no report, or  *)
(* with a report that holds exactly the drift those lookups saw, ordered.  *)
(*                                                                         *)
(* The lookups of one scan need not see the cloud at one moment: the       *)
(* report is no snapshot.                                                  *)
(***************************************************************************)
EXTENDS Diff

CONSTANTS States, MappedTypes, FromState(_), Answers, None

VARIABLES
  stage,      \* "reading", "scanning" or "returned"
  instances,  \* the state file as it was read
  observed,   \* what each job's lookup saw, None before it
  cloud,      \* what each key holds in the cloud now
  report, err

vars == <<stage, instances, observed, cloud, report, err>>

StateError == 0
jobs == {i \in DOMAIN instances : instances[i].type \in MappedTypes}
expected(j) == FromState(instances[j])
Findings(j) == Compare(expected(j), observed[j], observed[j].found)
NoReport == Finalize(<<>>, 0)

Init ==
  /\ stage = "reading" /\ instances = <<>> /\ observed = <<>>
  /\ cloud \in [Keys -> Answers]
  /\ report = NoReport /\ err = None

Read(s) ==
  /\ stage = "reading" /\ stage' = "scanning"
  /\ instances' = s
  /\ observed' = [j \in {i \in DOMAIN s : s[i].type \in MappedTypes} |-> None]
  /\ UNCHANGED <<cloud, report, err>>

\* The lookup of job j takes effect, once.
Observe(j) ==
  /\ stage = "scanning" /\ observed[j] = None /\ expected(j) # None
  /\ observed' = [observed EXCEPT ![j] = cloud[expected(j).key]]
  /\ UNCHANGED <<stage, instances, cloud, report, err>>

\* The findings of all jobs, each as often as the jobs found it, in order.
Places == UNION {{j} \X DOMAIN Findings(j) : j \in jobs}
Occurrences(s, x) == Cardinality({i \in DOMAIN s : s[i] = x})
HoldsAllFindings(its) ==
  /\ SortedItems(its)
  /\ Len(its) = Cardinality(Places)
  /\ \A p \in Places :
       LET x == Findings(p[1])[p[2]]
       IN  Occurrences(its, x) = Cardinality({q \in Places : Findings(q[1])[q[2]] = x})

Deliver ==
  /\ stage = "scanning" /\ stage' = "returned"
  /\ \A j \in jobs : observed[j] # None
  /\ HoldsAllFindings(report'.items)
  /\ report' = Finalize(report'.items, Cardinality(jobs))
  /\ UNCHANGED <<instances, observed, cloud, err>>

\* The error names something that really failed; no report comes with it.
Fail(e) ==
  /\ \/ stage = "reading" /\ e = StateError
     \/ stage = "scanning" /\ e \in jobs /\ observed[e] = None
  /\ stage' = "returned" /\ err' = e
  /\ UNCHANGED <<instances, observed, cloud, report>>

\* The cloud changes under the scan.
Edit ==
  /\ cloud' \in [Keys -> Answers]
  /\ UNCHANGED <<stage, instances, observed, report, err>>

Next ==
  \/ \E s \in States : Read(s)
  \/ \E j \in jobs : Observe(j)
  \/ Deliver
  \/ \E e \in jobs \cup {StateError} : Fail(e)
  \/ Edit

Spec == Init /\ [][Next]_vars
=============================================================================
