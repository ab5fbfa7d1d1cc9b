--------------------------- MODULE CommandProofs ----------------------------
(***************************************************************************)
(* Proofs about Command, for every command line, state file, fixture and   *)
(* number of invocations.  What each stage of an invocation relies on is   *)
(* the invariant: a report exists from "saving" on, and is in the store,   *)
(* if that is asked for, before the output file is touched.  The second    *)
(* part follows what is in the two files through Parse, the jobs, their    *)
(* lookups and comparisons to the summary, and from there to the exit      *)
(* code.                                                                   *)
(***************************************************************************)
EXTENDS Command, DiffProofs

\* The scan ids in the store are those of invocations that have been made.
RunsCounted ==
  /\ run \in Nat /\ run <= MaxRuns
  /\ \A r \in stored : r \in 1..run
  /\ stage # "exited" => run # 0

AfterScan == {"saving", "opening output", "rendering"}

ScannedFirst == stage \in AfterScan => read.state # None

SavedFirst ==
  stage \in {"opening output", "rendering"} => (args.store => run \in stored)

OwnOutput ==
  (stage = "rendering" /\ args.out) => out = [of |-> run, text |-> "nothing"]

IInv ==
  /\ RunsCounted /\ ScannedFirst /\ SavedFirst /\ OwnOutput
  /\ NoTraceWithoutScan /\ SuccessIsDone

(* Before the first invocation nothing is stored.                          *)
LEMMA InitHolds == Init => IInv
<1>1. MaxRuns \in Nat
  BY CommandAssumption DEF CommandAssumption
<1> QED BY <1>1 DEF Init, IInv, RunsCounted, ScannedFirst, SavedFirst, OwnOutput, AfterScan,
     NoTraceWithoutScan, SuccessIsDone, Succeeded

(* A new invocation has a number of its own, and has written nothing.      *)
LEMMA InvokeKeeps == ASSUME IInv, NEW a \in Invocations, Invoke(a) PROVE IInv'
<1> USE DEF IInv
<1>1. RunsCounted' /\ run' \notin stored'
  <2>1. /\ run < MaxRuns /\ run' = run + 1 /\ stored' = stored
        /\ MaxRuns \in Nat /\ run \in Nat
    BY CommandAssumption DEF CommandAssumption, Invoke, RunsCounted
  <2> QED BY <2>1 DEF RunsCounted
<1>2. ScannedFirst' /\ SavedFirst' /\ OwnOutput' /\ SuccessIsDone'
  BY DEF Invoke, ScannedFirst, SavedFirst, OwnOutput, AfterScan, SuccessIsDone, Succeeded
<1>3. NoTraceWithoutScan'
  BY <1>1 DEF Invoke, NoTraceWithoutScan
<1> QED BY <1>1, <1>2, <1>3

\* Steps before the scan, and those that end the invocation with an error
\* before it or after it, leave files and what was read of the state alone.
LEMMA QuietKeeps ==
  ASSUME IInv, stage # "exited", UNCHANGED <<stored, out, stdout, args, run, before>>,
         read'.state = read.state,
         \/ stage' = "exited" /\ code' \in {1, 2, Killed}
         \/ stage' = "exited" /\ args.command # "scan"
         \/ stage' \in {"opening", "constructing", "scanning"}
         \/ stage = "opening output" /\ stage' = "rendering" /\ ~args.out
  PROVE  IInv'
<1> USE DEF IInv
<1>1. RunsCounted'
  BY DEF RunsCounted
<1>2. ScannedFirst' /\ SavedFirst' /\ OwnOutput'
  BY DEF ScannedFirst, SavedFirst, OwnOutput, AfterScan
<1>3. NoTraceWithoutScan'
  BY DEF NoTraceWithoutScan
<1>4. SuccessIsDone'
  BY DEF SuccessIsDone, Succeeded, Killed
<1> QED BY <1>1, <1>2, <1>3, <1>4

(* The scan is what the later stages rely on.                              *)
LEMMA ScanKeeps == ASSUME IInv, Scan PROVE IInv'
<1> USE DEF IInv
<1>1. UNCHANGED <<stored, out, stdout, args, run, before>> /\ read'.state # None
      /\ stage = "scanning" /\ stage' = NextAfterScan
  <2>1. read' = [read EXCEPT !.state = world.state] /\ world.state # None
    BY DEF Scan
  <2> QED BY <2>1 DEF Scan, At, GoTo, files
<1>2. RunsCounted'
  BY <1>1 DEF RunsCounted
<1>3. ScannedFirst' /\ SavedFirst' /\ OwnOutput' /\ NoTraceWithoutScan' /\ SuccessIsDone'
  BY <1>1 DEF ScannedFirst, SavedFirst, OwnOutput, NoTraceWithoutScan, SuccessIsDone,
     Succeeded, NextAfterScan
<1> QED BY <1>2, <1>3

(* Saving puts the report into the store, under the invocation's number.   *)
LEMMA PersistKeeps == ASSUME IInv, Persist PROVE IInv'
<1> USE DEF IInv
<1>1. /\ stage = "saving" /\ stage' = "opening output" /\ stored' = stored \cup {run}
      /\ UNCHANGED <<args, run, out, read, before>>
  BY DEF Persist, At, GoTo
<1>2. read.state # None
  BY <1>1 DEF ScannedFirst, AfterScan
<1>3. RunsCounted'
  <2>1. run \in Nat /\ run # 0
    BY <1>1 DEF RunsCounted
  <2>2. run \in 1..run
    BY <2>1
  <2> QED BY <1>1, <2>1, <2>2 DEF RunsCounted
<1>5. SavedFirst'
  BY <1>1 DEF SavedFirst
<1>4. ScannedFirst' /\ OwnOutput' /\ NoTraceWithoutScan' /\ SuccessIsDone'
  BY <1>1, <1>2 DEF ScannedFirst, OwnOutput, NoTraceWithoutScan, SuccessIsDone, Succeeded
<1> QED BY <1>3, <1>4, <1>5

(* The output file is truncated only after that.                           *)
LEMMA CreateKeeps == ASSUME IInv, CreateOutput PROVE IInv'
<1> USE DEF IInv
<1>1. /\ stage = "opening output" /\ stage' = "rendering"
      /\ out' = [of |-> run, text |-> "nothing"]
      /\ UNCHANGED <<args, run, stored, read, before>>
  BY DEF CreateOutput, At, GoTo
<1>2. read.state # None
  BY <1>1 DEF ScannedFirst, AfterScan
<1>3. RunsCounted'
  <2>1. run \in Nat /\ run # 0
    BY <1>1 DEF RunsCounted
  <2>2. run \in 1..run
    BY <2>1
  <2> QED BY <1>1, <2>1, <2>2 DEF RunsCounted
<1>5. SavedFirst'
  BY <1>1 DEF SavedFirst
<1>4. ScannedFirst' /\ OwnOutput' /\ NoTraceWithoutScan' /\ SuccessIsDone'
  BY <1>1, <1>2 DEF ScannedFirst, OwnOutput, NoTraceWithoutScan, SuccessIsDone, Succeeded
<1> QED BY <1>3, <1>4, <1>5

\* The three ways in which rendering ends after something has been written.
LEMMA WrittenKeeps ==
  ASSUME IInv, At("rendering"), NEW text \in Texts, Written(text), Exit(code'),
         UNCHANGED <<stored, read>>,
         \/ code' = 1
         \/ args.format = "text"
         \/ args.format = "json" /\ text = "whole"
  PROVE  IInv'
<1> USE DEF IInv
<1>1. stage = "rendering" /\ stage' = "exited" /\ UNCHANGED <<args, run, stored, read, before>>
  BY DEF At, Exit
<1>2. read.state # None /\ (args.store => run \in stored)
  BY <1>1 DEF ScannedFirst, SavedFirst, AfterScan
<1>3. RunsCounted'
  BY <1>1 DEF RunsCounted
<1>4. ScannedFirst' /\ SavedFirst' /\ OwnOutput' /\ NoTraceWithoutScan'
  BY <1>1, <1>2 DEF ScannedFirst, SavedFirst, OwnOutput, AfterScan, NoTraceWithoutScan
<1>5. ASSUME args.format = "json", text = "whole" PROVE Destination' = "whole"
  <2>1. CASE args.out
    <3>1. out = [of |-> run, text |-> "nothing"]
      BY <2>1, <1>1 DEF OwnOutput
    <3>2. out' = [of |-> run, text |-> "whole"]
      BY <2>1, <3>1, <1>5 DEF Written
    <3>3. run \in 1..MaxRuns
      BY <1>1 DEF RunsCounted
    <3>4. out' \in Outputs
      BY <3>2, <3>3 DEF Outputs, Texts
    <3> QED BY <2>1, <1>1, <3>2, <3>4, CommandAssumption DEF Destination, CommandAssumption
  <2>2. CASE ~args.out
    BY <2>2, <1>1, <1>5 DEF Written, Destination
  <2> QED BY <2>1, <2>2
<1>6. SuccessIsDone'
  BY <1>1, <1>2, <1>5 DEF SuccessIsDone, Succeeded
<1> QED BY <1>3, <1>4, <1>6

(* An edit of the inputs touches no output.                                *)
LEMMA EditKeeps == ASSUME IInv, UNCHANGED <<process, files, history>> PROVE IInv'
<1>1. UNCHANGED <<stage, args, run, code, stored, out, stdout, read, before>>
  BY DEF process, files, history
<1>2. RunsCounted' /\ ScannedFirst' /\ SavedFirst' /\ OwnOutput'
  BY <1>1 DEF IInv, RunsCounted, ScannedFirst, SavedFirst, OwnOutput
<1>3. NoTraceWithoutScan' /\ SuccessIsDone'
  BY <1>1 DEF IInv, NoTraceWithoutScan, SuccessIsDone, Succeeded, Destination
<1> QED BY <1>2, <1>3 DEF IInv

(* One case per step of runScan.                                           *)
LEMMA RunScanKeeps == ASSUME IInv, RunScan PROVE IInv'
<1>1. CASE ParseFlags
  BY <1>1, QuietKeeps DEF ParseFlags, At, GoTo, Exit, files
<1>2. CASE OpenSource
  BY <1>2, QuietKeeps DEF OpenSource, At, GoTo, Exit, files
<1>3. CASE NewProvider
  <2>1. read'.state = read.state
    BY <1>3 DEF NewProvider
  <2> QED BY <1>3, <2>1, QuietKeeps DEF NewProvider, At, GoTo, files
<1>4. CASE NewProviderFails
  BY <1>4, QuietKeeps DEF NewProviderFails, At, Exit, files
<1>5. CASE Scan
  BY <1>5, ScanKeeps
<1>6. CASE ScanFails
  BY <1>6, QuietKeeps DEF ScanFails, At, Exit, files
<1>7. CASE Persist
  BY <1>7, PersistKeeps
<1>8. CASE PersistFails
  BY <1>8, QuietKeeps DEF PersistFails, At, Exit, files
<1>9. CASE CreateOutput
  BY <1>9, CreateKeeps
<1>10. CASE CreateFails
  BY <1>10, QuietKeeps DEF CreateFails, At, Exit, files
<1>11. CASE UseStdout
  BY <1>11, QuietKeeps DEF UseStdout, At, GoTo, files
<1>12. CASE UnknownFormat
  BY <1>12, QuietKeeps DEF UnknownFormat, At, Exit, files
<1>13. CASE Rendered
  <2>1. "whole" \in Texts /\ Written("whole") /\ At("rendering") /\ Exit(code')
        /\ UNCHANGED <<stored, read>> /\ args.format \in {"json", "text"}
    BY <1>13 DEF Rendered, Texts, Exit
  <2> QED BY <2>1, WrittenKeeps
<1>14. CASE RenderFails
  <2>1. PICK text \in {"nothing", "part"} : Written(text)
    BY <1>14 DEF RenderFails
  <2>2. text \in Texts /\ At("rendering") /\ Exit(code') /\ code' = 1
        /\ UNCHANGED <<stored, read>>
    BY <1>14 DEF RenderFails, Texts, Exit
  <2> QED BY <2>1, <2>2, WrittenKeeps
<1>15. CASE HeadIsLost
  <2>1. PICK text \in {"nothing", "part"} : Written(text)
    BY <1>15 DEF HeadIsLost
  <2>2. text \in Texts /\ At("rendering") /\ Exit(code') /\ args.format = "text"
        /\ UNCHANGED <<stored, read>>
    BY <1>15 DEF HeadIsLost, Texts, Exit
  <2> QED BY <2>1, <2>2, WrittenKeeps
<1> QED BY <1>1, <1>2, <1>3, <1>4, <1>5, <1>6, <1>7, <1>8, <1>9, <1>10, <1>11, <1>12,
           <1>13, <1>14, <1>15 DEF RunScan

(* The invariant is kept by every step,                                    *)
LEMMA StepKeeps == ASSUME IInv, [Next]_vars PROVE IInv'
<1>1. ASSUME NEW a \in Invocations, Invoke(a) PROVE IInv'
  BY <1>1, InvokeKeeps
<1>2. CASE Dispatch
  BY <1>2, QuietKeeps DEF Dispatch, At, Exit, files
<1>3. CASE RunScan
  BY <1>3, RunScanKeeps
<1>4. CASE Kill
  BY <1>4, QuietKeeps DEF Kill, Exit, files, history
<1>5. ASSUME NEW w, Edit(w) PROVE IInv'
  BY <1>5, EditKeeps DEF Edit
<1>6. CASE UNCHANGED vars
  BY <1>6, EditKeeps DEF vars
<1> QED BY <1>1, <1>2, <1>3, <1>4, <1>5, <1>6 DEF Next, Idle

(* and so holds always.                                                    *)
THEOREM Inductive == Spec => []IInv
  BY InitHolds, StepKeeps, PTL DEF Spec

-----------------------------------------------------------------------------

(* An invocation whose scan did not come to its end leaves the store and   *)
(* the output file as they were (cli/scan.go: every return before line 72  *)
(* comes before the first write).                                          *)
THEOREM FailedScanLeavesNothing == Spec => []NoTraceWithoutScan
  BY Inductive, PTL DEF IInv

(* The exit codes 0 and 3 of scan mean that the report is stored and, as   *)
(* JSON, written (cli/scan.go:72-112).                                     *)
THEOREM SuccessMeansDone == Spec => []SuccessIsDone
  BY Inductive, PTL DEF IInv

(* With --store, the output file changes only once the report is saved.    *)
THEOREM SavedFirstAlways == Spec => SavedBeforeOutput
<1>1. ASSUME IInv, [Next]_vars, out' # out, args.store PROVE run \in stored
  <2>1. CASE CreateOutput \/ Rendered \/ RenderFails \/ HeadIsLost
    BY <2>1, <1>1 DEF IInv, SavedFirst, CreateOutput, Rendered, RenderFails, HeadIsLost, At
  <2>2. ASSUME NEW a \in Invocations, Invoke(a) PROVE FALSE
    BY <2>2, <1>1 DEF Invoke
  <2>3. ASSUME NEW w, Edit(w) PROVE FALSE
    BY <2>3, <1>1 DEF Edit, files
  <2>4. CASE Dispatch \/ Kill \/ UNCHANGED vars
    BY <2>4, <1>1 DEF Dispatch, Kill, vars, files
  <2>5. CASE ParseFlags \/ OpenSource \/ NewProvider \/ NewProviderFails
    BY <2>5, <1>1 DEF ParseFlags, OpenSource, NewProvider, NewProviderFails, files
  <2>6. CASE Scan \/ ScanFails \/ Persist \/ PersistFails \/ CreateFails
    BY <2>6, <1>1 DEF Scan, ScanFails, Persist, PersistFails, CreateFails, files
  <2>7. CASE UseStdout \/ UnknownFormat
    BY <2>7, <1>1 DEF UseStdout, UnknownFormat, files
  <2> QED BY <2>1, <2>2, <2>3, <2>4, <2>5, <2>6, <2>7, <1>1 DEF Next, RunScan, Idle
<1>2. IInv /\ [Next]_vars => [(out' # out /\ args.store) => run \in stored]_out
  BY <1>1
<1> QED BY Inductive, <1>2, PTL DEF Spec, SavedBeforeOutput

-----------------------------------------------------------------------------
(* What the scan makes of its two files.                                   *)

\* What FilesAssumption says of one state file and of one fixture.
RightState(file) ==
  /\ file \in Seq(Range(file))
  /\ \A block \in Range(file) : block.instances \in Seq(Range(block.instances))
RightAttributes(type, attrs) ==
  /\ <<type, AttrString(attrs, "id")>> \in Keys
  /\ \A k \in DOMAIN attrs : attrs[k].kind = "null" => attrs[k] = Null
  /\ "tags" \in DOMAIN attrs /\ attrs["tags"].kind = "object" =>
       \A k \in DOMAIN attrs["tags"].entries :
         k \in Fields /\ attrs["tags"].entries[k].kind = "string"
RightFixture(fixture) ==
  /\ fixture.resources \in Seq(Range(fixture.resources))
  /\ \A r \in Range(fixture.resources) :
       DOMAIN r.attributes \subseteq Fields /\ DOMAIN r.tags \subseteq Fields

(* All state files and fixtures are so.                                    *)
LEMMA FilesAreRight ==
  /\ \A file \in StateFiles \ {None} :
       /\ RightState(file)
       /\ \A block \in Range(file) : \A attrs \in Range(block.instances) :
            RightAttributes(block.type, attrs)
  /\ \A fixture \in Fixtures \ {None} : RightFixture(fixture)
BY FilesAssumption DEF FilesAssumption, RightState, RightAttributes, RightFixture

\* The managed instances of a state file.
Instance(type, attrs) == [type |-> type, attributes |-> attrs]
InstancesOf(block) == {Instance(block.type, a) : a \in Range(block.instances)}
Listing(block) ==
  IF ~Managed(block) THEN <<>>
  ELSE [i \in DOMAIN block.instances |-> Instance(block.type, block.instances[i])]

(* Parse lists the managed instances of a file, and nothing else.          *)
LEMMA ParseLists ==
  ASSUME NEW file, RightState(file)
  PROVE  /\ Parse(file) \in Seq(Range(Parse(file)))
         /\ \A inst : inst \in Range(Parse(file)) <=>
              \E block \in Range(file) : Managed(block) /\ inst \in InstancesOf(block)
<1> DEFINE ss == [b \in DOMAIN file |-> Listing(file[b])]
           T == UNION {InstancesOf(block) : block \in Range(file)}
<1>1. Parse(file) = FlattenSeq(ss)
  BY DEF Parse, Listing, Instance
<1>2. \A b \in DOMAIN file : file[b] \in Range(file)
  BY DEF Range
<1>3. ASSUME NEW b \in DOMAIN file
      PROVE  /\ Listing(file[b]) \in Seq(T)
             /\ \A x : x \in Range(Listing(file[b])) <=>
                  Managed(file[b]) /\ x \in InstancesOf(file[b])
  <2> DEFINE block == file[b]
             its == block.instances
  <2>1. block \in Range(file) /\ its \in Seq(Range(its))
    BY <1>2 DEF RightState
  <2> HIDE DEF block
  <2>2. CASE ~Managed(block)
    <3>1. Listing(block) = <<>>
      BY <2>2 DEF Listing
    <3>2. Range(<<>>) = {} /\ <<>> \in Seq(T)
      BY DEF Range
    <3>3. QED
      BY <2>2, <3>1, <3>2 DEF block
  <2>3. CASE Managed(block)
    <3>1. Listing(block) = [i \in DOMAIN its |-> Instance(block.type, its[i])]
      BY <2>3 DEF Listing
    <3>2. \A i \in DOMAIN its : its[i] \in Range(its) /\ Instance(block.type, its[i]) \in T
      <4>1. \A i \in DOMAIN its : its[i] \in Range(its)
        BY DEF Range
      <4>2. \A i \in DOMAIN its : Instance(block.type, its[i]) \in InstancesOf(block)
        BY <4>1 DEF InstancesOf
      <4>3. QED
        BY <2>1, <4>1, <4>2
    <3>3. DOMAIN its = 1..Len(its) /\ Len(its) \in Nat
      BY <2>1
    <3>4. Listing(block) \in Seq(T)
      BY <3>1, <3>2, <3>3
    <3>5. \A x : x \in Range(Listing(block)) <=> \E i \in DOMAIN its : x = Instance(block.type, its[i])
      BY <3>1 DEF Range
    <3>6. \A x : x \in InstancesOf(block) <=> \E i \in DOMAIN its : x = Instance(block.type, its[i])
      BY DEF InstancesOf, Range
    <3>7. QED
      BY <2>3, <3>4, <3>5, <3>6 DEF block
  <2>4. QED
    BY <2>2, <2>3
<1>4. ss \in Seq(Seq(T)) /\ DOMAIN ss = DOMAIN file
  <2>1. DOMAIN file = 1..Len(file) /\ Len(file) \in Nat
    BY DEF RightState
  <2>2. QED
    BY <1>3, <2>1
<1>5. \A b \in DOMAIN file : ss[b] = Listing(file[b])
  OBVIOUS
<1> HIDE DEF ss, T
<1>6. /\ Parse(file) \in Seq(T)
      /\ \A x : x \in Range(Parse(file)) <=> \E b \in DOMAIN ss : x \in Range(ss[b])
  BY <1>1, <1>4, FlattenHolds
<1>7. \A x : x \in Range(Parse(file)) <=>
        \E b \in DOMAIN file : Managed(file[b]) /\ x \in InstancesOf(file[b])
  BY <1>3, <1>4, <1>5, <1>6
<1>8. \A block : block \in Range(file) <=> \E b \in DOMAIN file : block = file[b]
  BY DEF Range
<1>9. Parse(file) \in Seq(Range(Parse(file)))
  BY <1>6, RangeSeq
<1>10. QED
  BY <1>7, <1>8, <1>9

(* A scan has one job for each instance of a type the provider knows.      *)
LEMMA JobsAre ==
  ASSUME NEW p, NEW instances, instances \in Seq(Range(instances))
  PROVE  /\ Jobs(p, instances) \in Seq(Range(instances))
         /\ \A inst : inst \in Range(Jobs(p, instances)) <=>
              inst \in Range(instances) /\ inst.type \in p.types
<1> DEFINE S == Range(instances)
           ss == [i \in DOMAIN instances |->
                    IF instances[i].type \in p.types THEN <<instances[i]>> ELSE <<>>]
<1>1. Jobs(p, instances) = FlattenSeq(ss)
  BY DEF Jobs
<1>2. \A i \in DOMAIN instances : instances[i] \in S
  BY DEF Range
<1>3. \A x : Range(<<x>>) = {x} /\ \A y : y \in Range(<<>>) <=> FALSE
  BY DEF Range
<1> HIDE DEF S
<1>4. ss \in Seq(Seq(S)) /\ DOMAIN ss = DOMAIN instances
  <2>1. DOMAIN instances = 1..Len(instances) /\ Len(instances) \in Nat
    OBVIOUS
  <2>2. \A i \in DOMAIN instances : ss[i] \in Seq(S)
    BY <1>2
  <2>3. QED
    BY <2>1, <2>2
<1>5. \A i \in DOMAIN instances : \A x : x \in Range(ss[i]) <=>
        x = instances[i] /\ x.type \in p.types
  BY <1>3
<1> HIDE DEF ss
<1>6. /\ Jobs(p, instances) \in Seq(S)
      /\ \A x : x \in Range(Jobs(p, instances)) <=> \E i \in DOMAIN ss : x \in Range(ss[i])
  BY <1>1, <1>4, FlattenHolds
<1>7. \A x : x \in S <=> \E i \in DOMAIN instances : x = instances[i]
  BY DEF S, Range
<1>8. QED
  BY <1>4, <1>5, <1>6, <1>7 DEF S

(* AttrString reads what the cloud would show, for every JSON value.       *)
LEMMA TextRead ==
  ASSUME NEW type, NEW attrs, RightAttributes(type, attrs), NEW k
  PROVE  AttrString(attrs, k) = CloudText(attrs, k)
<1>1. CASE k \notin DOMAIN attrs
  BY <1>1 DEF AttrString, CloudText
<1>2. CASE k \in DOMAIN attrs /\ attrs[k].kind = "null"
  <2>1. attrs[k] = Null
    BY <1>2 DEF RightAttributes
  <2>2. QED
    BY <1>2, <2>1 DEF AttrString, CloudText
<1>3. CASE k \in DOMAIN attrs /\ attrs[k].kind # "null"
  <2>1. attrs[k] # Null
    BY <1>3 DEF Null
  <2>2. CASE attrs[k].kind = "string"
    BY <1>3, <2>1, <2>2 DEF AttrString, CloudText, Printed
  <2>3. CASE attrs[k].kind = "bool"
    BY <1>3, <2>1, <2>3 DEF AttrString, CloudText, Printed
  <2>4. CASE attrs[k].kind = "number"
    BY <1>3, <2>1, <2>4 DEF AttrString, CloudText, Printed
  <2>5. CASE attrs[k].kind \notin {"string", "bool", "number"}
    BY <1>3, <2>1, <2>5 DEF AttrString, CloudText, Printed
  <2>6. QED
    BY <2>2, <2>3, <2>4, <2>5
<1>4. QED
  BY <1>1, <1>2, <1>3

Pairs(m) == {<<k, m[k]>> : k \in DOMAIN m}

(* Maps are the same if their entries are.                                 *)
LEMMA SamePairs ==
  ASSUME NEW m, NEW n
  PROVE  Pairs(m) = Pairs(n) <=> DOMAIN m = DOMAIN n /\ \A k \in DOMAIN m : m[k] = n[k]
<1>1. \A k, v : <<k, v>> \in Pairs(m) <=> k \in DOMAIN m /\ v = m[k]
  BY DEF Pairs
<1>2. \A k, v : <<k, v>> \in Pairs(n) <=> k \in DOMAIN n /\ v = n[k]
  BY DEF Pairs
<1>3. ASSUME Pairs(m) = Pairs(n)
      PROVE  DOMAIN m = DOMAIN n /\ \A k \in DOMAIN m : m[k] = n[k]
  <2>1. \A k : k \in DOMAIN m => k \in DOMAIN n /\ m[k] = n[k]
    BY <1>1, <1>2, <1>3
  <2>2. \A k : k \in DOMAIN n => k \in DOMAIN m
    BY <1>1, <1>2, <1>3
  <2>3. QED
    BY <2>1, <2>2
<1>4. ASSUME DOMAIN m = DOMAIN n, \A k \in DOMAIN m : m[k] = n[k]
      PROVE  Pairs(m) = Pairs(n)
  BY <1>4 DEF Pairs
<1>5. QED
  BY <1>3, <1>4

(* AttrTags reads the tags of the state file.                              *)
LEMMA TagsRead ==
  ASSUME NEW type, NEW attrs, RightAttributes(type, attrs)
  PROVE  /\ TagEntries(attrs) = Pairs(AttrTags(attrs, "tags"))
         /\ DOMAIN AttrTags(attrs, "tags") \subseteq Fields
<1> DEFINE T == AttrTags(attrs, "tags")
           given == "tags" \in DOMAIN attrs /\ attrs["tags"].kind = "object"
           m == attrs["tags"].entries
<1>1. CASE ~given
  <2>1. T = <<>> /\ TagEntries(attrs) = {}
    BY <1>1 DEF AttrTags, TagEntries
  <2>2. Pairs(<<>>) = {} /\ DOMAIN <<>> = {}
    BY DEF Pairs
  <2>3. QED
    BY <2>1, <2>2
<1>2. CASE given
  <2>1. \A k \in DOMAIN m : k \in Fields /\ m[k].kind = "string"
    BY <1>2 DEF RightAttributes
  <2>2. T = [k \in DOMAIN m |-> Printed(m[k])] /\ TagEntries(attrs) = {<<k, m[k].text>> : k \in DOMAIN m}
    BY <1>2 DEF AttrTags, TagEntries
  <2>3. \A k \in DOMAIN m : Printed(m[k]) = m[k].text
    BY <2>1 DEF Printed
  <2> HIDE DEF T, given, m
  <2>4. DOMAIN T = DOMAIN m /\ \A k \in DOMAIN m : T[k] = m[k].text
    BY <2>2, <2>3
  <2>5. Pairs(T) = {<<k, m[k].text>> : k \in DOMAIN m}
    BY <2>4 DEF Pairs
  <2>6. QED
    BY <2>1, <2>2, <2>4, <2>5 DEF T
<1>3. QED
  BY <1>1, <1>2

(* A comparison finds nothing exactly if nothing has drifted.              *)
LEMMA NothingFound ==
  ASSUME NEW e, NEW a, NamesKnown(e, a)
  PROVE  Compare(e, a, TRUE) = <<>>
           <=> DriftedAttributes(e, a) = {} /\ LostTags(e, a) \cup AddedTags(e, a) = {}
<1> DEFINE s == Compare(e, a, TRUE)
           D == DriftedAttributes(e, a)
           L == LostTags(e, a) \cup AddedTags(e, a)
<1>1. s \in Seq(ItemsOf(e, a)) /\ Range(s) = ItemsOf(e, a)
  BY CompareFound DEF Enumerates
<1>2. ItemsOf(e, a) = {} <=> D = {} /\ L = {}
  BY DEF ItemsOf, AttributeItems, TagItems
<1> HIDE DEF s, D, L
<1>3. s = <<>> <=> Range(s) = {}
  <2>1. s = <<>> <=> DOMAIN s = {}
    BY <1>1
  <2>2. DOMAIN s = {} <=> Range(s) = {}
    BY DEF Range
  <2>3. QED
    BY <2>1, <2>2
<1>4. QED
  BY <1>1, <1>2, <1>3 DEF s, D, L

(* If no two resources of a fixture have the same id, the index has each.  *)
LEMMA IndexedById ==
  ASSUME NEW fixture, RightFixture(fixture),
         Len(fixture.resources) = Cardinality({r.id : r \in Range(fixture.resources)})
  PROVE  /\ \A id : id \in DOMAIN FromBytes(fixture).byID
                      <=> \E r \in Range(fixture.resources) : r.id = id
         /\ \A r \in Range(fixture.resources) : FromBytes(fixture).byID[r.id] = r
<1> DEFINE rs == fixture.resources
           D == DOMAIN rs
           Ids == {r.id : r \in Range(rs)}
           f == [i \in D |-> rs[i].id]
           byID == FromBytes(fixture).byID
<1>1. D = 1..Len(rs) /\ Len(rs) \in Nat
  BY DEF RightFixture
<1>2. IsFiniteSet(D) /\ Cardinality(D) = Len(rs)
  BY <1>1, FS_Interval
<1>3. \A r : r \in Range(rs) <=> \E i \in D : r = rs[i]
  BY DEF Range
<1>4. byID = [id \in {rs[i].id : i \in D} |-> LastWith(rs, id)]
  BY DEF FromBytes
<1> HIDE DEF rs, D, byID
<1>5. f \in Surjection(D, Ids)
  <2>1. \A i \in D : f[i] \in Ids
    BY <1>3
  <2>2. \A id \in Ids : \E i \in D : f[i] = id
    BY <1>3
  <2>3. QED
    BY <2>1, <2>2 DEF Surjection
<1>6. f \in Injection(D, Ids)
  BY <1>2, <1>5, FS_SurjSameCardinalityImpliesInj DEF rs
<1>7. \A i, j \in D : rs[i].id = rs[j].id => i = j
  <2>1. \A i \in D : f[i] = rs[i].id
    OBVIOUS
  <2> HIDE DEF f
  <2>2. \A i, j \in D : f[i] = f[j] => i = j
    BY <1>6 DEF Injection, IsInjective
  <2>3. QED
    BY <2>1, <2>2
<1>8. \A id : id \in DOMAIN byID <=> \E r \in Range(rs) : r.id = id
  BY <1>3, <1>4
<1>9. ASSUME NEW r \in Range(rs) PROVE byID[r.id] = r
  <2>1. PICK i \in D : r = rs[i]
    BY <1>3
  <2>2. r.id \in {rs[j].id : j \in D}
    BY <2>1
  <2>3. byID[r.id] = LastWith(rs, r.id)
    BY <1>4, <2>2
  <2>4. {j \in D : rs[j].id = r.id} = {i}
    BY <1>7, <2>1
  <2>5. LastWith(rs, r.id) = rs[CHOOSE k \in {i} : \A j \in {i} : j <= k]
    BY <2>4 DEF LastWith, D
  <2>6. i \in Int /\ \A k \in {i} : k = i
    BY <1>1
  <2>7. (CHOOSE k \in {i} : \A j \in {i} : j <= k) = i
    BY <2>6
  <2>8. QED
    BY <2>1, <2>3, <2>5, <2>7
<1>10. QED
  BY <1>8, <1>9 DEF rs, byID

(* A finite set of positions has a last one.                               *)
LEMMA LastPosition ==
  ASSUME NEW n \in Nat, NEW S, S \subseteq 1..n, S # {}
  PROVE  \E i \in S : \A j \in S : j <= i
<1> DEFINE R == {q \in S \X S : q[1] < q[2]}
           c == Cardinality(S)
           s == Listed(S, R)
<1>1. IsFiniteSet(S) /\ \A i \in S : i \in Nat
  <2>1. 1..n \subseteq Nat /\ IsFiniteSet(1..n)
    BY FS_Interval
  <2>2. QED
    BY <2>1, FS_Subset
<1>2. \A i, j \in S : <<i, j>> \in R <=> i < j
  OBVIOUS
<1>3. Orders(R, S)
  BY <1>1, <1>2 DEF Orders
<1> HIDE DEF R
<1>4. /\ s \in [1..c -> S] /\ c \in Nat /\ Range(s) = S
      /\ \A p, q \in 1..c : p < q <=> <<s[p], s[q]>> \in R
  BY <1>1, <1>3, ListedInOrder
<1> HIDE DEF c, s
<1>5. \A i \in S : \E p \in 1..c : s[p] = i
  BY <1>4 DEF Range
<1>6. c \in 1..c
  <2>1. PICK i \in S : TRUE
    OBVIOUS
  <2>2. PICK p \in 1..c : s[p] = i
    BY <1>5
  <2>3. QED
    BY <1>4, <2>2
<1>7. \A p \in 1..c : s[p] \in S /\ s[c] \in S /\ (p < c => s[p] < s[c])
  BY <1>2, <1>4, <1>6
<1>8. ASSUME NEW p \in 1..c PROVE s[p] <= s[c]
  <2>1. s[p] \in S /\ s[c] \in S
    BY <1>7
  <2>2. s[p] \in Nat /\ s[c] \in Nat
    BY <1>1, <2>1
  <2>3. p < c \/ p = c
    BY <1>4
  <2>4. QED
    BY <1>7, <2>2, <2>3
<1>9. QED
  BY <1>5, <1>6, <1>7, <1>8

(* What the index has under an id is a resource of the fixture.            *)
LEMMA IndexHolds ==
  ASSUME NEW fixture, RightFixture(fixture), NEW id \in DOMAIN FromBytes(fixture).byID
  PROVE  FromBytes(fixture).byID[id] \in Range(fixture.resources)
<1> DEFINE rs == fixture.resources
           at == {i \in DOMAIN rs : rs[i].id = id}
<1>1. DOMAIN rs = 1..Len(rs) /\ Len(rs) \in Nat
  BY DEF RightFixture
<1>2. /\ FromBytes(fixture).byID[id] = LastWith(rs, id)
      /\ id \in {rs[i].id : i \in DOMAIN rs}
  BY DEF FromBytes
<1>3. at \subseteq 1..Len(rs) /\ at # {}
  BY <1>1, <1>2
<1>4. PICK i \in at : \A j \in at : j <= i
  BY <1>1, <1>3, LastPosition
<1> DEFINE top == CHOOSE k \in at : \A j \in at : j <= k
<1>5. top \in at
  BY <1>4
<1>6. LastWith(rs, id) = rs[top]
  BY DEF LastWith
<1>7. top \in DOMAIN rs
  BY <1>5
<1>8. QED
  BY <1>2, <1>6, <1>7 DEF Range

(* What a lookup finds, or that it finds nothing, is sorted and counted.   *)
LEMMA FindingsCount ==
  ASSUME NEW fixture, RightFixture(fixture), NEW inst, RightAttributes(inst.type, inst.attributes)
  PROVE  \E T : /\ FindingsOf(FromBytes(fixture), inst) \in Seq(T)
                /\ \A x \in T : Sortable(x) /\ x.kind \in Kinds
<1> DEFINE p == FromBytes(fixture)
           attrs == inst.attributes
           id == AttrString(attrs, "id")
           e == FromState(p, inst)
           a == FetchActual(p, id)
<1>1. /\ e.key = <<inst.type, id>> /\ e.key \in Keys /\ e.tags = AttrTags(attrs, "tags")
      /\ e.attributes = ComparableAttributes(p, attrs, id)
  BY DEF FromState, RightAttributes
<1>2. FindingsOf(p, inst) = Compare(e, a, a.found)
  BY <1>1 DEF FindingsOf
<1>3. CASE id \notin DOMAIN p.byID
  <2>1. a.found = FALSE
    BY <1>3 DEF FetchActual
  <2>2. FindingsOf(p, inst) = <<DeletedItem(e)>>
    BY <1>2, <2>1, CompareMissing
  <2>3. /\ DeletedItem(e).key = e.key /\ DeletedItem(e).kind = "deleted"
        /\ DeletedItem(e).field = NoValue
    BY DEF DeletedItem, item
  <2>4. NoValue \in Range(FieldOrder)
    BY OrderAssumption DEF OrderAssumption, Range
  <2>5. Sortable(DeletedItem(e)) /\ DeletedItem(e).kind \in Kinds
    BY <1>1, <2>3, <2>4 DEF Sortable, Kinds
  <2> HIDE DEF e
  <2>6. <<DeletedItem(e)>> \in Seq({DeletedItem(e)})
    OBVIOUS
  <2> HIDE DEF p
  <2>7. FindingsOf(p, inst) \in Seq({DeletedItem(e)})
    BY <2>2, <2>6
  <2>8. \A x \in {DeletedItem(e)} : Sortable(x) /\ x.kind \in Kinds
    BY <2>5
  <2>9. QED
    BY <2>7, <2>8 DEF p
<1>4. CASE id \in DOMAIN p.byID
  <2> DEFINE r == p.byID[id]
  <2>1. r \in Range(fixture.resources)
    BY <1>4, IndexHolds
  <2>2. a = [found |-> TRUE, attributes |-> r.attributes, tags |-> r.tags]
    BY <1>4 DEF FetchActual
  <2>3. e.attributes = [k \in DOMAIN r.attributes |-> AttrString(attrs, k)]
    BY <1>1, <1>4 DEF ComparableAttributes
  <2>4. DOMAIN e.tags \subseteq Fields
    BY <1>1, TagsRead
  <2> HIDE DEF e, a, r, p
  <2>5. DOMAIN e.attributes \subseteq Fields /\ DOMAIN a.tags \subseteq Fields
    BY <2>1, <2>2, <2>3 DEF RightFixture
  <2>6. NamesKnown(e, a)
    BY <2>4, <2>5 DEF NamesKnown
  <2>7. /\ FindingsOf(p, inst) \in Seq(MayReport(e, a))
        /\ \A x \in MayReport(e, a) : Sortable(x)
    BY <1>1, <1>2, <2>2, <2>6, CompareSortable
  <2>8. \A x \in MayReport(e, a) : x.kind \in Kinds
    BY <2>6, ReportedItems DEF MayReport, ItemsOf, Kinds
  <2>9. QED
    BY <2>7, <2>8 DEF p
<1>5. QED
  BY <1>3, <1>4

\* What the scan reads of the state file and of the fixture.
Managing(file) == Range(Parse(file))
Scanned(fixture, file) == Range(Jobs(FromBytes(fixture), Parse(file)))
RightInstances(file) ==
  \A inst \in Managing(file) : RightAttributes(inst.type, inst.attributes)

(* And with a file the instances parsed from it.                           *)
LEMMA InstancesRight ==
  ASSUME NEW file \in StateFiles \ {None}
  PROVE  RightState(file) /\ RightInstances(file)
<1>1. /\ RightState(file)
      /\ \A block \in Range(file) : \A attrs \in Range(block.instances) :
           RightAttributes(block.type, attrs)
  BY FilesAreRight
<1>2. ASSUME NEW inst \in Managing(file) PROVE RightAttributes(inst.type, inst.attributes)
  <2>1. PICK block \in Range(file) : inst \in InstancesOf(block)
    BY <1>1, ParseLists DEF Managing
  <2>2. PICK attrs \in Range(block.instances) : inst = Instance(block.type, attrs)
    BY <2>1 DEF InstancesOf
  <2>3. inst.type = block.type /\ inst.attributes = attrs
    BY <2>2 DEF Instance
  <2>4. QED
    BY <1>1, <2>3
<1>3. QED
  BY <1>1, <1>2 DEF RightInstances

(* A report counts a finding exactly if some instance has one, and each of *)
(* its items is of one of the three kinds.                                 *)
LEMMA ReportRight ==
  ASSUME NEW fixture \in Fixtures \ {None}, NEW file \in StateFiles \ {None}
  PROVE  LET rep0 == ScanReport(FromBytes(fixture), Parse(file))
         IN  /\ \A i \in DOMAIN rep0.items : rep0.items[i].kind \in Kinds
             /\ HasDrift(rep0) <=>
                  \E inst \in Scanned(fixture, file) : FindingsOf(FromBytes(fixture), inst) # <<>>
<1> DEFINE p == FromBytes(fixture)
           jobs == Jobs(p, Parse(file))
           F(inst) == FindingsOf(p, inst)
           ss == [j \in DOMAIN jobs |-> F(jobs[j])]
           T == UNION {Range(F(inst)) : inst \in Range(jobs)}
           all == FlattenSeq(ss)
           sorted == StableSort(all)
           rep0 == ScanReport(p, Parse(file))
<1>1. RightFixture(fixture) /\ RightState(file) /\ RightInstances(file)
  BY FilesAreRight, InstancesRight
<1>2. /\ jobs \in Seq(Managing(file)) /\ \A inst \in Range(jobs) : inst \in Managing(file)
  BY <1>1, ParseLists, JobsAre DEF Managing
<1>3. /\ DOMAIN jobs = 1..Len(jobs) /\ Len(jobs) \in Nat
      /\ \A j \in DOMAIN jobs : jobs[j] \in Range(jobs)
      /\ \A inst : inst \in Range(jobs) <=> \E j \in DOMAIN jobs : jobs[j] = inst
  BY <1>2 DEF Range
<1>4. ASSUME NEW inst \in Range(jobs)
      PROVE  F(inst) \in Seq(Range(F(inst))) /\ \A x \in Range(F(inst)) : Sortable(x) /\ x.kind \in Kinds
  <2>1. RightAttributes(inst.type, inst.attributes)
    BY <1>1, <1>2 DEF RightInstances
  <2>2. PICK U : F(inst) \in Seq(U) /\ \A x \in U : Sortable(x) /\ x.kind \in Kinds
    BY <1>1, <2>1, FindingsCount
  <2> HIDE DEF F
  <2>3. Range(F(inst)) \subseteq U
    BY <2>2 DEF Range
  <2>4. QED
    BY <2>2, <2>3, RangeSeq
<1>5. rep0.items = sorted /\ rep0.summary.Total = Len(sorted)
  BY DEF ScanReport, Finalize, recount
<1>6. ss \in Seq(Seq(T)) /\ DOMAIN ss = DOMAIN jobs /\ \A j \in DOMAIN jobs : ss[j] = F(jobs[j])
  <2> HIDE DEF F, jobs
  <2>1. \A j \in DOMAIN jobs : Range(F(jobs[j])) \subseteq T
    BY <1>3
  <2>2. \A j \in DOMAIN jobs : F(jobs[j]) \in Seq(T)
    BY <1>3, <1>4, <2>1, SeqOfMore
  <2>3. QED
    BY <1>3, <2>2
<1> HIDE DEF F, jobs, ss, rep0
<1>7. \A x \in T : Sortable(x) /\ x.kind \in Kinds
  BY <1>4
<1> HIDE DEF T
<1>8. all \in Seq(T) /\ \A x : x \in Range(all) <=> \E j \in DOMAIN ss : x \in Range(ss[j])
  BY <1>6, FlattenHolds
<1> HIDE DEF all
<1>9. sorted \in Seq(T) /\ Len(sorted) = Len(all)
  BY <1>7, <1>8, SortRearranges
<1> HIDE DEF sorted
<1>10. \A i \in DOMAIN sorted : sorted[i].kind \in Kinds
  BY <1>7, <1>9
<1>11. Len(all) > 0 <=> \E x : x \in Range(all)
  BY <1>8 DEF Range
<1>12. \A j \in DOMAIN jobs : ss[j] # <<>> <=> \E x : x \in Range(ss[j])
  <2>1. \A j \in DOMAIN jobs : ss[j] \in Seq(T)
    BY <1>6
  <2>2. \A j \in DOMAIN jobs : ss[j] # <<>> <=> \E q : q \in DOMAIN ss[j]
    <3>1. \A s \in Seq(T) : s # <<>> <=> \E q : q \in DOMAIN s
      OBVIOUS
    <3>2. QED
      BY <2>1, <3>1
  <2>3. QED
    BY <2>2 DEF Range
<1>13. Len(all) > 0 <=> \E inst \in Range(jobs) : F(inst) # <<>>
  <2>1. Len(all) > 0 <=> \E j \in DOMAIN jobs : ss[j] # <<>>
    BY <1>6, <1>8, <1>11, <1>12
  <2>2. QED
    BY <1>3, <1>6, <2>1
<1>14. HasDrift(rep0) <=> \E inst \in Range(jobs) : F(inst) # <<>>
  BY <1>5, <1>9, <1>13 DEF HasDrift
<1>15. QED
  BY <1>5, <1>10, <1>14 DEF rep0, jobs, F, Scanned

\* What the gate is about has been read.
FilesRead == read.fixture \in Fixtures \ {None} /\ read.state \in StateFiles \ {None}

(* The jobs of a scan are the instances it has to watch.                   *)
LEMMA ScannedAreWatched ==
  ASSUME FilesRead
  PROVE  Scanned(read.fixture, read.state) = Watched
<1> DEFINE p == FromBytes(read.fixture)
           rs == read.fixture.resources
<1>1. RightState(read.state) /\ RightFixture(read.fixture)
  BY FilesAreRight DEF FilesRead
<1>2. p.types = Known
  <2>1. p.types = Range(read.fixture.types) \cup {rs[i].type : i \in DOMAIN rs}
    BY DEF FromBytes
  <2>2. {rs[i].type : i \in DOMAIN rs} = {r.type : r \in Range(rs)}
    BY DEF Range
  <2>3. QED
    BY <2>1, <2>2 DEF Known, Live
<1>3. \A inst : inst \in Managing(read.state) <=> inst \in Recorded
  <2>1. \A inst : inst \in Managing(read.state) <=>
          \E block \in Range(read.state) : Managed(block) /\ inst \in InstancesOf(block)
    BY <1>1, ParseLists DEF Managing
  <2>2. \A inst : inst \in Recorded <=>
          \E block \in Range(read.state) : Managed(block) /\ inst \in InstancesOf(block)
    BY DEF Recorded, Managed, InstancesOf, Instance
  <2>3. QED
    BY <2>1, <2>2
<1>4. \A inst : inst \in Scanned(read.fixture, read.state) <=>
        inst \in Managing(read.state) /\ inst.type \in p.types
  BY <1>1, ParseLists, JobsAre DEF Scanned, Managing
<1>5. \A inst : inst \in Scanned(read.fixture, read.state) <=> inst \in Watched
  BY <1>2, <1>3, <1>4 DEF Watched
<1>6. QED
  BY <1>5

(* Where ids are not used twice, a lookup finds something exactly if the   *)
(* instance has drifted.                                                   *)
LEMMA FoundIfDrifted ==
  ASSUME FilesRead, Unambiguous, NEW inst \in Watched
  PROVE  FindingsOf(FromBytes(read.fixture), inst) # <<>> <=> Drifted(inst)
<1> DEFINE p == FromBytes(read.fixture)
           attrs == inst.attributes
           id == AttrString(attrs, "id")
           e == FromState(p, inst)
           a == FetchActual(p, id)
<1>1. RightFixture(read.fixture) /\ RightInstances(read.state)
  BY FilesAreRight, InstancesRight DEF FilesRead
<1>2. RightAttributes(inst.type, attrs)
  <2>1. inst \in Managing(read.state)
    BY ScannedAreWatched, JobsAre, ParseLists, FilesAreRight DEF FilesRead, Scanned, Managing
  <2>2. QED
    BY <1>1, <2>1 DEF RightInstances
<1>3. id = IdOf(attrs) /\ \A k : AttrString(attrs, k) = CloudText(attrs, k)
  BY <1>2, TextRead DEF IdOf
<1>4. /\ e.key = <<inst.type, id>> /\ e.tags = AttrTags(attrs, "tags")
      /\ e.attributes = ComparableAttributes(p, attrs, id)
      /\ FindingsOf(p, inst) = Compare(e, a, a.found)
  BY DEF FromState, FindingsOf
<1>5. /\ \A x : x \in DOMAIN p.byID <=> \E r \in Live : r.id = x
      /\ \A r \in Live : p.byID[r.id] = r
      /\ \A r \in Live : r.id = id => r.type = inst.type
  BY <1>1, <1>3, IndexedById DEF Unambiguous, Live
<1>6. CASE id \notin DOMAIN p.byID
  <2>1. a.found = FALSE
    BY <1>6 DEF FetchActual
  <2>2. FindingsOf(p, inst) = <<DeletedItem(e)>>
    BY <1>4, <2>1, CompareMissing
  <2>3. Drifted(inst)
    BY <1>3, <1>5, <1>6 DEF Drifted
  <2>4. \A x : <<x>> # <<>>
    OBVIOUS
  <2>5. QED
    BY <2>2, <2>3, <2>4
<1>7. CASE id \in DOMAIN p.byID
  <2>1. PICK r \in Live : r.id = id
    BY <1>5, <1>7
  <2>2. p.byID[id] = r /\ r.type = inst.type
    BY <1>5, <2>1
  <2>3. a.found = TRUE /\ a.attributes = r.attributes /\ a.tags = r.tags
    BY <1>7, <2>2 DEF FetchActual
  <2>4. e.attributes = [k \in DOMAIN r.attributes |-> AttrString(attrs, k)]
    BY <1>4, <1>7, <2>2 DEF ComparableAttributes
  <2>5. TagEntries(attrs) = Pairs(e.tags) /\ DOMAIN e.tags \subseteq Fields
    BY <1>2, <1>4, TagsRead
  <2> HIDE DEF e, a, p
  <2>6. NamesKnown(e, a)
    BY <1>1, <2>3, <2>4, <2>5 DEF NamesKnown, RightFixture, Live
  <2>7. FindingsOf(p, inst) = <<>>
          <=> DriftedAttributes(e, a) = {} /\ LostTags(e, a) \cup AddedTags(e, a) = {}
    BY <1>4, <2>3, <2>6, NothingFound DEF p
  <2>8. DriftedAttributes(e, a) = {}
          <=> \A k \in DOMAIN r.attributes : r.attributes[k] = CloudText(attrs, k)
    BY <1>3, <2>3, <2>4 DEF DriftedAttributes, AttributeDrifted
  <2>9. LostTags(e, a) \cup AddedTags(e, a) = {}
          <=> DOMAIN e.tags = DOMAIN r.tags /\ \A k \in DOMAIN e.tags : e.tags[k] = r.tags[k]
    BY <2>3 DEF LostTags, AddedTags, TagDrifted
  <2>10. LostTags(e, a) \cup AddedTags(e, a) = {} <=> TagEntries(attrs) = Pairs(r.tags)
    BY <2>5, <2>9, SamePairs
  <2>11. FindingsOf(p, inst) = <<>> <=> InSync(attrs, r)
    BY <2>7, <2>8, <2>10 DEF InSync, Pairs
  <2>12. \A q \in Live : q.id = id => q = r
    BY <1>5, <2>1
  <2>13. Drifted(inst) <=> ~InSync(attrs, r)
    BY <1>3, <2>1, <2>2, <2>12 DEF Drifted
  <2>14. QED
    BY <2>11, <2>13 DEF p
<1>8. QED
  BY <1>6, <1>7

\* The report of a scan of what has been read.
ReportIsOfRead ==
  FilesRead /\ rep = ScanReport(FromBytes(read.fixture), Parse(read.state))

(* So the report has drift in it exactly if something watched has drifted. *)
LEMMA DriftIsDrift ==
  ASSUME ReportIsOfRead, Unambiguous
  PROVE  HasDrift(rep) <=> \E inst \in Watched : Drifted(inst)
<1>1. HasDrift(rep) <=> \E inst \in Scanned(read.fixture, read.state) :
                          FindingsOf(FromBytes(read.fixture), inst) # <<>>
  BY ReportRight DEF ReportIsOfRead, FilesRead
<1>2. QED
  BY <1>1, ScannedAreWatched, FoundIfDrifted DEF ReportIsOfRead

-----------------------------------------------------------------------------
(* The gate.                                                               *)

\* The provider is that of the fixture read, the report that of both files,
\* and the exit code that of the report.
ProviderIsOfRead ==
  stage = "scanning" =>
    read.fixture \in Fixtures \ {None} /\ provider = FromBytes(read.fixture)
ReportFollows == (stage \in AfterScan \/ Succeeded) => ReportIsOfRead
CodeFollows == Succeeded => (code = 3 <=> args.exitOnDrift /\ HasDrift(rep))

GateInv == ProviderIsOfRead /\ ReportFollows /\ CodeFollows /\ TypeOK

(* Steps that lead neither past the scan nor to a success.                 *)
LEMMA NoGateYet ==
  ASSUME \/ stage' \in {"started", "opening", "constructing"}
         \/ stage' = "exited" /\ (code' \in {1, 2, Killed} \/ args'.command # "scan")
  PROVE  ProviderIsOfRead' /\ ReportFollows' /\ CodeFollows'
<1>1. ~Succeeded'
  BY DEF Succeeded, Killed
<1>2. stage' \notin AfterScan /\ stage' # "scanning"
  BY DEF AfterScan
<1>3. QED
  BY <1>1, <1>2 DEF ProviderIsOfRead, ReportFollows, CodeFollows

(* Steps from the scan to the rendering leave the report alone.            *)
LEMMA ReportCarried ==
  ASSUME GateInv, stage \in AfterScan, stage' \in AfterScan, UNCHANGED <<rep, read>>
  PROVE  ProviderIsOfRead' /\ ReportFollows' /\ CodeFollows'
<1>1. stage' # "scanning" /\ stage' # "exited"
  BY DEF AfterScan
<1>2. ReportIsOfRead'
  BY DEF GateInv, ReportFollows, ReportIsOfRead, FilesRead
<1>3. QED
  BY <1>1, <1>2 DEF ProviderIsOfRead, ReportFollows, CodeFollows, Succeeded

(* A success exits with the code of the report.                            *)
LEMMA CodeOfReport ==
  ASSUME GateInv, stage = "rendering", stage' = "exited", code' = ExitCode,
         UNCHANGED <<args, rep, read>>
  PROVE  ProviderIsOfRead' /\ ReportFollows' /\ CodeFollows'
<1>1. ReportIsOfRead'
  BY DEF GateInv, ReportFollows, ReportIsOfRead, FilesRead, AfterScan
<1>2. code' = 3 <=> args.exitOnDrift /\ HasDrift(rep)
  BY DEF ExitCode
<1>3. HasDrift(rep)' <=> HasDrift(rep)
  BY DEF HasDrift
<1>4. QED
  BY <1>1, <1>2, <1>3 DEF ProviderIsOfRead, ReportFollows, CodeFollows

(* The scan itself.                                                        *)
LEMMA ReportMade ==
  ASSUME GateInv, Scan
  PROVE  ProviderIsOfRead' /\ ReportFollows' /\ CodeFollows' /\ ReportIsOfRead'
<1>1. /\ stage = "scanning" /\ stage' \in {"saving", "opening output"}
      /\ read' = [read EXCEPT !.state = world.state] /\ world.state # None
      /\ rep' = ScanReport(provider, Parse(world.state))
  BY DEF Scan, At, GoTo, NextAfterScan
<1>2. read.fixture \in Fixtures \ {None} /\ provider = FromBytes(read.fixture)
  BY <1>1 DEF GateInv, ProviderIsOfRead
<1>3. world.state \in StateFiles
  BY DEF GateInv, TypeOK
<1>4. read'.state = world.state /\ read'.fixture = read.fixture
  BY <1>1 DEF GateInv, TypeOK
<1>5. ReportIsOfRead'
  BY <1>1, <1>2, <1>3, <1>4 DEF ReportIsOfRead, FilesRead
<1>6. QED
  BY <1>1, <1>5 DEF ProviderIsOfRead, ReportFollows, CodeFollows, Succeeded

(* Every step keeps the provider, the report and the code to what is read. *)
LEMMA GateStep ==
  ASSUME GateInv, [Next]_vars
  PROVE  ProviderIsOfRead' /\ ReportFollows' /\ CodeFollows'
<1>1. ASSUME NEW a \in Invocations, Invoke(a)
      PROVE  ProviderIsOfRead' /\ ReportFollows' /\ CodeFollows'
  BY <1>1, NoGateYet DEF Invoke
<1>2. CASE Dispatch
  BY <1>2, NoGateYet DEF Dispatch, At, Exit
<1>3. CASE ParseFlags \/ OpenSource
  BY <1>3, NoGateYet DEF ParseFlags, OpenSource, At, GoTo, Exit
<1>4. CASE NewProvider
  <2>1. /\ stage' = "scanning" /\ world.fixture \in Fixtures \ {None}
        /\ provider' = FromBytes(world.fixture)
        /\ read' = [read EXCEPT !.fixture = world.fixture]
    BY <1>4 DEF NewProvider, At, GoTo, GateInv, TypeOK
  <2>2. read'.fixture = world.fixture
    BY <2>1 DEF GateInv, TypeOK
  <2>3. ProviderIsOfRead'
    BY <2>1, <2>2 DEF ProviderIsOfRead
  <2>4. QED
    BY <2>1, <2>3 DEF ReportFollows, CodeFollows, Succeeded, AfterScan
<1>5. CASE Scan
  BY <1>5, ReportMade
<1>6. CASE NewProviderFails \/ ScanFails \/ PersistFails \/ CreateFails \/ UnknownFormat
  <2>1. stage' = "exited" /\ code' \in {1, 2}
    BY <1>6 DEF NewProviderFails, ScanFails, PersistFails, CreateFails, UnknownFormat, Exit
  <2>2. QED
    BY <2>1, NoGateYet
<1>7. CASE Persist \/ CreateOutput \/ UseStdout
  BY <1>7, ReportCarried DEF Persist, CreateOutput, UseStdout, At, GoTo, AfterScan
<1>8. CASE RenderFails \/ Kill
  <2>1. stage' = "exited" /\ code' \in {1, Killed}
    BY <1>8 DEF RenderFails, Kill, Exit
  <2>2. QED
    BY <2>1, NoGateYet
<1>9. CASE Rendered \/ HeadIsLost
  BY <1>9, CodeOfReport DEF Rendered, HeadIsLost, At, Exit
<1>10. ASSUME UNCHANGED <<stage, args, code, provider, rep, read>>
       PROVE  ProviderIsOfRead' /\ ReportFollows' /\ CodeFollows'
  <2>1. Succeeded' <=> Succeeded
    BY <1>10 DEF Succeeded
  <2>2. ReportIsOfRead => ReportIsOfRead'
    BY <1>10 DEF ReportIsOfRead, FilesRead
  <2>3. HasDrift(rep)' <=> HasDrift(rep)
    BY <1>10 DEF HasDrift
  <2>4. QED
    BY <1>10, <2>1, <2>2, <2>3 DEF GateInv, ProviderIsOfRead, ReportFollows, CodeFollows
<1>11. ASSUME NEW w, Edit(w) PROVE ProviderIsOfRead' /\ ReportFollows' /\ CodeFollows'
  BY <1>10, <1>11 DEF Edit, process, history
<1>12. CASE UNCHANGED vars
  BY <1>10, <1>12 DEF vars, process, history
<1>13. QED
  BY <1>1, <1>2, <1>3, <1>4, <1>5, <1>6, <1>7, <1>8, <1>9, <1>11, <1>12
     DEF Next, RunScan, Idle

\* The parts of TypeOK that most steps leave alone.
StageTypes ==
  /\ stage \in Stages /\ args \in Invocations \cup {None} /\ run \in 0..MaxRuns
  /\ code \in {None, 0, 1, 2, 3, Killed}
WorldTypes ==
  world.state \in StateFiles /\ world.fixture \in Fixtures /\ edits \in 0..MaxEdits
FileTypes ==
  stored \subseteq 1..MaxRuns /\ out \in Outputs \cup {None} /\ stdout \in Texts
ReadTypes == read \in [state : StateFiles \cup {None}, fixture : Fixtures \cup {None}]
ReportTypes == rep # None => \A i \in DOMAIN rep.items : rep.items[i].kind \in Kinds

(* They are all of it,                                                     *)
LEMMA TypeParts ==
  TypeOK <=> StageTypes /\ WorldTypes /\ FileTypes /\ ReadTypes /\ ReportTypes
BY DEF TypeOK, StageTypes, WorldTypes, FileTypes, ReadTypes, ReportTypes

(* in the next state too.                                                  *)
LEMMA TypePartsNext ==
  ASSUME StageTypes', WorldTypes', FileTypes', ReadTypes', ReportTypes'
  PROVE  TypeOK'
BY DEF TypeOK, StageTypes, WorldTypes, FileTypes, ReadTypes, ReportTypes

(* A step of runScan that does not invoke, edit or read.                   *)
LEMMA StageStep ==
  ASSUME TypeOK, UNCHANGED <<args, run, world, edits>>, stage' \in Stages,
         code' = code \/ code' \in {0, 1, 2, 3, Killed}
  PROVE  StageTypes' /\ WorldTypes'
BY TypeParts DEF StageTypes, WorldTypes

(* An invocation that is under way has its number.                         *)
LEMMA RunInRange ==
  ASSUME IInv
  PROVE  run \in Nat /\ MaxRuns \in Nat /\ (stage # "exited" => run \in 1..MaxRuns)
<1>1. MaxRuns \in Nat
  BY CommandAssumption DEF CommandAssumption
<1>2. QED
  BY <1>1 DEF IInv, RunsCounted

(* What is written to the output file or printed is all or part of the     *)
(* report.                                                                 *)
LEMMA WrittenTypes ==
  ASSUME TypeOK, IInv, stage = "rendering", NEW text \in Texts, Written(text), UNCHANGED stored
  PROVE  FileTypes'
<1>1. FileTypes
  BY TypeParts
<1>2. CASE args.out
  <2>1. out = [of |-> run, text |-> "nothing"]
    BY <1>2 DEF IInv, OwnOutput
  <2>2. out' = [of |-> run, text |-> text] /\ stdout' = stdout
    BY <1>2, <2>1 DEF Written
  <2>3. run \in 1..MaxRuns
    BY RunInRange
  <2>4. out' \in Outputs
    BY <2>2, <2>3 DEF Outputs
  <2>5. QED
    BY <1>1, <2>2, <2>4 DEF FileTypes
<1>3. CASE ~args.out
  BY <1>1, <1>3 DEF FileTypes, Written
<1>4. QED
  BY <1>2, <1>3

(* Types are kept by every step.                                           *)
LEMMA TypeStep ==
  ASSUME GateInv, IInv, [Next]_vars
  PROVE  TypeOK'
<1>1. TypeOK /\ StageTypes /\ WorldTypes /\ FileTypes /\ ReadTypes /\ ReportTypes
  BY TypeParts DEF GateInv
<1>2. run \in Nat /\ MaxRuns \in Nat /\ (stage # "exited" => run \in 1..MaxRuns)
  BY RunInRange
<1>3. ASSUME UNCHANGED <<stored, out, stdout>> PROVE FileTypes'
  BY <1>1, <1>3 DEF FileTypes
<1>4. ASSUME UNCHANGED read PROVE ReadTypes'
  BY <1>1, <1>4 DEF ReadTypes
<1>5. ASSUME UNCHANGED rep PROVE ReportTypes'
  BY <1>1, <1>5 DEF ReportTypes
<1>6. ASSUME NEW a \in Invocations, Invoke(a) PROVE TypeOK'
  <2>1. StageTypes' /\ WorldTypes'
    BY <1>1, <1>2, <1>6 DEF Invoke, StageTypes, WorldTypes, Stages, inputs
  <2>2. FileTypes'
    BY <1>1, <1>6 DEF Invoke, FileTypes, Texts
  <2>3. ReadTypes' /\ ReportTypes'
    BY <1>6 DEF Invoke, ReadTypes, ReportTypes
  <2>4. QED
    BY <2>1, <2>2, <2>3, TypePartsNext
<1>7. CASE Dispatch \/ ParseFlags \/ OpenSource \/ NewProviderFails \/ ScanFails \/ PersistFails
             \/ CreateFails \/ UseStdout \/ UnknownFormat
  <2>1. /\ UNCHANGED <<args, run, world, edits>> /\ stage' \in Stages
        /\ code' = code \/ code' \in {0, 1, 2, 3, Killed}
    BY <1>7 DEF Dispatch, ParseFlags, OpenSource, NewProviderFails, ScanFails, PersistFails,
       CreateFails, UseStdout, UnknownFormat, At, GoTo, Exit, Stages, inputs
  <2>2. UNCHANGED <<stored, out, stdout, read, rep>>
    BY <1>7 DEF Dispatch, ParseFlags, OpenSource, NewProviderFails, ScanFails, PersistFails,
       CreateFails, UseStdout, UnknownFormat, files
  <2>3. QED
    BY <1>1, <1>3, <1>4, <1>5, <2>1, <2>2, StageStep, TypePartsNext
<1>8. CASE NewProvider
  <2>1. StageTypes' /\ WorldTypes'
    BY <1>1, <1>8, StageStep DEF NewProvider, At, GoTo, Stages, inputs
  <2>2. UNCHANGED <<stored, out, stdout, rep>>
    BY <1>8 DEF NewProvider, files
  <2>3. ReadTypes'
    BY <1>1, <1>8 DEF NewProvider, ReadTypes, WorldTypes
  <2>4. QED
    BY <1>3, <1>5, <2>1, <2>2, <2>3, TypePartsNext
<1>9. CASE Scan
  <2>1. StageTypes' /\ WorldTypes'
    BY <1>1, <1>9, StageStep DEF Scan, At, GoTo, NextAfterScan, Stages, inputs
  <2>2. UNCHANGED <<stored, out, stdout>>
    BY <1>9 DEF Scan, files
  <2>3. ReadTypes'
    BY <1>1, <1>9 DEF Scan, ReadTypes, WorldTypes
  <2>4. ReportTypes'
    BY <1>9, ReportMade, ReportRight DEF ReportTypes, ReportIsOfRead, FilesRead
  <2>5. QED
    BY <1>3, <2>1, <2>2, <2>3, <2>4, TypePartsNext
<1>10. CASE Persist
  <2>1. StageTypes' /\ WorldTypes'
    BY <1>1, <1>10, StageStep DEF Persist, At, GoTo, Stages, inputs
  <2>2. FileTypes'
    BY <1>1, <1>2, <1>10 DEF Persist, At, FileTypes
  <2>3. UNCHANGED <<read, rep>>
    BY <1>10 DEF Persist
  <2>4. QED
    BY <1>4, <1>5, <2>1, <2>2, <2>3, TypePartsNext
<1>11. CASE CreateOutput
  <2>1. StageTypes' /\ WorldTypes'
    BY <1>1, <1>11, StageStep DEF CreateOutput, At, GoTo, Stages, inputs
  <2>2. [of |-> run, text |-> "nothing"] \in Outputs
    BY <1>2, <1>11 DEF CreateOutput, At, Outputs, Texts
  <2>3. FileTypes'
    BY <1>1, <1>11, <2>2 DEF CreateOutput, FileTypes
  <2>4. UNCHANGED <<read, rep>>
    BY <1>11 DEF CreateOutput
  <2>5. QED
    BY <1>4, <1>5, <2>1, <2>3, <2>4, TypePartsNext
<1>12. CASE Rendered \/ RenderFails \/ HeadIsLost
  <2>1. /\ UNCHANGED <<args, run, world, edits, stored, read, rep>> /\ stage = "rendering"
        /\ stage' \in Stages /\ code' \in {0, 1, 2, 3, Killed}
    BY <1>12 DEF Rendered, RenderFails, HeadIsLost, At, Exit, ExitCode, Stages, inputs
  <2>2. PICK text \in Texts : Written(text)
    BY <1>12 DEF Rendered, RenderFails, HeadIsLost, Texts
  <2>3. FileTypes'
    BY <1>1, <2>1, <2>2, WrittenTypes
  <2>4. QED
    BY <1>1, <1>4, <1>5, <2>1, <2>3, StageStep, TypePartsNext
<1>13. CASE Kill
  <2>1. StageTypes' /\ WorldTypes'
    BY <1>1, <1>13, StageStep DEF Kill, Exit, Stages, inputs
  <2>2. UNCHANGED <<stored, out, stdout, read, rep>>
    BY <1>13 DEF Kill, files, history
  <2>3. QED
    BY <1>3, <1>4, <1>5, <2>1, <2>2, TypePartsNext
<1>14. ASSUME NEW w \in [state : StateFiles, fixture : Fixtures], Edit(w) PROVE TypeOK'
  <2>1. StageTypes'
    BY <1>1, <1>14 DEF Edit, StageTypes, process
  <2>2. WorldTypes'
    <3>1. MaxEdits \in Nat
      BY CommandAssumption DEF CommandAssumption
    <3>2. QED
      BY <1>1, <1>14, <3>1 DEF Edit, WorldTypes
  <2>3. UNCHANGED <<stored, out, stdout, read, rep>>
    BY <1>14 DEF Edit, files, history
  <2>4. QED
    BY <1>3, <1>4, <1>5, <2>1, <2>2, <2>3, TypePartsNext
<1>15. CASE UNCHANGED vars
  <2>1. StageTypes' /\ WorldTypes'
    BY <1>1, <1>15 DEF vars, process, inputs, StageTypes, WorldTypes
  <2>2. UNCHANGED <<stored, out, stdout, read, rep>>
    BY <1>15 DEF vars, files, history
  <2>3. QED
    BY <1>3, <1>4, <1>5, <2>1, <2>2, TypePartsNext
<1>16. QED
  BY <1>6, <1>7, <1>8, <1>9, <1>10, <1>11, <1>12, <1>13, <1>14, <1>15 DEF Next, RunScan, Idle

(* Nothing has been read at first.                                         *)
LEMMA GateInit == Init => GateInv
<1> SUFFICES ASSUME Init PROVE GateInv
  OBVIOUS
<1>1. ProviderIsOfRead /\ ReportFollows /\ CodeFollows
  BY DEF Init, ProviderIsOfRead, ReportFollows, CodeFollows, Succeeded, AfterScan
<1>2. MaxRuns \in Nat /\ MaxEdits \in Nat
  BY CommandAssumption DEF CommandAssumption
<1>3. StageTypes /\ WorldTypes
  BY <1>2 DEF Init, StageTypes, WorldTypes, Stages
<1>4. FileTypes /\ ReadTypes /\ ReportTypes
  BY DEF Init, FileTypes, ReadTypes, ReportTypes, Texts
<1>5. QED
  BY <1>1, <1>3, <1>4, TypeParts DEF GateInv

(* The provider, the report and the code always follow from what is read.  *)
THEOREM GateInductive == Spec => []GateInv
<1>1. IInv /\ GateInv /\ [Next]_vars => GateInv'
  BY GateStep, TypeStep DEF GateInv
<1>2. QED
  BY <1>1, GateInit, Inductive, PTL DEF Spec

(* The types of all variables, whatever has failed or been killed.         *)
THEOREM TypeCorrect == Spec => []TypeOK
<1>1. GateInv => TypeOK
  BY DEF GateInv
<1>2. QED
  BY <1>1, GateInductive, PTL

(* The exit code of scan --exit-code is right from end to end, for every   *)
(* state file and every fixture that uses no id twice.                     *)
THEOREM GateIsRight == Spec => []DriftGateIsRight
<1>1. ASSUME GateInv PROVE DriftGateIsRight
  BY <1>1, DriftIsDrift DEF GateInv, ReportFollows, CodeFollows, DriftGateIsRight
<1>2. QED
  BY <1>1, GateInductive, PTL
=============================================================================
