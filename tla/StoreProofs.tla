---------------------------- MODULE StoreProofs -----------------------------
(***************************************************************************)
(* What modules Store and Dashboard guarantee for any set of runs, any     *)
(* report sizes and any clock: a saved report that shares its second with  *)
(* no other stays, a list that succeeds holds it, newest first, and a link *)
(* leads to it.                                                            *)
(***************************************************************************)
EXTENDS Dashboard, SequenceTheorems, TLAPS

\* A run has its own report from the end of its scan on, and a report is
\* acknowledged when its run has saved it.
OwnReports ==
  /\ \A p \in Runs : phase[p] # "scanning" => report[p] \in Reports /\ report[p].by = p
  /\ \A r \in acked : r.by \in Runs /\ phase[r.by] = "saved" /\ report[r.by] = r

\* Of the files that saves made, one that parses holds a report that was
\* written whole, under its own scan id.
OwnNames ==
  /\ \A i \in DOMAIN files \ Foreign :
       files[i].text # None => files[i].text \in Written /\ ScanID(files[i].text) = i
  /\ \A i \in DOMAIN files \cap Foreign : files[i].text \in {None, Other}

\* A run that is writing has a file, which is empty unless it is shared.
Emptied ==
  \A p \in Runs : phase[p] = "opened" =>
    /\ ScanID(report[p]) \in DOMAIN files
    /\ Alone(report[p]) => files[ScanID(report[p])] = Empty

\* A report that was written whole stays, acknowledged or not, unless its
\* second is shared.
WrittenStays ==
  \A r \in Written : Alone(r) => ScanID(r) \in DOMAIN files /\ files[ScanID(r)].text = r

\* The reader: what it has read is newer than what it has still to read, and
\* what was due and is not read yet is still to be read.
Descending ==
  \A i, k \in DOMAIN out :
    i < k /\ out[i] # Other /\ out[k] # Other => ScanID(out[k]) < ScanID(out[i])
Reading ==
  /\ Range(out) \subseteq Written \cup {Other}
  /\ Descending
  /\ \A i \in DOMAIN out, id \in todo : out[i] # Other => id < ScanID(out[i])
  /\ listing \in {"reading", "listed"} =>
       \A r \in due : Alone(r) => r \in Range(out) \/ ScanID(r) \in todo
  /\ listing # "reading" => todo = {}

IInv ==
  /\ TypeOK
  /\ OwnReports /\ OwnNames /\ Emptied /\ WrittenStays
  /\ Reading

-----------------------------------------------------------------------------
(* Facts about stamps, reports and contents.                               *)

(* The scan id orders reports as their time does, from one second on.      *)
LEMMA StampOrder ==
  ASSUME NEW m \in Nat, NEW n \in Nat
  PROVE  /\ Stamp(m) \in Nat
         /\ Stamp(m) < Stamp(n) => m < n
BY StoreAssumption DEF Stamp, StoreAssumption

(* A report has a run, a size, a time and so a scan id.                    *)
LEMMA ReportFacts ==
  ASSUME NEW r \in Reports
  PROVE  /\ ScanID(r) \in Nat /\ r.by \in Runs /\ r.size \in Nat \ {0} /\ r.at \in Nat
         /\ r # None /\ r # Other /\ ScanID(r) \notin Foreign
<1>1. r.at \in Nat
  BY StoreAssumption DEF Reports, StoreAssumption
<1>2. ScanID(r) \in Nat
  BY <1>1, StampOrder DEF ScanID
<1>3. r.by \in Runs /\ r.size \in Nat \ {0} /\ r # None /\ r # Other
  BY StoreAssumption, <1>1 DEF Reports, StoreAssumption
<1>4. ScanID(r) \notin Foreign
  BY StoreAssumption DEF Reports, ScanID, Stamp, StoreAssumption
<1>5. QED
  BY <1>1, <1>2, <1>3, <1>4

(* Writing, whole or in part, gives a content.                             *)
LEMMA ContentTypes ==
  /\ Empty \in Contents
  /\ \A c \in Contents, r \in Reports :
       /\ Overwrite(c, r) \in Contents
       /\ Overwrite(c, r).text \in {r, None}
       /\ c = Empty => Overwrite(c, r).text = r
  /\ \A c \in Contents, n \in Nat :
       /\ OverwritePart(c, n) \in Contents
       /\ OverwritePart(c, n).text \in {c.text, None}
<1>1. Empty \in Contents
  BY DEF Empty, Contents
<1>2. ASSUME NEW c \in Contents, NEW r \in Reports
      PROVE  /\ Overwrite(c, r) \in Contents
             /\ Overwrite(c, r).text \in {r, None}
             /\ c = Empty => Overwrite(c, r).text = r
  BY ReportFacts DEF Contents, Overwrite, Larger, Empty
<1>3. ASSUME NEW c \in Contents, NEW n \in Nat
      PROVE  /\ OverwritePart(c, n) \in Contents
             /\ OverwritePart(c, n).text \in {c.text, None}
  BY DEF Contents, OverwritePart, Larger
<1>4. QED
  BY <1>1, <1>2, <1>3

(* Putting a content into the directory changes one file.                  *)
LEMMA PutFacts ==
  ASSUME NEW id, NEW c
  PROVE  /\ DOMAIN Put(id, c) = DOMAIN files \cup {id}
         /\ Put(id, c)[id] = c
         /\ \A i \in DOMAIN files : i # id => Put(id, c)[i] = files[i]
BY DEF Put

(* The invariant holds of a store with nothing but foreign files in it.    *)
LEMMA InitialStates ==
  ASSUME Init
  PROVE  IInv
<1> USE DEF Init
<1>1. PICK names \in SUBSET Foreign : files \in [names -> ForeignContents]
  OBVIOUS
<1>2. \A c \in ForeignContents : c \in Contents /\ c.text \in {None, Other}
  BY DEF ForeignContents, Empty, Contents
<1>3. TypeOK
  <2>1. 0 \in 0..MaxNow /\ <<>> \in Seq(Reports \cup {Other})
    BY StoreAssumption DEF StoreAssumption
  <2>2. QED
    BY <1>1, <1>2, <2>1 DEF TypeOK
<1>4. Written = {}
  BY DEF Written, WrittenPhases
<1>5. OwnReports /\ OwnNames /\ Emptied /\ WrittenStays
  BY <1>1, <1>2, <1>4 DEF OwnReports, OwnNames, Emptied, WrittenStays
<1>6. Reading
  BY DEF Reading, Descending, Range
<1>7. QED
  BY <1>3, <1>5, <1>6 DEF IInv

-----------------------------------------------------------------------------
(* The steps.                                                              *)

\* Steps that change neither the directory nor what is known of the runs.
ReaderStep ==
  \/ ReadDir \/ ReadDirFails \/ ReturnList
  \/ \E id \in todo : GetReport(id) \/ ReadFileFails(id) \/ ParseFails(id)
RunStep(p) ==
  \/ \E size \in Sizes, at \in 0..MaxNow : FinishScan(p, size, at)
  \/ OpenFile(p) \/ OpenFails(p) \/ WriteFile(p) \/ WriteFails(p)
  \/ SaveReturns(p) \/ CloseFails(p)

(* A step is one of the reader or of one run.                              *)
LEMMA StepCases ==
  ASSUME [Next]_vars
  PROVE  \/ UNCHANGED vars \/ ReaderStep
         \/ \E p \in Runs : RunStep(p)
BY DEF Next, ReaderStep, RunStep

(* The reader only reads.                                                  *)
LEMMA ReaderFacts ==
  ASSUME UNCHANGED vars \/ ReaderStep
  PROVE  UNCHANGED <<files, phase, report, acked>>
BY DEF vars, runs, ReaderStep, ReadDir, ReadDirFails, ReturnList, GetReport,
  ReadFileFails, ParseFails, ListFails

(* A step of a run is its own: it moves on, and keeps the report it has.   *)
LEMMA RunFacts ==
  ASSUME IInv, NEW p \in Runs, RunStep(p)
  PROVE  /\ UNCHANGED reader
         /\ \A q \in Runs : q # p => phase'[q] = phase[q] /\ report'[q] = report[q]
         /\ phase[p] # "scanning" => report'[p] = report[p]
         /\ Began(p) => Began(p)'
         /\ phase[p] \in WrittenPhases => phase'[p] \in WrittenPhases
         /\ acked \subseteq acked'
         /\ phase[p] \in {"opened", "failed"} =>
              phase'[p] = "failed" \/ WriteFile(p)
BY DEF IInv, TypeOK, RunStep, FinishScan, OpenFile, OpenFails, WriteFile, WriteFails,
  SaveReturns, CloseFails, Began, WrittenPhases

(* Another run beginning to save can only end that a report is alone, and  *)
(* what was written whole was.                                             *)
LEMMA AloneBefore ==
  ASSUME IInv, [Next]_vars
  PROVE  /\ \A r \in Reports : Alone(r)' => Alone(r)
         /\ Written \subseteq Written' /\ Written \subseteq Reports
         /\ acked \subseteq acked' /\ acked \subseteq Written
<1>1. \A q \in Runs : /\ Began(q) => Began(q)' /\ report'[q] = report[q]
                      /\ phase[q] \in WrittenPhases =>
                           phase'[q] \in WrittenPhases /\ report'[q] = report[q]
  <2>1. CASE UNCHANGED vars \/ ReaderStep
    BY <2>1, ReaderFacts DEF Began
  <2>2. ASSUME NEW p \in Runs, RunStep(p)
        PROVE  \A q \in Runs : /\ Began(q) => Began(q)' /\ report'[q] = report[q]
                               /\ phase[q] \in WrittenPhases =>
                                    phase'[q] \in WrittenPhases /\ report'[q] = report[q]
    BY <2>2, RunFacts DEF Began, WrittenPhases
  <2>3. QED
    BY <2>1, <2>2, StepCases
<1>2. \A r \in Reports : Alone(r)' => Alone(r)
  BY <1>1 DEF Alone, ScanID
<1>3. Written \subseteq Written' /\ Written \subseteq Reports /\ acked \subseteq Written
  BY <1>1 DEF Written, IInv, OwnReports, WrittenPhases
<1>4. acked \subseteq acked'
  BY StepCases, ReaderFacts, RunFacts
<1>5. QED
  BY <1>2, <1>3, <1>4

(* Every step keeps the types.                                             *)
LEMMA TypeStep ==
  ASSUME IInv, [Next]_vars
  PROVE  TypeOK'
<1> USE DEF IInv, TypeOK, runs, reader, WrittenPhases
<1>1. CASE UNCHANGED vars
  BY <1>1 DEF vars
<1>2. CASE ReaderStep
  <2>1. <<>> \in Seq(Reports \cup {Other})
    OBVIOUS
  <2>7. ASSUME NEW op \in {"list", "read", "parse"}, NEW id \in {None} \cup Nat \cup Foreign,
               ListFails(op, id)
        PROVE  TypeOK'
    <3>1. failure' \in [op : {"list", "read", "parse"}, id : {None} \cup Nat \cup Foreign]
      BY <2>7 DEF ListFails
    <3>2. QED
      BY <2>7, <2>1, <3>1 DEF ListFails
  <2>2. CASE ReadDir \/ ReturnList
    BY <2>1, <2>2 DEF ReadDir, ReturnList
  <2>3. ASSUME NEW id \in todo, GetReport(id) PROVE TypeOK'
    <3>1. files[id].text \in Reports \cup {Other}
      BY <2>3 DEF GetReport, Contents
    <3>2. QED
      BY <2>3, <3>1 DEF GetReport
  <2>4. ASSUME NEW id \in todo, ReadFileFails(id) \/ ParseFails(id) PROVE TypeOK'
    <3>1. id \in Nat \cup Foreign
      OBVIOUS
    <3>2. QED
      BY <2>7, <2>4, <3>1 DEF ReadFileFails, ParseFails
  <2>5. CASE ReadDirFails
    BY <2>7, <2>5 DEF ReadDirFails
  <2>6. QED
    BY <1>2, <2>2, <2>3, <2>4, <2>5 DEF ReaderStep
<1>3. ASSUME NEW p \in Runs, RunStep(p) PROVE TypeOK'
  <2>1. ASSUME NEW size \in Sizes, NEW at \in 0..MaxNow, FinishScan(p, size, at) PROVE TypeOK'
    <3>1. [by |-> p, at |-> at, size |-> size] \in Reports
      BY DEF Reports
    <3>2. QED
      BY <2>1, <3>1 DEF FinishScan
  <2>2. ASSUME OpenFile(p) \/ WriteFile(p) \/ WriteFails(p)
        PROVE  /\ report[p] \in Reports /\ ScanID(report[p]) \in Nat
               /\ report[p].size \in Nat \ {0}
    <3>1. report[p] \in Reports
      BY <2>2 DEF OpenFile, WriteFile, WriteFails, OwnReports
    <3>2. QED
      BY <3>1, ReportFacts
  <2>3. ASSUME NEW c \in Contents, report[p] \in Reports, ScanID(report[p]) \in Nat,
               files' = Put(ScanID(report[p]), c)
        PROVE  /\ DOMAIN files' \subseteq Nat \cup Foreign
               /\ \A i \in DOMAIN files' : files'[i] \in Contents
               /\ DOMAIN files \subseteq DOMAIN files'
    BY <2>3 DEF Put
  <2>4. CASE OpenFile(p)
    BY <2>2, <2>3, <2>4, ContentTypes DEF OpenFile
  <2>5. CASE WriteFile(p)
    <3>1. ScanID(report[p]) \in DOMAIN files
      BY <2>5 DEF WriteFile, Emptied
    <3>2. Overwrite(files[ScanID(report[p])], report[p]) \in Contents
      BY <2>2, <2>5, <3>1, ContentTypes
    <3>3. QED
      BY <2>2, <2>3, <2>5, <3>2 DEF WriteFile
  <2>6. CASE WriteFails(p)
    <3>1. ScanID(report[p]) \in DOMAIN files
      BY <2>6 DEF WriteFails, Emptied
    <3>2. PICK n \in 0..(report[p].size - 1) :
            files' = Put(ScanID(report[p]), OverwritePart(files[ScanID(report[p])], n))
      BY <2>6 DEF WriteFails
    <3>3. OverwritePart(files[ScanID(report[p])], n) \in Contents
      BY <2>2, <2>6, <3>1, ContentTypes
    <3>4. QED
      BY <2>2, <2>3, <2>6, <3>2, <3>3 DEF WriteFails
  <2>7. CASE OpenFails(p) \/ CloseFails(p) \/ SaveReturns(p)
    <3>1. SaveReturns(p) => report[p] \in Reports
      BY DEF SaveReturns, OwnReports
    <3>2. QED
      BY <2>7, <3>1 DEF OpenFails, CloseFails, SaveReturns
  <2>8. QED
    BY <1>3, <2>1, <2>4, <2>5, <2>6, <2>7 DEF RunStep
<1>4. QED
  BY <1>1, <1>2, <1>3, StepCases

(* Every step leaves a run its own report.                                 *)
LEMMA OwnReportsStep ==
  ASSUME IInv, [Next]_vars
  PROVE  OwnReports'
<1> USE DEF IInv, TypeOK, OwnReports
<1>1. CASE UNCHANGED vars \/ ReaderStep
  BY <1>1, ReaderFacts
<1>2. ASSUME NEW p \in Runs, RunStep(p) PROVE OwnReports'
  <2>1. ASSUME NEW size \in Sizes, NEW at \in 0..MaxNow, FinishScan(p, size, at) PROVE OwnReports'
    <3>1. [by |-> p, at |-> at, size |-> size] \in Reports
      BY DEF Reports
    <3>2. QED
      BY <2>1, <3>1 DEF FinishScan
  <2>2. CASE OpenFile(p) \/ OpenFails(p) \/ WriteFile(p) \/ WriteFails(p) \/ CloseFails(p)
    BY <2>2 DEF OpenFile, OpenFails, WriteFile, WriteFails, CloseFails
  <2>3. CASE SaveReturns(p)
    BY <2>3 DEF SaveReturns
  <2>4. QED
    BY <1>2, <2>1, <2>2, <2>3 DEF RunStep
<1>3. QED
  BY <1>1, <1>2, StepCases

(* Only the end of a write adds to what has been written whole.            *)
LEMMA WrittenChange ==
  ASSUME IInv, NEW p \in Runs, RunStep(p)
  PROVE  /\ WriteFile(p) => Written' = Written \cup {report[p]}
         /\ ~WriteFile(p) => Written' = Written
<1> USE DEF IInv, TypeOK, WrittenPhases
<1>1. \A q \in Runs : q # p => phase'[q] = phase[q] /\ report'[q] = report[q]
  BY RunFacts
<1>2. CASE WriteFile(p)
  <2>1. phase'[p] = "written" /\ report'[p] = report[p] /\ phase[p] = "opened"
    BY <1>2 DEF WriteFile
  <2>2. QED
    BY <1>1, <1>2, <2>1 DEF Written
<1>3. CASE ~WriteFile(p)
  <2>1. /\ phase'[p] \in WrittenPhases <=> phase[p] \in WrittenPhases
        /\ phase[p] \in WrittenPhases => report'[p] = report[p]
    BY <1>3 DEF RunStep, FinishScan, OpenFile, OpenFails, WriteFails, SaveReturns, CloseFails
  <2>2. QED
    BY <1>1, <1>3, <2>1 DEF Written
<1>4. QED
  BY <1>2, <1>3

(* The directory: three invariants about the files, each about what a save *)
(* of one run does to the file of another.                                 *)
LEMMA FilesStep ==
  ASSUME IInv, [Next]_vars
  PROVE  OwnNames' /\ Emptied' /\ WrittenStays'
<1> USE DEF IInv
<1>1. /\ \A r \in Reports : Alone(r)' => Alone(r)
      /\ \A p \in Runs : phase[p] # "scanning" => report[p] \in Reports
      /\ Written \subseteq Reports
  BY AloneBefore DEF OwnReports, TypeOK
<1>2. ASSUME files' = files, Written' = Written,
             \A q \in Runs : phase'[q] = "opened" =>
               phase[q] = "opened" /\ report'[q] = report[q]
      PROVE  OwnNames' /\ Emptied' /\ WrittenStays'
  <2>1. OwnNames'
    BY <1>2 DEF OwnNames, ScanID
  <2>2. Emptied'
    BY <1>1, <1>2 DEF Emptied, ScanID
  <2>3. WrittenStays'
    BY <1>1, <1>2 DEF WrittenStays, ScanID
  <2>4. QED
    BY <2>1, <2>2, <2>3
<1>3. CASE UNCHANGED vars \/ ReaderStep
  BY <1>2, <1>3, ReaderFacts DEF Written
<1>4. ASSUME NEW p \in Runs, RunStep(p)
      PROVE  OwnNames' /\ Emptied' /\ WrittenStays'
  <2> DEFINE id == ScanID(report[p])
  <2>1. CASE \/ \E size \in Sizes, at \in 0..MaxNow : FinishScan(p, size, at)
             \/ OpenFails(p) \/ SaveReturns(p) \/ CloseFails(p)
    <3>1. /\ files' = files /\ ~WriteFile(p)
          /\ \A q \in Runs : phase'[q] = "opened" =>
               phase[q] = "opened" /\ report'[q] = report[q]
      BY <2>1 DEF FinishScan, OpenFails, SaveReturns, CloseFails, WriteFile, TypeOK
    <3>2. QED
      BY <1>2, <1>4, <3>1, WrittenChange
  <2>2. ASSUME OpenFile(p) \/ WriteFile(p) \/ WriteFails(p)
        PROVE  /\ report' = report /\ report[p] \in Reports /\ report[p].by = p
               /\ id \notin Foreign
               /\ Began(p)' /\ \A q \in Runs : q # p => phase'[q] = phase[q]
               /\ \A r \in Reports : Alone(r)' /\ ScanID(r) = id => r.by = p
    <3>1. /\ report' = report /\ report[p] \in Reports /\ report[p].by = p
          /\ Began(p)' /\ \A q \in Runs : q # p => phase'[q] = phase[q]
      BY <2>2 DEF OpenFile, WriteFile, WriteFails, Began, WrittenPhases, OwnReports, TypeOK
    <3>2. id \notin Foreign
      BY <3>1, ReportFacts
    <3>3. QED
      BY <3>1, <3>2 DEF Alone, ScanID
  <2>3. CASE OpenFile(p)
    <3>1. phase[p] = "stamped" /\ files' = Put(id, Empty) /\ Written' = Written
      BY <1>4, <2>3, WrittenChange DEF OpenFile, WriteFile
    <3>2. /\ DOMAIN files' = DOMAIN files \cup {id} /\ files'[id] = Empty
          /\ \A i \in DOMAIN files : i # id => files'[i] = files[i]
      BY <3>1 DEF Put
    <3>3. OwnNames'
      BY <2>2, <2>3, <3>1, <3>2 DEF OwnNames, ScanID, Empty
    <3>4. Emptied'
      BY <1>1, <2>2, <2>3, <3>1, <3>2 DEF Emptied, ScanID
    <3>5. WrittenStays'
      <4> SUFFICES ASSUME NEW r \in Written, Alone(r)'
                   PROVE  ScanID(r) \in DOMAIN files' /\ files'[ScanID(r)].text = r
        BY <3>1 DEF WrittenStays, ScanID
      <4>1. r \in Reports /\ Alone(r)
        BY <1>1
      <4>2. r.by # p
        BY <3>1 DEF Written, OwnReports, WrittenPhases
      <4>3. ScanID(r) # id
        BY <2>2, <2>3, <4>1, <4>2
      <4>4. QED
        BY <3>2, <4>1, <4>3 DEF WrittenStays
    <3>6. QED
      BY <3>3, <3>4, <3>5
  <2>4. CASE WriteFile(p) \/ WriteFails(p)
    <3>1. /\ phase[p] = "opened" /\ phase'[p] # "opened" /\ id \in DOMAIN files
          /\ files[id] \in Contents
      BY <2>4 DEF WriteFile, WriteFails, Emptied, TypeOK
    <3>2. /\ WriteFile(p) => Written' = Written \cup {report[p]}
          /\ ~WriteFile(p) => Written' = Written
      BY <1>4, WrittenChange
    <3>3. PICK c : /\ files' = Put(id, c)
                   /\ c.text # None => c.text \in Written' /\ ScanID(c.text) = id
                   /\ WriteFile(p) /\ files[id] = Empty => c.text = report[p]
      <4>1. CASE WriteFile(p)
        <5>1. files' = Put(id, Overwrite(files[id], report[p]))
          BY <4>1 DEF WriteFile
        <5>2. QED
          BY <2>2, <2>4, <3>1, <3>2, <4>1, <5>1, ContentTypes
      <4>2. CASE WriteFails(p)
        <5>1. PICK n \in 0..(report[p].size - 1) :
                files' = Put(id, OverwritePart(files[id], n))
          BY <4>2 DEF WriteFails
        <5>2. n \in Nat
          BY <2>2, <2>4, ReportFacts
        <5>3. OverwritePart(files[id], n).text \in {files[id].text, None}
          BY <3>1, <5>2, ContentTypes
        <5>4. ~WriteFile(p)
          BY <4>2 DEF WriteFile, WriteFails, TypeOK
        <5>5. QED
          BY <2>2, <2>4, <3>1, <3>2, <5>1, <5>3, <5>4 DEF OwnNames
      <4>3. QED
        BY <2>4, <4>1, <4>2
    <3>4. /\ DOMAIN files' = DOMAIN files /\ files'[id] = c
          /\ \A i \in DOMAIN files : i # id => files'[i] = files[i]
      <4>1. files' = Put(id, c) /\ id \in DOMAIN files
        BY <3>1, <3>3
      <4>2. QED
        BY <4>1 DEF Put
    <3>5. OwnNames'
      BY <2>2, <2>4, <3>2, <3>3, <3>4 DEF OwnNames, ScanID
    <3>6. Emptied'
      <4> SUFFICES ASSUME NEW q \in Runs, phase'[q] = "opened"
                   PROVE  /\ ScanID(report[q]) \in DOMAIN files'
                          /\ Alone(report[q])' => files'[ScanID(report[q])] = Empty
        BY <2>2, <2>4 DEF Emptied, ScanID
      <4>1. q # p /\ phase[q] = "opened" /\ report[q] \in Reports /\ report[q].by = q
        BY <2>2, <2>4, <3>1 DEF OwnReports
      <4>2. /\ ScanID(report[q]) \in DOMAIN files
            /\ Alone(report[q]) => files[ScanID(report[q])] = Empty
        BY <4>1 DEF Emptied
      <4>3. Alone(report[q])' => Alone(report[q]) /\ ScanID(report[q]) # id
        BY <1>1, <2>2, <2>4, <4>1
      <4>4. QED
        BY <3>4, <4>2, <4>3
    <3>7. WrittenStays'
      <4> SUFFICES ASSUME NEW r \in Written', Alone(r)'
                   PROVE  ScanID(r) \in DOMAIN files' /\ files'[ScanID(r)].text = r
        BY DEF WrittenStays, ScanID
      <4>1. r \in Reports /\ Alone(r)
        BY <1>1, <2>2, <2>4, <3>2
      <4>2. CASE r \notin Written
        <5>1. WriteFile(p) /\ r = report[p]
          BY <3>2, <4>2
        <5>2. files[id] = Empty
          BY <3>1, <4>1, <5>1 DEF Emptied
        <5>3. QED
          BY <3>1, <3>3, <3>4, <5>1, <5>2
      <4>3. CASE r \in Written
        <5>1. r.by # p
          BY <3>1, <4>3 DEF Written, OwnReports, WrittenPhases
        <5>2. ScanID(r) # id
          BY <2>2, <2>4, <4>1, <5>1
        <5>3. ScanID(r) \in DOMAIN files /\ files[ScanID(r)].text = r
          BY <4>1, <4>3 DEF WrittenStays
        <5>4. QED
          BY <3>4, <5>2, <5>3
      <4>4. QED
        BY <4>2, <4>3
    <3>8. QED
      BY <3>5, <3>6, <3>7
  <2>5. QED
    BY <1>4, <2>1, <2>3, <2>4 DEF RunStep
<1>5. QED
  BY <1>3, <1>4, StepCases

(* The reader: what it holds stays right while files change under it.      *)
LEMMA ReaderKeeps ==
  ASSUME IInv, [Next]_vars
  PROVE  Reading'
<1> USE DEF IInv
<1>1. /\ \A r \in Reports : Alone(r)' => Alone(r)
      /\ Written \subseteq Reports /\ Written \subseteq Written'
      /\ acked \subseteq Written /\ due \subseteq acked
      /\ out \in Seq(Reports \cup {Other})
  BY AloneBefore DEF TypeOK
<1>2. CASE UNCHANGED vars \/ \E p \in Runs : RunStep(p)
  <2>1. UNCHANGED reader
    BY <1>2, RunFacts DEF vars
  <2>2. Descending'
    BY <2>1 DEF Reading, Descending, ScanID, reader
  <2>3. \A r \in due : Alone(r)' => Alone(r)
    BY <1>1
  <2>4. QED
    BY <1>1, <2>1, <2>2, <2>3 DEF Reading, ScanID, reader
<1>3. CASE ReaderStep
  <2>0. acked' = acked /\ files' = files /\ Written' = Written
    BY <1>3, ReaderFacts DEF Written
  <2>1. CASE ReadDir
    <3>1. /\ listing' = "reading" /\ out' = <<>> /\ todo' = DOMAIN files /\ due' = acked
      BY <2>1 DEF ReadDir
    <3>2. \A r \in acked : Alone(r)' => ScanID(r) \in DOMAIN files
      BY <1>1 DEF WrittenStays
    <3>3. QED
      BY <2>0, <3>1, <3>2 DEF Reading, Descending, ScanID, Range
  <2>2. CASE ReturnList
    <3>1. UNCHANGED <<out, todo, due>> /\ listing = "reading" /\ todo = {}
      BY <2>2 DEF ReturnList
    <3>2. \A r \in due : Alone(r)' => Alone(r)
      BY <1>1
    <3>3. QED
      BY <1>1, <2>0, <3>1, <3>2 DEF Reading, Descending, ScanID
  <2>3. ASSUME NEW op, NEW id, ListFails(op, id) PROVE Reading'
    BY <2>0, <2>3 DEF ListFails, Reading, Descending, Range
  <2>4. ASSUME NEW id \in todo, GetReport(id) PROVE Reading'
    <3> DEFINE r0 == files[id].text
    <3>1. /\ r0 # Other => r0 \in Written /\ ScanID(r0) = id /\ r0 \in Reports
          /\ r0 \in Written \cup {Other}
          /\ out' = Append(out, r0) /\ todo' = todo \ {id} /\ due' = due
          /\ listing = "reading" /\ listing' = "reading"
          /\ \A i \in todo : i <= id
      BY <1>1, <2>4 DEF GetReport, OwnNames, TypeOK, NextNewest
    <3>2. /\ DOMAIN out = 1..Len(out) /\ DOMAIN out' = 1..(Len(out) + 1) /\ Len(out) \in Nat
          /\ out'[Len(out) + 1] = r0 /\ \A i \in 1..Len(out) : out'[i] = out[i]
      BY <1>1, <3>1
    <3>3. todo \subseteq Int
      BY StoreAssumption DEF TypeOK, StoreAssumption
    <3>4. Range(out') \subseteq Written' \cup {Other}
      BY <2>0, <3>1, <3>2 DEF Reading, Range
    <3>5. Descending'
      BY <3>1, <3>2 DEF Reading, Descending, ScanID
    <3>6. \A i \in DOMAIN out', k \in todo' : out'[i] # Other => k < ScanID(out'[i])
      BY <3>1, <3>2, <3>3 DEF Reading
    <3>7. \A r \in due' : Alone(r)' => r \in Range(out') \/ ScanID(r) \in todo'
      <4> SUFFICES ASSUME NEW r \in due, Alone(r)'
                   PROVE  r \in Range(out') \/ ScanID(r) \in todo'
        BY <3>1
      <4>1. Alone(r) /\ r \in Written
        BY <1>1
      <4>2. CASE r \in Range(out)
        BY <3>2, <4>2 DEF Range
      <4>3. CASE ScanID(r) = id
        <5>1. r0 = r
          BY <4>1, <4>3 DEF WrittenStays
        <5>2. Len(out) + 1 \in DOMAIN out' /\ out'[Len(out) + 1] = r
          BY <3>2, <5>1
        <5>3. QED
          BY <5>2 DEF Range
      <4>4. QED
        BY <3>1, <4>1, <4>2, <4>3 DEF Reading
    <3>8. QED
      BY <3>1, <3>4, <3>5, <3>6, <3>7 DEF Reading, ScanID
  <2>5. QED
    BY <1>3, <2>1, <2>2, <2>3, <2>4 DEF ReaderStep, ReadDirFails, ReadFileFails, ParseFails
<1>4. QED
  BY <1>2, <1>3, StepCases

-----------------------------------------------------------------------------
(* Why a file does not parse.                                              *)

UnreadableHasCause ==
  \A i \in DOMAIN files \ Foreign : files[i].text = None => CauseFor(i)

(* A cause only goes away when a save of the id has written its text.      *)
LEMMA CauseStays ==
  ASSUME IInv, [Next]_vars, NEW i, CauseFor(i),
         \A p \in Runs : WriteFile(p) => ScanID(report[p]) # i
  PROVE  CauseFor(i)'
<1>1. \A p \in Runs : /\ Began(p) => Began(p)' /\ report'[p] = report[p]
                      /\ phase[p] \in {"opened", "failed"} /\ ~WriteFile(p)
                           => phase'[p] \in {"opened", "failed"}
  <2>1. CASE UNCHANGED vars \/ ReaderStep
    BY <2>1, ReaderFacts DEF Began
  <2>2. ASSUME NEW q \in Runs, RunStep(q)
        PROVE  \A p \in Runs : /\ Began(p) => Began(p)' /\ report'[p] = report[p]
                               /\ phase[p] \in {"opened", "failed"} /\ ~WriteFile(p)
                                    => phase'[p] \in {"opened", "failed"}
    BY <2>2, RunFacts DEF Began, WrittenPhases
  <2>3. QED
    BY <2>1, <2>2, StepCases
<1>2. QED
  BY <1>1 DEF CauseFor, Began, ScanID

(* A file becomes unreadable only for one of these causes.                 *)
LEMMA UnreadableStep ==
  ASSUME IInv, UnreadableHasCause, [Next]_vars
  PROVE  UnreadableHasCause'
<1> USE DEF IInv
<1>1. SUFFICES ASSUME NEW i \in DOMAIN files' \ Foreign, files'[i].text = None
               PROVE  CauseFor(i)'
  BY DEF UnreadableHasCause
<1>2. ASSUME \A p \in Runs : ~OpenFile(p) /\ ~WriteFile(p) /\ ~WriteFails(p)
      PROVE  CauseFor(i)'
  <2>1. files' = files
    BY <1>2, StepCases, ReaderFacts DEF RunStep, FinishScan, OpenFails, SaveReturns, CloseFails
  <2>2. QED
    BY <1>1, <1>2, <2>1, CauseStays DEF UnreadableHasCause
<1>3. ASSUME NEW p \in Runs, OpenFile(p) \/ WriteFile(p) \/ WriteFails(p)
      PROVE  CauseFor(i)'
  <2> DEFINE id == ScanID(report[p])
  <2>1. /\ report' = report
        /\ \A q \in Runs : q # p => ~WriteFile(q) /\ phase'[q] = phase[q]
    BY <1>3 DEF OpenFile, WriteFile, WriteFails, TypeOK
  <2>2. i # id => i \in DOMAIN files /\ files'[i] = files[i]
    BY <1>1, <1>3 DEF OpenFile, WriteFile, WriteFails, Put
  <2>3. CASE i # id
    BY <1>1, <2>1, <2>2, <2>3, CauseStays DEF UnreadableHasCause
  <2>4. CASE i = id /\ (OpenFile(p) \/ WriteFails(p))
    <3>1. phase'[p] \in {"opened", "failed"}
      BY <2>4 DEF OpenFile, WriteFails, TypeOK
    <3>2. QED
      BY <2>1, <2>4, <3>1 DEF CauseFor, ScanID
  <2>5. CASE i = id /\ WriteFile(p)
    <3>1. phase[p] = "opened" /\ files' = Put(id, Overwrite(files[id], report[p]))
      BY <2>5 DEF WriteFile
    <3>2. report[p] \in Reports /\ report[p].by = p /\ id \in DOMAIN files
          /\ files[id] \in Contents
      BY <3>1 DEF OwnReports, Emptied, TypeOK
    <3>3. files[id] # Empty
      <4>1. files'[id] = Overwrite(files[id], report[p])
        BY <3>1 DEF Put
      <4>2. files[id] = Empty => Overwrite(files[id], report[p]).text = report[p]
        BY <3>2, ContentTypes
      <4>3. report[p] # None
        BY <3>2, ReportFacts
      <4>4. QED
        BY <1>1, <2>5, <4>1, <4>2, <4>3
    <3>4. PICK q \in Runs : Began(q) /\ ScanID(report[q]) = id /\ q # p
      BY <3>1, <3>2, <3>3 DEF Emptied, Alone
    <3>5. Began(p)' /\ Began(q)'
      BY <2>1, <2>5, <3>4 DEF Began, WrittenPhases, WriteFile, TypeOK
    <3>6. QED
      BY <2>1, <2>5, <3>4, <3>5 DEF CauseFor, ScanID
  <2>6. QED
    BY <1>3, <2>3, <2>4, <2>5
<1>4. QED
  BY <1>2, <1>3

-----------------------------------------------------------------------------
(* Theorems.                                                               *)

(* The inductive invariant holds in every reachable state.                 *)
THEOREM Inductive == Spec => []IInv
<1>1. Init => IInv
  BY InitialStates
<1>2. IInv /\ [Next]_vars => IInv'
  BY TypeStep, OwnReportsStep, FilesStep, ReaderKeeps DEF IInv
<1>3. QED
  BY <1>1, <1>2, PTL DEF Spec

(* Every variable keeps its type.                                          *)
THEOREM TypeCorrect == Spec => []TypeOK
BY Inductive, PTL DEF IInv

(* A saved report stays, under its own name, unless its second is shared.  *)
THEOREM SavedStays == Spec => []SavedStaysUnlessShared
<1>1. IInv => SavedStaysUnlessShared
  BY DEF IInv, WrittenStays, SavedStaysUnlessShared, OwnReports, Written, WrittenPhases
<1>2. QED
  BY <1>1, Inductive, PTL

(* A list that succeeds misses no report saved before it began, unless the *)
(* second of the report is shared.                                         *)
THEOREM ListComplete == Spec => []ListHoldsWhatWasSaved
<1>1. IInv => ListHoldsWhatWasSaved
  BY DEF IInv, Reading, ListHoldsWhatWasSaved
<1>2. QED
  BY <1>1, Inductive, PTL

(* Of the files that saves made, a list shows whole reports only, whether  *)
(* they were acknowledged or not, strictly newest first.                   *)
THEOREM ListOrdered == Spec => []ListIsNewestFirst
<1>1. IInv => ListIsNewestFirst
  <2> SUFFICES ASSUME IInv, NEW i \in DOMAIN out, NEW k \in DOMAIN out, i < k,
                      Other \notin {out[i], out[k]}
               PROVE  out[k].at < out[i].at
    BY DEF IInv, Reading, ListIsNewestFirst, TypeOK
  <2>1. out[i] \in Reports /\ out[k] \in Reports
    BY DEF IInv, TypeOK
  <2>2. ScanID(out[k]) < ScanID(out[i])
    BY DEF IInv, Reading, Descending
  <2>3. out[k].at \in Nat /\ out[i].at \in Nat
    BY <2>1, ReportFacts
  <2>4. QED
    BY <2>2, <2>3, StampOrder DEF ScanID
<1>2. QED
  BY <1>1, Inductive, PTL

(* List fails only when the file system refuses, on a foreign file, or     *)
(* while or after a save under the very id its error names was cut short,  *)
(* or when two runs have saved under that id.                              *)
THEOREM ListFailsRightly == Spec => ListFailsForCause
<1> DEFINE Step == listing # "failed" /\ listing' = "failed" =>
             \/ failure'.op \in {"list", "read"}
             \/ failure'.id \in Foreign
             \/ CauseFor(failure'.id)
<1>1. Init => UnreadableHasCause
  BY DEF Init, UnreadableHasCause
<1>2. IInv /\ UnreadableHasCause /\ [Next]_vars => UnreadableHasCause'
  BY UnreadableStep
<1>3. ASSUME IInv, UnreadableHasCause, [Next]_vars PROVE [Step]_vars
  <2> SUFFICES ASSUME listing # "failed", listing' = "failed" PROVE Step
    OBVIOUS
  <2>1. ReaderStep
    BY <1>3, StepCases, RunFacts DEF vars, reader
  <2>2. CASE ReadDirFails \/ \E id \in todo : ReadFileFails(id)
    BY <2>2 DEF ReadDirFails, ReadFileFails, ListFails
  <2>3. ASSUME NEW id \in todo, ParseFails(id) PROVE Step
    <3>1. failure'.id = id /\ id \in DOMAIN files /\ files[id].text = None
      BY <1>3, <2>3 DEF ParseFails, ListFails, IInv, TypeOK
    <3>2. id \notin Foreign => CauseFor(id)
      BY <1>3, <3>1 DEF UnreadableHasCause
    <3>3. QED
      BY <3>1, <3>2
  <2>4. QED
    BY <2>1, <2>2, <2>3 DEF ReaderStep, ReadDir, ReturnList, GetReport
<1>4. Spec => [][Step]_vars
  BY <1>1, <1>2, <1>3, Inductive, PTL DEF Spec
<1>5. QED
  BY <1>4 DEF ListFailsForCause

-----------------------------------------------------------------------------
(* The dashboard.  It changes nothing in the store, so that all of the     *)
(* above holds of it too; and the links it hands out lead where they       *)
(* should, for any runs, any report sizes and any clock.                   *)

\* Save has returned nil only to a run whose report it acknowledged.
SavedIsAcked == \A p \in Runs : phase[p] = "saved" => report[p] \in acked

LinkedWasWritten == page.of # None => page.of \in Written

PInv == IInv /\ SavedIsAcked /\ LinkedWasWritten /\ LinksLead /\ PagesAreWhole

(* A detail page of a report that was written, or of none in particular.   *)
LEMMA DetailPage ==
  ASSUME IInv, SavedIsAcked, NEW id, NEW of, Open(id, of),
         of # None => of \in Written /\ id = ScanID(of)
  PROVE  PInv'
<1>1. UNCHANGED vars
  BY DEF Open, ShowDetail, ShowUnread
<1>2. IInv' /\ Written' = Written
  <2>1. [Next]_vars
    BY <1>1
  <2>2. QED
    BY <1>1, <2>1, ReaderFacts, TypeStep, OwnReportsStep, FilesStep, ReaderKeeps
    DEF IInv, Written
<1>3. /\ page'.of = of /\ page'.id = id
      /\ page'.status = "report" => Readable(id) /\ page'.shown = files[id].text
      /\ page'.status # "unread" /\ Readable(id) => page'.shown = files[id].text
  <2>1. CASE ShowUnread(id, of)
    BY <2>1 DEF ShowUnread
  <2>2. CASE ShowDetail(id, of) /\ Readable(id)
    BY <2>2 DEF ShowDetail
  <2>3. CASE ShowDetail(id, of) /\ ~Readable(id)
    BY <2>3 DEF ShowDetail
  <2>4. QED
    BY <2>1, <2>2, <2>3 DEF Open
<1>4. SavedIsAcked' /\ LinkedWasWritten'
  BY <1>1, <1>2, <1>3 DEF SavedIsAcked, LinkedWasWritten, vars, runs
<1>5. LinksLead'
  <2> SUFFICES ASSUME of # None, Alone(of)', page'.status # "unread" PROVE page'.shown = of
    BY <1>3 DEF LinksLead
  <2>1. of \in Written /\ Alone(of)
    BY <1>1 DEF Alone, Began, ScanID, vars, runs
  <2>2. id \in DOMAIN files /\ files[id].text = of
    BY <2>1 DEF IInv, WrittenStays
  <2>3. QED
    BY <1>3, <2>2 DEF Readable
<1>6. PagesAreWhole'
  <2> SUFFICES ASSUME page'.status = "report", page'.id \notin Foreign
               PROVE  page'.shown \in Written /\ ScanID(page'.shown) = page'.id
    BY <1>2 DEF PagesAreWhole, ScanID
  <2>1. QED
    BY <1>3 DEF Readable, IInv, OwnNames
<1>7. QED
  BY <1>2, <1>4, <1>5, <1>6 DEF PInv

(* What the store does leaves the pages right.                             *)
LEMMA StoreStep ==
  ASSUME PInv, Next, UNCHANGED page
  PROVE  PInv'
<1>1. IInv /\ [Next]_vars
  BY DEF PInv
<1>2. IInv'
  BY <1>1, TypeStep, OwnReportsStep, FilesStep, ReaderKeeps DEF IInv
<1>3. /\ Written \subseteq Written' /\ Written \subseteq Reports
      /\ \A r \in Reports : Alone(r)' => Alone(r)
  BY <1>1, AloneBefore
<1>4. SavedIsAcked'
  <2>1. CASE ReaderStep
    BY <2>1, ReaderFacts DEF PInv, SavedIsAcked
  <2>2. ASSUME NEW p \in Runs, RunStep(p) PROVE SavedIsAcked'
    <3>1. \/ phase'[p] # "saved"
          \/ report'[p] \in acked'
      BY <1>1, <2>2 DEF IInv, TypeOK, RunStep, FinishScan, OpenFile, OpenFails, WriteFile,
        WriteFails, SaveReturns, CloseFails
    <3>2. QED
      BY <1>1, <2>2, <3>1, RunFacts DEF PInv, SavedIsAcked
  <2>3. QED
    BY <1>1, <2>1, <2>2, StepCases DEF PInv, SavedIsAcked, vars, runs
<1>5. LinkedWasWritten' /\ PagesAreWhole'
  BY <1>3 DEF PInv, LinkedWasWritten, PagesAreWhole, ScanID
<1>6. LinksLead'
  BY <1>3 DEF PInv, LinkedWasWritten, LinksLead
<1>7. QED
  BY <1>2, <1>4, <1>5, <1>6 DEF PInv

(* Seen from the store, the dashboard is one more reader: every behaviour  *)
(* with it is a behaviour of the store.                                    *)
LEMMA DashboardOnlyReads == DashboardSpec => Spec
<1>1. DashboardInit => Init
  BY DEF DashboardInit
<1>2. [DashboardNext]_<<vars, page>> => [Next]_vars
  BY DEF DashboardNext, OpenRow, FollowRedirect, VisitURL, Open, ShowDetail, ShowUnread
<1>3. QED
  BY <1>1, <1>2, PTL DEF DashboardSpec, Spec

(* The invariant of the store holds with the dashboard, and that of the    *)
(* pages with it.                                                          *)
THEOREM PagesInductive == DashboardSpec => []PInv
<1>1. DashboardInit => PInv
  <2>1. ASSUME DashboardInit PROVE PInv
    <3>1. IInv
      BY <2>1, InitialStates DEF DashboardInit
    <3>2. SavedIsAcked /\ LinkedWasWritten /\ LinksLead /\ PagesAreWhole
      BY <2>1 DEF DashboardInit, Init, Blank, SavedIsAcked, LinkedWasWritten, LinksLead,
        PagesAreWhole
    <3>3. QED
      BY <3>1, <3>2 DEF PInv
  <2>2. QED
    BY <2>1
<1>2. PInv /\ [DashboardNext]_<<vars, page>> => PInv'
  <2> SUFFICES ASSUME PInv, [DashboardNext]_<<vars, page>> PROVE PInv'
    OBVIOUS
  <2>1. CASE Next /\ UNCHANGED page
    BY <2>1, StoreStep
  <2>2. CASE OpenRow
    <3>1. PICK i \in DOMAIN out : out[i] # Other /\ Open(ScanID(out[i]), out[i])
      BY <2>2 DEF OpenRow
    <3>2. out[i] \in Written
      BY <3>1 DEF PInv, IInv, Reading, Range
    <3>3. QED
      BY <3>1, <3>2, DetailPage DEF PInv
  <2>3. ASSUME NEW p \in Posts, FollowRedirect(p) PROVE PInv'
    <3>1. report[p] \in Written
      BY <2>3, DashboardAssumption DEF FollowRedirect, Redirects, Written, WrittenPhases,
        DashboardAssumption
    <3>2. QED
      BY <2>3, <3>1, DetailPage DEF FollowRedirect, PInv
  <2>4. ASSUME NEW id, VisitURL(id) PROVE PInv'
    BY <2>4, DetailPage DEF VisitURL, PInv
  <2>5. CASE UNCHANGED <<vars, page>>
    <3>1. [Next]_vars /\ IInv
      BY <2>5 DEF PInv
    <3>2. IInv'
      BY <3>1, TypeStep, OwnReportsStep, FilesStep, ReaderKeeps DEF IInv
    <3>3. QED
      BY <2>5, <3>2 DEF PInv, SavedIsAcked, LinkedWasWritten, LinksLead, PagesAreWhole, Alone,
        Began, Written, ScanID, vars, runs
  <2>6. QED
    BY <2>1, <2>2, <2>3, <2>4, <2>5 DEF DashboardNext
<1>3. QED
  BY <1>1, <1>2, PTL DEF DashboardSpec

(* A link shows its own report for as long as its second is not shared.    *)
THEOREM LinksAlwaysLead == DashboardSpec => []LinksLead
BY PagesInductive, PTL DEF PInv

(* Every page with a report of this program shows a whole one, under its   *)
(* own id.                                                                 *)
THEOREM PagesAlwaysWhole == DashboardSpec => []PagesAreWhole
BY PagesInductive, PTL DEF PInv
=============================================================================
