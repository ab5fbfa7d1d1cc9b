-------------------------------- MODULE Store -------------------------------
(***************************************************************************)
(* internal/store: reports kept as <ScanID>.json files in one directory,   *)
(* shared by the scheduler, the dashboard and command-line scans.  Each    *)
(* element of Runs is one scan whose report is saved; nothing orders the   *)
(* runs, in one process or in several.                                     *)
(*                                                                         *)
(* os.WriteFile truncates the file and then writes it, so a file has a     *)
(* content in between, and two savers of one name write over each other.   *)
(* A content is its size and the report it parses to, or None when         *)
(* json.Unmarshal rejects it: what is left of a longer text behind a       *)
(* shorter one is trailing data, and no proper prefix of a report parses.  *)
(* The mixture a failed write leaves in a file that was not empty is taken *)
(* as unreadable too.                                                      *)
(*                                                                         *)
(* Save returns only after the text is written: in between, and for good   *)
(* when the process dies there or closing the file fails, a whole report   *)
(* is in the directory that no Save has acknowledged.                      *)
(***************************************************************************)
EXTENDS Integers, FiniteSets, SequencesExt

CONSTANTS
  Runs,       \* scans that end with a report to save
  Sizes,      \* sizes of marshalled reports
  PerSecond,  \* moments the clock can tell apart within one second
  MaxNow,     \* bound: the last moment the clock shows
  Foreign,    \* names of .json files in the directory that no save has made
  Other,      \* what a file of a foreign name that parses is read as
  None        \* no report

ASSUME StoreAssumption ==
  /\ Sizes \subseteq Nat \ {0}
  /\ PerSecond \in Nat \ {0} /\ MaxNow \in Nat
  /\ Foreign \subseteq Int /\ \A m \in 0..MaxNow : m \div PerSecond \notin Foreign
  /\ Other # None
  /\ \A x \in {None, Other} : x \notin [by : Runs, at : Nat, size : Sizes]

\* now.Format("20060102T150405Z"): the second, and its order is that of time.
Stamp(moment) == moment \div PerSecond

Reports == [by : Runs, at : 0..MaxNow, size : Sizes]
ScanID(r) == Stamp(r.at)
Contents == [size : Nat, text : Reports \cup {None, Other}]

Larger(m, n) == IF m < n THEN n ELSE m

Empty == [size |-> 0, text |-> None]

\* A whole report written at the start of the file.
Overwrite(content, r) ==
  [size |-> Larger(content.size, r.size),
   text |-> IF content.size <= r.size THEN r ELSE None]

\* The first n bytes of a report written at the start of the file.
OverwritePart(content, n) ==
  IF n = 0 THEN content ELSE [size |-> Larger(content.size, n), text |-> None]

VARIABLES
  files,    \* the directory: scan ids, and foreign names, to contents
  phase,    \* where each run is
  report,   \* its report, None before the scan ended
  acked,    \* the reports whose Save returned nil
  listing,  \* where the reader in List is
  todo,     \* the ids of its directory listing it has still to read
  out,      \* the reports it has read
  due,      \* the reports saved before it read the directory
  failure   \* the error List returned: the operation that failed, and on what

runs == <<phase, report, acked>>
reader == <<listing, todo, out, due, failure>>
vars == <<files, runs, reader>>

\* A foreign file need not be a report.
ForeignContents == {Empty, [size |-> 1, text |-> Other]}

Init ==
  /\ \E names \in SUBSET Foreign : files \in [names -> ForeignContents]
  /\ phase = [p \in Runs |-> "scanning"]
  /\ report = [p \in Runs |-> None]
  /\ acked = {}
  /\ listing = "idle" /\ todo = {} /\ out = <<>> /\ due = {}
  /\ failure = None

\* The scan ends: Scan stamps the report with what the wall clock shows.  The
\* clock may be set back between two scans, so that nothing orders the moments.
FinishScan(p, size, at) ==
  /\ phase[p] = "scanning"
  /\ phase' = [phase EXCEPT ![p] = "stamped"]
  /\ report' = [report EXCEPT ![p] = [by |-> p, at |-> at, size |-> size]]
  /\ UNCHANGED <<files, acked, reader>>

Put(id, content) == [i \in DOMAIN files \cup {id} |-> IF i = id THEN content ELSE files[i]]

\* Save: the file is created or emptied.
OpenFile(p) ==
  /\ phase[p] = "stamped"
  /\ phase' = [phase EXCEPT ![p] = "opened"]
  /\ files' = Put(ScanID(report[p]), Empty)
  /\ UNCHANGED <<report, acked, reader>>

\* Save: the file cannot be opened; nothing is touched.
OpenFails(p) ==
  /\ phase[p] = "stamped"
  /\ phase' = [phase EXCEPT ![p] = "refused"]
  /\ UNCHANGED <<files, report, acked, reader>>

\* Save: the whole text is written.
WriteFile(p) ==
  /\ phase[p] = "opened"
  /\ phase' = [phase EXCEPT ![p] = "written"]
  /\ files' = Put(ScanID(report[p]), Overwrite(files[ScanID(report[p])], report[p]))
  /\ UNCHANGED <<report, acked, reader>>

\* Mutated form: Save drops the error of the write.
WriteFailsIgnored(p) ==
  /\ phase[p] = "opened"
  /\ phase' = [phase EXCEPT ![p] = "written"]
  /\ \E n \in 0..(report[p].size - 1) :
       files' = Put(ScanID(report[p]), OverwritePart(files[ScanID(report[p])], n))
  /\ UNCHANGED <<report, acked, reader>>

\* The write stops half-way: Save returns its error, or the process is gone.
WriteFails(p) ==
  /\ phase[p] = "opened"
  /\ phase' = [phase EXCEPT ![p] = "failed"]
  /\ \E n \in 0..(report[p].size - 1) :
       files' = Put(ScanID(report[p]), OverwritePart(files[ScanID(report[p])], n))
  /\ UNCHANGED <<report, acked, reader>>

\* The file is closed, and Save returns nil.
SaveReturns(p) ==
  /\ phase[p] = "written"
  /\ phase' = [phase EXCEPT ![p] = "saved"]
  /\ acked' = acked \cup {report[p]}
  /\ UNCHANGED <<files, report, reader>>

\* The text is there, but closing the file fails and Save returns that error,
\* or the process is gone before Save returns.
CloseFails(p) ==
  /\ phase[p] = "written"
  /\ phase' = [phase EXCEPT ![p] = "doubtful"]
  /\ UNCHANGED <<files, report, acked, reader>>

-----------------------------------------------------------------------------

\* List: os.ReadDir.
ReadDir ==
  /\ listing # "reading"
  /\ listing' = "reading" /\ todo' = DOMAIN files /\ out' = <<>> /\ failure' = None
  /\ due' = acked
  /\ UNCHANGED <<files, runs>>

\* List returns an error, and no report with it.
ListFails(op, id) ==
  /\ listing' = "failed" /\ failure' = [op |-> op, id |-> id]
  /\ todo' = {} /\ out' = <<>>
  /\ UNCHANGED <<files, runs, due>>

\* The directory cannot be read.
ReadDirFails == listing # "reading" /\ ListFails("list", None)

\* Mutated form: the ids are sorted, not reversed.
NextOldest(id) == id \in todo /\ \A i \in todo : id <= i

\* The ids are taken in descending order.
NextNewest(id) == id \in todo /\ \A i \in todo : i <= id

\* Mutated form: the error of the parse is not looked at.
GetReportUnparsed(id) ==
  /\ listing = "reading" /\ NextNewest(id)
  /\ out' = Append(out, files[id].text) /\ todo' = todo \ {id}
  /\ UNCHANGED <<files, runs, listing, due, failure>>

\* Get reads a report that parses.
GetReport(id) ==
  /\ listing = "reading" /\ NextNewest(id)
  /\ files[id].text # None
  /\ out' = Append(out, files[id].text) /\ todo' = todo \ {id}
  /\ UNCHANGED <<files, runs, listing, due, failure>>

\* Get cannot read the file.
ReadFileFails(id) == listing = "reading" /\ NextNewest(id) /\ ListFails("read", id)

\* Get cannot parse what it has read.
ParseFails(id) ==
  /\ listing = "reading" /\ NextNewest(id)
  /\ files[id].text = None
  /\ ListFails("parse", id)

\* Mutated form: the loop ends one id too early.
ReturnListEarly ==
  /\ listing = "reading" /\ Cardinality(todo) <= 1
  /\ listing' = "listed"
  /\ UNCHANGED <<files, runs, todo, out, due, failure>>

ReturnList ==
  /\ listing = "reading" /\ todo = {}
  /\ listing' = "listed"
  /\ UNCHANGED <<files, runs, todo, out, due, failure>>

Next ==
  \/ \E p \in Runs :
       \/ \E size \in Sizes, at \in 0..MaxNow : FinishScan(p, size, at)
       \/ OpenFile(p) \/ OpenFails(p) \/ WriteFile(p) \/ WriteFails(p)
       \/ SaveReturns(p) \/ CloseFails(p)
  \/ ReadDir \/ ReadDirFails \/ ReturnList
  \/ \E id \in todo : GetReport(id) \/ ReadFileFails(id) \/ ParseFails(id)

Spec == Init /\ [][Next]_vars

-----------------------------------------------------------------------------
(* Properties.                                                             *)

WrittenPhases == {"written", "saved", "doubtful"}
Began(p) == phase[p] \in WrittenPhases \cup {"opened", "failed"}

\* The reports whose text was written to the end.
Written == {report[p] : p \in {q \in Runs : phase[q] \in WrittenPhases}}

\* No other run has begun to save under the scan id of r.
Alone(r) ==
  \A q \in Runs : Began(q) /\ ScanID(report[q]) = ScanID(r) => q = r.by

(* The types of all variables.                                             *)
TypeOK ==
  /\ DOMAIN files \subseteq Nat \cup Foreign
  /\ \A i \in DOMAIN files : files[i] \in Contents
  /\ phase \in [Runs -> WrittenPhases
                       \cup {"scanning", "stamped", "refused", "opened", "failed"}]
  /\ report \in [Runs -> Reports \cup {None}]
  /\ acked \subseteq Reports
  /\ listing \in {"idle", "reading", "listed", "failed"}
  /\ todo \subseteq DOMAIN files
  /\ out \in Seq(Reports \cup {Other})
  /\ due \subseteq acked
  /\ failure \in {None} \cup [op : {"list", "read", "parse"}, id : {None} \cup Nat \cup Foreign]

(* A saved report is there for good, under its own name, as long as no     *)
(* other run was stamped in the same second: no other save, whole or       *)
(* failed, and no crash touches its file.                                  *)
SavedStaysUnlessShared ==
  \A r \in acked : Alone(r) =>
    ScanID(r) \in DOMAIN files /\ files[ScanID(r)].text = r

(* A list that succeeds holds every report that was saved before it read   *)
(* the directory and shares its second with no other, whatever is saved    *)
(* while it reads.                                                         *)
ListHoldsWhatWasSaved ==
  listing = "listed" => \A r \in due : Alone(r) => r \in Range(out)

(* Of the files that saves made, a list shows only whole reports that some *)
(* run wrote, acknowledged or not, once each, and newest first by the time *)
(* they are stamped with, also when files change under the list and when   *)
(* the clock has been set back between two scans.                          *)
ListIsNewestFirst ==
  listing = "listed" =>
    /\ Range(out) \subseteq Written \cup {Other}
    /\ \A i, k \in DOMAIN out : i < k /\ Other \notin {out[i], out[k]} => out[i].at > out[k].at

\* A save under the scan id i is not done or was cut short, or two runs share i.
CauseFor(i) ==
  \/ \E p \in Runs : phase[p] \in {"opened", "failed"} /\ ScanID(report[p]) = i
  \/ \E p, q \in Runs : /\ p # q /\ Began(p) /\ Began(q)
                       /\ ScanID(report[p]) = i /\ ScanID(report[q]) = i

(* List fails only when the file system does not let it read, or for what  *)
(* is in the file its error names: a foreign one, or one that a save of    *)
(* that very id has emptied and not filled yet, has left half written, or  *)
(* that two runs have saved under.  No other save makes it fail.           *)
ListFailsForCause ==
  [][listing # "failed" /\ listing' = "failed" =>
       \/ failure'.op \in {"list", "read"}
       \/ failure'.id \in Foreign
       \/ CauseFor(failure'.id)]_vars

(* What the documentation promises: the report of each scheduled scan is   *)
(* "persisted to the store", which provides "the scan history".            *)
EveryReportIsPersisted ==
  \A r \in acked : ScanID(r) \in DOMAIN files /\ files[ScanID(r)].text = r

(* What the comment on List says: it "returns all stored reports".  Once    *)
(* every save has returned nil and none is under way, no file that a save   *)
(* made is unreadable.                                                      *)
QuietStoreIsReadable ==
  (\A p \in Runs : phase[p] \in {"scanning", "stamped", "refused", "saved"}) =>
    \A i \in DOMAIN files \ Foreign : files[i].text # None
=============================================================================
