----------------------------- MODULE Dashboard ------------------------------
(***************************************************************************)
(* The dashboard over the store: the pages of internal/server that lead to *)
(* a report, while runs go on saving.  The index and /api/scans are the    *)
(* reader of module Store; /scan/<id> and /api/scans/<id> are one Get.     *)
(*                                                                         *)
(* A link is the scan id of a report the browser was shown or promised: a  *)
(* row of the index, or the redirect that answers POST /scan.  It is       *)
(* opened later, when the file may be another one.                         *)
(***************************************************************************)
EXTENDS Store

CONSTANT Posts  \* the runs started by POST /scan; the others are scheduled

ASSUME DashboardAssumption == Posts \subseteq Runs

VARIABLE page  \* the detail page last opened: whose link, its id, what it shows

\* "unread" is a 404 too: the file is there and the file system refuses it.
Statuses == {"blank", "report", "not found", "unread"}
Blank == [status |-> "blank", of |-> None, id |-> 0, shown |-> None]

\* Mutated form: Get drops the error of the parse and gives the zero report.
ReadableIfPresent(id) == id \in DOMAIN files

\* Get finds the file and can parse it.
Readable(id) == id \in DOMAIN files /\ files[id].text # None

\* handleDetail and handleAPIGet: the stored report, or 404.
ShowDetail(id, of) ==
  /\ page' = IF Readable(id)
             THEN [status |-> "report", of |-> of, id |-> id, shown |-> files[id].text]
             ELSE [status |-> "not found", of |-> of, id |-> id, shown |-> None]
  /\ UNCHANGED vars

\* The same, when os.ReadFile fails on a file that is there.
ShowUnread(id, of) ==
  /\ id \in DOMAIN files
  /\ page' = [status |-> "unread", of |-> of, id |-> id, shown |-> None]
  /\ UNCHANGED vars

Open(id, of) == ShowDetail(id, of) \/ ShowUnread(id, of)

\* A row of the index, which may be any time old.  The row of a foreign file
\* leads to the id it happens to hold: a URL like any other.
OpenRow ==
  /\ listing = "listed"
  /\ \E i \in DOMAIN out : out[i] # Other /\ Open(ScanID(out[i]), out[i])

\* Mutated form: the error of the run is not looked at, only its report.
RedirectsWithReport(p) == phase[p] \in {"saved", "failed"}

\* handleRunScan: 500 if the run failed in any way, a redirect otherwise.
Redirects(p) == phase[p] = "saved"

FollowRedirect(p) == Redirects(p) /\ Open(ScanID(report[p]), report[p])

\* Any other id somebody asks for.
VisitURL(id) == Open(id, None)

DashboardInit == Init /\ page = Blank

DashboardNext ==
  \/ Next /\ UNCHANGED page
  \/ OpenRow
  \/ \E p \in Posts : FollowRedirect(p)
  \/ \E id \in 0..Stamp(MaxNow) \cup Foreign : VisitURL(id)

DashboardSpec == DashboardInit /\ [][DashboardNext]_<<vars, page>>

-----------------------------------------------------------------------------
(* A link shows the report it was made for, however long ago that was and  *)
(* whatever has been saved, has failed or has been cut off since, unless   *)
(* another run was stamped in the same second or the file cannot be read.  *)
(* That holds of a row whose save was never acknowledged as well.          *)
LinksLead ==
  (page.of # None /\ Alone(page.of) /\ page.status # "unread") => page.shown = page.of

(* No page, linked or typed, shows half a report or a mixture of two, or   *)
(* one with another id than the one asked for: what it shows was written   *)
(* whole by one run, acknowledged or not, unless the name asked for is     *)
(* that of a foreign file.                                                 *)
PagesAreWhole ==
  (page.status = "report" /\ page.id \notin Foreign) =>
    page.shown \in Written /\ ScanID(page.shown) = page.id
=============================================================================
