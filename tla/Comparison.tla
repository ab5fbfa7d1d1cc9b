----------------------------- MODULE Comparison -----------------------------
(***************************************************************************)
(* One resource of the state file, compared again after every out-of-band  *)
(* edit of its live counterpart: diff.Compare followed by the counting of  *)
(* model.DriftReport.Finalize, as internal/scan calls them for one job.    *)
(* The edits range over every value of Answers, so the reachable states    *)
(* are all pairs of an expected resource and a live one.                   *)
(***************************************************************************)
EXTENDS Diff

CONSTANTS
  Resources,  \* normalised resources of the state side
  Answers     \* what a lookup can answer: [found, attributes, tags]

\* Recorded(r): what a lookup answers right after Terraform has applied r.
Recorded(r) == [found |-> TRUE, attributes |-> r.attributes, tags |-> r.tags]

ASSUME ComparisonAssumption ==
  /\ \A r \in Resources : r.key \in Keys /\ Recorded(r) \in Answers
  /\ \A a \in Answers : a.found \in BOOLEAN
  /\ \A x \in Resources \cup Answers :
       DOMAIN x.attributes \subseteq Fields /\ DOMAIN x.tags \subseteq Fields

VARIABLES
  expected,  \* the resource Terraform recorded
  live,      \* the last answer of the cloud about it
  report     \* the report on this one resource

vars == <<expected, live, report>>

Findings(e, a) == Compare(e, a, a.found)
Report(e, a) == Finalize(Findings(e, a), 1)

\* Terraform has just applied: the cloud is what the state file records.
Init ==
  /\ expected \in Resources
  /\ live = Recorded(expected)
  /\ report = Report(expected, live)

\* Somebody edits, deletes or recreates the resource, and it is looked up and
\* compared again.
EditAndCompare(a) ==
  /\ live' = a
  /\ report' = Report(expected, a)
  /\ UNCHANGED expected

Next == \E a \in Answers : EditAndCompare(a)

Spec == Init /\ [][Next]_vars

-----------------------------------------------------------------------------
(* Reference definitions: partial maps compared as sets of entries.        *)

Entries(m) == {<<k, m[k]>> : k \in DOMAIN m}
Differs(m, n, k) == {e \in Entries(m) : e[1] = k} # {e \in Entries(n) : e[1] = k}

ReferenceFindings(e, a) ==
  IF ~a.found THEN {item(e, "deleted", NoValue, NoValue, NoValue)}
  ELSE {item(e, "modified", k, ValueOf(e.attributes, k), ValueOf(a.attributes, k)) :
          k \in {f \in DOMAIN e.attributes : Differs(e.attributes, a.attributes, f)}}
       \cup
       {item(e, "tag", k, ValueOf(e.tags, k), ValueOf(a.tags, k)) :
          k \in {f \in Fields : Differs(e.tags, a.tags, f)}}

About(r, kind, k) == {it \in Range(r.items) : it.kind = kind /\ it.field = k}

\* The live tags a reader of the report would infer from the expected ones.
\* A finding with an empty actual value reads as a removal.
Patched(tags, findings) ==
  LET touched == {it.field : it \in findings}
      kept    == {e \in Entries(tags) : e[1] \notin touched}
      written == {<<it.field, it.actual>> : it \in {i \in findings : i.actual # NoValue}}
  IN  kept \cup written

-----------------------------------------------------------------------------
(* The field types of a report on one resource.                            *)
TypeOK ==
  /\ expected \in Resources
  /\ live \in Answers
  /\ \A i \in DOMAIN report.items :
       /\ report.items[i].key = expected.key
       /\ report.items[i].kind \in Kinds
       /\ report.items[i].field \in Fields \cup {NoValue}

(* diff.Compare reports each drifted field exactly once, with both its     *)
(* values, and nothing else: an attribute that is absent in the cloud is   *)
(* told from one that is empty, a tag only the cloud has is reported, an   *)
(* attribute only the cloud has is not, and a missing resource is one      *)
(* "deleted" finding whatever its fields.                                  *)
PinpointsDrift ==
  /\ Range(report.items) = ReferenceFindings(expected, live)
  /\ IsInjective(report.items)

(* compareTags loses nothing: applied to the tags of the state file, its   *)
(* findings give back the tags of the cloud, as long as no tag is empty.   *)
FindingsRebuildTags ==
  (live.found /\ \A e \in Entries(live.tags) : e[2] # NoValue) =>
     Patched(expected.tags, {it \in Range(report.items) : it.kind = "tag"})
       = Entries(live.tags)

(* Tag drift is a symmetric relation: comparing in the other direction     *)
(* gives the same fields with the two values exchanged, so a tag somebody  *)
(* removed and one somebody added are caught by the same rule.             *)
TagDriftIsSymmetric ==
  live.found =>
    LET there == compareTags(expected, live)
        back  == compareTags([key |-> expected.key, attributes |-> live.attributes,
                              tags |-> live.tags], expected)
    IN  Range(there) =
          {[it EXCEPT !.expected = it.actual, !.actual = it.expected] : it \in Range(back)}

(* recount: the three counters partition the findings, the number of       *)
(* resources checked survives it, and HasDrift tells the two apart.        *)
SummaryAddsUp ==
  LET s == report.summary
  IN  /\ s.Deleted + s.Modified + s.TagChanges = s.Total
      /\ s.ResourcesChecked = 1
      /\ s.Deleted = 1 <=> ~live.found
      /\ HasDrift(report) <=> ReferenceFindings(expected, live) # {}

(* The findings about a field depend on that field alone: an edit that     *)
(* leaves a tag or an attribute as it was leaves the findings about it as  *)
(* they were, whatever else the edit changed.                              *)
FindingsAreLocal ==
  [][(live.found /\ live'.found) =>
       \A k \in Fields :
         /\ ~Differs(live.tags, live'.tags, k) =>
              About(report, "tag", k) = About(report', "tag", k)
         /\ ~Differs(live.attributes, live'.attributes, k) =>
              About(report, "modified", k) = About(report', "modified", k)]_vars
=============================================================================
