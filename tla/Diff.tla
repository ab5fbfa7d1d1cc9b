-------------------------------- MODULE Diff --------------------------------
(***************************************************************************)
(* The pure core of the detector: the normalised resource of               *)
(* internal/model, the comparison of internal/diff and the report          *)
(* arithmetic of internal/model/report.go.  No state: the modules that     *)
(* have some EXTEND this one.                                              *)
(*                                                                         *)
(* A resource is a record [key, attributes, tags].  A Go map is a function *)
(* whose domain is the set of keys present, so a nil map is the function   *)
(* with empty domain.  Provider, Name and Message are display text and     *)
(* are left out.                                                           *)
(*                                                                         *)
(* Strings are only ever ordered by sort.Strings and by Key.String(), so   *)
(* the order is a parameter: FieldOrder and KeyOrder list the names in     *)
(* ascending byte order.                                                   *)
(***************************************************************************)
EXTENDS SequencesExt

CONSTANTS
  FieldOrder,  \* attribute and tag names, ascending; the empty name first
  KeyOrder     \* resource keys, by ascending Key.String()

NoValue == ""  \* what reading an absent map entry gives

ASSUME OrderAssumption ==
  /\ FieldOrder \in Seq(Range(FieldOrder)) /\ KeyOrder \in Seq(Range(KeyOrder))
  /\ FieldOrder # <<>> /\ FieldOrder[1] = NoValue
  /\ IsInjective(FieldOrder) /\ IsInjective(KeyOrder)

Fields == Range(FieldOrder) \ {NoValue}
Keys == Range(KeyOrder)

Rank(order, x) == CHOOSE i \in DOMAIN order : order[i] = x
ValueOf(m, k) == IF k \in DOMAIN m THEN m[k] ELSE NoValue
MapSeq(s, Op(_)) == [i \in DOMAIN s |-> Op(s[i])]

\* The elements of a finite set, each once, in the order whose pairs R holds.
Listed(S, R) ==
  [p \in 1..Cardinality(S) |->
     CHOOSE x \in S : Cardinality({y \in S : <<y, x>> \in R}) = p - 1]

NameOrder ==
  {q \in Range(FieldOrder) \X Range(FieldOrder) :
     Rank(FieldOrder, q[1]) < Rank(FieldOrder, q[2])}

\* The names of a set in ascending order, whatever order the map gave them in.
sortedKeys(names) == Listed(names, NameOrder)

-----------------------------------------------------------------------------
(* internal/diff: one finding per drifted field.                           *)

\* Mutated form: two of its strings exchanged, the field and its expected value.
itemMisplaced(expected, kind, field, ev, av) ==
  [key |-> expected.key, kind |-> kind, field |-> ev,
   expected |-> field, actual |-> av]

item(expected, kind, field, ev, av) ==
  [key |-> expected.key, kind |-> kind, field |-> field,
   expected |-> ev, actual |-> av]

\* Mutated forms: presence is left out of the test; a lost tag is overlooked.
AttributeDriftedIgnoringPresence(expected, actual, k) ==
  ValueOf(actual.attributes, k) # expected.attributes[k]
TagDriftedOnlyIfPresent(expected, actual, k) ==
  k \in DOMAIN actual.tags /\ actual.tags[k] # expected.tags[k]

\* An attribute absent on the actual side is reported even when the expected
\* value is empty: presence is tested before the values are compared.
AttributeDrifted(expected, actual, k) ==
  ~ (k \in DOMAIN actual.attributes /\ actual.attributes[k] = expected.attributes[k])

compareAttributes(expected, actual) ==
  MapSeq(sortedKeys({k \in DOMAIN expected.attributes : AttributeDrifted(expected, actual, k)}),
         LAMBDA k : item(expected, "modified", k, expected.attributes[k],
                         ValueOf(actual.attributes, k)))

TagDrifted(expected, actual, k) ==
  k \notin DOMAIN actual.tags \/ actual.tags[k] # expected.tags[k]

\* Mutated forms: tags only the cloud has are never looked at; the scan of the
\* expected tags returns at its first finding.
compareTagsExpectedOnly(expected, actual) ==
  MapSeq(sortedKeys({k \in DOMAIN expected.tags : TagDrifted(expected, actual, k)}),
         LAMBDA k : item(expected, "tag", k, ValueOf(expected.tags, k), ValueOf(actual.tags, k)))
compareTagsFirstOnly(expected, actual) ==
  LET all == compareTagsExpectedOnly(expected, actual) IN IF all = <<>> THEN all ELSE <<Head(all)>>

\* Removed and changed tags in the order of the expected map, then the tags
\* only the cloud has.
compareTags(expected, actual) ==
  LET lost  == sortedKeys({k \in DOMAIN expected.tags : TagDrifted(expected, actual, k)})
      added == sortedKeys(DOMAIN actual.tags \ DOMAIN expected.tags)
  IN  MapSeq(lost \o added,
             LAMBDA k : item(expected, "tag", k, ValueOf(expected.tags, k),
                             ValueOf(actual.tags, k)))

Compare(expected, actual, found) ==
  IF ~found
  THEN << item(expected, "deleted", NoValue, NoValue, NoValue) >>
  ELSE compareAttributes(expected, actual) \o compareTags(expected, actual)

-----------------------------------------------------------------------------
(* internal/model/report.go and the sort of internal/scan.                 *)

Kinds == {"deleted", "modified", "tag"}

CountKind(items, kind) == Cardinality({i \in DOMAIN items : items[i].kind = kind})

\* Mutated form: ResourcesChecked is not carried over to the fresh Summary.
recountForgetsChecked(items, checked) ==
  [ResourcesChecked |-> 0,
   Deleted          |-> CountKind(items, "deleted"),
   Modified         |-> CountKind(items, "modified"),
   TagChanges       |-> CountKind(items, "tag"),
   Total            |-> Len(items)]

recount(items, checked) ==
  [ResourcesChecked |-> checked,
   Deleted          |-> CountKind(items, "deleted"),
   Modified         |-> CountKind(items, "modified"),
   TagChanges       |-> CountKind(items, "tag"),
   Total            |-> Len(items)]

\* Finalize only recounts: the items keep the order they came in.
Finalize(items, checked) == [items |-> items, summary |-> recount(items, checked)]

HasDrift(report) == report.summary.Total > 0

ItemLess(x, y) ==
  \/ Rank(KeyOrder, x.key) < Rank(KeyOrder, y.key)
  \/ x.key = y.key /\ Rank(FieldOrder, x.field) < Rank(FieldOrder, y.field)

\* The positions of the items in the order of sort.SliceStable: equal items
\* keep their relative order.
SortOrder(items) ==
  {q \in (DOMAIN items) \X (DOMAIN items) :
     \/ ItemLess(items[q[1]], items[q[2]])
     \/ ~ItemLess(items[q[2]], items[q[1]]) /\ q[1] < q[2]}

StableSort(items) ==
  LET order == Listed(DOMAIN items, SortOrder(items))
  IN  [p \in DOMAIN order |-> items[order[p]]]

SortedItems(items) ==
  \A i, j \in DOMAIN items : i < j => ~ItemLess(items[j], items[i])
=============================================================================
