-------------------------- MODULE ComparisonProofs --------------------------
(***************************************************************************)
(* For every resource and every answer of the cloud: what diff.Compare and *)
(* the recount report is the drift, each field once, and enough to tell    *)
(* what the cloud holds.                                                   *)
(***************************************************************************)
EXTENDS Comparison, DiffProofs

\* The report is always the one on the latest answer.
IInv ==
  /\ expected \in Resources /\ live \in Answers
  /\ report = Report(expected, live)

(* Every resource and every answer has its names in FieldOrder.            *)
LEMMA Known ==
  ASSUME NEW e \in Resources, NEW a \in Answers
  PROVE  NamesKnown(e, a) /\ e.key \in Keys /\ a.found \in BOOLEAN
BY ComparisonAssumption DEF ComparisonAssumption, NamesKnown

(* The inductive invariant.                                                *)
THEOREM Inductive == Spec => []IInv
<1>1. Init => IInv
  BY ComparisonAssumption DEF Init, IInv, ComparisonAssumption
<1>2. IInv /\ [Next]_vars => IInv'
  BY DEF IInv, Next, EditAndCompare, vars, Report, Findings
<1>3. QED
  BY <1>1, <1>2, PTL DEF Spec

(* The items of the report, as a list and as a set.                        *)
LEMMA ReportItems ==
  ASSUME IInv
  PROVE  /\ report.items = Compare(expected, live, live.found)
         /\ report.summary = recount(report.items, 1)
         /\ live.found \in BOOLEAN /\ NamesKnown(expected, live)
         /\ live.found = TRUE => Enumerates(report.items, ItemsOf(expected, live))
         /\ live.found = FALSE => report.items = <<DeletedItem(expected)>>
<1>1. NamesKnown(expected, live) /\ live.found \in BOOLEAN
  BY Known DEF IInv
<1>2. /\ report.items = Compare(expected, live, live.found)
      /\ report.summary = recount(report.items, 1)
  BY DEF IInv, Report, Finalize, Findings
<1>3. QED
  BY <1>1, <1>2, CompareFound, CompareMissing

(* The types of all variables.                                             *)
THEOREM TypeCorrect == Spec => []TypeOK
<1>1. IInv => TypeOK
  <2> SUFFICES ASSUME IInv PROVE TypeOK
    OBVIOUS
  <2>1. /\ expected \in Resources /\ live \in Answers /\ live.found \in BOOLEAN
        /\ NamesKnown(expected, live) /\ expected.key \in Keys
    BY Known DEF IInv
  <2>2. report.items \in Seq(MayReport(expected, live))
    BY <2>1, CompareSortable, ReportItems
  <2>3. \A x \in MayReport(expected, live) :
          x.key = expected.key /\ x.kind \in Kinds /\ x.field \in Fields \cup {NoValue}
    BY <2>1, ReportedItems DEF MayReport, ItemsOf, Kinds
  <2>4. \A i \in DOMAIN report.items : report.items[i] \in MayReport(expected, live)
    BY <2>2
  <2>5. QED
    BY <2>1, <2>3, <2>4 DEF TypeOK
<1>2. QED
  BY <1>1, Inductive, PTL

-----------------------------------------------------------------------------
(* The reference, entry by entry.                                          *)

(* Two maps differ in a name if one lacks it or their values differ.       *)
LEMMA DiffersThere ==
  ASSUME NEW m, NEW n, NEW k
  PROVE  Differs(m, n, k) <=>
           ~ (\/ k \notin DOMAIN m /\ k \notin DOMAIN n
              \/ k \in DOMAIN m /\ k \in DOMAIN n /\ m[k] = n[k])
<1> DEFINE At(f) == {e \in Entries(f) : e[1] = k}
<1>1. ASSUME NEW f, k \in DOMAIN f
      PROVE  At(f) = {<<k, f[k]>>}
  <2>1. \A x : x \in At(f) <=> x = <<k, f[k]>>
    BY <1>1 DEF Entries
  <2> HIDE DEF At
  <2>2. QED
    BY <2>1
<1>2. ASSUME NEW f, k \notin DOMAIN f
      PROVE  At(f) = {}
  BY <1>2 DEF Entries
<1>3. Differs(m, n, k) <=> At(m) # At(n)
  BY DEF Differs
<1> HIDE DEF At
<1>4. CASE k \in DOMAIN m /\ k \in DOMAIN n
  <2>1. At(m) = {<<k, m[k]>>} /\ At(n) = {<<k, n[k]>>}
    BY <1>1, <1>4
  <2>2. {<<k, m[k]>>} = {<<k, n[k]>>} <=> m[k] = n[k]
    <3>1. ASSUME {<<k, m[k]>>} = {<<k, n[k]>>} PROVE m[k] = n[k]
      <4>1. <<k, m[k]>> = <<k, n[k]>>
        BY <3>1
      <4>2. QED
        BY <4>1
    <3>2. QED
      BY <3>1
  <2>3. QED
    BY <1>3, <1>4, <2>1, <2>2
<1>5. CASE k \in DOMAIN m /\ k \notin DOMAIN n
  BY <1>1, <1>2, <1>3, <1>5
<1>6. CASE k \notin DOMAIN m /\ k \in DOMAIN n
  BY <1>1, <1>2, <1>3, <1>6
<1>7. CASE k \notin DOMAIN m /\ k \notin DOMAIN n
  BY <1>2, <1>3, <1>7
<1>8. QED
  BY <1>4, <1>5, <1>6, <1>7

(* The reference and the code mean the same by a drifted attribute,        *)
LEMMA AttributesDiffer ==
  ASSUME NEW e, NEW a
  PROVE  {f \in DOMAIN e.attributes : Differs(e.attributes, a.attributes, f)}
           = DriftedAttributes(e, a)
BY DiffersThere DEF DriftedAttributes, AttributeDrifted

(* and the same by a drifted tag,                                          *)
LEMMA TagsDiffer ==
  ASSUME NEW e, NEW a, NamesKnown(e, a)
  PROVE  {f \in Fields : Differs(e.tags, a.tags, f)} = LostTags(e, a) \cup AddedTags(e, a)
<1>1. DOMAIN e.tags \subseteq Fields /\ DOMAIN a.tags \subseteq Fields
  BY DEF NamesKnown
<1>2. \A f : Differs(e.tags, a.tags, f) <=> f \in LostTags(e, a) \cup AddedTags(e, a)
  BY DiffersThere DEF LostTags, AddedTags, TagDrifted
<1>3. LostTags(e, a) \cup AddedTags(e, a) \subseteq Fields
  BY <1>1 DEF LostTags, AddedTags
<1>4. QED
  BY <1>2, <1>3

(* so that they report the same items.                                     *)
LEMMA ReferenceItems ==
  ASSUME NEW e, NEW a, NamesKnown(e, a)
  PROVE  /\ a.found = TRUE => ReferenceFindings(e, a) = ItemsOf(e, a)
         /\ a.found = FALSE => ReferenceFindings(e, a) = {DeletedItem(e)}
<1>1. ASSUME a.found = TRUE
      PROVE  ReferenceFindings(e, a) = ItemsOf(e, a)
  <2>1. {item(e, "modified", k, ValueOf(e.attributes, k), ValueOf(a.attributes, k)) :
           k \in {f \in DOMAIN e.attributes : Differs(e.attributes, a.attributes, f)}}
          = AttributeItems(e, a)
    BY AttributesDiffer DEF AttributeItems, AttributeItem, ValueOf, DriftedAttributes
  <2>2. {item(e, "tag", k, ValueOf(e.tags, k), ValueOf(a.tags, k)) :
           k \in {f \in Fields : Differs(e.tags, a.tags, f)}}
          = TagItems(e, a)
    BY TagsDiffer DEF TagItems, TagItem
  <2>3. QED
    BY <1>1, <2>1, <2>2 DEF ReferenceFindings, ItemsOf
<1>2. QED
  BY <1>1 DEF ReferenceFindings, DeletedItem

(* diff.Compare reports each drifted field exactly once, with both its     *)
(* values, and nothing else, whatever the resource and the answer.         *)
THEOREM DriftPinpointed == Spec => []PinpointsDrift
<1>1. IInv => PinpointsDrift
  <2> SUFFICES ASSUME IInv PROVE PinpointsDrift
    OBVIOUS
  <2>1. CASE live.found = TRUE
    BY <2>1, ReportItems, ReferenceItems DEF PinpointsDrift, Enumerates
  <2>2. CASE live.found = FALSE
    <3>1. report.items = <<DeletedItem(expected)>>
      BY <2>2, ReportItems
    <3>2. Range(report.items) = {DeletedItem(expected)} /\ IsInjective(report.items)
      BY <3>1 DEF Range, IsInjective
    <3>3. QED
      BY <2>2, <3>2, ReportItems, ReferenceItems DEF PinpointsDrift
  <2>3. QED
    BY <2>1, <2>2, ReportItems
<1>2. QED
  BY <1>1, Inductive, PTL

-----------------------------------------------------------------------------
(* Counting, symmetry and locality.                                        *)

(* recount adds up, counts one deletion exactly when the resource is gone, *)
(* and HasDrift answers whether there is any drift.                        *)
THEOREM SummaryAdds == Spec => []SummaryAddsUp
<1>1. ASSUME IInv, TypeOK, PinpointsDrift PROVE SummaryAddsUp
  <2> DEFINE items == report.items
             Of(kind) == {i \in DOMAIN items : items[i].kind = kind}
  <2>1. DOMAIN items = 1..Len(items) /\ Len(items) \in Nat
    <3>1. items \in Seq(MayReport(expected, live))
      BY <1>1, Known, CompareSortable, ReportItems DEF IInv
    <3>2. QED
      BY <3>1
  <2>2. \A i \in DOMAIN items : items[i].kind \in Kinds
    BY <1>1 DEF TypeOK
  <2>3. /\ report.summary.Deleted = Cardinality(Of("deleted"))
        /\ report.summary.Modified = Cardinality(Of("modified"))
        /\ report.summary.TagChanges = Cardinality(Of("tag"))
        /\ report.summary.Total = Len(items) /\ report.summary.ResourcesChecked = 1
    <3>1. report.summary = recount(items, 1)
      BY <1>1, ReportItems
    <3>2. QED
      BY <3>1 DEF recount, CountKind
  <2>4. /\ IsFiniteSet(DOMAIN items) /\ Cardinality(DOMAIN items) = Len(items)
        /\ \A kind : IsFiniteSet(Of(kind)) /\ Cardinality(Of(kind)) \in Nat
    <3>1. IsFiniteSet(1..Len(items)) /\ Cardinality(1..Len(items)) = Len(items)
      BY <2>1, FS_Interval
    <3>2. \A kind : Of(kind) \subseteq DOMAIN items
      OBVIOUS
    <3>3. QED
      BY <2>1, <3>1, <3>2, FS_Subset, FS_CardinalityType
  <2>5. Cardinality(Of("deleted")) + Cardinality(Of("modified")) + Cardinality(Of("tag"))
          = Len(items)
    <3> DEFINE D == Of("deleted")
               M == Of("modified")
               G == Of("tag")
    <3>1. D \cap M = {} /\ (D \cup M) \cap G = {}
      OBVIOUS
    <3>2. (D \cup M) \cup G = DOMAIN items
      BY <2>2 DEF Kinds
    <3>3. /\ IsFiniteSet(D) /\ IsFiniteSet(M) /\ IsFiniteSet(G)
          /\ Cardinality(D) \in Nat /\ Cardinality(M) \in Nat /\ Cardinality(G) \in Nat
      BY <2>4
    <3> HIDE DEF D, M, G
    <3>4. /\ IsFiniteSet(D \cup M)
          /\ Cardinality(D \cup M) = Cardinality(D) + Cardinality(M) - Cardinality(D \cap M)
      BY <3>3, FS_Union
    <3>5. Cardinality((D \cup M) \cup G)
            = Cardinality(D \cup M) + Cardinality(G) - Cardinality((D \cup M) \cap G)
      BY <3>3, <3>4, FS_Union
    <3>6. Cardinality(D \cap M) = 0 /\ Cardinality((D \cup M) \cap G) = 0
      BY <3>1, FS_EmptySet
    <3>7. Cardinality((D \cup M) \cup G) = Len(items)
      BY <2>4, <3>2
    <3> HIDE DEF items
    <3>9. Cardinality(D) + Cardinality(M) + Cardinality(G) = Len(items)
      BY <3>3, <3>4, <3>5, <3>6, <3>7
    <3>8. QED
      BY <3>9 DEF D, M, G
  <2>6. Cardinality(Of("deleted")) = 1 <=> ~live.found
    <3>1. CASE live.found = TRUE
      <4>1. \A i \in DOMAIN items : items[i].kind # "deleted"
        <5>1. /\ \A i \in DOMAIN items : items[i] \in ItemsOf(expected, live)
              /\ NamesKnown(expected, live)
          BY <1>1, <3>1, ReportItems DEF Enumerates, Range
        <5>2. \A x \in ItemsOf(expected, live) : x.kind # "deleted"
          BY <5>1, ReportedItems DEF ItemsOf, MayReport
        <5>3. QED
          BY <5>1, <5>2
      <4>2. Of("deleted") = {}
        BY <4>1
      <4>3. QED
        BY <3>1, <4>2, FS_EmptySet
    <3>2. CASE live.found = FALSE
      <4>1. items = <<DeletedItem(expected)>>
        BY <1>1, <3>2, ReportItems
      <4>2. Of("deleted") = {1}
        BY <4>1 DEF DeletedItem, item
      <4>3. QED
        BY <3>2, <4>2, FS_Singleton
    <3>3. QED
      BY <1>1, <3>1, <3>2, ReportItems
  <2>7. HasDrift(report) <=> ReferenceFindings(expected, live) # {}
    <3>1. Range(items) = ReferenceFindings(expected, live)
      BY <1>1 DEF PinpointsDrift
    <3>2. Range(items) # {} <=> Len(items) > 0
      <4>1. Range(items) = {items[i] : i \in 1..Len(items)}
        BY <2>1 DEF Range
      <4>2. Len(items) > 0 => items[1] \in Range(items)
        BY <2>1, <4>1
      <4>3. Range(items) # {} => \E i \in 1..Len(items) : TRUE
        BY <4>1
      <4> HIDE DEF items
      <4>4. QED
        BY <2>1, <4>2, <4>3
    <3>3. QED
      BY <2>3, <3>1, <3>2 DEF HasDrift
  <2> HIDE DEF Of
  <2>8. QED
    BY <2>3, <2>5, <2>6, <2>7 DEF SummaryAddsUp
<1>2. QED
  BY <1>1, Inductive, TypeCorrect, DriftPinpointed, PTL

\* The tags a comparison reports.
TagsTouched(e, a) == LostTags(e, a) \cup AddedTags(e, a)

(* Which tags are touched, said of the two maps alone.                     *)
LEMMA TouchedTags ==
  ASSUME NEW e, NEW a, NEW k
  PROVE  k \in TagsTouched(e, a) <=>
           \/ k \in DOMAIN e.tags /\ k \notin DOMAIN a.tags
           \/ k \notin DOMAIN e.tags /\ k \in DOMAIN a.tags
           \/ k \in DOMAIN e.tags /\ k \in DOMAIN a.tags /\ a.tags[k] # e.tags[k]
BY DEF TagsTouched, LostTags, AddedTags, TagDrifted

(* A tag is drift in one direction exactly when it is in the other.        *)
THEOREM TagDriftSymmetric == Spec => []TagDriftIsSymmetric
<1>1. IInv => TagDriftIsSymmetric
  <2> SUFFICES ASSUME IInv, live.found PROVE TagDriftIsSymmetric
    BY DEF TagDriftIsSymmetric
  <2> DEFINE L == [key |-> expected.key, attributes |-> live.attributes, tags |-> live.tags]
             Swapped(it) == [it EXCEPT !.expected = it.actual, !.actual = it.expected]
  <2>1. NamesKnown(expected, live) /\ NamesKnown(L, expected)
    BY Known, ComparisonAssumption DEF IInv, ComparisonAssumption, NamesKnown
  <2>2. /\ Range(compareTags(expected, live)) = TagItems(expected, live)
        /\ Range(compareTags(L, expected)) = TagItems(L, expected)
    <3> HIDE DEF L
    <3>1. QED
      BY <2>1, TagsReported DEF Enumerates
  <2>3. TagsTouched(expected, live) = TagsTouched(L, expected)
    <3>1. ASSUME NEW k
          PROVE  k \in TagsTouched(expected, live) <=> k \in TagsTouched(L, expected)
      <4>1. L.tags = live.tags
        OBVIOUS
      <4> HIDE DEF L
      <4>2. QED
        BY <4>1, TouchedTags
    <3>2. QED
      BY <3>1
  <2>4. \A k : TagItem(expected, live, k) = Swapped(TagItem(L, expected, k))
    <3>1. \A key, kind, field, v, w :
            Swapped([key |-> key, kind |-> kind, field |-> field,
                     expected |-> v, actual |-> w])
              = [key |-> key, kind |-> kind, field |-> field, expected |-> w, actual |-> v]
      <4> TAKE key, kind, field, v, w
      <4> DEFINE r == [key |-> key, kind |-> kind, field |-> field,
                       expected |-> v, actual |-> w]
                 s == [r EXCEPT !.expected = w]
                 u == [s EXCEPT !.actual = v]
      <4>1. s = [key |-> key, kind |-> kind, field |-> field, expected |-> w, actual |-> w]
        OBVIOUS
      <4>2. u = [key |-> key, kind |-> kind, field |-> field, expected |-> w, actual |-> v]
        <5>1. [[key |-> key, kind |-> kind, field |-> field, expected |-> w, actual |-> w]
                 EXCEPT !.actual = v]
                = [key |-> key, kind |-> kind, field |-> field, expected |-> w, actual |-> v]
          OBVIOUS
        <5> HIDE DEF s
        <5>2. QED
          BY <4>1, <5>1
      <4>3. Swapped(r) = u
        OBVIOUS
      <4>4. QED
        BY <4>2, <4>3
    <3>2. L.key = expected.key /\ L.tags = live.tags
      OBVIOUS
    <3> HIDE DEF L, Swapped
    <3>3. QED
      BY <3>1, <3>2 DEF TagItem, item
  <2>5. TagItems(expected, live) = {Swapped(it) : it \in TagItems(L, expected)}
    <3> HIDE DEF L, Swapped
    <3>1. QED
      BY <2>3, <2>4 DEF TagItems, TagsTouched
  <2>6. QED
    BY <2>2, <2>5 DEF TagDriftIsSymmetric
<1>2. QED
  BY <1>1, Inductive, PTL

(* What the report says of a tag, whatever else it reports.                *)
LEMMA ReportedTags ==
  ASSUME IInv, live.found
  PROVE  {it \in Range(report.items) : it.kind = "tag"} = TagItems(expected, live)
<1>1. NamesKnown(expected, live) /\ Range(report.items) = ItemsOf(expected, live)
  BY ReportItems DEF Enumerates
<1>2. /\ \A it \in TagItems(expected, live) : it.kind = "tag"
      /\ \A it \in AttributeItems(expected, live) : it.kind = "modified"
  BY <1>1, ReportedItems DEF ItemsOf, MayReport
<1>3. QED
  BY <1>1, <1>2 DEF ItemsOf

(* The tag findings of a report are a patch from the tags of the state     *)
(* file to those of the cloud.                                             *)
THEOREM TagsRebuilt == Spec => []FindingsRebuildTags
<1>1. IInv => FindingsRebuildTags
  <2> SUFFICES ASSUME IInv, live.found, \A e \in Entries(live.tags) : e[2] # NoValue
               PROVE  Patched(expected.tags,
                              {it \in Range(report.items) : it.kind = "tag"})
                        = Entries(live.tags)
    BY DEF FindingsRebuildTags
  <2> DEFINE D == TagsTouched(expected, live)
             kept == {e \in Entries(expected.tags) : e[1] \notin D}
             W == {k \in D : k \in DOMAIN live.tags}
             written == {<<k, live.tags[k]>> : k \in W}
  <2>1. \A it \in TagItems(expected, live) :
          \E k \in D : it.field = k /\ it.actual = ValueOf(live.tags, k)
    BY DEF TagItems, TagItem, item, TagsTouched
  <2>2. \A k \in D : \E it \in TagItems(expected, live) :
          it.field = k /\ it.actual = ValueOf(live.tags, k)
    <3>1. \A k \in D : TagItem(expected, live, k) \in TagItems(expected, live)
      BY DEF TagItems, TagsTouched
    <3>2. \A k : /\ TagItem(expected, live, k).field = k
                /\ TagItem(expected, live, k).actual = ValueOf(live.tags, k)
      BY DEF TagItem, item
    <3> HIDE DEF D
    <3>3. QED
      BY <3>1, <3>2
  <2>3. \A k : ValueOf(live.tags, k) # NoValue <=> k \in DOMAIN live.tags
    <3>1. ASSUME NEW k \in DOMAIN live.tags PROVE live.tags[k] # NoValue
      <4>1. <<k, live.tags[k]>> \in Entries(live.tags)
        BY DEF Entries
      <4>2. <<k, live.tags[k]>>[2] = live.tags[k]
        OBVIOUS
      <4>3. QED
        BY <4>1, <4>2
    <3>2. QED
      BY <3>1 DEF ValueOf
  <2>4. {it.field : it \in TagItems(expected, live)} = D
    <3> HIDE DEF D
    <3>1. QED
      BY <2>1, <2>2
  <2>5. {<<it.field, it.actual>> : it \in {i \in TagItems(expected, live) : i.actual # NoValue}}
          = written
    <3> DEFINE Pairs == {<<it.field, it.actual>> :
                           it \in {i \in TagItems(expected, live) : i.actual # NoValue}}
    <3> HIDE DEF D
    <3>1. ASSUME NEW x \in Pairs PROVE x \in written
      <4>1. PICK it \in TagItems(expected, live) :
              it.actual # NoValue /\ x = <<it.field, it.actual>>
        OBVIOUS
      <4>2. PICK k \in D : it.field = k /\ it.actual = ValueOf(live.tags, k)
        BY <2>1
      <4>3. k \in W /\ it.actual = live.tags[k]
        BY <2>3, <4>1, <4>2 DEF ValueOf
      <4>4. QED
        BY <4>1, <4>2, <4>3
    <3>2. ASSUME NEW x \in written PROVE x \in Pairs
      <4>1. PICK k \in W : x = <<k, live.tags[k]>>
        OBVIOUS
      <4>2. PICK it \in TagItems(expected, live) :
              it.field = k /\ it.actual = ValueOf(live.tags, k)
        BY <2>2, <4>1
      <4>3. it.actual # NoValue /\ it.actual = live.tags[k]
        BY <2>3, <4>1, <4>2 DEF ValueOf
      <4>4. x = <<it.field, it.actual>>
        BY <4>1, <4>2, <4>3
      <4>5. QED
        BY <4>3, <4>4
    <3>3. QED
      BY <3>1, <3>2
  <2>6. Patched(expected.tags, {it \in Range(report.items) : it.kind = "tag"})
          = kept \cup written
    <3>1. Patched(expected.tags, TagItems(expected, live)) = kept \cup written
      BY <2>4, <2>5 DEF Patched
    <3>2. QED
      BY <3>1, ReportedTags
  <2>7. kept \cup written = Entries(live.tags)
    <3>1. \A k : k \in D <=>
           \/ k \in DOMAIN expected.tags /\ k \notin DOMAIN live.tags
           \/ k \notin DOMAIN expected.tags /\ k \in DOMAIN live.tags
           \/ /\ k \in DOMAIN expected.tags /\ k \in DOMAIN live.tags
              /\ live.tags[k] # expected.tags[k]
      BY TouchedTags
    <3> HIDE DEF D
    <3>2. ASSUME NEW x \in kept PROVE x \in Entries(live.tags)
      <4>1. PICK k \in DOMAIN expected.tags : x = <<k, expected.tags[k]>> /\ k \notin D
        BY DEF Entries
      <4>2. k \in DOMAIN live.tags /\ x = <<k, live.tags[k]>>
        BY <3>1, <4>1
      <4>3. QED
        BY <4>2 DEF Entries
    <3>3. ASSUME NEW x \in written PROVE x \in Entries(live.tags)
      BY DEF Entries
    <3>4. ASSUME NEW x \in Entries(live.tags) PROVE x \in kept \cup written
      <4>1. PICK k \in DOMAIN live.tags : x = <<k, live.tags[k]>>
        BY DEF Entries
      <4>2. CASE k \in D
        BY <4>1, <4>2
      <4>3. CASE k \notin D
        <5>1. k \in DOMAIN expected.tags /\ x = <<k, expected.tags[k]>>
          BY <3>1, <4>1, <4>3
        <5>2. x \in Entries(expected.tags) /\ x[1] = k
          BY <5>1 DEF Entries
        <5>3. QED
          BY <4>3, <5>2
      <4>4. QED
        BY <4>2, <4>3
    <3>5. QED
      BY <3>2, <3>3, <3>4
  <2>8. QED
    BY <2>6, <2>7
<1>2. QED
  BY <1>1, Inductive, PTL

(* What a report says of one name: the finding that name calls for, or     *)
(* nothing.                                                                *)
LEMMA FoundAbout ==
  ASSUME NEW e, NEW a, NamesKnown(e, a), NEW k
  PROVE  /\ {it \in ItemsOf(e, a) : it.kind = "tag" /\ it.field = k}
              = {TagItem(e, a, x) : x \in TagsTouched(e, a) \cap {k}}
         /\ {it \in ItemsOf(e, a) : it.kind = "modified" /\ it.field = k}
              = {AttributeItem(e, a, x) : x \in DriftedAttributes(e, a) \cap {k}}
<1>1. \A x : /\ TagItem(e, a, x).kind = "tag" /\ TagItem(e, a, x).field = x
             /\ AttributeItem(e, a, x).kind = "modified" /\ AttributeItem(e, a, x).field = x
  BY DEF TagItem, AttributeItem, item
<1>2. {it \in ItemsOf(e, a) : it.kind = "tag" /\ it.field = k}
        = {TagItem(e, a, x) : x \in TagsTouched(e, a) \cap {k}}
  BY <1>1 DEF ItemsOf, TagItems, AttributeItems, TagsTouched
<1>3. {it \in ItemsOf(e, a) : it.kind = "modified" /\ it.field = k}
        = {AttributeItem(e, a, x) : x \in DriftedAttributes(e, a) \cap {k}}
  BY <1>1 DEF ItemsOf, TagItems, AttributeItems, TagsTouched
<1>4. QED
  BY <1>2, <1>3

(* Two answers that agree on a tag, or an attribute, get the same findings *)
(* about it.                                                               *)
LEMMA SameThere ==
  ASSUME NEW e, NEW a, NEW b, NamesKnown(e, a), NamesKnown(e, b), NEW k
  PROVE  /\ ~Differs(a.tags, b.tags, k) =>
              {it \in ItemsOf(e, a) : it.kind = "tag" /\ it.field = k}
                = {it \in ItemsOf(e, b) : it.kind = "tag" /\ it.field = k}
         /\ ~Differs(a.attributes, b.attributes, k) =>
              {it \in ItemsOf(e, a) : it.kind = "modified" /\ it.field = k}
                = {it \in ItemsOf(e, b) : it.kind = "modified" /\ it.field = k}
<1>1. ASSUME ~Differs(a.tags, b.tags, k)
      PROVE  {TagItem(e, a, x) : x \in TagsTouched(e, a) \cap {k}}
               = {TagItem(e, b, x) : x \in TagsTouched(e, b) \cap {k}}
  <2>1. \/ k \notin DOMAIN a.tags /\ k \notin DOMAIN b.tags
        \/ k \in DOMAIN a.tags /\ k \in DOMAIN b.tags /\ a.tags[k] = b.tags[k]
    BY <1>1, DiffersThere
  <2>2. TagItem(e, a, k) = TagItem(e, b, k)
    <3>1. ValueOf(a.tags, k) = ValueOf(b.tags, k)
      BY <2>1 DEF ValueOf
    <3>2. QED
      BY <3>1 DEF TagItem
  <2>3. k \in TagsTouched(e, a) <=> k \in TagsTouched(e, b)
    BY <2>1, TouchedTags
  <2>4. QED
    BY <2>2, <2>3
<1>2. ASSUME ~Differs(a.attributes, b.attributes, k)
      PROVE  {AttributeItem(e, a, x) : x \in DriftedAttributes(e, a) \cap {k}}
               = {AttributeItem(e, b, x) : x \in DriftedAttributes(e, b) \cap {k}}
  <2>1. \/ k \notin DOMAIN a.attributes /\ k \notin DOMAIN b.attributes
        \/ /\ k \in DOMAIN a.attributes /\ k \in DOMAIN b.attributes
           /\ a.attributes[k] = b.attributes[k]
    BY <1>2, DiffersThere
  <2>2. AttributeItem(e, a, k) = AttributeItem(e, b, k)
    <3>1. ValueOf(a.attributes, k) = ValueOf(b.attributes, k)
      BY <2>1 DEF ValueOf
    <3>2. QED
      BY <3>1 DEF AttributeItem
  <2>3. k \in DriftedAttributes(e, a) <=> k \in DriftedAttributes(e, b)
    BY <2>1 DEF DriftedAttributes, AttributeDrifted
  <2>4. QED
    BY <2>2, <2>3
<1>3. QED
  BY <1>1, <1>2, FoundAbout

(* An edit elsewhere leaves the findings about a field as they were.       *)
THEOREM FindingsLocal == Spec => FindingsAreLocal
<1> DEFINE Local ==
      (live.found /\ live'.found) =>
        \A k \in Fields :
          /\ ~Differs(live.tags, live'.tags, k) =>
               About(report, "tag", k) = About(report', "tag", k)
          /\ ~Differs(live.attributes, live'.attributes, k) =>
               About(report, "modified", k) = About(report', "modified", k)
<1>1. ASSUME IInv, IInv', Next PROVE Local
  <2> SUFFICES ASSUME live.found, live'.found PROVE Local
    OBVIOUS
  <2>1. expected' = expected
    BY <1>1 DEF Next, EditAndCompare
  <2>2. /\ NamesKnown(expected, live)
        /\ Range(report.items) = ItemsOf(expected, live)
    BY <1>1, ReportItems DEF Enumerates
  <2>3. /\ NamesKnown(expected, live')
        /\ Range(report'.items) = ItemsOf(expected, live')
    <3>1. /\ live' \in Answers /\ expected \in Resources
          /\ report' = Report(expected, live')
      BY <1>1, <2>1 DEF IInv, Report, Findings
    <3>2. NamesKnown(expected, live') /\ live'.found = TRUE
      BY <3>1, Known
    <3>3. report'.items = Compare(expected, live', TRUE)
      BY <3>1, <3>2 DEF Report, Finalize, Findings
    <3>4. QED
      BY <3>2, <3>3, CompareFound DEF Enumerates
  <2>4. QED
    BY <2>2, <2>3, SameThere DEF About
<1>2. IInv /\ IInv' /\ [Next]_vars => [Local]_vars
  BY <1>1
<1>3. QED
  BY <1>2, Inductive, PTL DEF Spec, FindingsAreLocal
=============================================================================
