-------------------------------- MODULE Mock --------------------------------
(***************************************************************************)
(* internal/provider/mock behind the mapper seam, and what scan.Scan makes *)
(* of it.  A fixture is [types, resources], a resource of it [type, id,    *)
(* attributes, tags]; the provider built from it indexes the resources by  *)
(* id alone.  Lookups are of the provider's own memory and never fail, so  *)
(* the scan is a function of the fixture and the state file (module Scan   *)
(* has the goroutines, and shows that their order does not matter).        *)
(***************************************************************************)
EXTENDS Diff, TfState

\* A later entry with the same id replaces an earlier one.
LastWith(resources, id) ==
  LET at == {i \in DOMAIN resources : resources[i].id = id}
  IN  resources[CHOOSE i \in at : \A j \in at : j <= i]

FromBytes(fixture) ==
  [byID  |-> [id \in {fixture.resources[i].id : i \in DOMAIN fixture.resources}
                |-> LastWith(fixture.resources, id)],
   types |-> Range(fixture.types)
               \cup {fixture.resources[i].type : i \in DOMAIN fixture.resources}]

\* The comparable attributes are those of the fixture's entry, read from the
\* state; without an entry, the strings of the state.
ComparableAttributes(p, attrs, id) ==
  IF id \in DOMAIN p.byID
  THEN [k \in DOMAIN p.byID[id].attributes |-> AttrString(attrs, k)]
  ELSE [k \in {a \in DOMAIN attrs : attrs[a].kind = "string"} |-> attrs[k].text]

FromState(p, inst) ==
  LET id == AttrString(inst.attributes, "id")
  IN  [key        |-> <<inst.type, id>>,
       attributes |-> ComparableAttributes(p, inst.attributes, id),
       tags       |-> AttrTags(inst.attributes, "tags")]

FetchActual(p, id) ==
  IF id \notin DOMAIN p.byID
  THEN [found |-> FALSE, attributes |-> <<>>, tags |-> <<>>]
  ELSE [found |-> TRUE, attributes |-> p.byID[id].attributes, tags |-> p.byID[id].tags]

FindingsOf(p, inst) ==
  LET expected == FromState(p, inst)
      actual   == FetchActual(p, expected.key[2])
  IN  Compare(expected, actual, actual.found)

\* MapperIndex holds one mapper per type; instances of other types are skipped.
Jobs(p, instances) ==
  FlattenSeq([i \in DOMAIN instances |->
    IF instances[i].type \in p.types THEN <<instances[i]>> ELSE <<>>])

ScanReport(p, instances) ==
  LET jobs == Jobs(p, instances)
  IN  Finalize(StableSort(FlattenSeq([j \in DOMAIN jobs |-> FindingsOf(p, jobs[j])])),
               Len(jobs))
=============================================================================
