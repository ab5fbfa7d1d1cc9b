----------------------------- MODULE MCCommand ------------------------------
(* One machine and one network; a size that %d and %g print differently, a  *)
(* flag, two tags.  Fixtures: in sync, drifted in four fields, deleted, a    *)
(* type it does not list, one id under two types, and one that does not      *)
(* parse.                                                                    *)
EXTENDS Command

MCFieldOrder == <<"", "env", "id", "on", "owner", "size">>
MCKeyOrder == <<<<"net", "n">>, <<"vm", "n">>, <<"vm", "v">>>>

Million == Number(TRUE, "1000000", "1e+06")
Half == Number(FALSE, "0", "0.5")
TagsOf(m) == Object([k \in DOMAIN m |-> Str(m[k])], "map")

VmAttrs == [id |-> Str("v"), size |-> Million, on |-> Bool(TRUE),
            tags |-> TagsOf([env |-> "prod"])]
NetAttrs == [id |-> Str("n"), size |-> Half, on |-> Null]
Block(m, t, i) == [mode |-> m, type |-> t, instances |-> i]

MCStateFiles ==
  {None,
   <<Block("managed", "vm", <<VmAttrs>>), Block("data", "vm", <<NetAttrs>>)>>,
   <<Block("", "net", <<NetAttrs>>), Block("managed", "vm", <<VmAttrs>>)>>}

LiveVm == [type |-> "vm", id |-> "v", attributes |-> [size |-> "1000000", on |-> "true"],
           tags |-> [env |-> "prod"]]
EditedVm == [LiveVm EXCEPT !.attributes = [size |-> "5", on |-> "false"],
                           !.tags = [owner |-> "ops"]]
LiveNet == [type |-> "net", id |-> "n", attributes |-> [size |-> "0.5", on |-> ""],
            tags |-> <<>>]
Fixture(t, r) == [types |-> t, resources |-> r]

MCFixtures ==
  {None,
   Fixture(<<"vm">>, <<LiveVm, LiveNet>>), Fixture(<<>>, <<EditedVm>>),
   Fixture(<<"vm", "net">>, <<LiveVm>>),
   Fixture(<<>>, <<[LiveNet EXCEPT !.id = "v"], LiveVm>>)}

Path == [scheme |-> ""]
Line(s, p, f, o, st, x) ==
  [command |-> "scan", wellFormed |-> TRUE, state |-> s, provider |-> p, fixture |-> TRUE,
   format |-> f, out |-> o, store |-> st, exitOnDrift |-> x]

Working == {Line(Path, "mock", f, o, st, x) :
              f \in {"json", "text", "yaml"}, o \in BOOLEAN, st \in BOOLEAN, x \in BOOLEAN}
Plain == Line(Path, "mock", "json", TRUE, TRUE, TRUE)
Faulty == {[Plain EXCEPT !.wellFormed = FALSE], [Plain EXCEPT !.state = None],
           [Plain EXCEPT !.provider = None], [Plain EXCEPT !.provider = "other"],
           [Plain EXCEPT !.fixture = FALSE], [Plain EXCEPT !.state = [scheme |-> "gs"]],
           [Plain EXCEPT !.state = [scheme |-> "s3"]],
           [Plain EXCEPT !.command = "help"], [Plain EXCEPT !.command = "drift"]}
MCInvocations == Working \cup Faulty
=============================================================================
