---------------------------- MODULE MCComparison ----------------------------
(* Every pair of an expected and a live resource over one attribute and two *)
(* tags.  "name" is both an attribute and a tag; values may be empty.       *)
EXTENDS Comparison

MCFieldOrder == <<"", "env", "name">>
MCKeyOrder == <<"web">>

Values == {"", "x", "y"}
PartialMaps(S) == UNION {[D -> Values] : D \in SUBSET S}

MCResources ==
  {[key |-> "web", attributes |-> a, tags |-> t] :
     a \in PartialMaps({"name"}), t \in PartialMaps({"env", "name"})}

MCAnswers ==
  {[found |-> TRUE, attributes |-> a, tags |-> t] :
     a \in PartialMaps({"name"}), t \in PartialMaps({"env", "name"})}
  \cup {[found |-> FALSE, attributes |-> <<>>, tags |-> <<>>]}
=============================================================================
