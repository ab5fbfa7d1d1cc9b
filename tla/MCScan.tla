------------------------------- MODULE MCScan -------------------------------
(* State files over two resource keys.  FullStates: three jobs, a key that  *)
(* two instances share, a type without a mapper, an instance that does not  *)
(* normalise, an empty file.                                                *)
EXTENDS Scan

MCFieldOrder == <<"", "owner", "size">>
MCKeyOrder == <<"db", "web">>

Instance(t, k) == [type |-> t, key |-> k]
Web    == Instance("vm", "web")
Db     == Instance("vm", "db")
Broken == Instance("vm", "none")
Lambda == Instance("function", "none")
Role   == Instance("role", "none")

MCInstances == {Web, Db, Broken, Lambda, Role}
MCMappedTypes == {"vm"}
MCFromState(inst) ==
  IF inst.key = "none" THEN None
  ELSE [key |-> inst.key, attributes |-> [size |-> "s"], tags |-> <<>>]

\* In sync; drifted in two fields whose order the sort exchanges; deleted.
MCAnswers ==
  {[found |-> TRUE, attributes |-> [size |-> "s"], tags |-> <<>>],
   [found |-> TRUE, attributes |-> [size |-> "l"], tags |-> [owner |-> "ops"]],
   [found |-> FALSE, attributes |-> <<>>, tags |-> <<>>]}

FullStates == {<<Web, Lambda, Db, Web>>, <<Web, Db>>, <<Db, Broken>>, <<>>}
PairStates == {<<Web, Lambda, Db>>, <<Db, Broken>>}
=============================================================================
