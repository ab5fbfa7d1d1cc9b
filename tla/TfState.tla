------------------------------ MODULE TfState -------------------------------
(***************************************************************************)
(* internal/tfstate: the JSON of a state file, its parse into a flat list  *)
(* of instances, and the two readers of the raw attribute bag that every   *)
(* mapper uses.  A state file is a sequence of blocks [mode, type,         *)
(* instances], an instance's attributes a function from names to JSON      *)
(* values.  Display fields (name, module, provider prefix) are left out.   *)
(***************************************************************************)
EXTENDS SequencesExt

\* JSON values.  A number is known by what the verbs %d and %g print of it
\* (they differ from six digits on: 1000000 is 1e+06), and by whether int64
\* holds it exactly; a list or an object also by what %v prints.
Str(s) == [kind |-> "string", text |-> s]
Bool(b) == [kind |-> "bool", truth |-> b]
Number(whole, d, g) == [kind |-> "number", whole |-> whole, decimal |-> d, general |-> g]
Object(m, v) == [kind |-> "object", entries |-> m, printed |-> v]
Null == [kind |-> "null"]

\* fmt.Sprintf("%v", v).
Printed(v) ==
  CASE v.kind = "string" -> v.text
    [] v.kind = "bool"   -> IF v.truth THEN "true" ELSE "false"
    [] v.kind = "number" -> v.general
    [] v.kind = "null"   -> "<nil>"
    [] OTHER             -> v.printed

\* Mutated form: no case of its own for numbers.
AttrStringPrinted(attrs, key) ==
  IF key \in DOMAIN attrs /\ attrs[key] # Null THEN Printed(attrs[key]) ELSE ""

AttrString(attrs, key) ==
  IF key \notin DOMAIN attrs \/ attrs[key] = Null THEN ""
  ELSE LET v == attrs[key]
       IN  IF v.kind = "number" /\ v.whole THEN v.decimal ELSE Printed(v)

AttrTags(attrs, key) ==
  IF key \in DOMAIN attrs /\ attrs[key].kind = "object"
  THEN [k \in DOMAIN attrs[key].entries |-> Printed(attrs[key].entries[k])]
  ELSE <<>>

Managed(block) == block.mode \in {"", "managed"}

\* Data resources are skipped; the instances keep the order of the file.
Parse(file) ==
  FlattenSeq([b \in DOMAIN file |->
    IF ~Managed(file[b]) THEN <<>>
    ELSE [i \in DOMAIN file[b].instances |->
            [type |-> file[b].type, attributes |-> file[b].instances[i]]]])
=============================================================================
