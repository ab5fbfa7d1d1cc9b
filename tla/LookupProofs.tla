---------------------------- MODULE LookupProofs ----------------------------
(***************************************************************************)
(* For any resources, texts and changes: a lookup fails only because a     *)
(* call was refused, both sides of a comparison have the same attributes,  *)
(* and the drift found is what has happened to the resource.               *)
(*                                                                         *)
(* First what the state says of a resource and what its mapper makes of    *)
(* that (ReadAs, BothSides), then what the comparison reports of the two   *)
(* sides (SidesMoved), then the steps of a lookup.                         *)
(***************************************************************************)
EXTENDS Lookup, DiffProofs

Types == AwsTypes \cup AzureTypes \cup GcpTypes

-----------------------------------------------------------------------------
(* What Terraform writes, as the mappers read it.                          *)

(* AttrString reads back what a string attribute holds.                    *)
LEMMA StringsRead ==
  ASSUME NEW attrs, NEW n \in DOMAIN attrs, NEW text, attrs[n] = Str(text)
  PROVE  AttrString(attrs, n) = text
<1>1. attrs[n] # Null
  <2>1. Str(text).kind = "string" /\ Null.kind = "null"
    BY DEF Str, Null
  <2>2. QED
    BY <2>1
<1>2. attrs[n].kind = "string" /\ attrs[n].text = text
  BY DEF Str
<1>3. QED
  BY <1>1, <1>2 DEF AttrString, Printed

(* No name says where a resource is and also what it is, or labels it.     *)
LEMMA NamesApart ==
  ASSUME NEW o \in Objects
  PROVE  /\ o.type \in Types
         /\ Range(Located[o.type]) \cap DOMAIN FieldOf[o.type] = {}
         /\ Label(o) \notin Range(Located[o.type]) \cup DOMAIN FieldOf[o.type]
<1>1. o.type \in Types
  BY LookupAssumption DEF LookupAssumption, Types
<1>2. /\ \A n : Range(<<n>>) = {n}
      /\ \A m, n : Range(<<m, n>>) = {m, n}
  BY DEF Range
<1>3. /\ Range(Located["aws_instance"]) = {"id"}
      /\ Range(Located["aws_security_group"]) = {"id"}
      /\ Range(Located["aws_s3_bucket"]) = {"id"}
      /\ Range(Located["azurerm_resource_group"]) = {"name"}
      /\ Range(Located["azurerm_storage_account"]) = {"resource_group_name", "name"}
      /\ Range(Located["google_compute_instance"]) = {"zone", "name"}
      /\ Range(Located["google_storage_bucket"]) = {"name"}
  BY <1>2 DEF Located
<1>4. /\ DOMAIN FieldOf["aws_instance"] = {"instance_type", "ami"}
      /\ DOMAIN FieldOf["aws_security_group"] = {"name", "description"}
      /\ DOMAIN FieldOf["aws_s3_bucket"] = {"bucket"}
      /\ DOMAIN FieldOf["azurerm_resource_group"] = {"location"}
      /\ DOMAIN FieldOf["azurerm_storage_account"] = {"location", "account_kind"}
      /\ DOMAIN FieldOf["google_compute_instance"] = {"machine_type"}
      /\ DOMAIN FieldOf["google_storage_bucket"] = {"location"}
  BY DEF FieldOf
<1>5. Range(Located[o.type]) \cap DOMAIN FieldOf[o.type] = {}
  BY <1>1, <1>3, <1>4 DEF Types, AwsTypes, AzureTypes, GcpTypes
<1>6. Label(o) \notin Range(Located[o.type]) \cup DOMAIN FieldOf[o.type]
  BY <1>1, <1>3, <1>4 DEF Types, AwsTypes, AzureTypes, GcpTypes, Label
<1>7. QED
  BY <1>1, <1>5, <1>6

\* What the mappers read of attributes that an apply has left.
ReadAs(attrs, o, t) ==
  /\ t \in Spellings(o)
  /\ \A n \in Range(Located[o.type]) : AttrString(attrs, n) = PathText(o, n)
  /\ \A n \in DOMAIN t : AttrString(attrs, n) = t[n]
  /\ AttrTags(attrs, Label(o)) = TagsOf(o)

(* A list of tags left out, empty or written one by one: it is read as the *)
(* tags of the object.                                                     *)
LEMMA TagsRead ==
  ASSUME NEW o, NEW attrs, Label(o) \in DOMAIN attrs, attrs[Label(o)] \in TagSpellings(o)
  PROVE  AttrTags(attrs, Label(o)) = TagsOf(o)
<1> DEFINE g == attrs[Label(o)]
           T == TagsOf(o)
<1>1. T = [k \in DOMAIN T |-> T[k]]
  BY DEF TagsOf, tagsOf
<1> HIDE DEF T
<1>2. AttrTags(attrs, Label(o))
        = IF g.kind = "object" THEN [k \in DOMAIN g.entries |-> Printed(g.entries[k])]
          ELSE <<>>
  BY DEF AttrTags
<1>3. CASE T = <<>> /\ g = Null
  BY <1>2, <1>3 DEF Null, T
<1>4. CASE T = <<>> /\ g = Object(<<>>, "map[]")
  <2>1. g.kind = "object" /\ g.entries = <<>>
    BY <1>4 DEF Object
  <2>2. [k \in DOMAIN g.entries |-> Printed(g.entries[k])] = <<>>
    BY <2>1
  <2>3. QED
    BY <1>2, <1>4, <2>1, <2>2 DEF T
<1>5. CASE g = Object([k \in DOMAIN T |-> Str(T[k])], "map[...]")
  <2>1. g.kind = "object" /\ g.entries = [k \in DOMAIN T |-> Str(T[k])]
    BY <1>5 DEF Object
  <2>2. \A k \in DOMAIN T : Printed(g.entries[k]) = T[k]
    BY <2>1 DEF Printed, Str
  <2>3. [k \in DOMAIN g.entries |-> Printed(g.entries[k])] = [k \in DOMAIN T |-> T[k]]
    BY <2>1, <2>2
  <2>4. QED
    BY <1>1, <1>2, <2>1, <2>3 DEF T
<1>6. QED
  BY <1>3, <1>4, <1>5 DEF TagSpellings, T

(* Every form in which an apply may leave the attributes is read so.       *)
LEMMA WrittenRead ==
  ASSUME NEW o \in Objects, NEW attrs \in Written(o)
  PROVE  \E t : ReadAs(attrs, o, t)
<1> DEFINE At == Range(Located[o.type])
           L == Label(o)
<1>1. PICK t \in Spellings(o), g \in TagSpellings(o) :
        attrs = [n \in At \cup DOMAIN t \cup {L} |->
                   IF n = L THEN g ELSE IF n \in DOMAIN t THEN Str(t[n])
                   ELSE Str(PathText(o, n))]
  BY DEF Written
<1>2. DOMAIN t = DOMAIN FieldOf[o.type]
  BY DEF Spellings
<1>3. At \cap DOMAIN t = {} /\ L \notin At \cup DOMAIN t
  BY <1>2, NamesApart
<1> HIDE DEF At, L
<1>4. /\ \A n \in At : n \in DOMAIN attrs /\ attrs[n] = Str(PathText(o, n))
      /\ \A n \in DOMAIN t : n \in DOMAIN attrs /\ attrs[n] = Str(t[n])
      /\ L \in DOMAIN attrs /\ attrs[L] = g
  BY <1>1, <1>3
<1>5. /\ \A n \in At : AttrString(attrs, n) = PathText(o, n)
      /\ \A n \in DOMAIN t : AttrString(attrs, n) = t[n]
  BY <1>4, StringsRead
<1>6. AttrTags(attrs, L) = TagsOf(o)
  BY <1>4, TagsRead DEF L
<1>7. QED
  BY <1>5, <1>6 DEF ReadAs, At, L

\* The two sides of a comparison: what the state says of o, what the cloud
\* says of c at the same address.
Sides(o, c, e, a) ==
  /\ e.key = <<o.type, o.path>> /\ a.key = e.key
  /\ DOMAIN e.attributes = DOMAIN FieldOf[o.type]
  /\ DOMAIN a.attributes = DOMAIN FieldOf[o.type]
  /\ \A k \in DOMAIN FieldOf[o.type] :
       a.attributes[k] = e.attributes[k]
         <=> SameText(o.type, o[FieldOf[o.type][k]], c[FieldOf[o.type][k]])
  /\ e.tags = TagsOf(o) /\ a.tags = TagsOf(c)

(* The parts of an address, for the types that have one part.              *)
LEMMA OnePart ==
  ASSUME NEW o \in Objects, NEW n, Located[o.type] = <<n>>
  PROVE  o.path = <<PathText(o, n)>> /\ o.path[1] = PathText(o, n) /\ n \in Range(Located[o.type])
<1>1. o.path \in [DOMAIN <<n>> -> STRING \ (DOMAIN Segments \cup {Nil})]
  BY CloudsAssumption DEF CloudsAssumption
<1>2. DOMAIN o.path = {1} /\ o.path = [i \in {1} |-> o.path[i]]
  BY <1>1
<1>3. o.path = <<o.path[1]>>
  BY <1>2
<1>4. PathText(o, n) = o.path[1]
  BY <1>2 DEF PathText
<1>5. QED
  BY <1>3, <1>4 DEF Range

(* The same for the types that have two.                                   *)
LEMMA TwoParts ==
  ASSUME NEW o \in Objects, NEW m, NEW n, m # n, Located[o.type] = <<m, n>>
  PROVE  /\ o.path = SegmentsOf(PathText(o, m)) \o SegmentsOf(PathText(o, n))
         /\ m \in Range(Located[o.type]) /\ n \in Range(Located[o.type])
<1>1. o.path \in [DOMAIN <<m, n>> -> STRING \ (DOMAIN Segments \cup {Nil})]
  BY CloudsAssumption DEF CloudsAssumption
<1>2. /\ DOMAIN o.path = {1, 2} /\ o.path = [i \in {1, 2} |-> o.path[i]]
      /\ o.path[1] \notin DOMAIN Segments /\ o.path[2] \notin DOMAIN Segments
  BY <1>1
<1>3. o.path = <<o.path[1], o.path[2]>>
  BY <1>2
<1>4. PathText(o, m) = o.path[1] /\ PathText(o, n) = o.path[2]
  <2>1. \A i \in {1, 2} : Located[o.type][i] = m <=> i = 1
    OBVIOUS
  <2>2. \A i \in {1, 2} : Located[o.type][i] = n <=> i = 2
    OBVIOUS
  <2>3. QED
    BY <1>2, <2>1, <2>2 DEF PathText
<1>5. SegmentsOf(o.path[1]) = <<o.path[1]>> /\ SegmentsOf(o.path[2]) = <<o.path[2]>>
  BY <1>2 DEF SegmentsOf
<1>6. m \in Range(Located[o.type]) /\ n \in Range(Located[o.type])
  BY DEF Range
<1>7. QED
  BY <1>3, <1>4, <1>5, <1>6

(* A spelling of an applied field compares with what the cloud holds as    *)
(* the field itself does.                                                  *)
LEMMA SpelledAlike ==
  ASSUME NEW o \in Objects, NEW t \in Spellings(o), NEW k \in DOMAIN FieldOf[o.type], NEW y
  PROVE  /\ t[k] # Nil /\ DOMAIN t = DOMAIN FieldOf[o.type]
         /\ SameText(o.type, t[k], o[FieldOf[o.type][k]])
         /\ SameText(o.type, o[FieldOf[o.type][k]], y) <=> SameText(o.type, t[k], y)
<1>1. t \in [DOMAIN FieldOf[o.type] -> Texts]
  BY DEF Spellings
<1>2. SameText(o.type, t[k], o[FieldOf[o.type][k]])
  BY <1>1 DEF Spellings
<1>3. \A x, z : SameText(o.type, x, z) =>
        (SameText(o.type, z, y) <=> SameText(o.type, x, y))
  BY DEF SameText
<1>4. t[k] # Nil
  BY <1>1, LookupAssumption DEF LookupAssumption
<1>5. QED
  BY <1>1, <1>2, <1>3, <1>4

(* A bucket is found by its name.                                          *)
LEMMA BucketName ==
  ASSUME NEW c \in Objects, c.type = "aws_s3_bucket"
  PROVE  c.Name = c.path[1] /\ c.Name # Nil
<1>1. c.Name = c.path[1] /\ c.path \in [DOMAIN Located[c.type] -> STRING \ (DOMAIN Segments \cup {Nil})]
  BY CloudsAssumption DEF CloudsAssumption
<1>2. Located[c.type] = <<"id">>
  BY DEF Located
<1>3. QED
  BY <1>1, <1>2

(* Every mapper: whatever the spellings in the state, its two sides have   *)
(* the same key and attribute names, and differ in an attribute exactly    *)
(* when the cloud's object does.                                           *)
LEMMA BothSides ==
  ASSUME NEW o \in Objects, NEW c \in Objects, SameAddress(c, o),
         NEW attrs, NEW t, ReadAs(attrs, o, t)
  PROVE  Sides(o, c, FromState([type |-> o.type, attributes |-> attrs]),
               Actual(o.type, o.path, c))
<1> DEFINE inst0 == [type |-> o.type, attributes |-> attrs]
           e == FromState(inst0)
           a == Actual(o.type, o.path, c)
           F == FieldOf[o.type]
           Alike(x, y) == SameText(o.type, x, y)
<1>1. c.type = o.type /\ c.path = o.path /\ o.type \in Types
  BY NamesApart DEF SameAddress
<1>2. inst0.type = o.type /\ inst0.attributes = attrs
  OBVIOUS
<1>3. \A k \in DOMAIN F :
        /\ AttrString(attrs, k) = t[k] /\ t[k] # Nil
        /\ \A y : Alike(o[F[k]], y) <=> Alike(t[k], y)
  BY SpelledAlike DEF ReadAs
<1>4. /\ \A n \in Range(Located[o.type]) : AttrString(attrs, n) = PathText(o, n)
      /\ AttrTags(attrs, Label(o)) = TagsOf(o)
  BY DEF ReadAs
<1>5. \A x : x # Nil => deref(x) = x
  BY DEF deref
<1>6. SUFFICES Sides(o, c, e, a)
  OBVIOUS
<1> HIDE DEF inst0, e, a, F, Alike
<1>7. CASE o.type = "aws_instance"
  <2>1. /\ e = instanceFromState(attrs) /\ a = instanceActual(o.path, c)
        /\ F = [instance_type |-> "InstanceType", ami |-> "ImageId"]
        /\ Located[o.type] = <<"id">> /\ Label(o) = "tags" /\ TagsOf(c) = tagsOf(c.Tags)
    BY <1>1, <1>2, <1>7 DEF FromState, Actual, FieldOf, Located, Label, GcpTypes, TagsOf, e, a, F
  <2>2. /\ e.key = <<o.type, o.path>> /\ a.key = <<o.type, o.path>>
        /\ e.tags = TagsOf(o) /\ a.tags = TagsOf(c)
    BY <1>4, <1>7, <2>1, OnePart DEF instanceFromState, instanceActual, Resource
  <2>3. /\ e.attributes = [k \in {"instance_type", "ami"} |-> AttrString(attrs, k)]
        /\ a.attributes = [instance_type |-> c.InstanceType, ami |-> deref(c.ImageId)]
    BY <2>1 DEF instanceFromState, instanceActual, Resource, Strings
  <2>4. c.InstanceType # Nil
    BY <1>1, <1>7, CloudsAssumption DEF CloudsAssumption
  <2>5. \A x, y : Alike(x, y) <=> deref(x) = deref(y)
    BY <1>7 DEF SameText, Alike
  <2>6. /\ DOMAIN e.attributes = DOMAIN F /\ DOMAIN a.attributes = DOMAIN F
        /\ \A k \in DOMAIN F : a.attributes[k] = e.attributes[k] <=> Alike(t[k], c[F[k]])
    BY <1>3, <1>5, <2>1, <2>3, <2>4, <2>5
  <2>7. QED
    BY <1>3, <2>2, <2>6 DEF Sides, F, Alike
<1>8. CASE o.type = "aws_security_group"
  <2>1. /\ e = securityGroupFromState(attrs) /\ a = securityGroupActual(o.path, c)
        /\ F = [name |-> "GroupName", description |-> "Description"]
        /\ Located[o.type] = <<"id">> /\ Label(o) = "tags" /\ TagsOf(c) = tagsOf(c.Tags)
    BY <1>1, <1>2, <1>8 DEF FromState, Actual, FieldOf, Located, Label, GcpTypes, TagsOf, e, a, F
  <2>2. /\ e.key = <<o.type, o.path>> /\ a.key = <<o.type, o.path>>
        /\ e.tags = TagsOf(o) /\ a.tags = TagsOf(c)
    BY <1>4, <1>8, <2>1, OnePart DEF securityGroupFromState, securityGroupActual, Resource
  <2>3. /\ e.attributes = [k \in {"name", "description"} |-> AttrString(attrs, k)]
        /\ a.attributes = [name |-> deref(c.GroupName), description |-> deref(c.Description)]
    BY <2>1 DEF securityGroupFromState, securityGroupActual, Resource, Strings
  <2>5. \A x, y : Alike(x, y) <=> deref(x) = deref(y)
    BY <1>8 DEF SameText, Alike
  <2>6. /\ DOMAIN e.attributes = DOMAIN F /\ DOMAIN a.attributes = DOMAIN F
        /\ \A k \in DOMAIN F : a.attributes[k] = e.attributes[k] <=> Alike(t[k], c[F[k]])
    BY <1>3, <1>5, <2>1, <2>3, <2>5
  <2>7. QED
    BY <1>3, <2>2, <2>6 DEF Sides, F, Alike
<1>9. CASE o.type = "aws_s3_bucket"
  <2>1. /\ e = bucketFromState(attrs) /\ a = bucketActual(o.path, c)
        /\ F = [bucket |-> "Name"]
        /\ Located[o.type] = <<"id">> /\ Label(o) = "tags" /\ TagsOf(c) = tagsOf(c.TagSet)
    BY <1>1, <1>2, <1>9 DEF FromState, Actual, FieldOf, Located, Label, GcpTypes, TagsOf, e, a, F
  <2>2. /\ e.key = <<o.type, o.path>> /\ a.key = <<o.type, o.path>>
        /\ e.tags = TagsOf(o) /\ a.tags = TagsOf(c)
    BY <1>4, <1>9, <2>1, OnePart DEF bucketFromState, bucketActual, Resource
  <2>3. /\ e.attributes = [k \in {"bucket"} |-> AttrString(attrs, k)]
        /\ a.attributes = [bucket |-> o.path[1]]
    BY <2>1 DEF bucketFromState, bucketActual, Resource, Strings
  <2>4. c.Name = o.path[1] /\ c.Name # Nil
    BY <1>1, <1>9, <2>1, BucketName
  <2>5. \A x, y : Alike(x, y) <=> deref(x) = deref(y)
    BY <1>9 DEF SameText, Alike
  <2>6. /\ DOMAIN e.attributes = DOMAIN F /\ DOMAIN a.attributes = DOMAIN F
        /\ \A k \in DOMAIN F : a.attributes[k] = e.attributes[k] <=> Alike(t[k], c[F[k]])
    BY <1>3, <1>5, <2>1, <2>3, <2>4, <2>5
  <2>7. QED
    BY <1>3, <2>2, <2>6 DEF Sides, F, Alike
<1>10. CASE o.type = "azurerm_resource_group"
  <2>1. /\ e = resourceGroupFromState(attrs) /\ a = resourceGroupActual(o.path, c)
        /\ F = [location |-> "Location"]
        /\ Located[o.type] = <<"name">> /\ Label(o) = "tags" /\ TagsOf(c) = tagsOf(c.Tags)
    BY <1>1, <1>2, <1>10 DEF FromState, Actual, FieldOf, Located, Label, GcpTypes, TagsOf, e, a, F
  <2>2. /\ e.key = <<o.type, o.path>> /\ a.key = <<o.type, o.path>>
        /\ e.tags = TagsOf(o) /\ a.tags = TagsOf(c)
    BY <1>4, <1>10, <2>1, OnePart DEF resourceGroupFromState, resourceGroupActual, Resource
  <2>3. /\ e.attributes = [k \in {"location"} |-> AttrString(attrs, k)]
        /\ a.attributes = [location |-> deref(c.Location)]
    BY <2>1 DEF resourceGroupFromState, resourceGroupActual, Resource, Strings
  <2>5. \A x, y : Alike(x, y) <=> deref(x) = deref(y)
    BY <1>10 DEF SameText, Alike
  <2>6. /\ DOMAIN e.attributes = DOMAIN F /\ DOMAIN a.attributes = DOMAIN F
        /\ \A k \in DOMAIN F : a.attributes[k] = e.attributes[k] <=> Alike(t[k], c[F[k]])
    BY <1>3, <1>5, <2>1, <2>3, <2>5
  <2>7. QED
    BY <1>3, <2>2, <2>6 DEF Sides, F, Alike
<1>11. CASE o.type = "azurerm_storage_account"
  <2>1. /\ e = storageAccountFromState(attrs) /\ a = storageAccountActual(o.path, c)
        /\ F = [location |-> "Location", account_kind |-> "Kind"]
        /\ Located[o.type] = <<"resource_group_name", "name">>
        /\ Label(o) = "tags" /\ TagsOf(c) = tagsOf(c.Tags)
    BY <1>1, <1>2, <1>11 DEF FromState, Actual, FieldOf, Located, Label, GcpTypes, TagsOf, e, a, F
  <2>0. /\ o.path = SegmentsOf(PathText(o, "resource_group_name")) \o SegmentsOf(PathText(o, "name"))
        /\ "resource_group_name" \in Range(Located[o.type]) /\ "name" \in Range(Located[o.type])
    BY <2>1, TwoParts
  <2>2. /\ e.key = <<o.type, o.path>> /\ a.key = <<o.type, o.path>>
        /\ e.tags = TagsOf(o) /\ a.tags = TagsOf(c)
    BY <1>4, <1>11, <2>0, <2>1 DEF storageAccountFromState, storageAccountActual, Resource
  <2>3. /\ e.attributes = [k \in {"location", "account_kind"} |-> AttrString(attrs, k)]
        /\ a.attributes = [location |-> deref(c.Location), account_kind |-> deref(c.Kind)]
    BY <2>1 DEF storageAccountFromState, storageAccountActual, Resource, Strings
  <2>5. \A x, y : Alike(x, y) <=> deref(x) = deref(y)
    BY <1>11 DEF SameText, Alike
  <2>6. /\ DOMAIN e.attributes = DOMAIN F /\ DOMAIN a.attributes = DOMAIN F
        /\ \A k \in DOMAIN F : a.attributes[k] = e.attributes[k] <=> Alike(t[k], c[F[k]])
    BY <1>3, <1>5, <2>1, <2>3, <2>5
  <2>7. QED
    BY <1>3, <2>2, <2>6 DEF Sides, F, Alike
<1>12. CASE o.type = "google_compute_instance"
  <2>1. /\ e = computeInstanceFromState(attrs) /\ a = computeInstanceActual(o.path, c)
        /\ F = [machine_type |-> "MachineType"]
        /\ Located[o.type] = <<"zone", "name">> /\ Label(o) = "labels" /\ TagsOf(c) = tagsOf(c.Labels)
    BY <1>1, <1>2, <1>12 DEF FromState, Actual, FieldOf, Located, Label, GcpTypes, TagsOf, e, a, F
  <2>0. /\ o.path = SegmentsOf(PathText(o, "zone")) \o SegmentsOf(PathText(o, "name"))
        /\ "zone" \in Range(Located[o.type]) /\ "name" \in Range(Located[o.type])
    BY <2>1, TwoParts
  <2>2. /\ e.key = <<o.type, o.path>> /\ a.key = <<o.type, o.path>>
        /\ e.tags = TagsOf(o) /\ a.tags = TagsOf(c)
    BY <1>4, <1>12, <2>0, <2>1 DEF computeInstanceFromState, computeInstanceActual, Resource
  <2>3. /\ e.attributes = [machine_type |-> lastSegment(AttrString(attrs, "machine_type"))]
        /\ a.attributes = [machine_type |-> lastSegment(c.MachineType)]
    BY <2>1 DEF computeInstanceFromState, computeInstanceActual, Resource
  <2>5. \A x, y : Alike(x, y) <=> lastSegment(x) = lastSegment(y)
    BY <1>12 DEF SameText, Alike, lastSegment
  <2>6. /\ DOMAIN e.attributes = DOMAIN F /\ DOMAIN a.attributes = DOMAIN F
        /\ \A k \in DOMAIN F : a.attributes[k] = e.attributes[k] <=> Alike(t[k], c[F[k]])
    BY <1>3, <1>5, <2>1, <2>3, <2>5
  <2>7. QED
    BY <1>3, <2>2, <2>6 DEF Sides, F, Alike
<1>13. CASE o.type = "google_storage_bucket"
  <2>1. /\ e = storageBucketFromState(attrs) /\ a = storageBucketActual(o.path, c)
        /\ F = [location |-> "Location"]
        /\ Located[o.type] = <<"name">> /\ Label(o) = "labels" /\ TagsOf(c) = tagsOf(c.Labels)
    BY <1>1, <1>2, <1>13 DEF FromState, Actual, FieldOf, Located, Label, GcpTypes, TagsOf, e, a, F
  <2>2. /\ e.key = <<o.type, o.path>> /\ a.key = <<o.type, o.path>>
        /\ e.tags = TagsOf(o) /\ a.tags = TagsOf(c)
    BY <1>4, <1>13, <2>1, OnePart DEF storageBucketFromState, storageBucketActual, Resource
  <2>3. /\ e.attributes = [location |-> ToUpper(AttrString(attrs, "location"))]
        /\ a.attributes = [location |-> ToUpper(c.Location)]
    BY <2>1 DEF storageBucketFromState, storageBucketActual, Resource
  <2>5. \A x, y : Alike(x, y) <=> ToUpper(x) = ToUpper(y)
    BY <1>13 DEF SameText, Alike
  <2>6. /\ DOMAIN e.attributes = DOMAIN F /\ DOMAIN a.attributes = DOMAIN F
        /\ \A k \in DOMAIN F : a.attributes[k] = e.attributes[k] <=> Alike(t[k], c[F[k]])
    BY <1>3, <1>5, <2>1, <2>3, <2>5
  <2>7. QED
    BY <1>3, <2>2, <2>6 DEF Sides, F, Alike
<1>14. QED
  BY <1>1, <1>7, <1>8, <1>9, <1>10, <1>11, <1>12, <1>13 DEF Types, AwsTypes, AzureTypes, GcpTypes

(* What the interface asks of a mapper: looked up under the id that is made *)
(* from the state, an object becomes a resource of the same key, with the  *)
(* same attributes as the one it is compared with.                         *)
THEOREM SameAttributes ==
  ASSUME NEW type \in Types, NEW attrs, NEW o
  PROVE  LET expected == FromState([type |-> type, attributes |-> attrs])
             actual   == Actual(type, expected.key[2], o)
         IN  /\ actual.key = expected.key
             /\ DOMAIN actual.attributes = DOMAIN expected.attributes
<1> USE DEF FromState, Actual, Resource, Strings
<1>1. CASE type = "aws_instance"
  BY <1>1 DEF instanceFromState, instanceActual
<1>2. CASE type = "aws_security_group"
  BY <1>2 DEF securityGroupFromState, securityGroupActual
<1>3. CASE type = "aws_s3_bucket"
  BY <1>3 DEF bucketFromState, bucketActual
<1>4. CASE type = "azurerm_resource_group"
  BY <1>4 DEF resourceGroupFromState, resourceGroupActual
<1>5. CASE type = "azurerm_storage_account"
  BY <1>5 DEF storageAccountFromState, storageAccountActual
<1>6. CASE type = "google_compute_instance"
  BY <1>6 DEF computeInstanceFromState, computeInstanceActual
<1>7. CASE type = "google_storage_bucket"
  BY <1>7 DEF storageBucketFromState, storageBucketActual
<1>8. QED
  BY <1>1, <1>2, <1>3, <1>4, <1>5, <1>6, <1>7 DEF Types, AwsTypes, AzureTypes, GcpTypes

-----------------------------------------------------------------------------
(* What a comparison makes of the two sides.                               *)

KindsAndFields(items) == {<<items[i].kind, items[i].field>> : i \in DOMAIN items}

(* A single item gives a single pair.                                      *)
LEMMA OneReported ==
  ASSUME NEW x
  PROVE  KindsAndFields(<<x>>) = {<<x.kind, x.field>>}
<1>1. DOMAIN <<x>> = {1} /\ <<x>>[1] = x
  OBVIOUS
<1>2. QED
  BY <1>1 DEF KindsAndFields

(* What a comparison reports, by kind and field.                           *)
LEMMA Reported ==
  ASSUME NEW e, NEW a, NamesKnown(e, a)
  PROVE  KindsAndFields(Compare(e, a, TRUE))
           = {<<"modified", k>> : k \in DriftedAttributes(e, a)}
               \cup {<<"tag", k>> : k \in LostTags(e, a) \cup AddedTags(e, a)}
<1> DEFINE items == Compare(e, a, TRUE)
           D == DriftedAttributes(e, a)
           L == LostTags(e, a) \cup AddedTags(e, a)
<1>1. Range(items) = ItemsOf(e, a)
  BY CompareFound DEF Enumerates
<1>2. KindsAndFields(items) = {<<x.kind, x.field>> : x \in Range(items)}
  BY DEF KindsAndFields, Range
<1>3. /\ \A k : AttributeItem(e, a, k).kind = "modified" /\ AttributeItem(e, a, k).field = k
      /\ \A k : TagItem(e, a, k).kind = "tag" /\ TagItem(e, a, k).field = k
  BY DEF AttributeItem, TagItem, item
<1>4. ItemsOf(e, a) = {AttributeItem(e, a, k) : k \in D} \cup {TagItem(e, a, k) : k \in L}
  BY DEF ItemsOf, AttributeItems, TagItems
<1> HIDE DEF items, D, L
<1>5. ASSUME NEW p \in KindsAndFields(items)
      PROVE  p \in {<<"modified", k>> : k \in D} \cup {<<"tag", k>> : k \in L}
  <2>1. PICK x \in ItemsOf(e, a) : p = <<x.kind, x.field>>
    BY <1>1, <1>2, <1>5
  <2>2. CASE x \in {AttributeItem(e, a, k) : k \in D}
    BY <1>3, <2>1, <2>2
  <2>3. CASE x \in {TagItem(e, a, k) : k \in L}
    BY <1>3, <2>1, <2>3
  <2>4. QED
    BY <1>4, <2>1, <2>2, <2>3
<1>6. ASSUME NEW k \in D PROVE <<"modified", k>> \in KindsAndFields(items)
  <2>1. AttributeItem(e, a, k) \in ItemsOf(e, a)
    BY <1>4
  <2>2. QED
    BY <1>1, <1>2, <1>3, <2>1
<1>7. ASSUME NEW k \in L PROVE <<"tag", k>> \in KindsAndFields(items)
  <2>1. TagItem(e, a, k) \in ItemsOf(e, a)
    BY <1>4
  <2>2. QED
    BY <1>1, <1>2, <1>3, <2>1
<1>8. KindsAndFields(items) = {<<"modified", k>> : k \in D} \cup {<<"tag", k>> : k \in L}
  BY <1>5, <1>6, <1>7
<1>9. QED
  BY <1>8 DEF items, D, L

\* The names under which two objects of a type differ.
FieldsMoved(o, c) ==
  {k \in DOMAIN FieldOf[o.type] :
     ~SameText(o.type, o[FieldOf[o.type][k]], c[FieldOf[o.type][k]])}
LabelsMoved(o, c) ==
  {k \in DOMAIN TagsOf(o) \cup DOMAIN TagsOf(c) :
     ~(k \in DOMAIN TagsOf(o) /\ k \in DOMAIN TagsOf(c) /\ TagsOf(o)[k] = TagsOf(c)[k])}

(* The two sides differ where the objects do.                              *)
LEMMA SidesMoved ==
  ASSUME NEW o \in Objects, NEW c \in Objects, SameAddress(c, o), NEW e, NEW a, Sides(o, c, e, a)
  PROVE  KindsAndFields(Compare(e, a, TRUE))
           = {<<"modified", k>> : k \in FieldsMoved(o, c)}
               \cup {<<"tag", k>> : k \in LabelsMoved(o, c)}
<1>1. DriftedAttributes(e, a) = FieldsMoved(o, c)
  BY DEF DriftedAttributes, AttributeDrifted, FieldsMoved, Sides
<1>2. LostTags(e, a) \cup AddedTags(e, a) = LabelsMoved(o, c)
  BY DEF LostTags, AddedTags, TagDrifted, LabelsMoved, Sides
<1>3. o.type \in DOMAIN FieldOf
  BY NamesApart DEF Types, AwsTypes, AzureTypes, GcpTypes, FieldOf
<1>4. NamesKnown(e, a)
  BY <1>3, CloudsAssumption DEF CloudsAssumption, NamesKnown, Sides
<1>5. QED
  BY <1>1, <1>2, <1>4, Reported

-----------------------------------------------------------------------------
(* The inductive invariant.                                                *)

\* What has been at the address since the lookup began had that address.
Addressed ==
  /\ applied \in Objects /\ inst.attributes \in Written(applied)
  /\ inst = [type |-> applied.type, attributes |-> inst.attributes]
  /\ cloud \in seen
  /\ \A c \in seen : c = Nil \/ (c \in Objects /\ SameAddress(c, applied))

\* The answer is about something that was there, or about nothing being there.
Answered(c) ==
  answer = IF Exists(c) THEN [found |-> TRUE, resource |-> Actual(Type, applied.path, c)]
           ELSE [found |-> FALSE, resource |-> Nil]

AnswerSeen ==
  (stage = "answered" /\ "NoSuchBucket" \notin told) => \E c \in seen : Answered(c)

(* So what is found about an answer is what has moved.                     *)
LEMMA AnsweredMoved ==
  ASSUME Addressed, NEW c \in seen, Answered(c)
  PROVE  Findings = Moved(c)
<1> DEFINE e == FromState(inst)
<1>1. /\ applied \in Objects /\ Type = applied.type
      /\ inst = [type |-> applied.type, attributes |-> inst.attributes]
      /\ inst.attributes \in Written(applied)
  BY DEF Addressed, Type
<1>2. Findings = KindsAndFields(Compare(e, answer.resource, answer.found))
  BY DEF Findings, KindsAndFields
<1>3. CASE ~Exists(c)
  <2>1. answer.found = FALSE
    BY <1>3 DEF Answered
  <2>2. Compare(e, answer.resource, FALSE) = <<DeletedItem(e)>>
    BY CompareMissing
  <2>3. DeletedItem(e).kind = "deleted" /\ DeletedItem(e).field = ""
    BY DEF DeletedItem, item, NoValue
  <2>4. KindsAndFields(<<DeletedItem(e)>>) = {<<"deleted", "">>}
    BY <2>3, OneReported
  <2>5. Findings = {<<"deleted", "">>}
    BY <1>2, <2>1, <2>2, <2>4
  <2>6. QED
    BY <1>3, <2>5 DEF Moved
<1>4. CASE Exists(c)
  <2>1. c \in Objects /\ SameAddress(c, applied)
    BY <1>4 DEF Addressed, Exists
  <2>2. answer.found = TRUE /\ answer.resource = Actual(applied.type, applied.path, c)
    BY <1>1, <1>4 DEF Answered
  <2>3. PICK t : ReadAs(inst.attributes, applied, t)
    BY <1>1, WrittenRead
  <2>4. Sides(applied, c, FromState([type |-> applied.type, attributes |-> inst.attributes]),
              Actual(applied.type, applied.path, c))
    BY <1>1, <2>1, <2>3, BothSides
  <2>5. Sides(applied, c, e, answer.resource)
    BY <1>1, <2>2, <2>4
  <2>6. KindsAndFields(Compare(e, answer.resource, TRUE))
          = {<<"modified", k>> : k \in FieldsMoved(applied, c)}
              \cup {<<"tag", k>> : k \in LabelsMoved(applied, c)}
    BY <1>1, <2>1, <2>5, SidesMoved
  <2>7. Moved(c) = {<<"modified", k>> : k \in FieldsMoved(applied, c)}
              \cup {<<"tag", k>> : k \in LabelsMoved(applied, c)}
    BY <1>1, <1>4 DEF Moved, FieldsMoved, LabelsMoved
  <2>8. QED
    BY <1>2, <2>2, <2>6, <2>7
<1>5. QED
  BY <1>3, <1>4

\* Only buckets get to the second call.
IInv ==
  /\ Type \in Types
  /\ stage = "tagging" => Type = "aws_s3_bucket"
  /\ FailsForCause
  /\ Addressed /\ AnswerSeen /\ TypeOK

-----------------------------------------------------------------------------
(* Ids and replies.                                                        *)

(* A text has at least one segment.                                        *)
LEMMA SomeSegment ==
  ASSUME NEW text
  PROVE  \E S : SegmentsOf(text) \in Seq(S) /\ Len(SegmentsOf(text)) > 0
<1>1. CASE text \in DOMAIN Segments
  <2>1. Segments[text] \in Seq(STRING) /\ Len(Segments[text]) > 1
    BY <1>1, MappersAssumption DEF MappersAssumption
  <2>2. Len(Segments[text]) > 0
    BY <2>1
  <2>3. SegmentsOf(text) = Segments[text]
    BY <1>1 DEF SegmentsOf
  <2>4. QED
    BY <2>1, <2>2, <2>3
<1>2. CASE text \notin DOMAIN Segments
  <2>1. <<text>> \in Seq({text}) /\ Len(<<text>>) = 1
    OBVIOUS
  <2>2. SegmentsOf(text) = <<text>>
    BY <1>2 DEF SegmentsOf
  <2>3. SegmentsOf(text) \in Seq({text}) /\ Len(SegmentsOf(text)) = 1
    BY <2>1, <2>2
  <2>4. QED
    BY <2>3
<1>3. QED
  BY <1>1, <1>2

(* Two sequences that are not empty make one of length two or more.         *)
LEMMA LongerJoined ==
  ASSUME NEW S, NEW T, NEW s \in Seq(S), NEW t \in Seq(T), Len(s) > 0, Len(t) > 0
  PROVE  Len(s \o t) > 1
<1>1. s \in Seq(S \cup T) /\ t \in Seq(S \cup T)
  OBVIOUS
<1>2. Len(s \o t) = Len(s) + Len(t)
  BY <1>1
<1>3. QED
  BY <1>2

(* FetchActual never gets an id without the parts it wants: FromState has  *)
(* made it of two.                                                         *)
LEMMA IdsAreRight ==
  ASSUME Type \in Types
  PROVE  RightId(Type, Id)
<1>1. ASSUME NEW x, NEW y PROVE Len(SegmentsOf(x) \o SegmentsOf(y)) > 1
  BY SomeSegment, LongerJoined
<1>2. CASE Type = "azurerm_storage_account"
  <2>1. FromState(inst) = storageAccountFromState(inst.attributes)
    BY <1>2 DEF FromState, Type
  <2>2. QED
    BY <1>1, <2>1 DEF RightId, Id, storageAccountFromState, Resource
<1>3. CASE Type = "google_compute_instance"
  <2>1. FromState(inst) = computeInstanceFromState(inst.attributes)
    BY <1>3 DEF FromState, Type
  <2>2. QED
    BY <1>1, <2>1 DEF RightId, Id, computeInstanceFromState, Resource
<1>4. QED
  BY <1>2, <1>3 DEF RightId

(* What the calls return.                                                  *)
LEMMA ErrorsOfReplies ==
  /\ \A o : Success(o).error = "" /\ Success(o).object = o
  /\ \A code : Failure(code).error = code /\ Failure(code).object = Nil
BY DEF Success, Failure

(* Each cloud's way of saying that a resource is not there is understood.  *)
LEMMA AbsenceUnderstood ==
  ASSUME Type \in Types, NEW reply \in AbsentReplies(Type), reply.error # ""
  PROVE  isNotFound(Type, reply.error)
<1> USE DEF AbsentReplies
<1>1. CASE Type \in AwsTypes
  <2>1. reply.error \in {"InvalidInstanceID.NotFound", "InvalidGroup.NotFound", "NotFound"}
    BY ErrorsOfReplies, <1>1 DEF AwsTypes
  <2>2. QED
    BY <1>1, <2>1 DEF isNotFound, awsNotFound
<1>2. CASE Type \in AzureTypes
  <2>1. reply.error = "404"
    BY ErrorsOfReplies, <1>2 DEF AzureTypes
  <2>2. QED
    BY <1>2, <2>1 DEF isNotFound, azureNotFound
<1>3. CASE Type \in GcpTypes
  <2>1. reply.error \in {"404", "ErrBucketNotExist"}
    BY ErrorsOfReplies, <1>3 DEF GcpTypes
  <2>2. QED
    BY <1>3, <2>1 DEF isNotFound, gcpNotFound
<1>4. QED
  BY <1>1, <1>2, <1>3 DEF Types

(* So a reply that makes the first call fail is a refusal.                 *)
LEMMA FirstCallRefused ==
  ASSUME Type \in Types, NEW reply \in Replies(Id) \cup Refusals,
         reply.error # "", ~isNotFound(Type, reply.error)
  PROVE  reply \in Refusals
<1>1. reply \notin AbsentReplies(Type)
  BY AbsenceUnderstood
<1>2. QED
  BY <1>1, ErrorsOfReplies DEF Replies

(* The id a resource is looked up under is its address.                    *)
LEMMA IdIsPath ==
  ASSUME Addressed
  PROVE  Id = applied.path
<1>1. /\ applied \in Objects /\ inst.attributes \in Written(applied)
      /\ inst = [type |-> applied.type, attributes |-> inst.attributes]
  BY DEF Addressed
<1>2. PICK t : ReadAs(inst.attributes, applied, t)
  BY <1>1, WrittenRead
<1>3. SameAddress(applied, applied)
  BY DEF SameAddress
<1>4. Sides(applied, applied, FromState([type |-> applied.type, attributes |-> inst.attributes]),
            Actual(applied.type, applied.path, applied))
  BY <1>1, <1>2, <1>3, BothSides
<1>5. FromState(inst).key = <<applied.type, applied.path>>
  BY <1>1, <1>4 DEF Sides
<1>6. QED
  BY <1>5 DEF Id

(* A call is told that there is nothing only when nothing is there.        *)
LEMMA AbsentForCause ==
  ASSUME Addressed, Type \in Types, NEW reply \in Replies(Id) \cup Refusals,
         \/ reply.error # "" /\ isNotFound(Type, reply.error)
         \/ reply.error = "" /\ reply.object = Nil
  PROVE  cloud = Nil
<1>1. SUFFICES ASSUME cloud # Nil PROVE FALSE
  OBVIOUS
<1>2. Replies(Id) = {Success(cloud)}
  BY <1>1, IdIsPath DEF Replies
<1>3. Success(cloud).error = "" /\ Success(cloud).object = cloud
  BY DEF Success
<1>4. ASSUME NEW r \in Refusals PROVE r.error # "" /\ ~isNotFound(Type, r.error)
  <2>1. r.error \in {"AccessDenied", "429"}
    BY <1>4, ErrorsOfReplies DEF Refusals
  <2>2. QED
    BY <2>1 DEF isNotFound, awsNotFound, azureNotFound, gcpNotFound
<1>5. QED
  BY <1>1, <1>2, <1>3, <1>4

(* A reply without an error is what is there.                              *)
LEMMA ObjectThere ==
  ASSUME Addressed, NEW reply \in Replies(Id) \cup Refusals, reply.error = ""
  PROVE  reply.object = cloud
<1>1. reply \notin Refusals
  <2>1. \A r \in Refusals : r.error \in {"AccessDenied", "429"}
    BY ErrorsOfReplies DEF Refusals
  <2>2. QED
    BY <2>1
<1>2. CASE cloud # Nil
  BY <1>1, <1>2, IdIsPath, ErrorsOfReplies DEF Replies
<1>3. CASE cloud = Nil
  <2>1. \A r \in AbsentReplies(Type) : r.object = Nil
    BY ErrorsOfReplies DEF AbsentReplies
  <2>2. QED
    BY <1>1, <1>3, <2>1 DEF Replies
<1>4. QED
  BY <1>2, <1>3

(* A bucket without a tag set is reported as one whose tag set is nil.     *)
LEMMA NoTagSet ==
  ASSUME NEW id, NEW c, c.TagSet = Nil
  PROVE  Actual("aws_s3_bucket", id, [TagSet |-> Nil]) = Actual("aws_s3_bucket", id, c)
BY DEF Actual, bucketActual

-----------------------------------------------------------------------------
(* The steps of a lookup.                                                  *)

(* A step keeps the parts of the invariant about causes and stages.        *)
LEMMA CauseKept ==
  ASSUME IInv, [Next]_vars
  PROVE  (Type \in Types /\ (stage = "tagging" => Type = "aws_s3_bucket") /\ FailsForCause)'
<1> DEFINE Causes == {r.error : r \in Refusals}
<1> USE DEF IInv, FailsForCause
<1>1. CASE GetOnce
  <2>1. PICK reply \in Replies(Id) \cup Refusals :
          /\ Hear(reply)
          /\ stage' \in {"answered", "failed"}
          /\ stage' = "failed" => reply.error # "" /\ ~isNotFound(Type, reply.error)
    BY <1>1, IdsAreRight DEF GetOnce, NotFound, Answer, Fail
  <2>2. stage' = "failed" => reply.error \in Causes
    BY <2>1, FirstCallRefused
  <2>3. QED
    BY <2>1, <2>2 DEF Hear, Type
<1>2. CASE HeadBucket
  <2>1. PICK reply \in Replies(Id) \cup Refusals :
          /\ Hear(reply)
          /\ stage' \in {"answered", "failed", "tagging"}
          /\ stage' = "failed" => reply.error # "" /\ ~isNotFound(Type, reply.error)
    BY <1>2 DEF HeadBucket, NotFound, Answer, Fail
  <2>2. stage' = "failed" => reply.error \in Causes
    BY <2>1, FirstCallRefused
  <2>3. Type = "aws_s3_bucket"
    BY <1>2 DEF HeadBucket
  <2>4. QED
    BY <2>1, <2>2, <2>3 DEF Hear, Type
<1>3. CASE GetBucketTagging
  <2>1. Type = "aws_s3_bucket"
    BY <1>3 DEF GetBucketTagging
  <2>2. isNotFound(Type, "NoSuchBucket")
    BY <2>1 DEF isNotFound, AwsTypes, awsNotFound
  <2>3. PICK reply \in TagReplies \cup Refusals :
          /\ Hear(reply)
          /\ stage' \in {"answered", "failed"}
          /\ stage' = "failed" => /\ reply.error # "" /\ ~isNotFound(Type, reply.error)
                                  /\ ~NoTags(reply.error)
    BY <1>3 DEF GetBucketTagging, Answer, Fail
  <2>4. stage' = "failed" => reply \in Refusals
    <3>1. \A r \in TagReplies : r.error \in {"", "NoSuchBucket", "NoSuchTagSet"}
      BY ErrorsOfReplies DEF TagReplies
    <3>2. QED
      BY <2>2, <2>3, <3>1 DEF NoTags
  <2>5. QED
    BY <2>3, <2>4 DEF Hear, Type
<1>4. CASE Edit
  BY <1>4 DEF Edit, Type
<1>5. CASE UNCHANGED vars
  BY <1>5 DEF vars, Type
<1>6. QED
  BY <1>1, <1>2, <1>3, <1>4, <1>5 DEF Next, Done

(* What has been at the address had that address.                          *)
LEMMA AddressedKept == ASSUME IInv, [Next]_vars PROVE Addressed'
<1> USE DEF IInv
<1>1. ASSUME UNCHANGED <<applied, inst, cloud, seen>> PROVE Addressed'
  BY <1>1 DEF Addressed
<1>2. CASE GetOnce
  <2>1. UNCHANGED <<applied, inst, cloud, seen>>
    BY <1>2 DEF GetOnce, Hear
  <2>2. QED
    BY <1>1, <2>1
<1>3. CASE HeadBucket
  BY <1>1, <1>3 DEF HeadBucket, Hear
<1>4. CASE GetBucketTagging
  BY <1>1, <1>4 DEF GetBucketTagging, Hear
<1>5. CASE Edit
  <2>1. /\ cloud' = Nil \/ (cloud' \in Objects /\ SameAddress(cloud', applied))
        /\ UNCHANGED <<applied, inst>> /\ seen' = seen \cup {cloud'}
    BY <1>5 DEF Edit
  <2>2. QED
    BY <2>1 DEF Addressed
<1>6. CASE UNCHANGED vars
  BY <1>1, <1>6 DEF vars
<1>7. QED
  BY <1>2, <1>3, <1>4, <1>5, <1>6 DEF Next, Done

\* An answer of the step, about the object c.
Answers(c) ==
  answer' = IF Exists(c) THEN [found |-> TRUE, resource |-> Actual(Type, applied.path, c)]
            ELSE [found |-> FALSE, resource |-> Nil]

(* A bucket exists as soon as there is one.                                *)
LEMMA BucketExists ==
  ASSUME Addressed, Type = "aws_s3_bucket", cloud # Nil
  PROVE  Exists(cloud)
BY DEF Addressed, SameAddress, Exists, Type

(* An answer is about what is there when it is given.                      *)
LEMMA AnswerSeenKept == ASSUME IInv, [Next]_vars PROVE AnswerSeen'
<1> USE DEF IInv
<1>1. Id = applied.path
  BY IdIsPath
<1>2. ~Exists(Nil)
  BY DEF Exists
<1>3. ASSUME UNCHANGED <<applied, inst, cloud, seen>>, Answers(cloud) PROVE AnswerSeen'
  <2>1. Answered(cloud)'
    BY <1>3 DEF Answers, Answered, Type, Exists
  <2>2. cloud \in seen'
    BY <1>3 DEF Addressed
  <2>3. QED
    BY <1>3, <2>1, <2>2 DEF AnswerSeen
<1>4. ASSUME stage' # "answered" PROVE AnswerSeen'
  BY <1>4 DEF AnswerSeen
<1>5. CASE GetOnce
  <2>1. UNCHANGED <<applied, inst, cloud, seen>>
    BY <1>5 DEF GetOnce, Hear
  <2>2. PICK reply \in Replies(Id) \cup Refusals :
          IF reply.error # ""
          THEN IF isNotFound(Type, reply.error) THEN NotFound ELSE Fail
          ELSE IF ~Exists(reply.object) THEN NotFound
          ELSE Answer(TRUE, Actual(Type, Id, reply.object))
    BY <1>5, IdsAreRight DEF GetOnce
  <2>3. CASE reply.error # "" /\ isNotFound(Type, reply.error)
    <3>1. cloud = Nil
      BY <2>3, AbsentForCause
    <3>2. Answers(cloud)
      BY <1>2, <2>2, <2>3, <3>1 DEF Answers, NotFound, Answer
    <3>3. QED
      BY <1>3, <2>1, <3>2
  <2>4. CASE reply.error # "" /\ ~isNotFound(Type, reply.error)
    BY <1>4, <2>2, <2>4 DEF Fail
  <2>5. CASE reply.error = ""
    <3>1. reply.object = cloud
      BY <2>5, ObjectThere
    <3>2. Answers(cloud)
      BY <1>1, <2>2, <2>5, <3>1 DEF Answers, NotFound, Answer
    <3>3. QED
      BY <1>3, <2>1, <3>2
  <2>6. QED
    BY <2>3, <2>4, <2>5
<1>6. CASE HeadBucket
  <2>1. UNCHANGED <<applied, inst, cloud, seen>>
    BY <1>6 DEF HeadBucket, Hear
  <2>2. PICK reply \in Replies(Id) \cup Refusals :
          IF reply.error = "" THEN stage' = "tagging"
          ELSE IF isNotFound(Type, reply.error) THEN NotFound ELSE Fail
    BY <1>6 DEF HeadBucket
  <2>3. CASE reply.error # "" /\ isNotFound(Type, reply.error)
    <3>1. cloud = Nil
      BY <2>3, AbsentForCause
    <3>2. Answers(cloud)
      BY <1>2, <2>2, <2>3, <3>1 DEF Answers, NotFound, Answer
    <3>3. QED
      BY <1>3, <2>1, <3>2
  <2>4. CASE ~(reply.error # "" /\ isNotFound(Type, reply.error))
    BY <1>4, <2>2, <2>4 DEF Fail
  <2>5. QED
    BY <2>3, <2>4
<1>7. CASE GetBucketTagging
  <2>1. UNCHANGED <<applied, inst, cloud, seen>>
    BY <1>7 DEF GetBucketTagging, Hear
  <2>2. PICK reply \in TagReplies \cup Refusals :
          /\ told' = told \cup {reply.error}
          /\ IF reply.error = "" THEN Answer(TRUE, Actual(Type, Id, reply.object))
             ELSE IF isNotFound(Type, reply.error) \/ NoTags(reply.error)
             THEN Answer(TRUE, Actual(Type, Id, [TagSet |-> Nil]))
             ELSE Fail
    BY <1>7 DEF GetBucketTagging, Hear
  <2>3. Type = "aws_s3_bucket"
    BY <1>7 DEF GetBucketTagging
  <2>4. CASE reply = Success(cloud) /\ cloud # Nil
    <3>1. Answers(cloud)
      BY <1>1, <2>2, <2>3, <2>4, BucketExists, ErrorsOfReplies DEF Answers, Answer
    <3>2. QED
      BY <1>3, <2>1, <3>1
  <2>5. CASE reply = Failure("NoSuchTagSet") /\ cloud # Nil /\ cloud.TagSet = Nil
    <3>1. reply.error # "" /\ NoTags(reply.error)
      BY <2>5, ErrorsOfReplies DEF NoTags
    <3>2. answer' = [found |-> TRUE, resource |-> Actual(Type, Id, [TagSet |-> Nil])]
      BY <2>2, <3>1 DEF Answer
    <3>3. Actual(Type, Id, [TagSet |-> Nil]) = Actual(Type, Id, cloud)
      BY <2>3, <2>5, NoTagSet
    <3>4. Answers(cloud)
      BY <1>1, <2>3, <2>5, <3>2, <3>3, BucketExists DEF Answers
    <3>5. QED
      BY <1>3, <2>1, <3>4
  <2>6. CASE reply.error = "NoSuchBucket"
    BY <2>2, <2>6 DEF AnswerSeen
  <2>7. CASE reply \in Refusals
    <3>1. reply.error \in {"AccessDenied", "429"}
      BY <2>7, ErrorsOfReplies DEF Refusals
    <3>2. ~isNotFound(Type, reply.error) /\ ~NoTags(reply.error) /\ reply.error # ""
      BY <3>1 DEF isNotFound, awsNotFound, azureNotFound, gcpNotFound, NoTags
    <3>3. QED
      BY <1>4, <2>2, <3>2 DEF Fail
  <2>8. QED
    BY <2>4, <2>5, <2>6, <2>7, ErrorsOfReplies DEF TagReplies
<1>8. CASE Edit
  BY <1>4, <1>8 DEF Edit
<1>9. CASE UNCHANGED vars
  BY <1>9 DEF vars, AnswerSeen, Answered, Type
<1>10. QED
  BY <1>5, <1>6, <1>7, <1>8, <1>9 DEF Next, Done

(* Whatever is answered of an object has the key of the instance.          *)
LEMMA KeyOfInstance ==
  ASSUME Addressed, Type \in Types, NEW o
  PROVE  Actual(Type, Id, o).key = FromState(inst).key
<1>1. inst = [type |-> Type, attributes |-> inst.attributes]
  BY DEF Addressed, Type
<1>2. \A attrs : inst = [type |-> Type, attributes |-> attrs] =>
        Actual(Type, FromState(inst).key[2], o).key = FromState(inst).key
  BY SameAttributes
<1>3. QED
  BY <1>1, <1>2 DEF Id

(* The types are kept; what is found has the key that was asked for.       *)
LEMMA TypeKept == ASSUME IInv, [Next]_vars PROVE TypeOK'
<1> USE DEF IInv
<1>1. ASSUME NotFound \/ Fail \/ (\E o : Answer(TRUE, Actual(Type, Id, o)))
                \/ (stage' = "tagging" /\ UNCHANGED answer),
             UNCHANGED <<applied, inst, cloud, seen, edits>>, stage \in {"calling", "tagging"}
      PROVE  TypeOK'
  <2>1. UNCHANGED <<applied, inst, cloud, seen, edits>> /\ answer = Nil
    BY <1>1 DEF TypeOK
  <2>2. /\ applied' \in Objects /\ Type' = applied'.type
        /\ cloud' \in Objects \cup {Nil} /\ seen' \subseteq Objects \cup {Nil}
        /\ edits' \in 0..MaxEdits
    BY <2>1 DEF TypeOK, Type
  <2>3. CASE NotFound
    BY <2>2, <2>3 DEF TypeOK, NotFound, Answer
  <2>4. CASE Fail \/ (stage' = "tagging" /\ UNCHANGED answer)
    BY <2>1, <2>2, <2>4 DEF TypeOK, Fail
  <2>5. ASSUME NEW o, Answer(TRUE, Actual(Type, Id, o)) PROVE TypeOK'
    <3>1. /\ answer' = [found |-> TRUE, resource |-> Actual(Type, Id, o)]
          /\ stage' = "answered"
      BY <2>5 DEF Answer
    <3>2. Actual(Type, Id, o).key = FromState(inst').key
      BY <2>1, KeyOfInstance
    <3>3. answer'.found = TRUE /\ answer'.resource.key = FromState(inst').key
      BY <3>1, <3>2
    <3>4. QED
      BY <2>2, <3>1, <3>3 DEF TypeOK
  <2>6. QED
    BY <1>1, <2>3, <2>4, <2>5
<1>2. CASE GetOnce
  BY <1>1, <1>2 DEF GetOnce, Hear
<1>3. CASE HeadBucket
  BY <1>1, <1>3 DEF HeadBucket, Hear
<1>4. CASE GetBucketTagging
  BY <1>1, <1>4 DEF GetBucketTagging, Hear
<1>5. CASE Edit
  <2>1. /\ UNCHANGED <<applied, inst, stage, answer>>
        /\ cloud' \in Objects \cup {Nil} /\ seen' = seen \cup {cloud'}
        /\ edits < MaxEdits /\ edits' = edits + 1 /\ edits \in 0..MaxEdits
    BY <1>5 DEF Edit, TypeOK
  <2>2. edits' \in 0..MaxEdits
    BY <2>1, LookupAssumption DEF LookupAssumption
  <2>3. QED
    BY <2>1, <2>2 DEF TypeOK, Type
<1>6. CASE UNCHANGED vars
  BY <1>6 DEF vars, TypeOK, Type
<1>7. QED
  BY <1>2, <1>3, <1>4, <1>5, <1>6 DEF Next, Done

(* A lookup begins with what Terraform wrote.                              *)
LEMMA InitInv == Init => IInv
<1> SUFFICES ASSUME Init PROVE IInv
  OBVIOUS
<1>1. PICK attrs \in Written(applied) : inst = [type |-> applied.type, attributes |-> attrs]
  BY DEF Init
<1>2. /\ inst.attributes = attrs /\ Type = applied.type
      /\ inst = [type |-> applied.type, attributes |-> inst.attributes]
  BY <1>1 DEF Type
<1>3. applied \in Objects /\ Type \in Types
  BY <1>2, LookupAssumption DEF Init, LookupAssumption, Types
<1>4. /\ cloud = Nil \/ (cloud \in Objects /\ SameAddress(cloud, applied))
      /\ seen = {cloud} /\ stage = "calling" /\ answer = Nil /\ edits = 0
  BY DEF Init
<1>5. Addressed
  BY <1>1, <1>2, <1>3, <1>4 DEF Addressed
<1>6. TypeOK
  BY <1>2, <1>3, <1>4, LookupAssumption DEF TypeOK, LookupAssumption
<1>7. QED
  BY <1>3, <1>4, <1>5, <1>6 DEF IInv, FailsForCause, AnswerSeen

(* The invariant is inductive.                                             *)
LEMMA Kept == ASSUME IInv, [Next]_vars PROVE IInv'
BY CauseKept, AddressedKept, AnswerSeenKept, TypeKept DEF IInv

-----------------------------------------------------------------------------
(* The theorems.                                                           *)

(* The types of all variables: an answer is about the instance asked for.  *)
THEOREM TypeCorrect == Spec => []TypeOK
<1>1. IInv => TypeOK
  BY DEF IInv
<1>2. QED
  BY <1>1, InitInv, Kept, PTL DEF Spec

(* A lookup fails only for a call that was refused.                        *)
THEOREM LookupFailsForCause == Spec => []FailsForCause
<1>1. IInv => FailsForCause
  BY DEF IInv
<1>2. QED
  BY <1>1, InitInv, Kept, PTL DEF Spec

(* The drift found is what has happened to the resource up to some moment  *)
(* of the lookup, for every mapper and every spelling of its attributes.   *)
THEOREM DriftIsReal == Spec => []DriftIsWhatMoved
<1>1. IInv => DriftIsWhatMoved
  BY AnsweredMoved DEF IInv, AnswerSeen, DriftIsWhatMoved
<1>2. QED
  BY <1>1, InitInv, Kept, PTL DEF Spec
=============================================================================
