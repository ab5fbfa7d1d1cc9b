------------------------------- MODULE Lookup -------------------------------
(***************************************************************************)
(* One job of a scan against a cloud: a mapper's FetchActual, with the API *)
(* calls it makes and the replies they may get, while the resource is      *)
(* changed, deleted and made anew.  Most mappers make one call; the one    *)
(* for S3 buckets asks whether the bucket is there, then for its tags.     *)
(*                                                                         *)
(* The resource is followed from the moment Terraform wrote it to its      *)
(* state, so that what the diff engine finds can be held against what has  *)
(* happened to it.  The clouds and Terraform are external: they are        *)
(* modelled from what the mappers ask of them.                             *)
(***************************************************************************)
EXTENDS Mappers

CONSTANTS
  Objects,    \* the resources: [type, path, ...], path their address
  Texts,      \* the texts of their fields
  MaxEdits    \* bound on the changes made while the lookup runs

ASSUME LookupAssumption ==
  /\ \A o \in Objects : o.type \in AwsTypes \cup AzureTypes \cup GcpTypes
  /\ Nil \notin Texts /\ MaxEdits \in Nat

VARIABLES
  applied,  \* the object as Terraform left it
  inst,     \* its instance in the state
  cloud,    \* what is at its address now, Nil if nothing
  seen,     \* everything that has been there since the lookup began
  stage,    \* "calling", "tagging", "answered" or "failed"
  answer,   \* what FetchActual returned: [found, resource]
  told,     \* the error codes the calls got
  edits     \* the number of changes so far

vars == <<applied, inst, cloud, seen, stage, answer, told, edits>>
Type == inst.type

-----------------------------------------------------------------------------
(* Terraform and the clouds.                                               *)

\* The attributes that locate a resource, and those of the API's fields that
\* they say something about.
Located ==
  [aws_instance |-> <<"id">>, aws_security_group |-> <<"id">>, aws_s3_bucket |-> <<"id">>,
   azurerm_resource_group |-> <<"name">>,
   azurerm_storage_account |-> <<"resource_group_name", "name">>,
   google_compute_instance |-> <<"zone", "name">>, google_storage_bucket |-> <<"name">>]
FieldOf ==
  [aws_instance |-> [instance_type |-> "InstanceType", ami |-> "ImageId"],
   aws_security_group |-> [name |-> "GroupName", description |-> "Description"],
   aws_s3_bucket |-> [bucket |-> "Name"],
   azurerm_resource_group |-> [location |-> "Location"],
   azurerm_storage_account |-> [location |-> "Location", account_kind |-> "Kind"],
   google_compute_instance |-> [machine_type |-> "MachineType"],
   google_storage_bucket |-> [location |-> "Location"]]
TagsOf(o) ==
  tagsOf(IF o.type \in GcpTypes THEN o.Labels
         ELSE IF o.type = "aws_s3_bucket" THEN o.TagSet ELSE o.Tags)

\* Two texts that mean the same: a machine type is named by a self-link or by
\* its last segment, a bucket's location in any case.
SameText(type, x, y) ==
  CASE type = "google_compute_instance" -> Last(SegmentsOf(x)) = Last(SegmentsOf(y))
    [] type = "google_storage_bucket" -> ToUpper(x) = ToUpper(y)
    [] OTHER -> deref(x) = deref(y)

\* What the clouds ensure: no part of an address has a "/" in it, a bucket is
\* found by its name, the type of an EC2 instance is never left out.
ASSUME CloudsAssumption ==
  /\ \A o \in Objects :
       /\ o.path \in [DOMAIN Located[o.type] -> STRING \ (DOMAIN Segments \cup {Nil})]
       /\ o.type = "aws_s3_bucket" => o.Name = o.path[1]
       /\ o.type = "aws_instance" => o.InstanceType # Nil
       /\ DOMAIN TagsOf(o) \subseteq Fields
  /\ \A type \in DOMAIN FieldOf : DOMAIN FieldOf[type] \subseteq Fields

\* The attributes an apply may leave in the state: where the resource is, one
\* spelling of each field, and the tags, which may be left out when empty.
PathText(o, n) == o.path[CHOOSE i \in DOMAIN o.path : Located[o.type][i] = n]
Spellings(o) ==
  {t \in [DOMAIN FieldOf[o.type] -> Texts] :
     \A n \in DOMAIN t : SameText(o.type, t[n], o[FieldOf[o.type][n]])}
TagSpellings(o) ==
  IF TagsOf(o) = <<>> THEN {Null, Object(<<>>, "map[]")}
  ELSE {Object([k \in DOMAIN TagsOf(o) |-> Str(TagsOf(o)[k])], "map[...]")}
Label(o) == IF o.type \in GcpTypes THEN "labels" ELSE "tags"

Written(o) ==
  {[n \in Range(Located[o.type]) \cup DOMAIN t \cup {Label(o)} |->
      IF n = Label(o) THEN g ELSE IF n \in DOMAIN t THEN Str(t[n])
      ELSE Str(PathText(o, n))] : t \in Spellings(o), g \in TagSpellings(o)}

\* A terminated EC2 instance is still listed for some time.
Exists(c) == c # Nil /\ (c.type = "aws_instance" => c.State # "terminated")

SameAddress(o, p) == o.type = p.type /\ o.path = p.path

\* EC2 never gives an id a second time; the others go by name.
IdsUsedOnce == Type \in {"aws_instance", "aws_security_group"}

Success(o) == [error |-> "", object |-> o]
Failure(code) == [error |-> code, object |-> Nil]

\* Denied, throttled, interrupted; some codes are of one API only.
Refusals == {Failure("AccessDenied"), Failure("429")}

\* What each API says of what is not there; EC2 may also list nothing.
AbsentReplies(type) ==
  IF type = "aws_instance" THEN {Failure("InvalidInstanceID.NotFound"), Success(Nil)}
  ELSE IF type = "aws_security_group" THEN {Failure("InvalidGroup.NotFound"), Success(Nil)}
  ELSE IF type = "aws_s3_bucket" THEN {Failure("NotFound")}
  ELSE IF type = "google_storage_bucket" THEN {Failure("404"), Failure("ErrBucketNotExist")}
  ELSE {Failure("404")}

\* The resource is found under its own address only.
Replies(id) ==
  IF id = applied.path /\ cloud # Nil THEN {Success(cloud)} ELSE AbsentReplies(Type)

TagReplies ==
  IF cloud = Nil THEN {Failure("NoSuchBucket")}
  ELSE IF cloud.TagSet = Nil THEN {Failure("NoSuchTagSet")} ELSE {Success(cloud)}

-----------------------------------------------------------------------------
(* The lookup.                                                             *)

Init ==
  /\ applied \in {o \in Objects : Exists(o)}
  /\ \E attrs \in Written(applied) : inst = [type |-> applied.type, attributes |-> attrs]
  /\ cloud \in {o \in Objects : SameAddress(o, applied)} \cup {Nil}
  /\ seen = {cloud} /\ stage = "calling" /\ answer = Nil /\ told = {} /\ edits = 0

Id == FromState(inst).key[2]

Answer(found, resource) ==
  stage' = "answered" /\ answer' = [found |-> found, resource |-> resource]
NotFound == Answer(FALSE, Nil)
Fail == stage' = "failed" /\ UNCHANGED answer

Hear(reply) ==
  /\ told' = told \cup {reply.error}
  /\ UNCHANGED <<applied, inst, cloud, seen, edits>>

\* DescribeInstances, DescribeSecurityGroups, the Get calls of Azure and GCP.
\* No call is made for an id that does not have the parts it wants.
GetOnce ==
  /\ stage = "calling" /\ Type # "aws_s3_bucket"
  /\ IF ~RightId(Type, Id)
     THEN Fail /\ UNCHANGED <<applied, inst, cloud, seen, told, edits>>
     ELSE \E reply \in Replies(Id) \cup Refusals :
            /\ Hear(reply)
            /\ IF reply.error # ""
               THEN IF isNotFound(Type, reply.error) THEN NotFound ELSE Fail
               ELSE IF ~Exists(reply.object) THEN NotFound
               ELSE Answer(TRUE, Actual(Type, Id, reply.object))

HeadBucket ==
  /\ stage = "calling" /\ Type = "aws_s3_bucket"
  /\ \E reply \in Replies(Id) \cup Refusals :
       /\ Hear(reply)
       /\ IF reply.error = "" THEN stage' = "tagging" /\ UNCHANGED answer
          ELSE IF isNotFound(Type, reply.error) THEN NotFound ELSE Fail

\* isNoSuchTagSet.  Mutated form: any error is taken for a bucket without tags.
NoTagsAnyhow(code) == TRUE

NoTags(code) == code = "NoSuchTagSet"

\* Whatever the second call says of the bucket, it is reported as found.
GetBucketTagging ==
  /\ stage = "tagging"
  /\ \E reply \in TagReplies \cup Refusals :
       /\ Hear(reply)
       /\ IF reply.error = "" THEN Answer(TRUE, Actual(Type, Id, reply.object))
          ELSE IF isNotFound(Type, reply.error) \/ NoTags(reply.error)
          THEN Answer(TRUE, Actual(Type, Id, [TagSet |-> Nil]))
          ELSE Fail

\* Somebody changes the resource, deletes it, or makes one of the same name.
Edit ==
  /\ stage \in {"calling", "tagging"} /\ edits < MaxEdits
  /\ cloud' \in {o \in Objects : SameAddress(o, applied)} \cup {Nil}
  /\ cloud' # cloud /\ (~Exists(cloud) => ~IdsUsedOnce \/ ~Exists(cloud'))
  /\ seen' = seen \cup {cloud'} /\ edits' = edits + 1
  /\ UNCHANGED <<applied, inst, stage, answer, told>>

Done == stage \in {"answered", "failed"} /\ UNCHANGED vars

Next == GetOnce \/ HeadBucket \/ GetBucketTagging \/ Edit \/ Done

Spec == Init /\ [][Next]_vars

-----------------------------------------------------------------------------
(* Properties.                                                             *)

\* What the diff engine makes of the answer.
Findings ==
  LET items == Compare(FromState(inst), answer.resource, answer.found)
  IN  {<<items[i].kind, items[i].field>> : i \in DOMAIN items}

\* What is different between the resource as applied and c, in the cloud's terms.
Moved(c) ==
  IF ~Exists(c) THEN {<<"deleted", "">>}
  ELSE {<<"modified", n>> : n \in {m \in DOMAIN FieldOf[Type] :
            ~SameText(Type, applied[FieldOf[Type][m]], c[FieldOf[Type][m]])}}
       \cup {<<"tag", k>> : k \in {l \in DOMAIN TagsOf(applied) \cup DOMAIN TagsOf(c) :
            ~(l \in DOMAIN TagsOf(applied) /\ l \in DOMAIN TagsOf(c)
                /\ TagsOf(applied)[l] = TagsOf(c)[l])}}

(* The types of all variables.                                             *)
TypeOK ==
  /\ applied \in Objects /\ Type = applied.type
  /\ cloud \in Objects \cup {Nil} /\ seen \subseteq Objects \cup {Nil}
  /\ stage \in {"calling", "tagging", "answered", "failed"}
  /\ stage # "answered" => answer = Nil
  /\ stage = "answered" =>
       /\ answer.found \in BOOLEAN
       /\ answer.found => answer.resource.key = FromState(inst).key
  /\ edits \in 0..MaxEdits

(* Through every mapper and however the state spells its values, the drift *)
(* found is what has really happened to the resource up to one moment of   *)
(* the lookup: none for a resource nobody has touched, no more and no less *)
(* than what was changed, a deletion only if it was gone.  The exception   *)
(* is a bucket whose second call was told that it is gone.                 *)
DriftIsWhatMoved ==
  (stage = "answered" /\ "NoSuchBucket" \notin told) =>
    \E c \in seen : Findings = Moved(c)

(* A lookup, and with it the scan, fails only because a call was refused:  *)
(* never because the resource is gone, for none of the ways the clouds     *)
(* have of saying so, and never for an id that FromState has made itself.  *)
FailsForCause ==
  (stage = "failed") => (told \cap {r.error : r \in Refusals} # {})

(* What the interface says: "found is false when the resource no longer    *)
(* exists".  No call was told that it does not, and the resource reported  *)
(* as found.                                                               *)
FoundMeansExists ==
  (stage = "answered" /\ answer.found) => \A code \in told : ~isNotFound(Type, code)
=============================================================================
