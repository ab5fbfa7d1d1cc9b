------------------------------ MODULE Mappers -------------------------------
(***************************************************************************)
(* The seven resource mappers of internal/provider/aws, azure and gcp: how *)
(* each normalises an instance of the state, and what it makes of the      *)
(* object a cloud API returns.  The calls themselves are in module Lookup. *)
(*                                                                         *)
(* An object has the fields of its API type that a mapper reads; a nil     *)
(* pointer is Nil.  A text is known whole, except for what the mappers     *)
(* look into: its segments between "/", and its upper-case form.  An id is *)
(* the sequence of its segments.                                           *)
(***************************************************************************)
EXTENDS Diff, TfState

CONSTANTS
  Nil,      \* a nil pointer
  Segments, \* the segments of the texts that have a "/"
  Upper     \* the upper-case form of the texts that have lower-case letters

ASSUME MappersAssumption ==
  /\ \A text \in DOMAIN Segments :
       Segments[text] \in Seq(STRING) /\ Len(Segments[text]) > 1
  /\ \A text \in DOMAIN Upper : Upper[text] \notin DOMAIN Upper

SegmentsOf(text) == IF text \in DOMAIN Segments THEN Segments[text] ELSE <<text>>
lastSegment(text) == Last(SegmentsOf(text))
ToUpper(text) == IF text \in DOMAIN Upper THEN Upper[text] ELSE text

deref(p) == IF p = Nil THEN "" ELSE p

\* ec2Tags, s3Tags and azureTags; no tag set at all is no tags.
tagsOf(tags) ==
  IF tags = Nil THEN <<>> ELSE [k \in DOMAIN tags |-> deref(tags[k])]

Strings(attrs, names) == [k \in names |-> AttrString(attrs, k)]

Resource(type, id, attributes, tags) ==
  [key |-> <<type, id>>, attributes |-> attributes, tags |-> tags]

-----------------------------------------------------------------------------
(* internal/provider/aws.                                                  *)

instanceFromState(attrs) ==
  Resource("aws_instance", <<AttrString(attrs, "id")>>,
           Strings(attrs, {"instance_type", "ami"}), AttrTags(attrs, "tags"))

instanceActual(id, o) ==
  Resource("aws_instance", id,
           [instance_type |-> o.InstanceType, ami |-> deref(o.ImageId)], tagsOf(o.Tags))

securityGroupFromState(attrs) ==
  Resource("aws_security_group", <<AttrString(attrs, "id")>>,
           Strings(attrs, {"name", "description"}), AttrTags(attrs, "tags"))

\* Mutated form: a copy of the code for instances that keeps their type.
securityGroupActualCopied(id, o) ==
  Resource("aws_instance", id,
           [name |-> deref(o.GroupName), description |-> deref(o.Description)], tagsOf(o.Tags))

securityGroupActual(id, o) ==
  Resource("aws_security_group", id,
           [name |-> deref(o.GroupName), description |-> deref(o.Description)], tagsOf(o.Tags))

bucketFromState(attrs) ==
  Resource("aws_s3_bucket", <<AttrString(attrs, "id")>>,
           Strings(attrs, {"bucket"}), AttrTags(attrs, "tags"))

\* The name is taken from the id, only the tags from the cloud.
bucketActual(id, o) ==
  Resource("aws_s3_bucket", id, [bucket |-> id[1]], tagsOf(o.TagSet))

\* Mutated form: an error code that only contains "NotFound" is not one.
awsNotFoundExactly(code) == code \in {"NotFound", "NoSuchBucket", "NoSuchEntity", "404"}

awsNotFound(code) ==
  code \in {"InvalidInstanceID.NotFound", "InvalidGroup.NotFound",
            "NotFound", "NoSuchBucket", "NoSuchEntity", "404"}

-----------------------------------------------------------------------------
(* internal/provider/azure.                                                *)

resourceGroupFromState(attrs) ==
  Resource("azurerm_resource_group", <<AttrString(attrs, "name")>>,
           Strings(attrs, {"location"}), AttrTags(attrs, "tags"))

resourceGroupActual(id, o) ==
  Resource("azurerm_resource_group", id, [location |-> deref(o.Location)], tagsOf(o.Tags))

storageAccountFromState(attrs) ==
  Resource("azurerm_storage_account",
           SegmentsOf(AttrString(attrs, "resource_group_name"))
             \o SegmentsOf(AttrString(attrs, "name")),
           Strings(attrs, {"location", "account_kind"}), AttrTags(attrs, "tags"))

storageAccountActual(id, o) ==
  Resource("azurerm_storage_account", id,
           [location |-> deref(o.Location), account_kind |-> deref(o.Kind)], tagsOf(o.Tags))

azureNotFound(code) == code = "404"

-----------------------------------------------------------------------------
(* internal/provider/gcp.                                                  *)

computeInstanceFromState(attrs) ==
  Resource("google_compute_instance",
           SegmentsOf(AttrString(attrs, "zone")) \o SegmentsOf(AttrString(attrs, "name")),
           [machine_type |-> lastSegment(AttrString(attrs, "machine_type"))],
           AttrTags(attrs, "labels"))

\* Mutated form: the self-link is compared with the short name.
computeInstanceActualByLink(id, o) ==
  Resource("google_compute_instance", id, [machine_type |-> o.MachineType], tagsOf(o.Labels))

computeInstanceActual(id, o) ==
  Resource("google_compute_instance", id, [machine_type |-> lastSegment(o.MachineType)],
           tagsOf(o.Labels))

storageBucketFromState(attrs) ==
  Resource("google_storage_bucket", <<AttrString(attrs, "name")>>,
           [location |-> ToUpper(AttrString(attrs, "location"))], AttrTags(attrs, "labels"))

storageBucketActual(id, o) ==
  Resource("google_storage_bucket", id, [location |-> ToUpper(o.Location)], tagsOf(o.Labels))

gcpNotFound(code) == code \in {"404", "ErrBucketNotExist"}

-----------------------------------------------------------------------------
(* Providers' Mappers and MapperIndex: the mapper of a type.               *)

AwsTypes == {"aws_instance", "aws_security_group", "aws_s3_bucket"}
AzureTypes == {"azurerm_resource_group", "azurerm_storage_account"}
GcpTypes == {"google_compute_instance", "google_storage_bucket"}

FromState(inst) ==
  CASE inst.type = "aws_instance" -> instanceFromState(inst.attributes)
    [] inst.type = "aws_security_group" -> securityGroupFromState(inst.attributes)
    [] inst.type = "aws_s3_bucket" -> bucketFromState(inst.attributes)
    [] inst.type = "azurerm_resource_group" -> resourceGroupFromState(inst.attributes)
    [] inst.type = "azurerm_storage_account" -> storageAccountFromState(inst.attributes)
    [] inst.type = "google_compute_instance" -> computeInstanceFromState(inst.attributes)
    [] inst.type = "google_storage_bucket" -> storageBucketFromState(inst.attributes)

Actual(type, id, o) ==
  CASE type = "aws_instance" -> instanceActual(id, o)
    [] type = "aws_security_group" -> securityGroupActual(id, o)
    [] type = "aws_s3_bucket" -> bucketActual(id, o)
    [] type = "azurerm_resource_group" -> resourceGroupActual(id, o)
    [] type = "azurerm_storage_account" -> storageAccountActual(id, o)
    [] type = "google_compute_instance" -> computeInstanceActual(id, o)
    [] type = "google_storage_bucket" -> storageBucketActual(id, o)

isNotFound(type, code) ==
  \/ type \in AwsTypes /\ awsNotFound(code)
  \/ type \in AzureTypes /\ azureNotFound(code)
  \/ type \in GcpTypes /\ gcpNotFound(code)

\* strings.Cut(id, "/") must find a "/" in the ids made of two parts.
RightId(type, id) ==
  type \in {"azurerm_storage_account", "google_compute_instance"} => Len(id) > 1
=============================================================================
