------------------------------ MODULE MCLookup ------------------------------
(* Every resource type, its compared fields and tags in two or three        *)
(* versions each, nil pointers, spellings of one value, and two changes     *)
(* while the lookup runs.                                                   *)
EXTENDS Lookup

MCFieldOrder ==
  <<"", "account_kind", "ami", "bucket", "description", "env", "instance_type",
    "location", "machine_type", "name", "team">>
MCKeyOrder == <<>>

Self == "zones/z/machineTypes/small"
MCSegments == Self :> <<"zones", "z", "machineTypes", "small">>
MCUpper == "eu" :> "EU" @@ "us" :> "US"
MCTexts == {"", "small", "large", "eu", "EU", "US", Self, "one"}

TagSets == {"env" :> "prod", "env" :> "dev" @@ "team" :> "x"}
PointerTags == TagSets \cup {Nil, "env" :> Nil}

MCObjects ==
  [type : {"aws_instance"}, path : {<<"i-1">>}, InstanceType : {"small", "large"},
   ImageId : {"one", Nil}, Tags : TagSets \cup {<<>>}, State : {"running", "terminated"}]
  \cup
  [type : {"aws_security_group"}, path : {<<"sg-1">>}, GroupName : {"one"},
   Description : {"small", Nil}, Tags : TagSets \cup {<<>>}]
  \cup
  [type : {"aws_s3_bucket"}, path : {<<"one">>}, Name : {"one"}, TagSet : TagSets \cup {Nil}]
  \cup
  [type : {"azurerm_resource_group"}, path : {<<"rg">>}, Location : {"eu", Nil},
   Tags : PointerTags]
  \cup
  [type : {"azurerm_storage_account"}, path : {<<"rg", "acct">>}, Location : {"eu"},
   Kind : {"one", Nil}, Tags : PointerTags]
  \cup
  [type : {"google_compute_instance"}, path : {<<"z", "vm">>}, MachineType : {Self, "large"},
   Labels : TagSets \cup {Nil}]
  \cup
  [type : {"google_storage_bucket"}, path : {<<"b">>}, Location : {"eu", "EU", "US"},
   Labels : TagSets \cup {Nil}]
=============================================================================
