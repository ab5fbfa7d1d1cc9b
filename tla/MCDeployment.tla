---------------------------- MODULE MCDeployment ----------------------------
(* Both commands without and with a file: good targets of every provider,  *)
(* scheduled or not, targets nothing can come of, files that are refused,  *)
(* and flags beside them; firings that may overlap and a request.          *)
EXTENDS Deployment

CONSTANTS j1, j2, q1

MCJobs == {j1, j2}
MCRequests == {q1}
MCSchedules == {"hourly", "daily"}

Local(name) == [scheme |-> "", parts |-> <<name>>]
S3(parts) == [scheme |-> "s3", parts |-> parts]

Target(name, provider, options, path, schedule) ==
  [name |-> name, provider |-> provider, options |-> options, path |-> path,
   schedule |-> schedule]

Web == Target("web", "aws", {}, S3(<<"states", "web">>), "hourly")
Data == Target("data", "azure", {"subscription"}, Local("data"), "")
Logs == Target("logs", "gcp", {"project"}, Local("logs"), "daily")
Demo == Target("demo", "mock", {"fixture"}, Local("demo"), "")

\* Refused when they run, not when they are loaded.
NoBucket == Target("a", "aws", {}, S3(<<"">>), "hourly")
NoKey == Target("b", "aws", {}, S3(<<"states", "">>), "daily")
OtherScheme == Target("c", "mock", {"fixture"}, [scheme |-> "gs", parts |-> <<"states", "c">>], "daily")
NoSubscription == Target("d", "azure", {}, Local("d"), "hourly")
NoProject == Target("e", "gcp", {"subscription"}, Local("e"), "daily")
NoFixture == Target("g", "mock", {"project"}, Local("g"), "")
OtherProvider == Target("f", "oracle", {}, Local("f"), "daily")

\* Refused when they are loaded, or when the scheduler starts.
NoPath == [Logs EXCEPT !.path = None]
NoName == [Logs EXCEPT !.name = ""]
NoParse == [Logs EXCEPT !.schedule = "whenever"]

File(where, address, targets) ==
  [store_dir |-> where, addr |-> address, targets |-> targets]

Serve(address, where, file) ==
  [command |-> "serve", usage |-> TRUE, addr |-> address, store |-> where, file |-> file]
Schedule(file) ==
  [command |-> "schedule", usage |-> TRUE, addr |-> None, store |-> None, file |-> file]

MCLines ==
  {Serve(None, None, None), Serve(":9090", "/data", None), Schedule(None),
   [Serve(None, None, None) EXCEPT !.usage = FALSE],
   Serve(None, "/data", File("/var", ":9999", <<Data, Web, Logs>>)),
   Serve(":8080", None, File("", ":9999", <<Demo>>)),
   Serve(None, None, Unreadable),
   Serve(None, None, File("/var", "", <<Web, NoParse>>)),
   Serve(":9090", None, File("", "", <<NoBucket, OtherScheme>>)),
   Serve(None, None, File("", "", <<NoFixture, OtherProvider, NoKey>>)),
   Schedule(File("", "", <<Data, Web, Logs>>)),
   Schedule(File("/var", "", <<Demo, Data>>)),
   Schedule(File("", "", <<NoSubscription, NoProject>>))}
  \cup {Schedule(File("", "", targets)) :
          targets \in {<<>>, <<Web, Web>>, <<NoPath>>, <<NoName>>, <<Web, NoParse>>}}
=============================================================================
