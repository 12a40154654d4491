------------------------------- MODULE MCCli --------------------------------
(***************************************************************************)
(* One terminal and one program.  Both use the server of "kestrai up"; the *)
(* program also dials a server of another tenant, with its token and with  *)
(* a wrong one, and a server that has no store.                            *)
(***************************************************************************)
EXTENDS Cli, TLC

Up == [store |-> TRUE, interceptor |-> Interceptor(LocalDev, systemMethods)]
Team == [store |-> TRUE, interceptor |-> Interceptor(StaticToken("s3cret", "acme"), systemMethods)]
Bare == [store |-> FALSE, interceptor |-> NoInterceptor]

MCConfig == [up |-> Up, team |-> Team, bare |-> Bare]

MCTrimmed == [token \in {"s3cret", " s3cret", "guess"} |-> IF token = " s3cret" THEN "s3cret" ELSE token]

Local == dial("up", "")

MCConnections ==
    {Local, dial("team", " s3cret"), dial("team", "guess"), dial("bare", "")}

Meta(tenant, project, name, version) ==
    [tenantId |-> tenant, project |-> project, name |-> name,
     uid |-> 0, resourceVersion |-> version, generation |-> 0]

ProjectFile == [metadata |-> Meta("", "", "p", 0), spec |-> "apollo", status |-> Nil]
WorkflowFile == [metadata |-> Meta("", "p", "w", 0), spec |-> "ship", status |-> Nil]

MCInitialRows ==
    ProjectKey("default", "p") :> "apollo" @@
    WorkflowKey("default", "p", "w") :> "ship" @@
    WorkflowKey("default", "p", "v") :> "test"

Doc(kind, message) == Document(apiVersionV1Alpha1, kind, TRUE, message)

MCManifests ==
    [ team |-> <<Doc("Project", ProjectFile), EmptyDoc, Doc("Workflow", WorkflowFile)>>,
      typo |-> <<Doc("Project", ProjectFile), [Doc("Workflow", WorkflowFile) EXCEPT !.strict = FALSE]>>,
      out  |-> <<>> ]

Arg(word, ending) == [word |-> word, ending |-> ending]
Get1(word, ending, name, scope, output, into) ==
    [verb |-> "get", kind |-> Arg(word, ending), name |-> name, scope |-> scope,
     output |-> output, into |-> into, conn |-> Local]

MCCommandLines ==
    { [verb |-> "apply", file |-> f, conn |-> Local] : f \in {"team", "typo", "out", NoFile} } \union
    { Get1("workflow", "", "w", "p", "yaml", "out"), Get1("workflow", "s", "", "", "json", "out"),
      Get1("project", "", "p", "", "", NoFile), Get1("workflow", "", "w", "", "", NoFile),
      Get1("project", "S", "", "", "", NoFile), Get1("project", "s", "", "", "xml", NoFile),
      [verb |-> "version"], [verb |-> "server", role |-> "api"], [verb |-> "server", role |-> "db"] }

Ask1(service, method, req) == [service |-> service, method |-> method, req |-> req]

ByName == [tenantId |-> "default", project |-> "p", name |-> "w"]
Edited == [metadata |-> Meta("default", "p", "w", 1), spec |-> "test", status |-> Nil]

MCApiCalls ==
    { Ask1("SystemService", "GetVersion", Nil),
      Ask1("ProjectService", "CreateProject", [project |-> ProjectFile]),
      Ask1("ProjectService", "ListProjects", [tenantId |-> "default"]),
      Ask1("ProjectService", "DeleteProject", [tenantId |-> "default", name |-> "p"]),
      Ask1("WorkflowService", "UpdateWorkflow", [workflow |-> Edited]),
      Ask1("WorkflowService", "DeleteWorkflow", ByName) }
=============================================================================
