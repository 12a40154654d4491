------------------------------ MODULE Messages ------------------------------
(***************************************************************************)
(* gen/go/kestrai/v1alpha1/*.pb.go: the messages of the API as their Go    *)
(* types have them.  A field that is a message may be Nil, and a getter    *)
(* asked of a Nil message answers the zero value of the field: "" for a    *)
(* string, 0 for a number.  A resource_version is the number its decimal   *)
(* string denotes, 0 when unset.                                           *)
(*                                                                         *)
(* Left out: labels, annotations, finalizers, timestamps and conditions    *)
(* (WorkflowStatus), selectors and pages (Listing), and what marshalling   *)
(* does to a message, which comes back as it went in.                      *)
(***************************************************************************)
EXTENDS Naturals

CONSTANTS
    Nil,                \* the nil message
    Tenants,            \* ids of tenants
    Projects, Names,    \* names of Projects, and of Workflows in a Project
    ProjectSpecs,       \* specs as clients send them
    WorkflowSpecs,
    Statuses            \* statuses as clients send them

Optional(S) == S \union {Nil}
Text(S) == S \union {""}

(* names: what objects of the kind are called. *)
ObjectMeta(names) ==
    [tenantId : Text(Tenants), project : Text(Projects), name : Text(names),
     uid : Nat, resourceVersion : Nat, generation : Nat]

Project ==
    [metadata : Optional(ObjectMeta(Projects)), spec : Optional(ProjectSpecs), status : Optional(Statuses)]

Workflow ==
    [metadata : Optional(ObjectMeta(Names)), spec : Optional(WorkflowSpecs), status : Optional(Statuses)]

MessageOf(kind) == IF kind = "Project" THEN Project ELSE Workflow

(* The nil-safe getters. *)
Getter(msg, field, zero) == IF msg = Nil THEN zero ELSE msg[field]

GetMetadata(obj) == Getter(obj, "metadata", Nil)
GetSpec(obj) == Getter(obj, "spec", Nil)
GetTenantId(meta) == Getter(meta, "tenantId", "")
GetName(meta) == Getter(meta, "name", "")
GetProject(meta) == Getter(meta, "project", "")
GetResourceVersion(meta) == Getter(meta, "resourceVersion", 0)

-----------------------------------------------------------------------------
(* Requests. *)

CreateProjectRequest == [project : Optional(Project)]
GetProjectRequest == [tenantId : Text(Tenants), name : Text(Projects)]
ListProjectsRequest == [tenantId : Text(Tenants)]
UpdateProjectRequest == [project : Optional(Project)]
DeleteProjectRequest == [tenantId : Text(Tenants), name : Text(Projects)]

CreateWorkflowRequest == [workflow : Optional(Workflow)]
GetWorkflowRequest == [tenantId : Text(Tenants), project : Text(Projects), name : Text(Names)]
ListWorkflowsRequest == [tenantId : Text(Tenants), project : Text(Projects)]
UpdateWorkflowRequest == [workflow : Optional(Workflow)]
DeleteWorkflowRequest == [tenantId : Text(Tenants), project : Text(Projects), name : Text(Names)]

(* Request[m]: what method m takes. *)
Request ==
    [ CreateProject |-> CreateProjectRequest, GetProject |-> GetProjectRequest,
      ListProjects |-> ListProjectsRequest, UpdateProject |-> UpdateProjectRequest,
      DeleteProject |-> DeleteProjectRequest,
      CreateWorkflow |-> CreateWorkflowRequest, GetWorkflow |-> GetWorkflowRequest,
      ListWorkflows |-> ListWorkflowsRequest, UpdateWorkflow |-> UpdateWorkflowRequest,
      DeleteWorkflow |-> DeleteWorkflowRequest ]

-----------------------------------------------------------------------------
(* Answers: a status code with, if it is OK, the objects of the response.  *)
(* The order of the items of a list is the subject of Listing.             *)

Codes == {"OK", "InvalidArgument", "NotFound", "AlreadyExists", "FailedPrecondition",
          "Aborted", "Internal", "Unauthenticated", "Unimplemented", "Unavailable",
          "DeadlineExceeded"}

Failure(code) == [code |-> code, items |-> {}]
Success(items) == [code |-> "OK", items |-> items]
=============================================================================
