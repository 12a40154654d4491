-------------------------------- MODULE Rpc ---------------------------------
(***************************************************************************)
(* A call from its client stub to its answer: the generated stubs and      *)
(* dispatch of service_grpc.pb.go, the interceptor of internal/auth, the   *)
(* wiring of internal/server/server.go and the handlers behind it, over    *)
(* one table with its tenant column.                                       *)
(*                                                                         *)
(* Servers share the table and differ in what they were built with: an     *)
(* interceptor or none, a store or none.  A caller dials one of them with  *)
(* its header, makes one call at a time and may dial another later.  The   *)
(* handlers with two store calls take two steps here too, with inflight[c] *)
(* between them.  The reconciler is left to ControlPlane.                  *)
(***************************************************************************)
EXTENDS Store, Auth, Messages

CONSTANTS
    Servers,        \* the servers in front of the table
    Config,         \* Config[v]: what server v was built with
    Callers,        \* programs that use the API
    Connections,    \* what they dial: a server and the header they send it
    NoConnection,   \* a caller that has not dialled
    NoCall,         \* a caller with no handler between its store calls
    NoAnswer,       \* a caller that was not answered yet
    InitialRows,    \* InitialRows[k]: the spec of a row the table may start with
    MaxUid,         \* bound: number of rows ever inserted
    MaxVersion      \* bound: clients update rows below this version only

ProjectKey(t, p) == [tenant |-> t, kind |-> "Project", project |-> "", name |-> p]
WorkflowKey(t, p, n) == [tenant |-> t, kind |-> "Workflow", project |-> p, name |-> n]

ProjectKeys == {ProjectKey(t, p) : t \in Tenants, p \in Projects}
WorkflowKeys == {WorkflowKey(t, p, n) : t \in Tenants, p \in Projects, n \in Names}
Keys == ProjectKeys \union WorkflowKeys

(* The rows of the tenants table, which resources.tenant_id refers to:     *)
(* migration 0001 seeds one and nothing adds another.                      *)
tenantsTable == {DefaultTenant}

Interceptor(provider, public) == [provider |-> provider, public |-> public]

Row ==
    [uid : Nat, rv : Nat \ {0}, gen : Nat \ {0},
     spec : Optional(ProjectSpecs \union WorkflowSpecs), status : Optional(Statuses)]

Pending ==
    [op : {"create", "update"}, key : Keys, rv : Nat, gen : Nat \ {0},
     spec : Optional(ProjectSpecs \union WorkflowSpecs), status : Optional(Statuses)]

ASSUME TenantAssumption == DefaultTenant \in Tenants /\ "" \notin Tenants
ASSUME NameAssumption == "" \notin Projects /\ "" \notin Names
ASSUME ConnectionAssumption ==
    NoConnection \notin Connections /\ \A connection \in Connections : connection.server \in Servers
ASSUME ProviderAssumption ==
    \A v \in Servers :
        Config[v].interceptor # NoInterceptor /\ Config[v].interceptor.provider.name # "local-dev" =>
            Config[v].interceptor.provider.tenant \in Text(Tenants)
ASSUME NilAssumption ==
    /\ Nil \notin ObjectMeta(Projects) \union ObjectMeta(Names) \union Project \union Workflow
    /\ Nil \notin ProjectSpecs \union WorkflowSpecs \union Statuses
ASSUME SentinelAssumption == NoRow \notin Row /\ NoCall \notin Pending /\ Refused # NoIdentity
ASSUME InitialAssumption ==
    \A k \in DOMAIN InitialRows :
        /\ k \in Keys /\ k.tenant \in tenantsTable
        /\ InitialRows[k] \in IF k \in ProjectKeys THEN ProjectSpecs ELSE WorkflowSpecs

VARIABLES
    conn,       \* conn[c]: the connection of c
    inflight,   \* inflight[c]: the handler of c between its two store calls
    answer      \* answer[c]: what c was last answered

rpcVars == <<storeVars, conn, inflight, answer>>

(* Any table earlier calls can have left: no name used twice, every        *)
(* Workflow with its Project.                                              *)
RpcInit ==
    /\ nextUid = 1
    /\ retired = {}
    /\ \E present \in SUBSET DOMAIN InitialRows :
          /\ \A k \in present \intersect WorkflowKeys : ProjectKey(k.tenant, k.project) \in present
          /\ rows = [k \in Keys |-> IF k \in present
                                   THEN NewRow(0, initialVersion, 1, InitialRows[k], Nil)
                                   ELSE NoRow]
    /\ conn = [c \in Callers |-> NoConnection]
    /\ inflight = [c \in Callers |-> NoCall]
    /\ answer = [c \in Callers |-> NoAnswer]

-----------------------------------------------------------------------------
(* What the handlers share. *)

Reply(c, a) == answer' = [answer EXCEPT ![c] = a]
Fail(c, code) == Reply(c, Failure(code)) /\ UNCHANGED storeVars

storeErr(err) ==
    CASE err = "ErrNotFound" -> "NotFound"
      [] err = "ErrAlreadyExists" -> "AlreadyExists"
      [] err = "ErrConflict" -> "Aborted"
      [] OTHER -> "Internal"

requireName(obj) == GetMetadata(obj) # Nil /\ GetName(GetMetadata(obj)) # ""

(* decodeProject and decodeWorkflow: the stored body under the metadata    *)
(* the store is the authority on (overlayStoredMeta).                      *)
decoded(k, row) ==
    [metadata |-> [tenantId |-> k.tenant, project |-> k.project, name |-> k.name,
                   uid |-> row.uid, resourceVersion |-> row.rv, generation |-> row.gen],
     spec |-> row.spec, status |-> row.status]

Show(c, k) == Reply(c, Success({decoded(k, rows[k])}))
ShowWritten(c, k) == Reply(c, Success({decoded(k, rows'[k])}))

Idle(c) == inflight[c] = NoCall
EndHandler(c) == inflight' = [inflight EXCEPT ![c] = NoCall]

(* The call goes on to its second store call; there is no answer yet. *)
Hold(c, pending) ==
    /\ inflight' = [inflight EXCEPT ![c] = pending]
    /\ UNCHANGED <<storeVars, answer>>

(* Mutant: the row of any tenant is accepted. *)
Insert_AnyTenant(c, k, gen, spec) ==
    \/ Present(k) /\ Fail(c, storeErr("ErrAlreadyExists"))
    \/ /\ nextUid <= MaxUid
       /\ Create(k, gen, spec, Nil)
       /\ ShowWritten(c, k)

(* store.Create and the three ways it ends: the foreign key refuses the    *)
(* row of a tenant that is not in the tenants table.                       *)
Insert(c, k, gen, spec) ==
    \/ Present(k) /\ Fail(c, storeErr("ErrAlreadyExists"))
    \/ ~Present(k) /\ k.tenant \notin tenantsTable /\ Fail(c, storeErr("foreign key"))
    \/ /\ ~Present(k) /\ k.tenant \in tenantsTable
       /\ nextUid <= MaxUid
       /\ Create(k, gen, spec, Nil)
       /\ ShowWritten(c, k)

Lookup(c, k) ==
    \/ Present(k) /\ Show(c, k) /\ UNCHANGED storeVars
    \/ ~Present(k) /\ Fail(c, storeErr("ErrNotFound"))

Remove(c, k) ==
    \/ Delete(k) /\ Show(c, k)
    \/ ~Present(k) /\ Fail(c, storeErr("ErrNotFound"))

List(c, keys) ==
    /\ Reply(c, Success({decoded(k, rows[k]) : k \in {j \in keys : Present(j)}}))
    /\ UNCHANGED storeVars

(* The first half of both Update handlers. *)
Revise(c, k, obj) ==
    \/ ~Present(k) /\ Fail(c, storeErr("ErrNotFound")) /\ UNCHANGED inflight
    \/ /\ Present(k)
       /\ GetResourceVersion(GetMetadata(obj)) < MaxVersion
       /\ Hold(c, [op |-> "update", key |-> k, rv |-> GetResourceVersion(GetMetadata(obj)),
                   gen |-> rows[k].gen + (IF obj.spec = rows[k].spec THEN 0 ELSE 1),
                   spec |-> obj.spec, status |-> obj.status])

-----------------------------------------------------------------------------
(* The services.  id is the identity the interceptor attached. *)

SystemService(c, m) ==
    /\ m \in {"GetHealth", "GetVersion"}
    /\ Reply(c, Success({}))
    /\ UNCHANGED <<storeVars, inflight>>

CreateProject(c, id, req) ==
    LET meta == GetMetadata(req.project)
        tenant == resolveTenant(id, GetTenantId(meta))
    IN  /\ UNCHANGED inflight
        /\ \/ ~requireName(req.project) /\ Fail(c, "InvalidArgument")
           \/ /\ requireName(req.project)
              /\ Insert(c, ProjectKey(tenant, GetName(meta)), 1, GetSpec(req.project))

(* GetProject, ListProjects and DeleteProject. *)
GetProjectByName(c, id, req) ==
    /\ UNCHANGED inflight
    /\ \/ req.name = "" /\ Fail(c, "InvalidArgument")
       \/ req.name # "" /\ Lookup(c, ProjectKey(resolveTenant(id, req.tenantId), req.name))

(* Mutant: the list is not confined to a tenant. *)
ListProjects_AllTenants(c, id, req) ==
    /\ UNCHANGED inflight
    /\ List(c, ProjectKeys)

ListProjects(c, id, req) ==
    /\ UNCHANGED inflight
    /\ List(c, {k \in ProjectKeys : k.tenant = resolveTenant(id, req.tenantId)})

DeleteProject(c, id, req) ==
    /\ UNCHANGED inflight
    /\ \/ req.name = "" /\ Fail(c, "InvalidArgument")
       \/ req.name # "" /\ Remove(c, ProjectKey(resolveTenant(id, req.tenantId), req.name))

UpdateProject(c, id, req) ==
    LET p == req.project
        meta == GetMetadata(p)
        tenant == resolveTenant(id, GetTenantId(meta))
        valid == requireName(p) /\ GetResourceVersion(meta) # 0
    IN  \/ ~valid /\ Fail(c, "InvalidArgument") /\ UNCHANGED inflight
        \/ valid /\ Revise(c, ProjectKey(tenant, GetName(meta)), p)

(* The owning Project is looked for in the tenant of the caller. *)
CreateWorkflow(c, id, req) ==
    LET w == req.workflow
        meta == GetMetadata(w)
        tenant == resolveTenant(id, GetTenantId(meta))
        valid == requireName(w) /\ GetProject(meta) # ""
        owned == Present(ProjectKey(tenant, GetProject(meta)))
    IN  \/ ~valid /\ Fail(c, "InvalidArgument") /\ UNCHANGED inflight
        \/ valid /\ ~owned /\ Fail(c, "FailedPrecondition") /\ UNCHANGED inflight
        \/ /\ valid /\ owned
           /\ Hold(c, [op |-> "create", key |-> WorkflowKey(tenant, GetProject(meta), GetName(meta)),
                       rv |-> 0, gen |-> 1, spec |-> GetSpec(w), status |-> Nil])

GetWorkflow(c, id, req) ==
    LET valid == req.project # "" /\ req.name # ""
    IN  /\ UNCHANGED inflight
        /\ \/ ~valid /\ Fail(c, "InvalidArgument")
           \/ /\ valid
              /\ Lookup(c, WorkflowKey(resolveTenant(id, req.tenantId), req.project, req.name))

(* An empty project lists the Workflows of every Project of the tenant. *)
ListWorkflows(c, id, req) ==
    /\ UNCHANGED inflight
    /\ List(c, {k \in WorkflowKeys : /\ k.tenant = resolveTenant(id, req.tenantId)
                                     /\ req.project \in {"", k.project}})

UpdateWorkflow(c, id, req) ==
    LET w == req.workflow
        meta == GetMetadata(w)
        tenant == resolveTenant(id, GetTenantId(meta))
        valid == requireName(w) /\ GetProject(meta) # "" /\ GetResourceVersion(meta) # 0
    IN  \/ ~valid /\ Fail(c, "InvalidArgument") /\ UNCHANGED inflight
        \/ valid /\ Revise(c, WorkflowKey(tenant, GetProject(meta), GetName(meta)), w)

DeleteWorkflow(c, id, req) ==
    LET valid == req.project # "" /\ req.name # ""
    IN  /\ UNCHANGED inflight
        /\ \/ ~valid /\ Fail(c, "InvalidArgument")
           \/ /\ valid
              /\ Remove(c, WorkflowKey(resolveTenant(id, req.tenantId), req.project, req.name))

(* The second store call of a handler. *)
FinishCreate(c) ==
    /\ ~Idle(c) /\ inflight[c].op = "create"
    /\ Insert(c, inflight[c].key, inflight[c].gen, inflight[c].spec)
    /\ EndHandler(c)

FinishUpdate(c) ==
    /\ ~Idle(c) /\ inflight[c].op = "update"
    /\ LET u == inflight[c]
       IN  \/ Update(u.key, u.rv, u.gen, u.spec, u.status) /\ ShowWritten(c, u.key)
           \/ ~Present(u.key) /\ Fail(c, storeErr("ErrNotFound"))
           \/ Present(u.key) /\ ~VersionMatches(u.key, u.rv) /\ Fail(c, storeErr("ErrConflict"))
    /\ EndHandler(c)

(* The deadline or the disconnect of the caller comes first. *)
CancelHandler(c) ==
    /\ ~Idle(c)
    /\ Fail(c, "DeadlineExceeded")
    /\ EndHandler(c)

HandlerStep(c) ==
    /\ FinishCreate(c) \/ FinishUpdate(c) \/ CancelHandler(c)
    /\ UNCHANGED conn

-----------------------------------------------------------------------------
(* Dispatch and stubs. *)

SystemServiceDesc == [name |-> "SystemService", methods |-> {"GetHealth", "GetVersion"}]

ProjectServiceDesc ==
    [name |-> "ProjectService",
     methods |-> {"CreateProject", "GetProject", "ListProjects", "UpdateProject", "DeleteProject"}]

WorkflowServiceDesc ==
    [name |-> "WorkflowService",
     methods |-> {"CreateWorkflow", "GetWorkflow", "ListWorkflows", "UpdateWorkflow",
                  "DeleteWorkflow"}]

FullMethod(desc, m) == <<desc.name, m>>
reflectionMethod == <<"ServerReflection", "ServerReflectionInfo">>

(* What "kestrai up" tells its interceptor to leave open. *)
systemMethods == {FullMethod(SystemServiceDesc, m) : m \in SystemServiceDesc.methods}

(* No interceptor leaves more open: a method with a tenant is never public. *)
ASSUME PublicAssumption ==
    \A v \in Servers : Config[v].interceptor # NoInterceptor =>
        Config[v].interceptor.public \subseteq systemMethods

ProjectServiceHandler(c, id, m, req) ==
    \/ m = "CreateProject" /\ CreateProject(c, id, req)
    \/ m = "GetProject" /\ GetProjectByName(c, id, req)
    \/ m = "ListProjects" /\ ListProjects(c, id, req)
    \/ m = "UpdateProject" /\ UpdateProject(c, id, req)
    \/ m = "DeleteProject" /\ DeleteProject(c, id, req)

WorkflowServiceHandler(c, id, m, req) ==
    \/ m = "CreateWorkflow" /\ CreateWorkflow(c, id, req)
    \/ m = "GetWorkflow" /\ GetWorkflow(c, id, req)
    \/ m = "ListWorkflows" /\ ListWorkflows(c, id, req)
    \/ m = "UpdateWorkflow" /\ UpdateWorkflow(c, id, req)
    \/ m = "DeleteWorkflow" /\ DeleteWorkflow(c, id, req)

(* The services a server without a store registers in their place. *)
UnimplementedServer(c) == Fail(c, "Unimplemented") /\ UNCHANGED inflight

ServerOf(c) == Config[conn[c].server]
HasStore(c) == ServerOf(c).store

IdentityFor(c, method) == Unary(ServerOf(c).interceptor, method, conn[c].header)

(* The generated handler runs the interceptor, and the interceptor the     *)
(* method; a refused call gets no further.                                 *)
Unauthenticated(c, method) ==
    /\ IdentityFor(c, method) = Refused
    /\ Fail(c, "Unauthenticated")
    /\ UNCHANGED inflight

(* Dial only prepares the connection; nothing is sent. *)
Dial(c, connection) ==
    /\ Idle(c)
    /\ conn' = [conn EXCEPT ![c] = connection]
    /\ answer' = [answer EXCEPT ![c] = NoAnswer]
    /\ UNCHANGED <<storeVars, inflight>>

MayCall(c) == Idle(c) /\ conn[c] # NoConnection /\ UNCHANGED conn

(* The stub's Invoke does not reach the server. *)
Unreachable(c) == Fail(c, "Unavailable") /\ UNCHANGED inflight

SystemServiceClient(c, m) ==
    LET method == FullMethod(SystemServiceDesc, m)
    IN  /\ MayCall(c)
        /\ \/ Unreachable(c)
           \/ Unauthenticated(c, method)
           \/ IdentityFor(c, method) # Refused /\ SystemService(c, m)

ProjectServiceClient(c, m, req) ==
    LET method == FullMethod(ProjectServiceDesc, m)
        id == IdentityFor(c, method)
    IN  /\ MayCall(c)
        /\ \/ Unreachable(c)
           \/ Unauthenticated(c, method)
           \/ id # Refused /\ HasStore(c) /\ ProjectServiceHandler(c, id, m, req)
           \/ id # Refused /\ ~HasStore(c) /\ UnimplementedServer(c)

WorkflowServiceClient(c, m, req) ==
    LET method == FullMethod(WorkflowServiceDesc, m)
        id == IdentityFor(c, method)
    IN  /\ MayCall(c)
        /\ \/ Unreachable(c)
           \/ Unauthenticated(c, method)
           \/ id # Refused /\ HasStore(c) /\ WorkflowServiceHandler(c, id, m, req)
           \/ id # Refused /\ ~HasStore(c) /\ UnimplementedServer(c)

(* The reflection service, whose method is a stream and is not public. *)
ReflectionClient(c) ==
    /\ MayCall(c)
    /\ IF Stream(ServerOf(c).interceptor, reflectionMethod, conn[c].header) = Refused
       THEN Fail(c, "Unauthenticated")
       ELSE Reply(c, Success({})) /\ UNCHANGED storeVars
    /\ UNCHANGED inflight

(* The tenants the resource calls of a caller work in: one, or none when   *)
(* it has not dialled, its server refuses its header or has no store.      *)
TenantsOf(c) ==
    IF conn[c] = NoConnection THEN {}
    ELSE LET id == IdentityFor(c, FullMethod(ProjectServiceDesc, "GetProject"))
         IN  IF id = Refused \/ ~HasStore(c) THEN {} ELSE {resolveTenant(id, "")}

-----------------------------------------------------------------------------
(* Properties. *)

(* The variables hold what the Go types allow, and no row belongs to a     *)
(* tenant the tenants table does not have.                                 *)
RpcTypeOK ==
    /\ rows \in [Keys -> Row \union {NoRow}]
    /\ \A k \in Keys : Present(k) => k.tenant \in tenantsTable
    /\ conn \in [Callers -> Connections \union {NoConnection}]
    /\ inflight \in [Callers -> Pending \union {NoCall}]
    /\ \A c \in Callers : answer[c] # NoAnswer => answer[c].code \in Codes

(* A call changes no row but those of the tenant its server takes its      *)
(* caller for, over both halves of a handler and whatever tenant request   *)
(* and object name: "the authenticated Identity is authoritative".  A call *)
(* with a refused header or to a server without a store changes none.      *)
Served(c) == answer'[c] # answer[c] \/ inflight'[c] # inflight[c]

OwnTenantOnly ==
    [][\A c \in Callers, k \in Keys :
          Served(c) /\ k.tenant \notin TenantsOf(c) => rows'[k] = rows[k]]_rpcVars

(* A caller is shown nothing of another tenant, and nothing at all by a    *)
(* server that refuses its header or has no store.                         *)
AnswersShowOwnTenant ==
    \A c \in Callers : answer[c] # NoAnswer =>
        \A obj \in answer[c].items : obj.metadata.tenantId \in TenantsOf(c)
=============================================================================
