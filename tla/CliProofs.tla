----------------------------- MODULE CliProofs ------------------------------
(***************************************************************************)
(* Theorems about Cli, and about Rpc under it, for any tenants, servers,   *)
(* tokens, names and files and any number of terminals and programs: the   *)
(* tenants of one table do not meet, the table and the answers are what    *)
(* the stubs expect, apply writes what its file asks for in the order of   *)
(* the file and exits with 0 only when all of it is in the table, and what *)
(* get prints into a file can be applied again.                            *)
(***************************************************************************)
EXTENDS Cli, FiniteSetTheorems, FunctionTheorems, SequenceTheorems, TLAPS

-----------------------------------------------------------------------------
(* The invariant. *)

(* Which keys and callers the variables are about. *)
Shape ==
    /\ DOMAIN rows = Keys
    /\ conn \in [Callers -> Connections \union {NoConnection}]
    /\ DOMAIN inflight = Callers
    /\ DOMAIN answer = Callers

HandlersStayHome == \A c \in Callers : ~Idle(c) => inflight[c].key.tenant \in TenantsOf(c)

HomeInv == Shape /\ HandlersStayHome /\ AnswersShowOwnTenant

-----------------------------------------------------------------------------
(* What a step that caller c makes for the tenants T may change. *)

TableConfined(T) ==
    /\ DOMAIN rows' = Keys
    /\ \A k \in Keys : k.tenant \notin T => rows'[k] = rows[k]

AnswerConfined(c, T) ==
    /\ DOMAIN answer' = Callers
    /\ \A d \in Callers \ {c} : answer'[d] = answer[d]
    /\ \/ answer'[c] = answer[c]
       \/ answer'[c] = NoAnswer
       \/ \A obj \in answer'[c].items : obj.metadata.tenantId \in T

HandlerConfined(c, T) ==
    /\ DOMAIN inflight' = Callers
    /\ \A d \in Callers \ {c} : inflight'[d] = inflight[d]
    /\ \/ inflight'[c] \in {NoCall, inflight[c]}
       \/ inflight'[c].key.tenant \in T

Confined(c, T) == TableConfined(T) /\ AnswerConfined(c, T) /\ HandlerConfined(c, T)

-----------------------------------------------------------------------------
(* Tables. *)

LEMMA WriteIsConfined ==
    ASSUME DOMAIN rows = Keys, NEW k, NEW row, NEW T, k.tenant \in T,
           rows' = [rows EXCEPT ![k] = row]
    PROVE  TableConfined(T)
BY DEF TableConfined

LEMMA NoWriteIsConfined ==
    ASSUME DOMAIN rows = Keys, NEW T, UNCHANGED rows
    PROVE  TableConfined(T)
BY DEF TableConfined

LEMMA FailIsConfined ==
    ASSUME Shape, NEW c \in Callers, NEW T, NEW code, Fail(c, code)
    PROVE  TableConfined(T) /\ AnswerConfined(c, T)
BY DEF Shape, Fail, Reply, Failure, storeVars, TableConfined, AnswerConfined

LEMMA AnswerIsConfined ==
    ASSUME Shape, NEW c \in Callers, NEW T, NEW items,
           \A obj \in items : obj.metadata.tenantId \in T,
           Reply(c, Success(items))
    PROVE  AnswerConfined(c, T)
BY DEF Shape, Reply, Success, AnswerConfined

LEMMA ShownIsConfined ==
    ASSUME Shape, NEW c \in Callers, NEW T, NEW k, k.tenant \in T,
           Show(c, k) \/ ShowWritten(c, k)
    PROVE  AnswerConfined(c, T)
<1>1. \A row : decoded(k, row).metadata.tenantId \in T
  BY DEF decoded
<1>2. CASE Show(c, k)
  BY <1>1, <1>2, AnswerIsConfined DEF Show
<1>3. CASE ShowWritten(c, k)
  BY <1>1, <1>3, AnswerIsConfined DEF ShowWritten
<1> QED
  BY <1>2, <1>3

LEMMA IdleIsConfined ==
    ASSUME Shape, NEW c \in Callers, NEW T, UNCHANGED inflight \/ EndHandler(c)
    PROVE  HandlerConfined(c, T)
BY DEF Shape, HandlerConfined, EndHandler

LEMMA HeldIsConfined ==
    ASSUME Shape, NEW c \in Callers, NEW T, NEW pending, pending.key.tenant \in T,
           Hold(c, pending)
    PROVE  Confined(c, T)
BY DEF Shape, Hold, storeVars, Confined, TableConfined, AnswerConfined, HandlerConfined

(* The store calls of a handler, for a key of its tenant. *)
LEMMA InsertIsConfined ==
    ASSUME Shape, NEW c \in Callers, NEW T, NEW k, k.tenant \in T, NEW gen, NEW spec,
           Insert(c, k, gen, spec)
    PROVE  TableConfined(T) /\ AnswerConfined(c, T)
<1>1. CASE \E code : Fail(c, code)
  BY <1>1, FailIsConfined
<1>2. CASE Create(k, gen, spec, Nil) /\ ShowWritten(c, k)
  BY <1>2, WriteIsConfined, ShownIsConfined DEF Create, Shape
<1> QED
  BY <1>1, <1>2 DEF Insert

LEMMA LookupIsConfined ==
    ASSUME Shape, NEW c \in Callers, NEW T, NEW k, k.tenant \in T, Lookup(c, k)
    PROVE  TableConfined(T) /\ AnswerConfined(c, T)
<1>1. CASE \E code : Fail(c, code)
  BY <1>1, FailIsConfined
<1>2. CASE Show(c, k) /\ UNCHANGED storeVars
  BY <1>2, NoWriteIsConfined, ShownIsConfined DEF storeVars, Shape
<1> QED
  BY <1>1, <1>2 DEF Lookup

LEMMA RemoveIsConfined ==
    ASSUME Shape, NEW c \in Callers, NEW T, NEW k, k.tenant \in T, Remove(c, k)
    PROVE  TableConfined(T) /\ AnswerConfined(c, T)
<1>1. CASE \E code : Fail(c, code)
  BY <1>1, FailIsConfined
<1>2. CASE Delete(k) /\ Show(c, k)
  BY <1>2, WriteIsConfined, ShownIsConfined DEF Delete, Shape
<1> QED
  BY <1>1, <1>2 DEF Remove

LEMMA ListIsConfined ==
    ASSUME Shape, NEW c \in Callers, NEW T, NEW keys, \A k \in keys : k.tenant \in T,
           List(c, keys)
    PROVE  TableConfined(T) /\ AnswerConfined(c, T)
<1>1. \A k \in keys : decoded(k, rows[k]).metadata.tenantId \in T
  BY DEF decoded
<1>2. \A obj \in {decoded(k, rows[k]) : k \in {j \in keys : Present(j)}} :
         obj.metadata.tenantId \in T
  BY <1>1
<1> QED
  BY <1>2, AnswerIsConfined, NoWriteIsConfined DEF List, storeVars, Shape

LEMMA ReviseIsConfined ==
    ASSUME Shape, NEW c \in Callers, NEW T, NEW k, k.tenant \in T, NEW obj, Revise(c, k, obj)
    PROVE  Confined(c, T)
<1>1. CASE (\E code : Fail(c, code)) /\ UNCHANGED inflight
  BY <1>1, FailIsConfined, IdleIsConfined DEF Confined
<1>2. ASSUME NEW pending, pending.key = k, Hold(c, pending)
      PROVE  Confined(c, T)
  BY <1>2, HeldIsConfined
<1>3. CASE /\ Present(k)
           /\ Hold(c, [op |-> "update", key |-> k, rv |-> GetResourceVersion(GetMetadata(obj)),
                       gen |-> rows[k].gen + (IF obj.spec = rows[k].spec THEN 0 ELSE 1),
                       spec |-> obj.spec, status |-> obj.status])
  BY <1>2, <1>3
<1> QED
  BY <1>1, <1>3 DEF Revise

-----------------------------------------------------------------------------
(* Handlers: each works for the tenant resolveTenant answers, and for that *)
(* tenant whatever the request says.                                       *)

LEMMA RequestsNameNoTenant ==
    ASSUME NEW id, NEW requested
    PROVE  resolveTenant(id, requested) = resolveTenant(id, "")
BY DEF resolveTenant

LEMMA KeysHaveTenants ==
    ASSUME NEW t, NEW p, NEW n
    PROVE  ProjectKey(t, p).tenant = t /\ WorkflowKey(t, p, n).tenant = t
BY DEF ProjectKey, WorkflowKey

LEMMA RefusalIsConfined ==
    ASSUME Shape, NEW c \in Callers, NEW T, NEW code, Fail(c, code), UNCHANGED inflight
    PROVE  Confined(c, T)
BY FailIsConfined, IdleIsConfined DEF Confined

LEMMA ProjectHandlersAreConfined ==
    ASSUME Shape, NEW c \in Callers, NEW T, NEW id, resolveTenant(id, "") \in T,
           NEW m, NEW req, ProjectServiceHandler(c, id, m, req)
    PROVE  Confined(c, T)
<1> DEFINE tenant(requested) == resolveTenant(id, requested)
<1>1. \A requested, name : ProjectKey(tenant(requested), name).tenant \in T
  BY RequestsNameNoTenant, KeysHaveTenants
<1> HIDE DEF tenant
<1>2. CASE CreateProject(c, id, req)
  BY <1>1, <1>2, FailIsConfined, InsertIsConfined, IdleIsConfined DEF CreateProject, Confined, tenant
<1>3. CASE GetProjectByName(c, id, req)
  BY <1>1, <1>3, FailIsConfined, LookupIsConfined, IdleIsConfined DEF GetProjectByName, Confined, tenant
<1>4. CASE ListProjects(c, id, req)
  <2>1. \A k \in {k \in ProjectKeys : k.tenant = resolveTenant(id, req.tenantId)} : k.tenant \in T
    BY RequestsNameNoTenant
  <2> QED
    BY <1>4, <2>1, ListIsConfined, IdleIsConfined DEF ListProjects, Confined
<1>5. CASE UpdateProject(c, id, req)
  BY <1>1, <1>5, RefusalIsConfined, ReviseIsConfined DEF UpdateProject, tenant
<1>6. CASE DeleteProject(c, id, req)
  BY <1>1, <1>6, FailIsConfined, RemoveIsConfined, IdleIsConfined DEF DeleteProject, Confined, tenant
<1> QED
  BY <1>2, <1>3, <1>4, <1>5, <1>6 DEF ProjectServiceHandler

LEMMA WorkflowHandlersAreConfined ==
    ASSUME Shape, NEW c \in Callers, NEW T, NEW id, resolveTenant(id, "") \in T,
           NEW m, NEW req, WorkflowServiceHandler(c, id, m, req)
    PROVE  Confined(c, T)
<1> DEFINE tenant(requested) == resolveTenant(id, requested)
<1>1. \A requested, project, name : WorkflowKey(tenant(requested), project, name).tenant \in T
  <2> SUFFICES ASSUME NEW requested, NEW project, NEW name
               PROVE  WorkflowKey(tenant(requested), project, name).tenant \in T
    OBVIOUS
  <2>1. tenant(requested) \in T
    BY RequestsNameNoTenant
  <2> QED
    BY <2>1, KeysHaveTenants
<1> HIDE DEF tenant
<1>2. CASE CreateWorkflow(c, id, req)
  <2>1. CASE (\E code : Fail(c, code)) /\ UNCHANGED inflight
    BY <2>1, RefusalIsConfined
  <2>2. ASSUME NEW pending, pending.key.tenant \in T, Hold(c, pending)
        PROVE  Confined(c, T)
    BY <2>2, HeldIsConfined
  <2> QED
    BY <1>1, <1>2, <2>1, <2>2 DEF CreateWorkflow, tenant
<1>3. CASE GetWorkflow(c, id, req)
  BY <1>1, <1>3, FailIsConfined, LookupIsConfined, IdleIsConfined DEF GetWorkflow, Confined, tenant
<1>4. CASE ListWorkflows(c, id, req)
  <2>1. \A k \in {k \in WorkflowKeys : /\ k.tenant = resolveTenant(id, req.tenantId)
                                      /\ req.project \in {"", k.project}} : k.tenant \in T
    BY RequestsNameNoTenant
  <2> QED
    BY <1>4, <2>1, ListIsConfined, IdleIsConfined DEF ListWorkflows, Confined
<1>5. CASE UpdateWorkflow(c, id, req)
  BY <1>1, <1>5, RefusalIsConfined, ReviseIsConfined DEF UpdateWorkflow, tenant
<1>6. CASE DeleteWorkflow(c, id, req)
  BY <1>1, <1>6, FailIsConfined, RemoveIsConfined, IdleIsConfined DEF DeleteWorkflow, Confined, tenant
<1> QED
  BY <1>2, <1>3, <1>4, <1>5, <1>6 DEF WorkflowServiceHandler

LEMMA SecondCallsAreConfined ==
    ASSUME HomeInv, NEW c \in Callers, FinishCreate(c) \/ FinishUpdate(c) \/ CancelHandler(c)
    PROVE  Confined(c, TenantsOf(c))
<1>1. EndHandler(c) /\ ~Idle(c)
  BY DEF FinishCreate, FinishUpdate, CancelHandler
<1>2. inflight[c].key.tenant \in TenantsOf(c) /\ Shape
  BY <1>1 DEF HomeInv, HandlersStayHome
<1>3. HandlerConfined(c, TenantsOf(c))
  BY <1>1, <1>2, IdleIsConfined
<1>4. CASE FinishCreate(c)
  BY <1>2, <1>3, <1>4, InsertIsConfined DEF FinishCreate, Confined
<1>5. CASE \E code : Fail(c, code)
  BY <1>2, <1>3, <1>5, FailIsConfined DEF Confined
<1>6. ASSUME NEW k, k.tenant \in TenantsOf(c), NEW row,
             rows' = [rows EXCEPT ![k] = row], ShowWritten(c, k)
      PROVE  Confined(c, TenantsOf(c))
  BY <1>2, <1>3, <1>6, WriteIsConfined, ShownIsConfined DEF Confined, Shape
<1> QED
  BY <1>2, <1>4, <1>5, <1>6 DEF FinishUpdate, CancelHandler, Update

-----------------------------------------------------------------------------
(* Dispatch: the interceptor runs no resource method in public, so that    *)
(* the tenant of a handler is the one its server takes the caller for.     *)

ResourceMethod(desc, m) == desc \in {ProjectServiceDesc, WorkflowServiceDesc}

LEMMA ResourceMethodsAreNotPublic ==
    ASSUME NEW desc, NEW m, ResourceMethod(desc, m)
    PROVE  FullMethod(desc, m) \notin systemMethods
BY DEF ResourceMethod, ProjectServiceDesc, WorkflowServiceDesc, SystemServiceDesc, FullMethod,
     systemMethods

LEMMA ServerIsConfigured ==
    ASSUME Shape, NEW c \in Callers, conn[c] # NoConnection
    PROVE  ServerOf(c).interceptor # NoInterceptor =>
               ServerOf(c).interceptor.public \subseteq systemMethods
<1>1. conn[c].server \in Servers
  BY ConnectionAssumption DEF Shape
<1> QED
  BY <1>1, PublicAssumption DEF ServerOf

LEMMA OneIdentity ==
    ASSUME Shape, NEW c \in Callers, conn[c] # NoConnection,
           NEW desc, NEW m, ResourceMethod(desc, m)
    PROVE  IdentityFor(c, FullMethod(desc, m))
               = IdentityFor(c, FullMethod(ProjectServiceDesc, "GetProject"))
<1>1. FullMethod(desc, m) \notin systemMethods
  BY ResourceMethodsAreNotPublic
<1>2. FullMethod(ProjectServiceDesc, "GetProject") \notin systemMethods
  BY ResourceMethodsAreNotPublic DEF ResourceMethod
<1> QED
  BY <1>1, <1>2, ServerIsConfigured DEF IdentityFor, Unary

LEMMA HandlerTenant ==
    ASSUME Shape, NEW c \in Callers, conn[c] # NoConnection,
           NEW desc, NEW m, ResourceMethod(desc, m),
           IdentityFor(c, FullMethod(desc, m)) # Refused, HasStore(c)
    PROVE  resolveTenant(IdentityFor(c, FullMethod(desc, m)), "") \in TenantsOf(c)
BY OneIdentity DEF TenantsOf

LEMMA EmptyAnswerIsConfined ==
    ASSUME Shape, NEW c \in Callers, NEW T, Reply(c, Success({})),
           UNCHANGED <<storeVars, inflight>>
    PROVE  Confined(c, T)
BY AnswerIsConfined, NoWriteIsConfined, IdleIsConfined DEF Confined, storeVars, Shape

(* What a call to a stub does, whichever service it is for. *)
LEMMA CallsAreConfined ==
    ASSUME Shape, NEW c \in Callers, NEW m, NEW req,
           \/ SystemServiceClient(c, m)
           \/ ProjectServiceClient(c, m, req)
           \/ WorkflowServiceClient(c, m, req)
           \/ ReflectionClient(c)
    PROVE  Confined(c, TenantsOf(c)) /\ UNCHANGED conn
<1>1. conn[c] # NoConnection /\ UNCHANGED conn
  BY DEF SystemServiceClient, ProjectServiceClient, WorkflowServiceClient, ReflectionClient, MayCall
<1>2. CASE (\E code : Fail(c, code)) /\ UNCHANGED inflight
  BY <1>1, <1>2, RefusalIsConfined
<1>3. CASE SystemServiceClient(c, m)
  <2>1. CASE SystemService(c, m)
    BY <1>1, <2>1, EmptyAnswerIsConfined DEF SystemService
  <2> QED
    BY <1>2, <1>3, <2>1 DEF SystemServiceClient, Unreachable, Unauthenticated
<1>4. CASE ReflectionClient(c)
  <2>1. CASE Reply(c, Success({})) /\ UNCHANGED <<storeVars, inflight>>
    BY <1>1, <2>1, EmptyAnswerIsConfined
  <2> QED
    BY <1>2, <1>4, <2>1 DEF ReflectionClient
<1>5. CASE ProjectServiceClient(c, m, req)
  <2> DEFINE id == IdentityFor(c, FullMethod(ProjectServiceDesc, m))
  <2>1. CASE id # Refused /\ HasStore(c) /\ ProjectServiceHandler(c, id, m, req)
    <3>1. resolveTenant(id, "") \in TenantsOf(c)
      <4>1. ResourceMethod(ProjectServiceDesc, m)
        BY DEF ResourceMethod
      <4> QED
        BY <1>1, <2>1, <4>1, HandlerTenant
    <3> HIDE DEF id
    <3>2. Confined(c, TenantsOf(c))
      BY <2>1, <3>1, ProjectHandlersAreConfined
    <3> QED
      BY <1>1, <3>2
  <2> QED
    BY <1>2, <1>5, <2>1 DEF ProjectServiceClient, Unreachable, Unauthenticated, UnimplementedServer
<1>6. CASE WorkflowServiceClient(c, m, req)
  <2> DEFINE id == IdentityFor(c, FullMethod(WorkflowServiceDesc, m))
  <2>1. CASE id # Refused /\ HasStore(c) /\ WorkflowServiceHandler(c, id, m, req)
    <3>1. resolveTenant(id, "") \in TenantsOf(c)
      <4>1. ResourceMethod(WorkflowServiceDesc, m)
        BY DEF ResourceMethod
      <4> QED
        BY <1>1, <2>1, <4>1, HandlerTenant
    <3> HIDE DEF id
    <3>2. Confined(c, TenantsOf(c))
      BY <2>1, <3>1, WorkflowHandlersAreConfined
    <3> QED
      BY <1>1, <3>2
  <2> QED
    BY <1>2, <1>6, <2>1 DEF WorkflowServiceClient, Unreachable, Unauthenticated, UnimplementedServer
<1> QED
  BY <1>3, <1>4, <1>5, <1>6

-----------------------------------------------------------------------------
(* Steps of the whole system, as the table and its callers see them. *)

Leave(c) ==
    /\ answer' = [answer EXCEPT ![c] = NoAnswer]
    /\ UNCHANGED <<storeVars, conn, inflight>>

Talk(c) ==
    \/ \E m, req :
          \/ SystemServiceClient(c, m)
          \/ ProjectServiceClient(c, m, req)
          \/ WorkflowServiceClient(c, m, req)
          \/ ReflectionClient(c)
    \/ HandlerStep(c)

CallerStep(c) == (\E connection \in Connections : Dial(c, connection)) \/ Leave(c) \/ Talk(c)

LEMMA ExitsLeave == ASSUME NEW t, NEW code, Exit(t, code) PROVE Leave(t)
BY DEF Exit, Leave

LEMMA TerminalsCall ==
    ASSUME NEW t \in Terminals, TerminalStep(t)
    PROVE  CallerStep(t) \/ UNCHANGED rpcVars
<1>1. CASE \E cmd \in CommandLines : StartApply(t, cmd) \/ StartGet(t, cmd)
  <2>1. PICK cmd \in CommandLines : StartApply(t, cmd) \/ StartGet(t, cmd)
    BY <1>1
  <2>2. cmd.conn \in Connections
    BY <2>1, CommandAssumption DEF StartApply, StartGet
  <2>3. (\E code : Exit(t, code)) \/ Dial(t, cmd.conn)
    BY <2>1 DEF StartApply, StartGet
  <2> QED
    BY <2>2, <2>3, ExitsLeave DEF CallerStep
<1>2. CASE \E code : Exit(t, code)
  BY <1>2, ExitsLeave DEF CallerStep
<1>3. CASE LookUp(t)
  BY <1>3 DEF LookUp, CallerStep, Talk
<1>4. CASE Write(t)
  BY <1>4 DEF Write, applyProject, applyWorkflow, CallerStep, Talk
<1>5. CASE Ask(t)
  BY <1>5 DEF Ask, getProjects, getWorkflows, CallerStep, Talk
<1>6. CASE ServerStep(t)
  BY <1>6 DEF ServerStep, CallerStep, Talk
<1>7. CASE UNCHANGED rpcVars
  BY <1>7
<1> QED
  BY <1>1, <1>2, <1>3, <1>4, <1>5, <1>6, <1>7
  DEF TerminalStep, VersionCommand, ServerCommand, LookUpFailed, NextDocument, PrintAnswer,
      PrintError, Deadline

LEMMA CallersStep ==
    ASSUME [CliNext]_allVars
    PROVE  UNCHANGED rpcVars \/ \E c \in Callers : CallerStep(c)
<1>1. ASSUME NEW t \in Terminals, TerminalStep(t)
      PROVE  UNCHANGED rpcVars \/ \E c \in Callers : CallerStep(c)
  BY <1>1, TerminalsCall, TerminalAssumption
<1>2. ASSUME NEW c \in Callers \ Terminals, ApiStep(c)
      PROVE  CallerStep(c)
  BY <1>2 DEF ApiStep, CallerStep, Talk
<1>3. CASE UNCHANGED allVars
  BY <1>3 DEF allVars
<1> QED
  BY <1>1, <1>2, <1>3 DEF CliNext

LEMMA TalkIsConfined ==
    ASSUME HomeInv, NEW c \in Callers, Talk(c)
    PROVE  Confined(c, TenantsOf(c)) /\ UNCHANGED conn
<1>1. CASE HandlerStep(c)
  BY <1>1, SecondCallsAreConfined DEF HandlerStep
<1>2. ASSUME NEW m, NEW req,
             \/ SystemServiceClient(c, m)
             \/ ProjectServiceClient(c, m, req)
             \/ WorkflowServiceClient(c, m, req)
             \/ ReflectionClient(c)
      PROVE  Confined(c, TenantsOf(c)) /\ UNCHANGED conn
  BY <1>2, CallsAreConfined DEF HomeInv
<1> QED
  BY <1>1, <1>2 DEF Talk

LEMMA TenantsFollowConnections ==
    ASSUME NEW c, conn'[c] = conn[c]
    PROVE  TenantsOf(c)' = TenantsOf(c)
BY DEF TenantsOf, HasStore, ServerOf, IdentityFor

(* Dialling and leaving touch neither the table nor a handler. *)
LEMMA DialKeepsHome ==
    ASSUME HomeInv, NEW c \in Callers,
           (\E connection \in Connections : Dial(c, connection)) \/ Leave(c)
    PROVE  HomeInv' /\ UNCHANGED rows
<1> USE DEF HomeInv, Shape
<1> DEFINE OnlyConnects ==
              /\ UNCHANGED <<storeVars, inflight>>
              /\ answer' = [answer EXCEPT ![c] = NoAnswer]
              /\ conn' \in [Callers -> Connections \union {NoConnection}]
              /\ \A d \in Callers : conn'[d] = conn[d] \/ (d = c /\ Idle(d))
<1>1. OnlyConnects
  <2>1. ASSUME NEW connection \in Connections, Dial(c, connection)
        PROVE  OnlyConnects
    BY <2>1 DEF Dial
  <2>2. CASE Leave(c)
    BY <2>2 DEF Leave
  <2> QED
    BY <2>1, <2>2
<1>2. HandlersStayHome'
  <2> SUFFICES ASSUME NEW d \in Callers, ~Idle(d)'
               PROVE  (inflight[d].key.tenant \in TenantsOf(d))'
    BY DEF HandlersStayHome
  <2>1. ~Idle(d) /\ conn'[d] = conn[d] /\ inflight'[d] = inflight[d]
    BY <1>1 DEF Idle
  <2> QED
    BY <2>1, TenantsFollowConnections DEF HandlersStayHome
<1>3. AnswersShowOwnTenant'
  <2> SUFFICES ASSUME NEW d \in Callers, answer'[d] # NoAnswer,
                      NEW obj \in answer'[d].items
               PROVE  obj.metadata.tenantId \in TenantsOf(d)'
    BY DEF AnswersShowOwnTenant
  <2>1. d # c /\ answer'[d] = answer[d] /\ conn'[d] = conn[d]
    BY <1>1
  <2> QED
    BY <2>1, TenantsFollowConnections DEF AnswersShowOwnTenant
<1> QED
  BY <1>1, <1>2, <1>3 DEF storeVars

LEMMA TalkKeepsHome ==
    ASSUME HomeInv, NEW c \in Callers, Confined(c, TenantsOf(c)), UNCHANGED conn
    PROVE  HomeInv'
<1> USE DEF HomeInv
<1>1. \A d \in Callers : TenantsOf(d)' = TenantsOf(d)
  BY TenantsFollowConnections
<1>2. Shape'
  BY DEF Shape, Confined, TableConfined, AnswerConfined, HandlerConfined
<1>3. HandlersStayHome'
  <2> SUFFICES ASSUME NEW d \in Callers, inflight'[d] # NoCall
               PROVE  inflight'[d].key.tenant \in TenantsOf(d)
    BY <1>1 DEF HandlersStayHome, Idle
  <2>1. CASE inflight'[d] = inflight[d]
    BY <2>1 DEF HandlersStayHome, Idle
  <2>2. CASE inflight'[d] # inflight[d]
    BY <2>2 DEF Confined, HandlerConfined
  <2> QED
    BY <2>1, <2>2
<1>4. AnswersShowOwnTenant'
  <2> SUFFICES ASSUME NEW d \in Callers, answer'[d] # NoAnswer, NEW obj \in answer'[d].items
               PROVE  obj.metadata.tenantId \in TenantsOf(d)
    BY <1>1 DEF AnswersShowOwnTenant
  <2>1. CASE answer'[d] = answer[d]
    BY <2>1 DEF AnswersShowOwnTenant
  <2>2. CASE answer'[d] # answer[d]
    BY <2>2 DEF Confined, AnswerConfined
  <2> QED
    BY <2>1, <2>2
<1> QED
  BY <1>2, <1>3, <1>4

LEMMA HomeInvInit == CliInit => HomeInv
BY DEF CliInit, RpcInit, HomeInv, Shape, HandlersStayHome, AnswersShowOwnTenant, Idle

LEMMA HomeInvStep ==
    ASSUME HomeInv, [CliNext]_allVars
    PROVE  HomeInv'
<1>1. CASE UNCHANGED rpcVars
  <2>1. \A c \in Callers : TenantsOf(c)' = TenantsOf(c)
    BY <1>1, TenantsFollowConnections DEF rpcVars
  <2> QED
    BY <1>1, <2>1 DEF rpcVars, storeVars, HomeInv, Shape, HandlersStayHome, AnswersShowOwnTenant, Idle
<1>2. ASSUME NEW c \in Callers, CallerStep(c)
      PROVE  HomeInv'
  BY <1>2, DialKeepsHome, TalkIsConfined, TalkKeepsHome DEF CallerStep
<1> QED
  BY <1>1, <1>2, CallersStep

LEMMA HomeInvariant == CliSpec => []HomeInv
BY HomeInvInit, HomeInvStep, PTL DEF CliSpec

-----------------------------------------------------------------------------
(* No caller is shown an object of a tenant its server does not take it    *)
(* for, whatever tenant its requests and objects name.                     *)
THEOREM AnswersStayInTheirTenant == CliSpec => []AnswersShowOwnTenant
<1>1. HomeInv => AnswersShowOwnTenant
  BY DEF HomeInv
<1> QED
  BY <1>1, HomeInvariant, PTL

(* No call changes a row of such a tenant, in either half of its handler.  *)
THEOREM CallsStayInTheirTenant == CliSpec => OwnTenantOnly
<1> DEFINE Own(c, k) == Served(c) /\ k.tenant \notin TenantsOf(c) => rows'[k] = rows[k]
<1>1. ASSUME HomeInv, [CliNext]_allVars
      PROVE  [\A c \in Callers, k \in Keys : Own(c, k)]_rpcVars
  <2> SUFFICES ASSUME NEW c \in Callers, NEW k \in Keys, ~UNCHANGED rpcVars
               PROVE  Own(c, k)
    OBVIOUS
  <2>1. PICK d \in Callers : CallerStep(d)
    BY <1>1, CallersStep
  <2>2. CASE UNCHANGED rows
    BY <2>2
  <2>3. CASE Talk(d)
    <3>1. Confined(d, TenantsOf(d))
      BY <1>1, <2>3, TalkIsConfined
    <3>2. d # c => ~Served(c)
      BY <3>1 DEF Confined, AnswerConfined, HandlerConfined, Served
    <3>3. d = c /\ k.tenant \notin TenantsOf(c) => rows'[k] = rows[k]
      BY <3>1 DEF Confined, TableConfined
    <3> QED
      BY <3>2, <3>3
  <2> QED
    BY <1>1, <2>1, <2>2, <2>3, DialKeepsHome DEF CallerStep
<1> QED
  BY <1>1, HomeInvariant, PTL DEF CliSpec, OwnTenantOnly

-----------------------------------------------------------------------------
(* Types of the table. *)

SpecsOf(k) == IF k.kind = "Project" THEN ProjectSpecs ELSE WorkflowSpecs

(* Rows and held updates carry a spec of their kind.                       *)
RowsInv ==
    /\ rows \in [Keys -> Row \union {NoRow}]
    /\ nextUid \in Nat
    /\ \A k \in Keys : Present(k) =>
          k.tenant \in tenantsTable /\ rows[k].spec \in Optional(SpecsOf(k))

HandlersInv ==
    /\ inflight \in [Callers -> Pending \union {NoCall}]
    /\ \A c \in Callers : ~Idle(c) => inflight[c].spec \in Optional(SpecsOf(inflight[c].key))

AnswersInv ==
    /\ DOMAIN answer = Callers
    /\ \A c \in Callers : answer[c] # NoAnswer => answer[c].code \in Codes

TableInv ==
    /\ RowsInv
    /\ HandlersInv
    /\ AnswersInv
    /\ conn \in [Callers -> Connections \union {NoConnection}]

LEMMA TableInvTypes == TableInv => RpcTypeOK
BY DEF TableInv, RowsInv, HandlersInv, AnswersInv, RpcTypeOK

LEMMA KeysOfKinds ==
    ASSUME NEW t \in Tenants
    PROVE  /\ \A p \in Projects :
                 /\ ProjectKey(t, p) \in ProjectKeys /\ ProjectKey(t, p) \in Keys
                 /\ SpecsOf(ProjectKey(t, p)) = ProjectSpecs
           /\ \A p \in Projects, n \in Names :
                 /\ WorkflowKey(t, p, n) \in WorkflowKeys /\ WorkflowKey(t, p, n) \in Keys
                 /\ SpecsOf(WorkflowKey(t, p, n)) = WorkflowSpecs
<1>1. \A p \in Projects : ProjectKey(t, p) \in ProjectKeys
  BY DEF ProjectKeys
<1>2. \A p \in Projects, n \in Names : WorkflowKey(t, p, n) \in WorkflowKeys
  BY DEF WorkflowKeys
<1>3. \A p : ProjectKey(t, p).kind = "Project"
  BY DEF ProjectKey
<1>4. \A p, n : WorkflowKey(t, p, n).kind = "Workflow"
  BY DEF WorkflowKey
<1> QED
  BY <1>1, <1>2, <1>3, <1>4 DEF Keys, SpecsOf

(* The parts of a key, by its kind.                                        *)
LEMMA PartsOfKeys ==
    ASSUME NEW k \in Keys
    PROVE  /\ k.tenant \in Tenants
           /\ \/ k.kind = "Project" /\ k.project = "" /\ k.name \in Projects
              \/ k.kind = "Workflow" /\ k.project \in Projects /\ k.name \in Names
           /\ k \in ProjectKeys => k.kind = "Project"
           /\ k \in WorkflowKeys => k.kind = "Workflow"
<1>1. ASSUME k \in ProjectKeys
      PROVE  k.tenant \in Tenants /\ k.kind = "Project" /\ k.project = "" /\ k.name \in Projects
  <2>1. PICK t \in Tenants, p \in Projects : k = ProjectKey(t, p)
    BY <1>1 DEF ProjectKeys
  <2> QED
    BY <2>1 DEF ProjectKey
<1>2. ASSUME k \in WorkflowKeys
      PROVE  k.tenant \in Tenants /\ k.kind = "Workflow" /\ k.project \in Projects /\ k.name \in Names
  <2>1. PICK t \in Tenants, p \in Projects, n \in Names : k = WorkflowKey(t, p, n)
    BY <1>2 DEF WorkflowKeys
  <2> QED
    BY <2>1 DEF WorkflowKey
<1> QED
  BY <1>1, <1>2 DEF Keys

LEMMA SpecsOfAreSpecs ==
    ASSUME NEW k
    PROVE  Optional(SpecsOf(k)) \subseteq Optional(ProjectSpecs \union WorkflowSpecs)
BY DEF SpecsOf, Optional

(* Storing a typed row under a key of a known tenant.                      *)
LEMMA WriteKeepsRows ==
    ASSUME RowsInv, NEW k \in Keys, k.tenant \in tenantsTable,
           NEW uid \in Nat, NEW rv \in Nat \ {0}, NEW gen \in Nat \ {0},
           NEW spec \in Optional(SpecsOf(k)), NEW status \in Optional(Statuses),
           rows' = [rows EXCEPT ![k] = NewRow(uid, rv, gen, spec, status)], nextUid' \in Nat
    PROVE  RowsInv'
<1>1. spec \in Optional(ProjectSpecs \union WorkflowSpecs)
  BY SpecsOfAreSpecs
<1>2. NewRow(uid, rv, gen, spec, status) \in Row /\ NewRow(uid, rv, gen, spec, status).spec = spec
  BY <1>1 DEF NewRow, Row
<1> QED
  BY <1>2 DEF RowsInv, Present

LEMMA ReplyKeepsAnswers ==
    ASSUME AnswersInv, NEW c \in Callers, NEW a, Reply(c, a), a.code \in Codes
    PROVE  AnswersInv'
BY DEF AnswersInv, Reply

LEMMA SuccessIsOK == \A items : Success(items).code = "OK" /\ Success(items).items = items
BY DEF Success

(* The codes of the errors handlers answer with.                           *)
FailureCodes == Codes \ {"OK"}

LEMMA StoreErrorsAreFailures == \A err : storeErr(err) \in FailureCodes
BY DEF storeErr, FailureCodes, Codes

LEMMA FailKeepsTypes ==
    ASSUME RowsInv, AnswersInv, NEW c \in Callers, NEW code \in FailureCodes, Fail(c, code)
    PROVE  RowsInv' /\ AnswersInv'
<1>1. AnswersInv'
  BY ReplyKeepsAnswers DEF Fail, Failure, FailureCodes
<1> QED
  BY <1>1 DEF Fail, storeVars, RowsInv, Present

LEMMA ShowKeepsAnswers ==
    ASSUME AnswersInv, NEW c \in Callers, NEW k, Show(c, k) \/ ShowWritten(c, k)
    PROVE  AnswersInv'
<1>1. "OK" \in Codes
  BY DEF Codes
<1> QED
  BY <1>1, ReplyKeepsAnswers, SuccessIsOK DEF Show, ShowWritten

LEMMA InsertKeepsTypes ==
    ASSUME RowsInv, AnswersInv, NEW c \in Callers, NEW k \in Keys, NEW gen \in Nat \ {0},
           NEW spec \in Optional(SpecsOf(k)), Insert(c, k, gen, spec)
    PROVE  RowsInv' /\ AnswersInv'
<1>1. CASE \E err : Fail(c, storeErr(err))
  BY <1>1, FailKeepsTypes, StoreErrorsAreFailures
<1>2. CASE k.tenant \in tenantsTable /\ Create(k, gen, spec, Nil) /\ ShowWritten(c, k)
  <2>1. initialVersion \in Nat \ {0} /\ Nil \in Optional(Statuses)
    BY DEF initialVersion, Optional
  <2>2. nextUid \in Nat /\ nextUid' \in Nat
    BY <1>2 DEF RowsInv, Create
  <2>3. RowsInv'
    BY <1>2, <2>1, <2>2, WriteKeepsRows DEF Create
  <2> QED
    BY <1>2, <2>3, ShowKeepsAnswers
<1> QED
  BY <1>1, <1>2 DEF Insert

LEMMA LookupKeepsTypes ==
    ASSUME RowsInv, AnswersInv, NEW c \in Callers, NEW k, Lookup(c, k)
    PROVE  RowsInv' /\ AnswersInv'
<1>1. CASE \E err : Fail(c, storeErr(err))
  BY <1>1, FailKeepsTypes, StoreErrorsAreFailures
<1>2. CASE Show(c, k) /\ UNCHANGED storeVars
  BY <1>2, ShowKeepsAnswers DEF storeVars, RowsInv, Present
<1> QED
  BY <1>1, <1>2 DEF Lookup

LEMMA RemoveKeepsTypes ==
    ASSUME RowsInv, AnswersInv, NEW c \in Callers, NEW k \in Keys, Remove(c, k)
    PROVE  RowsInv' /\ AnswersInv'
<1>1. CASE \E err : Fail(c, storeErr(err))
  BY <1>1, FailKeepsTypes, StoreErrorsAreFailures
<1>2. CASE Delete(k) /\ Show(c, k)
  BY <1>2, ShowKeepsAnswers DEF Delete, RowsInv, Present
<1> QED
  BY <1>1, <1>2 DEF Remove

LEMMA ListKeepsTypes ==
    ASSUME RowsInv, AnswersInv, NEW c \in Callers, NEW keys, List(c, keys)
    PROVE  RowsInv' /\ AnswersInv'
<1>1. "OK" \in Codes
  BY DEF Codes
<1>2. AnswersInv'
  BY <1>1, ReplyKeepsAnswers, SuccessIsOK DEF List
<1> QED
  BY <1>2 DEF List, storeVars, RowsInv, Present

LEMMA HoldKeepsTypes ==
    ASSUME RowsInv, HandlersInv, AnswersInv, NEW c \in Callers, NEW pending \in Pending,
           pending.spec \in Optional(SpecsOf(pending.key)), Hold(c, pending)
    PROVE  RowsInv' /\ HandlersInv' /\ AnswersInv'
<1>1. HandlersInv'
  BY DEF Hold, HandlersInv, Idle
<1> QED
  BY <1>1 DEF Hold, storeVars, RowsInv, AnswersInv, Present

LEMMA ReviseKeepsTypes ==
    ASSUME RowsInv, HandlersInv, AnswersInv, NEW c \in Callers, NEW k \in Keys, NEW obj,
           GetResourceVersion(GetMetadata(obj)) \in Nat, obj.spec \in Optional(SpecsOf(k)),
           obj.status \in Optional(Statuses), Revise(c, k, obj)
    PROVE  RowsInv' /\ HandlersInv' /\ AnswersInv'
<1> DEFINE gen == rows[k].gen + (IF obj.spec = rows[k].spec THEN 0 ELSE 1)
           pending == [op |-> "update", key |-> k, rv |-> GetResourceVersion(GetMetadata(obj)),
                       gen |-> gen, spec |-> obj.spec, status |-> obj.status]
<1>1. CASE Fail(c, storeErr("ErrNotFound")) /\ UNCHANGED inflight
  BY <1>1, FailKeepsTypes, StoreErrorsAreFailures DEF HandlersInv, Idle
<1>2. CASE Present(k) /\ Hold(c, pending)
  <2>1. rows[k].gen \in Nat \ {0}
    BY <1>2 DEF RowsInv, Present, Row
  <2>2. gen \in Nat \ {0}
    BY <2>1
  <2> HIDE DEF gen
  <2>3. pending \in Pending /\ pending.spec \in Optional(SpecsOf(pending.key))
    BY <2>2, SpecsOfAreSpecs DEF Pending
  <2> HIDE DEF pending
  <2> QED
    BY <1>2, <2>3, HoldKeepsTypes
<1> QED
  BY <1>1, <1>2 DEF Revise

-----------------------------------------------------------------------------
(* Types of messages and requests. *)

(* Messages of a kind with a name: what a document can ask for and an      *)
(* answer can show.                                                        *)
Objects(kind) == {obj \in MessageOf(kind) : GetName(GetMetadata(obj)) # ""}

LEMMA MetadataParts ==
    ASSUME NEW names, NEW meta \in Optional(ObjectMeta(names))
    PROVE  /\ GetName(meta) \in Text(names)
           /\ GetProject(meta) \in Text(Projects)
           /\ GetTenantId(meta) \in Text(Tenants)
           /\ GetResourceVersion(meta) \in Nat
BY DEF Optional, Text, ObjectMeta, Getter, GetName, GetProject, GetTenantId, GetResourceVersion

LEMMA ProjectParts ==
    ASSUME NEW p \in Optional(Project)
    PROVE  /\ GetMetadata(p) \in Optional(ObjectMeta(Projects))
           /\ GetName(GetMetadata(p)) \in Text(Projects)
           /\ GetResourceVersion(GetMetadata(p)) \in Nat
           /\ GetSpec(p) \in Optional(ProjectSpecs)
           /\ GetMetadata(p) # Nil =>
                 /\ p \in Project
                 /\ p.spec = GetSpec(p) /\ p.status \in Optional(Statuses)
<1>1. GetMetadata(p) \in Optional(ObjectMeta(Projects))
  BY DEF Optional, Project, Getter, GetMetadata
<1>2. GetSpec(p) \in Optional(ProjectSpecs)
  BY DEF Optional, Project, Getter, GetSpec
<1>3. GetMetadata(p) # Nil =>
         p \in Project /\ p.spec = GetSpec(p) /\ p.status \in Optional(Statuses)
  BY DEF Optional, Project, Getter, GetMetadata, GetSpec
<1> QED
  BY <1>1, <1>2, <1>3, MetadataParts

LEMMA WorkflowParts ==
    ASSUME NEW w \in Optional(Workflow)
    PROVE  /\ GetMetadata(w) \in Optional(ObjectMeta(Names))
           /\ GetName(GetMetadata(w)) \in Text(Names)
           /\ GetProject(GetMetadata(w)) \in Text(Projects)
           /\ GetResourceVersion(GetMetadata(w)) \in Nat
           /\ GetSpec(w) \in Optional(WorkflowSpecs)
           /\ GetMetadata(w) # Nil =>
                 /\ w \in Workflow
                 /\ w.spec = GetSpec(w) /\ w.status \in Optional(Statuses)
<1>1. GetMetadata(w) \in Optional(ObjectMeta(Names))
  BY DEF Optional, Workflow, Getter, GetMetadata
<1>2. GetSpec(w) \in Optional(WorkflowSpecs)
  BY DEF Optional, Workflow, Getter, GetSpec
<1>3. GetMetadata(w) # Nil =>
         w \in Workflow /\ w.spec = GetSpec(w) /\ w.status \in Optional(Statuses)
  BY DEF Optional, Workflow, Getter, GetMetadata, GetSpec
<1> QED
  BY <1>1, <1>2, <1>3, MetadataParts

(* A call carries the request type of its method; the system and the       *)
(* reflection methods carry none.                                          *)
Typed(m, req) == m \in DOMAIN Request => req \in Request[m]

LEMMA RequestTypes ==
    ASSUME NEW req
    PROVE  /\ Typed("CreateProject", req) <=> req \in CreateProjectRequest
           /\ Typed("GetProject", req) <=> req \in GetProjectRequest
           /\ Typed("ListProjects", req) <=> req \in ListProjectsRequest
           /\ Typed("UpdateProject", req) <=> req \in UpdateProjectRequest
           /\ Typed("DeleteProject", req) <=> req \in DeleteProjectRequest
           /\ Typed("CreateWorkflow", req) <=> req \in CreateWorkflowRequest
           /\ Typed("GetWorkflow", req) <=> req \in GetWorkflowRequest
           /\ Typed("ListWorkflows", req) <=> req \in ListWorkflowsRequest
           /\ Typed("UpdateWorkflow", req) <=> req \in UpdateWorkflowRequest
           /\ Typed("DeleteWorkflow", req) <=> req \in DeleteWorkflowRequest
BY DEF Typed, Request

(* The tenant a handler works for is a tenant, whatever is asked for.      *)
LEMMA HandlersHaveTenants ==
    ASSUME Shape, NEW c \in Callers, conn[c] # NoConnection, NEW method, NEW requested,
           IdentityFor(c, method) # Refused
    PROVE  resolveTenant(IdentityFor(c, method), requested) \in Tenants
<1> DEFINE id == IdentityFor(c, method)
           interceptor == ServerOf(c).interceptor
<1>1. conn[c].server \in Servers
  BY ConnectionAssumption DEF Shape
<1>2. interceptor # NoInterceptor /\ interceptor.provider.name # "local-dev" =>
         interceptor.provider.tenant \in Text(Tenants)
  BY <1>1, ProviderAssumption DEF ServerOf
<1>3. CASE id = NoIdentity
  BY <1>3, TenantAssumption DEF resolveTenant
<1>4. CASE id # NoIdentity
  <2>1. interceptor # NoInterceptor /\ id = authenticate(interceptor.provider, conn[c].header)
    BY <1>4 DEF IdentityFor, Unary
  <2>2. CASE interceptor.provider.name = "local-dev"
    <3>1. id.tenant = DefaultTenant
      BY <2>1, <2>2 DEF authenticate, AuthenticateLocalDev, Identity
    <3> QED
      BY <3>1, TenantAssumption DEF resolveTenant
  <2>3. CASE interceptor.provider.name # "local-dev"
    <3>1. id = Identity("static-token", interceptor.provider.tenant)
      BY <2>1, <2>3 DEF authenticate, AuthenticateStaticToken
    <3>2. id.tenant \in Text(Tenants)
      BY <1>2, <2>1, <2>3, <3>1 DEF Identity
    <3> QED
      BY <3>2, TenantAssumption DEF resolveTenant, Text
  <2> QED
    BY <2>2, <2>3
<1> QED
  BY <1>3, <1>4

(* What a call to a stub comes to: a refusal without effect, or the        *)
(* handler of its method, for an identity that stands for a tenant.        *)
Refuses(c) == \E code \in FailureCodes : Fail(c, code) /\ UNCHANGED inflight

StandsForTenant(id) == \A requested : resolveTenant(id, requested) \in Tenants

LEMMA CallsReachHandlers ==
    ASSUME Shape, NEW c \in Callers, NEW m, NEW req
    PROVE  /\ ProjectServiceClient(c, m, req) =>
                 /\ Idle(c) /\ UNCHANGED conn
                 /\ \/ Refuses(c)
                    \/ \E id : StandsForTenant(id) /\ ProjectServiceHandler(c, id, m, req)
           /\ WorkflowServiceClient(c, m, req) =>
                 /\ Idle(c) /\ UNCHANGED conn
                 /\ \/ Refuses(c)
                    \/ \E id : StandsForTenant(id) /\ WorkflowServiceHandler(c, id, m, req)
<1>1. "Unavailable" \in FailureCodes /\ "Unauthenticated" \in FailureCodes
      /\ "Unimplemented" \in FailureCodes
  BY DEF FailureCodes, Codes
<1>2. ASSUME MayCall(c), NEW method, IdentityFor(c, method) # Refused
      PROVE  StandsForTenant(IdentityFor(c, method))
  BY <1>2, HandlersHaveTenants DEF MayCall, StandsForTenant
<1>3. Unreachable(c) \/ UnimplementedServer(c) \/ (\E method : Unauthenticated(c, method)) => Refuses(c)
  BY <1>1 DEF Unreachable, UnimplementedServer, Unauthenticated, Refuses
<1>4. ASSUME ProjectServiceClient(c, m, req)
      PROVE  \/ Refuses(c)
             \/ \E id : StandsForTenant(id) /\ ProjectServiceHandler(c, id, m, req)
  BY <1>2, <1>3, <1>4 DEF ProjectServiceClient
<1>5. ASSUME WorkflowServiceClient(c, m, req)
      PROVE  \/ Refuses(c)
             \/ \E id : StandsForTenant(id) /\ WorkflowServiceHandler(c, id, m, req)
  BY <1>2, <1>3, <1>5 DEF WorkflowServiceClient
<1> QED
  BY <1>4, <1>5 DEF ProjectServiceClient, WorkflowServiceClient, MayCall

-----------------------------------------------------------------------------
(* Calls keep the types. *)

CallInv == RowsInv /\ HandlersInv /\ AnswersInv

LEMMA RefusalKeepsTypes ==
    ASSUME CallInv, NEW c \in Callers, Refuses(c)
    PROVE  CallInv'
<1>1. PICK code \in FailureCodes : Fail(c, code) /\ UNCHANGED inflight
  BY DEF Refuses
<1>2. RowsInv' /\ AnswersInv'
  BY <1>1, FailKeepsTypes DEF CallInv
<1> QED
  BY <1>1, <1>2 DEF CallInv, HandlersInv, Idle

LEMMA RefusalCodes ==
    /\ "InvalidArgument" \in FailureCodes /\ "FailedPrecondition" \in FailureCodes
    /\ "DeadlineExceeded" \in FailureCodes
BY DEF FailureCodes, Codes

LEMMA ProjectHandlersKeepTypes ==
    ASSUME CallInv, NEW c \in Callers, NEW id, StandsForTenant(id), NEW m, NEW req, Typed(m, req),
           ProjectServiceHandler(c, id, m, req)
    PROVE  CallInv'
<1> DEFINE tenant(requested) == resolveTenant(id, requested)
<1>1. \A requested : tenant(requested) \in Tenants
  BY DEF StandsForTenant
<1>2. \A requested : \A p \in Projects :
         /\ ProjectKey(tenant(requested), p) \in Keys
         /\ SpecsOf(ProjectKey(tenant(requested), p)) = ProjectSpecs
  BY <1>1, KeysOfKinds
<1> HIDE DEF tenant
<1>3. CASE Refuses(c)
  BY <1>3, RefusalKeepsTypes
<1>4. ASSUME UNCHANGED inflight, RowsInv' /\ AnswersInv'
      PROVE  CallInv'
  BY <1>4 DEF CallInv, HandlersInv, Idle
<1>5. CASE m = "CreateProject" /\ CreateProject(c, id, req)
  <2>1. req.project \in Optional(Project)
    BY <1>5, RequestTypes DEF CreateProjectRequest
  <2> DEFINE meta == GetMetadata(req.project)
             k == ProjectKey(tenant(GetTenantId(meta)), GetName(meta))
  <2>2. CASE Fail(c, "InvalidArgument") /\ UNCHANGED inflight
    BY <1>3, <2>2, RefusalCodes DEF Refuses
  <2>3. CASE requireName(req.project) /\ Insert(c, k, 1, GetSpec(req.project)) /\ UNCHANGED inflight
    <3>1. GetName(meta) \in Projects
      BY <2>1, <2>3, ProjectParts DEF requireName, Text
    <3>2. k \in Keys /\ GetSpec(req.project) \in Optional(SpecsOf(k))
      BY <1>2, <2>1, <3>1, ProjectParts
    <3> HIDE DEF k
    <3>3. RowsInv /\ AnswersInv /\ 1 \in Nat \ {0}
      BY DEF CallInv
    <3>4. RowsInv' /\ AnswersInv'
      BY <2>3, <3>2, <3>3, InsertKeepsTypes
    <3> QED
      BY <1>4, <2>3, <3>4
  <2> QED
    BY <1>5, <2>2, <2>3 DEF CreateProject, tenant
<1>6. CASE m = "GetProject" /\ GetProjectByName(c, id, req)
  <2>1. CASE Fail(c, "InvalidArgument") /\ UNCHANGED inflight
    BY <1>3, <2>1, RefusalCodes DEF Refuses
  <2>2. CASE UNCHANGED inflight /\ \E k : Lookup(c, k)
    BY <1>4, <2>2, LookupKeepsTypes DEF CallInv
  <2> QED
    BY <1>6, <2>1, <2>2 DEF GetProjectByName
<1>7. CASE ListProjects(c, id, req)
  BY <1>4, <1>7, ListKeepsTypes DEF CallInv, ListProjects
<1>8. CASE m = "UpdateProject" /\ UpdateProject(c, id, req)
  <2>1. req.project \in Optional(Project)
    BY <1>8, RequestTypes DEF UpdateProjectRequest
  <2> DEFINE meta == GetMetadata(req.project)
             k == ProjectKey(tenant(GetTenantId(meta)), GetName(meta))
  <2>2. CASE Fail(c, "InvalidArgument") /\ UNCHANGED inflight
    BY <1>3, <2>2, RefusalCodes DEF Refuses
  <2>3. CASE requireName(req.project) /\ Revise(c, k, req.project)
    <3>1. GetName(meta) \in Projects /\ meta # Nil
      BY <2>1, <2>3, ProjectParts DEF requireName, Text
    <3>2. /\ k \in Keys
          /\ req.project.spec \in Optional(SpecsOf(k))
          /\ req.project.status \in Optional(Statuses)
          /\ GetResourceVersion(GetMetadata(req.project)) \in Nat
      BY <1>2, <2>1, <3>1, ProjectParts
    <3> HIDE DEF k
    <3>3. RowsInv /\ HandlersInv /\ AnswersInv
      BY DEF CallInv
    <3>4. RowsInv' /\ HandlersInv' /\ AnswersInv'
      BY <2>3, <3>2, <3>3, ReviseKeepsTypes
    <3> QED
      BY <3>4 DEF CallInv
  <2> QED
    BY <1>8, <2>2, <2>3 DEF UpdateProject, tenant
<1>9. CASE m = "DeleteProject" /\ DeleteProject(c, id, req)
  <2>1. req.name \in Text(Projects)
    BY <1>9, RequestTypes DEF DeleteProjectRequest
  <2> DEFINE k == ProjectKey(tenant(req.tenantId), req.name)
  <2>2. CASE Fail(c, "InvalidArgument") /\ UNCHANGED inflight
    BY <1>3, <2>2, RefusalCodes DEF Refuses
  <2>3. CASE req.name # "" /\ Remove(c, k) /\ UNCHANGED inflight
    <3>1. k \in Keys
      BY <1>2, <2>1, <2>3 DEF Text
    <3> HIDE DEF k
    <3>2. RowsInv /\ AnswersInv
      BY DEF CallInv
    <3>3. RowsInv' /\ AnswersInv'
      BY <2>3, <3>1, <3>2, RemoveKeepsTypes
    <3> QED
      BY <1>4, <2>3, <3>3
  <2> QED
    BY <1>9, <2>2, <2>3 DEF DeleteProject, tenant
<1> QED
  BY <1>5, <1>6, <1>7, <1>8, <1>9 DEF ProjectServiceHandler

LEMMA WorkflowHandlersKeepTypes ==
    ASSUME CallInv, NEW c \in Callers, NEW id, StandsForTenant(id), NEW m, NEW req, Typed(m, req),
           WorkflowServiceHandler(c, id, m, req)
    PROVE  CallInv'
<1> DEFINE tenant(requested) == resolveTenant(id, requested)
<1>1. \A requested : tenant(requested) \in Tenants
  BY DEF StandsForTenant
<1>2. \A requested : \A p \in Projects, n \in Names :
         /\ WorkflowKey(tenant(requested), p, n) \in Keys
         /\ SpecsOf(WorkflowKey(tenant(requested), p, n)) = WorkflowSpecs
  BY <1>1, KeysOfKinds
<1> HIDE DEF tenant
<1>3. CASE Refuses(c)
  BY <1>3, RefusalKeepsTypes
<1>4. ASSUME UNCHANGED inflight, RowsInv' /\ AnswersInv'
      PROVE  CallInv'
  BY <1>4 DEF CallInv, HandlersInv, Idle
<1>5. CASE m = "CreateWorkflow" /\ CreateWorkflow(c, id, req)
  <2>1. req.workflow \in Optional(Workflow)
    BY <1>5, RequestTypes DEF CreateWorkflowRequest
  <2> DEFINE w == req.workflow
             meta == GetMetadata(w)
             k == WorkflowKey(tenant(GetTenantId(meta)), GetProject(meta), GetName(meta))
             pending == [op |-> "create", key |-> k, rv |-> 0, gen |-> 1,
                         spec |-> GetSpec(w), status |-> Nil]
  <2>2. CASE Fail(c, "InvalidArgument") /\ UNCHANGED inflight
    BY <1>3, <2>2, RefusalCodes DEF Refuses
  <2>3. CASE Fail(c, "FailedPrecondition") /\ UNCHANGED inflight
    BY <1>3, <2>3, RefusalCodes DEF Refuses
  <2>4. CASE requireName(w) /\ GetProject(meta) # "" /\ Hold(c, pending)
    <3>1. GetName(meta) \in Names /\ GetProject(meta) \in Projects
      BY <2>1, <2>4, WorkflowParts DEF requireName, Text
    <3>2. k \in Keys /\ GetSpec(w) \in Optional(SpecsOf(k))
      BY <1>2, <2>1, <3>1, WorkflowParts
    <3> HIDE DEF k
    <3>3. Nil \in Optional(Statuses) /\ GetSpec(w) \in Optional(ProjectSpecs \union WorkflowSpecs)
      BY <3>2, SpecsOfAreSpecs DEF Optional
    <3>4. pending \in Pending /\ pending.spec \in Optional(SpecsOf(pending.key))
      BY <3>2, <3>3 DEF Pending
    <3> HIDE DEF pending
    <3> QED
      BY <2>4, <3>4, HoldKeepsTypes DEF CallInv
  <2> QED
    BY <1>5, <2>2, <2>3, <2>4 DEF CreateWorkflow, tenant
<1>6. CASE m = "GetWorkflow" /\ GetWorkflow(c, id, req)
  <2>1. CASE Fail(c, "InvalidArgument") /\ UNCHANGED inflight
    BY <1>3, <2>1, RefusalCodes DEF Refuses
  <2>2. CASE UNCHANGED inflight /\ \E k : Lookup(c, k)
    BY <1>4, <2>2, LookupKeepsTypes DEF CallInv
  <2> QED
    BY <1>6, <2>1, <2>2 DEF GetWorkflow
<1>7. CASE ListWorkflows(c, id, req)
  BY <1>4, <1>7, ListKeepsTypes DEF CallInv, ListWorkflows
<1>8. CASE m = "UpdateWorkflow" /\ UpdateWorkflow(c, id, req)
  <2>1. req.workflow \in Optional(Workflow)
    BY <1>8, RequestTypes DEF UpdateWorkflowRequest
  <2> DEFINE w == req.workflow
             meta == GetMetadata(w)
             k == WorkflowKey(tenant(GetTenantId(meta)), GetProject(meta), GetName(meta))
  <2>2. CASE Fail(c, "InvalidArgument") /\ UNCHANGED inflight
    BY <1>3, <2>2, RefusalCodes DEF Refuses
  <2>3. CASE requireName(w) /\ GetProject(meta) # "" /\ Revise(c, k, w)
    <3>1. GetName(meta) \in Names /\ GetProject(meta) \in Projects /\ meta # Nil
      BY <2>1, <2>3, WorkflowParts DEF requireName, Text
    <3>2. /\ k \in Keys
          /\ w.spec \in Optional(SpecsOf(k))
          /\ w.status \in Optional(Statuses)
          /\ GetResourceVersion(GetMetadata(w)) \in Nat
      BY <1>2, <2>1, <3>1, WorkflowParts
    <3> HIDE DEF k, w
    <3>3. RowsInv /\ HandlersInv /\ AnswersInv
      BY DEF CallInv
    <3>4. RowsInv' /\ HandlersInv' /\ AnswersInv'
      BY <2>3, <3>2, <3>3, ReviseKeepsTypes
    <3> QED
      BY <3>4 DEF CallInv
  <2> QED
    BY <1>8, <2>2, <2>3 DEF UpdateWorkflow, tenant
<1>9. CASE m = "DeleteWorkflow" /\ DeleteWorkflow(c, id, req)
  <2>1. req.name \in Text(Names) /\ req.project \in Text(Projects)
    BY <1>9, RequestTypes DEF DeleteWorkflowRequest
  <2> DEFINE k == WorkflowKey(tenant(req.tenantId), req.project, req.name)
  <2>2. CASE Fail(c, "InvalidArgument") /\ UNCHANGED inflight
    BY <1>3, <2>2, RefusalCodes DEF Refuses
  <2>3. CASE req.name # "" /\ req.project # "" /\ Remove(c, k) /\ UNCHANGED inflight
    <3>1. k \in Keys
      BY <1>2, <2>1, <2>3 DEF Text
    <3> HIDE DEF k
    <3>2. RowsInv /\ AnswersInv
      BY DEF CallInv
    <3>3. RowsInv' /\ AnswersInv'
      BY <2>3, <3>1, <3>2, RemoveKeepsTypes
    <3> QED
      BY <1>4, <2>3, <3>3
  <2> QED
    BY <1>9, <2>2, <2>3 DEF DeleteWorkflow, tenant
<1> QED
  BY <1>5, <1>6, <1>7, <1>8, <1>9 DEF WorkflowServiceHandler

LEMMA SecondCallsKeepTypes ==
    ASSUME CallInv, NEW c \in Callers, FinishCreate(c) \/ FinishUpdate(c) \/ CancelHandler(c)
    PROVE  CallInv'
<1> DEFINE u == inflight[c]
<1>1. /\ u \in Pending /\ u.spec \in Optional(SpecsOf(u.key))
      /\ RowsInv /\ HandlersInv /\ AnswersInv
  BY DEF CallInv, HandlersInv, Idle, FinishCreate, FinishUpdate, CancelHandler
<1>2. u.key \in Keys /\ u.gen \in Nat \ {0} /\ u.status \in Optional(Statuses)
  BY <1>1 DEF Pending
<1>3. HandlersInv'
  <2>1. EndHandler(c)
    BY DEF FinishCreate, FinishUpdate, CancelHandler
  <2> QED
    BY <1>1, <2>1 DEF HandlersInv, EndHandler, Idle
<1>4. ASSUME NEW code \in FailureCodes, Fail(c, code)
      PROVE  RowsInv' /\ AnswersInv'
  BY <1>1, <1>4, FailKeepsTypes
<1>5. CASE FinishCreate(c)
  <2>1. Insert(c, u.key, u.gen, u.spec)
    BY <1>5 DEF FinishCreate
  <2> HIDE DEF u
  <2> QED
    BY <1>1, <1>2, <1>3, <2>1, InsertKeepsTypes DEF CallInv
<1>6. CASE Update(u.key, u.rv, u.gen, u.spec, u.status) /\ ShowWritten(c, u.key)
  <2> DEFINE old == rows[u.key]
  <2>1. old \in Row /\ u.key.tenant \in tenantsTable
    BY <1>1, <1>2, <1>6 DEF RowsInv, Update, VersionMatches, Present
  <2>2. old.uid \in Nat /\ old.rv + 1 \in Nat \ {0}
    BY <2>1 DEF Row
  <2>3. rows' = [rows EXCEPT ![u.key] = NewRow(old.uid, old.rv + 1, u.gen, u.spec, u.status)]
        /\ nextUid' \in Nat
    BY <1>1, <1>6 DEF Update, RowsInv
  <2> HIDE DEF u, old
  <2>4. RowsInv'
    BY <1>1, <1>2, <2>1, <2>2, <2>3, WriteKeepsRows
  <2> QED
    BY <1>1, <1>3, <1>6, <2>4, ShowKeepsAnswers DEF CallInv
<1>7. CASE CancelHandler(c)
  BY <1>3, <1>4, <1>7, RefusalCodes DEF CancelHandler, CallInv
<1>8. CASE \E err : Fail(c, storeErr(err))
  BY <1>3, <1>4, <1>8, StoreErrorsAreFailures DEF CallInv
<1> QED
  BY <1>5, <1>6, <1>7, <1>8 DEF FinishUpdate

LEMMA TableShape == TableInv => Shape
BY DEF TableInv, RowsInv, HandlersInv, AnswersInv, Shape

LEMMA CallsKeepTypes ==
    ASSUME TableInv, NEW c \in Callers, NEW m, NEW req, Typed(m, req),
           \/ SystemServiceClient(c, m)
           \/ ProjectServiceClient(c, m, req)
           \/ WorkflowServiceClient(c, m, req)
           \/ ReflectionClient(c)
    PROVE  TableInv'
<1>1. CallInv /\ Shape
  BY TableShape DEF TableInv, CallInv
<1>2. UNCHANGED conn
  BY DEF SystemServiceClient, ProjectServiceClient, WorkflowServiceClient, ReflectionClient, MayCall
<1>3. CallInv'
  <2>1. CASE Refuses(c)
    BY <1>1, <2>1, RefusalKeepsTypes
  <2>2. CASE Reply(c, Success({})) /\ UNCHANGED <<storeVars, inflight>>
    <3>1. "OK" \in Codes /\ RowsInv /\ HandlersInv /\ AnswersInv
      BY <1>1 DEF Codes, CallInv
    <3>2. AnswersInv'
      BY <2>2, <3>1, ReplyKeepsAnswers, SuccessIsOK
    <3> QED
      BY <2>2, <3>1, <3>2 DEF CallInv, RowsInv, HandlersInv, storeVars, Present, Idle
  <2>3. "Unavailable" \in FailureCodes /\ "Unauthenticated" \in FailureCodes
    BY DEF FailureCodes, Codes
  <2>4. CASE SystemServiceClient(c, m)
    BY <2>1, <2>2, <2>3, <2>4
    DEF SystemServiceClient, SystemService, Unreachable, Unauthenticated, Refuses
  <2>5. CASE ReflectionClient(c)
    BY <2>1, <2>2, <2>3, <2>5 DEF ReflectionClient, Refuses
  <2>6. CASE ProjectServiceClient(c, m, req)
    BY <1>1, <2>1, <2>6, CallsReachHandlers, ProjectHandlersKeepTypes
  <2>7. CASE WorkflowServiceClient(c, m, req)
    BY <1>1, <2>1, <2>7, CallsReachHandlers, WorkflowHandlersKeepTypes
  <2> QED
    BY <2>4, <2>5, <2>6, <2>7
<1> QED
  BY <1>2, <1>3 DEF TableInv, CallInv

LEMMA HandlerStepsKeepTypes ==
    ASSUME TableInv, NEW c \in Callers, HandlerStep(c)
    PROVE  TableInv'
BY SecondCallsKeepTypes DEF TableInv, CallInv, HandlerStep

LEMMA ConnectingKeepsTypes ==
    ASSUME TableInv, NEW c \in Callers,
           (\E connection \in Connections : Dial(c, connection)) \/ Leave(c)
    PROVE  TableInv'
<1>1. AnswersInv'
  BY DEF Dial, Leave, TableInv, AnswersInv
<1>2. RowsInv' /\ HandlersInv'
  BY DEF Dial, Leave, TableInv, RowsInv, HandlersInv, storeVars, Present, Idle
<1>3. conn' \in [Callers -> Connections \union {NoConnection}]
  BY DEF Dial, Leave, TableInv
<1> QED
  BY <1>1, <1>2, <1>3 DEF TableInv

-----------------------------------------------------------------------------
(* Documents: the nth number of a set of them by rank.                     *)

LEMMA NumbersByRank ==
    ASSUME NEW S \in SUBSET Nat, IsFiniteSet(S)
    PROVE  /\ Cardinality(S) \in Nat
           /\ \A n \in 1 .. Cardinality(S) :
                 \E i \in S : Cardinality({j \in S : j <= i}) = n
           /\ \A i \in S : Cardinality({j \in S : j <= i}) \in 1 .. Cardinality(S)
           /\ \A i, j \in S : i < j =>
                 Cardinality({k \in S : k <= i}) < Cardinality({k \in S : k <= j})
<1> DEFINE n == Cardinality(S)
           UpTo(i) == {j \in S : j <= i}
           rank == [i \in S |-> Cardinality(UpTo(i))]
<1>1. n \in Nat
  BY FS_CardinalityType
<1>2. ASSUME NEW i \in S
      PROVE  /\ IsFiniteSet(UpTo(i))
             /\ i \in UpTo(i)
             /\ Cardinality(UpTo(i)) \in 1 .. n
  <2>1. UpTo(i) \in SUBSET S /\ i \in UpTo(i)
    OBVIOUS
  <2> HIDE DEF UpTo
  <2>2. IsFiniteSet(UpTo(i)) /\ Cardinality(UpTo(i)) <= n
    BY <2>1, FS_Subset
  <2>3. Cardinality(UpTo(i)) \in Nat /\ Cardinality(UpTo(i)) # 0
    BY <2>1, <2>2, FS_CardinalityType, FS_EmptySet
  <2> QED
    BY <1>1, <2>1, <2>2, <2>3
<1>3. ASSUME NEW i \in S, NEW j \in S, i < j
      PROVE  Cardinality(UpTo(i)) < Cardinality(UpTo(j))
  <2>1. UpTo(i) \subseteq UpTo(j)
    <3> SUFFICES ASSUME NEW k \in S, k <= i
                 PROVE  k <= j
      OBVIOUS
    <3>1. k \in Nat /\ i \in Nat /\ j \in Nat
      OBVIOUS
    <3> QED
      BY <1>3, <3>1
  <2>2. j \in UpTo(j) /\ j \notin UpTo(i)
    <3>1. i \in Nat /\ j \in Nat
      OBVIOUS
    <3> QED
      BY <1>3, <3>1
  <2> HIDE DEF UpTo
  <2>3. /\ Cardinality(UpTo(i)) <= Cardinality(UpTo(j))
        /\ Cardinality(UpTo(i)) # Cardinality(UpTo(j))
    BY <1>2, <2>1, <2>2, FS_Subset
  <2>4. Cardinality(UpTo(i)) \in Nat /\ Cardinality(UpTo(j)) \in Nat
    BY <1>2
  <2> QED
    BY <2>3, <2>4
<1> HIDE DEF UpTo
<1>4. rank \in Surjection(S, 1 .. n)
  <2>1. rank \in [S -> 1 .. n]
    BY <1>2
  <2>2. \A i, j \in S : rank[i] = rank[j] => i = j
    <3> TAKE i, j \in S
    <3>1. rank[i] \in Nat /\ rank[j] \in Nat /\ i \in Nat /\ j \in Nat
      BY <1>2
    <3>2. (i < j => rank[i] < rank[j]) /\ (j < i => rank[j] < rank[i])
      BY <1>3
    <3> HIDE DEF rank
    <3> QED
      BY <3>1, <3>2
  <2>3. rank \in Injection(S, 1 .. n)
    BY <2>1, <2>2, Fun_IsInj
  <2>4. IsFiniteSet(1 .. n) /\ Cardinality(1 .. n) = n
    BY <1>1, FS_Interval
  <2> DEFINE T == 1 .. n
  <2>5. rank \in Injection(S, T) /\ IsFiniteSet(T) /\ Cardinality(T) = Cardinality(S)
    BY <2>3, <2>4
  <2> HIDE DEF rank, T
  <2>6. rank \in Surjection(S, T)
    BY <2>5, FS_Injection, SMT
  <2> QED
    BY <2>6 DEF T
<1>5. \A m \in 1 .. n : \E i \in S : Cardinality(UpTo(i)) = m
  <2>1. \A m \in 1 .. n : \E i \in S : rank[i] = m
    <3> HIDE DEF rank
    <3> QED
      BY <1>4 DEF Surjection
  <2> QED
    BY <2>1
<1> QED
  BY <1>1, <1>2, <1>3, <1>5 DEF UpTo

(* Documents keeps the documents of a file that are not empty, all of them *)
(* and no other, in the order they have in the file.                       *)
LEMMA DocumentsOfFile ==
    ASSUME NEW S, NEW file \in Seq(S)
    PROVE  /\ Documents(file) \in Seq(S \ {EmptyDoc})
           /\ \A n \in DOMAIN Documents(file) : \E i \in DOMAIN file : Documents(file)[n] = file[i]
           /\ \A i \in DOMAIN file : file[i] # EmptyDoc =>
                 \E n \in DOMAIN Documents(file) : Documents(file)[n] = file[i]
           /\ Len(Documents(file)) = Cardinality({i \in DOMAIN file : file[i] # EmptyDoc})
           /\ \E place \in [DOMAIN Documents(file) -> DOMAIN file] :
                 /\ \A n \in DOMAIN Documents(file) : Documents(file)[n] = file[place[n]]
                 /\ \A m, n \in DOMAIN Documents(file) : m < n => place[m] < place[n]
<1> DEFINE kept == {i \in DOMAIN file : file[i] # EmptyDoc}
           Rank(i) == Cardinality({j \in kept : j <= i})
           docs == Documents(file)
<1>1. kept \in SUBSET Nat /\ IsFiniteSet(kept) /\ \A i \in kept : file[i] \in S \ {EmptyDoc}
  <2>1. DOMAIN file = 1 .. Len(file) /\ Len(file) \in Nat /\ \A i \in 1 .. Len(file) : file[i] \in S
    OBVIOUS
  <2>2. IsFiniteSet(1 .. Len(file)) /\ kept \in SUBSET (1 .. Len(file))
    BY <2>1, FS_Interval
  <2>3. IsFiniteSet(kept)
    BY <2>2, FS_Subset
  <2> QED
    BY <2>1, <2>3
<1>2. docs = [n \in 1 .. Cardinality(kept) |-> file[CHOOSE i \in kept : Rank(i) = n]]
  BY DEF Documents
<1>3. kept \subseteq DOMAIN file /\ \A i \in DOMAIN file : file[i] # EmptyDoc => i \in kept
  OBVIOUS
<1> HIDE DEF kept, docs
<1>4. /\ Cardinality(kept) \in Nat
      /\ \A n \in 1 .. Cardinality(kept) : \E i \in kept : Rank(i) = n
      /\ \A i \in kept : Rank(i) \in 1 .. Cardinality(kept)
      /\ \A i, j \in kept : i < j => Rank(i) < Rank(j)
  BY <1>1, NumbersByRank
<1> HIDE DEF Rank
<1>5. ASSUME NEW n \in 1 .. Cardinality(kept)
      PROVE  \E i \in kept : Rank(i) = n /\ docs[n] = file[i]
  BY <1>2, <1>4
<1>6. ASSUME NEW i \in kept
      PROVE  Rank(i) \in 1 .. Cardinality(kept) /\ docs[Rank(i)] = file[i]
  <2>1. PICK j \in kept : Rank(j) = Rank(i) /\ docs[Rank(i)] = file[j]
    BY <1>4, <1>5
  <2>2. j \in Nat /\ i \in Nat /\ Rank(i) \in Nat /\ Rank(j) \in Nat
    BY <1>1, <1>4
  <2>3. j = i
    BY <1>4, <2>1, <2>2
  <2> QED
    BY <1>4, <2>1, <2>3
<1>7. docs \in Seq(S \ {EmptyDoc}) /\ Len(docs) = Cardinality(kept)
      /\ DOMAIN docs = 1 .. Cardinality(kept)
  <2>1. docs \in [1 .. Cardinality(kept) -> S \ {EmptyDoc}]
    BY <1>1, <1>2, <1>5
  <2> QED
    BY <1>4, <2>1
<1> DEFINE place == [n \in 1 .. Cardinality(kept) |-> CHOOSE i \in kept : Rank(i) = n]
<1>8. \A n \in 1 .. Cardinality(kept) : place[n] \in kept /\ Rank(place[n]) = n
  BY <1>4
<1>9. /\ place \in [1 .. Cardinality(kept) -> DOMAIN file]
      /\ \A n \in 1 .. Cardinality(kept) : docs[n] = file[place[n]]
  BY <1>2, <1>3, <1>8
<1> HIDE DEF place
<1>10. ASSUME NEW m \in 1 .. Cardinality(kept), NEW n \in 1 .. Cardinality(kept), m < n
       PROVE  place[m] < place[n]
  <2>1. place[m] \in kept /\ place[n] \in kept /\ Rank(place[m]) = m /\ Rank(place[n]) = n
    BY <1>8
  <2>2. place[m] \in Nat /\ place[n] \in Nat /\ m \in Nat /\ n \in Nat
    <3>1. place[m] \in Nat /\ place[n] \in Nat
      BY <1>1, <2>1
    <3>2. Cardinality(kept) \in Nat
      BY <1>4
    <3> QED
      BY <3>1, <3>2
  <2>3. place[n] < place[m] => n < m
    BY <1>4, <2>1
  <2>4. place[n] # place[m]
    BY <1>10, <2>1, <2>2
  <2> QED
    BY <1>10, <2>2, <2>3, <2>4
<1>11. \E q \in [DOMAIN docs -> DOMAIN file] :
          /\ \A n \in DOMAIN docs : docs[n] = file[q[n]]
          /\ \A m, n \in DOMAIN docs : m < n => q[m] < q[n]
  BY <1>7, <1>9, <1>10
<1> QED
  BY <1>3, <1>5, <1>6, <1>7, <1>11 DEF docs, kept

LEMMA OneDocument ==
    ASSUME NEW doc, doc # EmptyDoc
    PROVE  Documents(<<doc>>) = <<doc>>
<1>1. <<doc>> \in Seq({doc}) /\ DOMAIN <<doc>> = {1}
  OBVIOUS
<1>2. {i \in DOMAIN <<doc>> : <<doc>>[i] # EmptyDoc} = {1}
  BY <1>1
<1>3. Documents(<<doc>>) \in Seq({doc} \ {EmptyDoc}) /\ Len(Documents(<<doc>>)) = 1
  <2>1. Cardinality({1}) = 1
    BY FS_Singleton
  <2> DEFINE file == <<doc>>
             S == {doc}
  <2>2. file \in Seq(S) /\ {i \in DOMAIN file : file[i] # EmptyDoc} = {1}
    BY <1>1, <1>2
  <2> HIDE DEF file, S
  <2>3. /\ Documents(file) \in Seq(S \ {EmptyDoc})
        /\ Len(Documents(file)) = Cardinality({i \in DOMAIN file : file[i] # EmptyDoc})
    BY <2>2, DocumentsOfFile, SMTT(60)
  <2> QED
    BY <2>1, <2>2, <2>3 DEF file, S
<1>4. Documents(<<doc>>)[1] = doc
  BY <1>3
<1> QED
  BY <1>3, <1>4

-----------------------------------------------------------------------------
(* Documents and resources. *)

LEMMA MessagesOfKinds ==
    ASSUME NEW kind \in newMessageForKind
    PROVE  /\ MessageOf(kind) \subseteq Project \union Workflow
           /\ kind = "Project" => MessageOf(kind) = Project
           /\ kind = "Workflow" => MessageOf(kind) = Workflow
           /\ kind = "Project" \/ kind = "Workflow"
BY DEF newMessageForKind, MessageOf

LEMMA DecodedIsResource ==
    ASSUME NEW doc \in FileContent \ {EmptyDoc}, decodes(doc)
    PROVE  decodeDocument(doc) \in Resource
<1>1. doc \in YamlDocument /\ doc.kind \in newMessageForKind
  BY DEF FileContent, decodes
<1>2. doc.message \in MessageOf(doc.kind)
  BY <1>1 DEF YamlDocument
<1>3. doc.message \in Project \union Workflow /\ GetName(GetMetadata(doc.message)) # ""
  BY <1>1, <1>2, MessagesOfKinds DEF decodes
<1>4. decodeDocument(doc).kind = doc.kind /\ decodeDocument(doc).message = doc.message
      /\ decodeDocument(doc) \in [kind : newMessageForKind, message : Project \union Workflow]
  BY <1>1, <1>3 DEF decodeDocument
<1> QED
  BY <1>2, <1>3, <1>4 DEF Resource

LEMMA ResourcesOfFile ==
    ASSUME NEW file \in Seq(FileContent)
    PROVE  /\ decodeResources(file) \in Seq(Resource)
           /\ decodeResources(file) # <<>> =>
                 /\ ~Bad(file)
                 /\ Len(decodeResources(file)) = Len(Documents(file))
                 /\ \A i \in DOMAIN decodeResources(file) :
                       decodeResources(file)[i] = decodeDocument(Documents(file)[i])
<1> DEFINE docs == Documents(file)
<1>1. /\ docs \in Seq(FileContent \ {EmptyDoc})
      /\ \A i \in DOMAIN file : file[i] # EmptyDoc => \E n \in DOMAIN docs : docs[n] = file[i]
  BY DocumentsOfFile
<1>2. decodeResources(file) =
         IF \A i \in DOMAIN docs : decodes(docs[i]) THEN Resources(docs) ELSE <<>>
  BY DEF decodeResources
<1> HIDE DEF docs
<1>3. CASE \A i \in DOMAIN docs : decodes(docs[i])
  <2>1. decodeResources(file) = [i \in DOMAIN docs |-> decodeDocument(docs[i])]
    BY <1>2, <1>3 DEF Resources
  <2>2. \A i \in DOMAIN docs : decodeDocument(docs[i]) \in Resource
    BY <1>1, <1>3, DecodedIsResource
  <2>3. DOMAIN docs = 1 .. Len(docs) /\ Len(docs) \in Nat
    BY <1>1
  <2>4. decodeResources(file) \in Seq(Resource) /\ Len(decodeResources(file)) = Len(docs)
    BY <2>1, <2>2, <2>3
  <2>5. ~Bad(file)
    BY <1>1, <1>3 DEF Bad
  <2> QED
    BY <2>1, <2>4, <2>5 DEF docs
<1>4. CASE ~ \A i \in DOMAIN docs : decodes(docs[i])
  BY <1>2, <1>4
<1> QED
  BY <1>3, <1>4

(* What a resource asks of the table. *)
Want(r) ==
    [kind |-> r.kind,
     project |-> IF r.kind = "Project" THEN "" ELSE GetProject(GetMetadata(r.message)),
     name |-> GetName(GetMetadata(r.message)),
     spec |-> GetSpec(r.message)]

LEMMA AskedOfFile ==
    ASSUME NEW file \in Seq(FileContent)
    PROVE  /\ Len(Asked(file)) = Len(Documents(file)) /\ Len(Documents(file)) \in Nat
           /\ DOMAIN Asked(file) = 1 .. Len(Documents(file))
           /\ \A i \in 1 .. Len(Documents(file)) :
                 Asked(file)[i] = Want(decodeDocument(Documents(file)[i]))
<1> DEFINE docs == Documents(file)
<1>1. docs \in Seq(FileContent \ {EmptyDoc})
  BY DocumentsOfFile
<1>2. Asked(file) = [i \in DOMAIN docs |-> Want(decodeDocument(docs[i]))]
  BY DEF Asked, Want, decodeDocument
<1> HIDE DEF docs
<1>3. DOMAIN docs = 1 .. Len(docs) /\ Len(docs) \in Nat
  BY <1>1
<1> HIDE DEF Want
<1>4. Len(Asked(file)) = Len(docs)
  BY <1>2, <1>3
<1> QED
  BY <1>2, <1>3, <1>4 DEF docs

(* What get prints for one object decodes to that object, and what it      *)
(* prints otherwise does not decode.                                       *)
LEMMA EncodedDecodes ==
    ASSUME NEW kind \in newMessageForKind, NEW obj \in Objects(kind)
    PROVE  /\ <<encodeResource(kind, obj)>> \in Seq(FileContent)
           /\ decodeResources(<<encodeResource(kind, obj)>>) = <<[kind |-> kind, message |-> obj]>>
<1> DEFINE doc == encodeResource(kind, obj)
<1>1. obj \in MessageOf(kind) /\ GetName(GetMetadata(obj)) # ""
  BY DEF Objects
<1>2. /\ doc.apiVersion = apiVersionV1Alpha1 /\ doc.kind = kind /\ doc.strict = TRUE
      /\ doc.message = obj
  BY DEF encodeResource, Document
<1>3. doc \in YamlDocument
  <2>1. obj \in Project \union Workflow \union {Nil}
    BY <1>1, MessagesOfKinds
  <2>2. apiVersionV1Alpha1 \in Words /\ kind \in Words
    BY DocumentAssumption
  <2> QED
    BY <1>1, <2>1, <2>2 DEF YamlDocument, encodeResource, Document
<1>4. doc \in FileContent /\ doc # EmptyDoc /\ doc # Garbled
  BY <1>3, DocumentAssumption DEF FileContent
<1>5. decodes(doc) /\ decodeDocument(doc) = [kind |-> kind, message |-> obj]
  BY <1>1, <1>2, <1>4 DEF decodes, decodeDocument
<1> HIDE DEF doc
<1>6. Documents(<<doc>>) = <<doc>>
  BY <1>4, OneDocument
<1>7. decodeResources(<<doc>>) = <<decodeDocument(doc)>>
  <2>1. DOMAIN <<doc>> = {1} /\ <<doc>>[1] = doc
    OBVIOUS
  <2>2. decodeResources(<<doc>>) = Resources(<<doc>>)
    BY <1>5, <1>6, <2>1 DEF decodeResources
  <2>3. Resources(<<doc>>) = [i \in {1} |-> decodeDocument(doc)]
    BY <2>1 DEF Resources
  <2> QED
    BY <2>2, <2>3
<1> QED
  BY <1>4, <1>5, <1>7 DEF doc

LEMMA GarbledIsRefused ==
    <<Garbled>> \in Seq(FileContent) /\ decodeResources(<<Garbled>>) = <<>>
<1>1. Garbled \in FileContent /\ Garbled # EmptyDoc
  BY DocumentAssumption DEF FileContent
<1>2. Documents(<<Garbled>>) = <<Garbled>>
  BY <1>1, OneDocument
<1>3. ~ \A i \in DOMAIN <<Garbled>> : decodes(<<Garbled>>[i])
  <2>1. 1 \in DOMAIN <<Garbled>> /\ <<Garbled>>[1] = Garbled
    OBVIOUS
  <2>2. ~decodes(Garbled)
    BY DEF decodes
  <2> QED
    BY <2>1, <2>2
<1> QED
  BY <1>1, <1>2, <1>3 DEF decodeResources

-----------------------------------------------------------------------------
(* What a caller learns from a call that only reads. *)

LEMMA StoredIsObject ==
    ASSUME RowsInv, NEW k \in Keys, Present(k)
    PROVE  decoded(k, rows[k]) \in Objects(k.kind)
<1> DEFINE row == rows[k]
           meta == [tenantId |-> k.tenant, project |-> k.project, name |-> k.name,
                    uid |-> row.uid, resourceVersion |-> row.rv, generation |-> row.gen]
           obj == [metadata |-> meta, spec |-> row.spec, status |-> row.status]
<1>1. row \in Row /\ row.spec \in Optional(SpecsOf(k))
  BY DEF RowsInv, Present
<1>2. /\ row.uid \in Nat /\ row.rv \in Nat /\ row.gen \in Nat
      /\ row.status \in Optional(Statuses)
  BY <1>1 DEF Row
<1>3. obj = decoded(k, rows[k])
  BY DEF decoded
<1>4. k.tenant \in Text(Tenants) /\ k.project \in Text(Projects)
  BY PartsOfKeys DEF Text
<1>5. ASSUME NEW names, k.name \in names, "" \notin names,
             Nil \notin ObjectMeta(names)
      PROVE  /\ meta \in Optional(ObjectMeta(names))
             /\ meta # Nil /\ GetName(meta) # ""
  <2>1. meta \in ObjectMeta(names)
    BY <1>2, <1>4, <1>5 DEF ObjectMeta, Text
  <2>2. meta # Nil
    BY <1>5, <2>1
  <2>3. meta.name = k.name /\ k.name # ""
    BY <1>5
  <2> QED
    BY <2>1, <2>2, <2>3 DEF Optional, GetName, Getter
<1> HIDE DEF row, meta
<1>6. obj.metadata = meta
  OBVIOUS
<1>7. CASE k.kind = "Project" /\ k.name \in Projects
  <2>1. meta \in Optional(ObjectMeta(Projects)) /\ meta # Nil /\ GetName(meta) # ""
    BY <1>5, <1>7, NameAssumption, NilAssumption
  <2>2. obj \in Project
    BY <1>1, <1>2, <1>7, <2>1 DEF Project, SpecsOf
  <2>3. GetMetadata(obj) = meta
    BY <1>6, <2>2, NilAssumption DEF GetMetadata, Getter
  <2> QED
    BY <1>3, <1>7, <2>1, <2>2, <2>3 DEF Objects, MessageOf
<1>8. CASE k.kind = "Workflow" /\ k.name \in Names
  <2>1. meta \in Optional(ObjectMeta(Names)) /\ meta # Nil /\ GetName(meta) # ""
    BY <1>5, <1>8, NameAssumption, NilAssumption
  <2>2. obj \in Workflow
    BY <1>1, <1>2, <1>8, <2>1 DEF Workflow, SpecsOf
  <2>3. GetMetadata(obj) = meta
    BY <1>6, <2>2, NilAssumption DEF GetMetadata, Getter
  <2> QED
    BY <1>3, <1>8, <2>1, <2>2, <2>3 DEF Objects, MessageOf
<1> QED
  BY <1>7, <1>8, PartsOfKeys

Answered(c, kind) ==
    /\ UNCHANGED inflight
    /\ answer'[c].code = "OK" => answer'[c].items \subseteq Objects(kind)

AnsweredOne(c, kind) ==
    /\ Answered(c, kind)
    /\ answer'[c].code = "OK" => Single(answer'[c].items)

LEMMA ReplyIsAnswer ==
    ASSUME AnswersInv, NEW c \in Callers
    PROVE  /\ \A a : Reply(c, a) => answer'[c] = a
           /\ \A code \in FailureCodes : Fail(c, code) => answer'[c].code # "OK"
BY DEF AnswersInv, Reply, Fail, Failure, FailureCodes

LEMMA LookupAnswers ==
    ASSUME RowsInv, AnswersInv, NEW c \in Callers, NEW k \in Keys, Lookup(c, k), UNCHANGED inflight
    PROVE  AnsweredOne(c, k.kind)
<1>1. CASE \E err : Fail(c, storeErr(err))
  BY <1>1, ReplyIsAnswer, StoreErrorsAreFailures DEF AnsweredOne, Answered
<1>2. CASE Present(k) /\ Show(c, k)
  <2>1. answer'[c].items = {decoded(k, rows[k])}
    BY <1>2, ReplyIsAnswer, SuccessIsOK DEF Show
  <2>2. decoded(k, rows[k]) \in Objects(k.kind)
    BY <1>2, StoredIsObject
  <2> QED
    BY <2>1, <2>2 DEF AnsweredOne, Answered, Single
<1> QED
  BY <1>1, <1>2 DEF Lookup

LEMMA ListAnswers ==
    ASSUME RowsInv, AnswersInv, NEW c \in Callers, NEW kind, NEW keys \in SUBSET Keys,
           \A k \in keys : k.kind = kind, List(c, keys), UNCHANGED inflight
    PROVE  Answered(c, kind)
<1>1. answer'[c].items = {decoded(k, rows[k]) : k \in {j \in keys : Present(j)}}
  BY ReplyIsAnswer, SuccessIsOK DEF List
<1>2. \A k \in {j \in keys : Present(j)} : decoded(k, rows[k]) \in Objects(kind)
  BY StoredIsObject
<1> QED
  BY <1>1, <1>2 DEF Answered

LEMMA RefusalAnswers ==
    ASSUME AnswersInv, NEW c \in Callers, Refuses(c), NEW kind
    PROVE  AnsweredOne(c, kind)
BY ReplyIsAnswer DEF Refuses, AnsweredOne, Answered

LEMMA ReadsAnswer ==
    ASSUME TableInv, NEW c \in Callers, NEW req
    PROVE  /\ Typed("GetProject", req) /\ ProjectServiceClient(c, "GetProject", req) =>
                 AnsweredOne(c, "Project")
           /\ ProjectServiceClient(c, "ListProjects", req) => Answered(c, "Project")
           /\ Typed("GetWorkflow", req) /\ WorkflowServiceClient(c, "GetWorkflow", req) =>
                 AnsweredOne(c, "Workflow")
           /\ WorkflowServiceClient(c, "ListWorkflows", req) => Answered(c, "Workflow")
<1>1. Shape /\ RowsInv /\ AnswersInv
  BY TableShape DEF TableInv
<1>2. Fail(c, "InvalidArgument") /\ UNCHANGED inflight => Refuses(c)
  BY RefusalCodes DEF Refuses
<1>3. ASSUME Typed("GetProject", req), ProjectServiceClient(c, "GetProject", req)
      PROVE  AnsweredOne(c, "Project")
  <2>1. CASE Refuses(c)
    BY <1>1, <2>1, RefusalAnswers
  <2>2. ASSUME NEW id, StandsForTenant(id), GetProjectByName(c, id, req)
        PROVE  AnsweredOne(c, "Project")
    <3> DEFINE k == ProjectKey(resolveTenant(id, req.tenantId), req.name)
    <3>1. CASE req.name # "" /\ Lookup(c, k) /\ UNCHANGED inflight
      <4>1. req.name \in Projects
        BY <1>3, <3>1, RequestTypes DEF GetProjectRequest, Text
      <4>2. k \in Keys /\ k.kind = "Project"
        <5>1. resolveTenant(id, req.tenantId) \in Tenants
          BY <2>2 DEF StandsForTenant
        <5>2. k \in Keys
          BY <4>1, <5>1, KeysOfKinds
        <5> QED
          BY <5>2 DEF ProjectKey
      <4> HIDE DEF k
      <4> QED
        BY <1>1, <3>1, <4>2, LookupAnswers
    <3> QED
      BY <1>2, <2>1, <2>2, <3>1 DEF GetProjectByName
  <2> QED
    BY <1>1, <1>3, <2>1, <2>2, CallsReachHandlers DEF ProjectServiceHandler
<1>4. ASSUME ProjectServiceClient(c, "ListProjects", req)
      PROVE  Answered(c, "Project")
  <2>1. CASE Refuses(c)
    BY <1>1, <2>1, RefusalAnswers DEF AnsweredOne
  <2>2. ASSUME NEW id, ListProjects(c, id, req)
        PROVE  Answered(c, "Project")
    <3> DEFINE keys == {k \in ProjectKeys : k.tenant = resolveTenant(id, req.tenantId)}
    <3>1. keys \in SUBSET Keys /\ \A k \in keys : k.kind = "Project"
      BY PartsOfKeys DEF Keys
    <3>2. List(c, keys) /\ UNCHANGED inflight
      BY <2>2 DEF ListProjects
    <3> HIDE DEF keys
    <3> QED
      BY <1>1, <3>1, <3>2, ListAnswers
  <2> QED
    BY <1>1, <1>4, <2>1, <2>2, CallsReachHandlers DEF ProjectServiceHandler
<1>5. ASSUME Typed("GetWorkflow", req), WorkflowServiceClient(c, "GetWorkflow", req)
      PROVE  AnsweredOne(c, "Workflow")
  <2>1. CASE Refuses(c)
    BY <1>1, <2>1, RefusalAnswers
  <2>2. ASSUME NEW id, StandsForTenant(id), GetWorkflow(c, id, req)
        PROVE  AnsweredOne(c, "Workflow")
    <3> DEFINE k == WorkflowKey(resolveTenant(id, req.tenantId), req.project, req.name)
    <3>1. CASE req.project # "" /\ req.name # "" /\ Lookup(c, k) /\ UNCHANGED inflight
      <4>1. req.name \in Names /\ req.project \in Projects
        <5>1. req \in GetWorkflowRequest
          BY <1>5, RequestTypes
        <5>2. req.name \in Text(Names) /\ req.project \in Text(Projects)
          BY <5>1 DEF GetWorkflowRequest
        <5> QED
          BY <3>1, <5>2 DEF Text
      <4>2. k \in Keys /\ k.kind = "Workflow"
        <5>1. resolveTenant(id, req.tenantId) \in Tenants
          BY <2>2 DEF StandsForTenant
        <5>2. k \in Keys
          BY <4>1, <5>1, KeysOfKinds
        <5> QED
          BY <5>2 DEF WorkflowKey
      <4> HIDE DEF k
      <4> QED
        BY <1>1, <3>1, <4>2, LookupAnswers
    <3> QED
      BY <1>2, <2>1, <2>2, <3>1 DEF GetWorkflow
  <2> QED
    BY <1>1, <1>5, <2>1, <2>2, CallsReachHandlers DEF WorkflowServiceHandler
<1>6. ASSUME WorkflowServiceClient(c, "ListWorkflows", req)
      PROVE  Answered(c, "Workflow")
  <2>1. CASE Refuses(c)
    BY <1>1, <2>1, RefusalAnswers DEF AnsweredOne
  <2>2. ASSUME NEW id, ListWorkflows(c, id, req)
        PROVE  Answered(c, "Workflow")
    <3> DEFINE keys == {k \in WorkflowKeys : /\ k.tenant = resolveTenant(id, req.tenantId)
                                            /\ req.project \in {"", k.project}}
    <3>1. keys \in SUBSET Keys /\ \A k \in keys : k.kind = "Workflow"
      BY PartsOfKeys DEF Keys
    <3>2. List(c, keys) /\ UNCHANGED inflight
      BY <2>2 DEF ListWorkflows
    <3> HIDE DEF keys
    <3> QED
      BY <1>1, <3>1, <3>2, ListAnswers
  <2> QED
    BY <1>1, <1>6, <2>1, <2>2, CallsReachHandlers DEF WorkflowServiceHandler
<1> QED
  BY <1>3, <1>4, <1>5, <1>6

-----------------------------------------------------------------------------
(* What a call that writes does to the table: nothing and it fails, the    *)
(* one entry it was asked for and it succeeds, or nothing yet and the      *)
(* handler holds that entry.                                               *)

Entry(k, spec) == [kind |-> k.kind, project |-> k.project, name |-> k.name, spec |-> spec]

Fails(c) == UNCHANGED rows /\ Idle(c)' /\ answer'[c].code # "OK"

Succeeds(c, entry) ==
    /\ Idle(c)' /\ answer'[c].code = "OK"
    /\ \E k \in Keys : Changed = {k} /\ Entry(k, rows'[k].spec) = entry

Holds(c, entry) ==
    /\ UNCHANGED rows /\ ~Idle(c)'
    /\ Entry(inflight'[c].key, inflight'[c].spec) = entry

Makes(c, entry) == Fails(c) \/ Succeeds(c, entry) \/ Holds(c, entry)

LEMMA FailIsFailure ==
    ASSUME AnswersInv, NEW c \in Callers, NEW code \in FailureCodes, Fail(c, code), Idle(c)'
    PROVE  Fails(c)
BY ReplyIsAnswer DEF Fails, Fail, storeVars

LEMMA RefusalIsFailure ==
    ASSUME AnswersInv, NEW c \in Callers, Refuses(c), Idle(c)
    PROVE  Fails(c)
BY FailIsFailure DEF Refuses, Idle

LEMMA WriteSucceeds ==
    ASSUME RowsInv, AnswersInv, NEW c \in Callers, NEW k \in Keys, NEW row, row # rows[k],
           rows' = [rows EXCEPT ![k] = row], ShowWritten(c, k), Idle(c)'
    PROVE  Succeeds(c, Entry(k, row.spec))
<1>1. rows'[k] = row /\ \A j \in Keys \ {k} : rows'[j] = rows[j]
  BY DEF RowsInv
<1>2. Changed = {k}
  BY <1>1 DEF Changed
<1>3. answer'[c].code = "OK"
  BY ReplyIsAnswer, SuccessIsOK DEF ShowWritten
<1> QED
  BY <1>1, <1>2, <1>3 DEF Succeeds

LEMMA InsertMakes ==
    ASSUME RowsInv, AnswersInv, NEW c \in Callers, NEW k \in Keys, NEW gen, NEW spec,
           gen \in Nat \ {0}, spec \in Optional(SpecsOf(k)), Insert(c, k, gen, spec), Idle(c)'
    PROVE  Fails(c) \/ Succeeds(c, Entry(k, spec))
<1>1. CASE \E err : Fail(c, storeErr(err))
  BY <1>1, FailIsFailure, StoreErrorsAreFailures
<1>2. CASE Create(k, gen, spec, Nil) /\ ShowWritten(c, k)
  <2> DEFINE row == NewRow(nextUid, initialVersion, gen, spec, Nil)
  <2>1. nextUid \in Nat /\ initialVersion \in Nat \ {0} /\ Nil \in Optional(Statuses)
        /\ spec \in Optional(ProjectSpecs \union WorkflowSpecs)
    BY SpecsOfAreSpecs DEF RowsInv, initialVersion, Optional
  <2>2. row # NoRow /\ row.spec = spec
    BY <2>1, SentinelAssumption DEF NewRow, Row
  <2>3. rows[k] = NoRow /\ rows' = [rows EXCEPT ![k] = row]
    BY <1>2 DEF Create, Present
  <2> HIDE DEF row
  <2>4. row # rows[k]
    BY <2>2, <2>3
  <2>5. Succeeds(c, Entry(k, row.spec))
    BY <1>2, <2>3, <2>4, WriteSucceeds
  <2> QED
    BY <2>2, <2>5
<1> QED
  BY <1>1, <1>2 DEF Insert

LEMMA HoldMakes ==
    ASSUME HandlersInv, NEW c \in Callers, NEW pending \in Pending, Hold(c, pending)
    PROVE  Holds(c, Entry(pending.key, pending.spec))
<1>1. inflight'[c] = pending /\ pending # NoCall
  BY SentinelAssumption DEF HandlersInv, Hold
<1> QED
  BY <1>1 DEF Holds, Hold, storeVars, Idle

LEMMA ReviseMakes ==
    ASSUME RowsInv, HandlersInv, AnswersInv, NEW c \in Callers, NEW k \in Keys, NEW obj,
           GetResourceVersion(GetMetadata(obj)) \in Nat, obj.spec \in Optional(SpecsOf(k)),
           obj.status \in Optional(Statuses), Idle(c), Revise(c, k, obj)
    PROVE  Fails(c) \/ Holds(c, Entry(k, obj.spec))
<1> DEFINE gen == rows[k].gen + (IF obj.spec = rows[k].spec THEN 0 ELSE 1)
           pending == [op |-> "update", key |-> k, rv |-> GetResourceVersion(GetMetadata(obj)),
                       gen |-> gen, spec |-> obj.spec, status |-> obj.status]
<1>1. CASE Fail(c, storeErr("ErrNotFound")) /\ UNCHANGED inflight
  BY <1>1, FailIsFailure, StoreErrorsAreFailures DEF Idle
<1>2. CASE Present(k) /\ Hold(c, pending)
  <2>1. rows[k].gen \in Nat \ {0}
    BY <1>2 DEF RowsInv, Present, Row
  <2>2. gen \in Nat \ {0}
    BY <2>1
  <2> HIDE DEF gen
  <2>3. pending \in Pending /\ pending.key = k /\ pending.spec = obj.spec
    BY <2>2, SpecsOfAreSpecs DEF Pending
  <2> HIDE DEF pending
  <2>4. Holds(c, Entry(pending.key, pending.spec))
    BY <1>2, <2>3, HoldMakes
  <2> QED
    BY <2>3, <2>4
<1> QED
  BY <1>1, <1>2 DEF Revise

(* The second half of a handler makes what the handler holds.              *)
LEMMA SecondCallsMake ==
    ASSUME TableInv, NEW c \in Callers, HandlerStep(c)
    PROVE  /\ ~Idle(c) /\ Idle(c)'
           /\ Fails(c) \/ Succeeds(c, Entry(inflight[c].key, inflight[c].spec))
<1> DEFINE u == inflight[c]
<1>1. ~Idle(c) /\ EndHandler(c)
  BY DEF HandlerStep, FinishCreate, FinishUpdate, CancelHandler
<1>2. /\ u \in Pending /\ u.spec \in Optional(SpecsOf(u.key))
      /\ RowsInv /\ AnswersInv
  BY <1>1 DEF TableInv, HandlersInv, Idle
<1>3. /\ u.key \in Keys /\ u.gen \in Nat \ {0} /\ u.status \in Optional(Statuses)
      /\ u.spec \in Optional(ProjectSpecs \union WorkflowSpecs)
  BY <1>2 DEF Pending
<1>4. Idle(c)'
  BY <1>1 DEF EndHandler, Idle, TableInv, HandlersInv
<1>5. CASE FinishCreate(c)
  <2>1. Insert(c, u.key, u.gen, u.spec)
    BY <1>5 DEF FinishCreate
  <2> HIDE DEF u
  <2>2. Fails(c) \/ Succeeds(c, Entry(u.key, u.spec))
    BY <1>2, <1>3, <1>4, <2>1, InsertMakes
  <2> QED
    BY <1>1, <1>4, <2>2 DEF u
<1>6. CASE Update(u.key, u.rv, u.gen, u.spec, u.status) /\ ShowWritten(c, u.key)
  <2> DEFINE old == rows[u.key]
             row == NewRow(old.uid, old.rv + 1, u.gen, u.spec, u.status)
  <2>1. old \in Row
    BY <1>2, <1>3, <1>6 DEF RowsInv, Update, VersionMatches, Present
  <2>2. old.rv \in Nat /\ row.rv = old.rv + 1 /\ row.spec = u.spec
    BY <2>1 DEF Row, NewRow
  <2>3. rows' = [rows EXCEPT ![u.key] = row]
    BY <1>6 DEF Update
  <2>4. row # old
    <3> HIDE DEF row, old
    <3> QED
      BY <2>2
  <2> HIDE DEF row, u
  <2>5. Succeeds(c, Entry(u.key, row.spec))
    BY <1>2, <1>3, <1>4, <1>6, <2>3, <2>4, WriteSucceeds
  <2> QED
    BY <1>1, <1>4, <2>2, <2>5 DEF u
<1>7. CASE CancelHandler(c)
  BY <1>1, <1>2, <1>4, <1>7, FailIsFailure, RefusalCodes DEF CancelHandler
<1>8. CASE \E err : Fail(c, storeErr(err))
  BY <1>1, <1>2, <1>4, <1>8, FailIsFailure, StoreErrorsAreFailures
<1> QED
  BY <1>5, <1>6, <1>7, <1>8 DEF HandlerStep, FinishUpdate

(* A Project or a Workflow with a name, as a document has it, makes what   *)
(* the document asks for.                                                  *)
LEMMA ProjectWritesMake ==
    ASSUME TableInv, NEW c \in Callers, NEW p \in Objects("Project"),
           NEW m \in {"CreateProject", "UpdateProject"},
           ProjectServiceClient(c, m, [project |-> p])
    PROVE  Makes(c, Want([kind |-> "Project", message |-> p]))
<1> DEFINE req == [project |-> p]
           meta == GetMetadata(p)
           entry == Want([kind |-> "Project", message |-> p])
<1>1. Shape /\ RowsInv /\ HandlersInv /\ AnswersInv
  BY TableShape DEF TableInv
<1>2. /\ req.project = p /\ p \in Project /\ p \in Optional(Project)
      /\ GetName(meta) # ""
  BY DEF Objects, MessageOf, Optional
<1>3. meta # Nil
  BY <1>2 DEF GetName, Getter
<1>4. /\ GetName(meta) \in Projects /\ GetResourceVersion(meta) \in Nat
      /\ GetSpec(p) \in Optional(ProjectSpecs) /\ p.spec = GetSpec(p)
      /\ p.status \in Optional(Statuses)
  BY <1>2, <1>3, ProjectParts DEF Text
<1>5. ASSUME NEW t \in Tenants
      PROVE  /\ ProjectKey(t, GetName(meta)) \in Keys
             /\ SpecsOf(ProjectKey(t, GetName(meta))) = ProjectSpecs
             /\ Entry(ProjectKey(t, GetName(meta)), GetSpec(p)) = entry
  BY <1>4, KeysOfKinds DEF ProjectKey, Entry, Want
<1> HIDE DEF meta, entry, req
<1>6. Idle(c)
  BY DEF ProjectServiceClient, MayCall
<1>7. CASE Refuses(c)
  BY <1>1, <1>6, <1>7, RefusalIsFailure DEF Makes, entry
<1>8. Fail(c, "InvalidArgument") /\ UNCHANGED inflight => Refuses(c)
  BY RefusalCodes DEF Refuses
<1>9. ASSUME NEW id, StandsForTenant(id), CreateProject(c, id, req)
      PROVE  Makes(c, entry)
  <2> DEFINE k == ProjectKey(resolveTenant(id, GetTenantId(meta)), GetName(meta))
  <2>1. CASE Insert(c, k, 1, GetSpec(p)) /\ UNCHANGED inflight
    <3>1. k \in Keys /\ SpecsOf(k) = ProjectSpecs /\ Entry(k, GetSpec(p)) = entry
      BY <1>5, <1>9 DEF StandsForTenant
    <3>2. Idle(c)' /\ 1 \in Nat \ {0}
      BY <1>6, <2>1 DEF Idle
    <3> HIDE DEF k
    <3>3. Fails(c) \/ Succeeds(c, Entry(k, GetSpec(p)))
      BY <1>1, <1>4, <2>1, <3>1, <3>2, InsertMakes
    <3> QED
      BY <3>1, <3>3 DEF Makes
  <2> QED
    BY <1>2, <1>7, <1>8, <1>9, <2>1 DEF CreateProject, meta, entry
<1>10. ASSUME NEW id, StandsForTenant(id), UpdateProject(c, id, req)
       PROVE  Makes(c, entry)
  <2> DEFINE k == ProjectKey(resolveTenant(id, GetTenantId(meta)), GetName(meta))
  <2>1. CASE Revise(c, k, p)
    <3>1. k \in Keys /\ SpecsOf(k) = ProjectSpecs /\ Entry(k, GetSpec(p)) = entry
      BY <1>5, <1>10 DEF StandsForTenant
    <3> HIDE DEF k
    <3>2. Fails(c) \/ Holds(c, Entry(k, p.spec))
      BY <1>1, <1>4, <1>6, <2>1, <3>1, ReviseMakes DEF meta
    <3> QED
      BY <1>4, <3>1, <3>2 DEF Makes
  <2> QED
    BY <1>2, <1>7, <1>8, <1>10, <2>1 DEF UpdateProject, meta, entry
<1>11. ProjectServiceClient(c, m, req)
  BY DEF req
<1>12. Refuses(c) \/ \E id : StandsForTenant(id) /\ ProjectServiceHandler(c, id, m, req)
  BY <1>1, <1>11, CallsReachHandlers
<1> QED
  BY <1>7, <1>9, <1>10, <1>12 DEF ProjectServiceHandler, entry

LEMMA WorkflowWritesMake ==
    ASSUME TableInv, NEW c \in Callers, NEW w \in Objects("Workflow"),
           NEW m \in {"CreateWorkflow", "UpdateWorkflow"},
           WorkflowServiceClient(c, m, [workflow |-> w])
    PROVE  Makes(c, Want([kind |-> "Workflow", message |-> w]))
<1> DEFINE req == [workflow |-> w]
           meta == GetMetadata(w)
           entry == Want([kind |-> "Workflow", message |-> w])
<1>1. Shape /\ RowsInv /\ HandlersInv /\ AnswersInv
  BY TableShape DEF TableInv
<1>2. /\ req.workflow = w /\ w \in Workflow /\ w \in Optional(Workflow)
      /\ GetName(meta) # ""
  BY DEF Objects, MessageOf, Optional
<1>3. meta # Nil
  BY <1>2 DEF GetName, Getter
<1>4. /\ GetName(meta) \in Names /\ GetProject(meta) \in Text(Projects)
      /\ GetResourceVersion(meta) \in Nat
      /\ GetSpec(w) \in Optional(WorkflowSpecs) /\ w.spec = GetSpec(w)
      /\ w.status \in Optional(Statuses)
  BY <1>2, <1>3, WorkflowParts DEF Text
<1>5. ASSUME NEW t \in Tenants, GetProject(meta) # ""
      PROVE  /\ WorkflowKey(t, GetProject(meta), GetName(meta)) \in Keys
             /\ SpecsOf(WorkflowKey(t, GetProject(meta), GetName(meta))) = WorkflowSpecs
             /\ Entry(WorkflowKey(t, GetProject(meta), GetName(meta)), GetSpec(w)) = entry
  <2>1. GetProject(meta) \in Projects
    BY <1>4, <1>5 DEF Text
  <2>2. Entry(WorkflowKey(t, GetProject(meta), GetName(meta)), GetSpec(w)) = entry
    BY DEF WorkflowKey, Entry, Want
  <2> QED
    BY <1>4, <2>1, <2>2, KeysOfKinds
<1> HIDE DEF meta, entry, req
<1>6. Idle(c)
  BY DEF WorkflowServiceClient, MayCall
<1>7. CASE Refuses(c)
  BY <1>1, <1>6, <1>7, RefusalIsFailure DEF Makes, entry
<1>8. \A code \in {"InvalidArgument", "FailedPrecondition"} :
         Fail(c, code) /\ UNCHANGED inflight => Refuses(c)
  BY RefusalCodes DEF Refuses
<1>9. ASSUME NEW id, StandsForTenant(id), CreateWorkflow(c, id, req)
      PROVE  Makes(c, entry)
  <2> DEFINE k == WorkflowKey(resolveTenant(id, GetTenantId(meta)), GetProject(meta), GetName(meta))
             pending == [op |-> "create", key |-> k, rv |-> 0, gen |-> 1,
                         spec |-> GetSpec(w), status |-> Nil]
  <2>1. CASE GetProject(meta) # "" /\ Hold(c, pending)
    <3>1. k \in Keys /\ SpecsOf(k) = WorkflowSpecs /\ Entry(k, GetSpec(w)) = entry
      BY <1>5, <1>9, <2>1 DEF StandsForTenant
    <3> HIDE DEF k
    <3>2. Nil \in Optional(Statuses) /\ GetSpec(w) \in Optional(ProjectSpecs \union WorkflowSpecs)
      BY <1>4 DEF Optional
    <3>3. pending \in Pending /\ pending.key = k /\ pending.spec = GetSpec(w)
      BY <3>1, <3>2 DEF Pending
    <3> HIDE DEF pending
    <3>4. Holds(c, Entry(pending.key, pending.spec))
      BY <1>1, <2>1, <3>3, HoldMakes
    <3> QED
      BY <3>1, <3>3, <3>4 DEF Makes
  <2> QED
    BY <1>2, <1>7, <1>8, <1>9, <2>1 DEF CreateWorkflow, meta, entry
<1>10. ASSUME NEW id, StandsForTenant(id), UpdateWorkflow(c, id, req)
       PROVE  Makes(c, entry)
  <2> DEFINE k == WorkflowKey(resolveTenant(id, GetTenantId(meta)), GetProject(meta), GetName(meta))
  <2>1. CASE GetProject(meta) # "" /\ Revise(c, k, w)
    <3>1. k \in Keys /\ SpecsOf(k) = WorkflowSpecs /\ Entry(k, GetSpec(w)) = entry
      BY <1>5, <1>10, <2>1 DEF StandsForTenant
    <3> HIDE DEF k
    <3>2. Fails(c) \/ Holds(c, Entry(k, w.spec))
      BY <1>1, <1>4, <1>6, <2>1, <3>1, ReviseMakes DEF meta
    <3> QED
      BY <1>4, <3>1, <3>2 DEF Makes
  <2> QED
    BY <1>2, <1>7, <1>8, <1>10, <2>1 DEF UpdateWorkflow, meta, entry
<1>11. WorkflowServiceClient(c, m, req)
  BY DEF req
<1>12. Refuses(c) \/ \E id : StandsForTenant(id) /\ WorkflowServiceHandler(c, id, m, req)
  BY <1>1, <1>11, CallsReachHandlers
<1> QED
  BY <1>7, <1>9, <1>10, <1>12 DEF WorkflowServiceHandler, entry

LEMMA VersionedMessage ==
    ASSUME NEW kind \in newMessageForKind, NEW message \in Objects(kind), NEW version \in Nat
    PROVE  /\ WithVersion(message, version) \in Objects(kind)
           /\ Want([kind |-> kind, message |-> WithVersion(message, version)])
                 = Want([kind |-> kind, message |-> message])
<1> DEFINE new == WithVersion(message, version)
           names == IF kind = "Project" THEN Projects ELSE Names
           specs == IF kind = "Project" THEN ProjectSpecs ELSE WorkflowSpecs
<1>1. MessageOf(kind) = [metadata : Optional(ObjectMeta(names)), spec : Optional(specs),
                         status : Optional(Statuses)]
  BY DEF MessageOf, Project, Workflow
<1>2. message \in MessageOf(kind) /\ GetName(GetMetadata(message)) # ""
  BY DEF Objects
<1>3. Nil \notin MessageOf(kind) /\ Nil \notin ObjectMeta(names)
  BY NilAssumption DEF MessageOf, newMessageForKind
<1>4. GetMetadata(message) = message.metadata /\ GetSpec(message) = message.spec
  BY <1>2, <1>3 DEF GetMetadata, GetSpec, Getter
<1>5. message.metadata # Nil
  BY <1>2, <1>4 DEF GetName, Getter
<1> DEFINE old == message.metadata
           meta == [old EXCEPT !.resourceVersion = version]
<1> HIDE DEF names, specs
<1>6. old \in ObjectMeta(names)
  <2>1. message \in [metadata : Optional(ObjectMeta(names)), spec : Optional(specs),
                     status : Optional(Statuses)]
    BY <1>1, <1>2
  <2>2. message.metadata \in Optional(ObjectMeta(names))
    BY <2>1
  <2> QED
    BY <1>5, <2>2 DEF Optional
<1>7. /\ meta \in ObjectMeta(names)
      /\ meta.name = old.name /\ meta.project = old.project
  BY <1>6 DEF ObjectMeta
<1>8. /\ new = [message EXCEPT !.metadata = meta]
  BY DEF WithVersion
<1> HIDE DEF meta
<1>9. /\ new.metadata = meta /\ new.spec = message.spec /\ new \in MessageOf(kind)
  BY <1>1, <1>2, <1>7, <1>8 DEF Optional
<1> HIDE DEF new
<1>10. GetMetadata(new) = meta /\ GetSpec(new) = GetSpec(message) /\ meta # Nil
  BY <1>3, <1>4, <1>7, <1>9 DEF GetMetadata, GetSpec, Getter
<1>11. /\ GetName(meta) = GetName(GetMetadata(message))
       /\ GetProject(meta) = GetProject(GetMetadata(message))
  BY <1>4, <1>5, <1>7, <1>10 DEF GetName, GetProject, Getter
<1> QED
  BY <1>2, <1>9, <1>10, <1>11 DEF Objects, Want, new

-----------------------------------------------------------------------------
(* The invariant of the commands. *)

HistoryShape ==
    /\ DOMAIN run = Terminals /\ DOMAIN exit = Terminals
    /\ DOMAIN input = Terminals /\ DOMAIN written = Terminals

(* What a process knows at the points where it uses it.                    *)
ProcessOK(t) ==
    ~AtPrompt(t) =>
        /\ run[t] \in Process
        /\ run[t].at \in {"look", "write", "answer"} => run[t].todo # <<>>
        /\ run[t].at \in {"ask", "print"} =>
              run[t].cmd.verb = "get" /\ normalizeKind(run[t].cmd.kind) # "unknown"
        /\ run[t].at # "answer" => Idle(t)
        /\ run[t].at = "write" /\ answer[t].code = "OK" =>
              Single(answer[t].items) /\ answer[t].items \subseteq Objects(Current(t).kind)
        /\ run[t].at = "print" /\ answer[t].code = "OK" =>
              /\ answer[t].items \subseteq Objects(KindNames[normalizeKind(run[t].cmd.kind)])
              /\ run[t].cmd.name # "" => Single(answer[t].items)

(* A file get printed objects into holds what get prints.                  *)
FilesInv ==
    /\ disk \in [Files -> Seq(FileContent)]
    /\ DOMAIN saved = Files
    /\ \A f \in Files : saved[f] # {} =>
          \E kind \in newMessageForKind :
              /\ saved[f] \subseteq Objects(kind)
              /\ disk[f] = IF Single(saved[f])
                           THEN <<encodeResource(kind, CHOOSE obj \in saved[f] : TRUE)>>
                           ELSE <<Garbled>>

Applying(t) == ~AtPrompt(t) /\ run[t].at \in {"look", "write", "answer"}

(* How many documents of its file t is done with, and how many of them are *)
(* in the table: the current one too once its call was answered with OK.   *)
Finished(t) == Len(Documents(input[t])) - Len(run[t].todo)
Stored(t) ==
    Finished(t) + (IF run[t].at = "answer" /\ Idle(t) /\ answer[t].code = "OK" THEN 1 ELSE 0)

(* The first n entries of a sequence. *)
First(s, n) == [i \in 1 .. n |-> s[i]]

(* What is left to do is the rest of the file, what is written is what the *)
(* documents before it ask for, and what the handler of the current one    *)
(* holds is what that one asks for.                                        *)
ProgressOK(t) ==
    /\ ~Applying(t) => input[t] = <<>> /\ written[t] = <<>>
    /\ Applying(t) =>
          /\ input[t] \in Seq(FileContent)
          /\ ~Bad(input[t])
          /\ Finished(t) \in Nat
          /\ \A i \in DOMAIN run[t].todo :
                run[t].todo[i] = decodeDocument(Documents(input[t])[Finished(t) + i])
          /\ written[t] = First(Asked(input[t]), Stored(t))
          /\ ~Idle(t) =>
                Asked(input[t])[Finished(t) + 1] = Entry(inflight[t].key, inflight[t].spec)

CliInv ==
    /\ HomeInv /\ TableInv /\ FilesInv /\ HistoryShape
    /\ \A t \in Terminals : ProcessOK(t) /\ ProgressOK(t)

-----------------------------------------------------------------------------
(* A step of one caller leaves the others where they are. *)

LEMMA OthersWait ==
    ASSUME HomeInv, NEW c \in Callers, CallerStep(c), NEW d \in Callers \ {c}
    PROVE  answer'[d] = answer[d] /\ inflight'[d] = inflight[d]
<1>1. CASE Talk(c)
  BY <1>1, TalkIsConfined DEF Confined, AnswerConfined, HandlerConfined
<1>2. CASE (\E connection \in Connections : Dial(c, connection)) \/ Leave(c)
  BY <1>2 DEF Dial, Leave, HomeInv, Shape
<1> QED
  BY <1>1, <1>2 DEF CallerStep

LEMMA ProcessFrame ==
    ASSUME NEW t, ProcessOK(t), run'[t] = run[t], answer'[t] = answer[t], inflight'[t] = inflight[t]
    PROVE  ProcessOK(t)'
BY DEF ProcessOK, AtPrompt, Idle, Current

LEMMA ProgressFrame ==
    ASSUME NEW t, ProgressOK(t), run'[t] = run[t], answer'[t] = answer[t],
           inflight'[t] = inflight[t], input'[t] = input[t], written'[t] = written[t]
    PROVE  ProgressOK(t)'
<1>1. Finished(t)' = Finished(t) /\ Stored(t)' = Stored(t) /\ (Applying(t)' <=> Applying(t))
      /\ (Idle(t)' <=> Idle(t))
  BY DEF Finished, Stored, Applying, Idle, AtPrompt
<1> QED
  BY <1>1 DEF ProgressOK

(* A step of terminal t in its own entries. *)
Minds(t) ==
    /\ HistoryShape'
    /\ \A u \in Terminals \ {t} :
          run'[u] = run[u] /\ input'[u] = input[u] /\ written'[u] = written[u]

LEMMA TerminalsMindTheirOwn ==
    ASSUME HistoryShape, NEW t \in Terminals, TerminalStep(t)
    PROVE  Minds(t)
<1> USE DEF HistoryShape, Minds
<1>1. ASSUME NEW code, Exit(t, code)
      PROVE  Minds(t)
  BY <1>1 DEF Exit
<1>2. ASSUME NEW cmd, NEW at, NEW todo, Continue(t, cmd, at, todo),
             UNCHANGED input \/ (\E file : input' = [input EXCEPT ![t] = file]),
             UNCHANGED written \/ (\E entries : written' = [written EXCEPT ![t] = entries])
      PROVE  Minds(t)
  BY <1>2 DEF Continue
<1>3. CASE \E cmd \in CommandLines : StartApply(t, cmd) \/ StartGet(t, cmd)
  BY <1>1, <1>2, <1>3 DEF StartApply, StartGet
<1>4. CASE LookUp(t) \/ Ask(t)
  BY <1>2, <1>4 DEF LookUp, Ask, Goto, historyVars
<1>5. CASE Write(t)
  BY <1>2, <1>5 DEF Write, Goto, Wrote
<1>6. CASE NextDocument(t)
  BY <1>1, <1>2, <1>6 DEF NextDocument
<1>7. CASE ServerStep(t)
  BY <1>7 DEF ServerStep, Wrote, cliVars
<1> QED
  BY <1>1, <1>3, <1>4, <1>5, <1>6, <1>7
  DEF TerminalStep, VersionCommand, ServerCommand, LookUpFailed, PrintAnswer, PrintError, Deadline

-----------------------------------------------------------------------------
(* The steps of a terminal. *)

LEMMA ExitKeeps ==
    ASSUME TableInv, HistoryShape, NEW t \in Terminals, NEW code, Exit(t, code)
    PROVE  /\ TableInv' /\ ProcessOK(t)' /\ ProgressOK(t)'
           /\ AtPrompt(t)' /\ exit'[t] = code
<1>1. TableInv'
  BY ExitsLeave, ConnectingKeepsTypes, TerminalAssumption
<1>2. AtPrompt(t)' /\ exit'[t] = code /\ input'[t] = <<>> /\ written'[t] = <<>>
  BY DEF Exit, HistoryShape, AtPrompt
<1>3. ~Applying(t)'
  BY <1>2 DEF Applying
<1> QED
  BY <1>1, <1>2, <1>3 DEF ProcessOK, ProgressOK

LEMMA Continues ==
    ASSUME HistoryShape, NEW t \in Terminals, NEW cmd \in CommandLines,
           NEW at \in {"look", "write", "answer", "ask", "print"}, NEW todo \in Seq(Resource),
           Continue(t, cmd, at, todo)
    PROVE  /\ run'[t] \in Process /\ ~AtPrompt(t)'
           /\ run'[t].cmd = cmd /\ run'[t].at = at /\ run'[t].todo = todo
<1>1. run'[t] = [cmd |-> cmd, at |-> at, todo |-> todo]
  BY DEF Continue, HistoryShape
<1>2. [cmd |-> cmd, at |-> at, todo |-> todo] \in Process
  BY DEF Process
<1> QED
  BY <1>1, <1>2, PromptAssumption DEF AtPrompt

(* The process of a terminal that is not at its prompt. *)
LEMMA ProcessParts ==
    ASSUME NEW t, run[t] \in Process
    PROVE  /\ run[t].cmd \in CommandLines /\ run[t].todo \in Seq(Resource)
           /\ run[t].at \in {"look", "write", "answer", "ask", "print"}
           /\ run[t].todo # <<>> =>
                 /\ Current(t).kind \in newMessageForKind
                 /\ Current(t).message \in Objects(Current(t).kind)
                 /\ Current(t) = [kind |-> Current(t).kind, message |-> Current(t).message]
                 /\ Current(t) = run[t].todo[1] /\ Len(run[t].todo) \in Nat \ {0}
<1>1. /\ run[t].cmd \in CommandLines /\ run[t].todo \in Seq(Resource)
      /\ run[t].at \in {"look", "write", "answer", "ask", "print"}
  BY DEF Process
<1>2. ASSUME run[t].todo # <<>>
      PROVE  /\ Current(t) \in Resource /\ Current(t) = run[t].todo[1]
             /\ Len(run[t].todo) \in Nat \ {0}
  BY <1>1, <1>2 DEF Current
<1>3. ASSUME NEW r \in Resource
      PROVE  /\ r.kind \in newMessageForKind /\ r.message \in Objects(r.kind)
             /\ r = [kind |-> r.kind, message |-> r.message]
  BY DEF Resource, Objects
<1> QED
  BY <1>1, <1>2, <1>3

LEMMA LookUpKeeps ==
    ASSUME TableInv, HistoryShape, NEW t \in Terminals, ProcessOK(t), ProgressOK(t), LookUp(t)
    PROVE  TableInv' /\ ProcessOK(t)' /\ ProgressOK(t)' /\ ~AtPrompt(t)'
<1>1. /\ ~AtPrompt(t) /\ run[t].at = "look" /\ run[t] \in Process /\ run[t].todo # <<>>
      /\ Idle(t) /\ t \in Callers
  BY TerminalAssumption DEF LookUp, At, ProcessOK
<1> DEFINE r == Current(t)
           name == GetName(GetMetadata(r.message))
           project == GetProject(GetMetadata(r.message))
<1>2. r.kind \in newMessageForKind /\ r.message \in Objects(r.kind)
  BY <1>1, ProcessParts
<1>3. /\ run'[t] \in Process /\ ~AtPrompt(t)' /\ run'[t].at = "write"
      /\ run'[t].todo = run[t].todo /\ run'[t].cmd = run[t].cmd
  <2>1. Continue(t, run[t].cmd, "write", run[t].todo)
    BY DEF LookUp, Goto
  <2> QED
    BY <1>1, <2>1, ProcessParts, Continues
<1>4. TableInv' /\ AnsweredOne(t, r.kind)
  <2>1. CASE r.kind = "Project"
    <3> DEFINE req == [tenantId |-> "", name |-> name]
    <3>1. r.message \in Optional(Project)
      BY <1>2, <2>1 DEF Objects, MessageOf, Optional
    <3>2. name \in Text(Projects)
      BY <3>1, ProjectParts
    <3> HIDE DEF name
    <3>3. Typed("GetProject", req)
      BY <3>2, RequestTypes DEF GetProjectRequest, Text
    <3>4. ProjectServiceClient(t, "GetProject", req)
      BY <2>1 DEF LookUp, MetadataOf, name
    <3> HIDE DEF req
    <3> QED
      BY <1>1, <2>1, <3>3, <3>4, ReadsAnswer, CallsKeepTypes
  <2>2. CASE r.kind = "Workflow"
    <3> DEFINE req == [tenantId |-> "", project |-> project, name |-> name]
    <3>1. r.message \in Optional(Workflow)
      BY <1>2, <2>2 DEF Objects, MessageOf, Optional
    <3>2. name \in Text(Names) /\ project \in Text(Projects)
      BY <3>1, WorkflowParts
    <3> HIDE DEF name, project
    <3>3. Typed("GetWorkflow", req)
      BY <3>2, RequestTypes DEF GetWorkflowRequest, Text
    <3>4. WorkflowServiceClient(t, "GetWorkflow", req)
      BY <2>2 DEF LookUp, MetadataOf, name, project
    <3> HIDE DEF req
    <3> QED
      BY <1>1, <2>2, <3>3, <3>4, ReadsAnswer, CallsKeepTypes
  <2> QED
    BY <1>2, <2>1, <2>2, MessagesOfKinds
<1>5. Current(t)' = Current(t) /\ Idle(t)' /\ input'[t] = input[t] /\ written'[t] = written[t]
  BY <1>1, <1>3, <1>4 DEF Current, Idle, AnsweredOne, Answered, LookUp, historyVars
<1>6. ProcessOK(t)'
  BY <1>1, <1>3, <1>4, <1>5 DEF ProcessOK, AnsweredOne, Answered
<1>7. ProgressOK(t)'
  <2>1. Finished(t)' = Finished(t) /\ Stored(t)' = Stored(t)
    BY <1>1, <1>3, <1>5 DEF Finished, Stored
  <2>2. Applying(t) /\ Applying(t)'
    BY <1>1, <1>3 DEF Applying
  <2> QED
    BY <1>3, <1>5, <2>1, <2>2 DEF ProgressOK
<1> QED
  BY <1>3, <1>4, <1>6, <1>7

LEMMA AskKeeps ==
    ASSUME TableInv, HistoryShape, NEW t \in Terminals, ProcessOK(t), ProgressOK(t), Ask(t)
    PROVE  TableInv' /\ ProcessOK(t)' /\ ProgressOK(t)' /\ ~AtPrompt(t)'
<1> DEFINE cmd == run[t].cmd
           kind == KindNames[normalizeKind(cmd.kind)]
<1>1. /\ ~AtPrompt(t) /\ run[t].at = "ask" /\ run[t] \in Process
      /\ cmd.verb = "get" /\ normalizeKind(cmd.kind) # "unknown"
      /\ Idle(t) /\ t \in Callers
  BY TerminalAssumption DEF Ask, At, ProcessOK
<1>2. cmd \in CommandLines
  BY <1>1, ProcessParts
<1>3. /\ run'[t] \in Process /\ ~AtPrompt(t)' /\ run'[t].at = "print" /\ run'[t].cmd = cmd
  <2>1. Continue(t, run[t].cmd, "print", run[t].todo)
    BY DEF Ask, Goto
  <2> QED
    BY <1>1, <2>1, ProcessParts, Continues
<1>4. TableInv' /\ Answered(t, kind) /\ (cmd.name # "" => AnsweredOne(t, kind))
  <2>1. ASSUME normalizeKind(cmd.kind) = "project", getProjects(t, cmd)
        PROVE  TableInv' /\ Answered(t, kind) /\ (cmd.name # "" => AnsweredOne(t, kind))
    <3>1. kind = "Project" /\ cmd.name \in Text(Projects)
      BY <1>1, <1>2, <2>1, CommandAssumption DEF KindNames, normalizeKind
    <3>2. CASE cmd.name # ""
      <4> DEFINE req == [tenantId |-> "", name |-> cmd.name]
      <4>1. Typed("GetProject", req)
        BY <3>1, RequestTypes DEF GetProjectRequest, Text
      <4>2. ProjectServiceClient(t, "GetProject", req)
        BY <2>1, <3>2 DEF getProjects
      <4> HIDE DEF req
      <4> QED
        BY <1>1, <3>1, <4>1, <4>2, ReadsAnswer, CallsKeepTypes DEF AnsweredOne
    <3>3. CASE cmd.name = ""
      <4> DEFINE req == [tenantId |-> ""]
      <4>1. Typed("ListProjects", req)
        BY RequestTypes DEF ListProjectsRequest, Text
      <4>2. ProjectServiceClient(t, "ListProjects", req)
        BY <2>1, <3>3 DEF getProjects
      <4> HIDE DEF req
      <4> QED
        BY <1>1, <3>1, <3>3, <4>1, <4>2, ReadsAnswer, CallsKeepTypes
    <3> QED
      BY <3>2, <3>3
  <2>2. ASSUME normalizeKind(cmd.kind) = "workflow", getWorkflows(t, cmd)
        PROVE  TableInv' /\ Answered(t, kind) /\ (cmd.name # "" => AnsweredOne(t, kind))
    <3>1. kind = "Workflow" /\ cmd.name \in Text(Names) /\ cmd.scope \in Text(Projects)
      BY <1>1, <1>2, <2>2, CommandAssumption DEF KindNames, normalizeKind
    <3>2. CASE cmd.name # ""
      <4> DEFINE req == [tenantId |-> "", project |-> cmd.scope, name |-> cmd.name]
      <4>1. Typed("GetWorkflow", req)
        BY <3>1, RequestTypes DEF GetWorkflowRequest, Text
      <4>2. WorkflowServiceClient(t, "GetWorkflow", req)
        BY <2>2, <3>2 DEF getWorkflows
      <4> HIDE DEF req
      <4> QED
        BY <1>1, <3>1, <4>1, <4>2, ReadsAnswer, CallsKeepTypes DEF AnsweredOne
    <3>3. CASE cmd.name = ""
      <4> DEFINE req == [tenantId |-> "", project |-> cmd.scope]
      <4>1. Typed("ListWorkflows", req)
        BY <3>1, RequestTypes DEF ListWorkflowsRequest, Text
      <4>2. WorkflowServiceClient(t, "ListWorkflows", req)
        BY <2>2, <3>3 DEF getWorkflows
      <4> HIDE DEF req
      <4> QED
        BY <1>1, <3>1, <3>3, <4>1, <4>2, ReadsAnswer, CallsKeepTypes
    <3> QED
      BY <3>2, <3>3
  <2> QED
    BY <2>1, <2>2 DEF Ask
<1>5. Idle(t)' /\ input'[t] = input[t] /\ written'[t] = written[t]
  BY <1>1, <1>4 DEF Idle, Answered, Ask, historyVars
<1>6. ProcessOK(t)'
  BY <1>1, <1>3, <1>4, <1>5 DEF ProcessOK, AnsweredOne, Answered
<1>7. ProgressOK(t)'
  <2>1. ~Applying(t) /\ ~Applying(t)'
    BY <1>1, <1>3 DEF Applying
  <2> QED
    BY <1>5, <2>1 DEF ProgressOK
<1> QED
  BY <1>3, <1>4, <1>6, <1>7

LEMMA FirstGrows ==
    ASSUME NEW s, NEW n \in Nat
    PROVE  First(s, 0) = <<>> /\ Append(First(s, n), s[n + 1]) = First(s, n + 1)
<1> DEFINE S == {s[i] : i \in 1 .. n + 1}
<1>1. First(s, n) \in Seq(S) /\ Len(First(s, n)) = n
  BY DEF First
<1>2. s[n + 1] \in S
  OBVIOUS
<1>3. Append(First(s, n), s[n + 1]) \in Seq(S)
      /\ Len(Append(First(s, n), s[n + 1])) = n + 1
  BY <1>1, <1>2
<1>4. \A i \in 1 .. n + 1 : Append(First(s, n), s[n + 1])[i] = s[i]
  BY <1>1, <1>2 DEF First
<1>5. First(s, 0) = <<>>
  BY DEF First
<1> QED
  BY <1>3, <1>4, <1>5 DEF First

LEMMA WroteAppends ==
    ASSUME HistoryShape, NEW t \in Terminals, ~AtPrompt(t), Wrote(t)
    PROVE  /\ UNCHANGED rows => written'[t] = written[t]
           /\ \A k, entry : Changed = {k} /\ Entry(k, rows'[k].spec) = entry =>
                 written'[t] = Append(written[t], entry)
<1>1. written'[t] =
         IF Changed = {} THEN written[t]
         ELSE LET k == CHOOSE k \in Changed : TRUE IN Append(written[t], Entry(k, rows'[k].spec))
  BY DEF Wrote, HistoryShape, Entry
<1>2. UNCHANGED rows => Changed = {}
  BY DEF Changed
<1>3. \A k : Changed = {k} => (CHOOSE j \in Changed : TRUE) = k /\ Changed # {}
  OBVIOUS
<1> QED
  BY <1>1, <1>2, <1>3

LEMMA CurrentEntry ==
    ASSUME NEW t, ProgressOK(t), Applying(t), run[t] \in Process, run[t].todo # <<>>
    PROVE  /\ Finished(t) \in Nat
           /\ Finished(t) + Len(run[t].todo) = Len(Asked(input[t]))
           /\ Asked(input[t])[Finished(t) + 1] = Want(Current(t))
<1> DEFINE n == Len(Documents(input[t]))
           left == Len(run[t].todo)
<1>1. left \in Nat \ {0} /\ run[t].todo \in Seq(Resource) /\ Current(t) = run[t].todo[1]
  BY ProcessParts
<1>2. input[t] \in Seq(FileContent) /\ Finished(t) \in Nat
      /\ run[t].todo[1] = decodeDocument(Documents(input[t])[Finished(t) + 1])
  BY <1>1 DEF ProgressOK
<1>3. n \in Nat /\ Finished(t) = n - left /\ Len(Asked(input[t])) = n
  BY <1>2, AskedOfFile DEF Finished
<1> HIDE DEF n, left
<1>4. Finished(t) + 1 \in 1 .. n
  BY <1>1, <1>2, <1>3
<1>5. Asked(input[t])[Finished(t) + 1] = Want(decodeDocument(Documents(input[t])[Finished(t) + 1]))
  BY <1>2, <1>4, AskedOfFile DEF n
<1> QED
  BY <1>1, <1>2, <1>3, <1>5 DEF left

(* The current document on its way into the table. *)
LEMMA OutcomeKeepsProgress ==
    ASSUME HistoryShape, NEW t \in Terminals, Applying(t), ProgressOK(t), Stored(t) = Finished(t),
           NEW entry, entry = Asked(input[t])[Finished(t) + 1], Makes(t, entry), Wrote(t),
           ~AtPrompt(t)', run'[t].at = "answer", run'[t].todo = run[t].todo, input'[t] = input[t]
    PROVE  ProgressOK(t)'
<1>1. Finished(t)' = Finished(t) /\ Applying(t)' /\ ~AtPrompt(t)
  BY DEF Finished, Applying
<1>2. Finished(t) \in Nat /\ written[t] = First(Asked(input[t]), Finished(t))
  BY DEF ProgressOK
<1>3. Stored(t)' = Finished(t) + (IF Idle(t)' /\ answer'[t].code = "OK" THEN 1 ELSE 0)
  BY <1>1 DEF Stored
<1>4. CASE Fails(t) \/ Holds(t, entry)
  <2>1. written'[t] = First(Asked(input[t]), Stored(t)')
    BY <1>1, <1>2, <1>3, <1>4, WroteAppends DEF Fails, Holds
  <2>2. ~Idle(t)' => Asked(input[t])[Finished(t) + 1] = Entry(inflight'[t].key, inflight'[t].spec)
    BY <1>4 DEF Fails, Holds
  <2> QED
    BY <1>1, <2>1, <2>2 DEF ProgressOK
<1>5. CASE Succeeds(t, entry)
  <2>1. written'[t] = Append(written[t], entry)
    BY <1>1, <1>5, WroteAppends DEF Succeeds
  <2>2. written'[t] = First(Asked(input[t]), Finished(t) + 1)
    BY <1>2, <2>1, FirstGrows
  <2>3. Idle(t)' /\ Stored(t)' = Finished(t) + 1
    BY <1>3, <1>5 DEF Succeeds
  <2> QED
    BY <1>1, <2>2, <2>3 DEF ProgressOK
<1> QED
  BY <1>4, <1>5 DEF Makes

LEMMA WriteKeeps ==
    ASSUME TableInv, HistoryShape, NEW t \in Terminals, ProcessOK(t), ProgressOK(t), Write(t)
    PROVE  TableInv' /\ ProcessOK(t)' /\ ProgressOK(t)' /\ ~AtPrompt(t)'
<1> DEFINE r == Current(t)
<1>1. /\ ~AtPrompt(t) /\ run[t].at = "write" /\ run[t] \in Process /\ run[t].todo # <<>>
      /\ Idle(t) /\ t \in Callers
      /\ answer[t].code = "OK" => Single(answer[t].items) /\ answer[t].items \subseteq Objects(r.kind)
  BY TerminalAssumption DEF Write, At, ProcessOK
<1>2. /\ r.kind \in newMessageForKind /\ r.message \in Objects(r.kind)
      /\ r = [kind |-> r.kind, message |-> r.message]
  BY <1>1, ProcessParts
<1>3. /\ run'[t] \in Process /\ ~AtPrompt(t)' /\ run'[t].at = "answer"
      /\ run'[t].todo = run[t].todo
  <2>1. Continue(t, run[t].cmd, "answer", run[t].todo)
    BY DEF Write, Goto
  <2> QED
    BY <1>1, <2>1, ProcessParts, Continues
<1>4. ASSUME answer[t].code = "OK"
      PROVE  ShownVersion(t) \in Nat
  <2> DEFINE obj == CHOOSE obj \in answer[t].items : TRUE
  <2>1. obj \in Objects(r.kind)
    BY <1>1, <1>4 DEF Single
  <2> HIDE DEF obj
  <2>2. obj \in Optional(Project) \/ obj \in Optional(Workflow)
    BY <2>1 DEF Objects, MessageOf, Optional
  <2>3. GetResourceVersion(GetMetadata(obj)) \in Nat
    BY <2>2, ProjectParts, WorkflowParts
  <2> QED
    BY <2>3 DEF ShownVersion, obj
<1>5. PICK message \in Objects(r.kind) :
        /\ Want([kind |-> r.kind, message |-> message]) = Want(r)
        /\ \/ /\ r.kind = "Project"
              /\ \E m \in {"CreateProject", "UpdateProject"} :
                    ProjectServiceClient(t, m, [project |-> message])
           \/ /\ r.kind = "Workflow"
              /\ \E m \in {"CreateWorkflow", "UpdateWorkflow"} :
                    WorkflowServiceClient(t, m, [workflow |-> message])
  <2>1. CASE answer[t].code = "NotFound"
    BY <1>2, <2>1 DEF Write, applyProject, applyWorkflow
  <2>2. CASE answer[t].code = "OK"
    <3> DEFINE new == WithVersion(r.message, ShownVersion(t))
    <3>1. new \in Objects(r.kind) /\ Want([kind |-> r.kind, message |-> new]) = Want(r)
      BY <1>2, <1>4, <2>2, VersionedMessage
    <3>2. \/ r.kind = "Project" /\ ProjectServiceClient(t, "UpdateProject", [project |-> new])
          \/ r.kind = "Workflow" /\ WorkflowServiceClient(t, "UpdateWorkflow", [workflow |-> new])
      BY <2>2 DEF Write, applyProject, applyWorkflow
    <3> HIDE DEF new
    <3> QED
      BY <3>1, <3>2
  <2> QED
    BY <2>1, <2>2 DEF Write, applyProject, applyWorkflow
<1> HIDE DEF r
<1>6. TableInv' /\ Makes(t, Want(r))
  <2>1. ASSUME r.kind = "Project", NEW m \in {"CreateProject", "UpdateProject"},
               ProjectServiceClient(t, m, [project |-> message])
        PROVE  TableInv' /\ Makes(t, Want(r))
    <3> DEFINE req == [project |-> message]
    <3>1. message \in Optional(Project)
      BY <2>1 DEF Objects, MessageOf, Optional
    <3>2. Typed(m, req)
      BY <3>1, RequestTypes DEF CreateProjectRequest, UpdateProjectRequest
    <3> HIDE DEF req
    <3>3. TableInv'
      BY <1>1, <2>1, <3>2, CallsKeepTypes DEF req
    <3>4. Makes(t, Want([kind |-> "Project", message |-> message]))
      BY <1>1, <2>1, ProjectWritesMake
    <3> QED
      BY <1>5, <2>1, <3>3, <3>4
  <2>2. ASSUME r.kind = "Workflow", NEW m \in {"CreateWorkflow", "UpdateWorkflow"},
               WorkflowServiceClient(t, m, [workflow |-> message])
        PROVE  TableInv' /\ Makes(t, Want(r))
    <3> DEFINE req == [workflow |-> message]
    <3>1. message \in Optional(Workflow)
      BY <2>2 DEF Objects, MessageOf, Optional
    <3>2. Typed(m, req)
      BY <3>1, RequestTypes DEF CreateWorkflowRequest, UpdateWorkflowRequest
    <3> HIDE DEF req
    <3>3. TableInv'
      BY <1>1, <2>2, <3>2, CallsKeepTypes DEF req
    <3>4. Makes(t, Want([kind |-> "Workflow", message |-> message]))
      BY <1>1, <2>2, WorkflowWritesMake
    <3> QED
      BY <1>5, <2>2, <3>3, <3>4
  <2> QED
    BY <1>5, <2>1, <2>2
<1>7. ProcessOK(t)'
  BY <1>1, <1>3 DEF ProcessOK
<1>8. ProgressOK(t)'
  <2>1. Applying(t) /\ Stored(t) = Finished(t)
    BY <1>1, CurrentEntry DEF Applying, Stored, Finished, ProgressOK
  <2>2. Asked(input[t])[Finished(t) + 1] = Want(r)
    BY <1>1, <2>1, CurrentEntry DEF r
  <2>3. Wrote(t) /\ input'[t] = input[t]
    BY DEF Write
  <2> QED
    BY <1>3, <1>6, <2>1, <2>2, <2>3, OutcomeKeepsProgress
<1> QED
  BY <1>3, <1>6, <1>7, <1>8

LEMMA ServerStepKeeps ==
    ASSUME TableInv, HistoryShape, NEW t \in Terminals, ProcessOK(t), ProgressOK(t), ServerStep(t)
    PROVE  TableInv' /\ ProcessOK(t)' /\ ProgressOK(t)'
<1> DEFINE held == Entry(inflight[t].key, inflight[t].spec)
<1>1. t \in Callers /\ HandlerStep(t) /\ Wrote(t) /\ UNCHANGED <<run, exit, disk, input, saved>>
  BY TerminalAssumption DEF ServerStep, cliVars
<1>2. TableInv'
  BY <1>1, HandlerStepsKeepTypes
<1>3. ~Idle(t) /\ Idle(t)' /\ Makes(t, held)
  BY <1>1, SecondCallsMake DEF Makes
<1> HIDE DEF held
<1>4. CASE AtPrompt(t)
  <2>1. written'[t] = written[t] /\ AtPrompt(t)' /\ ~Applying(t) /\ ~Applying(t)'
    BY <1>1, <1>4 DEF Wrote, AtPrompt, Applying, HistoryShape
  <2> QED
    BY <1>1, <1>2, <2>1 DEF ProcessOK, ProgressOK
<1>5. CASE ~AtPrompt(t)
  <2>1. run[t] \in Process /\ run[t].at = "answer" /\ run[t].todo # <<>>
    BY <1>3, <1>5 DEF ProcessOK
  <2>2. Applying(t) /\ ~AtPrompt(t)' /\ run'[t] = run[t]
    BY <1>1, <1>5, <2>1 DEF Applying, AtPrompt
  <2>3. ProcessOK(t)'
    BY <2>1, <2>2 DEF ProcessOK
  <2>4. Stored(t) = Finished(t) /\ held = Asked(input[t])[Finished(t) + 1]
    BY <1>3, <2>2 DEF ProgressOK, Stored, held
  <2>5. ProgressOK(t)'
    BY <1>1, <1>3, <2>1, <2>2, <2>4, OutcomeKeepsProgress
  <2> QED
    BY <1>2, <2>3, <2>5
<1> QED
  BY <1>4, <1>5

LEMMA NextDocumentKeeps ==
    ASSUME TableInv, HistoryShape, NEW t \in Terminals, ProcessOK(t), ProgressOK(t), NextDocument(t)
    PROVE  /\ TableInv' /\ ProcessOK(t)' /\ ProgressOK(t)'
           /\ AtPrompt(t)' /\ exit'[t] = 0 =>
                 ~Bad(input[t]) /\ written[t] = Asked(input[t])
<1> DEFINE left == Len(run[t].todo)
<1>1. /\ ~AtPrompt(t) /\ run[t].at = "answer" /\ Idle(t)
      /\ run[t] \in Process /\ run[t].todo # <<>>
  BY DEF NextDocument, At, ProcessOK
<1>2. /\ run[t].cmd \in CommandLines /\ run[t].todo \in Seq(Resource) /\ left \in Nat \ {0}
  BY <1>1, ProcessParts
<1>3. Applying(t)
  BY <1>1 DEF Applying
<1>4. Finished(t) \in Nat /\ Finished(t) + left = Len(Asked(input[t]))
  BY <1>1, <1>3, CurrentEntry
<1>5. CASE answer[t].code # "OK" /\ Exit(t, 1)
  BY <1>5, ExitKeeps
<1>6. CASE answer[t].code = "OK" /\ left = 1 /\ Exit(t, 0)
  <2>1. input[t] \in Seq(FileContent) /\ ~Bad(input[t])
        /\ written[t] = First(Asked(input[t]), Finished(t) + 1)
    BY <1>1, <1>3, <1>6 DEF ProgressOK, Stored
  <2>2. Asked(input[t]) = First(Asked(input[t]), Len(Asked(input[t])))
    <3>1. DOMAIN Asked(input[t]) = 1 .. Len(Asked(input[t]))
      BY <2>1, AskedOfFile
    <3>2. Asked(input[t]) = [i \in DOMAIN Asked(input[t]) |-> Asked(input[t])[i]]
      BY DEF Asked
    <3> QED
      BY <3>1, <3>2 DEF First
  <2>3. written[t] = Asked(input[t])
    BY <1>4, <1>6, <2>1, <2>2
  <2> QED
    BY <1>6, <2>1, <2>3, ExitKeeps
<1>7. CASE /\ answer[t].code = "OK" /\ left > 1
           /\ Continue(t, run[t].cmd, "look", Tail(run[t].todo))
           /\ UNCHANGED <<rpcVars, input, written>>
  <2> DEFINE rest == Tail(run[t].todo)
  <2>1. /\ rest \in Seq(Resource) /\ Len(rest) = left - 1
        /\ \A i \in 1 .. left - 1 : rest[i] = run[t].todo[i + 1]
        /\ DOMAIN rest = 1 .. left - 1 /\ DOMAIN run[t].todo = 1 .. left
    BY <1>2, <1>7
  <2>2. Continue(t, run[t].cmd, "look", rest)
    BY <1>7
  <2> HIDE DEF rest, left
  <2>3. /\ run'[t] \in Process /\ ~AtPrompt(t)' /\ run'[t].at = "look"
        /\ run'[t].todo = rest
    BY <1>2, <2>1, <2>2, Continues
  <2>4. TableInv'
    BY <1>7 DEF rpcVars, storeVars, TableInv, RowsInv, HandlersInv, AnswersInv, Present, Idle
  <2>5. Idle(t)' /\ input'[t] = input[t] /\ written'[t] = written[t] /\ Applying(t)'
    BY <1>1, <1>7, <2>3 DEF rpcVars, Idle, Applying
  <2>6. ProcessOK(t)'
    <3>1. Len(rest) # 0
      BY <1>2, <1>7, <2>1
    <3>2. rest # <<>>
      BY <3>1
    <3> QED
      BY <2>3, <2>5, <3>2 DEF ProcessOK
  <2>7. /\ Finished(t)' = Finished(t) + 1 /\ Stored(t)' = Finished(t) + 1
        /\ Stored(t) = Finished(t) + 1
    <3> DEFINE n == Len(Documents(input[t]))
    <3>1. n \in Nat
      BY <1>3, AskedOfFile DEF ProgressOK
    <3>2. Finished(t)' = n - (left - 1) /\ Finished(t) = n - left
      BY <2>1, <2>3, <2>5 DEF Finished, left
    <3> HIDE DEF n
    <3>3. Finished(t)' = Finished(t) + 1
      BY <1>2, <3>1, <3>2
    <3> QED
      BY <1>1, <1>4, <1>7, <2>3, <3>3 DEF Stored
  <2>8. \A i \in DOMAIN run'[t].todo :
           run'[t].todo[i] = decodeDocument(Documents(input[t])[Finished(t)' + i])
    <3> SUFFICES ASSUME NEW i \in 1 .. left - 1
                 PROVE  rest[i] = decodeDocument(Documents(input[t])[Finished(t) + 1 + i])
      BY <2>1, <2>3, <2>7
    <3>1. i + 1 \in 1 .. left
      BY <1>2
    <3>2. Finished(t) + (i + 1) = Finished(t) + 1 + i
      BY <1>2, <1>4
    <3>3. run[t].todo[i + 1] = decodeDocument(Documents(input[t])[Finished(t) + (i + 1)])
      BY <1>3, <2>1, <3>1 DEF ProgressOK
    <3> QED
      BY <2>1, <3>2, <3>3
  <2>9. ProgressOK(t)'
    BY <1>3, <1>4, <2>5, <2>7, <2>8 DEF ProgressOK
  <2> QED
    BY <2>3, <2>4, <2>6, <2>9
<1> QED
  BY <1>5, <1>6, <1>7 DEF NextDocument

LEMMA OpenedFile ==
    ASSUME FilesInv, NEW cmd \in CommandLines, cmd.verb = "apply"
    PROVE  openInput(cmd.file) \in Seq(FileContent)
BY CommandAssumption DEF FilesInv, openInput

LEMMA StartApplyKeeps ==
    ASSUME TableInv, HistoryShape, FilesInv, NEW t \in Terminals, ProgressOK(t),
           NEW cmd \in CommandLines, StartApply(t, cmd)
    PROVE  TableInv' /\ ProcessOK(t)' /\ ProgressOK(t)'
<1> DEFINE file == openInput(cmd.file)
           todo == decodeResources(file)
<1>1. cmd.verb = "apply" /\ AtPrompt(t) /\ Idle(t) /\ t \in Callers
  BY TerminalAssumption DEF StartApply, Ready
<1>2. file \in Seq(FileContent) /\ cmd.conn \in Connections
  BY <1>1, OpenedFile, CommandAssumption
<1>3. todo \in Seq(Resource)
  BY <1>2, ResourcesOfFile
<1>4. CASE Exit(t, 1)
  BY <1>4, ExitKeeps
<1>5. CASE /\ todo # <<>> /\ Continue(t, cmd, "look", todo) /\ Dial(t, cmd.conn)
           /\ input' = [input EXCEPT ![t] = file] /\ UNCHANGED written
  <2>1. /\ ~Bad(file) /\ Len(todo) = Len(Documents(file))
        /\ \A i \in DOMAIN todo : todo[i] = decodeDocument(Documents(file)[i])
    BY <1>2, <1>5, ResourcesOfFile
  <2>2. Len(todo) \in Nat /\ DOMAIN todo = 1 .. Len(todo)
    BY <1>3
  <2> HIDE DEF file, todo
  <2>3. TableInv'
    BY <1>1, <1>2, <1>5, ConnectingKeepsTypes
  <2>4. /\ run'[t] \in Process /\ ~AtPrompt(t)' /\ run'[t].at = "look" /\ run'[t].todo = todo
    BY <1>3, <1>5, Continues
  <2>5. Idle(t)' /\ input'[t] = file /\ Applying(t)'
    BY <1>1, <1>5, <2>4 DEF Dial, Idle, Applying, HistoryShape
  <2>6. written'[t] = <<>>
    BY <1>1, <1>5 DEF ProgressOK, Applying
  <2>7. ProcessOK(t)'
    BY <1>5, <2>4, <2>5 DEF ProcessOK
  <2>8. Finished(t)' = 0 /\ Stored(t)' = 0
    BY <2>1, <2>2, <2>4, <2>5 DEF Finished, Stored
  <2>9. \A i \in DOMAIN todo : 0 + i = i
    BY <2>2
  <2>10. written'[t] = First(Asked(file), 0)
    BY <2>6, FirstGrows
  <2>11. ProgressOK(t)'
    BY <1>2, <2>1, <2>4, <2>5, <2>8, <2>9, <2>10 DEF ProgressOK
  <2> QED
    BY <2>3, <2>7, <2>11
<1> QED
  BY <1>4, <1>5 DEF StartApply

LEMMA StartGetKeeps ==
    ASSUME TableInv, HistoryShape, FilesInv, NEW t \in Terminals, ProgressOK(t),
           NEW cmd \in CommandLines, StartGet(t, cmd)
    PROVE  TableInv' /\ ProcessOK(t)' /\ ProgressOK(t)' /\ FilesInv'
<1>1. cmd.verb = "get" /\ AtPrompt(t) /\ Idle(t) /\ t \in Callers
  BY TerminalAssumption DEF StartGet, Ready
<1>2. FilesInv'
  <2>1. /\ disk' = [f \in Files |-> IF f = cmd.into THEN <<>> ELSE disk[f]]
        /\ saved' = [f \in Files |-> IF f = cmd.into THEN {} ELSE saved[f]]
    BY DEF StartGet
  <2>2. disk' \in [Files -> Seq(FileContent)]
    BY <2>1 DEF FilesInv
  <2> QED
    BY <2>1, <2>2 DEF FilesInv
<1>3. CASE Exit(t, 1)
  BY <1>2, <1>3, ExitKeeps
<1>4. CASE /\ normalizeKind(cmd.kind) # "unknown"
           /\ Continue(t, cmd, "ask", <<>>) /\ Dial(t, cmd.conn) /\ UNCHANGED <<input, written>>
  <2>1. TableInv'
    <3>1. cmd.conn \in Connections
      BY <1>1, CommandAssumption
    <3> QED
      BY <1>1, <1>4, <3>1, ConnectingKeepsTypes
  <2>2. run'[t] \in Process /\ ~AtPrompt(t)' /\ run'[t].at = "ask" /\ run'[t].cmd = cmd
    <3> DEFINE todo == <<>>
    <3>1. todo \in Seq(Resource) /\ Continue(t, cmd, "ask", todo)
      BY <1>4
    <3> HIDE DEF todo
    <3> QED
      BY <3>1, Continues
  <2>3. Idle(t)' /\ input'[t] = input[t] /\ written'[t] = written[t]
    BY <1>1, <1>4 DEF Dial, Idle
  <2>4. ProcessOK(t)'
    BY <1>1, <1>4, <2>2, <2>3 DEF ProcessOK
  <2>5. ~Applying(t) /\ ~Applying(t)'
    BY <1>1, <2>2 DEF Applying
  <2>6. ProgressOK(t)'
    BY <2>3, <2>5 DEF ProgressOK
  <2> QED
    BY <1>2, <2>1, <2>4, <2>6
<1> QED
  BY <1>3, <1>4 DEF StartGet

LEMMA PrintAnswerKeeps ==
    ASSUME TableInv, HistoryShape, FilesInv, NEW t \in Terminals, ProcessOK(t), PrintAnswer(t)
    PROVE  TableInv' /\ ProcessOK(t)' /\ ProgressOK(t)' /\ FilesInv'
<1> DEFINE cmd == run[t].cmd
           items == answer[t].items
           kind == KindNames[normalizeKind(cmd.kind)]
<1>1. /\ run[t] \in Process
      /\ cmd.verb = "get" /\ normalizeKind(cmd.kind) # "unknown"
      /\ items \subseteq Objects(kind) /\ (cmd.name # "" => Single(items))
  BY DEF PrintAnswer, At, ProcessOK
<1>2. kind \in newMessageForKind
  <2>1. normalizeKind(cmd.kind) \in {"project", "workflow"}
    <3>1. cmd \in CommandLines
      BY <1>1, ProcessParts
    <3> HIDE DEF cmd
    <3> QED
      BY <1>1, <3>1, CommandAssumption DEF normalizeKind
  <2> QED
    BY <2>1 DEF KindNames, newMessageForKind
<1>3. Exit(t, 0)
  BY DEF PrintAnswer
<1>4. /\ disk' = [f \in Files |-> IF f = cmd.into THEN Printed(cmd, items) ELSE disk[f]]
      /\ saved' = [f \in Files |-> IF f # cmd.into THEN saved[f]
                                   ELSE IF cmd.output # "" THEN items ELSE {}]
  BY DEF PrintAnswer
<1>5. /\ Printed(cmd, items) \in Seq(FileContent)
      /\ cmd.output # "" /\ items # {} =>
            Printed(cmd, items) =
                IF Single(items) THEN <<encodeResource(kind, CHOOSE obj \in items : TRUE)>>
                ELSE <<Garbled>>
  <2>1. Printed(cmd, items) =
           IF cmd.name # "" THEN renderOne(kind, CHOOSE obj \in items : TRUE, cmd.output)
           ELSE renderList(kind, items, cmd.output)
    BY DEF Printed
  <2>2. Single(items) => (CHOOSE obj \in items : TRUE) \in Objects(kind)
    BY <1>1 DEF Single
  <2> HIDE DEF cmd, items, kind
  <2>3. Single(items) => <<encodeResource(kind, CHOOSE obj \in items : TRUE)>> \in Seq(FileContent)
    BY <1>2, <2>2, EncodedDecodes
  <2>4. <<Garbled>> \in Seq(FileContent)
    BY GarbledIsRefused
  <2>5. <<>> \in Seq(FileContent)
    OBVIOUS
  <2> QED
    BY <1>1, <2>1, <2>3, <2>4, <2>5 DEF renderOne, renderList, printTable
<1> HIDE DEF cmd, items, kind
<1>6. disk' \in [Files -> Seq(FileContent)]
  BY <1>4, <1>5 DEF FilesInv
<1>7. ASSUME NEW f \in Files, saved'[f] # {}
      PROVE  \E k \in newMessageForKind :
                /\ saved'[f] \subseteq Objects(k)
                /\ disk'[f] = IF Single(saved'[f])
                              THEN <<encodeResource(k, CHOOSE obj \in saved'[f] : TRUE)>>
                              ELSE <<Garbled>>
  <2>1. CASE f = cmd.into
    <3>1. saved'[f] = items /\ cmd.output # "" /\ disk'[f] = Printed(cmd, items)
      BY <1>4, <1>7, <2>1
    <3> QED
      BY <1>1, <1>2, <1>5, <1>7, <3>1
  <2>2. CASE f # cmd.into
    <3>1. saved'[f] = saved[f] /\ disk'[f] = disk[f]
      BY <1>4, <2>2
    <3> QED
      BY <1>7, <3>1 DEF FilesInv
  <2> QED
    BY <2>1, <2>2
<1>8. FilesInv'
  BY <1>4, <1>6, <1>7 DEF FilesInv
<1> QED
  BY <1>3, <1>8, ExitKeeps

(* Every step of a terminal, in its own entries. *)
LEMMA TerminalKeeps ==
    ASSUME CliInv, NEW t \in Terminals, TerminalStep(t)
    PROVE  TableInv' /\ FilesInv' /\ ProcessOK(t)' /\ ProgressOK(t)'
<1>1. TableInv /\ HistoryShape /\ FilesInv /\ ProcessOK(t) /\ ProgressOK(t)
  BY DEF CliInv
<1>2. UNCHANGED <<disk, saved>> => FilesInv'
  BY <1>1 DEF FilesInv
<1>3. CASE (\E code : Exit(t, code)) /\ UNCHANGED <<disk, saved>>
  BY <1>1, <1>2, <1>3, ExitKeeps
<1>4. ASSUME NEW cmd \in CommandLines, StartApply(t, cmd)
      PROVE  TableInv' /\ FilesInv' /\ ProcessOK(t)' /\ ProgressOK(t)'
  BY <1>1, <1>2, <1>4, StartApplyKeeps DEF StartApply
<1>5. ASSUME NEW cmd \in CommandLines, StartGet(t, cmd)
      PROVE  TableInv' /\ FilesInv' /\ ProcessOK(t)' /\ ProgressOK(t)'
  BY <1>1, <1>5, StartGetKeeps
<1>6. CASE LookUp(t)
  BY <1>1, <1>2, <1>6, LookUpKeeps DEF LookUp, historyVars
<1>7. CASE Write(t)
  BY <1>1, <1>2, <1>7, WriteKeeps DEF Write
<1>8. CASE NextDocument(t)
  BY <1>1, <1>2, <1>8, NextDocumentKeeps DEF NextDocument
<1>9. CASE Ask(t)
  BY <1>1, <1>2, <1>9, AskKeeps DEF Ask, historyVars
<1>10. CASE PrintAnswer(t)
  BY <1>1, <1>10, PrintAnswerKeeps
<1>11. CASE ServerStep(t)
  BY <1>1, <1>2, <1>11, ServerStepKeeps DEF ServerStep, cliVars
<1> QED
  BY <1>3, <1>4, <1>5, <1>6, <1>7, <1>8, <1>9, <1>10, <1>11
  DEF TerminalStep, VersionCommand, ServerCommand, LookUpFailed, PrintError, Deadline

(* A program that uses the API without the CLI. *)
LEMMA ApiStepKeeps ==
    ASSUME CliInv, NEW c \in Callers \ Terminals, ApiStep(c)
    PROVE  TableInv' /\ FilesInv' /\ HistoryShape'
           /\ \A t \in Terminals : ProcessOK(t)' /\ ProgressOK(t)'
<1>1. UNCHANGED <<run, exit, disk, input, written, saved>>
  BY DEF ApiStep, cliVars, historyVars
<1>2. TableInv'
  <2>1. ASSUME NEW connection \in Connections, Dial(c, connection)
        PROVE  TableInv'
    BY <2>1, ConnectingKeepsTypes DEF CliInv
  <2>2. ASSUME NEW call \in ApiCalls,
               \/ SystemServiceClient(c, call.method)
               \/ ProjectServiceClient(c, call.method, call.req)
               \/ WorkflowServiceClient(c, call.method, call.req)
        PROVE  TableInv'
    <3>1. Typed(call.method, call.req)
      BY CallAssumption DEF Typed
    <3> QED
      BY <2>2, <3>1, CallsKeepTypes DEF CliInv
  <2>3. CASE ReflectionClient(c)
    <3>1. \E m, req : Typed(m, req)
      <4>1. [tenantId |-> ""] \in ListProjectsRequest
        BY DEF ListProjectsRequest, Text
      <4> QED
        BY <4>1, RequestTypes
    <3> QED
      BY <2>3, <3>1, CallsKeepTypes DEF CliInv
  <2>4. CASE HandlerStep(c)
    BY <2>4, HandlerStepsKeepTypes DEF CliInv
  <2> QED
    BY <2>1, <2>2, <2>3, <2>4 DEF ApiStep
<1>3. ASSUME NEW t \in Terminals
      PROVE  ProcessOK(t)' /\ ProgressOK(t)'
  <2>1. t \in Callers \ {c} /\ CallerStep(c)
    BY TerminalAssumption DEF ApiStep, CallerStep, Talk
  <2>2. answer'[t] = answer[t] /\ inflight'[t] = inflight[t]
    BY <2>1, OthersWait DEF CliInv
  <2> QED
    BY <1>1, <2>2, ProcessFrame, ProgressFrame DEF CliInv
<1> QED
  BY <1>1, <1>2, <1>3 DEF CliInv, FilesInv, HistoryShape

LEMMA CliInvInit == CliInit => CliInv
<1> SUFFICES ASSUME CliInit
             PROVE  CliInv
  OBVIOUS
<1>1. HomeInv
  BY HomeInvInit
<1>2. RowsInv
  <2> DEFINE row(k) == NewRow(0, initialVersion, 1, InitialRows[k], Nil)
  <2>1. PICK present \in SUBSET DOMAIN InitialRows :
           rows = [k \in Keys |-> IF k \in present THEN row(k) ELSE NoRow]
    BY DEF CliInit, RpcInit
  <2>2. ASSUME NEW k \in present
        PROVE  /\ row(k) \in Row /\ row(k).spec \in Optional(SpecsOf(k))
               /\ k.tenant \in tenantsTable
    <3>1. /\ k \in Keys /\ k.tenant \in tenantsTable
          /\ InitialRows[k] \in IF k \in ProjectKeys THEN ProjectSpecs ELSE WorkflowSpecs
      BY InitialAssumption
    <3>2. InitialRows[k] \in SpecsOf(k)
      <4>1. k \in ProjectKeys <=> k.kind = "Project"
        BY <3>1, PartsOfKeys DEF Keys
      <4> QED
        BY <3>1, <4>1 DEF SpecsOf
    <3>3. InitialRows[k] \in Optional(SpecsOf(k))
          /\ InitialRows[k] \in Optional(ProjectSpecs \union WorkflowSpecs)
      BY <3>2 DEF SpecsOf, Optional
    <3>4. Nil \in Optional(Statuses) /\ initialVersion \in Nat \ {0}
      BY DEF Optional, initialVersion
    <3>5. row(k) \in Row /\ row(k).spec = InitialRows[k]
      BY <3>3, <3>4 DEF NewRow, Row
    <3> QED
      BY <3>1, <3>3, <3>5
  <2> HIDE DEF row
  <2>3. nextUid \in Nat
    BY DEF CliInit, RpcInit
  <2>4. \A k \in Keys : Present(k) => k \in present /\ rows[k] = row(k)
    BY <2>1 DEF Present
  <2>5. rows \in [Keys -> Row \union {NoRow}]
    BY <2>1, <2>2
  <2> QED
    BY <2>2, <2>3, <2>4, <2>5 DEF RowsInv
<1>3. TableInv
  BY <1>2 DEF CliInit, RpcInit, TableInv, HandlersInv, AnswersInv, Idle
<1>4. FilesInv
  BY DocumentAssumption DEF CliInit, FilesInv
<1>5. HistoryShape
  BY DEF CliInit, HistoryShape
<1>6. ASSUME NEW t \in Terminals
      PROVE  ProcessOK(t) /\ ProgressOK(t)
  <2>1. AtPrompt(t) /\ input[t] = <<>> /\ written[t] = <<>>
    BY DEF CliInit, AtPrompt
  <2> QED
    BY <2>1 DEF ProcessOK, ProgressOK, Applying
<1> QED
  BY <1>1, <1>3, <1>4, <1>5, <1>6 DEF CliInv

LEMMA CliInvStep ==
    ASSUME CliInv, [CliNext]_allVars
    PROVE  CliInv'
<1>1. HomeInv'
  BY HomeInvStep DEF CliInv
<1>2. CASE UNCHANGED allVars
  <2>1. UNCHANGED <<rows, nextUid, conn, inflight, answer, run, exit, disk, input, written, saved>>
    BY <1>2 DEF allVars, rpcVars, storeVars, cliVars, historyVars
  <2>2. TableInv' /\ FilesInv' /\ HistoryShape'
    BY <2>1 DEF CliInv, TableInv, RowsInv, HandlersInv, AnswersInv, Present, Idle, FilesInv,
                HistoryShape
  <2>3. \A t \in Terminals : ProcessOK(t)' /\ ProgressOK(t)'
    BY <2>1, ProcessFrame, ProgressFrame DEF CliInv
  <2> QED
    BY <1>1, <2>2, <2>3 DEF CliInv
<1>3. ASSUME NEW c \in Callers \ Terminals, ApiStep(c)
      PROVE  CliInv'
  BY <1>1, <1>3, ApiStepKeeps DEF CliInv
<1>4. ASSUME NEW t \in Terminals, TerminalStep(t)
      PROVE  CliInv'
  <2>1. TableInv' /\ FilesInv' /\ ProcessOK(t)' /\ ProgressOK(t)'
    BY <1>4, TerminalKeeps
  <2>2. HistoryShape'
        /\ \A u \in Terminals \ {t} :
              run'[u] = run[u] /\ input'[u] = input[u] /\ written'[u] = written[u]
    BY <1>4, TerminalsMindTheirOwn DEF CliInv, Minds
  <2>3. ASSUME NEW u \in Terminals \ {t}
        PROVE  answer'[u] = answer[u] /\ inflight'[u] = inflight[u]
    <3>1. CASE CallerStep(t)
      BY <3>1, OthersWait, TerminalAssumption DEF CliInv
    <3>2. CASE UNCHANGED rpcVars
      BY <3>2 DEF rpcVars
    <3> QED
      BY <1>4, <3>1, <3>2, TerminalsCall
  <2>4. \A u \in Terminals \ {t} : ProcessOK(u)' /\ ProgressOK(u)'
    BY <2>2, <2>3, ProcessFrame, ProgressFrame DEF CliInv
  <2> QED
    BY <1>1, <2>1, <2>2, <2>4 DEF CliInv
<1> QED
  BY <1>2, <1>3, <1>4 DEF CliNext

LEMMA CliInvariant == CliSpec => []CliInv
BY CliInvInit, CliInvStep, PTL DEF CliSpec

-----------------------------------------------------------------------------
(* The variables hold what the Go types allow, and no row belongs to a     *)
(* tenant the tenants table does not have, whatever documents are applied, *)
(* calls are made and handlers are cut off.                                *)
THEOREM TablesAreTyped == CliSpec => []RpcTypeOK
<1>1. CliInv => RpcTypeOK
  BY TableInvTypes DEF CliInv
<1> QED
  BY <1>1, CliInvariant, PTL

(* What an apply changed in the table is at any time what the first        *)
(* documents of its file ask for, in their order and each once, and        *)
(* nothing when a document of the file does not decode.                    *)
THEOREM WritesComeFromTheFile == CliSpec => []WritesFollowTheFile
<1>1. ASSUME CliInv
      PROVE  WritesFollowTheFile
  <2> SUFFICES ASSUME NEW t \in Terminals
               PROVE  /\ Bad(input[t]) => written[t] = <<>>
                      /\ Len(written[t]) <= Len(Asked(input[t]))
                      /\ \A i \in DOMAIN written[t] : written[t][i] = Asked(input[t])[i]
    BY DEF WritesFollowTheFile
  <2>1. ProcessOK(t) /\ ProgressOK(t)
    BY <1>1 DEF CliInv
  <2>2. CASE ~Applying(t)
    <3>1. input[t] = <<>> /\ written[t] = <<>>
      BY <2>1, <2>2 DEF ProgressOK
    <3>2. Len(Asked(<<>>)) \in Nat
      <4>1. <<>> \in Seq(FileContent)
        OBVIOUS
      <4> QED
        BY <4>1, AskedOfFile
    <3> QED
      BY <3>1, <3>2
  <2>3. CASE Applying(t)
    <3>1. run[t] \in Process /\ run[t].todo # <<>>
      BY <2>1, <2>3 DEF ProcessOK, Applying
    <3>2. /\ Finished(t) \in Nat /\ Finished(t) + Len(run[t].todo) = Len(Asked(input[t]))
          /\ Len(run[t].todo) \in Nat \ {0}
      BY <2>1, <2>3, <3>1, CurrentEntry, ProcessParts
    <3>3. /\ ~Bad(input[t]) /\ written[t] = First(Asked(input[t]), Stored(t))
          /\ Stored(t) \in Nat /\ Stored(t) <= Finished(t) + 1
      BY <2>1, <2>3, <3>2 DEF ProgressOK, Stored
    <3>4. Len(written[t]) = Stored(t)
      BY <3>3 DEF First
    <3>5. \A i \in DOMAIN written[t] : written[t][i] = Asked(input[t])[i]
      BY <3>3 DEF First
    <3> QED
      BY <3>2, <3>3, <3>4, <3>5
  <2> QED
    BY <2>2, <2>3
<1> QED
  BY <1>1, CliInvariant, PTL

(* A file that get printed one object into decodes to that object, however *)
(* many terminals print into however many files and whatever became of the *)
(* object; a list of several is refused as a whole.                        *)
THEOREM PrintedObjectsRoundTrip == CliSpec => []OutputRoundTrips
<1>1. ASSUME CliInv
      PROVE  OutputRoundTrips
  <2> SUFFICES ASSUME NEW f \in Files, saved[f] # {}
               PROVE  /\ Single(saved[f]) =>
                            /\ Len(decodeResources(disk[f])) = 1
                            /\ decodeResources(disk[f])[1].message \in saved[f]
                      /\ ~Single(saved[f]) => decodeResources(disk[f]) = <<>>
    BY DEF OutputRoundTrips, Single
  <2>1. PICK kind \in newMessageForKind :
           /\ saved[f] \subseteq Objects(kind)
           /\ disk[f] = IF Single(saved[f])
                        THEN <<encodeResource(kind, CHOOSE obj \in saved[f] : TRUE)>>
                        ELSE <<Garbled>>
    BY <1>1 DEF CliInv, FilesInv
  <2>2. CASE Single(saved[f])
    <3> DEFINE obj == CHOOSE obj \in saved[f] : TRUE
    <3>1. obj \in saved[f] /\ obj \in Objects(kind)
      BY <2>1
    <3>2. disk[f] = <<encodeResource(kind, obj)>>
      BY <2>1, <2>2
    <3> HIDE DEF obj
    <3>3. decodeResources(disk[f]) = <<[kind |-> kind, message |-> obj]>>
      BY <3>1, <3>2, EncodedDecodes
    <3> QED
      BY <2>2, <3>1, <3>3
  <2>3. CASE ~Single(saved[f])
    BY <2>1, <2>3, GarbledIsRefused
  <2> QED
    BY <2>2, <2>3
<1> QED
  BY <1>1, CliInvariant, PTL

(* An apply exits with 0 only when the table was given every document of   *)
(* its file, in order.                                                     *)
THEOREM SuccessMeansApplied == CliSpec => ExitZeroMeansApplied
<1> DEFINE Applied(t) == At(t, "answer") /\ run'[t] = NoRun /\ exit'[t] = 0 =>
                             ~Bad(input[t]) /\ written[t] = Asked(input[t])
<1>1. ASSUME CliInv, [CliNext]_allVars
      PROVE  [\A t \in Terminals : Applied(t)]_allVars
  <2> SUFFICES ASSUME NEW t \in Terminals, ~UNCHANGED allVars,
                      At(t, "answer"), AtPrompt(t)', exit'[t] = 0
               PROVE  ~Bad(input[t]) /\ written[t] = Asked(input[t])
    BY DEF AtPrompt
  <2>1. ~AtPrompt(t) /\ run[t].at = "answer" /\ run'[t] # run[t]
    BY DEF At, AtPrompt
  <2>2. TerminalStep(t)
    <3>1. ASSUME NEW u \in Terminals, TerminalStep(u), u # t
          PROVE  FALSE
      BY <1>1, <2>1, <3>1, TerminalsMindTheirOwn DEF CliInv, Minds
    <3>2. ASSUME NEW c \in Callers \ Terminals, ApiStep(c)
          PROVE  FALSE
      BY <2>1, <3>2 DEF ApiStep, cliVars
    <3> QED
      BY <1>1, <3>1, <3>2 DEF CliNext
  <2>3. CASE NextDocument(t)
    BY <1>1, <2>3, NextDocumentKeeps DEF CliInv
  <2>4. CASE Exit(t, 1)
    BY <1>1, <2>4, ExitKeeps DEF CliInv
  <2>5. CASE ServerStep(t)
    BY <2>1, <2>5 DEF ServerStep, cliVars
  <2> QED
    BY <2>1, <2>2, <2>3, <2>4, <2>5
    DEF TerminalStep, StartApply, StartGet, VersionCommand, ServerCommand, Ready, LookUp, Write,
        LookUpFailed, Ask, PrintAnswer, PrintError, Deadline, At
<1> QED
  BY <1>1, CliInvariant, PTL DEF CliSpec, ExitZeroMeansApplied
=============================================================================
