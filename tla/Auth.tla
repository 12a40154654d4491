-------------------------------- MODULE Auth --------------------------------
(***************************************************************************)
(* internal/auth: what turns the authorization header of a call into the   *)
(* identity its handler works for, and internal/server/resources.go, which *)
(* reads the tenant from it.  No state: a server's provider is fixed when  *)
(* it is built.  "kestrai up" builds one server, with the local-dev        *)
(* provider; the static-token provider is there for other builds.          *)
(*                                                                         *)
(* A header is NoHeader or a record of its scheme and token.               *)
(***************************************************************************)
EXTENDS Naturals

CONSTANTS
    NoHeader,       \* a call without an authorization header
    NoInterceptor,  \* a server built without one
    NoIdentity,     \* a context the interceptor attached no identity to
    Refused,        \* what a provider answers instead of an identity
    DefaultTenant,  \* "default"
    Trimmed         \* Trimmed[token]: the token without the blanks around it

(* Provider: its Name and what it was configured with. *)
LocalDev == [name |-> "local-dev"]
StaticToken(token, tenant) == [name |-> "static-token", token |-> token, tenant |-> tenant]

Identity(subject, tenant) == [subject |-> subject, tenant |-> tenant]

(* The scheme is compared without case; the first header counts. *)
bearerToken(header) ==
    IF header # NoHeader /\ header.scheme = "bearer" THEN Trimmed[header.token] ELSE ""

(* LocalDev.Authenticate and StaticToken.Authenticate. *)
AuthenticateLocalDev == Identity("local-dev", DefaultTenant)

AuthenticateStaticToken(provider, token) ==
    IF token # "" /\ token = provider.token
    THEN Identity("static-token", provider.tenant)
    ELSE Refused

authenticate(provider, header) ==
    IF provider.name = "local-dev" THEN AuthenticateLocalDev
    ELSE AuthenticateStaticToken(provider, bearerToken(header))

(* Interceptor.Unary: public methods run without an identity.  A server    *)
(* built without an interceptor runs every method that way.                *)
Unary(interceptor, method, header) ==
    IF interceptor = NoInterceptor \/ method \in interceptor.public THEN NoIdentity
    ELSE authenticate(interceptor.provider, header)

(* Interceptor.Stream does the same for a streaming call and hands the     *)
(* identity on by overriding the context of the stream.                    *)
Stream(interceptor, method, header) == Unary(interceptor, method, header)

(* Mutant: the tenant the request names is preferred. *)
resolveTenant_FromRequest(identity, requested) ==
    IF requested # "" THEN requested
    ELSE IF identity # NoIdentity /\ identity.tenant # "" THEN identity.tenant
    ELSE DefaultTenant

(* The identity decides; what the request says of its tenant is ignored. *)
resolveTenant(identity, requested) ==
    IF identity # NoIdentity /\ identity.tenant # "" THEN identity.tenant ELSE DefaultTenant
=============================================================================
