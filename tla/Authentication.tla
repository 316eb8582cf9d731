--------------------------- MODULE Authentication ---------------------------
(***************************************************************************)
(* AuthService of cherryfin/security/auth.py: who a request comes from,    *)
(* and what that principal may do.  A request has the fields               *)
(*   tenant   the tenant header as spelled, or None                        *)
(*   actor    the actor header, or None                                    *)
(*   key      the API key, or None                                         *)
(***************************************************************************)

CONSTANTS
  None,            \* a missing header, or a key or an actor not configured
  Normalized,      \* normalize_tenant_id: for each valid spelling, the tenant
  Actors,          \* the valid actor ids
  DefaultTenant,   \* default_tenant_id, normalized
  AdminKey,        \* platform_admin_api_key, or None
  Credentials,     \* for some tenants: a key, a role, and an actor or None
  Development,     \* the environment is development or test
  Denied           \* AuthenticationError

Reading ==
  {"instrument:read", "evidence:read", "claim:read", "contradiction:read",
   "capabilities:read"}

Analyzing == Reading \union {"analysis:run", "calculator:run"}

Ingesting ==
  Analyzing \union {"instrument:write", "evidence:write", "claim:write"}

Reviewing ==
  Analyzing \union
    {"evidence:content:read", "contradiction:resolve", "audit:read"}

\* _ROLE_SCOPES
Scopes ==
  [viewer |-> Reading, analyst |-> Analyzing, data_ingestor |-> Ingesting,
   reviewer |-> Reviewing, tenant_admin |-> Ingesting \union Reviewing,
   platform_admin |-> Ingesting \union Reviewing]

OrElse(value, default) == IF value = None THEN default ELSE value

\* The principal, once the key is accepted: the actor must be a valid one.
PrincipalAs(tenant, actor, role) ==
  IF actor \in Actors THEN [tenant |-> tenant, actor |-> actor, role |-> role]
  ELSE Denied

DevelopmentBypass ==
  Development /\ AdminKey = None /\ DOMAIN Credentials = {}

\* Fault: any tenant's key is accepted for every tenant.
HoldsSomeKey(tenant, key) ==
  /\ tenant \in DOMAIN Credentials
  /\ \E other \in DOMAIN Credentials : key = Credentials[other].key

\* The key is the one of the tenant.
HoldsKey(tenant, key) ==
  /\ tenant \in DOMAIN Credentials
  /\ key # None
  /\ key = Credentials[tenant].key

\* authenticate
Authenticate(request) ==
  LET spelled == OrElse(request.tenant, DefaultTenant)
      tenant == Normalized[spelled]
  IN  IF spelled \notin DOMAIN Normalized THEN Denied
      ELSE IF AdminKey # None /\ request.key = AdminKey
        THEN PrincipalAs(tenant, OrElse(request.actor, "platform-admin"),
                         "platform_admin")
      ELSE IF HoldsKey(tenant, request.key)
        THEN PrincipalAs(tenant,
                         OrElse(Credentials[tenant].actor, request.actor),
                         Credentials[tenant].role)
      ELSE IF DevelopmentBypass
        THEN PrincipalAs(tenant, OrElse(request.actor, "development"),
                         "platform_admin")
      ELSE Denied

\* authorize: has_scope
Authorized(principal, scope) == scope \in Scopes[principal.role]
=============================================================================
