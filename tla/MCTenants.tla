------------------------------ MODULE MCTenants ------------------------------
(***************************************************************************)
(* Three tenants: the default one, without a credential of its own; acme,  *)
(* whose ingestor's credential fixes the actor; and globex, whose reviewer *)
(* must say who acts.  The platform administrator acts for any of them.    *)
(***************************************************************************)
EXTENDS TenantService, TLC

MCNormalized ==
  [spelled \in {"default", "acme", "ACME", "globex"} |->
     IF spelled = "ACME" THEN "acme" ELSE spelled]

MCCredentials ==
  [acme |-> [key |-> "acmeKey", role |-> "data_ingestor", actor |-> "bot"],
   globex |-> [key |-> "globexKey", role |-> "reviewer", actor |-> None]]

MCActors == {"bot", "rita", "platform-admin"}

MCEvidence ==
  [tenant \in {"default", "acme", "globex"} |->
     IF tenant = "default" THEN <<>> ELSE [filing |-> <<tenant, "filing">>]]

From(tenant, actor, key, operation) ==
  [tenant |-> tenant, actor |-> actor, key |-> key, operation |-> operation]

Add(id, keys) ==
  [kind |-> "add", instrument |-> [id |-> id, identifiers |-> keys]]

ReadOf(evidence) == [kind |-> "content", evidence |-> evidence]

MCRequests ==
  \* Two instruments that claim one identifier, one of them restated.
  { From("ACME", None, "acmeKey", Add("i1", {"k1"})),
    From("acme", "rita", "acmeKey", Add("i2", {"k1", "k2"})),
    From("acme", None, "acmeKey", Add("i1", {"k2"})),
    From("acme", None, "acmeKey", [kind |-> "resolve", key |-> "k1"]),
  \* The same identifier at another tenant.
    From(None, None, "adminKey", Add("i1", {"k1"})),
  \* Content is for reviewers, and there may be none.
    From("acme", None, "adminKey", ReadOf("filing")),
    From(None, "rita", "adminKey", ReadOf("filing")),
    From("acme", None, "acmeKey", ReadOf("filing")),
  \* No actor, the key of another tenant, no key for no valid tenant.
    From("globex", None, "globexKey", ReadOf("filing")),
    From("globex", "rita", "acmeKey", ReadOf("filing")),
    From("not valid", None, None, ReadOf("filing")) }

WorkersAlike == Permutations(Workers)
=============================================================================
