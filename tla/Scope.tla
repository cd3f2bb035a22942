-------------------------------- MODULE Scope --------------------------------
(* What a request may see and do: auth/scope.py and auth/dependencies.py.     *)
(* A principal is [roles, modules, accounts]: a role is cloud_admin,          *)
(* cloud_ops or a provider (for cloud_<provider>); modules and accounts are   *)
(* what an API key is restricted to, Unrestricted where it says nothing.      *)

FullRoles == {"cloud_admin", "cloud_ops"}
Unrestricted == {"any"}

FullAccess(p) == p.roles \cap FullRoles # {}

\* extract_providers_from_roles
ProvidersOf(p) == p.roles \ FullRoles

\* require_roles: the administrator passes everywhere.
HasRole(p, allowed) == p.roles \cap (allowed \cup {"cloud_admin"}) # {}

\* require_cloud_role
CloudRole(p) == FullAccess(p) \/ ProvidersOf(p) # {}

\* require_module: what the key lists, and the switch of the module.
MayUse(p, module, enabled) ==
    /\ p.modules = Unrestricted \/ module \in p.modules
    /\ module \in enabled

\* visible_cloud_account_ids; provider is a function from the accounts to their providers.
VisibleAccounts(p, provider) ==
    LET mine == IF FullAccess(p) THEN DOMAIN provider
                ELSE {a \in DOMAIN provider : provider[a] \in ProvidersOf(p)}
    IN  IF p.accounts = Unrestricted THEN mine ELSE mine \cap p.accounts

\* visible_data_source_ids
VisibleSources(p, provider, account) ==
    {d \in DOMAIN account : account[d] \in VisibleAccounts(p, provider)}

\* ensure_provider_visible
ProviderVisible(p, v) == FullAccess(p) \/ v \in ProvidersOf(p)
=============================================================================
