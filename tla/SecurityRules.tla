----------------------------- MODULE SecurityRules -----------------------------
(***************************************************************************)
(* The rules of the security audit (internal/securityaudit/rules.go,        *)
(* workload_identity.go) on what was collected:                             *)
(*   policies: the grants [resource, scope, role, member], where scope is   *)
(*     "resource", "project" or, inherited, "ancestor";                     *)
(*   accounts: [name, disabled, keys], a key being [name, exposed, disabled]; *)
(*   secrets: [name, enabled, rotation, referenced];                        *)
(*   services: [name, kind, account, invokerIAMDisabled, ingress, external, *)
(*     iap, tls, plaintext, sensitivePort];                                 *)
(*   firewalls: see SecurityFirewall;                                       *)
(*   clusters: [name, pool, nodes, accounts];                               *)
(*   recommendations: [resource, severity].                                 *)
(* Roles are named without "roles/", a member is known by its kind.         *)
(***************************************************************************)
EXTENDS SecurityFirewall, FiniteSets

Finding(rule, severity, category, resource, because) ==
  [rule |-> rule, severity |-> severity, category |-> category, resource |-> resource, because |-> because]

isPublicMember(member) == member = "allUsers"
isPublicInvocationRole(role) == role = "run.invoker"
isSecretAccessRole(role) == role \in {"secretmanager.secretAccessor", "secretmanager.admin"}
isPrivilegedRole(role) ==
  role \in {"owner", "editor", "iam.securityAdmin", "secretmanager.admin", "run.admin"}

-----------------------------------------------------------------------------
(* Invocation and access to secrets are left to the rules on services and   *)
(* on secrets.                                                              *)
evaluateIAM(policies) ==
  LET public   == {p \in policies : isPublicMember(p.member)}
      primitive(p) == p.role \in {"owner", "editor"} /\ p.member # "service agent"
      impersonates(p) ==
        p.scope = "project" /\ p.role \in {"iam.serviceAccountTokenCreator", "iam.serviceAccountUser"}
      Of(rule, severity, grants) ==
        {Finding(rule, severity, "iam", p.resource, <<p.member, p.role>>) : p \in grants}
      told == {p \in public : ~isPublicInvocationRole(p.role) /\ ~isSecretAccessRole(p.role)}
  IN  Of("IAM-001", "critical", {p \in told : isPrivilegedRole(p.role)})
        \cup Of("IAM-001", "high", {p \in told : ~isPrivilegedRole(p.role)})
        \cup Of("IAM-002", "high", {p \in policies \ public : primitive(p)})
        \cup Of("IAM-003", "high", {p \in policies \ public : impersonates(p)})
        \cup Of("IAM-004", "low", {p \in policies \ public : p.member = "deleted"})

KeyRule(key) ==
  CASE key.exposed /\ ~key.disabled  -> <<"SA-001", "critical">>
    [] key.exposed /\ key.disabled   -> <<"SA-002", "high">>
    [] ~key.exposed /\ ~key.disabled -> <<"SA-003", "high">>
    [] ~key.exposed /\ key.disabled  -> <<"SA-004", "low">>

evaluateServiceAccounts(accounts, policies) ==
  (UNION {{Finding(KeyRule(key)[1], KeyRule(key)[2], "service_accounts", key.name, <<"key">>) : key \in a.keys} :
            a \in accounts})
  \cup {Finding("SA-005", "low", "service_accounts", a.name, <<"bindings">>) :
          a \in {b \in accounts : b.disabled /\ \E p \in policies : p.member = b.name}}

(* publicRolesForResource: on the resource itself and inherited by it.      *)
publicRolesForResource(policies, resource) ==
  {p.role : p \in {q \in policies : isPublicMember(q.member) /\ (q.resource = resource \/ q.scope # "resource")}}

evaluateSecrets(secrets, policies) ==
  LET Of(rule, severity, those) == {Finding(rule, severity, "secrets", s.name, <<"secret">>) : s \in those}
      Public(s) == publicRolesForResource(policies, s.name)
      Access(role) == isSecretAccessRole(role) \/ isPrivilegedRole(role)
  IN  (UNION {{Finding("SEC-001", IF Access(role) THEN "critical" ELSE "high", "secrets", s.name, <<role>>) :
                 role \in Public(s)} : s \in secrets})
      \cup Of("SEC-002", "medium", {s \in secrets : ~s.enabled})
      \cup Of("SEC-003", "high", {s \in secrets : s.rotation = "overdue"})
      \cup Of("SEC-004", "medium", {s \in secrets : s.referenced /\ s.rotation = "none"})

-----------------------------------------------------------------------------
isGKE(service) == service.kind \in {"gke_service", "gke_ingress", "gke_gateway"}

permitsExternalIngress(service) ==
  IF service.kind \in {"cloud_run", "cloud_function_gen1"} THEN service.ingress \in {"all", "load balancer"}
  ELSE service.external

InvokedByAnyone(service, policies) ==
  \/ service.invokerIAMDisabled
  \/ \E role \in publicRolesForResource(policies, service.name) :
       isPublicInvocationRole(role) \/ isPrivilegedRole(role)

isPublic(service, policies) ==
  /\ ~service.iap
  /\ IF isGKE(service) THEN service.external
     ELSE InvokedByAnyone(service, policies) /\ permitsExternalIngress(service)

memberHasPrivilegedRole(policies, member) ==
  \E p \in policies : p.member = member /\ isPrivilegedRole(p.role)

evaluatePublicServices(services, policies) ==
  LET public == {s \in services : isPublic(s, policies)}
      grave(s) == \/ memberHasPrivilegedRole(policies, s.account)
                  \/ s.kind = "cloud_function_gen1" /\ ~s.tls
      plain(s) == s.kind \in {"gke_ingress", "gke_gateway"} /\ (~s.tls \/ s.plaintext)
      Of(rule, severity, those) == {Finding(rule, severity, "public_services", s.name, <<"service">>) : s \in those}
  IN  Of("PUB-001", "high", {s \in public : grave(s)})
        \cup Of("PUB-001", "medium", {s \in public : ~grave(s)})
        \cup Of("PUB-002", "high", {s \in public : plain(s)})
        \cup Of("PUB-003", "high", {s \in public : s.sensitivePort})

FirewallSeverity(rule) ==
  CASE rule = "FW-001" -> "critical"
    [] rule = "FW-002" -> "high"
    [] rule = "FW-003" -> "medium"
    [] rule \in {"FW-004", "FW-005", "FW-006"} -> "low"

evaluateFirewalls(firewalls) ==
  UNION {{Finding(rule, FirewallSeverity(rule), "firewall", f.name, <<"rule">>) :
            rule \in FirewallRules(f, firewalls)} : f \in firewalls}

-----------------------------------------------------------------------------
(* correlateWorkloadIdentity, appendUniqueRoles.                            *)
RolesOf(policies, member) == {p.role : p \in {q \in policies : q.member = member}} \ {"iam.workloadIdentityUser"}

DirectRoles(account, policies) == RolesOf(policies, account.principal)
NamespaceRoles(account, policies) == RolesOf(policies, account.namespace)
MappedGSARoles(account, policies) ==
  IF account.gsa = "none" THEN {} ELSE RolesOf(policies, account.gsa) \cup account.gsaRoles
ImpersonationVerified(account, policies) ==
  \/ account.impersonates
  \/ [resource |-> account.gsa, scope |-> "resource", role |-> "iam.workloadIdentityUser",
      member |-> account.legacy] \in policies

(* An account of a cluster: [name, gsa, principal, namespace, legacy] as    *)
(* members of policies, isDefault, used, and what was read of its Google    *)
(* service account: policyRead, impersonates, gsaRoles.                     *)
AccountFindings(account, policies) ==
  LET direct == DirectRoles(account, policies)
      inNamespace == NamespaceRoles(account, policies)
      mapped == MappedGSARoles(account, policies)
      privileged == {role \in direct \cup mapped : isPrivilegedRole(role)}
      If(condition, rule, severity) ==
        IF condition THEN {Finding(rule, severity, "workload_identity", account.name, <<"account">>)} ELSE {}
  IN  If(/\ account.gsa # "none" /\ ~ImpersonationVerified(account, policies)
         /\ account.policyRead, "WIF-004", "high")
      \cup If(privileged # {}, "WIF-005", IF privileged \cap {"owner", "editor"} # {} THEN "critical" ELSE "high")
      \cup If(inNamespace # {}, "WIF-006",
              IF \E role \in inNamespace : isPrivilegedRole(role) THEN "high" ELSE "medium")
      \cup If(account.isDefault /\ account.used /\ direct \cup inNamespace \cup mapped # {}, "WIF-007", "high")
      \cup If(account.gsa # "none" /\ direct # {}, "WIF-008", "medium")

FindingsOfAccounts(clusters, policies) ==
  UNION {UNION {AccountFindings(a, policies) : a \in c.accounts} : c \in clusters}

evaluateWorkloadIdentity(clusters, policies) ==
  LET Of(rule, severity, names) == {Finding(rule, severity, "workload_identity", n, <<"cluster">>) : n \in names}
  IN  Of("WIF-001", "medium", {c.name : c \in {d \in clusters : ~d.pool}})
      \cup (UNION {Of("WIF-002", "high", {n.name : n \in {m \in c.nodes : c.pool /\ ~m.metadataServer}}) : c \in clusters})
      \cup (UNION {Of("WIF-003", "medium", {n.name : n \in {m \in c.nodes : m.defaultAccount}}) : c \in clusters})
      \cup FindingsOfAccounts(clusters, policies)

-----------------------------------------------------------------------------
(* evaluateRules: what was not collected is not judged.                     *)
evaluateRules(facts, failed) ==
  LET Unless(category, findings) == IF category \in failed THEN {} ELSE findings
  IN  Unless("iam", evaluateIAM(facts.policies))
        \cup Unless("service_accounts", evaluateServiceAccounts(facts.accounts, facts.policies))
        \cup Unless("secrets", evaluateSecrets(facts.secrets, facts.policies))
        \cup Unless("public_services", evaluatePublicServices(facts.services, facts.policies))
        \cup Unless("firewall", evaluateFirewalls(facts.firewalls))
        \cup Unless("workload_identity", evaluateWorkloadIdentity(facts.clusters, facts.policies))
        \cup {Finding("REC-001", r.severity, "iam", r.resource, <<"recommended">>) : r \in facts.recommendations}
=============================================================================
