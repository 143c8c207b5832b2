------------------------------- MODULE MCAudit -------------------------------
(* Three audits of two projects: an open one, whose troubles hide each in   *)
(* another category, and a careful one.                                     *)
EXTENDS SecurityAudit, TLC

CONSTANTS a1, a2, a3, open, careful, ssh, web, sql, deny, pass, lock, api, job, key, runner, secret, cluster, pod, projectName, other

MCAuditors == {a1, a2, a3}
MCProjects == {open, careful}

Grant(resource, scope, role, member) == [resource |-> resource, scope |-> scope, role |-> role, member |-> member]
Tcp(ports) == [protocol |-> "tcp", ports |-> ports]
All == [protocol |-> "all", ports |-> {}]
Rule(name, policy, order, action, what, families, targets) ==
  [name |-> name, policy |-> policy, order |-> order, action |-> action, what |-> what, families |-> families,
   targets |-> targets, destinations |-> {}, idle |-> FALSE, disabled |-> FALSE, logging |-> TRUE]
Service(name, kind, ingress, account) ==
  [name |-> name, kind |-> kind, account |-> account, invokerIAMDisabled |-> FALSE, ingress |-> ingress,
   external |-> FALSE, iap |-> FALSE, tls |-> TRUE, plaintext |-> FALSE, sensitivePort |-> FALSE]
Account(gsa) ==
  [name |-> pod, gsa |-> gsa, principal |-> "pod", namespace |-> "namespace", legacy |-> "legacy pod",
   isDefault |-> FALSE, used |-> TRUE, policyRead |-> TRUE, impersonates |-> TRUE, gsaRoles |-> {}]

OpenFacts ==
  [policies |-> {Grant(projectName, "project", "owner", runner), Grant(projectName, "ancestor", "run.invoker", "allUsers"),
                 Grant(secret, "resource", "secretmanager.secretAccessor", "allUsers")},
   accounts |-> {[name |-> other, disabled |-> FALSE, keys |-> {[name |-> key, exposed |-> TRUE, disabled |-> FALSE]}]},
   secrets |-> {[name |-> secret, enabled |-> TRUE, rotation |-> "none", referenced |-> TRUE]},
   services |-> {Service(api, "cloud_run", "all", runner), Service(job, "cloud_run", "internal", other)},
   firewalls |-> {Rule(deny, "p", 1, "deny", {Tcp(WebPorts)}, {"v4", "v6"}, {}),
                  Rule(pass, "q", 2, "goto_next", {All}, {"v4"}, {"db"}),
                  Rule(lock, "q", 3, "deny", {All}, {"v4"}, {"db"}),
                  Rule(ssh, "r", 4, "allow", {Tcp({22}), Tcp(WebPorts)}, {"v4", "v6"}, {"web"}),
                  Rule(sql, "r", 5, "allow", {Tcp({5432})}, {"v4"}, {"db"})},
   clusters |-> {[name |-> cluster, pool |-> TRUE, nodes |-> {}, accounts |-> {Account(runner)}]},
   recommendations |-> {[resource |-> projectName, severity |-> "medium"]}]

CarefulFacts ==
  [policies |-> {Grant(api, "resource", "run.invoker", "allUsers")},
   accounts |-> {[name |-> runner, disabled |-> FALSE, keys |-> {}]},
   secrets |-> {},
   services |-> {Service(api, "cloud_run", "all", runner), Service(job, "cloud_run", "all", runner)},
   firewalls |-> {Rule(deny, "q", 2, "deny", {All}, {"v4"}, {}),
                  Rule(pass, "p", 0, "goto_next", {All}, {"v4"}, {"web"}),
                  Rule(web, "q", 1, "allow", {Tcp({443})}, {"v4"}, {"web"}),
                  Rule(ssh, "r", 3, "allow", {Tcp({22})}, {"v4"}, {}),
                  Rule(sql, "r", 4, "allow", {Tcp({5432})}, {"v6"}, {})},
   clusters |-> {[name |-> cluster, pool |-> FALSE, nodes |-> {}, accounts |-> {}]},
   recommendations |-> {[resource |-> projectName, severity |-> "high"], [resource |-> runner, severity |-> "low"]}]

MCFacts == [p \in MCProjects |-> IF p = open THEN OpenFacts ELSE CarefulFacts]
MCLosses ==
  {[failed |-> {}, cut |-> {}], [failed |-> {}, cut |-> {"iam", "secrets"}], [failed |-> {}, cut |-> {"workload_identity"}],
   [failed |-> {"service_accounts", "secrets"}, cut |-> {"firewall"}], [failed |-> {"iam"}, cut |-> {"public_services"}]}
MCRetryTimes == {1, 3}
Symmetry == Permutations(MCAuditors)
MCSuppressions == {[rule |-> "PUB-001", resources |-> {api}, expiresAt |-> 2]}
=============================================================================
