----------------------------- MODULE SecurityAudit -----------------------------
(***************************************************************************)
(* The security audit engine (internal/securityaudit/engine.go). An audit   *)
(* looks for a cached report, or reads six kinds of facts and Google's own  *)
(* recommendations at once, judges them and caches its report, for a time   *)
(* that counts from the start of the audit and ends with the quota's block  *)
(* when the recommendations were refused. Audits of one project run side by *)
(* side; the calls of an audit end at its deadline.                         *)
(* The facts of a project do not change while it is audited here.           *)
(***************************************************************************)
EXTENDS SecurityScore

CONSTANTS
  Auditors,      \* callers, each of which asks once
  Projects,      \* what a project may look like,
  Facts,         \* as a function of which, the facts (SecurityRules)
  Losses,        \* [failed, cut]: the categories that failed or came in part
  Suppressions,  \* of the configuration: [rule, resources, expiresAt]
  RetryTimes,    \* when the quota may let recommendations be read again
  MaxFindings,   \* findings a report shows (200 in the code)
  TTL,           \* of a cached report
  Timeout,       \* of an audit
  LastTime       \* bound: the clock stops here

ASSUME TimesAssumption ==
  /\ TTL \in Nat \ {0} /\ Timeout \in Nat /\ LastTime \in Nat /\ RetryTimes \subseteq Nat
  /\ \A s \in Suppressions : s.expiresAt \in Nat
ASSUME MaxFindingsAssumption == MaxFindings \in Nat

(* What collectors return: lists; services of these kinds; "all" protocols  *)
(* without ports; members of grants that are somebody. Accounts are all     *)
(* read or none, and recommendations get one of four severities.            *)
Collectable(facts) ==
  /\ \A list \in {facts.policies, facts.accounts, facts.secrets, facts.services, facts.firewalls,
                  facts.clusters, facts.recommendations} : IsFiniteSet(list)
  /\ \A a \in facts.accounts : IsFiniteSet(a.keys)
  /\ \A c \in facts.clusters : IsFiniteSet(c.nodes) /\ IsFiniteSet(c.accounts)
  /\ \A s \in facts.services : isGKE(s) \/ s.kind \in {"cloud_run", "cloud_function_gen1"}
  /\ \A f \in facts.firewalls : /\ f.order \in Int
                               /\ \A w \in f.what : w.protocol = "all" => w.ports = {}
  /\ \A p \in facts.policies : p.member # "none"
  /\ \A r \in facts.recommendations : r.severity \in DOMAIN severityPenalty
ASSUME FactsAssumption == \A p \in Projects : Collectable(Facts[p])
ASSUME LossesAssumption ==
  \A loss \in Losses : loss.failed \subseteq Categories /\ loss.cut \subseteq Categories \ {"service_accounts"}

NoTime == -1
NoReport == [at |-> NoTime]
Refusals == {[denied |-> FALSE, retryAt |-> NoTime]} \cup {[denied |-> TRUE, retryAt |-> t] : t \in {NoTime} \cup RetryTimes}

VARIABLES now, project, cache, audits
vars == <<now, project, cache, audits>>

Idle == [phase |-> "idle", at |-> NoTime, report |-> NoReport]

Init ==
  /\ now = 0 /\ project \in Projects
  /\ cache = [report |-> NoReport, expiresAt |-> NoTime]
  /\ audits = [a \in Auditors |-> Idle]

(* collect: what a loss leaves of the facts. A search that reaches its cap  *)
(* and a unit that fails leave nothing of their category's facts; of the    *)
(* secrets, incomplete references are only warned of.                       *)
Collected(facts, loss) ==
  LET Left(category, all) == IF category \in loss.failed \cup loss.cut THEN {} ELSE all
      Units(category, more) == IF category \in loss.cut THEN <<"complete">> \o more ELSE <<"complete">>
  IN  [policies  |-> Left("iam", facts.policies),
       accounts  |-> Left("service_accounts", facts.accounts),
       services  |-> Left("public_services", facts.services),
       firewalls |-> Left("firewall", facts.firewalls),
       clusters  |-> Left("workload_identity", facts.clusters),
       secrets   |-> {[s EXCEPT !.referenced = @ /\ "secrets" \notin loss.cut] :
                        s \in IF "secrets" \in loss.failed THEN {} ELSE facts.secrets},
       recommendations |-> facts.recommendations,
       truncated |-> "iam" \in loss.cut,
       warned    |-> loss.cut \cap {"secrets"},
       units     |-> [category \in Categories |->
          CASE category \in {"secrets", "service_accounts"}      -> <<>>
            [] category = "iam"                                  -> Units(category, <<"truncated">>)
            [] category \in {"public_services", "firewall", "workload_identity"} -> Units(category, <<"error">>)]]

(* The report of an audit depends on nothing but what it read and on the    *)
(* suppressions that were in force.                                         *)
InForce(t) == {s \in Suppressions : t < s.expiresAt}
Situations ==
  [project : Projects, loss : Losses, denied : BOOLEAN, inForce : {InForce(t) : t \in 0..LastTime}]

ReportIn(situation) ==
  LET facts == Collected(Facts[situation.project], situation.loss)
  IN  buildReport(IF situation.denied THEN [facts EXCEPT !.recommendations = {}] ELSE facts,
                  situation.loss.failed, situation.inForce, NoTime, MaxFindings)

-----------------------------------------------------------------------------
Fresh == cache.report # NoReport /\ now < cache.expiresAt

Ask(a, refresh) ==
  /\ audits[a].phase = "idle"
  /\ audits' = [audits EXCEPT ![a] =
       IF ~refresh /\ Fresh
       THEN [phase |-> "served", at |-> now, report |-> cache.report]
       ELSE [phase |-> "collecting", at |-> now, report |-> NoReport]]
  /\ UNCHANGED <<now, project, cache>>

Sooner(expiry, refusal) ==
  IF refusal.denied /\ refusal.retryAt # NoTime /\ refusal.retryAt < expiry THEN refusal.retryAt ELSE expiry

(* Mutant of ExpiresAt: the time to live counts from the end of the audit.  *)
ExpiresFromTheEnd(start, refusal) == Sooner(now + TTL, refusal)

ExpiresAt(start, refusal) == Sooner(start + TTL, refusal)

Finish(a, loss, refusal) ==
  LET start  == audits[a].at
      of     == [project |-> project, loss |-> loss, denied |-> refusal.denied, inForce |-> InForce(start)]
      report == [at |-> start, of |-> of, retryAt |-> refusal.retryAt]
      expiresAt == ExpiresAt(start, refusal)
  IN  /\ audits[a].phase = "collecting"
      /\ audits' = [audits EXCEPT ![a] = [phase |-> "made", at |-> start, report |-> report]]
      /\ cache' = IF start < expiresAt THEN [report |-> report, expiresAt |-> expiresAt]
                  ELSE [report |-> NoReport, expiresAt |-> NoTime]
      /\ UNCHANGED <<now, project>>

(* No audit outlives its deadline. *)
Tick ==
  /\ now < LastTime
  /\ \A a \in Auditors : audits[a].phase = "collecting" => now < audits[a].at + Timeout
  /\ now' = now + 1
  /\ UNCHANGED <<project, cache, audits>>

Done == (\A a \in Auditors : audits[a].phase \in {"served", "made"}) /\ UNCHANGED vars

Next ==
  \/ \E a \in Auditors, refresh \in BOOLEAN : Ask(a, refresh)
  \/ \E a \in Auditors, loss \in Losses, refusal \in Refusals : Finish(a, loss, refusal)
  \/ Tick
  \/ Done

Spec == Init /\ [][Next]_vars

-----------------------------------------------------------------------------
Answered == {a \in Auditors : audits[a].phase \in {"served", "made"}}

(* What is really wrong: [category, resource, needs], where it is found     *)
(* only by what was read of the categories in needs.                        *)
Packets ==
  [protocol : {"tcp", "udp"}, port : SensitivePorts \cup WebPorts, family : {"v4", "v6"},
   target : {"web", "db"}, destination : {"here", "there"}]

(* A rule lets packets from anywhere in on a sensitive port.                *)
LetsIn(rules, rule) == \E p \in Packets : p.port \in SensitivePorts /\ Admits(rules, rule, p)

(* One that does, unless it is mistaken for shadowed: then FW-006 says that *)
(* a deny stops it, which it does not.                                      *)
Exposed(rules) == {rule \in rules : LetsIn(rules, rule) /\ ~MistakenForShadowed(rule, rules)}

(* Anyone may call the service, from anywhere.                              *)
AnyoneCalls(facts, s) ==
  /\ ~s.iap
  /\ IF isGKE(s) THEN s.external
     ELSE /\ s.ingress = "all"
          /\ \/ s.invokerIAMDisabled
             \/ \E p \in facts.policies : /\ p.member = "allUsers" /\ p.role \in {"run.invoker", "owner"}
                                          /\ p.resource = s.name \/ p.scope \in {"project", "ancestor"}

(* A pod's account acts as an owner, itself or as its Google account.       *)
ActsAsOwner(facts, account) ==
  \E p \in facts.policies : p.role = "owner" /\ p.member \in {account.principal, account.gsa}

Troubles(facts) ==
  {[resource |-> f.name, needs |-> {"firewall"}] : f \in Exposed(facts.firewalls)}
  \cup {[resource |-> s.name, needs |-> {"iam", "public_services"}] : s \in {t \in facts.services : AnyoneCalls(facts, t)}}
  \cup {[resource |-> k.name, needs |-> {"service_accounts"}] :
          k \in UNION {{j \in b.keys : j.exposed /\ ~j.disabled} : b \in facts.accounts}}
  \cup UNION {{[resource |-> b.name, needs |-> {"iam", "workload_identity"}] :
                 b \in {d \in c.accounts : ActsAsOwner(facts, d)}} : c \in facts.clusters}

Hides(situation) ==
  LET report == ReportIn(situation) IN
    \E trouble \in Troubles(Facts[situation.project]) :
      /\ ~\E f \in report.suppressed \cup (IF report.truncated THEN report.active ELSE report.shown) :
            f.resource = trouble.resource /\ f.severity \in {"critical", "high", "medium"}
      /\ \A category \in trouble.needs : report.coverage[category].status = "complete"

CostsPoints(situation) ==
  LET report == ReportIn(situation) IN
    \E kept \in SUBSET report.active :
      \/ calculateScore(kept, report.coverage) < report.score
      \/ \E c \in Categories : CategoryScore(kept, c) < CategoryScore(report.active, c)

(* Both of every situation, once. *)
Hiding == {<<situation, Hides(situation)>> : situation \in Situations}
Costing == {<<situation, CostsPoints(situation)>> : situation \in Situations}

(* Whatever is really wrong with the project is in the report, be it as an  *)
(* accepted risk, and shown unless the report says it is cut, or the report *)
(* says that something it takes to see it was not read completely. The one  *)
(* exception are firewall rules that are open though a deny seems to cover  *)
(* them (MistakenForShadowed).                                              *)
NothingHidden == \A a \in Answered : <<audits[a].report.of, FALSE>> \in Hiding

(* Repairing or accepting any of what a report found never costs points:    *)
(* with fewer findings the score, overall and of each category, is as high  *)
(* at least, and no audit that has a score loses it.                        *)
ScoreIsMonotone == \A a \in Answered : <<audits[a].report.of, FALSE>> \in Costing

(* A report that is served again is younger than TTL when it is asked for,  *)
(* and once the quota lets recommendations be read again no report without  *)
(* them is served; so a risk is accepted for less than TTL after its date.  *)
ServedInTime ==
  \A a \in Auditors : audits[a].phase = "served" =>
    LET report == audits[a].report IN
      /\ report.at <= audits[a].at /\ audits[a].at < report.at + TTL
      /\ report.of.denied /\ report.retryAt # NoTime => audits[a].at < report.retryAt
      /\ \A s \in report.of.inForce : audits[a].at < s.expiresAt + TTL
=============================================================================
