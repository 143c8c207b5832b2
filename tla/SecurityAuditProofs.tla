-------------------------- MODULE SecurityAuditProofs --------------------------
(***************************************************************************)
(* What SecurityAudit promises of its cache, its findings and its score,    *)
(* for any callers, projects, losses, suppressions and times.               *)
(***************************************************************************)
EXTENDS SecurityAudit, FiniteSetTheorems, SequenceTheorems, TLAPS

(* A report is about its start: so are the suppressions it was made with.   *)
MadeBy(report, t) ==
  /\ report.at \in Nat /\ report.at <= t /\ report.retryAt \in Int
  /\ report.of.inForce = InForce(report.at)

(* The clock; callers that are in an audit began it in the past; and what   *)
(* is in the cache does not outlive its time to live or the quota's block.  *)
ClockInv == now \in Nat

AuditsInv ==
  /\ audits = [a \in Auditors |-> audits[a]]
  /\ \A a \in Auditors : audits[a].phase = "collecting" => audits[a].at \in Nat /\ audits[a].at <= now

CacheInv ==
  cache.report # NoReport =>
    /\ MadeBy(cache.report, now)
    /\ cache.expiresAt \in Int /\ cache.expiresAt <= cache.report.at + TTL
    /\ (cache.report.of.denied /\ cache.report.retryAt # NoTime) => cache.expiresAt <= cache.report.retryAt

ServedInv ==
  \A a \in Auditors : audits[a].phase = "served" =>
    LET report == audits[a].report IN
      /\ audits[a].at \in Nat /\ MadeBy(report, now)
      /\ report.at <= audits[a].at /\ audits[a].at < report.at + TTL
      /\ report.of.denied /\ report.retryAt # NoTime => audits[a].at < report.retryAt

IInv == ClockInv /\ AuditsInv /\ CacheInv /\ ServedInv

LEMMA SoonerBound ==
  ASSUME NEW expiry \in Int, NEW refusal \in Refusals
  PROVE  /\ Sooner(expiry, refusal) \in Int /\ Sooner(expiry, refusal) <= expiry
         /\ (refusal.denied /\ refusal.retryAt # NoTime) => Sooner(expiry, refusal) <= refusal.retryAt
         /\ refusal.retryAt \in Int
<1>1. refusal.retryAt \in Int
  BY TimesAssumption DEF Refusals, NoTime
<1> QED
  BY <1>1 DEF Sooner

LEMMA InitInv == ASSUME Init PROVE IInv
BY DEF Init, IInv, ClockInv, AuditsInv, CacheInv, ServedInv, Idle

LEMMA AskInv ==
  ASSUME IInv, NEW a \in Auditors, NEW refresh \in BOOLEAN, Ask(a, refresh)
  PROVE  IInv'
<1> USE DEF IInv, ClockInv
<1>1. now' = now /\ cache' = cache /\ audits[a].phase = "idle"
  BY DEF Ask
<1>2. /\ audits' = [b \in Auditors |-> audits'[b]]
      /\ \A b \in Auditors \ {a} : audits'[b] = audits[b]
  BY DEF Ask, AuditsInv
<1>3. \/ audits'[a] = [phase |-> "served", at |-> now, report |-> cache.report] /\ Fresh
      \/ audits'[a] = [phase |-> "collecting", at |-> now, report |-> NoReport]
  BY DEF Ask, AuditsInv
<1>4. AuditsInv'
  BY <1>1, <1>2, <1>3 DEF AuditsInv
<1>5. CacheInv'
  BY <1>1 DEF CacheInv, MadeBy
<1>6. ServedInv'
  <2> SUFFICES ASSUME NEW b \in Auditors, audits'[b].phase = "served"
               PROVE  LET report == audits'[b].report IN
                        /\ audits'[b].at \in Nat /\ MadeBy(report, now')
                        /\ report.at <= audits'[b].at /\ audits'[b].at < report.at + TTL
                        /\ report.of.denied /\ report.retryAt # NoTime => audits'[b].at < report.retryAt
    BY DEF ServedInv
  <2>1. CASE b # a
    BY <2>1, <1>1, <1>2 DEF ServedInv, MadeBy
  <2>2. CASE b = a
    <3>1. audits'[a].at = now /\ audits'[a].report = cache.report /\ Fresh
      BY <2>2, <1>3
    <3>2. /\ MadeBy(cache.report, now) /\ cache.expiresAt \in Int /\ now < cache.expiresAt
          /\ cache.expiresAt <= cache.report.at + TTL
          /\ (cache.report.of.denied /\ cache.report.retryAt # NoTime) => cache.expiresAt <= cache.report.retryAt
      BY <3>1 DEF CacheInv, Fresh
    <3>3. cache.report.at \in Nat /\ cache.report.at <= now /\ now < cache.report.at + TTL
      BY <3>2, TimesAssumption DEF MadeBy
    <3>4. ASSUME cache.report.of.denied, cache.report.retryAt # NoTime
          PROVE  now < cache.report.retryAt
      <4>1. cache.expiresAt <= cache.report.retryAt
        BY <3>2, <3>4
      <4> QED BY <4>1, <3>2 DEF MadeBy
    <3> QED BY <2>2, <1>1, <3>1, <3>2, <3>3, <3>4
  <2> QED BY <2>1, <2>2
<1> QED BY <1>1, <1>4, <1>5, <1>6

LEMMA FinishInv ==
  ASSUME IInv, NEW a \in Auditors, NEW loss \in Losses, NEW refusal \in Refusals, Finish(a, loss, refusal)
  PROVE  IInv'
<1> USE DEF IInv, ClockInv
<1> DEFINE start  == audits[a].at
           of     == [project |-> project, loss |-> loss, denied |-> refusal.denied, inForce |-> InForce(start)]
           report == [at |-> start, of |-> of, retryAt |-> refusal.retryAt]
           expiry == ExpiresAt(start, refusal)
<1>1. /\ now' = now /\ audits[a].phase = "collecting"
      /\ audits' = [audits EXCEPT ![a] = [phase |-> "made", at |-> start, report |-> report]]
      /\ cache' = IF start < expiry THEN [report |-> report, expiresAt |-> expiry]
                  ELSE [report |-> NoReport, expiresAt |-> NoTime]
  BY DEF Finish
<1>2. start \in Nat /\ start <= now
  BY <1>1 DEF AuditsInv
<1>3. /\ expiry \in Int /\ expiry <= start + TTL
      /\ (refusal.denied /\ refusal.retryAt # NoTime) => expiry <= refusal.retryAt
      /\ refusal.retryAt \in Int
  BY <1>2, SoonerBound, TimesAssumption DEF ExpiresAt
<1>4. /\ audits' = [b \in Auditors |-> audits'[b]]
      /\ \A b \in Auditors \ {a} : audits'[b] = audits[b]
      /\ audits'[a].phase = "made"
  BY <1>1 DEF AuditsInv
<1>5. AuditsInv'
  BY <1>1, <1>4 DEF AuditsInv
<1>6. CacheInv'
  <2> SUFFICES ASSUME cache'.report # NoReport
               PROVE  /\ MadeBy(cache'.report, now')
                      /\ cache'.expiresAt \in Int /\ cache'.expiresAt <= cache'.report.at + TTL
                      /\ (cache'.report.of.denied /\ cache'.report.retryAt # NoTime)
                           => cache'.expiresAt <= cache'.report.retryAt
    BY DEF CacheInv
  <2>1. cache'.report = report /\ cache'.expiresAt = expiry
    BY <1>1
  <2>2. report.at = start /\ report.of.denied = refusal.denied /\ report.retryAt = refusal.retryAt
        /\ report.of.inForce = InForce(start)
    OBVIOUS
  <2> HIDE DEF start, report, expiry
  <2> QED BY <2>1, <2>2, <1>1, <1>2, <1>3 DEF MadeBy
<1>7. ServedInv'
  BY <1>1, <1>4 DEF ServedInv, MadeBy
<1> QED BY <1>1, <1>5, <1>6, <1>7

LEMMA TickInv == ASSUME IInv, Tick PROVE IInv'
<1>1. now' = now + 1 /\ cache' = cache /\ audits' = audits
  BY DEF Tick
<1>2. now \in Nat /\ now' \in Nat
  BY <1>1 DEF IInv, ClockInv
<1>3. AuditsInv' /\ ServedInv'
  BY <1>1, <1>2 DEF IInv, AuditsInv, ServedInv, MadeBy
<1>4. CacheInv'
  BY <1>1, <1>2 DEF IInv, CacheInv, MadeBy
<1> QED BY <1>2, <1>3, <1>4 DEF IInv, ClockInv

LEMMA InvImplies == ASSUME IInv PROVE ServedInTime
<1> SUFFICES ASSUME NEW a \in Auditors, audits[a].phase = "served", NEW s \in audits[a].report.of.inForce
             PROVE  audits[a].at < s.expiresAt + TTL
  BY DEF IInv, ServedInv, ServedInTime
<1>1. s \in InForce(audits[a].report.at) /\ audits[a].report.at \in Nat
      /\ audits[a].at \in Nat /\ audits[a].at < audits[a].report.at + TTL
  BY DEF IInv, ServedInv, MadeBy
<1>2. audits[a].report.at < s.expiresAt /\ s.expiresAt \in Nat
  BY <1>1, TimesAssumption DEF InForce
<1> QED BY <1>1, <1>2, TimesAssumption

LEMMA StepInv ==
  ASSUME IInv, [Next]_vars
  PROVE  IInv'
<1>1. CASE UNCHANGED vars
  BY <1>1 DEF vars, IInv, ClockInv, AuditsInv, CacheInv, ServedInv, MadeBy
<1>2. CASE Done
  BY <1>1, <1>2 DEF Done, vars, IInv, ClockInv, AuditsInv, CacheInv, ServedInv, MadeBy
<1> QED BY <1>1, <1>2, AskInv, FinishInv, TickInv DEF Next

(* ServedInTime holds of every behaviour: whatever the order in which       *)
(* audits begin and end, and however late the slower of two stores its      *)
(* report, what is served again is younger than TTL, ends with the quota's  *)
(* block, and honours no suppression TTL after its date.                    *)
THEOREM AuditsServeInTime == Spec => []ServedInTime
<1>1. Init => IInv
  BY InitInv
<1>2. IInv /\ [Next]_vars => IInv'
  BY StepInv
<1>3. IInv => ServedInTime
  BY InvImplies
<1> QED BY <1>1, <1>2, <1>3, PTL DEF Spec

-----------------------------------------------------------------------------
(* A deny that covers a rule stops what the rule would let in.              *)
LEMMA ShadowStops ==
  ASSUME NEW rules, NEW rule \in rules, NEW deny \in fullyShadowingDeny(rule, rules), NEW packet,
         Concerns(rule, packet), StopsAll(deny, rule, rules),
         \A w \in deny.what : w.protocol = "all" => w.ports = {}
  PROVE  Concerns(deny, packet)
<1>1. /\ ~deny.disabled /\ firewallTargetsCover(deny, rule) /\ firewallProtocolsCover(deny.what, rule.what)
  BY DEF fullyShadowingDeny
<1>2. ~deny.idle /\ (deny.targets = {} \/ packet.target \in deny.targets)
  BY <1>1 DEF firewallTargetsCover, Concerns
<1>3. PICK w \in rule.what : /\ w.protocol \in {"all", packet.protocol}
                             /\ w.ports = {} \/ packet.port \in w.ports
  BY DEF Concerns
<1>4. PICK d \in deny.what : d.protocol = "all" \/ (d.protocol = w.protocol /\ portRangesCover(d.ports, w.ports))
  BY <1>1, <1>3 DEF firewallProtocolsCover
<1>5. d.protocol \in {"all", packet.protocol} /\ (d.ports = {} \/ packet.port \in d.ports)
  BY <1>3, <1>4 DEF portRangesCover
<1>6. packet.family \in deny.families /\ (deny.destinations = {} \/ packet.destination \in deny.destinations)
  BY DEF StopsAll, Concerns
<1> QED BY <1>1, <1>2, <1>4, <1>5, <1>6 DEF Concerns

LEMMA LetInIsGrave ==
  ASSUME NEW rules, NEW rule \in Exposed(rules),
         \A f \in rules : f.order \in Int /\ \A w \in f.what : w.protocol = "all" => w.ports = {}
  PROVE  \E name \in FirewallRules(rule, rules) : name \in {"FW-001", "FW-002"}
<1>1. PICK p \in Packets : p.port \in SensitivePorts /\ Admits(rules, rule, p)
  BY DEF Exposed, LetsIn
<1>2. rule \in rules /\ ~MistakenForShadowed(rule, rules)
  BY DEF Exposed
<1>3. p.protocol \in {"tcp", "udp"}
  BY DEF Packets
<1>4. rule.action = "allow" /\ Decides(rules, rule, p) /\ Concerns(rule, p)
  BY <1>1 DEF Admits, Decides
<1>5. fullyShadowingDeny(rule, rules) = {}
  <2> SUFFICES ASSUME NEW deny \in fullyShadowingDeny(rule, rules) PROVE FALSE
    OBVIOUS
  <2>1. StopsAll(deny, rule, rules)
    BY <1>2 DEF MistakenForShadowed
  <2>2. deny \in rules /\ deny.order < rule.order
    BY DEF fullyShadowingDeny
  <2>3. Concerns(deny, p)
    BY <1>2, <1>4, <2>1, <2>2, ShadowStops
  <2>4. PICK pass \in rules : /\ pass.action = "goto_next" /\ Concerns(pass, p)
                              /\ pass.policy = deny.policy /\ pass.order <= deny.order
    BY <1>4, <2>2, <2>3 DEF Decides
  <2>5. deny.order < pass.order
    BY <2>1, <2>4 DEF StopsAll, Concerns
  <2> QED BY <2>2, <2>4, <2>5
<1>8. ~rule.disabled /\ ~rule.idle /\ rule.families # {}
  BY <1>4 DEF Concerns
<1>9. PICK w \in rule.what : w.protocol \in {"all", p.protocol} /\ (w.ports = {} \/ p.port \in w.ports)
  BY <1>4 DEF Concerns
<1>10. AllTraffic(rule) \/ Dangerous(rule)
  BY <1>1, <1>3, <1>9 DEF AllTraffic, Dangerous
<1> QED BY <1>4, <1>5, <1>8, <1>9, <1>10 DEF FirewallRules, allowsWorld

-----------------------------------------------------------------------------
(* What an audit read, and what it found in it.                             *)
FactsIn(situation) ==
  LET facts == Collected(Facts[situation.project], situation.loss)
  IN  IF situation.denied THEN [facts EXCEPT !.recommendations = {}] ELSE facts
Found(situation) == evaluateRules(FactsIn(situation), situation.loss.failed)
CoverageIn(situation) == buildCoverage(FactsIn(situation), situation.loss.failed)
Accepts(situation) == Suppressed(Found(situation), situation.inForce, NoTime)

LEMMA ReportParts ==
  ASSUME NEW situation
  PROVE  /\ ReportIn(situation).active = Found(situation) \ Accepts(situation)
         /\ ReportIn(situation).suppressed = Accepts(situation)
         /\ ReportIn(situation).shown = Shown(Found(situation) \ Accepts(situation), MaxFindings)
         /\ ReportIn(situation).truncated = TooMany(Found(situation) \ Accepts(situation), MaxFindings)
         /\ ReportIn(situation).coverage = CoverageIn(situation)
         /\ ReportIn(situation).score = calculateScore(Found(situation) \ Accepts(situation), CoverageIn(situation))
BY DEF ReportIn, buildReport, Found, Accepts, CoverageIn, FactsIn

(* The fields of what was read that losses do not touch, or touch alone.    *)
LEMMA ReadParts ==
  ASSUME NEW situation \in Situations
  PROVE  LET facts == Facts[situation.project]
             seen  == FactsIn(situation)
             lost  == situation.loss.failed \cup situation.loss.cut
         IN  /\ "iam" \notin lost => seen.policies = facts.policies
             /\ "service_accounts" \notin lost => seen.accounts = facts.accounts
             /\ "public_services" \notin lost => seen.services = facts.services
             /\ "firewall" \notin lost => seen.firewalls = facts.firewalls
             /\ "workload_identity" \notin lost => seen.clusters = facts.clusters
BY DEF FactsIn, Collected

Outcomes == {"complete", "error", "truncated"}

(* Units of which not all are complete, and so are not more of them.        *)
Gap(units) == units \in Seq(Outcomes) /\ \E i \in 1..Len(units) : units[i] # "complete"

LEMMA GapIsCounted ==
  ASSUME NEW units, Gap(units)
  PROVE  CompletedUnits(units) < Len(units)
<1> DEFINE done == {i \in DOMAIN units : units[i] = "complete"}
           all  == DOMAIN units
<1>1. Len(units) \in Nat /\ all = 1..Len(units)
  BY DEF Gap
<1>2. \A n \in Nat : IsFiniteSet(1..n) /\ Cardinality(1..n) = n
  BY FS_Interval
<1>3. IsFiniteSet(all) /\ Cardinality(all) = Len(units)
  BY <1>1, <1>2, Zenon
<1>4. done \subseteq all /\ done # all
  BY <1>1 DEF Gap
<1> HIDE DEF done, all
<1>5. IsFiniteSet(done) /\ Cardinality(done) <= Len(units) /\ Cardinality(done) # Len(units)
  BY <1>3, <1>4, FS_Subset
<1>6. Cardinality(done) \in Nat
  BY <1>5, FS_CardinalityType
<1>7. CompletedUnits(units) = Cardinality(done)
  BY DEF CompletedUnits, done
<1> QED BY <1>1, <1>5, <1>6, <1>7

LEMMA MoreUnits ==
  ASSUME NEW units \in Seq(Outcomes), NEW unit \in Outcomes
  PROVE  /\ unit # "complete" => Gap(units \o <<unit>>)
         /\ Gap(units) => Gap(units \o <<unit>>)
<1>1. \A S, u : u \in S => <<u>> \in Seq(S) /\ Len(<<u>>) = 1 /\ <<u>>[1] = u
  OBVIOUS
<1>2. Len(units) \in Nat
  OBVIOUS
<1>3. /\ units \o <<unit>> \in Seq(Outcomes) /\ Len(units \o <<unit>>) = Len(units) + 1
      /\ \A i \in 1..Len(units) : (units \o <<unit>>)[i] = units[i]
      /\ (units \o <<unit>>)[Len(units) + 1] = unit
  BY <1>1, <1>2, ConcatProperties
<1> QED BY <1>2, <1>3 DEF Gap

LEMMA CutLeavesGap ==
  ASSUME NEW situation \in Situations, NEW c \in situation.loss.cut \ {"secrets", "service_accounts"},
         c \in Categories
  PROVE  Gap(UnitsOf(FactsIn(situation), c))
<1> DEFINE seen == FactsIn(situation)
<1>1. \E unit \in {"error", "truncated"} : seen.units[c] = <<"complete">> \o <<unit>>
  BY DEF FactsIn, Collected, Categories
<1>2. <<"complete">> \in Seq(Outcomes)
  BY DEF Outcomes
<1>3. Gap(seen.units[c])
  BY <1>1, <1>2, MoreUnits DEF Outcomes
<1>4. CASE c = "iam" /\ seen.truncated
  <2>1. UnitsOf(seen, c) = seen.units[c] \o <<"truncated">>
    BY <1>4 DEF UnitsOf
  <2> QED BY <2>1, <1>3, MoreUnits DEF Gap, Outcomes
<1>5. CASE ~(c = "iam" /\ seen.truncated)
  <2>1. UnitsOf(seen, c) = seen.units[c] \o <<>>
    BY <1>5 DEF UnitsOf
  <2>2. seen.units[c] \in Seq(Outcomes)
    BY <1>3 DEF Gap
  <2> QED BY <2>1, <2>2, <1>3, ConcatEmptySeq
<1> QED BY <1>4, <1>5

LEMMA CompleteWasRead ==
  ASSUME NEW situation \in Situations, NEW category \in Categories \ {"secrets"},
         CoverageIn(situation)[category].status = "complete"
  PROVE  category \notin situation.loss.failed \cup situation.loss.cut
<1> DEFINE units == UnitsOf(FactsIn(situation), category)
<1>1. category \notin situation.loss.failed /\ ~(CompletedUnits(units) < Len(units))
  BY DEF CoverageIn, buildCoverage
<1>2. situation.loss \in Losses
  BY DEF Situations
<1>3. category \in situation.loss.cut => category # "service_accounts"
  BY <1>2, LossesAssumption
<1> QED BY <1>1, <1>3, CutLeavesGap, GapIsCounted

-----------------------------------------------------------------------------
Grave == {"critical", "high", "medium"}
GraveAt(findings, resource) == \E f \in findings : f.resource = resource /\ f.severity \in Grave

LEMMA FirewallFound ==
  ASSUME NEW rules, NEW rule \in Exposed(rules),
         \A f \in rules : f.order \in Int /\ \A w \in f.what : w.protocol = "all" => w.ports = {}
  PROVE  GraveAt(evaluateFirewalls(rules), rule.name)
<1>1. PICK name \in FirewallRules(rule, rules) : name \in {"FW-001", "FW-002"}
  BY LetInIsGrave
<1>2. FirewallSeverity("FW-001") = "critical" /\ FirewallSeverity("FW-002") = "high"
  BY DEF FirewallSeverity
<1>3. Finding(name, FirewallSeverity(name), "firewall", rule.name, <<"rule">>) \in evaluateFirewalls(rules)
  BY DEF evaluateFirewalls, Exposed
<1> QED BY <1>1, <1>2, <1>3 DEF GraveAt, Grave, Finding

LEMMA ServiceFound ==
  ASSUME NEW facts, NEW s \in facts.services, AnyoneCalls(facts, s),
         isGKE(s) \/ s.kind \in {"cloud_run", "cloud_function_gen1"}
  PROVE  GraveAt(evaluatePublicServices(facts.services, facts.policies), s.name)
<1>1. isPublic(s, facts.policies)
  <2>1. CASE isGKE(s)
    BY <2>1 DEF AnyoneCalls, isPublic
  <2>2. CASE ~isGKE(s)
    <3>1. permitsExternalIngress(s)
      BY <2>2 DEF AnyoneCalls, permitsExternalIngress
    <3>2. ASSUME NEW p \in facts.policies, p.member = "allUsers", p.role \in {"run.invoker", "owner"},
                 p.resource = s.name \/ p.scope \in {"project", "ancestor"}
          PROVE  InvokedByAnyone(s, facts.policies)
      <4>1. p.role \in publicRolesForResource(facts.policies, s.name)
        BY <3>2 DEF publicRolesForResource, isPublicMember
      <4> QED BY <3>2, <4>1 DEF InvokedByAnyone, isPublicInvocationRole, isPrivilegedRole
    <3>3. InvokedByAnyone(s, facts.policies)
      BY <2>2, <3>2 DEF AnyoneCalls, InvokedByAnyone
    <3> QED BY <2>2, <3>1, <3>3 DEF isPublic, AnyoneCalls
  <2> QED BY <2>1, <2>2
<1>2. \E severity \in {"high", "medium"} :
        Finding("PUB-001", severity, "public_services", s.name, <<"service">>)
          \in evaluatePublicServices(facts.services, facts.policies)
  BY <1>1 DEF evaluatePublicServices
<1> QED BY <1>2 DEF GraveAt, Grave, Finding

LEMMA KeyFound ==
  ASSUME NEW accounts, NEW policies, NEW a \in accounts, NEW k \in a.keys, k.exposed, ~k.disabled
  PROVE  GraveAt(evaluateServiceAccounts(accounts, policies), k.name)
<1>1. KeyRule(k) = <<"SA-001", "critical">>
  BY DEF KeyRule
<1> DEFINE Of(b) == {Finding(KeyRule(key)[1], KeyRule(key)[2], "service_accounts", key.name, <<"key">>) : key \in b.keys}
<1>2. Finding(KeyRule(k)[1], KeyRule(k)[2], "service_accounts", k.name, <<"key">>) \in Of(a)
  OBVIOUS
<1>3. UNION {Of(b) : b \in accounts} \subseteq evaluateServiceAccounts(accounts, policies)
  BY Zenon DEF evaluateServiceAccounts
<1> HIDE DEF Of
<1> QED BY <1>1, <1>2, <1>3 DEF GraveAt, Grave, Finding

LEMMA OwnerFound ==
  ASSUME NEW facts, NEW c \in facts.clusters, NEW account \in c.accounts, ActsAsOwner(facts, account),
         \A p \in facts.policies : p.member # "none"
  PROVE  GraveAt(evaluateWorkloadIdentity(facts.clusters, facts.policies), account.name)
<1>1. PICK p \in facts.policies : p.role = "owner" /\ p.member \in {account.principal, account.gsa}
  BY DEF ActsAsOwner
<1>2. "owner" \in DirectRoles(account, facts.policies) \cup MappedGSARoles(account, facts.policies)
  BY <1>1 DEF DirectRoles, MappedGSARoles, RolesOf
<1>3. isPrivilegedRole("owner")
  BY DEF isPrivilegedRole
<1>4. Finding("WIF-005", "critical", "workload_identity", account.name, <<"account">>)
        \in AccountFindings(account, facts.policies)
  BY <1>2, <1>3 DEF AccountFindings
<1>5. AccountFindings(account, facts.policies) \subseteq evaluateWorkloadIdentity(facts.clusters, facts.policies)
  <2>1. FindingsOfAccounts(facts.clusters, facts.policies)
          \subseteq evaluateWorkloadIdentity(facts.clusters, facts.policies)
    BY Zenon DEF evaluateWorkloadIdentity
  <2> QED BY <2>1 DEF FindingsOfAccounts
<1> QED BY <1>4, <1>5 DEF GraveAt, Grave, Finding

-----------------------------------------------------------------------------
LEMMA FiniteImage ==
  ASSUME NEW f, IsFiniteSet(DOMAIN f)
  PROVE  IsFiniteSet({f[x] : x \in DOMAIN f})
<1> DEFINE S == DOMAIN f
           T == {f[x] : x \in S}
           g == [x \in S |-> f[x]]
<1>1. g \in Surjection(S, T)
  BY DEF Surjection
<1>2. IsFiniteSet(S)
  OBVIOUS
<1> HIDE DEF S, T, g
<1>3. IsFiniteSet(T)
  BY <1>1, <1>2, FS_Surjection
<1> QED BY <1>3 DEF T, S

LEMMA FiniteImages ==
  ASSUME NEW f, IsFiniteSet(DOMAIN f), \A x \in DOMAIN f : IsFiniteSet(f[x])
  PROVE  IsFiniteSet(UNION {f[x] : x \in DOMAIN f})
<1>1. IsFiniteSet({f[x] : x \in DOMAIN f})
  BY FiniteImage
<1>2. \A T \in {f[x] : x \in DOMAIN f} : IsFiniteSet(T)
  OBVIOUS
<1> QED BY <1>1, <1>2, FS_UNION

(* What one rule says of a list.                                            *)
OfList(rule, severity, category, because, those) ==
  {Finding(rule, severity, category, s.name, because) : s \in those}

LEMMA FiniteByName ==
  ASSUME NEW those, IsFiniteSet(those), NEW rule, NEW severity, NEW category, NEW because
  PROVE  IsFiniteSet(OfList(rule, severity, category, because, those))
<1> DEFINE f == [s \in those |-> Finding(rule, severity, category, s.name, because)]
<1>1. IsFiniteSet(DOMAIN f)
  OBVIOUS
<1>2. {f[x] : x \in DOMAIN f} = OfList(rule, severity, category, because, those)
  BY DEF OfList
<1> HIDE DEF f
<1>3. IsFiniteSet({f[x] : x \in DOMAIN f})
  BY <1>1, FiniteImage
<1> QED BY <1>2, <1>3, Zenon

LEMMA FiniteIAM ==
  ASSUME NEW policies, IsFiniteSet(policies)
  PROVE  IsFiniteSet(evaluateIAM(policies))
<1> DEFINE public == {p \in policies : isPublicMember(p.member)}
           told == {p \in public : ~isPublicInvocationRole(p.role) /\ ~isSecretAccessRole(p.role)}
           Of(rule, severity, grants) == {Finding(rule, severity, "iam", p.resource, <<p.member, p.role>>) : p \in grants}
           s1 == {p \in told : isPrivilegedRole(p.role)}
           s2 == {p \in told : ~isPrivilegedRole(p.role)}
           s3 == {p \in policies \ public : p.role \in {"owner", "editor"} /\ p.member # "service agent"}
           s4 == {p \in policies \ public :
                    p.scope = "project" /\ p.role \in {"iam.serviceAccountTokenCreator", "iam.serviceAccountUser"}}
           s5 == {p \in policies \ public : p.member = "deleted"}
<1>1. ASSUME NEW grants, grants \subseteq policies, NEW rule, NEW severity
      PROVE  IsFiniteSet(Of(rule, severity, grants))
  <2> DEFINE f == [p \in grants |-> Finding(rule, severity, "iam", p.resource, <<p.member, p.role>>)]
  <2>1. IsFiniteSet(DOMAIN f)
    BY <1>1, FS_Subset
  <2>2. {f[x] : x \in DOMAIN f} = Of(rule, severity, grants)
    OBVIOUS
  <2> HIDE DEF f, Of
  <2>3. IsFiniteSet({f[x] : x \in DOMAIN f})
    BY <2>1, FiniteImage
  <2> QED BY <2>2, <2>3, Zenon
<1>2. evaluateIAM(policies) = Of("IAM-001", "critical", s1) \cup Of("IAM-001", "high", s2) \cup Of("IAM-002", "high", s3)
                                \cup Of("IAM-003", "high", s4) \cup Of("IAM-004", "low", s5)
  BY Zenon DEF evaluateIAM
<1>3. s1 \subseteq policies /\ s2 \subseteq policies /\ s3 \subseteq policies /\ s4 \subseteq policies /\ s5 \subseteq policies
  OBVIOUS
<1> HIDE DEF s1, s2, s3, s4, s5, Of
<1> QED BY <1>1, <1>2, <1>3, FS_Union

LEMMA FiniteServiceAccounts ==
  ASSUME NEW accounts, NEW policies, IsFiniteSet(accounts), \A a \in accounts : IsFiniteSet(a.keys)
  PROVE  IsFiniteSet(evaluateServiceAccounts(accounts, policies))
<1> DEFINE OfKey(key) == Finding(KeyRule(key)[1], KeyRule(key)[2], "service_accounts", key.name, <<"key">>)
           f == [a \in accounts |-> {OfKey(key) : key \in a.keys}]
           still == {b \in accounts : b.disabled /\ \E p \in policies : p.member = b.name}
           bound == OfList("SA-005", "low", "service_accounts", <<"bindings">>, still)
<1>1. ASSUME NEW a \in accounts PROVE IsFiniteSet(f[a])
  <2> DEFINE g == [key \in a.keys |-> OfKey(key)]
  <2> HIDE DEF OfKey
  <2>1. IsFiniteSet(DOMAIN g) /\ {g[x] : x \in DOMAIN g} = f[a]
    OBVIOUS
  <2> HIDE DEF g, f
  <2> QED BY <2>1, FiniteImage
<1>2. evaluateServiceAccounts(accounts, policies) = (UNION {{OfKey(key) : key \in a.keys} : a \in accounts}) \cup bound
  BY Zenon DEF evaluateServiceAccounts, OfList
<1>3. IsFiniteSet(bound)
  <2>1. IsFiniteSet(still)
    BY FS_Subset
  <2> HIDE DEF still
  <2> QED BY <2>1, FiniteByName
<1>4. DOMAIN f = accounts /\ {f[a] : a \in DOMAIN f} = {{OfKey(key) : key \in a.keys} : a \in accounts}
  <2> HIDE DEF OfKey
  <2> QED OBVIOUS
<1> HIDE DEF f, bound, OfKey
<1>5. IsFiniteSet(UNION {f[x] : x \in DOMAIN f})
  BY <1>1, <1>4, FiniteImages
<1>6. evaluateServiceAccounts(accounts, policies) = (UNION {f[x] : x \in DOMAIN f}) \cup bound
  BY <1>2, <1>4, Zenon
<1> QED BY <1>3, <1>5, <1>6, FS_Union

LEMMA FiniteSecrets ==
  ASSUME NEW secrets, NEW policies, IsFiniteSet(secrets), IsFiniteSet(policies)
  PROVE  IsFiniteSet(evaluateSecrets(secrets, policies))
<1> DEFINE Grade(role) == IF isSecretAccessRole(role) \/ isPrivilegedRole(role) THEN "critical" ELSE "high"
           OfRole(s, role) == Finding("SEC-001", Grade(role), "secrets", s.name, <<role>>)
           Roles(s) == publicRolesForResource(policies, s.name)
           f == [s \in secrets |-> {OfRole(s, role) : role \in Roles(s)}]
           Of(rule, severity, those) == OfList(rule, severity, "secrets", <<"secret">>, those)
           s2 == {s \in secrets : ~s.enabled}
           s3 == {s \in secrets : s.rotation = "overdue"}
           s4 == {s \in secrets : s.referenced /\ s.rotation = "none"}
<1>1. ASSUME NEW s \in secrets PROVE IsFiniteSet(f[s])
  <2> DEFINE granted == {q \in policies : isPublicMember(q.member) /\ (q.resource = s.name \/ q.scope # "resource")}
             g == [p \in granted |-> OfRole(s, p.role)]
  <2>1. IsFiniteSet(DOMAIN g)
    BY FS_Subset
  <2>2. Roles(s) = {p.role : p \in granted}
    BY DEF publicRolesForResource
  <2> HIDE DEF OfRole, Roles
  <2>3. f[s] = {OfRole(s, role) : role \in {p.role : p \in granted}}
    BY <2>2
  <2>4. {g[x] : x \in DOMAIN g} = {OfRole(s, role) : role \in {p.role : p \in granted}}
    <3> HIDE DEF granted
    <3> QED OBVIOUS
  <2> HIDE DEF g, f
  <2> QED BY <2>1, <2>3, <2>4, FiniteImage
<1>2. evaluateSecrets(secrets, policies)
        = (UNION {{OfRole(s, role) : role \in Roles(s)} : s \in secrets})
            \cup Of("SEC-002", "medium", s2) \cup Of("SEC-003", "high", s3) \cup Of("SEC-004", "medium", s4)
  BY Zenon DEF evaluateSecrets, OfList
<1>3. DOMAIN f = secrets /\ {f[s] : s \in DOMAIN f} = {{OfRole(s, role) : role \in Roles(s)} : s \in secrets}
  <2> HIDE DEF OfRole, Roles
  <2> QED OBVIOUS
<1>4. IsFiniteSet(s2) /\ IsFiniteSet(s3) /\ IsFiniteSet(s4)
  BY FS_Subset
<1> HIDE DEF f, OfRole, Roles, s2, s3, s4
<1>5. IsFiniteSet(UNION {f[x] : x \in DOMAIN f})
  BY <1>1, <1>3, FiniteImages
<1>6. IsFiniteSet(Of("SEC-002", "medium", s2)) /\ IsFiniteSet(Of("SEC-003", "high", s3))
      /\ IsFiniteSet(Of("SEC-004", "medium", s4))
  BY <1>4, FiniteByName
<1> HIDE DEF Of
<1>7. evaluateSecrets(secrets, policies)
        = (UNION {f[x] : x \in DOMAIN f})
            \cup Of("SEC-002", "medium", s2) \cup Of("SEC-003", "high", s3) \cup Of("SEC-004", "medium", s4)
  BY <1>2, <1>3, Zenon
<1> QED BY <1>5, <1>6, <1>7, FS_Union

LEMMA FiniteServices ==
  ASSUME NEW services, NEW policies, IsFiniteSet(services)
  PROVE  IsFiniteSet(evaluatePublicServices(services, policies))
<1> DEFINE Of(rule, severity, those) == OfList(rule, severity, "public_services", <<"service">>, those)
           public == {s \in services : isPublic(s, policies)}
           grave(s) == \/ memberHasPrivilegedRole(policies, s.account)
                       \/ s.kind = "cloud_function_gen1" /\ ~s.tls
           plain(s) == s.kind \in {"gke_ingress", "gke_gateway"} /\ (~s.tls \/ s.plaintext)
           s1 == {s \in public : grave(s)}
           s2 == {s \in public : ~grave(s)}
           s3 == {s \in public : plain(s)}
           s4 == {s \in public : s.sensitivePort}
<1>1. evaluatePublicServices(services, policies)
        = Of("PUB-001", "high", s1) \cup Of("PUB-001", "medium", s2) \cup Of("PUB-002", "high", s3)
            \cup Of("PUB-003", "high", s4)
  BY Zenon DEF evaluatePublicServices, OfList
<1>2. s1 \subseteq services /\ s2 \subseteq services /\ s3 \subseteq services /\ s4 \subseteq services
  OBVIOUS
<1> HIDE DEF s1, s2, s3, s4
<1>3. IsFiniteSet(s1) /\ IsFiniteSet(s2) /\ IsFiniteSet(s3) /\ IsFiniteSet(s4)
  BY <1>2, FS_Subset
<1>4. \A rule, severity, those : IsFiniteSet(those) => IsFiniteSet(Of(rule, severity, those))
  BY FiniteByName
<1> HIDE DEF Of
<1> QED BY <1>1, <1>3, <1>4, FS_Union

LEMMA FiniteFirewalls ==
  ASSUME NEW firewalls, IsFiniteSet(firewalls)
  PROVE  IsFiniteSet(evaluateFirewalls(firewalls))
<1> DEFINE names == {"FW-001", "FW-002", "FW-003", "FW-004", "FW-005", "FW-006"}
           OfRule(f, rule) == Finding(rule, FirewallSeverity(rule), "firewall", f.name, <<"rule">>)
           F == [f \in firewalls |-> {OfRule(f, rule) : rule \in FirewallRules(f, firewalls)}]
<1>1. IsFiniteSet(names)
  <2>1. IsFiniteSet({"FW-001"} \cup {"FW-002"} \cup {"FW-003"} \cup {"FW-004"} \cup {"FW-005"} \cup {"FW-006"})
    BY FS_Singleton, FS_Union
  <2>2. names = {"FW-001"} \cup {"FW-002"} \cup {"FW-003"} \cup {"FW-004"} \cup {"FW-005"} \cup {"FW-006"}
    OBVIOUS
  <2> QED BY <2>1, <2>2, Zenon
<1>2. ASSUME NEW f \in firewalls PROVE IsFiniteSet(F[f])
  <2>1. FirewallRules(f, firewalls) \subseteq names
    BY DEF FirewallRules
  <2> DEFINE g == [rule \in FirewallRules(f, firewalls) |-> OfRule(f, rule)]
  <2> HIDE DEF names, OfRule
  <2>2. IsFiniteSet(DOMAIN g)
    BY <1>1, <2>1, FS_Subset
  <2>3. {g[x] : x \in DOMAIN g} = F[f]
    OBVIOUS
  <2> HIDE DEF g, F
  <2> QED BY <2>2, <2>3, FiniteImage
<1>3. evaluateFirewalls(firewalls) = UNION {{OfRule(f, rule) : rule \in FirewallRules(f, firewalls)} : f \in firewalls}
  BY Zenon DEF evaluateFirewalls
<1>4. DOMAIN F = firewalls
      /\ {F[f] : f \in DOMAIN F} = {{OfRule(f, rule) : rule \in FirewallRules(f, firewalls)} : f \in firewalls}
  <2> HIDE DEF OfRule
  <2> QED OBVIOUS
<1> HIDE DEF F, OfRule
<1>5. IsFiniteSet(UNION {F[x] : x \in DOMAIN F})
  BY <1>2, <1>4, FiniteImages
<1> QED BY <1>3, <1>4, <1>5, Zenon

LEMMA FiniteAccount ==
  ASSUME NEW account, NEW policies
  PROVE  IsFiniteSet(AccountFindings(account, policies))
<1> DEFINE One(rule, severity) == {Finding(rule, severity, "workload_identity", account.name, <<"account">>)}
<1>1. \A rule, severity : IsFiniteSet(One(rule, severity))
  BY FS_Singleton
<1> DEFINE all == One("WIF-004", "high") \cup One("WIF-005", "critical") \cup One("WIF-005", "high")
                    \cup One("WIF-006", "high") \cup One("WIF-006", "medium") \cup One("WIF-007", "high")
                    \cup One("WIF-008", "medium")
<1>2. AccountFindings(account, policies) \subseteq all
  BY DEF AccountFindings
<1> HIDE DEF One
<1>3. IsFiniteSet(all)
  BY <1>1, FS_Union
<1> HIDE DEF all
<1> QED BY <1>2, <1>3, FS_Subset

(* The rules on clusters and their nodes name one of them each.             *)
OfNodes(rule, severity, clusters, Nodes) ==
  UNION {OfList(rule, severity, "workload_identity", <<"cluster">>, Nodes[c]) : c \in clusters}

LEMMA FiniteNodes ==
  ASSUME NEW clusters, NEW Nodes, IsFiniteSet(clusters), NEW rule, NEW severity,
         \A c \in clusters : IsFiniteSet(Nodes[c])
  PROVE  IsFiniteSet(OfNodes(rule, severity, clusters, Nodes))
<1> DEFINE f == [c \in clusters |-> OfList(rule, severity, "workload_identity", <<"cluster">>, Nodes[c])]
<1>1. \A c \in DOMAIN f : IsFiniteSet(f[c])
  BY FiniteByName
<1>2. IsFiniteSet(DOMAIN f) /\ {f[c] : c \in DOMAIN f}
        = {OfList(rule, severity, "workload_identity", <<"cluster">>, Nodes[c]) : c \in clusters}
  OBVIOUS
<1> HIDE DEF f
<1>3. IsFiniteSet(UNION {f[c] : c \in DOMAIN f})
  BY <1>1, <1>2, FiniteImages
<1> QED BY <1>2, <1>3, Zenon DEF OfNodes

LEMMA FiniteAccounts ==
  ASSUME NEW clusters, NEW policies, IsFiniteSet(clusters), \A c \in clusters : IsFiniteSet(c.accounts)
  PROVE  IsFiniteSet(FindingsOfAccounts(clusters, policies))
<1> DEFINE f == [c \in clusters |-> UNION {AccountFindings(a, policies) : a \in c.accounts}]
<1>1. ASSUME NEW c \in clusters PROVE IsFiniteSet(f[c])
  <2> DEFINE g == [a \in c.accounts |-> AccountFindings(a, policies)]
  <2>1. IsFiniteSet(DOMAIN g) /\ \A a \in DOMAIN g : IsFiniteSet(g[a])
    BY FiniteAccount
  <2>2. {g[a] : a \in DOMAIN g} = {AccountFindings(a, policies) : a \in c.accounts}
    OBVIOUS
  <2> HIDE DEF g
  <2>3. IsFiniteSet(UNION {g[a] : a \in DOMAIN g})
    BY <2>1, FiniteImages
  <2> QED BY <2>2, <2>3
<1>2. IsFiniteSet(DOMAIN f) /\ DOMAIN f = clusters
  OBVIOUS
<1>3. FindingsOfAccounts(clusters, policies) = UNION {f[c] : c \in DOMAIN f}
  BY DEF FindingsOfAccounts
<1> HIDE DEF f
<1>4. IsFiniteSet(UNION {f[c] : c \in DOMAIN f})
  BY <1>1, <1>2, FiniteImages
<1> QED BY <1>3, <1>4

LEMMA FiniteWorkloads ==
  ASSUME NEW clusters, NEW policies, IsFiniteSet(clusters),
         \A c \in clusters : IsFiniteSet(c.nodes) /\ IsFiniteSet(c.accounts)
  PROVE  IsFiniteSet(evaluateWorkloadIdentity(clusters, policies))
<1> DEFINE Of(rule, severity, those) == OfList(rule, severity, "workload_identity", <<"cluster">>, those)
           open == {d \in clusters : ~d.pool}
           N2 == [c \in clusters |-> {m \in c.nodes : c.pool /\ ~m.metadataServer}]
           N3 == [c \in clusters |-> {m \in c.nodes : m.defaultAccount}]
           w2 == OfNodes("WIF-002", "high", clusters, N2)
           w3 == OfNodes("WIF-003", "medium", clusters, N3)
<1>1. IsFiniteSet(open) /\ \A c \in clusters : IsFiniteSet(N2[c]) /\ IsFiniteSet(N3[c])
  BY FS_Subset
<1>2. evaluateWorkloadIdentity(clusters, policies)
        \subseteq Of("WIF-001", "medium", open) \cup w2 \cup w3 \cup FindingsOfAccounts(clusters, policies)
  BY DEF evaluateWorkloadIdentity, OfList, OfNodes
<1> HIDE DEF open, N2, N3
<1>3. IsFiniteSet(Of("WIF-001", "medium", open)) /\ IsFiniteSet(w2) /\ IsFiniteSet(w3)
  BY <1>1, FiniteByName, FiniteNodes
<1>4. IsFiniteSet(FindingsOfAccounts(clusters, policies))
  BY FiniteAccounts
<1> HIDE DEF Of, w2, w3
<1>5. IsFiniteSet(Of("WIF-001", "medium", open) \cup w2 \cup w3 \cup FindingsOfAccounts(clusters, policies))
  BY <1>3, <1>4, FS_Union
<1> QED BY <1>2, <1>5, FS_Subset

-----------------------------------------------------------------------------
Listed(facts) ==
  /\ \A list \in {facts.policies, facts.accounts, facts.secrets, facts.services, facts.firewalls,
                  facts.clusters, facts.recommendations} : IsFiniteSet(list)
  /\ \A a \in facts.accounts : IsFiniteSet(a.keys)
  /\ \A c \in facts.clusters : IsFiniteSet(c.nodes) /\ IsFiniteSet(c.accounts)

LEMMA RulesFinite ==
  ASSUME NEW facts, NEW failed, Listed(facts)
  PROVE  IsFiniteSet(evaluateRules(facts, failed))
<1> DEFINE iam == evaluateIAM(facts.policies)
           accounts == evaluateServiceAccounts(facts.accounts, facts.policies)
           secrets == evaluateSecrets(facts.secrets, facts.policies)
           services == evaluatePublicServices(facts.services, facts.policies)
           firewalls == evaluateFirewalls(facts.firewalls)
           workloads == evaluateWorkloadIdentity(facts.clusters, facts.policies)
           f == [r \in facts.recommendations |-> Finding("REC-001", r.severity, "iam", r.resource, <<"recommended">>)]
           recommended == {f[r] : r \in DOMAIN f}
           all == iam \cup accounts \cup secrets \cup services \cup firewalls \cup workloads \cup recommended
<1>1. IsFiniteSet(iam) /\ IsFiniteSet(accounts) /\ IsFiniteSet(secrets)
  BY FiniteIAM, FiniteServiceAccounts, FiniteSecrets DEF Listed
<1>2. IsFiniteSet(services) /\ IsFiniteSet(firewalls) /\ IsFiniteSet(workloads)
  BY FiniteServices, FiniteFirewalls, FiniteWorkloads DEF Listed
<1>3. IsFiniteSet(DOMAIN f)
  BY DEF Listed
<1>4. recommended = {Finding("REC-001", r.severity, "iam", r.resource, <<"recommended">>) : r \in facts.recommendations}
  OBVIOUS
<1> HIDE DEF f
<1>5. IsFiniteSet(recommended)
  BY <1>3, FiniteImage
<1> HIDE DEF recommended
<1>6. evaluateRules(facts, failed) \subseteq all
  BY <1>4 DEF evaluateRules
<1> HIDE DEF iam, accounts, secrets, services, firewalls, workloads
<1>7. IsFiniteSet(all)
  BY <1>1, <1>2, <1>5, FS_Union
<1> QED BY <1>6, <1>7, FS_Subset

LEMMA ReadIsListed ==
  ASSUME NEW situation \in Situations
  PROVE  Listed(FactsIn(situation))
<1> DEFINE facts == Facts[situation.project]
           seen  == FactsIn(situation)
<1>1. Collectable(facts)
  BY FactsAssumption DEF Situations
<1>2. /\ seen.policies \in {{}, facts.policies} /\ seen.accounts \in {{}, facts.accounts}
      /\ seen.services \in {{}, facts.services} /\ seen.firewalls \in {{}, facts.firewalls}
      /\ seen.clusters \in {{}, facts.clusters} /\ seen.recommendations \in {{}, facts.recommendations}
  BY DEF FactsIn, Collected
<1>3. IsFiniteSet(seen.secrets)
  <2> DEFINE left == IF "secrets" \in situation.loss.failed THEN {} ELSE facts.secrets
             f == [s \in left |-> [s EXCEPT !.referenced = @ /\ "secrets" \notin situation.loss.cut]]
  <2>1. IsFiniteSet(left)
    BY <1>1, FS_EmptySet DEF Collectable
  <2>2. IsFiniteSet(DOMAIN f)
    BY <2>1
  <2>3. seen.secrets = {f[s] : s \in DOMAIN f}
    BY DEF FactsIn, Collected
  <2> HIDE DEF f
  <2> QED BY <2>2, <2>3, FiniteImage
<1> HIDE DEF facts, seen
<1>4. \A list \in {seen.policies, seen.accounts, seen.secrets, seen.services, seen.firewalls,
                   seen.clusters, seen.recommendations} : IsFiniteSet(list)
  BY <1>1, <1>2, <1>3, FS_EmptySet DEF Collectable
<1> QED BY <1>1, <1>2, <1>4 DEF Listed, Collectable, seen

LEMMA FoundFinite ==
  ASSUME NEW situation \in Situations
  PROVE  IsFiniteSet(Found(situation))
BY ReadIsListed, RulesFinite DEF Found

Severities == {"critical", "high", "medium", "low"}

LEMMA SeveritiesKnown ==
  ASSUME NEW situation \in Situations, NEW f \in Found(situation)
  PROVE  f.severity \in Severities
<1> DEFINE seen == FactsIn(situation)
<1>1. \A r \in seen.recommendations : r.severity \in Severities
  BY FactsAssumption DEF FactsIn, Collected, Collectable, severityPenalty, Situations, Severities
<1>2. f \in evaluateIAM(seen.policies) => f.severity \in Severities
  <2>1. \A rule, severity, resource, because : Finding(rule, severity, "iam", resource, because).severity = severity
    BY DEF Finding
  <2>2. f \in evaluateIAM(seen.policies) =>
          \E severity \in Severities : \E rule, resource, because : f = Finding(rule, severity, "iam", resource, because)
    BY Zenon DEF evaluateIAM, Severities
  <2> QED BY <2>1, <2>2
<1>3. \A key : KeyRule(key)[2] \in Severities
  BY DEF KeyRule, Severities
<1>4. f \in evaluateServiceAccounts(seen.accounts, seen.policies) => f.severity \in Severities
  BY <1>3 DEF evaluateServiceAccounts, Finding, Severities
<1>5. f \in evaluateSecrets(seen.secrets, seen.policies) => f.severity \in Severities
  BY DEF evaluateSecrets, Finding, Severities
<1>6. f \in evaluatePublicServices(seen.services, seen.policies) => f.severity \in Severities
  BY DEF evaluatePublicServices, Finding, Severities
<1>7. \A g : \A rule \in FirewallRules(g, seen.firewalls) : FirewallSeverity(rule) \in Severities
  BY DEF FirewallRules, FirewallSeverity, Severities
<1>8. f \in evaluateFirewalls(seen.firewalls) => f.severity \in Severities
  BY <1>7 DEF evaluateFirewalls, Finding
<1>9. \A account : \A g \in AccountFindings(account, seen.policies) : g.severity \in Severities
  BY DEF AccountFindings, Finding, Severities
<1>10. f \in evaluateWorkloadIdentity(seen.clusters, seen.policies) => f.severity \in Severities
  BY <1>9 DEF evaluateWorkloadIdentity, FindingsOfAccounts, Finding, Severities
<1> HIDE DEF seen
<1>11. \/ f \in evaluateIAM(seen.policies) \/ f \in evaluateServiceAccounts(seen.accounts, seen.policies)
       \/ f \in evaluateSecrets(seen.secrets, seen.policies) \/ f \in evaluatePublicServices(seen.services, seen.policies)
       \/ f \in evaluateFirewalls(seen.firewalls) \/ f \in evaluateWorkloadIdentity(seen.clusters, seen.policies)
       \/ \E r \in seen.recommendations : f.severity = r.severity
  BY DEF Found, evaluateRules, Finding, seen
<1> QED BY <1>1, <1>2, <1>4, <1>5, <1>6, <1>8, <1>10, <1>11

-----------------------------------------------------------------------------
LEMMA InRules ==
  ASSUME NEW facts, NEW failed
  PROVE  /\ "firewall" \notin failed => evaluateFirewalls(facts.firewalls) \subseteq evaluateRules(facts, failed)
         /\ "public_services" \notin failed =>
              evaluatePublicServices(facts.services, facts.policies) \subseteq evaluateRules(facts, failed)
         /\ "service_accounts" \notin failed =>
              evaluateServiceAccounts(facts.accounts, facts.policies) \subseteq evaluateRules(facts, failed)
         /\ "workload_identity" \notin failed =>
              evaluateWorkloadIdentity(facts.clusters, facts.policies) \subseteq evaluateRules(facts, failed)
BY DEF evaluateRules

LEMMA TroubleFound ==
  ASSUME NEW situation \in Situations, NEW trouble \in Troubles(Facts[situation.project]),
         \A category \in trouble.needs : CoverageIn(situation)[category].status = "complete"
  PROVE  GraveAt(Found(situation), trouble.resource)
<1> DEFINE facts == Facts[situation.project]
           seen  == FactsIn(situation)
           lost  == situation.loss.failed \cup situation.loss.cut
<1>1. Collectable(facts)
  BY FactsAssumption DEF Situations
<1>2. \A category \in trouble.needs : category \in Categories \ {"secrets"} => category \notin lost
  BY CompleteWasRead
<1>3. \A found : GraveAt(found, trouble.resource) /\ found \subseteq Found(situation) => GraveAt(Found(situation), trouble.resource)
  BY DEF GraveAt
<1>4. CASE \E g \in Exposed(facts.firewalls) : trouble = [resource |-> g.name, needs |-> {"firewall"}]
  <2>1. PICK g \in Exposed(facts.firewalls) : trouble = [resource |-> g.name, needs |-> {"firewall"}]
    BY <1>4
  <2>2. "firewall" \notin lost /\ seen.firewalls = facts.firewalls
    BY <1>2, <2>1, ReadParts DEF Categories
  <2>3. GraveAt(evaluateFirewalls(seen.firewalls), g.name)
    BY <1>1, <2>1, <2>2, FirewallFound DEF Collectable
  <2> QED BY <1>3, <2>1, <2>2, <2>3, InRules DEF Found
<1>5. CASE \E s \in facts.services :
             AnyoneCalls(facts, s) /\ trouble = [resource |-> s.name, needs |-> {"iam", "public_services"}]
  <2>1. PICK s \in facts.services :
          AnyoneCalls(facts, s) /\ trouble = [resource |-> s.name, needs |-> {"iam", "public_services"}]
    BY <1>5
  <2>2. "public_services" \notin lost /\ seen.services = facts.services /\ seen.policies = facts.policies
    BY <1>2, <2>1, ReadParts DEF Categories
  <2>3. GraveAt(evaluatePublicServices(seen.services, seen.policies), s.name)
    BY <1>1, <2>1, <2>2, ServiceFound DEF Collectable
  <2> QED BY <1>3, <2>1, <2>2, <2>3, InRules DEF Found
<1>6. CASE \E a \in facts.accounts : \E k \in a.keys :
             k.exposed /\ ~k.disabled /\ trouble = [resource |-> k.name, needs |-> {"service_accounts"}]
  <2>1. PICK a \in facts.accounts : \E k \in a.keys :
             k.exposed /\ ~k.disabled /\ trouble = [resource |-> k.name, needs |-> {"service_accounts"}]
    BY <1>6
  <2>2. PICK k \in a.keys : k.exposed /\ ~k.disabled /\ trouble = [resource |-> k.name, needs |-> {"service_accounts"}]
    BY <2>1
  <2>3. "service_accounts" \notin lost /\ seen.accounts = facts.accounts
    BY <1>2, <2>2, ReadParts DEF Categories
  <2>4. GraveAt(evaluateServiceAccounts(seen.accounts, seen.policies), k.name)
    BY <2>2, <2>3, KeyFound
  <2> QED BY <1>3, <2>2, <2>3, <2>4, InRules DEF Found
<1>7. CASE \E c \in facts.clusters : \E b \in c.accounts :
             ActsAsOwner(facts, b) /\ trouble = [resource |-> b.name, needs |-> {"iam", "workload_identity"}]
  <2>1. PICK c \in facts.clusters : \E b \in c.accounts :
             ActsAsOwner(facts, b) /\ trouble = [resource |-> b.name, needs |-> {"iam", "workload_identity"}]
    BY <1>7
  <2>2. PICK b \in c.accounts :
          ActsAsOwner(facts, b) /\ trouble = [resource |-> b.name, needs |-> {"iam", "workload_identity"}]
    BY <2>1
  <2>3. "workload_identity" \notin lost /\ seen.clusters = facts.clusters /\ seen.policies = facts.policies
    BY <1>2, <2>2, ReadParts DEF Categories
  <2>4. ActsAsOwner(seen, b)
    BY <2>2, <2>3 DEF ActsAsOwner
  <2>5. GraveAt(evaluateWorkloadIdentity(seen.clusters, seen.policies), b.name)
    BY <1>1, <2>3, <2>4, OwnerFound DEF Collectable
  <2> QED BY <1>3, <2>2, <2>3, <2>5, InRules DEF Found
<1> QED BY <1>4, <1>5, <1>6, <1>7 DEF Troubles

LEMMA NothingIsHidden ==
  ASSUME NEW situation \in Situations
  PROVE  Hides(situation) = FALSE
<1> DEFINE report == ReportIn(situation)
<1> SUFFICES ASSUME NEW trouble \in Troubles(Facts[situation.project]),
                    \A category \in trouble.needs : CoverageIn(situation)[category].status = "complete"
             PROVE  \E f \in report.suppressed \cup (IF report.truncated THEN report.active ELSE report.shown) :
                      f.resource = trouble.resource /\ f.severity \in Grave
  BY ReportParts DEF Hides, Grave
<1>1. PICK f \in Found(situation) : f.resource = trouble.resource /\ f.severity \in Grave
  BY TroubleFound DEF GraveAt
<1>2. ~report.truncated => report.shown = report.active
  BY ReportParts DEF Shown
<1>3. f \in report.suppressed \/ f \in report.active
  BY ReportParts
<1> QED BY <1>1, <1>2, <1>3

(* What a report speaks of is a situation the audits can be in.             *)
SituationsInv ==
  /\ now \in 0..LastTime /\ project \in Projects
  /\ cache.report # NoReport => cache.report.of \in Situations
  /\ \A a \in Auditors :
       /\ audits[a].phase = "collecting" => audits[a].at \in 0..LastTime
       /\ audits[a].phase \in {"served", "made"} => audits[a].report.of \in Situations

-----------------------------------------------------------------------------
LEMMA SituationsStep ==
  ASSUME IInv, SituationsInv, [Next]_vars
  PROVE  SituationsInv'
<1> USE DEF SituationsInv
<1>1. AuditsInv
  BY DEF IInv
<1>2. ASSUME NEW a \in Auditors, NEW refresh \in BOOLEAN, Ask(a, refresh) PROVE SituationsInv'
  <2>1. now' = now /\ project' = project /\ cache' = cache
    BY <1>2 DEF Ask
  <2>2. \A b \in Auditors \ {a} : audits'[b] = audits[b]
    BY <1>1, <1>2 DEF Ask, AuditsInv
  <2>3. \/ audits'[a] = [phase |-> "served", at |-> now, report |-> cache.report] /\ Fresh
        \/ audits'[a] = [phase |-> "collecting", at |-> now, report |-> NoReport]
    BY <1>1, <1>2 DEF Ask, AuditsInv
  <2>4. /\ audits'[a].phase = "collecting" => audits'[a].at \in 0..LastTime
        /\ audits'[a].phase \in {"served", "made"} => audits'[a].report.of \in Situations
    BY <2>3 DEF Fresh
  <2> QED BY <2>1, <2>2, <2>4
<1>3. ASSUME NEW a \in Auditors, NEW loss \in Losses, NEW refusal \in Refusals, Finish(a, loss, refusal)
      PROVE  SituationsInv'
  <2> DEFINE start  == audits[a].at
             of     == [project |-> project, loss |-> loss, denied |-> refusal.denied, inForce |-> InForce(start)]
             report == [at |-> start, of |-> of, retryAt |-> refusal.retryAt]
  <2>1. /\ now' = now /\ project' = project /\ audits[a].phase = "collecting"
        /\ audits' = [audits EXCEPT ![a] = [phase |-> "made", at |-> start, report |-> report]]
        /\ cache'.report \in {report, NoReport}
    BY <1>3 DEF Finish
  <2>2. of \in Situations
    <3>1. start \in 0..LastTime
      BY <2>1
    <3>2. \/ refusal = [denied |-> FALSE, retryAt |-> NoTime]
          \/ \E t : refusal = [denied |-> TRUE, retryAt |-> t]
      BY DEF Refusals
    <3>3. \A v, t : [denied |-> v, retryAt |-> t].denied = v
      OBVIOUS
    <3>4. refusal.denied = FALSE \/ refusal.denied = TRUE
      BY <3>2, <3>3, Zenon
    <3>5. refusal.denied \in BOOLEAN
      BY <3>4, Zenon
    <3> QED BY <3>1, <3>5 DEF Situations
  <2>3. report.of = of
    OBVIOUS
  <2> HIDE DEF of, report, start
  <2>4. \A b \in Auditors \ {a} : audits'[b] = audits[b]
    BY <1>1, <2>1 DEF AuditsInv
  <2>5. audits'[a].phase = "made" /\ audits'[a].report = report
    BY <1>1, <2>1 DEF AuditsInv
  <2>6. cache'.report # NoReport => cache'.report.of \in Situations
    BY <2>1, <2>2, <2>3
  <2> QED BY <2>1, <2>2, <2>3, <2>4, <2>5, <2>6
<1>4. CASE Tick
  BY <1>4, TimesAssumption DEF Tick
<1>5. CASE UNCHANGED vars
  BY <1>5 DEF vars
<1> QED BY <1>2, <1>3, <1>4, <1>5 DEF Next, Done

(* NothingHidden holds of every behaviour, whatever the projects look like, *)
(* which of the categories failed or were cut, which risks are accepted and *)
(* whichever audit's report is served: a real trouble is in the report, or  *)
(* the coverage shows why not. Of firewalls this says that a deny which     *)
(* fullyShadowingDeny finds (rules.go:773-787) does stop all that the rule   *)
(* admits, if it is about all of its families and destinations and nothing *)
(* in its policy goes to the next before it; and that any other rule which  *)
(* admits somebody on a sensitive port is FW-001 or FW-002.                 *)
THEOREM AuditsHideNothing == Spec => []NothingHidden
<1>1. Init => IInv /\ SituationsInv
  <2>1. Init => SituationsInv
    BY TimesAssumption DEF Init, SituationsInv, Idle
  <2> QED BY <2>1, InitInv
<1>2. IInv /\ SituationsInv /\ [Next]_vars => IInv' /\ SituationsInv'
  BY StepInv, SituationsStep
<1>3. SituationsInv => NothingHidden
  <2> SUFFICES ASSUME SituationsInv, NEW a \in Answered
               PROVE  <<audits[a].report.of, FALSE>> \in Hiding
    BY DEF NothingHidden
  <2>1. audits[a].report.of \in Situations
    BY DEF SituationsInv, Answered
  <2>2. Hides(audits[a].report.of) = FALSE
    BY <2>1, NothingIsHidden
  <2>3. <<audits[a].report.of, Hides(audits[a].report.of)>> \in Hiding
    BY <2>1 DEF Hiding
  <2> QED BY <2>2, <2>3
<1> QED BY <1>1, <1>2, <1>3, PTL DEF Spec

-----------------------------------------------------------------------------
Penalty(f) == severityPenalty[f.severity]
Graded(findings) == IsFiniteSet(findings) /\ \A f \in findings : f.severity \in Severities
AtLeast(findings, n) == {f \in findings : Penalty(f) >= n}

LEMMA Penalties ==
  ASSUME NEW f, f.severity \in Severities
  PROVE  /\ Penalty(f) \in {3, 8, 20, 40}
         /\ f.severity = "critical" <=> Penalty(f) = 40
         /\ f.severity = "high" <=> Penalty(f) = 20
         /\ f.severity = "medium" <=> Penalty(f) = 8
         /\ f.severity = "low" <=> Penalty(f) = 3
BY DEF Penalty, severityPenalty, Severities

(* A set that is one grade and all the graver ones.                         *)
LEMMA GradeCount ==
  ASSUME NEW graver, NEW grade, IsFiniteSet(graver), IsFiniteSet(grade), graver \cap grade = {}
  PROVE  /\ Cardinality(graver) \in Nat /\ Cardinality(grade) \in Nat
         /\ Cardinality(graver \cup grade) = Cardinality(graver) + Cardinality(grade)
<1>1. /\ Cardinality(graver) \in Nat /\ Cardinality(grade) \in Nat
      /\ Cardinality(graver \cup grade) = Cardinality(graver) + Cardinality(grade) - Cardinality(graver \cap grade)
  BY FS_Union, FS_CardinalityType
<1>2. Cardinality(graver \cap grade) = 0
  BY FS_EmptySet
<1> QED BY <1>1, <1>2

(* The penalties, counted by how many findings reach each grade.            *)
LEMMA CostByGrade ==
  ASSUME NEW findings, Graded(findings)
  PROVE  LET N(n) == Cardinality(AtLeast(findings, n))
         IN  /\ N(3) \in Nat /\ N(8) \in Nat /\ N(20) \in Nat /\ N(40) \in Nat
             /\ Cost(findings) = 3 * N(3) + 5 * N(8) + 12 * N(20) + 20 * N(40)
<1> DEFINE Of(severity) == {f \in findings : f.severity = severity}
           c == Of("critical")
           h == Of("high")
           m == Of("medium")
           l == Of("low")
<1>1. /\ AtLeast(findings, 40) = c
      /\ AtLeast(findings, 20) = c \cup h
      /\ AtLeast(findings, 8) = (c \cup h) \cup m
      /\ AtLeast(findings, 3) = (c \cup h \cup m) \cup l
  BY Penalties DEF AtLeast, Graded
<1>2. /\ c \subseteq findings /\ h \subseteq findings /\ m \subseteq findings /\ l \subseteq findings
      /\ c \cap h = {} /\ (c \cup h) \cap m = {} /\ (c \cup h \cup m) \cap l = {}
  OBVIOUS
<1>3. Cost(findings) = 40 * Cardinality(c) + 20 * Cardinality(h) + 8 * Cardinality(m) + 3 * Cardinality(l)
  BY DEF Cost, severityPenalty
<1> HIDE DEF c, h, m, l
<1> DEFINE ch  == c \cup h
           chm == ch \cup m
<1>4. /\ AtLeast(findings, 20) = ch /\ AtLeast(findings, 8) = chm /\ AtLeast(findings, 3) = chm \cup l
      /\ ch \subseteq findings /\ chm \subseteq findings /\ ch \cap m = {} /\ chm \cap l = {}
  BY <1>1, <1>2
<1>5. /\ IsFiniteSet(c) /\ IsFiniteSet(h) /\ IsFiniteSet(m) /\ IsFiniteSet(l)
      /\ IsFiniteSet(ch) /\ IsFiniteSet(chm)
  <2> HIDE DEF ch, chm
  <2> QED BY <1>2, <1>4, FS_Subset DEF Graded
<1>6. Cardinality(c) \in Nat /\ Cardinality(h) \in Nat /\ Cardinality(ch) = Cardinality(c) + Cardinality(h)
  BY <1>2, <1>5, GradeCount
<1> HIDE DEF ch
<1>7. Cardinality(m) \in Nat /\ Cardinality(chm) = Cardinality(ch) + Cardinality(m)
  BY <1>2, <1>4, <1>5, GradeCount
<1> HIDE DEF chm
<1>8. Cardinality(l) \in Nat /\ Cardinality(chm \cup l) = Cardinality(chm) + Cardinality(l)
  BY <1>2, <1>4, <1>5, GradeCount
<1>9. /\ Cardinality(AtLeast(findings, 40)) = Cardinality(c)
      /\ Cardinality(AtLeast(findings, 20)) = Cardinality(ch)
      /\ Cardinality(AtLeast(findings, 8)) = Cardinality(chm)
      /\ Cardinality(AtLeast(findings, 3)) = Cardinality(chm \cup l)
  BY <1>1, <1>4
<1>10. Cardinality(ch) \in Nat /\ Cardinality(chm) \in Nat /\ Cardinality(chm \cup l) \in Nat
  BY <1>6, <1>7, <1>8
<1> QED BY <1>3, <1>6, <1>7, <1>8, <1>9, <1>10

(* Findings that others match, one by one and as grave, cost no more.       *)
LEMMA CostDominated ==
  ASSUME NEW A, NEW B, Graded(A), Graded(B), NEW h \in [A -> B],
         \A f, g \in A : h[f] = h[g] => f = g,
         \A f \in A : Penalty(h[f]) >= Penalty(f)
  PROVE  Cost(A) <= Cost(B)
<1>1. ASSUME NEW n \in {3, 8, 20, 40}
      PROVE  Cardinality(AtLeast(A, n)) <= Cardinality(AtLeast(B, n))
  <2> DEFINE S == AtLeast(A, n)
             T == AtLeast(B, n)
             k == [f \in S |-> h[f]]
  <2>1. \A f \in S : f \in A /\ h[f] \in T
    <3> SUFFICES ASSUME NEW f \in S PROVE f \in A /\ h[f] \in T
      OBVIOUS
    <3>1. f \in A /\ h[f] \in B /\ Penalty(f) >= n
      BY DEF AtLeast
    <3>2. Penalty(f) \in {3, 8, 20, 40} /\ Penalty(h[f]) \in {3, 8, 20, 40}
      BY <3>1, Penalties DEF Graded
    <3> QED BY <3>1, <3>2 DEF AtLeast
  <2>2. k \in Injection(S, T)
    BY <2>1 DEF Injection, IsInjective
  <2>3. IsFiniteSet(T)
    BY FS_Subset DEF Graded, AtLeast
  <2> HIDE DEF S, T, k
  <2>4. Cardinality(S) <= Cardinality(T)
    BY <2>2, <2>3, FS_Injection
  <2> QED BY <2>4 DEF S, T
<1>2. /\ Cardinality(AtLeast(A, 3)) <= Cardinality(AtLeast(B, 3))
      /\ Cardinality(AtLeast(A, 8)) <= Cardinality(AtLeast(B, 8))
      /\ Cardinality(AtLeast(A, 20)) <= Cardinality(AtLeast(B, 20))
      /\ Cardinality(AtLeast(A, 40)) <= Cardinality(AtLeast(B, 40))
  BY <1>1
<1> QED BY <1>2, CostByGrade

LEMMA CostType ==
  ASSUME NEW findings, Graded(findings)
  PROVE  Cost(findings) \in Nat
BY CostByGrade

LEMMA FirstIsGravest ==
  ASSUME NEW findings, \A f \in findings : f.severity \in Severities, NEW some \in findings
  PROVE  FirstOf(findings) \in findings /\ \A g \in findings : Penalty(FirstOf(findings)) >= Penalty(g)
<1>1. \A f \in findings : Penalty(f) \in {3, 8, 20, 40}
  BY Penalties
<1>2. \E f \in findings : \A g \in findings : Penalty(f) >= Penalty(g)
  <2>1. CASE \E f \in findings : Penalty(f) = 40
    BY <1>1, <2>1
  <2>2. CASE ~(\E f \in findings : Penalty(f) = 40) /\ \E f \in findings : Penalty(f) = 20
    BY <1>1, <2>2
  <2>3. CASE ~(\E f \in findings : Penalty(f) \in {20, 40}) /\ \E f \in findings : Penalty(f) = 8
    BY <1>1, <2>3
  <2>4. CASE ~(\E f \in findings : Penalty(f) \in {8, 20, 40})
    BY <1>1, <2>4
  <2> QED BY <2>1, <2>2, <2>3, <2>4
<1> QED BY <1>2 DEF FirstOf, Penalty

LEMMA FirstsOfRules ==
  ASSUME NEW findings, \A f \in findings : f.severity \in Severities
  PROVE  /\ FirstOfEach(findings) \subseteq findings
         /\ \A f, g \in FirstOfEach(findings) : f.rule = g.rule => f = g
         /\ \A g \in findings : \E f \in FirstOfEach(findings) : f.rule = g.rule /\ Penalty(f) >= Penalty(g)
<1> DEFINE Of(rule) == {f \in findings : f.rule = rule}
<1>1. FirstOfEach(findings) = {FirstOf(Of(g.rule)) : g \in findings}
  BY DEF FirstOfEach
<1>2. ASSUME NEW g \in findings
      PROVE  /\ FirstOf(Of(g.rule)) \in findings /\ FirstOf(Of(g.rule)).rule = g.rule
             /\ Penalty(FirstOf(Of(g.rule))) >= Penalty(g)
  <2>1. g \in Of(g.rule) /\ \A f \in Of(g.rule) : f.severity \in Severities
    OBVIOUS
  <2>2. FirstOf(Of(g.rule)) \in Of(g.rule) /\ Penalty(FirstOf(Of(g.rule))) >= Penalty(g)
    <3> HIDE DEF Of
    <3> QED BY <2>1, FirstIsGravest
  <2> QED BY <2>2
<1> HIDE DEF Of
<1> QED BY <1>1, <1>2

-----------------------------------------------------------------------------
LEMMA FirstsDominated ==
  ASSUME NEW K, NEW M, Graded(K), Graded(M),
         \A f \in K : \E m \in M : m.rule = f.rule /\ Penalty(m) >= Penalty(f)
  PROVE  /\ Graded(FirstOfEach(K)) /\ Graded(FirstOfEach(M))
         /\ Cost(FirstOfEach(K)) <= Cost(FirstOfEach(M))
<1> DEFINE A == FirstOfEach(K)
           B == FirstOfEach(M)
           h == [f \in A |-> CHOOSE g \in B : g.rule = f.rule]
<1>1. /\ A \subseteq K
      /\ \A f, g \in A : f.rule = g.rule => f = g
  BY FirstsOfRules DEF Graded
<1>2. /\ B \subseteq M
      /\ \A f, g \in B : f.rule = g.rule => f = g
      /\ \A g \in M : \E f \in B : f.rule = g.rule /\ Penalty(f) >= Penalty(g)
  BY FirstsOfRules DEF Graded
<1>3. Graded(A) /\ Graded(B)
  <2> HIDE DEF A, B
  <2> QED BY <1>1, <1>2, FS_Subset DEF Graded
<1> HIDE DEF A, B
<1>4. ASSUME NEW f \in A
      PROVE  h[f] \in B /\ h[f].rule = f.rule /\ Penalty(h[f]) >= Penalty(f)
  <2>1. PICK m \in M : m.rule = f.rule /\ Penalty(m) >= Penalty(f)
    BY <1>1
  <2>2. PICK b \in B : b.rule = m.rule /\ Penalty(b) >= Penalty(m)
    BY <1>2
  <2>3. Penalty(f) \in Int /\ Penalty(m) \in Int /\ Penalty(b) \in Int
    BY <1>1, <1>2, Penalties DEF Graded
  <2>4. h[f] \in B /\ h[f].rule = f.rule
    BY <2>1, <2>2
  <2>5. h[f] = b
    BY <1>2, <2>1, <2>2, <2>4
  <2>6. Penalty(b) >= Penalty(f)
    BY <2>1, <2>2, <2>3
  <2> HIDE DEF h
  <2> QED BY <2>4, <2>5, <2>6
<1>5. h \in [A -> B]
  BY <1>4
<1>6. \A f, g \in A : h[f] = h[g] => f = g
  BY <1>1, <1>4
<1> HIDE DEF h
<1>7. Cost(A) <= Cost(B)
  BY <1>3, <1>4, <1>5, <1>6, CostDominated
<1> QED BY <1>3, <1>7 DEF A, B

(* What is left of fewer findings without the first of each rule is matched *)
(* by what is left of more: by itself, or by the first it came after.       *)
LEMMA SecondsDominated ==
  ASSUME NEW K, NEW M, Graded(M), K \subseteq M
  PROVE  \A f \in K \ FirstOfEach(K) : \E m \in M \ FirstOfEach(M) : m.rule = f.rule /\ Penalty(m) >= Penalty(f)
<1> SUFFICES ASSUME NEW f \in K \ FirstOfEach(K)
             PROVE  \E m \in M \ FirstOfEach(M) : m.rule = f.rule /\ Penalty(m) >= Penalty(f)
  OBVIOUS
<1>1. PICK first \in FirstOfEach(K) : first.rule = f.rule /\ Penalty(first) >= Penalty(f)
  BY FirstsOfRules DEF Graded
<1>2. first \in K /\ first # f
  BY FirstsOfRules DEF Graded
<1>3. \A g, h \in FirstOfEach(M) : g.rule = h.rule => g = h
  BY FirstsOfRules DEF Graded
<1>4. Penalty(f) \in Int
  BY Penalties DEF Graded
<1> QED BY <1>1, <1>2, <1>3, <1>4

LEMMA GradedSubset ==
  ASSUME NEW K, NEW M, Graded(M), K \subseteq M
  PROVE  Graded(K)
BY FS_Subset DEF Graded

LEMMA CategoryMonotone ==
  ASSUME NEW K, NEW M, Graded(M), K \subseteq M, NEW category
  PROVE  /\ CategoryScore(K, category) \in 0..100 /\ CategoryScore(M, category) \in 0..100
         /\ CategoryScore(M, category) <= CategoryScore(K, category)
<1> DEFINE mineK == {f \in K : f.category = category}
           mineM == {f \in M : f.category = category}
           firstsK == FirstOfEach(mineK)
           firstsM == FirstOfEach(mineM)
           secondsK == FirstOfEach(mineK \ firstsK)
           secondsM == FirstOfEach(mineM \ firstsM)
           Quarters(mine, firsts, seconds) == Cost(mine) + 3 * Cost(firsts) + Cost(seconds)
           Points(quarters) == 100 - Rounded(IF quarters < 400 THEN quarters ELSE 400, 4)
<1>1. /\ CategoryScore(K, category) = Points(Quarters(mineK, firstsK, secondsK))
      /\ CategoryScore(M, category) = Points(Quarters(mineM, firstsM, secondsM))
  BY DEF CategoryScore
<1>2. mineK \subseteq mineM /\ mineM \subseteq M
  OBVIOUS
<1> HIDE DEF mineK, mineM
<1>3. Graded(mineM) /\ Graded(mineK)
  BY <1>2, GradedSubset
<1>4. \A f \in mineK : f \in mineM /\ f.rule = f.rule /\ Penalty(f) >= Penalty(f)
  BY <1>2, <1>3, Penalties DEF Graded
<1>5. Cost(mineK) <= Cost(mineM)
  <2> DEFINE h == [f \in mineK |-> f]
  <2>1. h \in [mineK -> mineM] /\ \A f \in mineK : h[f] = f
    BY <1>2
  <2> HIDE DEF h
  <2> QED BY <1>3, <1>4, <2>1, CostDominated
<1>6. Graded(firstsK) /\ Graded(firstsM) /\ Cost(firstsK) <= Cost(firstsM)
  BY <1>3, <1>4, FirstsDominated
<1>7. Graded(mineK \ firstsK) /\ Graded(mineM \ firstsM)
  BY <1>3, GradedSubset
<1>8. \A f \in mineK \ firstsK : \E m \in mineM \ firstsM : m.rule = f.rule /\ Penalty(m) >= Penalty(f)
  BY <1>2, <1>3, SecondsDominated
<1> HIDE DEF firstsK, firstsM
<1>9. Graded(secondsK) /\ Graded(secondsM) /\ Cost(secondsK) <= Cost(secondsM)
  BY <1>7, <1>8, FirstsDominated
<1> HIDE DEF secondsK, secondsM
<1>10. /\ Cost(mineK) \in Nat /\ Cost(mineM) \in Nat /\ Cost(firstsK) \in Nat
       /\ Cost(firstsM) \in Nat /\ Cost(secondsK) \in Nat /\ Cost(secondsM) \in Nat
  BY <1>3, <1>6, <1>9, CostType
<1>11. /\ Quarters(mineK, firstsK, secondsK) \in Nat /\ Quarters(mineM, firstsM, secondsM) \in Nat
       /\ Quarters(mineK, firstsK, secondsK) <= Quarters(mineM, firstsM, secondsM)
  BY <1>5, <1>6, <1>9, <1>10
<1>12. \A p, q \in Nat : p <= q => Points(p) \in 0..100 /\ Points(q) \in 0..100 /\ Points(q) <= Points(p)
  BY DEF Rounded
<1> HIDE DEF Quarters, Points
<1> QED BY <1>1, <1>11, <1>12

-----------------------------------------------------------------------------
LEMMA TimesMonotone ==
  ASSUME NEW m \in Int, NEW n \in Int, m <= n, NEW w \in Nat
  PROVE  m * w \in Int /\ n * w \in Int /\ m * w <= n * w
OBVIOUS

LEMMA RoundedMonotone ==
  ASSUME NEW m \in Int, NEW n \in Int, m <= n, NEW d \in Nat \ {0}
  PROVE  Rounded(m, d) \in Int /\ Rounded(n, d) \in Int /\ Rounded(m, d) <= Rounded(n, d)
<1>1. \A p, q \in Int, e \in Nat \ {0} : p <= q => p \div e \in Int /\ q \div e \in Int /\ p \div e <= q \div e
  OBVIOUS
<1> QED BY <1>1 DEF Rounded

LEMMA FactorType ==
  ASSUME NEW situation \in Situations, NEW c \in Categories
  PROVE  coverageFactor(CoverageIn(situation)[c]) \in Nat
<1> DEFINE units == UnitsOf(FactsIn(situation), c)
           more == IF c = "iam" /\ FactsIn(situation).truncated THEN <<"truncated">> ELSE <<>>
           done == {i \in DOMAIN units : units[i] = "complete"}
<1>1. /\ <<>> \in Seq(Outcomes) /\ <<"complete">> \in Seq(Outcomes)
      /\ <<"truncated">> \in Seq(Outcomes) /\ <<"error">> \in Seq(Outcomes)
  BY DEF Outcomes
<1>2. \A p, q \in Seq(Outcomes) : p \o q \in Seq(Outcomes)
  OBVIOUS
<1>3. FactsIn(situation).units[c] \in Seq(Outcomes)
  <2>1. \/ FactsIn(situation).units[c] \in {<<>>, <<"complete">>}
        \/ \E p \in {<<"error">>, <<"truncated">>} : FactsIn(situation).units[c] = <<"complete">> \o p
    BY DEF FactsIn, Collected, Categories
  <2> QED BY <2>1, <1>1, <1>2
<1>4. more \in Seq(Outcomes)
  BY <1>1
<1>5. units = FactsIn(situation).units[c] \o more
  BY DEF UnitsOf
<1>6. units \in Seq(Outcomes)
  <2> HIDE DEF units, more
  <2> QED BY <1>2, <1>3, <1>4, <1>5
<1> HIDE DEF units
<1>7. Len(units) \in Nat /\ DOMAIN units = 1..Len(units)
  BY <1>6
<1>8. Cardinality(done) \in Nat
  <2>1. \A n \in Nat : IsFiniteSet(1..n)
    BY FS_Interval
  <2>2. IsFiniteSet(DOMAIN units)
    BY <1>7, <2>1, Zenon
  <2>3. done \subseteq DOMAIN units
    OBVIOUS
  <2> HIDE DEF done
  <2> QED BY <2>2, <2>3, FS_Subset, FS_CardinalityType
<1>9. \/ CoverageIn(situation)[c] = [status |-> "error", completed |-> CompletedUnits(units), total |-> Len(units)]
      \/ CoverageIn(situation)[c] = [status |-> "partial", completed |-> CompletedUnits(units), total |-> Len(units)]
      \/ CoverageIn(situation)[c] = [status |-> "complete", completed |-> CompletedUnits(units), total |-> Len(units)]
  BY DEF CoverageIn, buildCoverage, units
<1>10. CompletedUnits(units) \in Nat
  BY <1>8 DEF CompletedUnits
<1>11. \A p \in Nat, q \in Nat \ {0} : (12 * p) \div q \in Nat
  OBVIOUS
<1> QED BY <1>7, <1>9, <1>10, <1>11 DEF coverageFactor

-----------------------------------------------------------------------------
Weight(coverage, c) == categoryWeights[c] * coverageFactor(coverage[c])
Weighed(findings, coverage) == Total([c \in Categories |-> CategoryScore(findings, c) * Weight(coverage, c)])
Limits(findings, coverage) ==
  {Rounded(Weighed(findings, coverage), EffectiveWeight(coverage))} \cup {Cap[f.severity] : f \in findings}
Weighable(coverage) == \A c \in Categories : Weight(coverage, c) \in Nat

LEMMA WeightsType ==
  ASSUME NEW situation \in Situations
  PROVE  Weighable(CoverageIn(situation))
<1>1. \A c \in Categories : categoryWeights[c] \in Nat
  BY DEF Categories, categoryWeights
<1>2. \A m, n \in Nat : m * n \in Nat
  OBVIOUS
<1> QED BY <1>1, <1>2, FactorType DEF Weighable, Weight

LEMMA WeightOfAll ==
  ASSUME NEW coverage, Weighable(coverage)
  PROVE  EffectiveWeight(coverage) \in Nat
<1>1. EffectiveWeight(coverage) =
        Weight(coverage, "iam") + Weight(coverage, "service_accounts") + Weight(coverage, "public_services")
        + Weight(coverage, "firewall") + Weight(coverage, "secrets") + Weight(coverage, "workload_identity")
  BY DEF EffectiveWeight, Total, Weight, Categories
<1> QED BY <1>1 DEF Weighable, Categories

LEMMA WeighedMonotone ==
  ASSUME NEW K, NEW M, Graded(M), K \subseteq M, NEW coverage, Weighable(coverage)
  PROVE  /\ Weighed(K, coverage) \in Int /\ Weighed(M, coverage) \in Int
         /\ Weighed(M, coverage) <= Weighed(K, coverage)
<1> DEFINE Term(S, c) == CategoryScore(S, c) * Weight(coverage, c)
<1>1. \A c \in Categories : Term(K, c) \in Int /\ Term(M, c) \in Int /\ Term(M, c) <= Term(K, c)
  <2> TAKE c \in Categories
  <2>1. /\ CategoryScore(K, c) \in Int /\ CategoryScore(M, c) \in Int
        /\ CategoryScore(M, c) <= CategoryScore(K, c)
    BY CategoryMonotone
  <2> QED BY <2>1, TimesMonotone DEF Weighable
<1>2. \A S : Weighed(S, coverage) = Term(S, "iam") + Term(S, "service_accounts") + Term(S, "public_services")
                                    + Term(S, "firewall") + Term(S, "secrets") + Term(S, "workload_identity")
  BY DEF Weighed, Total, Categories
<1> HIDE DEF Term
<1> QED BY <1>1, <1>2 DEF Categories

LEMMA LeastLimit ==
  ASSUME NEW r \in Int, NEW S, S \subseteq {r, 49, 79, 89, 99}, S # {}
  PROVE  S \subseteq Int /\ \E m \in S : \A n \in S : m <= n
<1>1. \A p, q \in Int : p <= q \/ q <= p
  OBVIOUS
<1>2. ASSUME NEW T, T \subseteq Int, NEW p \in Int, T = {} \/ \E m \in T : \A n \in T : m <= n
      PROVE  \E m \in T \cup {p} : \A n \in T \cup {p} : m <= n
  <2>1. CASE T = {}
    BY <2>1
  <2>2. ASSUME NEW m \in T, \A n \in T : m <= n PROVE \E k \in T \cup {p} : \A n \in T \cup {p} : k <= n
    <3>1. CASE m <= p
      BY <2>2, <3>1
    <3>2. CASE p <= m
      BY <1>2, <2>2, <3>2
    <3> QED BY <1>1, <1>2, <3>1, <3>2
  <2> QED BY <1>2, <2>1, <2>2
<1> DEFINE T1 == S \cap {r}
           T2 == T1 \cup (S \cap {49})
           T3 == T2 \cup (S \cap {79})
           T4 == T3 \cup (S \cap {89})
           T5 == T4 \cup (S \cap {99})
           Least(T) == T = {} \/ \E m \in T : \A n \in T : m <= n
<1>3. \A T, p : T \subseteq Int /\ p \in Int /\ Least(T) => Least(T \cup {p})
  BY <1>2
<1>4. \A T, p : T \subseteq Int /\ p \in Int /\ Least(T) => Least(T \cup (S \cap {p}))
  <2> SUFFICES ASSUME NEW T, NEW p, T \subseteq Int, p \in Int, Least(T) PROVE Least(T \cup (S \cap {p}))
    OBVIOUS
  <2>1. T \cup (S \cap {p}) \in {T, T \cup {p}}
    OBVIOUS
  <2> HIDE DEF Least
  <2> QED BY <1>3, <2>1
<1>5. Least(T1)
  OBVIOUS
<1>6. T1 \subseteq Int /\ T2 \subseteq Int /\ T3 \subseteq Int /\ T4 \subseteq Int
  OBVIOUS
<1>7. T5 = S
  OBVIOUS
<1> HIDE DEF Least
<1>8. Least(T5)
  <2>1. Least(T2)
    <3> HIDE DEF T1
    <3> QED BY <1>4, <1>5, <1>6
  <2>2. Least(T3)
    <3> HIDE DEF T2
    <3> QED BY <1>4, <2>1, <1>6
  <2>3. Least(T4)
    <3> HIDE DEF T3
    <3> QED BY <1>4, <2>2, <1>6
  <2>4. 99 \in Int
    OBVIOUS
  <2>5. T5 = T4 \cup (S \cap {99})
    OBVIOUS
  <2> HIDE DEF T4, T5
  <2> QED BY <1>4, <2>3, <1>6, <2>4, <2>5, Zenon
<1> HIDE DEF T5
<1>9. Least(S)
  BY <1>7, <1>8
<1>10. S \subseteq Int
  OBVIOUS
<1> QED BY <1>9, <1>10 DEF Least

LEMMA ScoreMonotone ==
  ASSUME NEW K, NEW M, Graded(M), K \subseteq M, NEW coverage, Weighable(coverage)
  PROVE  ~(calculateScore(K, coverage) < calculateScore(M, coverage))
<1> DEFINE none == \/ coveragePercent(coverage) < 60 \/ coverage["iam"].status = "error"
                   \/ EffectiveWeight(coverage) = 0
           Least(limits) == CHOOSE score \in limits : \A limit \in limits : score <= limit
           LK == Limits(K, coverage)
           LM == Limits(M, coverage)
<1>1. \A S : calculateScore(S, coverage) = IF none THEN -1 ELSE Least(Limits(S, coverage))
  BY DEF calculateScore, Limits, Weighed, Weight
<1>2. CASE none
  BY <1>1, <1>2
<1>3. CASE ~none
  <2> DEFINE rk == Rounded(Weighed(K, coverage), EffectiveWeight(coverage))
             rm == Rounded(Weighed(M, coverage), EffectiveWeight(coverage))
  <2>1. rk \in Int /\ rm \in Int /\ rm <= rk
    BY <1>3, WeightOfAll, WeighedMonotone, RoundedMonotone
  <2>2. LK = {rk} \cup {Cap[f.severity] : f \in K} /\ LM = {rm} \cup {Cap[f.severity] : f \in M}
    BY DEF Limits
  <2>3. \A f \in M : Cap[f.severity] \in {49, 79, 89, 99}
    BY DEF Cap, Graded, Severities
  <2> HIDE DEF rk, rm
  <2>4. LK \subseteq {rk, 49, 79, 89, 99} /\ LM \subseteq {rm, 49, 79, 89, 99} /\ LK # {} /\ LM # {}
    BY <2>2, <2>3
  <2>5. \A k \in LK : \E m \in LM : m <= k
    <3>1. rm \in LM /\ \A f \in K : Cap[f.severity] \in LM
      BY <2>2
    <3>2. \A k \in LK : k = rk \/ \E f \in K : k = Cap[f.severity]
      BY <2>2
    <3>3. \A f \in K : Cap[f.severity] <= Cap[f.severity]
      BY <2>3
    <3> HIDE DEF LK, LM
    <3> QED BY <2>1, <3>1, <3>2, <3>3
  <2> HIDE DEF LK, LM, none
  <2>6. /\ LK \subseteq Int /\ \E m \in LK : \A n \in LK : m <= n
        /\ LM \subseteq Int /\ \E m \in LM : \A n \in LM : m <= n
    BY <2>1, <2>4, LeastLimit
  <2>7. /\ Least(LK) \in LK /\ Least(LM) \in LM
        /\ \A n \in LM : Least(LM) <= n
    BY <2>6
  <2> HIDE DEF Least
  <2>8. Least(LK) \in Int /\ Least(LM) \in Int
    BY <2>6, <2>7
  <2>9. PICK m \in LM : m <= Least(LK)
    BY <2>5, <2>7
  <2>10. m \in Int
    BY <2>6
  <2>11. Least(LM) <= Least(LK)
    BY <2>7, <2>8, <2>9, <2>10
  <2>12. calculateScore(K, coverage) = Least(LK) /\ calculateScore(M, coverage) = Least(LM)
    BY <1>1, <1>3 DEF LK, LM
  <2> QED BY <2>8, <2>11, <2>12
<1> QED BY <1>2, <1>3

LEMMA NothingCostsPoints ==
  ASSUME NEW situation \in Situations
  PROVE  CostsPoints(situation) = FALSE
<1> DEFINE active == Found(situation) \ Accepts(situation)
           coverage == CoverageIn(situation)
<1>1. Graded(active)
  <2>1. Graded(Found(situation))
    BY FoundFinite, SeveritiesKnown DEF Graded
  <2> QED BY <2>1, GradedSubset
<1>2. Weighable(coverage)
  BY WeightsType
<1>3. /\ ReportIn(situation).active = active /\ ReportIn(situation).coverage = coverage
      /\ ReportIn(situation).score = calculateScore(active, coverage)
  BY ReportParts
<1> HIDE DEF active, coverage
<1>4. ASSUME NEW kept, kept \subseteq active
      PROVE  /\ ~(calculateScore(kept, coverage) < calculateScore(active, coverage))
             /\ \A c \in Categories : ~(CategoryScore(kept, c) < CategoryScore(active, c))
  <2>1. \A c \in Categories : ~(CategoryScore(kept, c) < CategoryScore(active, c))
    BY <1>1, <1>4, CategoryMonotone
  <2> QED BY <1>1, <1>2, <1>4, <2>1, ScoreMonotone
<1> QED BY <1>3, <1>4 DEF CostsPoints

(* ScoreIsMonotone holds of every behaviour: whatever was found and however *)
(* much was read, no finding repaired or accepted costs points.             *)
THEOREM ScoresAreMonotone == Spec => []ScoreIsMonotone
<1>1. Init => IInv /\ SituationsInv
  <2>1. Init => SituationsInv
    BY TimesAssumption DEF Init, SituationsInv, Idle
  <2> QED BY <2>1, InitInv
<1>2. IInv /\ SituationsInv /\ [Next]_vars => IInv' /\ SituationsInv'
  BY StepInv, SituationsStep
<1>3. SituationsInv => ScoreIsMonotone
  <2> SUFFICES ASSUME SituationsInv, NEW a \in Answered
               PROVE  <<audits[a].report.of, FALSE>> \in Costing
    BY DEF ScoreIsMonotone
  <2>1. audits[a].report.of \in Situations
    BY DEF SituationsInv, Answered
  <2>2. CostsPoints(audits[a].report.of) = FALSE
    BY <2>1, NothingCostsPoints
  <2>3. <<audits[a].report.of, CostsPoints(audits[a].report.of)>> \in Costing
    BY <2>1 DEF Costing
  <2> QED BY <2>2, <2>3
<1> QED BY <1>1, <1>2, <1>3, PTL DEF Spec
=============================================================================
