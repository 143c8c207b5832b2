--------------------------- MODULE SecurityFirewall ---------------------------
(***************************************************************************)
(* What the security audit says of the ingress rules that are in effect on  *)
(* a network (securityaudit/rules.go, evaluateFirewalls), and what those    *)
(* rules let in. A rule is                                                  *)
(*   name, policy, order: the policy it is in, or the classic rules; the    *)
(*     place in which it is looked at, one policy after the other;          *)
(*   action: "allow", "deny", "goto_next", which leaves a packet to the     *)
(*     next policy, or "apply_security_profile_group", which inspects it;   *)
(*   what: a set of [protocol, ports], where no ports stand for all of them; *)
(*   families: those of "v4" and "v6" whose whole address range it names;   *)
(*   targets: the tags it applies to, none for all instances;               *)
(*   destinations: the addresses it is about, none for all of them;         *)
(*   idle: it names tags only, and none of them is in effect;               *)
(*   disabled, logging.                                                     *)
(***************************************************************************)
EXTENDS Integers

SensitivePorts == {22, 23, 3389, 3306, 5432, 6379, 27017, 9200, 11211}
WebPorts == {80, 443}

-----------------------------------------------------------------------------
(* The reference: what a network admits.                                    *)
Concerns(rule, packet) ==
  /\ ~rule.disabled /\ ~rule.idle
  /\ packet.family \in rule.families
  /\ rule.targets = {} \/ packet.target \in rule.targets
  /\ rule.destinations = {} \/ packet.destination \in rule.destinations
  /\ \E w \in rule.what : w.protocol \in {"all", packet.protocol} /\ (w.ports = {} \/ packet.port \in w.ports)

(* A rule decides on a packet when it is the first of its policy that        *)
(* concerns it and all policies before have left it to the next: what they  *)
(* have that concerns it comes after a "goto_next" that does.               *)
Decides(rules, rule, packet) ==
  /\ Concerns(rule, packet) /\ rule.action # "goto_next"
  /\ \A other \in rules : (Concerns(other, packet) /\ other.order < rule.order) =>
       /\ other.policy # rule.policy
       /\ \E pass \in rules : /\ pass.action = "goto_next" /\ Concerns(pass, packet)
                             /\ pass.policy = other.policy /\ pass.order <= other.order

Admits(rules, rule, packet) == rule.action = "allow" /\ Decides(rules, rule, packet)

-----------------------------------------------------------------------------
(* The audit.                                                               *)
allowsWorld(rule) == rule.families # {}

firewallTargetsCover(deny, allow) ==
  /\ ~deny.idle
  /\ deny.targets = {} \/ (allow.targets # {} /\ allow.targets \subseteq deny.targets)

portRangesCover(denied, allowed) == denied = {} \/ (allowed # {} /\ allowed \subseteq denied)

(* Mutant of firewallProtocolsCover: one protocol that is covered is enough. *)
someProtocolCovered(denied, allowed) ==
  \E a \in allowed, d \in denied : d.protocol \in {"all", a.protocol} /\ portRangesCover(d.ports, a.ports)

firewallProtocolsCover(denied, allowed) ==
  /\ denied # {} /\ allowed # {}
  /\ \A a \in allowed : \E d \in denied :
       d.protocol = "all" \/ (d.protocol = a.protocol /\ portRangesCover(d.ports, a.ports))

fullyShadowingDeny(allow, rules) ==
  {deny \in rules :
     /\ deny.action = "deny" /\ ~deny.disabled
     /\ deny.order < allow.order
     /\ allowsWorld(deny)
     /\ firewallTargetsCover(deny, allow)
     /\ firewallProtocolsCover(deny.what, allow.what)}

(* What that does not ask for, without which a deny may let through what it *)
(* seems to cover: that it is about all families and destinations of the    *)
(* other, and that no "goto_next" in its policy comes before it.            *)
StopsAll(deny, allow, rules) ==
  /\ allow.families \subseteq deny.families
  /\ deny.destinations = {} \/ (allow.destinations # {} /\ allow.destinations \subseteq deny.destinations)
  /\ \A other \in rules :
       (other.action = "goto_next" /\ ~other.disabled /\ other.policy = deny.policy) => deny.order < other.order

MistakenForShadowed(rule, rules) == \E deny \in fullyShadowingDeny(rule, rules) : ~StopsAll(deny, rule, rules)

AllTraffic(rule) ==
  \E w \in rule.what : w.protocol = "all" \/ (w.protocol \in {"tcp", "udp"} /\ w.ports = {})
Dangerous(rule) ==
  \E w \in rule.what : w.protocol \in {"tcp", "udp"} /\ (w.ports = {} \/ w.ports \cap SensitivePorts # {})
WebOnly(rule) ==
  \A w \in rule.what : w.protocol = "tcp" /\ w.ports # {} /\ w.ports \subseteq WebPorts

(* The rules of evaluateFirewalls that apply to a rule of the network.      *)
FirewallRules(rule, rules) ==
  IF rule.action # "allow" \/ ~allowsWorld(rule) \/ rule.what = {} \/ rule.idle THEN {}
  ELSE IF rule.disabled THEN IF AllTraffic(rule) \/ Dangerous(rule) THEN {"FW-004"} ELSE {}
  ELSE IF fullyShadowingDeny(rule, rules) # {} THEN {"FW-006"}
  ELSE (CASE AllTraffic(rule)                       -> {"FW-001"}
          [] ~AllTraffic(rule) /\ Dangerous(rule)   -> {"FW-002"}
          [] ~AllTraffic(rule) /\ ~Dangerous(rule) /\ WebOnly(rule) -> {"FW-003"}
          [] OTHER -> {})
       \cup (IF rule.logging THEN {} ELSE {"FW-005"})
=============================================================================
