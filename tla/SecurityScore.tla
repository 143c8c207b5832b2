----------------------------- MODULE SecurityScore -----------------------------
(***************************************************************************)
(* The security report (internal/securityaudit/score.go, suppressions.go):  *)
(* how much of the project was seen, and what the findings cost. Shares are *)
(* counted in twelfths: a category is read in at most four units.           *)
(***************************************************************************)
EXTENDS SecurityRules, Sequences

Categories == {"iam", "service_accounts", "public_services", "firewall", "secrets", "workload_identity"}

categoryWeights ==
  [iam |-> 25, service_accounts |-> 20, public_services |-> 20,
   firewall |-> 15, secrets |-> 10, workload_identity |-> 10]

Total(f) ==
  f["iam"] + f["service_accounts"] + f["public_services"] + f["firewall"] + f["secrets"] + f["workload_identity"]

Rounded(n, d) == (2 * n + d) \div (2 * d)

-----------------------------------------------------------------------------
(* Coverage: what is left of the units of a category, one more of which     *)
(* stands for a truncated search of IAM policies; its warnings.             *)
UnitsOf(facts, category) ==
  facts.units[category] \o (IF category = "iam" /\ facts.truncated THEN <<"truncated">> ELSE <<>>)

(* Mutant of CompletedUnits: a search that stopped at its cap is finished.   *)
UnitsWithoutError(units) == Cardinality({i \in DOMAIN units : units[i] # "error"})

CompletedUnits(units) == Cardinality({i \in DOMAIN units : units[i] = "complete"})

buildCoverage(facts, failed) ==
  [category \in Categories |->
     LET units == UnitsOf(facts, category)
         done  == CompletedUnits(units)
     IN  CASE category \in failed -> [status |-> "error", completed |-> done, total |-> Len(units)]
           [] category \notin failed /\ (done < Len(units) \/ category \in facts.warned) ->
                [status |-> "partial", completed |-> done, total |-> Len(units)]
           [] OTHER -> [status |-> "complete", completed |-> done, total |-> Len(units)]]

(* coverageFactor, in twelfths. *)
coverageFactor(check) ==
  CASE check.status = "complete"                   -> 12
    [] check.status = "partial" /\ check.total > 0 -> (12 * check.completed) \div check.total
    [] check.status = "partial" /\ check.total = 0 -> 9
    [] OTHER                                       -> 0

EffectiveWeight(coverage) == Total([c \in Categories |-> categoryWeights[c] * coverageFactor(coverage[c])])

coveragePercent(coverage) == Rounded(EffectiveWeight(coverage), 12)

-----------------------------------------------------------------------------
severityPenalty == [critical |-> 40, high |-> 20, medium |-> 8, low |-> 3]
Cap == [critical |-> 49, high |-> 79, medium |-> 89, low |-> 99]

Cost(findings) ==
  LET Of(severity) == severityPenalty[severity] * Cardinality({f \in findings : f.severity = severity})
  IN  Of("critical") + Of("high") + Of("medium") + Of("low")

(* Mutant of FirstOf: the findings of a rule come in another order.         *)
MildestOf(findings) ==
  CHOOSE f \in findings : \A g \in findings : severityPenalty[f.severity] <= severityPenalty[g.severity]

FirstOf(findings) ==
  CHOOSE f \in findings : \A g \in findings : severityPenalty[f.severity] >= severityPenalty[g.severity]

(* Of each rule's findings, which come gravest first, the first counts in   *)
(* full, the second half and any other a quarter: four, two and one here.   *)
FirstOfEach(findings) == {FirstOf({f \in findings : f.rule = g.rule}) : g \in findings}
CategoryScore(findings, category) ==
  LET mine     == {f \in findings : f.category = category}
      firsts   == FirstOfEach(mine)
      seconds  == FirstOfEach(mine \ firsts)
      quarters == Cost(mine) + 3 * Cost(firsts) + Cost(seconds)
  IN  100 - Rounded(IF quarters < 400 THEN quarters ELSE 400, 4)

(* No score: -1. *)
calculateScore(findings, coverage) ==
  LET weight(c) == categoryWeights[c] * coverageFactor(coverage[c])
      weighted  == Total([c \in Categories |-> CategoryScore(findings, c) * weight(c)])
      effective == EffectiveWeight(coverage)
      limits    == {Rounded(weighted, effective)} \cup {Cap[f.severity] : f \in findings}
  IN  IF coveragePercent(coverage) < 60 \/ coverage["iam"].status = "error" \/ effective = 0 THEN -1
      ELSE CHOOSE score \in limits : \A limit \in limits : score <= limit

scoreStatus(score, percent) ==
  IF score = -1 THEN "unavailable" ELSE IF percent >= 90 THEN "final" ELSE "provisional"

-----------------------------------------------------------------------------
(* applySuppressions: of a finding, by rule and resource, before its date.  *)
Suppressed(findings, suppressions, time) ==
  {f \in findings : \E s \in suppressions : s.rule = f.rule /\ f.resource \in s.resources /\ time < s.expiresAt}

(* The first findings of the report, which are sorted by severity.          *)
TooMany(findings, max) == Cardinality(findings) > max
Shown(findings, max) ==
  IF ~TooMany(findings, max) THEN findings
  ELSE CHOOSE shown \in SUBSET findings :
         /\ Cardinality(shown) = max
         /\ \A f \in shown, g \in findings \ shown : severityPenalty[f.severity] >= severityPenalty[g.severity]

buildReport(facts, failed, suppressions, time, max) ==
  LET findings   == evaluateRules(facts, failed)
      suppressed == Suppressed(findings, suppressions, time)
      active     == findings \ suppressed
      coverage   == buildCoverage(facts, failed)
      score      == calculateScore(active, coverage)
  IN  [active |-> active, shown |-> Shown(active, max), truncated |-> TooMany(active, max),
       suppressed |-> suppressed, coverage |-> coverage, score |-> score,
       scoreStatus |-> scoreStatus(score, coveragePercent(coverage))]
=============================================================================
