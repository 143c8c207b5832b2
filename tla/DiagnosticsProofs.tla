--------------------------- MODULE DiagnosticsProofs ---------------------------
(***************************************************************************)
(* What a diagnosis may say, for any services, requests, slots and losses:  *)
(* that nothing is wrong, and that a dependency is to blame.                *)
(***************************************************************************)
EXTENDS Diagnostics, FiniteSetTheorems, WellFoundedInduction, TLAPS

-----------------------------------------------------------------------------
(* A set of naturals that is not empty has a least element.                 *)
LEMMA LeastOf ==
  ASSUME NEW S, S \subseteq Nat, S # {}
  PROVE  \E m \in S : \A x \in S : m <= x
<1>1. PICK m \in S : \A x \in S : <<x, m>> \notin OpToRel(<, Nat)
  BY NatLessThanWellFounded, WFMin
<1>2. ASSUME NEW x \in S PROVE m <= x
  <2>1. <<x, m>> \notin {p \in Nat \X Nat : p[1] < p[2]}
    BY <1>1 DEF OpToRel
  <2> QED BY <2>1
<1> QED BY <1>2

(* One of numbers up to a bound has a greatest.                             *)
LEMMA GreatestOf ==
  ASSUME NEW n \in Nat, NEW S, S \subseteq 1..n, S # {}
  PROVE  \E m \in S : \A x \in S : x <= m
<1> DEFINE T == {n - x : x \in S}
<1>1. T \subseteq Nat /\ T # {}
  OBVIOUS
<1>2. PICK d \in T : \A y \in T : d <= y
  BY <1>1, LeastOf
<1>3. PICK m \in S : d = n - m
  BY <1>2
<1>4. ASSUME NEW x \in S PROVE x <= m
  BY <1>2, <1>3
<1> QED BY <1>4

-----------------------------------------------------------------------------
(* The services up to one of the requested ones.                            *)
UpTo(targets, t) == {u \in targets : u <= t}

(* The library's counting of a set is the counting of FiniteSets.           *)
LEMMA SameCardinality == ASSUME NEW S PROVE F!Cardinality(S) = Cardinality(S)
BY Zenon DEF F!Cardinality, Cardinality

LEMMA FirstIs ==
  ASSUME NEW targets, NEW n
  PROVE  First(targets, n) = {t \in targets : Cardinality(UpTo(targets, t)) <= n}
BY SameCardinality DEF First, F!Quantify, UpTo

(* What is among finitely many places is finite.                            *)
LEMMA SomePlaces ==
  ASSUME NEW last \in Nat, NEW S, S \subseteq 1..last
  PROVE  IsFiniteSet(S) /\ Cardinality(S) \in Nat /\ S \subseteq Nat
<1> DEFINE all == 1..last
<1>1. IsFiniteSet(all) /\ all \subseteq Nat
  BY FS_Interval
<1>2. S \in SUBSET all
  OBVIOUS
<1> HIDE DEF all
<1>3. IsFiniteSet(S)
  BY <1>1, <1>2, FS_Subset
<1> QED BY <1>1, <1>2, <1>3, FS_CardinalityType

LEMMA UpToGrows ==
  ASSUME NEW last \in Nat, NEW targets, targets \subseteq 1..last, NEW t \in targets, NEW u \in targets, u <= t
  PROVE  /\ Cardinality(UpTo(targets, t)) \in Nat
         /\ Cardinality(UpTo(targets, u)) \in Nat
         /\ Cardinality(UpTo(targets, u)) <= Cardinality(UpTo(targets, t))
<1>1. /\ UpTo(targets, t) \subseteq 1..last /\ UpTo(targets, u) \subseteq 1..last
      /\ UpTo(targets, u) \subseteq UpTo(targets, t)
  <2>1. targets \subseteq Nat
    BY SomePlaces
  <2>2. \A x \in targets : x <= u => x <= t
    BY <2>1
  <2> QED BY <2>2 DEF UpTo
<1>2. IsFiniteSet(UpTo(targets, t)) /\ IsFiniteSet(UpTo(targets, u))
  BY <1>1, SomePlaces
<1> QED BY <1>1, <1>2, FS_Subset, FS_CardinalityType

(* A choice that does not take all the services it may takes as many as it  *)
(* may.                                                                     *)
LEMMA FirstTakesAllOrN ==
  ASSUME NEW last \in Nat, NEW targets, targets \subseteq 1..last, NEW n \in Nat
  PROVE  /\ First(targets, n) \subseteq targets
         /\ IsFiniteSet(First(targets, n))
         /\ First(targets, n) = targets \/ Cardinality(First(targets, n)) = n
<1> DEFINE chosen == First(targets, n)
           Count(t) == Cardinality(UpTo(targets, t))
<1>1. chosen = {t \in targets : Count(t) <= n}
  BY FirstIs
<1>2. \A t, u \in targets : u <= t => Count(t) \in Nat /\ Count(u) \in Nat /\ Count(u) <= Count(t)
  <2>1. ASSUME NEW t \in targets, NEW u \in targets, u <= t
        PROVE  Count(t) \in Nat /\ Count(u) \in Nat /\ Count(u) <= Count(t)
    BY <2>1, UpToGrows
  <2> QED BY <2>1
<1>3. chosen \subseteq targets /\ chosen \subseteq 1..last /\ targets \subseteq Nat
  BY <1>1, SomePlaces
<1> HIDE DEF chosen
<1>4. IsFiniteSet(chosen) /\ Cardinality(chosen) \in Nat
  BY <1>3, SomePlaces
<1>5. ASSUME chosen # targets PROVE Cardinality(chosen) = n
  <2>1. PICK t \in targets \ chosen : \A x \in targets \ chosen : t <= x
    <3>1. targets \ chosen \subseteq Nat /\ targets \ chosen # {}
      BY <1>3, <1>5
    <3> QED BY <3>1, LeastOf
  <2>2. UpTo(targets, t) = chosen \cup {t}
    <3>1. ASSUME NEW u \in targets, u <= t, u # t PROVE u \in chosen
      BY <2>1, <3>1
    <3>2. ASSUME NEW u \in chosen PROVE u <= t
      <4>1. u \in targets /\ t \in targets /\ u \in Nat /\ t \in Nat
        BY <1>3
      <4>2. Count(u) <= n /\ ~(Count(t) <= n)
        BY <1>1, <4>1
      <4>3. t <= u => Count(t) <= Count(u) /\ Count(t) \in Nat /\ Count(u) \in Nat
        BY <1>2, <4>1
      <4> HIDE DEF Count
      <4> QED BY <4>1, <4>2, <4>3
    <3>3. t \in targets /\ t <= t
      BY <1>3
    <3> QED BY <1>3, <3>1, <3>2, <3>3 DEF UpTo
  <2>3. Count(t) = Cardinality(chosen) + 1 /\ Count(t) > n
    <3>1. Count(t) \in Nat /\ ~(Count(t) <= n)
      BY <1>1, <1>2
    <3>2. Cardinality(chosen \cup {t}) = Cardinality(chosen) + 1
      BY <1>4, FS_AddElement
    <3> QED BY <2>2, <3>1, <3>2
  <2>4. Cardinality(chosen) <= n
    <3>1. CASE chosen = {}
      BY <3>1, FS_EmptySet
    <3>2. CASE chosen # {}
      <4>1. PICK m \in chosen : \A x \in chosen : x <= m
        BY <1>3, <3>2, GreatestOf
      <4>2. chosen \subseteq UpTo(targets, m) /\ UpTo(targets, m) \subseteq 1..last
        BY <1>3, <4>1 DEF UpTo
      <4>3. IsFiniteSet(UpTo(targets, m))
        BY <4>2, SomePlaces
      <4>4. Cardinality(chosen) <= Count(m)
        BY <4>2, <4>3, FS_Subset
      <4>5. Count(m) <= n /\ Count(m) \in Nat
        BY <1>1, <1>2
      <4> HIDE DEF Count
      <4> QED BY <1>4, <4>4, <4>5
    <3> QED BY <3>1, <3>2
  <2> HIDE DEF Count
  <2> QED BY <1>4, <2>3, <2>4
<1> QED BY <1>3, <1>4, <1>5 DEF chosen

-----------------------------------------------------------------------------
(* What BlameIsEarned asks of a dependency, and what the answer is made of. *)
InTrouble(t) ==
  \E i \in DOMAIN dependencies(t) :
    \/ dependencies(t)[i].state \in {"bad", "absent"}
    \/ dependencies(t)[i].kind = "vpc_connector"

Evidence == {[service |-> t, seen |-> Collected(t), blamed |-> data[t].blamed] : t \in DOMAIN data}

Verdict == IF Worst = "healthy" /\ \E t \in DOMAIN data : Gaps(t) THEN "inconclusive" ELSE Worst

(* The scope stays what the listing gave; a service that was not collected  *)
(* is warned of; what is blamed is in trouble; and the answer is what came  *)
(* in, which nothing changes any more.                                      *)
SituationInv == services \in Situations /\ request \in Requests

ScopeInv ==
  /\ DOMAIN worker = scope.targets /\ DOMAIN data = scope.targets
  /\ \/ scope.phase \in {"open", "failed"}
     \/ listing = "cut"
     \/ scope = Scope(Len(services))

FormedData(d) ==
  d = [collected |-> d.collected, lost |-> d.lost, cut |-> d.cut,
       warned |-> d.warned, health |-> d.health, blamed |-> d.blamed]

TargetInv(t) ==
  /\ FormedData(data[t])
  /\ worker[t] = "checking" => data[t].collected
  /\ worker[t] = "sent" => data[t].collected \/ data[t].warned
  /\ data[t].blamed # 0 => InTrouble(t)

AnswerInv ==
  \/ answer = Unanswered
  \/ /\ scope.phase # "open"
     /\ answer.status \in {"needs_scope", "error"} /\ answer.causes = {}
  \/ /\ scope.phase = "found"
     /\ \A t \in DOMAIN worker : worker[t] = "sent"
     /\ answer = [status |-> Verdict, causes |-> rankRootCauses(Evidence, request.limit)]

IInv == SituationInv /\ ScopeInv /\ (\A t \in DOMAIN worker : TargetInv(t)) /\ AnswerInv

-----------------------------------------------------------------------------
(* A dependency is a cause only where one was blamed.                       *)
LEMMA CauseWasBlamed ==
  ASSUME NEW found, NEW seen, NEW blamed, found \in Detected(seen, blamed),
         found.code = "dependency_failure"
  PROVE  blamed # 0
<1>1. SUFFICES ASSUME blamed = 0 PROVE FALSE
  OBVIOUS
<1>2. Score(DependencyFailure(seen, 0)) = 0
  BY DEF Score, DependencyFailure
<1>3. Score(DependencyFailure(seen, blamed)) > 0
  BY DEF Detected
<1> QED BY <1>1, <1>2, <1>3

LEMMA RankedWereBlamed ==
  ASSUME NEW told, NEW limit, NEW cause \in rankRootCauses(told, limit),
         cause.code = "dependency_failure"
  PROVE  \E d \in told : d.service = cause.service /\ d.blamed # 0
<1> DEFINE detected == UNION {{[service |-> d.service, code |-> found.code, score |-> found.score] :
                                 found \in Detected(d.seen, d.blamed)} : d \in told}
<1>1. cause \in detected
  BY DEF rankRootCauses
<1>2. PICK d \in told : \E found \in Detected(d.seen, d.blamed) :
                          cause = [service |-> d.service, code |-> found.code, score |-> found.score]
  BY <1>1
<1>3. PICK found \in Detected(d.seen, d.blamed) :
        cause = [service |-> d.service, code |-> found.code, score |-> found.score]
  BY <1>2
<1> QED BY <1>3, CauseWasBlamed

(* Who is blamed by the checks of a service is in trouble.                  *)
BlamedBy(t, failed, partOfRegion) ==
  F!Quantify(DOMAIN dependencies(t),
             LAMBDA i : Blamed(dependencies(t)[i], i \in failed, partOfRegion))

LEMMA BlamedAreInTrouble ==
  ASSUME NEW t, NEW failed, NEW partOfRegion, BlamedBy(t, failed, partOfRegion) # 0
  PROVE  InTrouble(t)
<1> DEFINE blamed == {i \in DOMAIN dependencies(t) : Blamed(dependencies(t)[i], i \in failed, partOfRegion)}
<1>1. Cardinality(blamed) # 0
  BY SameCardinality DEF F!Quantify, BlamedBy
<1>2. PICK i \in blamed : TRUE
  BY <1>1, FS_EmptySet
<1> QED BY <1>2 DEF Blamed, InTrouble

-----------------------------------------------------------------------------
LEMMA InitInv == ASSUME Init PROVE IInv
BY DEF Init, IInv, SituationInv, ScopeInv, NoScope, AnswerInv

(* What is asked of a service depends on nothing that changes.              *)
LEMMA SameTrouble ==
  ASSUME UNCHANGED situation, NEW t, InTrouble(t)
  PROVE  InTrouble(t)'
BY DEF situation, InTrouble, dependencies

LEMMA SameScope ==
  ASSUME UNCHANGED situation
  PROVE  Scope(Len(services))' = Scope(Len(services))
<1>1. Matches(Len(services))' = Matches(Len(services))
  BY DEF situation, Matches
<1> QED BY <1>1 DEF situation, Scope

LEMMA ScopeStays ==
  ASSUME ScopeInv, UNCHANGED <<services, request, scope, listing>>,
         DOMAIN worker' = DOMAIN worker, DOMAIN data' = DOMAIN data
  PROVE  ScopeInv'
BY SameScope DEF ScopeInv, situation

(* With the same services, scope and data the same answer stands.           *)
LEMMA AnswerStays ==
  ASSUME AnswerInv, UNCHANGED <<services, request, scope, worker, data, answer>>
  PROVE  AnswerInv'
BY DEF AnswerInv, Verdict, Worst, Gaps, Collected, Evidence

LEMMA ResolveScopeStep ==
  ASSUME IInv, ResolveScope
  PROVE  IInv'
<1>1. /\ scope.phase = "open" /\ UNCHANGED <<services, request, late, answer>>
      /\ worker' = [t \in scope'.targets |-> "waiting"]
      /\ data' = [t \in scope'.targets |-> Nothing]
  BY DEF ResolveScope, situation
<1>2. \/ scope' = [NoScope EXCEPT !.phase = "failed"]
      \/ listing' = "cut"
      \/ scope' = Scope(Len(services))
  BY DEF ResolveScope
<1>3. answer = Unanswered
  BY <1>1 DEF IInv, AnswerInv
<1>4. ScopeInv'
  <2>1. Scope(Len(services))' = Scope(Len(services))
    BY <1>1, SameScope DEF situation
  <2> QED BY <1>1, <1>2, <2>1 DEF ScopeInv, NoScope
<1>5. \A t \in DOMAIN worker' : TargetInv(t)'
  BY <1>1 DEF TargetInv, FormedData, Nothing
<1> QED BY <1>1, <1>3, <1>4, <1>5 DEF IInv, SituationInv, AnswerInv

(* A goroutine's step leaves the other services alone, and comes before the *)
(* answer.                                                                  *)
LEMMA BecomeStep ==
  ASSUME IInv, NEW t \in DOMAIN worker, worker[t] # "sent",
         NEW state, NEW collected, Become(t, state, collected),
         FormedData(collected),
         state = "checking" => collected.collected,
         state = "sent" => collected.collected \/ collected.warned,
         collected.blamed # 0 => InTrouble(t)
  PROVE  IInv'
<1>1. /\ worker' = [worker EXCEPT ![t] = state] /\ data' = [data EXCEPT ![t] = collected]
      /\ UNCHANGED <<services, request, listing, scope, late, answer>>
  BY DEF Become, situation
<1>2. t \in DOMAIN data
  BY DEF IInv, ScopeInv
<1>3. ASSUME NEW u \in DOMAIN worker' PROVE TargetInv(u)'
  <2>1. CASE u = t
    <3>1. worker'[t] = state /\ data'[t] = collected
      BY <1>1, <1>2
    <3>2. InTrouble(t) => InTrouble(t)'
      BY <1>1, SameTrouble DEF situation
    <3> QED BY <2>1, <3>1, <3>2 DEF TargetInv, FormedData
  <2>2. CASE u # t
    <3>1. worker'[u] = worker[u] /\ data'[u] = data[u] /\ u \in DOMAIN worker
      BY <1>1, <2>2 DEF IInv, ScopeInv
    <3>2. InTrouble(u) => InTrouble(u)'
      BY <1>1, SameTrouble DEF situation
    <3> QED BY <3>1, <3>2 DEF IInv, TargetInv, FormedData
  <2> QED BY <2>1, <2>2
<1>4. AnswerInv'
  BY <1>1 DEF IInv, AnswerInv
<1>5. ScopeInv'
  BY <1>1, ScopeStays DEF IInv
<1> QED BY <1>1, <1>3, <1>4, <1>5 DEF IInv, SituationInv

(* What a goroutine writes into the data of its service.                    *)
WarnedAs(d, warned) == [d EXCEPT !.warned = warned]
CollectedAs(d, collected, lost, cut) == [d EXCEPT !.collected = collected, !.lost = lost, !.cut = cut]
CheckedAs(d, health, blamed, warned) ==
  [d EXCEPT !.health = health, !.blamed = blamed, !.warned = warned]

LEMMA WarnedData ==
  ASSUME NEW d, FormedData(d), NEW warned
  PROVE  /\ FormedData(WarnedAs(d, warned))
         /\ WarnedAs(d, warned).warned = warned
         /\ WarnedAs(d, warned).blamed = d.blamed
<1>1. PICK c, l, u, w, h, b :
        d = [collected |-> c, lost |-> l, cut |-> u, warned |-> w, health |-> h, blamed |-> b]
  BY DEF FormedData
<1>2. WarnedAs(d, warned) = [collected |-> c, lost |-> l, cut |-> u, warned |-> warned, health |-> h, blamed |-> b]
  BY <1>1 DEF WarnedAs
<1> QED BY <1>1, <1>2 DEF FormedData

LEMMA CollectedData ==
  ASSUME NEW d, FormedData(d), NEW collected, NEW lost, NEW cut
  PROVE  /\ FormedData(CollectedAs(d, collected, lost, cut))
         /\ CollectedAs(d, collected, lost, cut).collected = collected
         /\ CollectedAs(d, collected, lost, cut).blamed = d.blamed
<1>1. PICK c, l, u, w, h, b :
        d = [collected |-> c, lost |-> l, cut |-> u, warned |-> w, health |-> h, blamed |-> b]
  BY DEF FormedData
<1> DEFINE e1 == [d EXCEPT !.collected = collected]
           e2 == [e1 EXCEPT !.lost = lost]
           e3 == [e2 EXCEPT !.cut = cut]
<1>2. CollectedAs(d, collected, lost, cut) = e3
  BY DEF CollectedAs
<1>3. e1 = [collected |-> collected, lost |-> l, cut |-> u, warned |-> w, health |-> h, blamed |-> b]
  BY <1>1
<1> HIDE DEF e1
<1>4. e2 = [collected |-> collected, lost |-> lost, cut |-> u, warned |-> w, health |-> h, blamed |-> b]
  BY <1>3
<1> HIDE DEF e2
<1>5. e3 = [collected |-> collected, lost |-> lost, cut |-> cut, warned |-> w, health |-> h, blamed |-> b]
  BY <1>4
<1> HIDE DEF e3
<1> QED BY <1>1, <1>2, <1>5 DEF FormedData

LEMMA CheckedData ==
  ASSUME NEW d, FormedData(d), NEW health, NEW blamed, NEW warned
  PROVE  /\ FormedData(CheckedAs(d, health, blamed, warned))
         /\ CheckedAs(d, health, blamed, warned).collected = d.collected
         /\ CheckedAs(d, health, blamed, warned).blamed = blamed
<1>1. PICK c, l, u, w, h, b :
        d = [collected |-> c, lost |-> l, cut |-> u, warned |-> w, health |-> h, blamed |-> b]
  BY DEF FormedData
<1> DEFINE e1 == [d EXCEPT !.health = health]
           e2 == [e1 EXCEPT !.blamed = blamed]
           e3 == [e2 EXCEPT !.warned = warned]
<1>2. CheckedAs(d, health, blamed, warned) = e3
  BY DEF CheckedAs
<1>3. e1 = [collected |-> c, lost |-> l, cut |-> u, warned |-> w, health |-> health, blamed |-> b]
  BY <1>1
<1> HIDE DEF e1
<1>4. e2 = [collected |-> c, lost |-> l, cut |-> u, warned |-> w, health |-> health, blamed |-> blamed]
  BY <1>3
<1> HIDE DEF e2
<1>5. e3 = [collected |-> c, lost |-> l, cut |-> u, warned |-> warned, health |-> health, blamed |-> blamed]
  BY <1>4
<1> HIDE DEF e3
<1> QED BY <1>1, <1>2, <1>5 DEF FormedData

LEMMA WorkStep ==
  ASSUME IInv, NEW t \in DOMAIN worker, Work(t)
  PROVE  IInv'
<1>1. TargetInv(t)
  BY DEF IInv
<1>2. CASE TakeSlot(t)
  BY <1>1, <1>2, BecomeStep DEF TakeSlot, TargetInv
<1>3. CASE GiveUp(t)
  <2>1. worker[t] # "sent" /\ Become(t, "sent", WarnedAs(data[t], TRUE))
    BY <1>3, Zenon DEF GiveUp, WarnedAs
  <2> QED BY <1>1, <2>1, WarnedData, BecomeStep DEF TargetInv
<1>4. CASE Collect(t)
  <2>1. PICK lost, cut :
          Become(t, IF "dependency_topology" \in lost THEN "sent" ELSE "checking",
                 CollectedAs(data[t], TRUE, lost, cut))
    BY <1>4, Zenon DEF Collect, CollectedAs
  <2>2. PICK state \in {"sent", "checking"} : Become(t, state, CollectedAs(data[t], TRUE, lost, cut))
    BY <2>1
  <2>3. worker[t] # "sent"
    BY <1>4 DEF Collect
  <2> DEFINE d == CollectedAs(data[t], TRUE, lost, cut)
  <2>4. FormedData(d) /\ d.collected = TRUE /\ d.blamed = data[t].blamed
    <3>1. FormedData(data[t])
      BY <1>1 DEF TargetInv
    <3>2. \A collected : LET e == CollectedAs(data[t], collected, lost, cut) IN
            FormedData(e) /\ e.collected = collected /\ e.blamed = data[t].blamed
      BY <3>1, CollectedData
    <3> QED BY <3>2, Zenon
  <2> HIDE DEF d
  <2>5. FormedData(d) /\ d.collected /\ (d.blamed # 0 => InTrouble(t))
    BY <1>1, <2>4 DEF TargetInv
  <2>6. Become(t, state, d)
    BY <2>2 DEF d
  <2> QED BY <2>3, <2>5, <2>6, BecomeStep
<1>5. CASE CheckDependencies(t)
  <2>1. PICK failed, partOfRegion, health, warned :
          Become(t, "sent", CheckedAs(data[t], health, BlamedBy(t, failed, partOfRegion), warned))
    <3> DEFINE quiet == {i \in DOMAIN dependencies(t) : /\ dependencies(t)[i].kind = "cloudrun_service"
                                                       /\ dependencies(t)[i].state = "quiet"}
    <3>1. \E failed \in FailedCalls(t), partOfRegion \in BOOLEAN :
            Become(t, "sent",
              CheckedAs(data[t], IF failed \cup quiet = {} THEN "complete" ELSE "partial",
                        BlamedBy(t, failed, partOfRegion),
                        Len(services[t].dependencies) > Len(dependencies(t))))
      BY <1>5, Zenon DEF CheckDependencies, BlamedBy, CheckedAs
    <3> HIDE DEF quiet
    <3> QED BY <3>1, Zenon
  <2>2. BlamedBy(t, failed, partOfRegion) # 0 => InTrouble(t)
    BY BlamedAreInTrouble
  <2>3. worker[t] = "checking"
    BY <1>5 DEF CheckDependencies
  <2> QED BY <1>1, <2>1, <2>2, <2>3, CheckedData, BecomeStep DEF TargetInv
<1> QED BY <1>2, <1>3, <1>4, <1>5 DEF Work

LEMMA AnswerStep ==
  ASSUME IInv, Answer
  PROVE  IInv'
<1>1. UNCHANGED <<services, request, listing, scope, late, worker, data>>
  BY DEF Answer, situation
<1>2. Verdict' = Verdict /\ Evidence' = Evidence
  BY <1>1 DEF Verdict, Evidence, Worst, Gaps, Collected
<1>3. AnswerInv'
  BY <1>1, <1>2 DEF Answer, AnswerInv, Verdict, Evidence
<1>4. \A t \in DOMAIN worker' : TargetInv(t)'
  BY <1>1, SameTrouble DEF IInv, TargetInv, FormedData, situation
<1> QED BY <1>1, <1>3, <1>4, ScopeStays DEF IInv, SituationInv

LEMMA NextInv ==
  ASSUME IInv, [Next]_vars
  PROVE  IInv'
<1>1. ASSUME UNCHANGED <<services, request, listing, scope, worker, data>>, AnswerInv'
      PROVE  IInv'
  <2>1. \A t \in DOMAIN worker' : TargetInv(t)'
    BY <1>1, SameTrouble DEF IInv, TargetInv, FormedData, situation
  <2> QED BY <1>1, <2>1, ScopeStays DEF IInv, SituationInv
<1>2. CASE UNCHANGED vars
  BY <1>1, <1>2, AnswerStays DEF vars, IInv
<1>3. CASE RunOut
  BY <1>1, <1>3, AnswerStays DEF RunOut, situation, IInv
<1>4. CASE AnswerWithoutTargets
  <2>1. AnswerInv'
    BY <1>4 DEF AnswerWithoutTargets, AnswerInv
  <2> QED BY <1>1, <1>4, <2>1 DEF AnswerWithoutTargets, situation
<1>5. CASE ResolveScope
  BY <1>5, ResolveScopeStep
<1>6. CASE Answer
  BY <1>6, AnswerStep
<1>7. CASE \E t \in DOMAIN worker : Work(t)
  BY <1>7, WorkStep
<1> QED BY <1>2, <1>3, <1>4, <1>5, <1>6, <1>7 DEF Next

-----------------------------------------------------------------------------
(* The services a confident scope leaves out are none.                      *)
LEMMA ConfidentScopeIsWhole ==
  ASSUME SituationInv, scope = Scope(Len(services)), scope.phase = "found", scope.confidence = "high",
         ~(request.name # NoName /\ request.maxServices = 1)
  PROVE  scope.targets = Matches(Len(services))
<1> DEFINE asked == Matches(Len(services))
           chosen == First(asked, request.maxServices)
<1>1. Len(services) \in Nat /\ request.maxServices \in Nat
  BY RequestsAssumption DEF SituationInv
<1>2. asked \subseteq 1..Len(services)
  BY DEF Matches
<1>3. scope.targets = chosen /\ chosen # {}
      /\ ~(IF request.name # NoName THEN Cardinality(chosen) > 1 ELSE Cardinality(chosen) = request.maxServices)
  <2> HIDE DEF chosen
  <2> QED BY DEF Scope, chosen
<1> HIDE DEF asked
<1>4. IsFiniteSet(chosen) /\ (chosen = asked \/ Cardinality(chosen) = request.maxServices)
  BY <1>1, <1>2, FirstTakesAllOrN
<1> HIDE DEF chosen
<1>5. Cardinality(chosen) # 0
  BY <1>3, <1>4, FS_EmptySet
<1>6. chosen = asked
  BY <1>1, <1>3, <1>4, <1>5
<1> QED BY <1>3, <1>6 DEF asked

(* "Healthy" without reserve: all the services that the request asks for    *)
(* were collected whole and show no symptoms (engine.go:132).               *)
THEOREM HealthyCorrect == Spec => []HealthyIsEarned
<1>1. IInv /\ [Next]_vars => IInv'
  BY NextInv
<1>2. IInv => HealthyIsEarned
  <2> SUFFICES ASSUME IInv, answer.status = "healthy", scope.confidence = "high", ~PassedOver,
                      NEW t \in Matches(Len(services))
               PROVE  Symptoms(services[t].signals) = "healthy"
    BY DEF HealthyIsEarned
  <2>1. /\ scope.phase = "found" /\ \A u \in DOMAIN worker : worker[u] = "sent"
        /\ answer.status = Verdict
    BY DEF IInv, AnswerInv, Unanswered
  <2>2. Worst = "healthy" /\ \A u \in DOMAIN data : ~Gaps(u)
    BY <2>1 DEF Verdict
  <2>3. scope = Scope(Len(services))
    BY <2>1 DEF IInv, ScopeInv, PassedOver
  <2>4. scope.targets = Matches(Len(services))
    BY <2>1, <2>3, ConfidentScopeIsWhole DEF IInv, PassedOver
  <2>5. t \in DOMAIN data /\ t \in DOMAIN worker
    BY <2>4 DEF IInv, ScopeInv
  <2>6. data[t].collected /\ data[t].lost = {} /\ data[t].cut = {}
    BY <2>1, <2>2, <2>5 DEF IInv, TargetInv, Gaps, PassedOver
  <2>7. Symptoms(Collected(t)) \notin {"critical", "degraded"}
    BY <2>2, <2>5 DEF Worst
  <2>8. Collected(t) \subseteq services[t].signals /\ services[t].signals \cap Collected(t) = Collected(t)
        /\ \A s \in services[t].signals : s \in Collected(t)
    BY <2>6 DEF Collected, Seen
  <2> QED BY <2>7, <2>8 DEF Symptoms
<1> QED BY InitInv, <1>1, <1>2, PTL DEF Spec

(* No failed call makes a dependency the cause of an incident.              *)
THEOREM BlameCorrect == Spec => []BlameIsEarned
<1>1. IInv /\ [Next]_vars => IInv'
  BY NextInv
<1>2. IInv => BlameIsEarned
  <2> SUFFICES ASSUME IInv, NEW cause \in answer.causes, cause.code = "dependency_failure"
               PROVE  InTrouble(cause.service)
    BY DEF BlameIsEarned, InTrouble
  <2>1. cause \in rankRootCauses(Evidence, request.limit)
    BY DEF IInv, AnswerInv, Unanswered
  <2>2. PICK d \in Evidence : d.service = cause.service /\ d.blamed # 0
    BY <2>1, RankedWereBlamed
  <2>3. PICK t \in DOMAIN data : d = [service |-> t, seen |-> Collected(t), blamed |-> data[t].blamed]
    BY DEF Evidence
  <2>4. TargetInv(t)
    BY DEF IInv, ScopeInv
  <2> QED BY <2>2, <2>3, <2>4 DEF TargetInv
<1> QED BY InitInv, <1>1, <1>2, PTL DEF Spec
=============================================================================
