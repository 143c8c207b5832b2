----------------------------- MODULE GatewayProofs -----------------------------
(***************************************************************************)
(* The sessions of Gateway for any callers, settings and bounds: they do    *)
(* what PrivateSessions promises, and turn no owner away; and what its       *)
(* answers can show.                                                        *)
(***************************************************************************)
EXTENDS Gateway, FiniteSetTheorems, TLAPS

(* A process number; serial numbers below the next one; ids of this process *)
(* signed for the identity that opened their stream; and a request that     *)
(* knows its stream from when it was taken up until it is answered.         *)
KeyInv == key \in 1..MaxKey

IssuedInv ==
  /\ IsFiniteSet(issued)
  /\ \A s \in issued : s.nonce \in Nat /\ s.nonce < Cardinality(issued)

LiveInv ==
  /\ DOMAIN live \subseteq issued
  /\ \A s \in DOMAIN live :
       /\ s \in SessionIDs
       /\ s.signature = signature(sessionBindingIdentity(live[s]), s.nonce)

Formed(r) ==
  r = [phase |-> r.phase, session |-> r.session, own |-> r.own, projects |-> r.projects, names |-> r.names]

RequestInv ==
  /\ request = [c \in Callers |-> request[c]]
  /\ \A c \in Callers :
       /\ Formed(request[c])
       /\ \/ request[c].phase \in {"idle", "refused"} /\ request[c].session = NoSession
          \/ request[c].phase \in {"posted", "calling", "replying"} /\ request[c].session # NoSession
       /\ request[c].own => request[c].phase # "refused"

IInv == KeyInv /\ IssuedInv /\ LiveInv /\ RequestInv

-----------------------------------------------------------------------------
(* The abstract state, and what a step that leaves it alone preserves.      *)
Who     == [c \in Callers |-> sessionBindingIdentity(c)]
Owner   == [s \in DOMAIN live |-> sessionBindingIdentity(live[s])]
Waiting == [c \in Callers |-> request[c].session]

LEMMA InitInv == ASSUME Init PROVE IInv
<1>1. KeyInv
  BY BoundsAssumption DEF Init, KeyInv
<1>2. IssuedInv /\ LiveInv
  BY FS_EmptySet DEF Init, IssuedInv, LiveInv
<1>3. RequestInv
  BY DEF Init, RequestInv, Formed, Idle
<1> QED BY <1>1, <1>2, <1>3 DEF IInv

LEMMA InitMaps == ASSUME Init PROVE Private!Init
BY DEF Init, Private!Init, Idle

(* Identities do not change while a process runs.                           *)
LEMMA SameIdentity ==
  ASSUME UNCHANGED <<settings, key>>
  PROVE  /\ \A c : sessionBindingIdentity(c)' = sessionBindingIdentity(c)
         /\ \A i, n : signature(i, n)' = signature(i, n)
BY DEF sessionBindingIdentity, signature

(* A request that goes on keeps its session, and one that ends drops it.    *)
LEMMA BecomeInv ==
  ASSUME IInv, NEW c \in Callers, NEW r, Become(c, r), Formed(r),
         \/ r.phase \in {"idle", "refused"} /\ r.session = NoSession
         \/ r.phase \in {"posted", "calling", "replying"} /\ r.session # NoSession,
         r.own => r.phase # "refused"
  PROVE  /\ IInv'
         /\ UNCHANGED Who /\ UNCHANGED Owner
         /\ Waiting' = [Waiting EXCEPT ![c] = r.session]
<1>1. request' = [request EXCEPT ![c] = r] /\ UNCHANGED <<settings, key, issued, live>>
  BY DEF Become
<1>2. /\ request' = [d \in Callers |-> request'[d]]
      /\ request'[c] = r
      /\ \A d \in Callers \ {c} : request'[d] = request[d]
  BY <1>1 DEF IInv, RequestInv
<1>3. RequestInv'
  <2> SUFFICES ASSUME NEW d \in Callers
               PROVE  /\ Formed(request'[d])
                      /\ \/ request'[d].phase \in {"idle", "refused"} /\ request'[d].session = NoSession
                         \/ /\ request'[d].phase \in {"posted", "calling", "replying"}
                            /\ request'[d].session # NoSession
                      /\ request'[d].own => request'[d].phase # "refused"
    BY <1>2 DEF RequestInv, Formed
  <2>1. CASE d = c
    BY <2>1, <1>2
  <2>2. CASE d # c
    BY <2>2, <1>2 DEF IInv, RequestInv
  <2> QED BY <2>1, <2>2
<1>4. KeyInv' /\ IssuedInv' /\ LiveInv'
  BY <1>1, SameIdentity DEF IInv, KeyInv, IssuedInv, LiveInv
<1>5. UNCHANGED Who /\ UNCHANGED Owner
  BY <1>1, SameIdentity DEF Who, Owner
<1>6. Waiting' = [Waiting EXCEPT ![c] = r.session]
  BY <1>2 DEF Waiting
<1> QED BY <1>3, <1>4, <1>5, <1>6 DEF IInv

(* The same for a request that only changes its phase and what it says.     *)
LEMMA GoesOnInv ==
  ASSUME IInv, NEW c \in Callers, NEW r, Become(c, r), Formed(r),
         request[c].phase \in {"posted", "calling"},
         r.phase \in {"calling", "replying"}, r.session = request[c].session
  PROVE  IInv' /\ UNCHANGED Who /\ UNCHANGED Owner /\ UNCHANGED Waiting
<1>1. r.session # NoSession
  BY DEF IInv, RequestInv
<1>2. IInv' /\ UNCHANGED Who /\ UNCHANGED Owner /\ Waiting' = [Waiting EXCEPT ![c] = r.session]
  BY <1>1, BecomeInv
<1>3. UNCHANGED Waiting
  BY <1>2 DEF Waiting
<1> QED BY <1>2, <1>3

-----------------------------------------------------------------------------
(* A new id is none of the old ones, and bears the identity that opened it. *)
LEMMA OpenStep ==
  ASSUME IInv, NEW c \in Callers, Open(c)
  PROVE  IInv' /\ Private!Open(c)
<1> DEFINE id == NewSessionID(c)
<1>1. /\ Cardinality(issued) < MaxSessions
      /\ issued' = issued \cup {id}
      /\ live' = [s \in DOMAIN live \cup {id} |-> IF s \in DOMAIN live THEN live[s] ELSE c]
      /\ UNCHANGED <<settings, key, request>>
  BY DEF Open
<1>2. id.nonce = Cardinality(issued) /\ id.signature = signature(sessionBindingIdentity(c), id.nonce)
  BY DEF NewSessionID
<1>3. Cardinality(issued) \in Nat /\ IsFiniteSet(issued)
  BY FS_CardinalityType DEF IInv, IssuedInv
<1>4. id \notin issued
  BY <1>2, <1>3 DEF IInv, IssuedInv
<1>5. id \notin DOMAIN live
  BY <1>4 DEF IInv, LiveInv
<1>6. id \in SessionIDs
  <2>1. Cardinality(issued) \in 0..MaxSessions - 1
    BY <1>1, <1>3, BoundsAssumption
  <2>2. sessionBindingIdentity(c) \in Callers \cup {NoIdentity}
    BY DEF sessionBindingIdentity
  <2>3. key \in 1..MaxKey
    BY DEF IInv, KeyInv
  <2> QED BY <2>1, <2>2, <2>3 DEF NewSessionID, signature, SessionIDs
<1>7. KeyInv' /\ RequestInv'
  BY <1>1 DEF IInv, KeyInv, RequestInv, Formed
<1>8. IssuedInv'
  <2>1. IsFiniteSet(issued') /\ Cardinality(issued') = Cardinality(issued) + 1
    BY <1>1, <1>3, <1>4, FS_AddElement
  <2> HIDE DEF id
  <2> QED BY <1>1, <1>2, <1>3, <2>1 DEF IInv, IssuedInv
<1>9. LiveInv'
  <2> HIDE DEF id
  <2>1. DOMAIN live' = DOMAIN live \cup {id} /\ live'[id] = c
        /\ \A s \in DOMAIN live : live'[s] = live[s]
    BY <1>1, <1>5
  <2>2. \A d, n : signature(sessionBindingIdentity(d), n)' = signature(sessionBindingIdentity(d), n)
    BY <1>1 DEF signature, sessionBindingIdentity
  <2>3. ASSUME NEW s \in DOMAIN live'
        PROVE  s \in SessionIDs /\ s.signature = signature(sessionBindingIdentity(live[s]), s.nonce)'
    <3>1. CASE s = id
      BY <3>1, <1>2, <1>6, <2>1, <2>2
    <3>2. CASE s # id
      BY <3>2, <2>1, <2>2 DEF IInv, LiveInv
    <3> QED BY <3>1, <3>2
  <2> QED BY <1>1, <2>1, <2>3 DEF IInv, LiveInv
<1>10. Private!Open(c)
  <2> HIDE DEF id
  <2>1. Owner' = [t \in DOMAIN Owner \cup {id} |-> IF t = id THEN Who[c] ELSE Owner[t]]
    <3>1. \A d : sessionBindingIdentity(d)' = sessionBindingIdentity(d)
      BY <1>1, SameIdentity
    <3> QED BY <1>1, <1>5, <3>1 DEF Owner, Who
  <2>2. id \in SessionIDs \ DOMAIN Owner
    BY <1>5, <1>6 DEF Owner
  <2>3. UNCHANGED Who /\ UNCHANGED Waiting
    BY <1>1, SameIdentity DEF Who, Waiting
  <2> QED BY <2>1, <2>2, <2>3 DEF Private!Open, Who, Owner, Waiting
<1> QED BY <1>7, <1>8, <1>9, <1>10 DEF IInv

LEMMA CloseStep ==
  ASSUME IInv, NEW s \in DOMAIN live, Close(s)
  PROVE  IInv' /\ Private!Close
<1>1. /\ live' = [t \in DOMAIN live \ {s} |-> live[t]]
      /\ UNCHANGED <<settings, key, issued, request>>
  BY DEF Close
<1>2. KeyInv' /\ IssuedInv' /\ RequestInv'
  BY <1>1 DEF IInv, KeyInv, IssuedInv, RequestInv, Formed
<1>3. LiveInv'
  BY <1>1, SameIdentity DEF IInv, LiveInv
<1>4. Owner' = [t \in DOMAIN Owner \ {s} |-> Owner[t]]
  BY <1>1, SameIdentity DEF Owner
<1>5. UNCHANGED Who /\ UNCHANGED Waiting
  BY <1>1, SameIdentity DEF Who, Waiting
<1>6. Private!Close
  <2>1. s \in DOMAIN Owner
    BY DEF Owner
  <2> QED BY <2>1, <1>4, <1>5 DEF Private!Close, Who, Owner, Waiting
<1> QED BY <1>2, <1>3, <1>6 DEF IInv

LEMMA RestartStep ==
  ASSUME IInv, Restart
  PROVE  IInv' /\ Private!Restart
<1>1. KeyInv'
  BY BoundsAssumption DEF Restart, IInv, KeyInv
<1>2. IssuedInv' /\ LiveInv'
  BY DEF Restart, IInv, IssuedInv, LiveInv
<1>3. RequestInv'
  BY DEF Restart, RequestInv, Formed, Idle
<1>4. Private!Restart
  BY DEF Restart, Private!Restart, Idle
<1> QED BY <1>1, <1>2, <1>3, <1>4 DEF IInv

(* A request is taken up: the id it presents is open here and signed for    *)
(* the caller's identity, and so it is for the one that opened it.          *)
LEMMA PostStep ==
  ASSUME IInv, NEW c \in Callers, NEW session \in issued, NEW tokenIsValid \in BOOLEAN,
         Post(c, session, tokenIsValid)
  PROVE  IInv' /\ (Private!Ask(c) \/ UNCHANGED Private!vars)
<1> DEFINE own      == session \in DOMAIN live /\ live[session] = c /\ Authenticated(c, tokenIsValid)
           accepted == Authenticated(c, tokenIsValid) /\ Authorize(c, session) /\ session \in DOMAIN live
           r == [phase |-> IF accepted THEN "posted" ELSE "refused",
                 session |-> IF accepted THEN session ELSE NoSession,
                 own |-> own, projects |-> {}, names |-> {}]
<1>1. request[c].phase = "idle" /\ Become(c, r)
  BY DEF Post
<1>2. /\ r.phase = IF accepted THEN "posted" ELSE "refused"
      /\ r.session = IF accepted THEN session ELSE NoSession
      /\ r.own = own /\ Formed(r)
  <2> DEFINE p == IF accepted THEN "posted" ELSE "refused"
             q == IF accepted THEN session ELSE NoSession
  <2> HIDE DEF own, accepted, p, q
  <2>2. r = [phase |-> p, session |-> q, own |-> own, projects |-> {}, names |-> {}]
    BY DEF p, q
  <2> HIDE DEF r
  <2>3. r.phase = p /\ r.session = q /\ r.own = own /\ Formed(r)
    BY <2>2 DEF Formed
  <2> QED BY <2>3 DEF p, q
<1>3. own => accepted
  BY DEF Authorize, IInv, LiveInv
<1>4. accepted => session \in SessionIDs /\ Owner[session] = Who[c] /\ session \in DOMAIN Owner
  BY DEF Authorize, signature, IInv, LiveInv, Owner, Who
<1>5. Waiting[c] = NoSession
  BY <1>1 DEF IInv, RequestInv, Waiting
<1> HIDE DEF own, accepted, r
<1>6. /\ IInv' /\ UNCHANGED Who /\ UNCHANGED Owner
      /\ Waiting' = [Waiting EXCEPT ![c] = r.session]
  <2>1. \/ r.phase \in {"idle", "refused"} /\ r.session = NoSession
        \/ r.phase \in {"posted", "calling", "replying"} /\ r.session # NoSession
    BY <1>2, <1>4, NoSessionAssumption
  <2>2. r.own => r.phase # "refused"
    BY <1>2, <1>3
  <2> QED BY <1>1, <1>2, <2>1, <2>2, BecomeInv
<1>7. CASE accepted
  BY <1>7, <1>2, <1>4, <1>5, <1>6 DEF Private!Ask, Who, Owner, Waiting
<1>8. CASE ~accepted
  <2>1. UNCHANGED Waiting
    BY <1>8, <1>2, <1>5, <1>6 DEF Waiting
  <2> QED BY <2>1, <1>6 DEF Private!vars, Who, Owner, Waiting
<1> QED BY <1>6, <1>7, <1>8

-----------------------------------------------------------------------------
(* Whatever a request meets on its way, it stays on its session; it leaves  *)
(* it when it is answered.                                                  *)
LEMMA GoOnStep ==
  ASSUME IInv, NEW c \in Callers, NEW phase \in {"calling", "replying"}, NEW projects, NEW names,
         GoOn(c, phase, projects, names), request[c].phase \in {"posted", "calling"}
  PROVE  IInv' /\ UNCHANGED Private!vars
<1> DEFINE r == [phase |-> phase, session |-> request[c].session, own |-> request[c].own,
                 projects |-> projects, names |-> names]
<1>1. Become(c, r)
  BY DEF GoOn
<1>2. Formed(r) /\ r.phase = phase /\ r.session = request[c].session
  BY DEF Formed
<1> HIDE DEF r
<1> QED BY <1>1, <1>2, GoesOnInv DEF Private!vars, Who, Owner, Waiting

LEMMA ReplyStep ==
  ASSUME IInv, NEW c \in Callers, NEW names, Reply(c, names), request[c].phase \in {"posted", "calling"}
  PROVE  IInv' /\ UNCHANGED Private!vars
BY GoOnStep DEF Reply

LEMMA CallStep ==
  ASSUME IInv, NEW c \in Callers, NEW projects, Call(c, projects), request[c].phase = "posted"
  PROVE  IInv' /\ UNCHANGED Private!vars
BY GoOnStep DEF Call

LEMMA IdleStep ==
  ASSUME IInv, NEW c \in Callers, Become(c, Idle)
  PROVE  /\ IInv'
         /\ request[c].phase = "replying" => Private!Done(c)
         /\ request[c].phase = "refused" => UNCHANGED Private!vars
<1>1. Formed(Idle) /\ Idle.phase = "idle" /\ Idle.session = NoSession
  BY DEF Idle, Formed
<1>2. /\ IInv' /\ UNCHANGED Who /\ UNCHANGED Owner
      /\ Waiting' = [Waiting EXCEPT ![c] = NoSession]
  BY <1>1, BecomeInv
<1>3. ASSUME request[c].phase = "replying" PROVE Private!Done(c)
  <2>1. Waiting[c] # NoSession
    BY <1>3 DEF IInv, RequestInv, Waiting
  <2> QED BY <2>1, <1>2 DEF Private!Done, Who, Owner, Waiting
<1>4. ASSUME request[c].phase = "refused" PROVE UNCHANGED Private!vars
  <2>1. Waiting[c] = NoSession
    BY <1>4 DEF IInv, RequestInv, Waiting
  <2>2. UNCHANGED Waiting
    BY <2>1, <1>2 DEF Waiting
  <2> QED BY <2>2, <1>2 DEF Private!vars, Who, Owner, Waiting
<1> QED BY <1>2, <1>3, <1>4

LEMMA ProceedStep ==
  ASSUME IInv, NEW c \in Callers, Proceed(c)
  PROVE  IInv' /\ (Private!Done(c) \/ UNCHANGED Private!vars)
<1>1. CASE Unavailable(c)
  BY <1>1, ReplyStep DEF Unavailable
<1>2. ASSUME NEW projects, NEW urn, CallTool(c, projects, urn)
      PROVE  IInv' /\ UNCHANGED Private!vars
  <2>1. /\ request[c].phase = "posted"
        /\ Reply(c, DisplayNames) \/ Reply(c, {}) \/ Call(c, projects)
    BY <1>2 DEF CallTool
  <2> QED BY <2>1, ReplyStep, CallStep
<1>3. ASSUME NEW projects, CallComparison(c, projects)
      PROVE  IInv' /\ UNCHANGED Private!vars
  <2>1. /\ request[c].phase = "posted"
        /\ Reply(c, DisplayNames) \/ Call(c, projects)
    BY <1>3 DEF CallComparison
  <2> QED BY <2>1, ReplyStep, CallStep
<1>4. CASE HandlerReturns(c)
  <2>1. PICK masked, ids : Reply(c, {[name |-> masked[id], of |-> id, offered |-> FALSE] : id \in ids})
    BY <1>4 DEF HandlerReturns
  <2>2. request[c].phase = "calling"
    BY <1>4 DEF HandlerReturns
  <2> QED BY <2>1, <2>2, ReplyStep
<1>5. CASE Withhold(c)
  BY <1>5, ReplyStep DEF Withhold
<1>6. CASE Deliver(c)
  BY <1>6, IdleStep DEF Deliver
<1>7. CASE Refused(c)
  BY <1>7, IdleStep DEF Refused
<1> QED BY <1>1, <1>2, <1>3, <1>4, <1>5, <1>6, <1>7 DEF Proceed

LEMMA NextStep ==
  ASSUME IInv, [Next]_vars
  PROVE  IInv' /\ [Private!Next]_(Private!vars)
<1>1. CASE UNCHANGED vars
  <2>1. UNCHANGED Private!vars
    BY <1>1, SameIdentity DEF vars, Private!vars
  <2>2. IInv'
    BY <1>1, SameIdentity DEF vars, IInv, KeyInv, IssuedInv, LiveInv, RequestInv, Formed
  <2> QED BY <2>1, <2>2
<1>2. ASSUME NEW c \in Callers, Open(c) PROVE IInv' /\ Private!Next
  BY <1>2, OpenStep DEF Private!Next
<1>3. ASSUME NEW c \in Callers, Proceed(c) PROVE IInv' /\ [Private!Next]_(Private!vars)
  BY <1>3, ProceedStep DEF Private!Next
<1>4. ASSUME NEW s \in DOMAIN live, Close(s) PROVE IInv' /\ Private!Next
  BY <1>4, CloseStep DEF Private!Next
<1>5. ASSUME NEW c \in Callers, NEW session \in issued, NEW tokenIsValid \in BOOLEAN,
             Post(c, session, tokenIsValid)
      PROVE  IInv' /\ [Private!Next]_(Private!vars)
  BY <1>5, PostStep DEF Private!Next
<1>6. CASE Restart
  BY <1>6, RestartStep DEF Private!Next
<1> QED BY <1>1, <1>2, <1>3, <1>4, <1>5, <1>6 DEF Next

(* The bound ids keep sessions private: through any interleaving of posts,  *)
(* handlers, closed streams and restarts, whatever ids callers present, a   *)
(* request runs only on an open stream of its own identity.                 *)
THEOREM GatewayKeepsSessionsPrivate == Spec => KeepsSessionsPrivate
<1>1. Init => IInv /\ Private!Init
  BY InitInv, InitMaps
<1>2. IInv /\ [Next]_vars => IInv' /\ [Private!Next]_(Private!vars)
  BY NextStep
<1> QED BY <1>1, <1>2, PTL DEF Spec, KeepsSessionsPrivate, Private!Spec

(* Nobody is turned away from the stream he opened, as long as his token is *)
(* good.                                                                    *)
THEOREM GatewayServesOwners == Spec => []OwnSessionServed
<1>1. Init => IInv
  BY InitInv
<1>2. IInv /\ [Next]_vars => IInv'
  BY NextStep
<1>3. IInv => OwnSessionServed
  BY DEF IInv, RequestInv, OwnSessionServed
<1> QED BY <1>1, <1>2, <1>3, PTL DEF Spec

-----------------------------------------------------------------------------
Listed(environments) ==
  Len(environments) \in Nat /\ DOMAIN environments = 1..Len(environments)

(* Of every configuration that NewRegistry accepts (registry.go:45-109),    *)
(* whatever its names: the name an environment is displayed by selects just *)
(* that environment, and is not its project ID if it has an alias.          *)
THEOREM DisplayNamesLeadBack ==
  ASSUME NEW input, Listed(input), Accepted(input), NEW i \in DOMAIN input
  PROVE  /\ Resolve(input, DisplayName(input[i])) = i
         /\ Aliased(input[i]) => DisplayName(input[i]) # input[i].projectID
<1>1. CASE Aliased(input[i])
  <2> DEFINE name == input[i].alias
  <2>1. DisplayName(input[i]) = name /\ name # Blank
    BY <1>1 DEF DisplayName, Aliased
  <2>2. ByAlias(input, name) = {i}
    BY <1>1 DEF ByAlias, Accepted, ValidAliases
  <2>3. (CHOOSE j \in {i} : TRUE) = i
    OBVIOUS
  <2>4. Resolve(input, name) = i
    BY <2>1, <2>2, <2>3 DEF Resolve
  <2>5. name # input[i].projectID
    BY <1>1 DEF Accepted, NoAliasIsAProject, EqualFold
  <2> QED BY <2>1, <2>4, <2>5
<1>2. CASE ~Aliased(input[i])
  <2> DEFINE name == input[i].projectID
  <2>1. DisplayName(input[i]) = name /\ name # Blank
    BY <1>2 DEF DisplayName, Accepted, ValidProjectIDs
  <2>2. ByAlias(input, name) = {}
    BY DEF ByAlias, Accepted, NoAliasIsAProject, EqualFold
  <2>3. ByProjectID(input, name) = {i}
    BY DEF ByProjectID, Accepted, ValidProjectIDs
  <2>4. (CHOOSE j \in {i} : TRUE) = i
    OBVIOUS
  <2>5. Resolve(input, name) = i
    BY <2>1, <2>2, <2>3, <2>4 DEF Resolve
  <2> QED BY <1>2, <2>1, <2>5
<1> QED BY <1>1, <1>2

(* What a selector resolves to is configured, or nothing.                   *)
LEMMA DefaultIsConfigured ==
  ASSUME NEW input, Listed(input), Accepted(input)
  PROVE  Default(input) \in DOMAIN input
<1>1. CASE Len(input) = 1
  BY <1>1 DEF Default, Listed
<1>2. CASE Len(input) # 1
  <2>1. \E i \in DOMAIN input : input[i].default
    BY <1>2 DEF Accepted, OneDefault
  <2> QED BY <1>2, <2>1 DEF Default
<1> QED BY <1>1, <1>2

LEMMA SelectorIsConfigured ==
  ASSUME NEW s \in Settings, Accepted(s.environments), NEW selector
  PROVE  /\ Selected(s, selector) \in {0} \cup DOMAIN s.environments
         /\ Compared(s, selector) \in {0} \cup DOMAIN s.environments
<1>1. Default(s.environments) \in DOMAIN s.environments
  BY SettingsAssumption, DefaultIsConfigured DEF Listed
<1>2. Resolve(s.environments, selector) \in {0} \cup DOMAIN s.environments
  <2>1. ASSUME ByAlias(s.environments, selector) # {}
        PROVE  (CHOOSE i \in ByAlias(s.environments, selector) : TRUE) \in DOMAIN s.environments
    BY <2>1 DEF ByAlias
  <2>2. ASSUME ByProjectID(s.environments, selector) # {}
        PROVE  (CHOOSE i \in ByProjectID(s.environments, selector) : TRUE) \in DOMAIN s.environments
    BY <2>2 DEF ByProjectID
  <2> QED BY <1>1, <2>1, <2>2 DEF Resolve
<1>3. Selected(s, selector) \in {0} \cup DOMAIN s.environments
  BY <1>1, <1>2 DEF Selected
<1> QED BY <1>3 DEF Compared

-----------------------------------------------------------------------------
(* A text that an answer shows is the display name of an environment of     *)
(* this process, offered for a choice, or an ID after the masking of this   *)
(* process.                                                                 *)
NameOf(text) ==
  \/ text \in DisplayNames
  \/ /\ ~text.offered /\ text.of \in ProjectIDs(settings)
     /\ \E masked \in Maskings[settings] : text.name = masked[text.of]

(* A request that was taken up was taken up by a process that serves, calls *)
(* handlers for configured projects, and is answered with such texts.       *)
NamesInv ==
  /\ settings \in Settings
  /\ \A c \in Callers :
       /\ request[c].phase # "idle" => Serving
       /\ request[c].phase = "calling" => request[c].projects \subseteq DOMAIN registry
       /\ \A text \in request[c].names : NameOf(text)
  /\ shown # {} => Serving
  /\ \A text \in shown : NameOf(text)

LEMMA SameNames ==
  ASSUME UNCHANGED settings
  PROVE  /\ Serving' = Serving /\ registry' = registry
         /\ \A text : NameOf(text)' = NameOf(text)
BY DEF Serving, registry, NameOf, DisplayNames

LEMMA InitNames == ASSUME Init PROVE NamesInv
BY DEF Init, NamesInv, Idle

LEMMA RestartNames == ASSUME Restart PROVE NamesInv'
BY DEF Restart, NamesInv, Idle

(* One request changes.                                                     *)
LEMMA BecomeNames ==
  ASSUME IInv, NamesInv, NEW c \in Callers, NEW r, Become(c, r), UNCHANGED shown,
         r.phase # "idle" => Serving,
         r.phase = "calling" => r.projects \subseteq DOMAIN registry,
         \A text \in r.names : NameOf(text)
  PROVE  NamesInv'
<1>1. request' = [request EXCEPT ![c] = r] /\ UNCHANGED settings
  BY DEF Become
<1>2. request'[c] = r /\ \A d \in Callers \ {c} : request'[d] = request[d]
  BY <1>1 DEF IInv, RequestInv
<1>3. ASSUME NEW d \in Callers
      PROVE  /\ request'[d].phase # "idle" => Serving'
             /\ request'[d].phase = "calling" => request'[d].projects \subseteq DOMAIN registry'
             /\ \A text \in request'[d].names : NameOf(text)'
  <2>1. CASE d = c
    BY <1>1, <1>2, <2>1, SameNames
  <2>2. CASE d # c
    BY <1>1, <1>2, <2>2, SameNames DEF NamesInv
  <2> QED BY <2>1, <2>2
<1> QED BY <1>1, <1>3, SameNames DEF NamesInv

LEMMA GoOnNames ==
  ASSUME IInv, NamesInv, NEW c \in Callers, request[c].phase # "idle", UNCHANGED shown,
         NEW phase, NEW projects, NEW names, GoOn(c, phase, projects, names),
         phase = "calling" => projects \subseteq DOMAIN registry,
         \A text \in names : NameOf(text)
  PROVE  NamesInv'
<1> DEFINE r == [phase |-> phase, session |-> request[c].session, own |-> request[c].own,
                 projects |-> projects, names |-> names]
<1>1. Become(c, r)
  BY DEF GoOn
<1>2. r.phase = phase /\ r.projects = projects /\ r.names = names
  OBVIOUS
<1>3. Serving
  BY DEF NamesInv
<1> HIDE DEF r
<1> QED BY <1>1, <1>2, <1>3, BecomeNames

LEMMA ReplyNames ==
  ASSUME IInv, NamesInv, NEW c \in Callers, request[c].phase # "idle",
         NEW names, Reply(c, names), \A text \in names : NameOf(text)
  PROVE  NamesInv'
BY GoOnNames DEF Reply

LEMMA CallNames ==
  ASSUME IInv, NamesInv, NEW c \in Callers, request[c].phase # "idle",
         NEW projects, Call(c, projects), projects \subseteq DOMAIN registry
  PROVE  NamesInv'
<1>1. \A text \in request[c].names : NameOf(text)
  BY DEF NamesInv
<1> QED BY <1>1, GoOnNames DEF Call

(* The names to choose from.                                                *)
LEMMA ChoicesAreNames ==
  \A text \in DisplayNames : NameOf(text)
BY DEF NameOf

(* What selectors select and what does not fail lies in the registry.       *)
LEMMA SelectionsAreConfigured ==
  ASSUME NamesInv, NEW c \in Callers, request[c].phase # "idle",
         NEW projects \in Selections[settings] \cup Comparisons[settings], 0 \notin projects
  PROVE  projects \subseteq DOMAIN registry
<1>1. settings \in Settings /\ Accepted(settings.environments)
  BY DEF NamesInv, Serving
<1>2. \E a, b : projects = {Selected(settings, a), Selected(settings, b)}
             \/ projects = {Compared(settings, a), Compared(settings, b)}
  BY <1>1 DEF Selections, Comparisons
<1> QED BY <1>1, <1>2, SelectorIsConfigured DEF registry

LEMMA PostNames ==
  ASSUME IInv, NamesInv, NEW c \in Callers, NEW session, NEW tokenIsValid, Post(c, session, tokenIsValid)
  PROVE  NamesInv'
<1>1. PICK phase, own, on :
        Become(c, [phase |-> phase, session |-> on, own |-> own, projects |-> {}, names |-> {}])
        /\ phase \in {"posted", "refused"}
  BY Zenon DEF Post
<1> DEFINE r == [phase |-> phase, session |-> on, own |-> own, projects |-> {}, names |-> {}]
<1>2. r.phase = phase /\ r.projects = {} /\ r.names = {} /\ Become(c, r)
  BY <1>1
<1>3. Serving /\ UNCHANGED shown
  BY DEF Post
<1> HIDE DEF r
<1> QED BY <1>1, <1>2, <1>3, BecomeNames

LEMMA IdleNames ==
  ASSUME IInv, NamesInv, NEW c \in Callers, Become(c, Idle), UNCHANGED shown
  PROVE  NamesInv'
<1>1. Idle.phase = "idle" /\ Idle.names = {}
  BY DEF Idle
<1> QED BY <1>1, BecomeNames

(* An answer shows what its request was answered with, or nothing.          *)
LEMMA DeliverNames ==
  ASSUME IInv, NamesInv, NEW c \in Callers, Deliver(c)
  PROVE  NamesInv'
<1>1. /\ request[c].phase = "replying" /\ request' = [request EXCEPT ![c] = Idle]
      /\ UNCHANGED settings /\ shown' \in {request[c].names, {}}
  BY DEF Deliver, Become
<1>2. Idle.phase = "idle" /\ Idle.names = {}
  BY DEF Idle
<1> HIDE DEF Idle
<1>3. request'[c] = Idle /\ \A d \in Callers \ {c} : request'[d] = request[d]
  BY <1>1 DEF IInv, RequestInv
<1>4. ASSUME NEW d \in Callers
      PROVE  /\ request'[d].phase # "idle" => Serving'
             /\ request'[d].phase = "calling" => request'[d].projects \subseteq DOMAIN registry'
             /\ \A text \in request'[d].names : NameOf(text)'
  <2>1. CASE d = c
    BY <1>2, <1>3, <2>1
  <2>2. CASE d # c
    BY <1>1, <1>3, <2>2, SameNames DEF NamesInv
  <2> QED BY <2>1, <2>2
<1>5. Serving' /\ \A text \in shown' : NameOf(text)'
  BY <1>1, SameNames DEF NamesInv
<1> QED BY <1>1, <1>4, <1>5, SameNames DEF NamesInv

LEMMA ProceedNames ==
  ASSUME IInv, NamesInv, NEW c \in Callers, Proceed(c)
  PROVE  NamesInv'
<1>1. CASE Unavailable(c)
  BY <1>1, ReplyNames DEF Unavailable
<1>2. ASSUME NEW projects \in Selections[settings], NEW urn, CallTool(c, projects, urn)
      PROVE  NamesInv'
  <2>1. /\ request[c].phase = "posted"
        /\ \/ Reply(c, DisplayNames) \/ Reply(c, {})
           \/ 0 \notin projects /\ Call(c, projects)
    BY <1>2 DEF CallTool
  <2> QED BY <2>1, ReplyNames, ChoicesAreNames, CallNames, SelectionsAreConfigured
<1>3. ASSUME NEW projects \in Comparisons[settings], CallComparison(c, projects)
      PROVE  NamesInv'
  <2>1. /\ request[c].phase = "posted"
        /\ Reply(c, DisplayNames) \/ (0 \notin projects /\ Call(c, projects))
    BY <1>3 DEF CallComparison
  <2> QED BY <2>1, ReplyNames, ChoicesAreNames, CallNames, SelectionsAreConfigured
<1>4. CASE HandlerReturns(c)
  <2>1. PICK masked \in Maskings[settings], ids \in Named(c) :
          Reply(c, {[name |-> masked[id], of |-> id, offered |-> FALSE] : id \in ids})
    BY <1>4 DEF HandlerReturns, MaskedErrors
  <2>2. request[c].phase = "calling"
    BY <1>4 DEF HandlerReturns
  <2>a. ids \subseteq ProjectIDs(settings)
    BY <2>2 DEF Named, NamesInv, ProjectIDs, registry
  <2>3. \A text \in {[name |-> masked[id], of |-> id, offered |-> FALSE] : id \in ids} : NameOf(text)
    BY <2>a DEF NameOf
  <2> QED BY <2>1, <2>2, <2>3, ReplyNames
<1>5. CASE Withhold(c)
  BY <1>5, ReplyNames DEF Withhold
<1>6. CASE Deliver(c)
  BY <1>6, DeliverNames
<1>7. CASE Refused(c)
  BY <1>7, IdleNames DEF Refused
<1> QED BY <1>1, <1>2, <1>3, <1>4, <1>5, <1>6, <1>7 DEF Proceed

LEMMA NextNames ==
  ASSUME IInv, NamesInv, [Next]_vars
  PROVE  NamesInv'
<1>1. ASSUME UNCHANGED <<settings, request, shown>> PROVE NamesInv'
  BY <1>1, SameNames DEF NamesInv
<1>2. CASE UNCHANGED vars
  BY <1>1, <1>2 DEF vars
<1>3. ASSUME NEW c \in Callers, Open(c) PROVE NamesInv'
  BY <1>1, <1>3 DEF Open
<1>4. ASSUME NEW s \in DOMAIN live, Close(s) PROVE NamesInv'
  BY <1>1, <1>4 DEF Close
<1> QED BY <1>2, <1>3, <1>4, PostNames, ProceedNames, RestartNames DEF Next

(* Selects the environment it was offered for, and is not the ID of one     *)
(* that has an alias.                                                       *)
LeadsBack(text) ==
  \E i \in DOMAIN registry :
    /\ Resolve(registry, text.name) = i /\ registry[i].projectID = text.of
    /\ Aliased(registry[i]) => text.name # text.of

(* Whatever callers send and however the process restarts with other        *)
(* settings: a name that an answer offers for a choice selects just the     *)
(* environment it stands for, among those of the process that answers, and  *)
(* hides the ID of one with an alias; every other name, of a result or of   *)
(* an error, went through the masking of this very process, never of        *)
(* settings before (server.go:236-247, 500-504, registry.go:127-161).       *)
THEOREM GatewayMasksNames ==
  Spec => [](\A text \in shown :
               IF text.offered THEN LeadsBack(text)
               ELSE \E masked \in Maskings[settings] : text.name = masked[text.of])
<1>1. Init => IInv /\ NamesInv
  BY InitInv, InitNames
<1>2. IInv /\ NamesInv /\ [Next]_vars => IInv' /\ NamesInv'
  BY NextStep, NextNames
<1> DEFINE Shown == \A text \in shown :
             IF text.offered THEN LeadsBack(text)
             ELSE \E masked \in Maskings[settings] : text.name = masked[text.of]
<1>3. NamesInv => Shown
  <2> SUFFICES ASSUME NamesInv, NEW text \in shown
               PROVE  IF text.offered THEN LeadsBack(text)
                      ELSE \E masked \in Maskings[settings] : text.name = masked[text.of]
    OBVIOUS
  <2>1. Listed(registry) /\ Accepted(registry) /\ NameOf(text)
    BY SettingsAssumption DEF NamesInv, Serving, Listed, registry
  <2>2. CASE text \in DisplayNames
    <3>1. PICK i \in DOMAIN registry :
            text = [name |-> DisplayName(registry[i]), of |-> registry[i].projectID, offered |-> TRUE]
      BY <2>2 DEF DisplayNames
    <3>2. /\ Resolve(registry, DisplayName(registry[i])) = i
          /\ Aliased(registry[i]) => DisplayName(registry[i]) # registry[i].projectID
      BY <2>1, DisplayNamesLeadBack
    <3> QED BY <3>1, <3>2 DEF LeadsBack
  <2>3. CASE text \notin DisplayNames
    BY <2>1, <2>3 DEF NameOf
  <2> QED BY <2>2, <2>3
<1> QED BY <1>1, <1>2, <1>3, PTL DEF Spec
=============================================================================
