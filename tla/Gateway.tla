-------------------------------- MODULE Gateway --------------------------------
(***************************************************************************)
(* From an HTTP request to its answer on a session's stream: bearer token   *)
(* and session id (cmd/aura-tracker-gcp/auth.go), the guard before dispatch *)
(* (mcp/protocol_guard.go), the selectors of environments and the masking   *)
(* of project IDs around every handler (mcp/server.go). The streams         *)
(* themselves are mcp-go's. A request runs while others do, while its       *)
(* stream is closed, and into a restart with other settings.                *)
(***************************************************************************)
EXTENDS Environments, FiniteSets

S == INSTANCE SequencesExt

CONSTANTS
  Callers,     \* principals; each has its own subject and its own verified e-mail
  Settings,    \* what the process may be started with
  Selectors,   \* the names a request may select environments by
  Placeholder, \* the selector that stands for a masked project without alias
  HiddenID,    \* what such a project's ID is shown as
  CostID,      \* what the ID of a project of the billing exports is shown as
  NotString,   \* an argument that is not a string
  NoSession, NoIdentity,
  MaxKey,      \* bound: processes
  MaxSessions  \* bound: sessions opened in all

VARIABLES
  settings,  \* [mode, loopback, allowed, allowAny, environments, mask, costProjects]
  key,       \* sseSessionBinding.key, new in each process
  issued,    \* every session id ever handed out
  live,      \* the open streams: session id -> who opened it
  request,   \* caller -> what became of its request
  shown      \* the names the last answer showed: [name, of, offered]

vars == <<settings, key, issued, live, request, shown>>

ASSUME BoundsAssumption == MaxKey \in Nat \ {0} /\ MaxSessions \in Nat

(* What a session id can be; no session is none of them.                    *)
SessionIDs ==
  [nonce : 0..MaxSessions - 1,
   signature : (1..MaxKey) \X (Callers \cup {NoIdentity}) \X (0..MaxSessions - 1)]
ASSUME NoSessionAssumption == NoSession \notin SessionIDs
ASSUME SettingsAssumption ==
  \A s \in Settings : /\ Len(s.environments) \in Nat
                      /\ DOMAIN s.environments = 1..Len(s.environments)

(* loadSSEAuthConfig, as far as it decides who may call.                    *)
loadSSEAuthConfig(s) ==
  /\ s.mode = "disabled" => s.loopback
  /\ (s.mode = "required" /\ ~s.loopback) => (s.allowed # {} \/ s.allowAny)

Serving  == Accepted(settings.environments) /\ loadSSEAuthConfig(settings)
registry == settings.environments

Idle == [phase |-> "idle", session |-> NoSession, own |-> FALSE, projects |-> {}, names |-> {}]

Init ==
  /\ settings \in Settings
  /\ key = 1
  /\ issued = {}
  /\ live = [s \in {} |-> s]
  /\ request = [c \in Callers |-> Idle]
  /\ shown = {}

-----------------------------------------------------------------------------
(* authenticatedMCPHandler: without authentication nobody is told apart.    *)
Authenticated(c, tokenIsValid) ==
  \/ settings.mode = "disabled"
  \/ tokenIsValid /\ (settings.allowed = {} \/ c \in settings.allowed)

sessionBindingIdentity(c) == IF settings.mode = "disabled" THEN NoIdentity ELSE c

(* Mutant of signature: the identity is left out of what is signed.         *)
signatureOfNonce(identity, nonce) == <<key, NoIdentity, nonce>>

signature(identity, nonce) == <<key, identity, nonce>>

(* Mutant of NewSessionID: the id is made before the caller is known.       *)
NewSessionIDOfNobody(c) ==
  LET nonce == Cardinality(issued)
  IN  [nonce |-> nonce, signature |-> signature(NoIdentity, nonce)]

NewSessionID(c) ==
  LET nonce == Cardinality(issued)
  IN  [nonce |-> nonce, signature |-> signature(sessionBindingIdentity(c), nonce)]

Authorize(c, session) ==
  session.signature = signature(sessionBindingIdentity(c), session.nonce)

-----------------------------------------------------------------------------
Open(c) ==
  /\ Serving /\ Cardinality(issued) < MaxSessions
  /\ Authenticated(c, TRUE)
  /\ issued' = issued \cup {NewSessionID(c)}
  /\ live' = [s \in DOMAIN live \cup {NewSessionID(c)} |-> IF s \in DOMAIN live THEN live[s] ELSE c]
  /\ UNCHANGED <<settings, key, request, shown>>

(* The client goes away or the connection breaks.                           *)
Close(session) ==
  /\ live' = [s \in DOMAIN live \ {session} |-> live[s]]
  /\ UNCHANGED <<settings, key, issued, request, shown>>

Restart ==
  /\ key < MaxKey
  /\ key' = key + 1
  /\ settings' \in Settings
  /\ live' = [s \in {} |-> s]
  /\ request' = [c \in Callers |-> Idle]
  /\ shown' = {}
  /\ UNCHANGED issued

-----------------------------------------------------------------------------
Become(c, r) ==
  /\ request' = [request EXCEPT ![c] = r]
  /\ UNCHANGED <<settings, key, issued, live>>

(* A request names a session, its caller's or any other: token and id are   *)
(* checked, and mcp-go looks the session up.                                *)
Post(c, session, tokenIsValid) ==
  LET own      == session \in DOMAIN live /\ live[session] = c /\ Authenticated(c, tokenIsValid)
      accepted == Authenticated(c, tokenIsValid) /\ Authorize(c, session) /\ session \in DOMAIN live
  IN  /\ Serving /\ request[c].phase = "idle"
      /\ Become(c, [phase |-> IF accepted THEN "posted" ELSE "refused",
                    session |-> IF accepted THEN session ELSE NoSession,
                    own |-> own, projects |-> {}, names |-> {}])
      /\ UNCHANGED shown

Refused(c) ==
  /\ request[c].phase = "refused"
  /\ Become(c, Idle)
  /\ UNCHANGED shown

-----------------------------------------------------------------------------
(* A request goes on, on its session.                                       *)
GoOn(c, phase, projects, names) ==
  Become(c, [phase |-> phase, session |-> request[c].session, own |-> request[c].own,
             projects |-> projects, names |-> names])

(* What an answer says before any masking: what is wrong, with the names    *)
(* to choose from, or nothing of interest.                                  *)
Reply(c, names) ==
  /\ GoOn(c, "replying", request[c].projects, names)
  /\ UNCHANGED shown

DisplayNames ==
  {[name |-> DisplayName(registry[i]), of |-> registry[i].projectID, offered |-> TRUE] : i \in DOMAIN registry}

(* The guard's answer repeats nothing of the request.                       *)
Unavailable(c) ==
  /\ request[c].phase = "posted"
  /\ Reply(c, {})

(* maskedUnaliasedProject.                                                  *)
MasksUnaliased(s) == s.mask /\ \E i \in DOMAIN s.environments : ~Aliased(s.environments[i])

(* What a selector in a request selects, 0 for an error: the placeholder    *)
(* stands for the default, and comparisons want both selectors.             *)
Selected(s, selector) ==
  CASE selector = NotString -> 0
    [] selector = Placeholder /\ MasksUnaliased(s) -> Default(s.environments)
    [] OTHER -> Resolve(s.environments, selector)
Compared(s, selector) == IF selector = Blank THEN 0 ELSE Selected(s, selector)

(* What a request with two selectors, which may be the same, can select.    *)
Selections   == [s \in Settings |->
  {{Selected(s, a), Selected(s, b)} : a, b \in Selectors \cup {NotString}}]
Comparisons  == [s \in Settings |->
  {{Compared(s, a), Compared(s, b)} : a, b \in Selectors \cup {NotString}}]

Call(c, projects) ==
  /\ GoOn(c, "calling", projects, request[c].names)
  /\ UNCHANGED shown

(* Tools of one environment: all selectors must agree, and a URN must lie   *)
(* in the project they select.                                              *)
CallTool(c, projects, urn) ==
  /\ request[c].phase = "posted"
  /\ IF 0 \in projects THEN Reply(c, DisplayNames)
     ELSE IF Cardinality(projects) > 1 \/ urn \notin projects \cup {0} THEN Reply(c, {})
     ELSE Call(c, projects)

CallComparison(c, projects) ==
  /\ request[c].phase = "posted"
  /\ IF 0 \in projects THEN Reply(c, DisplayNames) ELSE Call(c, projects)

-----------------------------------------------------------------------------
(* What is replaced by what: an alias before the flag that hides projects   *)
(* without one, and that before the label of billing projects.              *)
ShownAs(s, id) ==
  LET among(environments) == {i \in DOMAIN environments : environments[i].projectID = id}
  IN  CASE \E i \in among(s.environments) : Aliased(s.environments[i]) ->
             s.environments[CHOOSE i \in among(s.environments) : Aliased(s.environments[i])].alias
        [] s.mask /\ \E i \in among(s.environments) : ~Aliased(s.environments[i]) -> HiddenID
        [] id \in s.costProjects -> CostID
        [] OTHER -> id

ProjectIDs(s) == {s.environments[i].projectID : i \in DOMAIN s.environments} \cup s.costProjects

(* NewProjectIDReplacer: longer IDs first, IDs of one length in any order.  *)
Replacements(s) ==
  {[id |-> id, by |-> ShownAs(s, id)] : id \in {id \in ProjectIDs(s) : ShownAs(s, id) # id}}

LongestFirst(s) ==
  {order \in S!SetToSeqs(Replacements(s)) :
     \A i, j \in DOMAIN order : i < j => Len(order[i].id) >= Len(order[j].id)}

ReplaceString(text, order) ==
  S!FoldLeft(LAMBDA t, pair : S!ReplaceAllSubSeqs(pair.by, pair.id, t), text, order)

(* What becomes of each project's ID in a text.                             *)
Maskings ==
  [s \in Settings |->
     {[id \in ProjectIDs(s) |-> ReplaceString(id, order)] : order \in LongestFirst(s)}]


MaskedErrors == Maskings[settings]

(* The projects an answer speaks of: those of the request, or those of the  *)
(* billing exports, whose IDs are in the errors of BigQuery.                *)
Named(c) == {{registry[i].projectID : i \in request[c].projects}, settings.costProjects}

(* The handler returns a result, or an error, masked in a place of its own. *)
HandlerReturns(c) ==
  /\ request[c].phase = "calling"
  /\ \E masked \in Maskings[settings] \cup MaskedErrors, ids \in Named(c) :
       Reply(c, {[name |-> masked[id], of |-> id, offered |-> FALSE] : id \in ids})

(* Content that cannot be looked into, an anonymizer that fails, or more    *)
(* bytes than the limit: the result is withheld.                            *)
Withhold(c) ==
  /\ request[c].phase = "calling"
  /\ Reply(c, {})

(* Mutant of Deliver: waits for the stream.                                 *)
DeliverWhenOpen(c) ==
  /\ request[c].phase = "replying"
  /\ request[c].session \in DOMAIN live
  /\ Become(c, Idle)
  /\ shown' = request[c].names

(* The answer goes to the stream of the session, if that is still open.     *)
Deliver(c) ==
  /\ request[c].phase = "replying"
  /\ Become(c, Idle)
  /\ shown' = IF request[c].session \in DOMAIN live THEN request[c].names ELSE {}

-----------------------------------------------------------------------------
Proceed(c) ==
  \/ Unavailable(c)
  \/ \E projects \in Selections[settings], urn \in {0} \cup DOMAIN registry : CallTool(c, projects, urn)
  \/ \E projects \in Comparisons[settings] : CallComparison(c, projects)
  \/ HandlerReturns(c) \/ Withhold(c)
  \/ Deliver(c)
  \/ Refused(c)

Next ==
  \/ \E c \in Callers : Open(c) \/ Proceed(c)
  \/ \E session \in DOMAIN live : Close(session)
  \/ \E c \in Callers, session \in issued, tokenIsValid \in BOOLEAN : Post(c, session, tokenIsValid)
  \/ Restart

(* Handlers end: every call they make has a deadline.                       *)
Fairness == \A c \in Callers : WF_vars(Proceed(c))

Spec == Init /\ [][Next]_vars /\ Fairness

-----------------------------------------------------------------------------
(* Whatever ids callers present, and across restarts with other settings:   *)
(* a request is taken up only on an open stream of its own identity, and    *)
(* answered once.                                                           *)
Private == INSTANCE PrivateSessions WITH
  Streams   <- SessionIDs,
  NoStream  <- NoSession,
  who       <- [c \in Callers |-> sessionBindingIdentity(c)],
  owner     <- [s \in DOMAIN live |-> sessionBindingIdentity(live[s])],
  waiting   <- [c \in Callers |-> request[c].session]
KeepsSessionsPrivate == Private!Spec

(* The other side of the binding: a caller with a good token is never       *)
(* refused on a stream it opened itself, whoever else opens streams.        *)
OwnSessionServed == \A c \in Callers : request[c].own => request[c].phase # "refused"

(* registry.go:2 "Real project IDs stay inside the server": no answer shows *)
(* an ID that the settings replace, by an alias, by the flag or as one of   *)
(* the billing exports. One kind of answer is the exception: the names      *)
(* offered when a selector selects nothing are written before any masking  *)
(* (environmentSelectionError), and among them is the ID of a project      *)
(* without alias, also when the flag hides it.                              *)
OfferedUnaliased(text) ==
  text.offered /\ \E i \in DOMAIN registry : registry[i].projectID = text.of /\ ~Aliased(registry[i])

(* A name that an answer shows, passed back as a selector, leads to no      *)
(* environment but the one it was shown for. An alias that contains another *)
(* project's ID is itself rewritten in answers, and NewRegistry accepts it. *)
AliasContainsID ==
  \E i, j \in DOMAIN registry :
    Aliased(registry[i]) /\ registry[j].projectID \in S!SubSeqs(registry[i].alias)
NamesLeadBack ==
  AliasContainsID \/
    \A text \in shown :
      LET i == Resolve(registry, text.name) IN i # 0 => registry[i].projectID = text.of

(* Every request that is taken up ends.                                     *)
Answered == \A c \in Callers : request[c].phase = "posted" ~> request[c].phase = "idle"
=============================================================================
