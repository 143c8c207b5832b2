---------------------------- MODULE PrivateSessions ----------------------------
(***************************************************************************)
(* What a session of the server promises, with no HTTP, token or signature  *)
(* in sight: a stream belongs to the identity that opened it, only requests *)
(* of that identity are answered on it, each of them at most once, and      *)
(* nothing survives a restart, after which identities may be others.        *)
(***************************************************************************)
CONSTANTS
  Callers,   \* those who make requests, one at a time each
  Streams,   \* identifiers of streams
  NoStream   \* a caller without a request

VARIABLES
  who,      \* the identity of each caller
  owner,    \* the identity each open stream belongs to
  waiting   \* the stream each caller's request is to be answered on

vars == <<who, owner, waiting>>

Init ==
  /\ DOMAIN who = Callers
  /\ owner = [s \in {} |-> s]
  /\ waiting = [c \in Callers |-> NoStream]

Open(c) ==
  \E s \in Streams \ DOMAIN owner :
    /\ owner' = [t \in DOMAIN owner \cup {s} |-> IF t = s THEN who[c] ELSE owner[t]]
    /\ UNCHANGED <<who, waiting>>

Close ==
  \E s \in DOMAIN owner :
    /\ owner' = [t \in DOMAIN owner \ {s} |-> owner[t]]
    /\ UNCHANGED <<who, waiting>>

(* A request of c is taken up only on a stream that is open and its own.    *)
Ask(c) ==
  /\ waiting[c] = NoStream
  /\ \E s \in DOMAIN owner : owner[s] = who[c] /\ waiting' = [waiting EXCEPT ![c] = s]
  /\ UNCHANGED <<who, owner>>

Done(c) ==
  /\ waiting[c] # NoStream
  /\ waiting' = [waiting EXCEPT ![c] = NoStream]
  /\ UNCHANGED <<who, owner>>

Restart ==
  /\ owner' = [s \in {} |-> s]
  /\ waiting' = [c \in Callers |-> NoStream]
  /\ DOMAIN who' = Callers

Next == (\E c \in Callers : Open(c) \/ Ask(c) \/ Done(c)) \/ Close \/ Restart

Spec == Init /\ [][Next]_vars
=============================================================================
