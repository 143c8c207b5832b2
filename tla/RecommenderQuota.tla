--------------------------- MODULE RecommenderQuota ---------------------------
(***************************************************************************)
(* The circuit breaker around the Recommender API                          *)
(* (internal/gcp/recommender_quota.go) and the iterators that go through   *)
(* it (internal/gcp/recommender.go).  check, trip and succeed each hold    *)
(* the gate's mutex for one step, but check and trip read the clock before *)
(* they take it: a step may act on a reading that is already old.          *)
(***************************************************************************)
EXTENDS Integers, Sequences

CONSTANTS
  Recommender,   \* recommender ids
  Iterator,      \* calls that list recommendations at the same time
  Minute,        \* length of the per-minute window
  Day,           \* distance of two daily resets
  unknownQuotaBackoffs,  \* waits after the first unclassified failures
  LongBackoff,   \* the wait after all further ones
  Hint,          \* retry delays the server may send along
  PageSize,      \* bound: recommendations in one page
  MaxTrips,      \* bound: quota failures Google answers in all
  MaxTime        \* bound: the clock

ASSUME QuotaAssumption ==
  /\ Minute \in Nat \ {0} /\ Day \in Nat \ {0} /\ LongBackoff \in Nat \ {0}
  /\ unknownQuotaBackoffs \in Seq(Nat \ {0}) /\ Len(unknownQuotaBackoffs) > 0
  /\ Hint \subseteq Nat
  /\ PageSize \in Nat /\ MaxTrips \in Nat /\ MaxTime \in Nat

VARIABLES
  blocks,   \* recommender -> its block; a missing key reads as the zero block
  it,       \* iterator -> its local state
  clock,
  trips     \* quota failures so far

quotaVars == <<blocks, it, clock, trips>>

Window == {"none", "minute", "daily", "unknown"}
NoHint == -1

(* time.Time's zero is 0 here; the clock starts after it. *)
recommenderQuotaBlock ==
  [until: Nat, window: Window, unknownFailures: Nat, generation: Nat]

ZeroBlock == [until |-> 0, window |-> "none", unknownFailures |-> 0, generation |-> 0]

(* opening: activeRecommendations' own check; ready: between two calls of  *)
(* Next; the others are inside Next, serving when it took a buffered item  *)
(* and succeeding when it fetched a page.                                  *)
PC == {"idle", "opening", "ready", "checking", "calling", "tripping", "serving", "succeeding"}

IteratorState ==
  [pc: PC, rec: Recommender, now: Nat, generation: Nat, buffered: 0..PageSize,
   window: Window, hint: Hint \cup {NoHint}]

(* No listing under way; rec is of no meaning until one starts. *)
Fresh(r) == [pc |-> "idle", rec |-> r, now |-> 0, generation |-> 0, buffered |-> 0,
             window |-> "none", hint |-> NoHint]

QuotaInit ==
  /\ blocks = [r \in Recommender |-> ZeroBlock]
  /\ \E r \in [Iterator -> Recommender] : it = [i \in Iterator |-> Fresh(r[i])]
  /\ clock = 1
  /\ trips = 0

block(i) == blocks[it[i].rec]
At(i, pc) == it[i].pc = pc
Stop(i) == it' = [it EXCEPT ![i] = Fresh(@.rec)]
ReadClock(i, pc) == it' = [it EXCEPT ![i].pc = pc, ![i].now = clock]

-----------------------------------------------------------------------------
(* A caller starts to list the recommendations of r: the first check.      *)
activeRecommendations(i, r) ==
  /\ At(i, "idle")
  /\ it' = [it EXCEPT ![i] = [Fresh(r) EXCEPT !.pc = "opening", !.now = clock]]
  /\ UNCHANGED <<blocks, clock, trips>>

BeginNext(i) ==
  /\ At(i, "ready")
  /\ ReadClock(i, "checking")
  /\ UNCHANGED <<blocks, clock, trips>>

(* The caller stops reading: it has its result, or its context ended. *)
Abandon(i) ==
  /\ At(i, "ready")
  /\ Stop(i)
  /\ UNCHANGED <<blocks, clock, trips>>

Passed(i) ==
  it' = [it EXCEPT ![i].pc = IF @ = "opening" THEN "ready" ELSE "calling",
                   ![i].generation = block(i).generation]

(* Mutant of InForce: the last instant of a block is given away. *)
InForceTooShort(b, time) == time + 1 < b.until

(* now.Before(block.until), by the clock read before the lock. *)
InForce(b, time) == time < b.until

CheckPasses(i) ==
  /\ it[i].pc \in {"opening", "checking"}
  /\ ~InForce(block(i), it[i].now)
  /\ blocks' = [blocks EXCEPT ![it[i].rec].until = 0]
  /\ Passed(i)
  /\ UNCHANGED <<clock, trips>>

CheckRefuses(i) ==
  /\ it[i].pc \in {"opening", "checking"}
  /\ InForce(block(i), it[i].now)
  /\ Stop(i)
  /\ UNCHANGED <<blocks, clock, trips>>

-----------------------------------------------------------------------------
(* inner.Next: an item already fetched costs no request; otherwise Google  *)
(* is asked for a page (the known end of a list, which costs none either,  *)
(* counts as an empty page here).                                          *)
NextBuffered(i) ==
  /\ At(i, "calling")
  /\ it[i].buffered > 0
  /\ it' = [it EXCEPT ![i].pc = "serving", ![i].buffered = @ - 1]
  /\ UNCHANGED <<blocks, clock, trips>>

NextPage(i) ==
  /\ At(i, "calling")
  /\ it[i].buffered = 0
  /\ \E n \in 0..PageSize :
       it' = [it EXCEPT ![i].pc = "succeeding", ![i].buffered = n]
  /\ UNCHANGED <<blocks, clock, trips>>

(* isRecommenderQuotaError; trip then reads the clock before the lock. *)
NextQuotaError(i) ==
  /\ At(i, "calling")
  /\ it[i].buffered = 0
  /\ trips < MaxTrips
  /\ trips' = trips + 1
  /\ \E window \in Window \ {"none"}, hint \in Hint \cup {NoHint} :
       it' = [it EXCEPT ![i].pc = "tripping", ![i].now = clock,
                        ![i].window = window, ![i].hint = hint]
  /\ UNCHANGED <<blocks, clock>>

NextOtherError(i) ==
  /\ At(i, "calling")
  /\ it[i].buffered = 0
  /\ Stop(i)
  /\ UNCHANGED <<blocks, clock, trips>>

-----------------------------------------------------------------------------
unknownQuotaBackoff(failures) ==
  IF failures > Len(unknownQuotaBackoffs) THEN LongBackoff
  ELSE unknownQuotaBackoffs[failures]

nextRecommenderDailyReset(time) == ((time \div Day) + 1) * Day

Earlier(s, t) == IF s < t THEN s ELSE t

(* What classifyRecommenderQuota and trip make of the failure: the server's *)
(* own delay first, then the window's end, then the bounded backoff.       *)
retryAt(i, failures) ==
  LET now == it[i].now
  IN  IF it[i].hint # NoHint THEN now + it[i].hint
      ELSE CASE it[i].window = "daily"  -> nextRecommenderDailyReset(now)
             [] it[i].window = "minute" -> now + Minute
             [] OTHER -> Earlier(now + unknownQuotaBackoff(failures),
                                 nextRecommenderDailyReset(now))

newBlock(i) ==
  LET failures == IF it[i].window = "unknown" THEN block(i).unknownFailures + 1 ELSE 0
  IN  [until |-> retryAt(i, failures), window |-> it[i].window,
       unknownFailures |-> failures, generation |-> block(i).generation + 1]

(* A concurrent or shorter answer does not shorten a block in force. *)
KeepsPrevious(i) ==
  InForce(block(i), it[i].now) /\ newBlock(i).until <= block(i).until

trip(i) ==
  /\ At(i, "tripping")
  /\ blocks' = IF KeepsPrevious(i) THEN blocks
               ELSE [blocks EXCEPT ![it[i].rec] = newBlock(i)]
  /\ Stop(i)
  /\ UNCHANGED <<clock, trips>>

(* Mutant of Current: any success clears the block. *)
AnyGeneration(i) == TRUE

Current(i) == block(i).generation = it[i].generation

(* The item is handed to the caller, or Done ends the listing. *)
succeed(i) ==
  /\ it[i].pc \in {"serving", "succeeding"}
  /\ blocks' = IF Current(i)
               THEN [blocks EXCEPT ![it[i].rec] = [ZeroBlock EXCEPT !.generation = it[i].generation]]
               ELSE blocks
  /\ it' = [it EXCEPT ![i].pc = "ready"]
  /\ UNCHANGED <<clock, trips>>

Tick ==
  /\ clock < MaxTime
  /\ clock' = clock + 1
  /\ UNCHANGED <<blocks, it, trips>>

Step(i) ==
  \/ \E r \in Recommender : activeRecommendations(i, r)
  \/ BeginNext(i) \/ Abandon(i)
  \/ CheckPasses(i) \/ CheckRefuses(i)
  \/ NextBuffered(i) \/ NextPage(i) \/ NextQuotaError(i) \/ NextOtherError(i)
  \/ trip(i) \/ succeed(i)

QuotaNext == Tick \/ \E i \in Iterator : Step(i)

QuotaSpec == QuotaInit /\ [][QuotaNext]_quotaVars

-----------------------------------------------------------------------------
TypeOK ==
  /\ blocks \in [Recommender -> recommenderQuotaBlock]
  /\ it \in [Iterator -> IteratorState]
  /\ clock \in Nat \ {0}
  /\ trips \in Nat

(* An iterator that still holds the current generation has an open gate:   *)
(* whatever was installed since its check carries a newer generation, so   *)
(* its success cannot be mistaken for news about that block.               *)
CurrentGenerationIsOpen ==
  \A i \in Iterator :
    it[i].pc \in {"ready", "calling", "serving", "succeeding"} /\ Current(i) => block(i).until = 0

(* A block in force is never lifted or shortened: not by a late success,   *)
(* not by a concurrent or shorter quota answer, not by a check that read   *)
(* the clock long ago (recommender_quota.go:101, recommender.go:80).       *)
NeverShortened ==
  [][\A r \in Recommender :
       clock < blocks[r].until => blocks'[r].until >= blocks[r].until]_quotaVars

(* Nobody gets past the gate while a block is in force by the clock of     *)
(* that moment, however old the reading that check compares.               *)
GateHolds ==
  [][\A i \in Iterator :
       At(i, "checking") /\ it'[i].pc = "calling" => clock >= block(i).until]_quotaVars
=============================================================================
