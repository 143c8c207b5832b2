---------------------------- MODULE AdapterProofs ----------------------------
(***************************************************************************)
(* Proofs about the two parts of the Google Cloud adapter that stand on    *)
(* their own: the breaker around the Recommender API (RecommenderQuota,    *)
(* whose definitions bear the prefix quota where both have one), and the   *)
(* adapter behind the server's tools (ToolServer), from the flag --modules *)
(* to the answers.                                                         *)
(***************************************************************************)
EXTENDS RecommenderQuota, ToolServer, TLAPS

-----------------------------------------------------------------------------
(***************************************************************************)
(* RecommenderQuota, for any number of recommenders and iterators, any     *)
(* backoff table, any retry delay the server sends, and any delay between  *)
(* the reading of the clock and the lock.                                  *)
(***************************************************************************)
LEMMA DailyResetType ==
  ASSUME NEW time \in Nat
  PROVE  nextRecommenderDailyReset(time) \in Nat
  <1>1. time \div Day \in Nat /\ Day \in Nat
    BY QuotaAssumption
  <1>2. \A m, n \in Nat : m * n \in Nat
    OBVIOUS
  <1> QED
    BY <1>1, <1>2 DEF nextRecommenderDailyReset

LEMMA BackoffType ==
  ASSUME NEW failures \in Nat \ {0}
  PROVE  unknownQuotaBackoff(failures) \in Nat
  BY QuotaAssumption DEF unknownQuotaBackoff

LEMMA NewBlockType ==
  ASSUME TypeOK, NEW i \in Iterator, At(i, "tripping"), it[i].window # "none"
  PROVE  /\ newBlock(i) \in recommenderQuotaBlock
         /\ newBlock(i).generation = block(i).generation + 1
  <1>1. /\ it[i].now \in Nat /\ it[i].window \in Window /\ it[i].hint \in Hint \cup {NoHint}
        /\ block(i) \in recommenderQuotaBlock
    BY DEF TypeOK, IteratorState, block
  <1> DEFINE failures == IF it[i].window = "unknown" THEN block(i).unknownFailures + 1 ELSE 0
  <1>0. block(i).unknownFailures \in Nat
    BY <1>1 DEF recommenderQuotaBlock
  <1>2. /\ failures \in Nat
        /\ it[i].window = "unknown" => failures \in Nat \ {0}
    BY <1>0
  <1> HIDE DEF failures
  <1>3. retryAt(i, failures) \in Nat
    <2>1. CASE it[i].hint # NoHint
      <3>1. it[i].hint \in Nat
        BY <1>1, <2>1, QuotaAssumption
      <3>2. retryAt(i, failures) = it[i].now + it[i].hint
        BY <2>1 DEF retryAt
      <3> QED
        BY <1>1, <3>1, <3>2
    <2>2. CASE it[i].hint = NoHint /\ it[i].window = "daily"
      BY <1>1, <2>2, DailyResetType DEF retryAt
    <2>3. CASE it[i].hint = NoHint /\ it[i].window = "minute"
      BY <1>1, <2>3, QuotaAssumption DEF retryAt
    <2>4. CASE it[i].hint = NoHint /\ it[i].window = "unknown"
      <3>1. retryAt(i, failures) = Earlier(it[i].now + unknownQuotaBackoff(failures),
                                           nextRecommenderDailyReset(it[i].now))
        BY <2>4 DEF retryAt
      <3>2. /\ it[i].now + unknownQuotaBackoff(failures) \in Nat
            /\ nextRecommenderDailyReset(it[i].now) \in Nat
        BY <1>1, <1>2, <2>4, BackoffType, DailyResetType
      <3> QED
        BY <3>1, <3>2 DEF Earlier
    <2> QED
      BY <1>1, <2>1, <2>2, <2>3, <2>4 DEF Window
  <1>4. newBlock(i) = [until |-> retryAt(i, failures), window |-> it[i].window,
                       unknownFailures |-> failures, generation |-> block(i).generation + 1]
    BY DEF newBlock, failures
  <1> QED
    BY <1>1, <1>2, <1>3, <1>4 DEF recommenderQuotaBlock

-----------------------------------------------------------------------------
(***************************************************************************)
(* The inductive invariant.  CurrentGenerationIsOpen needs that nobody     *)
(* holds a generation from the future, so that the generation trip makes   *)
(* up is held by no iterator; the action properties need that a reading of *)
(* the clock is never ahead of it.                                         *)
(***************************************************************************)
Holding(i) == it[i].pc \in {"ready", "calling", "serving", "succeeding"}

GenerationsPast ==
  \A i \in Iterator : Holding(i) => it[i].generation <= block(i).generation

ReadingsPast == \A i \in Iterator : it[i].now <= clock

TripsHaveWindow == \A i \in Iterator : At(i, "tripping") => it[i].window # "none"

QuotaInv ==
  /\ TypeOK
  /\ CurrentGenerationIsOpen
  /\ GenerationsPast
  /\ ReadingsPast
  /\ TripsHaveWindow

LEMMA FreshType ==
  ASSUME NEW r \in Recommender
  PROVE  Fresh(r) \in IteratorState
  BY QuotaAssumption DEF Fresh, IteratorState, PC, Window

LEMMA InitInv == QuotaInit => QuotaInv
  <1> SUFFICES ASSUME QuotaInit PROVE QuotaInv
    OBVIOUS
  <1>1. TypeOK
    <2>1. ZeroBlock \in recommenderQuotaBlock
      BY DEF ZeroBlock, recommenderQuotaBlock, Window
    <2>2. \A r \in Recommender : Fresh(r) \in IteratorState
      BY FreshType
    <2> QED
      BY <2>1, <2>2 DEF QuotaInit, TypeOK
  <1>2. \A i \in Iterator : it[i].pc = "idle" /\ it[i].now = 0
    BY DEF QuotaInit, Fresh
  <1>3. clock = 1
    BY DEF QuotaInit
  <1> QED
    BY <1>1, <1>2, <1>3 DEF QuotaInv, CurrentGenerationIsOpen, GenerationsPast, ReadingsPast,
                       TripsHaveWindow, Holding, At

(* What [it EXCEPT ![i] = s] says, without the update. *)
Moves(i, s) ==
  /\ it' \in [Iterator -> IteratorState]
  /\ it'[i] = s
  /\ \A j \in Iterator \ {i} : it'[j] = it[j]

LEMMA MovesFacts ==
  ASSUME TypeOK, NEW i \in Iterator, NEW s, s \in IteratorState, it' = [it EXCEPT ![i] = s]
  PROVE  Moves(i, s)
  BY DEF TypeOK, Moves

(* A step of one iterator that leaves the blocks and the others alone. *)
LEMMA LocalStep ==
  ASSUME QuotaInv, NEW i \in Iterator, NEW s, Moves(i, s),
         blocks' = blocks, clock' = clock, trips' \in Nat,
         s.now <= clock, s.pc = "tripping" => s.window # "none",
         s.pc \in {"ready", "calling", "serving", "succeeding"} =>
           Holding(i) /\ s.rec = it[i].rec /\ s.generation = it[i].generation
  PROVE  QuotaInv'
  <1>1. TypeOK'
    BY DEF QuotaInv, TypeOK, Moves
  <1>2. it'[i] = s /\ \A j \in Iterator \ {i} : it'[j] = it[j]
    BY DEF Moves
  <1>3. CurrentGenerationIsOpen' /\ GenerationsPast'
    BY <1>2 DEF QuotaInv, CurrentGenerationIsOpen, GenerationsPast, Holding, Current, block
  <1>4. ReadingsPast' /\ TripsHaveWindow'
    BY <1>2 DEF QuotaInv, ReadingsPast, TripsHaveWindow, At
  <1> QED
    BY <1>1, <1>3, <1>4 DEF QuotaInv

(* A step that replaces the block of recommender r by one that is open     *)
(* under the same generation, or by one of a newer generation.             *)
LEMMA BlockStep ==
  ASSUME QuotaInv, NEW i \in Iterator, NEW s, Moves(i, s), NEW r \in Recommender,
         NEW b \in recommenderQuotaBlock, blocks' = [blocks EXCEPT ![r] = b],
         clock' = clock, trips' = trips,
         s.now <= clock, s.pc # "tripping",
         \/ b.generation = blocks[r].generation /\ b.until = 0
         \/ b.generation > blocks[r].generation,
         s.pc \in {"ready", "calling", "serving", "succeeding"} =>
           s.rec = r /\ s.generation = b.generation /\ b.until = 0
  PROVE  QuotaInv'
  <1>1. TypeOK'
    BY DEF QuotaInv, TypeOK, Moves
  <1>2. /\ it'[i] = s /\ \A j \in Iterator \ {i} : it'[j] = it[j]
        /\ blocks'[r] = b /\ \A q \in Recommender \ {r} : blocks'[q] = blocks[q]
    BY DEF QuotaInv, TypeOK, Moves
  <1>3. \A j \in Iterator :
          /\ it[j].rec \in Recommender /\ it'[j].rec \in Recommender
          /\ it[j].generation \in Nat /\ blocks[it[j].rec].generation \in Nat
    BY <1>1 DEF QuotaInv, TypeOK, IteratorState, recommenderQuotaBlock
  <1>b. b.generation \in Nat
    BY DEF recommenderQuotaBlock
  <1>4. CurrentGenerationIsOpen'
    <2> SUFFICES ASSUME NEW j \in Iterator, Holding(j)', Current(j)'
                 PROVE  blocks'[it'[j].rec].until = 0
      BY DEF CurrentGenerationIsOpen, Holding, block
    <2>1. CASE j = i
      BY <1>2, <2>1 DEF Holding
    <2>2. CASE j # i /\ it[j].rec # r
      BY <1>2, <1>3, <2>2 DEF QuotaInv, CurrentGenerationIsOpen, Holding, Current, block
    <2>3. CASE j # i /\ it[j].rec = r
      BY <1>2, <1>3, <1>b, <2>3
      DEF QuotaInv, CurrentGenerationIsOpen, GenerationsPast, Holding, Current, block
    <2> QED
      BY <2>1, <2>2, <2>3
  <1>5. GenerationsPast'
    <2> SUFFICES ASSUME NEW j \in Iterator, Holding(j)'
                 PROVE  it'[j].generation <= blocks'[it'[j].rec].generation
      BY DEF GenerationsPast, block
    <2>1. CASE j = i
      BY <1>2, <1>b, <2>1 DEF Holding
    <2>2. CASE j # i
      BY <1>2, <1>3, <1>b, <2>2 DEF QuotaInv, GenerationsPast, Holding, block
    <2> QED
      BY <2>1, <2>2
  <1>6. ReadingsPast' /\ TripsHaveWindow'
    BY <1>2 DEF QuotaInv, ReadingsPast, TripsHaveWindow, At
  <1> QED
    BY <1>1, <1>4, <1>5, <1>6 DEF QuotaInv
LEMMA NextInv == QuotaInv /\ [QuotaNext]_quotaVars => QuotaInv'
  <1> SUFFICES ASSUME QuotaInv, [QuotaNext]_quotaVars PROVE QuotaInv'
    OBVIOUS
  <1>t. TypeOK /\ clock \in Nat /\ trips \in Nat
    BY DEF QuotaInv, TypeOK
  <1>i. ASSUME NEW i \in Iterator
        PROVE  /\ it[i] \in IteratorState /\ it[i].rec \in Recommender /\ it[i].now <= clock
               /\ blocks[it[i].rec] \in recommenderQuotaBlock
    BY DEF QuotaInv, TypeOK, IteratorState, ReadingsPast
  <1>1. ASSUME NEW i \in Iterator, NEW r \in Recommender, activeRecommendations(i, r)
        PROVE  QuotaInv'
    <2> DEFINE s == [Fresh(r) EXCEPT !.pc = "opening", !.now = clock]
    <2>1. s \in IteratorState /\ s.pc = "opening" /\ s.now = clock
      BY <1>t, FreshType DEF IteratorState, PC, Fresh
    <2>2. it' = [it EXCEPT ![i] = s] /\ UNCHANGED <<blocks, clock, trips>>
      BY <1>1 DEF activeRecommendations
    <2> HIDE DEF s
    <2>m. Moves(i, s)
      BY <1>t, <2>1, <2>2, MovesFacts
    <2> QED
      BY <1>t, <2>1, <2>2, <2>m, LocalStep
  <1>2. ASSUME NEW i \in Iterator,
               Stop(i), UNCHANGED <<blocks, clock, trips>>
        PROVE  QuotaInv'
    <2> DEFINE s == Fresh(it[i].rec)
    <2>1. s \in IteratorState
      BY <1>i, FreshType
    <2>2. s.pc = "idle" /\ s.now = 0
      BY DEF Fresh
    <2>3. it' = [it EXCEPT ![i] = s]
      BY <1>2 DEF Stop
    <2> HIDE DEF s
    <2>m. Moves(i, s)
      BY <1>2, <1>t, <2>1, <2>2, <2>3, MovesFacts
    <2> QED
      BY <1>2, <1>t, <2>1, <2>2, <2>3, <2>m, LocalStep
  <1>3. ASSUME NEW i \in Iterator, BeginNext(i)
        PROVE  QuotaInv'
    <2> DEFINE s == [it[i] EXCEPT !.pc = "checking", !.now = clock]
    <2>1. s \in IteratorState /\ s.pc = "checking" /\ s.now = clock
      BY <1>t, <1>i DEF IteratorState, PC
    <2>2. it' = [it EXCEPT ![i] = s] /\ UNCHANGED <<blocks, clock, trips>>
      BY <1>3 DEF BeginNext, ReadClock
    <2> HIDE DEF s
    <2>m. Moves(i, s)
      BY <1>t, <2>1, <2>2, MovesFacts
    <2> QED
      BY <1>t, <2>1, <2>2, <2>m, LocalStep
  <1>4. ASSUME NEW i \in Iterator, CheckPasses(i)
        PROVE  QuotaInv'
    <2> DEFINE b == [block(i) EXCEPT !.until = 0]
               s == [it[i] EXCEPT !.pc = IF @ = "opening" THEN "ready" ELSE "calling",
                                  !.generation = block(i).generation]
    <2>1. block(i) \in recommenderQuotaBlock
      BY <1>i DEF block
    <2>2. b \in recommenderQuotaBlock /\ b.until = 0 /\ b.generation = block(i).generation
      BY <2>1 DEF recommenderQuotaBlock
    <2>3. /\ s \in IteratorState /\ s.pc \in {"ready", "calling"} /\ s.rec = it[i].rec
          /\ s.now = it[i].now /\ s.generation = block(i).generation
      BY <1>i, <2>1 DEF IteratorState, PC, recommenderQuotaBlock
    <2>4. /\ it' = [it EXCEPT ![i] = s] /\ blocks' = [blocks EXCEPT ![it[i].rec] = b]
          /\ UNCHANGED <<clock, trips>>
      BY <1>4 DEF CheckPasses, Passed, block
    <2> HIDE DEF b, s
    <2>m. Moves(i, s)
      BY <1>t, <2>3, <2>4, MovesFacts
    <2> QED
      BY <1>i, <2>2, <2>3, <2>4, <2>m, BlockStep DEF block
  <1>5. ASSUME NEW i \in Iterator, NextBuffered(i) \/ NextPage(i)
        PROVE  QuotaInv'
    <2>0. it[i].buffered \in 0..PageSize /\ (it[i].buffered > 0 => it[i].buffered - 1 \in 0..PageSize)
      BY <1>i, QuotaAssumption DEF IteratorState
    <2>1. PICK pc \in {"serving", "succeeding"}, n \in 0..PageSize :
            it' = [it EXCEPT ![i].pc = pc, ![i].buffered = n]
      BY <1>5, <2>0 DEF NextBuffered, NextPage
    <2> DEFINE s == [it[i] EXCEPT !.pc = pc, !.buffered = n]
    <2>2. /\ s \in IteratorState /\ s.pc = pc /\ s.now = it[i].now /\ s.rec = it[i].rec
          /\ s.generation = it[i].generation
      BY <1>i DEF IteratorState, PC
    <2>3. /\ it' = [it EXCEPT ![i] = s] /\ UNCHANGED <<blocks, clock, trips>> /\ Holding(i)
      BY <1>5, <2>1 DEF NextBuffered, NextPage, Holding, At
    <2> HIDE DEF s
    <2>m. Moves(i, s)
      BY <1>t, <1>i, <2>2, <2>3, MovesFacts
    <2> QED
      BY <1>t, <1>i, <2>2, <2>3, <2>m, LocalStep
  <1>6. ASSUME NEW i \in Iterator, NextQuotaError(i)
        PROVE  QuotaInv'
    <2>1. PICK window \in Window \ {"none"}, hint \in Hint \cup {NoHint} :
            it' = [it EXCEPT ![i].pc = "tripping", ![i].now = clock,
                             ![i].window = window, ![i].hint = hint]
      BY <1>6 DEF NextQuotaError
    <2> DEFINE s == [it[i] EXCEPT !.pc = "tripping", !.now = clock, !.window = window, !.hint = hint]
    <2>2. /\ s \in IteratorState /\ s.pc = "tripping" /\ s.now = clock /\ s.window # "none"
      BY <1>t, <1>i DEF IteratorState, PC
    <2>3. /\ it' = [it EXCEPT ![i] = s] /\ UNCHANGED <<blocks, clock>> /\ trips' \in Nat
      <3>1. it' = [it EXCEPT ![i] = s]
        BY <1>t, <2>1 DEF TypeOK
      <3>2. trips' = trips + 1 /\ UNCHANGED <<blocks, clock>>
        BY <1>6 DEF NextQuotaError
      <3> HIDE DEF s
      <3> QED
        BY <1>t, <3>1, <3>2
    <2> HIDE DEF s
    <2>m. Moves(i, s)
      BY <1>t, <2>2, <2>3, MovesFacts
    <2> QED
      BY <1>t, <2>2, <2>3, <2>m, LocalStep
  <1>7. ASSUME NEW i \in Iterator, trip(i)
        PROVE  QuotaInv'
    <2>1. CASE KeepsPrevious(i)
      BY <1>2, <1>7, <2>1 DEF trip
    <2>2. CASE ~KeepsPrevious(i)
      <3> DEFINE s == Fresh(it[i].rec)
                 b == newBlock(i)
      <3>1. s \in IteratorState
        BY <1>i, FreshType
      <3>2. s.pc = "idle" /\ s.now = 0
        BY DEF Fresh
      <3>3. b \in recommenderQuotaBlock /\ b.generation = block(i).generation + 1
        BY <1>7, <1>t, NewBlockType DEF trip, QuotaInv, TripsHaveWindow
      <3>4. /\ it' = [it EXCEPT ![i] = s] /\ blocks' = [blocks EXCEPT ![it[i].rec] = b]
            /\ UNCHANGED <<clock, trips>>
        BY <1>7, <2>2 DEF trip, Stop
      <3> HIDE DEF s, b
      <3>5. b.generation > blocks[it[i].rec].generation
        BY <1>i, <3>3 DEF recommenderQuotaBlock, block
      <3>m. Moves(i, s)
        BY <1>t, <1>i, <3>1, <3>2, <3>3, <3>4, <3>5, MovesFacts
      <3> QED
        <4>1. it[i].rec \in Recommender /\ s.now <= clock /\ s.pc = "idle"
          BY <1>t, <1>i, <3>2
        <4>2. /\ b \in recommenderQuotaBlock /\ blocks' = [blocks EXCEPT ![it[i].rec] = b]
              /\ clock' = clock /\ trips' = trips
          BY <3>3, <3>4
        <4> QED
          BY <3>5, <3>m, <4>1, <4>2, BlockStep
    <2> QED
      BY <2>1, <2>2
  <1>8. ASSUME NEW i \in Iterator, succeed(i)
        PROVE  QuotaInv'
    <2> DEFINE s == [it[i] EXCEPT !.pc = "ready"]
    <2>1. /\ s \in IteratorState /\ s.pc = "ready" /\ s.now = it[i].now /\ s.rec = it[i].rec
          /\ s.generation = it[i].generation
      BY <1>i DEF IteratorState, PC
    <2>2. it' = [it EXCEPT ![i] = s] /\ UNCHANGED <<clock, trips>> /\ Holding(i)
      BY <1>8 DEF succeed, Holding
    <2>3. CASE ~Current(i)
      <3> HIDE DEF s
      <3>m. Moves(i, s)
        BY <1>8, <1>t, <1>i, <2>1, <2>2, <2>3, MovesFacts DEF succeed
      <3> QED
        BY <1>8, <1>t, <1>i, <2>1, <2>2, <2>3, <3>m, LocalStep DEF succeed
    <2>4. CASE Current(i)
      <3> DEFINE b == [ZeroBlock EXCEPT !.generation = it[i].generation]
      <3>1. /\ b \in recommenderQuotaBlock /\ b.until = 0
            /\ b.generation = it[i].generation
        BY <1>i DEF ZeroBlock, recommenderQuotaBlock, IteratorState, Window
      <3>2. blocks' = [blocks EXCEPT ![it[i].rec] = b]
        BY <1>8, <2>4 DEF succeed
      <3>3. it[i].generation = blocks[it[i].rec].generation
        BY <2>4 DEF Current, block
      <3> HIDE DEF s, b
      <3>m. Moves(i, s)
        BY <1>t, <2>1, <2>2, MovesFacts
      <3> QED
        BY <1>i, <2>1, <2>2, <3>1, <3>2, <3>3, <3>m, BlockStep
    <2> QED
      BY <2>3, <2>4
  <1>9. CASE Tick
    <2>1. UNCHANGED <<blocks, it, trips>> /\ clock' = clock + 1
      BY <1>9 DEF Tick
    <2>2. \A i \in Iterator : it[i].now \in Nat /\ it[i].now <= clock
      BY <1>i DEF IteratorState
    <2>3. TypeOK' /\ ReadingsPast'
      BY <1>t, <2>1, <2>2 DEF TypeOK, ReadingsPast
    <2> QED
      BY <2>1, <2>3 DEF QuotaInv, CurrentGenerationIsOpen, GenerationsPast, TripsHaveWindow,
                        Holding, Current, block, At
  <1>10. CASE UNCHANGED quotaVars
    BY <1>10 DEF quotaVars, QuotaInv, TypeOK, CurrentGenerationIsOpen, GenerationsPast, ReadingsPast,
                 TripsHaveWindow, Holding, Current, block, At
  <1> QED
    BY <1>1, <1>2, <1>3, <1>4, <1>5, <1>6, <1>7, <1>8, <1>9, <1>10
    DEF QuotaNext, Step, Abandon, CheckRefuses, NextOtherError

LEMMA InvAlways == QuotaSpec => []QuotaInv
  BY InitInv, NextInv, PTL DEF QuotaSpec

(* Types hold throughout: every retry time is a time, for any backoff table. *)
THEOREM QuotaTypes == QuotaSpec => []TypeOK
  BY InvAlways, PTL DEF QuotaInv

(* An iterator whose generation is the current one has an open gate.       *)
THEOREM GenerationCorrect == QuotaSpec => []CurrentGenerationIsOpen
  BY InvAlways, PTL DEF QuotaInv

(* No step lifts or shortens a block in force: the comments at             *)
(* recommender_quota.go:101 and recommender.go:80.                         *)
THEOREM BlocksNeverShortened == QuotaSpec => NeverShortened
  <1>1. QuotaInv /\ [QuotaNext]_quotaVars =>
          \A r \in Recommender : clock < blocks[r].until => blocks'[r].until >= blocks[r].until
    <2> SUFFICES ASSUME QuotaInv, [QuotaNext]_quotaVars, NEW r \in Recommender, clock < blocks[r].until
                 PROVE  blocks'[r].until >= blocks[r].until
      OBVIOUS
    <2>t. /\ TypeOK /\ clock \in Nat /\ blocks[r] \in recommenderQuotaBlock
          /\ blocks[r].until \in Nat
      BY DEF QuotaInv, TypeOK, recommenderQuotaBlock
    <2>i. \A i \in Iterator : it[i].now \in Nat /\ it[i].now <= clock /\ it[i].rec \in Recommender
      BY DEF QuotaInv, TypeOK, ReadingsPast, IteratorState
    <2>1. ASSUME NEW i \in Iterator, CheckPasses(i)
          PROVE  blocks'[r] = blocks[r]
      <3>1. it[i].rec # r
        BY <2>1, <2>t, <2>i DEF CheckPasses, InForce, block
      <3> QED
        BY <2>1, <3>1, <2>t DEF CheckPasses, TypeOK
    <2>2. ASSUME NEW i \in Iterator, trip(i)
          PROVE  blocks'[r].until >= blocks[r].until
      <3>1. CASE KeepsPrevious(i) \/ it[i].rec # r
        BY <2>2, <2>t, <3>1 DEF trip, TypeOK
      <3>2. CASE ~KeepsPrevious(i) /\ it[i].rec = r
        <4>1. newBlock(i) \in recommenderQuotaBlock
          BY <2>2, <2>t, NewBlockType DEF trip, QuotaInv, TripsHaveWindow
        <4>2. newBlock(i).until \in Nat
          BY <4>1 DEF recommenderQuotaBlock
        <4>3. ~(newBlock(i).until <= blocks[r].until)
          BY <2>t, <2>i, <3>2 DEF KeepsPrevious, InForce, block
        <4>4. blocks'[r] = newBlock(i)
          BY <2>2, <2>t, <3>2 DEF trip, TypeOK
        <4> QED
          BY <2>t, <4>2, <4>3, <4>4
      <3> QED
        BY <3>1, <3>2
    <2>3. ASSUME NEW i \in Iterator, succeed(i)
          PROVE  blocks'[r] = blocks[r]
      <3>1. ~(Current(i) /\ it[i].rec = r)
        BY <2>3, <2>t DEF succeed, QuotaInv, CurrentGenerationIsOpen, block
      <3> QED
        BY <2>3, <2>t, <3>1 DEF succeed, TypeOK
    <2>4. ASSUME UNCHANGED blocks
          PROVE  blocks'[r] = blocks[r]
      BY <2>4
    <2>5. CASE Tick \/ UNCHANGED quotaVars
      BY <2>5, <2>4, <2>t DEF Tick, quotaVars
    <2>6. ASSUME NEW i \in Iterator, NEW q,
                 \/ activeRecommendations(i, q) \/ BeginNext(i) \/ Abandon(i) \/ CheckRefuses(i)
                 \/ NextBuffered(i) \/ NextPage(i) \/ NextQuotaError(i) \/ NextOtherError(i)
          PROVE  UNCHANGED blocks
      BY <2>6 DEF activeRecommendations, BeginNext, Abandon, CheckRefuses, NextBuffered, NextPage,
                  NextQuotaError, NextOtherError
    <2>7. blocks'[r] = blocks[r] => blocks'[r].until >= blocks[r].until
      BY <2>t
    <2> QED
      BY <2>1, <2>2, <2>3, <2>4, <2>5, <2>6, <2>7 DEF QuotaNext, Step
  <1> QED
    BY <1>1, InvAlways, PTL DEF QuotaSpec, NeverShortened

(* Nobody passes the gate while a block is in force.                       *)
THEOREM GateCorrect == QuotaSpec => GateHolds
  <1>1. QuotaInv /\ [QuotaNext]_quotaVars =>
          \A i \in Iterator :
            At(i, "checking") /\ it'[i].pc = "calling" => clock >= block(i).until
    <2> SUFFICES ASSUME QuotaInv, [QuotaNext]_quotaVars, NEW i \in Iterator,
                        At(i, "checking"), it'[i].pc = "calling"
                 PROVE  clock >= block(i).until
      OBVIOUS
    <2>t. /\ it \in [Iterator -> IteratorState] /\ clock \in Nat
          /\ it[i].now \in Nat /\ it[i].now <= clock /\ block(i).until \in Nat
      BY DEF QuotaInv, TypeOK, ReadingsPast, IteratorState, recommenderQuotaBlock, block
    <2>1. it' # it /\ ~(it'[i] = it[i])
      BY DEF At
    <2>2. CheckPasses(i)
      <3>1. \A r : Fresh(r).pc = "idle" /\ [Fresh(r) EXCEPT !.pc = "opening", !.now = clock].pc = "opening"
        BY DEF Fresh
      <3>2. ASSUME NEW j \in Iterator, Step(j)
            PROVE  j = i
        BY <2>t, <2>1, <3>2 DEF Step, activeRecommendations, BeginNext, Abandon, CheckPasses,
             CheckRefuses, NextBuffered, NextPage, NextQuotaError, NextOtherError, trip, succeed,
             Stop, ReadClock, Passed
      <3>3. Step(i)
        BY <2>1, <3>2 DEF QuotaNext, Tick, quotaVars
      <3>4. ~Stop(i)
        BY <2>t, <3>1 DEF Stop
      <3> QED
        BY <3>3, <3>4 DEF Step, activeRecommendations, BeginNext, Abandon, CheckRefuses,
             NextBuffered, NextPage, NextQuotaError, NextOtherError, trip, succeed, At
    <2> QED
      BY <2>2, <2>t DEF CheckPasses, InForce
  <1> QED
    BY <1>1, InvAlways, PTL DEF QuotaSpec, GateHolds

-----------------------------------------------------------------------------
(***************************************************************************)
(* ToolServer, for any set of settings the process may be started with and *)
(* any size of the cache of regions.                                       *)
(*                                                                         *)
(* Operations are classified by the clients they call and by what becomes  *)
(* of the failures and the cuts of their calls. Each class is closed under *)
(* the ways operations are composed, so that the class of an operation of  *)
(* many calls follows from those of its parts.                             *)
(***************************************************************************)
Tells  == {"none", "panic", "fail", "told"}
Ends   == {"none", "panic", "fail"}
Marked == {"none", "told"}

(* Calls of the clients C whose failure has an effect of F and whose cut    *)
(* one of K; of one that is kept, the failure has an effect of G.           *)
CallsTo(C, F, K, G) ==
  {step \in [client : C, absent : Effect, failed : F, cut : K, asked : Nat, kept : BOOLEAN,
             absentSkips : Nat, failedSkips : Nat] : step.kept => step.failed \in G}

Ops(C, F, K, G) == {op \in Seq(CallsTo(C, F, K, G)) : op # <<>>}

(* The call as it is written down, before anything is said of its outcomes. *)
LEMMA CallStep ==
  ASSUME NEW C, NEW client \in C
  PROVE  Call(client) \in CallsTo(C, Ends, Ends, {})
  <1>1. Call(client) \in [client : C, absent : Effect, failed : Ends, cut : Ends, asked : Nat,
                           kept : BOOLEAN, absentSkips : Nat, failedSkips : Nat]
    BY DEF Call, Ends, Effect
  <1>2. ~Call(client).kept
    BY Zenon DEF Call
  <1> QED BY <1>1, <1>2 DEF CallsTo

(* What each of the modifiers makes of a call.                              *)
LEMMA AbsentStep ==
  ASSUME NEW C, NEW F, NEW K, NEW G, NEW step \in CallsTo(C, F, K, G), NEW effect \in Effect
  PROVE  IfAbsent(step, effect) \in CallsTo(C, F, K, G)
  BY DEF CallsTo, IfAbsent

LEMMA FailedStep ==
  ASSUME NEW C, NEW F, NEW K, NEW E, NEW step \in CallsTo(C, F, K, {}), NEW effect \in E
  PROVE  IfFailed(step, effect) \in CallsTo(C, E, K, {})
  BY DEF CallsTo, IfFailed

LEMMA CutStep ==
  ASSUME NEW C, NEW F, NEW K, NEW G, NEW E, NEW step \in CallsTo(C, F, K, G), NEW effect \in E
  PROVE  IfCut(step, effect) \in CallsTo(C, F, E, G)
  BY DEF CallsTo, IfCut

LEMMA KeptStep ==
  ASSUME NEW C, NEW F, NEW K, NEW G, NEW step \in CallsTo(C, F, K, {}), step.failed \in G
  PROVE  Kept(step) \in CallsTo(C, F, K, G)
  BY DEF CallsTo, Kept

(* A set of calls, and of operations, grows with each of its parameters.    *)
LEMMA WiderStep ==
  ASSUME NEW C, NEW F, NEW K, NEW G, NEW D, NEW E, NEW L, NEW H,
         C \subseteq D, F \subseteq E, K \subseteq L, G \subseteq H
  PROVE  CallsTo(C, F, K, G) \subseteq CallsTo(D, E, L, H)
  BY DEF CallsTo

(* Operations one after the other, and an operation that is not always run. *)
LEMMA Joined ==
  ASSUME NEW C, NEW F, NEW K, NEW G, NEW p \in Ops(C, F, K, G), NEW q \in Ops(C, F, K, G)
  PROVE  p \o q \in Ops(C, F, K, G)
  <1> DEFINE S == CallsTo(C, F, K, G)
  <1> HIDE DEF S
  <1>1. p \in Seq(S) /\ q \in Seq(S) /\ Len(p) \in Nat \ {0} /\ Len(q) \in Nat
    BY DEF Ops, S
  <1>2. p \o q \in Seq(S) /\ Len(p \o q) = Len(p) + Len(q)
    BY <1>1
  <1>3. Len(p \o q) # 0 /\ Len(<<>>) = 0
    BY <1>1, <1>2
  <1> QED BY <1>2, <1>3 DEF Ops, S

LEMMA Wider ==
  ASSUME NEW C, NEW F, NEW K, NEW G, NEW D, NEW E, NEW L, NEW H,
         C \subseteq D, F \subseteq E, K \subseteq L, G \subseteq H
  PROVE  Ops(C, F, K, G) \subseteq Ops(D, E, L, H)
  <1> DEFINE S == CallsTo(C, F, K, G)
             T == CallsTo(D, E, L, H)
  <1>1. S \subseteq T
    BY WiderStep
  <1> HIDE DEF S, T
  <1> QED BY <1>1 DEF Ops, S, T

LEMMA One ==
  ASSUME NEW C, NEW F, NEW K, NEW G, NEW s \in CallsTo(C, F, K, G)
  PROVE  <<s>> \in Ops(C, F, K, G)
  <1> DEFINE S == CallsTo(C, F, K, G)
  <1> HIDE DEF S
  <1> QED BY DEF Ops, S

LEMMA Asked ==
  ASSUME NEW C, NEW F, NEW K, NEW G, NEW op \in Ops(C, F, K, G)
  PROVE  WhenAsked(op) \in Ops(C, F, K, G)
  <1> DEFINE S == CallsTo(C, F, K, G)
  <1>1. op \in Seq(S)  /\ Len(op) \in Nat /\ 1 \in DOMAIN op
    BY DEF Ops
  <1>2. [op[1] EXCEPT !.asked = Len(op)] \in S
    <2>1. op[1] \in S
      BY <1>1
    <2> QED BY <1>1, <2>1 DEF CallsTo
  <1> HIDE DEF S
  <1>3. WhenAsked(op) = [op EXCEPT ![1] = [op[1] EXCEPT !.asked = Len(op)]]
    BY DEF WhenAsked
  <1>4. WhenAsked(op) \in Seq(S) /\ Len(WhenAsked(op)) = Len(op)
    BY <1>1, <1>2, <1>3
  <1>5. Len(op) # 0 /\ Len(<<>>) = 0
    BY <1>1
  <1> QED BY <1>4, <1>5 DEF Ops, S

PassedOn(effect, failure, gaps) ==
  CASE effect = "fail" -> failure [] effect = "empty" -> "silent" [] effect = "told" -> gaps
    [] OTHER -> effect
Passes(E, L, failure, gaps) == \A effect \in E : PassedOn(effect, failure, gaps) \in L

(* An operation behind another one: each call's effects as they are passed  *)
(* on, and those of a call that is kept.                                    *)
LEMMA ThroughFits ==
  ASSUME NEW C, NEW F, NEW K, NEW G, NEW E, NEW L, NEW H, NEW failure, NEW gaps,
         Passes(Effect, Effect, failure, gaps), Passes(F, E, failure, gaps),
         Passes(K, L, failure, gaps), Passes(G, H, failure, gaps),
         NEW op \in Ops(C, F, K, G)
  PROVE  Through(op, failure, gaps) \in Ops(C, E, L, H)
  <1> DEFINE P(i) == [op[i] EXCEPT
               !.absent = PassedOn(@, failure, gaps), !.failed = PassedOn(@, failure, gaps),
               !.cut = PassedOn(@, failure, gaps),
             !.absentSkips = IF op[i].absent \in {"fail", "empty"} THEN Len(op) - i ELSE @,
             !.failedSkips = IF op[i].failed \in {"fail", "empty"} THEN Len(op) - i ELSE @]
  <1>1. op \in Seq(CallsTo(C, F, K, G)) /\ Len(op) \in Nat /\ DOMAIN op = 1..Len(op)
    BY DEF Ops
  <1>2. ASSUME NEW i \in DOMAIN op
        PROVE  P(i) \in CallsTo(C, E, L, H)
    <2>1. op[i] \in CallsTo(C, F, K, G)
      BY <1>1, <1>2
    <2>2. Len(op) - i \in Nat
      BY <1>1, <1>2
    <2>3. PassedOn(op[i].absent, failure, gaps) \in Effect /\ PassedOn(op[i].failed, failure, gaps) \in E
          /\ PassedOn(op[i].cut, failure, gaps) \in L
          /\ (op[i].kept => PassedOn(op[i].failed, failure, gaps) \in H)
      BY <2>1 DEF Passes, CallsTo
    <2> QED BY <2>1, <2>2, <2>3 DEF CallsTo
  <1>3. Through(op, failure, gaps) = [i \in DOMAIN op |-> P(i)]
    BY DEF Through, PassedOn
  <1> DEFINE T == CallsTo(C, E, L, H)
  <1> HIDE DEF P, T
  <1>4. Through(op, failure, gaps) \in Seq(T) /\ Len(Through(op, failure, gaps)) = Len(op)
    BY <1>1, <1>2, <1>3 DEF T
  <1>5. Len(op) # 0 /\ Len(<<>>) = 0
    BY DEF Ops
  <1> QED BY <1>4, <1>5 DEF Ops, T

-----------------------------------------------------------------------------
(* The classes. Strict: every failure ends the operation. Told: every       *)
(* failure and every cut is told of. Sound: so it is, and what is kept of a *)
(* failed discovery warns of it. Telling: cuts may be silent. Paging:       *)
(* failures may be. Plain: both may be. Quiet: both may be, and what is     *)
(* kept warns. Only Sound and Quiet may keep anything.                      *)
Strict(C)  == Ops(C, Ends, Tells, {})
Told(C)    == Ops(C, Tells, Tells, {})
Sound(C)   == Ops(C, Tells, Tells, Marked)
Telling(C) == Ops(C, Tells, Effect, {})
Paging(C)  == Ops(C, Effect, Tells, {})
Plain(C)   == Ops(C, Effect, Effect, {})
Quiet(C)   == Ops(C, Effect, Effect, Marked)

(* How the classes lie in one another.                                      *)
LEMMA Classes ==
  ASSUME NEW C, NEW op
  PROVE  /\ op \in Strict(C) => op \in Told(C)
         /\ op \in Told(C) => op \in Sound(C) /\ op \in Telling(C) /\ op \in Paging(C)
         /\ op \in Telling(C) => op \in Plain(C)
         /\ op \in Paging(C) => op \in Plain(C)
         /\ op \in Sound(C) => op \in Quiet(C)
         /\ op \in Plain(C) => op \in Quiet(C)
  <1>1. Ends \subseteq Tells /\ Tells \subseteq Effect
    BY DEF Ends, Tells, Effect
  <1> QED BY <1>1, Wider DEF Strict, Told, Sound, Telling, Paging, Plain, Quiet

(* What becomes of each class when its operations are run in a row, when    *)
(* they are optional, and when another operation passes on their gaps.      *)
LEMMA Chained ==
  ASSUME NEW C, NEW p, NEW q
  PROVE  /\ p \in Told(C) /\ q \in Told(C) => p \o q \in Told(C)
         /\ p \in Sound(C) /\ q \in Sound(C) => p \o q \in Sound(C)
         /\ p \in Telling(C) /\ q \in Telling(C) => p \o q \in Telling(C)
         /\ p \in Paging(C) /\ q \in Paging(C) => p \o q \in Paging(C)
         /\ p \in Plain(C) /\ q \in Plain(C) => p \o q \in Plain(C)
         /\ p \in Quiet(C) /\ q \in Quiet(C) => p \o q \in Quiet(C)
  BY Joined DEF Told, Sound, Telling, Paging, Plain, Quiet

LEMMA Optional ==
  ASSUME NEW C, NEW op
  PROVE  /\ op \in Told(C) => WhenAsked(op) \in Told(C)
         /\ op \in Telling(C) => WhenAsked(op) \in Telling(C)
         /\ op \in Paging(C) => WhenAsked(op) \in Paging(C)
         /\ op \in Plain(C) => WhenAsked(op) \in Plain(C)
         /\ op \in Quiet(C) => WhenAsked(op) \in Quiet(C)
  BY Asked DEF Told, Telling, Paging, Plain, Quiet

(* What the forms of Through that occur make of effects. Only what fails on *)
(* every failure may have its gaps overlooked and still tell of failures.   *)
LEMMA PassingOn ==
  /\ \A failure \in {"told", "fail"}, gaps \in {"told", "silent"} :
       /\ Passes(Effect, Effect, failure, gaps)
       /\ Passes(Ends, Tells, failure, gaps)
       /\ Passes({}, {}, failure, gaps)
  /\ \A failure \in {"told", "fail"} :
       Passes(Tells, Tells, failure, "told") /\ Passes(Marked, Marked, failure, "told")
  /\ \A E : Passes({}, E, "told", "silent") /\ Passes({}, E, "fail", "silent")
  BY DEF Passes, PassedOn, Effect, Ends, Tells, Marked

LEMMA Relayed ==
  ASSUME NEW C, NEW op, NEW failure \in {"told", "fail"}
  PROVE  /\ op \in Told(C) => Through(op, failure, "told") \in Told(C)
         /\ op \in Sound(C) => Through(op, failure, "told") \in Sound(C)
         /\ op \in Telling(C) => Through(op, failure, "told") \in Telling(C)
         /\ op \in Paging(C) => Through(op, failure, "told") \in Paging(C)
         /\ op \in Plain(C) => Through(op, failure, "told") \in Plain(C)
         /\ op \in Quiet(C) => Through(op, failure, "told") \in Quiet(C)
         /\ op \in Strict(C) => Through(op, failure, "silent") \in Telling(C)
         /\ op \in Plain(C) => Through(op, failure, "silent") \in Plain(C)
  <1>1. Passes(Ends, Tells, failure, "silent") /\ Passes(Tells, Effect, failure, "silent")
    BY PassingOn DEF Passes, PassedOn, Effect, Ends, Tells, Marked
  <1> QED BY <1>1, PassingOn, ThroughFits DEF Strict, Told, Sound, Telling, Paging, Plain, Quiet

LEMMA Composed ==
  ASSUME NEW C, NEW op
  PROVE  /\ op \in Told(C) => Trusting(op) \in Told(C) /\ Requiring(op) \in Told(C)
         /\ op \in Sound(C) => Trusting(op) \in Sound(C)
         /\ op \in Telling(C) => Trusting(op) \in Telling(C)
         /\ op \in Paging(C) => Trusting(op) \in Paging(C)
         /\ op \in Quiet(C) => Trusting(op) \in Quiet(C) /\ Requiring(op) \in Quiet(C)
         /\ op \in Strict(C) => Reporting(op) \in Telling(C) /\ Assuming(op) \in Telling(C)
         /\ op \in Plain(C) => Reporting(op) \in Plain(C) /\ Assuming(op) \in Plain(C)
  BY Relayed DEF Trusting, Requiring, Reporting, Assuming

(* The forms in which the operations write their calls.                     *)
LEMMA Forms ==
  ASSUME NEW C, NEW client, client \in C
  PROVE  /\ Call(client) \in CallsTo(C, Ends, Tells, {})
         /\ Guarded(client) \in CallsTo(C, Ends, Tells, {})
         /\ OrEmpty(client) \in CallsTo(C, Ends, Tells, {})
         /\ Noted(client) \in CallsTo(C, Tells, Tells, {})
  <1>1. /\ Ends \subseteq Tells /\ "told" \in Tells
        /\ "fail" \in Effect /\ "empty" \in Effect /\ "told" \in Effect
    BY DEF Ends, Tells, Effect
  <1>2. Call(client) \in CallsTo(C, Ends, Tells, {})
    BY <1>1, CallStep, WiderStep
  <1>3. Guarded(client) \in CallsTo(C, Ends, Tells, {}) /\ OrEmpty(client) \in CallsTo(C, Ends, Tells, {})
    BY <1>1, <1>2, AbsentStep DEF Guarded, OrEmpty
  <1>4. Noted(client) \in CallsTo(C, Tells, Tells, {})
    BY <1>1, <1>2, AbsentStep, FailedStep DEF Noted
  <1> QED BY <1>2, <1>3, <1>4

(* Operations of a few calls.                                               *)
LEMMA Two ==
  ASSUME NEW C, NEW F, NEW K, NEW G, NEW s \in CallsTo(C, F, K, G), NEW t \in CallsTo(C, F, K, G)
  PROVE  <<s, t>> \in Ops(C, F, K, G)
  <1> DEFINE S == CallsTo(C, F, K, G)
  <1> HIDE DEF S
  <1> QED BY DEF Ops, S

LEMMA Three ==
  ASSUME NEW C, NEW F, NEW K, NEW G, NEW s \in CallsTo(C, F, K, G), NEW t \in CallsTo(C, F, K, G),
         NEW u \in CallsTo(C, F, K, G)
  PROVE  <<s, t, u>> \in Ops(C, F, K, G)
  <1> DEFINE S == CallsTo(C, F, K, G)
  <1> HIDE DEF S
  <1> QED BY DEF Ops, S

LEMMA Four ==
  ASSUME NEW C, NEW F, NEW K, NEW G, NEW s \in CallsTo(C, F, K, G), NEW t \in CallsTo(C, F, K, G),
         NEW u \in CallsTo(C, F, K, G), NEW v \in CallsTo(C, F, K, G)
  PROVE  <<s, t, u, v>> \in Ops(C, F, K, G)
  <1> DEFINE S == CallsTo(C, F, K, G)
  <1> HIDE DEF S
  <1> QED BY DEF Ops, S

LEMMA Five ==
  ASSUME NEW C, NEW F, NEW K, NEW G, NEW s \in CallsTo(C, F, K, G), NEW t \in CallsTo(C, F, K, G),
         NEW u \in CallsTo(C, F, K, G), NEW v \in CallsTo(C, F, K, G),
         NEW w \in CallsTo(C, F, K, G)
  PROVE  <<s, t, u, v, w>> \in Ops(C, F, K, G)
  <1> DEFINE S == CallsTo(C, F, K, G)
  <1> HIDE DEF S
  <1> QED BY DEF Ops, S

LEMMA Variants ==
  ASSUME NEW C, NEW s
  PROVE  /\ s \in CallsTo(C, Ends, Tells, {}) =>
              /\ s \in CallsTo(C, Tells, Tells, {})
              /\ Paged(s) \in CallsTo(C, Ends, Tells, {})
              /\ IfAbsent(s, "told") \in CallsTo(C, Ends, Tells, {})
              /\ IfAbsent(s, "silent") \in CallsTo(C, Ends, Tells, {})
              /\ IfFailed(s, "told") \in CallsTo(C, Tells, Tells, {})
         /\ s \in CallsTo(C, Tells, Tells, {}) =>
              /\ Paged(s) \in CallsTo(C, Tells, Tells, {})
              /\ IfCut(s, "silent") \in CallsTo(C, Tells, Effect, {})
              /\ IfAbsent(s, "silent") \in CallsTo(C, Tells, Tells, {})
              /\ IfFailed(s, "silent") \in CallsTo(C, Effect, Tells, {})
              /\ s.failed = "told" => Kept(s) \in CallsTo(C, Tells, Tells, Marked)
              /\ s \in CallsTo(C, Tells, Tells, Marked)
              /\ s \in CallsTo(C, Effect, Tells, {})
              /\ s \in CallsTo(C, Tells, Effect, {})
         /\ s \in CallsTo(C, Effect, Tells, {}) => Paged(s) \in CallsTo(C, Effect, Tells, {})
  <1>1. /\ Ends \subseteq Tells /\ Tells \subseteq Effect /\ "told" \in Tells /\ "told" \in Marked
        /\ "told" \in Effect /\ "silent" \in Effect
    BY DEF Ends, Tells, Effect, Marked
  <1>2. s \in CallsTo(C, Ends, Tells, {}) => s \in CallsTo(C, Tells, Tells, {})
    BY <1>1, WiderStep
  <1>3. s \in CallsTo(C, Tells, Tells, {}) => 
                /\ s \in CallsTo(C, Tells, Tells, Marked)
                /\ s \in CallsTo(C, Effect, Tells, {})
                /\ s \in CallsTo(C, Tells, Effect, {})
    BY <1>1, WiderStep
  <1>4. s \in CallsTo(C, Tells, Tells, {}) /\ s.failed = "told" =>
          Kept(s) \in CallsTo(C, Tells, Tells, Marked)
    BY <1>1, KeptStep
  <1> QED BY <1>1, <1>2, <1>3, <1>4, AbsentStep, FailedStep, CutStep DEF Paged

(* The two discoveries whose result is kept note their failure.             *)
LEMMA FailureOf ==
  ASSUME NEW client
  PROVE  /\ Noted(client).failed = "told"
         /\ IfFailed(OrEmpty(client), "told").failed = "told"
  BY DEF Noted, OrEmpty, IfAbsent, IfFailed, Call

-----------------------------------------------------------------------------
(* The operations one by one.                                               *)
(* The regional listers keep the regions they discover, with their warning; *)
(* executions may be cut short without a word.                              *)
LEMMA RegionalOps ==
  ASSUME NEW C
  PROVE  /\ "Eventarc" \in C => ListTriggers \in Sound(C)
         /\ "Scheduler" \in C => ListSchedulerJobs \in Sound(C)
         /\ "Workflows" \in C => ListWorkflows \in Sound(C)
         /\ "Tasks" \in C => ListTaskQueues \in Sound(C)
         /\ "VPCAccess" \in C => ListVPCConnectors \in Sound(C)
         /\ "Eventarc" \in C => GetTrigger \in Told(C)
         /\ "WorkflowExec" \in C => ListWorkflowExecutions \in Telling(C)
         /\ "SecretMgr" \in C /\ "RunSvc" \in C => ListSecrets \in Told(C)
         /\ "SQLAdmin" \in C => ListSQLInstances \in Told(C)
         /\ "FunctionsV1" \in C /\ "RunSvc" \in C => ListFunctions \in Told(C)
         /\ "FunctionsV1" \in C /\ "RunSvc" \in C => GetFunctionDetails \in Told(C)
  <1>1. "Eventarc" \in C => ListTriggers \in Sound(C)
    BY Forms, Variants, FailureOf, One, Joined DEF ListTriggers, discoverRegions, regionalListing, Sound
  <1>2. "Scheduler" \in C => ListSchedulerJobs \in Sound(C)
    BY Forms, Variants, FailureOf, One, Joined DEF ListSchedulerJobs, discoverRegions, regionalListing, Sound
  <1>3. "Workflows" \in C => ListWorkflows \in Sound(C)
    BY Forms, Variants, FailureOf, One, Joined DEF ListWorkflows, discoverRegions, regionalListing, Sound
  <1>4. "Tasks" \in C => ListTaskQueues \in Sound(C)
    BY Forms, Variants, FailureOf, One, Joined DEF ListTaskQueues, discoverRegions, regionalListing, Sound
  <1>5. "VPCAccess" \in C => ListVPCConnectors \in Sound(C)
    BY Forms, Variants, FailureOf, Two DEF ListVPCConnectors, Sound
  <1>6. "Eventarc" \in C => GetTrigger \in Told(C)
    BY Forms, Variants, One DEF GetTrigger, Told
  <1>7. "WorkflowExec" \in C => ListWorkflowExecutions \in Telling(C)
    BY Forms, Variants, One DEF ListWorkflowExecutions, Telling
  <1>8. "SecretMgr" \in C /\ "RunSvc" \in C => ListSecrets \in Told(C)
    BY Forms, Variants, One, Joined, Asked DEF ListSecrets, Told
  <1>9. "SQLAdmin" \in C => ListSQLInstances \in Told(C)
    BY Forms, Variants, One DEF ListSQLInstances, Told
  <1>10. "FunctionsV1" \in C /\ "RunSvc" \in C => ListFunctions \in Told(C)
    BY Forms, Variants, One, Joined, Asked DEF ListFunctions, listFunctionsV1, listFunctionsV2, Told
  <1>11. "FunctionsV1" \in C /\ "RunSvc" \in C => GetFunctionDetails \in Told(C)
    BY Forms, Variants, One, Joined, Asked DEF GetFunctionDetails, Told
  <1> QED
    BY <1>1, <1>2, <1>3, <1>4, <1>5, <1>6, <1>7, <1>8, <1>9, <1>10, <1>11

(* Cloud Run: only the executions of a job are cut short without a word.    *)
LEMMA RunOps ==
  ASSUME NEW C
  PROVE  /\ "RunSvc" \in C => ListServices \in Strict(C)
         /\ "RunJobs" \in C => ListJobs \in Told(C)
         /\ "RunJobs" \in C => GetJobDetails \in Told(C)
         /\ "RunExecs" \in C => ListJobExecutions \in Telling(C)
         /\ "RunSvc" \in C => GetServiceDetails \in Told(C)
         /\ "RunRevisions" \in C => ListRevisions \in Told(C)
         /\ "RunSvc" \in C => UpdateTraffic \in Told(C)
  <1>1. "RunSvc" \in C => ListServices \in Strict(C)
    BY Forms, Variants, One DEF ListServices, Strict
  <1>2. "RunJobs" \in C => ListJobs \in Told(C)
    BY Forms, Variants, One DEF ListJobs, Told
  <1>3. "RunJobs" \in C => GetJobDetails \in Told(C)
    BY Forms, Variants, One DEF GetJobDetails, Told
  <1>4. "RunExecs" \in C => ListJobExecutions \in Telling(C)
    BY Forms, Variants, One DEF ListJobExecutions, Telling
  <1>5. "RunSvc" \in C => GetServiceDetails \in Told(C)
    BY Forms, Variants, One DEF GetServiceDetails, Told
  <1>6. "RunRevisions" \in C => ListRevisions \in Told(C)
    BY Forms, Variants, One DEF ListRevisions, Told
  <1>7. "RunSvc" \in C => UpdateTraffic \in Told(C)
    BY Forms, Variants, Two DEF UpdateTraffic, Told
  <1> QED
    BY <1>1, <1>2, <1>3, <1>4, <1>5, <1>6, <1>7

(* Storage, data and messages. A namespace whose services could not be read *)
(* is a failure passed over; a list of buckets is cut short.                *)
LEMMA DataOps ==
  ASSUME NEW C
  PROVE  /\ "BQ" \in C => ListDatasets \in Told(C)
         /\ "BQ" \in C => ListTables \in Told(C)
         /\ "BQ" \in C => GetTableSchema \in Told(C)
         /\ "GCS" \in C /\ "CRM" \in C => checkedBucketAttrs \in Told(C)
         /\ "GCS" \in C => ListBuckets \in Telling(C)
         /\ "GCS" \in C /\ "CRM" \in C => ListBucketObjects \in Told(C)
         /\ "GCS" \in C /\ "CRM" \in C => GetBucketMetadata \in Told(C)
         /\ "PubSub" \in C => ListTopics \in Told(C)
         /\ "PubSub" \in C /\ "Metric" \in C => InspectTopicHealth \in Told(C)
         /\ "PubSub" \in C => ListSubscriptions \in Told(C)
         /\ "Spanner" \in C => ListSpannerInstances \in Told(C)
         /\ "AlloyDB" \in C => ListAlloyDBClusters \in Told(C)
         /\ "Firestore" \in C => ListFirestoreDatabases \in Told(C)
         /\ "Memorystore" \in C => ListMemorystoreInstances \in Told(C)
         /\ "ArtifactRegistry" \in C => ListArtifactRegistryRepos \in Told(C)
         /\ "ArtifactRegistry" \in C => ListArtifactRegistryImages \in Told(C)
         /\ "CloudBuild" \in C => ListCloudBuildTriggers \in Told(C)
         /\ "ServiceDirectory" \in C => ListServiceDirectoryNamespaces \in Paging(C)
         /\ "Recommender" \in C /\ "BQ" \in C => ExportRecommendationsToBQ \in Told(C)
  <1>1. "BQ" \in C => ListDatasets \in Told(C)
    BY Forms, Variants, Two DEF ListDatasets, Told
  <1>2. "BQ" \in C => ListTables \in Told(C)
    BY Forms, Variants, Two DEF ListTables, Told
  <1>3. "BQ" \in C => GetTableSchema \in Told(C)
    BY Forms, Variants, One DEF GetTableSchema, Told
  <1>4. "GCS" \in C /\ "CRM" \in C => checkedBucketAttrs \in Told(C)
    BY Forms, Variants, Two DEF checkedBucketAttrs, Told
  <1>5. "GCS" \in C => ListBuckets \in Telling(C)
    BY Forms, Variants, One DEF ListBuckets, Telling
  <1>6. "GCS" \in C /\ "CRM" \in C => ListBucketObjects \in Told(C)
    BY Forms, Variants, One, Two, Joined DEF ListBucketObjects, checkedBucketAttrs, Told
  <1>7. "GCS" \in C /\ "CRM" \in C => GetBucketMetadata \in Told(C)
    BY Forms, Variants, Two DEF GetBucketMetadata, checkedBucketAttrs, Told
  <1>8. "PubSub" \in C => ListTopics \in Told(C)
    BY Forms, Variants, Two DEF ListTopics, Told
  <1>9. "PubSub" \in C /\ "Metric" \in C => InspectTopicHealth \in Told(C)
    BY Forms, Variants, Three DEF InspectTopicHealth, Told
  <1>10. "PubSub" \in C => ListSubscriptions \in Told(C)
    BY Forms, Variants, Two DEF ListSubscriptions, Told
  <1>11. "Spanner" \in C => ListSpannerInstances \in Told(C)
    BY Forms, Variants, One DEF ListSpannerInstances, Told
  <1>12. "AlloyDB" \in C => ListAlloyDBClusters \in Told(C)
    BY Forms, Variants, One DEF ListAlloyDBClusters, Told
  <1>13. "Firestore" \in C => ListFirestoreDatabases \in Told(C)
    BY Forms, Variants, One DEF ListFirestoreDatabases, Told
  <1>14. "Memorystore" \in C => ListMemorystoreInstances \in Told(C)
    BY Forms, Variants, One DEF ListMemorystoreInstances, Told
  <1>15. "ArtifactRegistry" \in C => ListArtifactRegistryRepos \in Told(C)
    BY Forms, Variants, One DEF ListArtifactRegistryRepos, Told
  <1>16. "ArtifactRegistry" \in C => ListArtifactRegistryImages \in Told(C)
    BY Forms, Variants, One DEF ListArtifactRegistryImages, Told
  <1>17. "CloudBuild" \in C => ListCloudBuildTriggers \in Told(C)
    BY Forms, Variants, One DEF ListCloudBuildTriggers, Told
  <1>18. "ServiceDirectory" \in C => ListServiceDirectoryNamespaces \in Paging(C)
    BY Forms, Variants, Two DEF ListServiceDirectoryNamespaces, Paging
  <1>19. "Recommender" \in C /\ "BQ" \in C => ExportRecommendationsToBQ \in Told(C)
    BY Forms, Variants, Three DEF ExportRecommendationsToBQ, Told
  <1> QED
    BY <1>1, <1>2, <1>3, <1>4, <1>5, <1>6, <1>7, <1>8, <1>9, <1>10, <1>11, <1>12, <1>13, <1>14, <1>15,
       <1>16, <1>17, <1>18, <1>19

(* Networking, tags and IAM.                                                *)
LEMMA NetworkOps ==
  ASSUME NEW C
  PROVE  /\ "Compute" \in C => ListLoadBalancers \in Told(C)
         /\ "Compute" \in C => ListURLMaps \in Told(C)
         /\ "Compute" \in C => ListNEGs \in Told(C)
         /\ "APIGateway" \in C => ListAPIGateways \in Told(C)
         /\ "Compute" \in C => ListVPCNetworks \in Told(C)
         /\ "Compute" \in C => ListVPCSubnets \in Told(C)
         /\ "Compute" \in C => ListPSCEndpoints \in Told(C)
         /\ "CRMv3" \in C => ListTaggedResources \in Told(C)
         /\ "GCS" \in C /\ "CRM" \in C => GetResourceIAMBindings \in Told(C)
         /\ "IAMAdmin" \in C => ListServiceAccounts \in Told(C)
         /\ "CRM" \in C => TestPermissions \in Told(C)
  <1>1. "Compute" \in C => ListLoadBalancers \in Told(C)
    BY Forms, Variants, One, Joined, Asked DEF ListLoadBalancers, Told
  <1>2. "Compute" \in C => ListURLMaps \in Told(C)
    BY Forms, Variants, One, Joined, Asked DEF ListURLMaps, Told
  <1>3. "Compute" \in C => ListNEGs \in Told(C)
    BY Forms, Variants, One DEF ListNEGs, Told
  <1>4. "APIGateway" \in C => ListAPIGateways \in Told(C)
    BY Forms, Variants, One DEF ListAPIGateways, Told
  <1>5. "Compute" \in C => ListVPCNetworks \in Told(C)
    BY Forms, Variants, One DEF ListVPCNetworks, Told
  <1>6. "Compute" \in C => ListVPCSubnets \in Told(C)
    BY Forms, Variants, One DEF ListVPCSubnets, Told
  <1>7. "Compute" \in C => ListPSCEndpoints \in Told(C)
    BY Forms, Variants, One DEF ListPSCEndpoints, Told
  <1>8. "CRMv3" \in C => ListTaggedResources \in Told(C)
    BY Forms, Variants, One DEF ListTaggedResources, Told
  <1>9. "GCS" \in C /\ "CRM" \in C => GetResourceIAMBindings \in Told(C)
    <2>1. "GCS" \in C => <<Guarded("GCS")>> \in Told(C)
      BY Forms, Variants, One DEF Told
    <2>2. "GCS" \in C /\ "CRM" \in C => checkedBucketAttrs \in Told(C)
      BY Forms, Variants, Two DEF checkedBucketAttrs, Told
    <2>3. "CRM" \in C => <<Guarded("CRM")>> \in Told(C)
      BY Forms, Variants, One DEF Told
    <2> QED BY <2>1, <2>2, <2>3, Chained, Optional DEF GetResourceIAMBindings
  <1>10. "IAMAdmin" \in C => ListServiceAccounts \in Told(C)
    BY Forms, Variants, One DEF ListServiceAccounts, Told
  <1>11. "CRM" \in C => TestPermissions \in Told(C)
    BY Forms, Variants, One DEF TestPermissions, Told
  <1> QED
    BY <1>1, <1>2, <1>3, <1>4, <1>5, <1>6, <1>7, <1>8, <1>9, <1>10, <1>11

(* Logs, metrics, traces and what is configured of them.                    *)
LEMMA SignalOps ==
  ASSUME NEW C
  PROVE  /\ "LogAdmin" \in C => QueryRecentLogs \in Strict(C)
         /\ "MonitoringV3" \in C => ListAlertPolicies \in Told(C)
         /\ "MonitoringV3" \in C => ListUptimeChecks \in Told(C)
         /\ "MonitoringV3" \in C => ListSLOs \in Told(C)
         /\ "MonitoringV1" \in C => ListDashboards \in Told(C)
         /\ "Metric" \in C => ListMetricDescriptors \in Told(C)
         /\ "Metric" \in C /\ "Trace" \in C => ListTraceServices \in Told(C)
         /\ "Metric" \in C => GetMetrics \in Strict(C)
         /\ "Trace" \in C => ListTraceDependencyEdges \in Told(C)
  <1>1. "LogAdmin" \in C => QueryRecentLogs \in Strict(C)
    BY Forms, Variants, One DEF QueryRecentLogs, Strict
  <1>2. "MonitoringV3" \in C => ListAlertPolicies \in Told(C)
    BY Forms, Variants, One DEF ListAlertPolicies, Told
  <1>3. "MonitoringV3" \in C => ListUptimeChecks \in Told(C)
    BY Forms, Variants, One DEF ListUptimeChecks, Told
  <1>4. "MonitoringV3" \in C => ListSLOs \in Told(C)
    BY Forms, Variants, Two DEF ListSLOs, Told
  <1>5. "MonitoringV1" \in C => ListDashboards \in Told(C)
    BY Forms, Variants, One DEF ListDashboards, Told
  <1>6. "Metric" \in C => ListMetricDescriptors \in Told(C)
    BY Forms, Variants, One DEF ListMetricDescriptors, Told
  <1>7. "Metric" \in C /\ "Trace" \in C => ListTraceServices \in Told(C)
    <2>1. "Metric" \in C => <<Paged(Call("Metric"))>> \in Told(C)
      BY Forms, Variants, One DEF Told
    <2>2. "Trace" \in C => <<Paged(Call("Trace"))>> \in Told(C)
      BY Forms, Variants, One DEF Told
    <2> QED BY <2>1, <2>2, Chained, Optional DEF ListTraceServices
  <1>8. "Metric" \in C => GetMetrics \in Strict(C)
    BY Forms, Variants, One DEF GetMetrics, Strict
  <1>9. "Trace" \in C => ListTraceDependencyEdges \in Told(C)
    BY Forms, Variants, One DEF ListTraceDependencyEdges, Told
  <1> QED
    BY <1>1, <1>2, <1>3, <1>4, <1>5, <1>6, <1>7, <1>8, <1>9

(* Clusters and what runs in them.                                          *)
LEMMA GKEOps ==
  ASSUME NEW C
  PROVE  /\ "ClusterMgr" \in C => ListClusters \in Told(C)
         /\ "ClusterMgr" \in C => GetClusterDetails \in Strict(C)
         /\ "ClusterMgr" \in C /\ "K8s" \in C => ListGKEWorkloads \in Told(C)
         /\ "ClusterMgr" \in C /\ "K8s" \in C => GetGKEWorkloadDetails \in Told(C)
         /\ "ClusterMgr" \in C /\ "K8s" \in C => ListGKEServices \in Told(C)
         /\ "ClusterMgr" \in C /\ "K8s" \in C => ListGKEIngresses \in Told(C)
         /\ "ClusterMgr" \in C /\ "K8s" \in C => ListGKENetworkPolicies \in Told(C)
         /\ "Metric" \in C /\ "LogAdmin" \in C => GetGKEMeshTopology \in Telling(C)
         /\ "ClusterMgr" \in C => ScaleDeployment \in Told(C)
  <1>14. "ClusterMgr" \in C => dialK8s \in Told(C)
    BY Forms, Variants, One DEF dialK8s, Told
  <1>b. "K8s" \in C => <<K8sAPI>> \in Told(C) /\ <<Paged(K8sAPI)>> \in Told(C)
    BY Forms, Variants, One DEF K8sAPI, Told
  <1>1. "ClusterMgr" \in C => ListClusters \in Told(C)
    BY Forms, Variants, One DEF ListClusters, Told
  <1>2. "ClusterMgr" \in C => GetClusterDetails \in Strict(C)
    BY Forms, Variants, One DEF GetClusterDetails, Strict
  <1>3. "ClusterMgr" \in C /\ "K8s" \in C => ListGKEWorkloads \in Told(C)
    BY <1>14, <1>b, Chained, Optional DEF ListGKEWorkloads
  <1>4. "ClusterMgr" \in C /\ "K8s" \in C => GetGKEWorkloadDetails \in Told(C)
    BY <1>14, <1>b, Chained, Optional DEF GetGKEWorkloadDetails
  <1>5. "ClusterMgr" \in C /\ "K8s" \in C => ListGKEServices \in Told(C)
    BY <1>14, <1>b, Chained, Optional DEF ListGKEServices
  <1>6. "ClusterMgr" \in C /\ "K8s" \in C => ListGKEIngresses \in Told(C)
    BY <1>14, <1>b, Chained, Optional DEF ListGKEIngresses
  <1>7. "ClusterMgr" \in C /\ "K8s" \in C => ListGKENetworkPolicies \in Told(C)
    BY <1>14, <1>b, Chained, Optional DEF ListGKENetworkPolicies
  <1>8. "Metric" \in C /\ "LogAdmin" \in C => GetGKEMeshTopology \in Telling(C)
    <2>1. "Metric" \in C => istioMeshEdges \in Telling(C)
      BY Forms, Variants, One DEF istioMeshEdges, Telling
    <2>2. "LogAdmin" \in C => logBasedMeshEdges \in Telling(C)
      BY Forms, Variants, One DEF logBasedMeshEdges, Telling
    <2> QED BY <2>1, <2>2, Chained, Optional DEF GetGKEMeshTopology
  <1>9. "ClusterMgr" \in C => ScaleDeployment \in Told(C)
    BY Forms, Variants, Two DEF ScaleDeployment, Told
  <1> QED
    BY <1>1, <1>2, <1>3, <1>4, <1>5, <1>6, <1>7, <1>8, <1>9

-----------------------------------------------------------------------------
(* The operations that are composed of others. First, the parts of the      *)
(* architecture graph, each with the caller's view of it.                   *)
LEMMA GraphParts ==
  ASSUME NEW C, moduleClientDeps["archgraph"] \cup {"K8s"} \subseteq C
  PROVE  /\ Reporting(ListServices) \in Quiet(C) /\ Reporting(ListJobs) \in Quiet(C)
         /\ Reporting(ListFunctions) \in Quiet(C) /\ Trusting(ListTriggers) \in Quiet(C)
         /\ Trusting(ListSchedulerJobs) \in Quiet(C) /\ Trusting(ListWorkflows) \in Quiet(C)
         /\ Trusting(ListTaskQueues) \in Quiet(C) /\ Reporting(ListSecrets) \in Quiet(C)
         /\ Reporting(ListSubscriptions) \in Quiet(C) /\ Trusting(ListVPCConnectors) \in Quiet(C)
         /\ Reporting(ListSQLInstances) \in Quiet(C) /\ Reporting(ListTopics) \in Quiet(C)
         /\ Reporting(ListSpannerInstances) \in Quiet(C) /\ Reporting(ListAlloyDBClusters) \in Quiet(C)
         /\ Reporting(ListFirestoreDatabases) \in Quiet(C)
         /\ Reporting(ListMemorystoreInstances) \in Quiet(C)
         /\ Reporting(ListArtifactRegistryRepos) \in Quiet(C)
         /\ Reporting(ListCloudBuildTriggers) \in Quiet(C)
         /\ Reporting(ListServiceDirectoryNamespaces) \in Quiet(C)
         /\ Reporting(ListLoadBalancers) \in Quiet(C) /\ Reporting(ListURLMaps) \in Quiet(C)
         /\ Reporting(ListNEGs) \in Quiet(C) /\ Reporting(ListAPIGateways) \in Quiet(C)
         /\ Reporting(ListVPCNetworks) \in Quiet(C) /\ Reporting(ListVPCSubnets) \in Quiet(C)
         /\ Reporting(ListPSCEndpoints) \in Quiet(C) /\ Trusting(ListServiceAccounts) \in Quiet(C)
         /\ Reporting(ListClusters) \in Quiet(C) /\ Reporting(ListGKEWorkloads) \in Quiet(C)
         /\ Reporting(ListGKEServices) \in Quiet(C) /\ Reporting(ListGKEIngresses) \in Quiet(C)
         /\ Reporting(ListTraceDependencyEdges) \in Quiet(C)
         /\ Reporting(GetGKEMeshTopology) \in Quiet(C)
  <1>1. /\ "RunSvc" \in C /\ "RunJobs" \in C /\ "FunctionsV1" \in C /\ "Eventarc" \in C
        /\ "Scheduler" \in C /\ "Workflows" \in C /\ "Tasks" \in C /\ "SecretMgr" \in C
        /\ "VPCAccess" \in C /\ "SQLAdmin" \in C /\ "PubSub" \in C /\ "Spanner" \in C
        /\ "AlloyDB" \in C /\ "Firestore" \in C /\ "Memorystore" \in C /\ "ArtifactRegistry" \in C
        /\ "CloudBuild" \in C /\ "ServiceDirectory" \in C /\ "Compute" \in C /\ "APIGateway" \in C
        /\ "IAMAdmin" \in C /\ "ClusterMgr" \in C /\ "Metric" \in C /\ "Trace" \in C
        /\ "LogAdmin" \in C /\ "K8s" \in C
    BY DEF moduleClientDeps
  <1>2. \A op : op \in Told(C) \/ op \in Telling(C) \/ op \in Paging(C) \/ op \in Strict(C)
                  => Reporting(op) \in Quiet(C) /\ Trusting(op) \in Quiet(C)
    BY Composed, Classes
  <1>3. \A op : op \in Sound(C) => Trusting(op) \in Quiet(C)
    BY Composed, Classes
  <1> QED BY <1>1, <1>2, <1>3, RegionalOps, RunOps, DataOps, NetworkOps, SignalOps, GKEOps

(* Both graphs and the diagram lose failures and pages, and call only       *)
(* clients that the module of the architecture graph opens.                 *)
LEMMA Graph ==
  ASSUME NEW C, moduleClientDeps["archgraph"] \cup {"K8s"} \subseteq C
  PROVE  /\ ExportServerlessGraph \in Quiet(C) /\ ExportArchitectureGraph \in Quiet(C)
         /\ Generate \in Quiet(C)
  <1>1. ExportServerlessGraph \in Quiet(C)
    BY GraphParts, Chained DEF ExportServerlessGraph
  <1>2. ExportArchitectureGraph \in Quiet(C)
    BY GraphParts, Chained, Optional DEF ExportArchitectureGraph
  <1> QED BY <1>1, <1>2, Composed DEF Generate

(* What a caller that notes errors only makes of each class.                *)
LEMMA Relaying ==
  ASSUME NEW C, NEW op
  PROVE  /\ op \in Told(C) \/ op \in Telling(C) \/ op \in Paging(C) \/ op \in Strict(C)
              => Reporting(op) \in Quiet(C) /\ Trusting(op) \in Quiet(C)
         /\ op \in Sound(C) => Trusting(op) \in Quiet(C)
  BY Composed, Classes

(* The comparison of two environments: its buckets need the project's number *)
(* as well, for which the resources' own client is open.                     *)
LEMMA DriftOps ==
  ASSUME NEW C, moduleClientDeps["drift"] \cup {"K8s", "CRM"} \subseteq C
  PROVE  Compare \in Quiet(C)
  <1>1. /\ "RunSvc" \in C /\ "RunRevisions" \in C /\ "RunJobs" \in C /\ "FunctionsV1" \in C
        /\ "Eventarc" \in C /\ "Scheduler" \in C /\ "Workflows" \in C /\ "Tasks" \in C
        /\ "SecretMgr" \in C /\ "VPCAccess" \in C /\ "SQLAdmin" \in C
    BY DEF moduleClientDeps
  <1>2. /\ "PubSub" \in C /\ "GCS" \in C /\ "CRM" \in C /\ "BQ" \in C /\ "Spanner" \in C
        /\ "AlloyDB" \in C /\ "Firestore" \in C /\ "Memorystore" \in C /\ "ArtifactRegistry" \in C
        /\ "CloudBuild" \in C /\ "ServiceDirectory" \in C /\ "MonitoringV3" \in C
        /\ "MonitoringV1" \in C /\ "IAMAdmin" \in C
    BY DEF moduleClientDeps
  <1>3. "ClusterMgr" \in C /\ "K8s" \in C /\ "Compute" \in C /\ "APIGateway" \in C
    BY DEF moduleClientDeps
  <1>4. compareServerless \in Quiet(C)
    <2>1. /\ Trusting(ListServices) \in Quiet(C) /\ Trusting(GetServiceDetails) \in Quiet(C)
          /\ Trusting(ListRevisions) \in Quiet(C) /\ Trusting(ListJobs) \in Quiet(C)
          /\ Trusting(GetJobDetails) \in Quiet(C)
      BY <1>1, RunOps, Relaying
    <2>2. /\ Trusting(ListFunctions) \in Quiet(C) /\ Trusting(GetFunctionDetails) \in Quiet(C)
          /\ Trusting(ListTriggers) \in Quiet(C) /\ Trusting(ListSchedulerJobs) \in Quiet(C)
          /\ Trusting(ListWorkflows) \in Quiet(C) /\ Trusting(ListTaskQueues) \in Quiet(C)
          /\ Trusting(ListSecrets) \in Quiet(C) /\ Trusting(ListVPCConnectors) \in Quiet(C)
          /\ Trusting(ListSQLInstances) \in Quiet(C)
      BY <1>1, RegionalOps, Relaying
    <2> QED BY <2>1, <2>2, Chained DEF compareServerless
  <1>5. compareData \in Quiet(C)
    <2>1. /\ Trusting(ListTopics) \in Quiet(C) /\ Trusting(ListSubscriptions) \in Quiet(C)
          /\ Trusting(ListBuckets) \in Quiet(C) /\ Trusting(GetBucketMetadata) \in Quiet(C)
          /\ Reporting(ListDatasets) \in Quiet(C) /\ Reporting(ListTables) \in Quiet(C)
          /\ Trusting(GetTableSchema) \in Quiet(C) /\ Trusting(ListSpannerInstances) \in Quiet(C)
          /\ Trusting(ListAlloyDBClusters) \in Quiet(C) /\ Trusting(ListFirestoreDatabases) \in Quiet(C)
          /\ Trusting(ListMemorystoreInstances) \in Quiet(C)
          /\ Trusting(ListArtifactRegistryRepos) \in Quiet(C)
          /\ Trusting(ListCloudBuildTriggers) \in Quiet(C)
          /\ Trusting(ListServiceDirectoryNamespaces) \in Quiet(C)
      BY <1>2, DataOps, Relaying
    <2>2. /\ Trusting(ListAlertPolicies) \in Quiet(C) /\ Trusting(ListUptimeChecks) \in Quiet(C)
          /\ Trusting(ListSLOs) \in Quiet(C) /\ Trusting(ListDashboards) \in Quiet(C)
          /\ Trusting(ListServiceAccounts) \in Quiet(C)
      BY <1>2, SignalOps, NetworkOps, Relaying
    <2> QED BY <2>1, <2>2, Chained DEF compareData
  <1>6. comparePlatform \in Quiet(C)
    <2>1. /\ Trusting(ListClusters) \in Quiet(C) /\ Trusting(GetClusterDetails) \in Quiet(C)
          /\ Trusting(ListGKEWorkloads) \in Quiet(C) /\ Trusting(GetGKEWorkloadDetails) \in Quiet(C)
          /\ Reporting(ListGKEServices) \in Quiet(C) /\ Reporting(ListGKEIngresses) \in Quiet(C)
          /\ Reporting(ListGKENetworkPolicies) \in Quiet(C)
      BY <1>3, GKEOps, Relaying
    <2>2. /\ Trusting(ListLoadBalancers) \in Quiet(C) /\ Trusting(ListURLMaps) \in Quiet(C)
          /\ Trusting(ListNEGs) \in Quiet(C) /\ Trusting(ListAPIGateways) \in Quiet(C)
          /\ Trusting(ListVPCNetworks) \in Quiet(C) /\ Trusting(ListVPCSubnets) \in Quiet(C)
          /\ Trusting(ListPSCEndpoints) \in Quiet(C)
      BY <1>3, NetworkOps, Relaying
    <2> QED BY <2>1, <2>2, Chained, Optional DEF comparePlatform
  <1> QED BY <1>4, <1>5, <1>6, Chained, Optional DEF Compare

(* An operation behind another one keeps what it kept.                      *)
LEMMA KeptThrough ==
  ASSUME NEW op, NEW failure, NEW gaps, NEW i \in DOMAIN op,
         NEW C, NEW F, NEW K, NEW G, op[i] \in CallsTo(C, F, K, G)
  PROVE  Through(op, failure, gaps)[i].kept = op[i].kept
  <1>1. "kept" \in DOMAIN op[i]
    BY DEF CallsTo
  <1> DEFINE absent == PassedOn(op[i].absent, failure, gaps)
             failed == PassedOn(op[i].failed, failure, gaps)
             cut == PassedOn(op[i].cut, failure, gaps)
             absentSkips == IF op[i].absent \in {"fail", "empty"} THEN Len(op) - i ELSE op[i].absentSkips
             failedSkips == IF op[i].failed \in {"fail", "empty"} THEN Len(op) - i ELSE op[i].failedSkips
  <1>2. Through(op, failure, gaps)[i] =
          [op[i] EXCEPT !.absent = absent, !.failed = failed, !.cut = cut,
                        !.absentSkips = absentSkips, !.failedSkips = failedSkips]
    BY DEF Through, PassedOn
  <1> HIDE DEF absent, failed, cut, absentSkips, failedSkips
  <1> QED BY <1>1, <1>2

(* The request names a region: nothing is guessed, and nothing is kept.     *)
LEMMA RegionNamed ==
  ASSUME NEW C, "VPCAccess" \in C
  PROVE  InRegion(Reporting(ListVPCConnectors)) \in Quiet(C)
  <1> DEFINE op == Reporting(ListVPCConnectors)
             first == [op[1] EXCEPT !.failed = "none"]
             S == CallsTo(C, Effect, Effect, Marked)
  <1>1. op \in Seq(CallsTo(C, Effect, Effect, Effect)) /\ Len(op) = 2
    <2>1. ListVPCConnectors \in Ops(C, Effect, Effect, Effect)
      BY RegionalOps, Wider DEF Sound, Tells, Marked, Effect
    <2>2. Passes(Effect, Effect, "told", "silent")
      BY PassingOn
    <2>3. op \in Ops(C, Effect, Effect, Effect)
      BY <2>1, <2>2, ThroughFits DEF Reporting
    <2>4. Len(ListVPCConnectors) = 2 /\ DOMAIN ListVPCConnectors = 1..2
      BY DEF ListVPCConnectors
    <2>5. DOMAIN op = 1..2
      BY <2>4, Zenon DEF Reporting, Through
    <2> QED BY <2>3, <2>5 DEF Ops
  <1>2. ~op[2].kept
    <2>1. ListVPCConnectors[2] = IfFailed(Call("VPCAccess"), "told") /\ 2 \in DOMAIN ListVPCConnectors
      BY DEF ListVPCConnectors
    <2>2. ~IfFailed(Call("VPCAccess"), "told").kept
      BY Zenon DEF IfFailed, Call
    <2>3. ListVPCConnectors[2] \in CallsTo(C, Tells, Tells, Marked)
      BY <2>1, RegionalOps DEF Sound, Ops
    <2>4. op[2].kept = ListVPCConnectors[2].kept
      BY <2>1, <2>3, KeptThrough DEF Reporting
    <2> QED BY <2>1, <2>2, <2>4, Zenon
  <1>3. op[1] \in CallsTo(C, Effect, Effect, Effect) /\ op[2] \in CallsTo(C, Effect, Effect, Effect)
    BY <1>1
  <1> HIDE DEF op
  <1>4. first \in S /\ op[2] \in S
    BY <1>2, <1>3 DEF CallsTo, Marked, Effect
  <1>5. InRegion(op) = [op EXCEPT ![1] = first]
    BY DEF InRegion
  <1> HIDE DEF S, first
  <1>6. DOMAIN op = 1..2 /\ 1 \in 1..2 /\ 2 \in 1..2 /\ 1 # 2
    BY <1>1
  <1> DEFINE named == [op EXCEPT ![1] = first]
  <1>7. DOMAIN named = 1..2 /\ named[1] = first /\ named[2] = op[2] /\ named = [i \in 1..2 |-> named[i]]
    BY <1>6
  <1> HIDE DEF named
  <1>8. named \in Seq(S) /\ Len(named) = 2
    <2>1. \A i \in 1..2 : named[i] \in S
      BY <1>4, <1>7
    <2> QED BY <2>1, <1>7
  <1> QED BY <1>5, <1>8 DEF op, named, Quiet, Ops, S

(* The topology of services passes everything on.                           *)
LEMMA TopologyOps ==
  ASSUME NEW C, "RunSvc" \in C, "PubSub" \in C
  PROVE  GetServiceTopology \in Told(C)
  <1>1. <<Call("RunSvc")>> \in Told(C) /\ listTopologySubscriptions \in Told(C)
    BY Forms, Variants, One DEF listTopologySubscriptions, Told
  <1>2. Trusting(ListServices) \in Told(C)
    BY RunOps, Composed, Classes
  <1> QED BY <1>1, <1>2, Chained, Optional DEF GetServiceTopology

(* Incidents lose failures and pages.                                       *)
LEMMA IncidentOps ==
  ASSUME NEW C, moduleClientDeps["incident"] \subseteq C
  PROVE  Diagnose \in Quiet(C)
  <1>1. /\ "RunSvc" \in C /\ "RunRevisions" \in C /\ "LogAdmin" \in C /\ "Metric" \in C
        /\ "PubSub" \in C /\ "SQLAdmin" \in C /\ "VPCAccess" \in C
    BY DEF moduleClientDeps
  <1>2. resolveScope \in Quiet(C)
    <2>1. Assuming(ListServices) \in Quiet(C)
      BY <1>1, RunOps, Composed, Classes
    <2> QED BY <2>1, Optional DEF resolveScope
  <1>3. /\ Reporting(GetMetrics) \in Quiet(C) /\ Trusting(GetMetrics) \in Quiet(C)
        /\ Reporting(QueryRecentLogs) \in Quiet(C) /\ Trusting(QueryRecentLogs) \in Quiet(C)
    BY <1>1, SignalOps, Relaying
  <1>4. collectDependencyHealth \in Quiet(C)
    <2>1. Reporting(ListSQLInstances) \in Quiet(C) /\ Reporting(InspectTopicHealth) \in Quiet(C)
      BY <1>1, RegionalOps, DataOps, Relaying
    <2> QED BY <1>1, <1>3, <2>1, RegionNamed, Chained, Optional DEF collectDependencyHealth
  <1>5. Trusting(GetServiceDetails) \in Quiet(C) /\ Reporting(ListRevisions) \in Quiet(C)
    BY <1>1, RunOps, Relaying
  <1>6. Reporting(GetServiceTopology) \in Quiet(C)
    BY <1>1, TopologyOps, Relaying
  <1> QED BY <1>2, <1>3, <1>4, <1>5, <1>6, Chained, Optional DEF Diagnose

(* A security audit tells of every failure.                                 *)
LEMMA AuditOps ==
  ASSUME NEW C, moduleClientDeps["security"] \cup {"K8s", "Recommender"} \subseteq C
  PROVE  Audit \in Telling(C)
  <1>1. /\ "Asset" \in C /\ "IAMAdmin" \in C /\ "SecretMgr" \in C /\ "RunSvc" \in C
        /\ "FunctionsV1" \in C /\ "Compute" \in C /\ "ClusterMgr" \in C /\ "CRMv3" \in C
        /\ "IAMv2" \in C /\ "K8s" \in C /\ "Recommender" \in C
    BY DEF moduleClientDeps
  <1>2. SearchSecurityIAMPolicies \in Told(C)
    <2>1. [Noted("CRMv3") EXCEPT !.absentSkips = 1, !.failedSkips = 1] \in CallsTo(C, Tells, Tells, {})
      <3>1. Noted("CRMv3") \in CallsTo(C, Tells, Tells, {})
        BY <1>1, Forms
      <3> QED BY <3>1 DEF CallsTo
    <2> QED BY <1>1, <2>1, Forms, Variants, Four DEF SearchSecurityIAMPolicies, Told
  <1>3. ListServiceAccountSecurityFacts \in Told(C)
    BY <1>1, Forms, Variants, One DEF ListServiceAccountSecurityFacts, Told
  <1>4. ListSecretSecurityFacts \in Told(C)
    BY <1>1, Forms, Variants, Two DEF ListSecretSecurityFacts, Told
  <1>5. <<Paged(IfFailed(K8sAPI, "told"))>> \in Told(C) /\ <<Noted("ClusterMgr")>> \in Told(C)
        /\ <<Guarded("ClusterMgr")>> \in Told(C)
    BY <1>1, Forms, Variants, One DEF K8sAPI, Told
  <1>6. ListPublicServiceSecurityFacts \in Told(C)
    <2>1. <<IfAbsent(Call("RunSvc"), "silent"), IfAbsent(Call("FunctionsV1"), "silent")>> \in Told(C)
      BY <1>1, Forms, Variants, Two DEF Told
    <2> QED BY <1>5, <2>1, Chained, Optional
              DEF ListPublicServiceSecurityFacts, collectGKEPublicServiceSecurityFacts
  <1>7. ListFirewallSecurityFacts \in Told(C)
    BY <1>1, Forms, Variants, Two DEF ListFirewallSecurityFacts, Told
  <1>8. ListWorkloadIdentitySecurityFacts \in Told(C)
    <2>1. <<Noted("IAMAdmin"), Noted("Asset")>> \in Told(C)
      BY <1>1, Forms, Variants, Two DEF Told
    <2> QED BY <1>5, <2>1, Chained, Optional DEF ListWorkloadIdentitySecurityFacts
  <1>9. ListSecurityRecommendations \in Telling(C)
    BY <1>1, Forms, Variants, One DEF ListSecurityRecommendations, Telling
  <1> QED BY <1>2, <1>3, <1>4, <1>6, <1>7, <1>8, <1>9, Composed, Classes, Chained DEF Audit

(* An explanation of cost tells of every failure.                           *)
LEMMA CostOps ==
  ASSUME NEW C, "CostBQ" \in C, "Asset" \in C, "Recommender" \in C, "Metric" \in C
  PROVE  Explain \in Telling(C)
  <1>1. CollectCostFacts \in Told(C) /\ ListCreatedAssets \in Told(C) /\ ListCostRecommendations \in Told(C)
    BY Forms, Variants, One DEF CollectCostFacts, ListCreatedAssets, ListCostRecommendations, Told
  <1>2. Reporting(GetMetrics) \in Telling(C)
    BY SignalOps, Composed
  <1>3. Requiring(CollectCostFacts) \in Telling(C) /\ Trusting(ListCreatedAssets) \in Telling(C)
        /\ Trusting(ListCostRecommendations) \in Telling(C)
    BY <1>1, Composed, Classes
  <1> QED BY <1>2, <1>3, Chained, Optional DEF Explain

(* Scores tell of every page that is missing, the project's summary too.    *)
LEMMA AuraOps ==
  ASSUME NEW C, "Metric" \in C, "ClusterMgr" \in C, "GCS" \in C, "CRM" \in C, "RunSvc" \in C,
         "Recommender" \in C
  PROVE  /\ GetAuraScore \in Paging(C) /\ GetProjectAuraSummary \in Paging(C)
         /\ GetGKEAuraScore \in Told(C) /\ GetGCSAuraScore \in Told(C)
  <1>1. fetchMetricPoint \in Paging(C) /\ fetchRecommenderInsights \in Paging(C)
        /\ <<Noted("ClusterMgr")>> \in Paging(C)
    BY Forms, Variants, One DEF fetchMetricPoint, fetchRecommenderInsights, Paging
  <1>2. fetchGCSSignals \in Told(C)
    BY DataOps, Composed DEF fetchGCSSignals
  <1>3. fetchCloudRunSignals \in Paging(C) /\ fetchCloudSQLSignals \in Paging(C)
        /\ fetchBigQuerySignals \in Paging(C) /\ fetchGKESignals \in Paging(C)
    BY <1>1, Chained DEF fetchCloudRunSignals, fetchCloudSQLSignals, fetchBigQuerySignals, fetchGKESignals
  <1>4. GetAuraScore \in Paging(C)
    BY <1>2, <1>3, Classes, Chained, Optional DEF GetAuraScore
  <1>5. listSQLInstances \in Paging(C) /\ listBigQueryDatasets \in Paging(C) /\ listGKEClusters \in Paging(C)
    BY Forms, Variants, One DEF listSQLInstances, listBigQueryDatasets, listGKEClusters, Paging
  <1>6. GetProjectAuraSummary \in Paging(C)
    <2>1. Requiring(ListServices) \in Paging(C)
      BY RunOps, Composed, Classes
    <2> QED BY <1>4, <1>5, <2>1, Composed, Chained DEF GetProjectAuraSummary
  <1>7. GetGKEAuraScore \in Told(C)
    BY Forms, Variants, Five DEF GetGKEAuraScore, Told
  <1> QED BY <1>2, <1>4, <1>6, <1>7 DEF GetGCSAuraScore

(* The coverage and the bottlenecks tell of every failure.                  *)
LEMMA CoverageOps ==
  ASSUME NEW C, moduleClientDeps["coverage"] \subseteq C
  PROVE  GetObservabilityCoverage \in Telling(C)
  <1>1. "RunSvc" \in C /\ "Metric" \in C /\ "Trace" \in C /\ "MonitoringV3" \in C /\ "LogAdmin" \in C
    BY DEF moduleClientDeps
  <1>2. Reporting(ListServices) \in Telling(C) /\ Trusting(ListTraceDependencyEdges) \in Telling(C)
        /\ Trusting(ListAlertPolicies) \in Telling(C)
    BY <1>1, RunOps, SignalOps, Composed, Classes
  <1>3. ASSUME NEW op, op \in Telling(C), NEW effect \in Effect
        PROVE  <<IfAbsent(op[1], effect)>> \in Telling(C)
    <2>1. op[1] \in CallsTo(C, Tells, Effect, {})
      BY <1>3 DEF Telling, Ops
    <2> QED BY <1>3, <2>1, AbsentStep, One DEF Telling
  <1>4. "told" \in Effect /\ "silent" \in Effect
    BY DEF Effect
  <1>5. <<Noted("Metric"), Noted("LogAdmin")>> \in Telling(C)
    BY <1>1, Forms, Variants, Two DEF Telling
  <1>6. /\ <<IfAbsent(Reporting(ListServices)[1], "silent")>> \in Telling(C)
        /\ <<IfAbsent(Trusting(ListTraceDependencyEdges)[1], "told")>> \in Telling(C)
        /\ <<IfAbsent(Trusting(ListAlertPolicies)[1], "told")>> \in Telling(C)
    BY <1>2, <1>3, <1>4
  <1> QED BY <1>5, <1>6, Chained DEF GetObservabilityCoverage

LEMMA BottleneckOps ==
  ASSUME NEW C, "ClusterMgr" \in C, "Metric" \in C, "LogAdmin" \in C
  PROVE  GetClusterBottlenecks \in Telling(C)
  <1>1. /\ Assuming(GetClusterDetails) \in Telling(C) /\ Assuming(GetMetrics) \in Telling(C)
        /\ Assuming(QueryRecentLogs) \in Telling(C)
    BY GKEOps, SignalOps, Composed
  <1> QED BY <1>1, Chained DEF GetClusterBottlenecks

(* The snapshot of a service: its details and its revisions.                *)
LEMMA SnapshotOps ==
  ASSUME NEW C, "RunSvc" \in C, "RunRevisions" \in C
  PROVE  Requiring(GetServiceDetails) \o Requiring(ListRevisions) \in Told(C)
  BY RunOps, Composed, Chained

-----------------------------------------------------------------------------
(* The tools and resources. What may become of the gaps of a tool's calls:  *)
(* LosesFailures and LosesPages name the tools that may pass over some in   *)
(* silence.                                                                 *)
Within(tool, C) ==
  Ops(C, IF tool \in LosesFailures THEN Effect ELSE Tells,
      IF tool \in LosesPages THEN Effect ELSE Tells, Marked)

(* The clients C are enough for the tools of a module.                      *)
Supports(module, C) ==
  /\ resourceDeps \cup {"K8s", "Recommender"} \subseteq C
  /\ module \in DOMAIN moduleClientDeps =>
       /\ moduleClientDeps[module] \subseteq C
       /\ "RunJobs" \in moduleClientDeps[module] => "RunExecs" \in C
  /\ module = "cost" => "CostBQ" \in C
  /\ module = "serverlessgraph" => moduleClientDeps["archgraph"] \subseteq C

(* Which class suffices for which tool.                                     *)
LEMMA Allowed ==
  ASSUME NEW tool, NEW C, NEW op
  PROVE  /\ op \in Told(C) => op \in Within(tool, C)
         /\ op \in Sound(C) => op \in Within(tool, C)
         /\ tool \in LosesPages /\ op \in Telling(C) => op \in Within(tool, C)
         /\ tool \in LosesFailures /\ op \in Paging(C) => op \in Within(tool, C)
         /\ tool \in LosesFailures /\ tool \in LosesPages /\ op \in Quiet(C) => op \in Within(tool, C)
  <1>1. Tells \subseteq Effect /\ {} \subseteq Marked /\ C \subseteq C
    BY DEF Tells, Effect
  <1> QED BY <1>1, Wider DEF Within, Told, Sound, Telling, Paging, Quiet

(* A tool makes do with the clients of its module, whatever they are.       *)
Fits(tool) ==
  \A C : Supports(Catalog[tool].module, C) => Catalog[tool].operation \in Within(tool, C)

(* What Supports means for each module.                                     *)
LEMMA Supported ==
  ASSUME NEW C, NEW module, Supports(module, C)
  PROVE  /\ "BQ" \in C /\ "GCS" \in C /\ "CRM" \in C /\ "RunSvc" \in C /\ "RunRevisions" \in C
         /\ "K8s" \in C /\ "Recommender" \in C
         /\ module = "gke" => "ClusterMgr" \in C /\ "Metric" \in C /\ "LogAdmin" \in C
         /\ module = "gke_workloads" => "ClusterMgr" \in C
         /\ module = "gke_mesh" => "Metric" \in C /\ "LogAdmin" \in C
         /\ module = "cloudrun" => "RunJobs" \in C /\ "RunExecs" \in C
         /\ module = "functions" => "FunctionsV1" \in C
         /\ module = "eventarc" => "Eventarc" \in C
         /\ module = "scheduler" => "Scheduler" \in C
         /\ module = "workflows" => "Workflows" \in C /\ "WorkflowExec" \in C
         /\ module = "tasks" => "Tasks" \in C
         /\ module = "secretmanager" => "SecretMgr" \in C
         /\ module = "vpcaccess" => "VPCAccess" \in C
         /\ module = "cloudsql" => "SQLAdmin" \in C
         /\ module = "pubsub" => "PubSub" \in C /\ "Metric" \in C
         /\ module = "datastores" =>
              "Spanner" \in C /\ "AlloyDB" \in C /\ "Firestore" \in C /\ "Memorystore" \in C
         /\ module = "supplychain" =>
              "ArtifactRegistry" \in C /\ "CloudBuild" \in C /\ "ServiceDirectory" \in C
         /\ module = "networking" => "Compute" \in C /\ "APIGateway" \in C
         /\ module = "tagging" => "CRMv3" \in C
         /\ module = "iam" => "IAMAdmin" \in C
         /\ module = "logging" => "LogAdmin" \in C
         /\ module = "monitoring" =>
              "Metric" \in C /\ "Trace" \in C /\ "MonitoringV3" \in C /\ "MonitoringV1" \in C
         /\ module = "coverage" => moduleClientDeps["coverage"] \subseteq C
         /\ module = "topology" => "PubSub" \in C
         /\ module = "serverlessgraph" => moduleClientDeps["archgraph"] \subseteq C
         /\ module = "archgraph" => moduleClientDeps["archgraph"] \subseteq C
         /\ module = "incident" => moduleClientDeps["incident"] \subseteq C
         /\ module = "drift" => moduleClientDeps["drift"] \subseteq C
         /\ module = "aura" => "Metric" \in C /\ "ClusterMgr" \in C
         /\ module = "security" => moduleClientDeps["security"] \subseteq C
         /\ module = "cost" => "CostBQ" \in C /\ "Asset" \in C /\ "Metric" \in C
  BY DEF Supports, resourceDeps, moduleClientDeps

(* The tools and resources, by what they are about.                         *)
GKETools ==
  {"gcp_gke_list_clusters", "gcp_gke_get_cluster_details", "gcp_gke_get_cluster_bottlenecks",
   "gcp_gke_scale_deployment", "gcp_gke_list_workloads", "gcp_gke_get_workload_details",
   "gcp_gke_list_services", "gcp_gke_list_ingresses", "gcp_gke_list_network_policies",
   "gcp_gke_get_mesh_topology"}

ServerlessTools ==
  {"gcp_cloudrun_list_services", "gcp_cloudrun_get_service_details",
   "gcp_cloudrun_update_traffic", "gcp_cloudrun_list_jobs", "gcp_cloudrun_get_job_details",
   "gcp_cloudrun_list_job_executions", "gcp_functions_list", "gcp_functions_get_details",
   "gcp_eventarc_list_triggers", "gcp_eventarc_get_trigger", "gcp_scheduler_list_jobs",
   "gcp_workflows_list", "gcp_workflows_list_executions", "gcp_tasks_list_queues",
   "gcp_secretmanager_list", "gcp_vpc_list_connectors", "gcp_cloudsql_list_instances"}

DataTools ==
  {"gcp_storage_list_buckets", "gcp_storage_get_bucket_metadata",
   "gcp_storage_list_bucket_objects", "gcp_pubsub_list_topics",
   "gcp_pubsub_inspect_topic_health", "gcp_pubsub_list_subscriptions",
   "gcp_spanner_list_instances", "gcp_alloydb_list_clusters", "gcp_firestore_list_databases",
   "gcp_memorystore_list_instances", "gcp_artifactregistry_list_repos",
   "gcp_artifactregistry_list_images", "gcp_cloudbuild_list_triggers",
   "gcp_servicedirectory_list"}

NetworkTools ==
  {"gcp_compute_list_loadbalancers", "gcp_compute_list_url_maps", "gcp_compute_list_negs",
   "gcp_apigateway_list", "gcp_vpc_list_networks", "gcp_vpc_list_subnets",
   "gcp_psc_list_endpoints", "gcp_tag_list_resources", "gcp_iam_test_permissions",
   "gcp_iam_get_resource_bindings", "gcp_iam_list_service_accounts"}

SignalTools ==
  {"gcp_logging_query_recent", "gcp_monitoring_get_metrics",
   "gcp_monitoring_list_metric_descriptors", "gcp_trace_list_services",
   "gcp_monitoring_list_alert_policies", "gcp_monitoring_list_uptime_checks",
   "gcp_monitoring_list_slos", "gcp_monitoring_list_dashboards",
   "gcp_trace_list_dependency_edges", "gcp_observability_coverage", "gcp_get_service_topology"}

GraphTools ==
  {"gcp_export_serverless_graph", "gcp_generate_architecture_diagram",
   "gcp_export_architecture_graph", "gcp_incident_diagnose", "gcp_compare_environments"}

EngineTools ==
  {"gcp_get_aura_score", "gcp_project_aura_summary", "gcp_gke_get_aura_score",
   "gcp_gcs_get_aura_score", "gcp_project_security_audit", "gcp_cost_explain",
   "gcp_export_recommendations_to_bq"}

ResourceTools ==
  {"DatasetList", "TableListTemplate", "TableSchemaTemplate", "ServiceList",
   "RevisionsTemplate", "ServiceSnapshotTemplate", "BucketList", "BucketMetadataTemplate",
   "ObjectListTemplate", "MyPermissions"}

LEMMA GKEToolsFit == \A tool \in GKETools : Fits(tool)
  <1>1. ASSUME NEW C, Supports("gke", C)
        PROVE  /\ ListClusters \in Told(C) /\ GetClusterDetails \in Told(C)
               /\ GetClusterBottlenecks \in Telling(C) /\ ScaleDeployment \in Told(C)
    BY <1>1, Supported, GKEOps, BottleneckOps, Classes
  <1>2. ASSUME NEW C, Supports("gke_workloads", C)
        PROVE  /\ ListGKEWorkloads \in Told(C) /\ GetGKEWorkloadDetails \in Told(C)
               /\ ListGKEServices \in Told(C) /\ ListGKEIngresses \in Told(C)
               /\ ListGKENetworkPolicies \in Told(C)
    BY <1>2, Supported, GKEOps, Classes
  <1>3. ASSUME NEW C, Supports("gke_mesh", C)
        PROVE  GetGKEMeshTopology \in Telling(C)
    BY <1>3, Supported, GKEOps, Classes
  <1> QED BY <1>1, <1>2, <1>3, Allowed
         DEF Fits, Catalog, Tool, Resource, LosesFailures, LosesPages, GKETools,
             gcp_gke_list_clusters, gcp_gke_get_cluster_details, gcp_gke_get_cluster_bottlenecks,
             gcp_gke_scale_deployment, gcp_gke_list_workloads, gcp_gke_get_workload_details,
             gcp_gke_list_services, gcp_gke_list_ingresses, gcp_gke_list_network_policies,
             gcp_gke_get_mesh_topology

LEMMA ServerlessToolsFit == \A tool \in ServerlessTools : Fits(tool)
  <1>1. ASSUME NEW C, Supports("cloudrun", C)
        PROVE  /\ ListServices \in Told(C) /\ GetServiceDetails \in Told(C)
               /\ UpdateTraffic \in Told(C) /\ ListJobs \in Told(C) /\ GetJobDetails \in Told(C)
               /\ ListJobExecutions \in Telling(C)
    BY <1>1, Supported, RunOps, Classes
  <1>2. ASSUME NEW C, Supports("functions", C)
        PROVE  /\ ListFunctions \in Told(C) /\ GetFunctionDetails \in Told(C)
    BY <1>2, Supported, RegionalOps, Classes
  <1>3. ASSUME NEW C, Supports("eventarc", C)
        PROVE  /\ ListTriggers \in Sound(C) /\ GetTrigger \in Told(C)
    BY <1>3, Supported, RegionalOps, Classes
  <1>4. ASSUME NEW C, Supports("scheduler", C)
        PROVE  ListSchedulerJobs \in Sound(C)
    BY <1>4, Supported, RegionalOps, Classes
  <1>5. ASSUME NEW C, Supports("workflows", C)
        PROVE  /\ ListWorkflows \in Sound(C) /\ ListWorkflowExecutions \in Telling(C)
    BY <1>5, Supported, RegionalOps, Classes
  <1>6. ASSUME NEW C, Supports("tasks", C)
        PROVE  ListTaskQueues \in Sound(C)
    BY <1>6, Supported, RegionalOps, Classes
  <1>7. ASSUME NEW C, Supports("secretmanager", C)
        PROVE  ListSecrets \in Told(C)
    BY <1>7, Supported, RegionalOps, Classes
  <1>8. ASSUME NEW C, Supports("vpcaccess", C)
        PROVE  ListVPCConnectors \in Sound(C)
    BY <1>8, Supported, RegionalOps, Classes
  <1>9. ASSUME NEW C, Supports("cloudsql", C)
        PROVE  ListSQLInstances \in Told(C)
    BY <1>9, Supported, RegionalOps, Classes
  <1> QED BY <1>1, <1>2, <1>3, <1>4, <1>5, <1>6, <1>7, <1>8, <1>9, Allowed
         DEF Fits, Catalog, Tool, Resource, LosesFailures, LosesPages, ServerlessTools,
             gcp_cloudrun_list_services, gcp_cloudrun_get_service_details,
             gcp_cloudrun_update_traffic, gcp_cloudrun_list_jobs, gcp_cloudrun_get_job_details,
             gcp_cloudrun_list_job_executions, gcp_functions_list, gcp_functions_get_details,
             gcp_eventarc_list_triggers, gcp_eventarc_get_trigger, gcp_scheduler_list_jobs,
             gcp_workflows_list, gcp_workflows_list_executions, gcp_tasks_list_queues,
             gcp_secretmanager_list, gcp_vpc_list_connectors, gcp_cloudsql_list_instances

LEMMA DataToolsFit == \A tool \in DataTools : Fits(tool)
  <1>1. ASSUME NEW C, Supports("storage", C)
        PROVE  /\ ListBuckets \in Telling(C) /\ GetBucketMetadata \in Told(C)
               /\ ListBucketObjects \in Told(C)
    BY <1>1, Supported, DataOps, Classes
  <1>2. ASSUME NEW C, Supports("pubsub", C)
        PROVE  /\ ListTopics \in Told(C) /\ InspectTopicHealth \in Told(C)
               /\ ListSubscriptions \in Told(C)
    BY <1>2, Supported, DataOps, Classes
  <1>3. ASSUME NEW C, Supports("datastores", C)
        PROVE  /\ ListSpannerInstances \in Told(C) /\ ListAlloyDBClusters \in Told(C)
               /\ ListFirestoreDatabases \in Told(C) /\ ListMemorystoreInstances \in Told(C)
    BY <1>3, Supported, DataOps, Classes
  <1>4. ASSUME NEW C, Supports("supplychain", C)
        PROVE  /\ ListArtifactRegistryRepos \in Told(C) /\ ListArtifactRegistryImages \in Told(C)
               /\ ListCloudBuildTriggers \in Told(C) /\ ListServiceDirectoryNamespaces \in Paging(C)
    BY <1>4, Supported, DataOps, Classes
  <1> QED BY <1>1, <1>2, <1>3, <1>4, Allowed
         DEF Fits, Catalog, Tool, Resource, LosesFailures, LosesPages, DataTools,
             gcp_storage_list_buckets, gcp_storage_get_bucket_metadata,
             gcp_storage_list_bucket_objects, gcp_pubsub_list_topics,
             gcp_pubsub_inspect_topic_health, gcp_pubsub_list_subscriptions,
             gcp_spanner_list_instances, gcp_alloydb_list_clusters, gcp_firestore_list_databases,
             gcp_memorystore_list_instances, gcp_artifactregistry_list_repos,
             gcp_artifactregistry_list_images, gcp_cloudbuild_list_triggers,
             gcp_servicedirectory_list

LEMMA NetworkToolsFit == \A tool \in NetworkTools : Fits(tool)
  <1>1. ASSUME NEW C, Supports("networking", C)
        PROVE  /\ ListLoadBalancers \in Told(C) /\ ListURLMaps \in Told(C) /\ ListNEGs \in Told(C)
               /\ ListAPIGateways \in Told(C) /\ ListVPCNetworks \in Told(C)
               /\ ListVPCSubnets \in Told(C) /\ ListPSCEndpoints \in Told(C)
    BY <1>1, Supported, NetworkOps, Classes
  <1>2. ASSUME NEW C, Supports("tagging", C)
        PROVE  ListTaggedResources \in Told(C)
    BY <1>2, Supported, NetworkOps, Classes
  <1>3. ASSUME NEW C, Supports("iam", C)
        PROVE  /\ TestPermissions \in Told(C) /\ GetResourceIAMBindings \in Told(C)
               /\ ListServiceAccounts \in Told(C)
    BY <1>3, Supported, NetworkOps, Classes
  <1> QED BY <1>1, <1>2, <1>3, Allowed
         DEF Fits, Catalog, Tool, Resource, LosesFailures, LosesPages, NetworkTools,
             gcp_compute_list_loadbalancers, gcp_compute_list_url_maps, gcp_compute_list_negs,
             gcp_apigateway_list, gcp_vpc_list_networks, gcp_vpc_list_subnets,
             gcp_psc_list_endpoints, gcp_tag_list_resources, gcp_iam_test_permissions,
             gcp_iam_get_resource_bindings, gcp_iam_list_service_accounts

LEMMA SignalToolsFit == \A tool \in SignalTools : Fits(tool)
  <1>1. ASSUME NEW C, Supports("logging", C)
        PROVE  QueryRecentLogs \in Told(C)
    BY <1>1, Supported, SignalOps, Classes
  <1>2. ASSUME NEW C, Supports("monitoring", C)
        PROVE  /\ GetMetrics \in Told(C) /\ ListMetricDescriptors \in Told(C)
               /\ ListTraceServices \in Told(C) /\ ListAlertPolicies \in Told(C)
               /\ ListUptimeChecks \in Told(C) /\ ListSLOs \in Told(C) /\ ListDashboards \in Told(C)
               /\ ListTraceDependencyEdges \in Told(C)
    BY <1>2, Supported, SignalOps, Classes
  <1>3. ASSUME NEW C, Supports("coverage", C)
        PROVE  GetObservabilityCoverage \in Telling(C)
    BY <1>3, Supported, CoverageOps, Classes
  <1>4. ASSUME NEW C, Supports("topology", C)
        PROVE  GetServiceTopology \in Told(C)
    BY <1>4, Supported, TopologyOps, Classes
  <1> QED BY <1>1, <1>2, <1>3, <1>4, Allowed
         DEF Fits, Catalog, Tool, Resource, LosesFailures, LosesPages, SignalTools,
             gcp_logging_query_recent, gcp_monitoring_get_metrics,
             gcp_monitoring_list_metric_descriptors, gcp_trace_list_services,
             gcp_monitoring_list_alert_policies, gcp_monitoring_list_uptime_checks,
             gcp_monitoring_list_slos, gcp_monitoring_list_dashboards,
             gcp_trace_list_dependency_edges, gcp_observability_coverage, gcp_get_service_topology

LEMMA GraphToolsFit == \A tool \in GraphTools : Fits(tool)
  <1>1. ASSUME NEW C, Supports("serverlessgraph", C)
        PROVE  ExportServerlessGraph \in Quiet(C)
    BY <1>1, Supported, Graph, Classes
  <1>2. ASSUME NEW C, Supports("archgraph", C)
        PROVE  /\ Generate \in Quiet(C) /\ ExportArchitectureGraph \in Quiet(C)
    BY <1>2, Supported, Graph, Classes
  <1>3. ASSUME NEW C, Supports("incident", C)
        PROVE  Diagnose \in Quiet(C)
    BY <1>3, Supported, IncidentOps, Classes
  <1>4. ASSUME NEW C, Supports("drift", C)
        PROVE  Compare \in Quiet(C)
    BY <1>4, Supported, DriftOps, Classes
  <1> QED BY <1>1, <1>2, <1>3, <1>4, Allowed
         DEF Fits, Catalog, Tool, Resource, LosesFailures, LosesPages, GraphTools,
             gcp_export_serverless_graph, gcp_generate_architecture_diagram,
             gcp_export_architecture_graph, gcp_incident_diagnose, gcp_compare_environments

LEMMA EngineToolsFit == \A tool \in EngineTools : Fits(tool)
  <1>1. ASSUME NEW C, Supports("aura", C)
        PROVE  /\ GetAuraScore \in Paging(C) /\ GetProjectAuraSummary \in Paging(C)
               /\ GetGKEAuraScore \in Told(C) /\ GetGCSAuraScore \in Told(C)
    BY <1>1, Supported, AuraOps, Classes
  <1>2. ASSUME NEW C, Supports("security", C)
        PROVE  Audit \in Telling(C)
    BY <1>2, Supported, AuditOps, Classes
  <1>3. ASSUME NEW C, Supports("cost", C)
        PROVE  Explain \in Telling(C)
    BY <1>3, Supported, CostOps, Classes
  <1>4. ASSUME NEW C, Supports("recommender_export", C)
        PROVE  ExportRecommendationsToBQ \in Told(C)
    BY <1>4, Supported, DataOps, Classes
  <1> QED BY <1>1, <1>2, <1>3, <1>4, Allowed
         DEF Fits, Catalog, Tool, Resource, LosesFailures, LosesPages, EngineTools,
             gcp_get_aura_score, gcp_project_aura_summary, gcp_gke_get_aura_score,
             gcp_gcs_get_aura_score, gcp_project_security_audit, gcp_cost_explain,
             gcp_export_recommendations_to_bq

LEMMA ResourceToolsFit == \A tool \in ResourceTools : Fits(tool)
  <1>1. ASSUME NEW C, Supports("_resources", C)
        PROVE  /\ ListDatasets \in Told(C) /\ ListTables \in Told(C) /\ GetTableSchema \in Told(C)
               /\ ListServices \in Told(C) /\ ListRevisions \in Told(C)
               /\ Requiring(GetServiceDetails) \o Requiring(ListRevisions) \in Told(C)
               /\ ListBuckets \in Telling(C) /\ GetBucketMetadata \in Told(C)
               /\ ListBucketObjects \in Told(C) /\ TestPermissions \in Told(C)
    BY <1>1, Supported, DataOps, RunOps, SnapshotOps, NetworkOps, Classes
  <1>2. Catalog["ServiceSnapshotTemplate"] = ServiceSnapshotTemplate
    BY DEF Catalog
  <1>3. Fits("ServiceSnapshotTemplate")
    <2> DEFINE snapshot == Requiring(GetServiceDetails) \o Requiring(ListRevisions)
    <2>1. ServiceSnapshotTemplate = [module |-> "_resources", operation |-> snapshot]
      BY DEF ServiceSnapshotTemplate, Resource, Tool
    <2> HIDE DEF snapshot
    <2>2. Catalog["ServiceSnapshotTemplate"].module = "_resources"
          /\ Catalog["ServiceSnapshotTemplate"].operation = snapshot
      BY <1>2, <2>1
    <2>3. \A C : Supports("_resources", C) => snapshot \in Told(C)
      BY <1>1 DEF snapshot
    <2> QED BY <2>2, <2>3, Allowed DEF Fits
  <1>4. ASSUME NEW tool \in ResourceTools \ {"ServiceSnapshotTemplate"}
        PROVE  Fits(tool)
    BY <1>1, Allowed
       DEF Fits, Catalog, Tool, Resource, LosesFailures, LosesPages, ResourceTools, DatasetList,
           TableListTemplate, TableSchemaTemplate, ServiceList, RevisionsTemplate, BucketList,
           BucketMetadataTemplate, ObjectListTemplate, MyPermissions
  <1> QED BY <1>3, <1>4

(* Every tool and resource of the server calls only clients that its module *)
(* opens (moduleClientDeps, modules.go:21, and the resources' own), and     *)
(* passes over a failed call or a missing page in silence only if it is one *)
(* of those that LosesFailures and LosesPages name.                         *)
THEOREM ToolsFit == \A tool \in DOMAIN Catalog : Fits(tool)
  <1>1. \A tool \in DOMAIN Catalog :
          tool \in GKETools \/ tool \in ServerlessTools \/ tool \in DataTools \/ tool \in NetworkTools
            \/ tool \in SignalTools \/ tool \in GraphTools \/ tool \in EngineTools \/ tool \in ResourceTools
    BY DEF Catalog, GKETools, ServerlessTools, DataTools, NetworkTools, SignalTools, GraphTools,
           EngineTools, ResourceTools
  <1> QED BY <1>1, GKEToolsFit, ServerlessToolsFit, DataToolsFit, NetworkToolsFit, SignalToolsFit,
             GraphToolsFit, EngineToolsFit, ResourceToolsFit

-----------------------------------------------------------------------------
(***************************************************************************)
(* The inductive invariant. A process that serves has what its modules     *)
(* need open, a request runs a tool that was offered, what is kept of the  *)
(* regions warns if it was guessed, and the request has lost nothing that  *)
(* its tool is not known to lose.                                          *)
(***************************************************************************)
Processes == {"opening", "serving", "usage", "settings", "client"}
Requests == [phase : {"idle", "running", "answered", "failed", "panicked"},
             tool : DOMAIN Catalog \cup {"none"}, at : Nat \ {0},
             lost : SUBSET (Outcome \cup {"told"}), guessed : BOOLEAN]

Parsed == process # "usage" => settings.all \/ parseModulesFlag(settings.names)
Validated ==
  /\ process = "settings" => ~validateAdapterSettings(selected)
  /\ process = "serving" => validateAdapterSettings(selected) /\ wanted \subseteq open
NotYetOpened == process \in {"usage", "settings"} => open = {}
AllClients == {openingOrder[i] : i \in DOMAIN openingOrder}
OpenedInOrder ==
  /\ open \subseteq AllClients
  /\ process = "opening" /\ "CostBQ" \in open => "BQ" \in open
RegionsWarn == \A client \in DOMAIN regions : regions[client].fallback => regions[client].warning
Serving ==
  request.phase # "idle" => process = "serving" /\ request.tool \in DOMAIN Catalog /\ Offered(request.tool)
Guessing == request.guessed => "told" \in request.lost
Losing ==
  /\ "failed" \in request.lost => request.tool \in LosesFailures
  /\ "cut" \in request.lost => request.tool \in LosesPages

ToolInv ==
  /\ process \in Processes /\ request \in Requests
  /\ Parsed /\ Validated /\ NotYetOpened /\ OpenedInOrder /\ RegionsWarn /\ Serving /\ Guessing /\ Losing

(* The clients that are open, with those that have a switch of their own or *)
(* are never missing.                                                       *)
Available == open \cup {"K8s", "Recommender"}

(* A request's operation fits the clients that were opened for the modules  *)
(* the process was started with.                                            *)
LEMMA Equipped ==
  ASSUME ToolInv, request.phase # "idle"
  PROVE  operation \in Within(request.tool, Available)
  <1> DEFINE module == Catalog[request.tool].module
  <1>1. /\ request.tool \in DOMAIN Catalog /\ Offered(request.tool)
        /\ validateAdapterSettings(selected) /\ wanted \subseteq open
    BY DEF ToolInv, Serving, Validated
  <1>2. resourceDeps \subseteq open
    BY <1>1 DEF wanted, ClientsToOpen, neededClients
  <1>3. ASSUME NEW m \in DOMAIN moduleClientDeps, Enabled(selected, m)
        PROVE  /\ moduleClientDeps[m] \subseteq neededClients(selected)
    BY <1>3 DEF neededClients
  <1>4. neededClients(selected) \subseteq open
    BY <1>1 DEF wanted, ClientsToOpen
  <1>5. "RunJobs" \in neededClients(selected) => "RunExecs" \in open
    BY <1>1 DEF wanted, ClientsToOpen
  <1>6. module = "_resources" \/ Enabled(selected, module)
    BY <1>1 DEF Offered
  <1>7. "_resources" \notin DOMAIN moduleClientDeps /\ "serverlessgraph" \notin DOMAIN moduleClientDeps
        /\ "archgraph" \in DOMAIN moduleClientDeps
    BY DEF moduleClientDeps
  <1>8. module = "serverlessgraph" => Enabled(selected, "archgraph")
    BY <1>1, <1>6, <1>7 DEF Enabled, validateAdapterSettings
  <1>9. module = "cost" => "CostBQ" \in open
    BY <1>1 DEF Offered, wanted, ClientsToOpen
  <1>10. Supports(module, Available)
    BY <1>2, <1>3, <1>4, <1>5, <1>6, <1>7, <1>8, <1>9 DEF Supports, Available
  <1> QED BY <1>1, <1>10, ToolsFit DEF Fits, operation

(* What a call of the request's operation may be.                           *)
LEMMA CallOf ==
  ASSUME ToolInv, AtCall
  PROVE  call \in CallsTo(Available, IF request.tool \in LosesFailures THEN Effect ELSE Tells,
                          IF request.tool \in LosesPages THEN Effect ELSE Tells, Marked)
  <1>1. operation \in Within(request.tool, Available)
    BY Equipped DEF AtCall, Running
  <1>2. request.at \in Nat \ {0} /\ request.at <= Len(operation)
    BY DEF ToolInv, Requests, AtCall
  <1> QED BY <1>1, <1>2 DEF Within, Ops, call

(* What is known of the call a request is at.                               *)
LEMMA CallFacts ==
  ASSUME ToolInv, AtCall
  PROVE  /\ call.client \in Available /\ call.asked \in Nat
         /\ call.absent \in Effect /\ call.failed \in Effect /\ call.cut \in Effect
         /\ call.absentSkips \in Nat /\ call.failedSkips \in Nat
         /\ request.tool \notin LosesFailures => call.failed \in Tells
         /\ request.tool \notin LosesPages => call.cut \in Tells
         /\ call.kept => call.failed \in Marked
  <1>1. Tells \subseteq Effect
    BY DEF Tells, Effect
  <1> QED BY <1>1, CallOf DEF CallsTo

(* What a request may become while it goes on.                              *)
Onward(r) ==
  /\ r \in Requests /\ r.phase # "idle" /\ r.tool = request.tool /\ request.lost \subseteq r.lost
  /\ "failed" \in r.lost => r.tool \in LosesFailures
  /\ "cut" \in r.lost => r.tool \in LosesPages

(* Whatever a call meets, the request it leaves behind hides nothing that   *)
(* its tool is not known for, and says so where the call notes its failure. *)
LEMMA AfterFacts ==
  ASSUME ToolInv, AtCall, NEW outcome \in Outcome
  PROVE  /\ Onward(After(outcome))
         /\ After(outcome).guessed = request.guessed
         /\ EffectOf(call, outcome) = "told" => "told" \in After(outcome).lost
  <1>1. /\ request \in Requests /\ request.phase = "running" /\ request.at \in Nat \ {0}
        /\ "failed" \in request.lost => request.tool \in LosesFailures
        /\ "cut" \in request.lost => request.tool \in LosesPages
    BY DEF ToolInv, Losing, AtCall, Running, Requests
  <1>2. EffectOf(call, outcome) \in Effect
    BY CallFacts DEF EffectOf, Outcome, Effect
  <1>3. EffectOf(call, outcome) \in {"empty", "silent"} =>
          /\ outcome = "failed" => request.tool \in LosesFailures
          /\ outcome = "cut" => request.tool \in LosesPages
    BY CallFacts DEF EffectOf, Tells
  <1>4. Skipped(call, outcome) \in Nat
    BY CallFacts DEF Skipped
  <1> DEFINE next == [request EXCEPT !.at = @ + 1 + Skipped(call, outcome)]
             effect == EffectOf(call, outcome)
  <1>5. /\ next \in Requests /\ next.phase = "running" /\ next.tool = request.tool
        /\ next.lost = request.lost /\ next.guessed = request.guessed
    <2>1. request.at + 1 + Skipped(call, outcome) \in Nat \ {0}
      BY <1>1, <1>4
    <2> QED BY <1>1, <2>1 DEF Requests
  <1> HIDE DEF next, effect
  <1>6. CASE effect = "none"
    <2>1. After(outcome) = next
      BY <1>6 DEF After, next, effect
    <2> QED BY <1>1, <1>5, <1>6, <2>1 DEF Onward, effect
  <1>7. CASE effect \in {"panic", "fail"}
    <2>1. \E phase \in {"panicked", "failed"} : After(outcome) = [request EXCEPT !.phase = phase]
      BY <1>7 DEF After, effect
    <2> QED BY <1>1, <1>7, <2>1 DEF Onward, Requests, effect
  <1>8. CASE effect = "empty"
    <2>1. After(outcome) = [request EXCEPT !.phase = "answered", !.lost = @ \cup {outcome}]
      BY <1>8 DEF After, effect
    <2> DEFINE lost == request.lost \cup {outcome}
    <2>2. lost \in SUBSET (Outcome \cup {"told"})
      BY <1>1 DEF Requests
    <2> HIDE DEF lost
    <2>3. After(outcome) = [request EXCEPT !.phase = "answered", !.lost = lost]
      BY <2>1 DEF lost
    <2>4. After(outcome) \in Requests
      BY <1>1, <2>2, <2>3 DEF Requests
    <2>5. /\ After(outcome).phase = "answered" /\ After(outcome).tool = request.tool
          /\ After(outcome).lost = request.lost \cup {outcome}
          /\ After(outcome).guessed = request.guessed
      BY <1>1, <2>1 DEF Requests
    <2> QED BY <1>1, <1>3, <1>8, <2>4, <2>5 DEF Onward, effect
  <1>9. CASE effect = "told"
    <2>1. After(outcome) = [next EXCEPT !.lost = @ \cup {"told"}]
      BY <1>9 DEF After, next, effect
    <2> QED BY <1>1, <1>5, <1>9, <2>1 DEF Onward, Requests, effect
  <1>10. CASE effect = "silent"
    <2>1. After(outcome) = [next EXCEPT !.lost = @ \cup {outcome}]
      BY <1>10 DEF After, next, effect
    <2> QED BY <1>1, <1>3, <1>5, <1>10, <2>1 DEF Onward, Requests, effect
  <1> QED BY <1>2, <1>6, <1>7, <1>8, <1>9, <1>10 DEF Effect, effect

(* BigQuery's client is always wanted, and comes before the one of the      *)
(* billing export.                                                          *)
LEMMA OpensBQFirst ==
  ASSUME NEW client \in NextToOpen(wanted, open)
  PROVE  client \in AllClients /\ (client = "CostBQ" => "BQ" \in open)
  <1>1. PICK i \in DOMAIN openingOrder :
          /\ client = openingOrder[i]
          /\ \A j \in 1..i - 1 : openingOrder[j] \notin wanted \ open
    BY DEF NextToOpen
  <1>2. "BQ" \in wanted
    BY DEF wanted, ClientsToOpen, neededClients, resourceDeps
  <1>3. \A k \in DOMAIN openingOrder : openingOrder[k] = "CostBQ" => k = 34
    BY DEF openingOrder
  <1>4. openingOrder[33] = "BQ"
    BY DEF openingOrder
  <1>5. ASSUME client = "CostBQ" PROVE "BQ" \in open
    <2>1. i = 34
      BY <1>1, <1>3, <1>5
    <2>2. 33 \in 1..i - 1
      BY <2>1
    <2> QED BY <1>1, <1>2, <1>4, <2>2
  <1> QED BY <1>1, <1>5 DEF AllClients

(* The process starts in the invariant, and every action keeps it.          *)
LEMMA ToolInit == Init => ToolInv
  <1> SUFFICES ASSUME Init PROVE ToolInv
    OBVIOUS
  <1>1. /\ process \in {"opening", "usage"}
        /\ process = "opening" => settings.all \/ parseModulesFlag(settings.names)
    BY DEF Init
  <1>2. Idle \in Requests /\ Idle.phase = "idle" /\ Idle.lost = {}
    BY DEF Idle, Requests
  <1>3. ~Idle.guessed
    BY Zenon DEF Idle
  <1>4. request = Idle /\ open = {} /\ DOMAIN regions = {}
    BY DEF Init
  <1> QED BY <1>1, <1>2, <1>3, <1>4
         DEF ToolInv, Processes, Parsed, Validated, NotYetOpened, OpenedInOrder, RegionsWarn, Serving,
             Guessing, Losing

(* A step that leaves the process as it is, the request's answer no worse.  *)
LEMMA RequestStep ==
  ASSUME ToolInv, UNCHANGED <<settings, process, open>>, RegionsWarn', Guessing',
         request.phase # "idle", Onward(request')
  PROVE  ToolInv'
  <1>1. selected' = selected /\ costModuleEnabled' = costModuleEnabled /\ wanted' = wanted
    BY DEF selected, costModuleEnabled, wanted
  <1>2. \A tool : Offered(tool)' = Offered(tool)
    BY <1>1 DEF Offered
  <1> QED BY <1>1, <1>2
         DEF ToolInv, Onward, Parsed, Validated, NotYetOpened, OpenedInOrder, Serving, Losing, Offered

(* Every list of regions that is kept warns if it was guessed.              *)
LEMMA Remembered ==
  ASSUME RegionsWarn, NEW outcome, NEW kept \in Remember(outcome)
  PROVE  \A client \in DOMAIN kept : kept[client].fallback => kept[client].warning
  <1>1. Discovery(outcome).fallback = Discovery(outcome).warning
    BY Zenon DEF Discovery
  <1>2. CASE kept = regions
    BY <1>2 DEF RegionsWarn
  <1>3. CASE kept # regions
    <2>1. PICK clients \in SUBSET DOMAIN regions :
            kept = [c \in clients \cup {call.client} |->
                      IF c = call.client THEN Discovery(outcome) ELSE regions[c]]
      BY <1>3, Zenon DEF Remember
    <2> QED BY <1>1, <2>1 DEF RegionsWarn
  <1> QED BY <1>2, <1>3

LEMMA ToolNext == ToolInv /\ [Next]_vars => ToolInv'
  <1> SUFFICES ASSUME ToolInv, [Next]_vars PROVE ToolInv'
    OBVIOUS
  <1>request. request \in Requests
    BY DEF ToolInv
  <1>same. settings' = settings =>
          selected' = selected /\ costModuleEnabled' = costModuleEnabled /\ wanted' = wanted
    BY DEF selected, costModuleEnabled, wanted
  <1>1. CASE UNCHANGED vars
    BY <1>1
       DEF vars, ToolInv, Parsed, Validated, NotYetOpened, OpenedInOrder, RegionsWarn, Serving, Guessing,
           Losing, selected, costModuleEnabled, wanted, Offered
  <1>2. CASE RejectSettings
    BY <1>2, <1>same
       DEF RejectSettings, ToolInv, Processes, Parsed, Validated, NotYetOpened, OpenedInOrder,
           RegionsWarn, Serving, Guessing, Losing
  <1>3. CASE OpenClient
    <2>1. PICK client \in NextToOpen(wanted, open) : open' = open \cup {client}
      BY <1>3 DEF OpenClient
    <2>2. client \in AllClients /\ (client = "CostBQ" => "BQ" \in open)
      BY <2>1, OpensBQFirst
    <2> QED BY <1>3, <1>same, <2>1, <2>2
       DEF OpenClient, ToolInv, Processes, Parsed, Validated, NotYetOpened, OpenedInOrder,
           RegionsWarn, Serving, Guessing, Losing
  <1>4. CASE FailToOpen
    BY <1>4, <1>same
       DEF FailToOpen, ToolInv, Processes, Parsed, Validated, NotYetOpened,
           OpenedInOrder, RegionsWarn, Serving, Guessing, Losing
  <1>5. CASE Serve
    BY <1>5, <1>same
       DEF Serve, ToolInv, Processes, Parsed, Validated, NotYetOpened, OpenedInOrder,
           RegionsWarn, Serving, Guessing, Losing
  <1>6. ASSUME NEW tool \in DOMAIN Catalog, Start(tool) PROVE ToolInv'
    <2>0. Idle \in Requests /\ Idle.lost = {}
      BY DEF Idle, Requests
    <2>1. /\ request'.phase = "running" /\ request'.tool = tool /\ request'.lost = {}
          /\ request' \in Requests
      BY <1>6, <2>0 DEF Start, Requests
    <2>2. ~request'.guessed
      BY <1>6, Zenon DEF Start, Idle
    <2>3. Offered(tool)' /\ process = "serving" /\ UNCHANGED <<settings, process, open, regions>>
      BY <1>6, <1>same DEF Start, Offered
    <2> QED BY <2>1, <2>2, <2>3, <1>same
           DEF ToolInv, Parsed, Validated, NotYetOpened, OpenedInOrder, RegionsWarn, Serving, Guessing,
               Losing
  <1>7. CASE SkipPart
    <2>1. request' = [request EXCEPT !.at = @ + call.asked] /\ request.at + call.asked \in Nat \ {0}
          /\ request.phase = "running"
      BY <1>request, <1>7, CallFacts DEF SkipPart, Requests, AtCall, Running
    <2>2. Onward(request') /\ request'.guessed = request.guessed
      BY <1>request, <2>1 DEF Onward, Requests, ToolInv, Losing
    <2>3. RegionsWarn' /\ Guessing'
      BY <1>7, <2>2 DEF SkipPart, ToolInv, RegionsWarn, Guessing, Onward
    <2> QED BY <1>7, <2>1, <2>2, <2>3, RequestStep DEF SkipPart
  <1>8. ASSUME NEW outcome \in Outcome, Meet(outcome) PROVE ToolInv'
    <2>1. request' = After(outcome) /\ AtCall /\ request.phase = "running"
      BY <1>8 DEF Meet, AtCall, Running
    <2>2. Onward(request') /\ request'.guessed = request.guessed
      BY <2>1, AfterFacts
    <2>3. RegionsWarn' /\ Guessing'
      BY <1>8, <2>2 DEF Meet, ToolInv, RegionsWarn, Guessing, Onward
    <2> QED BY <1>8, <2>1, <2>2, <2>3, RequestStep DEF Meet
  <1>9. ASSUME NEW outcome \in Outcome, Discover(outcome) PROVE ToolInv'
    <2>0. AtCall /\ request.phase = "running" /\ RegionsWarn /\ Guessing /\ call.kept
      BY <1>9 DEF Discover, AtCall, Running, ToolInv
    <2>1. CASE EffectOf(call, outcome) = "empty"
      <3>1. request' = After(outcome) /\ regions' = regions
        BY <1>9, <2>1 DEF Discover
      <3>2. Onward(request') /\ request'.guessed = request.guessed
        BY <2>0, <3>1, AfterFacts
      <3>3. RegionsWarn' /\ Guessing'
        BY <2>0, <3>1, <3>2 DEF RegionsWarn, Guessing, Onward
      <3> QED BY <1>9, <2>0, <3>2, <3>3, RequestStep DEF Discover
    <2>2. CASE EffectOf(call, outcome) # "empty"
      <3>1. /\ regions' \in Remember(outcome)
            /\ request' \in {[request EXCEPT !.at = @ + 1]} \cup
                 (IF call.failed = "none" THEN {} ELSE {UseRegions(regions'[call.client])})
        BY <1>9, <2>2 DEF Discover
      <3>2. RegionsWarn'
        BY <2>0, <3>1, Remembered DEF RegionsWarn
      <3>3. CASE request' = [request EXCEPT !.at = @ + 1]
        <4>1. Onward(request') /\ request'.guessed = request.guessed
          BY <1>request, <2>0, <3>3 DEF Onward, Requests, ToolInv, Losing
        <4>2. Guessing'
          BY <2>0, <4>1 DEF Guessing, Onward
        <4> QED BY <1>9, <2>0, <3>2, <4>1, <4>2, RequestStep DEF Discover
      <3>4. CASE call.failed # "none" /\ request' = UseRegions(regions'[call.client])
        <4> DEFINE list == regions'[call.client]
                   met == IF list.warning THEN "failed" ELSE "whole"
                   r == After(met)
        <4>1. call.client \in DOMAIN regions'
          <5>1. CASE Discovered
            BY <3>1, <5>1 DEF Remember, Discovered
          <5>2. CASE ~Discovered
            BY <3>1, <5>2, Zenon DEF Remember
          <5> QED BY <5>1, <5>2
        <4>2. list.fallback => list.warning
          BY <3>2, <4>1 DEF RegionsWarn
        <4>3. met \in Outcome
          BY DEF Outcome
        <4>4. call.failed = "told"
          BY <2>0, <3>4, CallFacts DEF Marked
        <4>5. list.warning => EffectOf(call, met) = "told"
          BY <4>4 DEF EffectOf
        <4>6. Onward(r) /\ r.guessed = request.guessed /\ (list.warning => "told" \in r.lost)
          BY <2>0, <4>3, <4>5, AfterFacts
        <4>7. request' = [r EXCEPT !.guessed = @ \/ list.fallback]
          BY <3>4 DEF UseRegions
        <4> HIDE DEF list, met, r
        <4>8. /\ request'.phase = r.phase /\ request'.tool = r.tool /\ request'.at = r.at
              /\ request'.lost = r.lost
          BY <4>6, <4>7 DEF Onward, Requests
        <4>9. request'.guessed <=> r.guessed \/ list.fallback
          BY <4>6, <4>7, Zenon DEF Onward, Requests
        <4>10. request' \in Requests
          BY <4>6, <4>7 DEF Onward, Requests
        <4>11. Onward(request')
          BY <4>6, <4>8, <4>10 DEF Onward
        <4>12. Guessing'
          BY <2>0, <4>2, <4>6, <4>8, <4>9 DEF Guessing, Onward
        <4> QED BY <1>9, <2>0, <3>2, <4>11, <4>12, RequestStep DEF Discover
      <3> QED BY <3>1, <3>3, <3>4
    <2> QED BY <2>1, <2>2
  <1>10. CASE Answer
    <2>1. request' = [request EXCEPT !.phase = "answered"] /\ request.phase = "running"
      BY <1>10 DEF Answer, Running
    <2>2. Onward(request') /\ request'.guessed = request.guessed
      BY <1>request, <2>1 DEF Onward, Requests, ToolInv, Losing
    <2>3. RegionsWarn' /\ Guessing'
      BY <1>10, <2>2 DEF Answer, ToolInv, RegionsWarn, Guessing, Onward
    <2> QED BY <1>10, <2>1, <2>2, <2>3, RequestStep DEF Answer
  <1>11. CASE Cancel
    <2>1. request' = [request EXCEPT !.phase = "failed"] /\ request.phase = "running"
      BY <1>11 DEF Cancel, Running
    <2>2. Onward(request') /\ request'.guessed = request.guessed
      BY <1>request, <2>1 DEF Onward, Requests, ToolInv, Losing
    <2>3. Guessing'
      BY <2>2 DEF ToolInv, Guessing, Onward
    <2>4. RegionsWarn'
      <3>1. regions' = regions \/ regions' \in Remember("failed")
        BY <1>11 DEF Cancel
      <3> QED BY <3>1, Remembered DEF ToolInv, RegionsWarn
    <2> QED BY <1>11, <2>1, <2>2, <2>3, <2>4, RequestStep DEF Cancel
  <1>12. CASE Reply
    <2>1. Idle \in Requests /\ Idle.phase = "idle" /\ Idle.lost = {}
      BY DEF Idle, Requests
    <2>2. ~Idle.guessed
      BY Zenon DEF Idle
    <2>3. request' = Idle /\ UNCHANGED <<settings, process, open, regions>>
      BY <1>12 DEF Reply
    <2> QED BY <2>1, <2>2, <2>3, <1>same
           DEF ToolInv, Parsed, Validated, NotYetOpened, OpenedInOrder, RegionsWarn, Serving, Guessing,
               Losing
  <1>13. ASSUME NEW client \in DOMAIN regions, Expire(client) PROVE ToolInv'
    <2>1. RegionsWarn'
      BY <1>13 DEF Expire, ToolInv, RegionsWarn
    <2>2. UNCHANGED <<settings, process, open, request>>
      BY <1>13 DEF Expire
    <2> QED BY <2>1, <2>2, <1>same
           DEF ToolInv, Parsed, Validated, NotYetOpened, OpenedInOrder, Serving, Guessing, Losing, Offered
  <1> QED BY <1>1, <1>2, <1>3, <1>4, <1>5, <1>6, <1>7, <1>8, <1>9, <1>10, <1>11, <1>12, <1>13
         DEF Next, Proceed

(* The inductive invariant holds in every state, whatever --modules says and *)
(* whichever of the clients cannot be opened.                               *)
THEOREM ToolInvariant == Spec => []ToolInv
  BY ToolInit, ToolNext, PTL DEF Spec

(* No request ever calls a client that was not opened: the clients the      *)
(* adapter opens for the selected modules (neededClients, modules.go) are   *)
(* enough for every call of every tool that is offered, but for those to the *)
(* Recommender, which has a switch of its own.                              *)
THEOREM ClientsAlwaysSuffice == Spec => []ClientsSuffice
  <1>1. ToolInv => ClientsSuffice
    BY CallFacts DEF ClientsSuffice, Available
  <1> QED BY <1>1, ToolInvariant, PTL

(* An answer that lacks what a failed call or a cut listing would have given *)
(* says so, whatever happens in whatever order, but for the tools named.    *)
THEOREM GapsAreAlwaysTold == Spec => []GapsAreTold
  <1>1. ToolInv => GapsAreTold
    BY DEF ToolInv, Losing, GapsAreTold
  <1> QED BY <1>1, ToolInvariant, PTL

(* An answer that used the guessed list of regions (regions.go:52) warns of *)
(* it, also when the list was guessed for an earlier request and kept.      *)
THEOREM GuessIsAlwaysTold == Spec => []GuessIsTold
  <1>1. ToolInv => GuessIsTold
    BY DEF ToolInv, Guessing, GuessIsTold
  <1> QED BY <1>1, ToolInvariant, PTL

(* A process that stops because a client could not be opened, whichever it *)
(* is and whatever was selected, has called the Close of every client it    *)
(* had opened, and no connection's twice (client.go: New, closeClients).    *)
THEOREM NothingIsLeftOpen == Spec => NothingLeftOpen
  <1> DEFINE own == settings.ownProject
             A == process' = "client" /\ process # "client" =>
                    \A client \in open \ services :
                      \E closed \in open \ open' :
                        /\ connection(closed, settings.ownProject) = connection(client, settings.ownProject)
                        /\ \A other \in open \ open' :
                             connection(other, settings.ownProject) = connection(client, settings.ownProject) => other = closed
  <1>1. ToolInv /\ [Next]_vars => [A]_vars
    <2> SUFFICES ASSUME ToolInv, Next, process' = "client", process # "client",
                        NEW client \in open \ services
        PROVE  \E closed \in open \ open' :
                 /\ connection(closed, own) = connection(client, own)
                 /\ \A other \in open \ open' : connection(other, own) = connection(client, own) => other = closed
      OBVIOUS
    <2>1. FailToOpen
      BY DEF Next, RejectSettings, OpenClient, Serve, Start, Proceed, SkipPart, Meet, Discover,
             Answer, Cancel, Reply, Expire
    <2>2. /\ open \ open' = closeClients(open, own)
          /\ client \in AllClients
          /\ "CostBQ" \in open => "BQ" \in open
      BY <2>1 DEF FailToOpen, closeClients, ToolInv, OpenedInOrder
    <2>3. client \in {"ClusterMgr", "RunSvc", "RunRevisions", "RunJobs", "RunExecs", "Eventarc",
                      "Scheduler", "Workflows", "WorkflowExec", "Tasks", "SecretMgr", "PubSub",
                      "LogAdmin", "Metric", "Recommender", "CostBQ", "BQ", "GCS"}
      BY <2>2 DEF AllClients, openingOrder, services
    <2>4. CASE client = "CostBQ" /\ own
      <3>1. "BQ" \in open \ open'
        BY <2>2, <2>4 DEF closeClients
      <3>2. \A other \in open \ open' : connection(other, own) = "BQ" => other = "BQ"
        BY <2>2, <2>4 DEF closeClients, connection
      <3> QED BY <2>4, <3>1, <3>2 DEF connection
    <2>5. CASE ~(client = "CostBQ" /\ own)
      <3>1. client \in open \ open' /\ connection(client, own) = client
        BY <2>2, <2>3, <2>5 DEF closeClients, connection
      <3>2. \A other \in open \ open' : connection(other, own) = other
        BY <2>2 DEF closeClients, connection
      <3> QED BY <3>1, <3>2
    <2> QED BY <2>4, <2>5
  <1>2. NothingLeftOpen <=> [][A]_vars
    BY DEF NothingLeftOpen
  <1> QED BY <1>1, ToolInvariant, PTL DEF Spec, NothingLeftOpen

(* Of the settings that --modules accepts, the adapter refuses only those   *)
(* that name serverlessgraph, which moduleClientDeps does not have.         *)
THEOREM AcceptedModulesAlwaysStart == Spec => []AcceptedModulesStart
  <1>1. AllModules \cup {"recommender_export"} \subseteq DOMAIN moduleClientDeps \cup {"serverlessgraph"}
    BY DEF AllModules, moduleClientDeps
  <1>2. ToolInv => AcceptedModulesStart
    <2> SUFFICES ASSUME ToolInv, process = "settings" PROVE "serverlessgraph" \in settings.names
      BY DEF AcceptedModulesStart
    <2>1. /\ settings.all \/ settings.names \subseteq AllModules \cup {"recommender_export"}
          /\ ~settings.all /\ ~(settings.names \subseteq DOMAIN moduleClientDeps)
      BY DEF ToolInv, Parsed, Validated, parseModulesFlag, validateAdapterSettings, selected, Selection
    <2> QED BY <1>1, <2>1
  <1> QED BY <1>2, ToolInvariant, PTL
=============================================================================
