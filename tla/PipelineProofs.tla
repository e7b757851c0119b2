---------------------------- MODULE PipelineProofs ----------------------------
(***************************************************************************)
(* What holds of the agent's pipeline for every list of phases, chain of    *)
(* levels and limit.  The invariant is Types /\ ReviewsDue /\ Evidence: the *)
(* types with CyclesBounded, without which the count could run on; the      *)
(* reviews that are due, which are of phases that have reviewers; and that  *)
(* phaseToolCalls counts the calls of the visit, no others.                 *)
(*                                                                          *)
(* Then, beside the pipeline: that a rotation of reviewers has each fix     *)
(* reviewed by somebody else, from the providers of a level being distinct  *)
(* (ReviewsInv); and what the loop of a terminal promises under interrupts  *)
(* (TerminalInv).                                                           *)
(***************************************************************************)
EXTENDS Pipeline, Reviews, Terminal, FiniteSetTheorems, TLAPS

Level == {0} \cup 0..(Levels - 1)
From(level) == {l \in Level : l >= level}

GhostType == [visit : BOOLEAN, evidence : 0..ToolCap, unreviewed : SUBSET Nat]

Types ==
    /\ pipeline \in Pipelines \cup {Detected}
    /\ pipelinePhase \in 1..(Len(Phases) + 1)
    /\ counters \in CounterType
    /\ pipelineCycles \in 0..(maxPipelineCycles + 1)
    /\ tracker \in TrackerType
    /\ providerIdx \in Level
    /\ ghost \in GhostType
    /\ CyclesBounded

ReviewsDue ==
    /\ IndependentReview
    /\ \A i \in ghost.unreviewed : i \in 1..Len(Phases) /\ IsReviewed(i)

Evidence == ghost.evidence = counters.toolCalls

LoopTypes ==
    /\ pc \in {"begin", "call", "text", "final", "done"}
    /\ pending \in Seq(Signals)
    /\ noToolTurns \in 0..2
    /\ exhaustionRedirects \in 0..maxRedirects
    /\ pc # "done" => exhaustionRedirects < maxRedirects

PhaseInv == Types /\ ReviewsDue /\ Evidence
Inv == PhaseInv /\ LoopTypes

-----------------------------------------------------------------------------
(* Levels *)

LEMMA ChainType == Levels \in Nat
<1> DEFINE T == Tiers \cup {""}
<1>1. Chain \in Seq(T)
  BY PipelineAssumption
<1> HIDE DEF T
<1> QED BY <1>1 DEF Levels

LEMMA SettingLevels ==
  ASSUME NEW from \in Level, NEW level \in Int
  PROVE  SetMinProviderLevel(from, level) \in From(from)
BY ChainType DEF SetMinProviderLevel, From, Level, LeastOf

LEMMA Escalating ==
  ASSUME NEW level \in Level
  PROVE  /\ Escalated(level) \in From(level)
         /\ AfterParallel(level) \subseteq From(level)
         /\ AfterReviewers(level) \subseteq From(level)
<1>1. level \in From(level)
  BY ChainType DEF From, Level
<1>2. Escalated(level) \in From(level)
  BY <1>1, SettingLevels, ChainType DEF Escalated, Level
<1>3. AfterReviewers(level) \subseteq From(level)
  BY <1>1, ChainType DEF AfterReviewers, From, Level
<1> QED BY <1>1, <1>2, <1>3 DEF AfterParallel

LEMMA TierLevels ==
  ASSUME NEW tier \in Tiers
  PROVE  ProviderLevelForTier(tier) \in Int
<1> DEFINE before == {i \in 1..Levels : \A j \in 1..i : Chain[j] # tier}
<1>1. IsFiniteSet(1..Levels)
  BY FS_Interval, ChainType
<1>2. IsFiniteSet(before)
  BY <1>1, FS_Subset
<1>3. Cardinality(before) \in Nat
  BY <1>2, FS_CardinalityType
<1>4. Levels \div 3 \in Int /\ (2 * Levels) \div 3 \in Int
  BY ChainType
<1> QED BY <1>3, <1>4 DEF ProviderLevelForTier, Tiers

LEMMA Chained == 
  ASSUME NEW a \in Level, NEW b \in From(a), NEW c \in From(b)
  PROVE  c \in From(a)
BY ChainType DEF From, Level

LEMMA Routing ==
  ASSUME NEW phase \in Phase, NEW level \in Level
  PROVE  LevelOf(phase, level) \in From(level)
<1> DEFINE routed == IF Levels > 1
                       THEN SetMinProviderLevel(level, ProviderLevelForTier(phase.tier))
                       ELSE level
<1>1. phase.tier \in Tiers
  BY DEF Phase
<1>2. routed \in From(level)
  BY <1>1, TierLevels, SettingLevels, ChainType DEF From, Level
<1>3. routed \in Level
  BY <1>2 DEF From
<1>4. Escalated(routed) \in From(level)
  BY <1>2, <1>3, Escalating, Chained
<1> QED BY <1>2, <1>4 DEF LevelOf

-----------------------------------------------------------------------------
(* Phases and reviews *)

LEMMA PhaseTypes ==
  ASSUME pipeline \in Pipelines \cup {Detected}
  PROVE  /\ Phases \in Seq(Phase) /\ Len(Phases) \in Nat \ {0}
         /\ \A i \in 1..Len(Phases) : Phases[i] \in Phase
         /\ Phases \in Pipelines \cup {Detected}
<1>1. Phases \in Seq(Phase) /\ Phases # <<>> /\ Phases \in Pipelines \cup {Detected}
  BY PipelineAssumption DEF Phases
<1> HIDE DEF Phase
<1> QED BY <1>1

\* The pipeline of the next state is the one that was acted on.
LEMMA SamePhases ==
  ASSUME pipeline' = Phases
  PROVE  Phases' = Phases
BY PipelineAssumption DEF Phases

LEMMA Limits ==
  /\ RetriesToSkip \in Nat \ {0} /\ PlateauToSkip \in Nat \ {0}
  /\ maxPipelineCycles \in Nat \ {0} /\ maxRedirects \in Nat \ {0}
  /\ MaxPhaseTurns \in Nat \ {0} /\ MaxFindings \in Nat
BY PipelineAssumption

LEMMA Fresh == NewCounters \in CounterType /\ NewTracker \in TrackerType
BY Limits DEF NewCounters, CounterType, NewTracker, TrackerType, ToolCap

\* A judgement that is not hopeless can be kept, and a hopeless one has a past.
LEMMA Judging ==
  ASSUME NEW t \in TrackerType, NEW j \in Judgements(t)
  PROVE  /\ ~Hopeless(j) => j \in TrackerType
         /\ Hopeless(j) => t.diverge > 0 \/ t.stable > 0
<1>1. PICK found \in 0..MaxFindings, code \in BOOLEAN, same \in BOOLEAN :
         j = Judged(t, found, code, same)
  BY DEF Judgements
<1>2. /\ j.diverge \in {0, t.diverge + 1} /\ j.stable \in {0, t.stable + 1}
      /\ j = [findings |-> found, diverge |-> j.diverge, code |-> code, stable |-> j.stable]
  BY <1>1 DEF Judged
<1>3. t.diverge \in 0..1 /\ t.stable \in 0..1
  BY DEF TrackerType
<1> QED BY <1>2, <1>3, Limits DEF TrackerType, Hopeless

LEMMA FirstJudgement ==
  ASSUME NEW j \in Judgements(NewTracker)
  PROVE  j \in TrackerType /\ ~Hopeless(j)
<1>1. ~Hopeless(j)
  BY Fresh, Judging DEF NewTracker
<1> QED BY <1>1, Fresh, Judging

\* Where the next phase is, which phases are reviewed with it, and where a
\* refusal leads: not beyond the phase that is left.
LEMMA Places ==
  ASSUME Types, ~AllDone
  PROVE  /\ pipelinePhase \in 1..Len(Phases) /\ Current \in Phase
         /\ pipelinePhase + 1 <= Len(Phases)
              => LastReviewed \in (pipelinePhase + 1)..Len(Phases)
         /\ FixPhase \in 1..Len(Phases)
         /\ pipelinePhase + 1 <= Len(Phases) /\ IsReviewed(pipelinePhase + 1)
              => FixPhase <= pipelinePhase
<1>1. pipelinePhase \in 1..Len(Phases) /\ Len(Phases) \in Nat /\ Current \in Phase
  BY PhaseTypes DEF Types, AllDone, Current
<1>2. pipelinePhase + 1 <= Len(Phases) => LastReviewed \in (pipelinePhase + 1)..Len(Phases)
  BY <1>1 DEF LastReviewed
<1> DEFINE found == {i \in 1..Len(Phases) : Phases[i].name = "self-check"}
<1>3. FixPhase = IF found = {} THEN pipelinePhase ELSE CHOOSE i \in found : TRUE
  BY DEF FixPhase
<1>4. FixPhase = pipelinePhase \/ FixPhase \in found
  <2>1. CASE found = {}
    BY <2>1, <1>3
  <2>2. CASE found # {}
    BY <2>2, <1>3
  <2> QED BY <2>1, <2>2
<1>5. FixPhase \in 1..Len(Phases)
  BY <1>1, <1>4
<1>6. ASSUME pipelinePhase + 1 <= Len(Phases), IsReviewed(pipelinePhase + 1), FixPhase \in found
      PROVE  FixPhase <= pipelinePhase
  <2>1. /\ Phases \in Pipelines \cup {Detected} /\ pipelinePhase + 1 \in 1..Len(Phases)
        /\ Phases[pipelinePhase + 1].subAgent
        /\ FixPhase \in 1..Len(Phases) /\ Phases[FixPhase].name = "self-check"
    BY <1>1, <1>6, PhaseTypes DEF Types, IsReviewed
  <2>2. FixPhase < pipelinePhase + 1
    BY <2>1, FixAssumption
  <2> QED BY <2>1, <2>2, <1>1
<1> QED BY <1>1, <1>2, <1>4, <1>5, <1>6

\* A count that was above the limit stays there until it is looked at; a skip
\* looks at it.
LEMMA Counting ==
  ASSUME Types, NEW c
  PROVE  /\ CyclesAfter(c) \in 0..(maxPipelineCycles + 1)
         /\ c \in Skips => CyclesAfter(c) <= maxPipelineCycles
         /\ CyclesAfter(c) > maxPipelineCycles => tracker = NewTracker
BY Limits DEF Types, CyclesAfter, CyclesBounded

-----------------------------------------------------------------------------
(* advancePipeline *)

LEMMA Rejecting ==
  ASSUME PhaseInv, pipeline' = Phases, ~AllDone, NEW c,
         RejectClaim(c) \/ RejectChecks(c)
  PROVE  PhaseInv' /\ providerIdx' \in From(providerIdx)
<1> USE DEF PhaseInv
<1>1. Phases' = Phases /\ pipeline' \in Pipelines \cup {Detected}
  BY SamePhases, PhaseTypes DEF Types
<1>2. /\ pipelineCycles' = CyclesAfter(c) /\ ShouldAdvance(c)
      /\ UNCHANGED <<pipelinePhase, tracker, ghost>>
  BY DEF RejectClaim, RejectChecks
<1>3. counters' \in CounterType /\ counters'.toolCalls = counters.toolCalls
      /\ providerIdx' \in From(providerIdx)
  <2>1. counters \in CounterType /\ providerIdx \in Level /\ providerIdx \in From(providerIdx)
        /\ Escalated(providerIdx) \in From(providerIdx) /\ Current \in Phase
    BY Escalating, Places, ChainType DEF Types, From, Level
  <2>2. CASE RejectClaim(c)
    <3>1. counters.retries + 1 < RetriesToSkip
      BY <2>1, <2>2, Limits DEF RejectClaim, ReachesGate, CounterType
    <3>2. counters' = [counters EXCEPT !.retries = @ + 1]
      BY <2>2 DEF RejectClaim
    <3>3. counters' \in CounterType /\ counters'.toolCalls = counters.toolCalls
      BY <2>1, <3>1, <3>2, Limits DEF CounterType
    <3> QED BY <2>1, <2>2, <3>3 DEF RejectClaim
  <2>3. CASE RejectChecks(c)
    <3>1. PICK score \in 0..(Current.checks - 1) :
            /\ ~Deadlocked(GateFailed(score)) /\ counters' = GateFailed(score)
            /\ providerIdx' = LevelAfterGate(GateFailed(score))
      BY <2>3 DEF RejectChecks, Failures
    <3> DEFINE r == (IF Unproven THEN 0 ELSE counters.retries) + 1
               p == IF score > counters.score THEN 0 ELSE counters.plateau + 1
    <3>2. /\ r \in Nat /\ p \in Nat /\ score \in Nat
      BY <2>1, Limits DEF CounterType, Phase
    <3>3. counters' = [counters EXCEPT !.retries = r, !.plateau = p, !.score = score]
      BY <3>1 DEF GateFailed
    <3> HIDE DEF r, p
    <3>4. counters'.retries = r /\ counters'.plateau = p
      BY <2>1, <3>3 DEF CounterType
    <3>5. r \in 0..(RetriesToSkip - 1) /\ p \in 0..(PlateauToSkip - 1)
      BY <3>1, <3>2, <3>4, Limits DEF Deadlocked
    <3>6. counters' \in CounterType /\ counters'.toolCalls = counters.toolCalls
      BY <2>1, <3>2, <3>3, <3>5 DEF CounterType
    <3> QED BY <2>1, <3>1, <3>6 DEF LevelAfterGate
  <2> QED BY <2>2, <2>3
<1>4. CyclesBounded'
  BY <1>2, Counting, Limits DEF CyclesBounded, Types
<1>5. Types'
  BY <1>1, <1>2, <1>3, <1>4, Counting DEF Types, From
<1>6. ReviewsDue'
  BY <1>1, <1>2 DEF ReviewsDue, IndependentReview, IsReviewed
<1>7. Evidence'
  BY <1>2, <1>3 DEF Evidence
<1> QED BY <1>3, <1>5, <1>6, <1>7

\* The ghost of a phase that is begun.
LEMMA Visits ==
  ASSUME Types
  PROVE  /\ NewVisit \in GhostType
         /\ NewVisit.evidence = 0 /\ NewVisit.unreviewed = ghost.unreviewed
<1>1. ghost \in GhostType
  BY DEF Types, GhostType
<1> DEFINE v == ~ghost.visit
<1>2. v \in BOOLEAN
  OBVIOUS
<1>3. NewVisit = [ghost EXCEPT !.visit = v, !.evidence = 0]
  BY DEF NewVisit
<1> HIDE DEF v
<1>4. 0 \in 0..ToolCap
  BY DEF ToolCap
<1>5. NewVisit = [visit |-> v, evidence |-> 0, unreviewed |-> ghost.unreviewed]
  BY <1>1, <1>3 DEF GhostType
<1>6. ghost.unreviewed \in SUBSET Nat
  BY <1>1 DEF GhostType
<1>7. NewVisit \in GhostType
  BY <1>2, <1>4, <1>5, <1>6, Zenon DEF GhostType
<1> QED BY <1>5, <1>7

LEMMA VisitsWithout ==
  ASSUME Types, NEW S
  PROVE  LET begun == [NewVisit EXCEPT !.unreviewed = @ \ S]
         IN  /\ begun \in GhostType
             /\ begun.evidence = 0 /\ begun.unreviewed = ghost.unreviewed \ S
<1>1. NewVisit \in GhostType /\ NewVisit.evidence = 0
      /\ NewVisit.unreviewed = ghost.unreviewed
  BY Visits
<1> HIDE DEF NewVisit
<1>2. ghost.unreviewed \ S \in SUBSET Nat
  BY <1>1 DEF GhostType
<1> QED BY <1>1, <1>2 DEF GhostType

LEMMA GateLevels ==
  ASSUME Types, NEW level \in LevelsPastGate
  PROVE  level \in From(providerIdx) /\ level \in Level
<1>1. providerIdx \in Level /\ providerIdx \in From(providerIdx)
      /\ Escalated(providerIdx) \in From(providerIdx)
  BY Escalating, ChainType DEF Types, From, Level
<1> QED BY <1>1 DEF LevelsPastGate, LevelAfterGate, From

LEMMA BeginningNext ==
  ASSUME PhaseInv, pipeline' = Phases, ~AllDone, NEW c, NEW level \in LevelsPastGate,
         counters' = NewCounters, BeginNext(c, level)
  PROVE  PhaseInv' /\ providerIdx' \in From(providerIdx)
<1> USE DEF PhaseInv
<1>1. Phases' = Phases /\ pipeline' \in Pipelines \cup {Detected}
      /\ Len(Phases) \in Nat /\ pipelinePhase \in 1..Len(Phases)
  BY SamePhases, PhaseTypes, Places DEF Types
<1>2. /\ pipelinePhase' = pipelinePhase + 1 /\ pipelineCycles' = CyclesAfter(c)
      /\ tracker' = NewTracker /\ ghost' = NewVisit
  BY DEF BeginNext
<1>3. providerIdx' \in From(providerIdx)
  <2>1. level \in From(providerIdx) /\ level \in Level /\ providerIdx \in Level
    BY GateLevels DEF Types
  <2>2. CASE pipelinePhase + 1 > Len(Phases)
    BY <2>1, <2>2 DEF BeginNext
  <2>3. CASE ~(pipelinePhase + 1 > Len(Phases))
    <3> DEFINE begun == LevelOf(Phases[pipelinePhase + 1], level)
    <3>1. Phases[pipelinePhase + 1] \in Phase
      BY <1>1, <2>3, PhaseTypes DEF Types
    <3>2. begun \in From(level)
      BY <2>1, <3>1, Routing
    <3>3. begun \in Level /\ begun \in From(begun)
      BY <3>2, ChainType DEF From, Level
    <3>4. providerIdx' \in AfterParallel(begun) \cup {begun}
      BY <2>3 DEF BeginNext, AfterParallel
    <3>5. providerIdx' \in From(begun)
      BY <3>3, <3>4, Escalating
    <3>6. providerIdx' \in From(level)
      BY <2>1, <3>2, <3>5, Chained
    <3> QED BY <2>1, <3>6, Chained
  <2> QED BY <2>2, <2>3
<1>4. CyclesBounded' /\ pipelineCycles' \in 0..(maxPipelineCycles + 1)
  BY <1>2, Counting, Limits DEF CyclesBounded
<1>5. Types'
  BY <1>1, <1>2, <1>3, <1>4, Fresh, Visits DEF Types, From
<1>6. ReviewsDue'
  <2>1. ghost'.unreviewed = ghost.unreviewed
    BY <1>2, Visits
  <2>2. pipelinePhase + 1 \notin ghost.unreviewed
    BY <1>1 DEF BeginNext, ReviewsDue
  <2>3. \A i \in ghost.unreviewed : pipelinePhase + 1 < i
    BY <1>1, <2>2 DEF ReviewsDue, IndependentReview
  <2> QED BY <1>1, <1>2, <2>1, <2>3 DEF ReviewsDue, IndependentReview, IsReviewed
<1>7. Evidence'
  BY <1>2, Visits DEF Evidence, NewCounters
<1> QED BY <1>3, <1>5, <1>6, <1>7

LEMMA Reviewing ==
  ASSUME PhaseInv, pipeline' = Phases, ~AllDone, NEW c, NEW level \in LevelsPastGate,
         counters' = NewCounters, Review(c, level)
  PROVE  PhaseInv' /\ providerIdx' \in From(providerIdx)
<1> USE DEF PhaseInv
<1> DEFINE next == pipelinePhase + 1
           reviewed == (pipelinePhase + 1)..LastReviewed
<1>1. /\ Phases' = Phases /\ pipeline' \in Pipelines \cup {Detected}
      /\ Len(Phases) \in Nat /\ pipelinePhase \in 1..Len(Phases)
      /\ next <= Len(Phases) /\ IsReviewed(next) /\ Phases[next] \in Phase
      /\ LastReviewed \in next..Len(Phases)
      /\ FixPhase \in 1..Len(Phases) /\ FixPhase <= pipelinePhase
  BY SamePhases, PhaseTypes, Places DEF Types, Review
<1>2. PICK used \in ReviewLevels(LevelOf(Phases[next], level)) :
         Approve(c, used) \/ Refuse(c, used)
  BY DEF Review
<1>3. used \in From(providerIdx) /\ Escalated(used) \in From(providerIdx)
  <2> DEFINE begun == LevelOf(Phases[next], level)
  <2>1. level \in From(providerIdx) /\ level \in Level /\ providerIdx \in Level
    BY GateLevels DEF Types
  <2>2. begun \in From(level)
    BY <1>1, <2>1, Routing
  <2>3. begun \in Level /\ begun \in From(begun)
    BY <2>2, ChainType DEF From, Level
  <2>4. used \in AfterReviewers(begun) \cup {begun, Escalated(begun)}
    BY DEF ReviewLevels
  <2>5. used \in From(begun)
    BY <2>3, <2>4, Escalating
  <2>6. used \in From(providerIdx)
    BY <2>1, <2>2, <2>5, Chained
  <2>7. Escalated(used) \in From(used)
    BY <2>6, Escalating DEF From
  <2> QED BY <2>1, <2>6, <2>7, Chained
<1>4. /\ providerIdx' \in From(providerIdx) /\ tracker' \in TrackerType
      /\ pipelineCycles' \in 0..(maxPipelineCycles + 1) /\ CyclesBounded'
      /\ pipelinePhase' \in 1..Len(Phases)
      /\ pipelinePhase' <= pipelinePhase \/ pipelinePhase' = LastReviewed
  <2>1. CASE Approve(c, used)
    BY <1>1, <1>3, <2>1, Counting, Fresh, Limits DEF Approve, CyclesBounded
  <2>2. CASE Refuse(c, used)
    <3>1. PICK t \in Judgements(NewTracker) :
            /\ tracker' = t
            /\ IF Hopeless(t) \/ CyclesAfter(c) + 1 > maxPipelineCycles
                 THEN /\ pipelinePhase' = LastReviewed
                      /\ pipelineCycles' = IF Hopeless(t) THEN CyclesAfter(c) + 1 ELSE 0
                      /\ providerIdx' = used
                 ELSE /\ pipelinePhase' = FixPhase
                      /\ pipelineCycles' = CyclesAfter(c) + 1
                      /\ providerIdx' = Escalated(used)
      BY <2>2 DEF Refuse
    <3>2. t \in TrackerType /\ ~Hopeless(t)
      BY FirstJudgement
    <3>3. pipelineCycles' \in 0..maxPipelineCycles
      BY <3>1, <3>2, Counting, Limits
    <3>4. CyclesBounded'
      BY <3>3, Limits DEF CyclesBounded
    <3> QED BY <1>1, <1>3, <3>1, <3>2, <3>3, <3>4, Limits
  <2> QED BY <1>2, <2>1, <2>2
<1>5. /\ ghost' \in GhostType /\ ghost'.evidence = 0
      /\ ghost'.unreviewed = ghost.unreviewed \ reviewed
  BY VisitsWithout DEF Review, Reviewed
<1>6. Types'
  BY <1>1, <1>4, <1>5, Fresh DEF Types, From
<1>7. ReviewsDue'
  <2>1. \A i \in ghost'.unreviewed :
           /\ i \in 1..Len(Phases) /\ IsReviewed(i)
           /\ pipelinePhase < i /\ i \notin next..LastReviewed
    BY <1>5 DEF ReviewsDue, IndependentReview
  <2>2. \A i \in ghost'.unreviewed : LastReviewed < i
    BY <1>1, <2>1
  <2> QED BY <1>1, <1>4, <2>1, <2>2 DEF ReviewsDue, IndependentReview, IsReviewed
<1>8. Evidence'
  BY <1>5 DEF Evidence, NewCounters
<1> QED BY <1>4, <1>6, <1>7, <1>8

LEMMA Failing ==
  ASSUME PhaseInv, pipeline' = Phases, ~AllDone, NEW c, Fail(c)
  PROVE  PhaseInv' /\ providerIdx' \in From(providerIdx)
<1> USE DEF PhaseInv
<1>1. /\ Phases' = Phases /\ pipeline' \in Pipelines \cup {Detected}
      /\ Len(Phases) \in Nat /\ pipelinePhase \in 1..Len(Phases)
      /\ counters \in CounterType /\ providerIdx \in Level
      /\ providerIdx \in From(providerIdx) /\ Escalated(providerIdx) \in From(providerIdx)
      /\ tracker \in TrackerType /\ pipelineCycles \in 0..(maxPipelineCycles + 1)
      /\ ghost \in GhostType
  BY SamePhases, PhaseTypes, Places, Escalating, ChainType DEF Types, From, Level
<1>2. PICK t \in Judgements(tracker) : Retry(t) \/ GiveUp(t)
  BY DEF Fail
<1>3. CASE Retry(t)
  <2>1. t \in TrackerType
    BY <1>1, <1>3, Judging DEF Retry
  <2>2. /\ counters' \in CounterType /\ counters'.toolCalls = 0
    <3>1. counters' = [counters EXCEPT !.toolCalls = 0, !.turns = 0]
      BY <1>3 DEF Retry
    <3>2. 0 \in 0..ToolCap /\ 0 \in 0..(MaxPhaseTurns + 1)
      BY Limits DEF ToolCap
    <3> QED BY <1>1, <3>1, <3>2 DEF CounterType
  <2>3. ghost' = [ghost EXCEPT !.evidence = 0]
    BY <1>3 DEF Retry
  <2>4. /\ ghost' \in GhostType /\ ghost'.evidence = 0
        /\ ghost'.unreviewed = ghost.unreviewed
    BY <1>1, <2>3 DEF GhostType, ToolCap
  <2>5. pipelineCycles' \in 0..maxPipelineCycles /\ CyclesBounded'
    BY <1>1, <1>3, Limits DEF Retry, CyclesBounded
  <2>6. Types' /\ providerIdx' \in From(providerIdx)
    BY <1>1, <1>3, <2>1, <2>2, <2>4, <2>5, Limits DEF Retry, Types, From
  <2>7. ReviewsDue' /\ Evidence'
    BY <1>1, <1>3, <2>2, <2>4 DEF Retry, ReviewsDue, IndependentReview, IsReviewed, Evidence
  <2> QED BY <2>6, <2>7
<1>4. CASE GiveUp(t)
  <2>1. /\ ghost' \in GhostType /\ ghost'.evidence = 0
        /\ ghost'.unreviewed = ghost.unreviewed \ {pipelinePhase + 1}
    BY <1>4, VisitsWithout DEF GiveUp
  <2>2. pipelineCycles' \in 0..(maxPipelineCycles + 1) /\ CyclesBounded'
    <3>1. CASE Hopeless(t)
      <4>1. tracker # NewTracker
        BY <1>1, <3>1, Judging DEF NewTracker
      <4>2. pipelineCycles <= maxPipelineCycles
        BY <1>1, <4>1, Limits DEF Types, CyclesBounded
      <4> QED BY <1>1, <1>4, <3>1, <4>2, Limits DEF GiveUp, CyclesBounded
    <3>2. CASE ~Hopeless(t)
      BY <1>4, <3>2, Limits DEF GiveUp, CyclesBounded
    <3> QED BY <3>1, <3>2
  <2>3. Types' /\ providerIdx' \in From(providerIdx)
    BY <1>1, <1>4, <2>1, <2>2, Fresh DEF GiveUp, Types
  <2>4. \A i \in ghost'.unreviewed : pipelinePhase + 1 < i
    BY <1>1, <2>1 DEF ReviewsDue, IndependentReview
  <2>5. ReviewsDue'
    BY <1>1, <1>4, <2>1, <2>4 DEF GiveUp, ReviewsDue, IndependentReview, IsReviewed
  <2>6. Evidence'
    BY <1>4, <2>1 DEF GiveUp, Evidence, NewCounters
  <2> QED BY <2>3, <2>5, <2>6
<1> QED BY <1>2, <1>3, <1>4

LEMMA Advancing ==
  ASSUME PhaseInv, NEW c, AdvancePipeline(c)
  PROVE  PhaseInv' /\ providerIdx' \in From(providerIdx)
<1>1. /\ Phases' = Phases /\ pipeline' = Phases /\ pipeline' \in Pipelines \cup {Detected}
      /\ providerIdx \in From(providerIdx) /\ AfterParallel(providerIdx) \subseteq From(providerIdx)
  BY SamePhases, PhaseTypes, Escalating, ChainType
     DEF AdvancePipeline, PhaseInv, Types, From, Level
<1>2. CASE AllDone \/ Prompt(c)
  <2>1. /\ UNCHANGED <<pipelinePhase, counters, pipelineCycles, tracker, ghost>>
        /\ providerIdx' \in From(providerIdx)
    BY <1>1, <1>2 DEF AdvancePipeline, Prompt
  <2>2. Types'
    BY <1>1, <2>1 DEF PhaseInv, Types, CyclesBounded, From
  <2>3. ReviewsDue' /\ Evidence'
    BY <1>1, <2>1 DEF PhaseInv, ReviewsDue, IndependentReview, IsReviewed, Evidence
  <2> QED BY <2>1, <2>2, <2>3 DEF PhaseInv
<1>3. CASE ~AllDone /\ (RejectClaim(c) \/ RejectChecks(c))
  BY <1>1, <1>3, Rejecting
<1>4. CASE ~AllDone /\ Pass(c)
  BY <1>1, <1>4, BeginningNext, Reviewing DEF Pass
<1>5. CASE ~AllDone /\ Fail(c)
  BY <1>1, <1>5, Failing
<1> QED BY <1>2, <1>3, <1>4, <1>5 DEF AdvancePipeline

-----------------------------------------------------------------------------
(* The loop *)

\* A step that leaves the phase alone: it may spend turns, run tools and climb.
LEMMA Staying ==
  ASSUME PhaseInv, UNCHANGED <<pipeline, pipelinePhase, pipelineCycles, tracker>>,
         counters' \in CounterType, ghost' \in GhostType,
         ghost'.unreviewed = ghost.unreviewed,
         ghost'.evidence = counters'.toolCalls,
         providerIdx' \in From(providerIdx)
  PROVE  PhaseInv'
<1>1. Phases' = Phases
  BY DEF Phases
<1>2. Types'
  BY <1>1 DEF PhaseInv, Types, CyclesBounded, From
<1> QED BY <1>1, <1>2 DEF PhaseInv, ReviewsDue, IndependentReview, IsReviewed, Evidence

LEMMA Unmoved ==
  ASSUME PhaseInv, UNCHANGED <<pipeline, pipelinePhase, pipelineCycles, tracker, counters, ghost>>,
         providerIdx' \in From(providerIdx)
  PROVE  PhaseInv'
BY Staying DEF PhaseInv, Types, Evidence

LEMMA ShortSequences ==
  ASSUME NEW S, NEW a \in S
  PROVE  /\ <<>> \in Seq(S) /\ <<a>> \in Seq(S)
         /\ \A b \in S : <<b>> \o <<a>> \in Seq(S) /\ <<b>> \o <<>> \in Seq(S)
OBVIOUS

LEMMA Turning ==
  ASSUME Inv, BeginTurn
  PROVE  Inv' /\ providerIdx' \in From(providerIdx)
<1>1. /\ counters \in CounterType /\ ghost \in GhostType /\ providerIdx \in From(providerIdx)
      /\ ghost.evidence = counters.toolCalls
  BY ChainType DEF Inv, PhaseInv, Types, Evidence, From, Level
<1> DEFINE turns == LeastOf(counters.turns + 1, MaxPhaseTurns + 1)
<1>2. turns \in 0..(MaxPhaseTurns + 1)
  BY <1>1, Limits DEF CounterType, LeastOf
<1>3. counters' = counters \/ counters' = [counters EXCEPT !.turns = turns]
  BY DEF BeginTurn
<1> HIDE DEF turns
<1>4. counters' \in CounterType /\ counters'.toolCalls = counters.toolCalls
  BY <1>1, <1>2, <1>3 DEF CounterType
<1>5. PhaseInv'
  BY <1>1, <1>4, Staying DEF BeginTurn, Inv
<1>6. pending' \in Seq(Signals)
  <2>1. "PHASE_SKIPPED_TURN_CAP" \in Signals
    BY DEF Signals, Skips
  <2>2. pending' \in {<<"PHASE_SKIPPED_TURN_CAP">>, <<>>, pending} /\ pending \in Seq(Signals)
    BY DEF BeginTurn, Inv, LoopTypes
  <2> QED BY <2>1, <2>2, ShortSequences
<1>7. LoopTypes'
  BY <1>6 DEF BeginTurn, At, Inv, LoopTypes
<1> QED BY <1>1, <1>5, <1>7 DEF BeginTurn, Inv

LEMMA Tools ==
  ASSUME Inv, NEW n \in 1..ToolCap, NEW c \in Said, ToolTurn(n, c)
  PROVE  Inv' /\ providerIdx' \in From(providerIdx)
<1>1. /\ counters \in CounterType /\ ghost \in GhostType /\ providerIdx \in Level
      /\ ghost.evidence = counters.toolCalls /\ providerIdx \in From(providerIdx)
      /\ Escalated(providerIdx) \in From(providerIdx)
  BY ChainType, Escalating DEF Inv, PhaseInv, Types, Evidence, From, Level
<1>2. ToolsRun(n) /\ At("call")
  BY DEF ToolTurn, ToolAnswer, ToolLoopBroken, ToolLoopEscalates, ToolLoopRedirected, ToolsRun
<1> DEFINE calls == LeastOf(counters.toolCalls + n, ToolCap)
<1>3. calls \in 0..ToolCap
  BY <1>1 DEF CounterType, LeastOf, ToolCap
<1>4. /\ counters' = [counters EXCEPT !.toolCalls = calls]
      /\ ghost' = [ghost EXCEPT !.evidence = calls]
  BY <1>1, <1>2 DEF ToolsRun
<1> HIDE DEF calls
<1>5. /\ counters' \in CounterType /\ ghost' \in GhostType
      /\ ghost'.evidence = counters'.toolCalls /\ ghost'.unreviewed = ghost.unreviewed
  BY <1>1, <1>3, <1>4 DEF CounterType, GhostType
<1>6. providerIdx' \in From(providerIdx)
  BY <1>1 DEF ToolTurn, ToolAnswer, ToolLoopBroken, ToolLoopEscalates, ToolLoopRedirected
<1>7. PhaseInv'
  BY <1>2, <1>5, <1>6, Staying DEF Inv, ToolsRun
<1>8. pending' \in Seq(Signals)
  <2>1. c \in Signals /\ "PHASE_SKIPPED_LOOP" \in Signals
    BY DEF Signals, Skips
  <2>2. pending' \in {Heard(c), <<"PHASE_SKIPPED_LOOP">> \o Heard(c), <<>>}
    BY DEF ToolTurn, ToolAnswer, ToolLoopBroken, ToolLoopEscalates, ToolLoopRedirected
  <2>3. Heard(c) \in {<<c>>, <<>>}
    BY DEF Heard
  <2> QED BY <2>1, <2>2, <2>3, ShortSequences
<1>9. LoopTypes'
  <2>1. exhaustionRedirects \in 0..maxRedirects /\ exhaustionRedirects < maxRedirects
    BY <1>2 DEF Inv, LoopTypes, At
  <2>2. /\ pc' \in {"begin", "done"}
        /\ exhaustionRedirects' \in 0..maxRedirects
        /\ pc' # "done" => exhaustionRedirects' < maxRedirects
    BY <2>1, Limits DEF ToolTurn, ToolAnswer, ToolLoopBroken, ToolLoopEscalates,
                        ToolLoopRedirected
  <2> QED BY <1>2, <1>8, <2>2 DEF ToolsRun, LoopTypes
<1> QED BY <1>6, <1>7, <1>9 DEF Inv

LEMMA Answers ==
  ASSUME Inv, \/ Stop \/ CallEscalates \/ EmptyAnswer \/ CorrectedAnswer \/ TextStalls
              \/ Final \/ \E c \in Said : TextAnswer(c)
  PROVE  Inv' /\ providerIdx' \in From(providerIdx)
<1>1. /\ providerIdx \in Level /\ providerIdx \in From(providerIdx)
      /\ Escalated(providerIdx) \in From(providerIdx)
  BY ChainType, Escalating DEF Inv, PhaseInv, Types, From, Level
<1>2. /\ UNCHANGED <<pipeline, pipelinePhase, pipelineCycles, tracker, counters, ghost>>
      /\ providerIdx' \in From(providerIdx)
  BY <1>1 DEF Stop, CallEscalates, EmptyAnswer, CorrectedAnswer, TextStalls, Final,
              TextAnswer, phaseVars, loopVars
<1>3. PhaseInv'
  BY <1>2, Unmoved DEF Inv
<1>4. pending' \in Seq(Signals)
  <2>1. pending' = pending \/ \E c \in Signals : pending' = <<c>>
    BY DEF Stop, CallEscalates, EmptyAnswer, CorrectedAnswer, TextStalls, Final,
           TextAnswer, loopVars, Signals
  <2>2. pending \in Seq(Signals)
    BY DEF Inv, LoopTypes
  <2> QED BY <2>1, <2>2, ShortSequences
<1>5. /\ pc' \in {"begin", "call", "text", "final", "done"} /\ noToolTurns' \in 0..2
      /\ exhaustionRedirects' = exhaustionRedirects
      /\ pc # "done" \/ pc' = pc
  BY DEF Stop, CallEscalates, EmptyAnswer, CorrectedAnswer, TextStalls, Final,
         TextAnswer, At, LeastOf, loopVars, Inv, LoopTypes
<1>6. LoopTypes'
  BY <1>4, <1>5 DEF Inv, LoopTypes
<1> QED BY <1>2, <1>3, <1>6 DEF Inv

LEMMA Hearing ==
  ASSUME Inv, Advance
  PROVE  Inv' /\ providerIdx' \in From(providerIdx)
<1>1. pending \in Seq(Signals) /\ pending # <<>>
  BY DEF Inv, LoopTypes, Advance
<1>2. Head(pending) \in Signals /\ Tail(pending) \in Seq(Signals)
  <2> HIDE DEF Signals
  <2> QED BY <1>1
<1>3. PhaseInv' /\ providerIdx' \in From(providerIdx)
  BY Advancing DEF Advance, Inv
<1>4. LoopTypes'
  BY <1>2 DEF Advance, Inv, LoopTypes
<1> QED BY <1>3, <1>4 DEF Inv

LEMMA Steps ==
  ASSUME Inv, [Next]_vars
  PROVE  Inv' /\ providerIdx' \in From(providerIdx)
<1>1. CASE UNCHANGED vars
  <2>1. providerIdx \in From(providerIdx)
    BY ChainType DEF Inv, PhaseInv, Types, From, Level
  <2>2. PhaseInv'
    BY <1>1, <2>1, Unmoved DEF vars, phaseVars, Inv
  <2>3. LoopTypes'
    BY <1>1 DEF vars, loopVars, Inv, LoopTypes
  <2> QED BY <1>1, <2>1, <2>2, <2>3 DEF vars, phaseVars, Inv
<1>2. CASE Next
  BY <1>2, Hearing, Turning, Answers, Tools DEF Next
<1> QED BY <1>1, <1>2

LEMMA Beginning ==
  ASSUME Init
  PROVE  Inv
<1>1. pipeline \in Pipelines \cup {Detected}
  BY DEF Init
<1>2. /\ Phases \in Seq(Phase) /\ Len(Phases) \in Nat \ {0}
      /\ pipeline # <<>> => Phases = pipeline
  BY <1>1, PhaseTypes DEF Phases
<1>3. pipelinePhase \in 1..(Len(Phases) + 1)
  <2>1. pipelinePhase \in {1, 2} \/ pipelinePhase \in 1..Len(pipeline)
    BY DEF Init, StartPhases, Named
  <2>2. CASE pipeline = <<>>
    BY <1>2, <2>2 DEF Init, StartPhases, Named
  <2>3. CASE pipeline # <<>>
    BY <1>2, <2>1, <2>3
  <2> QED BY <2>2, <2>3
<1>4. Types
  <2>1. 0 \in 0..ToolCap /\ FALSE \in BOOLEAN
    BY DEF ToolCap
  <2>2. {i \in (pipelinePhase + 1)..Len(Phases) : IsReviewed(i)} \in SUBSET Nat
    BY <1>2, <1>3
  <2>3. ghost \in GhostType
    BY <2>1, <2>2 DEF Init, GhostType
  <2> QED BY <1>1, <1>3, <2>3, Fresh, Limits DEF Init, Types, CyclesBounded, Level
<1>5. ReviewsDue /\ Evidence
  BY <1>2, <1>3 DEF Init, ReviewsDue, IndependentReview, Evidence, NewCounters
<1>6. LoopTypes
  BY Limits DEF Init, LoopTypes
<1> QED BY <1>4, <1>5, <1>6 DEF PhaseInv, Inv

\* Spec keeps the invariant.
LEMMA Invariance == Spec => []Inv
<1>1. Init => Inv
  BY Beginning
<1>2. Inv /\ [Next]_vars => Inv'
  BY Steps
<1> QED BY <1>1, <1>2, PTL DEF Spec

-----------------------------------------------------------------------------

\* Every reachable agent is well formed: no counter passes the limit at which
\* advancePipeline acts on it.
THEOREM TypeCorrect == Spec => []TypeOK
<1>1. Inv => TypeOK
  BY DEF Inv, PhaseInv, Types, LoopTypes, TypeOK, GhostType, Level
<1> QED BY <1>1, Invariance, PTL

\* The count of cycles passes its limit by one, and then its tracker is fresh.
THEOREM CyclesAreBounded == Spec => []CyclesBounded
<1>1. Inv => CyclesBounded
  BY DEF Inv, PhaseInv, Types
<1> QED BY <1>1, Invariance, PTL

\* No phase with reviewers is reached around them.
THEOREM ReviewsAreIndependent == Spec => []IndependentReview
<1>1. Inv => IndependentReview
  BY DEF Inv, PhaseInv, ReviewsDue
<1> QED BY <1>1, Invariance, PTL

\* No step takes the agent down the chain of providers.
THEOREM LevelsOnlyClimb == Spec => LevelsClimb
<1>1. Inv /\ [Next]_vars => [providerIdx' >= providerIdx]_vars
  BY Steps DEF From
<1> QED BY <1>1, Invariance, PTL DEF Spec, LevelsClimb

LEMMA Leaving ==
  ASSUME Inv, Next, ghost'.visit # ghost.visit, ~Excused
  PROVE  ghost.evidence >= Current.minToolCalls
<1>1. /\ counters \in CounterType /\ ghost \in GhostType /\ tracker \in TrackerType
      /\ pipelineCycles \in Nat /\ ghost.evidence = counters.toolCalls
  BY DEF Inv, PhaseInv, Types, Evidence
<1>2. Advance
  <2>1. ASSUME NEW n \in 1..ToolCap, NEW c \in Said, ToolTurn(n, c)
        PROVE  ghost'.visit = ghost.visit
    <3>1. ToolsRun(n)
      BY <2>1 DEF ToolTurn, ToolAnswer, ToolLoopBroken, ToolLoopEscalates, ToolLoopRedirected
    <3> QED BY <1>1, <3>1 DEF ToolsRun, GhostType
  <2>2. ASSUME ghost' = ghost
        PROVE  FALSE
    BY <2>2
  <2> QED BY <2>1, <2>2 DEF Next, BeginTurn, Stop, CallEscalates, EmptyAnswer,
        CorrectedAnswer, TextStalls, TextAnswer, Final, phaseVars
<1> DEFINE c == Head(pending)
<1>3. AdvancePipeline(c) /\ ~AllDone /\ (Pass(c) \/ Fail(c))
  BY <1>2 DEF Advance, AdvancePipeline, RejectClaim, RejectChecks, Prompt
<1>4. ~Fail(c)
  <2>1. ASSUME NEW t \in Judgements(tracker), Retry(t)
        PROVE  FALSE
    BY <1>1, <2>1 DEF Retry, GhostType
  <2>2. ASSUME NEW t \in Judgements(tracker), GiveUp(t)
        PROVE  FALSE
    BY <1>1, <2>2, Judging, Limits DEF GiveUp, Excused
  <2> QED BY <2>1, <2>2 DEF Fail
<1>5. ~Unproven
  BY <1>3, <1>4 DEF Pass, ReachesGate, Excused
<1>6. Current \in Phase
  BY <1>3, Places DEF Inv, PhaseInv
<1> QED BY <1>1, <1>5, <1>6 DEF Unproven, CounterType, Phase

\* A phase that is not excused has its tool calls when it ends.
THEOREM PhasesEndWithEvidence == Spec => EndsWithEvidence
<1>1. Inv /\ [Next]_vars =>
        [ghost'.visit # ghost.visit /\ ~Excused
           => ghost.evidence >= Current.minToolCalls]_vars
  BY Leaving
<1> QED BY <1>1, Invariance, PTL DEF Spec, EndsWithEvidence

(* ------------------------------- reviews ------------------------------- *)

\* A record of the fields of a branch.
IsBranch(s) ==
    s \in [at : {s.at}, phase : {s.phase}, level : {s.level}, rotation : {s.rotation}, start : {s.start}, providers : {s.providers},
          step : {s.step}, now : {s.now}, text : {s.text}, by : {s.by}, fixer : {s.fixer}, outputs : {s.outputs}, diff : {s.diff},
          sheets : {s.sheets}, ended : {s.ended}]
ChainLevel == DOMAIN LevelProviders

ProviderAt(s, k) == s.providers[((s.start + k) % Len(s.providers)) + 1]
\* Who fixed at the last step: the one whose turn it was, or the first of a
\* level that was escalated to.
Fixers(s, k, base, top) == {ProviderAt(s, k)} \cup {Providers(m)[1] : m \in {l \in ChainLevel : base < l /\ l <= top}}
FixedBefore(s, base, top) == IF s.step = 0 THEN {"none"} ELSE Fixers(s, s.step - 1, base, top)

Turns(s, base) ==
    /\ base \in ChainLevel /\ s.level \in ChainLevel /\ base <= s.level /\ s.rotation \in Nat
    /\ s.providers = Providers(base)
    /\ s.start \in 0..(Len(s.providers) - 1)
    /\ s.step \in 0..(Len(s.providers) - 1)
IsEven(n) == n % 2 = 0
Speaks(s, base) ==
    \/ /\ s.at = "works" /\ s.now = ProviderAt(s, s.step)
       /\ IsEven(s.step) => s.fixer \in FixedBefore(s, base, s.level)
    \/ /\ s.at = "again" /\ base < s.level /\ s.now = Providers(s.level)[1]
       /\ IsEven(s.step) => s.fixer \in FixedBefore(s, base, s.level - 1)
WellJudged(s) == s.at = "judged" /\ (SaysPass(s.text) /\ Len(s.providers) % 2 = 1 => s.by # s.fixer)

RotationOf(s, base) == Turns(s, base) /\ (Speaks(s, base) \/ WellJudged(s))

BranchInv(b) ==
    /\ IsBranch(branch[b])
    /\ branch[b].level \in ChainLevel /\ branch[b].rotation \in Nat
    /\ IF KReviewers(PhaseOf(b)) THEN branch[b].at \in {"diffs", "shows", "gathers", "judged"}
       ELSE \E base \in ChainLevel : RotationOf(branch[b], base)

ReviewType == [at : {"idle", "reviews"}, level : ChainLevel, rotation : Nat, phases : {review.phases}, count : {review.count}, passed : {review.passed}]
ReviewsInv ==
    /\ review \in ReviewType
    /\ branch = [b \in Branches |-> branch[b]]
    /\ \A b \in Branches : BranchInv(b)

LEMMA LevelFacts ==
    /\ ChainLevel = 1..Len(LevelProviders) /\ Len(LevelProviders) \in Nat \ {0} /\ 1 \in ChainLevel
    /\ \A l \in ChainLevel : /\ Len(Providers(l)) \in Nat \ {0} /\ DOMAIN Providers(l) = 1..Len(Providers(l))
                        /\ \A i \in DOMAIN Providers(l) : Providers(l)[i] # "none"
    /\ \A l, m \in ChainLevel : \A i \in DOMAIN Providers(l), j \in DOMAIN Providers(m) : Providers(l)[i] = Providers(m)[j] => l = m /\ i = j
BY ReviewsAssumption DEF ChainLevel, Providers

\* The index goes round: no two steps in a row are of one provider.
LEMMA NextInTurn ==
  ASSUME NEW n \in Nat \ {0}, NEW start \in 0..(n - 1), NEW k \in 0..(n - 1), k # 0
  PROVE  (start + k) % n # (start + (k - 1)) % n
<1>1. start + k \in Nat /\ start + (k - 1) \in Nat /\ start + k < 2 * n /\ start + k = (start + (k - 1)) + 1 /\ n > 1
  OBVIOUS
<1>2. \A a \in Nat : (a < n => a % n = a) /\ (a >= n /\ a < 2 * n => a % n = a - n)
  OBVIOUS
<1>3. CASE start + k < n
  BY <1>1, <1>2, <1>3
<1>4. CASE start + (k - 1) >= n
  <2>1. (start + k) % n = start + k - n
    BY <1>1, <1>2, <1>4
  <2>2. (start + (k - 1)) % n = start + (k - 1) - n
    BY <1>1, <1>2, <1>4
  <2> QED BY <2>1, <2>2
<1>5. CASE start + k = n
  <2>1. (start + k) % n = 0
    BY <1>1, <1>2, <1>5
  <2>2. (start + (k - 1)) % n = start + (k - 1)
    BY <1>1, <1>2, <1>5
  <2> QED BY <1>1, <1>5, <2>1, <2>2
<1> QED BY <1>1, <1>3, <1>4, <1>5

LEMMA Indexes ==
  ASSUME NEW s, NEW base, Turns(s, base), NEW k \in Nat
  PROVE  /\ ((s.start + k) % Len(s.providers)) + 1 \in DOMAIN Providers(base)
         /\ ProviderAt(s, k) = Providers(base)[((s.start + k) % Len(s.providers)) + 1]
         /\ Len(s.providers) \in Nat \ {0}
<1>1. Len(s.providers) \in Nat \ {0} /\ DOMAIN Providers(base) = 1..Len(s.providers)
  BY LevelFacts DEF Turns
<1>2. \A a \in Nat, n \in Nat \ {0} : a % n \in 0..(n - 1)
  OBVIOUS
<1>3. s.start + k \in Nat
  BY <1>1 DEF Turns
<1>4. (s.start + k) % Len(s.providers) \in 0..(Len(s.providers) - 1)
  BY <1>1, <1>2, <1>3
<1>5. ((s.start + k) % Len(s.providers)) + 1 \in 1..Len(s.providers)
  BY <1>1, <1>4
<1> QED BY <1>1, <1>5 DEF ProviderAt, Turns

LEMMA FirstOfLevel == \A l \in ChainLevel : 1 \in DOMAIN Providers(l)
BY LevelFacts

\* Who speaks at a review has not fixed before it.
LEMMA NowIsNew ==
  ASSUME NEW s, NEW base, Turns(s, base), Speaks(s, base), IsEven(s.step)
  PROVE  s.now # s.fixer
<1>1. s.step \in Nat /\ base \in ChainLevel /\ s.level \in ChainLevel
  BY LevelFacts DEF Turns
<1>2. \A k \in Nat : \A m \in ChainLevel : base < m => ProviderAt(s, k) # Providers(m)[1]
  BY <1>1, Indexes, LevelFacts, FirstOfLevel
<1>3. \A l, m \in ChainLevel : l < m => Providers(l)[1] # Providers(m)[1]
  BY LevelFacts, FirstOfLevel
<1>4. ProviderAt(s, s.step) # "none" /\ Providers(s.level)[1] # "none"
  <2>1. ProviderAt(s, s.step) # "none"
    <3>1. PICK i \in DOMAIN Providers(base) : ProviderAt(s, s.step) = Providers(base)[i]
      BY <1>1, Indexes
    <3> QED BY <1>1, <3>1, LevelFacts
  <2>2. Providers(s.level)[1] # "none"
    BY <1>1, LevelFacts, FirstOfLevel
  <2> QED BY <2>1, <2>2
<1>5. CASE s.step = 0
  BY <1>4, <1>5 DEF Speaks, FixedBefore
<1>6. CASE s.step # 0
  <2>1. s.step - 1 \in Nat
    BY <1>1, <1>6
  <2>2. ProviderAt(s, s.step) # ProviderAt(s, s.step - 1)
    <3> DEFINE n == Len(s.providers)
    <3>1. n \in Nat \ {0} /\ s.start \in 0..(n - 1) /\ s.step \in 0..(n - 1)
      BY <1>1, Indexes DEF Turns
    <3>2. (s.start + s.step) % n # (s.start + (s.step - 1)) % n
      BY <1>6, <3>1, NextInTurn
    <3>3. \A a, b \in 1..n : Providers(base)[a] = Providers(base)[b] => a = b
      BY <1>1, LevelFacts DEF Turns
    <3>4. /\ ((s.start + s.step) % n) + 1 \in DOMAIN Providers(base)
          /\ ProviderAt(s, s.step) = Providers(base)[((s.start + s.step) % n) + 1]
          /\ ((s.start + (s.step - 1)) % n) + 1 \in DOMAIN Providers(base)
          /\ ProviderAt(s, s.step - 1) = Providers(base)[((s.start + (s.step - 1)) % n) + 1]
      BY <1>1, <2>1, Indexes
    <3>5. /\ ((s.start + s.step) % n) + 1 = ((s.start + (s.step - 1)) % n) + 1 => (s.start + s.step) % n = (s.start + (s.step - 1)) % n
      <4>1. \A x, y \in Nat : x + 1 = y + 1 => x = y
        OBVIOUS
      <4>2. \A a \in Nat, m \in Nat \ {0} : a % m \in Nat
        OBVIOUS
      <4>3. s.start + s.step \in Nat /\ s.start + (s.step - 1) \in Nat
        BY <1>6, <3>1
      <4> QED BY <3>1, <4>1, <4>2, <4>3
    <3> QED BY <1>1, <3>2, <3>4, <3>5, LevelFacts
  <2>3. CASE s.at = "works"
    <3>1. s.now = ProviderAt(s, s.step) /\ s.fixer \in Fixers(s, s.step - 1, base, s.level)
      BY <1>6, <2>3 DEF Speaks, FixedBefore
    <3> QED BY <1>1, <1>2, <2>2, <3>1 DEF Fixers
  <2>4. CASE s.at = "again"
    <3>1. base < s.level /\ s.now = Providers(s.level)[1] /\ s.fixer \in Fixers(s, s.step - 1, base, s.level - 1)
      BY <1>6, <2>4 DEF Speaks, FixedBefore
    <3>2. \A m \in ChainLevel : m <= s.level - 1 => m < s.level
      BY <1>1, LevelFacts
    <3> QED BY <1>1, <1>2, <1>3, <2>1, <3>1, <3>2 DEF Fixers
  <2> QED BY <2>3, <2>4 DEF Speaks
<1> QED BY <1>5, <1>6

\* What an agent or its copy begins a phase with.
LEMMA StartsWell ==
  ASSUME NEW r, r.level \in ChainLevel, r.rotation \in Nat, NEW p, NEW i
  PROVE  LET s == Started(r, p, i)
         IN /\ IsBranch(s) /\ s.phase = i /\ s.level = r.level /\ s.rotation = r.rotation
            /\ IF KReviewers(p) THEN s.at = "diffs" ELSE RotationOf(s, r.level)
<1> DEFINE n == Len(Providers(r.level))
           s == [NoBranch EXCEPT !.phase = i, !.level = r.level, !.rotation = r.rotation,
                                 !.start = r.rotation % n, !.providers = Providers(r.level)]
<1>1. n \in Nat \ {0}
  BY LevelFacts
<1>2. r.rotation % n \in 0..(n - 1)
  BY <1>1
<1>3. /\ IsBranch(s) /\ s.phase = i /\ s.level = r.level /\ s.rotation = r.rotation /\ s.start = r.rotation % n /\ s.providers = Providers(r.level)
      /\ s.step = 0 /\ s.fixer = "none"
  BY DEF IsBranch, NoBranch
<1>4. Started(r, p, i) = IF KReviewers(p) THEN [s EXCEPT !.at = "diffs", !.outputs = [reviewer \in 1..p.k |-> Refusal]]
                         ELSE [s EXCEPT !.at = "works", !.now = ProviderOf(s)]
  BY DEF Started
<1> HIDE DEF s
<1>5. CASE KReviewers(p)
  <2>1. Started(r, p, i) = [s EXCEPT !.at = "diffs", !.outputs = [reviewer \in 1..p.k |-> Refusal]]
    BY <1>4, <1>5
  <2> QED BY <1>3, <1>5, <2>1 DEF IsBranch
<1>6. CASE ~KReviewers(p)
  <2> DEFINE t == [s EXCEPT !.at = "works", !.now = ProviderOf(s)]
  <2>1. Started(r, p, i) = t
    BY <1>4, <1>6
  <2>2. /\ IsBranch(t) /\ t.phase = i /\ t.level = r.level /\ t.rotation = r.rotation /\ t.start = s.start /\ t.providers = s.providers
        /\ t.step = 0 /\ t.fixer = "none" /\ t.at = "works" /\ t.now = ProviderOf(s)
    BY <1>3 DEF IsBranch
  <2> HIDE DEF t
  <2>3. t.now = ProviderAt(t, t.step)
    BY <1>3, <2>2 DEF ProviderOf, ProviderAt
  <2>4. Speaks(t, r.level)
    BY <2>2, <2>3 DEF Speaks, FixedBefore
  <2>5. n - 1 \in Nat /\ r.level <= r.level
    BY <1>1, LevelFacts
  <2>6. Turns(t, r.level)
    BY <1>1, <1>2, <1>3, <2>2, <2>5 DEF Turns
  <2> QED BY <1>6, <2>1, <2>2, <2>4, <2>6 DEF RotationOf
<1> QED BY <1>5, <1>6

LEMMA ConcludedWell ==
  ASSUME NEW t, NEW base, IsBranch(t), Turns(t, base), SaysPass(t.text) /\ Len(t.providers) % 2 = 1 => t.by # t.fixer
  PROVE  LET s == Concluded(t)
         IN /\ IsBranch(s) /\ s.phase = t.phase /\ s.level = t.level
            /\ RotationOf(s, base)
<1> DEFINE rotation == IF Len(t.providers) > 1 THEN t.rotation + Len(t.providers) ELSE t.rotation
           s == [t EXCEPT !.at = "judged", !.rotation = rotation]
<1>1. Concluded(t) = s
  BY DEF Concluded
<1>2. rotation \in Nat
  BY LevelFacts DEF Turns
<1> HIDE DEF rotation
<1>3. /\ IsBranch(s) /\ s.phase = t.phase /\ s.level = t.level /\ s.rotation = rotation /\ s.at = "judged" /\ s.start = t.start
      /\ s.step = t.step /\ s.providers = t.providers /\ s.text = t.text /\ s.by = t.by /\ s.fixer = t.fixer
  BY DEF IsBranch
<1> HIDE DEF s
<1>4. Turns(s, base)
  BY <1>2, <1>3 DEF Turns
<1>5. WellJudged(s)
  BY <1>3 DEF WellJudged
<1> QED BY <1>1, <1>3, <1>4, <1>5 DEF RotationOf

\* The next step of a rotation: what fixed is known, what passed is not here.
LEMMA NextWell ==
  ASSUME NEW t, NEW base, IsBranch(t), Turns(t, base),
         IsEven(t.step) => ~SaysPass(t.text),
         ~IsEven(t.step) => t.fixer \in Fixers(t, t.step, base, t.level)
  PROVE  LET s == NextStep(t)
         IN /\ IsBranch(s) /\ s.phase = t.phase /\ s.level = t.level
            /\ RotationOf(s, base)
<1> DEFINE n == [t EXCEPT !.step = @ + 1, !.at = "works"]
<1>1. Len(t.providers) \in Nat \ {0} /\ t.step \in Nat /\ t.step <= Len(t.providers) - 1
  BY Indexes DEF Turns
<1>2. CASE t.step + 1 = Len(t.providers)
  <2>1. NextStep(t) = Concluded(t)
    BY <1>2 DEF NextStep
  <2>2. Len(t.providers) % 2 = 1 => IsEven(t.step)
    <3>1. \A k \in Nat : (k + 1) % 2 = 1 => k % 2 = 0
      OBVIOUS
    <3> QED BY <1>1, <1>2, <3>1 DEF IsEven
  <2> QED BY <2>1, <2>2, ConcludedWell
<1>3. CASE t.step + 1 # Len(t.providers)
  <2> DEFINE s == [n EXCEPT !.now = ProviderOf(n)]
  <2>1. NextStep(t) = s
    BY <1>3 DEF NextStep
  <2>2. t.step + 1 \in 0..(Len(t.providers) - 1)
    BY <1>1, <1>3
  <2>3. n = [t EXCEPT !.step = t.step + 1, !.at = "works"]
    OBVIOUS
  <2>4. /\ IsBranch(n) /\ n.phase = t.phase /\ n.level = t.level /\ n.rotation = t.rotation /\ n.at = "works" /\ n.start = t.start
        /\ n.step = t.step + 1 /\ n.providers = t.providers /\ n.fixer = t.fixer
    BY <2>3 DEF IsBranch
  <2> HIDE DEF n
  <2>5. /\ IsBranch(s) /\ s.phase = t.phase /\ s.level = t.level /\ s.rotation = t.rotation /\ s.at = "works" /\ s.start = t.start
        /\ s.step = t.step + 1 /\ s.providers = t.providers /\ s.fixer = t.fixer /\ s.now = ProviderOf(n)
    BY <2>4 DEF IsBranch
  <2> HIDE DEF s
  <2>6. Turns(s, base)
    BY <2>2, <2>5 DEF Turns
  <2>7. s.now = ProviderAt(s, s.step)
    BY <2>4, <2>5 DEF ProviderOf, ProviderAt
  <2>8. ASSUME IsEven(s.step) PROVE s.fixer \in FixedBefore(s, base, s.level)
    <3>1. ~IsEven(t.step) /\ s.step # 0 /\ s.step - 1 = t.step
      BY <1>1, <2>5, <2>8 DEF IsEven
    <3>2. Fixers(s, t.step, base, t.level) = Fixers(t, t.step, base, t.level)
      BY <2>5 DEF Fixers, ProviderAt
    <3> QED BY <2>5, <3>1, <3>2 DEF FixedBefore
  <2>9. Speaks(s, base)
    BY <2>5, <2>7, <2>8 DEF Speaks
  <2> QED BY <2>1, <2>5, <2>6, <2>9 DEF RotationOf
<1> QED BY <1>2, <1>3

\* The provider whose turn it is, or the first of a level above the base.
LEMMA NowIsKnown ==
  ASSUME NEW s, NEW base, Turns(s, base), Speaks(s, base)
  PROVE  s.now \in Fixers(s, s.step, base, s.level)
<1>1. CASE s.at = "works"
  BY <1>1 DEF Speaks, Fixers
<1>2. CASE s.at = "again"
  <2>1. s.level \in {l \in ChainLevel : base < l /\ l <= s.level}
    BY <1>2, LevelFacts DEF Speaks, Turns
  <2> QED BY <1>2, <2>1 DEF Speaks, Fixers
<1> QED BY <1>1, <1>2 DEF Speaks

LEMMA SpokenWell ==
  ASSUME NEW s, NEW base, IsBranch(s), Turns(s, base), Speaks(s, base), NEW text
  PROVE  LET r == Spoken(s, text)
         IN IsBranch(r) /\ r.phase = s.phase /\ r.level = s.level /\ RotationOf(r, base)
<1> DEFINE fixer == IF s.step % 2 = 1 THEN s.now ELSE s.fixer
           t == [s EXCEPT !.text = text, !.by = s.now, !.fixer = fixer]
<1>1. Spoken(s, text) = IF s.step % 2 = 0 /\ SaysPass(text) THEN Concluded(t) ELSE NextStep(t)
  BY DEF Spoken
<1>2. /\ IsBranch(t) /\ t.phase = s.phase /\ t.level = s.level /\ t.rotation = s.rotation /\ t.start = s.start
      /\ t.step = s.step /\ t.providers = s.providers /\ t.fixer = fixer /\ t.by = s.now /\ t.text = text
  BY DEF IsBranch
<1> HIDE DEF t
<1>3. Turns(t, base)
  BY <1>2 DEF Turns
<1>4. s.step \in Nat /\ (s.step % 2 = 0 \/ s.step % 2 = 1) /\ ~(s.step % 2 = 0 /\ s.step % 2 = 1)
  BY LevelFacts DEF Turns
<1>5. CASE s.step % 2 = 0 /\ SaysPass(text)
  <2>1. t.by # t.fixer
    BY <1>2, <1>4, <1>5, NowIsNew DEF IsEven
  <2>2. Spoken(s, text) = Concluded(t)
    BY <1>1, <1>5
  <2> QED BY <1>2, <1>3, <2>1, <2>2, ConcludedWell
<1>6. CASE ~(s.step % 2 = 0 /\ SaysPass(text))
  <2>1. Spoken(s, text) = NextStep(t)
    BY <1>1, <1>6
  <2>2. IsEven(t.step) => ~SaysPass(t.text)
    BY <1>2, <1>6 DEF IsEven
  <2>3. ~IsEven(t.step) => t.fixer \in Fixers(t, t.step, base, t.level)
    <3>1. Fixers(s, s.step, base, s.level) = Fixers(t, t.step, base, t.level)
      BY <1>2 DEF Fixers, ProviderAt
    <3> QED BY <1>2, <1>4, <3>1, NowIsKnown DEF IsEven
  <2> QED BY <1>2, <1>3, <2>1, <2>2, <2>3, NextWell
<1> QED BY <1>5, <1>6

LEMMA FailedWell ==
  ASSUME NEW s, NEW base, IsBranch(s), Turns(s, base), Speaks(s, base)
  PROVE  LET r == NextStep([s EXCEPT !.text = {"fail"}, !.by = "none", !.fixer = IF IsEven(s.step) THEN @ ELSE s.now])
         IN IsBranch(r) /\ r.phase = s.phase /\ r.level = s.level /\ RotationOf(r, base)
<1> DEFINE fixer == IF IsEven(s.step) THEN s.fixer ELSE s.now
           t == [s EXCEPT !.text = {"fail"}, !.by = "none", !.fixer = fixer]
<1>1. /\ IsBranch(t) /\ t.phase = s.phase /\ t.level = s.level /\ t.rotation = s.rotation /\ t.start = s.start
      /\ t.step = s.step /\ t.providers = s.providers /\ t.fixer = fixer /\ t.text = {"fail"}
  BY DEF IsBranch
<1>2. t = [s EXCEPT !.text = {"fail"}, !.by = "none", !.fixer = IF IsEven(s.step) THEN @ ELSE s.now]
  OBVIOUS
<1> HIDE DEF t
<1>3. Turns(t, base)
  BY <1>1 DEF Turns
<1>4. ~SaysPass(t.text)
  BY <1>1 DEF SaysPass
<1>5. ~IsEven(t.step) => t.fixer \in Fixers(t, t.step, base, t.level)
  <2>1. Fixers(s, s.step, base, s.level) = Fixers(t, t.step, base, t.level)
    BY <1>1 DEF Fixers, ProviderAt
  <2> QED BY <1>1, <2>1, NowIsKnown
<1> QED BY <1>1, <1>2, <1>3, <1>4, <1>5, NextWell

LEMMA ExhaustedWell ==
  ASSUME NEW s, NEW base, IsBranch(s), Turns(s, base), Speaks(s, base), s.at = "works", ~AtTop(s.level)
  PROVE  LET r == [Escalates(s) EXCEPT !.at = "again", !.now = Providers(s.level + 1)[1]]
         IN IsBranch(r) /\ r.phase = s.phase /\ r.level \in ChainLevel /\ RotationOf(r, base)
<1> DEFINE e == [s EXCEPT !.level = s.level + 1, !.rotation = 0]
           r == [e EXCEPT !.at = "again", !.now = Providers(s.level + 1)[1]]
<1>1. s.level \in ChainLevel /\ s.level + 1 \in ChainLevel /\ s.level + 1 # s.level /\ base < s.level + 1 /\ base \in ChainLevel
  BY LevelFacts DEF AtTop, Turns
<1>2. Escalates(s) = e
  BY <1>1 DEF Escalates, AtLevel
<1>3. /\ IsBranch(e) /\ e.phase = s.phase /\ e.level = s.level + 1 /\ e.rotation = 0 /\ e.start = s.start
      /\ e.step = s.step /\ e.providers = s.providers /\ e.fixer = s.fixer
  BY DEF IsBranch
<1> HIDE DEF e
<1>4. /\ IsBranch(r) /\ r.phase = s.phase /\ r.level = s.level + 1 /\ r.rotation = 0 /\ r.start = s.start
      /\ r.step = s.step /\ r.providers = s.providers /\ r.fixer = s.fixer /\ r.at = "again" /\ r.now = Providers(s.level + 1)[1]
  BY <1>3 DEF IsBranch
<1>5. r = [Escalates(s) EXCEPT !.at = "again", !.now = Providers(s.level + 1)[1]]
  BY <1>2
<1> HIDE DEF r
<1>6. Turns(r, base)
  BY <1>1, <1>4, LevelFacts DEF Turns
<1>7. r.level - 1 = s.level
  BY <1>1, <1>4, LevelFacts
<1>8. FixedBefore(r, base, s.level) = FixedBefore(s, base, s.level)
  BY <1>4 DEF FixedBefore, Fixers, ProviderAt
<1>9. Speaks(r, base)
  BY <1>1, <1>4, <1>7, <1>8 DEF Speaks
<1> QED BY <1>1, <1>4, <1>5, <1>6, <1>9 DEF RotationOf

LEMMA ReviewsBegin == ReviewsInit => ReviewsInv
<1> SUFFICES ASSUME ReviewsInit PROVE ReviewsInv
  OBVIOUS
<1>1. review \in ReviewType
  BY LevelFacts DEF ReviewsInit, ReviewType
<1>2. Branches = {} /\ branch = [b \in Branches |-> branch[b]]
  BY DEF ReviewsInit, Branches
<1> QED BY <1>1, <1>2 DEF ReviewsInv

LEMMA BeginReviewKeeps == ASSUME ReviewsInv, BeginReview PROVE ReviewsInv'
<1>1. PICK phases \in PhasesInTurn, level \in review.level..Len(LevelProviders) :
        /\ review' = [AtLevel(review, level) EXCEPT !.at = "reviews", !.phases = phases, !.count = @ + 1]
        /\ branch' = [i \in DOMAIN phases |-> Started(AtLevel(review, level), phases[i], i)]
  BY DEF BeginReview
<1> DEFINE r == AtLevel(review, level)
<1>2. review \in ReviewType /\ level \in ChainLevel /\ level \in Int
  BY LevelFacts DEF ReviewsInv, ReviewType
<1>3. r = [review EXCEPT !.level = level, !.rotation = IF level = review.level THEN review.rotation ELSE 0]
  BY DEF AtLevel
<1>4. (IF level = review.level THEN review.rotation ELSE 0) \in Nat
  BY <1>2 DEF ReviewType
<1>6. r.level \in ChainLevel /\ r.rotation \in Nat
  BY <1>2, <1>3, <1>4 DEF ReviewType
<1>7. review' \in ReviewType' /\ review'.phases = phases
  BY <1>1, <1>2, <1>3, <1>4 DEF ReviewType
<1> HIDE DEF r
<1>8. Branches' = DOMAIN phases /\ \A i \in DOMAIN phases : branch'[i] = Started(r, phases[i], i)
  BY <1>1 DEF Branches, r
<1>9. branch' = [b \in Branches' |-> branch'[b]]
  BY <1>1, <1>8
<1>10. ASSUME NEW i \in DOMAIN phases PROVE BranchInv(i)'
  <2> DEFINE s == Started(r, phases[i], i)
  <2>1. /\ IsBranch(s) /\ s.phase = i /\ s.level = r.level /\ s.rotation = r.rotation
        /\ IF KReviewers(phases[i]) THEN s.at = "diffs" ELSE RotationOf(s, r.level)
    BY <1>6, StartsWell
  <2>2. branch'[i] = s
    BY <1>8
  <2> HIDE DEF s
  <2>3. PhaseOf(i)' = phases[i]
    BY <1>7, <2>1, <2>2 DEF PhaseOf
  <2> QED BY <1>6, <2>1, <2>2, <2>3 DEF BranchInv
<1> QED BY <1>7, <1>8, <1>9, <1>10 DEF ReviewsInv

LEMMA EndReviewKeeps == ASSUME ReviewsInv, EndReview PROVE ReviewsInv'
<1> DEFINE after == IF Branches = {1} THEN [review EXCEPT !.level = branch[1].level, !.rotation = branch[1].rotation] ELSE review
           passed == \A b \in Branches : SaysPass(branch[b].text)
           next == IF passed \/ AtTop(after.level) THEN after ELSE Escalates(after)
<1>1. review' = [next EXCEPT !.at = "idle", !.passed = passed, !.phases = <<>>] /\ branch' = <<>>
  BY DEF EndReview
<1>2. review \in ReviewType
  BY DEF ReviewsInv
<1>3. after \in ReviewType
  <2>1. CASE Branches = {1}
    <3>1. branch[1].level \in ChainLevel /\ branch[1].rotation \in Nat
      BY <2>1 DEF ReviewsInv, BranchInv
    <3>2. after = [review EXCEPT !.level = branch[1].level, !.rotation = branch[1].rotation]
      BY <2>1
    <3> HIDE DEF after
    <3> QED BY <1>2, <3>1, <3>2 DEF ReviewType
  <2>2. CASE Branches # {1}
    BY <1>2, <2>2
  <2> QED BY <2>1, <2>2
<1> HIDE DEF after
<1>4. next \in ReviewType
  <2>1. CASE passed \/ AtTop(after.level)
    BY <1>3, <2>1
  <2>2. CASE ~(passed \/ AtTop(after.level))
    <3>1. after.level \in ChainLevel /\ after.level + 1 \in ChainLevel /\ after.level + 1 # after.level
      BY <1>3, <2>2, LevelFacts DEF AtTop, ReviewType
    <3>2. next = [after EXCEPT !.level = after.level + 1, !.rotation = 0]
      BY <2>2, <3>1 DEF Escalates, AtLevel
    <3> DEFINE higher == [after EXCEPT !.level = after.level + 1, !.rotation = 0]
    <3>3. higher \in ReviewType
      BY <1>3, <3>1 DEF ReviewType
    <3> HIDE DEF higher, next
    <3> QED BY <3>2, <3>3 DEF higher
  <2> QED BY <2>1, <2>2
<1> HIDE DEF next
<1>5. review' \in ReviewType'
  BY <1>1, <1>4 DEF ReviewType
<1>6. Branches' = {} /\ branch' = [b \in Branches' |-> branch'[b]]
  BY <1>1 DEF Branches
<1> QED BY <1>5, <1>6 DEF ReviewsInv

\* Work on a branch changes that branch, into one that holds.
LEMMA BranchKeeps ==
  ASSUME ReviewsInv, NEW b \in Branches, BranchWork(b)
  PROVE  ReviewsInv'
<1> DEFINE s == branch[b]
<1>1. /\ IsBranch(s) /\ s.level \in ChainLevel /\ s.rotation \in Nat
      /\ IF KReviewers(PhaseOf(b)) THEN s.at \in {"diffs", "shows", "gathers", "judged"} ELSE \E base \in ChainLevel : RotationOf(s, base)
  BY DEF ReviewsInv, BranchInv
<1>2. ASSUME NEW r, BranchIs(b, r), IsBranch(r), r.phase = s.phase, r.level \in ChainLevel, r.rotation \in Nat,
             IF KReviewers(PhaseOf(b)) THEN r.at \in {"diffs", "shows", "gathers", "judged"} ELSE \E base \in ChainLevel : RotationOf(r, base)
      PROVE  ReviewsInv'
  <2>1. branch' = [branch EXCEPT ![b] = r] /\ review' = review
    BY <1>2 DEF BranchIs
  <2>2. branch = [c \in Branches |-> branch[c]]
    BY DEF ReviewsInv
  <2>3. Branches' = Branches /\ branch' = [c \in Branches' |-> branch'[c]] /\ branch'[b] = r /\ \A c \in Branches \ {b} : branch'[c] = branch[c]
    BY <2>1, <2>2 DEF Branches
  <2>4. ReviewType' = ReviewType /\ review' \in ReviewType
    BY <2>1 DEF ReviewType, ReviewsInv
  <2>5. ASSUME NEW c \in Branches, c # b PROVE BranchInv(c)'
    <3>1. branch'[c] = branch[c] /\ PhaseOf(c)' = PhaseOf(c) /\ BranchInv(c)
      BY <2>1, <2>3, <2>5 DEF PhaseOf, ReviewsInv
    <3> QED BY <3>1 DEF BranchInv
  <2>6. PhaseOf(b)' = PhaseOf(b)
    BY <1>2, <2>1, <2>3 DEF PhaseOf
  <2>7. BranchInv(b)'
    BY <1>2, <2>3, <2>6 DEF BranchInv
  <2> QED BY <2>3, <2>4, <2>5, <2>7 DEF ReviewsInv
<1> HIDE DEF s
<1>4. CASE ReadDiffs(b) \/ ShowDiffs(b) \/ ReviewerEnds(b) \/ Merge(b)
  <2>1. s.at \in {"diffs", "shows", "gathers"}
    BY <1>4 DEF ReadDiffs, ShowDiffs, ReviewerEnds, Merge, AtBranch, s
  <2>2. KReviewers(PhaseOf(b))
    BY <1>1, <2>1 DEF RotationOf, Speaks, WellJudged
  <2>3. CASE ReadDiffs(b)
    <3>1. PICK raw \in Changes : BranchIs(b, [s EXCEPT !.at = "shows", !.diff = GetChangedDiffs(raw)])
      BY <2>3 DEF ReadDiffs, s
    <3> DEFINE r == [s EXCEPT !.at = "shows", !.diff = GetChangedDiffs(raw)]
    <3>2. IsBranch(r) /\ r.phase = s.phase /\ r.level = s.level /\ r.rotation = s.rotation /\ r.at = "shows"
      BY <1>1 DEF IsBranch
    <3> HIDE DEF r
    <3> QED BY <1>1, <1>2, <2>2, <3>1, <3>2 DEF r
  <2>4. CASE ShowDiffs(b)
    <3>1. PICK at \in {"gathers", "shows"} : \E sheets : BranchIs(b, [s EXCEPT !.sheets = sheets, !.at = at])
      <4>1. PICK order \in ShuffleDiffs(s.diff) :
              LET sheets == Append(s.sheets, FormatDiffContext(order))
              IN BranchIs(b, [s EXCEPT !.sheets = sheets, !.at = IF Len(sheets) = PhaseOf(b).k THEN "gathers" ELSE @])
        BY <2>4 DEF ShowDiffs, s
      <4>2. s.at = "shows"
        BY <2>4 DEF ShowDiffs, AtBranch, s
      <4> DEFINE next == Append(s.sheets, FormatDiffContext(order))
                 then == IF Len(next) = PhaseOf(b).k THEN "gathers" ELSE s.at
      <4>3. BranchIs(b, [s EXCEPT !.sheets = next, !.at = then])
        BY <4>1
      <4>4. then \in {"gathers", "shows"}
        BY <4>2
      <4> HIDE DEF next, then
      <4> QED BY <4>3, <4>4
    <3>s. PICK sheets : BranchIs(b, [s EXCEPT !.sheets = sheets, !.at = at])
      BY <3>1
    <3> DEFINE r == [s EXCEPT !.sheets = sheets, !.at = at]
    <3>2. IsBranch(r) /\ r.phase = s.phase /\ r.level = s.level /\ r.rotation = s.rotation /\ r.at = at
      BY <1>1 DEF IsBranch
    <3> HIDE DEF r
    <3> QED BY <1>1, <1>2, <2>2, <3>s, <3>2 DEF r
  <2>5. CASE ReviewerEnds(b)
    <3>1. PICK outputs, ended : BranchIs(b, [s EXCEPT !.outputs = outputs, !.ended = ended, !.sheets = <<>>, !.diff = <<>>])
      <4>1. PICK i \in DOMAIN s.outputs, output \in Reports \cup {Refusal} :
              BranchIs(b, [s EXCEPT !.outputs[i] = output, !.ended = @ \cup {i}, !.sheets = <<>>, !.diff = <<>>])
        BY <2>5 DEF ReviewerEnds, s
      <4> DEFINE outputs == [s.outputs EXCEPT ![i] = output]
      <4>2. BranchIs(b, [s EXCEPT !.outputs = outputs, !.ended = s.ended \cup {i}, !.sheets = <<>>, !.diff = <<>>])
        BY <4>1
      <4> HIDE DEF outputs
      <4> QED BY <4>2
    <3> DEFINE r == [s EXCEPT !.outputs = outputs, !.ended = ended, !.sheets = <<>>, !.diff = <<>>]
    <3>2. IsBranch(r) /\ r.phase = s.phase /\ r.level = s.level /\ r.rotation = s.rotation /\ r.at = s.at
      BY <1>1 DEF IsBranch
    <3> HIDE DEF r
    <3> QED BY <1>1, <1>2, <2>2, <3>1, <3>2 DEF r
  <2>6. CASE Merge(b)
    <3>1. PICK text : BranchIs(b, [s EXCEPT !.at = "judged", !.text = text])
      BY <2>6 DEF Merge, s
    <3> DEFINE r == [s EXCEPT !.at = "judged", !.text = text]
    <3>2. IsBranch(r) /\ r.phase = s.phase /\ r.level = s.level /\ r.rotation = s.rotation /\ r.at = "judged"
      BY <1>1 DEF IsBranch
    <3> HIDE DEF r
    <3> QED BY <1>1, <1>2, <2>2, <3>1, <3>2 DEF r
  <2> QED BY <1>4, <2>3, <2>4, <2>5, <2>6
<1>5. CASE ChildAnswers(b) \/ ChildExhausted(b) \/ ChildFails(b)
  <2>1. s.at \in {"works", "again"}
    BY <1>5 DEF ChildAnswers, ChildExhausted, ChildFails, AtBranch, s
  <2>2. ~KReviewers(PhaseOf(b))
    BY <1>1, <2>1
  <2>3. PICK base \in ChainLevel : RotationOf(s, base)
    BY <1>1, <2>2
  <2>4. Turns(s, base) /\ Speaks(s, base)
    BY <2>1, <2>3 DEF RotationOf, WellJudged
  <2>5. ASSUME NEW r, BranchIs(b, r), IsBranch(r), r.phase = s.phase, RotationOf(r, base)
        PROVE  ReviewsInv'
    <3>1. r.level \in ChainLevel /\ r.rotation \in Nat
      BY <2>5 DEF RotationOf, Turns
    <3> QED BY <1>2, <2>2, <2>5, <3>1
  <2>6. CASE ChildAnswers(b)
    <3>1. PICK signals \in SUBSET {"pass", "fail"} : BranchIs(b, Spoken(s, signals))
      BY <2>6 DEF ChildAnswers, s
    <3>2. IsBranch(Spoken(s, signals)) /\ Spoken(s, signals).phase = s.phase /\ RotationOf(Spoken(s, signals), base)
      BY <1>1, <2>4, SpokenWell
    <3> QED BY <2>5, <3>1, <3>2
  <2>7. CASE ChildExhausted(b)
    <3> DEFINE r == [Escalates(s) EXCEPT !.at = "again", !.now = Providers(s.level + 1)[1]]
    <3>1. s.at = "works" /\ ~AtTop(s.level) /\ BranchIs(b, r)
      BY <2>7 DEF ChildExhausted, AtBranch, s
    <3>2. IsBranch(r) /\ r.phase = s.phase /\ RotationOf(r, base)
      BY <1>1, <2>4, <3>1, ExhaustedWell
    <3> HIDE DEF r
    <3> QED BY <2>5, <3>1, <3>2
  <2>8. CASE ChildFails(b)
    <3> DEFINE t == [s EXCEPT !.text = {"fail"}, !.by = "none", !.fixer = IF IsEven(s.step) THEN @ ELSE s.now]
    <3>1. BranchIs(b, NextStep(t))
      BY <2>8 DEF ChildFails, IsReview, IsEven, s
    <3>2. IsBranch(NextStep(t)) /\ NextStep(t).phase = s.phase /\ RotationOf(NextStep(t), base)
      BY <1>1, <2>4, FailedWell
    <3> HIDE DEF t
    <3> QED BY <2>5, <3>1, <3>2
  <2> QED BY <1>5, <2>6, <2>7, <2>8
<1> QED BY <1>4, <1>5 DEF BranchWork

LEMMA ReviewsAlways == ReviewsSpec => []ReviewsInv
<1>1. ReviewsInv /\ [ReviewsNext]_reviewVars => ReviewsInv'
  <2> SUFFICES ASSUME ReviewsInv, [ReviewsNext]_reviewVars PROVE ReviewsInv'
    OBVIOUS
  <2>1. CASE UNCHANGED reviewVars
    BY <2>1 DEF reviewVars, ReviewsInv, ReviewType, BranchInv, Branches, PhaseOf
  <2> QED BY <2>1, BeginReviewKeeps, EndReviewKeeps, BranchKeeps DEF ReviewsNext
<1> QED BY <1>1, ReviewsBegin, PTL DEF ReviewsSpec

\* With any levels of any providers, whoever runs out, fails or is escalated
\* past: no child reviews what it fixed, and of an odd number of providers it
\* is a reviewer that lets the phase pass (agent.go:2705-2958).
THEOREM FixesAlwaysReviewed == ReviewsSpec => []FixesReviewed
<1>1. ReviewsInv => FixesReviewed
  <2> SUFFICES ASSUME ReviewsInv, NEW b \in Branches, ~KReviewers(PhaseOf(b))
               PROVE  /\ branch[b].at \in {"works", "again"} /\ IsReview(b) => branch[b].now # branch[b].fixer
                      /\ branch[b].at = "judged" /\ SaysPass(branch[b].text) /\ Len(branch[b].providers) % 2 = 1 => branch[b].by # branch[b].fixer
    BY DEF FixesReviewed
  <2>1. PICK base \in ChainLevel : RotationOf(branch[b], base)
    BY DEF ReviewsInv, BranchInv
  <2>2. branch[b].at \in {"works", "again"} /\ IsReview(b) => branch[b].now # branch[b].fixer
    BY <2>1, NowIsNew DEF RotationOf, WellJudged, IsReview, IsEven
  <2>3. branch[b].at = "judged" => WellJudged(branch[b])
    BY <2>1 DEF RotationOf, Speaks
  <2> QED BY <2>2, <2>3 DEF WellJudged
<1> QED BY <1>1, ReviewsAlways, PTL

(* ------------------------------ the terminal --------------------------- *)

LoopType == [kind : {l.kind : l \in Loops}, isTerminal : BOOLEAN, line : Int, given : Int, late : Int,
             at : {"top", "reads", "escapes", "given", "works", "phase", "research", "done", "ended"}]
TtyType == [raw : BOOLEAN, restore : {"none", "raw", "cooked"}]
ReqsType == [begun : Int, running : BOOLEAN, cancelled : SUBSET Int]
SigsType == [sent : Int, pending : BOOLEAN, handler : {"waits", "cancels", "counts", "writes", "gone"},
             next : Int, count : Int, recent : BOOLEAN, exit : BOOLEAN]
PipelineNames == AgentPipelines \cup {{}} \cup {{p} : p \in CommandPhases}
PositionType == [pipeline : PipelineNames, phase : Int, level : Int, asked : CommandPhases \cup {"none"},
                 saved : [pipeline : PipelineNames, phase : Int]]

TerminalTypeOK ==
    /\ loop \in LoopType
    /\ tty \in TtyType
    /\ reqs \in ReqsType
    /\ sigs \in SigsType
    /\ position \in PositionType

\* While a line is read and asked for nothing has the terminal but the loop.
Reading == {"top", "reads", "escapes", "given"}
Under == {"works", "phase", "research", "done", "ended"}

\* What MakeRaw remembers is a cooked terminal, for it is only made raw when
\* it is cooked; and it is cooked again before anything runs.
CookedBehind ==
    /\ tty.raw => tty.restore = "cooked"
    /\ tty.restore # "raw"
    /\ loop.at \in Under => ~tty.raw

\* An interrupt is on its way, taken, or has cancelled a request.
CancelsCounted ==
    /\ IsFiniteSet(reqs.cancelled)
    /\ Cardinality(reqs.cancelled) + (IF sigs.pending THEN 1 ELSE 0) + (IF sigs.handler = "cancels" THEN 1 ELSE 0) <= sigs.sent

\* The handler is the only one to close the channel, once; from then on no
\* line is read but the one that is.
OneLate ==
    /\ sigs.exit => sigs.handler = "gone"
    /\ loop.late \in {0, 1}
    /\ loop.late = 1 => sigs.exit /\ loop.at \notin {"reads", "escapes", "given"}

\* A phase is only asked for while its command runs.
PhasePutBack ==
    /\ position.asked # "none" => loop.at \in {"phase", "done"}
    /\ LoopAt("done") /\ position.asked # "none" => Where(position) = position.saved

TerminalInv == TerminalTypeOK /\ CookedBehind /\ CancelsCounted /\ OneLate /\ PhasePutBack

LEMMA TerminalBegins == TerminalInit => TerminalInv
<1> SUFFICES ASSUME TerminalInit PROVE TerminalInv
  OBVIOUS
<1>0. PICK l \in Loops : \E t \in MakeRawAtFirst(l) :
        /\ tty = t
        /\ loop = [kind |-> l.kind, at |-> "top", line |-> 0, isTerminal |-> t.raw, given |-> 0, late |-> 0]
  BY DEF TerminalInit
<1>1. PICK t \in MakeRawAtFirst(l) :
        /\ tty = t
        /\ loop = [kind |-> l.kind, at |-> "top", line |-> 0, isTerminal |-> t.raw, given |-> 0, late |-> 0]
  BY <1>0
<1>2. tty \in TtyType /\ (tty.raw => tty.restore = "cooked") /\ tty.restore # "raw"
  <2>1. Cooked = [raw |-> FALSE, restore |-> "none"]
    BY DEF Cooked
  <2>2. Raw(Cooked) = [raw |-> TRUE, restore |-> "cooked"]
    BY <2>1 DEF Raw
  <2>3. tty = [raw |-> FALSE, restore |-> "none"] \/ tty = [raw |-> TRUE, restore |-> "cooked"]
    BY <1>1, <2>1, <2>2 DEF MakeRawAtFirst
  <2>4. CASE tty = [raw |-> FALSE, restore |-> "none"]
    BY <2>4 DEF TtyType
  <2>5. CASE tty = [raw |-> TRUE, restore |-> "cooked"]
    BY <2>5 DEF TtyType
  <2> QED BY <2>3, <2>4, <2>5
<1>3. loop \in LoopType /\ loop.at = "top" /\ loop.late = 0
  BY <1>1, <1>2 DEF LoopType, TtyType
<1>4. /\ reqs \in ReqsType /\ reqs.cancelled = {}
      /\ sigs \in SigsType /\ sigs.sent = 0 /\ ~sigs.pending /\ ~sigs.exit /\ sigs.handler = "waits"
  BY DEF TerminalInit, ReqsType, SigsType
<1>5. position \in PositionType /\ position.asked = "none"
  BY DEF TerminalInit, PositionType, PipelineNames
<1>6. CancelsCounted
  BY <1>4, FS_EmptySet DEF CancelsCounted
<1> QED BY <1>2, <1>3, <1>4, <1>5, <1>6 DEF TerminalInv, TerminalTypeOK, CookedBehind, OneLate, PhasePutBack, Under, LoopAt

\* What the reading of a line does to what the rest knows of it.
ReadsOn ==
    /\ loop.at \in Reading /\ loop'.at \in Reading \cup {"ended"} /\ loop'.late = loop.late
    /\ loop'.at \in {"reads", "escapes", "given"} => loop.at \in {"reads", "escapes", "given"} \/ ~sigs.exit
    /\ tty' = tty \/ ~tty'.raw
    /\ loop'.at = "ended" => ~tty'.raw
    /\ tty'.restore = tty.restore
    /\ reqs' = reqs
    /\ sigs'.pending = sigs.pending /\ sigs'.handler = sigs.handler /\ sigs'.sent = sigs.sent /\ sigs'.exit = sigs.exit
    /\ position'.asked = position.asked

LEMMA ReadingSteps ==
  ASSUME TerminalTypeOK, LookAtLine \/ EscapeEnds \/ Key \/ ReadPiece \/ ExitCommand
  PROVE  ReadsOn /\ TerminalTypeOK'
<1> USE DEF TerminalTypeOK
\* A line is typed, is left or is given.
<1>1. ASSUME loop.at \in Reading, loop' \in LoopType, tty' = tty, reqs' = reqs,
             sigs' = sigs \/ sigs' = Pressed,
             loop'.at \in {"top"} \/ (loop.at = "reads" /\ loop'.at \in {"escapes", "given"}) \/ (loop'.at = "reads" /\ ~sigs.exit),
             loop'.late = loop.late, position' \in PositionType, position'.asked = position.asked
      PROVE  ReadsOn /\ TerminalTypeOK'
  <2>1. Presses(sigs.count, sigs.recent) \in Int
    BY DEF Presses, SigsType
  <2>2. Pressed \in SigsType /\ Pressed.pending = sigs.pending /\ Pressed.handler = sigs.handler /\ Pressed.sent = sigs.sent /\ Pressed.exit = sigs.exit
    BY <2>1 DEF Pressed, SigsType
  <2>3. loop'.at \in Reading
    BY <1>1 DEF Reading
  <2> QED BY <1>1, <2>2, <2>3 DEF ReadsOn, Reading, TtyType
<1>2. ASSUME loop.at \in Reading, LeaveLoop, reqs' = reqs, sigs' = sigs \/ sigs' = Pressed, position' = position
      PROVE  ReadsOn /\ TerminalTypeOK'
  <2>1. Presses(sigs.count, sigs.recent) \in Int
    BY DEF Presses, SigsType
  <2>2. sigs' \in SigsType /\ sigs'.pending = sigs.pending /\ sigs'.handler = sigs.handler /\ sigs'.sent = sigs.sent /\ sigs'.exit = sigs.exit
    BY <1>2, <2>1 DEF Pressed, SigsType
  <2>3. loop' \in LoopType /\ loop'.at = "ended" /\ loop'.late = loop.late
    BY <1>2 DEF LeaveLoop, Ended, LoopType
  <2>4. tty' \in TtyType /\ ~tty'.raw /\ tty'.restore = tty.restore
    BY <1>2 DEF LeaveLoop, TtyType
  <2> QED BY <1>2, <2>2, <2>3, <2>4 DEF ReadsOn
<1>3. ASSUME NEW n \in Int, Typed(n)
      PROVE  loop' \in LoopType /\ loop'.at = "top" /\ loop'.late = loop.late
  BY <1>3 DEF Typed, LoopType
<1>4. loop.line \in Int /\ loop.given \in Int /\ loop.given + 1 \in Int /\ position.level \in Int
  BY DEF LoopType, PositionType
<1>5. CASE LookAtLine
  <2>1. loop.at \in Reading
    BY <1>5 DEF LookAtLine, LoopAt, Reading
  <2>2. CASE sigs.exit
    BY <1>2, <1>5, <2>1, <2>2 DEF LookAtLine
  <2>3. CASE ~sigs.exit
    <3>1. loop' \in LoopType /\ loop'.at = "reads" /\ loop'.late = loop.late
      BY <1>5, <2>3 DEF LookAtLine, LoopType
    <3> QED BY <1>1, <1>5, <2>1, <2>3, <3>1 DEF LookAtLine
  <2> QED BY <2>2, <2>3
<1>6. CASE EscapeEnds
  <2>1. loop.at \in Reading
    BY <1>6 DEF EscapeEnds, LoopAt, Reading
  <2> QED BY <1>1, <1>3, <1>4, <1>6, <2>1 DEF EscapeEnds, NothingElse
<1>7. CASE ExitCommand
  <2>1. loop.at \in Reading
    BY <1>7 DEF ExitCommand, LoopAt, Reading
  <2> QED BY <1>2, <1>7, <2>1 DEF ExitCommand
\* A line is given; a read comes to its end.
<1>8. ASSUME NEW n \in Int, loop.at = "reads", loop' = [loop EXCEPT !.line = n, !.at = "given", !.given = @ + 1], NothingElse
      PROVE  ReadsOn /\ TerminalTypeOK'
  <2>1. loop.at \in Reading
    BY <1>8 DEF Reading
  <2>2. loop' \in LoopType /\ loop'.at = "given" /\ loop'.late = loop.late
    BY <1>4, <1>8 DEF LoopType
  <2> QED BY <1>1, <1>8, <2>1, <2>2 DEF NothingElse
<1>9. ASSUME loop.at = "reads", NEW n \in Int, Typed(n), NothingElse
      PROVE  ReadsOn /\ TerminalTypeOK'
  BY <1>1, <1>3, <1>9 DEF NothingElse, Reading
<1>10. ASSUME loop.at = "reads", EndOfFile
       PROVE  ReadsOn /\ TerminalTypeOK'
  BY <1>2, <1>10 DEF EndOfFile, Reading
<1>11. CASE Key
  <2>1. loop.at = "reads"
    BY <1>11 DEF Key, Reads, LoopAt
  <2>2. CASE Type \/ Erase \/ ClearLine \/ ShowSomething
    BY <1>4, <1>9, <2>1, <2>2 DEF Type, Erase, ClearLine, ShowSomething
  <2>3. CASE Escape
    <3>1. loop' \in LoopType /\ loop'.at = "escapes" /\ loop'.late = loop.late
      BY <2>3 DEF Escape, LoopType
    <3> QED BY <1>1, <2>1, <2>3, <3>1 DEF Escape, NothingElse, Reading
  <2>4. CASE Enter
    <3>1. NothingElse /\ 0 \in Int
      BY <2>4 DEF Enter
    <3>2. CASE Typed(0)
      BY <1>9, <2>1, <3>1, <3>2
    <3>3. CASE loop' = [loop EXCEPT !.line = 0, !.at = "given", !.given = @ + 1]
      BY <1>8, <2>1, <3>1, <3>3
    <3> QED BY <2>4, <3>2, <3>3 DEF Enter
  <2>5. CASE ControlD
    BY <1>4, <1>9, <1>10, <2>1, <2>5 DEF ControlD, ShowSomething
  <2>6. CASE ControlC
    <3>1. loop.at \in Reading /\ 0 \in Int
      BY <2>1 DEF Reading
    <3>2. CASE LeaveLoop /\ sigs' = Pressed
      BY <1>2, <2>6, <3>1, <3>2 DEF ControlC
    <3>3. CASE Typed(0) /\ tty' = tty /\ (sigs' = sigs \/ sigs' = Pressed)
      BY <1>1, <1>3, <2>6, <3>1, <3>3 DEF ControlC
    <3> QED BY <2>6, <3>2, <3>3 DEF ControlC
  <2>7. CASE ForceEscalate
    <3>1. position' \in PositionType /\ position'.asked = position.asked
      BY <1>4, <2>7 DEF ForceEscalate, PositionType
    <3> QED BY <1>1, <1>3, <1>4, <2>1, <2>7, <3>1 DEF ForceEscalate, Reading
  <2>8. CASE EndOfFile
    BY <1>10, <2>1, <2>8
  <2> QED BY <1>11, <2>2, <2>3, <2>4, <2>5, <2>6, <2>7, <2>8 DEF Key
<1>12. CASE ReadPiece
  <2>1. loop.at = "reads" /\ 0 \in Int
    BY <1>12 DEF ReadPiece, Reads, LoopAt
  <2>2. CASE loop' = [loop EXCEPT !.at = "given", !.given = @ + 1] /\ NothingElse
    <3>1. loop' \in LoopType /\ loop'.at = "given" /\ loop'.late = loop.late
      <4>1. loop \in LoopType
        OBVIOUS
      <4> QED BY <1>4, <2>2, <4>1 DEF LoopType
    <3> QED BY <1>1, <2>1, <2>2, <3>1 DEF NothingElse, Reading
  <2> QED BY <1>9, <1>10, <1>12, <2>1, <2>2 DEF ReadPiece
<1> QED BY <1>5, <1>6, <1>7, <1>11, <1>12

LEMMA ReadingKeeps ==
  ASSUME TerminalInv, LookAtLine \/ EscapeEnds \/ Key \/ ReadPiece \/ ExitCommand
  PROVE  TerminalInv'
<1>1. ReadsOn /\ TerminalTypeOK'
  BY ReadingSteps DEF TerminalInv
<1>2. CookedBehind'
  BY <1>1 DEF ReadsOn, TerminalInv, CookedBehind, Under, Reading
<1>3. CancelsCounted'
  BY <1>1 DEF ReadsOn, TerminalInv, CancelsCounted
<1>4. OneLate'
  BY <1>1 DEF ReadsOn, TerminalInv, OneLate
<1>5. PhasePutBack'
  BY <1>1 DEF ReadsOn, TerminalInv, PhasePutBack, Reading, LoopAt
<1> QED BY <1>1, <1>2, <1>3, <1>4, <1>5 DEF TerminalInv

LEMMA RunningKeeps ==
  ASSUME TerminalInv, BeginRequest \/ BeginPhase \/ ResearchCommand \/ RunCommand \/ AgentWorks \/ AgentReturns \/ GoOn
  PROVE  TerminalInv'
<1> USE DEF TerminalInv, TerminalTypeOK
\* A line may be run once the channel is closed, and then the terminal is cooked.
<1>1. ASSUME NEW at \in {"works", "phase", "research", "done"}, RunsLine(at)
      PROVE  /\ loop' \in LoopType /\ loop.at = "given" /\ loop'.at = at
             /\ loop'.late \in {0, 1} /\ (loop'.late = 1 => sigs.exit)
             /\ tty' \in TtyType /\ ~tty'.raw /\ tty'.restore # "raw"
             /\ position.asked = "none"
  <2>1. loop.at = "given" /\ loop.late = 0
    BY <1>1 DEF RunsLine, LoopAt, OneLate
  <2> DEFINE late == IF sigs.exit THEN 1 ELSE 0
  <2>a. loop' = [loop EXCEPT !.at = at, !.late = late]
    BY <1>1, <2>1 DEF RunsLine
  <2>b. late \in {0, 1} /\ late \in Int /\ (late = 1 => sigs.exit) /\ loop \in LoopType
    OBVIOUS
  <2> HIDE DEF late
  <2>2. loop' \in LoopType /\ loop'.at = at /\ loop'.late = late
    BY <2>a, <2>b DEF LoopType
  <2>3. tty' \in TtyType /\ ~tty'.raw /\ tty'.restore # "raw"
    BY <1>1 DEF RunsLine, Restored, TtyType, CookedBehind
  <2> QED BY <2>1, <2>2, <2>b, <2>3 DEF PhasePutBack
<1>2. CASE BeginRequest
  <2>1. RunsLine("works") /\ position' = position
    BY <1>2 DEF BeginRequest
  <2>r. reqs \in ReqsType /\ reqs.begun + 1 \in Int
    BY DEF ReqsType
  <2>2. reqs' \in ReqsType /\ reqs'.cancelled = reqs.cancelled
    BY <1>2, <2>r DEF BeginRequest, ReqsType
  <2>3. sigs' \in SigsType /\ sigs'.pending = sigs.pending /\ sigs'.handler = sigs.handler /\ sigs'.sent = sigs.sent /\ sigs'.exit = sigs.exit
    BY <1>2 DEF BeginRequest, SigsType
  <2>4. CookedBehind'
    BY <1>1, <2>1 DEF CookedBehind
  <2>5. CancelsCounted'
    BY <2>2, <2>3 DEF CancelsCounted
  <2>6. OneLate' /\ PhasePutBack'
    BY <1>1, <2>1, <2>3 DEF OneLate, PhasePutBack, LoopAt
  <2> QED BY <1>1, <2>1, <2>2, <2>3, <2>4, <2>5, <2>6
<1>3. CASE ResearchCommand \/ RunCommand
  <2>1. PICK at \in {"research", "done"} : RunsLine(at)
    BY <1>3 DEF ResearchCommand, RunCommand
  <2>2. UNCHANGED <<reqs, sigs, position>>
    BY <1>3 DEF ResearchCommand, RunCommand
  <2>3. CookedBehind' /\ CancelsCounted'
    BY <1>1, <2>1, <2>2 DEF CookedBehind, CancelsCounted
  <2>4. OneLate' /\ PhasePutBack'
    BY <1>1, <2>1, <2>2 DEF OneLate, PhasePutBack, LoopAt
  <2> QED BY <1>1, <2>1, <2>2, <2>3, <2>4
<1>4. CASE BeginPhase
  <2>1. RunsLine("phase") /\ UNCHANGED <<reqs, sigs>>
    BY <1>4 DEF BeginPhase
  <2>2. PICK phase \in CommandPhases :
          position' = [position EXCEPT !.saved = Where(position), !.asked = phase,
                                       !.pipeline = IF phase \in @ THEN {phase} ELSE @,
                                       !.phase = IF phase \in position.pipeline THEN 0 ELSE @]
    BY <1>4 DEF BeginPhase
  <2>3. Where(position) \in [pipeline : PipelineNames, phase : Int] /\ {phase} \in PipelineNames
    BY DEF Where, PositionType, PipelineNames
  <2>4. position' \in PositionType
    <3> DEFINE phases == IF phase \in position.pipeline THEN {phase} ELSE position.pipeline
               index == IF phase \in position.pipeline THEN 0 ELSE position.phase
    <3>1. position' = [position EXCEPT !.saved = Where(position), !.asked = phase, !.pipeline = phases, !.phase = index]
      BY <2>2
    <3>2. position \in PositionType /\ phases \in PipelineNames /\ index \in Int
      BY <2>3 DEF PositionType
    <3> HIDE DEF phases, index
    <3> QED BY <2>3, <3>1, <3>2 DEF PositionType
  <2>5. CookedBehind' /\ CancelsCounted'
    BY <1>1, <2>1 DEF CookedBehind, CancelsCounted
  <2>6. OneLate' /\ PhasePutBack'
    BY <1>1, <2>1 DEF OneLate, PhasePutBack, LoopAt
  <2> QED BY <1>1, <2>1, <2>4, <2>5, <2>6
<1>5. CASE AgentWorks
  <2>1. loop.at \in {"works", "phase"} /\ UNCHANGED <<loop, tty, reqs, sigs>>
    BY <1>5 DEF AgentWorks, LoopAt
  <2>2. PICK phases \in PipelineNames, phase \in Int : position' = [position EXCEPT !.pipeline = phases, !.phase = phase]
    <3>1. PICK phases \in (IF position.pipeline = {} THEN AgentPipelines ELSE {position.pipeline}), phase \in 0..MaxPhase :
            position' = [position EXCEPT !.pipeline = phases, !.phase = phase]
      BY <1>5 DEF AgentWorks
    <3>2. phase \in Int
      OBVIOUS
    <3>3. phases \in PipelineNames
      BY DEF PipelineNames, PositionType
    <3> QED BY <3>1, <3>2, <3>3
  <2>3. position' \in PositionType /\ position'.asked = position.asked
    BY <2>2 DEF PositionType
  <2>4. CookedBehind' /\ CancelsCounted' /\ OneLate'
    BY <2>1 DEF CookedBehind, CancelsCounted, OneLate
  <2>5. PhasePutBack'
    BY <2>1, <2>3 DEF PhasePutBack, LoopAt
  <2> QED BY <2>1, <2>3, <2>4, <2>5
<1>6. CASE AgentReturns
  <2>1. loop' \in LoopType /\ loop'.at = "done" /\ loop'.late = loop.late /\ UNCHANGED <<tty, reqs, sigs>> /\ loop.at \in {"works", "phase", "research"}
    BY <1>6 DEF AgentReturns, LoopType
  <2>2. position.saved \in [pipeline : PipelineNames, phase : Int]
    BY DEF PositionType
  <2>3. PutBack(position) \in PositionType /\ PutBack(position).asked = position.asked
        /\ Where(PutBack(position)) = position.saved /\ PutBack(position).saved = position.saved
    BY <2>2 DEF PutBack, PositionType, Where
  <2>4. (position' = position /\ ~LoopAt("phase")) \/ position' = PutBack(position)
    BY <1>6 DEF AgentReturns
  <2>5. CookedBehind' /\ CancelsCounted' /\ OneLate'
    BY <2>1 DEF CookedBehind, CancelsCounted, OneLate, Under
  <2>6. PhasePutBack'
    BY <2>1, <2>3, <2>4 DEF PhasePutBack, LoopAt
  <2> QED BY <2>1, <2>3, <2>4, <2>5, <2>6
<1>7. CASE GoOn
  <2>1. loop' \in LoopType /\ loop'.at = "top" /\ loop'.late = loop.late /\ sigs' = sigs /\ loop.at = "done"
    BY <1>7 DEF GoOn, LoopType, LoopAt
  <2>2. reqs' \in ReqsType /\ reqs'.cancelled = reqs.cancelled
    BY <1>7 DEF GoOn, ReqsType
  <2>3. position' \in PositionType /\ position'.asked = "none"
    BY <1>7 DEF GoOn, PositionType
  <2>4. ~tty.raw
    BY <2>1 DEF CookedBehind, Under
  <2>5. tty' \in TtyType /\ (tty'.raw => tty'.restore = "cooked") /\ tty'.restore # "raw"
    <3>1. tty' = tty \/ tty' = Raw(tty)
      BY <1>7 DEF GoOn, MayBeRaw
    <3>2. Raw(tty) = [raw |-> TRUE, restore |-> "cooked"]
      BY <2>4 DEF Raw
    <3>3. Raw(tty) \in TtyType /\ Raw(tty).restore = "cooked"
      BY <3>2 DEF TtyType
    <3> QED BY <3>1, <3>3 DEF CookedBehind
  <2>6. CookedBehind'
    BY <2>1, <2>5 DEF CookedBehind, Under
  <2>7. CancelsCounted' /\ OneLate'
    BY <2>1, <2>2 DEF CancelsCounted, OneLate
  <2>8. PhasePutBack'
    BY <2>3 DEF PhasePutBack
  <2> QED BY <2>1, <2>2, <2>3, <2>5, <2>6, <2>7, <2>8
<1> QED BY <1>2, <1>3, <1>4, <1>5, <1>6, <1>7

LEMMA InterruptsKeep ==
  ASSUME TerminalInv, Interrupt \/ TimePasses \/ Handles
  PROVE  TerminalInv'
<1> USE DEF TerminalInv, TerminalTypeOK
\* Nothing but the count of what is cancelled may change beside the signals.
<1>1. ASSUME sigs' \in SigsType, UNCHANGED <<loop, tty, reqs, position>>,
             sigs'.sent - (IF sigs'.pending THEN 1 ELSE 0) - (IF sigs'.handler = "cancels" THEN 1 ELSE 0)
               >= sigs.sent - (IF sigs.pending THEN 1 ELSE 0) - (IF sigs.handler = "cancels" THEN 1 ELSE 0),
             sigs'.exit => sigs'.handler = "gone", sigs.exit => sigs'.exit
      PROVE  TerminalInv'
  <2>1. CookedBehind' /\ PhasePutBack'
    BY <1>1 DEF CookedBehind, PhasePutBack, LoopAt
  <2>2. OneLate'
    BY <1>1 DEF OneLate
  <2>3. Cardinality(reqs.cancelled) \in Nat
    BY FS_CardinalityType DEF CancelsCounted
  <2>4. CancelsCounted'
    BY <1>1, <2>3 DEF CancelsCounted, SigsType
  <2> QED BY <1>1, <2>1, <2>2, <2>4
<1>2. CASE Interrupt
  <2>1. sigs' \in SigsType /\ sigs'.sent = sigs.sent + 1 /\ sigs'.pending /\ sigs'.handler = sigs.handler /\ sigs'.exit = sigs.exit
    <3>1. sigs \in SigsType /\ sigs.sent + 1 \in Int
      BY DEF SigsType
    <3> QED BY <1>2, <3>1 DEF Interrupt, SigsType
  <2>2. UNCHANGED <<loop, tty, reqs, position>>
    BY <1>2 DEF Interrupt
  <2> QED BY <1>1, <2>1, <2>2 DEF SigsType, OneLate
<1>3. CASE TimePasses
  <2>1. sigs' \in SigsType /\ sigs'.sent = sigs.sent /\ sigs'.pending = sigs.pending /\ sigs'.handler = sigs.handler /\ sigs'.exit = sigs.exit
    BY <1>3 DEF TimePasses, SigsType
  <2> QED BY <1>1, <1>3, <2>1 DEF TimePasses, SigsType, OneLate
<1>4. CASE HandlerTakes
  <2>1. /\ sigs' \in SigsType /\ sigs'.sent = sigs.sent /\ sigs.pending /\ ~sigs'.pending /\ sigs.handler = "waits" /\ sigs'.exit = sigs.exit
    BY <1>4 DEF HandlerTakes, HandlerIs, SigsType
  <2>2. ~sigs.exit
    BY <2>1 DEF OneLate
  <2> QED BY <1>1, <1>4, <2>1, <2>2 DEF HandlerTakes, SigsType
<1>5. CASE HandlerReads
  <2>1. Presses(sigs.count, sigs.recent) \in Int
    BY DEF Presses, SigsType
  <2>2. /\ sigs' \in SigsType /\ sigs'.sent = sigs.sent /\ sigs'.pending = sigs.pending /\ sigs.handler = "counts" /\ sigs'.handler = "writes"
        /\ sigs'.exit = sigs.exit
    BY <1>5, <2>1 DEF HandlerReads, HandlerIs, SigsType
  <2>3. ~sigs.exit
    BY <2>2 DEF OneLate
  <2> QED BY <1>1, <1>5, <2>2, <2>3 DEF HandlerReads, SigsType
<1>6. CASE HandlerWrites
  <2>1. /\ sigs' \in SigsType /\ sigs'.sent = sigs.sent /\ sigs'.pending = sigs.pending /\ sigs.handler = "writes"
        /\ sigs'.handler \in {"gone", "waits"} /\ (sigs'.exit => sigs'.handler = "gone")
    <3> DEFINE exit == sigs.next >= 2
               next == IF exit THEN "gone" ELSE "waits"
    <3>1. sigs' = [sigs EXCEPT !.count = sigs.next, !.recent = TRUE, !.exit = exit, !.handler = next] /\ sigs.handler = "writes"
      BY <1>6 DEF HandlerWrites, HandlerIs
    <3>2. sigs \in SigsType /\ exit \in BOOLEAN /\ next \in {"gone", "waits"} /\ (exit => next = "gone")
      OBVIOUS
    <3> HIDE DEF exit, next
    <3> QED BY <3>1, <3>2 DEF SigsType
  <2>2. ~sigs.exit
    BY <2>1 DEF OneLate
  <2> QED BY <1>1, <1>6, <2>1, <2>2 DEF HandlerWrites, SigsType
<1>7. CASE HandlerCancels
  <2>1. /\ sigs' \in SigsType /\ sigs'.sent = sigs.sent /\ sigs'.pending = sigs.pending /\ sigs.handler = "cancels"
        /\ sigs'.handler = "waits" /\ sigs'.exit = sigs.exit /\ ~sigs.exit
    BY <1>7 DEF HandlerCancels, HandlerIs, SigsType, OneLate
  <2>2. /\ reqs' \in ReqsType
        /\ reqs'.cancelled = reqs.cancelled \/ reqs'.cancelled = reqs.cancelled \cup {reqs.begun}
    BY <1>7 DEF HandlerCancels, ReqsType
  <2>3. UNCHANGED <<loop, tty, position>>
    BY <1>7 DEF HandlerCancels
  <2>4. /\ IsFiniteSet(reqs.cancelled) /\ Cardinality(reqs.cancelled) \in Nat
        /\ IsFiniteSet(reqs.cancelled \cup {reqs.begun})
        /\ Cardinality(reqs.cancelled \cup {reqs.begun}) \in {Cardinality(reqs.cancelled), Cardinality(reqs.cancelled) + 1}
    BY FS_CardinalityType, FS_AddElement DEF CancelsCounted
  <2>5. CancelsCounted'
    <3>1. ASSUME NEW n \in Int, NEW m \in {n, n + 1}, NEW p \in {0, 1}, NEW c \in Int, n + p + 1 <= c
          PROVE  m + p + 0 <= c
      BY <3>1
    <3>2. sigs.sent \in Int /\ (IF sigs.pending THEN 1 ELSE 0) \in {0, 1}
      BY DEF SigsType
    <3>3. Cardinality(reqs'.cancelled) \in {Cardinality(reqs.cancelled), Cardinality(reqs.cancelled) + 1}
      BY <2>2, <2>4
    <3>4. Cardinality(reqs.cancelled) + (IF sigs.pending THEN 1 ELSE 0) + 1 <= sigs.sent
      BY <2>1 DEF CancelsCounted
    <3>5. Cardinality(reqs'.cancelled) + (IF sigs.pending THEN 1 ELSE 0) + 0 <= sigs.sent
      BY <2>4, <3>1, <3>2, <3>3, <3>4
    <3>6. IsFiniteSet(reqs'.cancelled)
      BY <2>2, <2>4
    <3> QED BY <2>1, <3>5, <3>6 DEF CancelsCounted
  <2>6. CookedBehind' /\ PhasePutBack' /\ OneLate'
    BY <2>1, <2>3 DEF CookedBehind, PhasePutBack, OneLate, LoopAt
  <2> QED BY <2>1, <2>2, <2>3, <2>5, <2>6
<1> QED BY <1>2, <1>3, <1>4, <1>5, <1>6, <1>7 DEF Handles

LEMMA TerminalKeeps == TerminalInv /\ [TerminalNext]_terminalVars => TerminalInv'
<1> SUFFICES ASSUME TerminalInv, [TerminalNext]_terminalVars
             PROVE  TerminalInv'
  OBVIOUS
<1>1. CASE UNCHANGED terminalVars
  BY <1>1 DEF terminalVars, TerminalInv, TerminalTypeOK, CookedBehind, CancelsCounted, OneLate, PhasePutBack, LoopAt
<1>2. CASE LookAtLine \/ EscapeEnds \/ Key \/ ReadPiece \/ ExitCommand
  BY <1>2, ReadingKeeps
<1>3. CASE BeginRequest \/ BeginPhase \/ ResearchCommand \/ RunCommand \/ AgentWorks \/ AgentReturns \/ GoOn
  BY <1>3, RunningKeeps
<1>4. CASE Interrupt \/ TimePasses \/ Handles
  BY <1>4, InterruptsKeep
<1> QED BY <1>1, <1>2, <1>3, <1>4 DEF TerminalNext, Proceeds, Give

LEMMA TerminalAlways == TerminalSpec => []TerminalInv
BY TerminalBegins, TerminalKeeps, PTL DEF TerminalSpec

\* The loop, the terminal, the requests, the signals and the agent's position
\* keep their types (coderepl.go:41-283).
THEOREM TerminalTypeCorrect == TerminalSpec => []TerminalTypeOK
<1>1. TerminalInv => TerminalTypeOK
  BY DEF TerminalInv
<1> QED BY <1>1, TerminalAlways, PTL

\* For lines of any length, any phases and any number of interrupts: what runs
\* has a cooked terminal, an interrupt stops one request at most, one line at
\* most is run after "bye", and a phase command puts the pipeline back
\* (coderepl.go:68-280, agent.go:738-767).
THEOREM TerminalAlwaysHolds == TerminalSpec => []TerminalHolds
<1>1. TerminalInv => TerminalHolds
  <2> SUFFICES ASSUME TerminalInv PROVE TerminalHolds
    OBVIOUS
  <2>1. Cardinality(reqs.cancelled) \in Nat
    BY FS_CardinalityType DEF TerminalInv, CancelsCounted
  <2>2. Cardinality(reqs.cancelled) + (IF sigs.pending THEN 1 ELSE 0) <= sigs.sent
    BY <2>1 DEF TerminalInv, TerminalTypeOK, SigsType, CancelsCounted
  <2>3. loop.late <= 1
    BY DEF TerminalInv, OneLate
  <2> QED BY <2>2, <2>3 DEF TerminalInv, CookedBehind, PhasePutBack, TerminalHolds, Under
<1> QED BY <1>1, TerminalAlways, PTL
=============================================================================
