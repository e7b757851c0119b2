------------------------------- MODULE Pipeline -------------------------------
(***************************************************************************)
(* internal/agent: an agent that works in phases (config.AutoOrchestrate).  *)
(* Each turn of the loop calls the model, runs the tools it asks for and    *)
(* gives what it says to advancePipeline, which keeps the phase, sends it   *)
(* back, skips it, or leaves it for the next one; a phase of sub-agents is  *)
(* reviewed inside the call.  Trouble moves the agent up the chain of       *)
(* provider levels.                                                         *)
(*                                                                          *)
(* What a model says is its signal; the text, the conversation, the tools   *)
(* and the reviewers are chosen freely.  The checks the loop makes once all *)
(* phases are done are one choice, to end or to go on, and so is a          *)
(* correction of a hallucination.  Repeated tool calls are a choice of what *)
(* the loop makes of them: one turn may hold any number of calls.           *)
(***************************************************************************)
EXTENDS Integers, Sequences, FiniteSets

CONSTANTS
    Pipelines,          \* the lists of phases Run may begin with; <<>> is nil
    Detected,           \* the one advancePipeline makes when there is none
    Chain,              \* config.EscalationChain: the tier a level names, or ""
    MaxPhaseTurns,      \* maxPhaseTurns()
    RetriesToEscalate,  \* rejected claims before the level is raised: 5
    RetriesToSkip,      \* and before the claim is let through: 10
    PlateauToEscalate,  \* failed gates without a better score: 2
    PlateauToSkip,      \* and before the gate is let through: 4
    maxPipelineCycles,  \* 3
    maxRedirects,       \* of a loop at the last level, before the run is ended: 3
    StallEscalates,     \* the request is neither trivial nor a matter of text
    MaxFindings         \* bound of the model on the findings of a review

Tiers == {"cheap", "mid", "frontier"}
Phase == [name : STRING, tier : Tiers, minToolCalls : Nat, checks : Nat,
 parallel : BOOLEAN, escalate : BOOLEAN, subAgent : BOOLEAN]

ASSUME PipelineAssumption ==
    /\ Pipelines \subseteq Seq(Phase)
    /\ Detected \in Seq(Phase) /\ Detected # <<>>
    /\ Chain \in Seq(Tiers \cup {""})
    /\ MaxPhaseTurns \in Nat \ {0}
    /\ {RetriesToEscalate, RetriesToSkip, PlateauToEscalate, PlateauToSkip,
        maxPipelineCycles, maxRedirects} \subseteq Nat \ {0}
    /\ StallEscalates \in BOOLEAN
    /\ MaxFindings \in Nat

\* A phase that is checked again after a review comes before every review.
ASSUME FixAssumption ==
    \A p \in Pipelines \cup {Detected} : \A i, j \in 1..Len(p) :
        p[i].name = "self-check" /\ p[j].subAgent => i < j

VARIABLES
    pc,                 \* where the loop is: begin, call, text, final, done
    pending,            \* what is still to be given to advancePipeline
    pipeline,           \* a.pipeline
    pipelinePhase,      \* a.pipelinePhase, from 1
    counters,           \* the counters that a new phase resets
    pipelineCycles,     \* a.pipelineCycles
    tracker,            \* a.reviewTracker
    providerIdx,        \* a.providerIdx
    noToolTurns,        \* a.noToolTurns, up to 2
    exhaustionRedirects,\* a.exhaustionRedirects
    ghost               \* history: visit, evidence, unreviewed (below)

phaseVars == <<pipeline, pipelinePhase, counters, pipelineCycles, tracker,
               providerIdx, ghost>>
loopVars == <<pc, pending, noToolTurns, exhaustionRedirects>>
vars == <<phaseVars, loopVars>>

\* phaseToolCalls is only compared with MinToolCalls, which is at most 2.
ToolCap == 2

NewCounters == [toolCalls |-> 0, turns |-> 0, retries |-> 0, score |-> 0,
                plateau |-> 0]
NewTracker == [findings |-> 0, diverge |-> 0, code |-> FALSE, stable |-> 0]

LeastOf(m, n) == IF m < n THEN m ELSE n

\* History.  visit changes whenever a phase is begun, also when it is the same
\* one again; evidence counts the tool calls since then and since the last
\* failure; unreviewed are the phases whose reviewers are still to be asked.
NewVisit == [ghost EXCEPT !.visit = ~@, !.evidence = 0]

-----------------------------------------------------------------------------
(* Provider levels *)

Levels == Len(Chain)

\* mutant: tier routing that may go down
SetProviderLevel(from, level) == IF Levels = 0 THEN from ELSE LeastOf(level, Levels - 1)

SetMinProviderLevel(from, level) ==
    IF level <= from \/ Levels = 0 THEN from ELSE LeastOf(level, Levels - 1)

CanEscalate(level) == level + 1 < Levels
Escalated(level) ==
    IF CanEscalate(level) THEN SetMinProviderLevel(level, level + 1) ELSE level

\* The first level that names the tier, or else its third of the chain.
ProviderLevelForTier(tier) ==
    LET before == {i \in 1..Levels : \A j \in 1..i : Chain[j] # tier}
    IN  IF Cardinality(before) < Levels THEN Cardinality(before)
        ELSE CASE tier = "cheap" -> 0
               [] tier = "mid" -> Levels \div 3
               [] tier = "frontier" -> (2 * Levels) \div 3

\* The level at which a phase that was reached by a pass is begun.
LevelOf(phase, level) ==
    LET routed == IF Levels > 1
                    THEN SetMinProviderLevel(level, ProviderLevelForTier(phase.tier))
                    ELSE level
    IN  IF phase.escalate THEN Escalated(routed) ELSE routed

\* Sub-agents that used up their budget: runParallelPhase escalates once for
\* all of them, runSubAgentPhase at each of its steps.
AfterParallel(level) == {level, Escalated(level)}
AfterReviewers(level) == {level} \cup (level..(Levels - 1))

-----------------------------------------------------------------------------
(* Signals *)

Skips == {"PHASE_SKIPPED_TURN_CAP", "PHASE_SKIPPED_LOOP"}
Said == {"pass", "fail", "continue", "unclear"}

\* "PHASE_PASSED", which advancePipeline gives itself, is in neither list.
IsPassSignal(c) == c = "pass"
IsFailSignal(c) == c = "fail"

\* advancePipeline makes a pipeline when it finds none
Phases == IF pipeline = <<>> THEN Detected ELSE pipeline
Current == Phases[pipelinePhase]
AllDone == pipelinePhase > Len(Phases)

ShouldAdvance(c) ==
    \/ IsPassSignal(c)
    \/ c \in Skips
    \/ c = "continue" /\ Current.name \in {"implement", "data-prep", "model"}

\* mutant: the count is not started again
CyclesCounted(c) == IF c \in Skips THEN pipelineCycles + 1 ELSE pipelineCycles

\* A forced skip counts as a cycle, and starts the count again at the limit.
CyclesAfter(c) ==
    IF c \notin Skips THEN pipelineCycles
    ELSE IF pipelineCycles + 1 > maxPipelineCycles THEN 0 ELSE pipelineCycles + 1

-----------------------------------------------------------------------------
(* Reviews *)

\* CheckDivergence, then CheckStability
Judged(t, found, code, same) ==
    [findings |-> found,
     diverge  |-> IF t.findings > 0 /\ found > t.findings THEN t.diverge + 1 ELSE 0,
     code     |-> code,
     stable   |-> IF t.code /\ code /\ same THEN t.stable + 1 ELSE 0]

Judgements(t) ==
    {Judged(t, found, code, same) :
        found \in 0..MaxFindings, code \in BOOLEAN, same \in BOOLEAN}

Hopeless(t) == t.diverge >= 2 \/ t.stable >= 2

\* Two phases of sub-agents in a row are reviewed at the same time.
LastReviewed ==
    LET next == pipelinePhase + 1
    IN  IF next < Len(Phases) /\ Phases[next + 1].subAgent THEN next + 1 ELSE next

ReviewLevels(level) ==
    IF LastReviewed = pipelinePhase + 1 THEN AfterReviewers(level)
    ELSE {IF Phases[LastReviewed].escalate THEN Escalated(level) ELSE level}

\* findPhaseIndex("self-check", the phase before the review)
FixPhase ==
    LET found == {i \in 1..Len(Phases) : Phases[i].name = "self-check"}
    IN  IF found = {} THEN pipelinePhase ELSE CHOOSE i \in found : TRUE

Reviewed == [NewVisit EXCEPT !.unreviewed = @ \ (pipelinePhase + 1)..LastReviewed]

-----------------------------------------------------------------------------
(* advancePipeline *)

Unproven == counters.toolCalls < Current.minToolCalls

\* A claim without tools is rejected until its retries are used up; then the
\* count starts again.
ReachesGate == Unproven => counters.retries + 1 >= RetriesToSkip

RejectClaim(c) ==
    /\ ShouldAdvance(c) /\ ~ReachesGate
    /\ counters' = [counters EXCEPT !.retries = @ + 1]
    /\ providerIdx' = IF counters'.retries = RetriesToEscalate
                        THEN Escalated(providerIdx) ELSE providerIdx
    /\ pipelineCycles' = CyclesAfter(c)
    /\ UNCHANGED <<pipelinePhase, tracker, ghost>>

\* RunVerificationGate has checks that fail; score of them do not.
GateFailed(score) ==
    [counters EXCEPT
        !.retries = (IF Unproven THEN 0 ELSE @) + 1,
        !.plateau = IF score > counters.score THEN 0 ELSE @ + 1,
        !.score   = score]

Failures == {GateFailed(score) : score \in 0..(Current.checks - 1)}

Deadlocked(failed) == failed.plateau >= PlateauToSkip \/ failed.retries >= RetriesToSkip

LevelAfterGate(failed) ==
    IF failed.plateau = PlateauToEscalate THEN Escalated(providerIdx) ELSE providerIdx

RejectChecks(c) ==
    /\ ShouldAdvance(c) /\ ReachesGate
    /\ \E failed \in Failures :
          /\ ~Deadlocked(failed)
          /\ counters' = failed
          /\ providerIdx' = LevelAfterGate(failed)
    /\ pipelineCycles' = CyclesAfter(c)
    /\ UNCHANGED <<pipelinePhase, tracker, ghost>>

\* The levels at which the gate lets the phase end: it passed, or it is given up.
LevelsPastGate ==
    {providerIdx} \cup {LevelAfterGate(failed) : failed \in {f \in Failures : Deadlocked(f)}}

IsReviewed(i) == Phases[i].subAgent /\ ~Phases[i].parallel

\* mutant: the next phase is always begun with a prompt
BeginPrompted(c, level) ==
    /\ pipelinePhase' = pipelinePhase + 1
    /\ pipelineCycles' = CyclesAfter(c)
    /\ providerIdx' = level
    /\ tracker' = NewTracker
    /\ ghost' = NewVisit

\* The next phase is one of the agent's own, or there is none.
BeginNext(c, level) ==
    LET next == pipelinePhase + 1
    IN  /\ IF next > Len(Phases) THEN providerIdx' = level
           ELSE LET begun == LevelOf(Phases[next], level)
                IN  /\ ~IsReviewed(next)
                    /\ providerIdx' \in IF Phases[next].parallel
                                          THEN AfterParallel(begun) ELSE {begun}
        /\ pipelinePhase' = next
        /\ pipelineCycles' = CyclesAfter(c)
        /\ tracker' = NewTracker
        /\ ghost' = NewVisit

\* The reviewers approve: what they reviewed is begun with a prompt.
Approve(c, level) ==
    /\ pipelinePhase' = LastReviewed
    /\ pipelineCycles' = CyclesAfter(c)
    /\ tracker' = NewTracker
    /\ providerIdx' = level

\* They do not, and the agent is sent back; or their result is accepted.
Refuse(c, level) ==
    LET cycles == CyclesAfter(c) + 1
    IN  \E t \in Judgements(NewTracker) :
          /\ tracker' = t
          /\ IF Hopeless(t) \/ cycles > maxPipelineCycles
               THEN /\ pipelinePhase' = LastReviewed
                    /\ pipelineCycles' = IF Hopeless(t) THEN cycles ELSE 0
                    /\ providerIdx' = level
               ELSE /\ pipelinePhase' = FixPhase
                    /\ pipelineCycles' = cycles
                    /\ providerIdx' = Escalated(level)

Review(c, level) ==
    LET next == pipelinePhase + 1
    IN  /\ next <= Len(Phases) /\ IsReviewed(next)
        /\ \E used \in ReviewLevels(LevelOf(Phases[next], level)) :
              Approve(c, used) \/ Refuse(c, used)
        /\ ghost' = Reviewed

Pass(c) ==
    /\ ShouldAdvance(c) /\ ReachesGate
    /\ counters' = NewCounters
    /\ \E level \in LevelsPastGate : BeginNext(c, level) \/ Review(c, level)

\* mutant: the calls made before the failure still count
RetryWithCalls(t) ==
    /\ ~Hopeless(t) /\ pipelineCycles + 1 <= maxPipelineCycles
    /\ pipelineCycles' = pipelineCycles + 1
    /\ tracker' = t
    /\ counters' = [counters EXCEPT !.turns = 0]
    /\ providerIdx' = Escalated(providerIdx)
    /\ ghost' = [ghost EXCEPT !.evidence = 0]
    /\ UNCHANGED pipelinePhase

\* The phase failed and is tried again at the next level ...
Retry(t) ==
    /\ ~Hopeless(t) /\ pipelineCycles + 1 <= maxPipelineCycles
    /\ pipelineCycles' = pipelineCycles + 1
    /\ tracker' = t
    /\ counters' = [counters EXCEPT !.toolCalls = 0, !.turns = 0]
    /\ providerIdx' = Escalated(providerIdx)
    /\ ghost' = [ghost EXCEPT !.evidence = 0]
    /\ UNCHANGED pipelinePhase

\* ... or it is left as it is, and the next one begun without reviewers.
GiveUp(t) ==
    /\ Hopeless(t) \/ pipelineCycles + 1 > maxPipelineCycles
    /\ pipelineCycles' = IF Hopeless(t) THEN pipelineCycles + 1 ELSE 0
    /\ pipelinePhase' = pipelinePhase + 1
    /\ counters' = NewCounters
    /\ tracker' = NewTracker
    /\ ghost' = [NewVisit EXCEPT !.unreviewed = @ \ {pipelinePhase + 1}]
    /\ UNCHANGED providerIdx

Fail(c) ==
    /\ ~ShouldAdvance(c) /\ IsFailSignal(c)
    /\ \E t \in Judgements(tracker) : Retry(t) \/ GiveUp(t)

\* Neither: the phase is begun (again) with its prompt or its sub-agents.
Prompt(c) ==
    /\ ~ShouldAdvance(c) /\ ~IsFailSignal(c)
    /\ providerIdx' \in IF Current.parallel THEN AfterParallel(providerIdx)
                          ELSE {providerIdx}
    /\ UNCHANGED <<pipelinePhase, counters, pipelineCycles, tracker, ghost>>

\* It returns false exactly when no phase is left.
AdvancePipeline(c) ==
    /\ pipeline' = Phases
    /\ IF AllDone
         THEN UNCHANGED <<pipelinePhase, counters, pipelineCycles, tracker,
                          providerIdx, ghost>>
         ELSE RejectClaim(c) \/ RejectChecks(c) \/ Pass(c) \/ Fail(c) \/ Prompt(c)

-----------------------------------------------------------------------------
(* The loop *)

HasPhase == pipeline # <<>> /\ pipelinePhase <= Len(pipeline)

\* One call of advancePipeline; only a text answer looks at what it returns.
Advance ==
    /\ pending # <<>>
    /\ AdvancePipeline(Head(pending))
    /\ pending' = Tail(pending)
    /\ pc' = IF pc # "text" THEN pc
             ELSE IF pipelinePhase' <= Len(pipeline') THEN "begin" ELSE "final"
    /\ UNCHANGED <<noToolTurns, exhaustionRedirects>>

At(p) == pc = p /\ pending = <<>>

\* mutant: no turn cap
BeginTurnUncapped ==
    /\ At("begin")
    /\ pc' = "call"
    /\ UNCHANGED <<phaseVars, pending, noToolTurns, exhaustionRedirects>>

\* A phase has a limited number of turns, whatever they are spent on.
BeginTurn ==
    /\ At("begin")
    /\ pc' = "call"
    /\ LET turns == LeastOf(counters.turns + 1, MaxPhaseTurns + 1)
       IN  IF HasPhase
             THEN /\ counters' = [counters EXCEPT !.turns = turns]
                  /\ pending' = IF turns > MaxPhaseTurns
                                  THEN <<"PHASE_SKIPPED_TURN_CAP">> ELSE <<>>
             ELSE UNCHANGED <<counters, pending>>
    /\ UNCHANGED <<pipeline, pipelinePhase, pipelineCycles, tracker, providerIdx,
                   ghost, noToolTurns, exhaustionRedirects>>

\* The budget is exhausted, the context is done, or the call fails for good.
Stop ==
    /\ At("begin") \/ At("call")
    /\ pc' = "done"
    /\ UNCHANGED <<phaseVars, pending, noToolTurns, exhaustionRedirects>>

\* callLLMWithRetry: no provider of the level answers.
CallEscalates ==
    /\ At("call") /\ CanEscalate(providerIdx)
    /\ providerIdx' = Escalated(providerIdx)
    /\ UNCHANGED <<loopVars, pipeline, pipelinePhase, counters, pipelineCycles,
                   tracker, ghost>>

\* An answer with nothing in it.
EmptyAnswer ==
    /\ At("call")
    /\ noToolTurns' = LeastOf(noToolTurns + 1, 2)
    /\ pc' = "begin"
    /\ UNCHANGED <<phaseVars, pending, exhaustionRedirects>>

\* A text answer that the hallucination check sends back.
CorrectedAnswer ==
    /\ At("call")
    /\ pc' = "begin"
    /\ UNCHANGED <<phaseVars, pending, noToolTurns, exhaustionRedirects>>

\* Text without a tool call: two in a row are a stall.
Stalled == StallEscalates /\ noToolTurns + 1 >= 2

TextStalls ==
    /\ At("call") /\ Stalled
    /\ providerIdx' = Escalated(providerIdx)
    /\ noToolTurns' = 0
    /\ pc' = "begin"
    /\ UNCHANGED <<pending, exhaustionRedirects, pipeline, pipelinePhase, counters,
                   pipelineCycles, tracker, ghost>>

TextAnswer(c) ==
    /\ At("call") /\ ~Stalled
    /\ noToolTurns' = LeastOf(noToolTurns + 1, 2)
    /\ pc' = "text"
    /\ pending' = <<c>>
    /\ UNCHANGED <<phaseVars, exhaustionRedirects>>

\* All phases are done: the last checks end the run or ask for more.
Final ==
    /\ At("final")
    /\ pc' \in {"begin", "done"}
    /\ UNCHANGED <<phaseVars, pending, noToolTurns, exhaustionRedirects>>

\* The tools of an answer are run, its calls compared with the last ones, and
\* a clear signal in its text is heard (not when the run is ended here).
ToolsRun(n) ==
    /\ At("call")
    /\ counters' = [counters EXCEPT !.toolCalls = LeastOf(@ + n, ToolCap)]
    /\ ghost' = [ghost EXCEPT !.evidence = LeastOf(@ + n, ToolCap)]
    /\ noToolTurns' = 0
    /\ UNCHANGED <<pipeline, pipelinePhase, pipelineCycles, tracker>>

Heard(c) == IF IsPassSignal(c) \/ IsFailSignal(c) THEN <<c>> ELSE <<>>

ToolAnswer(n, c) ==
    /\ ToolsRun(n)
    /\ pending' = Heard(c)
    /\ pc' = "begin"
    /\ UNCHANGED <<providerIdx, exhaustionRedirects>>

ToolLoopBroken(n, c) ==
    /\ ToolsRun(n)
    /\ pending' = <<"PHASE_SKIPPED_LOOP">> \o Heard(c)
    /\ pc' = "begin"
    /\ UNCHANGED <<providerIdx, exhaustionRedirects>>

ToolLoopEscalates(n, c) ==
    /\ ToolsRun(n) /\ CanEscalate(providerIdx)
    /\ providerIdx' = Escalated(providerIdx)
    /\ pending' = Heard(c)
    /\ pc' = "begin"
    /\ UNCHANGED exhaustionRedirects

ToolLoopRedirected(n, c) ==
    /\ ToolsRun(n) /\ ~CanEscalate(providerIdx)
    /\ exhaustionRedirects' = exhaustionRedirects + 1
    /\ IF exhaustionRedirects' >= maxRedirects
         THEN pending' = <<>> /\ pc' = "done"
         ELSE pending' = Heard(c) /\ pc' = "begin"
    /\ UNCHANGED providerIdx

ToolTurn(n, c) ==
    \/ ToolAnswer(n, c)
    \/ ToolLoopBroken(n, c)
    \/ ToolLoopEscalates(n, c)
    \/ ToolLoopRedirected(n, c)

-----------------------------------------------------------------------------

\* DetectPipelineEntry and the plan cache choose where the run begins.
Named(p, names) == {i \in 1..Len(p) : p[i].name \in names}
StartPhases(p) ==
    (IF p # <<>> /\ p[1].name = "plan" /\ p[1].parallel THEN {2} ELSE {1})
        \cup Named(p, {"implement", "data-prep", "self-check", "review"})

Init ==
    /\ pc = "begin"
    /\ pending = <<>>
    /\ pipeline \in Pipelines
    /\ pipelinePhase \in StartPhases(pipeline)
    /\ counters = NewCounters
    /\ pipelineCycles = 0
    /\ tracker = NewTracker
    /\ providerIdx \in {0} \cup 0..(Levels - 1)
    /\ noToolTurns = 0
    /\ exhaustionRedirects = 0
    /\ ghost = [visit |-> FALSE, evidence |-> 0,
                unreviewed |-> {i \in (pipelinePhase + 1)..Len(Phases) : IsReviewed(i)}]

Next ==
    \/ Advance
    \/ BeginTurn
    \/ Stop
    \/ CallEscalates
    \/ EmptyAnswer
    \/ CorrectedAnswer
    \/ TextStalls
    \/ \E c \in Said : TextAnswer(c)
    \/ Final
    \/ \E n \in 1..ToolCap, c \in Said : ToolTurn(n, c)

\* The loop runs on as long as its calls return, as they do within a timeout.
Spec == Init /\ [][Next]_vars /\ WF_vars(Next)

-----------------------------------------------------------------------------
(* Properties *)

CounterType == [toolCalls : 0..ToolCap, turns : 0..(MaxPhaseTurns + 1),
                retries : 0..(RetriesToSkip - 1), score : Nat,
                plateau : 0..(PlateauToSkip - 1)]
TrackerType == [findings : 0..MaxFindings, diverge : 0..1, code : BOOLEAN,
                stable : 0..1]
Signals == Said \cup Skips

\* Every reachable agent is well formed: no counter of a phase passes the limit
\* at which advancePipeline acts on it, and the phase is one of the pipeline's
\* or the one past its end.
TypeOK ==
    /\ pc \in {"begin", "call", "text", "final", "done"}
    /\ pending \in Seq(Signals)
    /\ pipeline \in Pipelines \cup {Detected}
    /\ pipelinePhase \in 1..(Len(Phases) + 1)
    /\ counters \in CounterType
    /\ pipelineCycles \in 0..(maxPipelineCycles + 1)
    /\ tracker \in TrackerType
    /\ providerIdx \in {0} \cup 0..(Levels - 1)
    /\ noToolTurns \in 0..2
    /\ exhaustionRedirects \in 0..maxRedirects
    /\ ghost \in [visit : BOOLEAN, evidence : 0..ToolCap, unreviewed : SUBSET Nat]

\* The cycle count passes its limit only in the step that looks at it: above
\* it, the tracker has just been reset, so the next failure sets it back to 0
\* instead of counting on (agent.go:2634 compares after counting, 2219 too, and
\* the ways out for diverging and stable reviews do not reset it).
CyclesBounded ==
    pipelineCycles > maxPipelineCycles =>
        /\ pipelineCycles = maxPipelineCycles + 1
        /\ tracker = NewTracker

\* providerIdx only climbs ("MONOTONICALLY INCREASING", agent.go:81): tier
\* routing to a cheap phase, a fall back to self-check and a sub-agent's
\* escalation never hand the work to a smaller model again.
LevelsClimb == [][providerIdx' >= providerIdx]_vars

\* No phase that is reviewed by sub-agents is begun, left or jumped over unless
\* they were asked, once at least, or the phase before it was given up as
\* failing: neither a turn cap, a broken loop, a run of rejected claims nor the
\* joint review of two phases gets around them.
IndependentReview == \A i \in ghost.unreviewed : pipelinePhase < i

\* A phase ends with the tool calls it needs, made since it began or last
\* failed.  The exceptions are the ways out that the code spells out: its
\* retries are used up, its reviews diverge or repeat themselves, or its cycles
\* are used up.
Excused ==
    \/ counters.retries + 1 >= RetriesToSkip
    \/ tracker.diverge > 0 \/ tracker.stable > 0
    \/ pipelineCycles >= maxPipelineCycles
EndsWithEvidence ==
    [][ghost'.visit # ghost.visit /\ ~Excused
         => ghost.evidence >= Current.minToolCalls]_vars

\* No phase goes on for ever, whatever the model answers: turn cap, retries,
\* plateau and cycles together end it.  One way to stay is left, and is the
\* code's: a gate whose score goes up and down again starts the plateau count
\* afresh each time.  A request with no pipeline has no turn cap.
PhasesEnd ==
    \/ []<><<ghost'.visit # ghost.visit>>_vars
    \/ []<><<counters'.score > counters.score>>_vars
    \/ <>[](pc = "done" \/ ~HasPhase)
=============================================================================
