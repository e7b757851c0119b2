----------------------------- MODULE ToolsProofs -----------------------------
(***************************************************************************)
(* What runs around a model's tools, for any number of tasks, runners,     *)
(* requests, providers and exercises.  Steps that call the manager's tools *)
(* leave no task as running and send conversations with a result for every *)
(* call.  A request that fails has tried every credential of every         *)
(* provider.  An evaluation keeps as passed what has passed its tests.     *)
(***************************************************************************)
EXTENDS StepTools, ToolTurns, Evals, SelectionsProofs, SequenceTheorems, FiniteSetTheorems, TLAPS

(***************************************************************************)
(* Steps and the tools of the manager.                                     *)
(***************************************************************************)

(* ---------------------------------- types ------------------------------ *)

Jobs == [status : Statuses, agent : Helpers \cup {Nobody}]
Steps == [pc : {"free", "begin", "ask", "call", "done", "failing"}, task : TaskNumbers,
          round : Nat, calls : Nat, said : Seq(Messages)]

LEMMA OneIsATask == 1 \in TaskNumbers
BY StepToolsAssumption DEF TaskNumbers

LEMMA UnusedType == Unused \in Steps
<1>1. <<>> \in Seq(Messages)
  BY EmptySeq
<1> QED BY <1>1, OneIsATask DEF Unused, Steps

LEMMA UpdateJob ==
  ASSUME job \in [TaskNumbers -> Jobs], NEW t \in TaskNumbers, NEW j \in Jobs,
         job' = [job EXCEPT ![t] = j]
  PROVE  job' \in [TaskNumbers -> Jobs]
OBVIOUS

LEMMA UpdateStep ==
  ASSUME NEW steps \in [Goroutines -> Steps], NEW r \in Goroutines, NEW s \in Steps
  PROVE  [steps EXCEPT ![r] = s] \in [Goroutines -> Steps]
OBVIOUS

\* A run is launched on a goroutine to spare, and the others go on.
LEMMA LaunchedOne ==
  ASSUME NEW steps \in [Goroutines -> Steps], NEW t \in TaskNumbers,
         \E g \in Goroutines : steps[g].pc = "free"
  PROVE  \E g \in Goroutines :
           /\ steps[g].pc = "free"
           /\ Launched(steps, t) = [steps EXCEPT ![g] = [Unused EXCEPT !.pc = "begin", !.task = t]]
           /\ [Unused EXCEPT !.pc = "begin", !.task = t] \in Steps
<1> DEFINE g == CHOOSE g \in Goroutines : steps[g].pc = "free"
<1>1. g \in Goroutines /\ steps[g].pc = "free"
  OBVIOUS
<1>2. [Unused EXCEPT !.pc = "begin", !.task = t] \in Steps
  BY UnusedType DEF Steps
<1>3. Launched(steps, t) = [steps EXCEPT ![g] = [Unused EXCEPT !.pc = "begin", !.task = t]]
  BY DEF Launched
<1> QED BY <1>1, <1>2, <1>3

\* What a call leaves of a run: one call less and one message more.
LEMMA AfterCallFacts ==
  ASSUME step \in [Goroutines -> Steps], NEW r \in Goroutines, NEW fails \in BOOLEAN,
         AtStep(r, "call"), step[r].calls > 0
  PROVE  /\ AfterCall(r, fails) \in Steps
         /\ AfterCall(r, fails).pc # "free"
         /\ AfterCall(r, fails).task = step[r].task
         /\ AfterCall(r, fails).said = Append(step[r].said, ToolResult)
         /\ AfterCall(r, fails).calls = step[r].calls - 1
         /\ IF step[r].calls = 1 THEN AfterCall(r, fails).pc \in {"ask", "done"}
                                 ELSE AfterCall(r, fails).pc = "call"
<1> DEFINE s == [step[r] EXCEPT !.calls = @ - 1, !.said = Told(@, fails)]
<1>1. ToolResult \in Messages
  BY DEF ToolResult, Messages
<1>2. Append(step[r].said, ToolResult) \in Seq(Messages)
  BY <1>1 DEF Steps
<1>3. step[r] \in Steps /\ step[r].calls \in Nat /\ step[r].calls - 1 \in Nat /\ step[r].pc = "call"
  BY DEF Steps, AtStep
<1>4. s = [step[r] EXCEPT !.calls = step[r].calls - 1, !.said = Append(step[r].said, ToolResult)]
  BY DEF Told
<1>5. s \in Steps
  BY <1>2, <1>3, <1>4 DEF Steps
<1>6. s.said = Append(step[r].said, ToolResult) /\ s.calls = step[r].calls - 1
      /\ s.pc = "call" /\ s.task = step[r].task
  BY <1>3, <1>4 DEF Steps
<1> HIDE DEF s
<1> DEFINE next == IF s.round + 1 = Rounds THEN "done" ELSE "ask"
           n    == [s EXCEPT !.round = s.round + 1, !.pc = next]
<1>7. NextRound(s) = n
  BY DEF NextRound
<1>8. next \in {"ask", "done"} /\ s.round + 1 \in Nat
  BY <1>5 DEF Steps
<1> HIDE DEF next
<1>9. n \in Steps
  BY <1>5, <1>8 DEF Steps
<1>10. n.said = s.said /\ n.calls = s.calls /\ n.pc = next /\ n.task = s.task
  BY <1>5 DEF Steps
<1> HIDE DEF n
<1>11. AfterCall(r, fails) = IF s.calls = 0 THEN n ELSE s
  BY <1>7 DEF AfterCall, s
<1> QED BY <1>3, <1>5, <1>6, <1>8, <1>9, <1>10, <1>11

(* --------------------------- types and runners ------------------------- *)

\* Types, calls that are the answer's, and a runner for each task that runs.
Runs(jobs, steps) ==
  /\ jobs \in [TaskNumbers -> Jobs]
  /\ steps \in [Goroutines -> Steps]
  /\ \A r \in Goroutines : steps[r].pc = "call" => steps[r].calls > 0
  /\ \A t \in TaskNumbers : jobs[t].status = "running" =>
       \E r \in Goroutines : steps[r].pc # "free" /\ steps[r].task = t

LEMMA RunsTypes == Runs(job, step) => StepsTypeOK
BY DEF Runs, StepsTypeOK, Jobs, Steps

LEMMA RunsForgetNone == Runs(job, step) => NoneForgotten
BY DEF Runs, NoneForgotten

\* A goroutine goes from one run, or from none, to another: it goes on with
\* its task or has settled it, and no task runs but for this.
LEMMA RunGoesOn ==
  ASSUME NEW jobs, NEW steps, Runs(jobs, steps),
         NEW after \in [TaskNumbers -> Jobs], NEW r \in Goroutines, NEW s \in Steps,
         s.pc = "call" => s.calls > 0,
         \/ steps[r].pc = "free"
         \/ s.pc # "free" /\ s.task = steps[r].task
         \/ after[steps[r].task].status # "running",
         \A t \in TaskNumbers : after[t].status = "running" =>
            jobs[t].status = "running" \/ (s.pc # "free" /\ t = s.task)
  PROVE  Runs(after, [steps EXCEPT ![r] = s])
<1> DEFINE new == [steps EXCEPT ![r] = s]
<1>1. steps \in [Goroutines -> Steps]
  BY DEF Runs
<1>2. new \in [Goroutines -> Steps] /\ new[r] = s /\ \A g \in Goroutines \ {r} : new[g] = steps[g]
  BY <1>1
<1> HIDE DEF new
<1>3. \A g \in Goroutines : new[g].pc = "call" => new[g].calls > 0
  BY <1>2 DEF Runs
<1>4. ASSUME NEW t \in TaskNumbers, after[t].status = "running"
      PROVE  \E g \in Goroutines : new[g].pc # "free" /\ new[g].task = t
  <2>1. CASE s.pc # "free" /\ t = s.task
    BY <2>1, <1>2
  <2>2. CASE jobs[t].status = "running" /\ ~(s.pc # "free" /\ t = s.task)
    <3>1. PICK g \in Goroutines : steps[g].pc # "free" /\ steps[g].task = t
      BY <2>2 DEF Runs
    <3>2. g # r
      BY <3>1, <2>2, <1>4
    <3> QED BY <3>1, <3>2, <1>2
  <2> QED BY <2>1, <2>2, <1>4
<1>5. Runs(after, new)
  BY <1>2, <1>3, <1>4 DEF Runs
<1> QED BY <1>5 DEF new

\* A run that is launched finds a goroutine of its own.
LEMMA RunIsLaunched ==
  ASSUME NEW jobs, NEW steps, Runs(jobs, steps), NEW t \in TaskNumbers,
         \E g \in Goroutines : steps[g].pc = "free"
  PROVE  Runs(jobs, Launched(steps, t))
<1> DEFINE s == [Unused EXCEPT !.pc = "begin", !.task = t]
<1>1. steps \in [Goroutines -> Steps] /\ jobs \in [TaskNumbers -> Jobs]
  BY DEF Runs
<1>2. PICK g \in Goroutines : steps[g].pc = "free" /\ Launched(steps, t) = [steps EXCEPT ![g] = s] /\ s \in Steps
  BY <1>1, LaunchedOne
<1>3. s.pc = "begin"
  BY UnusedType DEF Steps
<1> HIDE DEF s
<1>4. Runs(jobs, [steps EXCEPT ![g] = s])
  BY <1>1, <1>2, <1>3, RunGoesOn
<1> QED BY <1>2, <1>4

\* Of the jobs: one of them becomes another.
LEMMA JobBecomes ==
  ASSUME job \in [TaskNumbers -> Jobs], NEW t \in TaskNumbers, NEW j \in Jobs
  PROVE  /\ [job EXCEPT ![t] = j] \in [TaskNumbers -> Jobs]
         /\ [job EXCEPT ![t] = j][t] = j
         /\ \A u \in TaskNumbers \ {t} : [job EXCEPT ![t] = j][u] = job[u]
OBVIOUS

LEMMA RunsInitially == StepsInit => Runs(job, step)
<1> SUFFICES ASSUME StepsInit
             PROVE  Runs(job, step)
  OBVIOUS
<1>1. NoJob \in Jobs /\ NoJob.status = "absent"
  BY DEF NoJob, NewJob, Jobs, Statuses
<1>2. Unused \in Steps /\ Unused.pc = "free"
  BY UnusedType DEF Unused
<1> HIDE DEF NoJob, Unused
<1> QED BY <1>1, <1>2 DEF StepsInit, Runs

\* A task is made, which no goroutine runs yet.
LEMMA CreateFacts ==
  ASSUME Runs(job, step), NEW t \in TaskNumbers, NEW execute \in BOOLEAN, Create(t, execute)
  PROVE  /\ job' \in [TaskNumbers -> Jobs]
         /\ \A u \in TaskNumbers : job'[u].status = "running" => job[u].status = "running"
         /\ execute => FreeGoroutines # {}
<1>1. NewJob \in Jobs /\ NewJob.status = "queued"
  BY DEF NewJob, Jobs, Statuses
<1> HIDE DEF NewJob
<1>2. job' = [job EXCEPT ![t] = NewJob] /\ job \in [TaskNumbers -> Jobs]
  BY DEF Create, Runs
<1> QED BY <1>1, <1>2 DEF Create

\* A model's answer ends the run or opens as many calls as it has.
LEMMA AskFacts ==
  ASSUME step \in [Goroutines -> Steps], NEW r \in Goroutines, AskModel(r)
  PROVE  \E s \in Steps :
           /\ step' = [step EXCEPT ![r] = s] /\ s.task = step[r].task
           /\ \/ s.pc \in {"failing", "done"} /\ s.said = step[r].said
              \/ s.pc = "call" /\ s.calls > 0 /\ s.said = Append(step[r].said, [role |-> "assistant", calls |-> s.calls])
<1>1. step[r] \in Steps /\ step[r].said \in Seq(Messages)
  BY DEF Steps
<1>2. ASSUME NEW p \in {"failing", "done"}, Goes(r, [step[r] EXCEPT !.pc = p])
      PROVE  \E s \in Steps : /\ step' = [step EXCEPT ![r] = s] /\ s.task = step[r].task
                              /\ s.pc \in {"failing", "done"} /\ s.said = step[r].said
  <2> DEFINE s == [step[r] EXCEPT !.pc = p]
  <2>1. s \in Steps /\ s.pc = p /\ s.task = step[r].task /\ s.said = step[r].said
    BY <1>1 DEF Steps
  <2>2. step' = [step EXCEPT ![r] = s]
    BY <1>2 DEF Goes
  <2> HIDE DEF s
  <2> QED BY <2>1, <2>2
<1>3. ASSUME NEW n \in 1..CallsPerAnswer,
             Goes(r, [step[r] EXCEPT !.pc = "call", !.calls = n, !.said = Append(@, [role |-> "assistant", calls |-> n])])
      PROVE  \E s \in Steps : /\ step' = [step EXCEPT ![r] = s] /\ s.task = step[r].task
                              /\ s.pc = "call" /\ s.calls > 0
                              /\ s.said = Append(step[r].said, [role |-> "assistant", calls |-> s.calls])
  <2> DEFINE talk == Append(step[r].said, [role |-> "assistant", calls |-> n])
             s    == [step[r] EXCEPT !.pc = "call", !.calls = n, !.said = talk]
  <2>1. n \in Nat /\ n > 0
    BY StepToolsAssumption
  <2>2. talk \in Seq(Messages)
    BY <1>1, <2>1 DEF Messages
  <2>3. step' = [step EXCEPT ![r] = s]
    BY <1>3 DEF Goes
  <2> HIDE DEF talk
  <2>4. s \in Steps /\ s.pc = "call" /\ s.calls = n /\ s.task = step[r].task /\ s.said = talk
    BY <1>1, <2>1, <2>2 DEF Steps
  <2> HIDE DEF s
  <2>5. talk = Append(step[r].said, [role |-> "assistant", calls |-> s.calls])
    BY <2>4 DEF talk
  <2> QED BY <2>1, <2>3, <2>4, <2>5
<1> QED BY <1>2, <1>3 DEF AskModel

\* Every step of the specification keeps types, calls and runners.
LEMMA RunsStep ==
  ASSUME Runs(job, step), [StepsNext]_stepVars
  PROVE  Runs(job, step)'
<1>1. job \in [TaskNumbers -> Jobs] /\ step \in [Goroutines -> Steps]
  BY DEF Runs
<1>2. CASE UNCHANGED stepVars
  BY <1>2 DEF stepVars, Runs
<1>3. CASE ClientCreates
  <2>1. 1 \in TaskNumbers /\ Create(1, TRUE) /\ step' = Launched(step, 1)
    BY <1>3, OneIsATask DEF ClientCreates
  <2>2. job' \in [TaskNumbers -> Jobs] /\ FreeGoroutines # {}
        /\ \A u \in TaskNumbers : job'[u].status = "running" => job[u].status = "running"
    BY <2>1, CreateFacts
  <2>3. Runs(job', step)
    BY <1>1, <2>2 DEF Runs
  <2>4. Runs(job', Launched(step, 1))
    BY <2>1, <2>2, <2>3, RunIsLaunched DEF FreeGoroutines, AtStep
  <2> QED BY <2>1, <2>4 DEF Runs
<1>4. ASSUME NEW r \in Goroutines, StepWork(r)
      PROVE  Runs(job', step')
  <2> DEFINE t == step[r].task
  <2>1. t \in TaskNumbers /\ job[t] \in Jobs /\ step[r] \in Steps
    BY <1>1 DEF Steps
  <2>2. CASE BeginRun(r)
    <3> DEFINE j == [job[t] EXCEPT !.status = IF job[t].status \in {"running", "completed"} THEN job[t].status ELSE "running"]
               s == [step[r] EXCEPT !.pc = "ask"]
    <3>1. j \in Jobs
      BY <2>1 DEF Jobs, Statuses
    <3>2. s \in Steps /\ s.pc = "ask" /\ s.task = t
      BY <2>1 DEF Steps
    <3>3. job' = [job EXCEPT ![t] = j] /\ step' = [step EXCEPT ![r] = s]
      BY <2>2, <1>1, <2>1 DEF BeginRun, Goes
    <3> HIDE DEF j, s
    <3>4. job' \in [TaskNumbers -> Jobs] /\ \A u \in TaskNumbers \ {t} : job'[u] = job[u]
      BY <1>1, <2>1, <3>1, <3>3, JobBecomes
    <3>5. Runs(job', [step EXCEPT ![r] = s])
      BY <3>2, <3>4, RunGoesOn
    <3> QED BY <3>3, <3>5
  <2>3. CASE AskModel(r)
    <3>1. job' = job
      BY <2>3 DEF AskModel
    <3>2. PICK s \in Steps : /\ step' = [step EXCEPT ![r] = s] /\ s.pc # "free" /\ s.task = t
                             /\ s.pc = "call" => s.calls > 0
      <4>1. PICK s \in Steps : /\ step' = [step EXCEPT ![r] = s] /\ s.task = step[r].task
                               /\ \/ s.pc \in {"failing", "done"} /\ s.said = step[r].said
                                  \/ s.pc = "call" /\ s.calls > 0 /\ s.said = Append(step[r].said, [role |-> "assistant", calls |-> s.calls])
        BY <1>1, <2>3, AskFacts
      <4> QED BY <4>1
    <3>3. Runs(job', [step EXCEPT ![r] = s])
      BY <1>1, <2>1, <3>1, <3>2, RunGoesOn
    <3> QED BY <3>2, <3>3
  <2>4. CASE Call(r)
    <3>1. AtStep(r, "call") /\ step[r].calls > 0
      BY <2>4 DEF Call, CallElsewhere, CallCreates, CallStarts, CallCancels, CallGivesAway, CallsTool, Runs, AtStep
    <3>2. ASSUME NEW fails \in BOOLEAN, NEW after \in [TaskNumbers -> Jobs],
                 \A u \in TaskNumbers : after[u].status = "running" => job[u].status = "running"
          PROVE  Runs(after, [step EXCEPT ![r] = AfterCall(r, fails)])
      <4>1. /\ AfterCall(r, fails) \in Steps /\ AfterCall(r, fails).pc # "free" /\ AfterCall(r, fails).task = t
            /\ AfterCall(r, fails).pc = "call" => AfterCall(r, fails).calls > 0
        <5>1. step[r].calls \in Nat
          BY <2>1 DEF Steps
        <5> QED BY <5>1, <1>1, <3>1, AfterCallFacts
      <4> QED BY <3>2, <4>1, RunGoesOn
    <3>3. ASSUME NEW after \in [TaskNumbers -> Jobs], NEW u \in TaskNumbers, FreeGoroutines # {},
                 Runs(after, [step EXCEPT ![r] = AfterCall(r, FALSE)])
          PROVE  Runs(after, Launched([step EXCEPT ![r] = AfterCall(r, FALSE)], u))
      <4>1. PICK g \in Goroutines : step[g].pc = "free"
        BY <3>3 DEF FreeGoroutines, AtStep
      <4>2. g # r
        BY <4>1, <3>1 DEF AtStep
      <4>3. [step EXCEPT ![r] = AfterCall(r, FALSE)][g].pc = "free"
        BY <4>1, <4>2, <1>1
      <4> QED BY <3>3, <4>3, RunIsLaunched
    <3>4. CASE CallElsewhere(r)
      BY <3>4, <3>2, <1>1 DEF CallElsewhere, Goes
    <3>5. CASE CallCreates(r)
      <4>1. PICK u \in TaskNumbers, execute \in BOOLEAN :
              /\ Create(u, execute)
              /\ step' = LET after == [step EXCEPT ![r] = AfterCall(r, FALSE)] IN IF execute THEN Launched(after, u) ELSE after
        BY <3>5 DEF CallCreates
      <4>2. /\ job' \in [TaskNumbers -> Jobs]
            /\ \A v \in TaskNumbers : job'[v].status = "running" => job[v].status = "running"
            /\ execute => FreeGoroutines # {}
        BY <4>1, CreateFacts
      <4>3. Runs(job', [step EXCEPT ![r] = AfterCall(r, FALSE)])
        BY <4>2, <3>2
      <4>4. CASE execute
        BY <4>1, <4>2, <4>3, <4>4, <3>3
      <4>5. CASE ~execute
        BY <4>1, <4>3, <4>5
      <4> QED BY <4>4, <4>5
    <3>6. CASE CallStarts(r)
      <4>1. PICK u \in Existing : step' = Launched([step EXCEPT ![r] = AfterCall(r, FALSE)], u)
        BY <3>6 DEF CallStarts
      <4>2. job' = job /\ FreeGoroutines # {} /\ u \in TaskNumbers
        BY <3>6 DEF CallStarts, Existing
      <4>3. Runs(job', [step EXCEPT ![r] = AfterCall(r, FALSE)])
        BY <1>1, <4>2, <3>2
      <4> QED BY <1>1, <4>1, <4>2, <4>3, <3>3
    <3>7. CASE CallCancels(r)
      <4>1. PICK u \in Existing : job' = [job EXCEPT ![u].status = "cancelled"]
        BY <3>7 DEF CallCancels
      <4> DEFINE j == [job[u] EXCEPT !.status = "cancelled"]
      <4>2. u \in TaskNumbers /\ j \in Jobs /\ j.status = "cancelled" /\ job' = [job EXCEPT ![u] = j]
        BY <1>1, <4>1 DEF Existing, Jobs, Statuses
      <4> HIDE DEF j
      <4>3. job' \in [TaskNumbers -> Jobs]
            /\ \A v \in TaskNumbers : job'[v].status = "running" => job[v].status = "running"
        BY <1>1, <4>2, JobBecomes
      <4>4. step' = [step EXCEPT ![r] = AfterCall(r, FALSE)]
        BY <3>7 DEF CallCancels, Goes
      <4> QED BY <4>3, <4>4, <3>2
    <3>8. CASE CallGivesAway(r)
      <4>1. PICK u \in Existing, a \in Helpers :
              job' = [job EXCEPT ![u].agent = a, ![u].status = IF @ = "queued" THEN "assigned" ELSE @]
        BY <3>8 DEF CallGivesAway
      <4> DEFINE j == [job[u] EXCEPT !.agent = a, !.status = IF job[u].status = "queued" THEN "assigned" ELSE job[u].status]
      <4>2. u \in TaskNumbers /\ job[u] \in Jobs
        BY <1>1 DEF Existing
      <4>3. j \in Jobs /\ (j.status = "running" => job[u].status = "running")
        BY <4>2 DEF Jobs, Statuses
      <4>4. job' = [job EXCEPT ![u] = j]
        BY <1>1, <4>1, <4>2 DEF Jobs
      <4> HIDE DEF j
      <4>5. job' \in [TaskNumbers -> Jobs]
            /\ \A v \in TaskNumbers : job'[v].status = "running" => job[v].status = "running"
        BY <1>1, <4>2, <4>3, <4>4, JobBecomes
      <4>6. step' = [step EXCEPT ![r] = AfterCall(r, FALSE)]
        BY <3>8 DEF CallGivesAway, Goes
      <4> QED BY <4>5, <4>6, <3>2
    <3> QED BY <2>4, <3>4, <3>5, <3>6, <3>7, <3>8 DEF Call
  <2>5. ASSUME NEW status \in {"completed", "failed"}, job' = [job EXCEPT ![t].status = status], Goes(r, Unused)
        PROVE  Runs(job', step')
    <3> DEFINE j == [job[t] EXCEPT !.status = status]
    <3>1. j \in Jobs /\ j.status # "running" /\ job' = [job EXCEPT ![t] = j]
      BY <2>1, <2>5 DEF Jobs, Statuses
    <3> HIDE DEF j
    <3>2. job' \in [TaskNumbers -> Jobs] /\ job'[t].status # "running" /\ \A u \in TaskNumbers \ {t} : job'[u] = job[u]
      BY <1>1, <2>1, <3>1, JobBecomes
    <3>3. Unused \in Steps /\ Unused.pc = "free"
      BY UnusedType DEF Unused
    <3>4. Runs(job', [step EXCEPT ![r] = Unused])
      BY <3>2, <3>3, RunGoesOn
    <3> QED BY <2>5, <3>4 DEF Goes
  <2> QED BY <1>4, <2>2, <2>3, <2>4, <2>5 DEF StepWork, CompleteRun, FailRun
<1>5. Runs(job', step') => Runs(job, step)'
  BY DEF Runs
<1> QED BY <1>2, <1>3, <1>4, <1>5 DEF StepsNext

(* ----------------------------- conversations --------------------------- *)

\* Every answer has a result for each of its calls, but for the last answer,
\* which is owed some.
Latest(talk, i) == \A k \in AnswersOf(talk) : k <= i
Served(talk, owed) ==
  \A i \in AnswersOf(talk) :
    Cardinality(ResultsOf(talk, i)) + (IF Latest(talk, i) THEN owed ELSE 0) = talk[i].calls

Owed(s) == IF s.pc = "call" THEN s.calls ELSE 0

TalksInv == \A r \in Goroutines : Served(step[r].said, Owed(step[r]))

LEMMA OneMessageMore ==
  ASSUME NEW talk \in Seq(Messages), NEW m \in Messages
  PROVE  /\ DOMAIN talk = 1..Len(talk) /\ Len(talk) \in Nat
         /\ DOMAIN Append(talk, m) = 1..(Len(talk) + 1)
         /\ \A i \in 1..Len(talk) : Append(talk, m)[i] = talk[i]
         /\ Append(talk, m)[Len(talk) + 1] = m
BY AppendProperties

LEMMA ResultsAreFinite ==
  ASSUME NEW talk \in Seq(Messages), NEW i \in AnswersOf(talk)
  PROVE  /\ IsFiniteSet(ResultsOf(talk, i))
         /\ Cardinality(ResultsOf(talk, i)) \in Nat
<1>1. ResultsOf(talk, i) \subseteq 1..Len(talk)
  BY DEF ResultsOf
<1>2. IsFiniteSet(1..Len(talk))
  BY FS_Interval
<1> QED BY <1>1, <1>2, FS_Subset, FS_CardinalityType

\* A result is one of the last answer's.
LEMMA ResultServes ==
  ASSUME NEW talk \in Seq(Messages), NEW owed \in Nat, owed > 0, Served(talk, owed)
  PROVE  Served(Append(talk, ToolResult), owed - 1)
<1> DEFINE n     == Len(talk)
           after == Append(talk, ToolResult)
<1>1. ToolResult \in Messages /\ ToolResult.role = "tool"
  BY DEF ToolResult, Messages
<1>2. /\ n \in Nat /\ DOMAIN talk = 1..n /\ DOMAIN after = 1..(n + 1)
      /\ \A i \in 1..n : after[i] = talk[i]
      /\ after[n + 1] = ToolResult
  BY <1>1, OneMessageMore
<1> HIDE DEF after, n
<1>3. AnswersOf(after) = AnswersOf(talk)
  <2>1. \A i \in 1..(n + 1) : i \in 1..n \/ i = n + 1
    BY <1>2
  <2>2. \A i \in 1..n : i \in 1..(n + 1)
    BY <1>2
  <2> QED BY <1>1, <1>2, <2>1, <2>2 DEF AnswersOf
<1>4. ASSUME NEW i \in AnswersOf(talk)
      PROVE  Cardinality(ResultsOf(after, i)) + (IF Latest(after, i) THEN owed - 1 ELSE 0) = after[i].calls
  <2>1. i \in 1..n /\ after[i] = talk[i] /\ (Latest(after, i) <=> Latest(talk, i))
    BY <1>2, <1>3 DEF AnswersOf, Latest
  <2>2. IsFiniteSet(ResultsOf(talk, i)) /\ Cardinality(ResultsOf(talk, i)) \in Nat
    BY ResultsAreFinite
  <2>3. talk[i].calls = Cardinality(ResultsOf(talk, i)) + (IF Latest(talk, i) THEN owed ELSE 0)
    BY DEF Served
  <2>4. CASE Latest(talk, i)
    <3>1. ResultsOf(talk, i) = (i + 1)..n
      BY <2>1, <2>4, <1>2 DEF ResultsOf, Latest, AnswersOf
    <3>2. ResultsOf(after, i) = (i + 1)..(n + 1)
      BY <2>1, <2>4, <1>2, <1>3 DEF ResultsOf, Latest, AnswersOf
    <3>3. ResultsOf(after, i) = ResultsOf(talk, i) \cup {n + 1} /\ n + 1 \notin ResultsOf(talk, i)
      BY <3>1, <3>2, <2>1, <1>2
    <3>4. Cardinality(ResultsOf(after, i)) = Cardinality(ResultsOf(talk, i)) + 1
      BY <2>2, <3>3, FS_AddElement
    <3> QED BY <2>1, <2>2, <2>3, <2>4, <3>4
  <2>5. CASE ~Latest(talk, i)
    <3>1. PICK k \in AnswersOf(talk) : k > i
      BY <2>1, <2>5, <1>2 DEF Latest, AnswersOf
    <3>2. k \in 1..n
      BY <1>2 DEF AnswersOf
    <3>3. \A j \in 1..(n + 1) : j < k => j \in 1..n
      BY <1>2, <3>2
    <3>4. ResultsOf(after, i) = ResultsOf(talk, i)
      BY <1>2, <1>3, <3>1, <3>2, <3>3 DEF ResultsOf
    <3> QED BY <2>1, <2>3, <2>5, <3>4
  <2> QED BY <2>4, <2>5
<1> QED BY <1>3, <1>4 DEF Served, after

\* An answer follows a conversation that is owed nothing, and is owed all.
LEMMA AnswerServes ==
  ASSUME NEW talk \in Seq(Messages), NEW c \in Nat, Served(talk, 0)
  PROVE  Served(Append(talk, [role |-> "assistant", calls |-> c]), c)
<1> DEFINE n     == Len(talk)
           m     == [role |-> "assistant", calls |-> c]
           after == Append(talk, m)
<1>1. m \in Messages /\ m.role = "assistant" /\ m.calls = c
  BY DEF Messages
<1> HIDE DEF m
<1>2. /\ n \in Nat /\ DOMAIN talk = 1..n /\ DOMAIN after = 1..(n + 1)
      /\ \A i \in 1..n : after[i] = talk[i]
      /\ after[n + 1] = m
  BY <1>1, OneMessageMore
<1> HIDE DEF after, n
<1>3. AnswersOf(after) = AnswersOf(talk) \cup {n + 1} /\ n + 1 \notin AnswersOf(talk)
  <2>1. \A i \in 1..(n + 1) : i \in 1..n \/ i = n + 1
    BY <1>2
  <2>2. \A i \in 1..n : i \in 1..(n + 1)
    BY <1>2
  <2>3. n + 1 \in 1..(n + 1) /\ n + 1 \notin 1..n
    BY <1>2
  <2> QED BY <1>1, <1>2, <2>1, <2>2, <2>3 DEF AnswersOf
<1>4. ASSUME NEW i \in AnswersOf(talk)
      PROVE  Cardinality(ResultsOf(after, i)) + (IF Latest(after, i) THEN c ELSE 0) = after[i].calls
  <2>1. i \in 1..n /\ after[i] = talk[i] /\ n + 1 > i
    BY <1>2 DEF AnswersOf
  <2>2. ~Latest(after, i)
    BY <1>3, <2>1, <1>2 DEF Latest
  <2>3. \A j \in 1..(n + 1) : j < n + 1 <=> j \in 1..n
    BY <1>2
  <2>4. ResultsOf(after, i) = ResultsOf(talk, i)
    <3>1. ASSUME NEW j \in ResultsOf(after, i)
          PROVE  j \in ResultsOf(talk, i)
      BY <1>2, <1>3, <2>1, <2>3 DEF ResultsOf
    <3>2. ASSUME NEW j \in ResultsOf(talk, i)
          PROVE  j \in ResultsOf(after, i)
      <4>1. j \in 1..n /\ j \in 1..(n + 1) /\ j > i /\ j < n + 1
        BY <1>2 DEF ResultsOf
      <4> QED BY <4>1, <1>2, <1>3 DEF ResultsOf
    <3> QED BY <3>1, <3>2
  <2>5. Cardinality(ResultsOf(talk, i)) \in Nat
    BY ResultsAreFinite
  <2>6. Cardinality(ResultsOf(talk, i)) = talk[i].calls
    BY <2>5 DEF Served
  <2> QED BY <2>1, <2>2, <2>4, <2>5, <2>6
<1>5. Cardinality(ResultsOf(after, n + 1)) + (IF Latest(after, n + 1) THEN c ELSE 0) = after[n + 1].calls
  <2>1. ResultsOf(after, n + 1) = {}
    BY <1>2 DEF ResultsOf
  <2>2. Latest(after, n + 1)
    BY <1>2, <1>3 DEF Latest, AnswersOf
  <2>3. Cardinality(ResultsOf(after, n + 1)) = 0
    BY <2>1, FS_EmptySet
  <2>4. after[n + 1].calls = c
    BY <1>1, <1>2
  <2> QED BY <2>2, <2>3, <2>4
<1>6. \A i \in AnswersOf(after) :
         Cardinality(ResultsOf(after, i)) + (IF Latest(after, i) THEN c ELSE 0) = after[i].calls
  BY <1>3, <1>4, <1>5
<1>7. Served(after, c)
  BY <1>6 DEF Served
<1> QED BY <1>7 DEF after, m

LEMMA TalksInitially == StepsInit => TalksInv
<1>1. Unused.said = <<>> /\ Unused.pc = "free"
  BY DEF Unused
<1>2. Served(<<>>, 0)
  BY DEF Served, AnswersOf
<1> HIDE DEF Unused
<1> QED BY <1>1, <1>2 DEF StepsInit, TalksInv, Owed

\* Every step keeps what the conversations are owed.
LEMMA TalksStep ==
  ASSUME Runs(job, step), TalksInv, [StepsNext]_stepVars
  PROVE  TalksInv'
<1> DEFINE Fine(s) == Served(s.said, Owed(s))
<1>1. step \in [Goroutines -> Steps] /\ \A g \in Goroutines : Fine(step[g])
  BY DEF Runs, TalksInv
<1>2. Unused.said = <<>> /\ Unused.pc = "free"
  BY DEF Unused
<1>3. Fine(Unused)
  BY <1>2 DEF Served, AnswersOf, Owed
<1>4. SUFFICES \A g \in Goroutines : Fine(step'[g])
  BY DEF TalksInv
\* One run becomes another of which this holds.
<1>5. ASSUME NEW steps, NEW r \in Goroutines, NEW s, Fine(s),
             steps \in [Goroutines -> Steps], \A g \in Goroutines : Fine(steps[g])
      PROVE  \A g \in Goroutines : Fine([steps EXCEPT ![r] = s][g])
  <2> HIDE DEF Fine
  <2> QED BY <1>5
<1>6. ASSUME NEW steps, NEW t \in TaskNumbers, \E g \in Goroutines : steps[g].pc = "free",
             steps \in [Goroutines -> Steps], \A g \in Goroutines : Fine(steps[g])
      PROVE  \A g \in Goroutines : Fine(Launched(steps, t)[g])
  <2> DEFINE s == [Unused EXCEPT !.pc = "begin", !.task = t]
  <2>1. PICK h \in Goroutines : Launched(steps, t) = [steps EXCEPT ![h] = s]
    BY <1>6, LaunchedOne
  <2>2. Unused.said = s.said /\ s.pc = "begin"
    BY UnusedType DEF Steps
  <2>3. Fine(s)
    BY <1>2, <2>2 DEF Served, AnswersOf, Owed
  <2> HIDE DEF s, Fine
  <2> QED BY <1>5, <1>6, <2>1, <2>3
<1> HIDE DEF Fine
<1>7. CASE UNCHANGED stepVars
  BY <1>1, <1>7 DEF stepVars
<1>8. CASE ClientCreates
  <2>1. 1 \in TaskNumbers /\ step' = Launched(step, 1) /\ FreeGoroutines # {}
    BY <1>8, OneIsATask DEF ClientCreates, Create
  <2> QED BY <1>1, <1>6, <2>1 DEF FreeGoroutines, AtStep
<1>9. ASSUME NEW r \in Goroutines, StepWork(r)
      PROVE  \A g \in Goroutines : Fine(step'[g])
  <2>1. step[r] \in Steps /\ Fine(step[r]) /\ step[r].said \in Seq(Messages)
    BY <1>1 DEF Steps
  <2>2. CASE BeginRun(r)
    <3> DEFINE s == [step[r] EXCEPT !.pc = "ask"]
    <3>1. s.pc = "ask" /\ s.said = step[r].said /\ step[r].pc = "begin" /\ step' = [step EXCEPT ![r] = s]
      BY <2>1, <2>2 DEF BeginRun, Goes, Steps, AtStep
    <3> HIDE DEF s
    <3>2. Fine(s)
      BY <2>1, <3>1 DEF Fine, Owed
    <3> QED BY <1>1, <1>5, <3>1, <3>2
  <2>3. CASE AskModel(r)
    <3>1. PICK s \in Steps :
            /\ step' = [step EXCEPT ![r] = s] /\ s.task = step[r].task
            /\ \/ s.pc \in {"failing", "done"} /\ s.said = step[r].said
               \/ s.pc = "call" /\ s.calls > 0 /\ s.said = Append(step[r].said, [role |-> "assistant", calls |-> s.calls])
      BY <1>1, <2>3, AskFacts
    <3>2. Served(step[r].said, 0)
      BY <2>1, <2>3 DEF AskModel, AtStep, Fine, Owed
    <3>3. Fine(s)
      <4>1. s.calls \in Nat
        BY DEF Steps
      <4>2. Served(Append(step[r].said, [role |-> "assistant", calls |-> s.calls]), s.calls)
        BY <2>1, <3>2, <4>1, AnswerServes
      <4>3. CASE s.pc = "call"
        BY <3>1, <4>2, <4>3 DEF Fine, Owed
      <4>4. CASE s.pc # "call"
        BY <3>1, <3>2, <4>4 DEF Fine, Owed
      <4> QED BY <4>3, <4>4
    <3> QED BY <1>1, <1>5, <3>1, <3>3
  <2>4. CASE Call(r)
    <3>1. AtStep(r, "call") /\ step[r].calls > 0 /\ step[r].calls \in Nat
      BY <2>1, <2>4 DEF Call, CallElsewhere, CallCreates, CallStarts, CallCancels, CallGivesAway, CallsTool, Runs, AtStep, Steps
    <3>2. ASSUME NEW fails \in BOOLEAN
          PROVE  /\ [step EXCEPT ![r] = AfterCall(r, fails)] \in [Goroutines -> Steps]
                 /\ \A g \in Goroutines : Fine([step EXCEPT ![r] = AfterCall(r, fails)][g])
      <4> DEFINE s == AfterCall(r, fails)
      <4>1. /\ s \in Steps
            /\ s.said = Append(step[r].said, ToolResult)
            /\ s.calls = step[r].calls - 1
            /\ IF step[r].calls = 1 THEN s.pc \in {"ask", "done"} ELSE s.pc = "call"
        BY <1>1, <3>1, AfterCallFacts
      <4> HIDE DEF s
      <4>2. Served(step[r].said, step[r].calls)
        BY <2>1, <3>1 DEF Fine, Owed, AtStep
      <4>3. Served(s.said, step[r].calls - 1)
        BY <2>1, <3>1, <4>1, <4>2, ResultServes
      <4>4. Owed(s) = step[r].calls - 1
        BY <3>1, <4>1 DEF Owed
      <4>5. Fine(s)
        BY <4>3, <4>4 DEF Fine
      <4>6. [step EXCEPT ![r] = s] \in [Goroutines -> Steps] /\ \A g \in Goroutines : Fine([step EXCEPT ![r] = s][g])
        BY <1>1, <1>5, <4>1, <4>5
      <4> QED BY <4>6 DEF s
    <3>3. ASSUME NEW u \in TaskNumbers, FreeGoroutines # {}
          PROVE  \A g \in Goroutines : Fine(Launched([step EXCEPT ![r] = AfterCall(r, FALSE)], u)[g])
      <4>1. PICK g \in Goroutines : step[g].pc = "free"
        BY <3>3 DEF FreeGoroutines, AtStep
      <4>2. g # r
        BY <3>1, <4>1 DEF AtStep
      <4>3. [step EXCEPT ![r] = AfterCall(r, FALSE)][g].pc = "free"
        BY <4>1, <4>2, <1>1
      <4> QED BY <3>2, <4>3, <1>6
    <3>4. CASE CallElsewhere(r)
      BY <3>4, <3>2 DEF CallElsewhere, Goes
    <3>5. CASE CallCreates(r)
      <4>1. PICK u \in TaskNumbers, execute \in BOOLEAN :
              /\ Create(u, execute)
              /\ step' = LET after == [step EXCEPT ![r] = AfterCall(r, FALSE)] IN IF execute THEN Launched(after, u) ELSE after
        BY <3>5 DEF CallCreates
      <4>2. CASE execute
        BY <4>1, <4>2, <3>3 DEF Create
      <4>3. CASE ~execute
        BY <4>1, <4>3, <3>2
      <4> QED BY <4>2, <4>3
    <3>6. CASE CallStarts(r)
      BY <3>6, <3>3 DEF CallStarts, Existing
    <3>7. CASE CallCancels(r) \/ CallGivesAway(r)
      <4>1. step' = [step EXCEPT ![r] = AfterCall(r, FALSE)]
        BY <3>7 DEF CallCancels, CallGivesAway, Goes
      <4> QED BY <3>2, <4>1
    <3> QED BY <2>4, <3>4, <3>5, <3>6, <3>7 DEF Call
  <2>5. CASE CompleteRun(r) \/ FailRun(r)
    <3>1. step' = [step EXCEPT ![r] = Unused]
      BY <2>5 DEF CompleteRun, FailRun, Goes
    <3> QED BY <1>1, <1>3, <1>5, <3>1
  <2> QED BY <1>9, <2>2, <2>3, <2>4, <2>5 DEF StepWork
<1> QED BY <1>7, <1>8, <1>9 DEF StepsNext

\* A tool that a model is told of has a handler, and the other way round.
LEMMA ToolsAreHandled == {t.name : t \in AllTools} = Handled
<1> DEFINE Names(tools) == {t.name : t \in tools}
<1>1. Names(AllTools) = Names(TaskTools) \cup Names(TemplateTools) \cup Names(AgentTools) \cup Names(SwarmTools) \cup Names(StealTools)
  BY DEF AllTools
<1>2. Names(TaskTools) = {"create_task", "init_swarm", "run_workflow_template", "get_workflow_state",
                          "get_workflow_metrics", "get_workflow_debug_info"}
  BY DEF TaskTools, Tool
<1>3. Names(TemplateTools) = {"get_workflow_template", "save_workflow_template", "delete_workflow_template",
                              "list_workflow_templates", "list_tasks", "assign_task", "start_task", "cancel_task", "get_task"}
  BY DEF TemplateTools, Tool
<1>4. Names(AgentTools) = {"list_agents", "spawn_agent", "stop_agent", "list_swarms", "propose_consensus",
                           "delegate_task", "start_swarm", "stop_swarm", "refine_task"}
  BY DEF AgentTools, Tool
<1>5. Names(SwarmTools) = {"resume_session", "fork_session", "get_swarm_status", "scale_swarm", "coordinate_swarm",
                           "rebalance_swarm", "get_swarm_load", "detect_swarm_imbalance", "preview_rebalance",
                           "list_stealable_tasks"}
  BY DEF SwarmTools, Tool
<1>6. Names(StealTools) = {"steal_task", "contest_task_steal", "resolve_task_contest", "detect_stale_tasks",
                           "get_agent_status", "search_memory", "get_session_history"}
  BY DEF StealTools, Tool
<1> HIDE DEF Names
<1>7. Names(AllTools) = Handled
  BY <1>1, <1>2, <1>3, <1>4, <1>5, <1>6 DEF Handled, Creates, OfTask, GivesAway, OfSwarm, Views, Reads, OfTemplates
<1> QED BY <1>7 DEF Names

(* ---------------------------------- results ---------------------------- *)

\* The invariants hold always; each theorem below takes what it names.
LEMMA InvariantsHold == StepsSpec => [](Runs(job, step) /\ TalksInv)
<1>1. StepsInit => Runs(job, step) /\ TalksInv
  BY RunsInitially, TalksInitially
<1>2. Runs(job, step) /\ TalksInv /\ [StepsNext]_stepVars => (Runs(job, step) /\ TalksInv)'
  BY RunsStep, TalksStep
<1> QED BY <1>1, <1>2, PTL DEF StepsSpec

\* Jobs and runs have their types: markTaskRunning, cancelling, giving away
\* and finishing leave a task in one of its statuses, whoever calls them.
THEOREM StepsTypeCorrect == StepsSpec => []StepsTypeOK
<1>1. Runs(job, step) => StepsTypeOK
  BY RunsTypes
<1> QED BY <1>1, InvariantsHold, PTL

\* A task that says that it runs is run by a goroutine, however its status is
\* changed by the tools that steps of other tasks, or its own, call.
THEOREM TasksAreNotForgotten == StepsSpec => []NoneForgotten
<1>1. Runs(job, step) => NoneForgotten
  BY RunsForgetNone
<1> QED BY <1>1, InvariantsHold, PTL

\* A model that is asked again has a result for every call of every answer it
\* gave, in the place where they belong; every tool it knows has a handler.
THEOREM CallsAreServed == StepsSpec => []CallsServed
<1>1. Runs(job, step) /\ TalksInv => CallsServed
  <2> SUFFICES ASSUME Runs(job, step), TalksInv, NEW r \in Goroutines, AtStep(r, "ask"),
                      NEW i \in AnswersOf(step[r].said)
               PROVE  Cardinality(ResultsOf(step[r].said, i)) = step[r].said[i].calls
    BY ToolsAreHandled DEF CallsServed
  <2>1. Served(step[r].said, 0)
    BY DEF TalksInv, Owed, AtStep
  <2>2. step[r].said \in Seq(Messages)
    BY DEF Runs, Steps
  <2>3. Cardinality(ResultsOf(step[r].said, i)) \in Nat
    BY <2>2, ResultsAreFinite
  <2> QED BY <2>1, <2>3 DEF Served
<1> QED BY <1>1, InvariantsHold, PTL

(***************************************************************************)
(* Requests and the credentials they are tried with.                       *)
(***************************************************************************)

(* ------------------------ credentials in turn -------------------------- *)

\* The names of the providers and the kinds of their credentials.
Names == ToSet(Upstreams)
Kinds == {"key", "oauth"}
Requests == [pc : {"resting", "routing", "sending", "calling"}, tools : BOOLEAN, untried : Seq(Names),
             at : Names \cup {"none"}, keys : Seq(Kinds), resent : Nat]

\* The credentials of a provider are tried in another order, each of them.
LEMMA KeyOrderKeepsAll ==
  ASSUME NEW p \in Names
  PROVE  KeyOrder(p) \in Seq(Kinds) /\ ToSet(KeyOrder(p)) = ToSet(KeysOf[p])
<1> DEFINE keys == KeysOf[p]
           oauth == {i \in DOMAIN keys : keys[i] = "oauth"}
           others == {i \in DOMAIN keys : keys[i] # "oauth"}
<1>1. keys \in Seq(Kinds)
  BY ToolTurnsAssumption DEF Names, Kinds
<1> HIDE DEF keys
<1>2. /\ ElementsAt(keys, oauth) \in Seq(Kinds) /\ ElementsAt(keys, others) \in Seq(Kinds)
      /\ ToSet(ElementsAt(keys, oauth)) = {keys[i] : i \in oauth \cap DOMAIN keys}
      /\ ToSet(ElementsAt(keys, others)) = {keys[i] : i \in others \cap DOMAIN keys}
  <2> HIDE DEF oauth, others
  <2> QED BY <1>1, ElementsAtPlaces
<1> DEFINE first == ElementsAt(keys, oauth)
           second == ElementsAt(keys, others)
<1>3. ToSet(first) \cup ToSet(second) = ToSet(keys)
  BY <1>2 DEF ToSet
<1>4. KeyOrder(p) = first \o second \/ KeyOrder(p) = keys
  BY DEF KeyOrder, Those, keys
<1>5. first \in Seq(Kinds) /\ second \in Seq(Kinds)
  BY <1>2
<1> HIDE DEF first, second
<1>6. first \o second \in Seq(Kinds) /\ ToSet(first \o second) = ToSet(first) \cup ToSet(second)
  BY ONLY <1>5, JoinedElements, Zenon
<1> QED BY <1>1, <1>3, <1>4, <1>6 DEF keys

\* While a request is under way each provider is still to come, was tried
\* with each of its credentials, or is being tried: with those that are left.
AllOf(p) == {p} \X ToSet(KeysOf[p])
TriedOrToCome(q, tried) ==
    q.pc \in {"routing", "sending"} => \A p \in Names :
       \/ p \in ToSet(q.untried)
       \/ AllOf(p) \subseteq tried
       \/ /\ q.pc = "sending" /\ p = q.at
          /\ \A k \in ToSet(KeysOf[p]) : <<p, k>> \in tried \/ k \in ToSet(q.keys)
TurnsInv ==
    /\ request \in Requests
    /\ request.pc = "sending" => request.at \in Names
    /\ TriedOrToCome(request, used)

LEMMA RestingType == Resting \in Requests /\ Resting.pc = "resting" /\ Upstreams \in Seq(Names)
<1>1. <<>> \in Seq(Names) /\ <<>> \in Seq(Kinds)
  OBVIOUS
<1> QED BY <1>1, ToolTurnsAssumption DEF Resting, Requests, Names

\* A request that begins anew has all providers to come.
LEMMA Begins ==
  ASSUME NEW q \in Requests, q.pc = "routing", q.untried = Upstreams, request' = q
  PROVE  TurnsInv'
BY DEF TurnsInv, TriedOrToCome, Names

\* After the credential at the front the others are left.
LEMMA NextKeyKept ==
  ASSUME TurnsInv, Sending, Use, NextKey
  PROVE  TurnsInv'
<1> DEFINE q == request
           new == [q EXCEPT !.keys = Tail(q.keys), !.resent = 0]
<1>1. q \in Requests /\ q.keys \in Seq(Kinds) /\ q.keys # <<>> /\ q.pc = "sending" /\ q.at \in Names
      /\ request' = new /\ used' = used \cup {<<q.at, Head(q.keys)>>} /\ TriedOrToCome(q, used)
  BY DEF TurnsInv, Sending, Use, NextKey, Requests
<1> HIDE DEF q
<1>2. Tail(q.keys) \in Seq(Kinds) /\ ToSet(q.keys) = {Head(q.keys)} \cup ToSet(Tail(q.keys))
  BY <1>1, HeadAndTail
<1>3. new \in Requests /\ new.pc = q.pc /\ new.at = q.at /\ new.untried = q.untried /\ new.keys = Tail(q.keys)
  BY <1>1, <1>2 DEF Requests
<1> HIDE DEF new
<1>4. TriedOrToCome(new, used')
  <2> SUFFICES ASSUME NEW p \in Names
               PROVE  \/ p \in ToSet(q.untried)
                      \/ AllOf(p) \subseteq used'
                      \/ /\ p = q.at
                         /\ \A k \in ToSet(KeysOf[p]) : <<p, k>> \in used' \/ k \in ToSet(Tail(q.keys))
    BY <1>1, <1>3 DEF TriedOrToCome
  <2> QED BY <1>1, <1>2 DEF TriedOrToCome
<1> QED BY <1>1, <1>3, <1>4 DEF TurnsInv

\* A request with the pc it has, or at rest, and with more tried.
LEMMA AtRest ==
  ASSUME request' \in Requests, request'.pc \in {"resting", "calling"}
  PROVE  TurnsInv'
BY DEF TurnsInv, TriedOrToCome

LEMMA TurnsStep ==
  ASSUME TurnsInv, [TurnsNext]_turnVars
  PROVE  TurnsInv'
<1> DEFINE q == request
<1>0. q \in Requests /\ TriedOrToCome(q, used) /\ (q.pc = "sending" => q.at \in Names)
  BY DEF TurnsInv
<1>1. CASE Question
  <2>1. PICK tools \in BOOLEAN : request' = [Resting EXCEPT !.pc = "routing", !.tools = tools, !.untried = Upstreams]
    BY <1>1 DEF Question
  <2> DEFINE new == [Resting EXCEPT !.pc = "routing", !.tools = tools, !.untried = Upstreams]
  <2>2. new \in Requests /\ new.pc = "routing" /\ new.untried = Upstreams
    BY RestingType DEF Requests
  <2> HIDE DEF new
  <2> QED BY <2>1, <2>2, Begins DEF new
<1>2. CASE CallFunctions
  <2> DEFINE new == [q EXCEPT !.pc = "routing", !.untried = Upstreams]
  <2>1. request' = new
    BY <1>2 DEF CallFunctions
  <2> HIDE DEF q
  <2>2. new \in Requests /\ new.pc = "routing" /\ new.untried = Upstreams
    BY <1>0, RestingType DEF Requests
  <2> HIDE DEF new
  <2> QED BY <2>1, <2>2, Begins
<1>3. CASE TryUpstream
  <2> DEFINE p == Head(q.untried)
             keys == KeyOrder(p)
             new == [q EXCEPT !.pc = "sending", !.untried = Tail(q.untried), !.at = p, !.keys = keys]
  <2>1. q.pc = "routing" /\ q.untried # <<>> /\ request' = new /\ used' = used /\ q.untried \in Seq(Names)
    BY <1>0, <1>3 DEF TryUpstream, Requests
  <2> HIDE DEF q
  <2>2. p \in Names /\ Tail(q.untried) \in Seq(Names) /\ ToSet(q.untried) = {p} \cup ToSet(Tail(q.untried))
    BY <2>1, HeadAndTail
  <2> HIDE DEF p
  <2>3. keys \in Seq(Kinds) /\ ToSet(keys) = ToSet(KeysOf[p])
    BY <2>2, KeyOrderKeepsAll
  <2> HIDE DEF keys
  <2>4. /\ new \in Requests /\ new.pc = "sending" /\ new.at = p /\ new.keys = keys
        /\ new.untried = Tail(q.untried)
    BY <1>0, <2>2, <2>3 DEF Requests
  <2> HIDE DEF new
  <2>5. TriedOrToCome(new, used)
    BY <1>0, <2>1, <2>2, <2>3, <2>4 DEF TriedOrToCome
  <2> QED BY <2>1, <2>2, <2>4, <2>5 DEF TurnsInv
<1>4. CASE UpstreamFailed
  <2> DEFINE new == [q EXCEPT !.pc = "routing", !.at = "none"]
  <2>1. q.pc = "sending" /\ q.keys = <<>> /\ request' = new /\ used' = used
    BY <1>4 DEF UpstreamFailed
  <2> HIDE DEF q
  <2>2. new \in Requests /\ new.pc = "routing" /\ new.untried = q.untried
    BY <1>0 DEF Requests
  <2> HIDE DEF new
  <2>3. ToSet(q.keys) = {}
    BY <2>1 DEF ToSet
  <2>4. TriedOrToCome(new, used)
    BY <1>0, <2>1, <2>2, <2>3 DEF TriedOrToCome, AllOf
  <2> QED BY <2>1, <2>2, <2>4 DEF TurnsInv
<1>5. CASE Unanswered
  <2>1. request' = [q EXCEPT !.pc = "resting"]
    BY <1>5 DEF Unanswered
  <2> HIDE DEF q
  <2> QED BY <1>0, <2>1, AtRest DEF Requests
<1>6. CASE NotSent \/ SentInVain
  BY <1>6, NextKeyKept DEF NotSent, SentInVain, Sendable
<1>7. CASE SendAgain
  <2> DEFINE new == [q EXCEPT !.resent = q.resent + 1]
  <2>1. q.pc = "sending" /\ request' = new /\ used \subseteq used'
    BY <1>7 DEF SendAgain, Sendable, Sending, Use
  <2> HIDE DEF q
  <2>2. new \in Requests /\ new.pc = q.pc /\ new.at = q.at /\ new.untried = q.untried /\ new.keys = q.keys
    BY <1>0 DEF Requests
  <2> HIDE DEF new
  <2>3. TriedOrToCome(new, used')
    BY <1>0, <2>1, <2>2 DEF TriedOrToCome
  <2> QED BY <1>0, <2>1, <2>2, <2>3 DEF TurnsInv
<1>8. CASE Answered
  <2>1. \/ Sending /\ Use /\ NextKey
        \/ \E fns : request' = [Resting EXCEPT !.pc = IF fns = <<>> THEN "resting" ELSE "calling",
                                               !.tools = q.tools]
    <3>1. Sending /\ Use
      BY <1>8 DEF Answered, Sendable
    <3> DEFINE Read(speaks, fns, inLast) ==
                 IF NextForm = "cli" THEN CollectChunks(speaks, fns, inLast) ELSE [speaks |-> speaks, fns |-> fns]
    <3>2. \E answer :
            IF NextForm = "cli" /\ ~answer.speaks /\ answer.fns = <<>> THEN NextKey /\ UNCHANGED said
            ELSE /\ said' = Append(said, Replied(NextForm, answer.speaks, answer.fns))
                 /\ request' = [Resting EXCEPT !.pc = IF answer.fns = <<>> THEN "resting" ELSE "calling",
                                               !.tools = request.tools]
      <4>1. PICK speaks \in BOOLEAN, n \in 0..MaxCalls :
              \E fns \in [1..n -> Tools], inLast \in 0..n :
                LET answer == Read(speaks, fns, inLast)
                IN /\ fns # <<>> => Declared(NextForm) /\ Len(said) < MaxSaid
                   /\ NextForm # "cli" => inLast = 0
                   /\ IF NextForm = "cli" /\ ~answer.speaks /\ answer.fns = <<>>
                      THEN NextKey /\ UNCHANGED said
                      ELSE /\ said' = Append(said, Replied(NextForm, answer.speaks, answer.fns))
                           /\ request' = [Resting EXCEPT !.pc = IF answer.fns = <<>> THEN "resting" ELSE "calling",
                                                         !.tools = request.tools]
        BY <1>8 DEF Answered
      <4> HIDE DEF Read
      <4> QED BY <4>1
    <3>3. (Sending /\ Use /\ NextKey)
          \/ \E answer : request' = [Resting EXCEPT !.pc = IF answer.fns = <<>> THEN "resting" ELSE "calling",
                                                  !.tools = request.tools]
      BY <3>1, <3>2, Zenon
    <3> QED BY <3>3, Zenon
  <2>2. ASSUME NEW stage \in {"resting", "calling"}, request' = [Resting EXCEPT !.pc = stage, !.tools = q.tools]
        PROVE  TurnsInv'
    <3> DEFINE new == [Resting EXCEPT !.pc = stage, !.tools = q.tools]
    <3> HIDE DEF q
    <3>1. new \in Requests /\ new.pc = stage
      BY <1>0, RestingType DEF Requests
    <3> HIDE DEF new
    <3> QED BY <2>2, <3>1, AtRest DEF new
  <2>3. CASE \E fns : request' = [Resting EXCEPT !.pc = IF fns = <<>> THEN "resting" ELSE "calling",
                                               !.tools = q.tools]
    <3>1. \E stage \in {"resting", "calling"} : request' = [Resting EXCEPT !.pc = stage, !.tools = q.tools]
      BY <2>3
    <3> QED BY <2>2, <3>1
  <2> QED BY <2>1, <2>3, NextKeyKept
<1>9. CASE Leaves \/ UNCHANGED turnVars
  BY <1>9 DEF Leaves, turnVars, TurnsInv, TriedOrToCome
<1> QED BY <1>1, <1>2, <1>3, <1>4, <1>5, <1>6, <1>7, <1>8, <1>9 DEF TurnsNext

\* A request is given up only after every credential of every provider was
\* tried, for any chain of providers and any credentials (chatInternal of
\* providers.go and the chain of router.go).
THEOREM AllKeysAreTried == TurnsSpec => EveryKeyTried
<1> DEFINE Tried == Unanswered => \A p \in ToSet(Upstreams) : {p} \X ToSet(KeysOf[p]) \subseteq used
<1>1. TurnsInit => TurnsInv
  BY RestingType, AtRest DEF TurnsInit, TurnsInv, TriedOrToCome
<1>2. TurnsInv /\ [TurnsNext]_turnVars => TurnsInv'
  BY TurnsStep
<1>3. TurnsInv => Tried
  <2> SUFFICES ASSUME TurnsInv, Unanswered, NEW p \in Names
               PROVE  AllOf(p) \subseteq used
    BY DEF Names, AllOf
  <2>1. request.pc = "routing" /\ ToSet(request.untried) = {}
    BY DEF Unanswered, ToSet
  <2> QED BY <2>1 DEF TurnsInv, TriedOrToCome
<1>4. TurnsInv /\ [TurnsNext]_turnVars => [Tried]_turnVars
  BY <1>3
<1> HIDE DEF Tried
<1>5. TurnsSpec => [][Tried]_turnVars
  BY <1>1, <1>2, <1>4, PTL DEF TurnsSpec
<1> QED BY <1>5 DEF Tried, EveryKeyTried

(***************************************************************************)
(* Evaluations.                                                            *)
(***************************************************************************)

(* ------------------------------ invariants ----------------------------- *)

Codes == Answers \cup {NoCode}
Outcomes == [pass1 : BOOLEAN, pass2 : BOOLEAN, code : Codes, code2 : Codes, failed : BOOLEAN]

\* A worker, whatever is left for it to climb.
Places == {"left", "queued", "ask", "retry", "test", "fix", "review", "store", "stored"}
Shaped(w) == w \in [pc : Places, turn : Nat, code : Codes, climbed : BOOLEAN, todo : {w.todo},
                    proved : SUBSET Codes, res : Outcomes]

\* The code that a result stands for.
Claimed(res) == IF res.pass2 \/ res.code2 # NoCode THEN res.code2 ELSE res.code
Sound(res, proved) == res.pass1 \/ res.pass2 => Claimed(res) \in proved

\* How far the result of an exercise with tests has come.  An agent's current
\* code is the one its result stands for: the first before any repair, the
\* second after.
Current(w) == IF w.turn = 0 THEN w.res.code = w.code /\ w.res.code2 = NoCode ELSE w.res.code2 = w.code
Tries(w) ==
  /\ w.pc \in {"left", "queued", "ask"} => w.turn = 0 /\ w.res = NoResult
  /\ w.pc \in {"test", "fix"} => ~w.res.pass1 /\ ~w.res.pass2 /\ Current(w)
  /\ w.pc = "retry" => ~w.res.pass1 /\ ~w.res.pass2
  /\ w.pc = "review" => w.code \in w.proved /\ (w.res.pass2 <=> w.turn > 0) /\ Current(w)
  /\ w.pc \in {"store", "stored"} => Sound(w.res, w.proved)

WorkerOK(e, w) == Shaped(w) /\ (ModeOf(e.suite) = "docker-test" => Tries(w))
WorkersOK == \A e \in DOMAIN worker : WorkerOK(e, worker[e])

\* Results are those of the exercises that are stored, one of each.
Stored == {e \in DOMAIN worker : worker[e].pc = "stored"}
Recorded ==
  /\ {r.exercise : r \in results} = Stored
  /\ \A r \in results : ModeOf(r.exercise.suite) = "docker-test" => Sound(r.res, r.proved)
  /\ IsFiniteSet(Stored) /\ IsFiniteSet(results) /\ Cardinality(results) = Cardinality(Stored)

\* A run is summed up when all is stored, and completed after that.
RunShaped ==
  run \in [phase : {"idle", "spawn", "drain", "summed", "ended"}, agent : BOOLEAN, twoPass : BOOLEAN,
           provider : {run.provider}, slots : {1, 2}, byHandler : BOOLEAN, expired : BOOLEAN]
Phased ==
  /\ RunShaped
  /\ run.phase = "idle" => worker = <<>> /\ row = "none"
  /\ run.phase = "summed" \/ row = "completed" => Stored = DOMAIN worker /\ summary = Summarized
  /\ row = "completed" => run.phase = "ended"

EvalsInv == WorkersOK /\ Recorded /\ Phased

(* -------------------------------- workers ------------------------------ *)

LEMMA NewWorkerOK ==
  ASSUME NEW e
  PROVE  WorkerOK(e, NewWorker)
BY DEF NewWorker, NoResult, WorkerOK, Shaped, Places, Tries, Codes, Outcomes

\* A worker that goes on to another worker of its exercise, other than by
\* being stored, leaves what is recorded.
LEMMA WorkerChanges ==
  ASSUME EvalsInv, NEW e \in DOMAIN worker, worker[e].pc # "stored",
         NEW w, WorkerOK(e, w), w.pc # "stored", Becomes(e, w)
  PROVE  EvalsInv'
<1>1. DOMAIN worker' = DOMAIN worker /\ \A d \in DOMAIN worker : worker'[d] = IF d = e THEN w ELSE worker[d]
  BY DEF Becomes
<1>2. UNCHANGED <<run, row, results, summary>>
  BY DEF Becomes
<1>3. Stored' = Stored
  BY <1>1 DEF Stored
<1>4. WorkersOK'
  BY <1>1 DEF EvalsInv, WorkersOK
<1>5. Recorded'
  BY <1>2, <1>3 DEF EvalsInv, Recorded
<1>6. run.phase # "idle"
  BY DEF EvalsInv, Phased
<1>7. Summarized' = Summarized
  BY <1>2 DEF Summarized
<1>9. RunShaped'
  BY <1>2 DEF EvalsInv, Phased, RunShaped
<1>8. Phased'
  BY <1>1, <1>2, <1>3, <1>6, <1>7, <1>9 DEF EvalsInv, Phased
<1> QED BY <1>4, <1>5, <1>8 DEF EvalsInv

LEMMA WorkerIs ==
  ASSUME EvalsInv, NEW e, NEW pc, At(e, pc)
  PROVE  e \in DOMAIN worker /\ worker[e].pc = pc /\ WorkerOK(e, worker[e])
BY DEF EvalsInv, WorkersOK, At

LEMMA OutcomeFields ==
  ASSUME NEW res \in Outcomes
  PROVE  /\ res.pass1 \in BOOLEAN /\ res.pass2 \in BOOLEAN /\ res.code \in Codes /\ res.code2 \in Codes
         /\ [res EXCEPT !.failed = TRUE] \in Outcomes
BY DEF Outcomes

LEMMA FailsOK ==
  ASSUME NEW e, NEW w, WorkerOK(e, w), w.pc \in {"ask", "fix"}
  PROVE  WorkerOK(e, Fails(w)) /\ Fails(w).pc = "store"
<1> DEFINE v == Fails(w)
           res == [w.res EXCEPT !.failed = TRUE]
<1>1. w.res \in Outcomes /\ Shaped(w)
  BY DEF WorkerOK, Shaped
<1>2. v = [w EXCEPT !.pc = "store", !.res = res]
  BY DEF Fails
<1>3. res \in Outcomes /\ res.pass1 = w.res.pass1 /\ res.pass2 = w.res.pass2
  BY <1>1, OutcomeFields DEF Outcomes
<1> HIDE DEF v, res
<1>4. Shaped(v)
  BY <1>1, <1>2, <1>3 DEF Shaped, Places
<1>7. v.pc = "store" /\ v.turn = w.turn /\ v.code = w.code /\ v.proved = w.proved /\ v.res = res
  BY <1>1, <1>2 DEF Shaped, Places
<1>5. ModeOf(e.suite) = "docker-test" => Tries(v)
  <2> SUFFICES ASSUME ModeOf(e.suite) = "docker-test"
               PROVE  Tries(v)
    OBVIOUS
  <2>1. Tries(w)
    BY DEF WorkerOK
  <2>2. ~w.res.pass1 /\ ~w.res.pass2
    BY <2>1 DEF Tries, NoResult
  <2> QED BY <1>7, <1>3, <2>2 DEF Tries, Sound
<1> QED BY <1>7, <1>4, <1>5 DEF WorkerOK, v

LEMMA Proceeds ==
  ASSUME EvalsInv, NEW e, NEW pc, At(e, pc), pc # "stored", NEW v, Shaped(v), v.pc # "stored",
         ModeOf(e.suite) = "docker-test" => Tries(v), Becomes(e, v)
  PROVE  EvalsInv'
<1>1. e \in DOMAIN worker /\ worker[e].pc # "stored"
  BY WorkerIs
<1>2. WorkerOK(e, v)
  BY DEF WorkerOK
<1> QED BY <1>1, <1>2, WorkerChanges

LEMMA Failing ==
  ASSUME EvalsInv, NEW e, NEW pc \in {"ask", "fix"}, At(e, pc), Becomes(e, Fails(worker[e]))
  PROVE  EvalsInv'
<1>1. worker[e].pc = pc /\ WorkerOK(e, worker[e])
  BY WorkerIs
<1>2. WorkerOK(e, Fails(worker[e])) /\ Fails(worker[e]).pc = "store"
  BY <1>1, FailsOK
<1>3. Shaped(Fails(worker[e])) /\ (ModeOf(e.suite) = "docker-test" => Tries(Fails(worker[e])))
  BY <1>2 DEF WorkerOK
<1> QED BY <1>2, <1>3, Proceeds

LEMMA AnswerIsCode ==
  ASSUME NEW c \in Answers \cup {NoCode}
  PROVE  c \in Codes
BY DEF Codes

LEMMA ScoresOf ==
  ASSUME NEW e, NEW scored \in Scores(e)
  PROVE  scored \in BOOLEAN /\ (ModeOf(e.suite) = "docker-test" => scored = FALSE)
BY DEF Scores

LEMMA AttemptKeeps ==
  ASSUME EvalsInv, NEW e, Attempt(e)
  PROVE  EvalsInv'
<1> DEFINE Attempted(c, verdict, scored, todo) ==
             [worker[e] EXCEPT !.pc = IF todo = <<>> THEN "store" ELSE "retry", !.todo = todo,
                               !.proved = Proved(worker[e], c, verdict), !.res.code = c,
                               !.res.pass1 = (verdict = "passed" \/ scored)]
<1>1. CASE Becomes(e, Fails(worker[e]))
  BY <1>1, Failing DEF Attempt
<1>2. ASSUME NEW c \in Answers \cup {NoCode}, NEW verdict \in Verdicts, NEW scored \in Scores(e), NEW todo,
             (verdict = "passed" \/ scored) => todo = <<>>, Becomes(e, Attempted(c, verdict, scored, todo))
      PROVE  EvalsInv'
  <2> DEFINE w == worker[e]
             passed == verdict = "passed" \/ scored
             pc == IF todo = <<>> THEN "store" ELSE "retry"
             proved == Proved(w, c, verdict)
             res == [w.res EXCEPT !.code = c, !.pass1 = passed]
             v == [w EXCEPT !.pc = pc, !.todo = todo, !.proved = proved, !.res = res]
  <2>1. Becomes(e, v)
    BY <1>2
  <2>2. w.pc = "ask" /\ WorkerOK(e, w) /\ Shaped(w) /\ c \in Codes
    BY WorkerIs, AnswerIsCode DEF Attempt, WorkerOK
  <2>3. passed \in BOOLEAN /\ pc \in {"store", "retry"} /\ (passed => pc = "store")
    BY <1>2, ScoresOf
  <2>4. res \in Outcomes /\ res.code = c /\ res.pass1 = passed /\ res.pass2 = w.res.pass2 /\ res.code2 = w.res.code2
    BY <2>2, <2>3 DEF Shaped, Outcomes
  <2>5. proved \in SUBSET Codes /\ (verdict = "passed" => c \in proved)
    BY <2>2 DEF Shaped, Proved
  <2>6. Shaped(v) /\ v.pc = pc /\ v.res = res /\ v.proved = proved /\ v.turn = w.turn
    <3> HIDE DEF passed, pc, proved, res
    <3> QED BY <2>2, <2>3, <2>4, <2>5 DEF Shaped, Places
  <2>7. ASSUME ModeOf(e.suite) = "docker-test"
        PROVE  Tries(v)
    <3>1. w.res = NoResult
      BY <2>2, <2>7 DEF WorkerOK, Tries
    <3>2. passed => c \in proved
      BY <2>5, <2>7, ScoresOf
    <3>3. ~res.pass2 /\ res.code2 = NoCode
      BY <2>4, <3>1 DEF NoResult
    <3> HIDE DEF v, passed, pc, proved, res
    <3> QED BY <2>3, <2>4, <2>6, <3>2, <3>3 DEF Tries, Sound, Claimed
  <2> HIDE DEF v, passed, pc, proved, res
  <2>8. v.pc # "stored"
    BY <2>3, <2>6
  <2> QED BY <2>1, <2>6, <2>7, <2>8, Proceeds DEF Attempt
<1>3. CASE ~Becomes(e, Fails(worker[e]))
  <2>1. PICK p \in Answerers(run.provider), c \in Answers \cup {NoCode}, verdict \in Verdicts, scored \in Scores(e) :
          LET passed == verdict = "passed" \/ scored
              todo == IF run.twoPass /\ ~passed /\ verdict # "broken" THEN Climb(p) ELSE <<>>
          IN Becomes(e, [worker[e] EXCEPT !.pc = IF todo = <<>> THEN "store" ELSE "retry", !.todo = todo,
                                          !.proved = Proved(worker[e], c, verdict), !.res.code = c, !.res.pass1 = passed])
    BY <1>3 DEF Attempt
  <2> DEFINE todo == IF run.twoPass /\ ~(verdict = "passed" \/ scored) /\ verdict # "broken" THEN Climb(p) ELSE <<>>
  <2>2. (verdict = "passed" \/ scored) => todo = <<>>
    OBVIOUS
  <2>3. Becomes(e, Attempted(c, verdict, scored, todo))
    BY <2>1
  <2> HIDE DEF todo, Attempted
  <2> QED BY <2>2, <2>3, <1>2
<1> QED BY <1>1, <1>3

LEMMA RetryKeeps ==
  ASSUME EvalsInv, NEW e, Retry(e)
  PROVE  EvalsInv'
<1> DEFINE w == worker[e]
           rest == Tail(w.todo)
           pc == IF rest = <<>> THEN "store" ELSE "retry"
           onward == [w EXCEPT !.todo = rest, !.pc = pc]
<1>1. w.pc = "retry" /\ WorkerOK(e, w) /\ Shaped(w)
  BY WorkerIs DEF Retry, WorkerOK
<1>2. CASE Becomes(e, onward)
  <2>1. pc \in {"store", "retry"}
    OBVIOUS
  <2>2. Shaped(onward) /\ onward.pc = pc /\ onward.res = w.res
    <3> HIDE DEF pc, rest
    <3> QED BY <1>1, <2>1 DEF Shaped, Places
  <2> HIDE DEF pc, rest, onward
  <2>3. ModeOf(e.suite) = "docker-test" => Tries(onward)
    BY <1>1, <2>1, <2>2 DEF WorkerOK, Tries, Sound
  <2>4. onward.pc # "stored"
    BY <2>1, <2>2
  <2> QED BY <1>2, <2>2, <2>3, <2>4, Proceeds DEF Retry
<1>3. ASSUME NEW c \in Answers \cup {NoCode},
             Becomes(e, [w EXCEPT !.pc = "store", !.todo = <<>>, !.proved = @ \cup {c},
                                  !.res.pass2 = TRUE, !.res.code2 = c])
      PROVE  EvalsInv'
  <2> DEFINE res == [w.res EXCEPT !.pass2 = TRUE, !.code2 = c]
             proved == w.proved \cup {c}
             v == [w EXCEPT !.pc = "store", !.todo = <<>>, !.proved = proved, !.res = res]
  <2>1. Becomes(e, v)
    BY <1>3
  <2>2. c \in Codes /\ proved \in SUBSET Codes /\ c \in proved
    BY <1>1, AnswerIsCode DEF Shaped
  <2>3. res \in Outcomes /\ res.pass2 = TRUE /\ res.code2 = c
    BY <1>1, <2>2 DEF Shaped, Outcomes
  <2>4. Shaped(v) /\ v.pc = "store" /\ v.res = res /\ v.proved = proved
    <3> HIDE DEF res, proved
    <3> QED BY <1>1, <2>2, <2>3 DEF Shaped, Places
  <2> HIDE DEF v, res, proved
  <2>5. Tries(v)
    BY <2>2, <2>3, <2>4 DEF Tries, Sound, Claimed
  <2>6. v.pc # "stored"
    BY <2>4
  <2> QED BY <2>1, <2>4, <2>5, <2>6, Proceeds DEF Retry
<1>4. ASSUME NEW scored \in Scores(e), scored,
             Becomes(e, [w EXCEPT !.pc = "store", !.todo = <<>>, !.res.pass2 = TRUE])
      PROVE  EvalsInv'
  <2> DEFINE res == [w.res EXCEPT !.pass2 = TRUE]
             v == [w EXCEPT !.pc = "store", !.todo = <<>>, !.res = res]
  <2>1. Becomes(e, v)
    BY <1>4
  <2>2. res \in Outcomes
    BY <1>1 DEF Shaped, Outcomes
  <2>3. Shaped(v) /\ v.pc = "store"
    <3> HIDE DEF res
    <3> QED BY <1>1, <2>2 DEF Shaped, Places
  <2>4. ModeOf(e.suite) # "docker-test"
    BY <1>4, ScoresOf
  <2> HIDE DEF v, res
  <2>5. v.pc # "stored"
    BY <2>3
  <2> QED BY <2>1, <2>3, <2>4, <2>5, Proceeds DEF Retry
<1> QED BY <1>2, <1>3, <1>4 DEF Retry

LEMMA JudgeKeeps ==
  ASSUME EvalsInv, NEW e, Judge(e)
  PROVE  EvalsInv'
<1>1. CASE Becomes(e, Fails(worker[e]))
  BY <1>1, Failing DEF Judge
<1>2. ASSUME NEW c \in Answers \cup {NoCode}, NEW judged \in BOOLEAN, NEW good \in BOOLEAN,
             Becomes(e, [worker[e] EXCEPT !.pc = "store", !.res.code = c, !.res.failed = ~judged,
                                          !.res.pass1 = judged /\ good])
      PROVE  EvalsInv'
  <2> DEFINE w == worker[e]
             res == [w.res EXCEPT !.code = c, !.failed = ~judged, !.pass1 = judged /\ good]
             v == [w EXCEPT !.pc = "store", !.res = res]
  <2>1. Becomes(e, v)
    BY <1>2
  <2>2. Shaped(w) /\ c \in Codes
    BY WorkerIs, AnswerIsCode DEF Judge, WorkerOK
  <2>3. res \in Outcomes
    BY <2>2 DEF Shaped, Outcomes
  <2>4. Shaped(v) /\ v.pc = "store"
    <3> HIDE DEF res
    <3> QED BY <2>2, <2>3 DEF Shaped, Places
  <2>5. ModeOf(e.suite) # "docker-test"
    BY DEF Judge
  <2> HIDE DEF v, res
  <2>6. v.pc # "stored"
    BY <2>4
  <2> QED BY <2>1, <2>4, <2>5, <2>6, Proceeds DEF Judge
<1> QED BY <1>1, <1>2 DEF Judge

LEMMA AgentAskKeeps ==
  ASSUME EvalsInv, NEW e, AgentAsk(e)
  PROVE  EvalsInv'
<1>1. CASE Becomes(e, Fails(worker[e]))
  BY <1>1, Failing DEF AgentAsk
<1>2. ASSUME NEW c \in Answers \cup {NoCode},
             Becomes(e, [worker[e] EXCEPT !.pc = "test", !.code = c, !.res.code = c])
      PROVE  EvalsInv'
  <2> DEFINE w == worker[e]
             res == [w.res EXCEPT !.code = c]
             v == [w EXCEPT !.pc = "test", !.code = c, !.res = res]
  <2>1. Becomes(e, v)
    BY <1>2
  <2>2. w.pc = "ask" /\ WorkerOK(e, w) /\ Shaped(w) /\ c \in Codes
    BY WorkerIs, AnswerIsCode DEF AgentAsk, WorkerOK
  <2>3. /\ res \in Outcomes /\ res.code = c
        /\ res.code2 = w.res.code2 /\ res.pass1 = w.res.pass1 /\ res.pass2 = w.res.pass2
    BY <2>2 DEF Shaped, Outcomes
  <2>4. Shaped(v) /\ v.pc = "test" /\ v.turn = w.turn /\ v.code = c /\ v.res = res
    <3> HIDE DEF res
    <3> QED BY <2>2, <2>3 DEF Shaped, Places
  <2>5. ASSUME ModeOf(e.suite) = "docker-test"
        PROVE  Tries(v)
    <3>1. w.turn = 0 /\ w.res = NoResult
      BY <2>2, <2>5 DEF WorkerOK, Tries
    <3>2. res.code = c /\ res.code2 = NoCode /\ ~res.pass1 /\ ~res.pass2
      BY <2>3, <3>1 DEF NoResult
    <3> HIDE DEF v, res
    <3> QED BY <2>4, <3>1, <3>2 DEF Tries, Current
  <2> HIDE DEF v, res
  <2>6. v.pc # "stored"
    BY <2>4
  <2> QED BY <2>1, <2>4, <2>5, <2>6, Proceeds DEF AgentAsk
<1> QED BY <1>1, <1>2 DEF AgentAsk

LEMMA AgentTestKeeps ==
  ASSUME EvalsInv, NEW e, AgentTest(e)
  PROVE  EvalsInv'
<1> DEFINE w == worker[e]
<1>1. w.pc = "test" /\ WorkerOK(e, w) /\ Shaped(w)
  BY WorkerIs DEF AgentTest, WorkerOK
<1>2. ASSUME Becomes(e, [w EXCEPT !.pc = "review", !.proved = @ \cup {w.code},
                                  !.res.pass1 = TRUE, !.res.pass2 = w.turn > 0])
      PROVE  EvalsInv'
  <2> DEFINE repaired == w.turn > 0
             res == [w.res EXCEPT !.pass1 = TRUE, !.pass2 = repaired]
             proved == w.proved \cup {w.code}
             v == [w EXCEPT !.pc = "review", !.proved = proved, !.res = res]
  <2>1. Becomes(e, v)
    BY <1>2
  <2>2. proved \in SUBSET Codes /\ w.code \in proved
    BY <1>1 DEF Shaped
  <2>7. repaired \in BOOLEAN
    OBVIOUS
  <2>3. res \in Outcomes /\ res.pass2 = repaired /\ res.code = w.res.code /\ res.code2 = w.res.code2
    <3> HIDE DEF repaired
    <3> QED BY <1>1, <2>7 DEF Shaped, Outcomes
  <2>4. Shaped(v) /\ v.pc = "review" /\ v.turn = w.turn /\ v.code = w.code /\ v.proved = proved /\ v.res = res
    <3> HIDE DEF res, proved
    <3> QED BY <1>1, <2>2, <2>3 DEF Shaped, Places
  <2> HIDE DEF v, res, proved
  <2>5. ModeOf(e.suite) = "docker-test" => Tries(v)
    BY <1>1, <2>2, <2>3, <2>4 DEF WorkerOK, Tries, Current
  <2>6. v.pc # "stored"
    BY <2>4
  <2> QED BY <2>1, <2>4, <2>5, <2>6, Proceeds DEF AgentTest
<1>3. ASSUME NEW pc \in {"store", "fix"}, Becomes(e, [w EXCEPT !.pc = pc])
      PROVE  EvalsInv'
  <2> DEFINE v == [w EXCEPT !.pc = pc]
  <2>1. Shaped(v) /\ v.pc = pc /\ v.turn = w.turn /\ v.code = w.code /\ v.res = w.res
    BY <1>1 DEF Shaped, Places
  <2>2. Becomes(e, v)
    BY <1>3
  <2> HIDE DEF v
  <2>3. ModeOf(e.suite) = "docker-test" => Tries(v)
    BY <1>1, <2>1 DEF WorkerOK, Tries, Current, Sound
  <2>4. v.pc # "stored"
    BY <2>1
  <2> QED BY <2>1, <2>2, <2>3, <2>4, Proceeds DEF AgentTest
<1>4. ASSUME NEW verdict \in Verdicts, verdict # "passed",
             Becomes(e, [w EXCEPT !.pc = IF w.turn = MaxTurns - 1 THEN "store" ELSE "fix"])
      PROVE  EvalsInv'
  <2> DEFINE pc == IF w.turn = MaxTurns - 1 THEN "store" ELSE "fix"
  <2>1. pc \in {"store", "fix"} /\ Becomes(e, [w EXCEPT !.pc = pc])
    BY <1>4
  <2> HIDE DEF pc
  <2> QED BY <1>3, <2>1
<1> QED BY <1>2, <1>4 DEF AgentTest

LEMMA Repaired ==
  ASSUME EvalsInv, NEW e, At(e, "fix"), NEW climbed \in BOOLEAN, NEW c \in Answers,
         Becomes(e, Fixed([worker[e] EXCEPT !.climbed = climbed], c))
  PROVE  EvalsInv'
<1> DEFINE w == [worker[e] EXCEPT !.climbed = climbed]
           res == [w.res EXCEPT !.code2 = c]
           turn == w.turn + 1
           v == [w EXCEPT !.pc = "test", !.turn = turn, !.code = c, !.res = res]
<1>1. worker[e].pc = "fix" /\ WorkerOK(e, worker[e]) /\ Shaped(worker[e])
  BY WorkerIs DEF WorkerOK
<1>2. Shaped(w) /\ w.res = worker[e].res /\ w.turn = worker[e].turn
  BY <1>1 DEF Shaped, Places
<1>3. Becomes(e, v)
  BY DEF Fixed
<1> HIDE DEF w
<1>4. c \in Codes
  BY DEF Codes
<1>5. res \in Outcomes /\ res.code2 = c /\ res.pass1 = w.res.pass1 /\ res.pass2 = w.res.pass2
  BY <1>2, <1>4 DEF Shaped, Outcomes
<1>7. turn \in Nat /\ turn # 0
  BY <1>2 DEF Shaped
<1> HIDE DEF res, turn
<1>6. Shaped(v) /\ v.pc = "test" /\ v.turn = turn /\ v.code = c /\ v.res = res
  BY <1>2, <1>4, <1>5, <1>7 DEF Shaped, Places
<1> HIDE DEF v
<1>8. ModeOf(e.suite) = "docker-test" => Tries(v)
  BY <1>1, <1>2, <1>5, <1>6, <1>7 DEF WorkerOK, Tries, Current
<1>9. v.pc # "stored"
  BY <1>6
<1> QED BY <1>3, <1>6, <1>8, <1>9, Proceeds

\* A worker that is given up with its tests failed, or that keeps what its
\* review was about.
LEMMA ToStore ==
  ASSUME EvalsInv, NEW e, NEW pc \in {"fix", "review"}, At(e, pc), NEW climbed \in BOOLEAN,
         Becomes(e, [worker[e] EXCEPT !.climbed = climbed, !.pc = "store"])
  PROVE  EvalsInv'
<1> DEFINE w == worker[e]
           v == [w EXCEPT !.climbed = climbed, !.pc = "store"]
<1>1. w.pc = pc /\ WorkerOK(e, w) /\ Shaped(w)
  BY WorkerIs DEF WorkerOK
<1>2. Shaped(v) /\ v.pc = "store" /\ v.proved = w.proved /\ v.res = w.res
  BY <1>1 DEF Shaped, Places
<1> HIDE DEF v
<1>3. ASSUME ModeOf(e.suite) = "docker-test"
      PROVE  Tries(v)
  <2>1. Tries(w)
    BY <1>1, <1>3 DEF WorkerOK
  <2>2. Sound(w.res, w.proved)
    BY <1>1, <2>1 DEF Tries, Sound, Claimed, Current, Shaped
  <2> QED BY <1>2, <2>2 DEF Tries
<1>4. v.pc # "stored"
  BY <1>2
<1> QED BY <1>2, <1>3, <1>4, Proceeds DEF v

LEMMA FixKeeps ==
  ASSUME EvalsInv, NEW e, Fix(e)
  PROVE  EvalsInv'
<1> DEFINE before == worker[e]
           late == run.provider # Anyone /\ before.turn >= (IF MaxTurns \div 2 < 2 THEN 2 ELSE MaxTurns \div 2)
           climbed == before.climbed \/ late
           w == [before EXCEPT !.climbed = climbed]
<1>1. At(e, "fix")
  BY DEF Fix
<1>2. before.pc = "fix" /\ WorkerOK(e, before) /\ Shaped(before)
  BY <1>1, WorkerIs DEF WorkerOK
<1>3. climbed \in BOOLEAN
  BY <1>2 DEF Shaped
<1>4. CASE Becomes(e, Fails(w))
  <2>1. Shaped(w) /\ w.pc = "fix" /\ (ModeOf(e.suite) = "docker-test" => Tries(w))
    <3> HIDE DEF climbed
    <3>1. Shaped(w) /\ w.pc = "fix" /\ w.turn = before.turn /\ w.code = before.code /\ w.res = before.res
      BY <1>2, <1>3 DEF Shaped, Places
    <3> HIDE DEF w
    <3> QED BY <1>2, <3>1 DEF WorkerOK, Tries, Current
  <2> HIDE DEF w
  <2>2. WorkerOK(e, Fails(w)) /\ Fails(w).pc = "store"
    BY <2>1, FailsOK DEF WorkerOK
  <2>3. Shaped(Fails(w)) /\ (ModeOf(e.suite) = "docker-test" => Tries(Fails(w))) /\ Fails(w).pc # "stored"
    BY <2>2 DEF WorkerOK
  <2> QED BY <1>1, <1>4, <2>3, Proceeds
<1>5. ASSUME NEW c \in Answers, Becomes(e, Fixed(w, c))
      PROVE  EvalsInv'
  <2> HIDE DEF climbed
  <2> QED BY <1>1, <1>3, <1>5, Repaired
<1>6. [w EXCEPT !.climbed = TRUE] = [before EXCEPT !.climbed = TRUE]
  <2> HIDE DEF climbed
  <2> QED BY <1>2 DEF Shaped
<1>7. ASSUME NEW c \in Answers, Becomes(e, Fixed([w EXCEPT !.climbed = TRUE], c))
      PROVE  EvalsInv'
  <2>1. Becomes(e, Fixed([before EXCEPT !.climbed = TRUE], c))
    BY <1>6, <1>7
  <2> QED BY <1>1, <2>1, Repaired
<1>8. ASSUME Becomes(e, [[w EXCEPT !.climbed = TRUE] EXCEPT !.pc = "store"])
      PROVE  EvalsInv'
  <2>1. Becomes(e, [before EXCEPT !.climbed = TRUE, !.pc = "store"])
    BY <1>6, <1>8
  <2> QED BY <1>1, <2>1, ToStore
<1> QED BY <1>4, <1>5, <1>7, <1>8 DEF Fix

LEMMA ReviewKeeps ==
  ASSUME EvalsInv, NEW e, Review(e)
  PROVE  EvalsInv'
<1> DEFINE w == worker[e]
<1>1. At(e, "review")
  BY DEF Review
<1>2. w.pc = "review" /\ WorkerOK(e, w) /\ Shaped(w)
  BY <1>1, WorkerIs DEF WorkerOK
<1>3. ASSUME Becomes(e, [w EXCEPT !.pc = "store"])
      PROVE  EvalsInv'
  <2>1. w.climbed \in BOOLEAN /\ [w EXCEPT !.pc = "store"] = [w EXCEPT !.climbed = w.climbed, !.pc = "store"]
    BY <1>2 DEF Shaped
  <2> QED BY <1>1, <1>3, <2>1, ToStore
<1>4. ASSUME NEW c \in Answers,
             Becomes(e, [w EXCEPT !.pc = "store", !.code = c, !.res.code2 = c, !.proved = @ \cup {c}])
      PROVE  EvalsInv'
  <2> DEFINE res == [w.res EXCEPT !.code2 = c]
             proved == w.proved \cup {c}
             v == [w EXCEPT !.pc = "store", !.code = c, !.res = res, !.proved = proved]
  <2>1. Becomes(e, v)
    BY <1>4
  <2>2. c \in Codes /\ c # NoCode /\ proved \in SUBSET Codes /\ c \in proved
    BY <1>2, EvalsAssumption DEF Shaped, Codes
  <2>3. res \in Outcomes /\ res.code2 = c
    BY <1>2, <2>2 DEF Shaped, Outcomes
  <2>4. Shaped(v) /\ v.pc = "store" /\ v.res = res /\ v.proved = proved
    <3> HIDE DEF res, proved
    <3> QED BY <1>2, <2>2, <2>3 DEF Shaped, Places
  <2> HIDE DEF v, res, proved
  <2>5. Tries(v)
    BY <2>2, <2>3, <2>4 DEF Tries, Sound, Claimed
  <2>6. v.pc # "stored"
    BY <2>4
  <2> QED BY <1>1, <2>1, <2>4, <2>5, <2>6, Proceeds
<1> QED BY <1>3, <1>4 DEF Review, Reviewed

LEMMA Moves ==
  ASSUME EvalsInv, NEW e, NEW from \in {"left", "queued"}, At(e, from), NEW pc \in {"queued", "ask"},
         Becomes(e, [worker[e] EXCEPT !.pc = pc])
  PROVE  EvalsInv'
<1> DEFINE w == worker[e]
           v == [w EXCEPT !.pc = pc]
<1>1. w.pc = from /\ WorkerOK(e, w) /\ Shaped(w)
  BY WorkerIs DEF WorkerOK
<1>2. Shaped(v) /\ v.pc = pc /\ v.turn = w.turn /\ v.res = w.res
  BY <1>1 DEF Shaped, Places
<1> HIDE DEF v
<1>3. ModeOf(e.suite) = "docker-test" => Tries(v)
  BY <1>1, <1>2 DEF WorkerOK, Tries
<1>4. v.pc # "stored"
  BY <1>2
<1> QED BY <1>2, <1>3, <1>4, Proceeds DEF v

LEMMA StoreResultKeeps ==
  ASSUME EvalsInv, NEW e, StoreResult(e)
  PROVE  EvalsInv'
<1> DEFINE w == worker[e]
           v == [w EXCEPT !.pc = "stored"]
           r == [exercise |-> e, proved |-> w.proved, res |-> w.res]
<1>1. e \in DOMAIN worker /\ w.pc = "store" /\ WorkerOK(e, w) /\ Shaped(w)
  BY WorkerIs DEF StoreResult, WorkerOK
<1>2. /\ results' = results \cup {r} /\ worker' = [worker EXCEPT ![e] = v]
      /\ UNCHANGED <<run, row, summary>>
  BY DEF StoreResult
<1>3. Shaped(v) /\ v.pc = "stored" /\ v.proved = w.proved /\ v.res = w.res
  BY <1>1 DEF Shaped, Places
<1>4. WorkerOK(e, v) /\ (ModeOf(e.suite) = "docker-test" => Sound(w.res, w.proved))
  <2> HIDE DEF v
  <2> QED BY <1>1, <1>3 DEF WorkerOK, Tries
<1> HIDE DEF v
<1>5. DOMAIN worker' = DOMAIN worker /\ \A d \in DOMAIN worker : worker'[d] = IF d = e THEN v ELSE worker[d]
  BY <1>2
<1>6. WorkersOK'
  BY <1>4, <1>5 DEF EvalsInv, WorkersOK
<1>7. Stored' = Stored \cup {e} /\ e \notin Stored
  BY <1>1, <1>3, <1>5 DEF Stored
<1>8. r.exercise = e /\ r.res = w.res /\ r.proved = w.proved /\ r \notin results
  BY <1>7 DEF EvalsInv, Recorded
<1> HIDE DEF r, w
<1>9. Recorded'
  <2>1. {s.exercise : s \in results'} = Stored'
    BY <1>2, <1>7, <1>8 DEF EvalsInv, Recorded
  <2>2. ASSUME NEW s \in results', ModeOf(s.exercise.suite) = "docker-test"
        PROVE  Sound(s.res, s.proved)
    <3>1. CASE s \in results
      BY <2>2, <3>1 DEF EvalsInv, Recorded
    <3>2. CASE s = r
      BY <1>4, <1>8, <2>2, <3>2
    <3> QED BY <1>2, <3>1, <3>2
  <2>3. /\ IsFiniteSet(Stored) /\ IsFiniteSet(results) /\ Cardinality(results) = Cardinality(Stored)
    BY DEF EvalsInv, Recorded
  <2>4. IsFiniteSet(Stored \cup {e}) /\ Cardinality(Stored \cup {e}) = Cardinality(Stored) + 1
    BY <1>7, <2>3, FS_AddElement
  <2>5. IsFiniteSet(results \cup {r}) /\ Cardinality(results \cup {r}) = Cardinality(results) + 1
    BY <1>8, <2>3, FS_AddElement
  <2> QED BY <1>2, <1>7, <2>1, <2>2, <2>3, <2>4, <2>5 DEF Recorded
<1>10. e \in DOMAIN worker /\ e \notin Stored
  BY <1>1, <1>7
<1>11. run.phase # "idle" /\ run.phase # "summed" /\ row # "completed"
  BY <1>10 DEF EvalsInv, Phased
<1>13. RunShaped'
  BY <1>2 DEF EvalsInv, Phased, RunShaped
<1>12. Phased'
  BY <1>2, <1>11, <1>13 DEF Phased
<1> QED BY <1>6, <1>9, <1>12 DEF EvalsInv

LEMMA WorkKeeps ==
  ASSUME EvalsInv, NEW e, WorkOn(e)
  PROVE  EvalsInv'
<1>1. ASSUME SkipSlides(e)
      PROVE  EvalsInv'
  BY <1>1, Failing DEF SkipSlides
<1>2. ASSUME SpawnWorker(e)
      PROVE  EvalsInv'
  <2> DEFINE pc == IF run.slots = 1 THEN "ask" ELSE "queued"
  <2>1. pc \in {"queued", "ask"} /\ At(e, "left") /\ Becomes(e, [worker[e] EXCEPT !.pc = pc])
    BY <1>2 DEF SpawnWorker
  <2> HIDE DEF pc
  <2> QED BY <2>1, Moves
<1>3. ASSUME Enter(e)
      PROVE  EvalsInv'
  BY <1>3, Moves DEF Enter
<1> QED BY <1>1, <1>2, <1>3, AttemptKeeps, RetryKeeps, JudgeKeeps, AgentAskKeeps, AgentTestKeeps, FixKeeps,
           ReviewKeeps, StoreResultKeeps DEF WorkOn

(* --------------------------------- runs -------------------------------- *)

LEMMA StartKeeps ==
  ASSUME EvalsInv, NEW chosen, Start(chosen)
  PROVE  EvalsInv'
<1>1. run.phase = "idle" /\ row = "none" /\ worker = <<>>
  BY DEF Start, EvalsInv, Phased
<1>2. Stored = {}
  BY <1>1 DEF Stored
<1>3. worker' = [e \in chosen |-> NewWorker] /\ UNCHANGED results
  BY DEF Start
<1>4. DOMAIN worker' = chosen /\ \A e \in chosen : worker'[e] = NewWorker
  BY <1>3
<1>5. WorkersOK'
  BY <1>4, NewWorkerOK DEF WorkersOK
<1>6. NewWorker.pc # "stored"
  BY DEF NewWorker
<1>7. Stored' = {}
  BY <1>4, <1>6 DEF Stored
<1>8. Recorded'
  BY <1>2, <1>3, <1>7 DEF EvalsInv, Recorded
<1>9. row' # "completed"
  BY <1>1 DEF Start
<1>10. PICK agent \in BOOLEAN, twoPass \in BOOLEAN, byHandler \in BOOLEAN,
            provider \in {Anyone, FirstChainProvider}, slots \in {1, 2} :
         /\ run' = [run EXCEPT !.phase = IF chosen = {} THEN "ended" ELSE "spawn", !.agent = agent,
                               !.twoPass = twoPass, !.provider = provider, !.slots = slots, !.byHandler = byHandler]
         /\ own' = IF ~byHandler THEN own ELSE IF chosen = {} THEN "failed" ELSE "running"
  BY DEF Start
<1> DEFINE phase == IF chosen = {} THEN "ended" ELSE "spawn"
<1>11. phase \in {"ended", "spawn"}
  OBVIOUS
<1> HIDE DEF phase
<1>12. /\ run' = [run EXCEPT !.phase = phase, !.agent = agent, !.twoPass = twoPass, !.provider = provider,
                             !.slots = slots, !.byHandler = byHandler]
  BY <1>10 DEF phase
<1>13. /\ RunShaped'
       /\ run'.phase = phase
  BY <1>11, <1>12 DEF EvalsInv, Phased, RunShaped
<1>14. Phased'
  BY <1>9, <1>11, <1>13 DEF Phased
<1> QED BY <1>5, <1>8, <1>14 DEF EvalsInv

\* A run that goes on to a phase leaves its workers and results as they are.
LEMMA PhaseChanges ==
  ASSUME EvalsInv, NEW phase \in {"spawn", "drain", "summed", "ended"}, NEW expired \in BOOLEAN,
         run' = [run EXCEPT !.phase = phase, !.expired = expired],
         UNCHANGED <<worker, results>>,
         phase = "summed" \/ row' = "completed" => Stored = DOMAIN worker /\ summary' = Summarized,
         row' = "completed" => phase = "ended"
  PROVE  EvalsInv'
<1>1. UNCHANGED <<Stored, Summarized>>
  BY DEF Stored, Summarized
<1>2. WorkersOK'
  BY DEF EvalsInv, WorkersOK
<1>3. Recorded'
  BY <1>1 DEF EvalsInv, Recorded
<1>4. /\ RunShaped'
      /\ run'.phase = phase
  BY DEF EvalsInv, Phased, RunShaped
<1>5. Phased'
  BY <1>1, <1>4 DEF Phased
<1> QED BY <1>2, <1>3, <1>5 DEF EvalsInv

LEMMA ConcludeKeeps ==
  ASSUME EvalsInv, Expire \/ Conclude
  PROVE  EvalsInv'
<1>1. /\ RunShaped
      /\ run.phase = "summed" \/ row = "completed" => Stored = DOMAIN worker /\ summary = Summarized
      /\ row = "completed" => run.phase = "ended"
  BY DEF EvalsInv, Phased
<1>2. CASE Expire
  <2>1. run' = [run EXCEPT !.phase = run.phase, !.expired = TRUE] /\ run.phase \in {"spawn", "summed"}
    BY <1>1, <1>2 DEF Expire, RunShaped
  <2>2. UNCHANGED <<worker, results, row, summary>>
    BY <1>2 DEF Expire
  <2> QED BY <1>1, <2>1, <2>2, PhaseChanges
<1>3. CASE GiveUp
  <2>1. run' = [run EXCEPT !.phase = "drain", !.expired = run.expired] /\ run.expired \in BOOLEAN
    BY <1>1, <1>3 DEF GiveUp, RunShaped
  <2>2. row' = "failed" /\ UNCHANGED <<worker, results, summary>>
    BY <1>3 DEF GiveUp
  <2> QED BY <2>1, <2>2, PhaseChanges
<1>4. CASE Drain
  <2>1. run' = [run EXCEPT !.phase = "ended", !.expired = run.expired] /\ run.expired \in BOOLEAN
    BY <1>1, <1>4 DEF Drain, RunShaped
  <2>2. row # "completed" /\ UNCHANGED <<worker, results, row, summary>>
    BY <1>1, <1>4 DEF Drain
  <2> QED BY <2>1, <2>2, PhaseChanges
<1>5. CASE SumUp
  <2>1. run' = [run EXCEPT !.phase = "summed", !.expired = run.expired] /\ run.expired \in BOOLEAN
    BY <1>1, <1>5 DEF SumUp, RunShaped
  <2>2. row # "completed" /\ summary' = Summarized /\ UNCHANGED <<worker, results, row>>
    BY <1>1, <1>5 DEF SumUp
  <2>3. Stored = DOMAIN worker
    BY <1>5 DEF SumUp, Left, AllStored, Stored
  <2> QED BY <2>1, <2>2, <2>3, PhaseChanges
<1>6. CASE Complete
  <2>1. run' = [run EXCEPT !.phase = "ended", !.expired = run.expired] /\ run.expired \in BOOLEAN
    BY <1>1, <1>6 DEF Complete, RunShaped
  <2>2. run.phase = "summed" /\ UNCHANGED <<worker, results, summary>>
    BY <1>6 DEF Complete
  <2> QED BY <1>1, <2>1, <2>2, PhaseChanges
<1> QED BY <1>2, <1>3, <1>4, <1>5, <1>6 DEF Conclude

LEMMA NothingChanges ==
  ASSUME EvalsInv, UNCHANGED running
  PROVE  EvalsInv'
<1>1. UNCHANGED <<run, row, worker, results, summary>>
  BY DEF running
<1>2. UNCHANGED <<Stored, Summarized>>
  BY <1>1 DEF Stored, Summarized
<1>3. WorkersOK' /\ Recorded'
  BY <1>1, <1>2 DEF EvalsInv, WorkersOK, Recorded
<1>5. RunShaped'
  BY <1>1 DEF EvalsInv, Phased, RunShaped
<1>4. Phased'
  BY <1>1, <1>2, <1>5 DEF EvalsInv, Phased
<1> QED BY <1>3, <1>4 DEF EvalsInv

LEMMA InitHolds == EvalsInit => EvalsInv
<1> SUFFICES ASSUME EvalsInit
             PROVE  EvalsInv
  OBVIOUS
<1>1. Stored = {} /\ DOMAIN worker = {}
  BY DEF EvalsInit, Stored
<1>2. WorkersOK
  BY <1>1 DEF WorkersOK
<1>3. Recorded
  BY <1>1, FS_EmptySet DEF EvalsInit, Recorded
<1>4. Phased
  BY DEF EvalsInit, Phased, RunShaped
<1> QED BY <1>2, <1>3, <1>4 DEF EvalsInv

LEMMA EvalsInvariant == EvalsSpec => []EvalsInv
<1>1. EvalsInv /\ [EvalsNext]_evalVars => EvalsInv'
  <2> SUFFICES ASSUME EvalsInv, [EvalsNext]_evalVars
               PROVE  EvalsInv'
    OBVIOUS
  <2>1. ASSUME NEW source \in Library, Import(source)
        PROVE  EvalsInv'
    BY <2>1, NothingChanges DEF Import
  <2>2. CASE UNCHANGED evalVars
    <3>1. UNCHANGED running
      BY <2>2 DEF evalVars, running
    <3> QED BY <3>1, NothingChanges
  <2> QED BY <2>1, <2>2, StartKeeps, WorkKeeps, ConcludeKeeps DEF EvalsNext
<1> QED BY <1>1, InitHolds, PTL DEF EvalsSpec

(* ------------------------------- theorems ------------------------------ *)

\* The code that is kept for an exercise that passed its tests passed them,
\* and a completed run has a result for each exercise chosen, which its
\* summary counts.
THEOREM ResultsAreTrue == EvalsSpec => []ResultsHold
<1>1. EvalsInv => ResultsHold
  <2> SUFFICES ASSUME EvalsInv
               PROVE  ResultsHold
    OBVIOUS
  <2>1. PassedIsKept
    BY DEF EvalsInv, Recorded, Sound, Claimed, PassedIsKept
  <2>2. ASSUME row = "completed"
        PROVE  /\ summary = Summarized /\ summary.total = Cardinality(DOMAIN worker)
               /\ {r.exercise : r \in results} = DOMAIN worker
    <3>1. summary = Summarized /\ Stored = DOMAIN worker
      BY <2>2 DEF EvalsInv, Phased
    <3>2. {r.exercise : r \in results} = Stored /\ Cardinality(results) = Cardinality(Stored)
      BY DEF EvalsInv, Recorded
    <3>3. Summarized.total = Cardinality(results)
      BY DEF Summarized
    <3> QED BY <3>1, <3>2, <3>3
  <2> QED BY <2>1, <2>2 DEF ResultsHold, SummaryCovers
<1> QED BY <1>1, EvalsInvariant, PTL
==============================================================================
