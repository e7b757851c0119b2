---------------------------- MODULE TasksProofs ----------------------------
(***************************************************************************)
(* The invariants of the orchestration tasks, for any set of task numbers,  *)
(* any number of runners and plans of any bounded length.                  *)
(***************************************************************************)
EXTENDS Tasks, SequenceTheorems, TLAPS

\* TasksNext, one disjunct for each kind of step; the proofs split on it.
LEMMA NextCases ==
  ASSUME TasksNext
  PROVE  \/ UpsertRow \/ DeleteSteps \/ InsertStep
         \/ \E t \in TaskIds : \/ CreateTask(t)
                               \/ CancelTask(t) \/ PauseTask(t) \/ ResumeTask(t) \/ AssignTask(t)
                               \/ \E r \in Runners : StartTask(r, t)
         \/ \E r \in Runners : \/ MarkTaskRunning(r) \/ CheckPause(r) \/ BeginStep(r)
                               \/ StepSucceeds(r) \/ StepFails(r) \/ FailTask(r)
                               \/ CompleteTask(r)
         \/ Crash
BY DEF TasksNext, Work, Persist, Handle, Run

(* ---------------------------- the inductive invariant ------------------- *)

\* A plan, bounded by max_steps.
Plan(task) == task \in Task /\ Len(task.steps) <= MaxSteps

Types ==
    /\ tasks \in [TaskIds -> Task]
    /\ db \in [TaskIds -> Task]
    /\ \A t \in TaskIds : Plan(tasks[t]) /\ Plan(db[t])
    /\ counter \in Nat
    /\ late \in [Runners -> Nat]
    /\ runner \in [Runners -> [pc : Pcs, task : TaskIds \cup {0}, idx : Nat]]

\* How far persistTask is: the row agrees with the task it was given, and
\* that is the manager's own.
Saved ==
    /\ writing = Unlocked \/ writing.task \in TaskIds
    /\ \A t \in TaskIds : writing.task # t => db[t] = tasks[t]
    /\ writing # Unlocked =>
         LET t == writing.task IN
         /\ writing = [task |-> t, stage |-> writing.stage, image |-> writing.image]
         /\ writing.stage \in Nat
         /\ writing.image \in Task /\ Len(writing.image.steps) <= MaxSteps
         /\ t <= counter
         /\ t \in TaskIds => writing.image = tasks[t]
         /\ writing.stage > 0 => db[t].status = writing.image.status
         /\ writing.stage > 1 =>
              /\ writing.stage - 1 <= Len(writing.image.steps)
              /\ Len(db[t].steps) = writing.stage - 2
              /\ \A i \in 1..(writing.stage - 2) : db[t].steps[i] = writing.image.steps[i]

\* A task that is completed has its outputs, and they were saved before.
Outputs ==
    \A t \in TaskIds :
        /\ tasks[t].status = "completed" =>
             HasOutputs(tasks[t].steps) /\ HasOutputs(db[t].steps)
        /\ db[t].status = "completed" => HasOutputs(db[t].steps)

\* A runner is within its plan, and the steps behind it have outputs.
OnTrack(r) ==
    LET t == runner[r].task i == runner[r].idx IN
    /\ runner[r].pc # "free" => t \in TaskIds /\ tasks[t].status # "absent"
    /\ runner[r].pc \in {"check", "begin", "call", "fail"} =>
         /\ i \in 1..Len(tasks[t].steps)
         /\ \A j \in 1..(i - 1) : tasks[t].steps[j].output
    /\ runner[r].pc = "finish" => HasOutputs(tasks[t].steps)
    /\ i <= MaxSteps + 1

Progress == \A r \in Runners : OnTrack(r)

\* A runner that passed the test of isTaskPaused began nothing since the pause.
Pauses ==
    \A r \in Runners :
        /\ late[r] <= 1
        /\ (runner[r].pc = "begin" /\ tasks[runner[r].task].status = "paused") => late[r] = 0

(* ------------------------------- lemmas --------------------------------- *)

\* A handler's critical section keeps the tasks what they are.
LEMMA UpdateTypes ==
  ASSUME Types, NEW t \in TaskIds, NEW task \in Task, Len(task.steps) <= MaxSteps,
         Update(t, task)
  PROVE  /\ tasks' \in [TaskIds -> Task]
         /\ db' = db
         /\ \A u \in TaskIds : Plan(tasks'[u]) /\ Plan(db'[u])
BY DEF Types, Update, Plan

\* A change of the status makes a task of a task.
LEMMA StatusChange ==
  ASSUME Types, NEW t \in TaskIds, NEW s \in TaskStatus
  PROVE  /\ [tasks[t] EXCEPT !.status = s] \in Task
         /\ [tasks[t] EXCEPT !.status = s].steps = tasks[t].steps
         /\ [tasks[t] EXCEPT !.status = s].status = s
         /\ tasks[t] \in Task /\ tasks[t].steps \in Seq(Step) /\ tasks[t].status \in TaskStatus
         /\ Len(tasks[t].steps) \in Nat /\ Len(tasks[t].steps) <= MaxSteps
<1>1. tasks[t] \in Task /\ Len(tasks[t].steps) <= MaxSteps
  BY DEF Types, Plan
<1>2. tasks[t].steps \in Seq(Step) /\ tasks[t].status \in TaskStatus
  BY <1>1 DEF Task
<1>3. Len(tasks[t].steps) \in Nat
  BY <1>2
<1> QED
  BY <1>1, <1>2, <1>3 DEF Task

\* So does a change of one step.
LEMMA StepChange ==
  ASSUME Types, NEW t \in TaskIds, NEW i \in 1..Len(tasks[t].steps), NEW step \in Step
  PROVE  LET task == [tasks[t] EXCEPT !.steps[i] = step] IN
         /\ task \in Task
         /\ task.status = tasks[t].status
         /\ Len(task.steps) = Len(tasks[t].steps)
         /\ \A j \in 1..Len(tasks[t].steps) :
              task.steps[j] = IF j = i THEN step ELSE tasks[t].steps[j]
<1>1. tasks[t] \in Task /\ tasks[t].steps \in Seq(Step)
  BY DEF Types, Task
<1>2. [tasks[t].steps EXCEPT ![i] = step] \in Seq(Step)
  BY <1>1
<1>3. Len([tasks[t].steps EXCEPT ![i] = step]) = Len(tasks[t].steps)
  BY <1>1
<1>4. [tasks[t] EXCEPT !.steps[i] = step].steps = [tasks[t].steps EXCEPT ![i] = step]
  BY <1>1 DEF Task
<1> QED
  BY <1>1, <1>2, <1>3, <1>4 DEF Task

(* --------------------- what handlers and runners change ------------------ *)

\* What every critical section does to its task: it saves a task that exists,
\* and neither a step nor an output of it is lost.
Change(t, task) ==
    /\ MutexFree
    /\ Update(t, task)
    /\ task \in Task /\ Len(task.steps) <= MaxSteps /\ task.status # "absent"
    /\ t <= counter'
    /\ t \in TaskIds /\ task.status = "completed" =>
         HasOutputs(task.steps) /\ HasOutputs(tasks[t].steps)
    /\ tasks[t].status # "absent" =>
         /\ Len(task.steps) = Len(tasks[t].steps)
         /\ \A j \in 1..Len(tasks[t].steps) : tasks[t].steps[j].output => task.steps[j].output

NoChange == UNCHANGED <<tasks, writing, db>>

Counted == \A t \in TaskIds : tasks[t].status # "absent" \/ db[t].status # "absent" => t <= counter

\* A handler that only sets the status of a task.
LEMMA StatusChanges ==
  ASSUME Types, Outputs, Counted, MutexFree, NEW t \in TaskIds, NEW s \in TaskStatus,
         tasks[t].status # "absent", s # "absent", UNCHANGED counter,
         s = "completed" => tasks[t].status = "completed",
         Update(t, [tasks[t] EXCEPT !.status = s])
  PROVE  Change(t, [tasks[t] EXCEPT !.status = s])
<1> DEFINE task == [tasks[t] EXCEPT !.status = s]
<1>1. /\ task \in Task /\ task.status = s /\ task.steps = tasks[t].steps
      /\ Len(tasks[t].steps) <= MaxSteps
  BY StatusChange
<1>2. t <= counter'
  BY DEF Counted
<1>3. t \in TaskIds /\ s = "completed" => HasOutputs(task.steps) /\ HasOutputs(tasks[t].steps)
  BY <1>1 DEF Outputs
<1> QED
  BY <1>1, <1>2, <1>3 DEF Change

\* A runner that changes the step it is at.
LEMMA StepChanges ==
  ASSUME Types, Outputs, Counted, MutexFree, NEW t \in TaskIds,
         NEW i \in 1..Len(tasks[t].steps), NEW step \in Step,
         tasks[t].status # "absent", UNCHANGED counter,
         tasks[t].steps[i].output => step.output,
         SetStep(t, i, step)
  PROVE  Change(t, [tasks[t] EXCEPT !.steps[i] = step])
<1> DEFINE task == [tasks[t] EXCEPT !.steps[i] = step]
<1>1. /\ task \in Task
      /\ task.status = tasks[t].status
      /\ Len(task.steps) = Len(tasks[t].steps)
      /\ \A j \in 1..Len(tasks[t].steps) :
           task.steps[j] = IF j = i THEN step ELSE tasks[t].steps[j]
  BY StepChange
<1>2. t <= counter'
  BY DEF Counted
<1>3. \A j \in 1..Len(tasks[t].steps) : tasks[t].steps[j].output => task.steps[j].output
  BY <1>1
<1>4. t \in TaskIds /\ task.status = "completed" => HasOutputs(task.steps) /\ HasOutputs(tasks[t].steps)
  BY <1>1, <1>3 DEF Outputs, HasOutputs
<1>5. Len(task.steps) <= MaxSteps
  BY <1>1, StatusChange DEF Types, Plan
<1> HIDE DEF task
<1>6. Update(t, task)
  BY DEF SetStep, task
<1> QED
  BY <1>1, <1>2, <1>3, <1>4, <1>5, <1>6 DEF Change, task

\* Where a runner that is past its start stands.
LEMMA RunnerAt ==
  ASSUME Types, Progress, NEW r \in Runners, runner[r].pc # "free"
  PROVE  LET t == runner[r].task i == runner[r].idx IN
         /\ t \in TaskIds /\ tasks[t].status # "absent" /\ i \in Nat
         /\ runner[r].pc \in {"check", "begin", "call", "fail"} =>
              i \in 1..Len(tasks[t].steps) /\ tasks[t].steps[i] \in Step
         /\ runner[r].pc = "finish" => HasOutputs(tasks[t].steps)
<1> DEFINE t == runner[r].task
           i == runner[r].idx
<1>1. t \in TaskIds /\ tasks[t].status # "absent" /\ i \in Nat
  BY DEF Progress, OnTrack, Types
<1>2. tasks[t].steps \in Seq(Step)
  BY <1>1, StatusChange, "queued" \in TaskStatus DEF TaskStatus
<1> QED
  BY <1>1, <1>2 DEF Progress, OnTrack

\* A new task takes a number that had none, and starts queued.
LEMMA Creating ==
  ASSUME Types, Counted, NEW t \in TaskIds, CreateTask(t)
  PROVE  /\ tasks[t].status = "absent" /\ tasks'[t].status = "queued"
         /\ \A u \in TaskIds : u # t => tasks'[u] = tasks[u]
<1>1. PICK n \in 1..MaxSteps : NewTask(t, n)
  BY DEF CreateTask
<1> DEFINE task == [status |-> "queued", steps |-> [i \in 1..n |-> PendingStep]]
<1>2. /\ t = counter + 1 /\ counter \in Nat /\ tasks' = [tasks EXCEPT ![t] = task]
  BY <1>1 DEF NewTask, Update, Types
<1>3. tasks[t].status = "absent"
  BY <1>2 DEF Counted
<1>4. task.status = "queued"
  OBVIOUS
<1> HIDE DEF task
<1> QED BY <1>2, <1>3, <1>4 DEF Types

\* Every step but those of persistTask and the crash is such a change of one
\* task, or none.
LEMMA Changes ==
  ASSUME Types, Outputs, Progress, Counted,
         [TasksNext]_taskVars, ~(UpsertRow \/ DeleteSteps \/ InsertStep \/ Crash)
  PROVE  /\ counter' \in Nat /\ counter <= counter'
         /\ \/ NoChange
            \/ \E t \in TaskIds : \E task \in Task : Change(t, task)
<1> DEFINE Kind == \/ NoChange
                   \/ \E t \in TaskIds : \E task \in Task : Change(t, task)
<1> SUFFICES Kind /\ counter' \in Nat /\ counter <= counter'
  OBVIOUS
<1> HIDE DEF Kind
<1>0. /\ counter \in Nat
      /\ {"queued", "cancelled", "paused", "running", "completed", "failed", "assigned"}
            \subseteq TaskStatus \ {"absent"}
  BY DEF Types, TaskStatus
<1>1. ASSUME NEW t \in TaskIds, NEW s \in TaskStatus \ {"absent"}, MutexFree,
             tasks[t].status # "absent", UNCHANGED counter,
             s = "completed" => tasks[t].status = "completed",
             Update(t, [tasks[t] EXCEPT !.status = s])
      PROVE  Kind
  BY <1>1, StatusChange, StatusChanges DEF Kind
<1>2. ASSUME NEW t \in TaskIds, NEW i \in 1..Len(tasks[t].steps), NEW step \in Step,
             MutexFree, tasks[t].status # "absent", UNCHANGED counter,
             tasks[t].steps[i].output => step.output,
             SetStep(t, i, step)
      PROVE  Kind
  BY <1>2, StepChange, StepChanges DEF Kind
<1>3. ASSUME NEW t \in TaskIds, CreateTask(t)
      PROVE  Kind /\ counter' \in Nat /\ counter <= counter'
  <2>1. PICK n \in 1..MaxSteps : NewTask(t, n)
    BY <1>3 DEF CreateTask
  <2> DEFINE steps == [i \in 1..n |-> PendingStep]
             task == [status |-> "queued", steps |-> steps]
  <2>2. steps \in Seq(Step) /\ Len(steps) = n /\ n \in Nat /\ n <= MaxSteps
    <3>1. PendingStep \in Step
      BY DEF PendingStep, Step
    <3>2. n \in Nat /\ n <= MaxSteps
      BY TasksAssumption
    <3> QED BY <3>1, <3>2
  <2>3. task \in Task /\ task.status = "queued" /\ task.steps = steps
    BY <2>2 DEF Task, TaskStatus
  <2>4. tasks[t].status = "absent" /\ t = counter + 1 /\ counter' = t /\ MutexFree
    BY <1>0, <2>1 DEF Counted, NewTask
  <2>5. Update(t, task)
    BY <2>1 DEF NewTask
  <2> HIDE DEF task
  <2>6. tasks'[t] = task
    BY <2>5 DEF Update, Types
  <2>8. Change(t, task)
    BY <1>0, <2>2, <2>3, <2>4, <2>5, <2>6 DEF Change
  <2> QED
    BY <1>0, <2>3, <2>4, <2>8 DEF Kind
<1>4. ASSUME NEW t \in TaskIds, CancelTask(t) \/ PauseTask(t) \/ ResumeTask(t)
      PROVE  Kind /\ UNCHANGED counter
  BY <1>0, <1>1, <1>4 DEF CancelTask, PauseTask, ResumeTask
<1>5. ASSUME NEW t \in TaskIds, AssignTask(t)
      PROVE  Kind /\ UNCHANGED counter
  <2> DEFINE s == IF tasks[t].status = "queued" THEN "assigned" ELSE tasks[t].status
  <2>1. tasks[t].status \in TaskStatus \ {"absent"}
    BY <1>0, <1>5, StatusChange DEF AssignTask
  <2>2. s \in TaskStatus \ {"absent"} /\ (s = "completed" => tasks[t].status = "completed")
    BY <1>0, <2>1
  <2>3. tasks[t] \in Task
    BY DEF Types
  <2>4. [tasks[t] EXCEPT !.status = IF @ = "queued" THEN "assigned" ELSE @]
          = [tasks[t] EXCEPT !.status = s]
    OBVIOUS
  <2>5. /\ MutexFree /\ tasks[t].status # "absent" /\ UNCHANGED counter
        /\ Update(t, [tasks[t] EXCEPT !.status = s])
    BY <1>5, <2>4 DEF AssignTask
  <2> HIDE DEF s
  <2> QED BY <1>1, <2>2, <2>5
<1>6. ASSUME NEW t \in TaskIds, NEW r \in Runners, StartTask(r, t)
      PROVE  NoChange /\ UNCHANGED counter
  BY <1>6 DEF StartTask, NoChange
<1>7. ASSUME NEW r \in Runners, CheckPause(r)
      PROVE  NoChange /\ UNCHANGED counter
  BY <1>7 DEF CheckPause, NoChange
<1>8. ASSUME NEW r \in Runners, MarkTaskRunning(r)
      PROVE  Kind /\ UNCHANGED counter
  <2>1. CASE tasks[runner[r].task].status \in {"running", "completed"}
    BY <1>8, <2>1 DEF MarkTaskRunning, Kind, NoChange
  <2>2. CASE tasks[runner[r].task].status \notin {"running", "completed"}
    BY <1>0, <1>1, <1>8, <2>2, RunnerAt DEF MarkTaskRunning, AtPC
  <2> QED BY <1>8, <2>1, <2>2 DEF MarkTaskRunning
<1>9. ASSUME NEW r \in Runners, FailTask(r)
      PROVE  Kind /\ UNCHANGED counter
  BY <1>0, <1>1, <1>9, RunnerAt DEF FailTask, AtPC
<1>10. ASSUME NEW r \in Runners, BeginStep(r) \/ StepSucceeds(r) \/ StepFails(r)
       PROVE  Kind /\ UNCHANGED counter
  <2> DEFINE t == runner[r].task
             i == runner[r].idx
             step == tasks[t].steps[i]
  <2>1. /\ t \in TaskIds /\ i \in 1..Len(tasks[t].steps) /\ step \in Step
        /\ tasks[t].status # "absent" /\ MutexFree /\ UNCHANGED counter
    BY <1>10, RunnerAt DEF AtPC, BeginStep, StepSucceeds, StepFails
  <2>2. /\ [step EXCEPT !.status = "running"] \in Step
        /\ [step EXCEPT !.status = "failed"] \in Step
        /\ [status |-> "completed", output |-> TRUE] \in Step
        /\ [step EXCEPT !.status = "running"].output = step.output
        /\ [step EXCEPT !.status = "failed"].output = step.output
    BY <2>1 DEF Step
  <2>3. \/ SetStep(t, i, [step EXCEPT !.status = "running"])
        \/ SetStep(t, i, [status |-> "completed", output |-> TRUE])
        \/ SetStep(t, i, [step EXCEPT !.status = "failed"])
    BY <1>10 DEF BeginStep, StepSucceeds, StepFails
  <2> HIDE DEF step, t, i
  <2> QED BY <1>2, <2>1, <2>2, <2>3 DEF step
<1>11. ASSUME NEW r \in Runners, CompleteTask(r)
       PROVE  Kind /\ UNCHANGED counter
  <2> DEFINE t == runner[r].task
             task == [tasks[t] EXCEPT !.status = "completed"]
  <2>1. /\ t \in TaskIds /\ tasks[t].status # "absent" /\ HasOutputs(tasks[t].steps)
        /\ MutexFree /\ UNCHANGED counter /\ Update(t, task)
    BY <1>11, RunnerAt DEF CompleteTask, AtPC
  <2>2. /\ task \in Task /\ task.status = "completed" /\ task.steps = tasks[t].steps
        /\ Len(tasks[t].steps) <= MaxSteps
    BY <1>0, <2>1, StatusChange
  <2> HIDE DEF task, t
  <2>3. Change(t, task)
    BY <1>0, <2>1, <2>2 DEF Change, Counted
  <2> QED BY <2>1, <2>2, <2>3 DEF Kind
<1>12. CASE UNCHANGED taskVars
  BY <1>0, <1>12 DEF taskVars, NoChange, Kind
<1> QED
  BY <1>0, <1>3, <1>4, <1>5, <1>6, <1>7, <1>8, <1>9, <1>10, <1>11, <1>12, NextCases
     DEF Kind

(* --------------------------- the invariant's parts ----------------------- *)

Inv == Types /\ Saved /\ Outputs /\ Progress /\ Counted /\ Pauses

LEMMA InitInv == ASSUME TasksInit PROVE Inv
<1>1. Absent \in Task /\ Len(Absent.steps) = 0
  BY DEF Absent, Task, TaskStatus
<1>2. Types
  BY <1>1, TasksAssumption DEF TasksInit, Types, Plan, Free, Pcs
<1>3. Saved /\ Outputs /\ Counted
  BY TasksAssumption DEF TasksInit, Saved, Outputs, Counted, Absent, Unlocked
<1>4. Progress /\ Pauses
  BY TasksAssumption DEF TasksInit, Progress, OnTrack, Pauses, Free
<1> QED BY <1>2, <1>3, <1>4 DEF Inv

LEMMA TaskEqual ==
  ASSUME NEW a \in Task, NEW b \in Task, a.status = b.status, a.steps = b.steps
  PROVE  a = b
BY DEF Task

\* A saved task keeps the database what it is.
LEMMA RowTypes ==
  ASSUME Types, NEW t \in TaskIds, NEW row \in Task, Len(row.steps) <= MaxSteps,
         db' = [db EXCEPT ![t] = row]
  PROVE  /\ db' \in [TaskIds -> Task]
         /\ db'[t] = row
         /\ \A u \in TaskIds : Plan(db'[u]) /\ (u # t => db'[u] = db[u])
BY DEF Types, Plan

\* persistTask changes the database and nothing else.
LEMMA Persisting ==
  ASSUME Types, Saved, Outputs, Counted, UpsertRow \/ DeleteSteps \/ InsertStep
  PROVE  /\ UNCHANGED <<tasks, counter, runner, late>>
         /\ db' \in [TaskIds -> Task] /\ \A t \in TaskIds : Plan(db'[t])
         /\ Saved' /\ Outputs' /\ Counted'
<1> DEFINE t == writing.task
           s == writing.stage
           image == writing.image
<1>1. /\ writing # Unlocked /\ t \in TaskIds /\ s \in Nat
      /\ UNCHANGED <<tasks, counter, runner, late>>
      /\ writing = [task |-> t, stage |-> s, image |-> image]
      /\ image \in Task /\ Len(image.steps) <= MaxSteps /\ t <= counter
      /\ t \in TaskIds => image = tasks[t]
  BY DEF UpsertRow, DeleteSteps, InsertStep, Saved, Unlocked, MutexFree
<1>2. /\ image \in Task /\ db[t] \in Task
      /\ image.steps \in Seq(Step) /\ db[t].steps \in Seq(Step)
      /\ Len(image.steps) \in Nat /\ Len(image.steps) <= MaxSteps
      /\ image.status \in TaskStatus
      /\ t # 0
  <2>1. image \in Task /\ db[t] \in Task /\ Plan(image)
    BY <1>1 DEF Types, Plan
  <2>2. image.steps \in Seq(Step) /\ db[t].steps \in Seq(Step) /\ image.status \in TaskStatus
    BY <2>1 DEF Task
  <2> QED BY <1>1, <2>1, <2>2, TasksAssumption DEF Plan
<1>3. CASE UpsertRow
  <2> DEFINE row == [db[t] EXCEPT !.status = image.status]
  <2>1. /\ db' = [db EXCEPT ![t] = row] /\ writing' = [writing EXCEPT !.stage = 1] /\ s = 0
    BY <1>3 DEF UpsertRow
  <2>2. row \in Task /\ row.steps = db[t].steps /\ row.status = image.status
    BY <1>2 DEF Task
  <2>3. db' \in [TaskIds -> Task] /\ \A u \in TaskIds : Plan(db'[u])
    BY <1>1, <2>1, <2>2 DEF Types, Plan
  <2>4. writing' = [task |-> t, stage |-> 1, image |-> image]
    BY <1>1, <2>1
  <2>5. Saved'
    <3>1. /\ db'[t] = row /\ \A u \in TaskIds : u # t => db'[u] = tasks[u]
      BY <1>1, <2>1 DEF Saved, Types
    <3> HIDE DEF t, s, image, row
    <3> QED BY <1>1, <1>2, <2>2, <2>4, <3>1 DEF Saved, t, image
  <2>6. Outputs' /\ Counted'
    BY <1>1, <2>1, <2>2 DEF Outputs, Counted, Types, HasOutputs
  <2> QED BY <1>1, <2>3, <2>5, <2>6
<1>4. CASE DeleteSteps
  <2> DEFINE row == [db[t] EXCEPT !.steps = <<>>]
  <2>1. /\ db' = [db EXCEPT ![t] = row] /\ writing' = NextStage /\ s = 1
    BY <1>4 DEF DeleteSteps
  <2>2. row \in Task /\ row.steps = <<>> /\ row.status = db[t].status /\ Len(row.steps) = 0
    <3>1. <<>> \in Seq(Step) /\ Len(<<>>) = 0
      OBVIOUS
    <3> QED BY <1>2, <3>1 DEF Task
  <2>3. db' \in [TaskIds -> Task] /\ \A u \in TaskIds : Plan(db'[u])
    <3>1. Len(row.steps) <= MaxSteps
      BY <2>2, TasksAssumption
    <3> HIDE DEF t
    <3> QED BY <1>1, <2>1, <2>2, <3>1, RowTypes
  <2>4. db[t].status = image.status
    BY <1>1, <2>1 DEF Saved
  <2>5. Saved'
    <3>1. CASE Len(image.steps) = 0
      <4>1. writing' = Unlocked
        BY <1>2, <2>1, <3>1 DEF NextStage
      <4>2. row = image
        <5>1. row.steps = image.steps
          BY <1>2, <2>2, <3>1
        <5> QED BY <1>2, <2>2, <2>4, <5>1, TaskEqual
      <4>3. db'[t] = image
        BY <1>1, <2>1, <4>2 DEF Types
      <4> QED BY <1>1, <2>1, <4>1, <4>3 DEF Saved, Types, Unlocked
    <3>2. CASE Len(image.steps) # 0
      <4>1. writing' = [task |-> t, stage |-> 2, image |-> image]
        BY <1>1, <1>2, <2>1, <3>2 DEF NextStage
      <4> QED BY <1>1, <1>2, <2>1, <2>2, <2>4, <3>2, <4>1 DEF Saved, Types, Unlocked
    <3> QED BY <3>1, <3>2
  <2>6. Outputs' /\ Counted'
    BY <1>1, <2>1, <2>2 DEF Outputs, Counted, Types, HasOutputs
  <2> QED BY <1>1, <2>3, <2>5, <2>6
<1>5. CASE InsertStep
  <2> DEFINE step == image.steps[s - 1]
             row == [db[t] EXCEPT !.steps = Append(db[t].steps, step)]
  <2>1. /\ db' = [db EXCEPT ![t] = row] /\ writing' = NextStage /\ s > 1
    BY <1>5 DEF InsertStep
  <2>2. /\ s - 1 <= Len(image.steps) /\ Len(db[t].steps) = s - 2
        /\ \A i \in 1..(s - 2) : db[t].steps[i] = image.steps[i]
        /\ db[t].status = image.status
    BY <1>1, <2>1 DEF Saved
  <2>3. step \in Step
    BY <1>1, <1>2, <2>1, <2>2
  <2>4. /\ Append(db[t].steps, step) \in Seq(Step)
        /\ Len(Append(db[t].steps, step)) = s - 1
        /\ \A i \in 1..(s - 1) : Append(db[t].steps, step)[i] = image.steps[i]
    BY <1>1, <1>2, <2>1, <2>2, <2>3
  <2>5. /\ row \in Task /\ row.steps = Append(db[t].steps, step)
        /\ row.status = image.status
    BY <1>2, <2>2, <2>4 DEF Task
  <2> HIDE DEF row, step
  <2>6. db' \in [TaskIds -> Task] /\ \A u \in TaskIds : Plan(db'[u])
    <3>1. Len(row.steps) <= MaxSteps
      BY <1>1, <1>2, <2>2, <2>4, <2>5, TasksAssumption
    <3> HIDE DEF t
    <3> QED BY <1>1, <2>1, <2>5, <3>1, RowTypes DEF row
  <2>7. Saved'
    <3>1. CASE s - 1 = Len(image.steps)
      <4>1. writing' = Unlocked
        BY <1>1, <1>2, <2>1, <3>1 DEF NextStage
      <4>2. row.steps = image.steps
        BY <1>1, <1>2, <2>1, <2>4, <2>5, <3>1, SeqEqual
      <4>3. row = image
        BY <1>2, <2>5, <4>2, TaskEqual
      <4>4. db'[t] = image
        BY <1>1, <2>1, <4>3 DEF Types, row
      <4> QED BY <1>1, <2>1, <4>1, <4>4 DEF Saved, Types, Unlocked, row
    <3>2. CASE s - 1 # Len(image.steps)
      <4>1. writing' = [task |-> t, stage |-> s + 1, image |-> image]
        BY <1>1, <1>2, <2>1, <2>2, <3>2 DEF NextStage
      <4>2. s + 1 \in Nat /\ s + 1 > 1 /\ (s + 1) - 1 <= Len(image.steps) /\ (s + 1) - 2 = s - 1
        BY <1>1, <1>2, <2>2, <3>2
      <4>3. /\ db'[t] = row
            /\ \A u \in TaskIds : u # t => db'[u] = tasks[u]
        BY <1>1, <2>1 DEF Saved, Types, row
      <4>4. /\ writing'.task = t /\ writing'.stage = s + 1 /\ writing'.image = image
            /\ tasks' = tasks /\ counter' = counter
            /\ writing' = [task |-> writing'.task, stage |-> writing'.stage,
                           image |-> writing'.image]
        BY <1>1, <4>1
      <4>5. /\ writing'.stage \in Nat /\ writing'.stage - 1 <= Len(image.steps)
            /\ Len(row.steps) = writing'.stage - 2
            /\ \A i \in 1..(writing'.stage - 2) : row.steps[i] = image.steps[i]
        BY <2>4, <2>5, <4>2, <4>4
      <4>6. /\ writing'.task \in TaskIds
            /\ \A u \in TaskIds : writing'.task # u => db'[u] = tasks'[u]
            /\ writing'.task <= counter'
            /\ writing'.task \in TaskIds => writing'.image = tasks'[writing'.task]
        BY <1>1, <4>3, <4>4
      <4>7. /\ db'[writing'.task].status = writing'.image.status
            /\ writing'.stage - 1 <= Len(writing'.image.steps)
            /\ Len(db'[writing'.task].steps) = writing'.stage - 2
            /\ \A i \in 1..(writing'.stage - 2) :
                 db'[writing'.task].steps[i] = writing'.image.steps[i]
        BY <2>5, <4>3, <4>4, <4>5
      <4>8. /\ writing'.image \in Task /\ Len(writing'.image.steps) <= MaxSteps
        BY <1>1, <4>4 DEF Saved
      <4> QED BY <4>4, <4>5, <4>6, <4>7, <4>8 DEF Saved
    <3> QED BY <3>1, <3>2
  <2>8. t \in TaskIds /\ row.status = "completed" => HasOutputs(row.steps)
    <3>1. t \in TaskIds /\ image.status = "completed" => \A i \in 1..(s - 1) : image.steps[i].output
      BY <1>1, <1>2, <2>2 DEF Outputs, HasOutputs
    <3> HIDE DEF t, s, image
    <3> QED BY <1>1, <2>4, <2>5, <3>1 DEF HasOutputs
  <2>9. Outputs' /\ Counted'
    BY <1>1, <2>1, <2>2, <2>5, <2>8 DEF Outputs, Counted, Types
  <2> QED BY <1>1, <2>6, <2>7, <2>9
<1> QED BY <1>3, <1>4, <1>5

\* A change of a task keeps what is saved, its outputs and the counter right.
LEMMA Changing ==
  ASSUME Types, Saved, Outputs, Counted, counter' \in Nat, counter <= counter',
         NEW t \in TaskIds, NEW task \in Task, Change(t, task)
  PROVE  /\ tasks' \in [TaskIds -> Task] /\ db' = db
         /\ \A u \in TaskIds : Plan(tasks'[u])
         /\ Saved' /\ Outputs' /\ Counted'
<1>1. /\ tasks' = [tasks EXCEPT ![t] = task] /\ db' = db
      /\ \A u \in TaskIds : db[u] = tasks[u]
      /\ writing' = [task |-> t, stage |-> 0, image |-> task]
  <2>1. \A u \in TaskIds : writing.task # u /\ db[u] = tasks[u]
    BY TasksAssumption DEF Change, MutexFree, Unlocked, Saved
  <2> QED BY <2>1 DEF Change, Update, PersistTask
<1>2. \A u \in TaskIds : tasks'[u] = IF u = t THEN task ELSE tasks[u]
  BY <1>1 DEF Types
<1>3. tasks' \in [TaskIds -> Task] /\ \A u \in TaskIds : Plan(tasks'[u])
  BY <1>1 DEF Change, Types, Plan
<1>4. Saved'
  BY <1>1, <1>2 DEF Saved, Change
<1>5. Outputs'
  BY <1>1, <1>2 DEF Outputs, Change
<1>6. Counted'
  BY <1>1, <1>2, TasksAssumption DEF Counted, Change, Types
<1> QED BY <1>1, <1>3, <1>4, <1>5, <1>6

\* The next process finds the invariants in the database.
LEMMA Crashing ==
  ASSUME Types, Saved, Outputs, Counted, Crash
  PROVE  Inv'
<1>1. /\ tasks' = db /\ db' = db /\ writing' = Unlocked
      /\ runner' = [r \in Runners |-> Free] /\ late' = [r \in Runners |-> 0]
      /\ counter' \in {n \in Loaded \cup {0} : \A u \in Loaded : u <= n}
  BY DEF Crash, Reload
<1>2. Types'
  BY <1>1, TasksAssumption DEF Types, Free, Pcs, Loaded
<1>3. Saved'
  BY <1>1, TasksAssumption DEF Saved, Unlocked
<1>4. Outputs' /\ Counted'
  BY <1>1 DEF Outputs, Counted, Loaded
<1>5. Progress' /\ Pauses'
  BY <1>1, TasksAssumption DEF Progress, OnTrack, Pauses, Free
<1> QED BY <1>2, <1>3, <1>4, <1>5 DEF Inv

\* Every step keeps the first four parts of the invariant, the tasks what
\* they are, and loses no output of a task that exists.
LEMMA TaskSteps ==
  ASSUME Inv, [TasksNext]_taskVars, ~Crash
  PROVE  /\ tasks' \in [TaskIds -> Task] /\ db' \in [TaskIds -> Task]
         /\ \A t \in TaskIds : Plan(tasks'[t]) /\ Plan(db'[t])
         /\ counter' \in Nat
         /\ Saved' /\ Outputs' /\ Counted'
         /\ \A t \in TaskIds : tasks[t].status # "absent" =>
              /\ tasks'[t].status # "absent"
              /\ Len(tasks'[t].steps) = Len(tasks[t].steps)
              /\ \A j \in 1..Len(tasks[t].steps) :
                   tasks[t].steps[j].output => tasks'[t].steps[j].output
<1> USE DEF Inv
<1>1. CASE UpsertRow \/ DeleteSteps \/ InsertStep
  BY <1>1, Persisting DEF Types
<1>2. CASE ~(UpsertRow \/ DeleteSteps \/ InsertStep \/ Crash)
  <2>1. /\ counter' \in Nat /\ counter <= counter'
        /\ \/ NoChange
           \/ \E t \in TaskIds : \E task \in Task : Change(t, task)
    BY <1>2, Changes
  <2>2. CASE NoChange
    BY <2>1, <2>2, TasksAssumption DEF NoChange, Types, Saved, Outputs, Counted
  <2>3. ASSUME NEW t \in TaskIds, NEW task \in Task, Change(t, task)
        PROVE  /\ tasks' \in [TaskIds -> Task] /\ db' = db
               /\ \A u \in TaskIds : Plan(tasks'[u])
               /\ Saved' /\ Outputs' /\ Counted'
               /\ \A u \in TaskIds : tasks[u].status # "absent" =>
                    /\ tasks'[u].status # "absent"
                    /\ Len(tasks'[u].steps) = Len(tasks[u].steps)
                    /\ \A j \in 1..Len(tasks[u].steps) :
                         tasks[u].steps[j].output => tasks'[u].steps[j].output
    <3>1. \A u \in TaskIds : tasks'[u] = IF u = t THEN task ELSE tasks[u]
      BY <2>3 DEF Change, Update, Types
    <3> QED BY <2>1, <2>3, <3>1, Changing DEF Change
  <2> QED BY <2>1, <2>2, <2>3 DEF Types
<1> QED BY <1>1, <1>2

\* A runner that does not move stays on track, whatever happens to its task.
LEMMA StayingOnTrack ==
  ASSUME Inv, [TasksNext]_taskVars, ~Crash, NEW r \in Runners, runner'[r] = runner[r]
  PROVE  OnTrack(r)'
<1> DEFINE t == runner[r].task
           i == runner[r].idx
<1>1. runner'[r] = runner[r] /\ OnTrack(r) /\ runner[r].idx \in Nat
  BY DEF Inv, Progress, Types
<1>2. CASE runner[r].pc = "free"
  BY <1>1, <1>2 DEF OnTrack
<1>3. CASE runner[r].pc # "free"
  <2>1. t \in TaskIds /\ tasks[t].status # "absent" /\ Len(tasks[t].steps) \in Nat
    BY <1>1, <1>3, StatusChange, "queued" \in TaskStatus DEF OnTrack, TaskStatus, Inv
  <2>2. /\ tasks'[t].status # "absent"
        /\ Len(tasks'[t].steps) = Len(tasks[t].steps)
        /\ \A j \in 1..Len(tasks[t].steps) :
             tasks[t].steps[j].output => tasks'[t].steps[j].output
    BY <2>1, TaskSteps
  <2> QED BY <1>1, <1>3, <2>1, <2>2 DEF OnTrack, HasOutputs
<1> QED BY <1>2, <1>3

\* A runner that a handler starts, or that ends, is on track.
LEMMA StartingOnTrack ==
  ASSUME Types, NEW r \in Runners,
         \/ runner' = [runner EXCEPT ![r] = Free]
         \/ \E t \in TaskIds : /\ runner' = [runner EXCEPT ![r] = [pc |-> "start", task |-> t, idx |-> 0]]
                               /\ tasks'[t].status # "absent"
  PROVE  /\ runner' \in [Runners -> [pc : Pcs, task : TaskIds \cup {0}, idx : Nat]]
         /\ OnTrack(r)'
         /\ \A q \in Runners : q # r => runner'[q] = runner[q]
         /\ runner'[r].pc # "begin"
<1>1. 0 \in Nat /\ 0 <= MaxSteps + 1 /\ {"free", "start"} \subseteq Pcs
  BY TasksAssumption DEF Pcs
<1>2. CASE runner' = [runner EXCEPT ![r] = Free]
  <2>1. Free \in [pc : Pcs, task : TaskIds \cup {0}, idx : Nat] /\ Free.pc = "free" /\ Free.idx = 0
    BY <1>1 DEF Free
  <2>2. runner'[r] = Free
    BY <1>2 DEF Types
  <2> QED BY <1>1, <1>2, <2>1, <2>2 DEF Types, OnTrack
<1>3. ASSUME NEW t \in TaskIds, tasks'[t].status # "absent",
             runner' = [runner EXCEPT ![r] = [pc |-> "start", task |-> t, idx |-> 0]]
      PROVE  /\ runner' \in [Runners -> [pc : Pcs, task : TaskIds \cup {0}, idx : Nat]]
             /\ OnTrack(r)'
             /\ \A q \in Runners : q # r => runner'[q] = runner[q]
             /\ runner'[r].pc # "begin"
  <2>1. runner'[r] = [pc |-> "start", task |-> t, idx |-> 0]
    BY <1>3 DEF Types
  <2>2. OnTrack(r)'
    BY <1>1, <1>3, <2>1 DEF OnTrack
  <2> QED BY <1>1, <1>3, <2>1, <2>2 DEF Types
<1> QED BY <1>2, <1>3

\* So is one that moves within its plan.
LEMMA MovingOnTrack ==
  ASSUME Types, NEW r \in Runners, NEW pc \in Pcs, NEW i \in Nat, Goto(r, pc, i),
         runner[r].task \in TaskIds, tasks'[runner[r].task].status # "absent",
         i <= MaxSteps + 1, pc # "free",
         pc \in {"check", "begin", "call", "fail"} =>
             /\ i \in 1..Len(tasks'[runner[r].task].steps)
             /\ \A j \in 1..(i - 1) : tasks'[runner[r].task].steps[j].output,
         pc = "finish" => HasOutputs(tasks'[runner[r].task].steps)
  PROVE  /\ runner' \in [Runners -> [pc : Pcs, task : TaskIds \cup {0}, idx : Nat]]
         /\ OnTrack(r)'
         /\ \A q \in Runners : q # r => runner'[q] = runner[q]
         /\ runner'[r].pc = pc /\ runner'[r].task = runner[r].task
<1>1. /\ runner' \in [Runners -> [pc : Pcs, task : TaskIds \cup {0}, idx : Nat]]
      /\ runner'[r].pc = pc /\ runner'[r].task = runner[r].task /\ runner'[r].idx = i
      /\ \A q \in Runners : q # r => runner'[q] = runner[q]
  BY DEF Goto, Types
<1>2. OnTrack(r)'
  BY <1>1 DEF OnTrack, HasOutputs
<1> QED BY <1>1, <1>2

\* The loop goes on at the next step, or ends with every output there.
LEMMA LoopingOnTrack ==
  ASSUME Inv, [TasksNext]_taskVars, ~Crash, NEW r \in Runners, NEW i \in Nat \ {0}, LoopTo(r, i),
         runner[r].pc # "free", i <= Len(tasks[runner[r].task].steps) + 1,
         \A j \in 1..(i - 1) : tasks'[runner[r].task].steps[j].output
  PROVE  /\ runner' \in [Runners -> [pc : Pcs, task : TaskIds \cup {0}, idx : Nat]]
         /\ OnTrack(r)'
         /\ \A q \in Runners : q # r => runner'[q] = runner[q]
         /\ runner'[r].pc # "begin"
<1> DEFINE t == runner[r].task
           pc == IF i <= Len(tasks[t].steps) THEN "check" ELSE "finish"
<1>1. /\ t \in TaskIds /\ tasks[t].status # "absent"
      /\ Len(tasks[t].steps) \in Nat /\ Len(tasks[t].steps) <= MaxSteps
  BY RunnerAt, StatusChange, "queued" \in TaskStatus DEF TaskStatus, Inv
<1>2. tasks'[t].status # "absent" /\ Len(tasks'[t].steps) = Len(tasks[t].steps)
  BY <1>1, TaskSteps
<1>3. Goto(r, pc, i) /\ pc \in Pcs
  BY DEF LoopTo, Pcs
<1>4. pc = "check" => i \in 1..Len(tasks'[t].steps)
  BY <1>1, <1>2
<1>5. pc = "finish" => HasOutputs(tasks'[t].steps)
  BY <1>1, <1>2 DEF HasOutputs
<1>6. i <= MaxSteps + 1
  BY <1>1, TasksAssumption
<1>7. pc \in {"check", "finish"}
  OBVIOUS
<1> HIDE DEF pc
<1> QED BY <1>1, <1>2, <1>3, <1>4, <1>5, <1>6, <1>7, MovingOnTrack DEF Inv

(* ------------------------------ the runners ----------------------------- *)

Tracked == runner' \in [Runners -> [pc : Pcs, task : TaskIds \cup {0}, idx : Nat]] /\ Progress'

\* Each step of a handler or runner moves at most one runner, and keeps it
\* on track.
LEMMA TrackedSteps ==
  ASSUME Inv, [TasksNext]_taskVars, ~Crash
  PROVE  Tracked
<1> USE DEF Tracked
<1>0. Types /\ Outputs /\ Progress
  BY DEF Inv
<1>1. ASSUME UNCHANGED runner PROVE Tracked
  BY <1>0, <1>1, StayingOnTrack DEF Progress, Types
<1>2. ASSUME NEW r \in Runners,
             runner' \in [Runners -> [pc : Pcs, task : TaskIds \cup {0}, idx : Nat]],
             OnTrack(r)', \A q \in Runners : q # r => runner'[q] = runner[q]
      PROVE  Tracked
  BY <1>2, StayingOnTrack DEF Progress
<1>3. ASSUME NEW r \in Runners, NEW t \in TaskIds, Spawn(r, t), tasks'[t].status # "absent"
      PROVE  Tracked
  BY <1>0, <1>2, <1>3, StartingOnTrack DEF Spawn
<1>4. ASSUME NEW t \in TaskIds, CreateTask(t)
      PROVE  Tracked
  <2>1. tasks'[t].status # "absent"
    BY <1>0, <1>4, Creating DEF Inv
  <2> QED BY <1>1, <1>3, <1>4, <2>1 DEF CreateTask
<1>5. ASSUME NEW r \in Runners, NEW t \in TaskIds, StartTask(r, t)
      PROVE  Tracked
  BY <1>3, <1>5 DEF StartTask
<1>6. ASSUME NEW r \in Runners, MarkTaskRunning(r)
      PROVE  Tracked
  <2>1. /\ LoopTo(r, 1) /\ runner[r].pc # "free" /\ 1 \in Nat \ {0}
        /\ \A j \in 1..(1 - 1) : tasks'[runner[r].task].steps[j].output
    BY <1>6 DEF MarkTaskRunning, AtPC
  <2>2. Len(tasks[runner[r].task].steps) \in Nat
    BY <1>0, <2>1, RunnerAt, StatusChange, "queued" \in TaskStatus DEF TaskStatus
  <2> QED BY <1>2, <2>1, <2>2, LoopingOnTrack
<1>7. ASSUME NEW r \in Runners, CheckPause(r) \/ BeginStep(r) \/ StepFails(r)
      PROVE  Tracked
  <2> DEFINE t == runner[r].task
             i == runner[r].idx
  <2>1. PICK pc \in {"begin", "call", "fail"} : Goto(r, pc, i)
    BY <1>7 DEF CheckPause, BeginStep, StepFails
  <2>2. /\ t \in TaskIds /\ tasks[t].status # "absent" /\ i \in Nat
        /\ i \in 1..Len(tasks[t].steps) /\ i <= MaxSteps + 1
        /\ \A j \in 1..(i - 1) : tasks[t].steps[j].output
    BY <1>0, <1>7, RunnerAt DEF CheckPause, BeginStep, StepFails, AtPC, Progress, OnTrack
  <2>3. /\ tasks'[t].status # "absent"
        /\ Len(tasks'[t].steps) = Len(tasks[t].steps)
        /\ \A j \in 1..Len(tasks[t].steps) :
             tasks[t].steps[j].output => tasks'[t].steps[j].output
    BY <2>2, TaskSteps
  <2>4. /\ i \in 1..Len(tasks'[t].steps)
        /\ \A j \in 1..(i - 1) : tasks'[t].steps[j].output
    BY <2>2, <2>3
  <2>5. pc \in Pcs /\ pc # "free" /\ pc # "finish"
    BY DEF Pcs
  <2> QED BY <1>0, <1>2, <2>1, <2>2, <2>3, <2>4, <2>5, MovingOnTrack
<1>8. ASSUME NEW r \in Runners, StepSucceeds(r)
      PROVE  Tracked
  <2> DEFINE t == runner[r].task
             i == runner[r].idx
             step == [status |-> "completed", output |-> TRUE]
  <2>1. /\ SetStep(t, i, step) /\ LoopTo(r, i + 1)
        /\ runner[r].pc = "call" /\ step \in Step
    BY <1>8 DEF StepSucceeds, AtPC, Step
  <2>2. /\ t \in TaskIds /\ i \in Nat /\ i \in 1..Len(tasks[t].steps)
        /\ tasks[t].status # "absent" /\ Len(tasks[t].steps) \in Nat
        /\ \A j \in 1..(i - 1) : tasks[t].steps[j].output
    BY <1>0, <2>1, RunnerAt, StatusChange, "queued" \in TaskStatus
       DEF Progress, OnTrack, TaskStatus
  <2>3. \A j \in 1..Len(tasks[t].steps) :
          tasks[t].steps[j].output => tasks'[t].steps[j].output
    BY <2>2, TaskSteps
  <2>4. tasks'[t] = [tasks[t] EXCEPT !.steps[i] = step]
    BY <1>0, <2>1, <2>2 DEF SetStep, Update, Types
  <2>5. tasks'[t].steps[i] = step
    BY <1>0, <2>1, <2>2, <2>4, StepChange
  <2>6. \A j \in 1..((i + 1) - 1) : tasks'[t].steps[j].output
    BY <2>2, <2>3, <2>5
  <2> QED BY <1>2, <2>1, <2>2, <2>6, LoopingOnTrack
<1>9. ASSUME NEW r \in Runners, FailTask(r) \/ CompleteTask(r)
      PROVE  Tracked
  BY <1>0, <1>2, <1>9, StartingOnTrack DEF FailTask, CompleteTask, Gone
<1>10. ASSUME NEW t \in TaskIds, CancelTask(t) \/ PauseTask(t) \/ ResumeTask(t) \/ AssignTask(t)
       PROVE  Tracked
  BY <1>1, <1>10 DEF CancelTask, PauseTask, ResumeTask, AssignTask
<1>11. CASE UpsertRow \/ DeleteSteps \/ InsertStep \/ UNCHANGED taskVars
  BY <1>1, <1>11 DEF UpsertRow, DeleteSteps, InsertStep, taskVars
<1> QED
  BY <1>4, <1>5, <1>6, <1>7, <1>8, <1>9, <1>10, <1>11, NextCases

\* A step that pauses no task and moves no runner to "begin", or only one
\* whose task is not paused, leaves the pauses right.
LEMMA NoNewPause ==
  ASSUME Inv, NEW r \in Runners, late' = late \/ late' = [late EXCEPT ![r] = 0],
         \A q \in Runners : q # r => runner'[q] = runner[q],
         runner'[r] = runner[r] \/ runner'[r].pc # "begin"
            \/ tasks'[runner'[r].task].status # "paused",
         \A t \in TaskIds : tasks'[t].status = "paused" => tasks[t].status = "paused"
  PROVE  late' \in [Runners -> Nat] /\ Pauses'
<1>1. late' \in [Runners -> Nat] /\ \A q \in Runners : late'[q] <= 1 /\ late'[q] <= late[q]
  BY DEF Inv, Types, Pauses
<1>2. ASSUME NEW q \in Runners, runner'[q].pc = "begin",
             tasks'[runner'[q].task].status = "paused"
      PROVE  late'[q] = 0
  <2>1. runner'[q] = runner[q]
    BY <1>2
  <2>2. runner[q].task \in TaskIds
    BY <1>2, <2>1 DEF Inv, Progress, OnTrack
  <2>3. late[q] = 0
    BY <1>2, <2>1, <2>2 DEF Inv, Pauses
  <2> QED BY <1>1, <2>3 DEF Inv, Types
<1> QED BY <1>1, <1>2 DEF Pauses

LEMMA PauseSteps ==
  ASSUME Inv, [TasksNext]_taskVars, ~Crash
  PROVE  late' \in [Runners -> Nat] /\ Pauses'
<1> DEFINE Held == late' \in [Runners -> Nat] /\ Pauses'
<1> SUFFICES Held
  OBVIOUS
<1> HIDE DEF Held
<1>0. Types /\ Progress /\ Pauses
  BY DEF Inv
<1>1. ASSUME late' = late, runner' = runner,
             \A t \in TaskIds : tasks'[t].status = "paused" => tasks[t].status = "paused"
      PROVE  Held
  <2>1. ASSUME NEW r \in Runners PROVE Held
    BY <1>1, <2>1, NoNewPause DEF Held
  <2>2. CASE Runners = {}
    BY <1>0, <1>1, <2>2 DEF Types, Pauses, Held
  <2> QED BY <2>1, <2>2
<1>2. ASSUME NEW r \in Runners, late' = late \/ late' = [late EXCEPT ![r] = 0],
             \A q \in Runners : q # r => runner'[q] = runner[q],
             runner'[r].pc # "begin" \/ tasks'[runner'[r].task].status # "paused",
             \A t \in TaskIds : tasks'[t].status = "paused" => tasks[t].status = "paused"
      PROVE  Held
  BY <1>2, NoNewPause DEF Held
<1>3. ASSUME NEW t \in TaskIds, NEW task, Update(t, task)
      PROVE  \A u \in TaskIds : tasks'[u] = IF u = t THEN task ELSE tasks[u]
  BY <1>0, <1>3 DEF Update, Types
<1>4. ASSUME NEW t \in TaskIds, NEW s \in TaskStatus \ {"paused"},
             Update(t, [tasks[t] EXCEPT !.status = s])
      PROVE  \A u \in TaskIds : tasks'[u].status = "paused" => tasks[u].status = "paused"
  <2> DEFINE task == [tasks[t] EXCEPT !.status = s]
  <2>1. task.status = s
    BY <1>0, StatusChange
  <2>2. Update(t, task)
    BY <1>4
  <2> HIDE DEF task
  <2> QED BY <1>3, <1>4, <2>1, <2>2
<1>5. ASSUME NEW t \in TaskIds, NEW i \in 1..Len(tasks[t].steps), NEW step \in Step,
             SetStep(t, i, step)
      PROVE  \A u \in TaskIds : tasks'[u].status = tasks[u].status
  <2> DEFINE task == [tasks[t] EXCEPT !.steps[i] = step]
  <2>1. task.status = tasks[t].status
    BY <1>0, StepChange
  <2>2. Update(t, task)
    BY <1>5 DEF SetStep
  <2> HIDE DEF task
  <2> QED BY <1>3, <2>1, <2>2
<1>6. {"queued", "cancelled", "running", "completed", "failed", "assigned"}
         \subseteq TaskStatus \ {"paused"}
  BY DEF TaskStatus
<1>7. ASSUME NEW r \in Runners, NEW t, Spawn(r, t)
      PROVE  /\ runner'[r].pc # "begin" /\ late' = [late EXCEPT ![r] = 0]
             /\ \A q \in Runners : q # r => runner'[q] = runner[q]
  BY <1>0, <1>7 DEF Spawn, Types
<1>8. ASSUME NEW t \in TaskIds, CreateTask(t)
      PROVE  Held
  <2>1. \A u \in TaskIds : tasks'[u].status = "paused" => tasks[u].status = "paused"
    BY <1>0, <1>8, Creating DEF Inv
  <2> QED BY <1>1, <1>2, <1>7, <1>8, <2>1 DEF CreateTask
<1>9. ASSUME NEW r \in Runners, NEW t \in TaskIds, StartTask(r, t)
      PROVE  Held
  BY <1>2, <1>7, <1>9 DEF StartTask
<1>10. ASSUME NEW t \in TaskIds, CancelTask(t) \/ ResumeTask(t)
       PROVE  Held
  BY <1>1, <1>4, <1>6, <1>10 DEF CancelTask, ResumeTask
<1>11. ASSUME NEW t \in TaskIds, AssignTask(t)
       PROVE  Held
  <2>1. tasks[t] \in Task
    BY <1>0 DEF Types
  <2>2. \A u \in TaskIds : tasks'[u].status = "paused" => tasks[u].status = "paused"
    BY <1>0, <1>11, <2>1 DEF AssignTask, Update, Types, Task
  <2> QED BY <1>1, <1>11, <2>2 DEF AssignTask
<1>12. ASSUME NEW t \in TaskIds, PauseTask(t)
       PROVE  Held
  <2>1. /\ late' = [r \in Runners |->
              IF runner[r].task = t /\ tasks[t].status # "paused" THEN 0 ELSE late[r]]
        /\ runner' = runner /\ Update(t, [tasks[t] EXCEPT !.status = "paused"])
    BY <1>12 DEF PauseTask, PauseBegins
  <2>2. \A u \in TaskIds : u # t => tasks'[u] = tasks[u]
    BY <1>3, <2>1
  <2>3. late' \in [Runners -> Nat] /\ \A r \in Runners : late'[r] <= 1
    BY <1>0, <2>1 DEF Types, Pauses
  <2>4. ASSUME NEW r \in Runners, runner[r].pc = "begin",
               tasks'[runner[r].task].status = "paused"
        PROVE  late'[r] = 0
    <3>1. runner[r].task \in TaskIds
      BY <1>0, <2>4 DEF Progress, OnTrack
    <3> QED BY <1>0, <2>1, <2>2, <2>4, <3>1 DEF Pauses
  <2> QED BY <2>1, <2>3, <2>4 DEF Pauses, Held
<1>13. ASSUME NEW r \in Runners, MarkTaskRunning(r)
       PROVE  Held
  <2>1. runner'[r].pc # "begin" /\ \A q \in Runners : q # r => runner'[q] = runner[q]
    BY <1>0, <1>13 DEF MarkTaskRunning, LoopTo, Goto, Types
  <2>2. runner[r].task \in TaskIds
    BY <1>0, <1>13, RunnerAt DEF MarkTaskRunning, AtPC
  <2>3. \A u \in TaskIds : tasks'[u].status = "paused" => tasks[u].status = "paused"
    BY <1>4, <1>6, <1>13, <2>2 DEF MarkTaskRunning
  <2> QED BY <1>2, <1>13, <2>1, <2>3 DEF MarkTaskRunning
<1>14. ASSUME NEW r \in Runners, CheckPause(r)
       PROVE  Held
  <2>1. /\ runner'[r].task = runner[r].task /\ tasks' = tasks
        /\ \A q \in Runners : q # r => runner'[q] = runner[q]
    BY <1>0, <1>14 DEF CheckPause, Goto, Types
  <2> QED BY <1>2, <1>14, <2>1 DEF CheckPause
<1>15. ASSUME NEW r \in Runners, BeginStep(r)
       PROVE  Held
  <2> DEFINE t == runner[r].task
             i == runner[r].idx
  <2>1. /\ t \in TaskIds /\ i \in 1..Len(tasks[t].steps)
        /\ [tasks[t].steps[i] EXCEPT !.status = "running"] \in Step
    BY <1>0, <1>15, RunnerAt DEF BeginStep, AtPC, Step
  <2>2. \A u \in TaskIds : tasks'[u].status = tasks[u].status
    BY <1>5, <1>15, <2>1 DEF BeginStep
  <2>3. /\ runner'[r].pc = "call" /\ \A q \in Runners : q # r => runner'[q] = runner[q]
        /\ late' = [late EXCEPT ![r] = IF tasks[t].status = "paused" THEN @ + 1 ELSE @]
        /\ runner[r].pc = "begin"
    BY <1>0, <1>15 DEF BeginStep, AtPC, Goto, Types
  <2>4. late[r] \in Nat /\ late[r] <= 1 /\ (tasks[t].status = "paused" => late[r] = 0)
    BY <1>0, <2>3 DEF Types, Pauses
  <2>5. /\ late' \in [Runners -> Nat] /\ late'[r] <= 1
        /\ \A q \in Runners : q # r => late'[q] = late[q]
    BY <1>0, <2>3, <2>4 DEF Types
  <2>6. ASSUME NEW q \in Runners, runner'[q].pc = "begin",
               tasks'[runner'[q].task].status = "paused"
        PROVE  late'[q] = 0
    <3>1. q # r /\ runner'[q] = runner[q]
      BY <2>3, <2>6
    <3>2. runner[q].task \in TaskIds
      BY <1>0, <2>6, <3>1 DEF Progress, OnTrack
    <3> QED BY <1>0, <2>2, <2>5, <2>6, <3>1, <3>2 DEF Pauses
  <2> QED BY <1>0, <2>5, <2>6 DEF Pauses, Held
<1>16. ASSUME NEW r \in Runners, StepSucceeds(r) \/ StepFails(r)
       PROVE  Held
  <2> DEFINE t == runner[r].task
             i == runner[r].idx
  <2>1. /\ t \in TaskIds /\ i \in 1..Len(tasks[t].steps)
        /\ [tasks[t].steps[i] EXCEPT !.status = "failed"] \in Step
        /\ [status |-> "completed", output |-> TRUE] \in Step
    BY <1>0, <1>16, RunnerAt DEF StepSucceeds, StepFails, AtPC, Step
  <2>2. \A u \in TaskIds : tasks'[u].status = tasks[u].status
    BY <1>5, <1>16, <2>1 DEF StepSucceeds, StepFails
  <2>3. runner'[r].pc # "begin" /\ \A q \in Runners : q # r => runner'[q] = runner[q]
    BY <1>0, <1>16 DEF StepSucceeds, StepFails, LoopTo, Goto, Types
  <2> QED BY <1>2, <1>16, <2>2, <2>3 DEF StepSucceeds, StepFails
<1>17. ASSUME NEW r \in Runners, FailTask(r) \/ CompleteTask(r)
       PROVE  Held
  <2>1. runner'[r].pc # "begin" /\ \A q \in Runners : q # r => runner'[q] = runner[q]
    BY <1>0, <1>17 DEF FailTask, CompleteTask, Gone, Free, Types
  <2>2. runner[r].task \in TaskIds
    BY <1>0, <1>17, RunnerAt DEF FailTask, CompleteTask, AtPC
  <2>3. \A u \in TaskIds : tasks'[u].status = "paused" => tasks[u].status = "paused"
    BY <1>4, <1>6, <1>17, <2>2 DEF FailTask, CompleteTask
  <2> QED BY <1>2, <1>17, <2>1, <2>3 DEF FailTask, CompleteTask
<1>18. CASE UpsertRow \/ DeleteSteps \/ InsertStep \/ UNCHANGED taskVars
  BY <1>1, <1>18 DEF UpsertRow, DeleteSteps, InsertStep, taskVars
<1> QED
  BY <1>8, <1>9, <1>10, <1>11, <1>12, <1>13, <1>14, <1>15, <1>16, <1>17, <1>18, NextCases

(* -------------------------------- theorems ------------------------------ *)

\* The invariant is inductive.
LEMMA Invariance == TasksSpec => []Inv
<1>1. TasksInit => Inv
  BY InitInv
<1>2. Inv /\ [TasksNext]_taskVars => Inv'
  <2> SUFFICES ASSUME Inv, [TasksNext]_taskVars
               PROVE  Inv'
    OBVIOUS
  <2>1. CASE Crash
    BY <2>1, Crashing DEF Inv
  <2>2. CASE ~Crash
    <3>1. Types'
      BY <2>2, TaskSteps, TrackedSteps, PauseSteps DEF Types, Tracked
    <3> QED BY <2>2, <3>1, TaskSteps, TrackedSteps, PauseSteps DEF Inv, Tracked
  <2> QED BY <2>1, <2>2
<1> QED BY <1>1, <1>2, PTL DEF TasksSpec

LEMMA SavedIsCurrent ==
  ASSUME Inv, MutexFree
  PROVE  \A t \in TaskIds : db[t] = tasks[t]
BY TasksAssumption DEF Inv, Saved, MutexFree, Unlocked

(* Types, plans within max_steps, runners within their plans and persistTask *)
(* within its statements (manager.go:309-558, 1584-1796, 3477-3516).         *)
THEOREM TypeCorrect == TasksSpec => []TasksTypeOK
<1>1. Inv => TasksTypeOK
  <2> SUFFICES ASSUME Inv PROVE TasksTypeOK
    OBVIOUS
  <2>1. runner \in [Runners -> [pc : Pcs, task : TaskIds \cup {0}, idx : Stages]]
    <3>1. ASSUME NEW r \in Runners
          PROVE  runner[r] \in [pc : Pcs, task : TaskIds \cup {0}, idx : Stages]
      <4>1. /\ runner[r] \in [pc : Pcs, task : TaskIds \cup {0}, idx : Nat]
            /\ runner[r].idx <= MaxSteps + 1
        BY DEF Inv, Types, Progress, OnTrack
      <4> QED BY <4>1, TasksAssumption DEF Stages
    <3> QED BY <3>1 DEF Inv, Types
  <2>2. writing \in {Unlocked} \cup [task : TaskIds, stage : Stages, image : Task]
    <3>1. CASE writing # Unlocked
      <4>1. /\ writing.task \in TaskIds /\ writing.stage \in Nat
            /\ writing = [task |-> writing.task, stage |-> writing.stage,
                          image |-> writing.image]
            /\ writing.image \in Task /\ Len(writing.image.steps) <= MaxSteps
            /\ writing.stage > 1 => writing.stage - 1 <= Len(writing.image.steps)
        BY <3>1 DEF Inv, Saved
      <4>2. Len(writing.image.steps) \in Nat
        BY <4>1 DEF Task
      <4>3. writing.stage \in Stages
        BY <4>1, <4>2, TasksAssumption DEF Stages
      <4> QED BY <4>1, <4>3
    <3> QED BY <3>1
  <2> QED BY <2>1, <2>2 DEF Inv, Saved, Types, TasksTypeOK, Plan
<1> QED BY <1>1, Invariance, PTL

(* A pause takes hold after at most one step (manager.go:1625, 1697-1704).  *)
THEOREM PausesTakeHold == TasksSpec => []PauseTakesHold
<1>1. Inv => PauseTakesHold
  BY DEF Inv, Pauses, PauseTakesHold
<1> QED BY <1>1, Invariance, PTL

(* Nobody leaves the mutex before the database agrees (manager.go:3477).    *)
THEOREM DatabaseIsCurrent == TasksSpec => []DatabaseCurrent
<1>1. Inv => DatabaseCurrent
  BY SavedIsCurrent DEF DatabaseCurrent
<1> QED BY <1>1, Invariance, PTL

(* A completed task has the output of every step, with several runners and  *)
(* after any crash (manager.go:1584-1796, 3056-3067).                       *)
THEOREM CompletedTasksHaveOutputs == TasksSpec => []CompletedHasOutputs
<1>1. Inv => CompletedHasOutputs
  BY DEF Inv, Outputs, CompletedHasOutputs
<1> QED BY <1>1, Invariance, PTL

(* No task id is given twice (manager.go:288-301, 317).                     *)
THEOREM IdsAreFresh == TasksSpec => []CounterCoversTasks
<1>1. Inv => CounterCoversTasks
  BY DEF Inv, Counted, CounterCoversTasks
<1> QED BY <1>1, Invariance, PTL

(* Nothing but a second runner whose step fails changes a saved completed   *)
(* task, and a restart finds it completed (manager.go:484-534, 3025-3080).  *)
THEOREM CompletedTasksAreFinal == TasksSpec => CompletedIsFinal
<1> DEFINE Final == \A t \in TaskIds :
               tasks[t].status = "completed" => tasks'[t].status \in {"completed", "failed"}
<1>1. Inv /\ [TasksNext]_taskVars => (MutexFree => Final) \/ UNCHANGED taskVars
  <2> SUFFICES ASSUME Inv, [TasksNext]_taskVars, MutexFree
               PROVE  Final
    OBVIOUS
  <2>0. Types /\ Progress /\ Counted
    BY DEF Inv
  <2>1. ASSUME tasks' = tasks PROVE Final
    BY <2>1
  <2>2. ASSUME NEW t \in TaskIds, NEW task, Update(t, task),
               tasks[t].status = "completed" => task.status \in {"completed", "failed"}
        PROVE  Final
    BY <2>0, <2>2 DEF Update, Types
  <2>3. ASSUME NEW t \in TaskIds, NEW s \in TaskStatus,
               Update(t, [tasks[t] EXCEPT !.status = s]),
               tasks[t].status # "completed" \/ s \in {"completed", "failed"}
        PROVE  Final
    <3> DEFINE task == [tasks[t] EXCEPT !.status = s]
    <3>1. task.status = s
      BY <2>0, StatusChange
    <3>2. Update(t, task)
      BY <2>3
    <3> HIDE DEF task
    <3> QED BY <2>2, <2>3, <3>1, <3>2
  <2>4. ASSUME NEW t \in TaskIds, NEW i \in 1..Len(tasks[t].steps), NEW step \in Step,
               SetStep(t, i, step)
        PROVE  Final
    <3> DEFINE task == [tasks[t] EXCEPT !.steps[i] = step]
    <3>1. task.status = tasks[t].status
      BY <2>0, StepChange
    <3>2. Update(t, task)
      BY <2>4 DEF SetStep
    <3> HIDE DEF task
    <3> QED BY <2>2, <3>1, <3>2
  <2>5. {"queued", "cancelled", "running", "completed", "failed", "paused"} \subseteq TaskStatus
    BY DEF TaskStatus
  <2>6. CASE Crash
    <3>1. \A t \in TaskIds : tasks'[t] = tasks[t]
      BY <2>6, SavedIsCurrent DEF Crash, Reload
    <3> QED BY <3>1
  <2>7. ASSUME NEW t \in TaskIds, CreateTask(t)
        PROVE  Final
    BY <2>0, <2>7, Creating
    <2>8. ASSUME NEW t \in TaskIds, CancelTask(t) \/ PauseTask(t) \/ ResumeTask(t)
        PROVE  Final
    BY <2>3, <2>5, <2>8 DEF CancelTask, PauseTask, ResumeTask
  <2>9. ASSUME NEW t \in TaskIds, AssignTask(t)
        PROVE  Final
    <3>1. tasks[t] \in Task
      BY <2>0 DEF Types
    <3> QED BY <2>0, <2>9, <3>1 DEF AssignTask, Update, Types, Task
  <2>10. ASSUME NEW r \in Runners, MarkTaskRunning(r)
         PROVE  Final
    BY <2>0, <2>1, <2>3, <2>5, <2>10, RunnerAt DEF MarkTaskRunning, AtPC
  <2>11. ASSUME NEW r \in Runners, BeginStep(r) \/ StepSucceeds(r) \/ StepFails(r)
         PROVE  Final
    <3> DEFINE t == runner[r].task
               i == runner[r].idx
               step == tasks[t].steps[i]
    <3>1. /\ t \in TaskIds /\ i \in 1..Len(tasks[t].steps) /\ step \in Step
      BY <2>0, <2>11, RunnerAt DEF AtPC, BeginStep, StepSucceeds, StepFails
    <3>2. /\ [step EXCEPT !.status = "running"] \in Step
          /\ [step EXCEPT !.status = "failed"] \in Step
          /\ [status |-> "completed", output |-> TRUE] \in Step
      BY <3>1 DEF Step
    <3>3. \/ SetStep(t, i, [step EXCEPT !.status = "running"])
          \/ SetStep(t, i, [status |-> "completed", output |-> TRUE])
          \/ SetStep(t, i, [step EXCEPT !.status = "failed"])
      BY <2>11 DEF BeginStep, StepSucceeds, StepFails
    <3> HIDE DEF step, t, i
    <3> QED BY <2>4, <3>1, <3>2, <3>3
  <2>12. ASSUME NEW r \in Runners, FailTask(r) \/ CompleteTask(r)
         PROVE  Final
    BY <2>0, <2>3, <2>5, <2>12, RunnerAt DEF FailTask, CompleteTask, AtPC
  <2>13. ASSUME NEW t \in TaskIds, NEW r \in Runners, StartTask(r, t)
         PROVE  Final
    BY <2>1, <2>13 DEF StartTask
  <2>14. ASSUME NEW r \in Runners, CheckPause(r)
         PROVE  Final
    BY <2>1, <2>14 DEF CheckPause
  <2>15. CASE UNCHANGED taskVars
    BY <2>1, <2>15 DEF taskVars
  <2>16. ~(UpsertRow \/ DeleteSteps \/ InsertStep)
    BY DEF UpsertRow, DeleteSteps, InsertStep, MutexFree, Unlocked
  <2> QED
    BY <2>6, <2>7, <2>8, <2>9, <2>10, <2>11, <2>12, <2>13, <2>14, <2>15, <2>16, NextCases
<1>2. []Inv /\ [][TasksNext]_taskVars => CompletedIsFinal
  <2>1. Inv /\ [TasksNext]_taskVars => [MutexFree => Final]_taskVars
    BY <1>1
  <2> QED BY <2>1, PTL DEF CompletedIsFinal
<1> QED BY <1>2, Invariance, PTL DEF TasksSpec
=============================================================================
