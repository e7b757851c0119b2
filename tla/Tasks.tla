-------------------------------- MODULE Tasks --------------------------------
(***************************************************************************)
(* internal/orchestration/manager.go: the life of orchestration tasks.     *)
(* API handlers create, start, pause, resume, cancel and assign tasks under *)
(* the manager's mutex; each started task is executed, step by step, by a  *)
(* goroutine (a runner) that takes the mutex for every change and releases *)
(* it around the calls of the model.  Nothing stops a task from being      *)
(* started twice, so several runners may share one task.                   *)
(*                                                                         *)
(* Every change ends in persistTask, with the mutex held: the task's row is *)
(* upserted, its steps are deleted and inserted again one at a time, with  *)
(* no transaction around them.  The process may die anywhere, and the next *)
(* one loads what the database holds.                                      *)
(*                                                                         *)
(* The events that runners publish are in module TaskEvents; swarms, their  *)
(* agents and the task that StartSwarm saves from a copy in module Swarm.  *)
(***************************************************************************)
EXTENDS Naturals, Sequences, FiniteSets

CONSTANTS
    TaskIds,            \* 1..n: the n of "orch-n"
    MaxSteps,           \* max_steps of the requests: a plan is cut to it
    Runners             \* goroutines of runTask, bounded by the model

ASSUME TasksAssumption ==
    /\ TaskIds \in SUBSET (Nat \ {0})
    /\ MaxSteps \in Nat \ {0}

VARIABLES
    tasks,              \* m.tasks
    counter,            \* m.counter
    runner,             \* the runners: goroutine-local state
    writing,            \* persistTask in progress, its caller holding m.mu
    db,                 \* orchestration_tasks and orchestration_steps
    late                \* history: steps a runner began since its task was paused

taskVars == <<tasks, counter, runner, writing, db, late>>

TaskStatus == {"absent", "queued", "assigned", "running", "paused",
               "completed", "failed", "cancelled"}

\* A step has an output once some run of it has succeeded.
Step == [status : {"pending", "running", "completed", "failed"}, output : BOOLEAN]

Task == [status : TaskStatus, steps : Seq(Step)]

Absent == [status |-> "absent", steps |-> <<>>]
PendingStep == [status |-> "pending", output |-> FALSE]

\* No persistTask is in progress; else the task, the stage it is at (0 before
\* the upsert, 1 before the DELETE, i + 1 before the INSERT of step i) and
\* the *Task it was given.
Unlocked == [task |-> 0, stage |-> 0, image |-> Absent]

Free == [pc |-> "free", task |-> 0, idx |-> 0]

TasksInit ==
    /\ tasks = [t \in TaskIds |-> Absent]
    /\ counter = 0
    /\ runner = [r \in Runners |-> Free]
    /\ writing = Unlocked
    /\ db = [t \in TaskIds |-> Absent]
    /\ late = [r \in Runners |-> 0]

(* ------------------------- the mutex and persistence ------------------- *)

MutexFree == writing = Unlocked

PersistTask(t, image) == writing' = [task |-> t, stage |-> 0, image |-> image]

\* The critical section of a handler: a task is changed, then persisted.
Update(t, task) ==
    /\ tasks' = [tasks EXCEPT ![t] = task]
    /\ PersistTask(t, task)
    /\ UNCHANGED db

UpsertRow ==
    /\ ~MutexFree
    /\ writing.stage = 0
    /\ db' = [db EXCEPT ![writing.task].status = writing.image.status]
    /\ writing' = [writing EXCEPT !.stage = 1]
    /\ UNCHANGED <<tasks, counter, runner, late>>

\* Past the last step persistTask returns and the mutex is released.
NextStage ==
    IF writing.stage <= Len(writing.image.steps)
    THEN [writing EXCEPT !.stage = @ + 1] ELSE Unlocked

DeleteSteps ==
    /\ writing.stage = 1
    /\ db' = [db EXCEPT ![writing.task].steps = <<>>]
    /\ writing' = NextStage
    /\ UNCHANGED <<tasks, counter, runner, late>>

InsertStep ==
    /\ writing.stage > 1
    /\ db' = [db EXCEPT ![writing.task].steps =
                 Append(@, writing.image.steps[writing.stage - 1])]
    /\ writing' = NextStage
    /\ UNCHANGED <<tasks, counter, runner, late>>

(* ------------------------------- API handlers -------------------------- *)

\* go m.runTask(taskID)
Spawn(r, t) ==
    /\ runner[r].pc = "free"
    /\ runner' = [runner EXCEPT ![r] = [pc |-> "start", task |-> t, idx |-> 0]]
    /\ late' = [late EXCEPT ![r] = 0]

NewTask(t, n) ==
    /\ MutexFree
    /\ t = counter + 1
    /\ counter' = t
    /\ Update(t, [status |-> "queued", steps |-> [i \in 1..n |-> PendingStep]])

\* CreateTask and, for a task that exists, RefineTask: a new id, a plan of
\* at least one step, and a runner if the request says execute.
CreateTask(t) ==
    /\ \E n \in 1..MaxSteps : NewTask(t, n)
    /\ \/ \E r \in Runners : Spawn(r, t)
       \/ UNCHANGED <<runner, late>>

\* StartTask looks whether the task exists, and at nothing else.
StartTask(r, t) ==
    /\ MutexFree
    /\ tasks[t].status # "absent"
    /\ Spawn(r, t)
    /\ UNCHANGED <<tasks, counter, writing, db>>

CancelTask(t) ==
    /\ MutexFree
    /\ tasks[t].status \notin {"absent", "completed", "failed"}
    /\ Update(t, [tasks[t] EXCEPT !.status = "cancelled"])
    /\ UNCHANGED <<counter, runner, late>>

\* late counts from the moment the task turns paused.
PauseBegins(t) ==
    [r \in Runners |->
        IF runner[r].task = t /\ tasks[t].status # "paused" THEN 0 ELSE late[r]]

\* mutant: the test of the final states is missing.
PauseAnyTask(t) ==
    /\ MutexFree
    /\ tasks[t].status # "absent"
    /\ Update(t, [tasks[t] EXCEPT !.status = "paused"])
    /\ late' = PauseBegins(t)
    /\ UNCHANGED <<counter, runner>>

PauseTask(t) ==
    /\ MutexFree
    /\ tasks[t].status \notin {"absent", "completed", "failed", "cancelled"}
    /\ Update(t, [tasks[t] EXCEPT !.status = "paused"])
    /\ late' = PauseBegins(t)
    /\ UNCHANGED <<counter, runner>>

\* mutant: the new status is not saved.
ResumeUnsaved(t) ==
    /\ MutexFree
    /\ tasks[t].status = "paused"
    /\ tasks' = [tasks EXCEPT ![t].status = "running"]
    /\ UNCHANGED <<counter, runner, writing, db, late>>

ResumeTask(t) ==
    /\ MutexFree
    /\ tasks[t].status = "paused"
    /\ Update(t, [tasks[t] EXCEPT !.status = "running"])
    /\ UNCHANGED <<counter, runner, late>>

\* The task's side of AssignTask.
AssignTask(t) ==
    /\ MutexFree
    /\ tasks[t].status # "absent"
    /\ Update(t, [tasks[t] EXCEPT !.status = IF @ = "queued" THEN "assigned" ELSE @])
    /\ UNCHANGED <<counter, runner, late>>

(* -------------------------------- the runner --------------------------- *)

AtPC(r, pc) == MutexFree /\ runner[r].pc = pc

Goto(r, pc, idx) == runner' = [runner EXCEPT ![r].pc = pc, ![r].idx = idx]

\* Where the loop over the task's steps goes on.
LoopTo(r, idx) ==
    Goto(r, IF idx <= Len(tasks[runner[r].task].steps) THEN "check" ELSE "finish", idx)

\* markTaskRunning.  A running or completed task is left as it is, and its
\* steps are executed all the same; a cancelled or failed one starts anew.
MarkTaskRunning(r) ==
    LET t == runner[r].task IN
    /\ AtPC(r, "start")
    /\ IF tasks[t].status \in {"running", "completed"}
       THEN UNCHANGED <<tasks, writing, db>>
       ELSE Update(t, [tasks[t] EXCEPT !.status = "running"])
    /\ LoopTo(r, 1)
    /\ UNCHANGED <<counter, late>>

\* mutant: the loop does not wait for the end of the pause.
PassPause(r) ==
    /\ AtPC(r, "check")
    /\ Goto(r, "begin", runner[r].idx)
    /\ UNCHANGED <<tasks, counter, writing, db, late>>

\* mutant: only a running task gets past the loop.
CheckRunning(r) ==
    /\ AtPC(r, "check")
    /\ tasks[runner[r].task].status = "running"
    /\ Goto(r, "begin", runner[r].idx)
    /\ UNCHANGED <<tasks, counter, writing, db, late>>

\* The loop over isTaskPaused, left when the task is not paused.
CheckPause(r) ==
    /\ AtPC(r, "check")
    /\ tasks[runner[r].task].status # "paused"
    /\ Goto(r, "begin", runner[r].idx)
    /\ UNCHANGED <<tasks, counter, writing, db, late>>

SetStep(t, i, step) == Update(t, [tasks[t] EXCEPT !.steps[i] = step])

\* mutant: the output of an earlier run is cleared.
BeginStepAfresh(r) ==
    LET t == runner[r].task i == runner[r].idx IN
    /\ AtPC(r, "begin")
    /\ SetStep(t, i, [status |-> "running", output |-> FALSE])
    /\ Goto(r, "call", i)
    /\ late' = [late EXCEPT ![r] = IF tasks[t].status = "paused" THEN @ + 1 ELSE @]
    /\ UNCHANGED counter

\* runStep, up to the call of the model.  An output of an earlier run stays.
BeginStep(r) ==
    LET t == runner[r].task i == runner[r].idx IN
    /\ AtPC(r, "begin")
    /\ SetStep(t, i, [tasks[t].steps[i] EXCEPT !.status = "running"])
    /\ Goto(r, "call", i)
    /\ late' = [late EXCEPT ![r] = IF tasks[t].status = "paused" THEN @ + 1 ELSE @]
    /\ UNCHANGED counter

\* The model answered, after at most four rounds of tool calls.
StepSucceeds(r) ==
    LET t == runner[r].task i == runner[r].idx IN
    /\ AtPC(r, "call")
    /\ SetStep(t, i, [status |-> "completed", output |-> TRUE])
    /\ LoopTo(r, i + 1)
    /\ UNCHANGED <<counter, late>>

StepFails(r) ==
    LET t == runner[r].task i == runner[r].idx IN
    /\ AtPC(r, "call")
    /\ SetStep(t, i, [tasks[t].steps[i] EXCEPT !.status = "failed"])
    /\ Goto(r, "fail", i)
    /\ UNCHANGED <<counter, late>>

Gone(r) == runner' = [runner EXCEPT ![r] = Free]

FailTask(r) ==
    LET t == runner[r].task IN
    /\ AtPC(r, "fail")
    /\ Update(t, [tasks[t] EXCEPT !.status = "failed"])
    /\ Gone(r)
    /\ UNCHANGED <<counter, late>>

CompleteTask(r) ==
    LET t == runner[r].task IN
    /\ AtPC(r, "finish")
    /\ Update(t, [tasks[t] EXCEPT !.status = "completed"])
    /\ Gone(r)
    /\ UNCHANGED <<counter, late>>

(* ------------------------------ crash and restart ---------------------- *)

Loaded == {t \in TaskIds : db[t].status # "absent"}

\* The next process loads the tasks and starts none of them.
Reload ==
    /\ tasks' = db
    /\ runner' = [r \in Runners |-> Free]
    /\ writing' = Unlocked
    /\ late' = [r \in Runners |-> 0]
    /\ UNCHANGED db

\* The process dies at any moment; bumpCounter finds the highest number.
Crash ==
    /\ counter' \in {n \in Loaded \cup {0} : \A u \in Loaded : u <= n}
    /\ Reload

Persist == UpsertRow \/ DeleteSteps \/ InsertStep

Run(r) ==
    \/ MarkTaskRunning(r) \/ CheckPause(r) \/ BeginStep(r) \/ StepSucceeds(r)
    \/ StepFails(r) \/ FailTask(r) \/ CompleteTask(r)

Handle ==
    \E t \in TaskIds :
        \/ CreateTask(t) \/ CancelTask(t) \/ PauseTask(t) \/ ResumeTask(t) \/ AssignTask(t)
        \/ \E r \in Runners : StartTask(r, t)

Work == Persist \/ Handle \/ \E r \in Runners : Run(r)

TasksNext == Work \/ Crash

\* Goroutines are scheduled, database statements return and calls of the
\* model end (their clients have timeouts).  Handlers and crashes need not
\* happen.
Fairness == WF_taskVars(Persist) /\ \A r \in Runners : SF_taskVars(Run(r))

TasksSpec == TasksInit /\ [][TasksNext]_taskVars /\ Fairness

\* One life of the process.
Uninterrupted == TasksInit /\ [][Work]_taskVars

(* -------------------------------- properties --------------------------- *)

Pcs == {"free", "start", "check", "begin", "call", "fail", "finish"}

Stages == 0..(MaxSteps + 1)

\* The variables keep their types: plans stay within max_steps, a runner's
\* index within the plan, and the stage of persistTask within its statements.
TasksTypeOK ==
    /\ tasks \in [TaskIds -> Task]
    /\ db \in [TaskIds -> Task]
    /\ \A t \in TaskIds : Len(tasks[t].steps) <= MaxSteps /\ Len(db[t].steps) <= MaxSteps
    /\ counter \in Nat
    /\ writing \in {Unlocked} \cup [task : TaskIds, stage : Stages, image : Task]
    /\ runner \in [Runners -> [pc : Pcs, task : TaskIds \cup {0}, idx : Stages]]
    /\ late \in [Runners -> Nat]

\* A pause takes hold: from the moment a task turns paused, each of its
\* runners begins at most one more step, the one whose test of isTaskPaused
\* came before the pause and whose runStep takes the mutex after it.
PauseTakesHold == \A r \in Runners : late[r] <= 1

\* The database agrees with the manager whenever nobody holds the mutex:
\* every handler and runner saves what it changed before it unlocks.
DatabaseCurrent == MutexFree => \A t \in TaskIds : db[t] = tasks[t]

HasOutputs(steps) == \A i \in 1..Len(steps) : steps[i].output

\* A task is completed only when every step has an output, in the manager
\* and in the database, whatever runners, restarts and crashes came before.
CompletedHasOutputs ==
    \A t \in TaskIds :
        /\ tasks[t].status = "completed" => HasOutputs(tasks[t].steps)
        /\ db[t].status = "completed" => HasOutputs(db[t].steps)

\* No id is given twice: the counter is never below the number of a task
\* that exists, also after a restart that counts from the database.
CounterCoversTasks ==
    \A t \in TaskIds : tasks[t].status # "absent" \/ db[t].status # "absent" => t <= counter

\* No handler and no restart takes a saved completed task back: only a
\* second runner of the same task, whose step fails, changes its status.
CompletedIsFinal ==
    [][MutexFree => \A t \in TaskIds :
          tasks[t].status = "completed" => tasks'[t].status \in {"completed", "failed"}]_taskVars

\* Every runner ends or finds its task paused: no status that a handler can
\* give the task in the meantime leaves it waiting.
RunnersEnd ==
    \A r \in Runners :
        runner[r].pc # "free"
            ~> (runner[r].pc = "free" \/ tasks[runner[r].task].status = "paused")

\* What cancelling promises: a cancelled task is not completed behind the
\* back of its canceller.  Nothing in runTask looks for a cancelled task.
CancelledStays ==
    [][\A t \in TaskIds :
          tasks[t].status = "cancelled" => tasks'[t].status # "completed"]_taskVars
=============================================================================
