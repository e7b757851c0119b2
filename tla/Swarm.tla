-------------------------------- MODULE Swarm --------------------------------
(***************************************************************************)
(* internal/orchestration/manager.go and workflows.go: swarms, their agents *)
(* and the tasks assigned to them.                                         *)
(*                                                                         *)
(* Every handler changes the manager's maps under its mutex and saves what *)
(* it changed, one statement after another, before it unlocks; the process *)
(* may die between any two statements, and the next one loads the rows.    *)
(* Starting, pausing and resuming a swarm, and running a workflow template, *)
(* hold the mutex more than once: other handlers and the runners of tasks  *)
(* come in between, and some work on with a copy.                          *)
(*                                                                         *)
(* Agents, swarms and tasks are numbered by one counter, so one set of ids *)
(* serves the three tables.  The steps of a task are in module Tasks; here *)
(* a task is its status, the agent it is assigned to and whether a quarter *)
(* of its steps at most is completed.                                      *)
(***************************************************************************)
EXTENDS Naturals, FiniteSets, Selections

CONSTANTS
    MaxId,              \* bound: the counter stops here
    Bootstrap,          \* agents a fresh database starts with
    MaxMembers,         \* bound: the agents of a swarm
    MaxRequests,        \* bound: API requests, and crashes, of a behaviour
    Callers             \* handlers that hold the mutex more than once

ASSUME SwarmAssumption ==
    /\ MaxId \in Nat /\ Bootstrap \in 1..MaxId /\ MaxMembers \in Nat \ {0}

Ids == 1..MaxId

VARIABLES
    mem,                \* m.agents, m.swarms and m.tasks
    db,                 \* the orchestration_ tables
    counter,            \* m.counter
    contested,          \* the keys of m.taskContests
    pending,            \* statements the holder of the mutex has yet to run
    runner,             \* runTask, per task
    call,               \* handlers between two of their critical sections
    spawning,           \* the agent whose SpawnAgent holds the mutex, or 0
    requests,           \* counts the API requests and the crashes
    copied,             \* history: tasks and swarms saved from a copy
    torn                \* history: agents whose SpawnAgent a crash cut short

vars == <<mem, db, counter, contested, pending, runner, call, spawning, requests, copied, torn>>

NoAgent == [status |-> "absent", swarm |-> 0]
NoSwarm == [status |-> "absent", agents |-> <<>>, tasks |-> <<>>]
NoTask == [status |-> "absent", assigned |-> 0, early |-> TRUE]

Idle == [op |-> "none", swarm |-> 0, task |-> 0, todo |-> <<>>, copy |-> NoSwarm]

\* bootstrapDefaults on an empty database.
Fresh ==
    [agents |-> [i \in Ids |-> IF i <= Bootstrap THEN [status |-> "idle", swarm |-> 0]
                                                 ELSE NoAgent],
     swarms |-> [i \in Ids |-> NoSwarm],
     tasks  |-> [i \in Ids |-> NoTask]]

Init ==
    /\ mem = Fresh
    /\ db = Fresh
    /\ counter = Bootstrap
    /\ contested = {}
    /\ pending = <<>>
    /\ runner = [t \in Ids |-> "none"]
    /\ call = [c \in Callers |-> Idle]
    /\ spawning = 0
    /\ requests = 0
    /\ copied = {}
    /\ torn = {}

(* ------------------------------ the manager ---------------------------- *)

MutexFree == pending = <<>>

Exists(table, id) == id \in Ids /\ table[id].status # "absent"

\* The agents of a swarm that exist: ids without an agent are skipped.
Members(m, s) == {a \in Ids : a \in {s.agents[i] : i \in 1..Len(s.agents)}
                              /\ m.agents[a].status # "absent"}

SetAgents(m, set, status) ==
    [m EXCEPT !.agents = [a \in Ids |-> IF a \in set THEN [@[a] EXCEPT !.status = status] ELSE @[a]]]

\* One statement of persistAgent, persistSwarm or persistTask.
Row(table, id, value) == [table |-> table, id |-> id, value |-> value]

AgentRows(m, s) ==
    LET present == Those(s.agents, LAMBDA a : m.agents[a].status # "absent")
    IN [i \in 1..Len(present) |-> Row("agents", present[i], m.agents[present[i]])]

AgentRow(m, a) == IF Exists(m.agents, a) THEN <<Row("agents", a, m.agents[a])>> ELSE <<>>
SwarmRow(m, s) == <<Row("swarms", s, m.swarms[s])>>
TaskRow(m, t) == <<Row("tasks", t, m.tasks[t])>>

\* A critical section: the maps become m and the rows are saved in order.
Update(m, rows) == mem' = m /\ pending' = rows

\* The statement that comes next; the mutex is released after the last.
Persist ==
    /\ ~MutexFree
    /\ LET r == Head(pending) IN
       db' = CASE r.table = "agents" -> [db EXCEPT !.agents[r.id] = r.value]
               [] r.table = "swarms" -> [db EXCEPT !.swarms[r.id] = r.value]
               [] r.table = "tasks"  -> [db EXCEPT !.tasks[r.id] = r.value]
    /\ pending' = Tail(pending)
    /\ spawning' = IF Len(pending) = 1 THEN 0 ELSE spawning
    /\ UNCHANGED <<mem, counter, contested, runner, call, copied, torn>>

\* agentActiveTaskCountLocked.
Active(m, a) ==
    {t \in Ids : m.tasks[t].assigned = a /\ m.tasks[t].status \in {"assigned", "running", "queued"}}

\* selectAgentForTaskLocked.  The score, which adds up what the agent is good
\* for and takes off its active tasks, is left out: any member that is not
\* stopped may win, and nobody only when each of them has a task.
Live(m, s) == {a \in Members(m, s) : m.agents[a].status # "stopped"}
Selectable(m, s) ==
    Live(m, s) \cup (IF \E a \in Live(m, s) : Active(m, a) = {} THEN {} ELSE {0})

Ended == {"completed", "failed", "cancelled"}

\* isTaskStealableLocked.
Stealable(task) ==
    task.status # "absent" /\ task.assigned # 0 /\ task.status \notin Ended /\ task.early

\* A queued task that gets an agent is assigned.
GiveTo(task, a) ==
    [task EXCEPT !.assigned = a, !.status = IF @ = "queued" THEN "assigned" ELSE @]

Lists(s, t) == \E i \in 1..Len(s.tasks) : s.tasks[i] = t

\* syncAgentsForTask with status idle, after persistTask: in each swarm that
\* lists the task the assigned agent, or without one every agent, turns idle
\* and the swarm ready, whatever they were.
EndTask(t, status) ==
    LET m == [mem EXCEPT !.tasks[t].status = status]
        swarms == {s \in Ids : Lists(m.swarms[s], t)}
        assigned == m.tasks[t].assigned
        Freed(s) == {a \in Members(m, m.swarms[s]) : assigned \in {0, a}}
        freed == SetAgents(m, UNION {Freed(s) : s \in swarms}, "idle")
        after == [freed EXCEPT !.swarms =
                     [s \in Ids |-> IF s \in swarms THEN [@[s] EXCEPT !.status = "ready"] ELSE @[s]]]
        Rows(s) == Those(AgentRows(after, after.swarms[s]), LAMBDA r : r.id \in Freed(s))
                       \o SwarmRow(after, s)
    IN IF swarms = {} THEN Update(m, TaskRow(m, t))
       ELSE \E s \in swarms : Update(after, TaskRow(m, t) \o Rows(s))

(* ------------------------------ tasks and agents ------------------------ *)

Next1 == counter + 1

\* The counter hands out the next n ids.
TakeIds(n) == counter + n <= MaxId /\ counter' = counter + n

Queued == [status |-> "queued", assigned |-> 0, early |-> TRUE]

\* mutant: the task is not saved until its runner saves it.
NewTaskUnsaved(execute) ==
    /\ TakeIds(1)
    /\ mem' = [mem EXCEPT !.tasks[Next1] = Queued]
    /\ runner' = [runner EXCEPT ![Next1] = IF execute THEN "start" ELSE "none"]
    /\ UNCHANGED <<db, contested, pending, spawning, copied, torn>>

\* CreateTask's critical section; with execute, a runner is started.
NewTask(execute) ==
    LET m == [mem EXCEPT !.tasks[Next1] = Queued] IN
    /\ TakeIds(1)
    /\ Update(m, TaskRow(m, Next1))
    /\ runner' = [runner EXCEPT ![Next1] = IF execute THEN "start" ELSE "none"]
    /\ UNCHANGED <<db, contested, spawning, copied, torn>>

CreateTask ==
    /\ MutexFree
    /\ NewTask(FALSE)
    /\ UNCHANGED call

\* A second runner of one task is left to module Tasks.
StartTask(t) ==
    /\ MutexFree
    /\ Exists(mem.tasks, t)
    /\ runner[t] = "none"
    /\ runner' = [runner EXCEPT ![t] = "start"]
    /\ UNCHANGED <<mem, db, counter, contested, pending, call, spawning, copied, torn>>

\* What a handler that only updates and saves leaves alone.
Rest == UNCHANGED <<db, runner, call, copied, torn>>

TaskBecomes(t, task) ==
    LET m == [mem EXCEPT !.tasks[t] = task] IN Update(m, TaskRow(m, t))

CancelTask(t) ==
    /\ MutexFree
    /\ Exists(mem.tasks, t)
    /\ mem.tasks[t].status \notin {"completed", "failed"}
    /\ EndTask(t, "cancelled")
    /\ Rest /\ UNCHANGED <<counter, contested, spawning>>

\* The critical sections of PauseTask and ResumeTask: a task in the wrong
\* status is an error.
Pausable(t) == Exists(mem.tasks, t) /\ mem.tasks[t].status \notin Ended
Pause(t) == Pausable(t) /\ TaskBecomes(t, [mem.tasks[t] EXCEPT !.status = "paused"])
Resume(t) ==
    /\ mem.tasks[t].status = "paused"
    /\ TaskBecomes(t, [mem.tasks[t] EXCEPT !.status = "running"])

PauseTask(t) ==
    MutexFree /\ Pause(t) /\ Rest /\ UNCHANGED <<counter, contested, spawning>>

ResumeTask(t) ==
    MutexFree /\ Resume(t) /\ Rest /\ UNCHANGED <<counter, contested, spawning>>

\* A stopped agent turns busy like any other.
AssignTask(t, a) ==
    LET m == [SetAgents(mem, {a}, "busy") EXCEPT !.tasks[t] = GiveTo(@, a)] IN
    /\ MutexFree
    /\ Exists(mem.tasks, t)
    /\ Exists(mem.agents, a)
    /\ Update(m, AgentRow(m, a) \o TaskRow(m, t))
    /\ Rest /\ UNCHANGED <<counter, contested, spawning>>

StopAgent(a) ==
    LET m == SetAgents(mem, {a}, "stopped") IN
    /\ MutexFree
    /\ Exists(mem.agents, a)
    /\ Update(m, AgentRow(m, a))
    /\ Rest /\ UNCHANGED <<counter, contested, spawning>>

\* The agent that has the task loses it: it is idle when it has one active
\* task left at most, counted after the task was given away.
StealTask(t, s, a) ==
    LET from == mem.tasks[t].assigned
        given == [SetAgents(mem, {a}, "busy") EXCEPT !.tasks[t] = GiveTo(@, a)]
        m == IF from # a /\ Exists(mem.agents, from) /\ Cardinality(Active(given, from)) <= 1
             THEN SetAgents(given, {from}, "idle") ELSE given
    IN
    /\ MutexFree
    /\ Exists(mem.swarms, s)
    /\ Stealable(mem.tasks[t])
    /\ Exists(mem.agents, a)
    /\ mem.agents[a].status # "stopped"
    /\ Update(m, AgentRow(m, a) \o (IF from = a THEN <<>> ELSE AgentRow(m, from)) \o TaskRow(m, t))
    /\ Rest /\ UNCHANGED <<counter, contested, spawning>>

ContestTaskSteal(t) ==
    /\ MutexFree
    /\ Exists(mem.tasks, t)
    /\ mem.tasks[t].assigned # 0
    /\ contested' = contested \cup {t}
    /\ UNCHANGED <<mem, db, counter, pending, runner, call, spawning, copied, torn>>

\* The task changes hands whatever its status, the agents are left alone.
ResolveTaskStealContest(t, a) ==
    /\ MutexFree
    /\ t \in contested
    /\ Exists(mem.tasks, t)
    /\ Exists(mem.agents, a)
    /\ TaskBecomes(t, GiveTo(mem.tasks[t], a))
    /\ Rest /\ UNCHANGED <<counter, contested, spawning>>

(* ----------------------------- runners of tasks ------------------------- *)

MarkTaskRunning(t) ==
    /\ MutexFree
    /\ runner[t] = "start"
    /\ runner' = [runner EXCEPT ![t] = "work"]
    /\ IF mem.tasks[t].status \in {"running", "completed"}
       THEN UNCHANGED <<mem, pending>>
       ELSE TaskBecomes(t, [mem.tasks[t] EXCEPT !.status = "running"])
    /\ UNCHANGED <<db, counter, contested, call, spawning, copied, torn>>

\* A step begins or ends.
StepTask(t) ==
    /\ MutexFree
    /\ runner[t] = "work"
    /\ \E early \in BOOLEAN : TaskBecomes(t, [mem.tasks[t] EXCEPT !.early = early])
    /\ Rest /\ UNCHANGED <<counter, contested, spawning>>

\* completeTask and failTask.  The last step may end during a pause.
FinishTask(t) ==
    /\ MutexFree
    /\ runner[t] = "work"
    /\ \/ ~mem.tasks[t].early /\ EndTask(t, "completed")
       \/ EndTask(t, "failed")
    /\ runner' = [runner EXCEPT ![t] = "none"]
    /\ UNCHANGED <<db, counter, contested, call, spawning, copied, torn>>

(* -------------------------------- swarms -------------------------------- *)

\* SpawnAgent saves the swarm before the agent it lists.
SpawnAgent(s) ==
    LET a == Next1
        born == [mem EXCEPT !.agents[a] = [status |-> "idle", swarm |-> s]]
        m == IF s = 0 THEN born ELSE [born EXCEPT !.swarms[s].agents = Append(@, a)]
    IN
    /\ MutexFree
    /\ TakeIds(1)
    /\ s = 0 \/ (Exists(mem.swarms, s) /\ Len(mem.swarms[s].agents) < MaxMembers)
    /\ Update(m, (IF s = 0 THEN <<>> ELSE SwarmRow(m, s)) \o AgentRow(m, a))
    /\ spawning' = a
    /\ Rest /\ UNCHANGED contested

\* mutant: the stopped agents are not saved.
StopSwarmUnsaved(s) ==
    LET m == [SetAgents(mem, Members(mem, mem.swarms[s]), "stopped")
                 EXCEPT !.swarms[s].status = "stopped"] IN
    /\ MutexFree /\ Exists(mem.swarms, s)
    /\ Update(m, SwarmRow(m, s))
    /\ Rest /\ UNCHANGED <<counter, contested, spawning>>

StopSwarm(s) ==
    LET m == [SetAgents(mem, Members(mem, mem.swarms[s]), "stopped")
                 EXCEPT !.swarms[s].status = "stopped"] IN
    /\ MutexFree
    /\ Exists(mem.swarms, s)
    /\ Update(m, AgentRows(m, m.swarms[s]) \o SwarmRow(m, s))
    /\ Rest /\ UNCHANGED <<counter, contested, spawning>>

\* New agents for swarm s, with the ids first + 1 .. first + n.
WithAgents(m, s, first, n) ==
    [m EXCEPT !.agents = [a \in Ids |-> IF a \in (first + 1)..(first + n)
                                        THEN [status |-> "idle", swarm |-> s] ELSE @[a]],
              !.swarms[s].agents = @ \o [i \in 1..n |-> first + i]]

\* InitSwarm's critical section: the swarm is saved empty, then its agents,
\* then the swarm that lists them.
NewSwarm(n) ==
    LET s == Next1
        empty == [NoSwarm EXCEPT !.status = "ready"]
        m == WithAgents([mem EXCEPT !.swarms[s] = empty], s, s, n)
    IN
    /\ MutexFree
    /\ TakeIds(n + 1)
    /\ Update(m, <<Row("swarms", s, empty)>> \o AgentRows(m, m.swarms[s]) \o SwarmRow(m, s))
    /\ UNCHANGED <<db, contested, runner, spawning, copied, torn>>

InitSwarm(n) == NewSwarm(n) /\ UNCHANGED call

\* mutant: the swarm is saved before the agents it now lists.
ScaleUpBackwards(s, count) ==
    LET n == count - Len(mem.swarms[s].agents)
        m == WithAgents(mem, s, counter, n)
        new == [m.swarms[s] EXCEPT !.agents = [i \in 1..n |-> counter + i]]
    IN
    /\ MutexFree /\ Exists(mem.swarms, s) /\ n > 0 /\ TakeIds(n)
    /\ Update(m, SwarmRow(m, s) \o AgentRows(m, new))
    /\ Rest /\ UNCHANGED <<contested, spawning>>

\* ScaleSwarm to more agents: they are saved before the swarm.
ScaleUp(s, count) ==
    LET n == count - Len(mem.swarms[s].agents)
        m == WithAgents(mem, s, counter, n)
        new == [m.swarms[s] EXCEPT !.agents = [i \in 1..n |-> counter + i]]
    IN
    /\ MutexFree
    /\ Exists(mem.swarms, s)
    /\ n > 0
    /\ TakeIds(n)
    /\ Update(m, AgentRows(m, new) \o SwarmRow(m, s))
    /\ Rest /\ UNCHANGED <<contested, spawning>>

\* ScaleSwarm to fewer: the agents past count leave the swarm, stopped.
ScaleDown(s, count) ==
    LET list == mem.swarms[s].agents
        gone == [mem.swarms[s] EXCEPT !.agents = SubSeq(list, count + 1, Len(list))]
        m == [SetAgents(mem, Members(mem, gone), "stopped")
                 EXCEPT !.swarms[s].agents = SubSeq(list, 1, count)]
    IN
    /\ MutexFree
    /\ Exists(mem.swarms, s)
    /\ count < Len(list)
    /\ Update(m, AgentRows(m, gone) \o SwarmRow(m, s))
    /\ Rest /\ UNCHANGED <<counter, contested, spawning>>

\* RebalanceSwarm: every unended task the swarm lists is given to a member,
\* one after another.  Nobody is picked only when no live member is free.
RebalanceSwarm(s) ==
    LET sw == mem.swarms[s]
        open == Those(sw.tasks, LAMBDA t : mem.tasks[t].status \notin Ended \cup {"absent"})
        live == Live(mem, sw)
    IN
    /\ MutexFree
    /\ Exists(mem.swarms, s)
    /\ \E pick \in [1..Len(open) -> live \cup {0}] :
         LET chosen == {pick[i] : i \in 1..Len(open)} \ {0}
             To(t) == {i \in 1..Len(open) : open[i] = t /\ pick[i] # 0}
             m == [SetAgents(mem, chosen, "busy") EXCEPT !.tasks =
                      [t \in Ids |-> IF To(t) = {} THEN @[t]
                                     ELSE GiveTo(@[t], pick[CHOOSE i \in To(t) : TRUE])]]
             given == Those([i \in 1..Len(open) |-> i], LAMBDA i : pick[i] # 0)
             Rows(i) == IF i % 2 = 1 THEN AgentRow(m, pick[given[(i + 1) \div 2]])
                                     ELSE TaskRow(m, open[given[i \div 2]])
         IN
         /\ (\E i \in 1..Len(open) : pick[i] = 0) =>
                \A a \in live : Active(mem, a) # {} \/ a \in chosen
         /\ Update(m, [i \in 1..(2 * Len(given)) |-> Rows(i)[1]] \o SwarmRow(m, s))
    /\ Rest /\ UNCHANGED <<counter, contested, spawning>>

(* --------------- handlers with several critical sections ---------------- *)

Begin(c, op, s, todo) ==
    /\ call[c].op = "none"
    /\ call' = [call EXCEPT ![c] = [Idle EXCEPT !.op = op, !.swarm = s, !.todo = todo]]

Continue(c, op, t) == call' = [call EXCEPT ![c] = [@ EXCEPT !.op = op, !.task = t]]
Return(c) == call' = [call EXCEPT ![c] = Idle]

\* StartSwarm up to its first unlock; stopped agents turn busy too.
StartSwarm(c, s) ==
    LET m == [SetAgents(mem, Members(mem, mem.swarms[s]), "busy")
                 EXCEPT !.swarms[s].status = "running"] IN
    /\ MutexFree
    /\ Exists(mem.swarms, s)
    /\ Begin(c, "start", s, <<>>)
    /\ Update(m, AgentRows(m, m.swarms[s]) \o SwarmRow(m, s))
    /\ UNCHANGED <<db, counter, contested, runner, spawning, copied, torn>>

\* RunWorkflowTemplate makes its swarm by InitSwarm ...
RunWorkflowTemplate(c, n) ==
    /\ NewSwarm(n)
    /\ Begin(c, "clone", Next1, <<>>)

\* ... which returns a copy, taken after the unlock.
CloneSwarm(c) ==
    /\ MutexFree
    /\ call[c].op = "clone"
    /\ call' = [call EXCEPT ![c].op = "template", ![c].copy = mem.swarms[call[c].swarm]]
    /\ UNCHANGED <<mem, db, counter, contested, pending, runner, spawning, copied, torn>>

\* Both call CreateTask with execute.
CreateSwarmTask(c) ==
    /\ MutexFree
    /\ \/ call[c].op = "start" /\ Continue(c, "listing", Next1)
       \/ call[c].op = "template" /\ Continue(c, "running", Next1)
    /\ NewTask(TRUE)

\* The copy that CreateTask returned, given to agent a, is what is saved; the
\* manager's task is not assigned.
CopyRow(t, a) == <<Row("tasks", t, [Queued EXCEPT !.assigned = a, !.status = "assigned"])>>

\* The last section of StartSwarm: the manager's swarm lists the task.
ListTask(c) ==
    LET s == call[c].swarm
        t == call[c].task
        listed == [mem EXCEPT !.swarms[s].tasks = Append(@, t)]
    IN
    /\ MutexFree
    /\ call[c].op = "listing"
    /\ \E a \in Selectable(listed, mem.swarms[s]) :
          LET m == SetAgents(listed, {a}, "busy") IN
          /\ Update(m, (IF a = 0 THEN <<>> ELSE AgentRow(m, a) \o CopyRow(t, a)) \o SwarmRow(m, s))
          /\ copied' = IF a = 0 THEN copied ELSE copied \cup {t}
    /\ Return(c)
    /\ UNCHANGED <<db, counter, contested, runner, spawning, torn>>

\* The last section of RunWorkflowTemplate: the copy of the swarm lists the
\* task and is saved; the manager's swarm stays as InitSwarm left it.
RunTemplateTask(c) ==
    LET s == call[c].swarm
        t == call[c].task
        copy == [call[c].copy EXCEPT !.status = "running", !.tasks = Append(@, t)]
        busy == SetAgents(mem, Members(mem, copy), "busy")
    IN
    /\ MutexFree
    /\ call[c].op = "running"
    /\ \E a \in Selectable(busy, copy) :
          Update(SetAgents(busy, {a}, "busy"),
                 AgentRows(busy, copy)
                 \o (IF a = 0 THEN <<>> ELSE AgentRow(SetAgents(busy, {a}, "busy"), a) \o CopyRow(t, a))
                 \o <<Row("swarms", s, copy)>>)
    /\ copied' = copied \cup {s, t}
    /\ Return(c)
    /\ UNCHANGED <<db, counter, contested, runner, spawning, torn>>

\* PauseSwarm and ResumeSwarm copy the list of tasks and unlock,
BeginSwarmCall(c, op, s) ==
    /\ MutexFree
    /\ Exists(mem.swarms, s)
    /\ Begin(c, op, s, mem.swarms[s].tasks)
    /\ UNCHANGED <<mem, db, counter, contested, pending, runner, spawning, copied, torn>>

PauseSwarm(c, s) == BeginSwarmCall(c, "pause", s)
ResumeSwarm(c, s) == BeginSwarmCall(c, "resume", s)

\* pause or resume one task after another, whatever became of them,
NextOfSwarm(c) ==
    LET t == Head(call[c].todo)
        pausing == call[c].op = "pause"
        possible == IF pausing THEN Pausable(t) ELSE mem.tasks[t].status = "paused"
    IN
    /\ MutexFree
    /\ call[c].op \in {"pause", "resume"}
    /\ call[c].todo # <<>>
    /\ IF ~possible THEN UNCHANGED <<mem, pending>>
                    ELSE IF pausing THEN Pause(t) ELSE Resume(t)
    /\ call' = [call EXCEPT ![c].todo = Tail(@)]
    /\ UNCHANGED <<db, counter, contested, runner, spawning, copied, torn>>

\* and set the swarm's status.
EndOfSwarm(c) ==
    LET s == call[c].swarm
        m == [mem EXCEPT !.swarms[s].status = IF call[c].op = "pause" THEN "ready" ELSE "running"]
    IN
    /\ MutexFree
    /\ call[c].op \in {"pause", "resume"}
    /\ call[c].todo = <<>>
    /\ Update(m, SwarmRow(m, s))
    /\ Return(c)
    /\ UNCHANGED <<db, counter, contested, runner, spawning, copied, torn>>

(* ------------------------------ crash and restart ----------------------- *)

InDb == {i \in Ids : db.agents[i].status # "absent" \/ db.swarms[i].status # "absent"
                     \/ db.tasks[i].status # "absent"}

\* What a new process loads; contests and runners are lost.
Reload ==
    /\ mem' = db
    /\ contested' = {}
    /\ pending' = <<>>
    /\ runner' = [t \in Ids |-> "none"]
    /\ call' = [c \in Callers |-> Idle]
    /\ spawning' = 0
    /\ copied' = {}
    /\ torn' = torn \cup (IF Exists(db.agents, spawning) THEN {} ELSE {spawning} \ {0})
    /\ UNCHANGED db

\* mutant: the numbers of swarms are not looked at.
CrashSkipsSwarms ==
    LET ids == {i \in InDb : db.swarms[i].status = "absent"} IN
    /\ counter' \in {n \in ids : \A i \in ids : i <= n}
    /\ Reload

\* The process dies at any moment; the next one counts from the highest id
\* that has a row.
Crash ==
    /\ counter' \in {n \in InDb : \A i \in InDb : i <= n}
    /\ Reload

Of(t, s) ==
    \/ CreateTask \/ StartTask(t) \/ CancelTask(t) \/ PauseTask(t) \/ ResumeTask(t)
    \/ ContestTaskSteal(t) \/ StopAgent(t) \/ StopSwarm(s) \/ RebalanceSwarm(s)
    \/ SpawnAgent(s) \/ SpawnAgent(0)
    \/ \E a \in Ids : AssignTask(t, a) \/ ResolveTaskStealContest(t, a) \/ StealTask(t, s, a)
    \/ \E n \in 1..MaxMembers : InitSwarm(n) \/ ScaleUp(s, n) \/ ScaleDown(s, n)
    \/ \E c \in Callers : StartSwarm(c, s) \/ PauseSwarm(c, s) \/ ResumeSwarm(c, s)
                          \/ \E n \in 1..MaxMembers : RunWorkflowTemplate(c, n)

\* What a request begins: any handler, and here also the end of the process.
Request ==
    /\ requests < MaxRequests
    /\ requests' = requests + 1
    /\ Crash \/ \E i, s \in Ids : Of(i, s)

\* What goes on by itself.
Continues ==
    /\ \/ Persist
       \/ \E t \in Ids : MarkTaskRunning(t) \/ StepTask(t) \/ FinishTask(t)
       \/ \E c \in Callers : CloneSwarm(c) \/ CreateSwarmTask(c) \/ ListTask(c)
                             \/ RunTemplateTask(c) \/ NextOfSwarm(c) \/ EndOfSwarm(c)
    /\ UNCHANGED requests

Next == Request \/ Continues

Spec == Init /\ [][Next]_vars

(* -------------------------------- properties ---------------------------- *)

\* The database agrees with the manager whenever nobody holds the mutex:
\* every handler saves all the agents, swarms and tasks it changed, whichever
\* way it went through them.  The exceptions are what was saved from a copy:
\* the task of StartSwarm, and both swarm and task of RunWorkflowTemplate.
RowsCurrent ==
    MutexFree => \A i \in Ids :
        /\ db.agents[i] = mem.agents[i]
        /\ i \notin copied => db.swarms[i] = mem.swarms[i] /\ db.tasks[i] = mem.tasks[i]

ListedIn(table) == UNION {{table.swarms[s].tasks[i] : i \in 1..Len(table.swarms[s].tasks)} : s \in Ids}

\* A swarm lists tasks that exist, in the manager and in the database, and
\* also after a crash between any two statements: the task's row comes first.
ListedTasksExist ==
    /\ \A t \in ListedIn(mem) : Exists(mem.tasks, t)
    /\ \A t \in ListedIn(db) : Exists(db.tasks, t)

\* An agent works for one swarm, the one its swarm_id names, and whatever a
\* crash cut short, a swarm lists no agent that is missing or another's -
\* but for the agent that SpawnAgent had listed before it was saved.
OneSwarm ==
    \A s \in Ids : \A i \in 1..Len(mem.swarms[s].agents) :
        LET a == mem.swarms[s].agents[i] IN
        a \in torn \/ (Exists(mem.agents, a) /\ mem.agents[a].swarm = s)

\* No id is given twice, also after a restart that counts from the rows.
IdsAreFresh ==
    \A i \in Ids : Exists(mem.agents, i) \/ Exists(mem.swarms, i) \/ Exists(mem.tasks, i)
                   \/ i \in InDb \/ i \in ListedIn(mem) => i <= counter

=============================================================================
