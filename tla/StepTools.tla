------------------------------- MODULE StepTools -------------------------------
(***************************************************************************)
(* internal/orchestration/manager.go: a step of a task is a conversation   *)
(* with a model that is given the manager's own operations as tools, so    *)
(* that a step creates, starts, cancels and gives away tasks, its own      *)
(* among them, while the runners of others do the same.                    *)
(*                                                                         *)
(* A task here has one step and is its status and its agent; steps, rows   *)
(* and pauses are in module Tasks, swarms and agents in module Swarm: the  *)
(* tools that change those end with a result or an error here.             *)
(***************************************************************************)
EXTENDS Integers, Sequences, SequencesExt, FiniteSets, FiniteSetsExt

CONSTANTS
    MaxTasks,           \* bound: tasks there are ever
    Goroutines,         \* bound: runners at a time
    Helpers,            \* agents that tasks are given to
    Rounds,             \* of a step's conversation (4)
    CallsPerAnswer      \* bound: tool calls of one answer

ASSUME StepToolsAssumption ==
    MaxTasks \in Nat \ {0} /\ Rounds \in Nat \ {0} /\ CallsPerAnswer \in Nat

TaskNumbers == 1..MaxTasks
Nobody == "nobody"

VARIABLES
    job,                \* of each task: status and agent
    step                \* of each runner: pc, task, round, calls, said

stepVars == <<job, step>>

(* --------------------------------- tools ------------------------------- *)

\* What the tools are told of: their names and the arguments they require.
Tool(name, required) == [name |-> name, required |-> required]
TaskTools ==
    {Tool("create_task", {"goal"}), Tool("init_swarm", {"objective"}), Tool("run_workflow_template", {"template_id"}),
     Tool("get_workflow_state", {"workflow_id"}), Tool("get_workflow_metrics", {"workflow_id"}),
     Tool("get_workflow_debug_info", {"workflow_id"})}
TemplateTools ==
    {Tool("get_workflow_template", {"template_id"}), Tool("save_workflow_template", {"id"}),
     Tool("delete_workflow_template", {"template_id"}), Tool("list_workflow_templates", {}), Tool("list_tasks", {}),
     Tool("assign_task", {"task_id", "agent_id"}), Tool("start_task", {"task_id"}), Tool("cancel_task", {"task_id"}),
     Tool("get_task", {"task_id"})}
AgentTools ==
    {Tool("list_agents", {}), Tool("spawn_agent", {"type"}), Tool("stop_agent", {"agent_id"}), Tool("list_swarms", {}),
     Tool("propose_consensus", {"swarm_id"}), Tool("delegate_task", {"task_id", "swarm_id"}),
     Tool("start_swarm", {"swarm_id"}), Tool("stop_swarm", {"swarm_id"}), Tool("refine_task", {"task_id", "feedback"})}
SwarmTools ==
    {Tool("resume_session", {"session_id"}), Tool("fork_session", {"source_session_id"}), Tool("get_swarm_status", {"swarm_id"}), Tool("scale_swarm", {"swarm_id", "count"}),
     Tool("coordinate_swarm", {"swarm_id", "agents"}), Tool("rebalance_swarm", {"swarm_id"}),
     Tool("get_swarm_load", {"swarm_id"}), Tool("detect_swarm_imbalance", {"swarm_id"}),
     Tool("preview_rebalance", {"swarm_id"}), Tool("list_stealable_tasks", {"swarm_id"})}
StealTools ==
    {Tool("steal_task", {"task_id", "swarm_id"}), Tool("contest_task_steal", {"task_id"}),
     Tool("resolve_task_contest", {"task_id", "winner_agent_id"}), Tool("detect_stale_tasks", {"swarm_id"}),
     Tool("get_agent_status", {"agent_id"}), Tool("search_memory", {"session_id", "query"}),
     Tool("get_session_history", {"session_id"})}
AllTools == TaskTools \cup TemplateTools \cup AgentTools \cup SwarmTools \cup StealTools

\* What executing a tool does, by its name.
Creates == {"create_task", "refine_task", "resume_session", "fork_session", "run_workflow_template", "init_swarm"}
GivesAway == {"assign_task", "delegate_task", "steal_task", "resolve_task_contest"}
OfTask == GivesAway \cup {"get_task", "start_task", "cancel_task", "refine_task", "contest_task_steal"}
OfSwarm == {"start_swarm", "stop_swarm", "scale_swarm", "coordinate_swarm", "rebalance_swarm", "spawn_agent", "stop_agent"}
Views == {"get_swarm_status", "get_swarm_load", "detect_swarm_imbalance", "propose_consensus", "get_workflow_state"}
Reads == {"get_workflow_template", "list_workflow_templates", "get_workflow_metrics", "get_workflow_debug_info",
          "list_tasks", "list_agents", "list_swarms", "preview_rebalance", "list_stealable_tasks", "detect_stale_tasks",
          "get_agent_status", "search_memory", "get_session_history"}
OfTemplates == {"save_workflow_template", "delete_workflow_template"}
Handled == Creates \cup OfTask \cup OfSwarm \cup Views \cup Reads \cup OfTemplates

(* --------------------------------- steps ------------------------------- *)

Existing == {t \in TaskNumbers : job[t].status # "absent"}
Unused == [pc |-> "free", task |-> 1, round |-> 0, calls |-> 0, said |-> <<>>]
NewJob == [status |-> "queued", agent |-> Nobody]
NoJob == [NewJob EXCEPT !.status = "absent"]
AtStep(r, pc) == step[r].pc = pc
Goes(r, s) == step' = [step EXCEPT ![r] = s]

\* A goroutine for a task; there is one to spare (bound).
FreeGoroutines == {g \in Goroutines : AtStep(g, "free")}
Launched(steps, t) ==
    LET g == CHOOSE g \in Goroutines : steps[g].pc = "free"
    IN [steps EXCEPT ![g] = [Unused EXCEPT !.pc = "begin", !.task = t]]

\* The next task is made, and run at once if the call says execute.
Create(t, execute) ==
    /\ job[t].status = "absent" /\ \A u \in 1..(t - 1) : job[u].status # "absent"
    /\ execute => FreeGoroutines # {}
    /\ job' = [job EXCEPT ![t] = NewJob]

\* A client's request; the rest happens in steps.
ClientCreates ==
    /\ Existing = {}
    /\ Create(1, TRUE)
    /\ step' = Launched(step, 1)

\* markTaskRunning: a task that is done is run again as it is.  What MCP
\* tools give to a task of theirs is context, and nothing if they fail.
BeginRun(r) ==
    /\ AtStep(r, "begin")
    /\ job' = [job EXCEPT ![step[r].task].status = IF @ \in {"running", "completed"} THEN @ ELSE "running"]
    /\ Goes(r, [step[r] EXCEPT !.pc = "ask"])

\* The model fails, answers, or calls tools.
AskModel(r) ==
    /\ AtStep(r, "ask")
    /\ \/ Goes(r, [step[r] EXCEPT !.pc = "failing"])
       \/ Goes(r, [step[r] EXCEPT !.pc = "done"])
       \/ \E n \in 1..CallsPerAnswer :
            Goes(r, [step[r] EXCEPT !.pc = "call", !.calls = n, !.said = Append(@, [role |-> "assistant", calls |-> n])])
    /\ UNCHANGED job

\* A result is the tool's, or the text of its error.
ToolResult == [role |-> "tool", calls |-> 0]
\* Mutant: a call that fails has no result.
ToldUnlessFailed(said, fails) == IF fails THEN said ELSE Append(said, ToolResult)
Told(said, fails) == Append(said, ToolResult)

\* Mutant: rounds are not counted, and each is a conversation of its own.
NextRoundUncounted(s) == [s EXCEPT !.pc = "ask", !.said = <<>>]
\* After the last round the answer is the one that had the calls.
NextRound(s) == [s EXCEPT !.round = @ + 1, !.pc = IF s.round + 1 = Rounds THEN "done" ELSE "ask"]

AfterCall(r, fails) ==
    LET s == [step[r] EXCEPT !.calls = @ - 1, !.said = Told(@, fails)]
    IN IF s.calls = 0 THEN NextRound(s) ELSE s

CallsTool(r, names) == AtStep(r, "call") /\ names \cap Handled # {}

\* A tool that reads, or changes swarms, agents and templates, or fails: it
\* is not known, a name in its arguments is not, or the operation refuses.
CallElsewhere(r) ==
    /\ AtStep(r, "call")
    /\ \E fails \in BOOLEAN : Goes(r, AfterCall(r, fails))
    /\ UNCHANGED job

CallCreates(r) ==
    /\ CallsTool(r, Creates)
    /\ \E t \in TaskNumbers, execute \in BOOLEAN :
         /\ Create(t, execute)
         /\ step' = LET after == [step EXCEPT ![r] = AfterCall(r, FALSE)] IN IF execute THEN Launched(after, t) ELSE after

\* Any task, this one too, whatever its status is.
CallStarts(r) ==
    /\ CallsTool(r, {"start_task"})
    /\ FreeGoroutines # {}
    /\ \E t \in Existing : step' = Launched([step EXCEPT ![r] = AfterCall(r, FALSE)], t)
    /\ UNCHANGED job

CallCancels(r) ==
    /\ CallsTool(r, {"cancel_task"})
    /\ \E t \in Existing :
         /\ job[t].status \notin {"completed", "failed"}
         /\ job' = [job EXCEPT ![t].status = "cancelled"]
    /\ Goes(r, AfterCall(r, FALSE))

\* assign_task, delegate_task, steal_task and resolve_task_contest.
CallGivesAway(r) ==
    /\ CallsTool(r, GivesAway)
    /\ \E t \in Existing, a \in Helpers :
         job' = [job EXCEPT ![t].agent = a, ![t].status = IF @ = "queued" THEN "assigned" ELSE @]
    /\ Goes(r, AfterCall(r, FALSE))

Call(r) == CallElsewhere(r) \/ CallCreates(r) \/ CallStarts(r) \/ CallCancels(r) \/ CallGivesAway(r)

\* An empty answer has an output all the same: a text that says so.
CompleteRun(r) ==
    /\ AtStep(r, "done")
    /\ job' = [job EXCEPT ![step[r].task].status = "completed"]
    /\ Goes(r, Unused)
\* Mutant: a task whose step fails is left as it is.
FailRunSilent(r) == AtStep(r, "failing") /\ Goes(r, Unused) /\ UNCHANGED job
FailRun(r) ==
    /\ AtStep(r, "failing")
    /\ job' = [job EXCEPT ![step[r].task].status = "failed"]
    /\ Goes(r, Unused)

StepWork(r) == BeginRun(r) \/ AskModel(r) \/ Call(r) \/ CompleteRun(r) \/ FailRun(r)

StepsInit == job = [t \in TaskNumbers |-> NoJob] /\ step = [g \in Goroutines |-> Unused]
StepsNext == ClientCreates \/ \E r \in Goroutines : StepWork(r)

\* Goroutines run, models answer or fail, and tools return.
StepsSpec == StepsInit /\ [][StepsNext]_stepVars /\ \A r \in Goroutines : WF_stepVars(StepWork(r))

(* ------------------------------ properties ----------------------------- *)

Statuses == {"absent", "queued", "assigned", "running", "completed", "failed", "cancelled"}
Messages == [role : {"assistant", "tool"}, calls : Nat]
\* The type invariant.
StepsTypeOK ==
    /\ job \in [TaskNumbers -> [status : Statuses, agent : Helpers \cup {Nobody}]]
    /\ step \in [Goroutines -> [pc : {"free", "begin", "ask", "call", "done", "failing"}, task : TaskNumbers,
                                round : Nat, calls : Nat, said : Seq(Messages)]]

\* The answers in a conversation, and the messages of one up to the next.
AnswersOf(said) == {i \in DOMAIN said : said[i].role = "assistant"}
ResultsOf(said, i) == {j \in DOMAIN said : j > i /\ \A k \in AnswersOf(said) : k > i => j < k}

\* What a model is sent is a conversation it can have had: each call of an
\* answer has its result before the next answer, also when a tool failed; and
\* a tool it was told of is never an unsupported one.
CallsServed ==
    /\ {t.name : t \in AllTools} = Handled
    /\ \A r \in Goroutines : AtStep(r, "ask") =>
         \A i \in AnswersOf(step[r].said) : Cardinality(ResultsOf(step[r].said, i)) = step[r].said[i].calls

\* A task says that it runs only while a goroutine runs it: steps that start,
\* cancel and give away the tasks of others, or their own, leave none behind.
NoneForgotten ==
    \A t \in TaskNumbers : job[t].status = "running" => \E r \in Goroutines : step[r].pc # "free" /\ step[r].task = t

\* Every run of a task ends, though its model may go on calling tools and the
\* tasks it starts may start it.
StepsEnd == \A r \in Goroutines : step[r].pc # "free" ~> step[r].pc = "free"
==============================================================================
