# synapserouter in TLA+

Synapserouter (`src/`) is an LLM proxy and agent runtime in Go.  It routes chat
requests over a chain of providers with circuit breakers, rate limits and
fallback, keeps conversations in SQLite, runs orchestration tasks step by step
in background goroutines, drives coding agents, logs into subscriptions and
evaluates models.  This directory holds TLA+ models of the parts that have
state and order, TLC configurations that check them, and TLAPS proofs of what
matters most.

- [The system](#the-system): components, state, operations, interactions
- [What is modelled](#what-is-modelled): modules and how they follow the code
- [What is checked](#what-is-checked): runs, properties, bounds, fairness
- [What is proved](#what-is-proved)
- [Where the code and the documents differ](#where-the-code-and-the-documents-differ)
- [What is not modelled](#what-is-not-modelled)

## The system

| component | code | state | operations | hard behaviour | what makes it correct |
|---|---|---|---|---|---|
| circuit breaker | `internal/router/circuit.go` | one row per provider in `circuit_breaker_state` | `GetState`, `RecordSuccess`, `RecordFailure`, `Open`, reset, start-up UPDATE | no lock and no transaction: SQL statements of many goroutines interleave; persistence across restarts | a closed circuit is below the threshold; an open one has a deadline and is left; a cooldown that was imposed holds |
| provider router | `router.go` | `healthCache`, the provider list | select, try, fall back, stream, handle a stall | decisions taken on a look at a circuit, a cache or a usage figure that is old when used | a request asks a provider once, gives up only when all were tried, and ends |
| concurrency slots | `concurrency.go` | a semaphore per provider | `AcquireWithTimeout`, release | several error paths between the two | slots taken = calls in progress |
| rate limiter | `ratelimit.go` | rate, limiter, `consecutive429` per provider | `Wait`, `GetLimiter`, `RecordRateLimitHit`, `RecordSuccess` | double-checked creation; sleeping goroutines of `Retry-After` | one limiter; a limit that is accounted for; no pause for ever |
| usage tracker | `internal/usage/tracker.go` | `daily_usage`, `provider_quotas` | `Record`, `GetBestProvider` | read when selecting, written when answered | order of the candidates |
| orchestration tasks | `internal/orchestration/manager.go` | `m.tasks`, `m.counter`, `orchestration_tasks`, `orchestration_steps` | create, refine, start, pause, resume, cancel, assign; the runner's steps and their tools; reload | runners release the mutex around each model call; several runners per task; `persistTask` is a series of statements; crashes; a step's model calls the manager's own operations | pauses hold; the database agrees; completed means finished; what runs has a runner; every call of a tool gets its result |
| task event streams | `manager.go` | `m.listeners` | `SubscribeTask`, its cancel, `publish`, `closeTaskListeners` | channels are sent to outside the lock; buffers of 32 drop | no holes unnoticed, streams end, nobody's leaving stops a run |
| swarms and agents | `manager.go`, `agents.go`, `dispatch.go`, `workflows.go` | `m.swarms`, `m.agents`, their tables | init, scale, start, pause, resume, stop, steal, contest, rebalance, templates | operations that release the lock half-way; statements that a crash cuts; a nested read lock | the tables agree with the maps; no id is given twice; every request is answered |
| conversation memory | `internal/memory`, `preprocess.go`, `refine.go` | `memory`, `sessions` | store, retrieve, inject, start, touch, end stale, continue | offsets into a message list that preprocessing changes; two sessions that start at once; text compared as time | each message is stored, in its own session; an abandoned session is not continued |
| agent loop | `internal/agent/agent.go`, `pipeline.go`, `review_stability.go`, `intent.go`, `conversation.go` | conversation, phase and its counters, cycles, provider level | turns, tool calls, phases, gates, reviews, trims, escalation | six counters that end a phase and reset one another; a phase index moved in a dozen places; messages dropped while calls are open; the model may say anything | phases end, with evidence and after their reviews; levels only climb; requests keep calls and results together and end on the user's side |
| reviews of the agent | `internal/agent/agent.go` (`runSubAgentPhase` and its callees), `review_merge.go`, `diff_review.go` | the rotation of a level's providers, outputs of K reviewers | review and fix in turn, review by K at once, merge findings, show diffs, two phases at once | a rotation that goes on after an escalation; clusters of findings that are alike but not transitively; cuts at limits | nobody reviews what he fixed; a finding is counted once; every change is shown or said to be left out |
| research sessions | `internal/agent/research.go`, `research_runner.go` | rounds, pages seen, calls made | choose backends, vary queries, collect, saturate, cite | a budget spent a whole search at a time; two numberings of the same sources | no page is told twice, each number is that of a source, the budget is kept but for one search |
| terminal loops | `internal/agent/coderepl.go`, `repl.go` | raw mode, `reqCtx`, presses of Ctrl-C, `exitCh` | read, run, interrupt, escalate, run one phase | a goroutine takes interrupts beside the loop; a terminal that is raw must be given back | the terminal is cooked when it has to be; no more requests are stopped than interrupts came |
| background tasks | `commands.go`, `internal/tasks`, `internal/worktree` | `background_tasks`, worktrees, marker files | start detached, list, mark, clean up worktrees | parents, children and listers are processes that die at any step | a child has its own message and worktree; completed means ended |
| delegation and worktrees | `subagent.go`, `pool.go`, `handoff.go`, `lockfile.go`, `internal/worktree` | directories, lock files, children's outputs | run a child, run children in parallel, merge, cross-review, hand off | a lock that its own process finds; worktrees that cannot be made; copies merged over one another | children keep apart; nothing is left behind; edits reach the user |
| subscriptions and OAuth | `internal/subscriptions` | login sessions, callback servers, the credential file | begin, callback, poll, submit, expire, refresh, store | callbacks racing time-outs; two logins on one port; read-modify-write of one file | a login ends once, with its own callback; no credential is lost |
| provider clients | `internal/providers`, `internal/subscriptions`, `anthropic_handlers.go`, `compat_handlers.go` | none that lasts | convert a conversation, call, read the answer, try the next credential | ids that restart; results that lose their call on the way through another form; credentials tried in turn | what is sent is the conversation, in its order, each result with its call; every credential was tried |
| web search | `internal/tools/web_search.go`, `web_search_backends.go`, `result_filter.go` | backends' circuits | choose backends, ask, fuse, filter, rank, research | fused orders, a filter between ranks and results | what most backends found comes first; what is ranked is shown |
| evaluation harness | `internal/eval` | `eval_exercises`, `eval_runs`, `eval_results` | import eleven suites, run, test, retry, escalate, review, store, summarise | a pool of goroutines, a deadline, a second pass over code that passed | results are those of the code kept; a completed run is complete |

Interactions.  A chat handler calls the router, which reads the circuit row,
the health cache and the usage database, waits for the rate limiter and a
slot, and calls the provider; the outcome is written back to all of them, and
what was said to the memory.  An orchestration runner calls the same router for
each step through the manager's executor, and its model calls the manager's
operations back.  Runners publish to the channels that SSE handlers read.
Swarms create tasks through the task operations.  A terminal runs an agent for
each line and cancels it; a background task is such an agent in a process of
its own, known by a row and a marker file.  Research asks the backends of web
search.  An agent calls the router
for each turn, tools for each call, and other agents for phases and reviews.
All of it shares one SQLite file, whose statements are the only serialisation
between components, and each component has a mutex of its own in memory.

The hazards are listed in `PROJECT.json`, each at its line, with the properties
that would catch it.

## What is modelled

| module | models | state ↔ code |
|---|---|---|
| `AbstractBreaker` | what a circuit breaker promises its callers: who is let through, what the end of a call does, who may half-open; named actions for the three places where the code promises less than its document | `state`, `failures`, `cooling` = open with a deadline ahead; `stage` of each caller |
| `CircuitRow` | the row of `circuit_breaker_state` and what each SQL statement makes of it | `[state, failures, deadline]`; deadlines count down |
| `Breaker` | `circuit.go` for one provider and any number of callers; EXTENDS `CircuitRow`, refines `AbstractBreaker` | `circuit`; `pc` of each caller, between two statements of `GetState`, or between the failure and the trip of `tryProvider` |
| `Router` | `router.go`, `concurrency.go`, the order of `tracker.go`; EXTENDS `CircuitRow` with a row per provider | `row` = `circuitBreakers`, `cache` = `healthCache`, `inFlight` = semaphores, `usage` = `daily_usage`, `req` = goroutines of the handlers, each asking once; refines `AbstractBreaker` once for each provider, `StageWith` saying where a request is with that circuit |
| `RateLimiter` | `ratelimit.go` for one provider | `config`, `made`, `rpm`, `limit`; `sleepers` = goroutines of `Retry-After` |
| `SessionMemory` | the `sessions` and `memory` tables, statement by statement, from the chat and the Responses API | `sessions`, `memory`; `chat` = requests between two statements, with what the client said (`said`) and what the router made of it (`own`); a text is what was said, the turn, and whether in the client's words, refined, or behind skills; `offset` = local time against UTC |
| `Tasks` | tasks of `manager.go`: handlers, runners, `persistTask`, reload | `tasks`, `counter`; `db` = the two tables; `writing` = `persistTask` in progress, which is the mutex; `runner` = goroutines of `runTask` |
| `StepTools` | the conversation of a step with a model that calls the manager's tools | `job` = status and agent of each task; `step` = each runner with what was said |
| `TaskEvents` | subscription and publication for one task | `listeners`, `channel`, `client`, `run` (targets copied by `publish`), `panicked` |
| `Swarm` | swarms, agents, their tasks and templates; handlers that hold the mutex more than once | `mem` = the three maps, `db` = the tables, `pending` = statements the holder has yet to run, `call` = handlers in between |
| `ManagerLock` | `m.mu` as the handlers take it | `pc`, `reads`, `writer` |
| `Pipeline` | `loop` and `advancePipeline` of `agent.go` with the review tracker: an agent that works in phases | `pipeline`, `pipelinePhase`, `pipelineCycles`, `providerIdx`, `noToolTurns`, `exhaustionRedirects` by their names; `counters` = the counters that a new phase resets; `tracker` = `reviewTracker`; `pending` = the calls of `advancePipeline` the turn still makes |
| `Reviews` | the reviews of phases of sub-agents: one reviewer, a rotation, K at once, two phases at once | `review` = the agent's level and rotation index; `branch` = of each phase being reviewed where it stands, who speaks, who fixed last, the outputs, the diffs shown |
| `Research` | one research session | `study` = `ResearchSession` and its query loop, `rounds`, `findings` = the numbered sources and those printed |
| `Terminal` | the loops of `synroute code` and `synroute chat` | `loop`; `tty` = raw mode and what `restoreTerminal` brings back; `reqs` = `newReqCtx` and `agentRunning`; `sigs` = `sigCh`, the handler's goroutine, presses, `exitCh`; `position` = the agent's pipeline, phase and level, with the copies of `RunPhase` |
| `Background` | `chat --background`, `synroute tasks`, the cleaner of worktrees | `taskRow` = `background_tasks`; `parent`, `child`, `lister` = processes, between two statements or system calls; `files` = message, marker and branch of each directory; `chatSession` |
| `DirectLoop` | `loop` in direct mode with `conversation.go` | the messages and the loop's counters; `at` = the place in a turn; `unanswered` of an answer is history: its calls that were denied or cut off by the turn cap |
| `Workspaces` | delegation, worktrees and lock files of one process | `tree`, `exists`, `git`, `locks` = directories; `agent`, `job`, `outputs` |
| `CredentialStore` | `StoreCredential` on the credential file, whoever calls it | `file`; `save` = callers between load, emptying and filling |
| `Login` | managed and interactive logins, their callback servers, sessions and the refresh; EXTENDS `CredentialStore` | `flow`, `took`, `server`, `callbacks`, `errors`, `manual`, `session` |
| `ToolTurns` | a conversation with tools through the dialects of clients and the forms of upstreams | `said`, `request`, `sent` |
| `Search` | one web search | `search` = `[pc, asked, found, ranked, shown]` |
| `Evals` | imports and runs of the harness | `table` = `eval_exercises`, `report`, `run`, `worker` = goroutines with their results, `row` = `eval_runs` |
| `Selections` | `Those`, the elements of a sequence that satisfy a test, and `ElementsAt`; what `SelectSeq` returns, written so that it can be proved about | |
| `RequestsProofs`, `TasksProofs`, `ToolsProofs`, `PipelineProofs`, `ServicesProofs`, `WorkProofs`, `SwarmProofs`, `SelectionsProofs` | theorems | |
| `MCRouter`, `MCMemory`, `MCTasks` | values of constants that a configuration cannot write | |
| `MCRouting`, `MCRequests`, `MCTools`, `MCPipeline`, `MCServices`, `MCWork` | several modules side by side, see below | |

An action is a critical section, an SQL statement, or a stretch of code that
no other goroutine can observe in part.  So `GetState` is two actions (SELECT,
UPDATE), `persistTask` is 2 + n (upsert, DELETE, INSERT of each step),
`StoreCredential` is three, and a runner's step is two critical sections with
the call of the model between.  `Router` takes one look at a provider as a
step: module `Breaker` splits it.

`Pipeline` and `DirectLoop` are one goroutine, so their actions are parts of a
turn: the turn cap, what the model answers, the calls of its tools, and each
call of `advancePipeline`, which is one action with the reviewers it waits for
(`RejectClaim`, `RejectChecks`, `Pass`, `Fail`, `Prompt` are its ways out).
Two calls may come out of one turn.  `Search` takes the goroutines of the
backends as one step, since they share nothing and are waited for.

Abstractions, in short.

- Time is counted in ticks down to zero: only the order of deadlines matters.
- What a provider, a health check, a tool or a model answers is any of the
  classes the code distinguishes.  Which models a provider supports is chosen
  per request.
- Texts, prompts, names, URLs, code: a model value, or the place in the
  conversation where it was said.  A step has an output or it has not.
- Rates are whole numbers of a unit; a tenth of the configured rate is added
  by a success, halving rounds down.
- The token bucket (`golang.org/x/time/rate`), SQLite, git and containers are
  external: a wait ends at any time, a statement is atomic, a command succeeds
  or fails.  Statements that fail are not modelled (the code logs and goes on),
  except where a run of the evaluation ends by one.
- What a model says is its signal (pass, fail, goes on, unclear) in `Pipeline`,
  and text with or without calls in `DirectLoop`, `StepTools`, `ToolTurns`.
  Reviewers approve or not; their findings are a number, the code and the issues
  the same as before or not.  A verification gate has a number of checks, of
  which some pass.  The repetition of tool calls is a choice of what the loop
  makes of it.
- The pipeline's budget, the context and failed calls end a run at any turn
  (`Stop`); the checks at the end of a run send the agent on or not (`Final`).
- In `Reviews` a reviewer's text is the signals in it and the lines that name
  findings; a summary is the set of its words, since only what two summaries
  have in common counts.  A diff has a path, whether its file is new, and a
  number of lines.  Which provider each of K reviewers gets is left out.
- In `Terminal` a line is the number of its characters, and what it asks for is
  chosen when it is given; a request moves the agent's pipeline and phase
  anyhow.  In `Research` a query is counted, and what a backend finds is any
  list of URLs, several of which may be one page.
- A file is the set of edits it contains; a directory is its files.  In
  `Background` it is a message, a marker and the branch; which worktrees are
  too many or too big is a choice.
- A crash keeps the database (or the credential file) and nothing else.  In
  `Breaker` it is `Restart`, with the start-up UPDATE, which compares local with
  UTC text (`ClockSkew`).
- Variables marked "history" in the modules are not in the code; properties
  read them, guards do not.

## What is checked

| run | parts and instance | properties, and what they show |
|---|---|---|
| `requests` | `Router`: 1 request of `ChatCompletion` over 3 providers, the second and the third with a quota and usage below, at and above the warning, among calls of others that succeed and fail; `SessionMemory`: 2 sessions, 2 requests at a time, a clock one window behind UTC | `ChainIsWalked` (no provider twice, none left out); `AnsweredIsRemembered`, `AbandonedStaysApart` |
| `routing` | `Router`: 2 requests by all three entry points over 2 providers of 1 slot; `Breaker` with 3 callers, threshold 2, resets, restarts with skew 1; `RateLimiter` with 2 callers, a rate below the floor, a slow and a fast one | `SlotsAreHeld`; `RowsImplementBreaker`, `ImplementsAbstract` (refinements of `AbstractBreaker`, by each row under the router and by the statements of one row); `PacedByOne`; `RoutingEnd`: requests are answered (`RequestsEnd`), pauses end (`PausesEnd`) |
| `tools` | `Tasks`: 1 task of up to 2 steps, 2 runners, crashes; `StepTools`: 2 tasks, 2 runners, 2 agents, 2 rounds; `ToolTurns`: 4 families of upstreams, 4 dialects, 2 functions; `Search`: 4 backends, 3 documents; `Evals`: a library of small sources of the eleven suites, 2 exercises a run, 2 codes | `PauseTakesHold`, `DatabaseCurrent`, `CompletedHasOutputs`, `CompletedIsFinal`; `CallsServed`, `NoneForgotten`; `SentFaithfully`, `EveryKeyTried`; `RankingHolds`; `ImportsHold`, `ResultsHold`; `ToolsEnd`: `RunnersEnd`, `EvalsEnd`, `StepsEnd` |
| `pipeline` | `Pipeline`: a modelling pipeline, and none at all (then the software one is made), chain of 2 levels, limits of 1 or 2; `Reviews`: levels of 1, 3 and 2 providers, phases of one reviewer or a rotation, of 2 and of 3 at once, and two phases at once; 2 reviews, 2 lines a file, 3 in all; `Research`: 2 or 3 backends, 1 or 2 rounds, budgets of 2 and 50, 1 cited source; `Terminal`: 2 lines, 3 interrupts | `CyclesBounded`, `IndependentReview`, `EndsWithEvidence`, `PhasesEnd`; `FixesReviewed` (nobody reviews what he fixed), `ReviewsHold` (findings are merged and changes shown); `ResearchHolds`; `TerminalHolds` |
| `services` | `Login`: a managed and an interactive login, 2 accounts, the refresh, a crash; `Workspaces`: a lead and 2 children in a repository, 6 directories; `TaskEvents`: 2 runs, 1 client, capacity 2, 3 events; `Background`: 2 tasks, a lister, a chat session with the cleaner | `LoginsHold`, `CredentialsKept`; `ChildrenApart`, `NothingLeft`; `EndedIsWhole`; `TasksApart`; `ServicesEnd`: `LoginsEnd`, `JobsEnd`, `StreamsEnd` |
| `work` | `Swarm`: 4 requests or crashes, ids up to 4, 2 handlers that hold the mutex more than once; `DirectLoop`: conversations of 4 messages, answers of 2 calls, a second run | `RowsCurrent`, `IdsAreFresh`; `RequestsWellFormed`, `RunsEnd` |
| `breaker_race` (violation) | `Breaker`, 2 callers | `CooldownHeld` fails by a stale `GetState` |
| `tasks_cancel` (violation) | `Tasks`, 1 task, 1 runner, no crash | `CancelledStays` fails |
| `events_panic` (violation) | `TaskEvents`, 1 run, a leaving client | `ClientsCannotStopRuns` fails |
| `preview_lock` (violation) | `ManagerLock`, a preview, 2 writers, a reader | `PreviewsEnd` fails by the nested read lock |
| `edits_lost` (violation) | `Workspaces`, one agent, two messages | `EditsReachUser` fails by the agent's own lock |
| `memory_shift` (violation) | `SessionMemory`, 2 sessions, one client at a time | `OwnMemory` fails by a message put in front |

A union module (`MCRouting`, `MCRequests`, `MCTools`, `MCPipeline`,
`MCServices`, `MCWork`) holds parts that share no state.  Each behaviour is one of a single part (the
variable `part` or `view` says which, and never changes), so that the states of
the parts add up and one run checks them all; the properties of a part are
checked in its behaviours and hold trivially in the others, where the part does
not move.  What must happen eventually in the parts of a run is one property of it,
the conjunction of theirs.  `MCRequests` splits `SessionMemory` once more: questions in two
chats at a time, and one conversation with tools.

Each property of a passing run has a mutant in `PROJECT.json`: an operator of
the module with a plausible bug (marked "mutant" there) that the property
refutes.

### Why the bounds are enough

The races of the breaker are between a stale reader, a writer and a third
caller who sees the result: three callers.  A chain that has a provider twice,
or leaves one out, shows with three providers: the first that failed, the one
the usage order prefers, and the one behind it; two are tracked, so that the
order of usage is any of the two, and the requests of others are what they do
to rows, health and usage, since nothing else of them is read.  Two requests
over two providers have each of them first, second, full and tripped by the
other, and walk on from one to wait at the next; the slot queue needs one slot
and two requests.  `RecentRows`, `CarriedRows` (4 and
8 in the code) are 1, so that an offset wrong by one is wrong at once, and
`Window` is 0 with a clock that is one window west of UTC, the one case in
which text order and time order part.  Two runners of a task are the fewest
that disturb one another, two steps the fewest with a pause between them; two
tasks the fewest of which one starts the other from a step.  Two goroutines of
`Retry-After` are the fewest that wake out of order; the rates cover a provider
configured below the floor, above it, and past the fast path.  A channel of
capacity 2 with 3 events overflows.

The pipelines of the agent have every kind of phase (parallel, checked,
reviewed by one and by two in a row, and one after the reviews); its limits are
1 or 2 where the code has 2 to 15, but each is reached before and after the
others, escalation comes one step before the way out as in the code, and a
review can diverge over three findings.  The direct loop keeps conversations of
`MaxMessages` = 4 (200 in the code), a prompt and an answer of two calls with
its results, so that every further `Add` trims, with answers
of two calls, of which a trim may take one, and of which one may be denied
while a later answer loses nothing; its stall, loop and recall limits
are 1 or 2 for the same reason.  `MaxIdle` bounds the answers of a run that are
empty or refused as claims, which the code does not count and so may go on for
ever.  Four requests on a swarm are the fewest that start, change, copy and
look; two handlers that hold the mutex more than once the fewest that overlap.

Two logins of one provider share a port; one callback each can be the other's.
Three interrupts at a terminal are a press that is counted, one that leaves and
one that comes late; two lines are one before and one after each of them.  A
research session needs two rounds to be saturated, and a budget below that of
its depth; one page is found under two URLs, one without a name, and of two
pages one is cited.  Rotations of three providers, from an index that an earlier
review has left, and a level up with two are enough for a fixer to come to his
own fix, which needs a step too many or too few; findings of three reviewers
form clusters of one, two and three; files of 1 to 5 lines lie on both sides of
the limits.  Two background tasks and a lister can each have the place that
belongs to the other.

Two children and one slot make the pool wait and a worktree fail while another
is in use.  Four families of upstreams, each followed by another, have every
form a conversation can be re-read in; 5 messages hold two turns of tools.
Three documents over four backends are found by some and not by others.  The
library of the evaluation has sources below, at and above the limits, files of
several entries, and entries that are garbled, lack their test or have no name, for
each language a generated test that starts a program;
`Picks` is 2 where the code has 5, so that the first, a middle and the last
provider of the chain differ.

What is proved below does not depend on these numbers.

### Deadlock and symmetry

Deadlock is checked in `requests`, `breaker_race` and `tasks_cancel`.
Elsewhere the program may come to rest: agents, runs and handlers return, a
process may have died, and the bounds of the model (`MaxRequests`,
`MaxSaid`, `MaxTasks`, `MaxCrashes`) end what a client could go on with.
No symmetry is used.

### Fairness

Goroutines that can take a step take one, since every call of a provider, a
health check, a model, a tool, a test or a command has a time-out: weak
fairness of `Proceed` (requests), `Step` and `TimePasses` (breaker),
`SecondPasses` and `Wake` (limiter), `Persist` (the statements of whoever holds
the mutex), `StepWork` (steps with tools), `WorkOn` and `Conclude`
(evaluations), `Continues` (logins, which have deadlines of their own),
`LeadStep` and `ChildStep` (agents), `Runner` and `Handler` (event streams),
`LoopWork` (the direct loop), and of the pipeline's loop.  Nothing is claimed to
happen eventually of reviews, research, terminals and background tasks: the
first two only count up to their bounds, and the others wait for a user, or are
processes that may die.

`Tasks` needs strong fairness of each runner: it competes for the manager's
mutex, which Go hands over first-come-first-served after 1 ms of starvation.
Nothing is assumed of operators, clients, browsers, crashes or restarts, and
never which answer comes: a model may say the same for ever.

## What is proved

TLAPS checks the theorems for every value of the constants that the named
assumptions of the modules allow; TLC evaluates those assumptions on every run.
No theorem has another hypothesis.  A theorem is over one module; the unions of
`MC…` only put modules side by side, so each is a theorem about the part of a
run it belongs to.

| theorem | module of the proof | property of a run |
|---|---|---|
| `BreakerTypeCorrect` | `RequestsProofs` |  |
| `ClosedIsBelowThreshold` | `RequestsProofs` |  |
| `OpenCircuitHasDeadline` | `RequestsProofs` |  |
| `Implementation` | `RequestsProofs` | `ImplementsAbstract` |
| `LimiterTypeCorrect` | `RequestsProofs` |  |
| `RequestsShareTheLimiter` | `RequestsProofs` |  |
| `LimitsAreAccounted` | `RequestsProofs` |  |
| `RatesStayInBounds` | `RequestsProofs` |  |
| `TypeCorrect` | `TasksProofs` |  |
| `PausesTakeHold` | `TasksProofs` | `PauseTakesHold` |
| `DatabaseIsCurrent` | `TasksProofs` | `DatabaseCurrent` |
| `CompletedTasksHaveOutputs` | `TasksProofs` | `CompletedHasOutputs` |
| `IdsAreFresh` | `TasksProofs` |  |
| `CompletedTasksAreFinal` | `TasksProofs` | `CompletedIsFinal` |
| `TypeCorrect` | `PipelineProofs` |  |
| `CyclesAreBounded` | `PipelineProofs` | `CyclesBounded` |
| `ReviewsAreIndependent` | `PipelineProofs` | `IndependentReview` |
| `LevelsOnlyClimb` | `PipelineProofs` |  |
| `PhasesEndWithEvidence` | `PipelineProofs` | `EndsWithEvidence` |
| `PacingHolds` | `RequestsProofs` | `PacedByOne` |
| `RouterTypeCorrect` | `RequestsProofs` |  |
| `SlotsAreThoseOfCalls` | `RequestsProofs` | `SlotsAreHeld` |
| `ChainsAreWalked` | `RequestsProofs` | `ChainIsWalked` |
| `RowsAreBreakers` | `RequestsProofs` | `RowsImplementBreaker` |
| `EventsTypeCorrect` | `ServicesProofs` |  |
| `ChannelsAreClosedOnce` | `ServicesProofs` |  |
| `EndedStreamsAreWhole` | `ServicesProofs` | `EndedIsWhole` |
| `StepsTypeCorrect` | `ToolsProofs` |  |
| `TasksAreNotForgotten` | `ToolsProofs` | `NoneForgotten` |
| `CallsAreServed` | `ToolsProofs` | `CallsServed` |
| `LoginsTypeCorrect` | `ServicesProofs` |  |
| `LoginsAreHeld` | `ServicesProofs` | `LoginsHold` |
| `CredentialsAreKept` | `ServicesProofs` | `CredentialsKept` |
| `PortsAreReleased` | `ServicesProofs` |  |
| `WorkspacesTypeCorrect` | `ServicesProofs` |  |
| `NothingIsLeft` | `ServicesProofs` | `NothingLeft` |
| `ChildrenStayApart` | `ServicesProofs` | `ChildrenApart` |
| `ResultsAreTrue` | `ToolsProofs` | `ResultsHold` |
| `MemoryTypeCorrect` | `RequestsProofs` |  |
| `AnsweredAreRemembered` | `RequestsProofs` | `AnsweredIsRemembered` |
| `AbandonedStayApart` | `RequestsProofs` | `AbandonedStaysApart` |
| `AllKeysAreTried` | `ToolsProofs` | `EveryKeyTried` |
| `RequestsAreWellFormed` | `WorkProofs` | `RequestsWellFormed` |
| `SwarmTypeCorrect` | `SwarmProofs` |  |
| `RowsAreCurrent` | `SwarmProofs` | `RowsCurrent` |
| `ListedTasksAreThere` | `SwarmProofs` |  |
| `TasksAreListedOnce` | `SwarmProofs` |  |
| `SwarmIdsAreFresh` | `SwarmProofs` | `IdsAreFresh` |
| `BackgroundTypeCorrect` | `ServicesProofs` |  |
| `TasksStayApart` | `ServicesProofs` | `TasksApart` |
| `FixesAlwaysReviewed` | `PipelineProofs` | `FixesReviewed` |
| `TerminalTypeCorrect` | `PipelineProofs` |  |
| `TerminalAlwaysHolds` | `PipelineProofs` | `TerminalHolds` |

The arguments, by module.

- `SelectionsProofs` has what the others need of sequences of any length:
  which elements `Those` keeps and in which order, what `Append`, `Tail` and
  `\o` do to them.  It rests on `AllNumbers`, induction in the form of a set
  that has 0 and the successor of each of its numbers; the library's induction
  theorems take an operator as a parameter, which no prover here instantiates,
  a set they do.  A recursive definition over a sequence is treated with it in
  two steps: a function that satisfies the recursion up to any number exists
  (`SelectionsExist`, `AddingExists`), and so the one that is meant satisfies
  it.
- `RequestsProofs`, on the breaker, from `CircuitAssumption` and
  `BreakerAssumption`.  The type invariant with `ClosedIsBelowThreshold` and
  `OpenCircuitHasDeadline` is inductive, because every statement writes state,
  count and deadline of the row together or leaves the state alone; one lemma
  for what the statements make of a row, one case per action.
  `Implementation`: every step on the row is a step of `AbstractBreaker` by the
  same caller, from the stage that `StageAt` gives it, or a stutter.  The UPDATE
  that `GetState` makes on a stale row is the abstract `HalfOpen`: it needs a
  caller that sighted an expired row before, and is the one action that may end
  a cooldown of which its caller knows nothing.
  On the limiter, from `RateAssumption`: `PacingHolds`.  That all requests share
  one limiter needs that a request waits only on a limiter that was made and
  that no more than one is; that the limit is accounted for needs the bounds of
  the rate, since halving and rising are safe only from a rate in bounds, and
  a goroutine that wakes restores the current rate.
  On the router, over any chain, tiers, number of requests and entry point:
  `RouterInv == TypeOK /\ WalksInv /\ SlotsAreHeld` is inductive and none of its
  parts is without the others: that a semaphore never goes below zero is known
  only from the account of its slots, and who holds a slot only from where its
  request is.  `WalksInv` says of a request under way that the providers it has
  tried, has been refused by and has yet to try are disjoint and together the
  chain it was given.  `ChainsAreWalked` and `SlotsAreThoseOfCalls` follow;
  `RowsAreBreakers` is the refinement of `AbstractBreaker` by the row of each
  provider with all requests for callers.  `RowStep(p, r, q)` says what a step
  by which request `r` becomes `q` is to the circuit of `p`; each action of the
  router is one for every provider at once.  The circuit it calls on moves by
  the caller's stage, and the others stay: a request that fails at one provider
  and walks on stays let through at those it found usable before, and forgets
  those it leaves.  That needs of `WalkInv` that the provider at hand is not
  among those to come.
  On the memory, over any clients, sessions, windows, clock offsets and lengths
  of conversation.  `AnsweredAreRemembered` needs to know of each request how
  far it has come: which of its own messages are already rows of its session
  (none, all that were there when it was routed, or those before the one that
  is being written), whatever was put in front of them by retrieval and
  preprocessing; the offset of the new messages is compared with what was
  injected, and is never too large.  `Follows` relates what the router has made
  of the messages to what the client said: place by place the same, or one of
  the two rewritings (`Versions`).  `AbandonedStayApart` needs that a session
  the ticker ended keeps the time it was last active, so that it stays out of
  the window of every later request.
- `TasksProofs`, from `TasksAssumption`, over any number of tasks, runners and
  steps.  The inductive invariant is `Types /\ Saved /\ Outputs /\ Progress /\
  Counted /\ Pauses`.  `Saved` says how far `persistTask` has come: the row's
  status and the steps inserted so far are those of the image it was given.
  That is what makes `DatabaseCurrent` hold when the mutex is free and what a
  crash leaves when it is not.  `Progress` says that the steps behind a runner
  have outputs, and `Outputs` that completed tasks have theirs in memory and in
  the database; a second runner may set a step back to running but never takes
  an output away, which is the action lemma `Change`.  `Pauses` counts the steps
  begun since a pause.  `CompletedTasksAreFinal` is an action property of the
  same invariant.
- `ToolsProofs`, on steps that call tools, from `StepToolsAssumption`, over any
  number of tasks, runners, agents, rounds and calls.  `TasksAreNotForgotten`:
  every way to give a task the status running is in a step that starts its
  goroutine, and every goroutine that ends leaves another status.
  `CallsAreServed` is an invariant over the conversation of each runner:
  `Served` with what is `Owed`, the calls of the last answer that still wait for
  their result; it is the message the loop is about to add that makes the debt
  and the result that pays it.
  On requests and credentials, from `ToolTurnsAssumption`: `AllKeysAreTried`, an
  action property.  Its invariant `TriedOrToCome` says that each credential of
  a provider already passed was tried, and each of the one at hand was tried or
  is still to come; that the order in which they are taken (`KeyOrder`: the
  OAuth ones first) loses none is a lemma on selections.
  On evaluations, from `EvalsAssumption`, over any library, providers and
  limits: `EvalsInv == WorkersOK /\ Recorded /\ Phased`.  Of a goroutine at work,
  the code it has is the one its result stands for, passed if the result says
  so; the results are one for each exercise whose goroutine has stored its own;
  and what phase the run is in says who may still be at work.  That no code is
  not an answer (`NoCode \notin Answers`) is all it needs of the codes.
- `PipelineProofs`, from `PipelineAssumption` and `FixAssumption`, over all
  pipelines, chains and limits.  The inductive invariant is `Inv`: the types of
  the phase's state with `ReviewsDue` and `Evidence`, and the types of the loop.
  `Evidence` says that the tool calls counted for the phase are those made since
  it began or last failed, which no single reset shows; `ReviewsDue` that the
  phases whose reviewers were not asked yet lie ahead.  The proof goes by the
  ways out of `advancePipeline`; the hard ones are the joint review, which moves
  the phase by two, and the send-back to self-check, which needs
  `FixAssumption`: a self-check comes before every review, as in both pipelines
  of the code and what is cut from them.  `LevelsOnlyClimb` and
  `PhasesEndWithEvidence` are action properties of the same invariant.  On the
  way it is proved (`FirstJudgement`) that a review judged by a fresh tracker is
  never hopeless, so two exits of `advancePipeline` are never taken (see below).
  On reviews, from `ReviewsAssumption`: each level has a provider, and no
  provider is listed twice, in a level or in two.  That is the default chain
  (`app/context.go:460`, `480`); of a chain that a user writes with a provider
  in it twice the theorem says nothing, and there a provider may meet its own
  fix.  `ReviewsInv` says of each branch where its rotation stands (`RotationOf`):
  it goes through the providers of the level it began at even after the agent
  has climbed, who speaks is the provider of that step or the first of a higher
  level, and who fixed last was that of the step before, or again the first of
  a level above.  `FixesAlwaysReviewed`
  follows as the index modulo the number of providers does not come back within
  that number of steps (`NextInTurn`).
  On the terminal, without an assumption on the loops, lines and interrupts:
  `TerminalInv` adds four parts to the types.  `CookedBehind`: what a raw
  terminal is restored to is cooked, so MakeRaw is not called twice in a row.
  `CancelsCounted`: cancelled requests, the interrupt that waits and the one the
  handler is about to pass on are no more than those sent.  `OneLate`: only the
  handler's goroutine says "bye", once, and the loop looks before each read.
  `PhasePutBack`: the copy that `RunPhase` has is the position of before.
- `ServicesProofs`, on the credential file and logins, from `LoginAssumption`.
  `KeptInv` holds until two saves overlap or one is cut short (`spoiled`): then
  at most one saver is between load and write, its copy is what was saved with
  its own credential added, and what it fills is empty.  `LoginInv` adds to it
  that a login that saves has come to that place in its flow (`SavesLate`), that
  a login that ended has stopped its server (`ServerStopped`), and `OwnCallback`
  and `StatusTruthful`.  On event streams, from `EventsAssumption`: `EventsInv`
  says which events are in a channel, which were sent to its client and which
  the run that is between copying the channels and sending has yet to send.  A
  client that is not there yet must be known to have an open channel; without
  that a registered channel need not be open.
  On workspaces, from `WorkspacesAssumption`, over any number of children,
  slots, directories, files and edits.  `WorkspacesInv` adds to the types and
  `NothingLeft`: while children work the lead waits and its directory is
  locked (`LeadWaits`); own directories of different agents differ
  (`OwnsApart`), and so do those that children work in, unless they are the
  lead's own (`DirsApart`); the outputs of a phase are a bijection onto the
  children that have ended (`OutputsKept`), which is why the rotation of the
  cross-review gives each reviewer another's.
  On background tasks, from `BackgroundAssumption` (names of directories
  differ), over any number of tasks and listers: `BackgroundInv` has the types
  and, in a repository, `TreesStand` (the worktree of a task that was begun
  stands with its branch, it holds the task's own message from the writing on, and
  a child is only there after it) and `DoneIsTrue`: where there is a marker, a row that says
  completed, or a lister about to write that, the child has ended.  A lister
  may be arbitrarily late, and the parent's `SetPID` and `MarkRunning` may come
  after it, so the last part is needed.
- `WorkProofs`, on the direct loop, from `LoopAssumption`, over conversations of
  any length, all limits and any number of calls in an answer.  `Balanced(ms,
  open)` says of a conversation that each answer is followed, before the next,
  by as many results as it has calls that were not denied or cut off (none, if
  it is a text), but for `open` ones of the newest; the invariant `LoopInv` adds
  to it that what is sent next ends on something else than an answer, or on one
  that was denied altogether.  Every way a conversation is shortened (`Trim`, `TrimOldest`,
  compaction, a session that is resumed) leaves the newest messages
  (`AddAllIsTail`), and the newest messages of a balanced conversation are
  balanced (`TailBalanced`).  So what the theorem needs of the trims is only
  that: results that lost their call stand in front of all answers left, where
  `Balanced` says nothing of them, and no later message can put them anywhere
  else.  What is denied is counted with its own answer and excuses no other
  (`LeftOpenBalanced`).

- `SwarmProofs`, from `SwarmAssumption`, over any number of ids, callers and
  requests.  `SwarmInv` has the types and five more conjuncts.  `Agreement` is
  the heart of `RowsAreCurrent`: wherever a table differs from the manager a
  pending statement saves that row, and of the pending statements each saves
  what the manager has, or a copy, or is followed by another for its row; so a
  handler may change the maps while statements wait, and a crash, which drops
  them and reloads, makes both sides the tables.  `OneList` says that a task is
  listed by one swarm at most, counting the statements and the copies that
  handlers carry, and was saved before; `TasksKept` that nothing saved is
  missing in the manager; `Numbered` that all ids in use are at most the
  counter.  A handler's step is a section: it changes some agents, swarms and
  tasks and appends the statements that save just these (`Saving`).  That a
  section keeps the invariant is proved once (`SavingIsSection`), and what is
  left for each handler is that it is one.  Rows of copies (`copied`) are
  excused, as in `RowsCurrent`.

Model-checked only:

- all liveness (`RoutingEnd`, `ToolsEnd`, `PhasesEnd`, `ServicesEnd`, `RunsEnd`): the proof system
  does not treat ENABLED and fairness;
- `RankingHolds`: it does not hold for all constants.  A rank adds 1/(60 + rank)
  to a document's score, so three backends that find it beyond rank 31 count
  less than two that find another first; the lists of the run are shorter;
- `SentFaithfully`, `ImportsHold`, `ResearchHolds` and `ReviewsHold`: what they
  say is the result of nested flattenings, folds and sums (`FlattenSeq`,
  `FoldLeft`, `MapThenSumSet`), recursive definitions of the
  community modules that the provers cannot unfold.

## Where the code and the documents differ

Six runs end in a violation; `PROJECT.json` quotes what each violates:
`breaker_race`, `tasks_cancel`, `events_panic`, `preview_lock`, `edits_lost`,
`memory_shift`.  The differences below show in the modelled definitions, and no
run repeats them.

Routing.

- Half-open is not one probe (`Provider Chain.md:130`): `GetState` admits
  every caller that reads `half_open` (`circuit.go:66`), and a failed probe
  re-opens only when the count reaches the threshold (`circuit.go:152`).  With
  the cooldown that a stale `GetState` ends (`breaker_race`) these are the three
  places where `AbstractBreaker` promises less than the document; each is an
  action of its own there, and nothing else is allowed.
- Start-up (`router.go:90`) compares `open_until`, local wall-clock text, with
  UTC: it can close circuits that are not stale, or keep stale ones.
- Fallback does not ask which providers support the model (`router.go:724`;
  `Provider Chain.md:112` filters candidates).
- `GetBestProvider` returns the first candidate under the warning threshold,
  not the least used (`tracker.go:182`; `Provider Chain.md:113`).
- The primary provider is not health-checked (`router.go:626`;
  `Provider Chain.md:115`).
- Streaming calls take no slot (`router.go:670`; `concurrency.go:10`).
- The circuit is looked at before the limiter and the slot queue, so a call
  can begin while it is open (`router.go:766`; `Provider Chain.md:129`).
- A client that goes away counts as a failure of the provider (`router.go:829`).
- A 429 raises the rate of a provider configured below 0.5 RPM
  (`ratelimit.go:137`; "halves the rate", `ratelimit.go:124`).
- A `Retry-After` pause ends early: a success, a plain 429 and an earlier
  goroutine each set the limiter back (`ratelimit.go:181`; "pausing",
  `ratelimit.go:152`).

Memory.

- A question that was refined is stored in the refined words only; those of its
  user are lost (`refine.go:115`).  Skills are stored with the instructions they
  were put in front of (`preprocess.go:233`).  `AnsweredIsRemembered` takes both
  for what was said.
- Times are compared as text, local against UTC, so the window of a continued
  session is shifted by the zone.
- Sessions that the ticker ends are never continued, since ending leaves
  `last_active` where it was; `vm.Cleanup` (`vector.go:513`) has no caller.
- `FindRecentEnded` and `RetrieveRecentFromSession` are two statements; two
  requests that start at once both continue the session (`sessions_test.go:295`
  starts them one after another).
- The Responses API stores turns that the router has stored already; requests of
  agents store theirs in the memory of chats, as they do not set `SkipMemory`.

Orchestration.

- A crash inside `persistTask` leaves a task without some of its steps
  (`manager.go:3503`; "State in DB, not in memory", `Synapserouter-Spec.md:1431`).
- `StartSwarm` assigns the task and saves the copy it got from `CreateTask`
  over what the task's runner has saved (`manager.go:1451`); the manager's task
  is never assigned.  `RunWorkflowTemplate` does the same to its swarm, which in
  `m.swarms` never lists the task.
- `syncAgentsForTask` (`manager.go:3236`) sets stopped agents and swarms idle
  and ready; `SpawnAgent` (`manager.go:715`) saves the swarm before the agent it
  lists; `StealTask` (`manager.go:975`) counts active tasks after the task was
  given away.
- A step whose last round still calls tools completes with a placeholder for an
  answer (`manager.go:1753`).
- Consensus (`manager.go:1128`) is "reached" whatever paused and cancelled
  tasks there are; completed tasks are listed as stealable
  (`manager.go:1089`); a step that fails does not close the listeners
  (`manager.go:1651`); tasks loaded as running have no runner (`manager.go:245`).

The agent.

- After its reviewers approve, `advancePipeline` calls itself with
  `PHASE_PASSED`, which is no pass signal, so the agent gets the prompt of the
  reviewed phase and works through it itself (`agent.go:2514`; "advance again").
  The same happens after a review is accepted at the cycle cap.
- The tracker is reset at every advance, and a review of sub-agents is judged
  right after one: the ways out for diverging and for stable reviews
  (`agent.go:2454`, `2464`, `2521`, `2531`) are never taken.
- A phase at its turn cap is not left at once ("skip it entirely",
  `agent.go:2211`): the forced skip goes through the tool minimum and the
  verification gate like a claim, and may be rejected there; a forced skip sets
  the cycles back (`agent.go:2220`), so a run fails back more often than three
  times ("Max 3 fail-back cycles", `Synapserouter-Spec.md:1847`).
- A gate whose score goes up and down starts the plateau count afresh, and the
  retries are the only limit left; they start again when a claim is let
  through (`agent.go:2248`, `2281`).
- A trivial request is to have no pipeline (`adaptive.go`, "No pipeline"), but
  its first text answer makes the full one (`agent.go:2196`).
- A failing self-check stays in its phase (`agent.go:2659`;
  "fail-back to previous phase", `Synapserouter-Spec.md:610`).
- Empty answers and refused claims of the direct loop are counted nowhere, so
  it need not end (`MaxIdle` excludes that from `RunsEnd`).
- The turn cap returns after an answer with calls was added, and a denied call
  (`agent.go:1258`) gets no result: both leave a call open in the conversation
  that the next request sends (`unanswered` counts them with their answer), and
  of an answer that was denied altogether the request ends on the answer.
- Answers with calls are to be "never separated from their corresponding tool
  result messages" (`conversation.go:80`), but a trim in the middle of an
  answer's results, one that drops everything, and compaction leave results in
  front whose calls are gone (`conversation.go:93`, `agent.go:3560`).
  `RequestsWellFormed` allows them there and nowhere else.
- `TrimOldest` drops the results in front of what it keeps without storing them
  (`agent.go:4275`, "zero information loss"); a second rejection is announced
  between an answer and its result (`agent.go:1358`).

Reviews, research and terminals.

- What K reviewers' texts are merged to has a line with the signal of each, so a
  refusal by most of them may contain a pass signal (`review_merge.go:220`),
  which is what the pipeline looks for (`agent.go:2428`, `2507`).
- A rotation of an even number of providers ends on the word of a fixer, with no
  review of the last fix ("C reviews B's fix", `agent.go:2776`).
- The budget of a research session is called a hard ceiling (`research.go:17`),
  and exceeded by up to one search of all backends.
- `RunPhase` of an agent without a pipeline does not run the phase alone, though
  its comment says it makes a pipeline (`agent.go:735`).
- Ctrl-C during `/plan`, `/review`, `/check`, `/fix` and `/research` cancels
  nothing, though it is to cancel during each call of a model (`coderepl.go:56`); after "bye" a
  line that was being read is still run.  Where raw mode cannot be had, what one
  read returns is taken for one line.

Delegation and worktrees.

- The main directory is copied back over by every sync, so what the lead edited
  in between is lost; where `.git` is a file it ends the copy or overwrites the
  lead's (`subagent.go:268`).  `mergeParallelDir` (`agent.go:4450`) copies whole
  trees, the last child's over the others'.  Both copy the lock file, so the
  lead's directory gets that of a child, or keeps one it would have had to give
  up.
- What the first reviewer is given of its target's output runs on into those
  that follow it, its own among them ("each model reviews a different model's
  output", `agent.go:3992`).  Reviewers, delegates and hand-offs of an agent without the lock work in worktrees that nothing
  copies back.
- `Touch` has no caller, so a session that is a day old loses its own worktree to
  its cleaner; `LoadLatestState` does not find sessions of worktrees.

Background tasks.

- Whether a process lives is asked with a signal that always fails
  (`tasks/manager.go:186`), so whoever lists the tasks marks those that run as
  failed, and a child that ends well later is completed in no row.
- Outside a repository all tasks share a directory: a marker of an earlier task
  completes a new one at once, and children read each other's message.

Subscriptions and providers.

- Two `StoreCredential` at a time lose an update, and a crash empties the file;
  an invalid file is taken for an empty one (`credential_store.go:117`).
- A second login on the same port never listens; a session that lapsed answers
  "ok"; a second callback is dropped (`oauth_managed.go:182`).
- The Gemini CLI decoder drops the calls of an answer when any chunk has text,
  and the ids it makes up start again with each answer
  (`provider_runtime_support.go:959`), so that the ids of a conversation repeat
  and over the CLI an earlier result stands under the function called last; the
  Gemini key path never declares tools; the Vertex form of Gemini drops calls.
- The text of a user message of the Anthropic API is put before its results
  (`anthropic_handlers.go:199`), between them and their calls, where Claude and
  OpenAI refuse it; the Responses stream names calls by the item's id and reads
  results by the call's (`compat_handlers.go:744`, `860`).  So `SentFaithfully`
  says that the client's conversation is sent whole, in its order, each result
  behind its call under its id or name, but for these three; it does not say
  that the provider accepts it.
- Streams that are cut short are returned as whole answers.

Search and evaluations.

- `recordBackendFailure` and `recordBackendSuccess` (`web_search.go:243`, `264`)
  have no caller, so no backend's circuit ever opens
  (`docs/decisions/research-decisions-v1.06-v1.08.md:253` says it does).
- With two backends no paid one is asked ("At least 1 cheap/mid",
  `web_search.go:429`).
- The handler returns the id of a row that the runner never completes, so a run
  polled by it stays "running" (`eval_handlers.go:58`; `API Endpoints.md:374`).
- The escalation chain ends with the last provider (`runner.go:636`) but is cut
  to five retries, so a longer chain never reaches it.
- A deadline that passes after all goroutines were started leaves the run
  "completed"; a process that dies leaves it "running".
- Generated tests that start a program do not find the solution in Java, C++,
  Rust and JavaScript: `java Slug.java` and `./solution` where neither is, `cargo
  run` of a library, a script in camel case (`importer.go:865`, `881`, `908`,
  `931`); `ImportsHold` says that it is just those.
- All C++ tests are linked with a main that includes `catch.hpp`
  (`docker.go:396`), which no container has, and the machine only for tests that
  mention it (`native.go:229`).
- A limited import may exceed its limit by the languages of the last entry
  ("how many exercises to import", `importer.go:638`).
- C++ tests on standard input assert nothing; the BIRD-SQL runner only explains
  the query (`importer.go:1336`, "compares SQL output"); DARE exercises pass on
  exit code 0 (`importer.go:1531`, "metric evaluation deferred to runner").

## What is not modelled

| part | why |
|---|---|
| trace endpoints of the router, quotas and daily resets of the usage tracker | reports and configuration over the same rows |
| templates of the user; consensus, status, load, imbalance, metrics and health of swarms; `dispatch.go` | reports; dispatching calls a router of its own |
| DAG scheduler (`dag.go`) | built by the manager and called by nothing |
| planner, skills, workflows | keyword tables and templates that a task takes as its plan |
| embeddings, the budget of tokens, the analysis of conversations | numbers and texts; what is found is a free choice |
| agent pool, budgets, event bus, renderer, prompts, recall, guardrails and heuristics | reports, text and terminal I/O |
| file, shell and git tools, permissions | I/O without state that lasts |
| legacy subscription manager, MCP client and server, environment detection | small adapters around files and processes |
| commands, handlers, start-up, setup | arguments and JSON; the operations they call are actions above |
| the size and age of worktrees, account rotation, lists of models | which worktree goes is a choice; the others are candidates for an extension |

## What could follow

An abstract store of messages that `SessionMemory` implements, an abstract task
that `Tasks` implements, and the composition of `Swarm` and `Tasks` over one
mutex.
