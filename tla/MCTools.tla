------------------------------- MODULE MCTools -------------------------------
(***************************************************************************)
(* Parts of the program that share no state, side by side: the tasks of    *)
(* the manager, steps that call its tools, conversations with upstreams,   *)
(* searches and evaluations.  Each behaviour is one of a single part, so   *)
(* that their states add up instead of multiplying.                        *)
(***************************************************************************)
EXTENDS MCTasks, StepTools, ToolTurns, Search, Evals

VARIABLE part

\* Four families of upstreams, with the credentials that their paths tell apart.
FourUpstreams == <<"gemini", "openai", "vertex", "anthropic">>
Families == [gemini |-> "gemini", openai |-> "openai", vertex |-> "vertexGemini", anthropic |-> "claude"]
Keys == [gemini |-> <<"key", "oauth">>, openai |-> <<"oauth", "key">>, vertex |-> <<"key">>, anthropic |-> <<"key">>]

\* Search backends, two of them free.
Costs == [duckduckgo |-> 0, searxng |-> 0, serper |-> 1, kagi |-> 2]

\* What may be imported: limited and unlimited sources, several files, entries
\* that are garbled, lack a test or have no name.
Entry(text, language, slug) == [text |-> text, language |-> language, slug |-> slug]
Good(language, slug) == Entry("good", language, slug)
Source(suite, max, files) == [suite |-> suite, max |-> max, files |-> files]
SmallLibrary ==
    {Source("codecontests", m, f) : m \in {0, 3, 6, 7},
       f \in {<<>>, <<<<Good("any", "a")>>, <<Good("any", "b"), Good("any", NoSlug)>>, <<Good("any", "c")>>>>}}
    \cup {Source(s, 0, f) : s \in {"ds1000", "birdsql", "writingbench", "dare-bench", "pptarena"},
            f \in {<<>>, <<<<Entry("garbled", "python", NoSlug), Entry("lacking", "python", "a")>>>>,
                   <<<<Good("python", "a")>>, <<Good("python", "b")>>>>}}
    \cup {Source("writingbench", 0, <<<<Good("text", "a"), Good("text", "b")>>>>)}
    \cup {Source(s, 0, f) : s \in {"roocode", "exercism", "multiple", "evalplus"},
            f \in {<<>>, <<<<Good("python", "a"), Good("java", "a")>>, <<Good("rust", "b"), Good("cpp", "b")>>>>}}
    \cup {Source("polyglot", 0, f) : f \in {<<>>, <<<<Good("go", "a")>>>>}}
ShortChain == <<"plan", "l1", "l2", "l3", "gemini">>

PartsInit ==
    /\ part \in {"tasks", "steps", "turns", "search", "evals"}
    /\ TasksInit /\ StepsInit /\ TurnsInit /\ SearchInit /\ EvalsInit
    /\ part # "turns" => dialect = "agent"

PartsNext ==
    \/ part = "tasks" /\ TasksNext /\ UNCHANGED <<part, stepVars, turnVars, search, evalVars>>
    \/ part = "turns" /\ TurnsNext /\ UNCHANGED <<part, taskVars, stepVars, search, evalVars>>
    \/ part = "search" /\ SearchNext /\ UNCHANGED <<part, taskVars, stepVars, turnVars, evalVars>>
    \/ part = "evals" /\ EvalsNext /\ UNCHANGED <<part, taskVars, stepVars, turnVars, search>>
    \/ part = "steps" /\ StepsNext /\ UNCHANGED <<part, taskVars, turnVars, search, evalVars>>

\* The fairness of each part; elsewhere its actions are never enabled.
PartsSpec ==
    /\ PartsInit
    /\ [][PartsNext]_<<part, taskVars, stepVars, turnVars, search, evalVars>>
    /\ WF_taskVars(part = "tasks" /\ Persist)
    /\ \A r \in Runners : SF_taskVars(part = "tasks" /\ Run(r))
    /\ WF_evalVars(part = "evals" /\ \E e \in DOMAIN worker : WorkOn(e))
    /\ WF_evalVars(part = "evals" /\ Conclude)
    /\ \A r \in Goroutines : WF_stepVars(part = "steps" /\ StepWork(r))

\* A task that is not paused, an evaluation and a step come to an end.
ToolsEnd == RunnersEnd /\ EvalsEnd /\ StepsEnd
=============================================================================
