----------------------------- MODULE MCPipeline ------------------------------
(***************************************************************************)
(* An agent seen in parts that share no state, side by side: the phases of *)
(* its pipeline; how a review comes to its verdict; the terminal it is     *)
(* asked at; a research session it is sent on.                             *)
(***************************************************************************)
EXTENDS Pipeline, Reviews, Research, Terminal

VARIABLE part


\* The pipelines of pipeline.go, with fewer checks.
P(name, tier, tools, checks) ==
    [name |-> name, tier |-> tier, minToolCalls |-> tools, checks |-> checks,
     parallel |-> FALSE, escalate |-> FALSE, subAgent |-> FALSE]
InParallel(p) == [p EXCEPT !.parallel = TRUE]
ByReviewers(p) == [p EXCEPT !.escalate = TRUE, !.subAgent = TRUE]

Implement == P("implement", "cheap", 1, 0)
SelfCheck == P("self-check", "mid", 2, 2)
CodeReview == ByReviewers(P("code-review", "frontier", 1, 1))
Acceptance == ByReviewers(P("acceptance-test", "frontier", 1, 0))

Software == <<P("plan", "frontier", 1, 0), InParallel(Implement), SelfCheck, CodeReview, Acceptance>>
Model == <<P("model", "cheap", 1, 1), ByReviewers(P("review", "frontier", 2, 0)),
           P("deploy", "cheap", 0, 0)>>

MCPipelines == {Model, <<>>}
MCChain == <<"cheap", "frontier">>

\* Levels of one, three and two providers.
LevelsOf3 == <<<<"a">>, <<"b", "c", "d">>, <<"e", "f">>>>
\* Phases of one reviewer, of a rotation or of two to three reviewers at once.
OfOne == [k |-> 1, agreement |-> 50]
OfK(k, share) == [k |-> k, agreement |-> share]
ReviewPhases == {<<OfOne>>, <<OfK(2, 50)>>, <<OfK(3, 50)>>, <<OfK(2, 50), OfOne>>}
Located(file, line, category, words) == Line("structured", file, line, category, words)
Bullet(file, line, words) == Line("bullet", file, line, "", words)
ReviewReports ==
    {[signals |-> {"pass"}, lines |-> <<>>], [signals |-> {"pass", "fail"}, lines |-> <<Bullet("x", 0, {"nil", "map"})>>],
     [signals |-> {"fail"}, lines |-> <<Located("x", 5, "null", {"nil", "map"}), Located("x", 12, "null", {"empty"}), Bullet("y", 1, {"test"})>>],
     [signals |-> {"fail"}, lines |-> <<Bullet("x", 9, {"handle", "map"}), Bullet("x", 9, {"handle", "map"})>>]}
Diff(path, new, lines) == [path |-> path, quoted |-> FALSE, new |-> new, lines |-> lines]
ReviewChanges == {<<>>, <<Diff("x", FALSE, 4), Diff("y", FALSE, 3), Diff("z", TRUE, 5)>>, <<Diff("x", FALSE, 1), Diff("y", TRUE, 2)>>,
     <<Diff("x", FALSE, 4), Diff("go.sum", FALSE, 9), Diff("y", TRUE, 2), [Diff("z", TRUE, 1) EXCEPT !.quoted = TRUE]>>}

\* Two free backends and one that is not; a page under two URLs.
CostTiers == [duckduckgo |-> 0, scholar |-> 0, brave |-> 1]
Tags == [duckduckgo |-> {"web"}, scholar |-> {"academic"}, brave |-> {"web"}]
ConfiguredBackends == {{"duckduckgo", "scholar"}, {"duckduckgo", "scholar", "brave"}}
Depth(r, q, n, b) == [rounds |-> r, queries |-> q, calls |-> n, backends |-> b]
DepthsOf == [quick |-> Depth(1, 2, 2, 2), standard |-> Depth(2, 2, 3, 2), deep |-> Depth(3, 2, 6, 3)]
Pages == [u |-> "p", utm |-> "p", v |-> "q", none |-> "/"]
URLs == {<<>>, <<"u", "v">>, <<"utm">>, <<"none", "u">>}

CodeAndChat == {[kind |-> "code", terminal |-> TRUE], [kind |-> "chat", terminal |-> FALSE]}

PhasesInit ==
    /\ part \in {"phases", "reviews", "research", "terminal"}
    /\ Init /\ ReviewsInit /\ ResearchInit /\ TerminalInit
    /\ pipeline # <<>> \/ providerIdx > 0 => part = "phases"
    /\ loop.kind = "code" => part = "terminal"
PhasesNext ==
    \/ part = "phases" /\ Next /\ UNCHANGED <<part, reviewVars, researchVars, terminalVars>>
    \/ part = "reviews" /\ ReviewsNext /\ UNCHANGED <<part, vars, researchVars, terminalVars>>
    \/ part = "research" /\ ResearchNext /\ UNCHANGED <<part, vars, reviewVars, terminalVars>>
    \/ part = "terminal" /\ TerminalNext /\ UNCHANGED <<part, vars, reviewVars, researchVars>>
PhasesSpec ==
    /\ PhasesInit /\ [][PhasesNext]_<<part, vars, reviewVars, researchVars, terminalVars>>
    /\ WF_vars(part = "phases" /\ Next)
=============================================================================
