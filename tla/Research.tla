------------------------------- MODULE Research -------------------------------
(***************************************************************************)
(* internal/agent/research.go and research_runner.go: a research session.   *)
(* It chooses search backends for the kinds of the query and the depth,     *)
(* asks them round after round until its budget of API calls, its rounds or *)
(* what is new run out, and reports what it found with numbered citations.  *)
(*                                                                          *)
(* A query is the set of its kinds and the number of queries it is made     *)
(* into; several URLs may be of one page.                                   *)
(***************************************************************************)
EXTENDS Integers, Sequences, FiniteSets, SequencesExt, FiniteSetsExt

CONSTANTS
    Configured,         \* the sets of backends that keys may be there for
    TagsOf, CostOf,     \* backendTagRegistry: what a backend is for, its tier
    Depths,             \* DefaultResearchConfig: rounds, queries, calls; backends
    Budgets,            \* SYNROUTE_RESEARCH_BUDGET, or 50
    Answers,            \* what a backend may find: URLs in its order, or nothing
    PageOf, Blank,      \* NormalizeURL; URLs of results without URL or title
    FewNew,             \* IsSaturated: fewer new ones than one in so many, 10
    MaxCited            \* citations that are printed: 20

ASSUME ResearchAssumption ==
    /\ \A d \in DOMAIN Depths : Depths[d] \in [rounds : Nat \ {0}, queries : Nat \ {0}, calls : Nat \ {0}, backends : Nat \ {0}]
    /\ Budgets \subseteq Nat \ {0} /\ FewNew \in Nat \ {0} /\ MaxCited \in Nat

VARIABLES
    study,              \* at, depth, most, matched, backends, todo, calls, seen
    rounds,             \* report.Rounds: the hits, new URLs and calls of each
    findings            \* citations, and the hits that are printed with numbers

researchVars == <<study, rounds, findings>>

(* ------------------------------- backends ------------------------------ *)

\* ClassifyQuery: the kinds its words hint at, or the web.
QueryKinds == {{"web"}} \cup (SUBSET {"code", "academic", "news"} \ {{}})

\* Those for one of the kinds, else those for the web, else all.
Matched(tagged, kinds) ==
    LET fit == {b \in tagged : TagsOf[b] \cap kinds # {}}
        web == {b \in tagged : "web" \in TagsOf[b]}
    IN IF fit # {} THEN fit ELSE IF web # {} THEN web ELSE tagged

\* The cheapest first, those of a tier in any order; a quick search takes the
\* free ones alone, if there are any.
ByTier(backends) ==
    {s \in SetToSeqs(backends) : \A i, j \in DOMAIN s : i < j => CostOf[s[i]] <= CostOf[s[j]]}
SelectBackends(matched, depth) ==
    LET free == {b \in matched : CostOf[b] = 0}
        used == IF depth = "quick" /\ free # {} THEN free ELSE matched
    IN {SubSeq(s, 1, Min({Depths[depth].backends, Len(s)})) : s \in ByTier(used)}

(* ------------------------------- searches ------------------------------ *)

StudyAt(at) == study.at = at
Least(a, b) == Min({a, b})

\* Round one takes the query itself and, of one with two terms or more, up to
\* five variations; later rounds the same three others.
Variations(depth) == IF rounds = <<>> THEN {1, Least(Depths[depth].queries, 6)} ELSE {Least(3, Depths[depth].queries)}

\* What results add: pages that were not seen, each with its URL.
\* Mutant: a page is known by the URL it was found under.
WithUrl(found, url) ==
    IF url \in found.seen THEN found ELSE [seen |-> found.seen \cup {url}, hits |-> Append(found.hits, url)]
WithPage(found, url) ==
    IF PageOf[url] \in found.seen THEN found
    ELSE [seen |-> found.seen \cup {PageOf[url]}, hits |-> Append(found.hits, url)]
Collected(seen, results) == FoldLeft(WithPage, [seen |-> seen, hits |-> <<>>], FlattenSeq(results))

BeginResearch ==
    /\ StudyAt("idle")
    /\ \E depth \in DOMAIN Depths, budget \in Budgets, tagged \in Configured, kinds \in QueryKinds :
        LET matched == Matched(tagged, kinds) IN
        \E backends \in SelectBackends(matched, depth) :
            study' = [study EXCEPT !.at = "round", !.depth = depth, !.most = Least(Depths[depth].calls, budget),
                                   !.matched = matched, !.backends = backends]
    /\ UNCHANGED <<rounds, findings>>

\* There is no round without budget.
BeginRound ==
    /\ StudyAt("round")
    /\ study.calls < study.most /\ Len(rounds) < Depths[study.depth].rounds
    /\ \E n \in Variations(study.depth) : study' = [study EXCEPT !.at = "asks", !.todo = n]
    /\ rounds' = Append(rounds, [hits |-> <<>>, new |-> 0, calls |-> 0])
    /\ UNCHANGED findings

\* All backends are asked at once; one that fails or is late finds nothing.
AskBackend ==
    /\ StudyAt("asks") /\ study.todo > 0 /\ study.calls < study.most
    /\ \E results \in [1..Len(study.backends) -> Answers] :
        LET got == Collected(study.seen, results)
            n == Len(study.backends)
        IN /\ study' = [study EXCEPT !.todo = @ - 1, !.calls = @ + n, !.seen = got.seen]
           /\ rounds' = [rounds EXCEPT ![Len(rounds)] =
                [hits |-> @.hits \o got.hits, new |-> @.new + Len(got.hits), calls |-> @.calls + n]]
    /\ UNCHANGED findings

IsSaturated(new, total) == total > 0 /\ FewNew * new < total

EndRound ==
    /\ StudyAt("asks") /\ (study.todo = 0 \/ study.calls >= study.most)
    /\ study' = [study EXCEPT !.todo = 0, !.at =
          IF Len(rounds) > 1 /\ IsSaturated(Last(rounds).new, Cardinality(study.seen)) THEN "tells" ELSE "round"]
    /\ UNCHANGED <<rounds, findings>>

(* ------------------------------- findings ------------------------------ *)

Hits == FlattenSeq([i \in DOMAIN rounds |-> rounds[i].hits])

\* A hit gets the number of its URL, a new one if it has none, and is printed
\* when that is not too high; the first sources are listed.
Cite(told, url) ==
    LET known == \E i \in DOMAIN told.citations : told.citations[i] = url
        citations == IF known THEN told.citations ELSE Append(told.citations, url)
        n == CHOOSE i \in DOMAIN citations : citations[i] = url
    IN IF url \in Blank THEN told
       ELSE [citations |-> citations, shown |-> IF n > MaxCited THEN told.shown ELSE told.shown \cup {<<url, n>>}]
NothingFound == [citations |-> <<>>, shown |-> {}]
Sources == SubSeq(findings.citations, 1, Least(MaxCited, Len(findings.citations)))

SynthesizeFindings ==
    /\ \/ StudyAt("tells")
       \/ StudyAt("round") /\ (study.calls >= study.most \/ Len(rounds) = Depths[study.depth].rounds)
    /\ study' = [study EXCEPT !.at = "done"]
    /\ findings' = FoldLeft(Cite, NothingFound, Hits)
    /\ UNCHANGED rounds

ResearchInit ==
    /\ study = [at |-> "idle", depth |-> "none", most |-> 0, matched |-> {}, backends |-> <<>>, todo |-> 0, calls |-> 0, seen |-> {}]
    /\ rounds = <<>> /\ findings = NothingFound
ResearchNext == BeginResearch \/ BeginRound \/ AskBackend \/ EndRound \/ SynthesizeFindings
ResearchSpec == ResearchInit /\ [][ResearchNext]_researchVars

(* ------------------------------ properties ----------------------------- *)

\* A research session is paid for and told truthfully: no round begins on a
\* spent budget, which one search at most exceeds; no backend is asked while
\* a cheaper one that fits is not; no page is told twice, under whichever
\* URLs it was found; and each number that is printed is that of a source
\* in the list (research_runner.go:47-131, 171-227).
ResearchHolds ==
    /\ study.calls = MapThenSumSet(LAMBDA i : rounds[i].calls, DOMAIN rounds)
    /\ study.calls < study.most + Len(study.backends) \/ StudyAt("idle")
    /\ \A i \in DOMAIN rounds : i > 1 => MapThenSumSet(LAMBDA j : rounds[j].calls, 1..(i - 1)) < study.most
    /\ study.depth # "quick" =>
         \A b \in ToSet(study.backends), c \in study.matched \ ToSet(study.backends) : CostOf[b] <= CostOf[c]
    /\ \A i, j \in DOMAIN Hits : i # j => PageOf[Hits[i]] # PageOf[Hits[j]]
    /\ Len(Hits) = Cardinality(study.seen)
    /\ StudyAt("done") =>
         /\ \A <<url, n>> \in findings.shown : n \in DOMAIN Sources /\ Sources[n] = url
         /\ Cardinality(findings.shown) = Least(MaxCited, Cardinality(ToSet(Hits) \ Blank))
=============================================================================
