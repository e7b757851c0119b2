------------------------------- MODULE Search --------------------------------
(***************************************************************************)
(* The web search of internal/tools/web_search.go, which asks several      *)
(* backends at once, fuses their rankings, leaves out what is confidential *)
(* and may have a model rank the rest again.                               *)
(*                                                                         *)
(* A document is its normalised URL; whether it has something confidential *)
(* in it is given.  The backends of a search run in goroutines of their    *)
(* own that share nothing and are waited for: they answer in one step.     *)
(* Their circuits are only ever read, no failure is recorded in them: all  *)
(* backends are always available.                                          *)
(***************************************************************************)
EXTENDS Integers, Sequences, SequencesExt, FiniteSetsExt

CONSTANTS
    Backends,           \* those that are configured
    Cost,               \* of each, per thousand searches
    Documents, Confidential,
    MaxBackends,        \* SYNROUTE_SEARCH_MAX_BACKENDS (3)
    MaxResults          \* of a search

ASSUME SearchAssumption ==
    /\ Cost \in [Backends -> Nat] /\ Confidential \subseteq Documents
    /\ MaxBackends \in Nat \ {0} /\ MaxResults \in 1..3

VARIABLE search         \* [pc, asked, found, ranked, shown]

Idle == [pc |-> "idle", asked |-> <<>>, found |-> <<>>, ranked |-> <<>>, shown |-> <<>>]
SearchInit == search = Idle

(* ------------------------------- backends ------------------------------ *)

\* The orders that a sort by cost may have, and two free backends with one
\* that is not, or the cheapest.
ByCost(bs) == {s \in SetToSeqs(bs) : \A i, j \in DOMAIN s : i < j => Cost[s[i]] <= Cost[s[j]]}
SelectWithCostBalance(s) ==
    LET free == SelectSeq(s, LAMBDA b : Cost[b] = 0)
        paid == SelectSeq(s, LAMBDA b : Cost[b] > 0)
        two == SubSeq(free, 1, Min({2, Len(free)}))
        chosen == IF free = <<>> \/ MaxBackends > Len(two) THEN two \o paid ELSE two
    IN IF Len(s) <= MaxBackends THEN s
       ELSE SubSeq(chosen, 1, Min({Len(chosen), Max({MaxBackends, Len(two)})}))

\* What a backend answers: a ranking, which may have a document twice; an
\* error is the empty one.
Rankings == UNION {[1..n -> Documents] : n \in 0..MaxResults}

(* -------------------------------- search ------------------------------- *)

\* Terms of the reciprocal rank fusion, 1 / (60 + rank), in units of one in
\* their common multiple.
Term(rank) == (61 * 62 * 63) \div (60 + rank)
Ranks(d, rankings) ==
    {<<k, i>> \in (DOMAIN rankings) \X (1..MaxResults) : i <= Len(rankings[k]) /\ rankings[k][i] = d}
\* Mutant: the best term instead of the sum.
ScoreBest(d, rankings) == Max({Term(place[2]) : place \in Ranks(d, rankings)})
Score(d, rankings) == MapThenSumSet(LAMBDA place : Term(place[2]), Ranks(d, rankings))

\* The orders that the sort by score may have, cut off.
MergeRRF(rankings) ==
    LET all == UNION {ToSet(rankings[k]) : k \in DOMAIN rankings}
    IN {SubSeq(s, 1, Min({MaxResults, Len(s)})) :
          s \in {t \in SetToSeqs(all) : \A i, j \in DOMAIN t :
                   i < j => Score(t[i], rankings) >= Score(t[j], rankings)}}

Filter(results) == SelectSeq(results, LAMBDA d : d \notin Confidential)

\* Mutant: the places a model leaves out are lost.
RerankNamed(results, indices) ==
    LET order == SelectSeq(indices, LAMBDA i : i \in DOMAIN results)
    IN [k \in DOMAIN order |-> results[order[k]]]

\* The places a model names, as far as they are there and new, and the others.
Rerank(results, indices) ==
    LET valid == SelectSeq(indices, LAMBDA i : i \in DOMAIN results)
        fresh == [k \in DOMAIN valid |-> IF \E l \in 1..(k - 1) : valid[l] = valid[k] THEN 0 ELSE valid[k]]
        order == SelectSeq(fresh, LAMBDA i : i # 0)
        missed == SelectSeq([i \in DOMAIN results |-> i], LAMBDA i : i \notin ToSet(order))
    IN [k \in DOMAIN results |-> results[(order \o missed)[k]]]

\* No backend is configured: an error.
Ask ==
    /\ search.pc = "idle"
    /\ \E sorted \in ByCost(Backends) :
         search' = IF sorted = <<>> THEN [Idle EXCEPT !.pc = "answered"]
                   ELSE [Idle EXCEPT !.pc = "asking", !.asked = SelectWithCostBalance(sorted)]

\* All have answered or failed.  One ranking stays as it is, more are fused.
Collect ==
    /\ search.pc = "asking"
    /\ \E answers \in [DOMAIN search.asked -> Rankings] :
         LET found == SelectSeq(answers, LAMBDA r : r # <<>>)
         IN \E ranked \in CASE found = <<>> -> {<<>>}
                             [] Len(found) = 1 -> {found[1]}
                             [] OTHER -> MergeRRF(found) :
              search' = [search EXCEPT !.found = found, !.ranked = ranked, !.shown = Filter(ranked),
                                       !.pc = IF Len(found) >= 2 /\ Len(Filter(ranked)) > 1
                                              THEN "ranking" ELSE "answered"]

\* A model ranks the results again, or it fails and they stay as they are.
LLMRerank ==
    /\ search.pc = "ranking"
    /\ \E n \in 0..(MaxResults + 1) : \E indices \in [1..n -> 0..(MaxResults + 1)] :
         search' = [search EXCEPT !.pc = "answered", !.shown = Rerank(search.shown, indices)]

Shown == search.pc = "answered" /\ search' = Idle

SearchNext == Ask \/ Collect \/ LLMRerank \/ Shown
SearchSpec == SearchInit /\ [][SearchNext]_search

(* ------------------------------ properties ----------------------------- *)

\* In the fused ranking of several backends a document that was found more
\* often is before one that was found less often, wherever it was.
Findings(d) == Cardinality(Ranks(d, search.found))
ManyFindersFirst ==
    Len(search.found) >= 2 =>
      \A i, j \in DOMAIN search.ranked : i < j => Findings(search.ranked[i]) >= Findings(search.ranked[j])

\* Whatever a model answers to the ranking, each result of it is shown as
\* often as it is there, and nothing that is confidential or was not found.
Times(d, results) == Cardinality({i \in DOMAIN results : results[i] = d})
RankedIsShown ==
    search.pc = "answered" =>
      \A d \in Documents :
        Times(d, search.shown) = IF d \in Confidential THEN 0 ELSE Times(d, search.ranked)

\* What many backends found comes first, and what is ranked is shown.
RankingHolds == ManyFindersFirst /\ RankedIsShown
=============================================================================
