-------------------------------- MODULE Reviews --------------------------------
(***************************************************************************)
(* internal/agent: how a phase of sub-agents comes to its verdict.  It has  *)
(* one reviewer, or providers of a level that review and fix in turn, or K  *)
(* reviewers at the same time whose findings are merged (review_merge.go);  *)
(* each is shown what git says has changed (diff_review.go).  Two such      *)
(* phases in a row are reviewed at the same time by copies of the agent.    *)
(*                                                                          *)
(* What a child says is the set of the signals in its text and the lines in *)
(* it that name findings; a summary is the set of its words.  Children      *)
(* themselves are in module Workspaces, what the pipeline makes of the      *)
(* verdict is in module Pipeline.                                           *)
(***************************************************************************)
EXTENDS Integers, Sequences, SequencesExt, FiniteSets, FiniteSetsExt

CONSTANTS
    PhasesInTurn,       \* the review phases that come next: one, or two at once
    LevelProviders,     \* config.EscalationChain: the providers of each level
    Reports,            \* what reviewers say: signals and lines
    Changes,            \* what git diff may print, file by file
    Noise,              \* paths that shouldFilterDiff drops
    PerFile,            \* maxDiffLinesPerFile, maxNewFilePreviewLines: 100
    PerReview,          \* maxDiffLinesTotal: 500
    MaxReviews          \* bound: reviews of the pipeline

\* Each level has a provider, and each provider is one of one level: those of
\* ollama are numbered, and the others of the default chain are not repeated.
ASSUME ReviewsAssumption ==
    /\ Len(LevelProviders) \in Nat \ {0} /\ DOMAIN LevelProviders = 1..Len(LevelProviders)
    /\ \A l \in DOMAIN LevelProviders :
         LET p == LevelProviders[l]
         IN Len(p) \in Nat \ {0} /\ DOMAIN p = 1..Len(p) /\ \A i \in DOMAIN p : p[i] # "none"
    /\ \A l, m \in DOMAIN LevelProviders :
         \A i \in DOMAIN LevelProviders[l], j \in DOMAIN LevelProviders[m] :
           LevelProviders[l][i] = LevelProviders[m][j] => l = m /\ i = j

VARIABLES
    review,             \* at, level, rotation, phases, count, passed
    branch              \* of each phase that is reviewed

reviewVars == <<review, branch>>

(* ----------------------------- what changed ---------------------------- *)

\* git quotes a path that is not plain, and " b/" is not found in it.
PathOf(f) == IF f.quoted THEN "" ELSE f.path
ParseUnifiedDiff(raw) == [i \in DOMAIN raw |-> [path |-> PathOf(raw[i]), isNew |-> raw[i].new /\ ~raw[i].quoted, lines |-> raw[i].lines]]
GetChangedDiffs(raw) == SelectSeq(ParseUnifiedDiff(raw), LAMBDA d : d.path \notin Noise)

\* The files in any order: it comes from the number of the reviewer.  They
\* are found again by their paths.
ShuffleDiffs(diffs) ==
    LET LastOf(p) == CHOOSE i \in DOMAIN diffs : diffs[i].path = p /\ \A j \in DOMAIN diffs : j > i => diffs[j].path # p
    IN {[i \in DOMAIN diffs |-> diffs[LastOf(diffs[order[i]].path)]] : order \in Bijection(DOMAIN diffs, DOMAIN diffs)}

\* Of a file that is too long the rest is cut, and the reviewer told so.
Taken(d) == IF d.lines > PerFile THEN PerFile ELSE d.lines
Sheet == [lines |-> 0, shown |-> {}, omitted |-> FALSE]
\* Mutant: the lines of a file that is cut are not counted.
PutUncounted(sheet, d) ==
    IF sheet.lines >= PerReview THEN [sheet EXCEPT !.omitted = TRUE]
    ELSE [sheet EXCEPT !.shown = @ \cup {d}, !.lines = @ + (IF d.lines > PerFile THEN 0 ELSE d.lines)]
Put(sheet, d) ==
    IF sheet.lines >= PerReview THEN [sheet EXCEPT !.omitted = TRUE]
    ELSE [sheet EXCEPT !.shown = @ \cup {d}, !.lines = @ + Taken(d)]
\* Files that are new come last, whatever the order.
FormatDiffContext(diffs) ==
    LET Is(n) == SelectSeq(diffs, LAMBDA d : d.isNew = n)
    IN FoldLeft(Put, Sheet, Is(FALSE) \o Is(TRUE))

(* ------------------------------- findings ------------------------------ *)

\* A line with a location in brackets, or a bullet; the category of a bullet
\* is what the words of its summary make of it.
Line(form, file, line, category, summary) ==
    [form |-> form, file |-> file, line |-> line, category |-> category, summary |-> summary]

Keywords == [null |-> {"null", "nil", "empty"}, spec |-> {"spec", "scope"}, errors |-> {"error", "handle"}, tests |-> {"test"}]
ClassifyCategory(words) ==
    LET found(c) == Keywords[c] \cap words # {}
    IN IF found("null") THEN "null" ELSE IF found("spec") THEN "spec"
       ELSE IF found("errors") THEN "errors" ELSE IF found("tests") THEN "tests" ELSE "general"

\* Bullets count only where no location is given; a finding is taken once.
ParseFindings(reviewer, lines) ==
    LET structured == SelectSeq(lines, LAMBDA l : l.form = "structured")
        used == IF structured # <<>> THEN structured ELSE lines
        Known(found, l) == \E f \in Range(found) : f.file = l.file /\ f.summary = l.summary
        Finding(l) == [file |-> l.file, line |-> l.line, summary |-> l.summary, reviewer |-> reviewer,
                       category |-> IF l.form = "structured" THEN l.category ELSE ClassifyCategory(l.summary)]
    IN FoldLeft(LAMBDA found, l : IF Known(found, l) THEN found ELSE Append(found, Finding(l)), <<>>, used)

\* The words in common, of all: at least 40 %, or 60 % if a line is not known.
Jaccard(a, b, percent) == a \cup b = {} \/ 100 * Cardinality(a \cap b) >= percent * Cardinality(a \cup b)
AreSimilarFindings(f, g) ==
    LET lines == f.line > 0 /\ g.line > 0
    IN /\ lines => f.line - g.line \in -10..10
       /\ f.category = g.category \/ Jaccard(f.summary, g.summary, IF lines THEN 40 ELSE 60)

\* Mutant: findings are counted, not reviewers.
AgreementOfAll(cluster) == Cardinality(cluster)
Agreement(cluster) == Cardinality({f.reviewer : f \in cluster})

\* In the order of their lines, a finding begins a cluster or joins the first
\* in its file whose beginning it resembles.
ClusterFindings(found) ==
    LET Earlier(i) == {j \in DOMAIN found : found[j].line < found[i].line \/ (found[j].line = found[i].line /\ j < i)}
        Alike(j, i) == found[j].file = found[i].file /\ AreSimilarFindings(found[j], found[i])
        Begins[i \in DOMAIN found] == \A j \in Earlier(i) : Begins[j] => ~Alike(j, i)
        beginnings == {i \in DOMAIN found : Begins[i]}
        Joins(i, b) == i = b \/ (b \in Earlier(i) /\ Alike(b, i) /\ ~\E c \in beginnings \cap Earlier(b) : Alike(c, i))
    IN {{found[i] : i \in {j \in DOMAIN found : Joins(j, b)}} : b \in beginnings}

\* More than the share that must agree; the rest are disagreements.
IsHigh(phase, cluster) == 100 * Agreement(cluster) > phase.agreement * phase.k
HighConfidence(phase, clusters) == {c \in clusters : IsHigh(phase, c)}

\* The text that comes of K reviewers.  It has a line with the signal of each
\* of them, but if all passed, and its own verdict at the end.
PassesIn(outputs) == {i \in DOMAIN outputs : "pass" \in outputs[i].signals}
VerdictOf(phase, outputs, clusters) ==
    IF 2 * Cardinality(PassesIn(outputs)) > phase.k /\ HighConfidence(phase, clusters) = {} THEN "pass" ELSE "fail"
FormatMergedReview(phase, outputs, clusters) ==
    IF PassesIn(outputs) = DOMAIN outputs THEN {"pass"}
    ELSE {VerdictOf(phase, outputs, clusters), "fail"} \cup (IF PassesIn(outputs) # {} THEN {"pass"} ELSE {})

SaysPass(text) == "pass" \in text

(* ------------------------------- reviews ------------------------------- *)

AtTop(level) == level = Len(LevelProviders)
Refusal == [signals |-> {"fail"}, lines |-> <<>>]
NoBranch == [at |-> "none", phase |-> 1, level |-> 1, rotation |-> 0, start |-> 0, providers |-> <<>>, step |-> 0, now |-> "none",
             text |-> {}, by |-> "none", fixer |-> "none", outputs |-> <<>>, diff |-> <<>>, sheets |-> <<>>, ended |-> {}]
IsReview(b) == branch[b].step % 2 = 0
Branches == DOMAIN branch
AtBranch(b, at) == branch[b].at = at
BranchIs(b, s) == branch' = [branch EXCEPT ![b] = s] /\ UNCHANGED review

\* What an agent, or its copy, begins a phase with: K reviewers, or the
\* providers of its level from where the last rotation ended.
PhaseOf(b) == review.phases[branch[b].phase]
KReviewers(p) == p.k > 1
Providers(level) == LevelProviders[level]
\* Mutant: two steps in a row are of one provider.
ProviderOfTwo(s) == s.providers[((s.start + (s.step + 1) \div 2) % Len(s.providers)) + 1]
ProviderOf(s) == s.providers[((s.start + s.step) % Len(s.providers)) + 1]

Started(r, p, i) ==
    LET n == Len(Providers(r.level))
        s == [NoBranch EXCEPT !.phase = i, !.level = r.level, !.rotation = r.rotation,
                              !.start = r.rotation % n, !.providers = Providers(r.level)]
    IN IF KReviewers(p) THEN [s EXCEPT !.at = "diffs", !.outputs = [reviewer \in 1..p.k |-> Refusal]]
       ELSE [s EXCEPT !.at = "works", !.now = ProviderOf(s)]

\* SetMinProviderLevel: a level is begun with its first provider.
AtLevel(s, level) == [s EXCEPT !.level = level, !.rotation = IF level = s.level THEN @ ELSE 0]
Escalates(s) == AtLevel(s, s.level + 1)

\* The pipeline comes to a review, perhaps at a higher level by then; K and
\* the share are of the environment.
BeginReview ==
    /\ review.at = "idle" /\ review.count < MaxReviews
    /\ \E phases \in PhasesInTurn, level \in review.level..Len(LevelProviders) :
         /\ review' = [AtLevel(review, level) EXCEPT !.at = "reviews", !.phases = phases, !.count = @ + 1]
         /\ branch' = [i \in DOMAIN phases |-> Started(AtLevel(review, level), phases[i], i)]

\* Each reviewer's task has the files in an order of its own; a rotation has
\* them in the order of git.
ReadDiffs(b) ==
    /\ AtBranch(b, "diffs")
    /\ \E raw \in Changes : BranchIs(b, [branch[b] EXCEPT !.at = "shows", !.diff = GetChangedDiffs(raw)])
ShowDiffs(b) ==
    /\ AtBranch(b, "shows")
    /\ \E order \in ShuffleDiffs(branch[b].diff) :
         LET sheets == Append(branch[b].sheets, FormatDiffContext(order))
         IN BranchIs(b, [branch[b] EXCEPT !.sheets = sheets, !.at = IF Len(sheets) = PhaseOf(b).k THEN "gathers" ELSE @])

\* A reviewer of K ends, in any order; one that fails is a refusal.
ReviewerEnds(b) ==
    /\ AtBranch(b, "gathers")
    /\ \E i \in DOMAIN branch[b].outputs, output \in Reports \cup {Refusal} :
         /\ i \notin branch[b].ended
         /\ BranchIs(b, [branch[b] EXCEPT !.outputs[i] = output, !.ended = @ \cup {i}, !.sheets = <<>>, !.diff = <<>>])

Findings(s) == FlattenSeq([i \in DOMAIN s.outputs |-> ParseFindings(i, s.outputs[i].lines)])
Merge(b) ==
    /\ AtBranch(b, "gathers") /\ branch[b].ended = DOMAIN branch[b].outputs
    /\ BranchIs(b, [branch[b] EXCEPT !.at = "judged",
                     !.text = FormatMergedReview(PhaseOf(b), branch[b].outputs, ClusterFindings(Findings(branch[b])))])

\* The next step of a rotation, or its end.  One reviewer is a rotation of
\* one step; only a rotation moves on the index.
Concluded(s) == [s EXCEPT !.at = "judged", !.rotation = IF Len(s.providers) > 1 THEN @ + Len(s.providers) ELSE @]
NextStep(s) ==
    LET n == [s EXCEPT !.step = @ + 1, !.at = "works"]
    IN IF s.step + 1 = Len(s.providers) THEN Concluded(s) ELSE [n EXCEPT !.now = ProviderOf(n)]
Spoken(s, text) ==
    LET t == [s EXCEPT !.text = text, !.by = s.now, !.fixer = IF s.step % 2 = 1 THEN s.now ELSE @]
    IN IF s.step % 2 = 0 /\ SaysPass(text) THEN Concluded(t) ELSE NextStep(t)

ChildAnswers(b) ==
    /\ branch[b].at \in {"works", "again"}
    /\ \E signals \in SUBSET {"pass", "fail"} : BranchIs(b, Spoken(branch[b], signals))

\* Out of turns or tokens: a bigger model tries once.
ChildExhausted(b) ==
    /\ AtBranch(b, "works") /\ ~AtTop(branch[b].level)
    /\ BranchIs(b, [Escalates(branch[b]) EXCEPT !.at = "again", !.now = Providers(branch[b].level + 1)[1]])

ChildFails(b) ==
    /\ branch[b].at \in {"works", "again"}
    /\ BranchIs(b, NextStep([branch[b] EXCEPT !.text = {"fail"}, !.by = "none", !.fixer = IF IsReview(b) THEN @ ELSE branch[b].now]))

\* One phase is reviewed by the agent itself, two by copies whose levels are
\* forgotten.  What did not pass is fixed a level up and reviewed again.
EndReview ==
    /\ review.at = "reviews"
    /\ \A b \in Branches : AtBranch(b, "judged")
    /\ LET passed == \A b \in Branches : SaysPass(branch[b].text)
           after == IF Branches = {1} THEN [review EXCEPT !.level = branch[1].level, !.rotation = branch[1].rotation] ELSE review
           next == IF passed \/ AtTop(after.level) THEN after ELSE Escalates(after)
       IN review' = [next EXCEPT !.at = "idle", !.passed = passed, !.phases = <<>>]
    /\ branch' = <<>>

BranchWork(b) == ReadDiffs(b) \/ ShowDiffs(b) \/ ReviewerEnds(b) \/ Merge(b) \/ ChildAnswers(b) \/ ChildExhausted(b) \/ ChildFails(b)

ReviewsInit ==
    /\ review = [at |-> "idle", level |-> 1, rotation |-> 0, phases |-> <<>>, count |-> 0, passed |-> FALSE]
    /\ branch = <<>>
ReviewsNext == BeginReview \/ EndReview \/ \E b \in Branches : BranchWork(b)

ReviewsSpec == ReviewsInit /\ [][ReviewsNext]_reviewVars

(* ------------------------------ properties ----------------------------- *)

\* "A reviews, B fixes A's issues, C reviews B's fix": nobody reviews what he
\* fixed himself, and - of an odd number of providers - it is a review that
\* lets a phase pass, not the word of who fixed it.  Providers of different
\* levels differ.
FixesReviewed ==
    \A b \in Branches :
        LET s == branch[b] IN
        ~KReviewers(PhaseOf(b)) =>
            /\ s.at \in {"works", "again"} /\ IsReview(b) => s.now # s.fixer
            /\ s.at = "judged" /\ SaysPass(s.text) /\ Len(s.providers) % 2 = 1 => s.by # s.fixer

\* No finding is lost or counted for two issues; what is said to be agreed
\* on was found by more than the share of reviewers that has to agree, each
\* in one file; and a phase passes only if one of its reviewers passed it.
FindingsHeld ==
    \A b \in Branches : AtBranch(b, "judged") /\ KReviewers(PhaseOf(b)) =>
        LET s == branch[b]
            found == Findings(s)
            clusters == ClusterFindings(found)
        IN /\ UNION clusters = Range(found)
           /\ \A c, d \in clusters : c # d => c \cap d = {}
           /\ \A c \in HighConfidence(PhaseOf(b), clusters) :
                /\ 100 * Cardinality({i \in DOMAIN s.outputs : \E f \in c : f.reviewer = i}) > PhaseOf(b).agreement * PhaseOf(b).k
                /\ \A f, g \in c : f.file = g.file
           /\ SaysPass(s.text) => PassesIn(s.outputs) # {}

\* A reviewer is shown every change, or is told that it is not, in whatever
\* order the files come, and at most a file more than it can take; of files
\* whose paths git quotes there is one at most.
ChangesShown ==
    \A b \in Branches : \A i \in DOMAIN branch[b].sheets :
        LET sheet == branch[b].sheets[i] IN
        /\ MapThenSumSet(Taken, sheet.shown) < PerReview + PerFile
        /\ sheet.shown = Range(branch[b].diff) \/ sheet.omitted

\* What K reviewers see and what is made of what they find.
ReviewsHold == FindingsHeld /\ ChangesShown
=============================================================================
