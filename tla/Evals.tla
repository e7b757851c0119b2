-------------------------------- MODULE Evals --------------------------------
(***************************************************************************)
(* The evaluation harness of internal/eval: exercises are imported from    *)
(* the repositories of eleven benchmark suites, and a run asks providers   *)
(* for solutions, tests them, asks bigger providers again, has what passed *)
(* reviewed, and writes a result per exercise and a summary.               *)
(*                                                                         *)
(* Code is one of a few values, and a test of it may end either way: it    *)
(* runs in a container or with whatever the machine has, and again when a  *)
(* module was missing.  The statements of the store are assumed to         *)
(* succeed.                                                                *)
(***************************************************************************)
EXTENDS Integers, Sequences, SequencesExt, FiniteSets

CONSTANTS
    Library,            \* sources to import: [suite, max, files], a file is a sequence of entries
    Answers,            \* the codes of models
    Providers,          \* in their order
    Links, Planners,    \* those named ollama-chain-N and those with "planner" in their names
    Picks,              \* MaxRetries and points of an escalation (5)
    MaxTurns,           \* of an agent
    Suites, MaxChosen,  \* what runs are limited to
    Outside             \* the providers an agent turns to: gemini, claude-code, codex

NoCode == "no code"
NoSlug == "no slug"
Anyone == "anyone"      \* no provider asked for

ASSUME EvalsAssumption ==
    /\ NoCode \notin Answers /\ Links \cup Planners \subseteq ToSet(Providers)
    /\ Picks \in Nat \ {0} /\ MaxTurns \in Nat \ {0}

VARIABLES
    table,              \* eval_exercises: [suite, language, slug]
    report,             \* of the last import
    run,                \* [phase, agent, twoPass, provider, slots, byHandler, expired]
    row, own,           \* status of the run, and of the row that a handler made for it
    worker,             \* of each exercise chosen
    results, summary

imports == <<table, report>>
running == <<run, row, own, worker, results, summary>>
evalVars == <<table, report, run, row, own, worker, results, summary>>

(* ------------------------------- importers ----------------------------- *)

\* How the tests that an importer finds or writes are run: by a framework, by
\* calling check(candidate), as a script that reads the solution itself, or by
\* a framework whose tests start the solution as a program.
StdinTests == "program"
DS1000Runner == "script"
BIRDSQLRunner == "script"       \* it explains the query and compares nothing
DAREBenchRunner == "script"

\* What an importer reads: a tree of directories, all the files there are, or
\* the first of several places; whether an entry may do without a name; the
\* languages of an entry (none is its own); how it is marked and tested, and
\* by the commands of which environment.
Importer(reads, named, languages, mode, pattern, environment) ==
    [reads |-> reads, named |-> named, languages |-> languages, mode |-> mode,
     pattern |-> pattern, environment |-> environment]
Polyglot == Importer("trees", TRUE, {}, "docker-test", "unit", "language")
RooCode == Importer("trees", TRUE, {}, "docker-test", "unit", "language")
Exercism == Importer("tree", TRUE, {}, "docker-test", "unit", "language")
MultiPLE == Importer("files", TRUE, {}, "docker-test", "unit", "language")
EvalPlus == Importer("files", TRUE, {"python"}, "docker-test", "check", "language")
CodeContests == Importer("files", TRUE, {"python", "go", "java", "cpp", "rust", "javascript"},
                         "docker-test", StdinTests, "language")
DS1000 == Importer("first", FALSE, {"python"}, "docker-test", DS1000Runner, "python-ds")
BIRDSQL == Importer("first", FALSE, {"sql"}, "docker-test", BIRDSQLRunner, "language")
DAREBench == Importer("array", FALSE, {"python"}, "metric-compare", DAREBenchRunner, "python-ds")
WritingBench == Importer("first", FALSE, {"text"}, "llm-judge", "none", "none")
PPTArena == Importer("array", FALSE, {"pptx"}, "vlm-judge", "none", "none")

Of(suite) ==
    CASE suite = "polyglot" -> Polyglot [] suite = "roocode" -> RooCode [] suite = "exercism" -> Exercism
      [] suite = "multiple" -> MultiPLE [] suite = "evalplus" -> EvalPlus [] suite = "codecontests" -> CodeContests
      [] suite = "ds1000" -> DS1000 [] suite = "birdsql" -> BIRDSQL [] suite = "dare-bench" -> DAREBench
      [] suite = "writingbench" -> WritingBench [] suite = "pptarena" -> PPTArena
ModeOf(suite) == Of(suite).mode
Languages(suite, entry) == IF Of(suite).languages = {} THEN {entry.language} ELSE Of(suite).languages

\* A name of which nothing is left when it is sanitized is replaced by a
\* number where names are optional; suites with numbers always have one.
SlugOf(suite, entry) == IF entry.slug = NoSlug /\ ~Of(suite).named THEN "task-0" ELSE entry.slug

Nothing == [imported |-> 0, skipped |-> 0, errors |-> 0, rows |-> {}]

\* An entry is good, garbled (not JSON) or lacks something: a text, a test.
ImportEntry(suite, sum, entry) ==
    LET rows == {[suite |-> suite, language |-> l, slug |-> SlugOf(suite, entry)] : l \in Languages(suite, entry)}
    IN CASE entry.text = "garbled" -> [sum EXCEPT !.errors = @ + 1]
         [] entry.text = "lacking" \/ (entry.text = "good" /\ SlugOf(suite, entry) = NoSlug) ->
              [sum EXCEPT !.skipped = @ + 1]
         [] OTHER -> [sum EXCEPT !.imported = @ + Cardinality(rows), !.rows = @ \cup rows]

\* A file is read until it has given what remains of the limit; none is no limit.
ImportFile(suite, remaining, file, before) ==
    FoldLeft(LAMBDA sum, entry :
               IF remaining > 0 /\ sum.imported - before.imported >= remaining THEN sum
               ELSE ImportEntry(suite, sum, entry), before, file)

\* Mutant: no look at the limit between two files.
ImportFilesOn(suite, max, files) ==
    FoldLeft(LAMBDA sum, file : ImportFile(suite, max - sum.imported, file, sum), Nothing, files)
ImportFiles(suite, max, files) ==
    FoldLeft(LAMBDA sum, file : IF max > 0 /\ sum.imported >= max THEN sum
                                ELSE ImportFile(suite, max - sum.imported, file, sum), Nothing, files)

\* What is an error differs: no files, an array that cannot be parsed, or
\* nothing to import in the first file.
ReadSource(source) ==
    LET reads == Of(source.suite).reads
        single == reads \in {"first", "array"}
        files == IF single /\ source.files # <<>> THEN <<Head(source.files)>> ELSE source.files
        unreadable == reads = "array" /\ \E file \in ToSet(files) : \E e \in ToSet(file) : e.text = "garbled"
        sum == IF unreadable THEN Nothing ELSE ImportFiles(source.suite, source.max, files)
    IN [sum |-> sum,
        failed |-> (files = <<>> /\ reads # "trees") \/ unreadable \/ (sum.imported = 0 /\ single)]

Import(source) ==
    /\ run.phase = "idle" /\ report.suite = "none"
    /\ LET read == ReadSource(source)
       IN /\ table' = table \cup read.sum.rows
          /\ report' = [suite |-> source.suite, max |-> source.max, failed |-> read.failed,
                        imported |-> IF read.failed THEN 0 ELSE read.sum.imported]
    /\ UNCHANGED running

(* ------------------------------ workspaces ----------------------------- *)

\* What the scaffolds write into an empty directory.
ScaffoldGo == {"go.mod", "slug.go", "slug_test.go"}
\* Mutant: the scripts of DS-1000 are not told from tests of a framework.
ScaffoldPythonPlain(pattern) == {"slug.py", "slug_test.py"}
ScaffoldPython(pattern) ==
    IF pattern = "script" THEN {"solution.py", "test_runner.py"} ELSE {"slug.py", "slug_test.py"}
ScaffoldSQL == {"solution.sql", "test_runner.py"}
\* (a slug of several words, which its tests write as one in camel case)
ScaffoldJavaScript == {"package.json", "slug-name.js", "slug-name.spec.js"}
ScaffoldJava == {"build.gradle", "src/main/java/Slug.java", "src/test/java/SlugTest.java"}
ScaffoldRust == {"Cargo.toml", "src/lib.rs", "tests/slug.rs"}
ScaffoldCpp == {"CMakeLists.txt", "test_main.cpp", "slug.h", "slug_test.cpp"}
Scaffold(e) ==
    CASE e.language = "go" -> ScaffoldGo [] e.language = "python" -> ScaffoldPython(Of(e.suite).pattern)
      [] e.language = "sql" -> ScaffoldSQL [] e.language = "javascript" -> ScaffoldJavaScript
      [] e.language = "java" -> ScaffoldJava [] e.language = "rust" -> ScaffoldRust
      [] e.language = "cpp" -> ScaffoldCpp [] OTHER -> {}

\* What the command reads that was stored with the exercise, in a container.
CommandReads(e) ==
    CASE Of(e.suite).environment = "python-ds" \/ e.language = "sql" -> {"test_runner.py"}
      [] e.language = "go" -> {"go.mod", "slug_test.go"} [] e.language = "python" -> {"slug_test.py"}
      [] e.language = "javascript" -> {"package.json", "slug-name.spec.js"}
      [] e.language = "java" -> {"build.gradle", "src/test/java/SlugTest.java"}
      [] e.language = "rust" -> {"Cargo.toml", "tests/slug.rs"}
      [] e.language = "cpp" -> {"CMakeLists.txt", "test_main.cpp", "slug_test.cpp", "test/catch.hpp"}

\* What is read on the machine, by tools that the language chooses.
GoReads == {"go.mod", "slug_test.go"}
PythonReads(pattern) == IF pattern = "script" THEN {"test_runner.py"} ELSE {"slug_test.py"}
JSReads == {"package.json", "slug-name.spec.js"}
RustReads == {"Cargo.toml", "tests/slug.rs"}
JavaReads == {"src/main/java/Slug.java", "src/test/java/SlugTest.java"}
CppReads == {"CMakeLists.txt", "test_main.cpp", "slug_test.cpp", "test/catch.hpp"}
SQLReads == {"test_runner.py"}
MachineReads(e) ==
    CASE e.language = "go" -> GoReads [] e.language = "python" -> PythonReads(Of(e.suite).pattern)
      [] e.language = "javascript" -> JSReads [] e.language = "rust" -> RustReads [] e.language = "java" -> JavaReads
      [] e.language = "cpp" -> CppReads [] e.language = "sql" -> SQLReads

\* The header is fetched for tests that mention it: those of the tracks do,
\* and those that are generated or assert by themselves do not.
MentionsCatch(e) == e.suite \in {"polyglot", "roocode", "exercism"}
Fetched(e) == IF e.language = "cpp" /\ MentionsCatch(e) THEN {"test/catch.hpp"} ELSE {}

\* The solution that a test reads or starts: where its language has it, or,
\* as a program, where the generator of the test believes it to be.
StartedAs(language) ==
    CASE language = "python" -> {"slug.py"} [] language = "go" -> {"go.mod", "slug.go"}
      [] language = "java" -> {"Slug.java"} [] language = "cpp" -> {"solution"}
      [] language = "rust" -> {"Cargo.toml", "src/main.rs"} [] language = "javascript" -> {"slugName.js"}
SolutionRead(e) ==
    CASE Of(e.suite).pattern = "program" -> StartedAs(e.language)
      [] Of(e.suite).pattern = "script" -> IF e.language = "sql" THEN {"solution.sql"} ELSE {"solution.py"}
      [] e.language = "python" -> {"slug.py"} [] e.language = "go" -> {"slug.go"}
      [] e.language = "java" -> {"src/main/java/Slug.java"} [] e.language = "cpp" -> {"slug.h"}
      [] e.language = "rust" -> {"src/lib.rs"} [] e.language = "javascript" -> {"slug-name.js"}

\* A test passes, fails, or cannot be run; its run's deadline ends it.
Verdicts == IF run.expired THEN {"failed", "broken"} ELSE {"passed", "failed", "broken"}
Scores(e) == IF ModeOf(e.suite) = "metric-compare" THEN BOOLEAN ELSE {FALSE}

(* ------------------------------ providers ------------------------------ *)

FirstChainProvider ==
    LET links == SelectSeq(Providers, LAMBDA p : p \in Links)
        others == SelectSeq(Providers, LAMBDA p : p \notin Planners)
    IN IF links # <<>> THEN Head(links) ELSE Head(others)

\* Who may have answered: the provider asked for, or the first link, or
\* whoever the router took after it failed.
Answerers(provider) == IF provider = Anyone THEN ToSet(Providers) ELSE {provider}

\* Points spread over the providers after one of the chain.
EscalationChainFrom(current) ==
    LET all == SelectSeq(Providers, LAMBDA p : p \notin Planners)
        at == IF current \in Links THEN CHOOSE i \in DOMAIN all : all[i] = current ELSE Len(all)
        rest == SubSeq(all, at + 1, Len(all))
        spread == [i \in 1..Picks |-> rest[((i - 1) * Len(rest)) \div Picks + 1]]
    IN IF Len(rest) <= Picks THEN rest
       ELSE IF Last(spread) = Last(rest) THEN spread ELSE Append(spread, Last(rest))
Climb(current) == LET chain == EscalationChainFrom(current) IN SubSeq(chain, 1, IF Len(chain) > Picks THEN Picks ELSE Len(chain))

(* ------------------------------- exercises ----------------------------- *)

NoResult == [pass1 |-> FALSE, pass2 |-> FALSE, code |-> NoCode, code2 |-> NoCode, failed |-> FALSE]
NewWorker == [pc |-> "left", turn |-> 0, code |-> NoCode, climbed |-> FALSE, todo |-> <<>>, proved |-> {}, res |-> NoResult]

At(e, pc) == e \in DOMAIN worker /\ worker[e].pc = pc
Becomes(e, w) == worker' = [worker EXCEPT ![e] = w] /\ UNCHANGED <<imports, run, row, own, results, summary>>
Fails(w) == [w EXCEPT !.pc = "store", !.res.failed = TRUE]
Proved(w, code, v) == IF v = "passed" THEN w.proved \cup {code} ELSE w.proved
Tested(e) == ModeOf(e.suite) \in {"docker-test", "metric-compare"}

\* A solution is asked for and tested; what does not pass goes up the chain.
Attempt(e) ==
    /\ At(e, "ask") /\ Tested(e) /\ ~run.agent
    /\ \/ Becomes(e, Fails(worker[e]))
       \/ /\ ~run.expired
          /\ \E p \in Answerers(run.provider), c \in Answers \cup {NoCode}, v \in Verdicts, scored \in Scores(e) :
               LET passed == v = "passed" \/ scored
                   todo == IF run.twoPass /\ ~passed /\ v # "broken" THEN Climb(p) ELSE <<>>
               IN Becomes(e, [worker[e] EXCEPT !.pc = IF todo = <<>> THEN "store" ELSE "retry", !.todo = todo,
                                               !.proved = Proved(worker[e], c, v), !.res.code = c, !.res.pass1 = passed])

Retry(e) ==
    /\ At(e, "retry")
    /\ LET w == worker[e]
           rest == Tail(w.todo)
           onward == [w EXCEPT !.todo = rest, !.pc = IF rest = <<>> THEN "store" ELSE "retry"]
       IN \/ Becomes(e, onward)     \* an error
          \/ /\ ~run.expired
             /\ \E c \in Answers \cup {NoCode}, v \in Verdicts, scored \in Scores(e) :
                  \/ v = "passed" /\ Becomes(e, [w EXCEPT !.pc = "store", !.todo = <<>>, !.proved = @ \cup {c},
                                                          !.res.pass2 = TRUE, !.res.code2 = c])
                  \/ v # "passed" /\ scored /\ Becomes(e, [w EXCEPT !.pc = "store", !.todo = <<>>, !.res.pass2 = TRUE])
                  \/ v # "passed" /\ ~scored /\ Becomes(e, onward)

\* A text and a judge's score of it.
Judge(e) ==
    /\ At(e, "ask") /\ ModeOf(e.suite) = "llm-judge"
    /\ \/ Becomes(e, Fails(worker[e]))
       \/ /\ ~run.expired
          /\ \E c \in Answers \cup {NoCode}, judged \in BOOLEAN, good \in BOOLEAN :
               Becomes(e, [worker[e] EXCEPT !.pc = "store", !.res.code = c, !.res.failed = ~judged,
                                            !.res.pass1 = judged /\ good])

SkipSlides(e) == At(e, "ask") /\ ModeOf(e.suite) = "vlm-judge" /\ Becomes(e, Fails(worker[e]))

(* -------------------------------- agents ------------------------------- *)

AgentAsk(e) ==
    /\ At(e, "ask") /\ Tested(e) /\ run.agent
    /\ \/ Becomes(e, Fails(worker[e]))
       \/ ~run.expired /\ \E c \in Answers \cup {NoCode} :
            Becomes(e, [worker[e] EXCEPT !.pc = "test", !.code = c, !.res.code = c])

AgentTest(e) ==
    /\ At(e, "test")
    /\ LET w == worker[e]
       IN \E v \in Verdicts :
            Becomes(e, IF v = "passed"
                       THEN [w EXCEPT !.pc = "review", !.proved = @ \cup {w.code},
                                      !.res.pass1 = TRUE, !.res.pass2 = w.turn > 0]
                       ELSE [w EXCEPT !.pc = IF w.turn = MaxTurns - 1 THEN "store" ELSE "fix"])

\* Mutant: a repair is no turn.
FixedAgain(w, c) == [w EXCEPT !.pc = "test", !.code = c, !.res.code2 = c]
Fixed(w, c) == [w EXCEPT !.pc = "test", !.turn = @ + 1, !.code = c, !.res.code2 = c]

\* New code is tested; without any, other providers are asked, once.
Fix(e) ==
    /\ At(e, "fix")
    /\ LET before == worker[e]
           late == run.provider # Anyone /\ before.turn >= (IF MaxTurns \div 2 < 2 THEN 2 ELSE MaxTurns \div 2)
           w == [before EXCEPT !.climbed = @ \/ late]
           stalled == [w EXCEPT !.climbed = TRUE]
           news == Answers \ {w.code}
       IN \/ Becomes(e, Fails(w))
          \/ ~run.expired /\ \E c \in news : Becomes(e, Fixed(w, c))
          \/ ~run.expired /\ ~w.climbed /\ Outside # {} /\ \E c \in news : Becomes(e, Fixed(stalled, c))
          \/ ~run.expired /\ Becomes(e, [stalled EXCEPT !.pc = "store"])

\* Mutant: what the reviewer made is kept whatever the tests say.
Kept(w, c, v) == [w EXCEPT !.pc = "store", !.code = c, !.res.code2 = c, !.proved = Proved(w, c, v)]
Reviewed(w, c, v) ==
    IF v = "passed" THEN [w EXCEPT !.pc = "store", !.code = c, !.res.code2 = c, !.proved = @ \cup {c}]
    ELSE [w EXCEPT !.pc = "store"]

\* The reviewer may be skipped, fail or change nothing.
Review(e) ==
    /\ At(e, "review")
    /\ LET w == worker[e]
       IN \/ Becomes(e, [w EXCEPT !.pc = "store"])
          \/ ~run.expired /\ \E c \in Answers \ {w.code}, v \in Verdicts : Becomes(e, Reviewed(w, c, v))

(* --------------------------------- runs -------------------------------- *)

Busy == {e \in DOMAIN worker : worker[e].pc \notin {"left", "queued", "stored"}}
Left == {e \in DOMAIN worker : worker[e].pc = "left"}
AllStored == \A e \in DOMAIN worker : worker[e].pc \in {"left", "stored"}

\* Some of what there is of a suite, at random when it is too much.
Select(suite) ==
    LET all == {e \in table : e.suite = suite}
    IN IF Cardinality(all) <= MaxChosen THEN {all} ELSE {chosen \in SUBSET all : Cardinality(chosen) = MaxChosen}

\* Through the handler a run has a row more, made before and failed with it.
Start(chosen) ==
    /\ run.phase = "idle"
    /\ \E agent, twoPass, byHandler \in BOOLEAN, provider \in {Anyone, FirstChainProvider}, slots \in {1, 2} :
         /\ run' = [run EXCEPT !.phase = IF chosen = {} THEN "ended" ELSE "spawn", !.agent = agent,
                               !.twoPass = twoPass, !.provider = provider, !.slots = slots, !.byHandler = byHandler]
         /\ own' = IF ~byHandler THEN own ELSE IF chosen = {} THEN "failed" ELSE "running"
    /\ row' = IF chosen = {} THEN row ELSE "running"
    /\ worker' = [e \in chosen |-> NewWorker]
    /\ UNCHANGED <<imports, results, summary>>

\* One after the other, or all at once for the slots to hold back.
SpawnWorker(e) ==
    /\ run.phase = "spawn" /\ ~run.expired /\ At(e, "left")
    /\ run.slots = 1 => AllStored
    /\ Becomes(e, [worker[e] EXCEPT !.pc = IF run.slots = 1 THEN "ask" ELSE "queued"])

Enter(e) ==
    /\ At(e, "queued") /\ Cardinality(Busy) < run.slots
    /\ Becomes(e, [worker[e] EXCEPT !.pc = "ask"])

StoreResult(e) ==
    /\ At(e, "store")
    /\ results' = results \cup {[exercise |-> e, proved |-> worker[e].proved, res |-> worker[e].res]}
    /\ worker' = [worker EXCEPT ![e].pc = "stored"]
    /\ UNCHANGED <<imports, run, row, own, summary>>

\* Half an hour for a run of the handler; the command has no deadline.
Expire ==
    /\ run.byHandler /\ run.phase \in {"spawn", "summed"} /\ ~run.expired
    /\ run' = [run EXCEPT !.expired = TRUE]
    /\ UNCHANGED <<imports, row, own, worker, results, summary>>

\* The deadline is looked at only before an exercise is begun.
GiveUp ==
    /\ run.phase = "spawn" /\ run.expired /\ Left # {} /\ (run.slots = 1 => AllStored)
    /\ row' = "failed"
    /\ run' = [run EXCEPT !.phase = "drain"]
    /\ UNCHANGED <<imports, own, worker, results, summary>>
Drain ==
    /\ run.phase = "drain" /\ AllStored
    /\ run' = [run EXCEPT !.phase = "ended"]
    /\ own' = IF run.byHandler THEN "failed" ELSE own
    /\ UNCHANGED <<imports, row, worker, results, summary>>

Summarized == [total |-> Cardinality(results),
               pass1 |-> Cardinality({r \in results : r.res.pass1}),
               pass2 |-> Cardinality({r \in results : r.res.pass2})]

\* Mutant: the goroutines are not waited for.
SumSoon ==
    /\ run.phase = "spawn" /\ Left = {}
    /\ summary' = Summarized
    /\ run' = [run EXCEPT !.phase = "summed"]
    /\ UNCHANGED <<imports, row, own, worker, results>>
SumUp ==
    /\ run.phase = "spawn" /\ Left = {} /\ AllStored
    /\ summary' = Summarized
    /\ run' = [run EXCEPT !.phase = "summed"]
    /\ UNCHANGED <<imports, row, own, worker, results>>
\* The row of the handler stays as it is.
Complete ==
    /\ run.phase = "summed"
    /\ row' = "completed"
    /\ run' = [run EXCEPT !.phase = "ended"]
    /\ UNCHANGED <<imports, own, worker, results, summary>>

EvalsInit ==
    /\ table = {} /\ report = [suite |-> "none", max |-> 0, failed |-> FALSE, imported |-> 0]
    /\ run = [phase |-> "idle", agent |-> FALSE, twoPass |-> FALSE, provider |-> Anyone, slots |-> 1,
              byHandler |-> FALSE, expired |-> FALSE]
    /\ row = "none" /\ own = "none" /\ worker = <<>> /\ results = {} /\ summary = [total |-> 0, pass1 |-> 0, pass2 |-> 0]

WorkOn(e) ==
    Attempt(e) \/ Retry(e) \/ Judge(e) \/ SkipSlides(e) \/ AgentAsk(e) \/ AgentTest(e) \/ Fix(e) \/ Review(e)
        \/ SpawnWorker(e) \/ Enter(e) \/ StoreResult(e)
Conclude == GiveUp \/ Drain \/ SumUp \/ Complete
EvalsNext ==
    \/ \E source \in Library : Import(source)
    \/ \E suite \in Suites : \E chosen \in Select(suite) : Start(chosen)
    \/ \E e \in DOMAIN worker : WorkOn(e)
    \/ Expire \/ Conclude

\* Calls and tests end, by their own deadlines if need be, and the loop goes on.
EvalsSpec ==
    /\ EvalsInit /\ [][EvalsNext]_evalVars
    /\ WF_evalVars(\E e \in DOMAIN worker : WorkOn(e)) /\ WF_evalVars(Conclude)

(* ------------------------------ properties ----------------------------- *)

\* An import that is limited stops with the entry that reaches the limit,
\* however the entries are spread over files: no limit is left for a file to
\* be read without one.  An entry is an exercise in each of six languages, so
\* up to five more may come than "how many exercises to import"
\* (internal/eval/importer.go:638) allows.
LimitHolds ==
    report.max > 0 => report.imported < report.max + Cardinality(Languages("codecontests", <<>>))

\* The tests that cannot find the solution, whatever it is: "java Slug.java"
\* and "./solution" where neither is, "cargo run" of a library, and a script
\* in camel case.
Misdirected(e) ==
    Of(e.suite).pattern = "program" /\ e.language \in {"java", "cpp", "rust", "javascript"}

\* On the machine and in a container the command that tests an exercise finds
\* the tests where its scaffold put them, and the tests find the solution, but
\* for those that are misdirected.  Tests in C++ need a header besides, that
\* no container has, and the machine only for tests that mention it: all are
\* linked with a main that includes it (internal/eval/docker.go:396).
TestsInPlace ==
    \A e \in {x \in table : Tested(x)} :
        /\ MachineReads(e) \subseteq Scaffold(e) \cup Fetched(e) \/ (e.language = "cpp" /\ ~MentionsCatch(e))
        /\ CommandReads(e) \subseteq Scaffold(e) \/ e.language = "cpp"
        /\ SolutionRead(e) \subseteq Scaffold(e) <=> ~Misdirected(e)

\* An import is limited, and which of the exercises it imports can be tested
\* is known.
ImportsHold == LimitHolds /\ TestsInPlace

\* The code that is kept for an exercise that passed its tests passed them:
\* repairs, other providers' code and a review that changed what had passed
\* do not get in between.
PassedIsKept ==
    \A r \in results : ModeOf(r.exercise.suite) = "docker-test" /\ (r.res.pass1 \/ r.res.pass2) =>
        (IF r.res.pass2 \/ r.res.code2 # NoCode THEN r.res.code2 ELSE r.res.code) \in r.proved

\* A run that is completed has a result for each exercise chosen, and its
\* summary counts what is in the table: no goroutine writes afterwards.
SummaryCovers ==
    row = "completed" => /\ summary = Summarized /\ summary.total = Cardinality(DOMAIN worker)
                         /\ {r.exercise : r \in results} = DOMAIN worker

\* What a run leaves in the tables is true of the code and complete.
ResultsHold == PassedIsKept /\ SummaryCovers

\* A run that was started is completed or failed, whatever providers and
\* tests do, also when its deadline comes while goroutines are at work.
EvalsEnd == row = "running" ~> row \in {"completed", "failed"}
=============================================================================
