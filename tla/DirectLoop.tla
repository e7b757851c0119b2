----------------------------- MODULE DirectLoop ------------------------------
(***************************************************************************)
(* internal/agent: an agent in direct mode (AutoOrchestrate off) and its   *)
(* conversation (conversation.go).  Run adds the user's message and loops: *)
(* a request with the whole conversation, an answer, the calls of its      *)
(* tools with a result each, and whatever the loop says to the model when  *)
(* it stalls, claims or repeats itself.  Every message goes through Add,   *)
(* which trims; compaction and the recovery from an overflow trim too.     *)
(*                                                                         *)
(* What the model answers, what a tool returns, how full the context is,   *)
(* how often calls repeat, whether a level of the chain is left and        *)
(* whether a check passes are free choices.  Phases and levels are module  *)
(* Pipeline's.                                                             *)
(***************************************************************************)
EXTENDS Integers, Sequences, SequencesExt, FiniteSetsExt

CONSTANTS
    Sessions,           \* whether text-only answers count as a stall, which the
                        \* request decides, whether no user is there to ask,
                        \* and whether there is an escalation chain
    MaxMessages,        \* Conversation.MaxMessages (200 and more)
    TrimBy,             \* messages TrimOldest is asked to drop (20)
    CompactOver,        \* a conversation this short is not compacted (30)
    Kept,               \* messages kept by a compaction (20)
    TurnCap,            \* taskMaxTurns: 30, 50 or 80 by complexity
    Attempts,           \* retries of a call (3)
    MaxRecalls,         \* corrections in a row, maxHallucinationRecalls (3)
    MaxContinued,       \* chances after a text in the middle of the work (2)
    Sustained,          \* tool calls that count as sustained work (3)
    WarnAt, StopAt,     \* loop warnings that escalate (3) and that stop (6)
    ResetAt,            \* loop warnings that end in an order to move on (5)
    MaxRedirects,       \* redirects once the chain is exhausted (3)
    CallsPerTurn,       \* bound of the model: calls in one answer
    MaxIdle             \* bound of the model: answers of a run that are empty or
                        \* claim completion of untested work

ASSUME LoopAssumption ==
    /\ Sessions \subseteq [stalls : BOOLEAN, nonInteractive : BOOLEAN, chain : BOOLEAN]
    /\ {MaxMessages, TrimBy, CompactOver, Kept, TurnCap, CallsPerTurn, MaxRecalls,
        MaxContinued, Sustained, WarnAt, StopAt, ResetAt, MaxRedirects} \subseteq Nat \ {0}
    /\ {MaxIdle, Attempts} \subseteq Nat
    /\ WarnAt <= StopAt
    /\ Kept <= CompactOver /\ CompactOver <= MaxMessages

VARIABLES
    messages,           \* a.conversation
    at,                 \* where the loop is
    calls,              \* calls of the answer still to execute
    run,                \* the counters and flags of the agent and its run
    session             \* what the request and the configuration say

directVars == <<messages, at, calls, run, session>>

(* ----------------------------- conversation ---------------------------- *)

\* A prompt is a message of the user or, in a role of its own, of the loop.
\* unanswered is history: the calls of an answer that never get a result.
UserSide == [role |-> "prompt", calls |-> 0, unanswered |-> 0]
Text == [role |-> "text", calls |-> 0, unanswered |-> 0]
Tool == [role |-> "tool", calls |-> 0, unanswered |-> 0]
Calls(n) == [role |-> "calls", calls |-> n, unanswered |-> 0]

IsAnswer(m) == m.role \in {"text", "calls"}
NewestAnswer(ms, i) == \A k \in DOMAIN ms : k > i => ~IsAnswer(ms[k])
\* History: one more call of the newest answer stays without a result.
LeftOpen(ms) ==
    [i \in DOMAIN ms |-> IF IsAnswer(ms[i]) /\ NewestAnswer(ms, i) THEN [ms[i] EXCEPT !.unanswered = @ + 1] ELSE ms[i]]

\* trim: past the limit the oldest go, and then whatever follows them up to
\* a message that is neither a result nor an answer with calls; when there
\* is no such message everything goes, the message just added included.
Trim(ms) ==
    LET over  == Len(ms) - MaxMessages
        clean == {i \in DOMAIN ms : i > over /\ ms[i].role \notin {"tool", "calls"}}
    IN  IF over <= 0 THEN ms
        ELSE IF clean = {} THEN <<>>
        ELSE SubSeq(ms, Min(clean), Len(ms))

Add(ms, m) == Trim(Append(ms, m))
AddAll(ms, added) ==
    LET after[n \in 0..Len(added)] == IF n = 0 THEN ms ELSE Add(after[n - 1], added[n])
    IN after[Len(added)]

\* TrimOldest: the oldest n go with the results that are then in front.
TrimOldest(ms) ==
    LET rest == SubSeq(ms, TrimBy + 1, Len(ms))
        kept == {i \in DOMAIN rest : rest[i].role # "tool"}
    IN  IF Len(ms) <= TrimBy THEN ms
        ELSE IF kept = {} THEN <<>>
        ELSE SubSeq(rest, Min(kept), Len(rest))

\* compactConversation: a summary in the place of all but the newest.
Compacted(ms) == AddAll(<<>>, <<UserSide>> \o SubSeq(ms, Len(ms) - Kept + 1, Len(ms)))

(* --------------------------------- runs -------------------------------- *)

\* noTool (turns without a tool: none, or one and more), continued, redirects
\* and what follows live as long as the agent; turn, attempt, verified and
\* idle are those of one run.
NewAgent == [turn |-> 0, attempt |-> 0, verified |-> FALSE, idle |-> 0,
             noTool |-> 0, continued |-> 0, tools |-> 0, recalls |-> 0,
             wrote |-> FALSE, tested |-> FALSE, warnings |-> 0, redirects |-> 0]

LoopInit ==
    /\ messages = <<>>
    /\ at = "idle" /\ calls = 0
    /\ run = NewAgent
    /\ session \in Sessions

\* Run: the user's message, and the first one possibly with the order to plan.
Asked ==
    /\ at = "idle"
    /\ \/ messages' = Add(messages, UserSide)
       \/ messages = <<>> /\ messages' = AddAll(messages, <<UserSide, UserSide>>)
    /\ run' = [run EXCEPT !.turn = 0, !.verified = FALSE, !.idle = 0]
    /\ at' = "turn"
    /\ UNCHANGED <<calls, session>>

\* The top of the loop: the request is built of the conversation.
Ask ==
    /\ at = "turn"
    /\ run' = [run EXCEPT !.attempt = 0]
    /\ at' = "request"
    /\ UNCHANGED <<messages, calls, session>>

ReturnWith(ms, r) == messages' = ms /\ run' = r /\ at' = "idle" /\ UNCHANGED <<calls, session>>

\* The next iteration; turn is counted past the cap no further.
Again(ms, r) ==
    /\ messages' = ms
    /\ run' = [r EXCEPT !.turn = IF @ <= TurnCap THEN @ + 1 ELSE @]
    /\ at' = "turn"
    /\ UNCHANGED session

\* The context is cancelled, or the call fails for good.
CallFails ==
    /\ at \in {"turn", "request"}
    /\ ReturnWith(messages, run)

(* ------------------------------- requests ------------------------------ *)

\* callLLMWithRetry: so many retries in all; a rate limit and an error that
\* can be retried wait, a level that failed is escalated.
CallAgain ==
    /\ at = "request" /\ run.attempt < Attempts
    /\ run' = [run EXCEPT !.attempt = @ + 1]
    /\ UNCHANGED <<messages, at, calls, session>>

\* The context overflowed: the oldest messages are stored and trimmed.
Overflow ==
    /\ at = "request" /\ run.attempt < Attempts
    /\ Len(messages) > TrimBy
    /\ messages' = TrimOldest(messages)
    /\ run' = [run EXCEPT !.attempt = @ + 1]
    /\ UNCHANGED <<at, calls, session>>

(* -------------------------------- answers ------------------------------ *)

\* An empty answer is not added, and counts as a turn without tools.
NothingAnswered ==
    /\ at = "request" /\ run.idle < MaxIdle
    /\ Again(messages, [run EXCEPT !.idle = @ + 1, !.noTool = 1])
    /\ UNCHANGED calls

\* A claim that the facts refute: autoRecall corrects it a few times in a row.
Corrected ==
    /\ at = "request" /\ run.tools > Sustained /\ run.recalls < MaxRecalls
    /\ Again(AddAll(messages, <<Text, UserSide>>), [run EXCEPT !.recalls = @ + 1])
    /\ UNCHANGED calls

CountsAsStall == session.stalls /\ run.noTool >= 1
Unverified == run.tools > 0 /\ run.wrote /\ ~run.verified
Claimable == run.tools > 0 /\ run.wrote /\ ~run.tested
MustContinue ==
    /\ run.noTool = 0 /\ session.chain /\ run.continued < MaxContinued
    /\ run.tools > 0 \/ session.nonInteractive

TextTurn == [run EXCEPT !.noTool = 1,
                        !.verified = @ \/ Unverified]

\* The second answer in a row without a tool.
StallsOnText ==
    /\ at = "request" /\ CountsAsStall
    /\ Again(AddAll(messages, <<Text, UserSide>>), [run EXCEPT !.noTool = 0])
    /\ UNCHANGED calls

\* The project does not build: once in a run the model is sent back.
GateFails ==
    /\ at = "request" /\ ~CountsAsStall /\ Unverified
    /\ Again(AddAll(messages, <<Text, UserSide>>), TextTurn)
    /\ UNCHANGED calls

\* The model says it is done, and no test has passed.
ClaimRefused ==
    /\ at = "request" /\ ~CountsAsStall /\ Claimable /\ run.idle < MaxIdle
    /\ Again(AddAll(messages, <<Text, UserSide>>), [TextTurn EXCEPT !.idle = @ + 1])
    /\ UNCHANGED calls

\* As AskToContinue, without a word to the model.
ContinueSilently ==
    /\ at = "request" /\ ~CountsAsStall /\ ~run.tested /\ MustContinue
    /\ Again(Add(messages, Text), [TextTurn EXCEPT !.continued = @ + 1])
    /\ UNCHANGED calls

\* A text in the middle of the work is given another chance, a few times.
AskToContinue ==
    /\ at = "request" /\ ~CountsAsStall /\ ~run.tested /\ MustContinue
    /\ Again(AddAll(messages, <<Text, UserSide>>), [TextTurn EXCEPT !.continued = @ + 1])
    /\ UNCHANGED calls

\* The text is the result: the tests passed, the model says it is done and
\* nothing is left to verify, or no chance is left.
TextReturned ==
    /\ at = "request" /\ ~CountsAsStall
    /\ \/ run.tested
       \/ ~Claimable             \* a completion signal
       \/ ~MustContinue             \* no completion signal
    /\ ReturnWith(Add(messages, Text), TextTurn)

(* --------------------------------- tools ------------------------------- *)

\* As CallTools, without the cap on the turns.
CallToolsUncapped ==
    /\ at = "request"
    /\ \E n \in 1..CallsPerTurn :
           /\ messages' = Add(messages, Calls(n))
           /\ run' = [run EXCEPT !.recalls = 0, !.noTool = 0, !.tools = Min({@ + n, Sustained + 1})]
           /\ calls' = n /\ at' = "tools"
    /\ UNCHANGED session

\* An answer with calls.  The cap on the turns is looked at here only, after
\* the answer was added and before its calls are executed.
CallTools ==
    /\ at = "request"
    /\ \E n \in 1..CallsPerTurn :
           LET r == [run EXCEPT !.recalls = 0, !.noTool = 0,
                                !.continued = IF run.tools > Sustained THEN 0 ELSE @,
                                !.tools = Min({@ + n, Sustained + 1})]
           IN  IF run.turn > TurnCap
               THEN ReturnWith(Add(messages, [Calls(n) EXCEPT !.unanswered = n]), r)
               ELSE /\ messages' = Add(messages, Calls(n))
                    /\ run' = r
                    /\ calls' = n /\ at' = "tools"
                    /\ UNCHANGED session

\* The user says no: the loop goes on to the next call, and the text that
\* says so is dropped.
Deny ==
    /\ at = "tools" /\ calls > 0 /\ ~session.nonInteractive
    /\ calls' = calls - 1
    /\ messages' = LeftOpen(messages)
    /\ UNCHANGED <<at, run, session>>

\* As ReadAgain, without the notice.
ReadAgainSilently ==
    /\ at = "tools" /\ calls > 0
    /\ calls' = calls - 1
    /\ UNCHANGED <<messages, at, run, session>>

\* A file that was read before: a notice in the place of its content.
ReadAgain ==
    /\ at = "tools" /\ calls > 0
    /\ messages' = Add(messages, Tool)
    /\ calls' = calls - 1
    /\ UNCHANGED <<at, run, session>>

\* A call is executed.  A second rejection is announced before the result;
\* after it come a warning on an output seen three times, an order to move
\* on at ResetAt warnings, and up to two more: a nag on turns without a
\* modified file, and the report of a build that got worse.
Execute ==
    /\ at = "tools" /\ calls > 0
    /\ \E rejected, same, wrote, tested \in BOOLEAN, said \in 0..2 :
           LET warned == run.warnings + (IF same THEN 1 ELSE 0)
               Said(n) == [k \in 1..n |-> UserSide]
               before  == IF rejected THEN 1 ELSE 0
               after   == said + (IF same THEN 1 ELSE 0) + (IF warned >= ResetAt THEN 1 ELSE 0)
           IN  /\ messages' = AddAll(messages, Said(before) \o <<Tool>> \o Said(after))
               /\ run' = [run EXCEPT !.wrote = @ \/ wrote, !.tested = tested,
                                     !.warnings = IF warned >= ResetAt THEN 0 ELSE warned]
    /\ calls' = calls - 1
    /\ UNCHANGED <<at, session>>

\* All calls are executed: the session is saved, and a conversation that
\* fills the context is compacted, unless none of the old could be stored.
ToolsDone ==
    /\ at = "tools" /\ calls = 0
    /\ \/ messages' = messages
       \/ Len(messages) > CompactOver /\ messages' = Compacted(messages)
    /\ at' = "repeats"
    /\ UNCHANGED <<calls, run, session>>

(* ------------------------------ repetition ----------------------------- *)

NotRepeating ==
    /\ at = "repeats"
    /\ \E w \in {0, run.warnings} : Again(messages, [run EXCEPT !.warnings = w])
    /\ UNCHANGED calls

\* Three, four and six times the same call: a word, a higher level, the end.
Repeating(often) ==
    LET warned == run.warnings + 1
        stops  == warned >= StopAt \/ often = 6
        climbs == ~stops /\ (warned >= WarnAt \/ often = 4)
    IN  /\ at = "repeats"
        /\ \/ stops /\ ReturnWith(messages, [run EXCEPT !.warnings = 0])
           \/ /\ ~stops                     \* and, if it climbs, there is a level left
              /\ climbs => session.chain
              /\ Again(Add(messages, UserSide), [run EXCEPT !.warnings = warned])
              /\ UNCHANGED calls
           \/ /\ climbs                     \* and the chain is exhausted
              /\ LET r == [run EXCEPT !.warnings = warned, !.redirects = Min({@ + 1, MaxRedirects})]
                 IN  IF r.redirects >= MaxRedirects THEN ReturnWith(messages, r)
                     ELSE Again(Add(messages, UserSide), r) /\ UNCHANGED calls
    
(* ------------------------------- sessions ------------------------------ *)

\* The user clears the conversation.
Clear ==
    /\ at = "idle" /\ messages # <<>>
    /\ messages' = <<>>
    /\ UNCHANGED <<at, calls, run, session>>

\* The process ends, and the session is resumed (RestoreAgent) from what
\* SaveState last wrote: after the calls of an answer or between two runs.
\* A process that ends later than this is resumed at the same place.
ResumeSession ==
    /\ at = "idle" \/ (at = "tools" /\ calls = 0)
    /\ messages' = AddAll(<<>>, messages)
    /\ run' = NewAgent
    /\ at' = "idle"
    /\ UNCHANGED <<calls, session>>

(* ------------------------------ behaviour ------------------------------ *)

LoopWork ==
    \/ Ask \/ CallFails \/ CallAgain \/ Overflow
    \/ NothingAnswered \/ Corrected \/ StallsOnText \/ GateFails \/ ClaimRefused \/ AskToContinue \/ TextReturned
    \/ CallTools \/ Deny \/ ReadAgain \/ Execute \/ ToolsDone
    \/ NotRepeating \/ \E often \in {3, 4, 6} : Repeating(often)

LoopNext == LoopWork \/ Asked \/ Clear \/ ResumeSession

LoopSpec == LoopInit /\ [][LoopNext]_directVars /\ WF_directVars(LoopWork)

(* ------------------------------ properties ----------------------------- *)

\* The results that follow answer i and come before the next answer.
ResultsOf(ms, i) ==
    {j \in DOMAIN ms : /\ j > i /\ ms[j].role = "tool"
                       /\ \A k \in DOMAIN ms : k > i /\ IsAnswer(ms[k]) => j < k}

\* Between two requests every answer in the conversation is followed, before
\* the next one, by as many results as it has calls, but for those calls of
\* its own that the user denied or the turn cap cut off: through trims,
\* compactions, overflows and a resumed session, and whatever was denied
\* before.  A text is followed by none, so that a result whose call is gone
\* stands in front of every answer that is left.
CallsAnswered ==
    at \in {"idle", "turn", "request"} =>
        \A i \in DOMAIN messages : IsAnswer(messages[i]) =>
            Cardinality(ResultsOf(messages, i)) + messages[i].unanswered = messages[i].calls

\* No request ends on an answer of the model's own, whichever way the loop
\* went around ("Required for Claude (Vertex) which rejects assistant-message
\* prefill"), but for one whose calls the user denied, every one.
RequestsEndOnUser ==
    at = "request" =>
        \/ messages = <<>> \/ ~IsAnswer(Last(messages))
        \/ Last(messages).calls > 0 /\ Last(messages).unanswered = Last(messages).calls

\* Requests keep calls and results together and end on the user's side.  They
\* are not always what a provider takes: compaction, a trim in the middle of
\* an answer's results and one that drops everything leave results in front
\* whose calls are gone, though trim says that the two are never separated.
RequestsWellFormed == CallsAnswered /\ RequestsEndOnUser

\* Every run returns, whatever the model answers and the tools do, as long
\* as it is empty or claims completion finitely often.
RunsEnd == (at # "idle") ~> (at = "idle")

=============================================================================
