------------------------------- MODULE Terminal -------------------------------
(***************************************************************************)
(* internal/agent/coderepl.go and repl.go: the loops of `synroute code` and *)
(* `synroute chat`, which read a line, run it and read the next one.  The   *)
(* code loop holds the terminal in raw mode while it reads; a goroutine     *)
(* takes the interrupts of the process beside it.                           *)
(*                                                                          *)
(* A line is the number of its characters, and what it asks for is found    *)
(* when it is given.  What a request does to the agent is a new pipeline    *)
(* and phase; the agent itself is in modules DirectLoop and Pipeline.       *)
(***************************************************************************)
EXTENDS Integers, FiniteSets

CONSTANTS
    Loops,              \* "code" or "chat", and whether it has a terminal
    AgentPipelines,          \* what the agent's pipeline may be: names of its phases
    CommandPhases,      \* of /plan, /review, /check and /fix
    DefaultPhases,      \* DefaultPipeline, for an agent without pipeline
    MaxPhase,           \* last index of a phase
    TopLevel,           \* last level of the escalation chain
    MaxLine,            \* bound: characters of a line
    MaxSignals,         \* bound: interrupts of the process
    MaxGiven            \* bound: lines

VARIABLES
    loop,               \* kind, at, line; isTerminal; lines given, after "bye"
    tty,                \* raw, and what restoreTerminal makes of it
    reqs,               \* begun, agentRunning, cancelled
    sigs,               \* sent, in sigCh, the goroutine; the presses; exitCh
    position            \* of the agent: pipeline, phase, level; RunPhase's copy

terminalVars == <<loop, tty, reqs, sigs, position>>

LoopAt(at) == loop.at = at
Code == loop.kind = "code"

(* ------------------------------ the terminal --------------------------- *)

\* term.MakeRaw remembers the state it finds, or fails.
\* Mutant: it remembers that the terminal was raw.
RawOnce(t) == [raw |-> TRUE, restore |-> "raw"]
Raw(t) == [raw |-> TRUE, restore |-> IF t.raw THEN "raw" ELSE "cooked"]
MayBeRaw == {tty} \cup (IF loop.isTerminal THEN {Raw(tty)} ELSE {})
Cooked == [raw |-> FALSE, restore |-> "none"]
MakeRawAtFirst(l) == {Cooked} \cup (IF l.terminal THEN {Raw(Cooked)} ELSE {})
Restored(t) == IF t.restore = "none" THEN t ELSE [t EXCEPT !.raw = t.restore = "raw"]

\* Run returns with what the first MakeRaw has found.
Ended(l) == [l EXCEPT !.at = "ended"]
LeaveLoop ==
    /\ loop' = Ended(loop)
    /\ tty' = [tty EXCEPT !.raw = FALSE]

(* ------------------------------- reading ------------------------------- *)

\* What comes before each read.
\* Mutant: nobody looks whether to leave.
ReadOn ==
    /\ LoopAt("top")
    /\ loop' = [loop EXCEPT !.at = "reads"]
    /\ UNCHANGED <<tty, reqs, sigs, position>>
LookAtLine ==
    /\ LoopAt("top")
    /\ IF sigs.exit THEN LeaveLoop ELSE loop' = [loop EXCEPT !.at = "reads"] /\ UNCHANGED tty
    /\ UNCHANGED <<reqs, sigs, position>>

Reads == LoopAt("reads")
Typed(n) == loop' = [loop EXCEPT !.line = n, !.at = "top"]
NothingElse == UNCHANGED <<tty, reqs, sigs, position>>

\* The line so far, character by character.
Type == Typed(loop.line + 1) /\ loop.line < MaxLine /\ NothingElse
Erase == Typed(IF loop.line > 0 THEN loop.line - 1 ELSE 0) /\ NothingElse
ClearLine == Typed(0) /\ NothingElse
ShowSomething == Typed(loop.line) /\ NothingElse

\* Escape takes the bytes that come with the next read, whatever they are.
Escape == loop' = [loop EXCEPT !.at = "escapes"] /\ NothingElse
EscapeEnds == LoopAt("escapes") /\ Typed(loop.line) /\ NothingElse

\* A line that is blank is not given.
Enter ==
    /\ \/ Typed(0)
       \/ loop.line > 0 /\ loop.given < MaxGiven
          /\ loop' = [loop EXCEPT !.line = 0, !.at = "given", !.given = @ + 1]
    /\ NothingElse
EndOfFile == LeaveLoop /\ UNCHANGED <<reqs, sigs, position>>
ControlD == IF loop.line = 0 THEN EndOfFile ELSE ShowSomething

Presses(count, recent) == IF recent THEN count + 1 ELSE 1
Pressed == [sigs EXCEPT !.count = Presses(@, sigs.recent), !.recent = TRUE]
\* In raw mode Ctrl-C is a byte: it clears the line, or is counted.
ControlC ==
    /\ tty.raw
    /\ IF loop.line > 0 THEN Typed(0) /\ UNCHANGED <<tty, sigs>>
       ELSE /\ sigs' = Pressed
            /\ IF Pressed.count >= 2 THEN LeaveLoop ELSE Typed(0) /\ UNCHANGED tty
    /\ UNCHANGED <<reqs, position>>

ForceEscalate ==
    /\ position' = [position EXCEPT !.level = IF @ < TopLevel THEN @ + 1 ELSE @]
    /\ Typed(loop.line) /\ UNCHANGED <<tty, reqs, sigs>>

\* Byte by byte, but only where Run has found a terminal.
Key ==
    /\ Reads /\ loop.isTerminal
    /\ \/ Type \/ Erase \/ ClearLine \/ ShowSomething \/ Escape
       \/ Enter \/ ControlD \/ ControlC \/ ForceEscalate \/ EndOfFile

\* A piece of the input, or a line of it in a chat.
ReadPiece ==
    /\ Reads /\ ~loop.isTerminal
    /\ \/ EndOfFile
       \/ Typed(0) /\ NothingElse
       \/ loop.given < MaxGiven /\ loop' = [loop EXCEPT !.at = "given", !.given = @ + 1] /\ NothingElse

(* ------------------------------- running ------------------------------- *)

\* What a line may be makes for what comes next; the terminal is cooked.
RunsLine(at) ==
    /\ LoopAt("given")
    /\ tty' = Restored(tty)
    /\ loop' = [loop EXCEPT !.at = at, !.late = IF sigs.exit THEN @ + 1 ELSE @]

Where(p) == [pipeline |-> p.pipeline, phase |-> p.phase]

\* newReqCtx: what it cancels first is over.
BeginRequest ==
    /\ RunsLine("works")
    /\ reqs' = [reqs EXCEPT !.begun = @ + 1, !.running = TRUE]
    /\ sigs' = [sigs EXCEPT !.count = 0]
    /\ UNCHANGED position

\* RunPhase: a pipeline of this phase alone, out of the agent's own; an agent
\* without one is only asked whether the default pipeline has the phase.
PhasesOf(pipeline) == IF pipeline = {} THEN DefaultPhases ELSE pipeline
BeginPhase ==
    /\ RunsLine("phase")
    /\ \E phase \in CommandPhases \cap PhasesOf(position.pipeline) :
         position' = [position EXCEPT !.saved = Where(position), !.asked = phase,
                                      !.pipeline = IF phase \in @ THEN {phase} ELSE @,
                                      !.phase = IF phase \in position.pipeline THEN 0 ELSE @]
    /\ UNCHANGED <<reqs, sigs>>
ResearchCommand == RunsLine("research") /\ UNCHANGED <<reqs, sigs, position>>

\* /clear, /model and those that show or save something at once; a phase that
\* the pipeline does not have.
RunCommand == RunsLine("done") /\ UNCHANGED <<reqs, sigs, position>>
ExitCommand == LoopAt("given") /\ LeaveLoop /\ UNCHANGED <<reqs, sigs, position>>

Give == BeginRequest \/ BeginPhase \/ ResearchCommand \/ RunCommand \/ ExitCommand

\* Agent.Run goes on with the pipeline it has, or begins one.
AgentWorks ==
    /\ LoopAt("works") \/ LoopAt("phase")
    /\ \E pipeline \in (IF position.pipeline = {} THEN AgentPipelines ELSE {position.pipeline}), phase \in 0..MaxPhase :
         position' = [position EXCEPT !.pipeline = pipeline, !.phase = phase]
    /\ UNCHANGED <<loop, tty, reqs, sigs>>

\* Run or a command has returned, with an answer or an error.
\* Mutant: only the pipeline is put back.
PutPipelineBack(p) == [p EXCEPT !.pipeline = p.saved.pipeline]
PutBack(p) == [p EXCEPT !.pipeline = p.saved.pipeline, !.phase = p.saved.phase]
AgentReturns ==
    /\ loop.at \in {"works", "phase", "research"}
    /\ loop' = [loop EXCEPT !.at = "done"]
    /\ position' = IF LoopAt("phase") THEN PutBack(position) ELSE position
    /\ UNCHANGED <<tty, reqs, sigs>>

\* markDone, and raw mode again if it can be had.
GoOn ==
    /\ LoopAt("done")
    /\ loop' = [loop EXCEPT !.at = "top"]
    /\ tty' \in MayBeRaw
    /\ reqs' = [reqs EXCEPT !.running = FALSE]
    /\ position' = [position EXCEPT !.asked = "none"]
    /\ UNCHANGED sigs

(* ------------------------------ interrupts ----------------------------- *)

\* Ctrl-C of a cooked terminal, or a signal from elsewhere; one is kept.
Interrupt ==
    /\ ~LoopAt("ended") /\ sigs.sent < MaxSignals
    /\ sigs' = [sigs EXCEPT !.sent = @ + 1, !.pending = TRUE]
    /\ UNCHANGED <<loop, tty, reqs, position>>
\* Two seconds since the last press.
TimePasses ==
    /\ sigs.recent
    /\ sigs' = [sigs EXCEPT !.recent = FALSE]
    /\ UNCHANGED <<loop, tty, reqs, position>>

HandlerIs(at) == sigs.handler = at
HandlerTakes ==
    /\ HandlerIs("waits") /\ sigs.pending
    /\ sigs' = [sigs EXCEPT !.pending = FALSE, !.handler = IF reqs.running \/ ~Code THEN "cancels" ELSE "counts"]
    /\ UNCHANGED <<loop, tty, reqs, position>>

\* Whichever request is the last one by now.
HandlerCancels ==
    /\ HandlerIs("cancels")
    /\ sigs' = [sigs EXCEPT !.handler = "waits"]
    /\ reqs' = [reqs EXCEPT !.cancelled = IF LoopAt("works") THEN @ \cup {reqs.begun} ELSE @]
    /\ UNCHANGED <<loop, tty, position>>

\* The presses are counted without the lock, here and where the line is read.
HandlerReads ==
    /\ HandlerIs("counts")
    /\ sigs' = [sigs EXCEPT !.handler = "writes", !.next = Presses(sigs.count, sigs.recent)]
    /\ UNCHANGED <<loop, tty, reqs, position>>
HandlerWrites ==
    /\ HandlerIs("writes")
    /\ sigs' = [sigs EXCEPT !.count = sigs.next, !.recent = TRUE, !.exit = sigs.next >= 2,
                            !.handler = IF sigs.next >= 2 THEN "gone" ELSE "waits"]
    /\ UNCHANGED <<loop, tty, reqs, position>>
Handles == HandlerTakes \/ HandlerCancels \/ HandlerReads \/ HandlerWrites

TerminalInit ==
    /\ \E l \in Loops : \E t \in MakeRawAtFirst(l) :
         /\ tty = t
         /\ loop = [kind |-> l.kind, at |-> "top", line |-> 0, isTerminal |-> t.raw, given |-> 0, late |-> 0]
    /\ reqs = [begun |-> 0, running |-> FALSE, cancelled |-> {}]
    /\ sigs = [sent |-> 0, pending |-> FALSE, handler |-> "waits", next |-> 0, count |-> 0, recent |-> FALSE, exit |-> FALSE]
    /\ position = [pipeline |-> {}, phase |-> 0, level |-> 0, asked |-> "none", saved |-> [pipeline |-> {}, phase |-> 0]]

Proceeds == LookAtLine \/ EscapeEnds \/ Give \/ AgentReturns \/ GoOn
TerminalNext == Proceeds \/ Key \/ ReadPiece \/ AgentWorks \/ Handles \/ Interrupt \/ TimePasses

\* Goroutines go on, an agent comes to an end.
TerminalSpec ==
    /\ TerminalInit /\ [][TerminalNext]_terminalVars
    /\ WF_terminalVars(Proceeds) /\ WF_terminalVars(Handles)

(* ------------------------------ properties ----------------------------- *)

\* The terminal is cooked while an agent or a command has it, and when the
\* loop has ended; no more requests are stopped than there were interrupts;
\* after "bye" one line at most is run, the one that was being read; and a
\* command for one phase leaves the pipeline where it was (coderepl.go:68-280, agent.go:738-767).
TerminalHolds ==
    /\ loop.at \in {"works", "phase", "research", "done", "ended"} => ~tty.raw
    /\ Cardinality(reqs.cancelled) + (IF sigs.pending THEN 1 ELSE 0) <= sigs.sent
    /\ loop.late <= 1
    /\ LoopAt("done") /\ position.asked # "none" => Where(position) = position.saved
=============================================================================
