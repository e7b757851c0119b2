------------------------------ MODULE TaskEvents ------------------------------
(***************************************************************************)
(* internal/orchestration/manager.go: the event stream of one task.        *)
(* Each run of the task publishes numbered events to the channels that     *)
(* clients registered with SubscribeTask.  publish copies the list of      *)
(* channels under the mutex and sends after it has released it; a run that *)
(* completes closes every registered channel, and a client that goes away  *)
(* closes its own.  A send on a closed channel panics, and nothing         *)
(* recovers a runner's panic: the process dies.                            *)
(***************************************************************************)
EXTENDS Naturals, Sequences, FiniteSets, SequencesExt

CONSTANTS
    Runs,               \* runs of the task, each started once
    Clients,            \* callers of SubscribeTask, each once
    Cap,                \* the capacity of a channel: 32
    Final               \* the events of a run that completes are 1..Final

ASSUME EventsAssumption == Cap \in Nat \ {0} /\ Final \in Nat /\ Final > 2

VARIABLES
    listeners,          \* m.listeners[taskID]
    channel,            \* the channels, by client: buffered events, and whether closed
    client,             \* the SSE handlers
    run,                \* the runs: goroutine-local state
    panicked,           \* the process has died
    seen,               \* history: the events each client was sent
    since,              \* history: the runs that started while the client was registered
    missed,             \* history: clients with a dropped event
    ender               \* history: the runs that closed the client's channel

eventVars == <<listeners, channel, client, run, panicked, seen, since, missed, ender>>
history == <<seen, since, missed, ender>>

ErrorEvent == Final + 1       \* autopilot_error
Event == [run : Runs, n : 1..ErrorEvent]
Channel == [buffer : Seq(Event), closed : BOOLEAN]
RunState == [pc : {"idle", "ready", "send", "finish", "over"}, next : 1..ErrorEvent, targets : SUBSET Clients]

EventsInit ==
    /\ listeners = {}
    /\ channel = [c \in Clients |-> [buffer |-> <<>>, closed |-> FALSE]]
    /\ client = [c \in Clients |-> "absent"]
    /\ run = [r \in Runs |-> [pc |-> "idle", next |-> 1, targets |-> {}]]
    /\ panicked = FALSE
    /\ seen = [c \in Clients |-> <<>>]
    /\ since = [c \in Clients |-> {}]
    /\ missed = {}
    /\ ender = [c \in Clients |-> {}]

(* ------------------------------- the clients --------------------------- *)

Subscribe(c) ==
    /\ ~panicked
    /\ client[c] = "absent"
    /\ client' = [client EXCEPT ![c] = "reading"]
    /\ listeners' = listeners \cup {c}
    /\ UNCHANGED <<channel, run, panicked, history>>

\* The handler forwards an event to the client.
Receive(c) ==
    /\ ~panicked
    /\ client[c] = "reading"
    /\ channel[c].buffer # <<>>
    /\ seen' = [seen EXCEPT ![c] = Append(@, Head(channel[c].buffer))]
    /\ channel' = [channel EXCEPT ![c].buffer = Tail(@)]
    /\ UNCHANGED <<listeners, client, run, panicked, since, missed, ender>>

\* mutant: the channel stays registered.
CancelRegistered(c) ==
    /\ channel' = [channel EXCEPT ![c].closed = TRUE]
    /\ panicked' = FALSE
    /\ UNCHANGED listeners

\* The deferred cancel: it takes the channel off the list and closes it, if
\* it is still there.  Closing a channel twice panics.
Cancel(c) ==
    /\ channel' = IF c \in listeners THEN [channel EXCEPT ![c].closed = TRUE] ELSE channel
    /\ panicked' = (c \in listeners /\ channel[c].closed)
    /\ listeners' = listeners \ {c}

\* The channel is closed and empty: "data: [DONE]".
ReceiveDone(c) ==
    /\ ~panicked
    /\ client[c] = "reading"
    /\ channel[c].buffer = <<>> /\ channel[c].closed
    /\ client' = [client EXCEPT ![c] = "done"]
    /\ Cancel(c)
    /\ UNCHANGED <<run, history>>

\* The client disconnects.
Leave(c) ==
    /\ ~panicked
    /\ client[c] = "reading"
    /\ client' = [client EXCEPT ![c] = "left"]
    /\ Cancel(c)
    /\ UNCHANGED <<run, history>>

(* -------------------------------- the runs ------------------------------ *)

StartRun(r) ==
    /\ ~panicked
    /\ run[r].pc = "idle"
    /\ run' = [run EXCEPT ![r].pc = "ready"]
    /\ since' = [c \in Clients |-> IF c \in listeners THEN since[c] \cup {r} ELSE since[c]]
    /\ UNCHANGED <<listeners, channel, client, panicked, seen, missed, ender>>

\* The part of publish that holds the mutex.
Publish(r) ==
    /\ ~panicked
    /\ run[r].pc = "ready"
    /\ run' = [run EXCEPT ![r] = [run[r] EXCEPT !.pc = "send", !.targets = listeners]]
    /\ UNCHANGED <<listeners, channel, client, panicked, history>>

\* The send of publish to one channel, in any order: dropped when the
\* buffer is full, a panic when the channel is closed.
Send(r, c) ==
    /\ ~panicked
    /\ run[r].pc = "send"
    /\ c \in run[r].targets
    /\ run' = [run EXCEPT ![r].targets = @ \ {c}]
    /\ LET full == Len(channel[c].buffer) = Cap IN
       /\ panicked' = channel[c].closed
       /\ channel' = IF channel[c].closed \/ full THEN channel
                     ELSE [channel EXCEPT ![c].buffer = Append(@, [run |-> r, n |-> run[r].next])]
       /\ missed' = IF full THEN missed \cup {c} ELSE missed
    /\ UNCHANGED <<listeners, client, seen, since, ender>>

\* mutant: the channels are closed before the last event.
SentEarly(r) ==
    /\ ~panicked
    /\ run[r].pc = "send" /\ run[r].targets = {}
    /\ run' = [run EXCEPT ![r] = [run[r] EXCEPT !.pc = IF run[r].next = Final - 1 THEN "finish"
                                                       ELSE IF run[r].next >= Final THEN "over" ELSE "ready",
                                                !.next = IF @ < Final THEN @ + 1 ELSE @]]
    /\ UNCHANGED <<listeners, channel, client, panicked, history>>

\* publish returns.
Sent(r) ==
    /\ ~panicked
    /\ run[r].pc = "send" /\ run[r].targets = {}
    /\ run' = [run EXCEPT ![r] = [run[r] EXCEPT !.pc = CASE run[r].next < Final -> "ready"
                                                         [] run[r].next = Final -> "finish"
                                                         [] OTHER -> "over",
                                                !.next = IF @ < Final THEN @ + 1 ELSE @]]
    /\ UNCHANGED <<listeners, channel, client, panicked, history>>

\* A step failed: the run publishes the error and returns.  The channels
\* stay registered and open.
FailRun(r) ==
    /\ ~panicked
    /\ run[r].pc = "ready" /\ run[r].next \in 2..(Final - 1)
    /\ run' = [run EXCEPT ![r].next = ErrorEvent]
    /\ UNCHANGED <<listeners, channel, client, panicked, history>>

\* mutant: the list is deleted and its channels are left open.
FinishWithoutClose(r) ==
    /\ ~panicked
    /\ run[r].pc = "finish"
    /\ listeners' = {}
    /\ run' = [run EXCEPT ![r].pc = "over"]
    /\ UNCHANGED <<channel, client, panicked, history>>

\* finishTaskListeners
Finish(r) ==
    /\ ~panicked
    /\ run[r].pc = "finish"
    /\ channel' = [c \in Clients |-> IF c \in listeners THEN [channel[c] EXCEPT !.closed = TRUE]
                                     ELSE channel[c]]
    /\ ender' = [c \in Clients |-> IF c \in listeners THEN ender[c] \cup {r} ELSE ender[c]]
    /\ listeners' = {}
    /\ run' = [run EXCEPT ![r].pc = "over"]
    /\ panicked' = (\E c \in listeners : channel[c].closed)
    /\ UNCHANGED <<client, seen, since, missed>>

Runner(r) == Publish(r) \/ (\E c \in Clients : Send(r, c)) \/ Sent(r) \/ FailRun(r) \/ Finish(r)
Handler(c) == Receive(c) \/ ReceiveDone(c)

EventsNext ==
    \/ \E c \in Clients : Subscribe(c) \/ Handler(c) \/ Leave(c)
    \/ \E r \in Runs : StartRun(r) \/ Runner(r)

\* Runs go on, and a handler forwards what it receives; clients need not go
\* away.
EventsFairness ==
    /\ \A r \in Runs : WF_eventVars(Runner(r))
    /\ \A c \in Clients : WF_eventVars(Handler(c))

EventsSpec == EventsInit /\ [][EventsNext]_eventVars /\ EventsFairness

(* ------------------------------- properties ---------------------------- *)

\* The variables keep their types; a buffer never exceeds its capacity.
EventsTypeOK ==
    /\ listeners \in SUBSET Clients
    /\ channel \in [Clients -> Channel]
    /\ \A c \in Clients : Len(channel[c].buffer) <= Cap
    /\ client \in [Clients -> {"absent", "reading", "done", "left"}]
    /\ run \in [Runs -> RunState]
    /\ panicked \in BOOLEAN
    /\ seen \in [Clients -> Seq(Event)]
    /\ since \in [Clients -> SUBSET Runs]
    /\ missed \in SUBSET Clients
    /\ ender \in [Clients -> SUBSET Runs]

\* No channel is closed twice, by its client and by a run that ends: a
\* registered channel is open.
RegisteredOpen == \A c \in listeners : ~channel[c].closed

\* A stream that ended, and that lost nothing to a full buffer, carried
\* every event of the run that ended it, if it was there when that run
\* started.
EndedIsWhole ==
    \A c \in Clients : client[c] = "done" /\ c \notin missed =>
        \A r \in ender[c] \cap since[c] : \A n \in 1..Final : [run |-> r, n |-> n] \in ToSet(seen[c])

\* Every client that is registered when a run completes gets the end of its
\* stream, goes away, or sees the process die.
StreamsEnd ==
    \A r \in Runs, c \in Clients :
        (run[r].pc = "finish" /\ c \in listeners)
            ~> (client[c] \in {"done", "left"} \/ panicked)

\* What the code's comment says of a run: it is fire and forget.  No client
\* stops it, by going away or by watching another run of the task.
ClientsCannotStopRuns == ~panicked
=============================================================================
