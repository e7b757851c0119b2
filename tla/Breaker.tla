------------------------------- MODULE Breaker -------------------------------
(***************************************************************************)
(* internal/router/circuit.go: the circuit breaker of ONE provider.  Its   *)
(* state is a row of the table circuit_breaker_state, shared by every      *)
(* goroutine that routes a request and by the start-up code.  Nothing but  *)
(* SQLite serialises them: each SQL statement is one atomic step here, and *)
(* a method that issues two statements is two steps.                       *)
(***************************************************************************)
EXTENDS CircuitRow

CONSTANTS
    Requesters,         \* goroutines that send requests to the provider
    ClockSkew           \* UTC minus local time at start-up, in ticks

ASSUME BreakerAssumption == ClockSkew \in Int

VARIABLES
    circuit,            \* the provider's row of circuit_breaker_state
    pc,                 \* where each caller is
    cool                \* history: ticks left of the cooldown last imposed

breakerVars == <<circuit, pc, cool>>

\* A missing row reads as a closed one: GetState on sql.ErrNoRows, and the
\* INSERT OR IGNORE before every UPDATE.
BreakerInit ==
    /\ circuit = ClosedRow
    /\ pc = [c \in Requesters |-> "idle"]
    /\ cool = 0

(* ------------------------------ the statements ------------------------- *)

RecordFailure ==
    /\ circuit' = WithFailure(circuit)
    /\ cool' = IF circuit.failures + 1 >= Threshold THEN Cooldown ELSE cool

\* RecordSuccess and Reset write the same row.
RecordSuccess == circuit' = ClosedRow /\ cool' = 0

Open(duration) == circuit' = Opened(circuit, duration) /\ cool' = duration

SetHalfOpen == circuit' = HalfOpened(circuit) /\ UNCHANGED cool

(* ------------------------------ the callers ---------------------------- *)

\* GetState, the SELECT: an open circuit whose open_until is past is about
\* to be moved to half_open by this caller; any other open circuit turns
\* the caller away; else the request goes to the provider.
Admit(c) ==
    /\ pc[c] = "idle"
    /\ circuit.state # "open"
    /\ pc' = [pc EXCEPT ![c] = IF circuit.state = "half_open" THEN "probing" ELSE "calling"]
    /\ UNCHANGED <<circuit, cool>>

\* mutant: any open circuit is moved to half_open.
ReadOpen(c) ==
    /\ pc[c] = "idle"
    /\ circuit.state = "open"
    /\ pc' = [pc EXCEPT ![c] = "expired"]
    /\ UNCHANGED <<circuit, cool>>

ReadExpired(c) ==
    /\ pc[c] = "idle"
    /\ Expired(circuit)
    /\ pc' = [pc EXCEPT ![c] = "expired"]
    /\ UNCHANGED <<circuit, cool>>

\* GetState, the UPDATE.  The reader goes on to send its request, or was
\* only a status page or a candidate that is not tried in the end.
WriteHalfOpen(c) ==
    /\ pc[c] = "expired"
    /\ SetHalfOpen
    /\ \E next \in {"probing", "idle"} : pc' = [pc EXCEPT ![c] = next]

Calling(c) == pc[c] \in {"calling", "probing"}

Succeed(c) ==
    /\ Calling(c)
    /\ RecordSuccess
    /\ pc' = [pc EXCEPT ![c] = "idle"]

Fail(c) ==
    /\ Calling(c)
    /\ RecordFailure
    /\ pc' = [pc EXCEPT ![c] = "idle"]

\* A failure whose text says "rate limit", "429", ...: RecordFailure first,
\* then Open in a second statement.
FailRateLimited(c) ==
    /\ Calling(c)
    /\ RecordFailure
    /\ pc' = [pc EXCEPT ![c] = "tripping"]

TripRateLimited(c) ==
    /\ pc[c] = "tripping"
    /\ Open(RateLimitCooldown)
    /\ pc' = [pc EXCEPT ![c] = "idle"]

\* No call was made (context limit, limiter, queue) or its end is not
\* recorded: a ProviderError 429, or the fallback of the streaming path.
Unrecorded(c) ==
    /\ Calling(c)
    /\ pc' = [pc EXCEPT ![c] = "idle"]
    /\ UNCHANGED <<circuit, cool>>

(* ----------------------- operator, restart and time -------------------- *)

\* POST /v1/circuit-breakers/reset.
Reset ==
    /\ RecordSuccess
    /\ UNCHANGED pc

\* The process dies with its callers and NewRouter runs.  Its UPDATE
\* compares open_until, which the driver stored as local wall-clock text,
\* with datetime('now'), which is UTC; it leaves open_until as it was.
Restart ==
    /\ pc' = [c \in Requesters |-> "idle"]
    /\ circuit' = IF circuit.state = "open" /\ circuit.deadline # NoDeadline /\ circuit.deadline <= ClockSkew
              THEN [circuit EXCEPT !.state = "closed", !.failures = 0]
              ELSE circuit
    /\ UNCHANGED cool

TimePasses ==
    /\ circuit.deadline > 0 \/ cool > 0
    /\ circuit' = Later(circuit)
    /\ cool' = Down(cool)
    /\ UNCHANGED pc

Step(c) ==
    \/ Admit(c) \/ ReadExpired(c) \/ WriteHalfOpen(c)
    \/ Succeed(c) \/ Fail(c) \/ FailRateLimited(c) \/ TripRateLimited(c)
    \/ Unrecorded(c)

BreakerNext == (\E c \in Requesters : Step(c)) \/ Reset \/ Restart \/ TimePasses

\* Requests keep arriving, every call ends (the providers' HTTP clients have
\* timeouts) and time passes.  Nothing is assumed of Reset and Restart.
BreakerFairness ==
    /\ WF_breakerVars(TimePasses)
    /\ \A c \in Requesters : WF_breakerVars(Step(c))

BreakerSpec == BreakerInit /\ [][BreakerNext]_breakerVars /\ BreakerFairness

(* ------------------------------ properties ----------------------------- *)

\* The variables keep their types.
BreakerTypeOK ==
    /\ circuit \in Row
    /\ pc \in [Requesters -> {"idle", "calling", "probing", "expired", "tripping"}]
    /\ cool \in Nat

\* A closed circuit has a failure count under the threshold, whatever the
\* order in which racing successes, failures, stale half-open writes and
\* start-ups reach the row: the provider that has used up its failures is
\* never let through as healthy.
ClosedBelowThreshold == circuit.state = "closed" => circuit.failures < Threshold

\* An open circuit carries the time at which it ends.  GetState leaves the
\* open state only through a valid open_until (circuit.go:67), so a row that
\* is open with a NULL open_until would block the provider until an
\* operator resets it.
OpenHasDeadline == circuit.state = "open" => circuit.deadline >= 0

\* While requests keep arriving an open circuit does not stay open: the
\* cooldown runs out, although calls still in flight may impose it anew,
\* and some request is let through to probe the provider.
OpenIsLeft == (circuit.state = "open") ~> (circuit.state # "open")

\* Where a caller is, as the abstract breaker sees it.
StageAt == [idle |-> "idle", expired |-> "sighted", calling |-> "admitted",
            probing |-> "admitted", tripping |-> "tripping"]

Abstract == INSTANCE AbstractBreaker
    WITH Callers <- Requesters, state <- circuit.state, failures <- circuit.failures,
         cooling <- circuit.state = "open" /\ circuit.deadline > 0,
         stage <- [c \in Requesters |-> StageAt[pc[c]]]

\* The reads and writes of several callers, interleaved, are the steps of the
\* abstract breaker: no caller is let through an open circuit that did not
\* itself find the cooldown over, only a caller that was let through closes,
\* counts or opens, only one that found the cooldown over moves the circuit
\* to half_open, and once for each time that it found it so.
ImplementsAbstract == Abstract!AbstractSpec

\* A cooldown that was imposed and not lifted by a success or a reset is
\* still in the row: the provider stays blocked until it has expired
\* ("no requests sent until cooldown expires",
\* docs/architecture/Provider Chain.md:129).
CooldownHeld == cool > 0 => circuit.state = "open"
=============================================================================
