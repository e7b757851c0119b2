----------------------------- MODULE CircuitRow ------------------------------
(***************************************************************************)
(* The row of the table circuit_breaker_state and what each SQL statement  *)
(* of internal/router/circuit.go makes of it.  Breaker interleaves the     *)
(* statements of many callers over one row; Router uses one row for each   *)
(* provider.                                                               *)
(*                                                                         *)
(* Time is relative: deadline is the time left until open_until, and 0 is  *)
(* the past.                                                               *)
(***************************************************************************)
EXTENDS Integers

CONSTANTS
    Threshold,          \* failureThreshold
    Cooldown,           \* cooldownDuration, in ticks
    RateLimitCooldown   \* what rateLimitCooldown returns, in ticks

ASSUME CircuitAssumption ==
    /\ Threshold \in Nat \ {0}
    /\ Cooldown \in Nat \ {0}
    /\ RateLimitCooldown \in Nat \ {0}

NoDeadline == -1        \* open_until is NULL

Row == [state : {"closed", "open", "half_open"},
        failures : 0..Threshold,
        deadline : Nat \cup {NoDeadline}]

ClosedRow == [state |-> "closed", failures |-> 0, deadline |-> NoDeadline]

\* mutant: the Valid test of open_until inverted.
ExpiredIfNull(r) == r.state = "open" /\ r.deadline = NoDeadline

\* The condition under which GetState moves the row to half_open.
Expired(r) == r.state = "open" /\ r.deadline = 0

\* RecordFailure, one transaction.  The count goes on in the code; what is
\* past the threshold makes no difference to any reader of it.
WithFailure(r) ==
    IF r.failures + 1 >= Threshold
    THEN [state |-> "open", failures |-> Threshold, deadline |-> Cooldown]
    ELSE [r EXCEPT !.failures = @ + 1]

\* Open(duration) keeps the failure count.
Opened(r, duration) == [r EXCEPT !.state = "open", !.deadline = duration]

\* mutant: half_open starts a new count.
HalfOpenedFresh(r) == [state |-> "half_open", failures |-> 0, deadline |-> NoDeadline]

\* SetState(StateHalfOpen) clears open_until and keeps the failure count.
HalfOpened(r) == [r EXCEPT !.state = "half_open", !.deadline = NoDeadline]

Down(n) == IF n > 0 THEN n - 1 ELSE n

Later(r) == [r EXCEPT !.deadline = Down(@)]
=============================================================================
