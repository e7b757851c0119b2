--------------------------- MODULE AbstractBreaker ---------------------------
(***************************************************************************)
(* What the circuit breaker of one provider promises its callers, however  *)
(* their database statements interleave: who is let through, what the end  *)
(* of a call does to the circuit, and who may move it to half_open.  It    *)
(* promises less than docs/architecture/Provider Chain.md:126-134 in three *)
(* places, and each is an action here: half_open lets every caller through *)
(* and not one probe (LetThrough); the move to half_open lands on whatever *)
(* the circuit has become since the look that found the cooldown over      *)
(* (HalfOpen); and a failure in half_open opens the circuit again only     *)
(* when the count has reached the threshold (Fail).  Nothing else may      *)
(* happen: module Breaker implements it statement by statement, and module *)
(* Router implements one instance of it for each provider.                 *)
(***************************************************************************)
EXTENDS Naturals

CONSTANTS
    Threshold,              \* failures that open the circuit
    Callers                 \* who asks the breaker

VARIABLES
    state,                  \* "closed", "open" or "half_open"
    failures,               \* failures since the last success or reset
    cooling,                \* the circuit is open and its cooldown not over
    stage                   \* where each caller is

abstractVars == <<state, failures, cooling, stage>>

Stage == {"idle",           \* asks nothing
          "sighted",        \* found the cooldown over, has not written so yet
          "admitted",       \* was let through
          "tripping"}       \* failed by a rate limit, will open the circuit

AbstractInit ==
    /\ state = "closed" /\ failures = 0 /\ cooling = FALSE
    /\ stage = [c \in Callers |-> "idle"]

(* ------------------------------ being let through ---------------------- *)

Goes(c, from, to) ==
    /\ stage[c] = from
    /\ stage' = [stage EXCEPT ![c] = to]

LetThrough(c) ==
    /\ state # "open"
    /\ Goes(c, "idle", "admitted")
    /\ UNCHANGED <<state, failures, cooling>>

Sight(c) ==
    /\ state = "open" /\ ~cooling
    /\ Goes(c, "idle", "sighted")
    /\ UNCHANGED <<state, failures, cooling>>

HalfOpened == state' = "half_open" /\ cooling' = FALSE /\ UNCHANGED failures

\* The write that follows a sighting, once and whatever happened in between.
\* The caller goes on to its call, or asked for something else.
HalfOpen(c) ==
    /\ HalfOpened
    /\ Goes(c, "sighted", "admitted") \/ Goes(c, "sighted", "idle")

\* A sighting and its write with nothing between them, by a caller that is
\* let through or by somebody who asks for no call.
HalfOpenAtOnce ==
    /\ state = "open" /\ ~cooling
    /\ HalfOpened
    /\ UNCHANGED stage \/ \E c \in Callers : Goes(c, "idle", "admitted")

(* ------------------------------ the end of a call ---------------------- *)

Closed == state' = "closed" /\ failures' = 0 /\ cooling' = FALSE

Answer(c) == Closed /\ Goes(c, "admitted", "idle")

\* One more failure, counted up to the threshold: the count that reaches it
\* opens the circuit, and past it the count makes no difference.
Fail(c) ==
    /\ failures' = IF failures < Threshold THEN failures + 1 ELSE failures
    /\ IF failures + 1 >= Threshold
       THEN state' = "open" /\ cooling' = TRUE
       ELSE UNCHANGED <<state, cooling>>
    /\ Goes(c, "admitted", "idle") \/ Goes(c, "admitted", "tripping")

Trip(c) ==
    /\ state' = "open" /\ cooling' = TRUE /\ UNCHANGED failures
    /\ Goes(c, "tripping", "idle")

\* No call was made after all, or its end is not the breaker's business.
Forget(c) == Goes(c, "admitted", "idle") /\ UNCHANGED <<state, failures, cooling>>

(* ------------------------ operator, restart, time ---------------------- *)

Reset == Closed /\ UNCHANGED stage

\* The callers die; the program may start with its open circuit closed.
Restart ==
    /\ stage' = [c \in Callers |-> "idle"]
    /\ \/ UNCHANGED <<state, failures, cooling>>
       \/ state = "open" /\ Closed

CooldownEnds == cooling /\ cooling' = FALSE /\ UNCHANGED <<state, failures, stage>>

AbstractNext ==
    \/ \E c \in Callers : \/ LetThrough(c) \/ Sight(c) \/ HalfOpen(c)
                          \/ Answer(c) \/ Fail(c) \/ Trip(c) \/ Forget(c)
    \/ HalfOpenAtOnce \/ Reset \/ Restart \/ CooldownEnds

AbstractSpec == AbstractInit /\ [][AbstractNext]_abstractVars
=============================================================================
