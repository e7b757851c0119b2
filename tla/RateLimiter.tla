----------------------------- MODULE RateLimiter -----------------------------
(***************************************************************************)
(* internal/router/ratelimit.go: the adaptive rate limiter of one provider. *)
(* It is made on first use.  A 429 halves the rate (never below a floor), a *)
(* success adds a tenth of the configured rate, and a 429 that carries a    *)
(* Retry-After also sets the limiter to one request per that many seconds   *)
(* and leaves a goroutine behind that sets it back.  Callers, successes,    *)
(* 429s and those goroutines interleave under one mutex.                    *)
(*                                                                         *)
(* A rate is a number of units, the unit being so small that a tenth of the *)
(* configured rate is a whole number; other fractions are rounded down.  The token   *)
(* bucket itself (golang.org/x/time/rate) is external: Wait ends at any     *)
(* moment.                                                                 *)
(***************************************************************************)
EXTENDS Naturals, FiniteSets

CONSTANTS
    Callers,            \* requests that reach this provider
    Configs,            \* the rates that rpmForProvider may give the provider
    Floor,              \* 0.5 RPM
    Fast,               \* 100 RPM, from which Wait does nothing
    MaxRetryAfter,      \* bound on retryAfterSecs
    MaxSleepers         \* bound on the goroutines of RecordRateLimitHit

ASSUME RateAssumption ==
    /\ Configs \subseteq Nat \ {0}
    /\ Floor \in Nat \ {0}
    /\ Fast \in Nat
    /\ MaxRetryAfter \in Nat
    /\ MaxSleepers \in Nat

VARIABLES
    config,             \* configRPM of the provider
    made,               \* how many limiters GetLimiter has made
    rpm,                \* currentRPM; configRPM until the limiter is made
    limit,              \* the limiter's limit: a rate, or the pause
    sleepers,           \* the goroutines: seconds each still sleeps
    caller              \* where each request is, with the limiter it waits on

limiterVars == <<config, made, rpm, limit, sleepers, caller>>

\* The limit of one request per Retry-After, which is no rate.
Pause == 0

Idle == [pc |-> "idle", limiter |-> 0]

LimiterInit ==
    /\ config \in Configs
    /\ made = 0
    /\ rpm = config
    /\ limit = config
    /\ sleepers = [s \in 1..MaxSleepers |-> 0]
    /\ caller = [c \in Callers |-> Idle]

\* What a success adds: a tenth of the configured rate.
Increment == config \div 10

Least(a, b) == IF a < b THEN a ELSE b
Greatest(a, b) == IF a < b THEN b ELSE a

(* ----------------------------- taking the limiter ----------------------- *)

Move(c, pc, limiter) == caller' = [caller EXCEPT ![c] = [pc |-> pc, limiter |-> limiter]]

\* Wait of a fast provider returns, and GetLimiter is never called.
WaitFast(c) ==
    /\ caller[c].pc = "idle"
    /\ config >= Fast
    /\ Move(c, "calling", 0)
    /\ UNCHANGED <<config, made, rpm, limit, sleepers>>

\* GetLimiter's first look, under the read lock.
LookUp(c) ==
    /\ caller[c].pc = "idle"
    /\ config < Fast
    /\ IF made > 0 THEN Move(c, "waiting", made) ELSE Move(c, "missed", 0)
    /\ UNCHANGED <<config, made, rpm, limit, sleepers>>

MakeLimiter ==
    /\ made' = made + 1
    /\ rpm' = config
    /\ limit' = config

\* mutant: the second look is missing.
MakeUnchecked(c) ==
    /\ caller[c].pc = "missed"
    /\ MakeLimiter
    /\ Move(c, "waiting", made + 1)
    /\ UNCHANGED <<config, sleepers>>

\* GetLimiter's second look, under the write lock.
Make(c) ==
    /\ caller[c].pc = "missed"
    /\ IF made > 0
       THEN Move(c, "waiting", made) /\ UNCHANGED <<made, rpm, limit>>
       ELSE Move(c, "waiting", 1) /\ MakeLimiter
    /\ UNCHANGED <<config, sleepers>>

\* limiter.Wait returns: the request goes to the provider, or its context ended.
WaitReturns(c) ==
    /\ caller[c].pc = "waiting"
    /\ \/ Move(c, "calling", 0)
       \/ Move(c, "idle", 0)
    /\ UNCHANGED <<config, made, rpm, limit, sleepers>>

(* ------------------------- what the answers do to it -------------------- *)

Halved == Greatest(rpm \div 2, Floor)

\* RecordRateLimitHit without Retry-After, or the first half of it.
HitPlain ==
    /\ rpm' = IF made > 0 THEN Halved ELSE rpm
    /\ limit' = IF made > 0 THEN Halved ELSE limit
    /\ UNCHANGED sleepers

\* mutant: nobody is left to set the limit back.
HitForever ==
    /\ made > 0
    /\ rpm' = Halved
    /\ limit' = Pause
    /\ UNCHANGED sleepers

\* RecordRateLimitHit with Retry-After.
HitRetryAfter ==
    \E seconds \in 1..MaxRetryAfter, s \in DOMAIN sleepers :
        /\ made > 0
        /\ rpm' = Halved
        /\ limit' = Pause
        /\ sleepers[s] = 0
        /\ sleepers' = [sleepers EXCEPT ![s] = seconds + 1]

\* The provider answers 429.
RateLimited(c) ==
    /\ caller[c].pc = "calling"
    /\ HitPlain \/ HitRetryAfter
    /\ Move(c, "idle", 0)
    /\ UNCHANGED <<config, made>>

\* mutant: the rate may pass the configured one.
SuccessUncapped(c) ==
    /\ caller[c].pc = "calling"
    /\ rpm' = IF made > 0 THEN rpm + Increment ELSE rpm
    /\ limit' = IF made > 0 THEN rpm' ELSE limit
    /\ Move(c, "idle", 0)
    /\ UNCHANGED <<config, made, sleepers>>

\* RecordSuccess.  At the configured rate, or above it, the limit stays.
Success(c) ==
    /\ caller[c].pc = "calling"
    /\ IF made > 0 /\ rpm < config
       THEN rpm' = Least(rpm + Increment, config) /\ limit' = rpm'
       ELSE UNCHANGED <<rpm, limit>>
    /\ Move(c, "idle", 0)
    /\ UNCHANGED <<config, made, sleepers>>

\* Any other answer leaves the limiter alone.
OtherFailure(c) ==
    /\ caller[c].pc = "calling"
    /\ Move(c, "idle", 0)
    /\ UNCHANGED <<config, made, rpm, limit, sleepers>>

(* --------------------------------- time --------------------------------- *)

\* A second passes.  A goroutine that has slept its seconds holds 1.
SecondPasses ==
    /\ \E s \in DOMAIN sleepers : sleepers[s] > 1
    /\ sleepers' = [s \in DOMAIN sleepers |->
                        IF sleepers[s] > 1 THEN sleepers[s] - 1 ELSE sleepers[s]]
    /\ UNCHANGED <<config, made, rpm, limit, caller>>

\* mutant: the goroutine sets the configured rate back, and forgets currentRPM.
WakeAtConfig(s) ==
    /\ sleepers[s] = 1
    /\ sleepers' = [sleepers EXCEPT ![s] = 0]
    /\ limit' = config
    /\ UNCHANGED <<config, made, rpm, caller>>

\* The goroutine's end: the limit is the current rate again.
Wake(s) ==
    /\ sleepers[s] = 1
    /\ sleepers' = [sleepers EXCEPT ![s] = 0]
    /\ limit' = rpm
    /\ UNCHANGED <<config, made, rpm, caller>>

LimiterNext ==
    \/ \E c \in Callers :
         \/ WaitFast(c) \/ LookUp(c) \/ Make(c) \/ WaitReturns(c)
         \/ RateLimited(c) \/ Success(c) \/ OtherFailure(c)
    \/ \E s \in DOMAIN sleepers : Wake(s)
    \/ SecondPasses

\* Time passes and a goroutine that has slept runs.
LimiterFairness == WF_limiterVars(SecondPasses) /\ \A s \in 1..MaxSleepers : WF_limiterVars(Wake(s))

LimiterSpec == LimiterInit /\ [][LimiterNext]_limiterVars /\ LimiterFairness

(* -------------------------------- properties ---------------------------- *)

\* The variables keep their types.
LimiterTypeOK ==
    /\ config \in Configs
    /\ made \in {0, 1}
    /\ rpm \in Nat \ {Pause}
    /\ limit \in Nat
    /\ sleepers \in [1..MaxSleepers -> 0..(MaxRetryAfter + 1)]
    /\ caller \in [Callers -> [pc : {"idle", "missed", "waiting", "calling"}, limiter : {0, 1}]]

\* All requests of a provider are paced by the one limiter that the map
\* holds, however many of them missed it in GetLimiter's first look.
OneLimiter == \A c \in Callers : caller[c].pc = "waiting" => caller[c].limiter = made

\* The limiter runs at currentRPM unless a Retry-After holds it, and then a
\* goroutine is there that will set it back: no order of 429s, successes and
\* wake-ups leaves the provider paused for good, or at a rate of its own.
LimitIsAccounted ==
    limit # rpm => limit = Pause /\ \E s \in DOMAIN sleepers : sleepers[s] > 0

\* A provider is paced by one limiter, at a rate that is accounted for.
PacedByOne == OneLimiter /\ LimitIsAccounted

\* The rate stays between the floor and the configured rate, whichever is the
\* lower bound and whichever the upper.
RateInBounds == Least(Floor, config) <= rpm /\ rpm <= Greatest(Floor, config)

\* A pause comes to an end.
PausesEnd == limit = Pause ~> limit # Pause
=============================================================================
