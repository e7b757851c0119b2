---------------------------- MODULE RequestsProofs ---------------------------
(***************************************************************************)
(* What a request goes through, for any number of requests: the gates of a *)
(* provider, its breaker and its rate limiter, whatever thresholds,        *)
(* cooldowns and rates; the router, which walks any chain once and to its  *)
(* end, with slots for the calls in progress and rows that implement the   *)
(* abstract breaker; and the memory of its session.                        *)
(***************************************************************************)
EXTENDS Breaker, RateLimiter, Router, SessionMemory, SelectionsProofs,
        SequenceTheorems, FiniteSetTheorems, TLAPS

(* -------------------------------- breaker ------------------------------ *)

\* BreakerNext, one disjunct for each kind of step; the proofs split on it.
LEMMA BreakerCases ==
  ASSUME BreakerNext
  PROVE  \/ \E c \in Requesters : \/ Admit(c) \/ ReadExpired(c) \/ WriteHalfOpen(c)
                               \/ Succeed(c) \/ Fail(c) \/ FailRateLimited(c)
                               \/ TripRateLimited(c) \/ Unrecorded(c)
         \/ Reset \/ Restart \/ TimePasses
BY DEF BreakerNext, Step

\* What the statements make of a row is a row.
LEMMA RowOperators ==
  ASSUME NEW r \in Row, NEW d \in Nat
  PROVE  /\ WithFailure(r) \in Row
         /\ Opened(r, d) \in Row
         /\ HalfOpened(r) \in Row
         /\ ClosedRow \in Row
         /\ Later(r) \in Row
<1> USE CircuitAssumption DEF Row, NoDeadline
<1>1. WithFailure(r) \in Row
  BY DEF WithFailure
<1>2. Opened(r, d) \in Row
  BY DEF Opened
<1>3. HalfOpened(r) \in Row
  BY DEF HalfOpened
<1>4. ClosedRow \in Row
  BY DEF ClosedRow
<1>5. Later(r) \in Row
  <2>1. Down(r.deadline) \in Nat \cup {NoDeadline}
    BY DEF Down
  <2> QED BY <2>1 DEF Later
<1> QED BY <1>1, <1>2, <1>3, <1>4, <1>5

\* A failure is counted up to the threshold, and there it opens the circuit.
LEMMA FailureCounts ==
  ASSUME NEW r \in Row
  PROVE  /\ WithFailure(r).failures = IF r.failures < Threshold THEN r.failures + 1 ELSE r.failures
         /\ IF r.failures + 1 >= Threshold
            THEN WithFailure(r).state = "open" /\ WithFailure(r).deadline > 0
            ELSE WithFailure(r).state = r.state /\ WithFailure(r).deadline = r.deadline
<1>1. r.failures \in 0..Threshold /\ Threshold \in Nat /\ Cooldown \in Nat \ {0}
  BY CircuitAssumption DEF Row
<1>2. CASE r.failures + 1 >= Threshold
  <2>1. r.failures = Threshold \/ r.failures + 1 = Threshold
    BY <1>1, <1>2
  <2> QED BY <1>1, <1>2, <2>1 DEF WithFailure
<1>3. CASE ~(r.failures + 1 >= Threshold)
  <2>1. r.failures < Threshold
    BY <1>1, <1>3
  <2> QED BY <1>1, <1>3, <2>1 DEF WithFailure, Row
<1> QED BY <1>2, <1>3

(* The row, the callers and the history keep their types in every step of  *)
(* every caller (circuit.go:48-208).                                       *)
THEOREM BreakerTypeCorrect == BreakerSpec => []BreakerTypeOK
<1>1. BreakerInit => BreakerTypeOK
  BY CircuitAssumption DEF BreakerInit, BreakerTypeOK, ClosedRow, Row, NoDeadline
<1>2. BreakerTypeOK /\ [BreakerNext]_breakerVars => BreakerTypeOK'
  <2> SUFFICES ASSUME BreakerTypeOK, [BreakerNext]_breakerVars
               PROVE  BreakerTypeOK'
    OBVIOUS
  <2> USE DEF BreakerTypeOK
  <2>1. ASSUME NEW c \in Requesters, Admit(c) \/ ReadExpired(c) \/ Unrecorded(c)
        PROVE  BreakerTypeOK'
    BY <2>1 DEF Admit, ReadExpired, Unrecorded
  <2>2. ASSUME NEW c \in Requesters, WriteHalfOpen(c)
        PROVE  BreakerTypeOK'
    BY <2>2, RowOperators, 0 \in Nat DEF WriteHalfOpen, SetHalfOpen
  <2>3. ASSUME NEW c \in Requesters, Succeed(c)
        PROVE  BreakerTypeOK'
    BY <2>3, RowOperators, 0 \in Nat DEF Succeed, RecordSuccess
  <2>4. ASSUME NEW c \in Requesters, Fail(c) \/ FailRateLimited(c)
        PROVE  BreakerTypeOK'
    <3>1. circuit' \in Row /\ cool' \in Nat
      BY <2>4, RowOperators, CircuitAssumption, 0 \in Nat DEF Fail, FailRateLimited, RecordFailure
    <3> QED BY <2>4, <3>1 DEF Fail, FailRateLimited
  <2>5. ASSUME NEW c \in Requesters, TripRateLimited(c)
        PROVE  BreakerTypeOK'
    BY <2>5, RowOperators, CircuitAssumption DEF TripRateLimited, Open
  <2>6. CASE Reset
    BY <2>6, RowOperators, 0 \in Nat DEF Reset, RecordSuccess
  <2>7. CASE Restart
    <3>1. [circuit EXCEPT !.state = "closed", !.failures = 0] \in Row
      <4>1. 0 \in 0..Threshold
        BY CircuitAssumption
      <4> QED BY <4>1 DEF Row
    <3> QED BY <2>7, <3>1 DEF Restart
  <2>8. CASE TimePasses
    BY <2>8, RowOperators, 0 \in Nat DEF TimePasses, Down
  <2>9. CASE UNCHANGED breakerVars
    BY <2>9 DEF breakerVars
  <2> QED
    BY <2>1, <2>2, <2>3, <2>4, <2>5, <2>6, <2>7, <2>8, <2>9, BreakerCases
<1> QED
  BY <1>1, <1>2, PTL DEF BreakerSpec

(* A closed circuit is below its threshold and an open one has a deadline:  *)
(* each is inductive by itself once the row has its type, because every    *)
(* statement that writes "closed" also writes a count of zero, and every   *)
(* one that writes "open" also writes a deadline.                           *)
LEMMA RowInvariantStep ==
  ASSUME BreakerTypeOK, ClosedBelowThreshold, OpenHasDeadline, [BreakerNext]_breakerVars
  PROVE  ClosedBelowThreshold' /\ OpenHasDeadline'
<1> USE CircuitAssumption DEF BreakerTypeOK, ClosedBelowThreshold, OpenHasDeadline, Row, NoDeadline
<1>1. ASSUME NEW c \in Requesters, Admit(c) \/ ReadExpired(c) \/ Unrecorded(c)
      PROVE  ClosedBelowThreshold' /\ OpenHasDeadline'
  BY <1>1 DEF Admit, ReadExpired, Unrecorded
<1>2. ASSUME NEW c \in Requesters, WriteHalfOpen(c)
      PROVE  ClosedBelowThreshold' /\ OpenHasDeadline'
  BY <1>2 DEF WriteHalfOpen, SetHalfOpen, HalfOpened
<1>3. ASSUME NEW c \in Requesters, Fail(c) \/ FailRateLimited(c)
      PROVE  ClosedBelowThreshold' /\ OpenHasDeadline'
  BY <1>3 DEF Fail, FailRateLimited, RecordFailure, WithFailure
<1>4. ASSUME NEW c \in Requesters, TripRateLimited(c)
      PROVE  ClosedBelowThreshold' /\ OpenHasDeadline'
  BY <1>4 DEF TripRateLimited, Open, Opened
<1>5. ASSUME RecordSuccess
      PROVE  ClosedBelowThreshold' /\ OpenHasDeadline'
  BY <1>5 DEF RecordSuccess, ClosedRow
<1>6. CASE Restart
  BY <1>6 DEF Restart
<1>7. CASE TimePasses
  BY <1>7 DEF TimePasses, Later, Down
<1>8. CASE UNCHANGED breakerVars
  BY <1>8 DEF breakerVars
<1> QED
  BY <1>1, <1>2, <1>3, <1>4, <1>5, <1>6, <1>7, <1>8, BreakerCases DEF Succeed, Reset

LEMMA RowInvariant == BreakerSpec => [](ClosedBelowThreshold /\ OpenHasDeadline)
<1>1. BreakerInit => ClosedBelowThreshold /\ OpenHasDeadline
  BY CircuitAssumption DEF BreakerInit, ClosedBelowThreshold, OpenHasDeadline, ClosedRow
<1>2. BreakerTypeOK /\ (ClosedBelowThreshold /\ OpenHasDeadline) /\ [BreakerNext]_breakerVars
        => (ClosedBelowThreshold /\ OpenHasDeadline)'
  BY RowInvariantStep
<1> QED
  BY <1>1, <1>2, BreakerTypeCorrect, PTL DEF BreakerSpec

(* No interleaving of successes, failures, stale half-open writes and      *)
(* start-ups leaves a closed circuit with its failures used up.            *)
THEOREM ClosedIsBelowThreshold == BreakerSpec => []ClosedBelowThreshold
BY RowInvariant, PTL

(* No open circuit is left without the time at which it ends.              *)
THEOREM OpenCircuitHasDeadline == BreakerSpec => []OpenHasDeadline
BY RowInvariant, PTL

\* A caller that moves from one place to another moves so for the abstract
\* breaker.
LEMMA Moves ==
  ASSUME BreakerTypeOK, NEW c \in Requesters,
         NEW next \in {"idle", "calling", "probing", "expired", "tripping"},
         pc' = [pc EXCEPT ![c] = next]
  PROVE  Abstract!Goes(c, StageAt[pc[c]], StageAt[next])
<1> DEFINE before == [d \in Requesters |-> StageAt[pc[d]]]
<1>1. \A d \in Requesters : pc'[d] = IF d = c THEN next ELSE pc[d]
  BY DEF BreakerTypeOK
<1>2. [d \in Requesters |-> StageAt[pc'[d]]] = [before EXCEPT ![c] = StageAt[next]]
  <2>1. \A d \in Requesters : StageAt[pc'[d]] = IF d = c THEN StageAt[next] ELSE StageAt[pc[d]]
    BY <1>1
  <2> HIDE <1>1
  <2> QED BY <2>1
<1> QED BY <1>2 DEF Abstract!Goes

LEMMA Stages == /\ StageAt["idle"] = "idle" /\ StageAt["expired"] = "sighted"
                /\ StageAt["calling"] = "admitted" /\ StageAt["probing"] = "admitted"
                /\ StageAt["tripping"] = "tripping"
BY DEF StageAt

(* Every step of the detailed breaker is a step of the abstract one or     *)
(* leaves its variables alone: a caller's place in GetState and in its     *)
(* call is its stage (circuit.go:48-208).                                  *)
THEOREM Implementation == BreakerSpec => ImplementsAbstract
<1>1. BreakerInit => Abstract!AbstractInit
  BY DEF BreakerInit, Abstract!AbstractInit, ClosedRow, StageAt
<1>2. BreakerTypeOK /\ [BreakerNext]_breakerVars => [Abstract!AbstractNext]_(Abstract!abstractVars)
  <2> SUFFICES ASSUME BreakerTypeOK, [BreakerNext]_breakerVars
               PROVE  Abstract!AbstractNext \/ UNCHANGED Abstract!abstractVars
    OBVIOUS
  <2>t. /\ circuit \in Row /\ circuit.failures \in 0..Threshold
        /\ circuit.deadline \in Nat \cup {-1} /\ Threshold \in Nat \ {0}
        /\ Cooldown \in Nat \ {0} /\ RateLimitCooldown \in Nat \ {0}
    BY CircuitAssumption DEF BreakerTypeOK, Row, NoDeadline
  <2>1. ASSUME NEW c \in Requesters, Admit(c)
        PROVE  Abstract!LetThrough(c)
    <3>1. \E next \in {"calling", "probing"} : pc' = [pc EXCEPT ![c] = next]
      BY <2>1 DEF Admit
    <3>2. Abstract!Goes(c, "idle", "admitted")
      BY <2>1, <3>1, Moves, Stages DEF Admit
    <3> QED BY <2>1, <3>2 DEF Admit, Abstract!LetThrough
  <2>2. ASSUME NEW c \in Requesters, ReadExpired(c)
        PROVE  Abstract!Sight(c)
    <3>1. Abstract!Goes(c, "idle", "sighted")
      BY <2>2, Moves, Stages DEF ReadExpired
    <3> QED BY <2>2, <3>1 DEF ReadExpired, Expired, Abstract!Sight
  <2>3. ASSUME NEW c \in Requesters, WriteHalfOpen(c)
        PROVE  Abstract!HalfOpen(c)
    <3>1. Abstract!Goes(c, "sighted", "admitted") \/ Abstract!Goes(c, "sighted", "idle")
      <4>1. PICK next \in {"probing", "idle"} : pc' = [pc EXCEPT ![c] = next]
        BY <2>3 DEF WriteHalfOpen
      <4> QED BY <2>3, <4>1, Moves, Stages DEF WriteHalfOpen
    <3>2. Abstract!HalfOpened
      BY <2>3, <2>t DEF WriteHalfOpen, SetHalfOpen, HalfOpened, Row, Abstract!HalfOpened
    <3> QED BY <3>1, <3>2 DEF Abstract!HalfOpen
  <2>4. ASSUME NEW c \in Requesters, Succeed(c)
        PROVE  Abstract!Answer(c)
    <3>1. Abstract!Goes(c, "admitted", "idle")
      BY <2>4, Moves, Stages DEF Succeed, Calling
    <3>2. Abstract!Closed
      BY <2>4 DEF Succeed, RecordSuccess, ClosedRow, Abstract!Closed
    <3> QED BY <3>1, <3>2 DEF Abstract!Answer
  <2>5. ASSUME NEW c \in Requesters, Fail(c) \/ FailRateLimited(c)
        PROVE  Abstract!Fail(c)
    <3>1. Abstract!Goes(c, "admitted", "idle") \/ Abstract!Goes(c, "admitted", "tripping")
      BY <2>5, Moves, Stages DEF Fail, FailRateLimited, Calling
    <3>2. circuit' = WithFailure(circuit)
      BY <2>5 DEF Fail, FailRateLimited, RecordFailure
    <3>3. /\ circuit'.failures = IF circuit.failures < Threshold THEN circuit.failures + 1
                                 ELSE circuit.failures
          /\ IF circuit.failures + 1 >= Threshold
             THEN circuit'.state = "open" /\ circuit'.deadline > 0
             ELSE circuit'.state = circuit.state /\ circuit'.deadline = circuit.deadline
      BY <2>t, <3>2, FailureCounts
    <3> QED BY <3>1, <3>3 DEF Abstract!Fail
  <2>6. ASSUME NEW c \in Requesters, TripRateLimited(c)
        PROVE  Abstract!Trip(c)
    <3>1. Abstract!Goes(c, "tripping", "idle")
      BY <2>6, Moves, Stages DEF TripRateLimited
    <3>2. circuit'.state = "open" /\ circuit'.deadline > 0 /\ circuit'.failures = circuit.failures
      BY <2>6, <2>t DEF TripRateLimited, Open, Opened, Row
    <3> QED BY <3>1, <3>2 DEF Abstract!Trip
  <2>7. ASSUME NEW c \in Requesters, Unrecorded(c)
        PROVE  Abstract!Forget(c)
    <3>1. Abstract!Goes(c, "admitted", "idle")
      BY <2>7, Moves, Stages DEF Unrecorded, Calling
    <3> QED BY <2>7, <3>1 DEF Unrecorded, Abstract!Forget
  <2>8. CASE Reset
    BY <2>8 DEF Reset, RecordSuccess, ClosedRow, Abstract!Reset, Abstract!Closed, Abstract!AbstractNext
  <2>9. CASE Restart
    <3>1. [d \in Requesters |-> StageAt[pc'[d]]] = [d \in Requesters |-> "idle"]
      BY <2>9 DEF Restart, StageAt
    <3>2. \/ circuit' = circuit
          \/ circuit.state = "open" /\ circuit'.state = "closed" /\ circuit'.failures = 0
      BY <2>9, <2>t DEF Restart, Row
    <3> QED BY <3>1, <3>2 DEF Abstract!Restart, Abstract!Closed, Abstract!AbstractNext
  <2>10. CASE TimePasses
    <3>1. /\ circuit'.state = circuit.state /\ circuit'.failures = circuit.failures
          /\ circuit.deadline <= 0 => circuit'.deadline <= 0
          /\ circuit'.deadline \in Int
      BY <2>10, <2>t DEF TimePasses, Later, Down, Row
    <3>2. pc' = pc
      BY <2>10 DEF TimePasses
    <3>3. CASE circuit.deadline > 0 /\ ~(circuit'.deadline > 0) /\ circuit.state = "open"
      <4>1. Abstract!CooldownEnds
        BY <3>1, <3>2, <3>3 DEF Abstract!CooldownEnds
      <4> QED BY <4>1 DEF Abstract!AbstractNext
    <3>4. CASE ~(circuit.deadline > 0 /\ ~(circuit'.deadline > 0) /\ circuit.state = "open")
      <4>1. (circuit'.state = "open" /\ circuit'.deadline > 0) <=> (circuit.state = "open" /\ circuit.deadline > 0)
        BY <2>t, <3>1, <3>4
      <4> QED BY <3>1, <3>2, <4>1 DEF Abstract!abstractVars
    <3> QED BY <3>3, <3>4
  <2>11. CASE UNCHANGED breakerVars
    BY <2>11 DEF breakerVars, Abstract!abstractVars
  <2> QED
    BY <2>1, <2>2, <2>3, <2>4, <2>5, <2>6, <2>7, <2>8, <2>9, <2>10, <2>11, BreakerCases
    DEF Abstract!AbstractNext
<1> QED
  BY <1>1, <1>2, BreakerTypeCorrect, PTL DEF BreakerSpec, ImplementsAbstract, Abstract!AbstractSpec

(* ------------------------------ rate limiter --------------------------- *)

\* The inductive invariant: a request waits only on a limiter that was made.
LimiterInv ==
    /\ LimiterTypeOK
    /\ \A c \in Callers : caller[c].pc = "waiting" => made = 1 /\ caller[c].limiter = 1
    /\ LimitIsAccounted
    /\ RateInBounds

LEMMA Halving ==
  ASSUME LimiterInv
  PROVE  /\ Halved \in Nat \ {Pause} /\ Least(Floor, config) <= Halved
         /\ Halved <= Greatest(Floor, config)
<1>1. /\ rpm \in Nat /\ config \in Nat \ {0} /\ Floor \in Nat \ {0}
      /\ Least(Floor, config) <= rpm /\ rpm <= Greatest(Floor, config)
  BY RateAssumption DEF LimiterInv, LimiterTypeOK, RateInBounds
<1>2. rpm \div 2 \in Nat /\ rpm \div 2 <= rpm
  BY <1>1
<1> QED BY <1>1, <1>2 DEF Halved, Greatest, Least, Pause

LEMMA Rising ==
  ASSUME LimiterInv, rpm < config
  PROVE  LET more == Least(rpm + Increment, config) IN
         /\ more \in Nat \ {Pause} /\ Least(Floor, config) <= more
         /\ more <= Greatest(Floor, config)
<1>1. /\ rpm \in Nat \ {0} /\ config \in Nat \ {0} /\ Floor \in Nat \ {0}
      /\ Least(Floor, config) <= rpm /\ rpm <= Greatest(Floor, config)
  BY RateAssumption DEF LimiterInv, LimiterTypeOK, RateInBounds, Pause
<1>2. Increment \in Nat
  BY <1>1 DEF Increment
<1> QED BY <1>1, <1>2 DEF Least, Greatest, Pause

\* Requests on their way to the provider.
LEMMA Approaching ==
  ASSUME LimiterInv, NEW c \in Callers,
         WaitFast(c) \/ LookUp(c) \/ Make(c) \/ WaitReturns(c) \/ OtherFailure(c)
  PROVE  LimiterInv'
<1> USE DEF LimiterInv
<1>1. CASE WaitFast(c) \/ LookUp(c) \/ WaitReturns(c) \/ OtherFailure(c)
  <2>1. UNCHANGED <<config, made, rpm, limit, sleepers>>
    BY <1>1 DEF WaitFast, LookUp, WaitReturns, OtherFailure, Move
  <2>2. LimiterTypeOK' /\ \A d \in Callers : caller'[d].pc = "waiting" => made' = 1 /\ caller'[d].limiter = 1
    BY <1>1, <2>1 DEF WaitFast, LookUp, WaitReturns, OtherFailure, Move, LimiterTypeOK
  <2>3. LimitIsAccounted' /\ RateInBounds'
    BY <2>1 DEF LimitIsAccounted, RateInBounds
  <2> QED BY <2>2, <2>3
<1>2. CASE Make(c)
  <2>1. /\ UNCHANGED <<config, sleepers>> /\ made' = 1
        /\ UNCHANGED <<rpm, limit>> \/ (rpm' = config /\ limit' = config)
        /\ caller' = [caller EXCEPT ![c] = [pc |-> "waiting", limiter |-> 1]]
    BY <1>2 DEF Make, MakeLimiter, Move, LimiterTypeOK
  <2>2. config \in Nat \ {0} /\ config \in Configs /\ Floor \in Nat
    BY RateAssumption DEF LimiterTypeOK
  <2>3. LimiterTypeOK' /\ \A d \in Callers : caller'[d].pc = "waiting" => made' = 1 /\ caller'[d].limiter = 1
    BY <2>1, <2>2 DEF LimiterTypeOK, Pause
  <2>4. LimitIsAccounted' /\ RateInBounds'
    BY <2>1, <2>2 DEF LimitIsAccounted, RateInBounds, Least, Greatest
  <2> QED BY <2>3, <2>4
<1> QED BY <1>1, <1>2

\* Answers of the provider.
LEMMA Answering ==
  ASSUME LimiterInv, NEW c \in Callers, RateLimited(c) \/ Success(c)
  PROVE  LimiterInv'
<1> USE DEF LimiterInv
<1>1. /\ UNCHANGED <<config, made>>
      /\ caller' = [caller EXCEPT ![c] = [pc |-> "idle", limiter |-> 0]]
  BY DEF RateLimited, Success, Move
<1>2. /\ caller' \in [Callers -> [pc : {"idle", "missed", "waiting", "calling"}, limiter : {0, 1}]]
      /\ \A d \in Callers : caller'[d].pc = "waiting" => made' = 1 /\ caller'[d].limiter = 1
  BY <1>1 DEF LimiterTypeOK
<1>3. CASE HitPlain
  <2>1. /\ UNCHANGED sleepers
        /\ UNCHANGED <<rpm, limit>> \/ (rpm' = Halved /\ limit' = rpm')
    BY <1>3 DEF HitPlain
  <2>2. LimitIsAccounted'
    BY <2>1 DEF LimitIsAccounted
  <2>3. LimiterTypeOK' /\ RateInBounds'
    BY <1>1, <1>2, <2>1, Halving DEF LimiterTypeOK, RateInBounds
  <2> QED BY <1>2, <2>2, <2>3
<1>4. CASE HitRetryAfter
  <2>1. PICK seconds \in 1..MaxRetryAfter, s \in DOMAIN sleepers :
           /\ rpm' = Halved /\ limit' = Pause
           /\ sleepers' = [sleepers EXCEPT ![s] = seconds + 1]
    BY <1>4 DEF HitRetryAfter
  <2>2. s \in 1..MaxSleepers /\ seconds \in Nat
    BY <2>1, RateAssumption DEF LimiterTypeOK
  <2>3. sleepers' \in [1..MaxSleepers -> 0..(MaxRetryAfter + 1)] /\ sleepers'[s] = seconds + 1
    BY <2>1, <2>2, RateAssumption DEF LimiterTypeOK
  <2>4. LimitIsAccounted'
    BY <2>1, <2>2, <2>3 DEF LimitIsAccounted
  <2>5. LimiterTypeOK' /\ RateInBounds'
    BY <1>1, <1>2, <2>1, <2>2, <2>3, Halving DEF LimiterTypeOK, RateInBounds, Pause
  <2> QED BY <1>2, <2>4, <2>5
<1>5. CASE Success(c)
  <2>1. /\ UNCHANGED sleepers
        /\ \/ UNCHANGED <<rpm, limit>>
           \/ rpm < config /\ rpm' = Least(rpm + Increment, config) /\ limit' = rpm'
    BY <1>5 DEF Success
  <2>2. LimitIsAccounted'
    BY <2>1 DEF LimitIsAccounted
  <2>3. LimiterTypeOK' /\ RateInBounds'
    BY <1>1, <1>2, <2>1, Rising DEF LimiterTypeOK, RateInBounds
  <2> QED BY <1>2, <2>2, <2>3
<1> QED BY <1>3, <1>4, <1>5 DEF RateLimited

\* Time, and the goroutines that wake up.
LEMMA Waking ==
  ASSUME LimiterInv, SecondPasses \/ \E s \in DOMAIN sleepers : Wake(s)
  PROVE  LimiterInv'
<1> USE DEF LimiterInv
<1>1. CASE SecondPasses
  <2>1. /\ UNCHANGED <<config, made, rpm, limit, caller>>
        /\ sleepers' = [s \in DOMAIN sleepers |->
                           IF sleepers[s] > 1 THEN sleepers[s] - 1 ELSE sleepers[s]]
    BY <1>1 DEF SecondPasses
  <2>2. \A s \in 1..MaxSleepers :
          /\ sleepers'[s] \in 0..(MaxRetryAfter + 1)
          /\ sleepers[s] > 0 => sleepers'[s] > 0
    BY <2>1, RateAssumption DEF LimiterTypeOK
  <2>3. LimiterTypeOK'
    BY <2>1, <2>2, RateAssumption DEF LimiterTypeOK
  <2>4. LimitIsAccounted' /\ RateInBounds'
    BY <2>1, <2>2 DEF LimitIsAccounted, RateInBounds, LimiterTypeOK
  <2> QED BY <2>1, <2>3, <2>4
<1>2. CASE \E s \in DOMAIN sleepers : Wake(s)
  <2>1. PICK s \in DOMAIN sleepers : Wake(s)
    BY <1>2
  <2>2. /\ UNCHANGED <<config, made, rpm, caller>> /\ limit' = rpm
        /\ sleepers' = [sleepers EXCEPT ![s] = 0]
    BY <2>1 DEF Wake
  <2>3. LimiterTypeOK'
    BY <2>2, RateAssumption DEF LimiterTypeOK
  <2>4. LimitIsAccounted' /\ RateInBounds'
    BY <2>2 DEF LimitIsAccounted, RateInBounds
  <2> QED BY <2>2, <2>3, <2>4
<1> QED BY <1>1, <1>2

LEMMA LimiterInvariance == LimiterSpec => []LimiterInv
<1>1. LimiterInit => LimiterInv
  <2> SUFFICES ASSUME LimiterInit PROVE LimiterInv
    OBVIOUS
  <2>1. config \in Nat \ {0} /\ Floor \in Nat
    BY RateAssumption DEF LimiterInit
  <2>2. LimiterTypeOK
    BY <2>1, RateAssumption DEF LimiterInit, LimiterTypeOK, Idle, Pause
  <2>3. LimitIsAccounted /\ RateInBounds
    BY <2>1 DEF LimiterInit, LimitIsAccounted, RateInBounds, Least, Greatest
  <2> QED BY <2>2, <2>3 DEF LimiterInit, LimiterInv, Idle
<1>2. LimiterInv /\ [LimiterNext]_limiterVars => LimiterInv'
  <2> SUFFICES ASSUME LimiterInv, [LimiterNext]_limiterVars PROVE LimiterInv'
    OBVIOUS
  <2>1. CASE UNCHANGED limiterVars
    BY <2>1 DEF limiterVars, LimiterInv, LimiterTypeOK, LimitIsAccounted, RateInBounds, Least, Greatest
  <2>2. CASE LimiterNext
    BY <2>2, Approaching, Answering, Waking DEF LimiterNext
  <2> QED BY <2>1, <2>2
<1> QED BY <1>1, <1>2, PTL DEF LimiterSpec

(* Types; at most one limiter is ever made (ratelimit.go:83-111).           *)
THEOREM LimiterTypeCorrect == LimiterSpec => []LimiterTypeOK
<1>1. LimiterInv => LimiterTypeOK
  BY DEF LimiterInv
<1> QED BY <1>1, LimiterInvariance, PTL

(* Requests that raced through GetLimiter wait on the same limiter          *)
(* (ratelimit.go:83-111).                                                   *)
THEOREM RequestsShareTheLimiter == LimiterSpec => []OneLimiter
<1>1. LimiterInv => OneLimiter
  BY DEF LimiterInv, OneLimiter
<1> QED BY <1>1, LimiterInvariance, PTL

(* A limit other than currentRPM is a pause that somebody will end          *)
(* (ratelimit.go:125-192).                                                  *)
THEOREM LimitsAreAccounted == LimiterSpec => []LimitIsAccounted
<1>1. LimiterInv => LimitIsAccounted
  BY DEF LimiterInv
<1> QED BY <1>1, LimiterInvariance, PTL

(* Halving and adding keep the rate between the floor and the configured    *)
(* rate (ratelimit.go:135-140, 181-186).                                    *)
THEOREM RatesStayInBounds == LimiterSpec => []RateInBounds
<1>1. LimiterInv => RateInBounds
  BY DEF LimiterInv
<1> QED BY <1>1, LimiterInvariance, PTL

\* A provider is paced by one limiter, at the current rate or in a pause that
\* ends: GetLimiter, RecordRateLimitHit and RecordSuccess in any order.
THEOREM PacingHolds == LimiterSpec => []PacedByOne
<1>1. LimiterInv => PacedByOne
  BY DEF LimiterInv, PacedByOne, OneLimiter
<1> QED BY <1>1, LimiterInvariance, PTL

(* ------------------------------- operators ----------------------------- *)

\* The earliest of some providers is one of them.
LEMMA FirstOfMember ==
  ASSUME NEW names \in SUBSET Providers, names # {}
  PROVE  FirstOf(names) \in names
<1> DEFINE S == {i \in DOMAIN Chain : Chain[i] \in names}
<1>1. S # {}
  BY DEF Providers, Range
<1>2. S \subseteq Nat
  BY RouterAssumption
<1>3. PICK i \in S : \A j \in S : i <= j
  BY <1>1, <1>2, LeastNumber
<1>4. \E k \in DOMAIN Chain : /\ Chain[k] \in names
                              /\ \A j \in DOMAIN Chain : Chain[j] \in names => k <= j
  BY <1>3
<1> QED BY <1>4 DEF FirstOf

\* The best provider of some names, if there is one, is one of them.
LEMMA BestProviderMember ==
  ASSUME NEW names \in SUBSET Providers
  PROVE  BestProvider(names) \in names \cup {None}
<1> DEFINE quotas == names \cap Tracked
           under  == {p \in quotas : usage[p] < WarnAt}
           below  == {p \in quotas : usage[p] < Full}
           least  == {p \in below : \A q \in below : usage[p] <= usage[q]}
<1>1. under # {} => FirstOf(under) \in names
  BY FirstOfMember
<1>2. least # {} => FirstOf(least) \in names
  BY FirstOfMember
<1> QED BY <1>1, <1>2 DEF BestProvider

\* What is tried next is one of the candidates.
LEMMA FirstFallbackMember ==
  ASSUME NEW cand \in SUBSET Providers, cand # {}
  PROVE  FirstFallback(cand) \in cand
BY FirstOfMember, BestProviderMember DEF FirstFallback

\* Trying one more provider adds it to those tried, each of them once if it
\* was none of them.
LEMMA TriedOneMore ==
  ASSUME NEW s \in Seq(Providers), NEW p \in Providers
  PROVE  /\ Append(s, p) \in Seq(Providers)
         /\ Append(s, p) # <<>>
         /\ Range(Append(s, p)) = Range(s) \cup {p}
         /\ IsInjective(s) /\ p \notin Range(s) => IsInjective(Append(s, p))
<1>1. /\ Append(s, p) \in Seq(Providers)
      /\ Append(s, p) # <<>>
      /\ Len(Append(s, p)) = Len(s) + 1
      /\ Append(s, p)[Len(s) + 1] = p
      /\ \A i \in 1..Len(s) : Append(s, p)[i] = s[i]
  BY AppendProperties
<1>2. DOMAIN s = 1..Len(s) /\ DOMAIN Append(s, p) = 1..(Len(s) + 1) /\ Len(s) \in Nat
  BY <1>1
<1>3. Range(Append(s, p)) = Range(s) \cup {p}
  <2>1. ASSUME NEW x \in Range(Append(s, p))
        PROVE  x \in Range(s) \cup {p}
    <3>1. PICK i \in 1..(Len(s) + 1) : Append(s, p)[i] = x
      BY <1>2, <2>1 DEF Range
    <3>2. i \in 1..Len(s) \/ i = Len(s) + 1
      BY <1>2
    <3> QED BY <1>1, <1>2, <3>1, <3>2 DEF Range
  <2>2. ASSUME NEW x \in Range(s)
        PROVE  x \in Range(Append(s, p))
    <3>1. PICK i \in 1..Len(s) : s[i] = x
      BY <1>2, <2>2 DEF Range
    <3>2. i \in 1..(Len(s) + 1) /\ Append(s, p)[i] = x
      BY <1>1, <1>2, <3>1
    <3> QED BY <1>2, <3>2 DEF Range
  <2>3. p \in Range(Append(s, p))
    BY <1>1, <1>2, Len(s) + 1 \in 1..(Len(s) + 1) DEF Range
  <2> QED BY <2>1, <2>2, <2>3
<1>4. ASSUME IsInjective(s), p \notin Range(s)
      PROVE  IsInjective(Append(s, p))
  <2> SUFFICES ASSUME NEW i \in 1..(Len(s) + 1), NEW j \in 1..(Len(s) + 1),
                      Append(s, p)[i] = Append(s, p)[j]
               PROVE  i = j
    BY <1>2 DEF IsInjective
  <2>1. \A k \in 1..Len(s) : s[k] # p
    BY <1>2, <1>4 DEF Range
  <2>2. CASE i \in 1..Len(s) /\ j \in 1..Len(s)
    BY <1>1, <1>2, <1>4, <2>2 DEF IsInjective
  <2>3. CASE i = Len(s) + 1 \/ j = Len(s) + 1
    BY <1>1, <1>2, <2>1, <2>3
  <2> QED BY <1>2, <2>2, <2>3
<1> QED BY <1>1, <1>3, <1>4

(* ------------------------------- one request --------------------------- *)

Attempting(q) == q.pc \in {"try", "slot", "call", "trip"}

\* What is true of a request between the steps: the provider at hand is none
\* of those tried before, none of the lists names one that was tried, and
\* the lists together lose no provider on the way from the primary to the
\* last fallback.
WalkInv(q) ==
    /\ IsInjective(q.tried)
    /\ q.pc \in {"idle", "scan", "stream", "plain"} => q.tried = <<>> /\ q.cand = {}
    /\ q.pc \in {"stream", "plain"} => q.mode = "stream"
    /\ q.pc = "stream" => q.cur \in Providers
    /\ Attempting(q) =>
         /\ q.mode # "stream"
         /\ q.mode = "preferred" => q.tried = <<>>
         /\ q.cur \in Providers \ Range(q.tried)
         /\ q.cand \cap (Range(q.tried) \cup {q.cur}) = {}
         /\ q.tried = <<>> => q.cand = {}
         /\ q.tried # <<>> => Range(q.tried) \cup {q.cur} \cup q.cand \cup q.skipped = Providers
    /\ q.pc = "collect" =>
         /\ q.mode = "auto" /\ q.tried # <<>>
         /\ (q.rest \cup q.cand) \cap Range(q.tried) = {}
         /\ q.rest \cap q.cand = {}
         /\ Range(q.tried) \cup q.rest \cup q.cand \cup q.skipped = Providers
    /\ q.pc = "failed" /\ q.mode = "auto" /\ q.tried # <<>>
         => Range(q.tried) \cup q.skipped = Providers

\* A request that may take its next step.
Walk(q) == q \in Request /\ WalkInv(q)

LEMMA EmptyTried == Range(<<>>) = {} /\ IsInjective(<<>>) /\ <<>> \in Seq(Providers)
BY DEF Range, IsInjective

LEMMA WalkIdle == Walk(IdleRequest)
BY EmptyTried DEF Walk, WalkInv, IdleRequest, Request, Attempting

\* The provider is selected: nothing was tried before it.
LEMMA WalkSelected ==
  ASSUME NEW q, Walk(q), q.pc \in {"idle", "scan"}, NEW p \in Providers
  PROVE  Walk(Selected(q, p)) /\ Selected(q, p).pc \in {"stream", "try"}
<1> USE DEF Walk, WalkInv, Attempting
<1>1. Selected(q, p) \in Request
  BY DEF Selected, Request
<1>2. WalkInv(Selected(q, p))
  BY EmptyTried DEF Selected, Request
<1> QED BY <1>1, <1>2 DEF Selected, Request

\* The attempt is over without an answer: the provider at hand joins those
\* tried, and the next is none of them.
LEMMA WalkAfterFailure ==
  ASSUME NEW q, Walk(q), Attempting(q)
  PROVE  Walk(AfterFailure(q)) /\ AfterFailure(q).pc \in {"failed", "collect", "try"}
<1> DEFINE tried == Append(q.tried, q.cur)
<1>1. /\ q \in Request
      /\ q.tried \in Seq(Providers)
      /\ q.cur \in Providers
      /\ q.cand \in SUBSET Providers
      /\ q.mode \in {"auto", "preferred"}
  BY DEF Walk, WalkInv, Request
<1>2. /\ tried \in Seq(Providers) /\ tried # <<>>
      /\ Range(tried) = Range(q.tried) \cup {q.cur}
      /\ IsInjective(tried)
  BY <1>1, TriedOneMore DEF Walk, WalkInv
<1> HIDE DEF tried
<1>3. CASE q.mode = "preferred"
  <2>1. AfterFailure(q) = [q EXCEPT !.tried = tried, !.pc = "failed"]
    BY <1>3 DEF AfterFailure, tried
  <2> QED BY <1>1, <1>2, <1>3, <2>1 DEF Walk, WalkInv, Attempting, Request
<1>4. CASE q.mode = "auto" /\ q.tried = <<>>
  <2>1. AfterFailure(q) = [q EXCEPT !.tried = tried, !.pc = "collect", !.rest = Providers \ {q.cur}]
    BY <1>4 DEF AfterFailure, tried
  <2>2. Range(tried) = {q.cur} /\ q.cand = {}
    BY <1>2, <1>4, EmptyTried DEF Walk, WalkInv
  <2>3. AfterFailure(q) \in Request
    BY <1>1, <1>2, <2>1 DEF Request
  <2> QED BY <1>1, <1>2, <1>4, <2>1, <2>2, <2>3 DEF Walk, WalkInv, Attempting, Request
<1>5. CASE q.mode = "auto" /\ q.tried # <<>> /\ q.cand = {}
  <2>1. AfterFailure(q) = [q EXCEPT !.tried = tried, !.pc = "failed"]
    BY <1>5 DEF AfterFailure, tried
  <2>2. Range(tried) \cup q.skipped = Providers
    BY <1>2, <1>5 DEF Walk, WalkInv
  <2> QED BY <1>1, <1>2, <1>5, <2>1, <2>2 DEF Walk, WalkInv, Attempting, Request
<1>6. CASE q.mode = "auto" /\ q.tried # <<>> /\ q.cand # {}
  <2> DEFINE p == FirstOf(q.cand)
  <2>1. p \in q.cand
    BY <1>1, <1>6, FirstOfMember
  <2> HIDE DEF p
  <2>2. AfterFailure(q) = [q EXCEPT !.tried = tried, !.pc = "try", !.cur = p, !.cand = q.cand \ {p}]
    BY <1>1, <1>6 DEF AfterFailure, TakeNext, tried, p, Request
  <2>3. AfterFailure(q) \in Request
    BY <1>1, <1>2, <2>1, <2>2 DEF Request
  <2>4. /\ p \in Providers \ Range(tried)
        /\ (q.cand \ {p}) \cap (Range(tried) \cup {p}) = {}
        /\ Range(tried) \cup {p} \cup (q.cand \ {p}) \cup q.skipped = Providers
    BY <1>1, <1>2, <1>6, <2>1 DEF Walk, WalkInv
  <2> QED BY <1>1, <1>2, <1>6, <2>2, <2>3, <2>4 DEF Walk, WalkInv, Attempting, Request
<1> QED BY <1>1, <1>3, <1>4, <1>5, <1>6

\* One candidate is looked at: it leaves those to look at, for the candidates
\* or for those passed over.
LEMMA WalkCollect ==
  ASSUME NEW q, Walk(q), q.pc = "collect", q.rest # {}
  PROVE  LET p == FirstOf(q.rest)
         IN  /\ p \in Providers
             /\ Walk([q EXCEPT !.rest = @ \ {p}, !.cand = @ \cup {p}])
             /\ Walk([q EXCEPT !.rest = @ \ {p}, !.skipped = @ \cup {p}])
<1> DEFINE p == FirstOf(q.rest)
           taken == [q EXCEPT !.rest = @ \ {p}, !.cand = @ \cup {p}]
           passed == [q EXCEPT !.rest = @ \ {p}, !.skipped = @ \cup {p}]
<1>1. q \in Request /\ q.rest \in SUBSET Providers
  BY DEF Walk, Request
<1>2. p \in q.rest /\ p \in Providers
  BY <1>1, FirstOfMember
<1> HIDE DEF p
<1>3. taken \in Request /\ passed \in Request
  BY <1>1, <1>2 DEF Request
<1>4. WalkInv(taken)
  BY <1>1, <1>2 DEF Walk, WalkInv, Attempting, Request
<1>5. WalkInv(passed)
  BY <1>1, <1>2 DEF Walk, WalkInv, Attempting, Request
<1> QED BY <1>2, <1>3, <1>4, <1>5 DEF Walk, p

\* Every provider was looked at: the request fails with no candidate left
\* out, or takes one.
LEMMA WalkStartFallback ==
  ASSUME NEW q, Walk(q), q.pc = "collect", q.rest = {}
  PROVE  /\ q.cand = {} => Walk([q EXCEPT !.pc = "failed"])
         /\ q.cand # {} => Walk(TakeNext(q, FirstFallback(q.cand)))
<1>1. q \in Request /\ q.cand \in SUBSET Providers
  BY DEF Walk, Request
<1>2. ASSUME q.cand = {}
      PROVE  Walk([q EXCEPT !.pc = "failed"])
  BY <1>1, <1>2 DEF Walk, WalkInv, Attempting, Request
<1>3. ASSUME q.cand # {}
      PROVE  Walk(TakeNext(q, FirstFallback(q.cand)))
  <2> DEFINE p == FirstFallback(q.cand)
             t == [q EXCEPT !.pc = "try", !.cur = p, !.cand = @ \ {p}]
  <2>1. p \in q.cand
    BY <1>1, <1>3, FirstFallbackMember
  <2> HIDE DEF p
  <2>2. t \in Request
    BY <1>1, <2>1 DEF Request
  <2>3. WalkInv(t)
    BY <1>1, <2>1 DEF Walk, WalkInv, Attempting, Request
  <2> QED BY <2>2, <2>3 DEF Walk, TakeNext, p
<1> QED BY <1>2, <1>3

\* The steps that only move a request on.
LEMMA WalkOn ==
  ASSUME NEW q, Walk(q), NEW next
  PROVE  /\ q.pc = "try" /\ next = "slot" => Walk([q EXCEPT !.pc = next])
         /\ q.pc = "slot" /\ next = "call" => Walk([q EXCEPT !.pc = next])
         /\ q.pc = "call" /\ next = "trip" => Walk([q EXCEPT !.pc = next])
         /\ q.pc = "stall" /\ next = "served" => Walk([q EXCEPT !.pc = next])
         /\ q.pc = "scan" /\ next = "failed" => Walk([q EXCEPT !.pc = next])
         /\ q.pc = "stream" /\ next \in {"served", "plain", "failed"} => Walk([q EXCEPT !.pc = next])
         /\ q.pc = "plain" /\ next \in {"served", "failed"} => Walk([q EXCEPT !.pc = next])
<1> USE DEF Walk, WalkInv, Attempting, Request
<1>1. q.pc = "try" /\ next = "slot" => Walk([q EXCEPT !.pc = next])
  OBVIOUS
<1>2. q.pc = "slot" /\ next = "call" => Walk([q EXCEPT !.pc = next])
  OBVIOUS
<1>3. q.pc = "call" /\ next = "trip" => Walk([q EXCEPT !.pc = next])
  OBVIOUS
<1>4. q.pc = "stall" /\ next = "served" => Walk([q EXCEPT !.pc = next])
  OBVIOUS
<1>5. q.pc = "scan" /\ next = "failed" => Walk([q EXCEPT !.pc = next])
  OBVIOUS
<1>6. q.pc = "stream" /\ next \in {"served", "plain", "failed"} => Walk([q EXCEPT !.pc = next])
  OBVIOUS
<1>7. q.pc = "plain" /\ next \in {"served", "failed"} => Walk([q EXCEPT !.pc = next])
  OBVIOUS
<1> QED BY <1>1, <1>2, <1>3, <1>4, <1>5, <1>6, <1>7

\* The call succeeds: the provider is one more of those tried.
LEMMA WalkServed ==
  ASSUME NEW q, Walk(q), q.pc = "call", NEW next \in {"served", "stall"}
  PROVE  Walk([q EXCEPT !.pc = next, !.tried = Append(@, q.cur)])
<1>1. q \in Request /\ q.tried \in Seq(Providers) /\ q.cur \in Providers \ Range(q.tried)
  BY DEF Walk, WalkInv, Attempting, Request
<1>2. Append(q.tried, q.cur) \in Seq(Providers) /\ IsInjective(Append(q.tried, q.cur))
  BY <1>1, TriedOneMore DEF Walk, WalkInv
<1> QED BY <1>1, <1>2 DEF Walk, WalkInv, Attempting, Request

(* ------------------------------ the requests --------------------------- *)

InCall(q) == q.pc \in {"call", "trip"}

\* A request begins its call and takes a slot; ends it and gives it back; or
\* neither.
SlotStep(r, q) ==
    \/ /\ ~InCall(req[r]) /\ InCall(q)
       /\ q.cur = req[r].cur /\ q.cur \in Providers
       /\ inFlight[q.cur] < Limit
       /\ inFlight' = [inFlight EXCEPT ![q.cur] = @ + 1]
    \/ /\ InCall(req[r]) /\ ~InCall(q)
       /\ req[r].cur \in Providers
       /\ Release(req[r].cur)
    \/ /\ InCall(req[r]) <=> InCall(q)
       /\ InCall(q) => q.cur = req[r].cur
       /\ UNCHANGED inFlight

\* The step of a request: it may go on, and its slot is accounted for.
Walks(r) == \E q : Walk(q) /\ req' = [req EXCEPT ![r] = q] /\ SlotStep(r, q)

WalksInv == \A r \in Requests : Walk(req[r])

LEMMA WalksSelect ==
  ASSUME WalksInv, NEW r \in Requests, SelectProvider(r) \/ SelectPreferred(r)
  PROVE  Walks(r)
<1>1. Walk(req[r]) /\ req[r].pc = "idle"
  BY DEF WalksInv, SelectProvider, SelectPreferred
<1>2. CASE SelectProvider(r)
  <2>1. PICK supp \in SUBSET Providers, mode \in Modes :
          LET best   == BestProvider(supp)
              chosen == [IdleRequest EXCEPT !.mode = mode, !.supp = supp]
          IN  IF best # None /\ ~IsOpen(best)
              THEN req' = [req EXCEPT ![r] = Selected(chosen, best)]
              ELSE req' = [req EXCEPT ![r] = [chosen EXCEPT !.pc = "scan", !.rest = supp]]
    BY <1>2 DEF SelectProvider
  <2> DEFINE best == BestProvider(supp)
             chosen == [IdleRequest EXCEPT !.mode = mode, !.supp = supp]
  <2>2. Walk(chosen) /\ chosen.pc = "idle"
    BY RouterAssumption, WalkIdle DEF Walk, WalkInv, IdleRequest, Request, Attempting
  <2>3. CASE best # None /\ ~IsOpen(best)
    <3>1. best \in Providers
      BY <2>3, BestProviderMember
    <3>2. Walk(Selected(chosen, best)) /\ ~InCall(Selected(chosen, best))
      <4> HIDE DEF chosen, best
      <4> QED BY <2>2, <3>1, WalkSelected DEF InCall
    <3> QED BY <1>1, <1>2, <2>1, <2>3, <3>2 DEF Walks, SlotStep, InCall, SelectProvider
  <2>4. CASE ~(best # None /\ ~IsOpen(best))
    <3> DEFINE q == [chosen EXCEPT !.pc = "scan", !.rest = supp]
    <3>1. Walk(q) /\ ~InCall(q)
      <4> HIDE DEF chosen
      <4> QED BY <2>2 DEF Walk, WalkInv, Request, Attempting, InCall
    <3>2. req' = [req EXCEPT ![r] = q]
      BY <2>1, <2>4
    <3> HIDE DEF q
    <3> QED BY <1>1, <1>2, <3>1, <3>2 DEF Walks, SlotStep, InCall, SelectProvider
  <2> QED BY <2>3, <2>4
<1>3. CASE SelectPreferred(r)
  <2>1. PICK p \in Providers, mode \in Modes \ {"auto"}, healthy \in BOOLEAN :
          LET named == [IdleRequest EXCEPT !.mode = mode, !.supp = Providers]
          IN  req' = [req EXCEPT ![r] =
                  IF healthy THEN Selected(named, p) ELSE [named EXCEPT !.pc = "failed"]]
    BY <1>3 DEF SelectPreferred
  <2> DEFINE named == [IdleRequest EXCEPT !.mode = mode, !.supp = Providers]
             q == IF healthy THEN Selected(named, p) ELSE [named EXCEPT !.pc = "failed"]
  <2>2. Walk(named) /\ named.pc = "idle"
    BY RouterAssumption, WalkIdle DEF Walk, WalkInv, IdleRequest, Request, Attempting
  <2>3. Walk(q) /\ ~InCall(q)
    <3> HIDE DEF named
    <3>1. Walk(Selected(named, p)) /\ ~InCall(Selected(named, p))
      BY <2>2, WalkSelected DEF InCall
    <3>2. Walk([named EXCEPT !.pc = "failed"]) /\ ~InCall([named EXCEPT !.pc = "failed"])
      BY <2>2 DEF Walk, WalkInv, Request, Attempting, InCall
    <3> QED BY <3>1, <3>2
  <2>4. req' = [req EXCEPT ![r] = q]
    BY <2>1
  <2> HIDE DEF q
  <2> QED BY <1>1, <1>3, <2>3, <2>4 DEF Walks, SlotStep, InCall, SelectPreferred
<1> QED BY <1>2, <1>3

LEMMA WalksScan ==
  ASSUME WalksInv, NEW r \in Requests, ScanCandidate(r) \/ NoCandidate(r)
  PROVE  Walks(r)
<1>1. Walk(req[r]) /\ req[r].pc = "scan" /\ req[r].rest \in SUBSET Providers /\ ~InCall(req[r])
  BY DEF WalksInv, ScanCandidate, NoCandidate, Walk, Request, InCall
<1>2. CASE ScanCandidate(r)
  <2> DEFINE p == FirstOf(req[r].rest)
  <2>1. PICK healthy \in BOOLEAN :
          req' = [req EXCEPT ![r] = IF healthy THEN Selected(@, p) ELSE [req[r] EXCEPT !.rest = @ \ {p}]]
    BY <1>2 DEF ScanCandidate
  <2>2. p \in Providers
    BY <1>1, <1>2, FirstOfMember DEF ScanCandidate
  <2> HIDE DEF p
  <2>3. Walk(Selected(req[r], p)) /\ ~InCall(Selected(req[r], p))
    BY <1>1, <2>2, WalkSelected DEF InCall
  <2>4. Walk([req[r] EXCEPT !.rest = @ \ {p}]) /\ ~InCall([req[r] EXCEPT !.rest = @ \ {p}])
    BY <1>1 DEF Walk, WalkInv, Request, Attempting, InCall
  <2>5. UNCHANGED inFlight
    BY <1>2 DEF ScanCandidate
  <2> QED BY <1>1, <2>1, <2>3, <2>4, <2>5 DEF Walks, SlotStep
<1>3. CASE NoCandidate(r)
  <2> DEFINE q == [req[r] EXCEPT !.pc = "failed"]
  <2>1. Walk(q) /\ ~InCall(q)
    BY <1>1, WalkOn DEF InCall, Walk, Request
  <2>2. req' = [req EXCEPT ![r] = q] /\ UNCHANGED inFlight
    BY <1>3 DEF NoCandidate
  <2> HIDE DEF q
  <2> QED BY <1>1, <2>1, <2>2 DEF Walks, SlotStep
<1> QED BY <1>2, <1>3

\* The steps that leave tryProvider before the call.
LEMMA WalksBeforeCall ==
  ASSUME WalksInv, NEW r \in Requests, RefuseEarly(r) \/ GiveUpQueue(r) \/ PassLimiter(r) \/ AcquireSlot(r)
  PROVE  Walks(r)
<1>1. Walk(req[r]) /\ Attempting(req[r]) /\ ~InCall(req[r])
  BY DEF WalksInv, RefuseEarly, GiveUpQueue, PassLimiter, AcquireSlot, Attempting, InCall
<1>2. CASE RefuseEarly(r) \/ GiveUpQueue(r)
  <2>1. Walk(AfterFailure(req[r])) /\ ~InCall(AfterFailure(req[r]))
    BY <1>1, WalkAfterFailure DEF InCall
  <2> QED BY <1>1, <1>2, <2>1 DEF Walks, SlotStep, RefuseEarly, GiveUpQueue
<1>3. CASE PassLimiter(r)
  <2> DEFINE q == [req[r] EXCEPT !.pc = "slot"]
  <2>1. Walk(q) /\ ~InCall(q)
    BY <1>1, <1>3, WalkOn DEF InCall, Walk, Request, PassLimiter
  <2>2. req' = [req EXCEPT ![r] = q] /\ UNCHANGED inFlight
    BY <1>3 DEF PassLimiter
  <2> QED BY <1>1, <2>1, <2>2 DEF Walks, SlotStep
<1>4. CASE AcquireSlot(r)
  <2> DEFINE q == [req[r] EXCEPT !.pc = "call"]
  <2>1. Walk(q) /\ InCall(q) /\ q.cur = req[r].cur /\ q.cur \in Providers
    BY <1>1, <1>4, WalkOn DEF InCall, Walk, WalkInv, Request, AcquireSlot, Attempting
  <2>2. req' = [req EXCEPT ![r] = q]
    BY <1>4 DEF AcquireSlot
  <2>3. inFlight[q.cur] < Limit /\ inFlight' = [inFlight EXCEPT ![q.cur] = @ + 1]
    BY <1>4, <2>1 DEF AcquireSlot
  <2> HIDE DEF q
  <2> QED BY <1>1, <2>1, <2>2, <2>3 DEF Walks, SlotStep
<1> QED BY <1>2, <1>3, <1>4

\* The end of a call, by an answer or by a failure.
LEMMA WalksCall ==
  ASSUME WalksInv, NEW r \in Requests,
         CallSucceeds(r) \/ CallRateLimited(r) \/ CallFails(r) \/ TripCircuit(r)
  PROVE  Walks(r)
<1>1. Walk(req[r]) /\ Attempting(req[r]) /\ InCall(req[r]) /\ req[r].cur \in Providers
  BY DEF WalksInv, CallSucceeds, CallRateLimited, CallFails, TripCircuit, Attempting, InCall, Walk, WalkInv
<1>2. Walk(AfterFailure(req[r])) /\ ~InCall(AfterFailure(req[r]))
  BY <1>1, WalkAfterFailure DEF InCall
<1>3. CASE CallSucceeds(r)
  <2>1. PICK next \in {"served", "stall"} :
          req' = [req EXCEPT ![r] = [req[r] EXCEPT !.pc = next, !.tried = Append(@, req[r].cur)]]
    BY <1>3 DEF CallSucceeds
  <2> DEFINE q == [req[r] EXCEPT !.pc = next, !.tried = Append(@, req[r].cur)]
  <2>2. Walk(q) /\ ~InCall(q)
    BY <1>1, <1>3, WalkServed DEF InCall, Walk, Request, CallSucceeds
  <2>3. req' = [req EXCEPT ![r] = q]
    BY <2>1
  <2>4. Release(req[r].cur)
    BY <1>3 DEF CallSucceeds
  <2> HIDE DEF q
  <2> QED BY <1>1, <2>2, <2>3, <2>4 DEF Walks, SlotStep
<1>4. CASE CallRateLimited(r) \/ TripCircuit(r)
  BY <1>1, <1>2, <1>4 DEF Walks, SlotStep, CallRateLimited, TripCircuit
<1>5. CASE CallFails(r)
  <2>1. CASE Release(req[r].cur) /\ req' = [req EXCEPT ![r] = AfterFailure(@)]
    BY <1>1, <1>2, <2>1 DEF Walks, SlotStep
  <2>2. CASE UNCHANGED inFlight /\ req' = [req EXCEPT ![r].pc = "trip"]
    <3> DEFINE q == [req[r] EXCEPT !.pc = "trip"]
    <3>1. Walk(q) /\ InCall(q) /\ q.cur = req[r].cur
      BY <1>1, <1>5, WalkOn DEF InCall, Walk, Request, CallFails
    <3>2. req' = [req EXCEPT ![r] = q]
      BY <2>2
    <3> HIDE DEF q
    <3> QED BY <1>1, <2>2, <3>1, <3>2 DEF Walks, SlotStep
  <2> QED BY <1>5, <2>1, <2>2 DEF CallFails
<1> QED BY <1>3, <1>4, <1>5

LEMMA WalksFallback ==
  ASSUME WalksInv, NEW r \in Requests, CollectCandidate(r) \/ StartFallback(r)
  PROVE  Walks(r)
<1>1. Walk(req[r]) /\ req[r].pc = "collect" /\ ~InCall(req[r])
  BY DEF WalksInv, CollectCandidate, StartFallback, InCall
<1>2. CASE CollectCandidate(r)
  <2> DEFINE p == FirstOf(req[r].rest)
             taken == [req[r] EXCEPT !.rest = @ \ {p}, !.cand = @ \cup {p}]
             passed == [req[r] EXCEPT !.rest = @ \ {p}, !.skipped = @ \cup {p}]
  <2>1. PICK healthy \in BOOLEAN :
          req' = [req EXCEPT ![r] =
                     IF healthy THEN [req[r] EXCEPT !.rest = @ \ {p}, !.cand = @ \cup {p}]
                                ELSE [req[r] EXCEPT !.rest = @ \ {p}, !.skipped = @ \cup {p}]]
    BY <1>2 DEF CollectCandidate
  <2>2. Walk(taken) /\ Walk(passed)
    BY <1>1, <1>2, WalkCollect DEF CollectCandidate
  <2>3. ~InCall(taken) /\ ~InCall(passed) /\ UNCHANGED inFlight
    BY <1>1, <1>2 DEF CollectCandidate, InCall, Walk, Request
  <2>4. req' = [req EXCEPT ![r] = taken] \/ req' = [req EXCEPT ![r] = passed]
    BY <2>1
  <2> HIDE DEF taken, passed
  <2> QED BY <1>1, <2>2, <2>3, <2>4 DEF Walks, SlotStep
<1>3. CASE StartFallback(r)
  <2> DEFINE q == IF req[r].cand = {} THEN [req[r] EXCEPT !.pc = "failed"]
                  ELSE TakeNext(req[r], FirstFallback(req[r].cand))
  <2>1. req' = [req EXCEPT ![r] = q] /\ UNCHANGED inFlight
    BY <1>3 DEF StartFallback
  <2>2. Walk(q) /\ ~InCall(q)
    BY <1>1, <1>3, WalkStartFallback DEF StartFallback, TakeNext, InCall, Walk, Request
  <2> HIDE DEF q
  <2> QED BY <1>1, <2>1, <2>2 DEF Walks, SlotStep
<1> QED BY <1>2, <1>3

\* The steps after the chain and those of the streaming entry point.
LEMMA WalksEnd ==
  ASSUME WalksInv, NEW r \in Requests, StallRetryEnds(r) \/ ProceedNamed(r)
  PROVE  Walks(r)
<1>1. Walk(req[r]) /\ ~InCall(req[r]) /\ UNCHANGED inFlight
  BY DEF WalksInv, StallRetryEnds, ProceedNamed, StreamSucceeds, StreamFails, PlainCallEnds, InCall
<1>2. PICK next : /\ \/ req[r].pc = "stall" /\ next = "served"
                     \/ req[r].pc = "stream" /\ next \in {"served", "plain", "failed"}
                     \/ req[r].pc = "plain" /\ next \in {"served", "failed"}
                  /\ req' = [req EXCEPT ![r].pc = next]
  <2>1. CASE StallRetryEnds(r)
    BY <2>1 DEF StallRetryEnds
  <2>2. CASE StreamSucceeds(r)
    BY <2>2 DEF StreamSucceeds
  <2>3. CASE StreamFails(r)
    BY <2>3 DEF StreamFails
  <2>4. CASE PlainCallEnds(r)
    BY <2>4 DEF PlainCallEnds
  <2> QED BY <2>1, <2>2, <2>3, <2>4 DEF ProceedNamed
<1> DEFINE q == [req[r] EXCEPT !.pc = next]
<1>3. Walk(q) /\ ~InCall(q)
  BY <1>1, <1>2, WalkOn DEF InCall, Walk, Request
<1>4. req' = [req EXCEPT ![r] = q]
  BY <1>2
<1> HIDE DEF q
<1> QED BY <1>1, <1>3, <1>4 DEF Walks, SlotStep

\* Next, one disjunct for each kind of step: of a request, or of the
\* environment.
LEMMA RouterCases ==
  ASSUME Next
  PROVE  \/ \E r \in Requests :
              \/ SelectProvider(r) \/ SelectPreferred(r) \/ ScanCandidate(r) \/ NoCandidate(r)
              \/ RefuseEarly(r) \/ PassLimiter(r) \/ AcquireSlot(r) \/ GiveUpQueue(r)
              \/ CallSucceeds(r) \/ CallRateLimited(r) \/ CallFails(r) \/ TripCircuit(r)
              \/ CollectCandidate(r) \/ StartFallback(r)
              \/ StallRetryEnds(r) \/ ProceedNamed(r)
         \/ (\E p \in Providers : CacheExpires(p) \/ ResetCircuit(p) \/ TraceProvider(p)) \/ Tick \/ NewDay
BY DEF Next, Proceed, ProceedAuto

LEMMA NextWalks ==
  ASSUME WalksInv, [Next]_vars
  PROVE  (\E r \in Requests : Walks(r)) \/ UNCHANGED <<req, inFlight>>
<1>1. ASSUME NEW p \in Providers, CacheExpires(p) \/ ResetCircuit(p) \/ TraceProvider(p)
      PROVE  UNCHANGED <<req, inFlight>>
  BY <1>1 DEF CacheExpires, ResetCircuit, TraceProvider
<1>2. ASSUME Tick \/ NewDay \/ UNCHANGED vars
      PROVE  UNCHANGED <<req, inFlight>>
  BY <1>2 DEF Tick, NewDay, vars
<1> QED
  BY <1>1, <1>2, RouterCases, WalksSelect, WalksScan, WalksBeforeCall, WalksCall, WalksFallback, WalksEnd

\* The requests keep their types and their invariant.
LEMMA WalksStep ==
  ASSUME req \in [Requests -> Request], WalksInv, [Next]_vars
  PROVE  req' \in [Requests -> Request] /\ WalksInv'
<1>1. CASE UNCHANGED req
  BY <1>1 DEF WalksInv, Walk, WalkInv, Attempting
<1>2. ASSUME NEW r \in Requests, Walks(r)
      PROVE  req' \in [Requests -> Request] /\ WalksInv'
  <2>1. PICK q : Walk(q) /\ req' = [req EXCEPT ![r] = q]
    BY <1>2 DEF Walks
  <2>2. q \in Request
    BY <2>1 DEF Walk
  <2>3. \A s \in Requests : req'[s] = IF s = r THEN q ELSE req[s]
    BY <2>1
  <2>4. \A s \in Requests : Walk(req'[s])
    BY <2>1, <2>3 DEF WalksInv
  <2> QED BY <2>1, <2>2, <2>4 DEF WalksInv
<1> QED BY <1>1, <1>2, NextWalks

(* -------------------------------- the rows ----------------------------- *)

\* One row at most is changed.
Touches(p) == \E new \in Row : row' = [row EXCEPT ![p] = new]

LEMMA LookTouches ==
  ASSUME NEW p \in Providers, row \in [Providers -> Row], Look(p)
  PROVE  Touches(p)
<1>1. row[p] \in Row
  OBVIOUS
<1>2. Looked(p) \in Row
  BY <1>1, RowOperators, 0 \in Nat DEF Looked
<1> QED BY <1>2 DEF Look, Touches

LEMMA HealthCheckTouches ==
  ASSUME NEW p \in Providers, NEW healthy \in BOOLEAN, row \in [Providers -> Row],
         cache \in [Providers -> {"none", "healthy", "unhealthy"}], HealthCheck(p, healthy)
  PROVE  Touches(p) /\ cache' \in [Providers -> {"none", "healthy", "unhealthy"}]
<1>1. Touches(p)
  BY LookTouches DEF HealthCheck
<1>2. cache' = cache \/ cache' = [cache EXCEPT ![p] = IF healthy THEN "healthy" ELSE "unhealthy"]
  BY DEF HealthCheck
<1> QED BY <1>1, <1>2

\* What a step does to the rows, the cache and the usage.
SharedStep ==
    /\ \/ \E p \in Providers : Touches(p)
       \/ row' = [p \in Providers |-> Later(row[p])]
       \/ UNCHANGED row
    /\ cache' \in [Providers -> {"none", "healthy", "unhealthy"}]
    /\ usage' \in [Tracked -> 0..Full]

LEMMA NextShared ==
  ASSUME row \in [Providers -> Row], cache \in [Providers -> {"none", "healthy", "unhealthy"}],
         usage \in [Tracked -> 0..Full], WalksInv, [Next]_vars
  PROVE  SharedStep
<1> USE DEF SharedStep
<1>1. ASSUME NEW r \in Requests, SelectProvider(r)
      PROVE  SharedStep
  <2>1. PICK supp \in SUBSET Providers :
          (BestProvider(supp) # None /\ Look(BestProvider(supp))) \/ UNCHANGED row
    BY <1>1 DEF SelectProvider
  <2>2. BestProvider(supp) # None => BestProvider(supp) \in Providers
    BY BestProviderMember
  <2> QED BY <1>1, <2>1, <2>2, LookTouches DEF SelectProvider
<1>2. ASSUME NEW r \in Requests, SelectPreferred(r)
      PROVE  SharedStep
  <2>1. PICK p \in Providers, healthy \in BOOLEAN : HealthCheck(p, healthy)
    BY <1>2 DEF SelectPreferred
  <2> QED BY <1>2, <2>1, HealthCheckTouches DEF SelectPreferred
<1>3. ASSUME NEW r \in Requests, ScanCandidate(r) \/ CollectCandidate(r)
      PROVE  SharedStep
  <2>1. req[r].rest \in SUBSET Providers /\ req[r].rest # {}
    BY <1>3 DEF ScanCandidate, CollectCandidate, WalksInv, Walk, Request
  <2>2. FirstOf(req[r].rest) \in Providers
    BY <2>1, FirstOfMember
  <2>3. PICK healthy \in BOOLEAN : HealthCheck(FirstOf(req[r].rest), healthy)
    BY <1>3 DEF ScanCandidate, CollectCandidate
  <2> QED BY <1>3, <2>2, <2>3, HealthCheckTouches DEF ScanCandidate, CollectCandidate
<1>4. ASSUME NEW r \in Requests,
             \/ NoCandidate(r) \/ RefuseEarly(r) \/ PassLimiter(r) \/ AcquireSlot(r) \/ GiveUpQueue(r)
             \/ CallRateLimited(r) \/ StartFallback(r) \/ StallRetryEnds(r)
             \/ StreamFails(r) \/ PlainCallEnds(r)
      PROVE  SharedStep
  BY <1>4 DEF NoCandidate, RefuseEarly, PassLimiter, AcquireSlot, GiveUpQueue, CallRateLimited,
              StartFallback, StallRetryEnds, StreamFails, PlainCallEnds
<1>5. ASSUME NEW r \in Requests, CallSucceeds(r)
      PROVE  SharedStep
  <2> DEFINE p == req[r].cur
  <2>1. p \in Providers
    BY <1>5 DEF CallSucceeds, WalksInv, Walk, WalkInv, Attempting
  <2>2. row' = [row EXCEPT ![p] = ClosedRow] /\ MarkHealthy(p) /\ AddUsage(p)
    BY <1>5 DEF CallSucceeds
  <2> HIDE DEF p
  <2>3. Touches(p)
    BY <2>1, <2>2, RowOperators, 0 \in Nat DEF Touches
  <2>4. cache' \in [Providers -> {"none", "healthy", "unhealthy"}]
    BY <2>2 DEF MarkHealthy
  <2>5. usage' \in [Tracked -> 0..Full]
    <3>1. CASE p \in Tracked /\ usage[p] < Full
      <4>1. PICK n \in usage[p]..Full : usage' = [usage EXCEPT ![p] = n]
        BY <2>2, <3>1 DEF AddUsage
      <4>2. n \in 0..Full
        BY <3>1, RouterAssumption
      <4> QED BY <4>1, <4>2
    <3> QED BY <2>2, <3>1 DEF AddUsage
  <2> QED BY <2>1, <2>3, <2>4, <2>5
<1>6. ASSUME NEW r \in Requests, CallFails(r) \/ TripCircuit(r)
      PROVE  SharedStep
  <2>1. req[r].cur \in Providers
    BY <1>6 DEF CallFails, TripCircuit, WalksInv, Walk, WalkInv, Attempting
  <2>2. Touches(req[r].cur)
    BY <1>6, <2>1, RowOperators, CircuitAssumption DEF CallFails, TripCircuit, Touches
  <2> QED BY <1>6, <2>1, <2>2 DEF CallFails, TripCircuit
<1>7. ASSUME NEW r \in Requests, StreamSucceeds(r)
      PROVE  SharedStep
  <2>1. req[r].cur \in Providers
    BY <1>7 DEF StreamSucceeds, WalksInv, Walk, WalkInv
  <2>2. Touches(req[r].cur)
    BY <1>7, <2>1, RowOperators, 0 \in Nat DEF StreamSucceeds, Touches
  <2> QED BY <1>7, <2>1, <2>2 DEF StreamSucceeds
<1>8. ASSUME NEW p \in Providers, CacheExpires(p)
      PROVE  SharedStep
  BY <1>8 DEF CacheExpires
<1>9. ASSUME NEW p \in Providers, ResetCircuit(p) \/ TraceProvider(p)
      PROVE  SharedStep
  <2>1. Touches(p)
    BY <1>9, LookTouches, RowOperators, 0 \in Nat DEF ResetCircuit, TraceProvider, Touches
  <2> QED BY <1>9, <2>1 DEF ResetCircuit, TraceProvider
<1>10. CASE Tick
  BY <1>10 DEF Tick
<1>11. CASE NewDay
  <2>1. 0 \in 0..Full
    BY RouterAssumption
  <2> QED BY <1>11, <2>1 DEF NewDay
<1>12. CASE UNCHANGED vars
  BY <1>12 DEF vars
<1> QED
  BY <1>1, <1>2, <1>3, <1>4, <1>5, <1>6, <1>7, <1>8, <1>9, <1>10, <1>11, <1>12, RouterCases DEF ProceedNamed

LEMMA RowsStep ==
  ASSUME row \in [Providers -> Row], SharedStep
  PROVE  row' \in [Providers -> Row]
<1>1. \A p \in Providers : Later(row[p]) \in Row
  BY RowOperators, 0 \in Nat
<1>2. ASSUME NEW p \in Providers, Touches(p)
      PROVE  row' \in [Providers -> Row]
  BY <1>2 DEF Touches
<1> QED BY <1>1, <1>2 DEF SharedStep

(* ------------------------------- the slots ----------------------------- *)

\* The requests in a call to a provider after a step of request r.
LEMMA HoldersAfter ==
  ASSUME req \in [Requests -> Request], NEW r \in Requests, NEW q, req' = [req EXCEPT ![r] = q],
         NEW p \in Providers
  PROVE  Holders(p)' = (Holders(p) \ {r}) \cup (IF InCall(q) /\ q.cur = p THEN {r} ELSE {})
<1>1. \A s \in Requests : req'[s] = IF s = r THEN q ELSE req[s]
  OBVIOUS
<1> QED BY <1>1 DEF Holders, InCall

\* A request that begins its call adds itself and a slot; one that ends it
\* takes both away; no other step changes either.
LEMMA SlotsStep ==
  ASSUME req \in [Requests -> Request], inFlight \in [Providers -> Nat], WalksInv, SlotsAreHeld, [Next]_vars
  PROVE  inFlight' \in [Providers -> Nat] /\ SlotsAreHeld'
<1> USE RouterAssumption
<1>1. CASE UNCHANGED <<req, inFlight>>
  <2>1. \A p \in Providers : Holders(p)' = Holders(p)
    BY <1>1 DEF Holders
  <2> QED BY <1>1, <2>1 DEF SlotsAreHeld
<1>2. ASSUME NEW r \in Requests, Walks(r)
      PROVE  inFlight' \in [Providers -> Nat] /\ SlotsAreHeld'
  <2>1. PICK q : req' = [req EXCEPT ![r] = q] /\ SlotStep(r, q)
    BY <1>2 DEF Walks
  <2>2. \A p \in Providers : IsFiniteSet(Holders(p))
    BY FS_Subset DEF Holders
  <2>3. \A p \in Providers : r \in Holders(p) <=> InCall(req[r]) /\ req[r].cur = p
    BY DEF Holders, InCall
  <2>4. SUFFICES ASSUME NEW p \in Providers
                 PROVE  /\ inFlight'[p] \in Nat
                        /\ inFlight'[p] = Cardinality(Holders(p)')
                        /\ inFlight'[p] <= Limit
    <3>1. inFlight' = [p \in Providers |-> inFlight'[p]]
      BY <2>1 DEF SlotStep, Release
    <3> QED BY <3>1 DEF SlotsAreHeld
  <2> DEFINE mine == IF InCall(q) /\ q.cur = p THEN {r} ELSE {}
  <2>5. Holders(p)' = (Holders(p) \ {r}) \cup mine
    BY <2>1, HoldersAfter
  <2>6. inFlight[p] = Cardinality(Holders(p)) /\ inFlight[p] <= Limit /\ inFlight[p] \in Nat
    BY DEF SlotsAreHeld
  <2>7. CASE /\ ~InCall(req[r]) /\ InCall(q)
             /\ q.cur = req[r].cur /\ q.cur \in Providers
             /\ inFlight[q.cur] < Limit
             /\ inFlight' = [inFlight EXCEPT ![q.cur] = @ + 1]
    <3>1. CASE q.cur = p
      <4>1. Holders(p)' = Holders(p) \cup {r} /\ r \notin Holders(p)
        BY <2>3, <2>7, <2>5, <3>1
      <4>2. Cardinality(Holders(p) \cup {r}) = Cardinality(Holders(p)) + 1
        BY <2>2, <4>1, FS_AddElement
      <4>3. inFlight'[p] = inFlight[p] + 1
        BY <2>7, <3>1
      <4> QED BY <2>6, <2>7, <3>1, <4>1, <4>2, <4>3
    <3>2. CASE q.cur # p
      <4>1. Holders(p)' = Holders(p)
        BY <2>3, <2>7, <2>5, <3>2
      <4>2. inFlight'[p] = inFlight[p]
        BY <2>7, <3>2
      <4> QED BY <2>6, <4>1, <4>2
    <3> QED BY <3>1, <3>2
  <2>8. CASE InCall(req[r]) /\ ~InCall(q) /\ req[r].cur \in Providers /\ Release(req[r].cur)
    <3>1. Holders(p)' = Holders(p) \ {r}
      BY <2>8, <2>5
    <3>2. CASE req[r].cur = p
      <4>1. r \in Holders(p)
        BY <2>3, <2>8, <3>2
      <4>2. Cardinality(Holders(p) \ {r}) = Cardinality(Holders(p)) - 1
        BY <2>2, <4>1, FS_RemoveElement
      <4>3. Cardinality(Holders(p) \ {r}) \in Nat
        BY <2>2, FS_RemoveElement, FS_CardinalityType
      <4>4. inFlight'[p] = inFlight[p] - 1
        BY <2>8, <3>2 DEF Release
      <4> QED BY <2>6, <3>1, <4>2, <4>3, <4>4
    <3>3. CASE req[r].cur # p
      <4>1. Holders(p)' = Holders(p)
        BY <2>3, <3>1, <3>3
      <4>2. inFlight'[p] = inFlight[p]
        BY <2>8, <3>3 DEF Release
      <4> QED BY <2>6, <4>1, <4>2
    <3> QED BY <3>2, <3>3
  <2>9. CASE /\ InCall(req[r]) <=> InCall(q)
             /\ InCall(q) => q.cur = req[r].cur
             /\ UNCHANGED inFlight
    <3>1. Holders(p)' = Holders(p)
      BY <2>3, <2>9, <2>5
    <3> QED BY <2>6, <2>9, <3>1
  <2> QED BY <2>1, <2>7, <2>8, <2>9 DEF SlotStep
<1> QED BY <1>1, <1>2, NextWalks

(* ------------------------------- theorems ------------------------------ *)

\* The inductive invariant: the types, the walk of every request and the
\* account of the slots.  The types alone are not inductive: that a slot
\* given back was taken is what keeps the count a natural number.
RouterInv == TypeOK /\ WalksInv /\ SlotsAreHeld

LEMMA RouterInvInit == Init => RouterInv
<1> SUFFICES ASSUME Init
             PROVE  RouterInv
  OBVIOUS
<1>1. TypeOK
  <2>1. IdleRequest \in Request
    BY WalkIdle DEF Walk
  <2>2. 0 \in 0..Full
    BY RouterAssumption
  <2> QED BY <2>1, <2>2, CircuitAssumption DEF Init, TypeOK, ClosedRow, Row, NoDeadline
<1>2. WalksInv
  BY WalkIdle DEF Init, WalksInv
<1>3. SlotsAreHeld
  <2>1. \A p \in Providers : Holders(p) = {}
    BY DEF Init, Holders, IdleRequest
  <2>2. Cardinality({}) = 0 /\ 0 <= Limit
    BY FS_EmptySet, RouterAssumption
  <2> QED BY <2>1, <2>2 DEF Init, SlotsAreHeld
<1> QED BY <1>1, <1>2, <1>3 DEF RouterInv

LEMMA RouterInvStep == RouterInv /\ [Next]_vars => RouterInv'
<1> SUFFICES ASSUME RouterInv, [Next]_vars
             PROVE  RouterInv'
  OBVIOUS
<1> USE DEF RouterInv, TypeOK
<1>1. req' \in [Requests -> Request] /\ WalksInv'
  BY WalksStep
<1>2. inFlight' \in [Providers -> Nat] /\ SlotsAreHeld'
  BY SlotsStep
<1>3. SharedStep
  BY NextShared
<1>4. row' \in [Providers -> Row]
  BY <1>3, RowsStep
<1> QED BY <1>1, <1>2, <1>3, <1>4 DEF SharedStep

LEMMA RouterInvariant == Spec => []RouterInv
BY RouterInvInit, RouterInvStep, PTL DEF Spec

(* The rows, the cache, the semaphores, the usage and the requests keep     *)
(* their types, whatever is routed (router.go:433-950).                     *)
THEOREM RouterTypeCorrect == Spec => []TypeOK
BY RouterInvariant, PTL DEF RouterInv

(* Every slot taken belongs to a call in progress, and a semaphore is never *)
(* overfull (concurrency.go:83-106, tryProvider's release).                 *)
THEOREM SlotsAreThoseOfCalls == Spec => []SlotsAreHeld
BY RouterInvariant, PTL DEF RouterInv

(* No request asks a provider twice, and none says that all providers      *)
(* failed while one was neither tried nor found unusable                    *)
(* (tryProvidersWithFallback, router.go:700-781).                           *)
THEOREM ChainsAreWalked == Spec => []ChainIsWalked
<1>1. WalksInv => ChainIsWalked
  BY DEF WalksInv, Walk, WalkInv, ChainIsWalked, NoProviderTwice, AllProvidersFailed
<1> QED BY <1>1, RouterInvariant, PTL DEF RouterInv

(* ------------------------- rows and abstract breakers ------------------ *)

\* What a step of request r, after which it is q, does to the row of p and to
\* the stage of r with it: a step of the abstract breaker, or nothing.
RowStep(p, r, q) ==
    LET from == StageWith(p, req[r])
        to   == StageWith(p, q)
    IN  \/ row'[p] = row[p] /\ to = from
        \/ row'[p] = row[p] /\ row[p].state # "open" /\ from = "idle" /\ to = "admitted"
        \/ /\ Expired(row[p]) /\ row'[p] = HalfOpened(row[p])
           /\ to = from \/ (from = "idle" /\ to = "admitted")
        \/ row'[p] = ClosedRow /\ from = "admitted" /\ to = "idle"
        \/ row'[p] = WithFailure(row[p]) /\ from = "admitted" /\ to \in {"idle", "tripping"}
        \/ row'[p] = Opened(row[p], RateLimitCooldown) /\ from = "tripping" /\ to = "idle"
        \/ row'[p] = row[p] /\ from = "admitted" /\ to = "idle"

AbstractStep(p) == UNCHANGED CircuitOf(p)!abstractVars \/ CircuitOf(p)!AbstractNext

LEMMA RowStepIsAbstract ==
  ASSUME NEW p \in Providers, row \in [Providers -> Row], NEW r \in Requests, NEW q,
         req \in [Requests -> Request], req' = [req EXCEPT ![r] = q], RowStep(p, r, q)
  PROVE  AbstractStep(p)
<1> DEFINE from == StageWith(p, req[r])
           to == StageWith(p, q)
           before == [s \in Requests |-> StageWith(p, req[s])]
           after == [s \in Requests |-> StageWith(p, req'[s])]
<1>1. before[r] = from /\ after = [before EXCEPT ![r] = to]
  <2>1. \A s \in Requests : req'[s] = IF s = r THEN q ELSE req[s]
    OBVIOUS
  <2> QED BY <2>1
<1>2. /\ row[p] \in Row /\ row[p].failures \in 0..Threshold /\ Threshold \in Nat \ {0}
      /\ row[p].deadline \in Nat \cup {-1}
      /\ Cooldown \in Nat \ {0} /\ RateLimitCooldown \in Nat \ {0}
  BY CircuitAssumption DEF Row, NoDeadline
<1> HIDE DEF from, to, before, after
<1>3. CASE row'[p] = row[p] /\ to = from
  <2>1. after = before
    BY <1>1, <1>3 DEF before
  <2> QED BY <1>3, <2>1 DEF AbstractStep, CircuitOf!abstractVars, before, after
<1>4. CASE row'[p] = row[p] /\ row[p].state # "open" /\ from = "idle" /\ to = "admitted"
  <2>1. CircuitOf(p)!LetThrough(r)
    BY <1>1, <1>4 DEF CircuitOf!LetThrough, CircuitOf!Goes, before, after
  <2> QED BY <2>1 DEF AbstractStep, CircuitOf!AbstractNext
<1>5. CASE /\ Expired(row[p]) /\ row'[p] = HalfOpened(row[p])
           /\ to = from \/ (from = "idle" /\ to = "admitted")
  <2>1. /\ row[p].state = "open" /\ row[p].deadline = 0
        /\ row'[p].state = "half_open" /\ row'[p].failures = row[p].failures
    BY <1>2, <1>5 DEF Expired, HalfOpened, Row
  <2>2. after = before \/ (before[r] = "idle" /\ after = [before EXCEPT ![r] = "admitted"])
    BY <1>1, <1>5 DEF before
  <2>3. CircuitOf(p)!HalfOpened /\ row[p].state = "open" /\ ~(row[p].deadline > 0)
    BY <1>2, <2>1 DEF CircuitOf!HalfOpened
  <2>4. before = after \/ CircuitOf(p)!Goes(r, "idle", "admitted")
    BY <2>2 DEF CircuitOf!Goes, before, after
  <2>5. CircuitOf(p)!HalfOpenAtOnce
    BY <2>3, <2>4 DEF CircuitOf!HalfOpenAtOnce, before, after
  <2> QED BY <2>5 DEF AbstractStep, CircuitOf!AbstractNext
<1>6. CASE row'[p] = ClosedRow /\ from = "admitted" /\ to = "idle"
  <2>1. CircuitOf(p)!Answer(r)
    BY <1>1, <1>6 DEF ClosedRow, CircuitOf!Answer, CircuitOf!Closed, CircuitOf!Goes, before, after
  <2> QED BY <2>1 DEF AbstractStep, CircuitOf!AbstractNext
<1>7. CASE row'[p] = WithFailure(row[p]) /\ from = "admitted" /\ to \in {"idle", "tripping"}
  <2>1. /\ row'[p].failures = IF row[p].failures < Threshold THEN row[p].failures + 1
                              ELSE row[p].failures
        /\ IF row[p].failures + 1 >= Threshold
           THEN row'[p].state = "open" /\ row'[p].deadline > 0
           ELSE row'[p].state = row[p].state /\ row'[p].deadline = row[p].deadline
    BY <1>2, <1>7, FailureCounts
  <2>2. CircuitOf(p)!Goes(r, "admitted", "idle") \/ CircuitOf(p)!Goes(r, "admitted", "tripping")
    BY <1>1, <1>7 DEF CircuitOf!Goes, before, after
  <2>3. CircuitOf(p)!Fail(r)
    BY <2>1, <2>2 DEF CircuitOf!Fail
  <2> QED BY <2>3 DEF AbstractStep, CircuitOf!AbstractNext
<1>8. CASE row'[p] = Opened(row[p], RateLimitCooldown) /\ from = "tripping" /\ to = "idle"
  <2>1. row'[p].state = "open" /\ row'[p].deadline > 0 /\ row'[p].failures = row[p].failures
    BY <1>2, <1>8 DEF Opened, Row
  <2>2. CircuitOf(p)!Trip(r)
    BY <1>1, <1>8, <2>1 DEF CircuitOf!Trip, CircuitOf!Goes, before, after
  <2> QED BY <2>2 DEF AbstractStep, CircuitOf!AbstractNext
<1>9. CASE row'[p] = row[p] /\ from = "admitted" /\ to = "idle"
  <2>1. CircuitOf(p)!Forget(r)
    BY <1>1, <1>9 DEF CircuitOf!Forget, CircuitOf!Goes, before, after
  <2> QED BY <2>1 DEF AbstractStep, CircuitOf!AbstractNext
<1> QED BY <1>3, <1>4, <1>5, <1>6, <1>7, <1>8, <1>9 DEF RowStep, from, to

\* A look at p that ends in the use of p, or in its being passed over.
LEMMA LookIsStep ==
  ASSUME NEW p \in Providers, row \in [Providers -> Row], Look(p), NEW r \in Requests, NEW q,
         StageWith(p, q) = StageWith(p, req[r])
           \/ (~IsOpen(p) /\ StageWith(p, req[r]) = "idle" /\ StageWith(p, q) = "admitted"),
         \A o \in Providers \ {p} : StageWith(o, q) = StageWith(o, req[r])
  PROVE  \A o \in Providers : RowStep(o, r, q)
<1>1. row'[p] = Looked(p) /\ \A o \in Providers \ {p} : row'[o] = row[o]
  BY DEF Look
<1>2. RowStep(p, r, q)
  BY <1>1 DEF RowStep, Looked, IsOpen
<1> QED BY <1>1, <1>2 DEF RowStep

LEMMA CheckIsStep ==
  ASSUME NEW p \in Providers, row \in [Providers -> Row], NEW healthy \in BOOLEAN, HealthCheck(p, healthy),
         NEW r \in Requests, NEW q,
         StageWith(p, q) = StageWith(p, req[r])
           \/ (healthy /\ StageWith(p, req[r]) = "idle" /\ StageWith(p, q) = "admitted"),
         \A o \in Providers \ {p} : StageWith(o, q) = StageWith(o, req[r])
  PROVE  \A o \in Providers : RowStep(o, r, q)
<1>1. Look(p) /\ (healthy => ~IsOpen(p))
  BY DEF HealthCheck
<1> QED BY <1>1, LookIsStep

\* The stages of a request that is selected, or that was not yet.
LEMMA StagesBefore ==
  ASSUME NEW q, Walk(q), q.pc \in {"idle", "scan", "plain", "stall", "served", "failed"}, NEW o
  PROVE  StageWith(o, q) = "idle"
BY DEF StageWith

LEMMA StagesSelected ==
  ASSUME NEW q, q \in Request, q.cand = {}, NEW p \in Providers
  PROVE  /\ StageWith(p, Selected(q, p)) = "admitted"
         /\ \A o \in Providers \ {p} : StageWith(o, Selected(q, p)) = "idle"
<1>1. Selected(q, p).pc \in {"stream", "try"} /\ Selected(q, p).cur = p /\ Selected(q, p).cand = {}
  BY DEF Selected, Request
<1> QED BY <1>1 DEF StageWith

\* The attempt on the provider at hand is over: nothing changes with the
\* others, which are candidates as before or are not.
LEMMA StagesAfterFailure ==
  ASSUME NEW q, Walk(q), Attempting(q)
  PROVE  /\ StageWith(q.cur, AfterFailure(q)) = "idle"
         /\ \A o \in Providers \ {q.cur} : StageWith(o, AfterFailure(q)) = StageWith(o, q)
<1> DEFINE tried == Append(q.tried, q.cur)
           a == AfterFailure(q)
<1>1. /\ q \in Request /\ q.cand \in SUBSET Providers /\ q.cur \notin q.cand
      /\ q.mode \in {"auto", "preferred"}
      /\ q.tried = <<>> => q.cand = {}
      /\ q.mode = "preferred" => q.tried = <<>>
  BY DEF Walk, WalkInv, Request
<1>2. \A o \in Providers \ {q.cur} : StageWith(o, q) = IF o \in q.cand THEN "admitted" ELSE "idle"
  BY DEF StageWith, Attempting
<1> HIDE DEF tried
<1>3. CASE q.mode = "preferred" \/ (q.mode = "auto" /\ q.tried # <<>> /\ q.cand = {})
  <2>1. a.pc = "failed" /\ q.cand = {}
    BY <1>1, <1>3 DEF AfterFailure, Request
  <2> QED BY <1>2, <2>1 DEF StageWith
<1>4. CASE q.mode = "auto" /\ q.tried = <<>>
  <2>1. a.pc = "collect" /\ a.cand = {} /\ q.cand = {}
    BY <1>1, <1>4 DEF AfterFailure, Request
  <2> QED BY <1>2, <2>1 DEF StageWith
<1>5. CASE q.mode = "auto" /\ q.tried # <<>> /\ q.cand # {}
  <2> DEFINE p == FirstOf(q.cand)
  <2>1. p \in q.cand
    BY <1>1, <1>5, FirstOfMember
  <2> HIDE DEF p
  <2>2. a.pc = "try" /\ a.cur = p /\ a.cand = q.cand \ {p}
    BY <1>1, <1>5 DEF AfterFailure, TakeNext, p, Request
  <2> QED BY <1>1, <1>2, <2>1, <2>2 DEF StageWith
<1> QED BY <1>1, <1>3, <1>4, <1>5

\* The steps of request r are steps of the abstract breaker of each provider.
Abstracts(r) == \E q : req' = [req EXCEPT ![r] = q] /\ \A o \in Providers : RowStep(o, r, q)

LEMMA AbstractsSelect ==
  ASSUME WalksInv, row \in [Providers -> Row], NEW r \in Requests,
         SelectProvider(r) \/ SelectPreferred(r) \/ ScanCandidate(r) \/ NoCandidate(r)
  PROVE  Abstracts(r)
<1>1. Walk(req[r]) /\ req[r] \in Request /\ req[r].pc \in {"idle", "scan"} /\ req[r].cand = {}
  BY DEF WalksInv, SelectProvider, SelectPreferred, ScanCandidate, NoCandidate, Walk, WalkInv
<1>2. \A o \in Providers : StageWith(o, req[r]) = "idle"
  BY <1>1, StagesBefore
<1>3. CASE SelectProvider(r)
  <2>1. PICK supp \in SUBSET Providers, mode \in Modes :
          LET best   == BestProvider(supp)
              chosen == [IdleRequest EXCEPT !.mode = mode, !.supp = supp]
          IN  IF best # None /\ ~IsOpen(best)
              THEN Look(best) /\ req' = [req EXCEPT ![r] = Selected(chosen, best)]
              ELSE UNCHANGED row /\ req' = [req EXCEPT ![r] = [chosen EXCEPT !.pc = "scan", !.rest = supp]]
    BY <1>3 DEF SelectProvider
  <2> DEFINE best == BestProvider(supp)
             chosen == [IdleRequest EXCEPT !.mode = mode, !.supp = supp]
  <2>2. chosen \in Request /\ chosen.cand = {}
    BY RouterAssumption, EmptyTried DEF IdleRequest, Request
  <2>3. CASE best # None /\ ~IsOpen(best)
    <3>1. best \in Providers
      BY <2>3, BestProviderMember
    <3>2. Look(best) /\ req' = [req EXCEPT ![r] = Selected(chosen, best)]
      BY <2>1, <2>3
    <3> HIDE DEF best, chosen
    <3>3. \A o \in Providers : RowStep(o, r, Selected(chosen, best))
      BY <1>2, <2>2, <2>3, <3>1, <3>2, StagesSelected, LookIsStep
    <3> QED BY <3>2, <3>3 DEF Abstracts
  <2>4. CASE ~(best # None /\ ~IsOpen(best))
    <3> DEFINE q == [chosen EXCEPT !.pc = "scan", !.rest = supp]
    <3>1. UNCHANGED row /\ req' = [req EXCEPT ![r] = q]
      BY <2>1, <2>4
    <3>2. q.pc = "scan"
      BY DEF IdleRequest
    <3> HIDE DEF q
    <3>3. \A o \in Providers : StageWith(o, q) = "idle"
      BY <3>2 DEF StageWith
    <3> QED BY <1>2, <3>1, <3>3 DEF Abstracts, RowStep
  <2> QED BY <2>3, <2>4
<1>4. CASE SelectPreferred(r)
  <2>1. PICK p \in Providers, mode \in Modes \ {"auto"}, healthy \in BOOLEAN :
          LET named == [IdleRequest EXCEPT !.mode = mode, !.supp = Providers]
          IN  /\ HealthCheck(p, healthy)
              /\ req' = [req EXCEPT ![r] =
                    IF healthy THEN Selected(named, p) ELSE [named EXCEPT !.pc = "failed"]]
    BY <1>4 DEF SelectPreferred
  <2> DEFINE named == [IdleRequest EXCEPT !.mode = mode, !.supp = Providers]
             q == IF healthy THEN Selected(named, p) ELSE [named EXCEPT !.pc = "failed"]
  <2>2. named \in Request /\ named.cand = {}
    BY RouterAssumption, EmptyTried DEF IdleRequest, Request
  <2>3. HealthCheck(p, healthy) /\ req' = [req EXCEPT ![r] = q]
    BY <2>1
  <2> HIDE DEF named
  <2>4. healthy => StageWith(p, q) = "admitted" /\ \A o \in Providers \ {p} : StageWith(o, q) = "idle"
    BY <2>2, StagesSelected
  <2>5. ~healthy => \A o \in Providers : StageWith(o, q) = "idle"
    BY <2>2 DEF StageWith, Request
  <2> HIDE DEF q
  <2>6. \A o \in Providers : RowStep(o, r, q)
    BY <1>2, <2>3, <2>4, <2>5, CheckIsStep
  <2> QED BY <2>3, <2>6 DEF Abstracts
<1>5. CASE ScanCandidate(r)
  <2> DEFINE p == FirstOf(req[r].rest)
  <2>1. PICK healthy \in BOOLEAN :
          /\ HealthCheck(p, healthy)
          /\ req' = [req EXCEPT ![r] = IF healthy THEN Selected(@, p) ELSE [req[r] EXCEPT !.rest = @ \ {p}]]
    BY <1>5 DEF ScanCandidate
  <2>2. p \in Providers
    <3>1. req[r].rest \in SUBSET Providers /\ req[r].rest # {}
      BY <1>1, <1>5 DEF ScanCandidate, Request
    <3> QED BY <3>1, FirstOfMember
  <2> HIDE DEF p
  <2> DEFINE q == IF healthy THEN Selected(req[r], p) ELSE [req[r] EXCEPT !.rest = @ \ {p}]
  <2>3. req' = [req EXCEPT ![r] = q]
    BY <2>1
  <2>4. healthy => StageWith(p, q) = "admitted" /\ \A o \in Providers \ {p} : StageWith(o, q) = "idle"
    BY <1>1, <2>2, StagesSelected
  <2>5. ~healthy => \A o \in Providers : StageWith(o, q) = "idle"
    BY <1>1 DEF StageWith, Request
  <2> HIDE DEF q
  <2>6. \A o \in Providers : RowStep(o, r, q)
    BY <1>2, <2>1, <2>2, <2>4, <2>5, CheckIsStep
  <2> QED BY <2>3, <2>6 DEF Abstracts
<1>6. CASE NoCandidate(r)
  <2> DEFINE q == [req[r] EXCEPT !.pc = "failed"]
  <2>1. UNCHANGED row /\ req' = [req EXCEPT ![r] = q] /\ q.pc = "failed"
    BY <1>1, <1>6 DEF NoCandidate, Request
  <2> HIDE DEF q
  <2>2. \A o \in Providers : StageWith(o, q) = "idle"
    BY <2>1 DEF StageWith
  <2> QED BY <1>2, <2>1, <2>2 DEF Abstracts, RowStep
<1> QED BY <1>3, <1>4, <1>5, <1>6

\* In tryProvider: where a request ends its attempt, its circuit hears of it
\* or does not.
LEMMA AbstractsAttempt ==
  ASSUME WalksInv, row \in [Providers -> Row], NEW r \in Requests,
         \/ RefuseEarly(r) \/ PassLimiter(r) \/ AcquireSlot(r) \/ GiveUpQueue(r)
         \/ CallSucceeds(r) \/ CallRateLimited(r) \/ CallFails(r) \/ TripCircuit(r)
  PROVE  Abstracts(r)
<1> DEFINE p == req[r].cur
           a == AfterFailure(req[r])
<1>1. Walk(req[r]) /\ req[r] \in Request /\ Attempting(req[r]) /\ p \in Providers /\ p \notin req[r].cand
  BY DEF WalksInv, RefuseEarly, PassLimiter, AcquireSlot, GiveUpQueue, CallSucceeds, CallRateLimited,
         CallFails, TripCircuit, Attempting, Walk, WalkInv
<1>2. StageWith(p, a) = "idle" /\ \A o \in Providers \ {p} : StageWith(o, a) = StageWith(o, req[r])
  BY <1>1, StagesAfterFailure
<1>3. /\ StageWith(p, req[r]) = IF req[r].pc = "trip" THEN "tripping" ELSE "admitted"
      /\ \A o \in Providers \ {p} :
           StageWith(o, req[r]) = IF o \in req[r].cand THEN "admitted" ELSE "idle"
  BY <1>1 DEF StageWith, Attempting
<1> HIDE DEF a
<1>4. CASE RefuseEarly(r) \/ GiveUpQueue(r) \/ CallRateLimited(r)
  <2>1. UNCHANGED row /\ req' = [req EXCEPT ![r] = a] /\ req[r].pc # "trip"
    BY <1>4 DEF RefuseEarly, GiveUpQueue, CallRateLimited, a
  <2>2. \A o \in Providers : RowStep(o, r, a)
    BY <1>2, <1>3, <2>1 DEF RowStep
  <2> QED BY <2>1, <2>2 DEF Abstracts
<1>5. ASSUME NEW next \in {"slot", "call", "trip"}, req' = [req EXCEPT ![r].pc = next],
             IF next = "trip" THEN req[r].pc = "call" /\ row' = [row EXCEPT ![p] = WithFailure(@)]
             ELSE req[r].pc # "trip" /\ UNCHANGED row
      PROVE  Abstracts(r)
  <2> DEFINE q == [req[r] EXCEPT !.pc = next]
  <2>1. req' = [req EXCEPT ![r] = q] /\ q.pc = next /\ q.cur = p /\ q.cand = req[r].cand
    BY <1>1, <1>5 DEF Request
  <2> HIDE DEF q
  <2>2. /\ StageWith(p, q) = IF next = "trip" THEN "tripping" ELSE "admitted"
        /\ \A o \in Providers \ {p} : StageWith(o, q) = IF o \in req[r].cand THEN "admitted" ELSE "idle"
    <3>1. CASE next = "trip"
      BY <1>1, <2>1, <3>1 DEF StageWith
    <3>2. CASE next = "slot"
      BY <1>1, <2>1, <3>2 DEF StageWith
    <3>3. CASE next = "call"
      BY <1>1, <2>1, <3>3 DEF StageWith
    <3> QED BY <3>1, <3>2, <3>3
  <2>3. \A o \in Providers \ {p} : row'[o] = row[o]
    BY <1>5
  <2>4. RowStep(p, r, q)
    BY <1>1, <1>3, <1>5, <2>2 DEF RowStep
  <2>5. \A o \in Providers \ {p} : RowStep(o, r, q)
    BY <1>3, <2>2, <2>3 DEF RowStep
  <2> HIDE DEF p
  <2> QED BY <2>1, <2>4, <2>5 DEF Abstracts
<1>6. CASE PassLimiter(r) \/ AcquireSlot(r)
  BY <1>5, <1>6 DEF PassLimiter, AcquireSlot
<1>7. CASE CallSucceeds(r)
  <2>1. PICK next \in {"served", "stall"} :
          req' = [req EXCEPT ![r] = [req[r] EXCEPT !.pc = next, !.tried = Append(@, p)]]
    BY <1>7 DEF CallSucceeds
  <2> DEFINE q == [req[r] EXCEPT !.pc = next, !.tried = Append(@, p)]
  <2>2. q.pc \in {"served", "stall"} /\ req' = [req EXCEPT ![r] = q]
    BY <1>1, <2>1 DEF Request
  <2> HIDE DEF q
  <2>3. \A o \in Providers : StageWith(o, q) = "idle"
    BY <2>2 DEF StageWith
  <2>4. row' = [row EXCEPT ![p] = ClosedRow] /\ req[r].pc = "call"
    BY <1>7 DEF CallSucceeds
  <2>5. RowStep(p, r, q)
    BY <1>1, <1>3, <2>3, <2>4 DEF RowStep
  <2>6. \A o \in Providers \ {p} : RowStep(o, r, q)
    BY <1>1, <1>3, <2>3, <2>4 DEF RowStep
  <2> QED BY <2>2, <2>5, <2>6 DEF Abstracts
<1>8. CASE CallFails(r)
  <2>1. row' = [row EXCEPT ![p] = WithFailure(@)] /\ req[r].pc = "call"
    BY <1>8 DEF CallFails
  <2>2. CASE req' = [req EXCEPT ![r] = a]
    <3>1. RowStep(p, r, a)
      BY <1>1, <1>2, <1>3, <2>1 DEF RowStep
    <3>2. \A o \in Providers \ {p} : RowStep(o, r, a)
      BY <1>1, <1>2, <2>1 DEF RowStep
    <3> QED BY <2>2, <3>1, <3>2 DEF Abstracts
  <2>3. CASE req' = [req EXCEPT ![r].pc = "trip"]
    BY <1>5, <2>1, <2>3
  <2> QED BY <1>8, <2>2, <2>3 DEF CallFails, a
<1>9. CASE TripCircuit(r)
  <2>1. /\ row' = [row EXCEPT ![p] = Opened(@, RateLimitCooldown)] /\ req[r].pc = "trip"
        /\ req' = [req EXCEPT ![r] = a]
    BY <1>9 DEF TripCircuit, a
  <2>2. RowStep(p, r, a)
    BY <1>1, <1>2, <1>3, <2>1 DEF RowStep
  <2>3. \A o \in Providers \ {p} : RowStep(o, r, a)
    BY <1>1, <1>2, <2>1 DEF RowStep
  <2> QED BY <2>1, <2>2, <2>3 DEF Abstracts
<1> QED BY <1>4, <1>6, <1>7, <1>8, <1>9

LEMMA AbstractsFallback ==
  ASSUME WalksInv, row \in [Providers -> Row], NEW r \in Requests, CollectCandidate(r) \/ StartFallback(r)
  PROVE  Abstracts(r)
<1>1. /\ Walk(req[r]) /\ req[r] \in Request /\ req[r].pc = "collect"
      /\ req[r].rest \in SUBSET Providers /\ req[r].cand \in SUBSET Providers
      /\ req[r].rest \cap req[r].cand = {}
  BY DEF WalksInv, CollectCandidate, StartFallback, Walk, WalkInv, Request
<1>2. \A o \in Providers : StageWith(o, req[r]) = IF o \in req[r].cand THEN "admitted" ELSE "idle"
  BY <1>1 DEF StageWith
<1>3. CASE CollectCandidate(r)
  <2> DEFINE p == FirstOf(req[r].rest)
  <2>1. PICK healthy \in BOOLEAN :
          /\ HealthCheck(p, healthy)
          /\ req' = [req EXCEPT ![r] =
                     IF healthy THEN [req[r] EXCEPT !.rest = @ \ {p}, !.cand = @ \cup {p}]
                                ELSE [req[r] EXCEPT !.rest = @ \ {p}, !.skipped = @ \cup {p}]]
    BY <1>3 DEF CollectCandidate
  <2>2. p \in req[r].rest /\ p \in Providers
    BY <1>1, <1>3, FirstOfMember DEF CollectCandidate
  <2> HIDE DEF p
  <2> DEFINE q == IF healthy THEN [req[r] EXCEPT !.rest = @ \ {p}, !.cand = @ \cup {p}]
                             ELSE [req[r] EXCEPT !.rest = @ \ {p}, !.skipped = @ \cup {p}]
  <2>3. req' = [req EXCEPT ![r] = q]
    BY <2>1
  <2>4. q.pc = "collect" /\ q.cand = IF healthy THEN req[r].cand \cup {p} ELSE req[r].cand
    BY <1>1 DEF Request
  <2> HIDE DEF q
  <2>5. \A o \in Providers : StageWith(o, q) = IF o \in q.cand THEN "admitted" ELSE "idle"
    BY <2>4 DEF StageWith
  <2>6. \A o \in Providers : RowStep(o, r, q)
    BY <1>1, <1>2, <2>1, <2>2, <2>4, <2>5, CheckIsStep
  <2> QED BY <2>3, <2>6 DEF Abstracts
<1>4. CASE StartFallback(r)
  <2> DEFINE q == IF req[r].cand = {} THEN [req[r] EXCEPT !.pc = "failed"]
                  ELSE TakeNext(req[r], FirstFallback(req[r].cand))
  <2>1. req' = [req EXCEPT ![r] = q] /\ UNCHANGED row
    BY <1>4 DEF StartFallback
  <2>2. \A o \in Providers : StageWith(o, q) = StageWith(o, req[r])
    <3>1. CASE req[r].cand = {}
      BY <1>1, <1>2, <3>1 DEF StageWith, Request
    <3>2. CASE req[r].cand # {}
      <4> DEFINE p == FirstFallback(req[r].cand)
      <4>1. p \in req[r].cand
        BY <1>1, <3>2, FirstFallbackMember
      <4> HIDE DEF p
      <4>2. q.pc = "try" /\ q.cur = p /\ q.cand = req[r].cand \ {p}
        BY <1>1, <3>2 DEF TakeNext, p, Request
      <4> HIDE DEF q
      <4> QED BY <1>2, <4>1, <4>2 DEF StageWith
    <3> QED BY <3>1, <3>2
  <2> HIDE DEF q
  <2> QED BY <2>1, <2>2 DEF Abstracts, RowStep
<1> QED BY <1>3, <1>4

LEMMA AbstractsEnd ==
  ASSUME WalksInv, row \in [Providers -> Row], NEW r \in Requests, StallRetryEnds(r) \/ ProceedNamed(r)
  PROVE  Abstracts(r)
<1>1. Walk(req[r]) /\ req[r] \in Request
  BY DEF WalksInv, Walk
<1>2. ASSUME NEW next \in {"served", "plain", "failed"}, req' = [req EXCEPT ![r].pc = next]
      PROVE  \E q : req' = [req EXCEPT ![r] = q] /\ \A o \in Providers : StageWith(o, q) = "idle"
  <2> DEFINE q == [req[r] EXCEPT !.pc = next]
  <2>1. req' = [req EXCEPT ![r] = q] /\ q.pc = next
    BY <1>1, <1>2 DEF Request
  <2> HIDE DEF q
  <2> QED BY <2>1 DEF StageWith
<1>3. CASE StallRetryEnds(r) \/ PlainCallEnds(r)
  <2>1. \A o \in Providers : StageWith(o, req[r]) = "idle"
    BY <1>1, <1>3, StagesBefore DEF StallRetryEnds, PlainCallEnds
  <2> QED BY <1>2, <1>3, <2>1 DEF StallRetryEnds, PlainCallEnds, Abstracts, RowStep
<1>4. CASE StreamSucceeds(r) \/ StreamFails(r)
  <2> DEFINE p == req[r].cur
  <2>1. p \in Providers /\ req[r].pc = "stream"
    BY <1>1, <1>4 DEF StreamSucceeds, StreamFails, Walk, WalkInv
  <2>2. StageWith(p, req[r]) = "admitted" /\ \A o \in Providers \ {p} : StageWith(o, req[r]) = "idle"
    BY <2>1 DEF StageWith
  <2>3. row' = [row EXCEPT ![p] = ClosedRow] \/ UNCHANGED row
    BY <1>4 DEF StreamSucceeds, StreamFails
  <2>4. PICK q : req' = [req EXCEPT ![r] = q] /\ \A o \in Providers : StageWith(o, q) = "idle"
    BY <1>2, <1>4 DEF StreamSucceeds, StreamFails
  <2> HIDE DEF p
  <2>5. \A o \in Providers : RowStep(o, r, q)
    BY <2>1, <2>2, <2>3, <2>4 DEF RowStep
  <2> QED BY <2>4, <2>5 DEF Abstracts
<1> QED BY <1>3, <1>4 DEF ProceedNamed

\* What the operator, the clock and the day do to the circuits.
LEMMA AbstractsEnvironment ==
  ASSUME row \in [Providers -> Row], NEW p \in Providers,
         (\E o \in Providers : CacheExpires(o) \/ ResetCircuit(o) \/ TraceProvider(o)) \/ Tick \/ NewDay
           \/ UNCHANGED vars
  PROVE  AbstractStep(p)
<1>1. UNCHANGED req
  BY DEF CacheExpires, ResetCircuit, TraceProvider, Tick, NewDay, vars
<1>2. row[p] \in Row /\ row[p].deadline \in Nat \cup {-1}
  BY DEF Row, NoDeadline
<1>3. ASSUME row'[p] = row[p]
      PROVE  AbstractStep(p)
  BY <1>1, <1>3 DEF AbstractStep, CircuitOf!abstractVars
<1>4. CASE NewDay \/ UNCHANGED vars \/ \E o \in Providers : CacheExpires(o)
  BY <1>3, <1>4 DEF NewDay, CacheExpires, vars
<1>5. ASSUME NEW o \in Providers, ResetCircuit(o)
      PROVE  AbstractStep(p)
  <2>1. CASE o = p
    <3>1. row'[p] = ClosedRow
      BY <1>5, <2>1 DEF ResetCircuit
    <3>2. CircuitOf(p)!Reset
      BY <1>1, <3>1 DEF ClosedRow, CircuitOf!Reset, CircuitOf!Closed
    <3> QED BY <3>2 DEF AbstractStep, CircuitOf!AbstractNext
  <2>2. CASE o # p
    BY <1>3, <1>5, <2>2 DEF ResetCircuit
  <2> QED BY <2>1, <2>2
<1>6. ASSUME NEW o \in Providers, TraceProvider(o)
      PROVE  AbstractStep(p)
  <2>1. CASE o = p
    <3>1. row[p].state = "open" /\ row[p].deadline = 0 /\ row'[p] = HalfOpened(row[p])
      BY <1>6, <2>1 DEF TraceProvider, Look, Looked, Expired
    <3>2. row'[p].state = "half_open" /\ row'[p].failures = row[p].failures
      BY <1>2, <3>1 DEF HalfOpened, Row
    <3>3. CircuitOf(p)!HalfOpenAtOnce
      BY <1>1, <3>1, <3>2 DEF CircuitOf!HalfOpenAtOnce, CircuitOf!HalfOpened
    <3> QED BY <3>3 DEF AbstractStep, CircuitOf!AbstractNext
  <2>2. CASE o # p
    BY <1>3, <1>6, <2>2 DEF TraceProvider, Look
  <2> QED BY <2>1, <2>2
<1>7. CASE Tick
  <2>1. row'[p] = Later(row[p])
    BY <1>7 DEF Tick
  <2>2. /\ row'[p].state = row[p].state /\ row'[p].failures = row[p].failures
        /\ row[p].deadline <= 0 => row'[p].deadline <= 0
    BY <1>2, <2>1 DEF Later, Down, Row
  <2> row'[p].deadline \in Int
    BY <1>2, <2>1 DEF Later, Down, Row
  <2>3. CASE row[p].deadline > 0 /\ ~(row'[p].deadline > 0) /\ row[p].state = "open"
    <3>1. CircuitOf(p)!CooldownEnds
      BY <1>1, <2>2, <2>3 DEF CircuitOf!CooldownEnds
    <3> QED BY <3>1 DEF AbstractStep, CircuitOf!AbstractNext
  <2>4. CASE ~(row[p].deadline > 0 /\ ~(row'[p].deadline > 0) /\ row[p].state = "open")
    <3>1. (row'[p].state = "open" /\ row'[p].deadline > 0) <=> (row[p].state = "open" /\ row[p].deadline > 0)
      BY <1>2, <2>2, <2>4
    <3> QED BY <1>1, <2>2, <3>1 DEF AbstractStep, CircuitOf!abstractVars
  <2> QED BY <2>3, <2>4
<1> QED BY <1>4, <1>5, <1>6, <1>7

(* The circuits of all providers are those of abstract breakers: a request *)
(* counts on a circuit, closes or trips it only after it was let through   *)
(* by it, whatever requests, streams, operators and clock do meanwhile.    *)
THEOREM RowsAreBreakers == Spec => RowsImplementBreaker
<1>1. RouterInv /\ [Next]_vars => \A p \in Providers : AbstractStep(p)
  <2> SUFFICES ASSUME RouterInv, [Next]_vars, NEW p \in Providers
               PROVE  AbstractStep(p)
    OBVIOUS
  <2>1. row \in [Providers -> Row] /\ req \in [Requests -> Request] /\ WalksInv
    BY DEF RouterInv, TypeOK
  <2>2. ASSUME NEW r \in Requests, Abstracts(r)
        PROVE  AbstractStep(p)
    <3>1. PICK q : req' = [req EXCEPT ![r] = q] /\ RowStep(p, r, q)
      BY <2>2 DEF Abstracts
    <3> QED BY <2>1, <3>1, RowStepIsAbstract
  <2> QED BY <2>1, <2>2, RouterCases, AbstractsSelect, AbstractsAttempt, AbstractsFallback, AbstractsEnd,
             AbstractsEnvironment
<1>2. RouterInv /\ [Next]_vars => [\A p \in Providers : AbstractStep(p)]_vars
  BY <1>1
<1> QED BY <1>2, RouterInvariant, PTL DEF Spec, RowsImplementBreaker, AbstractStep

(* -------------------------------- memory ------------------------------- *)

\* The places a request goes through, with what it carries.
ChatPlaces == {"idle", "refine", "touch", "retrieve", "continuity", "carry", "store",
           "call", "persist", "handler", "answered"}
ChatStates == [pc : ChatPlaces, session : Sessions \cup {NoSession}, turn : Nat, skip : BOOLEAN, api : BOOLEAN,
               said : Seq(Messages), own : Seq(Messages), rest : Seq(Messages), from : Sessions \cup {NoSession}]

\* What became of the messages that a client said: each is there, in a form
\* that may be kept of it.
Follows(said, own) == DOMAIN own = DOMAIN said /\ \A i \in DOMAIN said : Keeps(own[i], said, i)

\* What a stage says of a request.
Placed(q) ==
    /\ q.pc # "idle" => q.session \in Sessions
    /\ q.pc = "carry" => q.from \in Sessions
    /\ q.pc \in {"store", "handler"} => q.rest # <<>>
    /\ Follows(q.said, q.own)
    /\ q.pc = "refine" => q.own = q.said

\* A message is kept in some rows; what a request has to remember is kept in
\* the rows of its session, or will be.
Kept(said, i, rows) == \E kept \in ToSet(rows) : Keeps(kept, said, i)
Remembered(q, mem) ==
    ~q.skip =>
      /\ q.pc \in {"call", "persist", "handler", "answered"} =>
           \A i \in ToKeep(q.said) : Kept(q.said, i, mem[q.session])
      /\ q.pc = "store" =>
           \A i \in ToKeep(q.said) : Kept(q.said, i, mem[q.session]) \/ Kept(q.said, i, q.rest)

\* Sessions that ran out of time are too old to be continued.
TooOld == \A s \in abandoned : ~Recent(s)

MemoryInv ==
    /\ MemoryTypeOK /\ TooOld
    /\ \A c \in Chats : Placed(chat[c]) /\ Remembered(chat[c], memory)

(* The greater of two numbers, and the last of some places. *)
LEMMA MaxOfTwo ==
  ASSUME NEW a \in Int, NEW b \in Int
  PROVE  Max({a, b}) \in {a, b} /\ Max({a, b}) >= a /\ Max({a, b}) >= b
<1>1. \E x \in {a, b} : \A y \in {a, b} : x >= y
  <2>1. CASE a >= b
    BY <2>1
  <2>2. CASE ~(a >= b)
    BY <2>2
  <2> QED BY <2>1, <2>2
<1> QED BY <1>1 DEF Max

LEMMA LastPlace ==
  ASSUME NEW n \in Nat, NEW S \in SUBSET (1..n), S # {}
  PROVE  Max(S) \in S /\ \A y \in S : y <= Max(S)
<1> DEFINE T == {n - i : i \in S}
<1>1. PICK k \in T : \A j \in T : k <= j
  <2>1. \A i \in S : n - i \in Nat
    OBVIOUS
  <2>2. T \subseteq Nat /\ T # {}
    BY <2>1
  <2> HIDE DEF T
  <2> QED BY <2>2, LeastNumber
<1>2. PICK m \in S : k = n - m
  OBVIOUS
<1>3. \A y \in S : m >= y
  <2> TAKE y \in S
  <2>1. k <= n - y
    BY <1>1
  <2> QED BY <1>2, <2>1
<1>4. \E x \in S : \A y \in S : x >= y
  BY <1>3
<1>5. Max(S) \in S /\ \A y \in S : Max(S) >= y
  BY <1>4 DEF Max
<1> QED BY <1>5

(* What is read of a memory is made of its rows. *)
LEMMA NewestType ==
  ASSUME NEW rows \in Seq(Messages), NEW n \in Nat
  PROVE  Newest(rows, n) \in Seq(Messages)
<1> DEFINE from == Max({1, Len(rows) - n + 1})
<1>1. from \in Int /\ from >= 1
  <2> DEFINE first == Len(rows) - n + 1
  <2>1. first \in Int
    OBVIOUS
  <2>2. Max({1, first}) \in Int /\ Max({1, first}) >= 1
    <3> HIDE DEF first
    <3>1. Max({1, first}) \in {1, first} /\ Max({1, first}) >= 1
      BY <2>1, 1 \in Int, MaxOfTwo
    <3> QED BY <2>1, <3>1
  <2> QED BY <2>2
<1>2. SubSeq(rows, from, Len(rows)) \in Seq(Messages)
  <2> HIDE DEF from
  <2>1. \A i \in from..Len(rows) : rows[i] \in Messages
    BY <1>1
  <2>2. from \in Int /\ Len(rows) \in Int
    BY <1>1
  <2> QED BY ONLY <2>1, <2>2, SubSeqProperties, Zenon
<1> QED BY <1>2 DEF Newest

LEMMA RelevantType ==
  ASSUME MemoryTypeOK, NEW s \in Sessions, NEW query, NEW rows \in Relevant(s, query)
  PROVE  rows \in Seq(Messages)
<1> DEFINE recent == RetrieveRecent(s, query)
<1>1. memory[s] \in Seq(Messages)
  BY DEF MemoryTypeOK
<1>2. recent \in Seq(Messages)
  <2>1. Newest(memory[s], 2 * RecentRows) \in Seq(Messages)
    BY <1>1, NewestType, MemoryAssumption
  <2>2. Those(Newest(memory[s], 2 * RecentRows), LAMBDA m : m.text # query) \in Seq(Messages)
    BY <2>1, ElementsAtPlaces DEF Those
  <2> QED BY <2>2, NewestType, MemoryAssumption DEF RetrieveRecent
<1>3. \A m \in ToSet(memory[s]) : Append(recent, m) \in Seq(Messages)
  <2> TAKE m \in ToSet(memory[s])
  <2>1. m \in Messages
    BY <1>1 DEF ToSet
  <2> HIDE DEF recent
  <2> QED BY <1>2, <2>1
<1> QED BY <1>2, <1>3 DEF Relevant, Found

\* A text that was rewritten is a text, and not the empty one.
LEMMA Rewritten ==
  ASSUME NEW text \in Texts \X Nat \X Forms
  PROVE  /\ Refined(text) \in Texts \X Nat \X Forms /\ Refined(text) # Nothing
         /\ Skilled(text) \in Texts \X Nat \X Forms /\ Skilled(text) # Nothing
         /\ Skilled(Skilled(text)) = Skilled(text)
BY DEF Refined, Skilled, Nothing, Forms

\* The forms in which a message may be kept.
LEMMA VersionsOf ==
  ASSUME NEW said \in Seq(Messages), NEW i \in DOMAIN said, NEW v \in Versions(said, i)
  PROVE  /\ v \in Texts \X Nat \X Forms
         /\ said[i].text # Nothing => v # Nothing
         /\ i = 1 /\ said[i].role = "system" => Skilled(v) \in Versions(said, i)
<1>1. said[i] \in Messages /\ said[i].text \in Texts \X Nat \X Forms
  <2>1. said[i] \in Messages
    OBVIOUS
  <2> QED BY <2>1 DEF Messages
<1>2. v = said[i].text \/ (v = Refined(said[i].text) /\ i \in Users(said)) \/ v = Skilled(said[i].text)
  BY DEF Versions
<1>3. i \in Users(said) => said[i].role = "user"
  BY DEF Users
<1>4. ASSUME i = 1, said[i].role = "system"
      PROVE  Skilled(v) \in Versions(said, i)
  <2>1. v = said[i].text \/ v = Skilled(said[i].text)
    BY <1>2, <1>3, <1>4
  <2>2. Skilled(v) = Skilled(said[i].text)
    BY <1>1, <2>1, Rewritten
  <2> QED BY <1>4, <2>2 DEF Versions
<1> QED BY <1>1, <1>2, <1>4, Rewritten

\* Skills merged into the instructions leave every message in a form that
\* may be kept of it.
LEMMA MergedFollows ==
  ASSUME NEW said \in Seq(Messages), NEW own \in Seq(Messages), Follows(said, own), NEW skills \in BOOLEAN
  PROVE  Merged(own, skills) \in Seq(Messages) /\ Follows(said, Merged(own, skills))
<1>1. CASE ~(skills /\ SystemFirst(own))
  BY <1>1 DEF Merged
<1>2. CASE skills /\ SystemFirst(own)
  <2> DEFINE m == [own[1] EXCEPT !.text = Skilled(@)]
  <2>1. own # <<>> /\ own[1].role = "system" /\ 1 \in DOMAIN own /\ own[1] \in Messages
    BY <1>2 DEF SystemFirst
  <2>2. 1 \in DOMAIN said /\ Keeps(own[1], said, 1)
    BY <2>1 DEF Follows
  <2>3. Merged(own, skills) = [own EXCEPT ![1] = m]
    BY <1>2 DEF Merged
  <2>4. /\ m \in Messages /\ m.role = own[1].role /\ m.text = Skilled(own[1].text)
    BY <2>1, Rewritten DEF Messages
  <2>5. Keeps(m, said, 1)
    BY <2>1, <2>2, <2>4, VersionsOf DEF Keeps
  <2> HIDE DEF m
  <2>6. [own EXCEPT ![1] = m] \in Seq(Messages)
    BY ONLY <2>1, <2>4, own \in Seq(Messages), ExceptSeq
  <2>7. Follows(said, [own EXCEPT ![1] = m])
    BY <2>1, <2>5 DEF Follows
  <2> QED BY <2>3, <2>6, <2>7
<1> QED BY <1>1, <1>2

LEMMA SaidType ==
  ASSUME NEW role \in Roles, NEW what \in Texts, NEW turn \in Nat, NEW s \in Sessions
  PROVE  Said(role, what, turn, s) \in Messages
<1> DEFINE text == IF what = "" THEN Nothing ELSE <<what, turn, "own">>
<1>1. text \in Texts \X Nat \X Forms
  <2>1. <<"", 0, "own">> \in Texts \X Nat \X Forms
    BY DEF Texts, Forms
  <2>2. <<what, turn, "own">> \in Texts \X Nat \X Forms
    BY DEF Forms
  <2> QED BY <2>1, <2>2 DEF Nothing
<1>2. Said(role, what, turn, s) = [role |-> role, text |-> text, by |-> s]
  BY DEF Said
<1> HIDE DEF text
<1> QED BY <1>1, <1>2 DEF Messages

\* What is new in a request is what its client sent, whatever is in front.
LEMMA NewMessagesType ==
  ASSUME NEW q \in ChatStates, q.session \in Sessions, Follows(q.said, q.own),
         NEW injected \in Seq(Messages), NEW skills \in BOOLEAN
  PROVE  LET new == NewMessages(PreprocessRequest(injected \o q.own, skills, q), Len(injected), q)
         IN /\ new \in Seq(Messages)
            /\ \A i \in ToKeep(q.said) : Kept(q.said, i, new)
<1> DEFINE sys == Said("system", "skills", q.turn, q.session)
           ms == injected \o q.own
           all == PreprocessRequest(ms, skills, q)
           n == Len(injected)
           tail == SubSeq(all, n + 1, Len(all))
           notTool == Those(tail, LAMBDA m : m.role # "tool")
<1>1. sys \in Messages
  <2>1. q.turn \in Nat
    BY DEF ChatStates
  <2> QED BY <2>1, SaidType DEF Texts, Roles
<1>2. q.own \in Seq(Messages) /\ ms \in Seq(Messages) /\ Len(ms) = n + Len(q.own) /\ n \in Nat /\ Len(q.own) \in Nat
  BY DEF ChatStates
<1>3. \A i \in 1..Len(q.own) : ms[n + i] = q.own[i]
  BY <1>2
<1>f. /\ DOMAIN q.own = 1..Len(q.own) /\ DOMAIN q.said = DOMAIN q.own /\ q.said \in Seq(Messages)
      /\ \A i \in 1..Len(q.own) : Keeps(q.own[i], q.said, i)
  BY <1>2 DEF Follows, ChatStates
<1>4. /\ all \in Seq(Messages) /\ Len(all) >= Len(ms)
      /\ \A i \in 1..Len(q.own) : \E j \in (n + 1)..Len(all) : Keeps(all[j], q.said, i)
  <2>1. CASE all = ms
    <3> HIDE DEF ms, all, n
    <3>1. \A i \in 1..Len(q.own) : n + i \in (n + 1)..Len(all) /\ all[n + i] = q.own[i]
      BY <1>2, <1>3, <2>1
    <3> QED BY <1>2, <1>f, <2>1, <3>1
  <2>2. CASE all = <<sys>> \o ms
    <3>0. <<sys>> \in Seq(Messages) /\ Len(<<sys>>) = 1
      <4> HIDE DEF sys
      <4> QED BY <1>1
    <3>1. all \in Seq(Messages) /\ Len(all) = Len(ms) + 1
      <4> DEFINE front == <<sys>>
      <4>1. front \in Seq(Messages) /\ Len(front) = 1 /\ all = front \o ms /\ ms \in Seq(Messages)
        BY <3>0, <1>2, <2>2
      <4> HIDE DEF sys, ms, all, front
      <4>2. front \o ms \in Seq(Messages) /\ Len(front \o ms) = Len(front) + Len(ms)
        BY ONLY <4>1, ConcatProperties, Zenon
      <4> QED BY ONLY <4>1, <4>2, <1>2
    <3>2. \A i \in 1..Len(ms) : all[i + 1] = ms[i]
      <4> TAKE i \in 1..Len(ms)
      <4>1. i + 1 > Len(<<sys>>) /\ i + 1 - Len(<<sys>>) = i /\ i + 1 \in 1..(Len(<<sys>>) + Len(ms))
        <5> HIDE DEF sys, ms, all
        <5> QED BY <3>0, <1>2
      <4> HIDE DEF sys, ms, all
      <4> QED BY <3>0, <1>2, <2>2, <4>1
    <3>3. \A i \in 1..Len(q.own) : n + i + 1 \in (n + 1)..Len(all) /\ n + i \in 1..Len(ms)
      <4> HIDE DEF ms, all, n
      <4> QED BY <1>2, <3>1
    <3>4. \A i \in 1..Len(q.own) : all[n + i + 1] = q.own[i]
      <4> HIDE DEF ms, all, n
      <4> QED BY <1>2, <1>3, <3>2, <3>3
    <3>6. Len(all) >= Len(ms)
      <4> HIDE DEF ms, all, n
      <4> QED BY <1>2, <3>1
    <3> HIDE DEF ms, all, n
    <3> QED BY <1>f, <3>1, <3>3, <3>4, <3>6
  <2>3. CASE skills /\ SystemFirst(ms) /\ all = [ms EXCEPT ![1].text = Skilled(@)]
    <3> DEFINE m == [ms[1] EXCEPT !.text = Skilled(@)]
    <3>1. ms # <<>> /\ ms[1].role = "system" /\ 1 \in 1..Len(ms) /\ ms[1] \in Messages
      <4>1. ms \in Seq(Messages) /\ ms # <<>> /\ Head(ms).role = "system"
        BY <1>2, <2>3 DEF SystemFirst
      <4> HIDE DEF ms
      <4> QED BY <4>1
    <3> HIDE DEF ms, n
    <3>2. all = [ms EXCEPT ![1] = m]
      BY <2>3
    <3>3. m \in Messages /\ m.role = "system" /\ m.text = Skilled(ms[1].text)
      BY <3>1, Rewritten DEF Messages
    <3> HIDE DEF m, all
    <3>4. all \in Seq(Messages) /\ Len(all) = Len(ms) /\ all[1] = m
          /\ \A j \in 1..Len(ms) : j # 1 => all[j] = ms[j]
      BY <1>2, <3>1, <3>2, <3>3
    <3>5. ASSUME NEW i \in 1..Len(q.own)
          PROVE  n + i \in (n + 1)..Len(all) /\ Keeps(all[n + i], q.said, i)
      <4>1. n + i \in (n + 1)..Len(all) /\ n + i \in 1..Len(ms)
        BY <1>2, <3>4
      <4>2. CASE n + i # 1
        BY <1>3, <1>f, <3>4, <4>1, <4>2
      <4>3. CASE n + i = 1
        <5>1. n = 0 /\ i = 1
          BY <1>2, <4>3
        <5>2. ms[1] = q.own[1] /\ Keeps(q.own[1], q.said, 1) /\ 1 \in DOMAIN q.said
          BY <1>2, <1>3, <1>f, <5>1
        <5>3. Keeps(m, q.said, 1)
          BY <1>f, <3>1, <3>3, <5>2, VersionsOf DEF Keeps
        <5> QED BY <3>4, <4>1, <5>1, <5>3
      <4> QED BY <4>1, <4>2, <4>3
    <3> QED BY <1>2, <3>4, <3>5
  <2>4. all = ms \/ all = <<sys>> \o ms \/ (skills /\ SystemFirst(ms) /\ all = [ms EXCEPT ![1].text = Skilled(@)])
    BY DEF PreprocessRequest, Merged
  <2> QED BY <2>1, <2>2, <2>3, <2>4
<1>5. /\ tail \in Seq(Messages)
      /\ \A i \in 1..Len(q.own) : \E m \in ToSet(tail) : Keeps(m, q.said, i)
  <2>1. n + 1 \in Int /\ Len(all) \in Int /\ \A i \in (n + 1)..Len(all) : all[i] \in Messages
    <3> HIDE DEF ms, all, n
    <3> QED BY <1>2, <1>4
  <2>2. /\ tail \in Seq(Messages)
        /\ Len(tail) = IF n + 1 <= Len(all) THEN Len(all) - (n + 1) + 1 ELSE 0
        /\ \A i \in 1..(Len(all) - (n + 1) + 1) : tail[i] = all[(n + 1) + i - 1]
    <3> DEFINE from == n + 1
               end == Len(all)
    <3>1. from \in Int /\ end \in Int /\ \A i \in from..end : all[i] \in Messages
      BY <2>1
    <3>2. tail = SubSeq(all, from, end)
      OBVIOUS
    <3> HIDE DEF all, n, from, end, tail
    <3>3. /\ tail \in Seq(Messages)
          /\ Len(tail) = IF from <= end THEN end - from + 1 ELSE 0
          /\ \A i \in 1..(end - from + 1) : tail[i] = all[from + i - 1]
      BY <3>1, <3>2, SubSeqProperties
    <3> QED BY <3>3 DEF from, end
  <2>3. ASSUME NEW i \in 1..Len(q.own)
        PROVE  \E m \in ToSet(tail) : Keeps(m, q.said, i)
    <3>1. PICK j \in (n + 1)..Len(all) : Keeps(all[j], q.said, i)
      <4> HIDE DEF all, n
      <4> QED BY <1>4
    <3>2. j - n \in DOMAIN tail /\ tail[j - n] = all[j]
      <4> HIDE DEF all, n, tail
      <4>1. j - n \in 1..(Len(all) - (n + 1) + 1) /\ (n + 1) + (j - n) - 1 = j /\ n + 1 <= Len(all)
        BY <1>2, <2>1
      <4>2. j - n \in 1..Len(tail)
        BY <2>2, <4>1
      <4> QED BY <2>2, <4>1, <4>2
    <3> HIDE DEF tail, all, n
    <3> QED BY <3>1, <3>2 DEF ToSet
  <2> HIDE DEF tail
  <2> QED BY <2>2, <2>3 DEF ToSet
<1>6. /\ notTool \in Seq(Messages)
      /\ \A m \in ToSet(tail) : m.role # "tool" => m \in ToSet(notTool)
  <2> DEFINE places == {i \in DOMAIN tail : tail[i].role # "tool"}
  <2>1. /\ ElementsAt(tail, places) \in Seq(Messages)
        /\ ToSet(ElementsAt(tail, places)) = {tail[i] : i \in places \cap DOMAIN tail}
    <3> HIDE DEF tail, places
    <3> QED BY <1>5, ElementsAtPlaces
  <2>2. notTool = ElementsAt(tail, places)
    BY DEF Those
  <2>3. \A m \in ToSet(tail) : m.role # "tool" => m \in {tail[i] : i \in places \cap DOMAIN tail}
    <3> HIDE DEF tail
    <3> QED BY DEF ToSet
  <2> HIDE DEF notTool, places, tail
  <2> QED BY <1>5, <2>1, <2>2, <2>3
<1> DEFINE calls(m) == Said(m.role, "calls", q.turn, m.by)
           new == [i \in DOMAIN notTool |-> IF notTool[i].text = Nothing THEN calls(notTool[i]) ELSE notTool[i]]
<1>7. new = NewMessages(all, n, q)
  BY Zenon DEF NewMessages, Rememberable
<1>8. \A m \in Messages : calls(m) \in Messages
  <2> TAKE m \in Messages
  <2>1. m.role \in Roles /\ m.by \in Sessions /\ q.turn \in Nat
    BY DEF Messages, ChatStates
  <2> QED BY <2>1, SaidType DEF Texts
<1>9. new \in Seq(Messages)
  <2> HIDE DEF notTool, calls
  <2>1. DOMAIN notTool = 1..Len(notTool) /\ Len(notTool) \in Nat /\ \A i \in DOMAIN notTool : notTool[i] \in Messages
    BY <1>6
  <2> QED BY <2>1, <1>8
<1>10. \A i \in ToKeep(q.said) : Kept(q.said, i, new)
  <2> HIDE DEF notTool, calls, tail
  <2> SUFFICES ASSUME NEW i \in ToKeep(q.said)
               PROVE  Kept(q.said, i, new)
    OBVIOUS
  <2>1. i \in DOMAIN q.said /\ q.said[i].role # "tool" /\ q.said[i].text # Nothing
    BY DEF ToKeep
  <2>2. PICK m \in ToSet(tail) : Keeps(m, q.said, i)
    BY <1>5, <1>f, <2>1
  <2>3. m.role # "tool" /\ m.text # Nothing
    BY <1>f, <2>1, <2>2, VersionsOf DEF Keeps
  <2>4. PICK j \in DOMAIN notTool : notTool[j] = m
    BY <1>6, <2>3 DEF ToSet
  <2>5. j \in DOMAIN new /\ new[j] = m
    BY <2>3, <2>4
  <2> HIDE DEF new
  <2> QED BY <2>2, <2>5 DEF Kept, ToSet
<1> HIDE DEF new, all, n, ms
<1> QED BY <1>7, <1>9, <1>10 DEF all, n, ms

(* ------------------------- steps of a request -------------------------- *)

\* What a step of one request leaves alone.
OthersWait(c) == \A d \in Chats \ {c} : chat'[d] = chat[d]

\* The memory of a session only grows.
LEMMA MemoryGrows ==
  ASSUME MemoryInv, NEW s \in Sessions, NEW m \in Messages, Insert(s, m)
  PROVE  /\ memory' \in [Sessions -> Seq(Messages)]
         /\ m \in ToSet(memory'[s])
         /\ \A t \in Sessions : ToSet(memory[t]) \subseteq ToSet(memory'[t])
<1>1. /\ memory[s] \in Seq(Messages) /\ memory'[s] = Append(memory[s], m)
      /\ \A t \in Sessions \ {s} : memory'[t] = memory[t]
  BY DEF MemoryInv, MemoryTypeOK, Insert
<1>2. ToSet(memory'[s]) = ToSet(memory[s]) \cup {m}
  BY <1>1, AppendedElements
<1>3. memory' \in [Sessions -> Seq(Messages)]
  BY <1>1 DEF MemoryInv, MemoryTypeOK, Insert
<1> QED BY <1>1, <1>2, <1>3

\* A request whose own messages and session stay keeps what is remembered of it.
LEMMA RememberedStays ==
  ASSUME MemoryInv, NEW q \in ChatStates, Placed(q), Remembered(q, memory),
         \A t \in Sessions : ToSet(memory[t]) \subseteq ToSet(memory'[t])
  PROVE  Remembered(q, memory')
<1>1. q.pc # "idle" => q.session \in Sessions
  BY DEF Placed
<1>2. ASSUME NEW i, q.session \in Sessions, Kept(q.said, i, memory[q.session])
      PROVE  Kept(q.said, i, memory'[q.session])
  BY <1>2 DEF Kept
<1> QED BY <1>1, <1>2 DEF Remembered

\* What a step that changes the requests of one chat has to show of it.
LEMMA OneRequest ==
  ASSUME MemoryInv, NEW c \in Chats, NEW q, Put(c, q), q \in ChatStates,
         UNCHANGED <<begun, offset>>,
         sessions' \in [Sessions -> [status : {"none", "active", "ended"}, age : Nat]],
         abandoned' \subseteq Sessions, TooOld',
         memory' \in [Sessions -> Seq(Messages)],
         \A t \in Sessions : ToSet(memory[t]) \subseteq ToSet(memory'[t]),
         Placed(q), Remembered(q, memory')
  PROVE  MemoryInv'
<1>1. chat' \in [Chats -> ChatStates]
  BY DEF Put, MemoryInv, MemoryTypeOK, ChatStates, ChatPlaces
<1>2. ASSUME NEW d \in Chats
      PROVE  Placed(chat'[d]) /\ Remembered(chat'[d], memory')
  <2>1. CASE d = c
    <3>1. chat'[d] = q
      BY <2>1 DEF Put, MemoryInv, MemoryTypeOK
    <3> QED BY <3>1
  <2>2. CASE d # c
    <3>1. chat'[d] = chat[d] /\ chat[d] \in ChatStates
      BY <2>2 DEF Put, MemoryInv, MemoryTypeOK, ChatStates, ChatPlaces
    <3>2. Placed(chat[d]) /\ Remembered(chat[d], memory)
      BY DEF MemoryInv
    <3>3. Remembered(chat[d], memory')
      BY <3>1, <3>2, RememberedStays
    <3> QED BY <3>1, <3>2, <3>3
  <2> QED BY <2>1, <2>2
<1>3. MemoryTypeOK'
  BY <1>1 DEF MemoryInv, MemoryTypeOK, ChatStates, ChatPlaces
<1> QED BY <1>2, <1>3 DEF MemoryInv

\* The same of a step that changes nothing but a request.
LEMMA RequestAlone ==
  ASSUME MemoryInv, NEW c \in Chats, NEW q, Put(c, q), q \in ChatStates,
         UNCHANGED <<sessions, memory, begun, offset, abandoned>>,
         Placed(q), Remembered(q, memory)
  PROVE  MemoryInv'
<1>1. /\ sessions' \in [Sessions -> [status : {"none", "active", "ended"}, age : Nat]]
      /\ abandoned' \subseteq Sessions /\ memory' \in [Sessions -> Seq(Messages)]
  BY DEF MemoryInv, MemoryTypeOK
<1>2. TooOld'
  BY DEF MemoryInv, TooOld, Recent
<1>3. /\ Remembered(q, memory') /\ UNCHANGED <<begun, offset>>
      /\ \A t \in Sessions : ToSet(memory[t]) \subseteq ToSet(memory'[t])
  BY DEF Remembered
<1> QED BY <1>1, <1>2, <1>3, OneRequest

LEMMA RequestType ==
  ASSUME MemoryInv, NEW c \in Chats
  PROVE  /\ chat[c] \in ChatStates /\ Placed(chat[c]) /\ Remembered(chat[c], memory)
         /\ IdleChat \in ChatStates /\ Placed(IdleChat) /\ \A mem : Remembered(IdleChat, mem)
<1>1. chat[c] \in ChatStates /\ Placed(chat[c]) /\ Remembered(chat[c], memory)
  BY DEF MemoryInv, MemoryTypeOK, ChatStates, ChatPlaces
<1>2. IdleChat \in ChatStates /\ \A mem : Remembered(IdleChat, mem)
  BY DEF ChatStates, ChatPlaces, IdleChat, Remembered
<1>3. Placed(IdleChat)
  BY DEF IdleChat, Placed, Follows
<1> QED BY <1>1, <1>2, <1>3

LEMMA ReceiveStep ==
  ASSUME MemoryInv, NEW c \in Chats, Receive(c)
  PROVE  MemoryInv'
<1>1. PICK s \in Sessions, ms \in Conversations, e \in Entries, turn \in {begun, begun + 1} \ {0} :
          LET said == [i \in DOMAIN ms |-> Said(ms[i].role, ms[i].text, turn, s)]
          IN  Put(c, [IdleChat EXCEPT !.pc = IF e.skip THEN "touch" ELSE "refine", !.session = s, !.turn = turn,
                             !.skip = e.skip, !.api = e.api, !.said = said, !.own = said])
  BY DEF Receive
<1> DEFINE own == [i \in DOMAIN ms |-> Said(ms[i].role, ms[i].text, turn, s)]
           stage == IF e.skip THEN "touch" ELSE "refine"
           q == [IdleChat EXCEPT !.pc = stage, !.session = s, !.turn = turn, !.skip = e.skip, !.api = e.api,
                           !.said = own, !.own = own]
<1>2. Put(c, q)
  BY <1>1
<1>3. turn \in Nat /\ begun \in Nat
  BY DEF MemoryInv, MemoryTypeOK
<1>4. own \in Seq(Messages)
  <2>1. ms \in Seq([role : Roles, text : Words])
    BY MemoryAssumption
  <2>2. ASSUME NEW i \in DOMAIN ms
        PROVE  own[i] \in Messages
    <3>1. ms[i] \in [role : Roles, text : Words]
      <4>1. i \in 1..Len(ms)
        BY <2>1
      <4> HIDE DEF own, q
      <4> QED BY ONLY <2>1, <4>1, ElementOfSeq, Zenon
    <3>2. ms[i].role \in Roles /\ ms[i].text \in Texts
      BY <3>1 DEF Texts
    <3> QED BY <3>2, <1>3, SaidType
  <2>3. DOMAIN ms = 1..Len(ms) /\ Len(ms) \in Nat /\ own = [i \in 1..Len(ms) |-> own[i]]
    BY <2>1
  <2> HIDE DEF own
  <2> QED BY <2>2, <2>3
<1>5. e.skip \in BOOLEAN /\ e.api \in BOOLEAN
  BY MemoryAssumption
<1>6. q \in ChatStates /\ Placed(q) /\ Remembered(q, memory)
  <2>1. stage \in {"touch", "refine"}
    OBVIOUS
  <2> HIDE DEF own, stage
  <2>2. q \in ChatStates /\ q.pc = stage /\ q.session = s /\ q.said = own /\ q.own = own
    BY <1>3, <1>4, <1>5, <2>1, RequestType DEF ChatStates, ChatPlaces
  <2>3. Follows(own, own)
    BY DEF Follows, Keeps, Versions
  <2> HIDE DEF q
  <2> QED BY <2>1, <2>2, <2>3 DEF Placed, Remembered
<1>7. UNCHANGED <<sessions, memory, offset, abandoned>> /\ begun' = begun + 1
  BY DEF Receive
<1> HIDE DEF q
<1>8. chat' \in [Chats -> ChatStates]
  BY <1>2, <1>6 DEF Put, MemoryInv, MemoryTypeOK, ChatStates, ChatPlaces
<1>9. ASSUME NEW d \in Chats
      PROVE  Placed(chat'[d]) /\ Remembered(chat'[d], memory')
  <2>1. chat'[d] = q \/ chat'[d] = chat[d]
    BY <1>2 DEF Put, MemoryInv, MemoryTypeOK
  <2> QED BY <1>6, <1>7, <2>1, RequestType
<1> HIDE DEF own, stage
<1>10. MemoryTypeOK'
  <2>1. begun' \in Nat
    BY <1>3, <1>7
  <2>2. /\ sessions' \in [Sessions -> [status : {"none", "active", "ended"}, age : Nat]]
        /\ memory' \in [Sessions -> Seq(Messages)] /\ offset' \in Offsets /\ abandoned' \subseteq Sessions
    BY <1>7 DEF MemoryInv, MemoryTypeOK
  <2> QED BY ONLY <1>8, <2>1, <2>2 DEF MemoryTypeOK, ChatStates, ChatPlaces
<1>11. TooOld'
  BY <1>7 DEF MemoryInv, TooOld, Recent
<1> QED BY <1>9, <1>10, <1>11 DEF MemoryInv

LEMMA RefineStep ==
  ASSUME MemoryInv, NEW c \in Chats, RefineIntent(c)
  PROVE  MemoryInv'
<1> DEFINE q == chat[c]
           users == Users(q.own)
<1>1. /\ q \in ChatStates /\ Placed(q) /\ q.pc = "refine"
      /\ UNCHANGED <<sessions, memory, begun, offset, abandoned>>
  BY RequestType DEF RefineIntent
<1>2. CASE Put(c, [q EXCEPT !.pc = "touch"])
  <2> DEFINE new == [q EXCEPT !.pc = "touch"]
  <2> HIDE DEF q
  <2>1. new \in ChatStates /\ Placed(new) /\ Remembered(new, memory)
    BY <1>1 DEF ChatStates, ChatPlaces, Placed, Remembered
  <2> HIDE DEF new
  <2> QED BY <1>1, <1>2, <2>1, RequestAlone DEF new
<1>3. CASE users # {} /\ Put(c, [q EXCEPT !.pc = "touch", !.own[Max(users)].text = Refined(@)])
  <2> DEFINE k == Max(users)
             m == [q.own[k] EXCEPT !.text = Refined(@)]
             own == [q.own EXCEPT ![k] = m]
             new == [q EXCEPT !.pc = "touch", !.own = own]
  <2>1. /\ q.own \in Seq(Messages) /\ DOMAIN q.own = 1..Len(q.own) /\ Len(q.own) \in Nat
        /\ q.said = q.own
    BY <1>1 DEF ChatStates, Placed
  <2>2. k \in DOMAIN q.own /\ k \in users /\ \A j \in users : j <= k
    <3>1. users \in SUBSET (1..Len(q.own)) /\ users # {}
      BY <1>3, <2>1 DEF Users
    <3> HIDE DEF users
    <3>2. k \in users /\ \A j \in users : j <= k
      BY <2>1, <3>1, LastPlace
    <3> QED BY <2>1, <3>1, <3>2
  <2>3. m \in Messages /\ m.role = q.own[k].role /\ m.text = Refined(q.own[k].text)
    <3> HIDE DEF q, k
    <3>1. q.own[k] \in Messages
      BY <2>1, <2>2
    <3> QED BY <3>1, Rewritten DEF Messages
  <2>4. own \in Seq(Messages)
    <3> HIDE DEF q, k, m
    <3> QED BY ONLY <2>1, <2>2, <2>3, ExceptSeq
  <2>5. Follows(q.said, own)
    <3>1. Keeps(m, q.said, k)
      <4> HIDE DEF q, k, m
      <4> QED BY <2>1, <2>2, <2>3 DEF Keeps, Versions
    <3>2. \A i \in DOMAIN q.said : Keeps(q.own[i], q.said, i)
      BY <1>1 DEF Placed, Follows
    <3> HIDE DEF q, k, m
    <3> QED BY <2>1, <2>2, <3>1, <3>2 DEF Follows
  <2>6. Put(c, new)
    BY <1>3
  <2> HIDE DEF q, k, own
  <2>7. new \in ChatStates /\ Placed(new) /\ Remembered(new, memory)
    BY <1>1, <2>4, <2>5 DEF ChatStates, ChatPlaces, Placed, Remembered
  <2> HIDE DEF new
  <2> QED BY <1>1, <2>6, <2>7, RequestAlone
<1> QED BY <1>2, <1>3 DEF RefineIntent

LEMMA TouchStep ==
  ASSUME MemoryInv, NEW c \in Chats, Touch(c)
  PROVE  MemoryInv'
<1> DEFINE q == chat[c]
           new == [q EXCEPT !.pc = IF q.skip THEN "call" ELSE "retrieve"]
<1>1. /\ q \in ChatStates /\ Placed(q) /\ q.pc = "touch" /\ Put(c, new)
      /\ sessions' = [sessions EXCEPT ![q.session] = [status |-> "active", age |-> 0]]
      /\ abandoned' = abandoned \ {q.session} /\ UNCHANGED <<memory, begun, offset>>
  BY RequestType DEF Touch
<1> HIDE DEF q
<1>2. q.session \in Sessions
  BY <1>1 DEF Placed
<1>3. new \in ChatStates /\ Placed(new) /\ Remembered(new, memory')
  BY <1>1, <1>2 DEF ChatStates, ChatPlaces, Placed, Remembered
<1>4. sessions' \in [Sessions -> [status : {"none", "active", "ended"}, age : Nat]]
  BY <1>1, <1>2 DEF MemoryInv, MemoryTypeOK
<1>5. TooOld' /\ abandoned' \subseteq Sessions /\ memory' \in [Sessions -> Seq(Messages)]
  BY <1>1, <1>2 DEF MemoryInv, MemoryTypeOK, TooOld, Recent
<1>6. \A t \in Sessions : ToSet(memory[t]) \subseteq ToSet(memory'[t])
  BY <1>1
<1> HIDE DEF new
<1> QED BY <1>1, <1>3, <1>4, <1>5, <1>6, OneRequest

LEMMA InjectStep ==
  ASSUME MemoryInv, NEW c \in Chats, NEW rows \in Seq(Messages), Inject(c, rows),
         chat[c].pc \in {"retrieve", "continuity", "carry"},
         UNCHANGED <<sessions, memory, begun, offset, abandoned>>
  PROVE  MemoryInv' /\ chat'[c].from = chat[c].from
<1> DEFINE q == chat[c]
           injected == Injectable(rows)
<1>1. q \in ChatStates /\ Placed(q) /\ q.session \in Sessions /\ q.pc \in {"retrieve", "continuity", "carry"}
  BY RequestType DEF Placed
<1>2. PICK skills \in BOOLEAN :
        LET new == NewMessages(PreprocessRequest(injected \o q.own, skills, q), Len(injected), q)
        IN  Put(c, [q EXCEPT !.pc = IF new = <<>> THEN "call" ELSE "store", !.rest = new,
                             !.own = IF rows = <<>> THEN Merged(@, skills) ELSE @])
  BY DEF Inject, CallsForSkills
<1> DEFINE new == NewMessages(PreprocessRequest(injected \o q.own, skills, q), Len(injected), q)
           own == IF rows = <<>> THEN Merged(q.own, skills) ELSE q.own
           then == [q EXCEPT !.pc = IF new = <<>> THEN "call" ELSE "store", !.rest = new, !.own = own]
<1>3. injected \in Seq(Messages)
  BY ElementsAtPlaces DEF Injectable, Those
<1>4. Put(c, then)
  BY <1>2
<1> HIDE DEF q, injected
<1>5. new \in Seq(Messages) /\ \A i \in ToKeep(q.said) : Kept(q.said, i, new)
  BY <1>1, <1>3, NewMessagesType DEF Placed
<1>o. own \in Seq(Messages) /\ Follows(q.said, own)
  BY <1>1, MergedFollows DEF Placed, ChatStates
<1> HIDE DEF new, own
<1>6. /\ then \in ChatStates /\ then.own = own /\ then.said = q.said /\ then.rest = new
      /\ then.from = q.from /\ then.session = q.session
      /\ then.pc = IF new = <<>> THEN "call" ELSE "store"
  BY <1>1, <1>5, <1>o DEF ChatStates, ChatPlaces
<1>7. Placed(then)
  BY <1>1, <1>6, <1>o DEF Placed
<1>8. Remembered(then, memory)
  <2>1. new = <<>> => ToKeep(q.said) = {}
    BY <1>5 DEF Kept, ToSet
  <2> HIDE DEF then
  <2> QED BY <1>5, <1>6, <2>1 DEF Remembered
<1> HIDE DEF then
<1>9. MemoryInv'
  BY <1>4, <1>6, <1>7, <1>8, RequestAlone
<1>10. chat'[c] = then
  BY <1>4 DEF Put, MemoryInv, MemoryTypeOK
<1> QED BY <1>6, <1>9, <1>10 DEF q

LEMMA RetrieveStep ==
  ASSUME MemoryInv, NEW c \in Chats, Retrieve(c)
  PROVE  MemoryInv' /\ chat'[c].from = chat[c].from
<1> DEFINE q == chat[c]
<1>1. /\ q \in ChatStates /\ Placed(q) /\ q.pc = "retrieve" /\ q.session \in Sessions
      /\ UNCHANGED <<sessions, memory, begun, offset, abandoned>>
  BY RequestType DEF Retrieve, Placed
<1>2. PICK rows \in Relevant(q.session, Query(q.own)) :
          IF rows = <<>> THEN Put(c, [q EXCEPT !.pc = "continuity"]) ELSE Inject(c, rows)
  BY DEF Retrieve
<1>3. rows \in Seq(Messages)
  BY <1>1, RelevantType DEF MemoryInv
<1>4. CASE rows = <<>>
  <2> DEFINE new == [q EXCEPT !.pc = "continuity"]
  <2>1. Put(c, new)
    BY <1>2, <1>4
  <2> HIDE DEF q
  <2>2. new \in ChatStates /\ Placed(new) /\ Remembered(new, memory) /\ new.from = q.from
    BY <1>1 DEF ChatStates, ChatPlaces, Placed, Remembered
  <2> HIDE DEF new
  <2>3. chat'[c] = new
    BY <2>1 DEF Put, MemoryInv, MemoryTypeOK
  <2> QED BY <1>1, <2>1, <2>2, <2>3, RequestAlone DEF q
<1>5. CASE rows # <<>>
  BY <1>1, <1>2, <1>3, <1>5, InjectStep
<1> QED BY <1>4, <1>5

\* A session is continued that is recent, which none is that ran out of time.
LEMMA FindStep ==
  ASSUME MemoryInv, NEW c \in Chats, FindRecentEnded(c)
  PROVE  MemoryInv' /\ (chat'[c].from = chat[c].from \/ chat'[c].from \notin abandoned)
<1> DEFINE q == chat[c]
           ended == {s \in Sessions \ {q.session} : sessions[s].status = "ended" /\ Recent(s)}
<1>1. /\ q \in ChatStates /\ Placed(q) /\ q.pc = "continuity" /\ q.session \in Sessions
      /\ UNCHANGED <<sessions, memory, begun, offset, abandoned>>
  BY RequestType DEF FindRecentEnded, Placed
<1>2. CASE Inject(c, <<>>)
  <2>1. <<>> \in Seq(Messages)
    OBVIOUS
  <2> QED BY <1>1, <1>2, <2>1, InjectStep
<1>3. ASSUME NEW s \in ended, Put(c, [q EXCEPT !.pc = "carry", !.from = s])
      PROVE  MemoryInv' /\ chat'[c].from \notin abandoned
  <2> DEFINE new == [q EXCEPT !.pc = "carry", !.from = s]
  <2>1. s \in Sessions /\ s \notin abandoned
    BY DEF MemoryInv, TooOld
  <2>2. Put(c, new)
    BY <1>3
  <2> HIDE DEF q, ended
  <2>3. new \in ChatStates /\ Placed(new) /\ Remembered(new, memory) /\ new.from = s
    BY <1>1, <2>1 DEF ChatStates, ChatPlaces, Placed, Remembered
  <2> HIDE DEF new
  <2>4. chat'[c] = new
    BY <2>2 DEF Put, MemoryInv, MemoryTypeOK
  <2> QED BY <1>1, <2>1, <2>2, <2>3, <2>4, RequestAlone
<1> QED BY <1>2, <1>3 DEF FindRecentEnded

LEMMA CarryStep ==
  ASSUME MemoryInv, NEW c \in Chats, CarryOver(c)
  PROVE  MemoryInv' /\ chat'[c].from = chat[c].from
<1> DEFINE rows == Newest(memory[chat[c].from], CarriedRows)
<1>1. chat[c].pc = "carry" /\ Inject(c, rows) /\ UNCHANGED <<sessions, memory, begun, offset, abandoned>>
  BY DEF CarryOver
<1>2. memory[chat[c].from] \in Seq(Messages)
  BY <1>1, RequestType DEF Placed, MemoryInv, MemoryTypeOK
<1>3. rows \in Seq(Messages)
  BY <1>2, NewestType, MemoryAssumption
<1> HIDE DEF rows
<1> QED BY <1>1, <1>3, InjectStep

LEMMA StoreStep ==
  ASSUME MemoryInv, NEW c \in Chats, StoreNext(c)
  PROVE  MemoryInv' /\ chat'[c].from = chat[c].from
<1> DEFINE q == chat[c]
           stage == IF Len(q.rest) = 1 THEN (IF q.pc = "store" THEN "call" ELSE "answered") ELSE q.pc
           new == [q EXCEPT !.rest = Tail(q.rest), !.pc = stage]
           m == Head(q.rest)
<1>1. /\ q \in ChatStates /\ Placed(q) /\ Remembered(q, memory) /\ q.pc \in {"store", "handler"}
      /\ Insert(q.session, m) /\ Put(c, new) /\ UNCHANGED <<sessions, begun, offset, abandoned>>
  BY RequestType DEF StoreNext
<1>2. q.rest \in Seq(Messages) /\ q.rest # <<>> /\ q.session \in Sessions
  BY <1>1 DEF Placed, ChatStates
<1>3. m \in Messages /\ Tail(q.rest) \in Seq(Messages)
      /\ (Len(q.rest) = 1 => Tail(q.rest) = <<>>) /\ (Len(q.rest) # 1 => Tail(q.rest) # <<>>)
      /\ ToSet(q.rest) = {m} \cup ToSet(Tail(q.rest))
  <2> DEFINE rest == q.rest
  <2> HIDE DEF q
  <2>0. rest \in Seq(Messages) /\ rest # <<>>
    BY <1>2
  <2> HIDE DEF rest
  <2>1. Head(rest) \in Messages /\ Tail(rest) \in Seq(Messages) /\ Len(Tail(rest)) = Len(rest) - 1
        /\ Len(rest) \in Nat /\ Len(rest) > 0
    BY <2>0
  <2>2. \A i \in 1..Len(rest) : i = 1 \/ (i - 1 \in 1..Len(Tail(rest)) /\ rest[i] = Tail(rest)[i - 1])
    BY <2>0, <2>1
  <2>3. \A i \in 1..Len(Tail(rest)) : i + 1 \in 1..Len(rest) /\ Tail(rest)[i] = rest[i + 1]
    BY <2>0, <2>1
  <2>4. rest[1] = Head(rest) /\ 1 \in 1..Len(rest) /\ DOMAIN rest = 1..Len(rest) /\ DOMAIN Tail(rest) = 1..Len(Tail(rest))
    BY <2>0, <2>1
  <2>5. ToSet(rest) = {Head(rest)} \cup ToSet(Tail(rest))
    <3>1. ToSet(rest) \subseteq {Head(rest)} \cup ToSet(Tail(rest))
      <4> SUFFICES ASSUME NEW i \in 1..Len(rest)
                   PROVE  rest[i] \in {Head(rest)} \cup ToSet(Tail(rest))
        BY <2>4 DEF ToSet
      <4>1. CASE i = 1
        BY <2>4, <4>1
      <4>2. CASE i # 1
        BY <2>2, <2>4, <4>2 DEF ToSet
      <4> QED BY <4>1, <4>2
    <3>2. {Head(rest)} \cup ToSet(Tail(rest)) \subseteq ToSet(rest)
      BY <2>3, <2>4 DEF ToSet
    <3> QED BY <3>1, <3>2
  <2>6. (Len(rest) = 1 => Tail(rest) = <<>>) /\ (Len(rest) # 1 => Tail(rest) # <<>>)
    <3>1. Tail(rest) = <<>> <=> Len(Tail(rest)) = 0
      BY <2>1, EmptySeq
    <3> QED BY <2>1, <3>1
  <2> QED BY <2>1, <2>5, <2>6 DEF rest
<1> HIDE DEF q, m
<1>4. /\ memory' \in [Sessions -> Seq(Messages)] /\ m \in ToSet(memory'[q.session])
      /\ \A t \in Sessions : ToSet(memory[t]) \subseteq ToSet(memory'[t])
  BY <1>1, <1>2, <1>3, MemoryGrows
<1>5. /\ stage \in {"store", "handler", "call", "answered"}
      /\ stage \in {"store", "handler"} => stage = q.pc /\ Tail(q.rest) # <<>>
      /\ stage \in {"call", "answered"} => Tail(q.rest) = <<>>
      /\ stage = "answered" => q.pc = "handler"
      /\ stage = "call" => q.pc = "store"
  BY <1>1, <1>3
<1> HIDE DEF stage
<1>6. /\ new \in ChatStates /\ new.own = q.own /\ new.said = q.said /\ new.session = q.session /\ new.from = q.from /\ new.skip = q.skip
      /\ new.pc = stage /\ new.rest = Tail(q.rest)
  BY <1>1, <1>3, <1>5 DEF ChatStates, ChatPlaces
<1> HIDE DEF new
<1>7. Placed(new)
  BY <1>1, <1>2, <1>5, <1>6 DEF Placed
<1>8. Remembered(new, memory')
  <2> SUFFICES ASSUME ~q.skip, NEW i \in ToKeep(q.said)
               PROVE  Kept(q.said, i, memory'[q.session]) \/ (stage = "store" /\ Kept(q.said, i, Tail(q.rest)))
    BY <1>5, <1>6 DEF Remembered
  <2>1. CASE Kept(q.said, i, memory[q.session])
    BY <1>2, <1>4, <2>1 DEF Kept
  <2>2. CASE q.pc = "store" /\ Kept(q.said, i, q.rest)
    <3>1. PICK kept \in ToSet(q.rest) : Keeps(kept, q.said, i)
      BY <2>2 DEF Kept
    <3>2. CASE kept = m
      BY <1>4, <3>1, <3>2 DEF Kept
    <3>3. CASE kept \in ToSet(Tail(q.rest))
      <4>1. Tail(q.rest) # <<>>
        BY <3>3 DEF ToSet
      <4> QED BY <1>5, <2>2, <3>1, <3>3, <4>1 DEF Kept
    <3> QED BY <1>3, <3>1, <3>2, <3>3
  <2> QED BY <1>1, <2>1, <2>2 DEF Remembered
<1>9. /\ sessions' \in [Sessions -> [status : {"none", "active", "ended"}, age : Nat]]
      /\ abandoned' \subseteq Sessions /\ TooOld'
  BY <1>1 DEF MemoryInv, MemoryTypeOK, TooOld, Recent
<1>10. MemoryInv'
  BY <1>1, <1>4, <1>6, <1>7, <1>8, <1>9, OneRequest
<1>11. chat'[c] = new
  BY <1>1 DEF Put, MemoryInv, MemoryTypeOK
<1> QED BY <1>6, <1>10, <1>11 DEF q

LEMMA AnswerStep ==
  ASSUME MemoryInv, NEW c \in Chats, Answer(c)
  PROVE  MemoryInv' /\ chat'[c].from = chat[c].from
<1> DEFINE q == chat[c]
           a == Said("assistant", "answer", q.turn, q.session)
<1>1. PICK text \in BOOLEAN :
        /\ IF text /\ ~q.skip THEN Insert(q.session, a) ELSE UNCHANGED memory
        /\ Put(c, [q EXCEPT !.pc = IF q.api THEN "persist" ELSE "answered",
                            !.rest = IF q.api /\ text THEN <<a>> ELSE <<>>])
  BY DEF Answer
<1> DEFINE stage == IF q.api THEN "persist" ELSE "answered"
           rest == IF q.api /\ text THEN <<a>> ELSE <<>>
           new == [q EXCEPT !.pc = stage, !.rest = rest]
<1>2. /\ q \in ChatStates /\ Placed(q) /\ Remembered(q, memory) /\ q.pc = "call" /\ q.session \in Sessions
      /\ Put(c, new) /\ UNCHANGED <<sessions, begun, offset, abandoned>>
  BY <1>1, RequestType DEF Answer, Placed
<1>3. a \in Messages
  <2>1. q.turn \in Nat
    BY <1>2 DEF ChatStates
  <2> QED BY <1>2, <2>1, SaidType DEF Texts, Roles
<1>4. rest \in Seq(Messages) /\ stage \in {"persist", "answered"}
  <2> HIDE DEF a
  <2> QED BY <1>3
<1>5. /\ memory' \in [Sessions -> Seq(Messages)]
      /\ \A t \in Sessions : ToSet(memory[t]) \subseteq ToSet(memory'[t])
  <2> HIDE DEF a
  <2>1. CASE UNCHANGED memory
    BY <2>1 DEF MemoryInv, MemoryTypeOK
  <2>2. CASE Insert(q.session, a)
    BY <1>2, <1>3, <2>2, MemoryGrows
  <2> QED BY <1>1, <2>1, <2>2
<1> HIDE DEF q, a, rest, stage
<1>6. /\ new \in ChatStates /\ new.own = q.own /\ new.said = q.said /\ new.session = q.session /\ new.from = q.from /\ new.skip = q.skip
      /\ new.pc = stage
  BY <1>2, <1>4 DEF ChatStates, ChatPlaces
<1> HIDE DEF new
<1>7. Placed(new)
  BY <1>2, <1>4, <1>6 DEF Placed
<1>8. Remembered(new, memory')
  <2>1. ASSUME NEW i, Kept(q.said, i, memory[q.session])
        PROVE  Kept(q.said, i, memory'[q.session])
    BY <1>2, <1>5, <2>1 DEF Kept
  <2> QED BY <1>2, <1>4, <1>6, <2>1 DEF Remembered
<1>9. /\ sessions' \in [Sessions -> [status : {"none", "active", "ended"}, age : Nat]]
      /\ abandoned' \subseteq Sessions /\ TooOld'
  BY <1>2 DEF MemoryInv, MemoryTypeOK, TooOld, Recent
<1>10. MemoryInv'
  BY <1>2, <1>5, <1>6, <1>7, <1>8, <1>9, OneRequest
<1>11. chat'[c] = new
  BY <1>2 DEF Put, MemoryInv, MemoryTypeOK
<1> QED BY <1>6, <1>10, <1>11 DEF q

LEMMA ReplyStep ==
  ASSUME MemoryInv, NEW c \in Chats, Reply(c) \/ CallFailed(c)
  PROVE  MemoryInv' /\ chat'[c].from = NoSession
<1>1. Put(c, IdleChat) /\ UNCHANGED <<sessions, memory, begun, offset, abandoned>>
  BY DEF Reply, CallFailed
<1>2. MemoryInv'
  BY <1>1, RequestType, RequestAlone
<1>3. chat'[c] = IdleChat
  BY <1>1 DEF Put, MemoryInv, MemoryTypeOK
<1> QED BY <1>2, <1>3 DEF IdleChat

LEMMA StoreTurnStep ==
  ASSUME MemoryInv, NEW c \in Chats, StoreTurn(c)
  PROVE  MemoryInv' /\ chat'[c].from = chat[c].from
<1> DEFINE q == chat[c]
           turn == IF ~q.skip THEN q.own ELSE Those(Newest(q.own, 1), LAMBDA m : m.role = "user")
           rest == turn \o q.rest
           stage == IF rest = <<>> THEN "answered" ELSE "handler"
           new == [q EXCEPT !.rest = rest, !.pc = stage]
<1>1. /\ q \in ChatStates /\ Placed(q) /\ Remembered(q, memory) /\ q.pc = "persist" /\ q.session \in Sessions
      /\ Put(c, new) /\ UNCHANGED <<sessions, memory, begun, offset, abandoned>>
  BY RequestType DEF StoreTurn, Placed
<1>2. q.own \in Seq(Messages) /\ q.rest \in Seq(Messages)
  BY <1>1 DEF ChatStates
<1>3. rest \in Seq(Messages)
  <2>1. Newest(q.own, 1) \in Seq(Messages)
    BY <1>2, 1 \in Nat, NewestType
  <2>2. Those(Newest(q.own, 1), LAMBDA m : m.role = "user") \in Seq(Messages)
    BY <2>1, ElementsAtPlaces DEF Those
  <2>3. turn \in Seq(Messages)
    BY <1>2, <2>2
  <2> HIDE DEF turn
  <2> QED BY <1>2, <2>3
<1> HIDE DEF q, rest
<1>4. /\ new \in ChatStates /\ new.own = q.own /\ new.said = q.said /\ new.session = q.session /\ new.from = q.from /\ new.skip = q.skip
      /\ new.pc = stage /\ new.rest = rest
  BY <1>1, <1>3 DEF ChatStates, ChatPlaces
<1>5. stage \in {"handler", "answered"} /\ (stage = "handler" => rest # <<>>)
  OBVIOUS
<1> HIDE DEF new, stage
<1>6. Placed(new) /\ Remembered(new, memory)
  BY <1>1, <1>4, <1>5 DEF Placed, Remembered
<1>7. MemoryInv'
  BY <1>1, <1>4, <1>6, RequestAlone
<1>8. chat'[c] = new
  BY <1>1 DEF Put, MemoryInv, MemoryTypeOK
<1> QED BY <1>4, <1>7, <1>8 DEF q

\* The steps of the sessions table change no request and no memory.
LEMMA SessionsStep ==
  ASSUME MemoryInv, EndInactiveSessions \/ TimeGoesBy \/ \E s \in Sessions : EndSession(s)
  PROVE  MemoryInv' /\ chat' = chat
<1>1. UNCHANGED <<memory, chat, begun, offset>>
  BY DEF EndInactiveSessions, TimeGoesBy, EndSession
<1>2. /\ sessions' \in [Sessions -> [status : {"none", "active", "ended"}, age : Nat]]
      /\ abandoned' \subseteq Sessions /\ TooOld'
  <2>0. /\ sessions \in [Sessions -> [status : {"none", "active", "ended"}, age : Nat]]
        /\ abandoned \subseteq Sessions /\ TooOld
        /\ offset \in Int /\ Window \in Int /\ offset' = offset
    BY <1>1, MemoryAssumption DEF MemoryInv, MemoryTypeOK
  <2>1. CASE EndInactiveSessions
    <3> DEFINE idle == {s \in Sessions : sessions[s].status = "active" /\ TimedOut(s)}
    <3>1. /\ sessions' = [s \in Sessions |-> IF s \in idle THEN [sessions[s] EXCEPT !.status = "ended"] ELSE sessions[s]]
          /\ abandoned' = abandoned \cup idle
      BY <2>1 DEF EndInactiveSessions
    <3>2. \A s \in idle : ~Recent(s)
      BY <2>0 DEF TimedOut, Recent
    <3>3. idle \subseteq Sessions
      OBVIOUS
    <3> HIDE DEF idle
    <3>4. \A s \in Sessions : sessions'[s].age = sessions[s].age
      BY <2>0, <3>1
    <3>5. sessions' \in [Sessions -> [status : {"none", "active", "ended"}, age : Nat]]
      BY <2>0, <3>1
    <3> QED BY <2>0, <3>1, <3>2, <3>3, <3>4, <3>5 DEF TooOld, Recent
  <2>2. CASE TimeGoesBy
    <3>1. /\ sessions' = [s \in Sessions |-> [sessions[s] EXCEPT !.age = IF @ < OldestAge THEN @ + 1 ELSE @]]
          /\ abandoned' = abandoned
      BY <2>2 DEF TimeGoesBy
    <3> DEFINE later(s) == IF sessions[s].age < OldestAge THEN sessions[s].age + 1 ELSE sessions[s].age
    <3>2. \A s \in Sessions : later(s) \in Nat /\ later(s) >= sessions[s].age
      BY <2>0
    <3>3. sessions' = [s \in Sessions |-> [sessions[s] EXCEPT !.age = later(s)]]
      BY <3>1
    <3> HIDE DEF later
    <3>4. sessions' \in [Sessions -> [status : {"none", "active", "ended"}, age : Nat]]
          /\ \A s \in Sessions : sessions'[s].age = later(s)
      BY <2>0, <3>2, <3>3
    <3> QED BY <2>0, <3>1, <3>2, <3>4 DEF TooOld, Recent
  <2>3. ASSUME NEW s \in Sessions, EndSession(s)
        PROVE  /\ sessions' \in [Sessions -> [status : {"none", "active", "ended"}, age : Nat]]
               /\ abandoned' \subseteq Sessions /\ TooOld'
    BY <2>0, <2>3 DEF EndSession, TooOld, Recent
  <2> QED BY <2>1, <2>2, <2>3
<1>3. MemoryTypeOK'
  BY <1>1, <1>2 DEF MemoryInv, MemoryTypeOK
<1> QED BY <1>1, <1>2, <1>3 DEF MemoryInv, Placed, Remembered

\* The continued session of a request is new only where the request looks for one.
NoneAbandonedContinued ==
    \A c \in Chats : chat'[c].from # NoSession /\ chat[c].from = NoSession => chat'[c].from \notin abandoned

LEMMA MemoryStep ==
  ASSUME MemoryInv, [MemoryNext]_memoryVars
  PROVE  MemoryInv' /\ NoneAbandonedContinued
<1>1. ASSUME NEW c \in Chats, MemoryInv', \A d \in Chats \ {c} : chat'[d] = chat[d],
             chat'[c].from \in {chat[c].from, NoSession} \/ chat'[c].from \notin abandoned
      PROVE  NoneAbandonedContinued
  BY <1>1 DEF NoneAbandonedContinued
<1>2. ASSUME NEW c \in Chats,
             Receive(c) \/ RefineIntent(c) \/ Touch(c)
      PROVE  MemoryInv' /\ chat'[c].from \in {chat[c].from, NoSession}
  <2>1. \E q : Put(c, q) /\ q.from \in {chat[c].from, NoSession}
    <3>1. CASE Receive(c)
      <4>1. PICK s \in Sessions, ms \in Conversations, e \in Entries, turn \in {begun, begun + 1} \ {0} :
              LET said == [i \in DOMAIN ms |-> Said(ms[i].role, ms[i].text, turn, s)]
              IN  Put(c, [IdleChat EXCEPT !.pc = IF e.skip THEN "touch" ELSE "refine", !.session = s, !.turn = turn,
                                 !.skip = e.skip, !.api = e.api, !.said = said, !.own = said])
        BY <3>1 DEF Receive
      <4>2. \A at, own : [IdleChat EXCEPT !.pc = at, !.session = s, !.turn = turn,
                             !.skip = e.skip, !.api = e.api, !.said = own, !.own = own].from = NoSession
        BY RequestType DEF IdleChat
      <4> QED BY <4>1, <4>2
    <3>2. CASE RefineIntent(c)
      <4> DEFINE q == chat[c]
      <4>1. q \in ChatStates
        BY RequestType
      <4>2. \/ Put(c, [q EXCEPT !.pc = "touch"])
            \/ \E k : Put(c, [q EXCEPT !.pc = "touch", !.own[k].text = Refined(@)])
        BY <3>2 DEF RefineIntent
      <4> HIDE DEF q
      <4>3. [q EXCEPT !.pc = "touch"].from = q.from
        BY <4>1 DEF ChatStates
      <4>4. \A own : [q EXCEPT !.pc = "touch", !.own = own].from = q.from
        BY <4>1 DEF ChatStates
      <4> QED BY <4>2, <4>3, <4>4 DEF q
    <3>3. CASE Touch(c)
      <4> DEFINE q == chat[c]
      <4>1. q \in ChatStates
        BY RequestType
      <4>2. Put(c, [q EXCEPT !.pc = IF q.skip THEN "call" ELSE "retrieve"])
        BY <3>3 DEF Touch
      <4> HIDE DEF q
      <4>3. \A at : [q EXCEPT !.pc = at].from = q.from
        BY <4>1 DEF ChatStates
      <4> QED BY <4>2, <4>3 DEF q
    <3> QED BY <1>2, <3>1, <3>2, <3>3
  <2>2. chat'[c].from \in {chat[c].from, NoSession}
    BY <2>1 DEF Put, MemoryInv, MemoryTypeOK
  <2> QED BY <1>2, <2>2, ReceiveStep, RefineStep, TouchStep
<1>3. ASSUME NEW c \in Chats,
             \/ Receive(c) \/ RefineIntent(c) \/ Touch(c) \/ Retrieve(c) \/ FindRecentEnded(c) \/ CarryOver(c)
             \/ StoreNext(c) \/ Answer(c) \/ CallFailed(c)
             \/ StoreTurn(c) \/ Reply(c)
      PROVE  MemoryInv' /\ NoneAbandonedContinued
  <2>1. \A d \in Chats \ {c} : chat'[d] = chat[d]
    <3>1. \E q : Put(c, q)
      BY <1>3 DEF Receive, RefineIntent, Touch, Retrieve, FindRecentEnded, CarryOver, Inject, StoreNext, Answer,
                  CallFailed, StoreTurn, Reply
    <3> QED BY <3>1 DEF Put, MemoryInv, MemoryTypeOK
  <2>2. MemoryInv' /\ (chat'[c].from \in {chat[c].from, NoSession} \/ chat'[c].from \notin abandoned)
    BY <1>2, <1>3, RetrieveStep, FindStep, CarryStep, StoreStep, AnswerStep, StoreTurnStep, ReplyStep
  <2> QED BY <1>1, <2>1, <2>2
<1>4. CASE EndInactiveSessions \/ TimeGoesBy \/ \E s \in Sessions : EndSession(s)
  BY <1>4, SessionsStep DEF NoneAbandonedContinued
<1>5. CASE UNCHANGED memoryVars
  <2>1. UNCHANGED <<sessions, memory, chat, begun, offset, abandoned>>
    BY <1>5 DEF memoryVars
  <2> QED BY <2>1 DEF MemoryInv, MemoryTypeOK, TooOld, Recent, Placed, Remembered, NoneAbandonedContinued
<1> QED BY <1>3, <1>4, <1>5 DEF MemoryNext

LEMMA MemoryInitially ==
  ASSUME MemoryInit
  PROVE  MemoryInv
<1>1. MemoryTypeOK
  BY DEF MemoryInit, MemoryTypeOK, IdleChat
<1>2. Placed(IdleChat) /\ Remembered(IdleChat, memory)
  BY DEF Placed, Remembered, Follows, IdleChat
<1> QED BY <1>1, <1>2 DEF MemoryInit, MemoryInv, TooOld

LEMMA MemoryAlways == MemorySpec => []MemoryInv
<1>1. MemoryInit => MemoryInv
  BY MemoryInitially
<1>2. MemoryInv /\ [MemoryNext]_memoryVars => MemoryInv'
  BY MemoryStep
<1> QED BY <1>1, <1>2, PTL DEF MemorySpec

\* Rows and messages, requests, sessions and the memory of each keep their
\* types (sessions.go, vector.go, ChatCompletionWithDebug of router.go).
THEOREM MemoryTypeCorrect == MemorySpec => []MemoryTypeOK
<1>1. MemoryInv => MemoryTypeOK
  BY DEF MemoryInv
<1> QED BY <1>1, MemoryAlways, PTL

\* Each message that the client of an answered request said is in the memory
\* of its session, in the client's words or as the router rewrote it (a
\* refined question, instructions with skills), for any conversations,
\* interleavings and carried rows: the router stores what follows as many
\* messages as it put in front (router.go:482-560).
THEOREM AnsweredAreRemembered == MemorySpec => []AnsweredIsRemembered
<1>1. MemoryInv => AnsweredIsRemembered
  BY DEF MemoryInv, Remembered, Kept, AnsweredIsRemembered
<1> QED BY <1>1, MemoryAlways, PTL

\* No request continues a session that ran out of time: what the ticker ends
\* is too old for FindRecentEnded, whatever the offset of the clock (sessions.go).
THEOREM AbandonedStayApart == MemorySpec => AbandonedStaysApart
<1>1. MemoryInv /\ [MemoryNext]_memoryVars => [NoneAbandonedContinued]_memoryVars
  BY MemoryStep
<1> QED BY <1>1, MemoryAlways, PTL DEF MemorySpec, AbandonedStaysApart, NoneAbandonedContinued
==============================================================================
