------------------------------- MODULE Router --------------------------------
(***************************************************************************)
(* internal/router/router.go with concurrency.go and usage/tracker.go: how *)
(* concurrent requests are routed over a chain of providers.  A request    *)
(* selects a primary provider, tries it under the provider's concurrency   *)
(* limit, and on failure collects and tries the other providers.  The      *)
(* requests share each provider's circuit breaker row, the cache of health *)
(* checks, the semaphores and the day's usage.                             *)
(*                                                                         *)
(* A look at one provider (GetState, then the cached or real health check) *)
(* is one step here; module Breaker splits it further.  What a provider    *)
(* answers, to a call or to a health check, is any of its possible         *)
(* answers.                                                                *)
(***************************************************************************)
EXTENDS CircuitRow, Sequences, FiniteSets, Functions

CONSTANTS
    Chain,              \* r.providers: the providers, in order
    Requests,           \* concurrent requests
    Modes,              \* entry points in use: "auto", "preferred", "stream"
    Limit,              \* slots of a provider's semaphore
    Tracked,            \* providers with an enabled row in provider_quotas
    WarnAt, Full        \* usage at the warning threshold and at the daily limit

Providers == Range(Chain)

None == "none"

ASSUME RouterAssumption ==
    /\ Chain \in Seq(Providers)
    /\ IsInjective(Chain)
    /\ None \notin Providers
    /\ IsFiniteSet(Requests)
    /\ Modes \subseteq {"auto", "preferred", "stream"}
    /\ Limit \in Nat \ {0}
    /\ Tracked \subseteq Providers
    /\ WarnAt \in Nat /\ Full \in Nat /\ WarnAt <= Full

VARIABLES
    row,                \* circuitBreakers: one row for each provider
    cache,              \* healthCache: "none" stands for a stale entry too
    inFlight,           \* slots taken in each semaphore
    usage,              \* daily_usage of the tracked providers
    req                 \* the requests, each asked once

vars == <<row, cache, inFlight, usage, req>>

\* A request: where it is, its entry point, the providers that support its
\* model, the provider at hand, those it still has to look at or to try (both
\* taken in the order of the chain), those it tried, and (history) those it
\* passed over while collecting.
Request == [pc : {"idle", "scan", "try", "slot", "call", "trip", "collect",
                  "stream", "plain", "stall", "served", "failed"},
            mode : {"auto", "preferred", "stream"},
            supp : SUBSET Providers,
            cur : Providers \cup {None},
            rest : SUBSET Providers,
            cand : SUBSET Providers,
            tried : Seq(Providers),
            skipped : SUBSET Providers]

IdleRequest == [pc |-> "idle", mode |-> "auto", supp |-> {}, cur |-> None,
                rest |-> {}, cand |-> {}, tried |-> <<>>, skipped |-> {}]

Init ==
    /\ row = [p \in Providers |-> ClosedRow]
    /\ cache = [p \in Providers |-> "none"]
    /\ inFlight = [p \in Providers |-> 0]
    /\ usage = [p \in Tracked |-> 0]
    /\ req = [r \in Requests |-> IdleRequest]

(* -------------------------------- selection ---------------------------- *)

\* The earliest of some providers in the chain: lists of providers are kept
\* in its order (but for the candidate that usage moves to the front, which
\* is tried at once), so that a set of them stands for the list.
FirstOf(names) ==
    Chain[CHOOSE i \in DOMAIN Chain :
              /\ Chain[i] \in names
              /\ \A j \in DOMAIN Chain : Chain[j] \in names => i <= j]

\* usageTracker.GetBestProvider: the first of the names under the warning
\* threshold; failing that the least used of those under their limit, the
\* earlier one on a tie; None when there is no such name (an error).
BestProvider(names) ==
    LET quotas == names \cap Tracked
        under  == {p \in quotas : usage[p] < WarnAt}
        below  == {p \in quotas : usage[p] < Full}
        least  == {p \in below : \A q \in below : usage[p] <= usage[q]}
    IN  CASE under # {} -> FirstOf(under)
          [] under = {} /\ least # {} -> FirstOf(least)
          [] OTHER -> None

\* mutant: a fresh entry of the health cache is believed before the circuit.
IsOpenUnlessCached(p) == cache[p] = "none" /\ row[p].state = "open" /\ ~Expired(row[p])

\* IsOpen, and the row as GetState leaves it.
IsOpen(p) == row[p].state = "open" /\ ~Expired(row[p])
Looked(p) == IF Expired(row[p]) THEN HalfOpened(row[p]) ELSE row[p]
Look(p) == row' = [row EXCEPT ![p] = Looked(p)]

\* isHealthyCached: an open circuit is unhealthy; a fresh cache entry
\* decides; else a real check, whose answer is cached.
HealthCheck(p, healthy) ==
    /\ Look(p)
    /\ \/ /\ IsOpen(p)
          /\ healthy = FALSE
          /\ UNCHANGED cache
       \/ /\ ~IsOpen(p)
          /\ cache[p] # "none"
          /\ healthy = (cache[p] = "healthy")
          /\ UNCHANGED cache
       \/ /\ ~IsOpen(p)
          /\ cache[p] = "none"
          /\ cache' = [cache EXCEPT ![p] = IF healthy THEN "healthy" ELSE "unhealthy"]

\* The provider is selected: the streaming entry point calls it directly,
\* the others through tryProvider.
Selected(q, p) == [q EXCEPT !.pc = IF q.mode = "stream" THEN "stream" ELSE "try",
                            !.cur = p, !.rest = {}]

\* selectProvider, also where no provider is named.  The best provider is
\* taken if its circuit is not open; otherwise findFirstHealthyCandidate
\* scans the supporting providers.  That no provider supports the model is an
\* error, as it is that none of them is healthy.
SelectProvider(r) ==
    /\ req[r].pc = "idle"
    /\ \E supp \in SUBSET Providers, mode \in Modes :
         LET best   == BestProvider(supp)
             chosen == [IdleRequest EXCEPT !.mode = mode, !.supp = supp]
         IN  IF best # None /\ ~IsOpen(best)
             THEN /\ Look(best)
                  /\ req' = [req EXCEPT ![r] = Selected(chosen, best)]
             ELSE /\ UNCHANGED row
                  /\ req' = [req EXCEPT ![r] = [chosen EXCEPT !.pc = "scan", !.rest = supp]]
    /\ UNCHANGED <<cache, inFlight, usage>>

\* findFirstHealthyCandidate, one candidate.
ScanCandidate(r) ==
    /\ req[r].pc = "scan"
    /\ req[r].rest # {}
    /\ \E healthy \in BOOLEAN :
         LET p == FirstOf(req[r].rest) IN
         /\ HealthCheck(p, healthy)
         /\ req' = [req EXCEPT ![r] =
                IF healthy THEN Selected(@, p) ELSE [req[r] EXCEPT !.rest = @ \ {p}]]
    /\ UNCHANGED <<inFlight, usage>>

NoCandidate(r) ==
    /\ req[r].pc = "scan"
    /\ req[r].rest = {}
    /\ req' = [req EXCEPT ![r].pc = "failed"]
    /\ UNCHANGED <<row, cache, inFlight, usage>>

\* selectPreferredProvider with a name, for ChatCompletionForProvider and
\* the streaming entry point: that provider serves the request or none does,
\* and SupportsModel is not asked.
SelectPreferred(r) ==
    /\ req[r].pc = "idle"
    /\ \E p \in Providers, mode \in Modes \ {"auto"}, healthy \in BOOLEAN :
         LET named == [IdleRequest EXCEPT !.mode = mode, !.supp = Providers] IN
         /\ HealthCheck(p, healthy)
         /\ req' = [req EXCEPT ![r] =
                IF healthy THEN Selected(named, p) ELSE [named EXCEPT !.pc = "failed"]]
    /\ UNCHANGED <<inFlight, usage>>

(* ------------------------------- tryProvider --------------------------- *)

\* The next of the candidates is tried.
TakeNext(q, p) == [q EXCEPT !.pc = "try", !.cur = p, !.cand = @ \ {p}]

\* mutants: the primary provider is collected again; only the providers after
\* it in the chain are collected.
AfterFailureCollecting(q, others) ==
    LET t == [q EXCEPT !.tried = Append(@, q.cur)]
    IN  IF q.tried = <<>> THEN [t EXCEPT !.pc = "collect", !.rest = others]
        ELSE IF q.cand = {} THEN [t EXCEPT !.pc = "failed"]
        ELSE TakeNext(t, FirstOf(t.cand))

AfterFailureAll(q) == AfterFailureCollecting(q, Providers)

AfterFailureLater(q) ==
    AfterFailureCollecting(q, {p \in Providers : \E i, j \in DOMAIN Chain :
                                   Chain[i] = q.cur /\ Chain[j] = p /\ i < j})

\* The attempt on the provider at hand is over without an answer.  A named
\* provider has no fallback; after the primary the other providers are
\* collected; after a fallback the next one is tried.
AfterFailure(q) ==
    LET t == [q EXCEPT !.tried = Append(@, q.cur)]
    IN  CASE q.mode = "preferred" -> [t EXCEPT !.pc = "failed"]
          [] q.mode = "auto" /\ q.tried = <<>> ->
               [t EXCEPT !.pc = "collect", !.rest = Providers \ {q.cur}]
          [] q.mode = "auto" /\ q.tried # <<>> /\ q.cand = {} -> [t EXCEPT !.pc = "failed"]
          [] OTHER -> TakeNext(t, FirstOf(t.cand))

\* The request is too large for the provider, or its context ended while it
\* waited for the rate limiter: no call, and the breaker hears nothing.
RefuseEarly(r) ==
    /\ req[r].pc = "try"
    /\ req' = [req EXCEPT ![r] = AfterFailure(@)]
    /\ UNCHANGED <<row, cache, inFlight, usage>>

PassLimiter(r) ==
    /\ req[r].pc = "try"
    /\ req' = [req EXCEPT ![r].pc = "slot"]
    /\ UNCHANGED <<row, cache, inFlight, usage>>

\* AcquireWithTimeout: a slot, or the end of the 30 seconds or of the
\* request's context (the select may see that first when a slot is free).
AcquireSlot(r) ==
    /\ req[r].pc = "slot"
    /\ inFlight[req[r].cur] < Limit
    /\ inFlight' = [inFlight EXCEPT ![req[r].cur] = @ + 1]
    /\ req' = [req EXCEPT ![r].pc = "call"]
    /\ UNCHANGED <<row, cache, usage>>

GiveUpQueue(r) ==
    /\ req[r].pc = "slot"
    /\ req' = [req EXCEPT ![r] = AfterFailure(@)]
    /\ UNCHANGED <<row, cache, inFlight, usage>>

\* mutant: the slot is kept.
KeepSlot(p) == UNCHANGED inFlight

\* defer release().
Release(p) == inFlight' = [inFlight EXCEPT ![p] = @ - 1]

MarkHealthy(p) == cache' = [cache EXCEPT ![p] = "healthy"]

\* RecordUsage, up to the limit: past it the amount makes no difference.
AddUsage(p) ==
    IF p \in Tracked /\ usage[p] < Full
    THEN \E n \in usage[p]..Full : usage' = [usage EXCEPT ![p] = n]
    ELSE UNCHANGED usage

\* The answer is recorded; a stalled one (slow and short) is asked for
\* again by handleStall, outside the slot.
CallSucceeds(r) ==
    LET p == req[r].cur IN
    /\ req[r].pc = "call"
    /\ row' = [row EXCEPT ![p] = ClosedRow]
    /\ MarkHealthy(p)
    /\ AddUsage(p)
    /\ Release(p)
    /\ \E next \in {"served", "stall"} :
         req' = [req EXCEPT ![r] = [req[r] EXCEPT !.pc = next, !.tried = Append(@, p)]]

\* A ProviderError 429 adapts the rate limiter only.
CallRateLimited(r) ==
    /\ req[r].pc = "call"
    /\ Release(req[r].cur)
    /\ req' = [req EXCEPT ![r] = AfterFailure(@)]
    /\ UNCHANGED <<row, cache, usage>>

\* Any other failure is counted by the breaker.  One whose text reads like a
\* rate limit also opens the circuit, in a second statement.
CallFails(r) ==
    LET p == req[r].cur IN
    /\ req[r].pc = "call"
    /\ row' = [row EXCEPT ![p] = WithFailure(@)]
    /\ \/ Release(p) /\ req' = [req EXCEPT ![r] = AfterFailure(@)]
       \/ UNCHANGED inFlight /\ req' = [req EXCEPT ![r].pc = "trip"]
    /\ UNCHANGED <<cache, usage>>

TripCircuit(r) ==
    LET p == req[r].cur IN
    /\ req[r].pc = "trip"
    /\ row' = [row EXCEPT ![p] = Opened(@, RateLimitCooldown)]
    /\ Release(p)
    /\ req' = [req EXCEPT ![r] = AfterFailure(@)]
    /\ UNCHANGED <<cache, usage>>

\* The retry of handleStall: whatever comes of it, there is an answer, and
\* neither breaker nor limiter nor semaphore hears of it.
StallRetryEnds(r) ==
    /\ req[r].pc = "stall"
    /\ req' = [req EXCEPT ![r].pc = "served"]
    /\ UNCHANGED <<row, cache, inFlight, usage>>

(* ------------------- the fallback of tryProvidersWithFallback ---------- *)

\* One look at one of the other providers.
CollectCandidate(r) ==
    /\ req[r].pc = "collect"
    /\ req[r].rest # {}
    /\ \E healthy \in BOOLEAN :
         LET p == FirstOf(req[r].rest) IN
         /\ HealthCheck(p, healthy)
         /\ req' = [req EXCEPT ![r] =
                IF healthy THEN [req[r] EXCEPT !.rest = @ \ {p}, !.cand = @ \cup {p}]
                           ELSE [req[r] EXCEPT !.rest = @ \ {p}, !.skipped = @ \cup {p}]]
    /\ UNCHANGED <<inFlight, usage>>

\* The best candidate by usage is tried first, the others after it in the
\* order of the chain.
FirstFallback(cand) == LET best == BestProvider(cand) IN IF best = None THEN FirstOf(cand) ELSE best

\* mutant: the error for an empty list of candidates is missing.
StartFallbackUnguarded(r) ==
    /\ req[r].pc = "collect"
    /\ req[r].rest = {}
    /\ req[r].cand # {}
    /\ req' = [req EXCEPT ![r] = TakeNext(@, FirstFallback(req[r].cand))]
    /\ UNCHANGED <<row, cache, inFlight, usage>>

StartFallback(r) ==
    /\ req[r].pc = "collect"
    /\ req[r].rest = {}
    /\ req' = [req EXCEPT ![r] =
           IF req[r].cand = {} THEN [req[r] EXCEPT !.pc = "failed"]
           ELSE TakeNext(@, FirstFallback(req[r].cand))]
    /\ UNCHANGED <<row, cache, inFlight, usage>>

(* ------------------------------- streaming ----------------------------- *)

\* ChatCompletionStreamForProvider: no limiter and no slot.  A failed
\* stream is neither counted nor fatal: a plain call follows, unless the
\* context ended, and its outcome is not recorded.
StreamSucceeds(r) ==
    /\ req[r].pc = "stream"
    /\ row' = [row EXCEPT ![req[r].cur] = ClosedRow]
    /\ req' = [req EXCEPT ![r].pc = "served"]
    /\ UNCHANGED <<cache, inFlight, usage>>

StreamFails(r) ==
    /\ req[r].pc = "stream"
    /\ \E next \in {"plain", "failed"} : req' = [req EXCEPT ![r].pc = next]
    /\ UNCHANGED <<row, cache, inFlight, usage>>

PlainCallEnds(r) ==
    /\ req[r].pc = "plain"
    /\ \E next \in {"served", "failed"} : req' = [req EXCEPT ![r].pc = next]
    /\ UNCHANGED <<row, cache, inFlight, usage>>

(* ----------------------------- environment ----------------------------- *)

CacheExpires(p) ==
    /\ cache[p] # "none"
    /\ cache' = [cache EXCEPT ![p] = "none"]
    /\ UNCHANGED <<row, inFlight, usage, req>>

Tick ==
    /\ \E p \in Providers : row[p].deadline > 0
    /\ row' = [p \in Providers |-> Later(row[p])]
    /\ UNCHANGED <<cache, inFlight, usage, req>>

\* daily_usage is keyed by date.
NewDay ==
    /\ \E p \in Tracked : usage[p] > 0
    /\ usage' = [p \in Tracked |-> 0]
    /\ UNCHANGED <<row, cache, inFlight, req>>

ResetCircuit(p) ==
    /\ row' = [row EXCEPT ![p] = ClosedRow]
    /\ UNCHANGED <<cache, inFlight, usage, req>>

\* TraceDecision shows an operator the state of each circuit; GetState moves
\* an expired one on the way.  Its health checks do not touch the cache.
TraceProvider(p) ==
    /\ Expired(row[p])
    /\ Look(p)
    /\ UNCHANGED <<cache, inFlight, usage, req>>

\* What the router's own code does next for a request that has begun: in
\* ChatCompletion, and in the calls of one named provider.
ProceedAuto(r) ==
    \/ ScanCandidate(r) \/ NoCandidate(r)
    \/ RefuseEarly(r) \/ PassLimiter(r) \/ AcquireSlot(r) \/ GiveUpQueue(r)
    \/ CallSucceeds(r) \/ CallRateLimited(r) \/ CallFails(r) \/ TripCircuit(r) \/ StallRetryEnds(r)
    \/ CollectCandidate(r) \/ StartFallback(r)

ProceedNamed(r) == StreamSucceeds(r) \/ StreamFails(r) \/ PlainCallEnds(r)

Proceed(r) == ProceedAuto(r) \/ ProceedNamed(r)

Next ==
    \/ \E r \in Requests : SelectProvider(r) \/ SelectPreferred(r) \/ Proceed(r)
    \/ \E p \in Providers : CacheExpires(p) \/ ResetCircuit(p) \/ TraceProvider(p)
    \/ Tick \/ NewDay

\* Calls, health checks and waits for a slot all end by a timeout of theirs.
Fairness == \A r \in Requests : WF_vars(Proceed(r))

Spec == Init /\ [][Next]_vars /\ Fairness

(* ------------------------------ properties ----------------------------- *)

\* The variables keep their types; usage never passes the full quota.
TypeOK ==
    /\ row \in [Providers -> Row]
    /\ cache \in [Providers -> {"none", "healthy", "unhealthy"}]
    /\ inFlight \in [Providers -> Nat]
    /\ usage \in [Tracked -> 0..Full]
    /\ req \in [Requests -> Request]

\* One request asks a provider at most once: neither the primary nor the
\* candidate that usage moves to the front comes back in the fallback, while
\* other requests change circuits, cache and usage under it.
NoProviderTwice == \A r \in Requests : IsInjective(req[r].tried)

\* "all providers failed" is said only after every provider was tried or, on
\* being looked at, had an open circuit or was unhealthy: no usable provider
\* falls out between the collecting and the ordering of the candidates.
AllProvidersFailed ==
    \A r \in Requests :
        req[r].pc = "failed" /\ req[r].mode = "auto" /\ req[r].tried # <<>>
            => Range(req[r].tried) \cup req[r].skipped = Providers

\* A request walks the chain once, and to its end before it gives up.
ChainIsWalked == NoProviderTwice /\ AllProvidersFailed

\* The requests whose call to a provider is in progress.
Holders(p) == {r \in Requests : req[r].pc \in {"call", "trip"} /\ req[r].cur = p}

\* The slots taken in a semaphore are those of the calls in progress and
\* never more than its capacity: every way out of tryProvider, and no other,
\* gives the slot back, so a provider is not starved by requests long gone.
SlotsAreHeld ==
    \A p \in Providers :
        /\ inFlight[p] = Cardinality(Holders(p))
        /\ inFlight[p] <= Limit

Busy(r) == req[r].pc \notin {"idle", "served", "failed"}

\* Every request that was begun is answered, by a response or by an error,
\* however many of its providers fail or are full.
RequestsEnd == \A r \in Requests : Busy(r) ~> ~Busy(r)

\* Where a request is with the circuit of one provider: let through from the
\* look that makes the provider its own or one of its candidates to the end
\* of its call, while it tries the providers before it included.  The calls
\* that no circuit hears of, a stall's retry and the plain call after a
\* stream, are not among them.
StageWith(p, q) ==
    CASE q.pc = "trip" /\ q.cur = p -> "tripping"
      [] q.pc \in {"try", "slot", "call", "stream"} /\ q.cur = p -> "admitted"
      [] q.pc \in {"collect", "try", "slot", "call", "trip"} /\ p \in q.cand -> "admitted"
      [] OTHER -> "idle"

CircuitOf(p) == INSTANCE AbstractBreaker
    WITH Callers <- Requests, state <- row[p].state, failures <- row[p].failures,
         cooling <- row[p].state = "open" /\ row[p].deadline > 0,
         stage <- [r \in Requests |-> StageWith(p, req[r])]

\* The circuits of all providers are those of abstract breakers, whatever
\* mixture of requests, streams, operators and clock works on them: every
\* request that asks a provider was let through by its circuit on a look of
\* its own, on each way into the chain and across the providers tried before
\* it, and only such a request closes, counts on or trips the circuit.
RowsImplementBreaker ==
    [][\A p \in Providers : UNCHANGED CircuitOf(p)!abstractVars \/ CircuitOf(p)!AbstractNext]_vars
=============================================================================
