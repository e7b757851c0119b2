------------------------------ MODULE MCRouting -------------------------------
(***************************************************************************)
(* Three views of a provider, side by side: the requests that are routed   *)
(* to it through every entry point, its circuit breaker statement by       *)
(* statement, and its rate limiter.  Each behaviour is one of a single     *)
(* view, so that their states add up instead of multiplying.               *)
(***************************************************************************)
EXTENDS MCRouter, Breaker, RateLimiter

VARIABLE view

\* In units of 0.01 RPM: <PROVIDER>_RPM=0.2, below the floor; the 5 RPM of
\* vertex-claude; the 600 of an unknown provider.
SlowToFast == {20, 500, 60000}

RoutingInit ==
    /\ view \in {"requests", "breaker", "limiter"}
    /\ Init /\ BreakerInit /\ LimiterInit
    /\ view # "limiter" => config = 20

RoutingNext ==
    \/ view = "requests" /\ WhileCached /\ UNCHANGED <<view, breakerVars, limiterVars>>
    \/ view = "breaker" /\ BreakerNext /\ UNCHANGED <<view, vars, limiterVars>>
    \/ view = "limiter" /\ LimiterNext /\ UNCHANGED <<view, vars, breakerVars>>

\* The fairness of each view; that of the others is about actions that are
\* never enabled.
RoutingFairness ==
    /\ \A r \in Requests : WF_vars(view = "requests" /\ Proceed(r))
    /\ WF_breakerVars(view = "breaker" /\ TimePasses)
    /\ \A c \in Requesters : WF_breakerVars(view = "breaker" /\ Step(c))
    /\ WF_limiterVars(view = "limiter" /\ SecondPasses)
    /\ \A s \in 1..MaxSleepers : WF_limiterVars(view = "limiter" /\ Wake(s))

RoutingSpec == RoutingInit /\ [][RoutingNext]_<<view, vars, breakerVars, limiterVars>> /\ RoutingFairness

\* A request that is routed ends, and so does every pause of the limiter.
RoutingEnd == RequestsEnd /\ PausesEnd
=============================================================================
