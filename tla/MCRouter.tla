------------------------------ MODULE MCRouter -------------------------------
(* The router with a few providers and requests. *)
EXTENDS Router, TLC

CONSTANTS p1, p2, p3, r1, r2

ChainOf1 == <<p1>>
ChainOf2 == <<p1, p2>>
ChainOf3 == <<p1, p2, p3>>

\* What the calls of other requests do to a provider meanwhile: one succeeds
\* or fails.
OthersCall(p) ==
    /\ \/ row' = [row EXCEPT ![p] = ClosedRow] /\ MarkHealthy(p) /\ AddUsage(p)
       \/ row' = [row EXCEPT ![p] = WithFailure(@)] /\ UNCHANGED <<cache, usage>>
    /\ UNCHANGED <<inFlight, req>>

\* Requests to ChatCompletion among those calls.  The health check of the
\* chain's first provider may expire before the fallbacks are collected, and
\* a day end before the requests come.
AmongOthers ==
    \/ \E r \in Requests : SelectProvider(r) \/ ProceedAuto(r)
    \/ \E p \in Providers : OthersCall(p)
    \/ Tick
    \/ \E r \in Requests : req[r].pc = "collect" /\ CacheExpires(Chain[1])
    \/ (\A r \in Requests : req[r].pc = "idle") /\ NewDay

\* Requests through every entry point, over before a health check expires.
WhileCached == Next /\ \A p \in Providers : cache[p] # "none" => cache'[p] # "none"
=============================================================================
