----------------------------- MODULE ManagerLock ------------------------------
(***************************************************************************)
(* internal/orchestration/manager.go: the manager's lock m.mu as its        *)
(* handlers take it.  It is a sync.RWMutex: a writer that waits for the     *)
(* readers to leave keeps out the readers that come after it, so a reader  *)
(* may not take the lock a second time.  PreviewRebalance does: it takes   *)
(* the read lock and calls SwarmLoad, which takes it again.                *)
(***************************************************************************)
EXTENDS Naturals, FiniteSets

CONSTANTS
    Readers,            \* handlers that take the read lock once
    Writers,            \* handlers and runners that change the maps
    Previews            \* requests for the preview of a rebalance

Handlers == Readers \cup Writers \cup Previews

VARIABLES
    pc,                 \* where a handler is
    reads,              \* the read locks a handler holds
    writer              \* the writers that wait for the lock or hold it

vars == <<pc, reads, writer>>

Init ==
    /\ pc = [h \in Handlers |-> "idle"]
    /\ reads = [h \in Handlers |-> 0]
    /\ writer = {}

(* ------------------------------ sync.RWMutex ---------------------------- *)

\* RLock returns at once unless a writer waits or writes ...
RLock(h, waiting, then) ==
    IF writer = {}
    THEN pc' = [pc EXCEPT ![h] = then] /\ reads' = [reads EXCEPT ![h] = @ + 1]
    ELSE pc' = [pc EXCEPT ![h] = waiting] /\ UNCHANGED reads

RUnlock(h, then) ==
    pc' = [pc EXCEPT ![h] = then] /\ reads' = [reads EXCEPT ![h] = @ - 1]

\* ... and then waits until Unlock lets in all the readers that wait.
Waits(h) == pc[h] \in {"waits", "waits inside"}
Unlock(h) ==
    /\ writer' = {}
    /\ pc' = [g \in Handlers |->
                 IF g = h THEN "idle"
                 ELSE IF pc[g] = "waits" THEN "reads"
                 ELSE IF pc[g] = "waits inside" THEN "inside" ELSE pc[g]]
    /\ reads' = [g \in Handlers |-> IF Waits(g) THEN reads[g] + 1 ELSE reads[g]]

(* ------------------------------- handlers ------------------------------- *)

StartRead(h) ==
    /\ pc[h] = "idle"
    /\ RLock(h, "waits", "reads")
    /\ UNCHANGED writer

EndRead(h) ==
    /\ h \in Readers
    /\ pc[h] = "reads"
    /\ RUnlock(h, "idle")
    /\ UNCHANGED writer

\* A writer announces itself; one after another, they have a lock for that.
StartWrite(h) ==
    /\ pc[h] = "idle"
    /\ writer = {}
    /\ writer' = {h}
    /\ pc' = [pc EXCEPT ![h] = "announced"]
    /\ UNCHANGED reads

\* It has the lock when every reader has left.
Write(h) ==
    /\ pc[h] = "announced"
    /\ \A g \in Handlers : reads[g] = 0
    /\ pc' = [pc EXCEPT ![h] = "writes"]
    /\ UNCHANGED <<reads, writer>>

EndWrite(h) == pc[h] = "writes" /\ Unlock(h)

\* PreviewRebalance, which holds the read lock, calls SwarmLoad.
SwarmLoad(h) ==
    /\ h \in Previews
    /\ pc[h] = "reads"
    /\ RLock(h, "waits inside", "inside")
    /\ UNCHANGED writer

EndSwarmLoad(h) == pc[h] = "inside" /\ RUnlock(h, "leaves") /\ UNCHANGED writer
EndPreview(h) == pc[h] = "leaves" /\ RUnlock(h, "idle") /\ UNCHANGED writer

\* What a handler that holds or awaits the lock does next.
GoesOn(h) ==
    EndRead(h) \/ Write(h) \/ EndWrite(h) \/ SwarmLoad(h) \/ EndSwarmLoad(h) \/ EndPreview(h)

Next ==
    \/ \E h \in Readers \cup Previews : StartRead(h)
    \/ \E h \in Writers : StartWrite(h)
    \/ \E h \in Handlers : GoesOn(h)

\* Every goroutine that can go on is run; nothing makes a request arrive.
Spec == Init /\ [][Next]_vars /\ \A h \in Handlers : WF_vars(GoesOn(h))

\* A request for a preview is answered: orchestration_handlers_test.go:661
\* expects its status 200.
PreviewsEnd == \A h \in Previews : pc[h] = "reads" ~> pc[h] = "idle"
=============================================================================
