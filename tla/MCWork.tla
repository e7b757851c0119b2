-------------------------------- MODULE MCWork --------------------------------
(***************************************************************************)
(* Two parts of the program that share no state, side by side: swarms with *)
(* their agents and tasks, and the loop of an agent in direct mode.  Each  *)
(* behaviour is one of a single part, so that their states add up instead  *)
(* of multiplying.                                                         *)
(***************************************************************************)
EXTENDS Swarm, DirectLoop

VARIABLE part

\* An interactive session whose text answers stall, and an unattended one.
TwoSessions == {[stalls |-> TRUE, nonInteractive |-> FALSE, chain |-> TRUE],
                [stalls |-> FALSE, nonInteractive |-> TRUE, chain |-> TRUE]}

WorkInit ==
    /\ part \in {"swarms", "loop"}
    /\ Init /\ LoopInit
    /\ part = "swarms" => session.stalls

WorkNext ==
    \/ part = "swarms" /\ Next /\ UNCHANGED <<part, directVars>>
    \/ part = "loop" /\ LoopNext /\ UNCHANGED <<part, vars>>

\* The fairness of the loop.
WorkSpec ==
    /\ WorkInit
    /\ [][WorkNext]_<<part, vars, directVars>>
    /\ WF_directVars(part = "loop" /\ LoopWork)
=============================================================================
