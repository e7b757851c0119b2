------------------------------ MODULE MCRequests ------------------------------
(***************************************************************************)
(* Two sides of a request that share no state, side by side: the providers *)
(* it is tried on, and the session and the memory it is part of, of which  *)
(* there are two views: questions in two chats at a time, and a turn with  *)
(* tools over either API.  Each behaviour is one of a single view, so that *)
(* their states add up instead of multiplying.  The other requests that    *)
(* the routed one meets, and the other entry points, are in MCRouting.      *)
(***************************************************************************)
EXTENDS MCRouter, MCMemory

VARIABLE view

Questions == \A c \in Chats : ~chat'[c].api /\ ~chat'[c].skip /\ Len(chat'[c].own) <= 1
OneToolTurn ==
    /\ \A c \in Chats \ {CHOOSE d \in Chats : TRUE} : chat'[c].pc = "idle"
    /\ \A c \in Chats : Len(chat'[c].own) # 1

RequestsInit ==
    /\ view \in {"providers", "chats", "responses"}
    /\ Init /\ MemoryInit

RequestsNext ==
    \/ view = "providers" /\ AmongOthers /\ UNCHANGED <<view, memoryVars>>
    \/ view = "chats" /\ MemoryNext /\ Questions /\ UNCHANGED <<view, vars>>
    \/ view = "responses" /\ MemoryNext /\ OneToolTurn /\ UNCHANGED <<view, vars>>

RequestsSpec == RequestsInit /\ [][RequestsNext]_<<view, vars, memoryVars>>
=============================================================================
