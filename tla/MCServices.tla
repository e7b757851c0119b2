------------------------------ MODULE MCServices ------------------------------
(***************************************************************************)
(* Parts of the program that share no state, side by side: logins, the     *)
(* workspaces of agents, the event streams of a task, and tasks in the     *)
(* background.  Each behaviour is one of a single part, so that their      *)
(* states add up instead of multiplying.                                   *)
(***************************************************************************)
EXTENDS Login, Workspaces, TaskEvents, Background

CONSTANTS web, cli, openai, a1, a2

VARIABLE part

AllSavers == {web, cli, openai}
OfOpenai == [x \in {web, cli, a1, a2} |-> openai]

vars == <<part, loginVars, workspaceVars, eventVars, backgroundVars>>

Init ==
    /\ part \in {"logins", "workspaces", "events", "background"}
    /\ LoginInit /\ WorkspacesInit /\ EventsInit /\ BackgroundInit
    /\ foreign => part = "workspaces"

Next ==
    \/ part = "logins" /\ LoginNext /\ UNCHANGED <<part, workspaceVars, eventVars, backgroundVars>>
    \/ part = "workspaces" /\ WorkspacesNext /\ UNCHANGED <<part, loginVars, eventVars, backgroundVars>>
    \/ part = "events" /\ EventsNext /\ UNCHANGED <<part, loginVars, workspaceVars, backgroundVars>>
    \/ part = "background" /\ BackgroundNext /\ UNCHANGED <<part, loginVars, workspaceVars, eventVars>>

\* The fairness of each part; that of the others is about actions that are
\* never enabled.
Fairness ==
    /\ \A l \in Logins : WF_loginVars(part = "logins" /\ Continues(l))
    /\ WF_workspaceVars(part = "workspaces" /\ LeadStep)
    /\ \A c \in Children : WF_workspaceVars(part = "workspaces" /\ ChildStep(c))
    /\ \A r \in Runs : WF_eventVars(part = "events" /\ Runner(r))
    /\ \A c \in Clients : WF_eventVars(part = "events" /\ Handler(c))

Spec == Init /\ [][Next]_vars /\ Fairness

\* Logins, the jobs of agents and the streams of a run come to an end.
ServicesEnd == LoginsEnd /\ JobsEnd /\ StreamsEnd
=============================================================================
