------------------------------- MODULE MCMemory -------------------------------
(* What is said in the sessions, and over which API. *)
EXTENDS SessionMemory

\* A question, and one with an answer of calls alone and the result of a call.
Ask == [role |-> "user", text |-> "ask"]
ToolTurn == <<Ask, [role |-> "assistant", text |-> ""], [role |-> "tool", text |-> "result"]>>
AskOrTools == {<<Ask>>, ToolTurn}

\* The same, and a question under the client's instructions.
Instructed == <<[role |-> "system", text |-> "rules"], Ask>>
EveryConversation == AskOrTools \cup {Instructed}

EveryEntry == {[api |-> FALSE, skip |-> FALSE], [api |-> TRUE, skip |-> FALSE],
               [api |-> TRUE, skip |-> TRUE]}

\* A clock that is behind UTC.
West == {-1}

\* Over the chat API alone.
ChatEntry == {[api |-> FALSE, skip |-> FALSE]}
=============================================================================
