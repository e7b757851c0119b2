------------------------------ MODULE ToolTurns ------------------------------
(***************************************************************************)
(* Conversations with tools, from the client to the providers and back.    *)
(* An agent keeps its messages in the internal form; clients of the        *)
(* Anthropic and the Responses API send theirs, which are converted        *)
(* (anthropic_handlers.go, compat_handlers.go).  A request goes to one     *)
(* provider after another, and in one of them to its credentials in turn;  *)
(* each family of upstreams has its own form of a conversation             *)
(* (internal/subscriptions/providers.go, provider_runtime_support.go,      *)
(* internal/providers/{vertex,ollama,openai_compat}.go), into which it is  *)
(* written and out of which the answer is read.                            *)
(*                                                                         *)
(* A text is the place in the conversation it was said at.  The arguments  *)
(* of a call, settings, headers and models are left out; Router models     *)
(* which provider is next, here one of them is after the other.            *)
(***************************************************************************)
EXTENDS Integers, Sequences, SequencesExt, FiniteSetsExt, Selections

CONSTANTS
    Upstreams,          \* the providers in the order they are tried in
    FamilyOf,       \* of each: "claude", "openai", "gemini" or "vertexGemini"
    KeysOf,         \* of each: a sequence of "key" and "oauth"
    Dialects,       \* of the clients: "agent", "anthropic", "responses", "stream"
    Tools,          \* functions a model may call
    Resends,        \* of a request of the Gemini CLI: 3
    MaxCalls,       \* bounds of the model: calls of an answer
    MaxSaid         \*   and messages, beyond which nothing is asked or called

ASSUME ToolTurnsAssumption ==
    /\ Upstreams \in Seq(ToSet(Upstreams))
    /\ FamilyOf \in [ToSet(Upstreams) -> {"claude", "openai", "gemini", "vertexGemini"}]
    /\ KeysOf \in [ToSet(Upstreams) -> Seq({"key", "oauth"}) \ {<<>>}]
    /\ Dialects \subseteq {"agent", "anthropic", "responses", "stream"}
    /\ Resends \in Nat /\ MaxCalls \in Nat /\ MaxSaid \in Nat

VARIABLES
    dialect,        \* of this conversation's client
    said,           \* the conversation as its client holds and sends it:
                    \* [role, text, calls, results]
    request,        \* [pc, tools, untried, at, keys, resent]
    sent,           \* what went out last: [form, items]
    used            \* history: the credentials this request was tried with

turnVars == <<dialect, said, request, sent, used>>

NoText == 0
NoCall == <<"none", 0>>

\* What a client says: a text, calls or results of calls; one message of an
\* Anthropic client may have results and a text.
Says(role, text, calls, results) == [role |-> role, text |-> text, calls |-> calls, results |-> results]
Speech(role, text) == Says(role, text, <<>>, <<>>)
Place == 10 * (Len(said) + 1)

Resting == [pc |-> "resting", tools |-> FALSE, untried |-> <<>>, at |-> "none", keys |-> <<>>, resent |-> 0]
Unsent == [form |-> "none", items |-> <<>>]

TurnsInit ==
    /\ dialect \in Dialects
    /\ said = <<>>
    /\ request = Resting
    /\ sent = Unsent
    /\ used = {}

(* ------------------- conversations as the router has them -------------- *)

Message(role, text, calls, of) == [role |-> role, text |-> text, calls |-> calls, of |-> of]

\* Mutant: results in front of the text of their message.
ConvertedResultsFirst(m) ==
    [i \in DOMAIN m.results |-> Message("tool", m.results[i].text, <<>>, m.results[i].of)]
    \o <<Message(m.role, m.text, m.calls, NoCall)>>

\* Results become messages of their own, after the text of their message.  A
\* call among the items of a stream gets the id of its item instead of the
\* id of the call; items without a text are left out.
Converted(m) ==
    LET ids == [i \in DOMAIN m.calls |-> IF dialect = "stream" THEN <<"item", m.calls[i].id>> ELSE m.calls[i].id]
        calls == [i \in DOMAIN m.calls |-> [m.calls[i] EXCEPT !.id = ids[i]]]
        empty == m.text = NoText /\ calls = <<>> /\ (m.results # <<>> \/ dialect = "stream")
    IN  (IF empty THEN <<>> ELSE <<Message(m.role, m.text, calls, NoCall)>>)
        \o [i \in DOMAIN m.results |-> Message("tool", m.results[i].text, <<>>, m.results[i].of)]

(* ------------------------ forms of a conversation ---------------------- *)

Item(kind, text, id, fn) == [kind |-> kind, text |-> text, id |-> id, fn |-> fn]
TextItems(m) == IF m.text = NoText THEN <<>> ELSE <<Item(m.role, m.text, NoCall, "")>>
CallItems(m) == [i \in DOMAIN m.calls |-> Item("call", NoText, m.calls[i].id, m.calls[i].fn)]
Result(m, name) == Item("tool", m.text, m.of, name)
Anonymous(items) == [i \in DOMAIN items |-> [items[i] EXCEPT !.id = NoCall]]

InOrder(messages, F(_)) == FlattenSeq([i \in DOMAIN messages |-> F(messages[i])])
IsSystem(m) == m.role = "system"
NotSystem(m) == m.role # "system"

\* Mutant: a message with calls loses its text.
IdentifiedEither(m) ==
    IF m.role = "tool" THEN <<Result(m, "")>> ELSE IF m.calls = <<>> THEN TextItems(m) ELSE CallItems(m)

\* A message, its calls with ids, and a result with the id it answers.
Identified(m) == IF m.role = "tool" THEN <<Result(m, "")>> ELSE TextItems(m) \o CallItems(m)

\* What the system says goes in front.
ClaudeForm(messages) ==
    InOrder(Those(messages, IsSystem), TextItems) \o InOrder(Those(messages, NotSystem), Identified)

OpenAIForm(messages) == InOrder(messages, Identified)

\* A call is an item beside its message, which is there without a text, too.
CodexItems(m) ==
    IF m.role = "tool" THEN <<Result(m, "")>>
    ELSE <<Item(m.role, m.text, NoCall, "")>> \o CallItems(m)
CodexForm(messages) == InOrder(messages, CodexItems)

\* Calls have names only; the id of a result is part of what it says.
KeyItems(m) ==
    IF m.role = "tool" THEN <<Result(m, "")>>
    ELSE (IF IsSystem(m) THEN TextItems([m EXCEPT !.role = "user"]) ELSE TextItems(m))
         \o Anonymous(CallItems(m))
GeminiForm(messages) == InOrder(messages, KeyItems)

\* Mutant: the first one.
NameOfFirst(messages, id) ==
    LET calls == FlattenSeq([i \in DOMAIN messages |-> messages[i].calls])
        those == Those(calls, LAMBDA c : c.id = id)
    IN IF those = <<>> THEN "" ELSE Head(those).fn

\* The function that the last call with an id has called; without such a
\* call the result stands under its id.
NameOf(messages, id) ==
    LET calls == FlattenSeq([i \in DOMAIN messages |-> messages[i].calls])
        those == Those(calls, LAMBDA c : c.id = id)
    IN IF those = <<>> THEN "" ELSE Last(those).fn

\* Calls and results have names only, which for a result is looked up.
CLIForm(messages) ==
    LET Named(m) == IF m.role = "tool" THEN <<[Result(m, NameOf(messages, m.of)) EXCEPT !.id = NoCall]>>
                    ELSE TextItems(m) \o Anonymous(CallItems(m))
    IN InOrder(Those(messages, IsSystem), TextItems) \o InOrder(Those(messages, NotSystem), Named)

\* Texts only, those of results among them.
VertexForm(messages) ==
    InOrder(messages, LAMBDA m : TextItems([m EXCEPT !.role = IF m.role = "assistant" THEN @ ELSE "user"]))

\* The form for a provider and a kind of credential.
Form(p, key) ==
    CASE FamilyOf[p] = "openai" /\ key = "oauth" -> "codex"
      [] FamilyOf[p] = "gemini" /\ key = "oauth" -> "cli"
      [] OTHER -> FamilyOf[p]

Write(form, messages) ==
    CASE form = "claude" -> ClaudeForm(messages)
      [] form = "openai" -> OpenAIForm(messages)
      [] form = "codex" -> CodexForm(messages)
      [] form = "gemini" -> GeminiForm(messages)
      [] form = "cli" -> CLIForm(messages)
      [] form = "vertexGemini" -> VertexForm(messages)

\* Gemini is told of the tools over the CLI only.
Declared(form) == request.tools /\ form \in {"claude", "openai", "cli"}

(* ------------------------------- answers ------------------------------- *)

\* Ids are the upstream's own, but for Gemini, whose calls are numbered in
\* each answer anew.
UpstreamIds(fns) == [i \in DOMAIN fns |-> [id |-> <<"call", Place + i>>, fn |-> fns[i]]]
\* Mutant: the calls of an answer are not numbered.
GeminiIdsAlike(fns) == [i \in DOMAIN fns |-> [id |-> <<"gemini", 1>>, fn |-> fns[i]]]
GeminiIds(fns) == [i \in DOMAIN fns |-> [id |-> <<"gemini", i>>, fn |-> fns[i]]]

\* The chunks of the CLI: texts are joined, and calls are read from the last
\* chunk only, and only when there is no text.
CollectChunks(speaks, fns, inLast) ==
    [speaks |-> speaks, fns |-> IF speaks THEN <<>> ELSE SubSeq(fns, Len(fns) - inLast + 1, Len(fns))]

Replied(form, speaks, fns) ==
    Says("assistant", IF speaks THEN Place ELSE NoText,
         IF form \in {"gemini", "cli"} THEN GeminiIds(fns) ELSE UpstreamIds(fns), <<>>)

(* ------------------------------- requests ------------------------------ *)

\* The role of instructions; in the Responses API it is the user's.
Instructs == IF dialect \in {"agent", "anthropic"} THEN "system" ELSE "user"

\* A question; a conversation begins with instructions.
Question ==
    /\ request.pc = "resting" /\ Len(said) < MaxSaid
    /\ said' = (IF said = <<>> THEN <<Speech(Instructs, Place)>> ELSE said)
               \o <<Speech("user", IF said = <<>> THEN Place + 10 ELSE Place)>>
    /\ \E tools \in BOOLEAN :
         request' = [Resting EXCEPT !.pc = "routing", !.tools = tools, !.untried = Upstreams]
    /\ sent' = Unsent /\ used' = {}
    /\ UNCHANGED dialect

\* Mutant: with OAuth credentials there the others are not tried.
KeyOrderOAuthOnly(p) ==
    IF FamilyOf[p] = "gemini" /\ "oauth" \in ToSet(KeysOf[p]) THEN <<"oauth">> ELSE KeysOf[p]

\* Gemini's OAuth credentials come first, whatever their order.
KeyOrder(p) ==
    IF FamilyOf[p] = "gemini"
    THEN Those(KeysOf[p], LAMBDA k : k = "oauth") \o Those(KeysOf[p], LAMBDA k : k # "oauth")
    ELSE KeysOf[p]

TryUpstream ==
    /\ request.pc = "routing" /\ request.untried # <<>>
    /\ LET p == Head(request.untried)
       IN request' = [request EXCEPT !.pc = "sending", !.untried = Tail(@), !.at = p, !.keys = KeyOrder(p)]
    /\ UNCHANGED <<dialect, said, sent, used>>

\* The request failed with every provider: an error to the client.
Unanswered ==
    /\ request.pc = "routing" /\ request.untried = <<>>
    /\ request' = [request EXCEPT !.pc = "resting"]
    /\ UNCHANGED <<dialect, said, sent, used>>

Sending == request.pc = "sending" /\ request.keys # <<>>
NextForm == Form(request.at, Head(request.keys))
Use == used' = used \cup {<<request.at, Head(request.keys)>>}
NextKey == request' = [request EXCEPT !.keys = Tail(@), !.resent = 0]
Send == sent' = [form |-> NextForm, items |-> Write(NextForm, InOrder(said, Converted))]

\* A provider fails with the error of its last credential.
UpstreamFailed ==
    /\ request.pc = "sending" /\ request.keys = <<>>
    /\ request' = [request EXCEPT !.pc = "routing", !.at = "none"]
    /\ UNCHANGED <<dialect, said, sent, used>>

\* The Codex path takes no tools, and the CLI one needs a project.
NotSent ==
    /\ Sending /\ Use
    /\ \/ NextForm = "codex" /\ request.tools
       \/ NextForm = "cli" /\ request.resent = 0
    /\ NextKey
    /\ UNCHANGED <<dialect, said, sent>>

Sendable == Sending /\ ~(NextForm = "codex" /\ request.tools)

\* The upstream refuses, cannot be reached or answers in another form.
SentInVain ==
    /\ Sendable /\ Use /\ Send
    /\ NextKey
    /\ UNCHANGED <<dialect, said>>

\* The CLI path sends again when it was refused for the time being.
SendAgain ==
    /\ Sendable /\ NextForm = "cli" /\ Use /\ Send
    /\ request.resent < Resends
    /\ request' = [request EXCEPT !.resent = @ + 1]
    /\ UNCHANGED <<dialect, said>>

\* An answer, which on the CLI path must say or call something.
Answered ==
    /\ Sendable /\ Use /\ Send
    /\ \E speaks \in BOOLEAN, n \in 0..MaxCalls :
       \E fns \in [1..n -> Tools], inLast \in 0..n :
         LET answer == IF NextForm = "cli" THEN CollectChunks(speaks, fns, inLast)
                       ELSE [speaks |-> speaks, fns |-> fns]
         IN /\ fns # <<>> => Declared(NextForm) /\ Len(said) < MaxSaid
            /\ NextForm # "cli" => inLast = 0
            /\ IF NextForm = "cli" /\ ~answer.speaks /\ answer.fns = <<>>
               THEN NextKey /\ UNCHANGED said
               ELSE /\ said' = Append(said, Replied(NextForm, answer.speaks, answer.fns))
                    /\ request' = [Resting EXCEPT !.pc = IF answer.fns = <<>> THEN "resting" ELSE "calling",
                                                  !.tools = request.tools]
    /\ UNCHANGED dialect

(* ----------------------- clients and their dialects -------------------- *)

\* The results of an answer, and a message for each.
Results(answer) == [i \in DOMAIN answer.calls |-> [text |-> Place + i, of |-> answer.calls[i].id]]
Apart(results) == [i \in DOMAIN results |-> Says("tool", NoText, <<>>, <<results[i]>>)]

\* Mutant: the note comes before the results.
AgentTurnNoteFirst(answer, notes) ==
    <<answer>> \o (IF notes THEN <<Speech("system", Place)>> ELSE <<>>) \o Apart(Results(answer))

\* An agent may add a note of the system.
AgentTurn(answer, notes) ==
    <<answer>> \o Apart(Results(answer)) \o (IF notes THEN <<Speech("system", Place)>> ELSE <<>>)

\* The results, and a text perhaps, in one message of the user.
AnthropicTurn(answer, notes) ==
    <<answer, Says("user", IF notes THEN Place ELSE NoText, <<>>, Results(answer))>>

\* The output items of a stream, each a message of its own.
StreamedTurn(answer) ==
    (IF answer.text = NoText THEN <<>> ELSE <<Speech("assistant", answer.text)>>)
    \o [i \in DOMAIN answer.calls |-> Says("assistant", NoText, <<answer.calls[i]>>, <<>>)]
    \o Apart(Results(answer))

\* The client calls the functions and sends the results, as part of the
\* conversation.
CallFunctions ==
    /\ request.pc = "calling"
    /\ \E notes \in BOOLEAN :
         /\ notes => dialect \in {"agent", "anthropic"}
         /\ said' = Front(said) \o CASE dialect = "agent" -> AgentTurn(Last(said), notes)
                                     [] dialect = "anthropic" -> AnthropicTurn(Last(said), notes)
                                     [] dialect = "responses" -> AgentTurn(Last(said), FALSE)
                                     [] dialect = "stream" -> StreamedTurn(Last(said))
    /\ request' = [request EXCEPT !.pc = "routing", !.untried = Upstreams]
    /\ sent' = Unsent /\ used' = {}
    /\ UNCHANGED dialect

\* Beyond the bound the client leaves.
Leaves == request.pc = "resting" /\ Len(said) >= MaxSaid /\ UNCHANGED turnVars

TurnsNext ==
    \/ Question \/ CallFunctions \/ Leaves
    \/ TryUpstream \/ UpstreamFailed \/ Unanswered
    \/ NotSent \/ SentInVain \/ SendAgain \/ Answered

TurnsSpec == TurnsInit /\ [][TurnsNext]_turnVars

(* ------------------------------ properties ----------------------------- *)

IsCall(item) == item.kind = "call"
IsResult(item) == item.kind = "tool"

\* The id of a call; of the items of a stream it is part of theirs.
CallId(item) == IF dialect = "stream" THEN item.id[2] ELSE item.id

\* A text that its client sent in one message with a result.
Beside(item, result) ==
    \E m \in ToSet(said) : m.text = item.text /\ \E r \in ToSet(m.results) : r.text = result.text

\* In a form with ids each result follows a call with its id, with only calls
\* and results, and the text of its own message, between them; and between a
\* call and the next one with its id there is exactly one result of it.
ResultsPaired ==
    sent.form \in {"claude", "openai", "codex"} =>
      LET w == sent.items
          Calls(j, i) == IsCall(w[j]) /\ CallId(w[j]) = w[i].id
          Until(j) == Min({i \in (j + 1)..Len(w) : IsCall(w[i]) /\ w[i].id = w[j].id} \cup {Len(w) + 1})
          Meets(j, i) == \A n \in (j + 1)..(i - 1) :
                            w[n].text = NoText \/ IsResult(w[n]) \/ Beside(w[n], w[i])
      IN /\ \A i \in DOMAIN w : IsResult(w[i]) => \E j \in 1..(i - 1) : Calls(j, i) /\ Meets(j, i)
         /\ \A j \in DOMAIN w : IsCall(w[j]) =>
              Cardinality({i \in (j + 1)..(Until(j) - 1) : IsResult(w[i]) /\ Calls(j, i)}) = 1

\* The CLI is told of a result under the function that was called: that of the
\* answer before it, if no later answer has numbered a call alike.
ResultsNamed ==
    sent.form = "cli" /\ dialect # "stream" =>
      \A k \in DOMAIN said : \A r \in ToSet(said[k].results) :
        LET Has(i) == \E c \in ToSet(said[i].calls) : c.id = r.of
            asked == Max({i \in 1..(k - 1) : Has(i)})
        IN  \/ \E i \in (k + 1)..Len(said) : Has(i)
            \/ \E item \in ToSet(sent.items), c \in ToSet(said[asked].calls) :
                  IsResult(item) /\ item.text = r.text /\ c.id = r.of /\ item.fn = c.fn

\* The words of messages and of items: texts, and functions that are called.
\* Of one message the text comes first.
Words(text, fns) == (IF text = NoText THEN <<>> ELSE <<<<text, "">>>>) \o [i \in DOMAIN fns |-> <<NoText, fns[i]>>]
Spoken(m) == Words(m.text, [i \in DOMAIN m.calls |-> m.calls[i].fn])
             \o [i \in DOMAIN m.results |-> <<m.results[i].text, "">>]
Written(item) == Words(item.text, IF IsCall(item) THEN <<item.fn>> ELSE <<>>)
OnlyTexts(words) == Those(words, LAMBDA w : w[1] # NoText)

\* Nothing of a conversation is lost or out of order on its way from the
\* client to a provider, whoever gave the answers: the same texts, calls and
\* results, those of the system apart, in the order of the client's messages.
\* Vertex's Gemini gets the texts.
SaidIsSent ==
    sent.form # "none" /\ request.pc \in {"sending", "routing"} =>
      LET theirs == InOrder(Those(said, NotSystem), Spoken)
          systems == InOrder(Those(said, IsSystem), Spoken)
          FromSystem(w) == w \in ToSet(systems)
          items == InOrder(sent.items, Written)
          ours == Those(items, LAMBDA w : ~FromSystem(w))
      IN /\ Those(items, FromSystem) = systems
         /\ ours = IF sent.form = "vertexGemini" THEN OnlyTexts(theirs) ELSE theirs

\* A provider is sent the whole conversation of the client, in its order, with
\* each result behind its call and under its call's id or name, although
\* earlier answers came from other providers.  That providers accept it is
\* more than this says, and for three clients more than holds: a text that an
\* Anthropic client sends with its results stands between calls and results,
\* which Claude and OpenAI refuse; what comes back from a stream has calls with
\* the ids of items and results with those of calls; and Gemini numbers the
\* calls of each answer anew, so its ids repeat, and over the CLI an earlier
\* result then stands under the function that was called last.
SentFaithfully == ResultsPaired /\ ResultsNamed /\ SaidIsSent

\* A request is given up only after every credential of every provider was
\* tried, on whatever path.
EveryKeyTried ==
    [][Unanswered => \A p \in ToSet(Upstreams) : {p} \X ToSet(KeysOf[p]) \subseteq used]_turnVars
=============================================================================
