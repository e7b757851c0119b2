---------------------------- MODULE SessionMemory -----------------------------
(***************************************************************************)
(* Sessions and what is remembered of them: the sessions table             *)
(* (internal/memory/sessions.go), the rows of the memory table             *)
(* (vector.go) and the two places that work on them in the course of a     *)
(* request: the router (ChatCompletionWithDebug, ChatCompletionForProvider,*)
(* refine.go, preprocess.go) and the handlers of the Responses API         *)
(* (compat_handlers.go).  Each statement on the database is a step of its  *)
(* own, so requests of one session, the ticker that ends inactive sessions *)
(* and the clients that end one interleave.                                *)
(*                                                                         *)
(* Statements succeed.  What is relevant to a query, whether the model     *)
(* refines a prompt and whether a conversation calls for skills are free   *)
(* choices; of a text the model keeps which one it is.                     *)
(***************************************************************************)
EXTENDS Integers, Sequences, SequencesExt, FiniteSetsExt, Selections

CONSTANTS
    Sessions,           \* X-Session-ID of the clients
    Chats,              \* requests under way at a time
    Conversations,      \* what a client sends: sequences of [role, text]
    Entries,            \* the APIs it is sent over, and whether the memory is
                        \* to be skipped: [api, skip]
    RecentRows,         \* the newest rows that are always relevant (4)
    CarriedRows,        \* rows carried over from an ended session (8)
    Window,             \* 30 minutes, of inactivity and of continuity
    Offsets,            \* of the local time, in which a deadline is written,
                        \* from UTC, in which the sessions table is
    MaxChats            \* bound of the model: requests

Roles == {"system", "user", "assistant", "tool"}
Words == UNION {{m.text : m \in ToSet(ms)} : ms \in Conversations}

ASSUME MemoryAssumption ==
    /\ RecentRows \in Nat \ {0} /\ CarriedRows \in Nat \ {0} /\ MaxChats \in Nat
    /\ Entries \subseteq [api : BOOLEAN, skip : BOOLEAN]
    /\ Conversations \subseteq Seq([role : Roles, text : Words])
    /\ Window \in Nat /\ Offsets \subseteq Int

NoSession == "none"

VARIABLES
    sessions,           \* the sessions table: a status, and the age of last_active
    memory,             \* the memory table: the rows of a session by time
    chat,               \* the requests: own are their messages, and said
                        \* (history) what their clients said
    begun,              \* requests so far
    offset,             \* the offset of this process
    abandoned           \* history: ended by the ticker, and not used since

memoryVars == <<sessions, memory, chat, begun, offset, abandoned>>

\* Beyond this age nothing changes.
OldestAge == Window + Max({0, -offset}) + 1

\* A row or a message.  Its text is what it is in which turn, in the words it
\* was said in or as the router rewrote it, or nothing; by, for the
\* properties, is the session it was said in.
Forms == {"own", "refined", "skilled"}
Nothing == <<"", 0, "own">>
Said(role, what, turn, s) ==
    [role |-> role, text |-> IF what = "" THEN Nothing ELSE <<what, turn, "own">>, by |-> s]
Same(m, n) == m.role = n.role /\ m.text = n.text

\* What refinement makes of a text, and skills put in front of it.
Refined(text) == <<text[1], text[2], "refined">>
Skilled(text) == <<text[1], text[2], "skilled">>

IdleChat == [pc |-> "idle", session |-> NoSession, turn |-> 0, skip |-> FALSE, api |-> FALSE,
             said |-> <<>>, own |-> <<>>, rest |-> <<>>, from |-> NoSession]

MemoryInit ==
    /\ sessions = [s \in Sessions |-> [status |-> "none", age |-> 0]]
    /\ memory = [s \in Sessions |-> <<>>]
    /\ chat = [c \in Chats |-> IdleChat]
    /\ begun = 0
    /\ offset \in Offsets
    /\ abandoned = {}

Put(c, q) == chat' = [chat EXCEPT ![c] = q]
Insert(s, m) == memory' = [memory EXCEPT ![s] = Append(@, m)]

(* ------------------------------- sessions ------------------------------ *)

\* Deadlines are compared as text, which shifts them by the offset.
TimedOut(s) == sessions[s].age > Window - offset
Recent(s) == sessions[s].age < Window - offset

\* As EndInactiveSessions, with last_active set as End sets it.
EndInactiveNow ==
    LET idle == {s \in Sessions : sessions[s].status = "active" /\ TimedOut(s)}
    IN  /\ idle # {}
        /\ sessions' = [s \in Sessions |-> IF s \in idle THEN [status |-> "ended", age |-> 0]
                                                         ELSE sessions[s]]
        /\ abandoned' = abandoned \cup idle
        /\ UNCHANGED <<memory, chat, begun, offset>>

\* The ticker of main; last_active stays what it was.
EndInactiveSessions ==
    LET idle == {s \in Sessions : sessions[s].status = "active" /\ TimedOut(s)}
    IN  /\ idle # {}
        /\ sessions' = [s \in Sessions |-> IF s \in idle THEN [sessions[s] EXCEPT !.status = "ended"]
                                                         ELSE sessions[s]]
        /\ abandoned' = abandoned \cup idle
        /\ UNCHANGED <<memory, chat, begun, offset>>

\* A client ends a session, whatever its status.
EndSession(s) ==
    /\ sessions[s].status # "none"
    /\ sessions' = [sessions EXCEPT ![s] = [status |-> "ended", age |-> 0]]
    /\ abandoned' = abandoned \ {s}
    /\ UNCHANGED <<memory, chat, begun, offset>>

TimeGoesBy ==
    /\ \E s \in Sessions : sessions[s].status # "none" /\ sessions[s].age < OldestAge
    /\ sessions' = [s \in Sessions |-> [sessions[s] EXCEPT !.age = IF @ < OldestAge THEN @ + 1 ELSE @]]
    /\ UNCHANGED <<memory, chat, begun, offset, abandoned>>

(* ------------------------------ retrieval ------------------------------ *)

\* lastUserMessage
Users(ms) == {i \in DOMAIN ms : ms[i].role = "user" /\ ms[i].text # Nothing}
Query(ms) == IF Users(ms) # {} THEN ms[Max(Users(ms))].text
             ELSE IF ms # <<>> THEN ms[Len(ms)].text ELSE Nothing

Newest(rows, n) == SubSeq(rows, Max({1, Len(rows) - n + 1}), Len(rows))

\* RetrieveRecent: the newest rows, of twice as many, but for the query itself.
RetrieveRecent(s, query) ==
    Newest(Those(Newest(memory[s], 2 * RecentRows), LAMBDA m : m.text # query), RecentRows)

\* What the search by similarity, or else by words, finds: any row.
Found(s) == ToSet(memory[s])

\* RetrieveRelevant: the newest rows, and what the search adds, which is not
\* the query and is not there yet.
Relevant(s, query) ==
    LET recent == RetrieveRecent(s, query)
        added == {m \in Found(s) : m.text # query /\ \A r \in ToSet(recent) : ~Same(m, r)}
    IN  {recent} \cup {Append(recent, m) : m \in added}

\* Results of tools and empty messages are not injected.
Injectable(rows) == Those(rows, LAMBDA m : m.role # "tool" /\ m.text # Nothing)

(* ------------------------------- requests ------------------------------ *)

\* A request reaches the router: over the chat API, which may ask to skip the
\* memory, or over the Responses API, which skips it for a request that names
\* a previous response, whose session is then the request's if it is known.
\* A client may send its last turn again.
Receive(c) ==
    /\ chat[c].pc = "idle" /\ begun < MaxChats
    /\ \E s \in Sessions, ms \in Conversations, e \in Entries, turn \in {begun, begun + 1} \ {0} :
           LET said == [i \in DOMAIN ms |-> Said(ms[i].role, ms[i].text, turn, s)]
           IN  Put(c, [IdleChat EXCEPT !.pc = IF e.skip THEN "touch" ELSE "refine", !.session = s, !.turn = turn,
                              !.skip = e.skip, !.api = e.api, !.said = said, !.own = said])
    /\ begun' = begun + 1
    /\ UNCHANGED <<sessions, memory, offset, abandoned>>

\* RefineIntent puts its text in the place of the last user message when the
\* session has context: the client's own words are gone, for the handler
\* too, because the slice is the caller's.
RefineIntent(c) ==
    LET q == chat[c]
    IN  /\ q.pc = "refine"
        /\ \/ Put(c, [q EXCEPT !.pc = "touch"])
           \/ /\ Users(q.own) # {}
              /\ \E rows \in Relevant(q.session, Query(q.own)) : rows # <<>>
              /\ Put(c, [q EXCEPT !.pc = "touch", !.own[Max(Users(q.own))].text = Refined(@)])
        /\ UNCHANGED <<sessions, memory, begun, offset, abandoned>>

Touch(c) ==
    LET q == chat[c]
    IN  /\ q.pc = "touch"
        /\ sessions' = [sessions EXCEPT ![q.session] = [status |-> "active", age |-> 0]]
        /\ abandoned' = abandoned \ {q.session}
        /\ Put(c, [q EXCEPT !.pc = IF q.skip THEN "call" ELSE "retrieve"])
        /\ UNCHANGED <<memory, begun, offset>>

\* What the router takes for new: all that follows as many messages as were
\* injected, results of tools excepted; of calls it stores a summary.
Rememberable(ms, q) ==
    LET new == Those(ms, LAMBDA m : m.role # "tool")
    IN  [i \in DOMAIN new |-> IF new[i].text = Nothing THEN Said(new[i].role, "calls", q.turn, new[i].by)
                                                      ELSE new[i]]

\* As NewMessages, past the message of the system that is put in front.
NewMessagesPastSystem(all, injected, q) == Rememberable(SubSeq(all, injected + 2, Len(all)), q)

NewMessages(all, injected, q) == Rememberable(SubSeq(all, injected + 1, Len(all)), q)

\* What analyzeConversation and buildInjections make of a conversation.
CallsForSkills == BOOLEAN

\* PreprocessRequest puts the skills into a first message of the system, or
\* in a message of their own in front of all.
SystemFirst(ms) == ms # <<>> /\ Head(ms).role = "system"
Merged(ms, skills) == IF skills /\ SystemFirst(ms) THEN [ms EXCEPT ![1].text = Skilled(@)] ELSE ms
PreprocessRequest(ms, skills, q) ==
    IF skills /\ ~SystemFirst(ms) THEN <<Said("system", "skills", q.turn, q.session)>> \o ms
                                  ELSE Merged(ms, skills)

\* What was retrieved is put in front, the request is preprocessed, and what
\* is new in it is to be stored.  With nothing retrieved the slice is still
\* the caller's, so a first message of the system changes for the handler too.
Inject(c, rows) ==
    \E skills \in CallsForSkills :
        LET q == chat[c]
            injected == Injectable(rows)
            new == NewMessages(PreprocessRequest(injected \o q.own, skills, q), Len(injected), q)
        IN  Put(c, [q EXCEPT !.pc = IF new = <<>> THEN "call" ELSE "store", !.rest = new,
                             !.own = IF rows = <<>> THEN Merged(@, skills) ELSE @])

Retrieve(c) ==
    LET q == chat[c]
    IN  /\ q.pc = "retrieve"
        /\ \E rows \in Relevant(q.session, Query(q.own)) :
               IF rows = <<>> THEN Put(c, [q EXCEPT !.pc = "continuity"]) ELSE Inject(c, rows)
        /\ UNCHANGED <<sessions, memory, begun, offset, abandoned>>

\* Nothing relevant: the session that ended last, if it ended recently.
FindRecentEnded(c) ==
    LET q == chat[c]
        ended == {s \in Sessions \ {q.session} : sessions[s].status = "ended" /\ Recent(s)}
    IN  /\ q.pc = "continuity"
        /\ \/ ended = {} /\ Inject(c, <<>>)
           \/ \E s \in ended :
                /\ \A t \in ended : sessions[s].age <= sessions[t].age
                /\ Put(c, [q EXCEPT !.pc = "carry", !.from = s])
        /\ UNCHANGED <<sessions, memory, begun, offset, abandoned>>

CarryOver(c) ==
    /\ chat[c].pc = "carry"
    /\ Inject(c, Newest(memory[chat[c].from], CarriedRows))
    /\ UNCHANGED <<sessions, memory, begun, offset, abandoned>>

\* Store: one row after the other, in the router and in the handler.
StoreNext(c) ==
    LET q == chat[c]
        after == IF q.pc = "store" THEN "call" ELSE "answered"
    IN  /\ q.pc \in {"store", "handler"}
        /\ Insert(q.session, Head(q.rest))
        /\ Put(c, [q EXCEPT !.rest = Tail(@), !.pc = IF Len(q.rest) = 1 THEN after ELSE @])
        /\ UNCHANGED <<sessions, begun, offset, abandoned>>

\* The provider answers with a text or with calls alone; a text is stored.
Answer(c) ==
    LET q == chat[c]
        a == Said("assistant", "answer", q.turn, q.session)
    IN  /\ q.pc = "call"
        /\ \E text \in BOOLEAN :
               /\ IF text /\ ~q.skip THEN Insert(q.session, a) ELSE UNCHANGED memory
               /\ Put(c, [q EXCEPT !.pc = IF q.api THEN "persist" ELSE "answered",
                                   !.rest = IF q.api /\ text THEN <<a>> ELSE <<>>])
        /\ UNCHANGED <<sessions, begun, offset, abandoned>>

CallFailed(c) ==
    /\ chat[c].pc = "call"
    /\ Put(c, IdleChat)
    /\ UNCHANGED <<sessions, memory, begun, offset, abandoned>>

\* The handler of the Responses API, with the response stored, is to store
\* the turn: all it was sent, or the last message if it continues a response
\* and the user said it.
StoreTurn(c) ==
    LET q == chat[c]
        turn == IF ~q.skip THEN q.own ELSE Those(Newest(q.own, 1), LAMBDA m : m.role = "user")
    IN  /\ q.pc = "persist"
        /\ Put(c, [q EXCEPT !.rest = turn \o @, !.pc = IF turn \o q.rest = <<>> THEN "answered" ELSE "handler"])
        /\ UNCHANGED <<sessions, memory, begun, offset, abandoned>>

Reply(c) ==
    /\ chat[c].pc = "answered"
    /\ Put(c, IdleChat)
    /\ UNCHANGED <<sessions, memory, begun, offset, abandoned>>

MemoryNext ==
    \/ \E c \in Chats :
        \/ Receive(c) \/ RefineIntent(c) \/ Touch(c) \/ Retrieve(c) \/ FindRecentEnded(c) \/ CarryOver(c)
        \/ StoreNext(c) \/ Answer(c) \/ CallFailed(c)
        \/ StoreTurn(c) \/ Reply(c)
    \/ EndInactiveSessions \/ TimeGoesBy
    \/ \E s \in Sessions : EndSession(s)

MemorySpec == MemoryInit /\ [][MemoryNext]_memoryVars

(* ------------------------------ properties ----------------------------- *)

\* Rows and messages; requests, sessions and the memory of each keep their types.
Texts == Words \cup {"", "skills", "calls", "answer"}
Messages == [role : Roles, text : Texts \X Nat \X Forms, by : Sessions]
MemoryTypeOK ==
    /\ sessions \in [Sessions -> [status : {"none", "active", "ended"}, age : Nat]]
    /\ memory \in [Sessions -> Seq(Messages)]
    /\ chat \in [Chats -> [pc : {"idle", "refine", "touch", "retrieve", "continuity", "carry", "store",
                                "call", "persist", "handler", "answered"},
                          session : Sessions \cup {NoSession}, turn : Nat, skip : BOOLEAN, api : BOOLEAN,
                          said : Seq(Messages), own : Seq(Messages), rest : Seq(Messages), from : Sessions \cup {NoSession}]]
    /\ begun \in Nat /\ offset \in Offsets /\ abandoned \subseteq Sessions

\* What a row may make of one of the messages that a client said: its own
\* words; of the last one of the user the refined text in their place; of a
\* message of the system at the head the same with skills in front of it.
Versions(said, i) ==
    {said[i].text}
        \cup (IF i \in Users(said) /\ \A j \in Users(said) : j <= i THEN {Refined(said[i].text)} ELSE {})
        \cup (IF i = 1 /\ said[i].role = "system" THEN {Skilled(said[i].text)} ELSE {})

\* What is kept of a message, and which messages are to be kept: results of
\* tools are not, nor what has no text.
Keeps(row, said, i) == row.role = said[i].role /\ row.text \in Versions(said, i)
ToKeep(said) == {i \in DOMAIN said : said[i].role # "tool" /\ said[i].text # Nothing}

\* When a request that uses the memory is answered, each message that its
\* client said is a row of its session, whatever was retrieved, carried over
\* or put in front of it on the way, and whoever else used the session: the
\* offset of the new messages loses none of them.  The words are those of
\* the client, but for the two rewritings of the router: a refined question
\* replaces the client's, whose own words no row then has, and skills are
\* stored with the client's instructions.
AnsweredIsRemembered ==
    \A c \in Chats : chat[c].pc = "answered" /\ ~chat[c].skip =>
        \A i \in ToKeep(chat[c].said) :
            \E row \in ToSet(memory[chat[c].session]) : Keeps(row, chat[c].said, i)

\* Only a session that its client has ended is continued by another, never
\* one that ran out of time: ending by the ticker leaves last_active where it
\* was, so what the ticker ends is too old for the same window to find,
\* whatever the offset of the clock.
AbandonedStaysApart ==
    [][\A c \in Chats : chat'[c].from # NoSession /\ chat[c].from = NoSession
            => chat'[c].from \notin abandoned]_memoryVars

\* The memory of a session holds what was said in that session: "Store the
\* NEW messages" (internal/router/router.go:517).
OwnMemory == \A s \in Sessions : \A m \in ToSet(memory[s]) : m.by = s
=============================================================================
