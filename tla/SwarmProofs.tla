----------------------------- MODULE SwarmProofs -----------------------------
(***************************************************************************)
(* Swarms, for any number of ids, callers and requests.  A handler that    *)
(* holds the mutex saves what it changed statement by statement, and others*)
(* come in between; the proof is that what the database lacks some pending *)
(* statement has, and that of two statements for a row the last has the    *)
(* newest value, so that the rows are the manager's whenever no statement  *)
(* is pending, save those of the copies that were saved too late.          *)
(***************************************************************************)
EXTENDS Swarm, SelectionsProofs, SequenceTheorems, FiniteSetTheorems, TLAPS

(* ------------------------ what swarms are made of ---------------------- *)

AgentRecs == [status : {"absent", "idle", "busy", "stopped"}, swarm : 0..MaxId]
SwarmRecs ==
    {s \in [status : {"absent", "ready", "running", "stopped"}, agents : Seq(Ids), tasks : Seq(Ids)] :
        s.status = "absent" => s.tasks = <<>>}
TaskRecs ==
    [status : {"absent", "queued", "assigned", "running", "paused", "completed", "failed", "cancelled"},
     assigned : 0..MaxId, early : BOOLEAN]
Maps == [agents : [Ids -> AgentRecs], swarms : [Ids -> SwarmRecs], tasks : [Ids -> TaskRecs]]

\* Statements; no statement makes a task absent.
Statements ==
    [table : {"agents"}, id : Ids, value : AgentRecs]
    \cup [table : {"swarms"}, id : Ids, value : SwarmRecs]
    \cup [table : {"tasks"}, id : Ids, value : {task \in TaskRecs : task.status # "absent"}]

CallRecs ==
    [op : {"none", "start", "clone", "template", "listing", "running", "pause", "resume"},
     swarm : 0..MaxId, task : 0..MaxId, todo : Seq(Ids), copy : SwarmRecs]

SwarmTypes ==
    /\ mem \in Maps /\ db \in Maps
    /\ counter \in 0..MaxId
    /\ pending \in Seq(Statements)
    /\ runner \in [Ids -> {"none", "start", "work"}]
    /\ call \in [Callers -> CallRecs]

(* ------------------------- rows and what they hold --------------------- *)

\* A statement saves what the manager has, or a copy.
Right(m, r, cop) ==
    /\ r.table = "agents" => r.value = m.agents[r.id]
    /\ r.table = "swarms" => r.value = m.swarms[r.id] \/ r.id \in cop
    /\ r.table = "tasks" => r.value = m.tasks[r.id] \/ r.id \in cop

\* One of some statements saves the row.
Keyed(rows, table, id) == \E r \in ToSet(rows) : r.table = table /\ r.id = id

\* Where the database differs from the manager, a statement is pending, and
\* of two statements for one row only the first may be an older one.
Agreement ==
    /\ \A i \in Ids :
          /\ db.agents[i] = mem.agents[i] \/ Keyed(pending, "agents", i)
          /\ db.swarms[i] = mem.swarms[i] \/ i \in copied \/ Keyed(pending, "swarms", i)
          /\ db.tasks[i] = mem.tasks[i] \/ i \in copied \/ Keyed(pending, "tasks", i)
    /\ pending # <<>> =>
          /\ \A r \in ToSet(Tail(pending)) : Right(mem, r, copied)
          /\ Right(mem, Head(pending), copied) \/ Keyed(Tail(pending), Head(pending).table, Head(pending).id)

\* Swarm s lists task t, in the manager, in the database, in a statement or
\* in the copy of a handler.
ListedBy(t, s) ==
    \/ t \in ToSet(mem.swarms[s].tasks)
    \/ t \in ToSet(db.swarms[s].tasks)
    \/ \E r \in ToSet(pending) : r.table = "swarms" /\ r.id = s /\ t \in ToSet(r.value.tasks)
    \/ \E c \in Callers : call[c].op \in {"template", "running"} /\ call[c].swarm = s
                          /\ t \in ToSet(call[c].copy.tasks)

\* A handler is about to list it.
ToBeListed(t, s) == \E c \in Callers : call[c].op \in {"listing", "running"} /\ call[c].swarm = s /\ call[c].task = t

Listing(t, s) == ListedBy(t, s) \/ ToBeListed(t, s)

\* A task is listed by one swarm, and saved before that.
OneList ==
    /\ \A t, s1, s2 \in Ids : Listing(t, s1) /\ Listing(t, s2) => s1 = s2
    /\ \A t, s \in Ids : ListedBy(t, s) => db.tasks[t].status # "absent"
    /\ \A t, s \in Ids : ToBeListed(t, s) => db.tasks[t].status # "absent" \/ Keyed(pending, "tasks", t)

\* Every id in use has been handed out, and handlers have a swarm that exists.
Numbered ==
    /\ \A i \in Ids :
          /\ mem.agents[i].status # "absent" \/ db.agents[i].status # "absent" => i <= counter
          /\ mem.swarms[i].status # "absent" \/ db.swarms[i].status # "absent" => i <= counter
          /\ mem.tasks[i].status # "absent" \/ db.tasks[i].status # "absent" => i <= counter
    /\ \A r \in ToSet(pending) : r.id <= counter
    /\ \A c \in Callers :
          /\ call[c].op # "none" => call[c].swarm \in Ids /\ mem.swarms[call[c].swarm].status # "absent"
          /\ call[c].op \in {"listing", "running"} => call[c].task \in 1..counter

\* A running task is there, for the manager and in its statements.
RunnersHaveTasks == \A t \in Ids : runner[t] # "none" => mem.tasks[t].status # "absent"

\* A task that is saved, to be saved or to be listed is there for the manager.
TasksKept ==
    /\ \A t \in Ids : db.tasks[t].status # "absent" => mem.tasks[t].status # "absent"
    /\ \A r \in ToSet(pending) : r.table = "tasks" => mem.tasks[r.id].status # "absent"
    /\ \A t, s \in Ids : ToBeListed(t, s) => mem.tasks[t].status # "absent"

SwarmInv == SwarmTypes /\ Agreement /\ OneList /\ Numbered /\ RunnersHaveTasks /\ TasksKept

(* --------------------------- rows of the manager ----------------------- *)

\* The statements that save some agents, swarms and tasks as m has them.
Saves(m, rows, ag, ss, ts) ==
    /\ rows \in Seq(Statements)
    /\ ToSet(rows) = {Row("agents", a, m.agents[a]) : a \in ag}
                     \cup {Row("swarms", s, m.swarms[s]) : s \in ss}
                     \cup {Row("tasks", t, m.tasks[t]) : t \in ts}

LEMMA RowsAre ==
  ASSUME NEW m \in Maps
  PROVE  /\ \A a \in Ids : Row("agents", a, m.agents[a]) \in Statements
         /\ \A s \in Ids : Row("swarms", s, m.swarms[s]) \in Statements
         /\ \A t \in Ids : m.tasks[t].status # "absent" => Row("tasks", t, m.tasks[t]) \in Statements
BY DEF Maps, Statements, Row

LEMMA RowParts ==
  ASSUME NEW table, NEW id, NEW value
  PROVE  Row(table, id, value).table = table /\ Row(table, id, value).id = id /\ Row(table, id, value).value = value
BY DEF Row

LEMMA InList ==
  ASSUME NEW X, NEW s \in Seq(X), NEW x \in ToSet(s)
  PROVE  x \in X
BY DEF ToSet

LEMMA OneRow ==
  ASSUME NEW r \in Statements
  PROVE  <<r>> \in Seq(Statements) /\ ToSet(<<r>>) = {r}
BY DEF ToSet

LEMMA SavesNothing ==
  ASSUME NEW m
  PROVE  Saves(m, <<>>, {}, {}, {})
BY DEF Saves, ToSet

LEMMA SavesOne ==
  ASSUME NEW m \in Maps, NEW i \in Ids
  PROVE  /\ m.agents[i].status # "absent" => Saves(m, AgentRow(m, i), {i}, {}, {})
         /\ Saves(m, SwarmRow(m, i), {}, {i}, {})
         /\ m.tasks[i].status # "absent" => Saves(m, TaskRow(m, i), {}, {}, {i})
<1>1. ASSUME m.agents[i].status # "absent"
      PROVE  Saves(m, AgentRow(m, i), {i}, {}, {})
  <2>1. AgentRow(m, i) = <<Row("agents", i, m.agents[i])>>
    BY <1>1 DEF AgentRow, Exists
  <2> QED BY <2>1, RowsAre, OneRow DEF Saves
<1>2. Saves(m, SwarmRow(m, i), {}, {i}, {})
  BY RowsAre, OneRow DEF Saves, SwarmRow
<1>3. ASSUME m.tasks[i].status # "absent"
      PROVE  Saves(m, TaskRow(m, i), {}, {}, {i})
  BY <1>3, RowsAre, OneRow DEF Saves, TaskRow
<1> QED BY <1>1, <1>2, <1>3

LEMMA SavesBoth ==
  ASSUME NEW m, NEW rows1, NEW ag1, NEW ss1, NEW ts1, Saves(m, rows1, ag1, ss1, ts1),
         NEW rows2, NEW ag2, NEW ss2, NEW ts2, Saves(m, rows2, ag2, ss2, ts2)
  PROVE  Saves(m, rows1 \o rows2, ag1 \cup ag2, ss1 \cup ss2, ts1 \cup ts2)
<1>1. /\ rows1 \o rows2 \in Seq(Statements)
      /\ ToSet(rows1 \o rows2) = ToSet(rows1) \cup ToSet(rows2)
  BY JoinedElements DEF Saves
<1> QED BY <1>1 DEF Saves

\* One by one.
LEMMA SavedRows ==
  ASSUME NEW m, NEW rows, NEW ag, NEW ss, NEW ts, Saves(m, rows, ag, ss, ts)
  PROVE  /\ \A r \in ToSet(rows) :
               \/ r.table = "agents" /\ r.id \in ag /\ r.value = m.agents[r.id]
               \/ r.table = "swarms" /\ r.id \in ss /\ r.value = m.swarms[r.id]
               \/ r.table = "tasks" /\ r.id \in ts /\ r.value = m.tasks[r.id]
         /\ \A i \in ag : Keyed(rows, "agents", i)
         /\ \A i \in ss : Keyed(rows, "swarms", i)
         /\ \A i \in ts : Keyed(rows, "tasks", i)
<1> DEFINE A == {Row("agents", a, m.agents[a]) : a \in ag}
           S == {Row("swarms", s, m.swarms[s]) : s \in ss}
           T == {Row("tasks", t, m.tasks[t]) : t \in ts}
<1>1. ToSet(rows) = A \cup S \cup T
  BY DEF Saves
<1>2. /\ \A r \in A : r.table = "agents" /\ r.id \in ag /\ r.value = m.agents[r.id]
      /\ \A r \in S : r.table = "swarms" /\ r.id \in ss /\ r.value = m.swarms[r.id]
      /\ \A r \in T : r.table = "tasks" /\ r.id \in ts /\ r.value = m.tasks[r.id]
  <2>1. ASSUME NEW r \in A
        PROVE  r.table = "agents" /\ r.id \in ag /\ r.value = m.agents[r.id]
    <3>1. PICK a \in ag : r = Row("agents", a, m.agents[a])
      BY <2>1
    <3> QED BY <3>1, RowParts
  <2>2. ASSUME NEW r \in S
        PROVE  r.table = "swarms" /\ r.id \in ss /\ r.value = m.swarms[r.id]
    <3>1. PICK s \in ss : r = Row("swarms", s, m.swarms[s])
      BY <2>2
    <3> QED BY <3>1, RowParts
  <2>3. ASSUME NEW r \in T
        PROVE  r.table = "tasks" /\ r.id \in ts /\ r.value = m.tasks[r.id]
    <3>1. PICK t \in ts : r = Row("tasks", t, m.tasks[t])
      BY <2>3
    <3> QED BY <3>1, RowParts
  <2> HIDE DEF A, S, T
  <2> QED BY <2>1, <2>2, <2>3
<1>3. /\ \A i \in ag : Row("agents", i, m.agents[i]) \in A
      /\ \A i \in ss : Row("swarms", i, m.swarms[i]) \in S
      /\ \A i \in ts : Row("tasks", i, m.tasks[i]) \in T
  OBVIOUS
<1> HIDE DEF A, S, T
<1>4. /\ \A i \in ag : Keyed(rows, "agents", i)
      /\ \A i \in ss : Keyed(rows, "swarms", i)
      /\ \A i \in ts : Keyed(rows, "tasks", i)
  <2>1. ASSUME NEW i \in ag
        PROVE  Keyed(rows, "agents", i)
    BY <1>1, <1>3, RowParts DEF Keyed
  <2>2. ASSUME NEW i \in ss
        PROVE  Keyed(rows, "swarms", i)
    BY <1>1, <1>3, RowParts DEF Keyed
  <2>3. ASSUME NEW i \in ts
        PROVE  Keyed(rows, "tasks", i)
    BY <1>1, <1>3, RowParts DEF Keyed
  <2> QED BY <2>1, <2>2, <2>3
<1> QED BY <1>1, <1>2, <1>4

\* The agents of a swarm, each that exists.
LEMMA SavesMembers ==
  ASSUME NEW m \in Maps, NEW s \in SwarmRecs
  PROVE  Saves(m, AgentRows(m, s), Members(m, s), {}, {}) /\ Members(m, s) \subseteq Ids
<1> DEFINE places == {i \in DOMAIN s.agents : m.agents[s.agents[i]].status # "absent"}
           present == ElementsAt(s.agents, places)
           rows == [i \in 1..Len(present) |-> Row("agents", present[i], m.agents[present[i]])]
<1>1. AgentRows(m, s) = rows
  BY DEF AgentRows, Those
<1>2. s.agents \in Seq(Ids)
  BY DEF SwarmRecs
<1>3. present \in Seq(Ids) /\ ToSet(present) = {s.agents[i] : i \in places \cap DOMAIN s.agents}
  BY <1>2, ElementsAtPlaces
<1>4. ToSet(present) = Members(m, s)
  <2>1. DOMAIN s.agents = 1..Len(s.agents) /\ \A i \in DOMAIN s.agents : s.agents[i] \in Ids
    BY <1>2
  <2> QED BY <1>3, <2>1 DEF Members
<1> HIDE DEF present, places
<1>5. \A i \in 1..Len(present) : present[i] \in Ids /\ DOMAIN present = 1..Len(present) /\ Len(present) \in Nat
  BY <1>3
<1>6. rows \in Seq(Statements)
  <2>1. \A i \in 1..Len(present) : Row("agents", present[i], m.agents[present[i]]) \in Statements
    BY <1>5, RowsAre
  <2>2. Len(present) \in Nat
    BY <1>3
  <2> QED BY <2>1, <2>2
<1>7. ToSet(rows) = {Row("agents", a, m.agents[a]) : a \in ToSet(present)}
  <2>1. DOMAIN present = 1..Len(present)
    BY <1>3
  <2> QED BY <2>1 DEF ToSet
<1> QED BY <1>1, <1>4, <1>6, <1>7 DEF Saves, Members

\* What SetAgents changes.
LEMMA AgentsSet ==
  ASSUME NEW m \in Maps, NEW set, NEW status \in {"idle", "busy", "stopped"}
  PROVE  /\ SetAgents(m, set, status) \in Maps
         /\ SetAgents(m, set, status).swarms = m.swarms
         /\ SetAgents(m, set, status).tasks = m.tasks
         /\ \A a \in Ids : SetAgents(m, set, status).agents[a] =
                IF a \in set THEN [m.agents[a] EXCEPT !.status = status] ELSE m.agents[a]
BY DEF SetAgents, Maps, AgentRecs

\* Agents that exist stay, so a swarm has the same members.
LEMMA MembersStay ==
  ASSUME NEW m \in Maps, NEW n \in Maps, NEW s, NEW t, t.agents = s.agents,
         \A a \in Ids : m.agents[a].status = "absent" <=> n.agents[a].status = "absent"
  PROVE  Members(n, t) = Members(m, s)
BY DEF Members

(* --------------------------- critical sections ------------------------- *)

\* What a critical section does: every row it changes it saves, as the maps
\* then have it or from a copy, and the tasks its swarms list were listed or
\* to be listed by them.
Section ==
    /\ mem' \in Maps /\ pending' \in Seq(Statements)
    /\ counter' \in 0..MaxId /\ counter <= counter'
    /\ db' = db /\ copied \subseteq copied'
    /\ pending' # <<>> =>
          /\ \A r \in ToSet(Tail(pending')) : Right(mem', r, copied')
          /\ Right(mem', Head(pending'), copied')
                \/ Keyed(Tail(pending'), Head(pending').table, Head(pending').id)
    /\ \A i \in Ids :
          /\ mem'.agents[i] = mem.agents[i] \/ Keyed(pending', "agents", i)
          /\ mem'.swarms[i] = mem.swarms[i] \/ Keyed(pending', "swarms", i)
          /\ mem'.tasks[i] = mem.tasks[i] \/ Keyed(pending', "tasks", i)
          /\ mem.tasks[i].status # "absent" => mem'.tasks[i].status # "absent"
          /\ mem.swarms[i].status # "absent" => mem'.swarms[i].status # "absent"
    /\ \A t, s \in Ids : t \in ToSet(mem'.swarms[s].tasks) => Listing(t, s)
    /\ \A r \in ToSet(pending') :
          /\ r.id <= counter'
          /\ \A t \in Ids : r.table = "swarms" /\ t \in ToSet(r.value.tasks) => Listing(t, r.id)
          /\ r.table = "tasks" => mem'.tasks[r.id].status # "absent"

\* What becomes of the handlers: they list no tasks but those they listed, and
\* one new task.
CallsGoOn(fresh, at) ==
    /\ call' \in [Callers -> CallRecs]
    /\ \A c \in Callers :
          /\ call'[c].op # "none" => call'[c].swarm \in Ids /\ mem'.swarms[call'[c].swarm].status # "absent"
          /\ call'[c].op \in {"template", "running"} =>
                \A t \in Ids : t \in ToSet(call'[c].copy.tasks) => Listing(t, call'[c].swarm)
          /\ call'[c].op \in {"listing", "running"} =>
                \/ ToBeListed(call'[c].task, call'[c].swarm)
                \/ fresh # 0 /\ call'[c].task = fresh /\ call'[c].swarm = at
    /\ fresh # 0 => fresh \in (counter + 1)..counter' /\ Keyed(pending', "tasks", fresh)

RunnersGoOn ==
    /\ runner' \in [Ids -> {"none", "start", "work"}]
    /\ \A t \in Ids : runner'[t] # "none" => runner[t] # "none" \/ mem'.tasks[t].status # "absent"

LEMMA SectionKeeps ==
  ASSUME SwarmInv, MutexFree, Section, NEW fresh \in 0..MaxId, NEW at, CallsGoOn(fresh, at), RunnersGoOn
  PROVE  SwarmInv'
<1>1. pending = <<>> /\ ToSet(pending) = {} /\ \A table, id : ~Keyed(pending, table, id)
  BY DEF MutexFree, Keyed, ToSet
<1>2. SwarmTypes'
  BY DEF SwarmInv, SwarmTypes, Section, CallsGoOn, RunnersGoOn
<1>3. Agreement'
  <2>1. ASSUME NEW i \in Ids
        PROVE  /\ db'.agents[i] = mem'.agents[i] \/ Keyed(pending', "agents", i)
               /\ db'.swarms[i] = mem'.swarms[i] \/ i \in copied' \/ Keyed(pending', "swarms", i)
               /\ db'.tasks[i] = mem'.tasks[i] \/ i \in copied' \/ Keyed(pending', "tasks", i)
    BY <1>1 DEF SwarmInv, Agreement, Section
  <2> QED BY <2>1 DEF Section, Agreement
<1>4. \A t, s \in Ids : Listing(t, s) => db.tasks[t].status # "absent" /\ t <= counter
  BY <1>1 DEF SwarmInv, OneList, Listing, Numbered
<1>5. \A t, s \in Ids : ListedBy(t, s)' => Listing(t, s)
  <2> SUFFICES ASSUME NEW t \in Ids, NEW s \in Ids, ListedBy(t, s)'
               PROVE  Listing(t, s)
    OBVIOUS
  <2>1. CASE t \in ToSet(mem'.swarms[s].tasks)
    BY <2>1 DEF Section
  <2>2. CASE t \in ToSet(db'.swarms[s].tasks)
    BY <2>2 DEF Section, Listing, ListedBy
  <2>3. CASE \E r \in ToSet(pending') : r.table = "swarms" /\ r.id = s /\ t \in ToSet(r.value.tasks)
    BY <2>3 DEF Section
  <2>4. CASE \E c \in Callers : call'[c].op \in {"template", "running"} /\ call'[c].swarm = s
                                /\ t \in ToSet(call'[c].copy.tasks)
    BY <2>4 DEF CallsGoOn
  <2> QED BY <2>1, <2>2, <2>3, <2>4 DEF ListedBy
<1>6. \A t, s \in Ids : ToBeListed(t, s)' => ToBeListed(t, s) \/ (t = fresh /\ s = at)
  BY DEF ToBeListed, CallsGoOn
<1>7. \A t \in Ids : t = fresh => ~(t <= counter)
  <2>1. counter \in Nat /\ Ids \subseteq Nat \ {0}
    BY DEF SwarmInv, SwarmTypes, Ids
  <2> QED BY <2>1 DEF CallsGoOn
<1>8. OneList'
  <2>1. ASSUME NEW t \in Ids, NEW s1 \in Ids, NEW s2 \in Ids, Listing(t, s1)', Listing(t, s2)'
        PROVE  s1 = s2
    <3>1. Listing(t, s1) \/ (t = fresh /\ s1 = at)
      BY <1>5, <1>6, <2>1 DEF Listing
    <3>2. Listing(t, s2) \/ (t = fresh /\ s2 = at)
      BY <1>5, <1>6, <2>1 DEF Listing
    <3> QED BY <1>4, <1>7, <3>1, <3>2 DEF SwarmInv, OneList
  <2>2. ASSUME NEW t \in Ids, NEW s \in Ids, ListedBy(t, s)'
        PROVE  db'.tasks[t].status # "absent"
    BY <1>4, <1>5, <2>2 DEF Section
  <2>3. ASSUME NEW t \in Ids, NEW s \in Ids, ToBeListed(t, s)'
        PROVE  db'.tasks[t].status # "absent" \/ Keyed(pending', "tasks", t)
    <3>1. CASE ToBeListed(t, s)
      BY <1>4, <3>1 DEF Section, Listing
    <3>2. CASE t = fresh
      <4>1. t # 0
        BY DEF Ids
      <4> QED BY <3>2, <4>1 DEF CallsGoOn
    <3> QED BY <1>6, <2>3, <3>1, <3>2
  <2> QED BY <2>1, <2>2, <2>3 DEF OneList, Keyed
<1>9. Numbered'
  <2>0. counter \in Nat /\ counter' \in Nat /\ counter <= counter' /\ db' = db /\ Ids \subseteq Nat
    BY DEF Section, SwarmInv, SwarmTypes, Ids
  <2>1. ASSUME NEW r \in ToSet(pending')
        PROVE  r.id <= counter'
    BY DEF Section
  <2>2. ASSUME NEW i \in Ids, NEW table, Keyed(pending', table, i)
        PROVE  i <= counter'
    BY <2>1, <2>2 DEF Keyed
  <2>3. ASSUME NEW i \in Ids, i <= counter
        PROVE  i <= counter'
    BY <2>0, <2>3
  <2>4. ASSUME NEW i \in Ids
        PROVE  /\ mem'.agents[i].status # "absent" \/ db'.agents[i].status # "absent" => i <= counter'
               /\ mem'.swarms[i].status # "absent" \/ db'.swarms[i].status # "absent" => i <= counter'
               /\ mem'.tasks[i].status # "absent" \/ db'.tasks[i].status # "absent" => i <= counter'
    BY <2>0, <2>2, <2>3 DEF SwarmInv, Numbered, Section
  <2>5. ASSUME NEW c \in Callers, call'[c].op \in {"listing", "running"}
        PROVE  call'[c].task \in 1..counter'
    <3>1. CASE ToBeListed(call'[c].task, call'[c].swarm)
      <4>1. call'[c].task \in 1..counter
        BY <3>1 DEF SwarmInv, Numbered, ToBeListed
      <4> QED BY <2>0, <4>1
    <3>2. CASE call'[c].task = fresh /\ fresh # 0
      BY <2>0, <3>2 DEF CallsGoOn
    <3> QED BY <2>5, <3>1, <3>2 DEF CallsGoOn
  <2> QED BY <2>1, <2>4, <2>5 DEF Numbered, CallsGoOn
<1>10. RunnersHaveTasks'
  BY DEF RunnersHaveTasks, RunnersGoOn, Section, SwarmInv
<1>11. TasksKept'
  <2>1. \A t \in Ids : mem.tasks[t].status # "absent" => mem'.tasks[t].status # "absent"
    BY DEF Section
  <2>2. \A t \in Ids : db'.tasks[t].status # "absent" => mem'.tasks[t].status # "absent"
    BY <2>1 DEF Section, SwarmInv, TasksKept
  <2>3. \A r \in ToSet(pending') : r.table = "tasks" => mem'.tasks[r.id].status # "absent"
    BY DEF Section
  <2>4. ASSUME NEW t \in Ids, NEW s \in Ids, ToBeListed(t, s)'
        PROVE  mem'.tasks[t].status # "absent"
    <3>1. CASE ToBeListed(t, s)
      BY <2>1, <3>1 DEF SwarmInv, TasksKept
    <3>2. CASE t = fresh
      <4>1. t # 0
        BY DEF Ids
      <4>2. PICK r \in ToSet(pending') : r.table = "tasks" /\ r.id = t
        BY <3>2, <4>1 DEF CallsGoOn, Keyed
      <4> QED BY <2>3, <4>2
    <3> QED BY <1>6, <2>4, <3>1, <3>2
  <2> QED BY <2>2, <2>3, <2>4 DEF TasksKept
<1> QED BY <1>2, <1>3, <1>8, <1>9, <1>10, <1>11 DEF SwarmInv

\* The usual section saves all it changes as it leaves it, and no swarm lists
\* another task.
Saving(ag, ss, ts) ==
    /\ ag \subseteq 1..counter' /\ ss \subseteq 1..counter' /\ ts \subseteq 1..counter'
    /\ Saves(mem', pending', ag, ss, ts) /\ mem' \in Maps
    /\ \A i \in Ids :
          /\ mem'.agents[i] = mem.agents[i] \/ i \in ag
          /\ mem'.swarms[i] = mem.swarms[i] \/ i \in ss
          /\ mem'.tasks[i] = mem.tasks[i] \/ i \in ts
          /\ mem.tasks[i].status # "absent" => mem'.tasks[i].status # "absent"
          /\ mem.swarms[i].status # "absent" => mem'.swarms[i].status # "absent"
          /\ mem'.swarms[i].tasks = mem.swarms[i].tasks \/ mem'.swarms[i].tasks = <<>>
    /\ counter' \in 0..MaxId /\ counter <= counter' /\ db' = db /\ copied' = copied

LEMMA SavingIsSection ==
  ASSUME SwarmInv, MutexFree, NEW ag, NEW ss, NEW ts, Saving(ag, ss, ts)
  PROVE  Section
<1> /\ ag \subseteq 1..counter' /\ ss \subseteq 1..counter' /\ ts \subseteq 1..counter'
    /\ Saves(mem', pending', ag, ss, ts) /\ mem' \in Maps
    /\ counter' \in 0..MaxId /\ counter <= counter' /\ db' = db /\ copied' = copied
  BY DEF Saving
<1> \A i \in Ids :
       /\ mem'.agents[i] = mem.agents[i] \/ i \in ag
       /\ mem'.swarms[i] = mem.swarms[i] \/ i \in ss
       /\ mem'.tasks[i] = mem.tasks[i] \/ i \in ts
       /\ mem.tasks[i].status # "absent" => mem'.tasks[i].status # "absent"
       /\ mem.swarms[i].status # "absent" => mem'.swarms[i].status # "absent"
       /\ mem'.swarms[i].tasks = mem.swarms[i].tasks \/ mem'.swarms[i].tasks = <<>>
  BY DEF Saving
<1>1. /\ pending' \in Seq(Statements)
      /\ ToSet(pending') = {Row("agents", a, mem'.agents[a]) : a \in ag}
                           \cup {Row("swarms", s, mem'.swarms[s]) : s \in ss}
                           \cup {Row("tasks", t, mem'.tasks[t]) : t \in ts}
  BY DEF Saves
<1>0. /\ \A r \in ToSet(pending') :
            \/ r.table = "agents" /\ r.id \in ag /\ r.value = mem'.agents[r.id]
            \/ r.table = "swarms" /\ r.id \in ss /\ r.value = mem'.swarms[r.id]
            \/ r.table = "tasks" /\ r.id \in ts /\ r.value = mem'.tasks[r.id]
      /\ \A i \in ag : Keyed(pending', "agents", i)
      /\ \A i \in ss : Keyed(pending', "swarms", i)
      /\ \A i \in ts : Keyed(pending', "tasks", i)
  BY SavedRows
<1>3. \A r \in ToSet(pending') : Right(mem', r, copied') /\ r.id \in 1..counter'
  BY <1>0 DEF Right
<1>4. pending' # <<>> =>
         /\ \A r \in ToSet(Tail(pending')) : Right(mem', r, copied')
         /\ Right(mem', Head(pending'), copied')
  <2> SUFFICES ASSUME pending' # <<>>
               PROVE  /\ \A r \in ToSet(Tail(pending')) : Right(mem', r, copied')
                      /\ Right(mem', Head(pending'), copied')
    OBVIOUS
  <2>1. ToSet(pending') = {Head(pending')} \cup ToSet(Tail(pending'))
    BY <1>1, HeadAndTail
  <2> QED BY <1>3, <2>1
<1>5. \A t, s \in Ids : t \in ToSet(mem'.swarms[s].tasks) => Listing(t, s)
  <2>1. ToSet(<<>>) = {}
    BY DEF ToSet
  <2> QED BY <2>1 DEF Listing, ListedBy
<1>6. ASSUME NEW r \in ToSet(pending'), NEW t \in Ids, r.table = "swarms", t \in ToSet(r.value.tasks)
      PROVE  Listing(t, r.id)
  <2>1. r.id \in Ids /\ r.value = mem'.swarms[r.id]
    <3>1. r.id \in ss /\ r.value = mem'.swarms[r.id]
      BY <1>0, <1>6
    <3>2. MaxId \in Nat /\ counter' \in Nat /\ counter' <= MaxId /\ r.id \in 1..counter'
      BY <1>3, SwarmAssumption
    <3> QED BY <3>1, <3>2 DEF Ids
  <2> QED BY <1>5, <1>6, <2>1
<1>7. \A r \in ToSet(pending') : r.id <= counter'
  BY <1>3
<1>8. ASSUME NEW r \in ToSet(pending'), r.table = "tasks"
      PROVE  mem'.tasks[r.id].status # "absent"
  <2>1. r \in Statements
    BY <1>1, InList
  <2>2. r.value = mem'.tasks[r.id]
    BY <1>0, <1>8
  <2>3. r.value.status # "absent"
    BY <1>8, <2>1 DEF Statements
  <2> QED BY <2>2, <2>3
<1> QED BY <1>1, <1>0, <1>4, <1>5, <1>6, <1>7, <1>8 DEF Section

LEMMA SavingSection ==
  ASSUME SwarmInv, MutexFree, NEW ag, NEW ss, NEW ts, ag \subseteq 1..counter', ss \subseteq 1..counter', ts \subseteq 1..counter',
         Saves(mem', pending', ag, ss, ts), mem' \in Maps,
         \A i \in Ids :
            /\ mem'.agents[i] = mem.agents[i] \/ i \in ag
            /\ mem'.swarms[i] = mem.swarms[i] \/ i \in ss
            /\ mem'.tasks[i] = mem.tasks[i] \/ i \in ts
            /\ mem.tasks[i].status # "absent" => mem'.tasks[i].status # "absent"
            /\ mem.swarms[i].status # "absent" => mem'.swarms[i].status # "absent"
            /\ mem'.swarms[i].tasks = mem.swarms[i].tasks \/ mem'.swarms[i].tasks = <<>>,
         counter' \in 0..MaxId, counter <= counter', db' = db, copied' = copied
  PROVE  Section
<1>1. Saving(ag, ss, ts)
  BY DEF Saving
<1> QED BY <1>1, SavingIsSection

(* ------------------------ what the handlers change --------------------- *)

TaskStates == {"queued", "assigned", "running", "paused", "completed", "failed", "cancelled"}

LEMMA InUse ==
  ASSUME SwarmInv, NEW i \in Ids,
         \/ mem.agents[i].status # "absent" \/ mem.swarms[i].status # "absent" \/ mem.tasks[i].status # "absent"
  PROVE  i \in 1..counter
BY DEF SwarmInv, Numbered, Ids

LEMMA TaskChanged ==
  ASSUME NEW m \in Maps, NEW t \in Ids, NEW task \in TaskRecs
  PROVE  /\ [m EXCEPT !.tasks[t] = task] \in Maps
         /\ [m EXCEPT !.tasks[t] = task].agents = m.agents
         /\ [m EXCEPT !.tasks[t] = task].swarms = m.swarms
         /\ [m EXCEPT !.tasks[t] = task].tasks = [m.tasks EXCEPT ![t] = task]
BY DEF Maps

LEMMA TaskBecomesSection ==
  ASSUME SwarmInv, MutexFree, NEW t \in Ids, mem.tasks[t].status # "absent",
         NEW task \in TaskRecs, task.status # "absent", TaskBecomes(t, task),
         counter' = counter, db' = db, copied' = copied
  PROVE  Section
<1>1. mem \in Maps /\ counter \in 0..MaxId
  BY DEF SwarmInv, SwarmTypes
<1> DEFINE m == [mem EXCEPT !.tasks[t] = task]
<1>2. mem' = m /\ pending' = TaskRow(m, t)
  BY DEF TaskBecomes, Update
<1>3. m \in Maps /\ m.agents = mem.agents /\ m.swarms = mem.swarms /\ m.tasks = [mem.tasks EXCEPT ![t] = task]
  BY <1>1, TaskChanged
<1> HIDE DEF m
<1>4. \A i \in Ids : m.tasks[i] = IF i = t THEN task ELSE mem.tasks[i]
  BY <1>1, <1>3 DEF Maps
<1>5. Saves(m, TaskRow(m, t), {}, {}, {t})
  BY <1>3, <1>4, SavesOne
<1>6. t \in 1..counter
  BY InUse
<1>7. counter <= counter
  BY <1>1
<1> QED BY <1>1, <1>2, <1>3, <1>4, <1>5, <1>6, <1>7, SavingSection

\* A task ends: the agents of the swarm that lists it turn idle.
LEMMA EndTaskSection ==
  ASSUME SwarmInv, MutexFree, NEW t \in Ids, mem.tasks[t].status # "absent",
         NEW status \in TaskStates, EndTask(t, status), counter' = counter, db' = db, copied' = copied
  PROVE  Section
<1>1. mem \in Maps /\ counter \in 0..MaxId /\ counter <= counter
  BY DEF SwarmInv, SwarmTypes
<1> DEFINE task == [mem.tasks[t] EXCEPT !.status = status]
           m == [mem EXCEPT !.tasks[t] = task]
           swarms == {s \in Ids : Lists(m.swarms[s], t)}
           Freed(s) == {a \in Members(m, m.swarms[s]) : m.tasks[t].assigned \in {0, a}}
           freed == SetAgents(m, UNION {Freed(s) : s \in swarms}, "idle")
           table == [s \in Ids |-> IF s \in swarms THEN [freed.swarms[s] EXCEPT !.status = "ready"] ELSE freed.swarms[s]]
           after == [freed EXCEPT !.swarms = table]
           Rows(s) == Those(AgentRows(after, after.swarms[s]), LAMBDA r : r.id \in Freed(s)) \o SwarmRow(after, s)
<1>2. task \in TaskRecs /\ task.status = status /\ status # "absent"
  BY <1>1 DEF Maps, TaskRecs, TaskStates
<1> HIDE DEF task
<1>3. m \in Maps /\ m.agents = mem.agents /\ m.swarms = mem.swarms /\ m.tasks = [mem.tasks EXCEPT ![t] = task]
  BY <1>1, <1>2, TaskChanged
<1>4. \A i \in Ids : m.tasks[i] = IF i = t THEN task ELSE mem.tasks[i]
  BY <1>1, <1>3 DEF Maps
<1>5. t \in 1..counter
  BY InUse
<1>6. \/ Update(m, TaskRow(m, t))
      \/ \E s \in swarms : Update(after, TaskRow(m, t) \o Rows(s))
  BY Zenon DEF EndTask, task
<1> HIDE DEF swarms, Freed, freed, table, after, Rows
<1>7. CASE Update(m, TaskRow(m, t))
  <2>1. Saves(m, TaskRow(m, t), {}, {}, {t})
    BY <1>2, <1>3, <1>4, SavesOne
  <2>2. mem' = m /\ pending' = TaskRow(m, t)
    BY <1>7 DEF Update
  <2> HIDE DEF m
  <2>3. \A i \in Ids :
            /\ mem'.agents[i] = mem.agents[i] /\ mem'.swarms[i] = mem.swarms[i]
            /\ mem'.tasks[i] = mem.tasks[i] \/ i \in {t}
            /\ mem.tasks[i].status # "absent" => mem'.tasks[i].status # "absent"
    BY <1>2, <1>3, <1>4, <2>2
  <2> QED BY <1>1, <1>3, <1>5, <2>1, <2>2, <2>3, SavingSection
<1>8. ASSUME NEW s \in swarms, Update(after, TaskRow(m, t) \o Rows(s))
      PROVE  Section
  <2>1. swarms = {s}
    <3>1. \A u \in swarms : ListedBy(t, u)
      <4> SUFFICES ASSUME NEW u \in swarms
                   PROVE  t \in ToSet(mem.swarms[u].tasks)
        BY DEF ListedBy
      <4>1. mem.swarms[u].tasks \in Seq(Ids)
        BY <1>1 DEF Maps, SwarmRecs, swarms
      <4>2. Lists(mem.swarms[u], t)
        BY <1>3 DEF swarms
      <4> QED BY <4>1, <4>2 DEF Lists, ToSet
    <3>2. swarms \subseteq Ids
      BY DEF swarms
    <3> QED BY <1>8, <3>1, <3>2 DEF SwarmInv, OneList, Listing
  <2>2. s \in Ids /\ mem.swarms[s].status # "absent" /\ s \in 1..counter
    <3>1. s \in Ids /\ mem.swarms[s] \in SwarmRecs /\ Lists(mem.swarms[s], t)
      BY <1>1, <1>3 DEF Maps, swarms
    <3>2. mem.swarms[s].status # "absent"
      BY <3>1 DEF SwarmRecs, Lists
    <3> QED BY <3>1, <3>2, InUse
  <2> DEFINE free == Freed(s)
  <2>3. freed = SetAgents(m, free, "idle")
    <3>1. UNION {Freed(u) : u \in swarms} = free
      BY <2>1
    <3> QED BY <3>1 DEF freed
  <2>4. free \subseteq Ids /\ \A a \in free : m.agents[a].status # "absent"
    BY DEF Members, Freed
  <2> HIDE DEF free
  <2>5. /\ freed \in Maps /\ freed.swarms = m.swarms /\ freed.tasks = m.tasks
        /\ \A a \in Ids : freed.agents[a] = IF a \in free THEN [m.agents[a] EXCEPT !.status = "idle"] ELSE m.agents[a]
    <3> HIDE DEF m
    <3> QED BY <1>3, <2>3, AgentsSet
  <2> HIDE DEF m
  <2>6. table \in [Ids -> SwarmRecs] /\ \A u \in Ids : table[u] =
            IF u = s THEN [mem.swarms[u] EXCEPT !.status = "ready"] ELSE mem.swarms[u]
    <3>1. freed.swarms = mem.swarms /\ mem.swarms \in [Ids -> SwarmRecs]
      BY <1>1, <1>3, <2>5 DEF Maps
    <3>2. \A u \in Ids : u \in swarms <=> u = s
      BY <2>1
    <3>3. \A u \in Ids : table[u] = IF u = s THEN [mem.swarms[u] EXCEPT !.status = "ready"] ELSE mem.swarms[u]
      BY <3>1, <3>2 DEF table
    <3>4. \A u \in Ids : [mem.swarms[u] EXCEPT !.status = "ready"] \in SwarmRecs
      BY <3>1 DEF SwarmRecs
    <3>5. table = [u \in Ids |-> table[u]]
      BY DEF table
    <3> QED BY <3>1, <3>3, <3>4, <3>5
  <2>7. after \in Maps /\ after.swarms = table /\ after.agents = freed.agents /\ after.tasks = m.tasks
    BY <1>3, <2>5, <2>6 DEF Maps, after
  <2>8. \A u \in Ids : /\ after.swarms[u].tasks = mem.swarms[u].tasks /\ after.swarms[u].agents = mem.swarms[u].agents
                       /\ mem.swarms[u].status # "absent" => after.swarms[u].status # "absent"
    <3>1. \A u \in Ids : mem.swarms[u] \in [status : {"absent", "ready", "running", "stopped"}, agents : Seq(Ids), tasks : Seq(Ids)]
      BY <1>1 DEF Maps, SwarmRecs
    <3> QED BY <2>6, <2>7, <3>1
  <2>16. \A a \in Ids : m.agents[a].status = "absent" <=> after.agents[a].status = "absent"
    <3>1. \A a \in Ids : m.agents[a] \in AgentRecs
      BY <1>3 DEF Maps
    <3> QED BY <2>4, <2>5, <2>7, <3>1 DEF AgentRecs
  <2>9. Saves(after, TaskRow(m, t), {}, {}, {t})
    <3>1. TaskRow(m, t) = TaskRow(after, t)
      BY <2>7 DEF TaskRow
    <3>2. after.tasks[t].status # "absent"
      BY <1>2, <1>4, <2>7
    <3> QED BY <2>7, <3>1, <3>2, SavesOne
  <2>10. Saves(after, Rows(s), free, {s}, {})
    <3> DEFINE rows == AgentRows(after, after.swarms[s])
               kept == ElementsAt(rows, {i \in DOMAIN rows : rows[i].id \in free})
    <3>1. Rows(s) = kept \o SwarmRow(after, s)
      BY DEF Those, free, Rows
    <3>2. Saves(after, rows, Members(after, after.swarms[s]), {}, {})
      BY <2>2, <2>7, SavesMembers DEF Maps
    <3>3. Members(after, after.swarms[s]) = Members(m, m.swarms[s])
      <4>1. after.swarms[s].agents = m.swarms[s].agents
        BY <1>3, <2>2, <2>8
      <4> QED BY <1>3, <2>7, <2>16, <4>1, MembersStay
    <3>4. free \subseteq Members(m, m.swarms[s])
      BY DEF free, Freed
    <3>5. /\ rows \in Seq(Statements)
          /\ ToSet(rows) = {Row("agents", a, after.agents[a]) : a \in Members(m, m.swarms[s])}
      BY <3>2, <3>3 DEF Saves
    <3> HIDE DEF rows
    <3>6. kept \in Seq(Statements) /\ ToSet(kept) = {rows[i] : i \in {j \in DOMAIN rows : rows[j].id \in free}}
      BY <3>5, ElementsAtPlaces
    <3>7. ToSet(kept) = {r \in ToSet(rows) : r.id \in free}
      BY <3>6 DEF ToSet
    <3> HIDE DEF kept
    <3>8. ToSet(kept) = {Row("agents", a, after.agents[a]) : a \in free}
      <4>1. \A a : Row("agents", a, after.agents[a]).id = a
        BY RowParts
      <4> QED BY <3>4, <3>5, <3>7, <4>1
    <3>9. Saves(after, kept, free, {}, {})
      BY <3>6, <3>8 DEF Saves, kept
    <3>10. Saves(after, SwarmRow(after, s), {}, {s}, {})
      BY <2>2, <2>7, SavesOne
    <3>11. Saves(after, kept \o SwarmRow(after, s), free \cup {}, {} \cup {s}, {} \cup {})
      BY <3>9, <3>10, SavesBoth
    <3> QED BY <3>1, <3>11
  <2>11. Saves(after, TaskRow(m, t) \o Rows(s), {} \cup free, {} \cup {s}, {t} \cup {})
    BY <2>9, <2>10, SavesBoth
  <2>12. mem' = after /\ pending' = TaskRow(m, t) \o Rows(s)
    BY <1>8 DEF Update
  <2>13. free \subseteq 1..counter
    <3>1. \A a \in free : a \in Ids /\ mem.agents[a].status # "absent"
      BY <1>3, <2>4
    <3> QED BY <3>1, InUse
  <2>14. \A i \in Ids :
            /\ mem'.agents[i] = mem.agents[i] \/ i \in free
            /\ mem'.swarms[i] = mem.swarms[i] \/ i \in {s}
            /\ mem'.tasks[i] = mem.tasks[i] \/ i \in {t}
            /\ mem.tasks[i].status # "absent" => mem'.tasks[i].status # "absent"
            /\ mem.swarms[i].status # "absent" => mem'.swarms[i].status # "absent"
            /\ mem'.swarms[i].tasks = mem.swarms[i].tasks \/ mem'.swarms[i].tasks = <<>>
    <3> TAKE i \in Ids
    <3>1. mem'.agents[i] = mem.agents[i] \/ i \in free
      BY <1>3, <2>5, <2>7, <2>12
    <3>2. mem'.swarms[i] = mem.swarms[i] \/ i \in {s}
      BY <2>6, <2>7, <2>12
    <3>3. /\ mem'.tasks[i] = mem.tasks[i] \/ i \in {t}
          /\ mem.tasks[i].status # "absent" => mem'.tasks[i].status # "absent"
      BY <1>2, <1>4, <2>7, <2>12
    <3>4. /\ mem.swarms[i].status # "absent" => mem'.swarms[i].status # "absent"
          /\ mem'.swarms[i].tasks = mem.swarms[i].tasks
      BY <2>8, <2>12
    <3> QED BY <3>1, <3>2, <3>3, <3>4
  <2> DEFINE ag == {} \cup free
             ss == {} \cup {s}
             ts == {t} \cup {}
  <2>15. /\ Saves(mem', pending', ag, ss, ts) /\ ag \subseteq 1..counter' /\ ss \subseteq 1..counter'
         /\ ts \subseteq 1..counter' /\ mem' \in Maps
    BY <1>5, <2>2, <2>7, <2>11, <2>12, <2>13
  <2>17. ag = free /\ ss = {s} /\ ts = {t}
    OBVIOUS
  <2> HIDE DEF ag, ss, ts
  <2>18. counter' \in 0..MaxId /\ counter <= counter' /\ db' = db /\ copied' = copied
    BY <1>1
  <2>19. Section
    BY <2>14, <2>15, <2>17, <2>18, SavingSection
  <2> QED BY <2>19
<1> QED BY <1>6, <1>7, <1>8

\* Nothing changes.
LEMMA NoSection ==
  ASSUME SwarmInv, MutexFree, mem' = mem, pending' = pending, counter' = counter, db' = db, copied' = copied
  PROVE  Section
<1>1. mem \in Maps /\ counter \in 0..MaxId /\ counter <= counter /\ pending \in Seq(Statements)
  BY DEF SwarmInv, SwarmTypes
<1>2. pending' = <<>> /\ ToSet(pending') = {}
  BY DEF MutexFree, ToSet
<1> QED BY <1>1, <1>2 DEF Section, Listing, ListedBy

LEMMA RunnersStay ==
  ASSUME SwarmInv, runner' = runner
  PROVE  RunnersGoOn
BY DEF SwarmInv, SwarmTypes, RunnersGoOn

\* A handler changes what it holds between two sections, the others do not.
LEMMA CallChanges ==
  ASSUME SwarmInv, Section, NEW c \in Callers, NEW to \in CallRecs, call' = [call EXCEPT ![c] = to],
         to.op # "none" => to.swarm \in Ids /\ mem'.swarms[to.swarm].status # "absent",
         to.op \in {"template", "running"} => \A t \in Ids : t \in ToSet(to.copy.tasks) => Listing(t, to.swarm),
         NEW fresh \in 0..MaxId, NEW at,
         to.op \in {"listing", "running"} =>
            ToBeListed(to.task, to.swarm) \/ (fresh # 0 /\ to.task = fresh /\ to.swarm = at),
         fresh # 0 => fresh \in (counter + 1)..counter' /\ Keyed(pending', "tasks", fresh)
  PROVE  CallsGoOn(fresh, at)
<1>1. call \in [Callers -> CallRecs]
  BY DEF SwarmInv, SwarmTypes
<1>2. \A d \in Callers : call'[d] = IF d = c THEN to ELSE call[d]
  BY <1>1
<1>3. call' \in [Callers -> CallRecs]
  BY <1>1
<1>4. ASSUME NEW d \in Callers, d # c
      PROVE  /\ call'[d].op # "none" => call'[d].swarm \in Ids /\ mem'.swarms[call'[d].swarm].status # "absent"
             /\ call'[d].op \in {"template", "running"} =>
                   \A t \in Ids : t \in ToSet(call'[d].copy.tasks) => Listing(t, call'[d].swarm)
             /\ call'[d].op \in {"listing", "running"} => ToBeListed(call'[d].task, call'[d].swarm)
  <2>1. call'[d] = call[d]
    BY <1>2, <1>4
  <2>2. call[d].op # "none" => call[d].swarm \in Ids /\ mem'.swarms[call[d].swarm].status # "absent"
    BY DEF SwarmInv, Numbered, Section
  <2>3. call[d].op \in {"template", "running"} =>
           \A t \in Ids : t \in ToSet(call[d].copy.tasks) => Listing(t, call[d].swarm)
    BY DEF Listing, ListedBy
  <2>4. call[d].op \in {"listing", "running"} => ToBeListed(call[d].task, call[d].swarm)
    BY DEF ToBeListed
  <2> QED BY <2>1, <2>2, <2>3, <2>4
<1> QED BY <1>2, <1>3, <1>4 DEF CallsGoOn

LEMMA CallsStay ==
  ASSUME SwarmInv, Section, call' = call
  PROVE  CallsGoOn(0, 0)
<1>1. call \in [Callers -> CallRecs]
  BY DEF SwarmInv, SwarmTypes
<1>2. \A d \in Callers : call[d].op # "none" => call[d].swarm \in Ids /\ mem'.swarms[call[d].swarm].status # "absent"
  BY DEF SwarmInv, Numbered, Section
<1>3. \A d \in Callers : call[d].op \in {"template", "running"} =>
         \A t \in Ids : t \in ToSet(call[d].copy.tasks) => Listing(t, call[d].swarm)
  BY DEF Listing, ListedBy
<1>4. \A d \in Callers : call[d].op \in {"listing", "running"} => ToBeListed(call[d].task, call[d].swarm)
  BY DEF ToBeListed
<1> QED BY <1>1, <1>2, <1>3, <1>4 DEF CallsGoOn

LEMMA NoneAre ==
  /\ NoAgent \in AgentRecs /\ NoSwarm \in SwarmRecs /\ NoTask \in TaskRecs
  /\ Idle \in CallRecs /\ Idle.op = "none" /\ Idle.todo = <<>> /\ 0 \in 0..MaxId
<1>1. 0 \in 0..MaxId /\ <<>> \in Seq(Ids)
  BY SwarmAssumption
<1>2. NoSwarm \in SwarmRecs
  BY <1>1 DEF NoSwarm, SwarmRecs
<1> HIDE DEF NoSwarm
<1>3. Idle \in CallRecs /\ Idle.op = "none" /\ Idle.todo = <<>>
  BY <1>1, <1>2 DEF Idle, CallRecs
<1> QED BY <1>1, <1>2, <1>3 DEF NoAgent, NoTask, AgentRecs, TaskRecs

LEMMA CallReturns ==
  ASSUME SwarmInv, Section, NEW c \in Callers, Return(c)
  PROVE  CallsGoOn(0, 0)
<1>1. Idle \in CallRecs /\ Idle.op = "none"
  BY NoneAre
<1>2. 0 \in 0..MaxId
  BY SwarmAssumption
<1> QED BY <1>1, <1>2, CallChanges DEF Return

LEMMA SectionAlone ==
  ASSUME SwarmInv, MutexFree, Section, call' = call, runner' = runner
  PROVE  SwarmInv'
<1>1. 0 \in 0..MaxId
  BY SwarmAssumption
<1> QED BY <1>1, CallsStay, RunnersStay, SectionKeeps

(* ------------------------- tasks and their runners --------------------- *)

\* The new task of CreateTask.
LEMMA NewTaskSection ==
  ASSUME SwarmInv, MutexFree, NEW execute \in BOOLEAN, NewTask(execute)
  PROVE  /\ Section /\ RunnersGoOn /\ Next1 \in 1..MaxId
         /\ Next1 \in (counter + 1)..counter' /\ Keyed(pending', "tasks", Next1)
<1> DEFINE m == [mem EXCEPT !.tasks[Next1] = Queued]
<1>1. /\ mem \in Maps /\ counter \in 0..MaxId /\ MaxId \in Nat
      /\ runner \in [Ids -> {"none", "start", "work"}]
  BY SwarmAssumption DEF SwarmInv, SwarmTypes
<1>2. counter' = counter + 1 /\ counter + 1 <= MaxId /\ Next1 = counter + 1
  BY DEF NewTask, TakeIds, Next1
<1>3. Next1 \in Ids /\ Next1 \in 1..MaxId /\ counter' \in 0..MaxId /\ counter <= counter'
      /\ Next1 \in (counter + 1)..counter' /\ Next1 \in 1..counter'
  BY <1>1, <1>2 DEF Ids
<1>4. Queued \in TaskRecs /\ Queued.status # "absent"
  BY <1>1 DEF Queued, TaskRecs
<1>5. m \in Maps /\ m.agents = mem.agents /\ m.swarms = mem.swarms /\ m.tasks = [mem.tasks EXCEPT ![Next1] = Queued]
  BY <1>1, <1>3, <1>4, TaskChanged
<1>6. mem' = m /\ pending' = TaskRow(m, Next1)
  BY DEF NewTask, Update
<1> HIDE DEF m
<1>7. \A i \in Ids : m.tasks[i] = IF i = Next1 THEN Queued ELSE mem.tasks[i]
  BY <1>1, <1>3, <1>5 DEF Maps
<1>8. Saves(m, TaskRow(m, Next1), {}, {}, {Next1})
  BY <1>3, <1>4, <1>5, <1>7, SavesOne
<1>9. \A i \in Ids :
            /\ mem'.agents[i] = mem.agents[i] /\ mem'.swarms[i] = mem.swarms[i]
            /\ mem'.tasks[i] = mem.tasks[i] \/ i \in {Next1}
            /\ mem.tasks[i].status # "absent" => mem'.tasks[i].status # "absent"
  BY <1>4, <1>5, <1>6, <1>7
<1>10. db' = db /\ copied' = copied
  BY DEF NewTask
<1>11. Section
  BY <1>3, <1>5, <1>6, <1>8, <1>9, <1>10, SavingSection
<1>12. Keyed(pending', "tasks", Next1)
  BY <1>6, <1>8, SavedRows
<1>13. RunnersGoOn
  <2>1. runner' = [runner EXCEPT ![Next1] = IF execute THEN "start" ELSE "none"]
    BY DEF NewTask
  <2>2. mem'.tasks[Next1].status # "absent"
    BY <1>3, <1>4, <1>6, <1>7
  <2> QED BY <1>1, <1>3, <2>1, <2>2 DEF RunnersGoOn
<1> QED BY <1>3, <1>11, <1>12, <1>13

LEMMA CreateTaskKeeps ==
  ASSUME SwarmInv, CreateTask
  PROVE  SwarmInv'
<1>1. MutexFree /\ NewTask(FALSE) /\ call' = call
  BY DEF CreateTask
<1>2. Section /\ RunnersGoOn
  BY <1>1, NewTaskSection
<1>3. 0 \in 0..MaxId
  BY SwarmAssumption
<1> QED BY <1>1, <1>2, <1>3, CallsStay, SectionKeeps

LEMMA StartTaskKeeps ==
  ASSUME SwarmInv, NEW t \in Ids, StartTask(t)
  PROVE  SwarmInv'
<1>1. /\ MutexFree /\ mem.tasks[t].status # "absent" /\ runner' = [runner EXCEPT ![t] = "start"] /\ call' = call
      /\ mem' = mem /\ pending' = pending /\ counter' = counter /\ db' = db /\ copied' = copied
  BY DEF StartTask, Exists
<1>2. Section
  BY <1>1, NoSection
<1>3. RunnersGoOn
  BY <1>1 DEF RunnersGoOn, SwarmInv, SwarmTypes
<1>4. 0 \in 0..MaxId
  BY SwarmAssumption
<1> QED BY <1>1, <1>2, <1>3, <1>4, CallsStay, SectionKeeps

LEMMA TaskMay ==
  ASSUME SwarmInv, NEW t \in Ids
  PROVE  /\ mem.tasks[t] \in TaskRecs
         /\ \A status \in TaskStates : [mem.tasks[t] EXCEPT !.status = status] \in TaskRecs
                                       /\ [mem.tasks[t] EXCEPT !.status = status].status # "absent"
         /\ \A early \in BOOLEAN : [mem.tasks[t] EXCEPT !.early = early] \in TaskRecs
                                   /\ [mem.tasks[t] EXCEPT !.early = early].status = mem.tasks[t].status
         /\ \A a \in Ids : GiveTo(mem.tasks[t], a) \in TaskRecs
                           /\ (mem.tasks[t].status # "absent" => GiveTo(mem.tasks[t], a).status # "absent")
<1>1. mem.tasks[t] \in TaskRecs
  BY DEF SwarmInv, SwarmTypes, Maps
<1>2. Ids \subseteq 0..MaxId
  BY DEF Ids
<1> DEFINE task == mem.tasks[t]
<1> HIDE DEF task
<1>3. task \in TaskRecs
  BY <1>1 DEF task
<1>4. \A a \in Ids : GiveTo(task, a) \in TaskRecs /\ (task.status # "absent" => GiveTo(task, a).status # "absent")
  BY <1>2, <1>3 DEF TaskRecs, GiveTo
<1>5. \A status \in TaskStates : [task EXCEPT !.status = status] \in TaskRecs
                                 /\ [task EXCEPT !.status = status].status # "absent"
  BY <1>3 DEF TaskRecs, TaskStates
<1>6. \A early \in BOOLEAN : [task EXCEPT !.early = early] \in TaskRecs
                             /\ [task EXCEPT !.early = early].status = task.status
  BY <1>3 DEF TaskRecs
<1> QED BY <1>3, <1>4, <1>5, <1>6 DEF task

LEMMA CancelTaskKeeps ==
  ASSUME SwarmInv, NEW t \in Ids, CancelTask(t)
  PROVE  SwarmInv'
<1>1. /\ MutexFree /\ mem.tasks[t].status # "absent" /\ EndTask(t, "cancelled") /\ counter' = counter
      /\ db' = db /\ copied' = copied /\ call' = call /\ runner' = runner
  BY DEF CancelTask, Exists, Rest
<1>2. Section
  BY <1>1, EndTaskSection DEF TaskStates
<1> QED BY <1>1, <1>2, SectionAlone

LEMMA PauseSection ==
  ASSUME SwarmInv, MutexFree, NEW t \in Ids, Pause(t) \/ Resume(t), counter' = counter, db' = db, copied' = copied
  PROVE  Section
<1>1. mem.tasks[t].status # "absent"
  BY DEF Pause, Pausable, Exists, Resume
<1>2. \E status \in {"paused", "running"} : TaskBecomes(t, [mem.tasks[t] EXCEPT !.status = status])
  BY DEF Pause, Resume
<1>3. PICK status \in TaskStates : TaskBecomes(t, [mem.tasks[t] EXCEPT !.status = status])
  BY <1>2 DEF TaskStates
<1> DEFINE task == [mem.tasks[t] EXCEPT !.status = status]
<1>4. task \in TaskRecs /\ task.status # "absent" /\ TaskBecomes(t, task)
  BY <1>3, TaskMay
<1> HIDE DEF task
<1> QED BY <1>1, <1>4, TaskBecomesSection

LEMMA PauseTaskKeeps ==
  ASSUME SwarmInv, NEW t \in Ids, PauseTask(t) \/ ResumeTask(t)
  PROVE  SwarmInv'
<1>1. /\ MutexFree /\ (Pause(t) \/ Resume(t)) /\ counter' = counter
      /\ db' = db /\ copied' = copied /\ call' = call /\ runner' = runner
  BY DEF PauseTask, ResumeTask, Rest
<1>2. Section
  BY <1>1, PauseSection
<1> QED BY <1>1, <1>2, SectionAlone

LEMMA ResolveKeeps ==
  ASSUME SwarmInv, NEW t \in Ids, NEW a \in Ids, ResolveTaskStealContest(t, a)
  PROVE  SwarmInv'
<1>1. /\ MutexFree /\ mem.tasks[t].status # "absent" /\ TaskBecomes(t, GiveTo(mem.tasks[t], a)) /\ counter' = counter
      /\ db' = db /\ copied' = copied /\ call' = call /\ runner' = runner
  BY DEF ResolveTaskStealContest, Exists, Rest
<1> DEFINE task == GiveTo(mem.tasks[t], a)
<1>2. task \in TaskRecs /\ task.status # "absent" /\ TaskBecomes(t, task)
  BY <1>1, TaskMay
<1> HIDE DEF task
<1>3. Section
  BY <1>1, <1>2, TaskBecomesSection
<1> QED BY <1>1, <1>3, SectionAlone

LEMMA ContestKeeps ==
  ASSUME SwarmInv, NEW t \in Ids, ContestTaskSteal(t)
  PROVE  SwarmInv'
<1>1. /\ MutexFree /\ mem' = mem /\ pending' = pending /\ counter' = counter /\ db' = db /\ copied' = copied
      /\ call' = call /\ runner' = runner
  BY DEF ContestTaskSteal
<1>2. Section
  BY <1>1, NoSection
<1> QED BY <1>1, <1>2, SectionAlone

LEMMA StepTaskKeeps ==
  ASSUME SwarmInv, NEW t \in Ids, StepTask(t)
  PROVE  SwarmInv'
<1>1. /\ MutexFree /\ runner[t] = "work" /\ counter' = counter
      /\ db' = db /\ copied' = copied /\ call' = call /\ runner' = runner
  BY DEF StepTask, Rest
<1>2. PICK early \in BOOLEAN : TaskBecomes(t, [mem.tasks[t] EXCEPT !.early = early])
  BY DEF StepTask
<1>3. mem.tasks[t].status # "absent"
  BY <1>1 DEF SwarmInv, RunnersHaveTasks
<1> DEFINE task == [mem.tasks[t] EXCEPT !.early = early]
<1>4. task \in TaskRecs /\ task.status # "absent" /\ TaskBecomes(t, task)
  BY <1>2, <1>3, TaskMay
<1> HIDE DEF task
<1>5. Section
  BY <1>1, <1>3, <1>4, TaskBecomesSection
<1> QED BY <1>1, <1>5, SectionAlone

LEMMA RunnerMoves ==
  ASSUME SwarmInv, NEW t \in Ids, NEW to \in {"none", "work"}, runner[t] # "none", runner' = [runner EXCEPT ![t] = to]
  PROVE  RunnersGoOn
BY DEF SwarmInv, SwarmTypes, RunnersGoOn

LEMMA MarkTaskRunningKeeps ==
  ASSUME SwarmInv, NEW t \in Ids, MarkTaskRunning(t)
  PROVE  SwarmInv'
<1>1. /\ MutexFree /\ runner[t] = "start" /\ runner' = [runner EXCEPT ![t] = "work"]
      /\ counter' = counter /\ db' = db /\ copied' = copied /\ call' = call
  BY DEF MarkTaskRunning
<1>2. mem.tasks[t].status # "absent"
  BY <1>1 DEF SwarmInv, RunnersHaveTasks
<1>3. CASE mem' = mem /\ pending' = pending
  <2>1. Section
    BY <1>1, <1>3, NoSection
  <2> QED BY <1>1, <2>1, RunnerMoves, CallsStay, SectionKeeps, NoneAre
<1>4. CASE TaskBecomes(t, [mem.tasks[t] EXCEPT !.status = "running"])
  <2> DEFINE task == [mem.tasks[t] EXCEPT !.status = "running"]
  <2>1. task \in TaskRecs /\ task.status # "absent" /\ TaskBecomes(t, task)
    BY <1>4, TaskMay DEF TaskStates
  <2> HIDE DEF task
  <2>2. Section
    BY <1>1, <1>2, <2>1, TaskBecomesSection
  <2> QED BY <1>1, <2>2, RunnerMoves, CallsStay, SectionKeeps, NoneAre
<1> QED BY <1>3, <1>4 DEF MarkTaskRunning

LEMMA FinishTaskKeeps ==
  ASSUME SwarmInv, NEW t \in Ids, FinishTask(t)
  PROVE  SwarmInv'
<1>1. /\ MutexFree /\ runner[t] = "work" /\ runner' = [runner EXCEPT ![t] = "none"]
      /\ counter' = counter /\ db' = db /\ copied' = copied /\ call' = call
  BY DEF FinishTask
<1>2. mem.tasks[t].status # "absent"
  BY <1>1 DEF SwarmInv, RunnersHaveTasks
<1>3. PICK status \in TaskStates : EndTask(t, status)
  BY Zenon DEF FinishTask, TaskStates
<1>4. Section
  BY <1>1, <1>2, <1>3, EndTaskSection
<1> QED BY <1>1, <1>4, RunnerMoves, CallsStay, SectionKeeps, NoneAre

(* -------------------------------- agents ------------------------------- *)

\* Agents set to another status are there as before.
LEMMA AgentsStay ==
  ASSUME NEW m \in Maps, NEW set, NEW status \in {"idle", "busy", "stopped"}
  PROVE  \A a \in Ids : SetAgents(m, set, status).agents[a].status = "absent"
                        => a \notin set /\ m.agents[a].status = "absent"
<1>1. \A a \in Ids : m.agents[a] \in AgentRecs
  BY DEF Maps
<1>2. status # "absent" /\ \A a \in Ids : [m.agents[a] EXCEPT !.status = status].status = status
  BY <1>1 DEF AgentRecs
<1> DEFINE n == SetAgents(m, set, status)
<1>3. \A a \in Ids : n.agents[a] = IF a \in set THEN [m.agents[a] EXCEPT !.status = status] ELSE m.agents[a]
  BY AgentsSet
<1> HIDE DEF n
<1>4. ASSUME NEW a \in Ids, n.agents[a].status = "absent"
      PROVE  a \notin set /\ m.agents[a].status = "absent"
  BY <1>2, <1>3, <1>4
<1> QED BY <1>4 DEF n

\* One agent changes its status.
LEMMA AgentSet ==
  ASSUME NEW m \in Maps, NEW a \in Ids, NEW status \in {"idle", "busy", "stopped"}
  PROVE  /\ SetAgents(m, {a}, status) \in Maps
         /\ SetAgents(m, {a}, status).swarms = m.swarms /\ SetAgents(m, {a}, status).tasks = m.tasks
         /\ \A i \in Ids : i # a => SetAgents(m, {a}, status).agents[i] = m.agents[i]
         /\ \A i \in Ids : SetAgents(m, {a}, status).agents[i].status = "absent"
                            => i # a /\ m.agents[i].status = "absent"
<1> DEFINE set == {a}
           n == SetAgents(m, set, status)
<1>0. \A i : i \in set <=> i = a
  OBVIOUS
<1> HIDE DEF set
<1>1. /\ n \in Maps /\ n.swarms = m.swarms /\ n.tasks = m.tasks
      /\ \A i \in Ids : n.agents[i] = IF i \in set THEN [m.agents[i] EXCEPT !.status = status] ELSE m.agents[i]
  BY AgentsSet
<1>2. \A i \in Ids : n.agents[i].status = "absent" => i \notin set /\ m.agents[i].status = "absent"
  BY AgentsStay
<1> HIDE DEF n
<1>3. \A i \in Ids : i # a => n.agents[i] = m.agents[i]
  BY <1>0, <1>1
<1>4. \A i \in Ids : n.agents[i].status = "absent" => i # a /\ m.agents[i].status = "absent"
  BY <1>0, <1>2
<1> QED BY <1>1, <1>3, <1>4 DEF n, set

LEMMA MapsOf ==
  ASSUME SwarmInv
  PROVE  /\ mem \in Maps /\ db \in Maps /\ counter \in 0..MaxId /\ counter <= counter
         /\ \A i \in Ids : mem.agents[i] \in AgentRecs /\ mem.swarms[i] \in SwarmRecs /\ mem.tasks[i] \in TaskRecs
BY DEF SwarmInv, SwarmTypes, Maps

LEMMA StopAgentKeeps ==
  ASSUME SwarmInv, NEW a \in Ids, StopAgent(a)
  PROVE  SwarmInv'
<1> DEFINE m == SetAgents(mem, {a}, "stopped")
<1>1. /\ MutexFree /\ mem.agents[a].status # "absent" /\ mem' = m /\ pending' = AgentRow(m, a)
      /\ counter' = counter /\ db' = db /\ copied' = copied /\ call' = call /\ runner' = runner
  BY DEF StopAgent, Exists, Update, Rest
<1>2. /\ m \in Maps /\ m.swarms = mem.swarms /\ m.tasks = mem.tasks
      /\ \A i \in Ids : i # a => m.agents[i] = mem.agents[i]
      /\ m.agents[a].status # "absent"
  BY MapsOf, AgentSet
<1> HIDE DEF m
<1>3. Saves(m, AgentRow(m, a), {a}, {}, {})
  BY <1>2, SavesOne
<1>4. a \in 1..counter
  BY <1>1, InUse
<1>5. \A i \in Ids :
         /\ mem'.agents[i] = mem.agents[i] \/ i \in {a}
         /\ mem'.swarms[i] = mem.swarms[i] /\ mem'.tasks[i] = mem.tasks[i]
  BY <1>1, <1>2
<1>6. Section
  BY <1>1, <1>2, <1>3, <1>4, <1>5, MapsOf, SavingSection
<1> QED BY <1>1, <1>6, SectionAlone

\* A task is given to an agent, which turns busy.
Given(t, a) == [SetAgents(mem, {a}, "busy") EXCEPT !.tasks[t] = GiveTo(@, a)]

LEMMA TaskGiven ==
  ASSUME SwarmInv, NEW t \in Ids, NEW a \in Ids, mem.tasks[t].status # "absent", mem.agents[a].status # "absent"
  PROVE  /\ Given(t, a) \in Maps /\ Given(t, a).swarms = mem.swarms
         /\ \A i \in Ids : i # t => Given(t, a).tasks[i] = mem.tasks[i]
         /\ Given(t, a).tasks[t].status # "absent"
         /\ \A i \in Ids : i # a => Given(t, a).agents[i] = mem.agents[i]
         /\ \A i \in Ids : Given(t, a).agents[i].status = "absent" => i # a /\ mem.agents[i].status = "absent"
<1> DEFINE m == SetAgents(mem, {a}, "busy")
           task == GiveTo(mem.tasks[t], a)
<1>1. /\ m \in Maps /\ m.swarms = mem.swarms /\ m.tasks = mem.tasks
      /\ \A i \in Ids : i # a => m.agents[i] = mem.agents[i]
      /\ \A i \in Ids : m.agents[i].status = "absent" => i # a /\ mem.agents[i].status = "absent"
  <2>1. mem \in Maps /\ "busy" \in {"idle", "busy", "stopped"}
    BY MapsOf
  <2> QED BY <2>1, AgentSet, Zenon
<1>2. task \in TaskRecs /\ task.status # "absent"
  BY TaskMay
<1>3. Given(t, a) = [m EXCEPT !.tasks[t] = task]
  <2> HIDE DEF m
  <2>1. m.tasks[t] = mem.tasks[t]
    BY <1>1
  <2> QED BY <2>1 DEF Given, m
<1> HIDE DEF m, task
<1>4. /\ Given(t, a) \in Maps /\ Given(t, a).swarms = m.swarms /\ Given(t, a).agents = m.agents
      /\ Given(t, a).tasks = [m.tasks EXCEPT ![t] = task]
  BY <1>1, <1>2, <1>3, TaskChanged
<1>5. \A i \in Ids : Given(t, a).tasks[i] = IF i = t THEN task ELSE m.tasks[i]
  BY <1>1, <1>4 DEF Maps
<1> QED BY <1>1, <1>2, <1>4, <1>5

LEMMA AssignTaskKeeps ==
  ASSUME SwarmInv, NEW t \in Ids, NEW a \in Ids, AssignTask(t, a)
  PROVE  SwarmInv'
<1> DEFINE m == Given(t, a)
<1>1. /\ MutexFree /\ mem.tasks[t].status # "absent" /\ mem.agents[a].status # "absent"
      /\ mem' = m /\ pending' = AgentRow(m, a) \o TaskRow(m, t)
      /\ counter' = counter /\ db' = db /\ copied' = copied /\ call' = call /\ runner' = runner
  BY DEF AssignTask, Exists, Update, Rest, Given
<1>2. /\ m \in Maps /\ m.swarms = mem.swarms
      /\ \A i \in Ids : i # t => m.tasks[i] = mem.tasks[i]
      /\ m.tasks[t].status # "absent"
      /\ \A i \in Ids : i # a => m.agents[i] = mem.agents[i]
      /\ m.agents[a].status # "absent"
  BY <1>1, TaskGiven
<1> HIDE DEF m
<1>3. Saves(m, AgentRow(m, a), {a}, {}, {}) /\ Saves(m, TaskRow(m, t), {}, {}, {t})
  BY <1>2, SavesOne
<1>4. Saves(m, AgentRow(m, a) \o TaskRow(m, t), {a} \cup {}, {} \cup {}, {} \cup {t})
  BY <1>3, SavesBoth
<1>5. a \in 1..counter /\ t \in 1..counter
  BY <1>1, InUse
<1>6. \A i \in Ids :
         /\ mem'.agents[i] = mem.agents[i] \/ i \in {a}
         /\ mem'.swarms[i] = mem.swarms[i]
         /\ mem'.tasks[i] = mem.tasks[i] \/ i \in {t}
         /\ mem.tasks[i].status # "absent" => mem'.tasks[i].status # "absent"
  BY <1>1, <1>2
<1>7. Saves(mem', pending', {a}, {}, {t})
  BY <1>1, <1>4
<1>8. Section
  BY <1>1, <1>2, <1>5, <1>6, <1>7, MapsOf, SavingSection
<1> QED BY <1>1, <1>8, SectionAlone

\* The agent that loses the task turns idle, or not.
LEMMA StealTaskKeeps ==
  ASSUME SwarmInv, NEW t \in Ids, NEW s \in Ids, NEW a \in Ids, StealTask(t, s, a)
  PROVE  SwarmInv'
<1> DEFINE from == mem.tasks[t].assigned
           given == Given(t, a)
           m == IF from # a /\ Exists(mem.agents, from) /\ Cardinality(Active(given, from)) <= 1
                THEN SetAgents(given, {from}, "idle") ELSE given
           rows == IF from = a THEN <<>> ELSE AgentRow(m, from)
<1>1. /\ MutexFree /\ mem.tasks[t].status # "absent" /\ mem.agents[a].status # "absent"
      /\ mem' = m /\ pending' = AgentRow(m, a) \o rows \o TaskRow(m, t)
      /\ counter' = counter /\ db' = db /\ copied' = copied /\ call' = call /\ runner' = runner
  BY Zenon DEF StealTask, Stealable, Exists, Update, Rest, Given
<1>2. /\ given \in Maps /\ given.swarms = mem.swarms
      /\ \A i \in Ids : i # t => given.tasks[i] = mem.tasks[i]
      /\ given.tasks[t].status # "absent"
      /\ \A i \in Ids : i # a => given.agents[i] = mem.agents[i]
      /\ \A i \in Ids : given.agents[i].status = "absent" => i # a /\ mem.agents[i].status = "absent"
  BY <1>1, TaskGiven
<1>3. m = given \/ (Exists(mem.agents, from) /\ from # a /\ m = SetAgents(given, {from}, "idle"))
  BY Zenon
<1> HIDE DEF given, m
<1>4. /\ m \in Maps /\ m.swarms = mem.swarms /\ m.tasks = given.tasks
      /\ \A i \in Ids : i # a /\ i # from => m.agents[i] = mem.agents[i]
      /\ \A i \in Ids : m.agents[i].status = "absent" => i # a /\ mem.agents[i].status = "absent"
      /\ Exists(mem.agents, from) \/ \A i \in Ids : i # a => m.agents[i] = mem.agents[i]
  <2>1. CASE m = given
    BY <1>2, <2>1
  <2>2. CASE Exists(mem.agents, from) /\ from # a /\ m = SetAgents(given, {from}, "idle")
    <3>1. /\ m \in Maps /\ m.swarms = mem.swarms /\ m.tasks = given.tasks
          /\ \A i \in Ids : i # from => m.agents[i] = given.agents[i]
          /\ \A i \in Ids : m.agents[i].status = "absent" => i # from /\ given.agents[i].status = "absent"
      <4>1. from \in Ids
        BY <2>2 DEF Exists
      <4> HIDE DEF from
      <4> DEFINE n == SetAgents(given, {from}, "idle")
      <4>2. /\ n \in Maps /\ n.swarms = given.swarms /\ n.tasks = given.tasks
            /\ \A i \in Ids : i # from => n.agents[i] = given.agents[i]
            /\ \A i \in Ids : n.agents[i].status = "absent" => i # from /\ given.agents[i].status = "absent"
        <5>1. given \in Maps /\ "idle" \in {"idle", "busy", "stopped"}
          BY <1>2
        <5> QED BY <4>1, <5>1, AgentSet, Zenon
      <4> QED BY <1>2, <2>2, <4>2
    <3> QED BY <1>2, <2>2, <3>1
  <2> QED BY <1>3, <2>1, <2>2
<1> DEFINE who == IF from # a /\ Exists(mem.agents, from) THEN {from} ELSE {}
<1>5. who \subseteq Ids /\ \A i \in who : mem.agents[i].status # "absent"
  BY DEF Exists
<1>6. Saves(m, rows, who, {}, {})
  <2>1. CASE from = a
    BY <2>1, SavesNothing
  <2>2. CASE from # a /\ Exists(mem.agents, from)
    BY <1>4, <2>2, SavesOne DEF Exists
  <2>3. CASE from # a /\ ~Exists(mem.agents, from)
    <3>1. ~Exists(m.agents, from)
      BY <1>4, <2>3 DEF Exists
    <3>2. rows = <<>> /\ who = {}
      BY <2>3, <3>1 DEF AgentRow
    <3> QED BY <3>2, SavesNothing
  <2> QED BY <2>1, <2>2, <2>3
<1>7. Saves(m, AgentRow(m, a), {a}, {}, {}) /\ Saves(m, TaskRow(m, t), {}, {}, {t})
  BY <1>2, <1>4, SavesOne
<1>8. \A i \in Ids :
         /\ mem'.agents[i] = mem.agents[i] \/ i \in {a} \cup who
         /\ mem'.swarms[i] = mem.swarms[i]
         /\ mem'.tasks[i] = mem.tasks[i] \/ i \in {t}
         /\ mem.tasks[i].status # "absent" => mem'.tasks[i].status # "absent"
  BY <1>1, <1>2, <1>4
<1> HIDE DEF rows, who
<1>9. Saves(m, AgentRow(m, a) \o rows, {a} \cup who, {} \cup {}, {} \cup {})
  BY <1>6, <1>7, SavesBoth
<1>10. Saves(m, AgentRow(m, a) \o rows \o TaskRow(m, t), ({a} \cup who) \cup {}, ({} \cup {}) \cup {}, ({} \cup {}) \cup {t})
  BY <1>7, <1>9, SavesBoth
<1>11. Saves(mem', pending', {a} \cup who, {}, {t})
  BY <1>1, <1>10
<1>12. {a} \cup who \subseteq 1..counter /\ t \in 1..counter
  BY <1>1, <1>5, InUse
<1>13. Section
  BY <1>1, <1>4, <1>8, <1>11, <1>12, MapsOf, SavingSection
<1> QED BY <1>1, <1>13, SectionAlone

(* -------------------------------- swarms ------------------------------- *)

LEMMA SwarmChanged ==
  ASSUME NEW m \in Maps, NEW s \in Ids, NEW sw \in SwarmRecs
  PROVE  /\ [m EXCEPT !.swarms[s] = sw] \in Maps
         /\ [m EXCEPT !.swarms[s] = sw].agents = m.agents
         /\ [m EXCEPT !.swarms[s] = sw].tasks = m.tasks
         /\ \A u \in Ids : [m EXCEPT !.swarms[s] = sw].swarms[u] = IF u = s THEN sw ELSE m.swarms[u]
BY DEF Maps

\* What a swarm may become.
LEMMA SwarmMay ==
  ASSUME NEW sw \in SwarmRecs
  PROVE  /\ \A status \in {"ready", "running", "stopped"} :
               /\ [sw EXCEPT !.status = status] \in SwarmRecs /\ [sw EXCEPT !.status = status].status # "absent"
               /\ [sw EXCEPT !.status = status].agents = sw.agents /\ [sw EXCEPT !.status = status].tasks = sw.tasks
         /\ \A list \in Seq(Ids) :
               /\ [sw EXCEPT !.agents = list] \in SwarmRecs /\ [sw EXCEPT !.agents = list].status = sw.status
               /\ [sw EXCEPT !.agents = list].agents = list /\ [sw EXCEPT !.agents = list].tasks = sw.tasks
         /\ \A list \in Seq(Ids) : sw.status # "absent" =>
               /\ [sw EXCEPT !.tasks = list] \in SwarmRecs /\ [sw EXCEPT !.tasks = list].status = sw.status
               /\ [sw EXCEPT !.tasks = list].agents = sw.agents /\ [sw EXCEPT !.tasks = list].tasks = list
BY DEF SwarmRecs

\* A section that changes one swarm and some agents that exist, and saves the
\* agents before the swarm or after it.
LEMMA SwarmSection ==
  ASSUME SwarmInv, MutexFree, NEW s \in Ids, s <= counter', NEW ag, ag \subseteq 1..counter',
         mem' \in Maps, Saves(mem', pending', ag, {s}, {}), mem'.tasks = mem.tasks,
         \A i \in Ids : i \notin ag => mem'.agents[i] = mem.agents[i],
         \A i \in Ids : i # s => mem'.swarms[i] = mem.swarms[i],
         mem'.swarms[s].status # "absent", mem'.swarms[s].tasks = mem.swarms[s].tasks,
         counter' \in 0..MaxId, counter <= counter', db' = db, copied' = copied
  PROVE  Section
<1>1. {s} \subseteq 1..counter'
  <2>1. s \in Nat /\ s # 0
    BY DEF Ids
  <2> QED BY <2>1
<1>2. \A i \in Ids :
         /\ mem'.agents[i] = mem.agents[i] \/ i \in ag
         /\ mem'.swarms[i] = mem.swarms[i] \/ i \in {s}
         /\ mem'.tasks[i] = mem.tasks[i] \/ i \in {}
         /\ mem.tasks[i].status # "absent" => mem'.tasks[i].status # "absent"
         /\ mem.swarms[i].status # "absent" => mem'.swarms[i].status # "absent"
         /\ mem'.swarms[i].tasks = mem.swarms[i].tasks \/ mem'.swarms[i].tasks = <<>>
  <2> TAKE i \in Ids
  <2>1. mem'.agents[i] = mem.agents[i] \/ i \in ag
    OBVIOUS
  <2>2. mem'.tasks[i] = mem.tasks[i]
    OBVIOUS
  <2>3. CASE i = s
    BY <2>1, <2>2, <2>3
  <2>4. CASE i # s
    BY <2>1, <2>2, <2>4
  <2> QED BY <2>3, <2>4
<1>3. Saves(mem', pending', ag, {s}, {}) /\ {} \subseteq 1..counter' /\ mem' \in Maps
  OBVIOUS
<1> DEFINE ss == {s}
           none == {}
<1>4. /\ Saves(mem', pending', ag, ss, none) /\ ss \subseteq 1..counter' /\ none \subseteq 1..counter'
      /\ \A i \in Ids :
         /\ mem'.agents[i] = mem.agents[i] \/ i \in ag
         /\ mem'.swarms[i] = mem.swarms[i] \/ i \in ss
         /\ mem'.tasks[i] = mem.tasks[i] \/ i \in none
         /\ mem.tasks[i].status # "absent" => mem'.tasks[i].status # "absent"
         /\ mem.swarms[i].status # "absent" => mem'.swarms[i].status # "absent"
         /\ mem'.swarms[i].tasks = mem.swarms[i].tasks \/ mem'.swarms[i].tasks = <<>>
  BY <1>1, <1>2, <1>3
<1> HIDE DEF ss, none
<1> QED BY <1>3, <1>4, SavingSection

\* Every member of a swarm gets a status, and so does the swarm.
MembersTo(s, one, all) ==
    [SetAgents(mem, Members(mem, mem.swarms[s]), one) EXCEPT !.swarms[s].status = all]

LEMMA AllMembersSection ==
  ASSUME SwarmInv, MutexFree, NEW s \in Ids, mem.swarms[s].status # "absent",
         NEW one \in {"idle", "busy", "stopped"}, NEW all \in {"ready", "running", "stopped"},
         NEW m, m = MembersTo(s, one, all), mem' = m, pending' = AgentRows(m, m.swarms[s]) \o SwarmRow(m, s),
         counter' = counter, db' = db, copied' = copied
  PROVE  Section
<1> DEFINE who == Members(mem, mem.swarms[s])
           set == SetAgents(mem, who, one)
           sw == [mem.swarms[s] EXCEPT !.status = all]
<1>0. mem \in Maps /\ mem.swarms[s] \in SwarmRecs /\ counter \in 0..MaxId /\ counter <= counter
  BY MapsOf
<1>1. who \subseteq Ids /\ \A a \in who : mem.agents[a].status # "absent"
  BY DEF Members
<1>2. sw \in SwarmRecs /\ sw.status # "absent" /\ sw.agents = mem.swarms[s].agents /\ sw.tasks = mem.swarms[s].tasks
  BY <1>0, SwarmMay
<1> HIDE DEF who
<1>4. /\ set \in Maps /\ set.swarms = mem.swarms /\ set.tasks = mem.tasks
      /\ \A a \in Ids : set.agents[a] = IF a \in who THEN [mem.agents[a] EXCEPT !.status = one] ELSE mem.agents[a]
  BY <1>0, AgentsSet
<1>5. \A a \in Ids : set.agents[a].status = "absent" => a \notin who /\ mem.agents[a].status = "absent"
  BY <1>0, AgentsStay
<1>6. m = [set EXCEPT !.swarms[s] = sw]
  BY <1>4 DEF MembersTo, who
<1> HIDE DEF set, sw
<1>7. /\ m \in Maps /\ m.agents = set.agents /\ m.tasks = set.tasks
      /\ \A u \in Ids : m.swarms[u] = IF u = s THEN sw ELSE set.swarms[u]
  BY <1>2, <1>4, <1>6, SwarmChanged
<1>8. Members(m, m.swarms[s]) = who
  <2>1. \A a \in Ids : mem.agents[a].status = "absent" <=> m.agents[a].status = "absent"
    BY <1>1, <1>4, <1>5, <1>7
  <2>2. m.swarms[s].agents = mem.swarms[s].agents
    BY <1>2, <1>7
  <2> QED BY <1>7, <2>1, <2>2, <1>0, MembersStay DEF who
<1>9. Saves(m, AgentRows(m, m.swarms[s]), who, {}, {}) /\ Saves(m, SwarmRow(m, s), {}, {s}, {})
  BY <1>2, <1>7, <1>8, SavesMembers, SavesOne
<1>10. Saves(m, pending', who \cup {}, {} \cup {s}, {} \cup {})
  BY <1>9, SavesBoth
<1>11. Saves(m, pending', who, {s}, {})
  BY <1>10
<1>12. who \subseteq 1..counter /\ s \in 1..counter
  BY <1>1, InUse
<1>13. s <= counter' /\ who \subseteq 1..counter'
  <2>1. counter' = counter
    OBVIOUS
  <2> QED BY <1>12, <2>1
<1>14. \A i \in Ids : i \notin who => m.agents[i] = mem.agents[i]
  BY <1>4, <1>7
<1>15. (\A i \in Ids : i # s => m.swarms[i] = mem.swarms[i]) /\ m.swarms[s].status # "absent"
       /\ m.swarms[s].tasks = mem.swarms[s].tasks /\ m.tasks = mem.tasks
  BY <1>2, <1>4, <1>7
<1>16. counter' \in 0..MaxId /\ counter <= counter'
  <2>1. counter' = counter
    OBVIOUS
  <2> QED BY <1>0, <2>1
<1>17. mem' \in Maps /\ Saves(mem', pending', who, {s}, {}) /\ mem'.tasks = mem.tasks
       /\ (\A i \in Ids : i \notin who => mem'.agents[i] = mem.agents[i])
       /\ (\A i \in Ids : i # s => mem'.swarms[i] = mem.swarms[i])
       /\ mem'.swarms[s].status # "absent" /\ mem'.swarms[s].tasks = mem.swarms[s].tasks
  BY <1>7, <1>11, <1>14, <1>15
<1> QED BY <1>13, <1>16, <1>17, SwarmSection

LEMMA StopSwarmKeeps ==
  ASSUME SwarmInv, NEW s \in Ids, StopSwarm(s)
  PROVE  SwarmInv'
<1> DEFINE m == [SetAgents(mem, Members(mem, mem.swarms[s]), "stopped") EXCEPT !.swarms[s].status = "stopped"]
<1>1. /\ MutexFree /\ mem.swarms[s].status # "absent" /\ mem' = m /\ pending' = AgentRows(m, m.swarms[s]) \o SwarmRow(m, s)
      /\ counter' = counter /\ db' = db /\ copied' = copied /\ call' = call /\ runner' = runner
  BY DEF StopSwarm, Exists, Update, Rest
<1>2. m = MembersTo(s, "stopped", "stopped")
  BY DEF MembersTo
<1> HIDE DEF m
<1>3. Section
  BY <1>1, <1>2, AllMembersSection
<1> QED BY <1>1, <1>3, SectionAlone

\* What a handler begins with.
LEMMA BeginKeeps ==
  ASSUME SwarmInv, MutexFree, Section, NEW c \in Callers, NEW s \in Ids, mem.swarms[s].status # "absent" \/ mem'.swarms[s].status # "absent",
         NEW op \in {"start", "clone", "pause", "resume"}, NEW todo \in Seq(Ids), Begin(c, op, s, todo), runner' = runner
  PROVE  SwarmInv'
<1> DEFINE to == [Idle EXCEPT !.op = op, !.swarm = s, !.todo = todo]
<1>1. to \in CallRecs /\ to.op = op /\ to.swarm = s
  <2>1. s \in 0..MaxId
    BY DEF Ids
  <2> QED BY <2>1, NoneAre DEF CallRecs
<1>2. call' = [call EXCEPT ![c] = to]
  BY DEF Begin
<1>3. mem'.swarms[s].status # "absent"
  BY DEF Section
<1> HIDE DEF to
<1>4. CallsGoOn(0, 0)
  BY <1>1, <1>2, <1>3, NoneAre, CallChanges
<1> QED BY <1>4, NoneAre, RunnersStay, SectionKeeps

LEMMA StartSwarmKeeps ==
  ASSUME SwarmInv, NEW c \in Callers, NEW s \in Ids, StartSwarm(c, s)
  PROVE  SwarmInv'
<1> DEFINE m == [SetAgents(mem, Members(mem, mem.swarms[s]), "busy") EXCEPT !.swarms[s].status = "running"]
<1>1. /\ MutexFree /\ mem.swarms[s].status # "absent" /\ mem' = m /\ pending' = AgentRows(m, m.swarms[s]) \o SwarmRow(m, s)
      /\ counter' = counter /\ db' = db /\ copied' = copied /\ Begin(c, "start", s, <<>>) /\ runner' = runner
  BY DEF StartSwarm, Exists, Update
<1>2. m = MembersTo(s, "busy", "running")
  BY DEF MembersTo
<1> HIDE DEF m
<1>3. Section
  BY <1>1, <1>2, AllMembersSection
<1>4. <<>> \in Seq(Ids)
  OBVIOUS
<1> QED BY <1>1, <1>3, <1>4, BeginKeeps

LEMMA BeginSwarmCallKeeps ==
  ASSUME SwarmInv, NEW c \in Callers, NEW s \in Ids, PauseSwarm(c, s) \/ ResumeSwarm(c, s)
  PROVE  SwarmInv'
<1>1. PICK op \in {"pause", "resume"} : BeginSwarmCall(c, op, s)
  BY DEF PauseSwarm, ResumeSwarm
<1>2. /\ MutexFree /\ mem.swarms[s].status # "absent" /\ Begin(c, op, s, mem.swarms[s].tasks)
      /\ mem' = mem /\ pending' = pending /\ counter' = counter /\ db' = db /\ copied' = copied /\ runner' = runner
  BY <1>1 DEF BeginSwarmCall, Exists
<1>3. Section
  BY <1>2, NoSection
<1>4. mem.swarms[s].tasks \in Seq(Ids)
  BY MapsOf DEF SwarmRecs
<1> QED BY <1>2, <1>3, <1>4, BeginKeeps

LEMMA EndOfSwarmKeeps ==
  ASSUME SwarmInv, NEW c \in Callers, EndOfSwarm(c)
  PROVE  SwarmInv'
<1> DEFINE s == call[c].swarm
           all == IF call[c].op = "pause" THEN "ready" ELSE "running"
           m == [mem EXCEPT !.swarms[s].status = all]
           sw == [mem.swarms[s] EXCEPT !.status = all]
<1>1. /\ MutexFree /\ call[c].op \in {"pause", "resume"} /\ mem' = m /\ pending' = SwarmRow(m, s) /\ Return(c)
      /\ counter' = counter /\ db' = db /\ copied' = copied /\ runner' = runner
  BY DEF EndOfSwarm, Update
<1>2. s \in Ids /\ mem.swarms[s].status # "absent"
  BY <1>1 DEF SwarmInv, Numbered
<1> HIDE DEF s
<1>3. all \in {"ready", "running", "stopped"}
  OBVIOUS
<1> HIDE DEF all
<1>4. sw \in SwarmRecs /\ sw.status # "absent" /\ sw.tasks = mem.swarms[s].tasks
  BY <1>2, <1>3, MapsOf, SwarmMay
<1>5. m = [mem EXCEPT !.swarms[s] = sw]
  OBVIOUS
<1> HIDE DEF m, sw
<1>6. /\ m \in Maps /\ m.agents = mem.agents /\ m.tasks = mem.tasks
      /\ \A u \in Ids : m.swarms[u] = IF u = s THEN sw ELSE mem.swarms[u]
  BY <1>2, <1>4, <1>5, MapsOf, SwarmChanged
<1>7. Saves(m, SwarmRow(m, s), {}, {s}, {})
  BY <1>2, <1>6, SavesOne
<1>8. s <= counter'
  BY <1>1, <1>2, InUse
<1>9. (\A i \in Ids : i # s => m.swarms[i] = mem.swarms[i]) /\ m.swarms[s].status # "absent"
       /\ m.swarms[s].tasks = mem.swarms[s].tasks
  BY <1>2, <1>4, <1>6
<1>10. Section
  <2> DEFINE none == {}
  <2>1. Saves(m, SwarmRow(m, s), none, {s}, {}) /\ none \subseteq 1..counter'
    BY <1>7
  <2> HIDE DEF none
  <2> QED BY <1>1, <1>2, <1>6, <1>8, <1>9, <2>1, MapsOf, SwarmSection
<1> QED BY <1>1, <1>10, CallReturns, RunnersStay, SectionKeeps, NoneAre

LEMMA NextOfSwarmKeeps ==
  ASSUME SwarmInv, NEW c \in Callers, NextOfSwarm(c)
  PROVE  SwarmInv'
<1> DEFINE t == Head(call[c].todo)
           to == [call[c] EXCEPT !.todo = Tail(@)]
<1>1. /\ MutexFree /\ call[c].op \in {"pause", "resume"} /\ call[c].todo # <<>>
      /\ counter' = counter /\ db' = db /\ copied' = copied /\ runner' = runner
      /\ (mem' = mem /\ pending' = pending) \/ Pause(t) \/ Resume(t)
  BY DEF NextOfSwarm
<1>2. call[c] \in CallRecs /\ call[c].todo \in Seq(Ids)
  BY DEF SwarmInv, SwarmTypes, CallRecs
<1>3. t \in Ids /\ Tail(call[c].todo) \in Seq(Ids)
  BY <1>1, <1>2
<1>4. Section
  <2> HIDE DEF t
  <2>1. CASE mem' = mem /\ pending' = pending
    BY <1>1, <2>1, NoSection
  <2>2. CASE Pause(t) \/ Resume(t)
    BY <1>1, <1>3, <2>2, PauseSection
  <2> QED BY <1>1, <2>1, <2>2
<1>5. call' = [call EXCEPT ![c] = to]
  BY DEF NextOfSwarm
<1>6. to \in CallRecs /\ to.op = call[c].op /\ to.swarm = call[c].swarm
  BY <1>2, <1>3 DEF CallRecs
<1>7. call[c].swarm \in Ids /\ mem.swarms[call[c].swarm].status # "absent"
  BY <1>1 DEF SwarmInv, Numbered
<1>8. mem'.swarms[call[c].swarm].status # "absent"
  BY <1>4, <1>7 DEF Section
<1> HIDE DEF to, t
<1>9. CallsGoOn(0, 0)
  BY <1>1, <1>4, <1>5, <1>6, <1>7, <1>8, NoneAre, CallChanges
<1> QED BY <1>1, <1>4, <1>9, NoneAre, RunnersStay, SectionKeeps

(* ------------------------------ new agents ----------------------------- *)

NewAgent(s) == [status |-> "idle", swarm |-> s]

LEMMA NewAgentIs ==
  ASSUME NEW s \in 0..MaxId
  PROVE  NewAgent(s) \in AgentRecs /\ NewAgent(s).status # "absent"
BY DEF NewAgent, AgentRecs

LEMMA AgentChanged ==
  ASSUME NEW m \in Maps, NEW a \in Ids, NEW agent \in AgentRecs
  PROVE  /\ [m EXCEPT !.agents[a] = agent] \in Maps
         /\ [m EXCEPT !.agents[a] = agent].swarms = m.swarms
         /\ [m EXCEPT !.agents[a] = agent].tasks = m.tasks
         /\ \A i \in Ids : [m EXCEPT !.agents[a] = agent].agents[i] = IF i = a THEN agent ELSE m.agents[i]
BY DEF Maps

\* The next ids.
LEMMA NextIds ==
  ASSUME SwarmInv, NEW n \in Nat, TakeIds(n)
  PROVE  /\ counter \in Nat /\ counter' = counter + n /\ counter' \in 0..MaxId /\ counter <= counter'
         /\ (counter + 1)..(counter + n) \subseteq Ids /\ (counter + 1)..(counter + n) \subseteq 1..counter'
<1>1. counter \in 0..MaxId /\ MaxId \in Nat /\ counter' = counter + n /\ counter + n <= MaxId
  BY MapsOf, SwarmAssumption DEF TakeIds
<1> QED BY <1>1 DEF Ids

LEMMA SpawnAgentKeeps ==
  ASSUME SwarmInv, NEW s \in 0..MaxId, SpawnAgent(s)
  PROVE  SwarmInv'
<1> DEFINE a == Next1
           born == [mem EXCEPT !.agents[a] = NewAgent(s)]
           joined == [born EXCEPT !.swarms[s].agents = Append(@, a)]
           m == IF s = 0 THEN born ELSE joined
<1>1. /\ MutexFree /\ TakeIds(1) /\ (s = 0 \/ (s \in Ids /\ mem.swarms[s].status # "absent"))
      /\ mem' = m /\ pending' = (IF s = 0 THEN <<>> ELSE SwarmRow(m, s)) \o AgentRow(m, a)
      /\ db' = db /\ copied' = copied /\ call' = call /\ runner' = runner
  BY DEF SpawnAgent, Exists, Update, Rest, NewAgent
<1>2. a = counter + 1 /\ a \in Ids /\ a \in 1..counter' /\ counter' \in 0..MaxId /\ counter <= counter'
  <2>1. a = counter + 1
    BY DEF Next1
  <2>2. /\ counter \in Nat /\ counter' = counter + 1 /\ counter' \in 0..MaxId /\ counter <= counter'
        /\ (counter + 1)..(counter + 1) \subseteq Ids /\ (counter + 1)..(counter + 1) \subseteq 1..counter'
    BY <1>1, 1 \in Nat, NextIds
  <2>3. counter + 1 \in (counter + 1)..(counter + 1)
    BY <2>2
  <2> QED BY <2>1, <2>2, <2>3
<1> HIDE DEF a
<1>3. /\ born \in Maps /\ born.swarms = mem.swarms /\ born.tasks = mem.tasks
      /\ \A i \in Ids : born.agents[i] = IF i = a THEN NewAgent(s) ELSE mem.agents[i]
  <2>1. NewAgent(s) \in AgentRecs /\ mem \in Maps
    BY NewAgentIs, MapsOf
  <2> QED BY <1>2, <2>1, AgentChanged
<1> HIDE DEF born
<1>4. CASE s = 0
  <2>1. /\ mem' = born /\ pending' = AgentRow(born, a)
    <3>1. m = born
      BY <1>4
    <3>2. AgentRow(born, a) \in Seq(Statements)
      BY <1>2, <1>3, NewAgentIs, SavesOne DEF Saves
    <3>3. pending' = <<>> \o AgentRow(born, a)
      BY <1>1, <1>4, <3>1
    <3> QED BY <1>1, <3>1, <3>2, <3>3, ConcatEmptySeq
  <2>2. born.agents[a].status # "absent"
    BY <1>2, <1>3, NewAgentIs
  <2>3. Saves(born, AgentRow(born, a), {a}, {}, {})
    BY <1>2, <1>3, <2>2, SavesOne
  <2>4. \A i \in Ids : /\ mem'.agents[i] = mem.agents[i] \/ i \in {a}
                       /\ mem'.swarms[i] = mem.swarms[i] /\ mem'.tasks[i] = mem.tasks[i]
    BY <1>3, <2>1
  <2> DEFINE ag == {a}
             none == {}
  <2>5. Saves(mem', pending', ag, none, none) /\ ag \subseteq 1..counter' /\ none \subseteq 1..counter' /\ mem' \in Maps
    BY <1>2, <1>3, <2>1, <2>3
  <2>6. \A i \in Ids :
         /\ mem'.agents[i] = mem.agents[i] \/ i \in ag
         /\ mem'.swarms[i] = mem.swarms[i] \/ i \in none
         /\ mem'.tasks[i] = mem.tasks[i] \/ i \in none
         /\ mem.tasks[i].status # "absent" => mem'.tasks[i].status # "absent"
         /\ mem.swarms[i].status # "absent" => mem'.swarms[i].status # "absent"
         /\ mem'.swarms[i].tasks = mem.swarms[i].tasks \/ mem'.swarms[i].tasks = <<>>
    BY <2>4
  <2> HIDE DEF ag, none, m, joined
  <2>8. MutexFree /\ counter' \in 0..MaxId /\ counter <= counter' /\ db' = db /\ copied' = copied
    BY <1>1, <1>2
  <2>7. Section
    BY <2>5, <2>6, <2>8, SavingSection
  <2> QED BY <1>1, <2>7, SectionAlone
<1>5. CASE s # 0
  <2> DEFINE sw == [mem.swarms[s] EXCEPT !.agents = Append(mem.swarms[s].agents, a)]
  <2>1. s \in Ids /\ mem.swarms[s].status # "absent"
    BY <1>1, <1>5
  <2>2. sw \in SwarmRecs /\ sw.status # "absent" /\ sw.tasks = mem.swarms[s].tasks
    <3>1. mem.swarms[s] \in SwarmRecs
      BY <2>1, MapsOf
    <3>2. Append(mem.swarms[s].agents, a) \in Seq(Ids)
      BY <1>2, <3>1 DEF SwarmRecs
    <3> QED BY <2>1, <3>1, <3>2, SwarmMay
  <2>3. joined = [born EXCEPT !.swarms[s] = sw]
    BY <1>3
  <2> HIDE DEF sw, joined
  <2>4. mem' = joined /\ pending' = SwarmRow(joined, s) \o AgentRow(joined, a)
    BY <1>1, <1>5
  <2>5. /\ joined \in Maps /\ joined.agents = born.agents /\ joined.tasks = mem.tasks
        /\ \A u \in Ids : joined.swarms[u] = IF u = s THEN sw ELSE mem.swarms[u]
    BY <1>3, <2>1, <2>2, <2>3, SwarmChanged
  <2>6. joined.agents[a].status # "absent"
    BY <1>2, <1>3, <2>5, NewAgentIs
  <2>7. Saves(joined, AgentRow(joined, a), {a}, {}, {}) /\ Saves(joined, SwarmRow(joined, s), {}, {s}, {})
    BY <1>2, <2>1, <2>5, <2>6, SavesOne
  <2>8. Saves(joined, SwarmRow(joined, s) \o AgentRow(joined, a), {} \cup {a}, {s} \cup {}, {} \cup {})
    BY <2>7, SavesBoth
  <2>9. Saves(joined, SwarmRow(joined, s) \o AgentRow(joined, a), {a}, {s}, {})
    BY <2>8
  <2> DEFINE ag == {a}
  <2>10. /\ Saves(mem', pending', ag, {s}, {}) /\ ag \subseteq 1..counter' /\ \A i \in Ids : i \notin ag => mem'.agents[i] = mem.agents[i]
    BY <1>2, <1>3, <2>4, <2>5, <2>9
  <2> HIDE DEF ag
  <2>11. s <= counter'
    <3>1. s \in 1..counter /\ counter \in Nat /\ counter' \in Nat
      BY <1>2, <2>1, InUse, MapsOf
    <3> QED BY <1>2, <3>1
  <2>12. /\ mem' \in Maps /\ mem'.tasks = mem.tasks /\ (\A i \in Ids : i # s => mem'.swarms[i] = mem.swarms[i])
         /\ mem'.swarms[s].status # "absent" /\ mem'.swarms[s].tasks = mem.swarms[s].tasks
    BY <2>1, <2>2, <2>4, <2>5
  <2>13. Section
    BY <1>1, <1>2, <2>1, <2>10, <2>11, <2>12, SwarmSection
  <2> QED BY <1>1, <2>13, SectionAlone
<1> QED BY <1>4, <1>5

\* New agents for a swarm.
NewList(first, n) == [i \in 1..n |-> first + i]

LEMMA WithAgentsIs ==
  ASSUME NEW m \in Maps, NEW s \in Ids, NEW first \in Nat, NEW n \in Nat, (first + 1)..(first + n) \subseteq Ids
  PROVE  /\ WithAgents(m, s, first, n) \in Maps /\ WithAgents(m, s, first, n).tasks = m.tasks
         /\ \A a \in Ids : WithAgents(m, s, first, n).agents[a] =
                IF a \in (first + 1)..(first + n) THEN NewAgent(s) ELSE m.agents[a]
         /\ \A u \in Ids : u # s => WithAgents(m, s, first, n).swarms[u] = m.swarms[u]
         /\ WithAgents(m, s, first, n).swarms[s] = [m.swarms[s] EXCEPT !.agents = m.swarms[s].agents \o NewList(first, n)]
         /\ NewList(first, n) \in Seq(Ids) /\ WithAgents(m, s, first, n).swarms[s] \in SwarmRecs
<1> DEFINE agents == [a \in Ids |-> IF a \in (first + 1)..(first + n) THEN NewAgent(s) ELSE m.agents[a]]
           list == NewList(first, n)
           sw == [m.swarms[s] EXCEPT !.agents = m.swarms[s].agents \o list]
           swarms == [m.swarms EXCEPT ![s] = sw]
<1>1. WithAgents(m, s, first, n) = [m EXCEPT !.agents = agents, !.swarms = swarms]
  BY DEF WithAgents, NewAgent, Maps, NewList
<1>2. list \in Seq(Ids)
  <2>1. \A i \in 1..n : first + i \in (first + 1)..(first + n)
    OBVIOUS
  <2>2. \A i \in 1..n : first + i \in Ids
    BY <2>1
  <2> QED BY <2>2 DEF NewList
<1> HIDE DEF list
<1>3. m.swarms[s] \in SwarmRecs /\ m.swarms[s].agents \in Seq(Ids)
  BY DEF Maps, SwarmRecs
<1>4. m.swarms[s].agents \o list \in Seq(Ids)
  BY <1>2, <1>3, ConcatProperties
<1>5. sw \in SwarmRecs
  BY <1>3, <1>4, SwarmMay
<1>6. agents \in [Ids -> AgentRecs]
  <2>1. NewAgent(s) \in AgentRecs
    BY NewAgentIs DEF Ids
  <2> QED BY <2>1 DEF Maps
<1>7. swarms \in [Ids -> SwarmRecs] /\ swarms[s] = sw /\ \A u \in Ids : u # s => swarms[u] = m.swarms[u]
  BY <1>5 DEF Maps
<1>8. \A a \in Ids : agents[a] = IF a \in (first + 1)..(first + n) THEN NewAgent(s) ELSE m.agents[a]
  OBVIOUS
<1>9. sw = [m.swarms[s] EXCEPT !.agents = m.swarms[s].agents \o list]
  OBVIOUS
<1> HIDE DEF agents, swarms, sw
<1>10. LET w == [m EXCEPT !.agents = agents, !.swarms = swarms] IN
       w \in Maps /\ w.tasks = m.tasks /\ w.agents = agents /\ w.swarms = swarms
  BY <1>6, <1>7 DEF Maps
<1> QED BY <1>1, <1>2, <1>5, <1>7, <1>8, <1>9, <1>10 DEF list

\* The new agents of a list.
LEMMA NewMembers ==
  ASSUME NEW m, NEW s, NEW first \in Nat, NEW n \in Nat, (first + 1)..(first + n) \subseteq Ids,
         s.agents = NewList(first, n),
         \A a \in (first + 1)..(first + n) : m.agents[a].status # "absent"
  PROVE  Members(m, s) = (first + 1)..(first + n)
<1> DEFINE list == NewList(first, n)
<1>1. Len(list) = n /\ \A i \in 1..n : list[i] = first + i
  BY DEF NewList
<1>2. {list[i] : i \in 1..Len(list)} = (first + 1)..(first + n)
  <2>1. \A i \in 1..n : list[i] \in (first + 1)..(first + n)
    BY <1>1
  <2>2. \A a \in (first + 1)..(first + n) : a - first \in 1..n /\ first + (a - first) = a
    OBVIOUS
  <2> HIDE DEF list
  <2>3. {list[i] : i \in 1..Len(list)} = {list[i] : i \in 1..n}
    BY <1>1
  <2>4. \A a \in (first + 1)..(first + n) : a \in {list[i] : i \in 1..n}
    <3> TAKE a \in (first + 1)..(first + n)
    <3>1. a - first \in 1..n /\ list[a - first] = a
      BY <1>1, <2>2
    <3> QED BY <3>1
  <2> QED BY <2>1, <2>3, <2>4
<1> HIDE DEF list
<1>3. Members(m, s) = {a \in Ids : a \in {list[i] : i \in 1..Len(list)} /\ m.agents[a].status # "absent"}
  BY DEF Members, list
<1> QED BY <1>2, <1>3

LEMMA ScaleUpKeeps ==
  ASSUME SwarmInv, NEW s \in Ids, NEW count \in 1..MaxMembers, ScaleUp(s, count)
  PROVE  SwarmInv'
<1> DEFINE n == count - Len(mem.swarms[s].agents)
           m == WithAgents(mem, s, counter, n)
           list == NewList(counter, n)
           new == [m.swarms[s] EXCEPT !.agents = list]
           who == (counter + 1)..(counter + n)
<1>1. /\ MutexFree /\ mem.swarms[s].status # "absent" /\ n > 0 /\ TakeIds(n)
      /\ mem' = m /\ pending' = AgentRows(m, new) \o SwarmRow(m, s)
      /\ db' = db /\ copied' = copied /\ call' = call /\ runner' = runner
  BY DEF ScaleUp, Exists, Update, Rest, NewList
<1>2. mem \in Maps /\ mem.swarms[s] \in SwarmRecs
  BY MapsOf
<1>3. n \in Nat
  <2>1. Len(mem.swarms[s].agents) \in Nat
    BY <1>2 DEF SwarmRecs
  <2>2. count \in Nat
    <3>1. MaxMembers \in Nat
      BY SwarmAssumption
    <3> QED BY <3>1
  <2>3. n > 0 /\ n \in Int
    <3>1. n > 0
      BY <1>1
    <3> QED BY <2>1, <2>2, <3>1
  <2> HIDE DEF n
  <2> QED BY <2>3
<1> HIDE DEF n
<1>4. /\ counter \in Nat /\ counter' = counter + n /\ counter' \in 0..MaxId /\ counter <= counter'
      /\ who \subseteq Ids /\ who \subseteq 1..counter'
  BY <1>1, <1>3, NextIds
<1>5. list = NewList(counter, n)
  OBVIOUS
<1> HIDE DEF list, m
<1>6. /\ m \in Maps /\ m.tasks = mem.tasks
      /\ \A a \in Ids : m.agents[a] = IF a \in (counter + 1)..(counter + n) THEN NewAgent(s) ELSE mem.agents[a]
      /\ \A u \in Ids : u # s => m.swarms[u] = mem.swarms[u]
      /\ m.swarms[s] = [mem.swarms[s] EXCEPT !.agents = mem.swarms[s].agents \o list]
      /\ list \in Seq(Ids) /\ m.swarms[s] \in SwarmRecs
  <2>1. (counter + 1)..(counter + n) \subseteq Ids /\ mem \in Maps /\ counter \in Nat
    BY <1>2, <1>4
  <2> DEFINE w == WithAgents(mem, s, counter, n)
  <2>2. /\ w \in Maps /\ w.tasks = mem.tasks
        /\ \A a \in Ids : w.agents[a] = IF a \in (counter + 1)..(counter + n) THEN NewAgent(s) ELSE mem.agents[a]
        /\ \A u \in Ids : u # s => w.swarms[u] = mem.swarms[u]
        /\ w.swarms[s] = [mem.swarms[s] EXCEPT !.agents = mem.swarms[s].agents \o NewList(counter, n)]
        /\ NewList(counter, n) \in Seq(Ids) /\ w.swarms[s] \in SwarmRecs
    <3> HIDE DEF new, who
    <3> QED BY <1>3, <2>1, WithAgentsIs
  <2> QED BY <1>5, <2>2 DEF m
<1>7. new \in SwarmRecs /\ new.agents = list
  BY <1>6, SwarmMay
<1> HIDE DEF new
<1>8. \A a \in who : m.agents[a].status # "absent"
  BY <1>4, <1>6, NewAgentIs DEF Ids
<1>9. Members(m, new) = who
  <2>1. /\ counter \in Nat /\ n \in Nat /\ (counter + 1)..(counter + n) \subseteq Ids
        /\ new.agents = NewList(counter, n)
        /\ \A a \in (counter + 1)..(counter + n) : m.agents[a].status # "absent"
    BY <1>3, <1>4, <1>5, <1>7, <1>8
  <2> QED BY <2>1, NewMembers
<1> HIDE DEF who
<1>10. Saves(m, AgentRows(m, new), who, {}, {}) /\ Saves(m, SwarmRow(m, s), {}, {s}, {})
  BY <1>6, <1>7, <1>9, SavesMembers, SavesOne
<1>11. Saves(m, AgentRows(m, new) \o SwarmRow(m, s), who \cup {}, {} \cup {s}, {} \cup {})
  BY <1>10, SavesBoth
<1>12. Saves(mem', pending', who, {s}, {}) /\ mem' \in Maps /\ mem'.tasks = mem.tasks
  BY <1>1, <1>6, <1>11
<1>13. \A i \in Ids : i \notin who => mem'.agents[i] = mem.agents[i]
  BY <1>1, <1>6 DEF who
<1>14. /\ \A i \in Ids : i # s => mem'.swarms[i] = mem.swarms[i]
       /\ mem'.swarms[s].status # "absent" /\ mem'.swarms[s].tasks = mem.swarms[s].tasks
  BY <1>1, <1>2, <1>6 DEF SwarmRecs
<1>15. s <= counter'
  <2>1. s \in 1..counter /\ counter' \in Nat
    BY <1>1, <1>4, InUse
  <2> QED BY <1>4, <2>1
<1>16. MutexFree /\ db' = db /\ copied' = copied /\ call' = call /\ runner' = runner
  BY <1>1
<1>17. Section
  BY <1>4, <1>12, <1>13, <1>14, <1>15, <1>16, SwarmSection
<1> QED BY <1>16, <1>17, SectionAlone

LEMMA ScaleDownKeeps ==
  ASSUME SwarmInv, NEW s \in Ids, NEW count \in 1..MaxMembers, ScaleDown(s, count)
  PROVE  SwarmInv'
<1> DEFINE list == mem.swarms[s].agents
           gone == [mem.swarms[s] EXCEPT !.agents = SubSeq(list, count + 1, Len(list))]
           who == Members(mem, gone)
           stopped == SetAgents(mem, who, "stopped")
           kept == SubSeq(list, 1, count)
           sw == [mem.swarms[s] EXCEPT !.agents = kept]
           m == [stopped EXCEPT !.swarms[s].agents = kept]
<1>1. /\ MutexFree /\ mem.swarms[s].status # "absent" /\ count < Len(list)
      /\ mem' = m /\ pending' = AgentRows(m, gone) \o SwarmRow(m, s)
      /\ counter' = counter /\ db' = db /\ copied' = copied /\ call' = call /\ runner' = runner
  BY DEF ScaleDown, Exists, Update, Rest
<1>2. mem \in Maps /\ mem.swarms[s] \in SwarmRecs /\ list \in Seq(Ids) /\ counter \in 0..MaxId /\ counter <= counter
  BY MapsOf DEF SwarmRecs
<1>3. SubSeq(list, count + 1, Len(list)) \in Seq(Ids) /\ kept \in Seq(Ids)
  <2>1. count \in Nat
    <3>1. MaxMembers \in Nat
      BY SwarmAssumption
    <3> QED BY <3>1
  <2>4. count < Len(list)
    BY <1>1
  <2> HIDE DEF list
  <2>2. Len(list) \in Nat /\ \A i \in 1..Len(list) : list[i] \in Ids
    BY <1>2
  <2>3. /\ \A i \in (count + 1)..Len(list) : list[i] \in Ids
        /\ \A i \in 1..count : list[i] \in Ids
    BY <2>1, <2>2, <2>4
  <2> QED BY <1>2, <2>1, <2>2, <2>3, SubSeqProperties
<1> HIDE DEF kept
<1>4. gone \in SwarmRecs /\ sw \in SwarmRecs /\ sw.status = mem.swarms[s].status /\ sw.tasks = mem.swarms[s].tasks
  BY <1>2, <1>3, SwarmMay
<1> HIDE DEF gone
<1>5. who \subseteq Ids /\ \A a \in who : mem.agents[a].status # "absent"
  BY DEF Members
<1>6. m = [stopped EXCEPT !.swarms[s].agents = kept]
  OBVIOUS
<1> HIDE DEF who
<1>7. /\ stopped \in Maps /\ stopped.swarms = mem.swarms /\ stopped.tasks = mem.tasks
      /\ \A a \in Ids : stopped.agents[a] = IF a \in who THEN [mem.agents[a] EXCEPT !.status = "stopped"] ELSE mem.agents[a]
  BY <1>2, AgentsSet
<1>8. \A a \in Ids : stopped.agents[a].status = "absent" => a \notin who /\ mem.agents[a].status = "absent"
  BY <1>2, AgentsStay
<1>9. m = [stopped EXCEPT !.swarms[s] = sw]
  BY <1>6, <1>7
<1> HIDE DEF m, stopped, sw
<1>10. /\ m \in Maps /\ m.agents = stopped.agents /\ m.tasks = stopped.tasks
       /\ \A u \in Ids : m.swarms[u] = IF u = s THEN sw ELSE stopped.swarms[u]
  BY <1>4, <1>7, <1>9, SwarmChanged
<1>11. Members(m, gone) = who
  <2>1. \A a \in Ids : mem.agents[a].status = "absent" <=> m.agents[a].status = "absent"
    BY <1>5, <1>7, <1>8, <1>10
  <2> QED BY <1>2, <1>10, <2>1, MembersStay DEF who
<1>12. Saves(m, AgentRows(m, gone), who, {}, {}) /\ Saves(m, SwarmRow(m, s), {}, {s}, {})
  BY <1>4, <1>10, <1>11, SavesMembers, SavesOne
<1>13. Saves(m, AgentRows(m, gone) \o SwarmRow(m, s), who \cup {}, {} \cup {s}, {} \cup {})
  BY <1>12, SavesBoth
<1>14. Saves(mem', pending', who, {s}, {}) /\ mem' \in Maps /\ mem'.tasks = mem.tasks
  BY <1>1, <1>7, <1>10, <1>13
<1>15. \A i \in Ids : i \notin who => mem'.agents[i] = mem.agents[i]
  BY <1>1, <1>7, <1>10
<1>16. /\ \A i \in Ids : i # s => mem'.swarms[i] = mem.swarms[i]
       /\ mem'.swarms[s].status # "absent" /\ mem'.swarms[s].tasks = mem.swarms[s].tasks
  BY <1>1, <1>4, <1>7, <1>10
<1>17. who \subseteq 1..counter' /\ s <= counter' /\ counter' \in 0..MaxId /\ counter <= counter'
  <2>1. who \subseteq 1..counter /\ s \in 1..counter /\ counter' = counter
    BY <1>1, <1>5, InUse
  <2> QED BY <1>2, <2>1
<1>18. MutexFree /\ db' = db /\ copied' = copied /\ call' = call /\ runner' = runner
  BY <1>1
<1>19. Section
  BY <1>14, <1>15, <1>16, <1>17, <1>18, SwarmSection
<1> QED BY <1>18, <1>19, SectionAlone

LEMMA OneBefore ==
  ASSUME NEW X, NEW r \in X, NEW s \in Seq(X)
  PROVE  /\ <<r>> \o s \in Seq(X) /\ <<r>> \o s # <<>>
         /\ Head(<<r>> \o s) = r /\ Tail(<<r>> \o s) = s
<1> DEFINE u == <<r>> \o s
<1>1. u \in Seq(X) /\ Len(u) = Len(s) + 1 /\ u[1] = r /\ \A i \in 1..Len(s) : u[i + 1] = s[i]
  <2>1. <<r>> \in Seq(X) /\ Len(<<r>>) = 1 /\ <<r>>[1] = r /\ Len(s) \in Nat
    OBVIOUS
  <2>2. /\ u \in Seq(X) /\ Len(u) = Len(<<r>>) + Len(s)
        /\ \A i \in 1..(Len(<<r>>) + Len(s)) : u[i] = IF i <= Len(<<r>>) THEN <<r>>[i] ELSE s[i - Len(<<r>>)]
    BY <2>1, ConcatProperties
  <2> HIDE DEF u
  <2>3. \A i \in 1..(1 + Len(s)) : u[i] = IF i <= 1 THEN <<r>>[i] ELSE s[i - 1]
    BY <2>1, <2>2
  <2>4. 1 \in 1..(1 + Len(s)) /\ \A i \in 1..Len(s) : i + 1 \in 1..(1 + Len(s)) /\ ~(i + 1 <= 1) /\ (i + 1) - 1 = i
    BY <2>1
  <2> QED BY <2>1, <2>2, <2>3, <2>4
<1>2. Len(s) \in Nat
  OBVIOUS
<1> HIDE DEF u
<1>3. u # <<>>
  BY <1>1, <1>2
<1>4. Head(u) = r
  BY <1>1, <1>3
<1>5. Tail(u) = s
  <2>1. Tail(u) \in Seq(X) /\ Len(Tail(u)) = Len(s) /\ \A i \in 1..Len(s) : Tail(u)[i] = u[i + 1]
    BY <1>1, <1>2, <1>3
  <2>2. \A i \in 1..Len(s) : Tail(u)[i] = s[i]
    BY <1>1, <2>1
  <2> QED BY <2>1, <2>2, SeqEqual
<1> QED BY <1>1, <1>3, <1>4, <1>5 DEF u

\* InitSwarm: the first of its statements saves the swarm without agents.
LEMMA NewSwarmSection ==
  ASSUME SwarmInv, NEW n \in 1..MaxMembers, NewSwarm(n)
  PROVE  Section /\ MutexFree /\ runner' = runner /\ Next1 \in Ids /\ mem'.swarms[Next1].status # "absent"
<1> DEFINE s == Next1
           empty == [NoSwarm EXCEPT !.status = "ready"]
           old == [mem EXCEPT !.swarms[s] = empty]
           m == WithAgents(old, s, s, n)
           first == Row("swarms", s, empty)
           who == (s + 1)..(s + n)
           rest == AgentRows(m, m.swarms[s]) \o SwarmRow(m, s)
<1>1. /\ MutexFree /\ TakeIds(n + 1) /\ mem' = m /\ db' = db /\ copied' = copied /\ runner' = runner
      /\ pending' = <<first>> \o AgentRows(m, m.swarms[s]) \o SwarmRow(m, s)
  BY DEF NewSwarm, Update
<1>2. n \in Nat /\ n + 1 \in Nat /\ n # 0
  <2>1. MaxMembers \in Nat
    BY SwarmAssumption
  <2> QED BY <2>1
<1>3. /\ s = counter + 1 /\ s \in Ids /\ s \in Nat /\ s \in 1..counter' /\ who \subseteq Ids /\ who \subseteq 1..counter'
      /\ counter \in Nat /\ counter' \in 0..MaxId /\ counter <= counter'
  <2>1. TakeIds(n + 1)
    BY <1>1
  <2>2. /\ counter \in Nat /\ counter' = counter + (n + 1) /\ counter' \in 0..MaxId /\ counter <= counter'
        /\ (counter + 1)..(counter + (n + 1)) \subseteq Ids /\ (counter + 1)..(counter + (n + 1)) \subseteq 1..counter'
    BY <1>2, <2>1, NextIds
  <2>3. s = counter + 1
    BY DEF Next1
  <2> HIDE DEF s
  <2>4. s \in (counter + 1)..(counter + (n + 1)) /\ who \subseteq (counter + 1)..(counter + (n + 1))
    BY <1>2, <2>2, <2>3
  <2> QED BY <2>2, <2>3, <2>4
<1> HIDE DEF s
<1>4. empty \in SwarmRecs /\ empty.status = "ready" /\ empty.agents = <<>> /\ empty.tasks = <<>>
  <2>1. NoSwarm \in SwarmRecs /\ NoSwarm.agents = <<>> /\ NoSwarm.tasks = <<>>
    BY NoneAre DEF NoSwarm
  <2> QED BY <2>1 DEF SwarmRecs
<1>5. mem \in Maps
  BY MapsOf
<1>6. /\ old \in Maps /\ old.agents = mem.agents /\ old.tasks = mem.tasks
      /\ \A u \in Ids : old.swarms[u] = IF u = s THEN empty ELSE mem.swarms[u]
  <2> HIDE DEF empty
  <2> QED BY <1>3, <1>4, <1>5, SwarmChanged
<1> HIDE DEF empty, old
<1>7. /\ m \in Maps /\ m.tasks = old.tasks
      /\ \A a \in Ids : m.agents[a] = IF a \in (s + 1)..(s + n) THEN NewAgent(s) ELSE old.agents[a]
      /\ \A u \in Ids : u # s => m.swarms[u] = old.swarms[u]
      /\ m.swarms[s] = [old.swarms[s] EXCEPT !.agents = old.swarms[s].agents \o NewList(s, n)]
      /\ NewList(s, n) \in Seq(Ids) /\ m.swarms[s] \in SwarmRecs
  <2>1. (s + 1)..(s + n) \subseteq Ids /\ s \in Ids /\ s \in Nat /\ n \in Nat /\ old \in Maps
    BY <1>2, <1>3, <1>6
  <2> HIDE DEF first, who, rest
  <2> QED BY <2>1, WithAgentsIs
<1> HIDE DEF m
<1>8. m.swarms[s].agents = NewList(s, n) /\ m.swarms[s].tasks = <<>> /\ m.swarms[s].status = "ready"
  <2>1. old.swarms[s] = empty
    BY <1>3, <1>6
  <2>2. <<>> \o NewList(s, n) = NewList(s, n)
    BY <1>7, ConcatEmptySeq
  <2> QED BY <1>4, <1>7, <2>1, <2>2 DEF SwarmRecs
<1>9. \A a \in (s + 1)..(s + n) : m.agents[a].status # "absent"
  <2>1. NewAgent(s).status # "absent"
    BY DEF NewAgent
  <2> QED BY <1>3, <1>7, <2>1
<1>10. Members(m, m.swarms[s]) = (s + 1)..(s + n)
  <2> DEFINE sw == m.swarms[s]
  <2>1. (s + 1)..(s + n) \subseteq Ids /\ s \in Nat /\ n \in Nat /\ sw.agents = NewList(s, n)
    BY <1>2, <1>3, <1>8
  <2> HIDE DEF sw, first, who, rest
  <2>2. Members(m, sw) = (s + 1)..(s + n)
    BY <1>9, <2>1, NewMembers
  <2> QED BY <2>2 DEF sw
<1>11. Saves(m, AgentRows(m, m.swarms[s]), who, {}, {}) /\ Saves(m, SwarmRow(m, s), {}, {s}, {})
  BY <1>3, <1>7, <1>10, SavesMembers, SavesOne
<1>12. Saves(m, rest, who \cup {}, {} \cup {s}, {} \cup {})
  BY <1>11, SavesBoth
<1>13. Saves(m, rest, who, {s}, {})
  BY <1>12
<1>14. first \in Statements /\ first.table = "swarms" /\ first.id = s /\ first.value = empty
  BY <1>3, <1>4, RowParts DEF Statements, Row
<1>15. pending' = <<first>> \o rest
  <2>1. /\ AgentRows(m, m.swarms[s]) \in Seq(Statements) /\ SwarmRow(m, s) \in Seq(Statements)
        /\ <<first>> \in Seq(Statements)
    BY <1>11, <1>14 DEF Saves
  <2> HIDE DEF first
  <2> QED BY <1>1, <2>1
<1> HIDE DEF first, rest, who
<1>16. rest \in Seq(Statements) /\ pending' \in Seq(Statements) /\ Head(pending') = first /\ Tail(pending') = rest /\ pending' # <<>>
  <2>1. rest \in Seq(Statements)
    BY <1>13 DEF Saves
  <2> QED BY <1>14, <1>15, <2>1, OneBefore
<1>17. ToSet(pending') = {first} \cup ToSet(rest)
  BY <1>16, HeadAndTail
<1>18. /\ \A r \in ToSet(rest) :
            \/ r.table = "agents" /\ r.id \in who /\ r.value = m.agents[r.id]
            \/ r.table = "swarms" /\ r.id \in {s} /\ r.value = m.swarms[r.id]
            \/ r.table = "tasks" /\ r.id \in {} /\ r.value = m.tasks[r.id]
       /\ \A i \in who : Keyed(rest, "agents", i)
       /\ \A i \in {s} : Keyed(rest, "swarms", i)
  BY <1>13, SavedRows
<1>19. /\ \A r \in ToSet(Tail(pending')) : Right(mem', r, copied')
       /\ Keyed(Tail(pending'), Head(pending').table, Head(pending').id)
  BY <1>1, <1>14, <1>16, <1>18 DEF Right
<1>20. ASSUME NEW i \in Ids
       PROVE  /\ mem'.agents[i] = mem.agents[i] \/ Keyed(pending', "agents", i)
              /\ mem'.swarms[i] = mem.swarms[i] \/ Keyed(pending', "swarms", i)
              /\ mem'.tasks[i] = mem.tasks[i]
              /\ mem.swarms[i].status # "absent" => mem'.swarms[i].status # "absent"
  <2>1. mem' = m
    BY <1>1
  <2>2. \A table : Keyed(rest, table, i) => Keyed(pending', table, i)
    BY <1>17 DEF Keyed
  <2>3. mem'.agents[i] = mem.agents[i] \/ i \in who
    BY <1>6, <1>7, <2>1 DEF who
  <2>4. mem'.swarms[i] = mem.swarms[i] \/ i = s
    BY <1>6, <1>7, <2>1
  <2>5. mem'.tasks[i] = mem.tasks[i]
    BY <1>6, <1>7, <2>1
  <2>6. i = s => mem'.swarms[i].status # "absent"
    BY <1>8, <2>1
  <2> QED BY <1>18, <2>2, <2>3, <2>4, <2>5, <2>6
<1>21. \A t, u \in Ids : t \in ToSet(mem'.swarms[u].tasks) => Listing(t, u)
  <2> SUFFICES ASSUME NEW t \in Ids, NEW u \in Ids, t \in ToSet(mem'.swarms[u].tasks)
               PROVE  Listing(t, u)
    OBVIOUS
  <2>1. mem' = m /\ ToSet(<<>>) = {}
    BY <1>1 DEF ToSet
  <2>2. u # s
    BY <1>8, <2>1
  <2>3. m.swarms[u] = mem.swarms[u]
    BY <1>6, <1>7, <2>2
  <2> QED BY <2>1, <2>3 DEF Listing, ListedBy
<1>22. ASSUME NEW r \in ToSet(pending')
       PROVE  /\ r.id <= counter' /\ r.table # "tasks"
              /\ \A t \in Ids : r.table = "swarms" /\ t \in ToSet(r.value.tasks) => Listing(t, r.id)
  <2>1. ToSet(<<>>) = {} /\ who \subseteq 1..counter'
    BY <1>3 DEF ToSet
  <2>2. CASE r = first
    BY <1>3, <1>4, <1>14, <2>1, <2>2
  <2>3. ASSUME r.table = "agents", r.id \in who
        PROVE  /\ r.id <= counter' /\ r.table # "tasks"
               /\ \A t \in Ids : r.table = "swarms" /\ t \in ToSet(r.value.tasks) => Listing(t, r.id)
    <3>1. r.id \in 1..counter'
      BY <2>1, <2>3
    <3> QED BY <2>3, <3>1
  <2>4. ASSUME r.table = "swarms", r.id = s, r.value = m.swarms[r.id]
        PROVE  /\ r.id <= counter' /\ r.table # "tasks"
               /\ \A t \in Ids : r.table = "swarms" /\ t \in ToSet(r.value.tasks) => Listing(t, r.id)
    <3>1. ToSet(r.value.tasks) = {}
      BY <1>8, <2>1, <2>4
    <3>2. r.id <= counter'
      BY <1>3, <2>4
    <3> QED BY <2>4, <3>1, <3>2
  <2>5. CASE r \in ToSet(rest)
    BY <1>18, <2>3, <2>4, <2>5
  <2> QED BY <1>17, <2>2, <2>5
<1>23. Section
  <2>1. mem' \in Maps /\ db' = db /\ copied \subseteq copied'
    BY <1>1, <1>7
  <2> QED BY <1>3, <1>16, <1>19, <1>20, <1>21, <1>22, <2>1 DEF Section
<1>24. mem'.swarms[s].status # "absent"
  BY <1>1, <1>8
<1> QED BY <1>1, <1>3, <1>23, <1>24 DEF s

LEMMA InitSwarmKeeps ==
  ASSUME SwarmInv, NEW n \in 1..MaxMembers, InitSwarm(n)
  PROVE  SwarmInv'
<1>1. NewSwarm(n) /\ call' = call
  BY DEF InitSwarm
<1>2. Section /\ MutexFree /\ runner' = runner
  BY <1>1, NewSwarmSection
<1> QED BY <1>1, <1>2, SectionAlone

LEMMA RunWorkflowTemplateKeeps ==
  ASSUME SwarmInv, NEW c \in Callers, NEW n \in 1..MaxMembers, RunWorkflowTemplate(c, n)
  PROVE  SwarmInv'
<1>1. NewSwarm(n) /\ Begin(c, "clone", Next1, <<>>)
  BY DEF RunWorkflowTemplate
<1>2. Section /\ MutexFree /\ runner' = runner /\ Next1 \in Ids /\ mem'.swarms[Next1].status # "absent"
  BY <1>1, NewSwarmSection
<1>3. <<>> \in Seq(Ids)
  OBVIOUS
<1> QED BY <1>1, <1>2, <1>3, BeginKeeps

LEMMA CloneSwarmKeeps ==
  ASSUME SwarmInv, NEW c \in Callers, CloneSwarm(c)
  PROVE  SwarmInv'
<1> DEFINE s == call[c].swarm
           to == [call[c] EXCEPT !.op = "template", !.copy = mem.swarms[s]]
<1>1. /\ MutexFree /\ call[c].op = "clone" /\ call' = [call EXCEPT ![c].op = "template", ![c].copy = mem.swarms[s]]
      /\ mem' = mem /\ db' = db /\ counter' = counter /\ pending' = pending /\ runner' = runner /\ copied' = copied
  BY DEF CloneSwarm
<1>2. Section
  BY <1>1, NoSection
<1>3. call \in [Callers -> CallRecs] /\ mem \in Maps
  BY DEF SwarmInv, SwarmTypes
<1>4. call[c] \in CallRecs /\ s \in Ids /\ mem.swarms[s].status # "absent" /\ mem.swarms[s] \in SwarmRecs
  <2>1. s \in Ids /\ mem.swarms[s].status # "absent"
    BY <1>1 DEF SwarmInv, Numbered
  <2> QED BY <1>3, <2>1 DEF Maps
<1>5. call' = [call EXCEPT ![c] = to]
  BY <1>1, <1>3
<1>6. to \in CallRecs /\ to.op = "template" /\ to.swarm = s /\ to.copy = mem.swarms[s]
  BY <1>4 DEF CallRecs
<1> HIDE DEF to
<1>7. \A t \in Ids : t \in ToSet(to.copy.tasks) => Listing(t, to.swarm)
  BY <1>6 DEF Listing, ListedBy
<1>8. /\ to.swarm \in Ids /\ mem'.swarms[to.swarm].status # "absent"
      /\ ~(to.op \in {"listing", "running"}) /\ 0 \in 0..MaxId
  BY <1>1, <1>4, <1>6, NoneAre
<1> HIDE DEF s
<1>9. CallsGoOn(0, 0)
  BY <1>2, <1>5, <1>6, <1>7, <1>8, CallChanges
<1> QED BY <1>1, <1>2, <1>8, <1>9, RunnersStay, SectionKeeps

LEMMA CreateSwarmTaskKeeps ==
  ASSUME SwarmInv, NEW c \in Callers, CreateSwarmTask(c)
  PROVE  SwarmInv'
<1>1. PICK op \in {"listing", "running"} :
         /\ call[c].op = IF op = "listing" THEN "start" ELSE "template"
         /\ Continue(c, op, Next1)
  BY DEF CreateSwarmTask
<1>2. MutexFree /\ NewTask(TRUE)
  BY DEF CreateSwarmTask
<1> DEFINE to == [call[c] EXCEPT !.op = op, !.task = Next1]
           fresh == Next1
           at == call[c].swarm
<1>3. call \in [Callers -> CallRecs]
  BY DEF SwarmInv, SwarmTypes
<1>4. call' = [call EXCEPT ![c] = to]
  BY <1>1, <1>3 DEF Continue
<1>5. /\ Section /\ RunnersGoOn /\ fresh \in 1..MaxId /\ fresh \in (counter + 1)..counter'
      /\ Keyed(pending', "tasks", fresh)
  BY <1>2, NewTaskSection
<1> HIDE DEF fresh
<1>6. fresh \in 0..MaxId /\ fresh # 0
  BY <1>5, SwarmAssumption
<1>7. /\ call[c] \in CallRecs /\ at \in Ids /\ mem.swarms[at].status # "absent"
      /\ \A t \in Ids : op = "running" /\ t \in ToSet(call[c].copy.tasks) => Listing(t, at)
  <2>1. at \in Ids /\ mem.swarms[at].status # "absent"
    BY <1>1 DEF SwarmInv, Numbered
  <2>2. op = "running" => call[c].op = "template"
    BY <1>1
  <2> QED BY <1>3, <2>1, <2>2 DEF Listing, ListedBy
<1>8. /\ to \in CallRecs /\ to.op = op /\ to.task = fresh /\ to.swarm = at /\ to.copy = call[c].copy
  <2>1. fresh = Next1 /\ fresh \in 0..MaxId
    BY <1>6 DEF fresh
  <2> QED BY <1>7, <2>1 DEF CallRecs
<1> HIDE DEF to
<1>9. mem'.swarms[at].status # "absent"
  BY <1>5, <1>7 DEF Section
<1> HIDE DEF at
<1>10. /\ to.swarm \in Ids /\ mem'.swarms[to.swarm].status # "absent"
       /\ (to.op \in {"template", "running"} => \A t \in Ids : t \in ToSet(to.copy.tasks) => Listing(t, to.swarm))
       /\ (to.op \in {"listing", "running"} =>
              ToBeListed(to.task, to.swarm) \/ (fresh # 0 /\ to.task = fresh /\ to.swarm = at))
  BY <1>6, <1>7, <1>8, <1>9
<1>11. CallsGoOn(fresh, at)
  BY <1>4, <1>5, <1>6, <1>8, <1>10, CallChanges
<1> QED BY <1>2, <1>5, <1>6, <1>11, SectionKeeps

\* What RebalanceSwarm saves: agent, task, agent, task, ...
GivenRows(m, pick, open, given) ==
    [i \in 1..(2 * Len(given)) |->
        (IF i % 2 = 1 THEN AgentRow(m, pick[given[(i + 1) \div 2]]) ELSE TaskRow(m, open[given[i \div 2]]))[1]]

LEMMA Halves ==
  ASSUME NEW k \in Nat
  PROVE  /\ \A i \in 1..(2 * k) : /\ i % 2 = 1 => (i + 1) \div 2 \in 1..k
                                  /\ i % 2 # 1 => i \div 2 \in 1..k
         /\ \A j \in 1..k : /\ 2 * j - 1 \in 1..(2 * k) /\ (2 * j - 1) % 2 = 1 /\ ((2 * j - 1) + 1) \div 2 = j
                            /\ 2 * j \in 1..(2 * k) /\ (2 * j) % 2 # 1 /\ (2 * j) \div 2 = j
<1>1. ASSUME NEW i \in 1..(2 * k)
      PROVE  /\ i % 2 = 1 => (i + 1) \div 2 \in 1..k
             /\ i % 2 # 1 => i \div 2 \in 1..k
  OBVIOUS
<1>2. ASSUME NEW j \in 1..k
      PROVE  /\ 2 * j - 1 \in 1..(2 * k) /\ (2 * j - 1) % 2 = 1 /\ ((2 * j - 1) + 1) \div 2 = j
             /\ 2 * j \in 1..(2 * k) /\ (2 * j) % 2 # 1 /\ (2 * j) \div 2 = j
  OBVIOUS
<1> QED BY <1>1, <1>2

LEMMA Twice ==
  ASSUME NEW k \in Nat
  PROVE  2 * k \in Nat
OBVIOUS

LEMMA ListOf ==
  ASSUME NEW X, NEW size \in Nat, NEW list, list = [i \in 1..size |-> list[i]], \A i \in 1..size : list[i] \in X
  PROVE  list \in Seq(X)
<1>1. list \in [1..size -> X]
  OBVIOUS
<1> QED BY <1>1

LEMMA SavesGiven ==
  ASSUME NEW m \in Maps, NEW n \in Nat, NEW pick, NEW open, NEW given \in Seq(1..n), NEW ag, NEW ts,
         ag = {pick[i] : i \in ToSet(given)}, ts = {open[i] : i \in ToSet(given)},
         \A i \in ToSet(given) : /\ pick[i] \in Ids /\ m.agents[pick[i]].status # "absent"
                                 /\ open[i] \in Ids /\ m.tasks[open[i]].status # "absent"
  PROVE  Saves(m, GivenRows(m, pick, open, given), ag, {}, ts)
<1> DEFINE rows == GivenRows(m, pick, open, given)
           k == Len(given)
           AgentOf(j) == Row("agents", pick[given[j]], m.agents[pick[given[j]]])
           TaskOf(j) == Row("tasks", open[given[j]], m.tasks[open[given[j]]])
<1>1. k \in Nat /\ DOMAIN given = 1..k
  OBVIOUS
<1>2. ToSet(given) = {given[j] : j \in 1..k}
  BY <1>1 DEF ToSet
<1>3. ASSUME NEW j \in 1..k
      PROVE  /\ AgentRow(m, pick[given[j]])[1] = AgentOf(j) /\ AgentOf(j) \in Statements
             /\ TaskRow(m, open[given[j]])[1] = TaskOf(j) /\ TaskOf(j) \in Statements
  <2>1. given[j] \in ToSet(given)
    BY <1>2
  <2> DEFINE a == pick[given[j]]
             t == open[given[j]]
  <2>2. a \in Ids /\ m.agents[a].status # "absent" /\ t \in Ids /\ m.tasks[t].status # "absent"
    BY <2>1
  <2> HIDE DEF a, t
  <2>3. AgentRow(m, a) = <<Row("agents", a, m.agents[a])>> /\ TaskRow(m, t) = <<Row("tasks", t, m.tasks[t])>>
    BY <2>2 DEF AgentRow, TaskRow, Exists
  <2>4. AgentRow(m, a)[1] = Row("agents", a, m.agents[a]) /\ TaskRow(m, t)[1] = Row("tasks", t, m.tasks[t])
    BY <2>3
  <2>5. Row("agents", a, m.agents[a]) \in Statements /\ Row("tasks", t, m.tasks[t]) \in Statements
    BY <2>2, RowsAre
  <2> QED BY <2>4, <2>5 DEF a, t
<1>4. /\ \A i \in 1..(2 * k) : rows[i] = IF i % 2 = 1 THEN AgentRow(m, pick[given[(i + 1) \div 2]])[1]
                                                      ELSE TaskRow(m, open[given[i \div 2]])[1]
      /\ DOMAIN rows = 1..(2 * k) /\ rows = [i \in 1..(2 * k) |-> rows[i]]
  BY DEF GivenRows
<1> HIDE DEF rows, k
<1>5. \A i \in 1..(2 * k) : \E j \in 1..k : rows[i] = AgentRow(m, pick[given[j]])[1] \/ rows[i] = TaskRow(m, open[given[j]])[1]
  BY <1>1, <1>4, Halves
<1>6. \A j \in 1..k : \E i1, i2 \in 1..(2 * k) : rows[i1] = AgentRow(m, pick[given[j]])[1] /\ rows[i2] = TaskRow(m, open[given[j]])[1]
  <2> TAKE j \in 1..k
  <2> DEFINE i1 == 2 * j - 1
             i2 == 2 * j
  <2>1. /\ i1 \in 1..(2 * k) /\ i1 % 2 = 1 /\ (i1 + 1) \div 2 = j
        /\ i2 \in 1..(2 * k) /\ i2 % 2 # 1 /\ i2 \div 2 = j
    BY <1>1, Halves
  <2> HIDE DEF i1, i2
  <2>2. rows[i1] = AgentRow(m, pick[given[j]])[1] /\ rows[i2] = TaskRow(m, open[given[j]])[1]
    BY <1>4, <2>1
  <2> QED BY <2>1, <2>2
<1> HIDE DEF AgentOf, TaskOf
<1>7. rows \in Seq(Statements)
  <2>1. \A i \in 1..(2 * k) : rows[i] \in Statements
    BY <1>3, <1>5
  <2>2. 2 * k \in Nat
    BY <1>1, Twice
  <2> DEFINE size == 2 * k
  <2>3. size \in Nat /\ rows = [i \in 1..size |-> rows[i]] /\ \A i \in 1..size : rows[i] \in Statements
    BY <1>4, <2>1, <2>2
  <2> HIDE DEF size
  <2> QED BY <2>3, ListOf
<1>8. ToSet(rows) = {AgentOf(j) : j \in 1..k} \cup {TaskOf(j) : j \in 1..k}
  <2>1. ToSet(rows) = {rows[i] : i \in 1..(2 * k)}
    BY <1>4 DEF ToSet
  <2>2. \A i \in 1..(2 * k) : rows[i] \in {AgentOf(j) : j \in 1..k} \cup {TaskOf(j) : j \in 1..k}
    <3> TAKE i \in 1..(2 * k)
    <3>1. PICK j \in 1..k : rows[i] = AgentRow(m, pick[given[j]])[1] \/ rows[i] = TaskRow(m, open[given[j]])[1]
      BY <1>5
    <3>2. AgentRow(m, pick[given[j]])[1] = AgentOf(j) /\ TaskRow(m, open[given[j]])[1] = TaskOf(j)
      BY <1>3
    <3>3. rows[i] = AgentOf(j) \/ rows[i] = TaskOf(j)
      BY <3>1, <3>2
    <3> QED BY <3>3
  <2>3. \A j \in 1..k : AgentOf(j) \in {rows[i] : i \in 1..(2 * k)} /\ TaskOf(j) \in {rows[i] : i \in 1..(2 * k)}
    BY <1>3, <1>6
  <2> QED BY <2>1, <2>2, <2>3
<1>9. {AgentOf(j) : j \in 1..k} = {Row("agents", a, m.agents[a]) : a \in ag}
  <2>1. ag = {pick[given[j]] : j \in 1..k}
    BY <1>2
  <2> DEFINE All == {Row("agents", i, m.agents[i]) : i \in ag}
  <2>2. \A j \in 1..k : AgentOf(j) \in All
    <3> TAKE j \in 1..k
    <3>1. pick[given[j]] \in ag
      BY <2>1
    <3> QED BY <3>1 DEF AgentOf
  <2>3. ASSUME NEW r \in All
        PROVE  \E j \in 1..k : r = AgentOf(j)
    <3>1. PICK i \in ag : r = Row("agents", i, m.agents[i])
      BY <2>3
    <3>2. PICK j \in 1..k : i = pick[given[j]]
      BY <2>1
    <3> QED BY <3>1, <3>2 DEF AgentOf
  <2> HIDE DEF All
  <2>4. {AgentOf(j) : j \in 1..k} = All
    BY <2>2, <2>3
  <2> QED BY <2>4 DEF All
<1>10. {TaskOf(j) : j \in 1..k} = {Row("tasks", t, m.tasks[t]) : t \in ts}
  <2>1. ts = {open[given[j]] : j \in 1..k}
    BY <1>2
  <2> DEFINE All == {Row("tasks", i, m.tasks[i]) : i \in ts}
  <2>2. \A j \in 1..k : TaskOf(j) \in All
    <3> TAKE j \in 1..k
    <3>1. open[given[j]] \in ts
      BY <2>1
    <3> QED BY <3>1 DEF TaskOf
  <2>3. ASSUME NEW r \in All
        PROVE  \E j \in 1..k : r = TaskOf(j)
    <3>1. PICK i \in ts : r = Row("tasks", i, m.tasks[i])
      BY <2>3
    <3>2. PICK j \in 1..k : i = open[given[j]]
      BY <2>1
    <3> QED BY <3>1, <3>2 DEF TaskOf
  <2> HIDE DEF All
  <2>4. {TaskOf(j) : j \in 1..k} = All
    BY <2>2, <2>3
  <2> QED BY <2>4 DEF All
<1> QED BY <1>7, <1>8, <1>9, <1>10 DEF Saves, rows

\* Some tasks get an agent, each the one that was picked for it.
GivenAll(m, ts, to) ==
    [m EXCEPT !.tasks = [t \in Ids |-> IF t \in ts THEN GiveTo(m.tasks[t], to[t]) ELSE m.tasks[t]]]

LEMMA TasksGiven ==
  ASSUME SwarmInv, NEW m \in Maps, m.tasks = mem.tasks, NEW ts, NEW to,
         \A t \in ts : mem.tasks[t].status # "absent" /\ to[t] \in Ids
  PROVE  /\ GivenAll(m, ts, to) \in Maps /\ GivenAll(m, ts, to).agents = m.agents /\ GivenAll(m, ts, to).swarms = m.swarms
         /\ \A t \in Ids : /\ t \notin ts => GivenAll(m, ts, to).tasks[t] = mem.tasks[t]
                           /\ mem.tasks[t].status # "absent" => GivenAll(m, ts, to).tasks[t].status # "absent"
<1> DEFINE n == GivenAll(m, ts, to)
           tasks == [t \in Ids |-> IF t \in ts THEN GiveTo(m.tasks[t], to[t]) ELSE m.tasks[t]]
<1>1. \A t \in Ids : /\ t \notin ts => tasks[t] = mem.tasks[t]
                     /\ t \in ts => tasks[t] = GiveTo(mem.tasks[t], to[t])
  OBVIOUS
<1>2. tasks = [t \in Ids |-> tasks[t]] /\ n = [m EXCEPT !.tasks = tasks]
  BY DEF GivenAll
<1> HIDE DEF tasks, n
<1>3. \A t \in Ids : mem.tasks[t] \in TaskRecs /\ \A a \in Ids : GiveTo(mem.tasks[t], a) \in TaskRecs
                                                     /\ (mem.tasks[t].status # "absent" => GiveTo(mem.tasks[t], a).status # "absent")
  BY TaskMay
<1>4. \A t \in Ids : tasks[t] \in TaskRecs /\ (mem.tasks[t].status # "absent" => tasks[t].status # "absent")
  BY <1>1, <1>3
<1>5. tasks \in [Ids -> TaskRecs]
  BY <1>2, <1>4
<1>6. n \in Maps /\ n.agents = m.agents /\ n.swarms = m.swarms /\ n.tasks = tasks
  BY <1>2, <1>5 DEF Maps
<1> QED BY <1>1, <1>4, <1>6 DEF n

LEMMA RebalanceSwarmKeeps ==
  ASSUME SwarmInv, NEW s \in Ids, RebalanceSwarm(s)
  PROVE  SwarmInv'
<1> DEFINE sw == mem.swarms[s]
           open == Those(sw.tasks, LAMBDA t : mem.tasks[t].status \notin Ended \cup {"absent"})
           live == Live(mem, sw)
           Picks(pick) == {pick[i] : i \in 1..Len(open)} \ {0}
           To(pick, t) == {i \in 1..Len(open) : open[i] = t /\ pick[i] # 0}
           Updated(pick) == [SetAgents(mem, Picks(pick), "busy") EXCEPT !.tasks =
                             [t \in Ids |-> IF To(pick, t) = {} THEN @[t]
                                            ELSE GiveTo(@[t], pick[CHOOSE i \in To(pick, t) : TRUE])]]
           Picked(pick) == Those([i \in 1..Len(open) |-> i], LAMBDA i : pick[i] # 0)
<1>1. /\ MutexFree /\ mem.swarms[s].status # "absent"
      /\ counter' = counter /\ db' = db /\ copied' = copied /\ call' = call /\ runner' = runner
  BY DEF RebalanceSwarm, Exists, Rest
<1>2. PICK pick \in [1..Len(open) -> live \cup {0}] :
         Update(Updated(pick), GivenRows(Updated(pick), pick, open, Picked(pick)) \o SwarmRow(Updated(pick), s))
  BY Zenon DEF RebalanceSwarm, GivenRows
<1> DEFINE m == Updated(pick)
           chosen == Picks(pick)
           places == {i \in 1..Len(open) : pick[i] # 0}
           ts == {open[i] : i \in places}
           given == Picked(pick)
           to == [t \in Ids |-> pick[CHOOSE i \in To(pick, t) : TRUE]]
           busy == SetAgents(mem, chosen, "busy")
<1>3. /\ mem \in Maps /\ mem.swarms[s] \in SwarmRecs /\ sw.tasks \in Seq(Ids) /\ counter \in 0..MaxId /\ counter <= counter
  BY MapsOf DEF SwarmRecs
<1>4. open \in Seq(Ids) /\ \A t \in ToSet(open) : mem.tasks[t].status # "absent"
  <2> DEFINE at == {i \in DOMAIN sw.tasks : mem.tasks[sw.tasks[i]].status \notin Ended \cup {"absent"}}
  <2>1. open = ElementsAt(sw.tasks, at)
    BY DEF Those
  <2>2. \A i \in at : mem.tasks[sw.tasks[i]].status # "absent"
    OBVIOUS
  <2> HIDE DEF at, open, sw
  <2>3. open \in Seq(Ids) /\ ToSet(open) = {sw.tasks[i] : i \in at \cap DOMAIN sw.tasks}
    BY <1>3, <2>1, ElementsAtPlaces
  <2> QED BY <2>2, <2>3
<1>5. \A i \in 1..Len(open) : open[i] \in Ids /\ mem.tasks[open[i]].status # "absent"
  <2> HIDE DEF open
  <2>1. \A i \in 1..Len(open) : open[i] \in Ids /\ open[i] \in ToSet(open)
    BY <1>4 DEF ToSet
  <2> QED BY <1>4, <2>1
<1>6. \A a \in live : a \in Ids /\ mem.agents[a].status # "absent"
  BY DEF Live, Members
<1>7. given \in Seq(1..Len(open)) /\ ToSet(given) = places
  <2> DEFINE all == [i \in 1..Len(open) |-> i]
             at == {i \in DOMAIN all : pick[all[i]] # 0}
  <2>1. given = ElementsAt(all, at)
    BY DEF Those
  <2>2. Len(open) \in Nat
    <3> HIDE DEF open
    <3> QED BY <1>4
  <2> HIDE DEF open
  <2>3. all \in Seq(1..Len(open)) /\ at = places /\ DOMAIN all = 1..Len(open) /\ \A i \in 1..Len(open) : all[i] = i
    BY <2>2
  <2> HIDE DEF all, at, given, places
  <2>4. given \in Seq(1..Len(open)) /\ ToSet(given) = {all[i] : i \in at \cap DOMAIN all}
    BY <2>1, <2>3, ElementsAtPlaces
  <2>5. {all[i] : i \in at \cap DOMAIN all} = places
    <3>1. places \subseteq 1..Len(open)
      BY DEF places
    <3> QED BY <2>3, <3>1
  <2> QED BY <2>4, <2>5
<1>8. m = GivenAll(busy, ts, to)
  <2> DEFINE F == [t \in Ids |-> IF To(pick, t) = {} THEN busy.tasks[t]
                                 ELSE GiveTo(busy.tasks[t], pick[CHOOSE i \in To(pick, t) : TRUE])]
             G == [t \in Ids |-> IF t \in ts THEN GiveTo(busy.tasks[t], to[t]) ELSE busy.tasks[t]]
  <2>1. ASSUME NEW t \in Ids
        PROVE  F[t] = G[t]
    <3>1. To(pick, t) = {} <=> t \notin ts
      OBVIOUS
    <3>2. to[t] = pick[CHOOSE i \in To(pick, t) : TRUE]
      OBVIOUS
    <3> HIDE DEF busy, ts, to, To
    <3>3. F[t] = IF To(pick, t) = {} THEN busy.tasks[t] ELSE GiveTo(busy.tasks[t], pick[CHOOSE i \in To(pick, t) : TRUE])
      BY Zenon
    <3>4. G[t] = IF t \in ts THEN GiveTo(busy.tasks[t], to[t]) ELSE busy.tasks[t]
      BY Zenon
    <3> HIDE DEF F, G
    <3> QED BY <3>1, <3>2, <3>3, <3>4, Zenon
  <2>2. F = [t \in Ids |-> F[t]] /\ G = [t \in Ids |-> G[t]]
    <3> HIDE DEF busy, ts, to, To
    <3>1. F = [t \in Ids |-> F[t]]
      OBVIOUS
    <3>2. G = [t \in Ids |-> G[t]]
      OBVIOUS
    <3> QED BY <3>1, <3>2
  <2>3. m = [busy EXCEPT !.tasks = F]
    OBVIOUS
  <2>4. GivenAll(busy, ts, to) = [busy EXCEPT !.tasks = G]
    BY DEF GivenAll
  <2> HIDE DEF F, G, m, busy, ts, to
  <2>5. F = G
    BY <2>1, <2>2, Zenon
  <2> QED BY <2>3, <2>4, <2>5, Zenon
<1> HIDE DEF open, live
<1>9. \A i \in places : pick[i] \in live /\ pick[i] \in Ids /\ open[i] \in Ids
  BY <1>5, <1>6
<1>10. \A t \in ts : mem.tasks[t].status # "absent" /\ to[t] \in Ids
  <2> SUFFICES ASSUME NEW t \in ts
               PROVE  mem.tasks[t].status # "absent" /\ to[t] \in Ids
    OBVIOUS
  <2>1. PICK i \in places : t = open[i]
    OBVIOUS
  <2>2. i \in 1..Len(open) /\ t \in Ids /\ i \in To(pick, t)
    BY <1>9, <2>1
  <2>3. (CHOOSE j \in To(pick, t) : TRUE) \in To(pick, t)
    BY <2>2
  <2>4. (CHOOSE j \in To(pick, t) : TRUE) \in places
    BY <2>3
  <2>5. to[t] = pick[CHOOSE j \in To(pick, t) : TRUE]
    BY <2>2
  <2> HIDE DEF To, to
  <2> QED BY <1>5, <1>9, <2>1, <2>2, <2>4, <2>5
<1>11. chosen = {pick[i] : i \in places} /\ \A a \in chosen : a \in Ids /\ mem.agents[a].status # "absent"
  BY <1>6, <1>9
<1>12. ts = {open[i] : i \in ToSet(given)} /\ chosen = {pick[i] : i \in ToSet(given)}
  BY <1>7, <1>11
<1> HIDE DEF m, chosen, places, ts, given, to, busy, Picks, To, Updated, Picked
<1>13. /\ busy \in Maps /\ busy.swarms = mem.swarms /\ busy.tasks = mem.tasks
       /\ \A a \in Ids : busy.agents[a] = IF a \in chosen THEN [mem.agents[a] EXCEPT !.status = "busy"] ELSE mem.agents[a]
  BY <1>3, AgentsSet DEF busy
<1>14. \A a \in Ids : busy.agents[a].status = "absent" => a \notin chosen /\ mem.agents[a].status = "absent"
  BY <1>3, AgentsStay DEF busy
<1>15. /\ m \in Maps /\ m.agents = busy.agents /\ m.swarms = busy.swarms
       /\ \A t \in Ids : /\ t \notin ts => m.tasks[t] = mem.tasks[t]
                         /\ mem.tasks[t].status # "absent" => m.tasks[t].status # "absent"
  <2>1. busy \in Maps /\ busy.tasks = mem.tasks
    BY <1>13
  <2> QED BY <1>8, <1>10, <2>1, TasksGiven
<1>16. Saves(m, GivenRows(m, pick, open, given), chosen, {}, ts)
  <2>1. \A i \in ToSet(given) : /\ pick[i] \in Ids /\ m.agents[pick[i]].status # "absent"
                                /\ open[i] \in Ids /\ m.tasks[open[i]].status # "absent"
    <3> TAKE i \in ToSet(given)
    <3>1. pick[i] \in chosen /\ pick[i] \in Ids
      BY <1>7, <1>9, <1>11
    <3>2. open[i] \in Ids /\ mem.tasks[open[i]].status # "absent"
      BY <1>5, <1>7 DEF places
    <3> QED BY <1>14, <1>15, <3>1, <3>2
  <2>2. Len(open) \in Nat
    BY <1>4
  <2> QED BY <1>7, <1>12, <1>15, <2>1, <2>2, SavesGiven
<1>17. Saves(m, SwarmRow(m, s), {}, {s}, {})
  BY <1>15, SavesOne
<1>18. Saves(m, GivenRows(m, pick, open, given) \o SwarmRow(m, s), chosen \cup {}, {} \cup {s}, ts \cup {})
  BY <1>16, <1>17, SavesBoth
<1>19. mem' = m /\ pending' = GivenRows(m, pick, open, given) \o SwarmRow(m, s)
  BY <1>2 DEF Update, m, given
<1> DEFINE ss == {s}
<1>20. Saves(mem', pending', chosen, ss, ts) /\ mem' \in Maps
  BY <1>15, <1>18, <1>19
<1>21. chosen \subseteq 1..counter' /\ ss \subseteq 1..counter' /\ ts \subseteq 1..counter'
  <2>1. \A a \in chosen : a \in 1..counter
    BY <1>11, InUse
  <2>2. \A t \in ts : t \in 1..counter
    BY <1>7, <1>9, <1>10, <1>12, InUse
  <2>3. s \in 1..counter
    BY <1>1, InUse
  <2> QED BY <1>1, <2>1, <2>2, <2>3
<1>22. \A i \in Ids :
         /\ mem'.agents[i] = mem.agents[i] \/ i \in chosen
         /\ mem'.swarms[i] = mem.swarms[i] \/ i \in ss
         /\ mem'.tasks[i] = mem.tasks[i] \/ i \in ts
         /\ mem.tasks[i].status # "absent" => mem'.tasks[i].status # "absent"
         /\ mem.swarms[i].status # "absent" => mem'.swarms[i].status # "absent"
         /\ mem'.swarms[i].tasks = mem.swarms[i].tasks \/ mem'.swarms[i].tasks = <<>>
  BY <1>13, <1>15, <1>19
<1> HIDE DEF ss, sw
<1>23. counter' \in 0..MaxId /\ counter <= counter' /\ db' = db /\ copied' = copied /\ MutexFree
  BY <1>1, <1>3
<1>24. Section
  <2>1. Saving(chosen, ss, ts)
    BY <1>20, <1>21, <1>22, <1>23 DEF Saving
  <2> QED BY <1>23, <2>1, SavingIsSection
<1> QED BY <1>1, <1>24, SectionAlone

(* ---------------------- what is saved from a copy ---------------------- *)

\* A section that saves all it changes, or something else from a copy.
LEMMA RightSection ==
  ASSUME SwarmInv, MutexFree, mem' \in Maps, pending' \in Seq(Statements),
         counter' = counter, db' = db, copied \subseteq copied',
         \A r \in ToSet(pending') :
            /\ Right(mem', r, copied') /\ r.id <= counter
            /\ \A t \in Ids : r.table = "swarms" /\ t \in ToSet(r.value.tasks) => Listing(t, r.id)
            /\ r.table = "tasks" => mem.tasks[r.id].status # "absent",
         \A i \in Ids :
            /\ mem'.agents[i] = mem.agents[i] \/ Keyed(pending', "agents", i)
            /\ mem'.swarms[i] = mem.swarms[i] \/ Keyed(pending', "swarms", i)
            /\ mem'.tasks[i] = mem.tasks[i]
            /\ mem.swarms[i].status # "absent" => mem'.swarms[i].status # "absent",
         \A t, s \in Ids : t \in ToSet(mem'.swarms[s].tasks) => Listing(t, s)
  PROVE  Section
<1>1. pending' # <<>> => /\ \A r \in ToSet(Tail(pending')) : Right(mem', r, copied')
                         /\ Right(mem', Head(pending'), copied')
  <2> SUFFICES ASSUME pending' # <<>>
               PROVE  /\ \A r \in ToSet(Tail(pending')) : Right(mem', r, copied')
                      /\ Right(mem', Head(pending'), copied')
    OBVIOUS
  <2>1. ToSet(pending') = {Head(pending')} \cup ToSet(Tail(pending'))
    BY HeadAndTail
  <2> QED BY <2>1
<1>2. counter' \in 0..MaxId /\ counter <= counter'
  BY MapsOf
<1>3. ASSUME NEW r \in ToSet(pending'), r.table = "tasks"
      PROVE  mem'.tasks[r.id].status # "absent"
  <2>1. r.id \in Ids
    BY InList DEF Statements
  <2>2. mem.tasks[r.id].status # "absent"
    BY <1>3
  <2>3. mem'.tasks[r.id] = mem.tasks[r.id]
    BY <2>1
  <2> QED BY <2>2, <2>3
<1>4. \A i \in Ids : mem'.tasks[i] = mem.tasks[i]
  OBVIOUS
<1> QED BY <1>1, <1>2, <1>3, <1>4 DEF Section

\* The statements for the agent that is picked and the copy of its task.
PickedRows(m, t, a) == IF a = 0 THEN <<>> ELSE AgentRow(m, a) \o CopyRow(t, a)

LEMMA PickedRowsAre ==
  ASSUME NEW m \in Maps, NEW t \in Ids, NEW a, a = 0 \/ (a \in Ids /\ m.agents[a].status # "absent")
  PROVE  /\ PickedRows(m, t, a) \in Seq(Statements)
         /\ \A r \in ToSet(PickedRows(m, t, a)) :
               /\ a # 0
               /\ \/ r.table = "agents" /\ r.id = a /\ r.value = m.agents[a]
                  \/ r.table = "tasks" /\ r.id = t
         /\ a # 0 => Keyed(PickedRows(m, t, a), "agents", a)
<1>1. CASE a = 0
  <2> DEFINE rows == PickedRows(m, t, a)
  <2>1. rows = <<>>
    BY <1>1 DEF PickedRows
  <2>2. <<>> \in Seq(Statements) /\ ToSet(<<>>) = {}
    BY DEF ToSet
  <2> HIDE DEF rows
  <2>3. rows \in Seq(Statements) /\ ToSet(rows) = {}
    BY <2>1, <2>2
  <2> QED BY <1>1, <2>3 DEF rows
<1>2. ASSUME a # 0
      PROVE  /\ PickedRows(m, t, a) \in Seq(Statements)
             /\ \A r \in ToSet(PickedRows(m, t, a)) :
                   \/ r.table = "agents" /\ r.id = a /\ r.value = m.agents[a]
                   \/ r.table = "tasks" /\ r.id = t
             /\ Keyed(PickedRows(m, t, a), "agents", a)
  <2>1. a \in Ids /\ m.agents[a].status # "absent" /\ PickedRows(m, t, a) = AgentRow(m, a) \o CopyRow(t, a)
    BY <1>2 DEF PickedRows
  <2> DEFINE task == [Queued EXCEPT !.assigned = a, !.status = "assigned"]
  <2>2. task \in TaskRecs /\ task.status # "absent"
    <3>1. a \in 0..MaxId
      BY <2>1 DEF Ids
    <3> QED BY <3>1 DEF TaskRecs, Queued
  <2> HIDE DEF task
  <2> DEFINE one == Row("agents", a, m.agents[a])
             two == Row("tasks", t, task)
  <2>3. two \in Statements /\ one \in Statements
    BY <2>1, <2>2, RowsAre DEF Statements, Row
  <2>4. CopyRow(t, a) = <<two>> /\ AgentRow(m, a) = <<one>>
    BY <2>1 DEF CopyRow, AgentRow, Exists, task
  <2>5. /\ one.table = "agents" /\ one.id = a /\ one.value = m.agents[a]
        /\ two.table = "tasks" /\ two.id = t
    BY RowParts
  <2> HIDE DEF one, two
  <2>6. <<one>> \in Seq(Statements) /\ <<two>> \in Seq(Statements) /\ ToSet(<<one>>) = {one} /\ ToSet(<<two>>) = {two}
    BY <2>3, OneRow
  <2> DEFINE first == <<one>>
             second == <<two>>
  <2>8. PickedRows(m, t, a) = first \o second
    BY <2>1, <2>4
  <2>9. first \in Seq(Statements) /\ second \in Seq(Statements) /\ ToSet(first) = {one} /\ ToSet(second) = {two}
    BY <2>6
  <2> HIDE DEF first, second
  <2>7. PickedRows(m, t, a) \in Seq(Statements) /\ ToSet(PickedRows(m, t, a)) = {one, two}
    BY <2>8, <2>9, JoinedElements
  <2> QED BY <2>5, <2>7 DEF Keyed
<1> QED BY <1>1, <1>2

\* The swarm lists the task it was to list.
LEMMA ListTaskKeeps ==
  ASSUME SwarmInv, NEW c \in Callers, ListTask(c)
  PROVE  SwarmInv'
<1> DEFINE s == call[c].swarm
           t == call[c].task
           list == Append(mem.swarms[s].tasks, t)
           listed == [mem EXCEPT !.swarms[s].tasks = Append(@, t)]
           sw == [mem.swarms[s] EXCEPT !.tasks = list]
           Updated(a) == SetAgents(listed, {a}, "busy")
<1>1. /\ MutexFree /\ call[c].op = "listing" /\ Return(c)
      /\ counter' = counter /\ db' = db /\ runner' = runner
  BY DEF ListTask
<1>2. PICK a \in Selectable(listed, mem.swarms[s]) :
         /\ Update(Updated(a), PickedRows(Updated(a), t, a) \o SwarmRow(Updated(a), s))
         /\ copied' = IF a = 0 THEN copied ELSE copied \cup {t}
  BY Zenon DEF ListTask, PickedRows
<1>3. s \in Ids /\ mem.swarms[s].status # "absent" /\ t \in 1..counter
  BY <1>1 DEF SwarmInv, Numbered
<1>4. t \in Ids
  <2>1. counter \in Nat /\ MaxId \in Nat /\ counter <= MaxId
    BY MapsOf, SwarmAssumption
  <2> QED BY <1>3, <2>1 DEF Ids
<1>0. mem.tasks[t].status # "absent"
  BY <1>1, <1>3, <1>4 DEF SwarmInv, TasksKept, ToBeListed
<1>5. ToBeListed(t, s)
  BY <1>1 DEF ToBeListed
<1> HIDE DEF s, t
<1>6. mem.swarms[s] \in SwarmRecs /\ mem.swarms[s].tasks \in Seq(Ids)
  BY <1>3, MapsOf DEF SwarmRecs
<1>7. list \in Seq(Ids) /\ ToSet(list) = ToSet(mem.swarms[s].tasks) \cup {t}
  BY <1>4, <1>6, AppendedElements
<1>8. listed = [mem EXCEPT !.swarms[s] = sw]
  OBVIOUS
<1> HIDE DEF list
<1>9. sw \in SwarmRecs /\ sw.status # "absent" /\ sw.tasks = list /\ sw.agents = mem.swarms[s].agents
  BY <1>3, <1>6, <1>7, SwarmMay
<1> HIDE DEF sw, listed
<1>10. /\ listed \in Maps /\ listed.agents = mem.agents /\ listed.tasks = mem.tasks
       /\ \A u \in Ids : listed.swarms[u] = IF u = s THEN sw ELSE mem.swarms[u]
  BY <1>3, <1>8, <1>9, MapsOf, SwarmChanged
<1>11. a = 0 \/ (a \in Ids /\ mem.agents[a].status # "absent")
  BY <1>10 DEF Selectable, Live, Members
<1> DEFINE m == Updated(a)
<1>12. /\ m \in Maps /\ m.swarms = listed.swarms /\ m.tasks = listed.tasks
       /\ \A i \in Ids : i # a => m.agents[i] = mem.agents[i]
       /\ a # 0 => m.agents[a].status # "absent"
  <2> DEFINE set == {a}
             n == SetAgents(listed, set, "busy")
  <2>1. n = m /\ \A i : i \in set <=> i = a
    OBVIOUS
  <2> HIDE DEF m, Updated, set
  <2>2. /\ n \in Maps /\ n.swarms = listed.swarms /\ n.tasks = listed.tasks
        /\ \A i \in Ids : n.agents[i] = IF i \in set THEN [listed.agents[i] EXCEPT !.status = "busy"] ELSE listed.agents[i]
    BY <1>10, AgentsSet
  <2>3. \A i \in Ids : n.agents[i].status = "absent" => i \notin set /\ listed.agents[i].status = "absent"
    BY <1>10, AgentsStay
  <2> HIDE DEF n
  <2>4. a # 0 => n.agents[a].status # "absent"
    BY <1>11, <2>1, <2>3
  <2>5. \A i \in Ids : i # a => n.agents[i] = mem.agents[i]
    BY <1>10, <2>1, <2>2
  <2> QED BY <2>1, <2>2, <2>4, <2>5
<1> DEFINE picked == PickedRows(m, t, a)
           swarmRow == SwarmRow(m, s)
<1>13. mem' = m /\ pending' = picked \o swarmRow
  BY <1>2 DEF Update
<1> HIDE DEF m, Updated
<1>14. /\ picked \in Seq(Statements)
       /\ \A r \in ToSet(picked) :
             /\ a # 0
             /\ \/ r.table = "agents" /\ r.id = a /\ r.value = m.agents[a]
                \/ r.table = "tasks" /\ r.id = t
       /\ a # 0 => Keyed(picked, "agents", a)
  <2>1. a = 0 \/ (a \in Ids /\ m.agents[a].status # "absent")
    BY <1>11, <1>12
  <2> QED BY <1>4, <1>12, <2>1, PickedRowsAre
<1>15. /\ swarmRow \in Seq(Statements)
       /\ \A r \in ToSet(swarmRow) : r.table = "swarms" /\ r.id = s /\ r.value = m.swarms[s]
       /\ Keyed(swarmRow, "swarms", s)
  <2>1. swarmRow = <<Row("swarms", s, m.swarms[s])>> /\ Row("swarms", s, m.swarms[s]) \in Statements
    BY <1>3, <1>12, RowsAre DEF SwarmRow
  <2>2. swarmRow \in Seq(Statements) /\ ToSet(swarmRow) = {Row("swarms", s, m.swarms[s])}
    BY <2>1, OneRow
  <2> QED BY <2>2, RowParts DEF Keyed
<1> HIDE DEF picked, swarmRow
<1>16. pending' \in Seq(Statements) /\ ToSet(pending') = ToSet(picked) \cup ToSet(swarmRow)
  BY <1>13, <1>14, <1>15, JoinedElements
<1>17. a # 0 => t \in copied'
  BY <1>2
<1>18. copied \subseteq copied'
  BY <1>2
<1>19. \A u \in Ids : u \in ToSet(m.swarms[s].tasks) => Listing(u, s)
  BY <1>3, <1>5, <1>7, <1>9, <1>10, <1>12 DEF Listing, ListedBy
<1>20. ASSUME NEW r \in ToSet(pending')
       PROVE  /\ Right(mem', r, copied') /\ r.id <= counter
              /\ \A u \in Ids : r.table = "swarms" /\ u \in ToSet(r.value.tasks) => Listing(u, r.id)
              /\ r.table = "tasks" => mem.tasks[r.id].status # "absent"
  <2>1. s \in 1..counter /\ (a # 0 => a \in 1..counter)
    BY <1>3, <1>11, InUse
  <2>2. ASSUME r.table = "agents", r.id = a, r.value = m.agents[a], a # 0
        PROVE  /\ Right(mem', r, copied') /\ r.id <= counter
               /\ \A u \in Ids : r.table = "swarms" /\ u \in ToSet(r.value.tasks) => Listing(u, r.id)
               /\ r.table = "tasks" => mem.tasks[r.id].status # "absent"
    <3>1. r.id <= counter
      BY <2>1, <2>2
    <3> QED BY <1>13, <2>2, <3>1 DEF Right
  <2>3. ASSUME r.table = "tasks", r.id = t, a # 0
        PROVE  /\ Right(mem', r, copied') /\ r.id <= counter
               /\ \A u \in Ids : r.table = "swarms" /\ u \in ToSet(r.value.tasks) => Listing(u, r.id)
               /\ r.table = "tasks" => mem.tasks[r.id].status # "absent"
    <3>1. r.id <= counter
      BY <1>3, <2>3
    <3> QED BY <1>17, <1>0, <2>3, <3>1 DEF Right
  <2>4. ASSUME r.table = "swarms", r.id = s, r.value = m.swarms[s]
        PROVE  /\ Right(mem', r, copied') /\ r.id <= counter
               /\ \A u \in Ids : r.table = "swarms" /\ u \in ToSet(r.value.tasks) => Listing(u, r.id)
               /\ r.table = "tasks" => mem.tasks[r.id].status # "absent"
    <3>1. r.id <= counter
      BY <2>1, <2>4
    <3> QED BY <1>13, <1>19, <2>4, <3>1 DEF Right
  <2> QED BY <1>14, <1>15, <1>16, <2>2, <2>3, <2>4
<1>21. ASSUME NEW i \in Ids
       PROVE  /\ mem'.agents[i] = mem.agents[i] \/ Keyed(pending', "agents", i)
              /\ mem'.swarms[i] = mem.swarms[i] \/ Keyed(pending', "swarms", i)
              /\ mem'.tasks[i] = mem.tasks[i]
              /\ mem.swarms[i].status # "absent" => mem'.swarms[i].status # "absent"
  <2>1. \A table, id : Keyed(picked, table, id) \/ Keyed(swarmRow, table, id) => Keyed(pending', table, id)
    BY <1>16 DEF Keyed
  <2>2. a # 0 \/ i # a
    BY DEF Ids
  <2>3. mem'.agents[i] = mem.agents[i] \/ Keyed(pending', "agents", i)
    BY <1>12, <1>13, <1>14, <2>1, <2>2
  <2>4. mem'.swarms[i] = IF i = s THEN sw ELSE mem.swarms[i]
    BY <1>10, <1>12, <1>13
  <2>5. mem'.tasks[i] = mem.tasks[i]
    BY <1>10, <1>12, <1>13
  <2> QED BY <1>9, <1>15, <2>1, <2>3, <2>4, <2>5
<1>22. \A u, v \in Ids : u \in ToSet(mem'.swarms[v].tasks) => Listing(u, v)
  <2> SUFFICES ASSUME NEW u \in Ids, NEW v \in Ids, u \in ToSet(mem'.swarms[v].tasks)
               PROVE  Listing(u, v)
    OBVIOUS
  <2>1. CASE v = s
    BY <1>13, <1>19, <2>1
  <2>2. CASE v # s
    BY <1>10, <1>12, <1>13, <2>2 DEF Listing, ListedBy
  <2> QED BY <2>1, <2>2
<1>23. Section
  <2>1. mem' \in Maps
    BY <1>12, <1>13
  <2> QED BY <1>1, <1>16, <1>18, <1>20, <1>21, <1>22, <2>1, RightSection
<1> QED BY <1>1, <1>23, CallReturns, RunnersStay, SectionKeeps, NoneAre

\* A swarm copied earlier that is now running and lists one task more.
LEMMA CopyListed ==
  ASSUME NEW sw \in SwarmRecs, NEW t \in Ids
  PROVE  LET copy == [sw EXCEPT !.status = "running", !.tasks = Append(@, t)] IN
         /\ copy \in SwarmRecs /\ copy.status = "running" /\ copy.agents = sw.agents
         /\ ToSet(copy.tasks) = ToSet(sw.tasks) \cup {t}
<1> DEFINE copy == [sw EXCEPT !.status = "running", !.tasks = Append(@, t)]
           list == Append(sw.tasks, t)
           run == [sw EXCEPT !.status = "running"]
<1>1. sw.tasks \in Seq(Ids)
  BY DEF SwarmRecs
<1>2. list \in Seq(Ids) /\ ToSet(list) = ToSet(sw.tasks) \cup {t}
  BY <1>1, AppendedElements
<1>3. copy = [run EXCEPT !.tasks = list]
  BY DEF SwarmRecs
<1>4. run \in SwarmRecs /\ run.status = "running" /\ run.agents = sw.agents
  BY DEF SwarmRecs
<1> HIDE DEF list, run, copy
<1>5. copy \in SwarmRecs /\ copy.status = "running" /\ copy.agents = run.agents /\ copy.tasks = list
  BY <1>2, <1>3, <1>4, SwarmMay
<1>6. /\ copy \in SwarmRecs /\ copy.status = "running" /\ copy.agents = sw.agents
      /\ ToSet(copy.tasks) = ToSet(sw.tasks) \cup {t}
  BY <1>2, <1>4, <1>5
<1> QED BY <1>6 DEF copy

LEMMA RunTemplateTaskKeeps ==
  ASSUME SwarmInv, NEW c \in Callers, RunTemplateTask(c)
  PROVE  SwarmInv'
<1> DEFINE s == call[c].swarm
           t == call[c].task
           copy == [call[c].copy EXCEPT !.status = "running", !.tasks = Append(@, t)]
           who == Members(mem, copy)
           busy == SetAgents(mem, who, "busy")
           Updated(a) == SetAgents(busy, {a}, "busy")
           copyRow == <<Row("swarms", s, copy)>>
<1>1. /\ MutexFree /\ call[c].op = "running" /\ Return(c) /\ copied' = copied \cup {s, t}
      /\ counter' = counter /\ db' = db /\ runner' = runner
  BY DEF RunTemplateTask
<1>2. PICK a \in Selectable(busy, copy) :
         Update(Updated(a), AgentRows(busy, copy) \o PickedRows(Updated(a), t, a) \o copyRow)
  BY Zenon DEF RunTemplateTask, PickedRows
<1>3. s \in Ids /\ mem.swarms[s].status # "absent" /\ t \in 1..counter
  BY <1>1 DEF SwarmInv, Numbered
<1>4. t \in Ids
  <2>1. counter \in Nat /\ MaxId \in Nat /\ counter <= MaxId
    BY MapsOf, SwarmAssumption
  <2> QED BY <1>3, <2>1 DEF Ids
<1>0. mem.tasks[t].status # "absent"
  BY <1>1, <1>3, <1>4 DEF SwarmInv, TasksKept, ToBeListed
<1>5. ToBeListed(t, s) /\ \A u \in Ids : u \in ToSet(call[c].copy.tasks) => ListedBy(u, s)
  BY <1>1 DEF ToBeListed, ListedBy
<1>6. call[c].copy \in SwarmRecs
  BY DEF SwarmInv, SwarmTypes, CallRecs
<1> HIDE DEF s, t
<1>7. /\ copy \in SwarmRecs /\ copy.status = "running" /\ copy.agents = call[c].copy.agents
      /\ ToSet(copy.tasks) = ToSet(call[c].copy.tasks) \cup {t}
  BY <1>4, <1>6, CopyListed
<1>8. \A u \in Ids : u \in ToSet(copy.tasks) => Listing(u, s)
  BY <1>5, <1>7 DEF Listing
<1> HIDE DEF copy
<1>9. who \subseteq Ids /\ \A i \in who : mem.agents[i].status # "absent"
  BY DEF Members
<1> HIDE DEF who
<1>10. /\ busy \in Maps /\ busy.swarms = mem.swarms /\ busy.tasks = mem.tasks
       /\ \A i \in Ids : busy.agents[i] = IF i \in who THEN [mem.agents[i] EXCEPT !.status = "busy"] ELSE mem.agents[i]
  BY MapsOf, AgentsSet
<1>11. \A i \in Ids : busy.agents[i].status = "absent" => i \notin who /\ mem.agents[i].status = "absent"
  BY MapsOf, AgentsStay
<1> HIDE DEF busy
<1>12. Members(busy, copy) = who
  <2>1. \A i \in Ids : mem.agents[i].status = "absent" <=> busy.agents[i].status = "absent"
    BY <1>9, <1>10, <1>11
  <2> QED BY <1>10, <2>1, MapsOf, MembersStay DEF who
<1>13. a = 0 \/ (a \in Ids /\ a \in who /\ busy.agents[a].status # "absent")
  BY <1>9, <1>11, <1>12 DEF Selectable, Live
<1> DEFINE m == Updated(a)
<1>14. m \in Maps /\ m.swarms = mem.swarms /\ m.tasks = mem.tasks /\ \A i \in Ids : m.agents[i] = busy.agents[i]
  <2> DEFINE set == {a}
             n == SetAgents(busy, set, "busy")
  <2>1. n = m /\ \A i : i \in set <=> i = a
    OBVIOUS
  <2> HIDE DEF m, Updated, set
  <2>2. /\ n \in Maps /\ n.swarms = busy.swarms /\ n.tasks = busy.tasks
        /\ \A i \in Ids : n.agents[i] = IF i \in set THEN [busy.agents[i] EXCEPT !.status = "busy"] ELSE busy.agents[i]
    BY <1>10, AgentsSet
  <2> HIDE DEF n
  <2>3. ASSUME NEW i \in Ids
        PROVE  n.agents[i] = busy.agents[i]
    <3>1. CASE i # a
      BY <2>1, <2>2, <3>1
    <3>2. CASE i = a
      <4>1. i \in who /\ busy.agents[i] = [mem.agents[i] EXCEPT !.status = "busy"]
        BY <1>10, <1>13, <3>2 DEF Ids
      <4>2. mem.agents[i] \in AgentRecs
        BY MapsOf
      <4>3. [busy.agents[i] EXCEPT !.status = "busy"] = busy.agents[i]
        BY <4>1, <4>2 DEF AgentRecs
      <4> QED BY <2>1, <2>2, <3>2, <4>3
    <3> QED BY <3>1, <3>2
  <2> QED BY <1>10, <2>1, <2>2, <2>3
<1> DEFINE rows == AgentRows(busy, copy)
           picked == PickedRows(m, t, a)
<1>15. mem' = m /\ pending' = rows \o picked \o copyRow
  BY <1>2 DEF Update
<1> HIDE DEF m, Updated
<1>16. Saves(busy, rows, who, {}, {})
  BY <1>7, <1>10, <1>12, SavesMembers
<1>17. /\ rows \in Seq(Statements)
       /\ \A r \in ToSet(rows) : r.table = "agents" /\ r.id \in who /\ r.value = busy.agents[r.id]
       /\ \A i \in who : Keyed(rows, "agents", i)
  <2> HIDE DEF rows
  <2> DEFINE none == {}
  <2>1. Saves(busy, rows, who, none, none) /\ \A x : x \notin none
    BY <1>16
  <2> HIDE DEF none
  <2>2. /\ \A r \in ToSet(rows) :
               \/ r.table = "agents" /\ r.id \in who /\ r.value = busy.agents[r.id]
               \/ r.table = "swarms" /\ r.id \in none /\ r.value = busy.swarms[r.id]
               \/ r.table = "tasks" /\ r.id \in none /\ r.value = busy.tasks[r.id]
        /\ \A i \in who : Keyed(rows, "agents", i)
    BY <2>1, SavedRows
  <2> QED BY <2>1, <2>2 DEF Saves
<1>18. /\ picked \in Seq(Statements)
       /\ \A r \in ToSet(picked) :
             /\ a # 0
             /\ \/ r.table = "agents" /\ r.id = a /\ r.value = m.agents[a]
                \/ r.table = "tasks" /\ r.id = t
  <2>1. a = 0 \/ (a \in Ids /\ m.agents[a].status # "absent")
    BY <1>13, <1>14
  <2> QED BY <1>4, <1>14, <2>1, PickedRowsAre
<1>19. /\ copyRow \in Seq(Statements)
       /\ \A r \in ToSet(copyRow) : r.table = "swarms" /\ r.id = s /\ r.value = copy
  <2>1. Row("swarms", s, copy) \in Statements
    BY <1>3, <1>7 DEF Statements, Row
  <2>2. copyRow \in Seq(Statements) /\ ToSet(copyRow) = {Row("swarms", s, copy)}
    BY <2>1, OneRow
  <2> QED BY <2>2, RowParts
<1> HIDE DEF picked, rows, copyRow
<1>20. pending' \in Seq(Statements) /\ ToSet(pending') = (ToSet(rows) \cup ToSet(picked)) \cup ToSet(copyRow)
  <2>1. rows \o picked \in Seq(Statements) /\ ToSet(rows \o picked) = ToSet(rows) \cup ToSet(picked)
    BY <1>17, <1>18, JoinedElements
  <2> DEFINE front == rows \o picked
  <2>2. pending' = front \o copyRow /\ front \in Seq(Statements) /\ ToSet(front) = ToSet(rows) \cup ToSet(picked)
    BY <1>15, <2>1
  <2> HIDE DEF front
  <2> QED BY <1>19, <2>2, JoinedElements
<1>21. copied \subseteq copied' /\ s \in copied' /\ t \in copied'
  BY <1>1
<1>22. ASSUME NEW r \in ToSet(pending')
       PROVE  /\ Right(mem', r, copied') /\ r.id <= counter
              /\ \A u \in Ids : r.table = "swarms" /\ u \in ToSet(r.value.tasks) => Listing(u, r.id)
              /\ r.table = "tasks" => mem.tasks[r.id].status # "absent"
  <2>1. s \in 1..counter /\ \A i \in who : i \in 1..counter
    BY <1>3, <1>9, InUse
  <2>2. ASSUME r.table = "agents", r.id \in who, r.value = m.agents[r.id]
        PROVE  /\ Right(mem', r, copied') /\ r.id <= counter
               /\ \A u \in Ids : r.table = "swarms" /\ u \in ToSet(r.value.tasks) => Listing(u, r.id)
               /\ r.table = "tasks" => mem.tasks[r.id].status # "absent"
    <3>1. r.id <= counter
      BY <2>1, <2>2
    <3> QED BY <1>15, <2>2, <3>1 DEF Right
  <2>3. ASSUME r.table = "tasks", r.id = t
        PROVE  /\ Right(mem', r, copied') /\ r.id <= counter
               /\ \A u \in Ids : r.table = "swarms" /\ u \in ToSet(r.value.tasks) => Listing(u, r.id)
               /\ r.table = "tasks" => mem.tasks[r.id].status # "absent"
    <3>1. r.id <= counter
      BY <1>3, <2>3
    <3> QED BY <1>21, <1>0, <2>3, <3>1 DEF Right
  <2>4. ASSUME r.table = "swarms", r.id = s, r.value = copy
        PROVE  /\ Right(mem', r, copied') /\ r.id <= counter
               /\ \A u \in Ids : r.table = "swarms" /\ u \in ToSet(r.value.tasks) => Listing(u, r.id)
               /\ r.table = "tasks" => mem.tasks[r.id].status # "absent"
    <3>1. r.id <= counter
      BY <2>1, <2>4
    <3> QED BY <1>8, <1>21, <2>4, <3>1 DEF Right
  <2>5. \A i \in who : i \in Ids /\ m.agents[i] = busy.agents[i]
    BY <1>9, <1>14
  <2>6. CASE r \in ToSet(rows)
    BY <1>17, <2>2, <2>5, <2>6
  <2>7. CASE r \in ToSet(picked)
    BY <1>13, <1>18, <2>2, <2>3, <2>7
  <2>8. CASE r \in ToSet(copyRow)
    BY <1>19, <2>4, <2>8
  <2> QED BY <1>20, <2>6, <2>7, <2>8
<1>23. ASSUME NEW i \in Ids
       PROVE  /\ mem'.agents[i] = mem.agents[i] \/ Keyed(pending', "agents", i)
              /\ mem'.swarms[i] = mem.swarms[i] \/ Keyed(pending', "swarms", i)
              /\ mem'.tasks[i] = mem.tasks[i]
              /\ mem.swarms[i].status # "absent" => mem'.swarms[i].status # "absent"
  <2>1. i \in who => Keyed(pending', "agents", i)
    BY <1>17, <1>20 DEF Keyed
  <2>2. i \notin who => mem'.agents[i] = mem.agents[i]
    BY <1>10, <1>14, <1>15
  <2> QED BY <1>14, <1>15, <2>1, <2>2
<1>24. \A u, v \in Ids : u \in ToSet(mem'.swarms[v].tasks) => Listing(u, v)
  BY <1>14, <1>15 DEF Listing, ListedBy
<1>25. Section
  <2>1. mem' \in Maps
    BY <1>14, <1>15
  <2> QED BY <1>1, <1>20, <1>21, <1>22, <1>23, <1>24, <2>1, RightSection
<1> QED BY <1>1, <1>25, CallReturns, RunnersStay, SectionKeeps, NoneAre

(* ------------------------ statements and restarts ---------------------- *)

\* The database after one statement.
LEMMA Persisted ==
  ASSUME SwarmInv, Persist
  PROVE  /\ db' \in Maps
         /\ \A i \in Ids :
               /\ db'.agents[i] = IF Head(pending).table = "agents" /\ Head(pending).id = i
                                  THEN Head(pending).value ELSE db.agents[i]
               /\ db'.swarms[i] = IF Head(pending).table = "swarms" /\ Head(pending).id = i
                                  THEN Head(pending).value ELSE db.swarms[i]
               /\ db'.tasks[i] = IF Head(pending).table = "tasks" /\ Head(pending).id = i
                                 THEN Head(pending).value ELSE db.tasks[i]
<1> DEFINE r == Head(pending)
<1>1. r \in Statements
  <2>1. pending \in Seq(Statements) /\ pending # <<>>
    BY DEF SwarmInv, SwarmTypes, Persist, MutexFree
  <2> QED BY <2>1, HeadAndTail
<1>2. db' = CASE r.table = "agents" -> [db EXCEPT !.agents[r.id] = r.value]
              [] r.table = "swarms" -> [db EXCEPT !.swarms[r.id] = r.value]
              [] r.table = "tasks"  -> [db EXCEPT !.tasks[r.id] = r.value]
  BY DEF Persist
<1>3. db \in Maps
  BY MapsOf
<1> HIDE DEF r
<1>4. /\ r.id \in Ids
      /\ \/ r.table = "agents" /\ r.value \in AgentRecs
         \/ r.table = "swarms" /\ r.value \in SwarmRecs
         \/ r.table = "tasks" /\ r.value \in TaskRecs
  BY <1>1 DEF Statements
<1>5. CASE r.table = "agents" /\ r.value \in AgentRecs
  <2>1. db' = [db EXCEPT !.agents[r.id] = r.value]
    BY <1>2, <1>5
  <2>2. /\ db' \in Maps /\ db'.swarms = db.swarms /\ db'.tasks = db.tasks
        /\ \A i \in Ids : db'.agents[i] = IF r.id = i THEN r.value ELSE db.agents[i]
    BY <1>3, <1>4, <1>5, <2>1 DEF Maps
  <2> QED BY <1>5, <2>2 DEF r
<1>6. CASE r.table = "swarms" /\ r.value \in SwarmRecs
  <2>1. db' = [db EXCEPT !.swarms[r.id] = r.value]
    BY <1>2, <1>6
  <2>2. /\ db' \in Maps /\ db'.agents = db.agents /\ db'.tasks = db.tasks
        /\ \A i \in Ids : db'.swarms[i] = IF r.id = i THEN r.value ELSE db.swarms[i]
    BY <1>3, <1>4, <1>6, <2>1 DEF Maps
  <2> QED BY <1>6, <2>2 DEF r
<1>7. CASE r.table = "tasks" /\ r.value \in TaskRecs
  <2>1. db' = [db EXCEPT !.tasks[r.id] = r.value]
    BY <1>2, <1>7
  <2>2. /\ db' \in Maps /\ db'.agents = db.agents /\ db'.swarms = db.swarms
        /\ \A i \in Ids : db'.tasks[i] = IF r.id = i THEN r.value ELSE db.tasks[i]
    BY <1>3, <1>4, <1>7, <2>1 DEF Maps
  <2> QED BY <1>7, <2>2 DEF r
<1> QED BY <1>4, <1>5, <1>6, <1>7

LEMMA PersistKeeps ==
  ASSUME SwarmInv, Persist
  PROVE  SwarmInv'
<1> DEFINE r == Head(pending)
           rest == Tail(pending)
<1>1. /\ pending # <<>> /\ pending' = rest /\ mem' = mem /\ counter' = counter /\ runner' = runner
      /\ call' = call /\ copied' = copied
  BY DEF Persist, MutexFree
<1>2. /\ r \in Statements /\ rest \in Seq(Statements) /\ ToSet(pending) = {r} \cup ToSet(rest)
  <2>1. pending \in Seq(Statements)
    BY DEF SwarmInv, SwarmTypes
  <2> QED BY <1>1, <2>1, HeadAndTail
<1>3. /\ db' \in Maps
      /\ \A i \in Ids :
            /\ db'.agents[i] = IF r.table = "agents" /\ r.id = i THEN r.value ELSE db.agents[i]
            /\ db'.swarms[i] = IF r.table = "swarms" /\ r.id = i THEN r.value ELSE db.swarms[i]
            /\ db'.tasks[i] = IF r.table = "tasks" /\ r.id = i THEN r.value ELSE db.tasks[i]
  BY Persisted
<1>4. /\ \A q \in ToSet(rest) : Right(mem, q, copied)
      /\ Right(mem, r, copied) \/ Keyed(rest, r.table, r.id)
  BY <1>1 DEF SwarmInv, Agreement
<1> HIDE DEF r, rest
<1>5. \A table, id : Keyed(pending, table, id) => Keyed(rest, table, id) \/ (r.table = table /\ r.id = id)
  BY <1>2 DEF Keyed
<1>6. SwarmTypes'
  BY <1>1, <1>2, <1>3 DEF SwarmInv, SwarmTypes
<1>7. Agreement'
  <2>1. ASSUME NEW i \in Ids
        PROVE  /\ db'.agents[i] = mem.agents[i] \/ Keyed(rest, "agents", i)
               /\ db'.swarms[i] = mem.swarms[i] \/ i \in copied \/ Keyed(rest, "swarms", i)
               /\ db'.tasks[i] = mem.tasks[i] \/ i \in copied \/ Keyed(rest, "tasks", i)
    <3>1. /\ db.agents[i] = mem.agents[i] \/ Keyed(pending, "agents", i)
          /\ db.swarms[i] = mem.swarms[i] \/ i \in copied \/ Keyed(pending, "swarms", i)
          /\ db.tasks[i] = mem.tasks[i] \/ i \in copied \/ Keyed(pending, "tasks", i)
      BY DEF SwarmInv, Agreement
    <3>2. db'.agents[i] = mem.agents[i] \/ Keyed(rest, "agents", i)
      BY <1>3, <1>4, <1>5, <3>1 DEF Right
    <3>3. db'.swarms[i] = mem.swarms[i] \/ i \in copied \/ Keyed(rest, "swarms", i)
      BY <1>3, <1>4, <1>5, <3>1 DEF Right
    <3>4. db'.tasks[i] = mem.tasks[i] \/ i \in copied \/ Keyed(rest, "tasks", i)
      BY <1>3, <1>4, <1>5, <3>1 DEF Right
    <3> QED BY <3>2, <3>3, <3>4
  <2>2. rest # <<>> => /\ \A q \in ToSet(Tail(rest)) : Right(mem, q, copied)
                       /\ Right(mem, Head(rest), copied)
    <3> SUFFICES ASSUME rest # <<>>
                 PROVE  /\ \A q \in ToSet(Tail(rest)) : Right(mem, q, copied)
                        /\ Right(mem, Head(rest), copied)
      OBVIOUS
    <3>1. ToSet(rest) = {Head(rest)} \cup ToSet(Tail(rest))
      BY <1>2, HeadAndTail
    <3> QED BY <1>4, <3>1
  <2> QED BY <1>1, <2>1, <2>2 DEF Agreement
<1>8. \A t, s \in Ids : ListedBy(t, s)' => ListedBy(t, s)
  <2> SUFFICES ASSUME NEW t \in Ids, NEW s \in Ids, ListedBy(t, s)'
               PROVE  ListedBy(t, s)
    OBVIOUS
  <2>1. CASE t \in ToSet(mem'.swarms[s].tasks)
    BY <1>1, <2>1 DEF ListedBy
  <2>2. CASE t \in ToSet(db'.swarms[s].tasks)
    BY <1>2, <1>3, <2>2 DEF ListedBy
  <2>3. CASE \E q \in ToSet(pending') : q.table = "swarms" /\ q.id = s /\ t \in ToSet(q.value.tasks)
    BY <1>1, <1>2, <2>3 DEF ListedBy
  <2>4. CASE \E c \in Callers : call'[c].op \in {"template", "running"} /\ call'[c].swarm = s
                                /\ t \in ToSet(call'[c].copy.tasks)
    BY <1>1, <2>4 DEF ListedBy
  <2> QED BY <2>1, <2>2, <2>3, <2>4 DEF ListedBy
<1>9. \A t, s \in Ids : ToBeListed(t, s)' => ToBeListed(t, s)
  BY <1>1 DEF ToBeListed
<1>10. \A t \in Ids : /\ db.tasks[t].status # "absent" => db'.tasks[t].status # "absent"
                      /\ r.table = "tasks" /\ r.id = t => db'.tasks[t].status # "absent"
  <2>1. r.table = "tasks" => r.value.status # "absent"
    BY <1>2 DEF Statements
  <2> QED BY <1>3, <2>1
<1>11. OneList'
  <2>1. \A t, s1, s2 \in Ids : Listing(t, s1)' /\ Listing(t, s2)' => s1 = s2
    BY <1>8, <1>9 DEF SwarmInv, OneList, Listing
  <2>2. \A t, s \in Ids : ListedBy(t, s)' => db'.tasks[t].status # "absent"
    BY <1>8, <1>10 DEF SwarmInv, OneList
  <2>3. ASSUME NEW t \in Ids, NEW s \in Ids, ToBeListed(t, s)'
        PROVE  db'.tasks[t].status # "absent" \/ Keyed(pending', "tasks", t)
    BY <1>1, <1>5, <1>9, <1>10, <2>3 DEF SwarmInv, OneList
  <2> QED BY <2>1, <2>2, <2>3 DEF OneList, Keyed
<1>12. Numbered'
  <2>1. r.id <= counter /\ \A q \in ToSet(rest) : q.id <= counter
    BY <1>2 DEF SwarmInv, Numbered
  <2>2. ASSUME NEW i \in Ids
        PROVE  /\ mem.agents[i].status # "absent" \/ db'.agents[i].status # "absent" => i <= counter
               /\ mem.swarms[i].status # "absent" \/ db'.swarms[i].status # "absent" => i <= counter
               /\ mem.tasks[i].status # "absent" \/ db'.tasks[i].status # "absent" => i <= counter
    BY <1>3, <2>1 DEF SwarmInv, Numbered
  <2> QED BY <1>1, <2>1, <2>2 DEF SwarmInv, Numbered
<1>13. RunnersHaveTasks'
  BY <1>1 DEF SwarmInv, RunnersHaveTasks
<1>14. TasksKept'
  <2>1. \A q \in ToSet(pending) : q.table = "tasks" => mem.tasks[q.id].status # "absent"
    BY DEF SwarmInv, TasksKept
  <2>2. \A t \in Ids : db'.tasks[t].status # "absent" => mem.tasks[t].status # "absent"
    BY <1>2, <1>3, <2>1 DEF SwarmInv, TasksKept
  <2> QED BY <1>1, <1>2, <1>9, <2>1, <2>2 DEF SwarmInv, TasksKept
<1> QED BY <1>6, <1>7, <1>11, <1>12, <1>13, <1>14 DEF SwarmInv

LEMMA CrashKeeps ==
  ASSUME SwarmInv, Crash
  PROVE  SwarmInv'
<1>1. /\ mem' = db /\ db' = db /\ pending' = <<>> /\ copied' = {} /\ counter' \in InDb
      /\ runner' = [t \in Ids |-> "none"] /\ call' = [c \in Callers |-> Idle]
      /\ \A i \in InDb : i <= counter'
  BY DEF Crash, Reload
<1>2. ToSet(pending') = {} /\ \A c \in Callers : call'[c] = Idle /\ Idle.op = "none"
  BY <1>1, NoneAre DEF ToSet
<1>3. SwarmTypes'
  <2>1. counter' \in 0..MaxId
    BY <1>1 DEF InDb, Ids
  <2>2. pending' \in Seq(Statements)
    BY <1>1
  <2>3. call' \in [Callers -> CallRecs] /\ runner' \in [Ids -> {"none", "start", "work"}]
    BY <1>1, NoneAre
  <2> QED BY <1>1, <2>1, <2>2, <2>3, MapsOf DEF SwarmTypes
<1>4. Agreement'
  BY <1>1 DEF Agreement
<1>5. \A t, s \in Ids : ListedBy(t, s)' => ListedBy(t, s)
  BY <1>1, <1>2 DEF ListedBy
<1>6. \A t, s \in Ids : ~ToBeListed(t, s)'
  BY <1>2 DEF ToBeListed
<1>7. OneList'
  <2>1. \A t, s1, s2 \in Ids : Listing(t, s1)' /\ Listing(t, s2)' => s1 = s2
    BY <1>5, <1>6 DEF SwarmInv, OneList, Listing
  <2>2. \A t, s \in Ids : ListedBy(t, s)' => db'.tasks[t].status # "absent"
    BY <1>1, <1>5 DEF SwarmInv, OneList
  <2> QED BY <1>6, <2>1, <2>2 DEF OneList
<1>8. Numbered'
  <2>1. \A i \in Ids : db.agents[i].status # "absent" \/ db.swarms[i].status # "absent"
                       \/ db.tasks[i].status # "absent" => i <= counter'
    BY <1>1 DEF InDb
  <2> QED BY <1>1, <1>2, <2>1 DEF Numbered
<1>9. RunnersHaveTasks'
  BY <1>1 DEF RunnersHaveTasks
<1>10. TasksKept'
  BY <1>1, <1>2, <1>6 DEF TasksKept
<1> QED BY <1>3, <1>4, <1>7, <1>8, <1>9, <1>10 DEF SwarmInv

LEMMA SwarmStarts ==
  ASSUME Init
  PROVE  SwarmInv
<1>1. /\ mem = Fresh /\ db = Fresh /\ counter = Bootstrap /\ pending = <<>> /\ copied = {}
      /\ runner = [t \in Ids |-> "none"] /\ call = [c \in Callers |-> Idle]
  BY DEF Init
<1>2. ToSet(<<>>) = {} /\ \A c \in Callers : call[c] = Idle /\ Idle.op = "none"
  BY <1>1, NoneAre DEF ToSet
<1>3. /\ Fresh \in Maps
      /\ \A i \in Ids : /\ Fresh.agents[i].status # "absent" => i <= Bootstrap
                        /\ Fresh.swarms[i] = NoSwarm /\ Fresh.tasks[i] = NoTask
  <2> DEFINE idle == [status |-> "idle", swarm |-> 0]
             agents == [i \in Ids |-> IF i <= Bootstrap THEN idle ELSE NoAgent]
             swarms == [i \in Ids |-> NoSwarm]
             tasks == [i \in Ids |-> NoTask]
  <2>1. idle \in AgentRecs
    BY NoneAre DEF AgentRecs
  <2>2. Fresh = [agents |-> agents, swarms |-> swarms, tasks |-> tasks]
    BY DEF Fresh
  <2>3. NoAgent.status = "absent"
    BY DEF NoAgent
  <2> HIDE DEF idle
  <2>4. agents \in [Ids -> AgentRecs] /\ swarms \in [Ids -> SwarmRecs] /\ tasks \in [Ids -> TaskRecs]
    BY <2>1, NoneAre
  <2>5. \A i \in Ids : /\ agents[i].status # "absent" => i <= Bootstrap
                       /\ swarms[i] = NoSwarm /\ tasks[i] = NoTask
    BY <2>3
  <2> HIDE DEF agents, swarms, tasks
  <2> QED BY <2>2, <2>4, <2>5 DEF Maps
<1>4. NoSwarm.status = "absent" /\ NoSwarm.tasks = <<>> /\ NoTask.status = "absent"
  BY DEF NoSwarm, NoTask
<1>5. SwarmTypes
  <2>1. counter \in 0..MaxId
    BY <1>1, SwarmAssumption
  <2>2. call \in [Callers -> CallRecs] /\ runner \in [Ids -> {"none", "start", "work"}]
    BY <1>1, NoneAre
  <2> QED BY <1>1, <1>3, <2>1, <2>2 DEF SwarmTypes
<1>6. Agreement
  BY <1>1 DEF Agreement
<1>7. \A t, s \in Ids : ~ListedBy(t, s) /\ ~ToBeListed(t, s)
  BY <1>1, <1>2, <1>3, <1>4 DEF ListedBy, ToBeListed
<1>8. OneList
  BY <1>7 DEF OneList, Listing
<1>9. Numbered
  BY <1>1, <1>2, <1>3, <1>4 DEF Numbered
<1>10. RunnersHaveTasks
  BY <1>1 DEF RunnersHaveTasks
<1>11. TasksKept
  BY <1>1, <1>2, <1>7 DEF TasksKept
<1> QED BY <1>5, <1>6, <1>8, <1>9, <1>10, <1>11 DEF SwarmInv

(* ------------------------------- every step ---------------------------- *)

LEMMA RequestKeeps ==
  ASSUME SwarmInv, NEW t \in Ids, NEW s \in Ids, Of(t, s)
  PROVE  SwarmInv'
<1>1. CASE CreateTask \/ StartTask(t) \/ CancelTask(t) \/ PauseTask(t) \/ ResumeTask(t)
  BY <1>1, CreateTaskKeeps, StartTaskKeeps, CancelTaskKeeps, PauseTaskKeeps
<1>2. CASE ContestTaskSteal(t) \/ StopAgent(t) \/ StopSwarm(s) \/ RebalanceSwarm(s)
  BY <1>2, ContestKeeps, StopAgentKeeps, StopSwarmKeeps, RebalanceSwarmKeeps
<1>3. CASE SpawnAgent(s) \/ SpawnAgent(0)
  <2>1. s \in 0..MaxId /\ 0 \in 0..MaxId
    BY NoneAre DEF Ids
  <2> QED BY <1>3, <2>1, SpawnAgentKeeps
<1>4. ASSUME NEW a \in Ids, AssignTask(t, a) \/ ResolveTaskStealContest(t, a) \/ StealTask(t, s, a)
      PROVE  SwarmInv'
  BY <1>4, AssignTaskKeeps, ResolveKeeps, StealTaskKeeps
<1>5. ASSUME NEW n \in 1..MaxMembers, InitSwarm(n) \/ ScaleUp(s, n) \/ ScaleDown(s, n)
      PROVE  SwarmInv'
  BY <1>5, InitSwarmKeeps, ScaleUpKeeps, ScaleDownKeeps
<1>6. ASSUME NEW c \in Callers, StartSwarm(c, s) \/ PauseSwarm(c, s) \/ ResumeSwarm(c, s)
      PROVE  SwarmInv'
  BY <1>6, StartSwarmKeeps, BeginSwarmCallKeeps
<1>7. ASSUME NEW c \in Callers, NEW n \in 1..MaxMembers, RunWorkflowTemplate(c, n)
      PROVE  SwarmInv'
  BY <1>7, RunWorkflowTemplateKeeps
<1> QED BY <1>1, <1>2, <1>3, <1>4, <1>5, <1>6, <1>7 DEF Of

LEMMA SwarmStutters ==
  ASSUME SwarmInv, UNCHANGED vars
  PROVE  SwarmInv'
<1>1. /\ mem' = mem /\ db' = db /\ counter' = counter /\ pending' = pending /\ runner' = runner
      /\ call' = call /\ copied' = copied
  BY DEF vars
<1>2. SwarmTypes'
  BY <1>1 DEF SwarmInv, SwarmTypes
<1>3. Agreement'
  BY <1>1 DEF SwarmInv, Agreement
<1>4. OneList'
  BY <1>1 DEF SwarmInv, OneList, Listing, ListedBy, ToBeListed
<1>5. Numbered'
  BY <1>1 DEF SwarmInv, Numbered
<1>6. RunnersHaveTasks'
  BY <1>1 DEF SwarmInv, RunnersHaveTasks
<1>7. TasksKept'
  BY <1>1 DEF SwarmInv, TasksKept, ToBeListed
<1> QED BY <1>2, <1>3, <1>4, <1>5, <1>6, <1>7 DEF SwarmInv

LEMMA SwarmStep ==
  ASSUME SwarmInv, [Next]_vars
  PROVE  SwarmInv'
<1>1. CASE Request
  <2>1. CASE Crash
    BY <2>1, CrashKeeps
  <2>2. CASE \E t, s \in Ids : Of(t, s)
    BY <2>2, RequestKeeps
  <2> QED BY <1>1, <2>1, <2>2 DEF Request
<1>2. CASE Continues
  <2>1. CASE Persist
    BY <2>1, PersistKeeps
  <2>2. ASSUME NEW t \in Ids, MarkTaskRunning(t) \/ StepTask(t) \/ FinishTask(t)
        PROVE  SwarmInv'
    BY <2>2, MarkTaskRunningKeeps, StepTaskKeeps, FinishTaskKeeps
  <2>3. ASSUME NEW c \in Callers, \/ CloneSwarm(c) \/ CreateSwarmTask(c) \/ ListTask(c)
                                  \/ RunTemplateTask(c) \/ NextOfSwarm(c) \/ EndOfSwarm(c)
        PROVE  SwarmInv'
    BY <2>3, CloneSwarmKeeps, CreateSwarmTaskKeeps, ListTaskKeeps, RunTemplateTaskKeeps, NextOfSwarmKeeps,
       EndOfSwarmKeeps
  <2> QED BY <1>2, <2>1, <2>2, <2>3 DEF Continues
<1>3. CASE UNCHANGED vars
  BY <1>3, SwarmStutters
<1> QED BY <1>1, <1>2, <1>3 DEF Next

LEMMA SwarmInvariance == Spec => []SwarmInv
<1>1. Init => SwarmInv
  BY SwarmStarts
<1>2. SwarmInv /\ [Next]_vars => SwarmInv'
  BY SwarmStep
<1> QED BY <1>1, <1>2, PTL DEF Spec

(* Agents, swarms and tasks, their rows, the statements a handler has yet  *)
(* to run and the handlers that hold the mutex more than once are well     *)
(* formed (manager.go:36-41, 3477-3565).                                   *)
THEOREM SwarmTypeCorrect == Spec => []SwarmTypes
<1>1. SwarmInv => SwarmTypes
  BY DEF SwarmInv
<1> QED BY <1>1, SwarmInvariance, PTL

(* Whenever nobody holds the manager's mutex the tables have what its maps *)
(* have, but for what handlers save from copies (manager.go:3477-3565).    *)
THEOREM RowsAreCurrent == Spec => []RowsCurrent
<1>1. SwarmInv => RowsCurrent
  <2> SUFFICES ASSUME SwarmInv, pending = <<>>, NEW i \in Ids
               PROVE  /\ db.agents[i] = mem.agents[i]
                      /\ i \notin copied => db.swarms[i] = mem.swarms[i] /\ db.tasks[i] = mem.tasks[i]
    BY DEF RowsCurrent, MutexFree
  <2>1. \A table : ~Keyed(pending, table, i)
    BY DEF Keyed, ToSet
  <2> QED BY <2>1 DEF SwarmInv, Agreement
<1> QED BY <1>1, SwarmInvariance, PTL

(* A swarm lists tasks that exist, for the manager and in the tables, also *)
(* after a crash between any two statements (manager.go:1402-1458,         *)
(* workflows.go:231-304).                                                  *)
THEOREM ListedTasksAreThere == Spec => []ListedTasksExist
<1>1. ASSUME NEW table \in Maps, NEW t \in ListedIn(table)
      PROVE  t \in Ids /\ \E s \in Ids : t \in ToSet(table.swarms[s].tasks)
  <2>1. PICK s \in Ids : t \in {table.swarms[s].tasks[k] : k \in 1..Len(table.swarms[s].tasks)}
    BY DEF ListedIn
  <2>2. table.swarms[s].tasks \in Seq(Ids)
    BY DEF Maps, SwarmRecs
  <2> QED BY <2>1, <2>2 DEF ToSet
<1>2. SwarmInv => ListedTasksExist
  <2> SUFFICES ASSUME SwarmInv
               PROVE  /\ \A t \in ListedIn(mem) : Exists(mem.tasks, t)
                      /\ \A t \in ListedIn(db) : Exists(db.tasks, t)
    BY DEF ListedTasksExist
  <2>1. ASSUME NEW t \in ListedIn(mem)
        PROVE  Exists(mem.tasks, t)
    <3>1. PICK s \in Ids : t \in ToSet(mem.swarms[s].tasks)
      BY <1>1, MapsOf
    <3>2. t \in Ids /\ ListedBy(t, s)
      BY <1>1, <3>1, MapsOf DEF ListedBy
    <3> QED BY <3>2 DEF SwarmInv, OneList, TasksKept, Exists
  <2>2. ASSUME NEW t \in ListedIn(db)
        PROVE  Exists(db.tasks, t)
    <3>1. PICK s \in Ids : t \in ToSet(db.swarms[s].tasks)
      BY <1>1, MapsOf
    <3>2. t \in Ids /\ ListedBy(t, s)
      BY <1>1, <3>1, MapsOf DEF ListedBy
    <3> QED BY <3>2 DEF SwarmInv, OneList, Exists
  <2> QED BY <2>1, <2>2
<1> QED BY <1>2, SwarmInvariance, PTL

(* No task is listed by two swarms, in the manager or in a table, although *)
(* ids of swarms and tasks are handed out by counters that a restart takes *)
(* from the rows (manager.go:288-302, 1402-1458).                          *)
THEOREM TasksAreListedOnce ==
    Spec => [](\A t, s1, s2 \in Ids : ListedBy(t, s1) /\ ListedBy(t, s2) => s1 = s2)
<1>1. SwarmInv => \A t, s1, s2 \in Ids : ListedBy(t, s1) /\ ListedBy(t, s2) => s1 = s2
  BY DEF SwarmInv, OneList, Listing
<1> QED BY <1>1, SwarmInvariance, PTL

(* No id is given twice to agents, swarms and tasks, also after restarts    *)
(* that count from the rows (manager.go:193-302).                          *)
THEOREM SwarmIdsAreFresh == Spec => []IdsAreFresh
<1>1. SwarmInv => IdsAreFresh
  <2> SUFFICES ASSUME SwarmInv, NEW i \in Ids,
                      \/ Exists(mem.agents, i) \/ Exists(mem.swarms, i) \/ Exists(mem.tasks, i)
                      \/ i \in InDb \/ i \in ListedIn(mem)
               PROVE  i <= counter
    BY DEF IdsAreFresh
  <2>1. CASE Exists(mem.agents, i) \/ Exists(mem.swarms, i) \/ Exists(mem.tasks, i)
    BY <2>1 DEF Exists, SwarmInv, Numbered
  <2>2. CASE i \in InDb
    BY <2>2 DEF InDb, SwarmInv, Numbered
  <2>3. CASE i \in ListedIn(mem)
    <3>1. PICK s \in Ids : i \in {mem.swarms[s].tasks[k] : k \in 1..Len(mem.swarms[s].tasks)}
      BY <2>3 DEF ListedIn
    <3>2. mem.swarms[s].tasks \in Seq(Ids)
      BY MapsOf DEF SwarmRecs
    <3>3. ListedBy(i, s)
      BY <3>1, <3>2 DEF ListedBy, ToSet
    <3> QED BY <3>3 DEF SwarmInv, OneList, Numbered
  <2> QED BY <2>1, <2>2, <2>3
<1> QED BY <1>1, SwarmInvariance, PTL
==============================================================================
