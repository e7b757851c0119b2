------------------------------ MODULE Background ------------------------------
(***************************************************************************)
(* synroute chat --message M --background, internal/tasks and              *)
(* internal/worktree: a parent makes a worktree and a row of the database   *)
(* for its task, starts a detached child there and ends; whoever lists the  *)
(* tasks looks what has become of those that run.  Beside them, the chat    *)
(* session of the same repository has a cleaner of worktrees.               *)
(*                                                                          *)
(* Outside of a repository all tasks are in one directory.  What a child    *)
(* does there is in modules Workspaces and DirectLoop.                      *)
(***************************************************************************)
EXTENDS Integers, FiniteSets

CONSTANTS
    InRepo,             \* whether the calls are made in a git repository
    Tasks,              \* one for each call of synroute
    Listers,            \* calls of synroute tasks at a time
    Session             \* a chat session with a worktree

\* Every worktree has a directory of its own.
ASSUME BackgroundAssumption == Session # "cwd" /\ Tasks \cap {"cwd", Session} = {}

VARIABLES
    taskRow,            \* background_tasks: the status of a task and its PID
    parent,             \* what the call that makes a task does next
    child,              \* at; the message it was given
    files,              \* of a directory: there, message, done, its branch
    lister,             \* at; the rows it has read, the one it looks at
    chatSession         \* whether the chat session runs, has a worktree

backgroundVars == <<taskRow, parent, child, files, lister, chatSession>>

NoTask == "none"
Shared == "cwd"
TaskDirs == Tasks \cup {Shared, Session}
\* Mutant: the worktree is not what the child is told.
CurrentDir(t) == Shared
DirOf(t) == IF InRepo THEN t ELSE Shared

(* ------------------------------- parents ------------------------------- *)

ParentAt(t, at) == parent[t] = at
Then(t, at) == parent' = [parent EXCEPT ![t] = at]
TaskRow(t, status, pid) == [taskRow EXCEPT ![t] = [status |-> status, pid |-> pid]]
Marked(t, status) == TaskRow(t, status, taskRow[t].pid)
Tree(d) == files' = [files EXCEPT ![d].there = TRUE, ![d].branch = TRUE]

\* A worktree, or none outside of a repository, and the row.
CreateTask(t) ==
    /\ ParentAt(t, "new")
    /\ IF InRepo THEN Tree(t) ELSE UNCHANGED files
    /\ \/ Then(t, "created") /\ taskRow' = TaskRow(t, "pending", "parent")
       \/ Then(t, "ended") /\ UNCHANGED taskRow
    /\ UNCHANGED <<child, lister, chatSession>>

\* A status that cannot be written is only warned of.
MarkRunning(t) ==
    /\ ParentAt(t, "created") /\ Then(t, "running")
    /\ taskRow' \in {taskRow, Marked(t, "running")}
    /\ UNCHANGED <<child, files, lister, chatSession>>

\* What fails ends the parent, whose last word is the row.
Fails(t) == Then(t, "ended") /\ taskRow' \in {taskRow, Marked(t, "failed")} /\ UNCHANGED <<files, child>>
WriteMessage(t) ==
    /\ ParentAt(t, "running")
    /\ \/ Fails(t)
       \/ Then(t, "written") /\ files' = [files EXCEPT ![DirOf(t)].message = t] /\ UNCHANGED <<taskRow, child>>
    /\ UNCHANGED <<lister, chatSession>>
SpawnChild(t) ==
    /\ ParentAt(t, "written")
    /\ \/ Fails(t)
       \/ Then(t, "started") /\ child' = [child EXCEPT ![t].at = "begins"] /\ UNCHANGED <<taskRow, files>>
    /\ UNCHANGED <<lister, chatSession>>
SetPID(t) ==
    /\ ParentAt(t, "started") /\ Then(t, "ended")
    /\ taskRow' \in {taskRow, TaskRow(t, taskRow[t].status, "child")}
    /\ UNCHANGED <<child, files, lister, chatSession>>
ParentDies(t) ==
    /\ parent[t] \notin {"new", "ended"} /\ Then(t, "ended")
    /\ UNCHANGED <<taskRow, child, files, lister, chatSession>>

(* ------------------------------- children ------------------------------ *)

ChildAt(t, at) == child[t].at = at
\* It works on the message it finds, and works when it finds none.
ChildReads(t) ==
    /\ ChildAt(t, "begins")
    /\ child' = [child EXCEPT ![t] = [at |-> "works", message |-> files[DirOf(t)].message]]
    /\ UNCHANGED <<taskRow, parent, files, lister, chatSession>>

\* The shell touches the marker, however synroute has ended; if it is not
\* killed itself.
ChildEnds(t) ==
    /\ child[t].at \in {"begins", "works"}
    /\ child' = [child EXCEPT ![t].at = "ended"]
    /\ files' \in {files, [files EXCEPT ![DirOf(t)].done = TRUE]}
    /\ UNCHANGED <<taskRow, parent, lister, chatSession>>

(* ------------------------------- listers ------------------------------- *)

\* GetTasks: the running ones of the rows it reads, one after another.
GetTasks(l) ==
    /\ lister[l].at = "idle"
    /\ lister' = [lister EXCEPT ![l] = [at |-> "reads", rows |-> {t \in Tasks : taskRow[t].status = "running"}, task |-> NoTask, found |-> "none"]]
    /\ UNCHANGED <<taskRow, parent, child, files, chatSession>>

\* No process can be sent the signal nil, so each with a PID has died.
FoundDone(t) == IF files[DirOf(t)].done THEN "completed" ELSE "failed"
CheckTask(l) ==
    /\ lister[l].at = "reads"
    /\ \E t \in lister[l].rows :
         lister' = [lister EXCEPT ![l] = [at |-> "marks", rows |-> lister[l].rows \ {t}, task |-> t, found |-> FoundDone(t)]]
    /\ UNCHANGED <<taskRow, parent, child, files, chatSession>>

\* What cannot be written is shown nevertheless.
MarkTask(l) ==
    /\ lister[l].at = "marks"
    /\ taskRow' \in {taskRow, Marked(lister[l].task, lister[l].found)}
    /\ lister' = [lister EXCEPT ![l].at = "reads"]
    /\ UNCHANGED <<parent, child, files, chatSession>>
ListingEnds(l) ==
    /\ lister[l].at = "reads" /\ lister[l].rows = {}
    /\ lister' = [lister EXCEPT ![l].at = "idle", ![l].task = NoTask]
    /\ UNCHANGED <<taskRow, parent, child, files, chatSession>>

(* ------------------------------- worktrees ----------------------------- *)

SessionBegins ==
    /\ InRepo /\ chatSession = "none"
    /\ chatSession' = "runs" /\ Tree(Session)
    /\ UNCHANGED <<taskRow, parent, child, lister>>

\* Its own worktree is too old or too big: nothing makes it younger.  git may
\* fail to delete the branch.
Removed(f, d) == {[f EXCEPT ![d].there = FALSE, ![d].branch = b] : b \in {f[d].branch, FALSE}}

\* pruneOrphanBranches tries all; git keeps those of the worktrees there are.
\* Mutant: the branches of all worktrees.
PrunedAll(f) == [d \in TaskDirs |-> [f[d] EXCEPT !.branch = FALSE]]
Pruned(f) == [d \in TaskDirs |-> [f[d] EXCEPT !.branch = @ /\ f[d].there]]
Cleanup ==
    /\ chatSession = "runs"
    /\ \E f \in {files} \cup Removed(files, Session) : files' = Pruned(f)
    /\ UNCHANGED <<taskRow, parent, child, lister, chatSession>>
\* Its worktree stays.
SessionEnds ==
    /\ chatSession = "runs" /\ chatSession' = "ended"
    /\ UNCHANGED <<taskRow, parent, child, files, lister>>

BackgroundInit ==
    /\ taskRow = [t \in Tasks |-> [status |-> "none", pid |-> "none"]]
    /\ parent = [t \in Tasks |-> "new"]
    /\ child = [t \in Tasks |-> [at |-> "none", message |-> NoTask]]
    /\ files = [d \in TaskDirs |-> [there |-> d = Shared, branch |-> FALSE, message |-> NoTask, done |-> FALSE]]
    /\ lister = [l \in Listers |-> [at |-> "idle", rows |-> {}, task |-> NoTask, found |-> "none"]]
    /\ chatSession = "none"

BackgroundNext ==
    \/ \E t \in Tasks : \/ CreateTask(t) \/ MarkRunning(t) \/ WriteMessage(t) \/ SpawnChild(t)
                        \/ SetPID(t) \/ ParentDies(t) \/ ChildReads(t) \/ ChildEnds(t)
    \/ \E l \in Listers : GetTasks(l) \/ CheckTask(l) \/ MarkTask(l) \/ ListingEnds(l)
    \/ SessionBegins \/ Cleanup \/ SessionEnds
BackgroundSpec == BackgroundInit /\ [][BackgroundNext]_backgroundVars

(* ------------------------------ properties ----------------------------- *)

\* In a repository tasks do not meddle with each other, whichever parents,
\* children and listers die or overtake each other: a child works on the
\* message of its own task, in a directory that no cleaner has taken from it,
\* nor its branch; and what is listed as completed has ended
\* (commands.go:836-905, tasks/manager.go:148-205, worktree/manager.go:229-262).
TasksApart ==
    InRepo => \A t \in Tasks :
        /\ ChildAt(t, "works") => child[t].message = t /\ files[DirOf(t)].there /\ files[DirOf(t)].branch
        /\ taskRow[t].status = "completed" => ChildAt(t, "ended")
=============================================================================
