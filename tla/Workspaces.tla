------------------------------ MODULE Workspaces ------------------------------
(***************************************************************************)
(* internal/agent: where the agents of one process work.  The lead, agent  *)
(* 0, takes the user's messages one after another and delegates: to one    *)
(* child (RunChild), to children with a worktree each (RunChildrenParallel, *)
(* the reviewers of a phase), or to children with a copy each, whose copies *)
(* are merged and whose outputs the others review (runParallelPhase).      *)
(*                                                                         *)
(* Every Run first looks at the lock file of its directory.  The file names *)
(* a process and is never removed, so the process finds itself: the agent  *)
(* then moves to a worktree of its own, made of the last commit.           *)
(*                                                                         *)
(* A file is the set of edits it contains.  A worktree's own .git is a     *)
(* file: copied back like any other, it is where the copying stops when    *)
(* the lead works in the main directory, whose .git is a directory.  The   *)
(* lock file comes after it and is copied like any other too.              *)
(***************************************************************************)
EXTENDS Naturals, Sequences, FiniteSets, FiniteSetsExt

CONSTANTS
    MaxChildren,        \* children of one delegation
    Slots,              \* maxConcurrent of RunChildrenParallel
    Files, BeforeGit,   \* files, and those that are walked before .git
    IsRepo,             \* whether the user's directory is a git repository
    MaxDirs,            \* bound: directories at one time
    MaxEdits, MaxRuns, MaxJobs  \* bounds of a behaviour

Children == 1..MaxChildren
Lead == 0
Agents == {Lead} \cup Children
Dirs == 1..MaxDirs
Main == 1               \* the directory the process was started in

LockFile == ".synroute.lock"

ASSUME WorkspacesAssumption ==
    /\ MaxChildren \in Nat \ {0} /\ Slots \in Nat \ {0} /\ MaxDirs \in Nat \ {0}
    /\ {MaxEdits, MaxRuns, MaxJobs} \subseteq Nat
    /\ BeforeGit \subseteq Files /\ LockFile \notin Files /\ IsRepo \in BOOLEAN

VARIABLES
    tree,               \* the files of a directory
    exists,             \* the directories there are
    git,                \* those that git can add a worktree from
    locks,              \* those with a lock file of a process that is alive
    agent,              \* where an agent is and in which directories
    job,                \* what the lead waits for
    outputs,            \* the children of a phase in the order they ended
    foreign,            \* whether another process works in Main
    moved,              \* history: the worktrees that agents moved to
    cramped,            \* history: a worktree could not be made
    edits, runs, jobs   \* counters

dirVars == <<tree, exists, git, locks, cramped>>
workspaceVars == <<dirVars, agent, job, outputs, foreign, moved, edits, runs, jobs>>

Committed == [f \in Files |-> {}]
NobodyYet == [at |-> "idle", dir |-> Main, own |-> 0, todo |-> {}]
NoJob == [kind |-> "none", stage |-> "run", n |-> 0, guarded |-> FALSE]

WorkspacesInit ==
    /\ tree = [d \in Dirs |-> Committed]
    /\ exists = {Main}
    /\ git = IF IsRepo THEN {Main} ELSE {}
    /\ foreign \in BOOLEAN
    /\ locks = IF foreign THEN {Main} ELSE {}
    /\ agent = [a \in Agents |-> NobodyYet]
    /\ job = NoJob
    /\ outputs = <<>>
    /\ cramped = FALSE
    /\ moved = {}
    /\ edits = 0 /\ runs = 0 /\ jobs = 0

Delegated == 1..job.n
IsAt(a, place) == agent[a].at = place
Becomes(a, place) == agent' = [agent EXCEPT ![a].at = place]

(* ----------------------- worktrees and lock files ----------------------- *)

NewDir == {Min(Dirs \ exists)}
CanMake == Dirs \ exists # {}

\* worktree.Manager.Create.
AddWorktree(from, d) ==
    /\ from \in git
    /\ exists' = exists \cup {d}
    /\ git' = git \cup {d}
    /\ tree' = [tree EXCEPT ![d] = Committed]
    /\ UNCHANGED <<locks, cramped>>

\* It fails: no repository, or git does.
CannotAdd == cramped' = TRUE /\ UNCHANGED <<tree, exists, git, locks>>

\* mutant: the process's own lock does not count.
HeldByOthers(d) == foreign /\ d = Main

\* IsLockHeld.
Held(d) == d \in locks

\* Run looks at the lock of the agent's directory: it moves to a worktree,
\* goes on there without one,
LookAtLock(a) ==
    LET here == agent[a].dir IN
    /\ IsAt(a, "enters")
    /\ IF Held(here)
       THEN \/ /\ CanMake
               /\ \E d \in NewDir : AddWorktree(here, d)
                                    /\ agent' = [agent EXCEPT ![a].at = "works", ![a].dir = d]
                                    /\ moved' = moved \cup {d}
            \/ CannotAdd /\ Becomes(a, "works") /\ UNCHANGED moved
       ELSE Becomes(a, "takes") /\ UNCHANGED <<dirVars, moved>>
    /\ UNCHANGED <<job, outputs, foreign, edits, runs, jobs>>

\* or takes the lock, and works here also when another was faster.
AcquireLock(a) ==
    /\ IsAt(a, "takes")
    /\ locks' = locks \cup {agent[a].dir}
    /\ Becomes(a, "works")
    /\ UNCHANGED <<tree, exists, git, cramped, job, outputs, foreign, moved, edits, runs, jobs>>

(* --------------------------------- work --------------------------------- *)

\* The user's next message.
Message ==
    /\ IsAt(Lead, "idle") /\ runs < MaxRuns
    /\ runs' = runs + 1
    /\ Becomes(Lead, "enters")
    /\ UNCHANGED <<dirVars, job, outputs, foreign, moved, edits, jobs>>

Edit(a) ==
    /\ IsAt(a, "works") /\ edits < MaxEdits
    /\ a = Lead => job = NoJob
    /\ edits' = edits + 1
    /\ \E f \in Files : tree' = [tree EXCEPT ![agent[a].dir][f] = @ \cup {edits'}]
    /\ UNCHANGED <<exists, git, locks, cramped, agent, job, outputs, foreign, moved, runs, jobs>>

\* The lead answers the user.
Answer ==
    /\ IsAt(Lead, "works") /\ job = NoJob
    /\ Becomes(Lead, "idle")
    /\ UNCHANGED <<dirVars, job, outputs, foreign, moved, edits, runs, jobs>>

(* ------------------------------ delegation ------------------------------ *)

\* The children of a job begin at place, in the directory the lead works in.
BeginJob(kind, n, place) ==
    /\ IsAt(Lead, "works") /\ job = NoJob /\ jobs < MaxJobs
    /\ jobs' = jobs + 1
    /\ job' = [kind |-> kind, stage |-> "run", n |-> n, guarded |-> agent[Lead].dir \in locks]
    /\ outputs' = <<>>
    /\ agent' = [a \in Agents |-> IF a \in 1..n THEN [NobodyYet EXCEPT !.at = place, !.dir = agent[Lead].dir]
                                  ELSE agent[a]]
    /\ UNCHANGED <<foreign, moved, edits, runs>>

RunChild == BeginJob("single", 1, "enters") /\ UNCHANGED dirVars

RunChildrenParallel ==
    \E n \in Children : BeginJob("delegates", n, "queues") /\ UNCHANGED dirVars

\* A phase of planners, who share the lead's directory.
RunPlanners == \E n \in Children : BeginJob("plan", n, "enters") /\ UNCHANGED dirVars

\* runParallelPhase: a copy of the lead's directory for each child, made by
\* copyDirContents.  The lock file is copied, and in a worktree .git too.
RunParallelPhase ==
    \E n \in Children :
        /\ BeginJob("phase", n, "copies")
        /\ UNCHANGED dirVars

CopyDir(c) ==
    LET from == agent[Lead].dir IN
    /\ IsAt(c, "copies") /\ \A b \in 1..(c - 1) : ~IsAt(b, "copies")
    /\ \/ CanMake /\ \E d \in NewDir :
             /\ exists' = exists \cup {d}
             /\ tree' = [tree EXCEPT ![d] = tree[from]]
             /\ git' = IF from \in git \ {Main} THEN git \cup {d} ELSE git
             /\ locks' = IF from \in locks THEN locks \cup {d} ELSE locks
             /\ agent' = [agent EXCEPT ![c].at = "ready", ![c].dir = d, ![c].own = d]
             /\ UNCHANGED cramped
       \/ CannotAdd /\ Becomes(c, "ready")
    /\ UNCHANGED <<job, outputs, foreign, moved, edits, runs, jobs>>

StartChild(c) ==
    /\ IsAt(c, "ready") /\ \A b \in Delegated : ~IsAt(b, "copies")
    /\ Becomes(c, "enters")
    /\ UNCHANGED <<dirVars, job, outputs, foreign, moved, edits, runs, jobs>>

\* A child of RunChildrenParallel takes a slot and gets a worktree, or has to
\* do with the lead's directory.
Outside == {"idle", "queues", "done"}
TakeSlot(c) ==
    /\ IsAt(c, "queues")
    /\ Cardinality({b \in Delegated : agent[b].at \notin Outside}) < Slots
    /\ \/ CanMake /\ \E d \in NewDir :
             /\ AddWorktree(agent[c].dir, d)
             /\ agent' = [agent EXCEPT ![c].at = "enters", ![c].dir = d, ![c].own = d]
       \/ CannotAdd /\ Becomes(c, "enters")
    /\ UNCHANGED <<job, outputs, foreign, moved, edits, runs, jobs>>

\* A child's Run returns, with a result or an error: it syncs its worktree.
EndChild(c) ==
    /\ c \in Children /\ IsAt(c, "works")
    /\ IF job.kind = "delegates" /\ agent[c].own # 0
       THEN agent' = [agent EXCEPT ![c].at = "syncs", ![c].todo = Files \cup {LockFile}]
       ELSE Becomes(c, "done")
    /\ outputs' = IF job.stage = "run" THEN Append(outputs, c) ELSE outputs
    /\ UNCHANGED <<dirVars, job, foreign, moved, edits, runs, jobs>>

\* The locks when what is in the directories, a lock file too, was copied to
\* where the lead works.
WithLocksOf(dirs) == locks \cup (IF dirs \cap locks # {} THEN {agent[Lead].dir} ELSE {})

\* syncWorktreeToParent: the files before .git, one after another,
Copy(c, f) ==
    /\ IF f = LockFile
       THEN locks' = WithLocksOf({agent[c].own}) /\ UNCHANGED tree
       ELSE tree' = [tree EXCEPT ![agent[Lead].dir][f] = tree[agent[c].own][f]] /\ UNCHANGED locks
    /\ agent' = [agent EXCEPT ![c].todo = @ \ {f}]
    /\ UNCHANGED <<exists, git, cramped>>

\* mutant: an error in the walk is returned at once.
SyncFileOrStop(c) ==
    /\ IsAt(c, "syncs")
    /\ IF agent[c].todo \cap BeforeGit # {} THEN \E f \in agent[c].todo \cap BeforeGit : Copy(c, f)
       ELSE IF agent[Lead].dir = Main THEN Becomes(c, "idle") /\ UNCHANGED dirVars
       ELSE IF agent[c].todo # {} THEN \E f \in agent[c].todo : Copy(c, f)
       ELSE Becomes(c, "removes") /\ UNCHANGED dirVars
    /\ UNCHANGED <<job, outputs, foreign, moved, edits, runs, jobs>>

\* and those after it only when the lead's .git is a file as well, which then
\* is that of the child; an error is logged.
SyncFile(c) ==
    /\ IsAt(c, "syncs")
    /\ IF agent[c].todo \cap BeforeGit # {} THEN \E f \in agent[c].todo \cap BeforeGit : Copy(c, f)
       ELSE IF agent[Lead].dir # Main /\ agent[c].todo # {} THEN \E f \in agent[c].todo : Copy(c, f)
       ELSE Becomes(c, "removes") /\ UNCHANGED dirVars
    /\ UNCHANGED <<job, outputs, foreign, moved, edits, runs, jobs>>

\* mutant: a lead in a worktree keeps those of its children.
DeleteInMain(c) ==
    /\ IsAt(c, "removes")
    /\ exists' = IF agent[Lead].dir = Main THEN exists \ {agent[c].own} ELSE exists
    /\ agent' = [agent EXCEPT ![c].at = "done", ![c].own = 0]
    /\ UNCHANGED <<tree, git, locks, cramped, job, outputs, foreign, moved, edits, runs, jobs>>

\* Manager.Delete, after which the slot is free.  Where the child's .git has
\* come over the lead's, git finds no repository in the lead's directory, or
\* it still does.
Delete(c) ==
    /\ IsAt(c, "removes")
    /\ exists' = exists \ {agent[c].own}
    /\ locks' = locks \ {agent[c].own}
    /\ git' \in {git \ {agent[c].own}} \cup
           (IF agent[Lead].dir # Main THEN {git \ {agent[c].own, agent[Lead].dir}} ELSE {})
    /\ agent' = [agent EXCEPT ![c].at = "done", ![c].own = 0]
    /\ UNCHANGED <<tree, cramped, job, outputs, foreign, moved, edits, runs, jobs>>

ChildrenDone == job # NoJob /\ \A c \in Delegated : IsAt(c, "done")
Reviews == job.kind = "phase" /\ job.stage = "run" /\ job.n >= 2

\* mergeParallelDir: the copies are copied back whole, in the order of the
\* tasks, so the last one stays; then the locks of what is removed are gone.
Copies == {c \in Delegated : agent[c].own # 0}
MergeDirs(removed) ==
    IF job.kind = "phase" /\ job.stage = "run" /\ Copies # {}
    THEN /\ tree' = [tree EXCEPT ![agent[Lead].dir] = tree[agent[Max(Copies)].own]]
         /\ locks' = WithLocksOf({agent[c].own : c \in Copies}) \ removed
    ELSE tree' = tree /\ locks' = locks \ removed

\* Stage 2: a child for each output, in the lead's directory.
CrossReview ==
    /\ ChildrenDone /\ Reviews
    /\ MergeDirs({})
    /\ job' = [job EXCEPT !.stage = "review"]
    /\ agent' = [a \in Agents |-> IF a \in Delegated
                                  THEN [agent[a] EXCEPT !.at = "enters", !.dir = agent[Lead].dir]
                                  ELSE agent[a]]
    /\ UNCHANGED <<exists, git, cramped, outputs, foreign, moved, edits, runs, jobs>>

\* The delegation returns; the deferred cleanup removes the copies.
EndJob ==
    LET copies == {agent[c].own : c \in Copies} IN
    /\ ChildrenDone /\ ~Reviews
    /\ MergeDirs(copies)
    /\ exists' = exists \ copies /\ git' = git \ copies
    /\ job' = NoJob
    /\ agent' = [a \in Agents |-> IF a = Lead THEN agent[a] ELSE NobodyYet]
    /\ UNCHANGED <<cramped, outputs, foreign, moved, edits, runs, jobs>>

(* ------------------------------ cross-review ---------------------------- *)

\* The outputs of stage 1 are looked up in one text, in which they are in the
\* order the children ended: that of child c reaches from its heading to the
\* heading of the next child, or to the end where that one comes earlier.
Place(c) == CHOOSE i \in DOMAIN outputs : outputs[i] = c

\* mutant: the section ends at no heading.
SectionToEnd(c) == {outputs[i] : i \in Place(c)..Len(outputs)}

Section(c) ==
    LET last == IF c < job.n /\ Place(c + 1) > Place(c) THEN Place(c + 1) - 1
                ELSE job.n
    IN  {outputs[i] : i \in Place(c)..last}

\* Whose work a child reviews, and what it is given of it.
Target(c) == IF c = 1 THEN job.n ELSE c - 1
Given(c) == Section(Target(c))

(* ------------------------------- behaviour ------------------------------ *)

ChildStep(c) ==
    LookAtLock(c) \/ AcquireLock(c) \/ CopyDir(c) \/ StartChild(c) \/ TakeSlot(c)
    \/ EndChild(c) \/ SyncFile(c) \/ Delete(c)
LeadStep == LookAtLock(Lead) \/ AcquireLock(Lead) \/ CrossReview \/ EndJob

WorkspacesNext ==
    \/ Message \/ Answer \/ RunChild \/ RunChildrenParallel \/ RunPlanners \/ RunParallelPhase
    \/ LeadStep
    \/ \E c \in Children : ChildStep(c)
    \/ \E a \in Agents : Edit(a)

\* The goroutines of the children are run and their Runs return (module
\* DirectLoop); nothing makes a message come.
WorkspacesFairness ==
    /\ WF_workspaceVars(LeadStep)
    /\ \A c \in Children : WF_workspaceVars(ChildStep(c))

WorkspacesSpec == WorkspacesInit /\ [][WorkspacesNext]_workspaceVars /\ WorkspacesFairness

(* ------------------------------- properties ----------------------------- *)

Places == {"idle", "enters", "takes", "works", "queues", "copies", "ready", "syncs", "removes", "done"}
Workers == [at : Places, dir : Dirs, own : Dirs \cup {0}, todo : SUBSET (Files \cup {LockFile})]
Delegations == [kind : {"none", "single", "delegates", "plan", "phase"}, stage : {"run", "review"},
                n : 0..MaxChildren, guarded : BOOLEAN]
\* The type invariant.
WorkspacesTypeOK ==
    /\ tree \in [Dirs -> [Files -> SUBSET Nat]]
    /\ exists \subseteq Dirs /\ git \subseteq Dirs /\ locks \subseteq Dirs /\ moved \subseteq Dirs
    /\ agent \in [Agents -> Workers]
    /\ job \in Delegations
    /\ outputs \in Seq(Children)
    /\ foreign \in BOOLEAN /\ cramped \in BOOLEAN
    /\ edits \in Nat /\ runs \in Nat /\ jobs \in Nat

\* Two children never work in one directory at a time, whichever way they
\* were delegated to - as long as worktrees can be made and the lead's
\* directory was locked when it delegated: every other message it is not.
OneWriter ==
    ~cramped /\ job.guarded =>
        \A c, d \in Delegated :
            c # d /\ IsAt(c, "works") /\ IsAt(d, "works") => agent[c].dir # agent[d].dir

\* Each reviewer is given its target's output, and but for the first nothing
\* of its own, in whatever order the children ended.
OthersReviewed ==
    job.stage = "review" =>
        \A c \in Delegated : Target(c) \in Given(c) /\ (c > 1 => c \notin Given(c))

\* Children keep out of each other's way, in directories and in reviews.
ChildrenApart == OneWriter /\ OthersReviewed

\* What a delegation made for its children is gone when it returns; what
\* stays are the worktrees that Run moved an agent to.
NothingLeft == exists = {Main} \cup moved \cup ({agent[c].own : c \in Children} \ {0})

\* Every delegation returns.
JobsEnd == (job # NoJob) ~> (job = NoJob)

\* "acquire lock or auto-create worktree if held by another process": when the
\* process waits for the user, what its agents edited is in the directory it
\* was started in, unless another process works there.
EditsReachUser ==
    IsAt(Lead, "idle") /\ ~foreign => UNION {tree[Main][f] : f \in Files} = 1..edits
=============================================================================
