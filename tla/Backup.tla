------------------------------- MODULE Backup -------------------------------
(***************************************************************************)
(* The backups the daemon takes before it lets a tool overwrite or delete  *)
(* part of a design (bridge-daemon/backup.ts).  Tool calls run side by     *)
(* side and share one git repository: its working tree, its index, its     *)
(* HEAD.  The daemon may die between any two steps; files and repository   *)
(* stay.                                                                   *)
(*                                                                         *)
(* A call backs up one document, which is one file, or a project, which is *)
(* the files of its snapshot.  The content of a file is the version of the *)
(* design that it was fetched from.  A git command is one step, because    *)
(* git locks the index; one that finds it locked five times fails.         *)
(***************************************************************************)
EXTENDS Naturals, Sequences, FiniteSets

CONSTANTS
  Calls,       \* destructive tool calls
  Files,       \* paths in the repository
  Projects,
  ProjectOf,   \* the project directory of each file
  FilesOf,     \* what each call backs up: files of one project
  Snapshots,   \* calls that back up a whole project
  MaxVersion   \* versions of the design in one behaviour (bound on the edits)

ASSUME FilesAssumption ==
  /\ ProjectOf \in [Files -> Projects]
  /\ FilesOf \in [Calls -> (SUBSET Files) \ {{}}]
  /\ \A c \in Calls : \A f, g \in FilesOf[c] : ProjectOf[f] = ProjectOf[g]
  /\ Snapshots \subseteq Calls
ASSUME VersionAssumption == MaxVersion \in Nat /\ MaxVersion > Cardinality(Calls)

VARIABLES
  pc,        \* how far each call is
  design,    \* the version of the design in the editor
  fetched,   \* the version each call fetched
  unwritten, \* the files each call has yet to write
  tree,      \* the working tree
  index,     \* the index
  inited,    \* .git exists
  history,   \* the trees of the commits; the last one is HEAD
  sha,       \* the commit each call reports, 0 before
  crossed    \* calls that ran while another one worked on a file of theirs

repo == <<inited, history>>
vars == <<pc, design, fetched, unwritten, tree, index, repo, sha, crossed>>

Absent == 0
Trees == [Files -> Nat]
Empty == [f \in Files |-> Absent]

Working == {"fetched", "init", "first", "wipe", "write", "head", "add", "diff",
            "commit", "report", "destroy"}
Ended == {"done", "refused", "lost"}

Active(c) == pc[c] \in Working

Project(c) == {f \in Files : \E g \in FilesOf[c] : ProjectOf[g] = ProjectOf[f]}

HeadExists == history # <<>>
HEAD == history[Len(history)]

TypeOK ==
  /\ pc \in [Calls -> {"idle"} \cup Working \cup Ended]
  /\ design \in Nat \ {0}
  /\ fetched \in [Calls -> Nat]
  /\ unwritten \in [Calls -> SUBSET Files]
  /\ tree \in Trees
  /\ index \in Trees
  /\ inited \in BOOLEAN
  /\ history \in Seq(Trees)
  /\ sha \in [Calls -> Nat] /\ \A c \in Calls : sha[c] <= Len(history)
  /\ crossed \subseteq Calls

Init ==
  /\ pc = [c \in Calls |-> "idle"]
  /\ design = 1
  /\ fetched = [c \in Calls |-> 0]
  /\ unwritten = [c \in Calls |-> {}]
  /\ tree = Empty /\ index = Empty
  /\ inited = FALSE /\ history = <<>>
  /\ sha = [c \in Calls |-> 0]
  /\ crossed = {}

-----------------------------------------------------------------------------
Goes(c, to) == pc' = [pc EXCEPT ![c] = to]

\* Where a call goes on once there is a repository.
FirstWrite(c) == IF c \in Snapshots THEN "wipe" ELSE "write"

Overlaps(c) == {d \in Calls \ {c} : Active(d) /\ FilesOf[c] \cap FilesOf[d] # {}}

\* getDocumentSource or getProjectFileByUuid.
Fetch(c) ==
  /\ pc[c] = "idle"
  /\ Goes(c, "fetched")
  /\ fetched' = [fetched EXCEPT ![c] = design]
  /\ unwritten' = [unwritten EXCEPT ![c] = FilesOf[c]]
  /\ crossed' = IF Overlaps(c) = {} THEN crossed ELSE crossed \cup Overlaps(c) \cup {c}
  /\ UNCHANGED <<design, tree, index, repo, sha>>

\* ensureRepo, the test for .git.
EnsureRepo(c) ==
  /\ pc[c] = "fetched"
  /\ Goes(c, IF inited THEN FirstWrite(c) ELSE "init")
  /\ UNCHANGED <<design, fetched, unwritten, tree, index, repo, sha, crossed>>

\* git init, and the configuration.
GitInit(c) ==
  /\ pc[c] = "init"
  /\ inited' = TRUE
  /\ Goes(c, "first")
  /\ UNCHANGED <<design, fetched, unwritten, tree, index, history, sha, crossed>>

\* git commit --allow-empty: whatever is in the index.
FirstCommit(c) ==
  /\ pc[c] = "first"
  /\ history' = Append(history, index)
  /\ Goes(c, FirstWrite(c))
  /\ UNCHANGED <<design, fetched, unwritten, tree, index, inited, sha, crossed>>

\* rm -r of the snapshot directory, mkdir.
Wipe(c) ==
  /\ pc[c] = "wipe"
  /\ tree' = [f \in Files |-> IF f \in FilesOf[c] THEN Absent ELSE tree[f]]
  /\ Goes(c, "write")
  /\ UNCHANGED <<design, fetched, unwritten, index, repo, sha, crossed>>

\* writeFile.
WriteFile(c, f) ==
  /\ pc[c] = "write"
  /\ f \in unwritten[c]
  /\ tree' = [tree EXCEPT ![f] = fetched[c]]
  /\ unwritten' = [unwritten EXCEPT ![c] = @ \ {f}]
  /\ Goes(c, IF unwritten[c] = {f} THEN "head" ELSE "write")
  /\ UNCHANGED <<design, fetched, index, repo, sha, crossed>>

\* Not the code: a call waits until there is a commit.
GetHeadWaits(c) ==
  /\ pc[c] = "head"
  /\ Goes(c, IF HeadExists THEN "add" ELSE "head")
  /\ UNCHANGED <<design, fetched, unwritten, tree, index, repo, sha, crossed>>

\* getHead, which fails if the repository has no commit.
GetHead(c) ==
  /\ pc[c] = "head"
  /\ Goes(c, IF HeadExists THEN "add" ELSE "refused")
  /\ UNCHANGED <<design, fetched, unwritten, tree, index, repo, sha, crossed>>

\* Not the code: git add -u leaves new files alone.
StagedKnown(c) ==
  [f \in Files |-> IF f \in Project(c) /\ index[f] # Absent THEN tree[f] ELSE index[f]]

\* git add -A -- <project>.
Staged(c) == [f \in Files |-> IF f \in Project(c) THEN tree[f] ELSE index[f]]

GitAdd(c) ==
  /\ pc[c] = "add"
  /\ index' = Staged(c)
  /\ Goes(c, "diff")
  /\ UNCHANGED <<design, fetched, unwritten, tree, repo, sha, crossed>>

\* git diff --cached -- <project>.
SomethingStaged(c) == \E f \in Project(c) : index[f] # HEAD[f]

GitDiff(c) ==
  /\ pc[c] = "diff"
  /\ Goes(c, IF SomethingStaged(c) THEN "commit" ELSE "report")
  /\ UNCHANGED <<design, fetched, unwritten, tree, index, repo, sha, crossed>>

\* git commit -- <project> takes the files that git knows from the working
\* tree, and fails if that changes nothing.
Tracked(f) == index[f] # Absent \/ HEAD[f] # Absent

Committed(c) ==
  [f \in Files |-> IF f \in Project(c) /\ Tracked(f) THEN tree[f] ELSE HEAD[f]]

GitCommit(c) ==
  /\ pc[c] = "commit"
  /\ \/ /\ Committed(c) # HEAD
        /\ history' = Append(history, Committed(c))
        /\ index' = [f \in Files |-> IF f \in Project(c) THEN Committed(c)[f] ELSE index[f]]
        /\ Goes(c, "report")
     \/ /\ Committed(c) = HEAD
        /\ Goes(c, "refused")
        /\ UNCHANGED <<history, index>>
  /\ UNCHANGED <<design, fetched, unwritten, tree, inited, sha, crossed>>

HeadNumber == Len(history)

\* rev-parse HEAD.
Report(c) ==
  /\ pc[c] = "report"
  /\ sha' = [sha EXCEPT ![c] = HeadNumber]
  /\ Goes(c, "destroy")
  /\ UNCHANGED <<design, fetched, unwritten, tree, index, repo, crossed>>

\* A call that throws: of the editor, of the file system, or of git (a lock
\* that is never free).  The destructive request is not sent.
Throws(c) ==
  /\ Active(c)
  /\ pc[c] # "destroy"
  /\ Goes(c, "refused")
  /\ UNCHANGED <<design, fetched, unwritten, tree, index, repo, sha, crossed>>

\* The handler sends the destructive request.
Destroy(c) ==
  /\ pc[c] = "destroy"
  /\ design' = design + 1
  /\ Goes(c, "done")
  /\ UNCHANGED <<fetched, unwritten, tree, index, repo, sha, crossed>>

\* A user, or a tool that takes no backup.
Edit ==
  /\ design + Cardinality({c \in Calls : pc[c] \notin Ended}) < MaxVersion
  /\ design' = design + 1
  /\ UNCHANGED <<pc, fetched, unwritten, tree, index, repo, sha, crossed>>

\* The daemon dies.
Crash ==
  /\ \E c \in Calls : Active(c)
  /\ pc' = [c \in Calls |-> IF Active(c) THEN "lost" ELSE pc[c]]
  /\ UNCHANGED <<design, fetched, unwritten, tree, index, repo, sha, crossed>>

-----------------------------------------------------------------------------
Step(c) ==
  \/ EnsureRepo(c) \/ GitInit(c) \/ FirstCommit(c)
  \/ Wipe(c) \/ \E f \in unwritten[c] : WriteFile(c, f)
  \/ GetHead(c) \/ GitAdd(c) \/ GitDiff(c) \/ GitCommit(c) \/ Report(c)
  \/ Destroy(c)

Next ==
  \/ \E c \in Calls : Fetch(c) \/ Step(c) \/ Throws(c)
  \/ Edit
  \/ Crash

\* A handler that has begun goes on; the editor answers or times out.
Fairness == \A c \in Calls : WF_vars(Step(c))

Spec == Init /\ [][Next]_vars /\ Fairness
-----------------------------------------------------------------------------
Holds(c) == \A f \in FilesOf[c] : history[sha[c]][f] = fetched[c]

\* The commit a call reports holds what the call fetched, as the tools say:
\* "the returned backup.sha references the pre-edit state".
ShaIsPriorState == \A c \in Calls : sha[c] # 0 => Holds(c)

\* It does if no other call was at work on the same files meanwhile, whatever
\* other calls did to the index, HEAD and other files of the project, and
\* whatever a crash left behind; and nothing is destroyed without it.
UndisturbedShaIsPriorState ==
  \A c \in Calls :
    /\ sha[c] # 0 /\ c \notin crossed => Holds(c)
    /\ pc[c] \in {"destroy", "done"} => sha[c] # 0

\* If every call so far went through, all that they wrote is committed:
\* nothing stays behind in the working tree or the index, whoever of them
\* staged it and whoever committed it (commitAndGetSha).
EverythingIsCommitted ==
  (\A c \in Calls : pc[c] \in {"idle", "done"}) /\ HeadExists => HEAD = tree /\ HEAD = index

\* A call that has begun goes through, is refused or dies with the daemon,
\* also if an earlier crash left a repository without a commit.
CallsEnd == \A c \in Calls : Active(c) ~> pc[c] \in Ended
=============================================================================
