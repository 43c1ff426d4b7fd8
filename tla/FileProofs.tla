----------------------------- MODULE FileProofs -----------------------------
(***************************************************************************)
(* Proofs about what keeps files: the backup repository (Backup) and the   *)
(* design library (Library).                                               *)
(*                                                                         *)
(* Backup, for any calls, files and projects, any number of edits and      *)
(* crashes: a call that nobody crossed finds in the working tree what it   *)
(* wrote there, from its add on in the index, and from its commit, or      *)
(* another's, on in HEAD (InPlace).  Others add and commit its files too,  *)
(* but with the content that the working tree has.                         *)
(*                                                                         *)
(* Library, for any symbols, symbol files, pages, changes, placements and  *)
(* edits: a pin is drawn where it is read, because the rule for angles     *)
(* turns a stub as the rule for points does (Turns); a label shows what    *)
(* was asked of it, because the editor's copies and line numbers always    *)
(* say what is in its lines (EditorOK), whatever is inserted between them; *)
(* and what the writer writes is again a well-formed page, whose names     *)
(* are all behind the next ones (LinesOK), with elements that go together  *)
(* with what was made with them (Carries).                                 *)
(***************************************************************************)
EXTENDS Backup, Library, FiniteSetTheorems, SequenceTheorems, NaturalsInduction, WellFoundedInduction, TLAPS

-----------------------------------------------------------------------------
(* The backup repository.                                                  *)

-----------------------------------------------------------------------------
(* Types.  A commit is a tree only because there is a HEAD to start from.  *)

HeadInv == \A c \in Calls : pc[c] \in {"add", "diff", "commit", "report"} => HeadExists

TypeInv == TypeOK /\ HeadInv

\* What git add and git commit make are trees.
LEMMA StagedIsTree ==
  ASSUME TypeOK, NEW c \in Calls
  PROVE  Staged(c) \in Trees
BY SMTT(30) DEF TypeOK, Staged, Trees

LEMMA HeadIsTree ==
  ASSUME TypeOK, HeadExists
  PROVE  HEAD \in Trees
BY DEF TypeOK, HeadExists, HEAD

LEMMA CommittedIsTree ==
  ASSUME TypeOK, HeadExists, NEW c \in Calls
  PROVE  Committed(c) \in Trees
<1>1. HEAD \in Trees BY HeadIsTree
<1> QED BY <1>1 DEF TypeOK, Committed, Trees

\* One commit more: the earlier ones stay, and it is HEAD.
LEMMA OneCommitMore ==
  ASSUME TypeOK, NEW t \in Trees, history' = Append(history, t)
  PROVE  /\ history' \in Seq(Trees)
         /\ Len(history') = Len(history) + 1
         /\ \A i \in 1..Len(history) : history'[i] = history[i]
         /\ HeadExists'
         /\ HEAD' = t
<1>1. history \in Seq(Trees) BY DEF TypeOK
<1>2. /\ Append(history, t) \in Seq(Trees)
      /\ Append(history, t) # <<>>
      /\ Len(Append(history, t)) = Len(history) + 1
      /\ \A i \in 1..Len(history) : Append(history, t)[i] = history[i]
      /\ Append(history, t)[Len(history) + 1] = t
  BY <1>1, AppendProperties
<1> QED BY <1>2 DEF HeadExists, HEAD

\* The commits there are stay, whatever happens.
LEMMA HistoryGrows ==
  ASSUME TypeInv, [Next]_vars
  PROVE  /\ history' \in Seq(Trees)
         /\ Len(history') \in Nat /\ Len(history) \in Nat
         /\ Len(history) <= Len(history')
         /\ \A i \in 1..Len(history) : history'[i] = history[i]
         /\ HeadExists => HeadExists'
<1> DEFINE Grown == /\ history' \in Seq(Trees)
                    /\ Len(history) <= Len(history')
                    /\ \A i \in 1..Len(history) : history'[i] = history[i]
                    /\ HeadExists => HeadExists'
<1>1. history \in Seq(Trees) /\ Len(history) \in Nat BY DEF TypeInv, TypeOK
<1>2. ASSUME NEW t \in Trees, history' = Append(history, t) PROVE Grown
  BY <1>1, <1>2, OneCommitMore DEF TypeInv
<1>3. ASSUME history' = history PROVE Grown
  BY <1>1, <1>3 DEF HeadExists
<1>4. ASSUME NEW c \in Calls, FirstCommit(c) PROVE Grown
  BY <1>2, <1>4 DEF FirstCommit, TypeInv, TypeOK
<1>5. ASSUME NEW c \in Calls, GitCommit(c) PROVE Grown
  <2>1. HeadExists BY <1>5 DEF GitCommit, TypeInv, HeadInv
  <2>2. Committed(c) \in Trees BY <2>1, CommittedIsTree DEF TypeInv
  <2>3. history' = Append(history, Committed(c)) \/ history' = history
    BY <1>5 DEF GitCommit
  <2> QED BY <1>2, <1>3, <2>2, <2>3
<1>6. \/ history' = history
      \/ \E c \in Calls : FirstCommit(c) \/ GitCommit(c)
  BY DEF Next, vars, repo, Step, Fetch, EnsureRepo, GitInit, Wipe, WriteFile, GetHead,
         GitAdd, GitDiff, Report, Throws, Destroy, Edit, Crash
<1>7. Grown
  <2> HIDE DEF Grown
  <2>1. CASE history' = history BY <1>3, <2>1
  <2> QED BY <1>4, <1>5, <1>6, <2>1
<1> QED BY <1>1, <1>7

-----------------------------------------------------------------------------
LEMMA TypeInit == Init => TypeInv
<1> SUFFICES ASSUME Init PROVE TypeInv OBVIOUS
<1>1. history \in Seq(Trees) BY DEF Init
<1>2. tree \in Trees /\ index \in Trees BY DEF Init, Trees, Empty, Absent
<1>3. fetched \in [Calls -> Nat] /\ unwritten \in [Calls -> SUBSET Files]
      /\ pc \in [Calls -> {"idle"}] /\ sha \in [Calls -> {0}]
  BY DEF Init
<1>4. Len(history) = 0 BY DEF Init
<1>5. \A c \in Calls : pc[c] = "idle" /\ sha[c] <= Len(history) BY <1>4 DEF Init
<1>6. HeadInv BY <1>5 DEF HeadInv
<1>7. design \in Nat \ {0} /\ crossed \subseteq Calls BY DEF Init
<1>8. inited \in BOOLEAN BY DEF Init
<1> QED BY <1>1, <1>2, <1>3, <1>5, <1>6, <1>7, <1>8 DEF TypeInv, TypeOK

LEMMA TypeStep ==
  ASSUME TypeInv, [Next]_vars
  PROVE  TypeInv'
<1> DEFINE P == pc' \in [Calls -> {"idle"} \cup Working \cup Ended]
           F == fetched' \in [Calls -> Nat] /\ unwritten' \in [Calls -> SUBSET Files]
           T == tree' \in Trees
           I == index' \in Trees
           R == inited' \in BOOLEAN
           S == sha' \in [Calls -> Nat] /\ \A c \in Calls : sha'[c] <= Len(history')
           D == design' \in Nat \ {0} /\ crossed' \subseteq Calls
           H == HeadInv'
<1>1. /\ history' \in Seq(Trees)
      /\ Len(history') \in Nat /\ Len(history) \in Nat
      /\ Len(history) <= Len(history')
      /\ HeadExists => HeadExists'
  BY HistoryGrows
<1> USE FilesAssumption DEF TypeInv, TypeOK
<1>s. ASSUME UNCHANGED sha PROVE S BY <1>1, <1>s
<1>a. ASSUME NEW c \in Calls, NEW s \in {"idle"} \cup Working \cup Ended, Goes(c, s),
             s \notin {"add", "diff", "commit", "report"}
             \/ pc[c] \in {"add", "diff", "commit", "report"} \/ HeadExists
      PROVE  P /\ H
  <2>1. P BY <1>a DEF Goes
  <2>2. H BY <1>1, <1>a DEF Goes, HeadInv
  <2> QED BY <2>1, <2>2
<1>q. P /\ F /\ T /\ I /\ R /\ S /\ D /\ H => TypeInv'
  BY <1>1
<1> DEFINE Typed == P /\ F /\ T /\ I /\ R /\ S /\ D /\ H
<1>2. ASSUME NEW c \in Calls, Fetch(c) PROVE Typed
  <2>1. P /\ H BY <1>2, <1>a DEF Fetch, Working
  <2>2. F BY <1>2 DEF Fetch
  <2>3. D BY <1>2 DEF Fetch, Overlaps
  <2> QED BY <1>2, <1>s, <2>1, <2>2, <2>3 DEF Fetch, repo
<1>3. ASSUME NEW c \in Calls, EnsureRepo(c) PROVE Typed
  <2>1. P /\ H BY <1>3, <1>a DEF EnsureRepo, Working, FirstWrite
  <2> QED BY <1>3, <1>s, <2>1 DEF EnsureRepo, repo
<1>4. ASSUME NEW c \in Calls, GitInit(c) PROVE Typed
  <2>1. P /\ H BY <1>4, <1>a DEF GitInit, Working
  <2> QED BY <1>4, <1>s, <2>1 DEF GitInit
<1>5. ASSUME NEW c \in Calls, FirstCommit(c) PROVE Typed
  <2>1. P /\ H BY <1>5, <1>a DEF FirstCommit, Working, FirstWrite
  <2> QED BY <1>5, <1>s, <2>1 DEF FirstCommit
<1>6. ASSUME NEW c \in Calls, Wipe(c) PROVE Typed
  <2>1. P /\ H BY <1>6, <1>a DEF Wipe, Working
  <2>2. T BY <1>6 DEF Wipe, Trees, Absent
  <2> QED BY <1>6, <1>s, <2>1, <2>2 DEF Wipe, repo
<1>7. ASSUME NEW c \in Calls, NEW f \in unwritten[c], WriteFile(c, f) PROVE Typed
  <2>1. P /\ H BY <1>7, <1>a DEF WriteFile, Working
  <2>2. T BY <1>7 DEF WriteFile, Trees
  <2>3. F BY <1>7 DEF WriteFile
  <2> QED BY <1>7, <1>s, <2>1, <2>2, <2>3 DEF WriteFile, repo
<1>8. ASSUME NEW c \in Calls, GetHead(c) PROVE Typed
  <2>1. P /\ H BY <1>8, <1>a DEF GetHead, Working, Ended
  <2> QED BY <1>8, <1>s, <2>1 DEF GetHead, repo
<1>9. ASSUME NEW c \in Calls, GitAdd(c) PROVE Typed
  <2>1. P /\ H BY <1>9, <1>a DEF GitAdd, Working
  <2>2. I BY <1>9, StagedIsTree DEF GitAdd
  <2> QED BY <1>9, <1>s, <2>1, <2>2 DEF GitAdd, repo
<1>10. ASSUME NEW c \in Calls, GitDiff(c) PROVE Typed
  <2>1. P /\ H BY <1>10, <1>a DEF GitDiff, Working
  <2> QED BY <1>10, <1>s, <2>1 DEF GitDiff, repo
<1>11. ASSUME NEW c \in Calls, GitCommit(c) PROVE Typed
  <2>1. P /\ H BY <1>11, <1>a DEF GitCommit, Working, Ended
  <2>2. HeadExists BY <1>11 DEF GitCommit, HeadInv
  <2>3. Committed(c) \in Trees BY <2>2, CommittedIsTree
  <2>4. I BY <1>11, <2>3 DEF GitCommit, Trees
  <2> QED BY <1>11, <1>s, <2>1, <2>4 DEF GitCommit
<1>12. ASSUME NEW c \in Calls, Report(c) PROVE Typed
  <2>1. P /\ H BY <1>12, <1>a DEF Report, Working
  <2>2. sha' = [sha EXCEPT ![c] = Len(history)] /\ history' = history
    BY <1>12 DEF Report, HeadNumber, repo
  <2>3. S BY <1>1, <2>2
  <2> QED BY <1>12, <2>1, <2>3 DEF Report, repo
<1>13. ASSUME NEW c \in Calls, Throws(c) PROVE Typed
  <2>1. P /\ H BY <1>13, <1>a DEF Throws, Ended
  <2> QED BY <1>13, <1>s, <2>1 DEF Throws, repo
<1>14. ASSUME NEW c \in Calls, Destroy(c) PROVE Typed
  <2>1. P /\ H BY <1>14, <1>a DEF Destroy, Ended
  <2>2. D BY <1>14 DEF Destroy
  <2> QED BY <1>14, <1>s, <2>1, <2>2 DEF Destroy, repo
<1>15. ASSUME Edit PROVE Typed
  <2>1. D BY <1>15 DEF Edit
  <2> QED BY <1>15, <1>s, <2>1 DEF Edit, repo, HeadInv, HeadExists
<1>16. ASSUME Crash PROVE Typed
  <2>1. P BY <1>16 DEF Crash, Ended
  <2>2. H BY <1>16 DEF Crash, repo, HeadInv, HeadExists
  <2> QED BY <1>16, <1>s, <2>1, <2>2 DEF Crash, repo
<1>17. ASSUME UNCHANGED vars PROVE Typed
  BY <1>17, <1>s DEF vars, repo, HeadInv, HeadExists
<1>18. Typed
  <2> HIDE DEF Typed, TypeInv
  <2> QED BY <1>2, <1>3, <1>4, <1>5, <1>6, <1>7, <1>8, <1>9, <1>10, <1>11, <1>12, <1>13,
             <1>14, <1>15, <1>16, <1>17 DEF Next, Step
<1> QED
  <2> HIDE DEF P, F, T, I, R, S, D, H, TypeInv
  <2> QED BY <1>q, <1>18

\* Type correctness.
THEOREM TypeCorrect == Spec => []TypeOK
<1>1. Spec => []TypeInv
  BY TypeInit, TypeStep, PTL DEF Spec
<1>2. TypeInv => TypeOK BY DEF TypeInv
<1> QED BY <1>1, <1>2, PTL

-----------------------------------------------------------------------------
(* What each call knows of itself. *)

BeforeWrite == {"fetched", "init", "first", "wipe"}
AfterWrite  == {"head", "add", "diff", "commit", "report"}
AfterAdd    == {"diff", "commit", "report"}

CallInv(c) ==
  /\ unwritten[c] \subseteq FilesOf[c]
  /\ pc[c] \in BeforeWrite => unwritten[c] = FilesOf[c]
  /\ Active(c) => fetched[c] # Absent
  /\ sha[c] # 0 => pc[c] \in {"destroy"} \cup Ended
  /\ pc[c] \in {"destroy", "done"} => sha[c] # 0

CallsInv == \A c \in Calls : CallInv(c)

CrossedIsKnown ==
  \A c, d \in Calls :
    c # d /\ Active(c) /\ Active(d) /\ FilesOf[c] \cap FilesOf[d] # {} => c \in crossed

CallStep(d) == Fetch(d) \/ Step(d) \/ Throws(d)

\* A call leaves the variables of another one alone.
LEMMA OthersKeep ==
  ASSUME TypeInv, NEW d \in Calls, CallStep(d), NEW c \in Calls, c # d
  PROVE  /\ pc'[c] = pc[c] /\ fetched'[c] = fetched[c]
         /\ unwritten'[c] = unwritten[c] /\ sha'[c] = sha[c]
<1>1. ASSUME NEW s, Goes(d, s) PROVE pc'[c] = pc[c]
  BY <1>1 DEF Goes, TypeInv, TypeOK
<1>2. CASE Fetch(d) BY <1>1, <1>2 DEF Fetch, TypeInv, TypeOK
<1>3. CASE EnsureRepo(d) \/ GitInit(d) \/ FirstCommit(d)
  BY <1>1, <1>3 DEF EnsureRepo, GitInit, FirstCommit
<1>4. CASE Wipe(d) \/ GetHead(d) \/ GitAdd(d)
  BY <1>1, <1>4 DEF Wipe, GetHead, GitAdd
<1>5. CASE GitDiff(d) \/ Destroy(d) \/ Throws(d)
  BY <1>1, <1>5 DEF GitDiff, Destroy, Throws
<1>6. CASE GitCommit(d) BY <1>1, <1>6 DEF GitCommit
<1>7. CASE Report(d) BY <1>1, <1>7 DEF Report, TypeInv, TypeOK
<1>8. ASSUME NEW f \in unwritten[d], WriteFile(d, f)
      PROVE  /\ pc'[c] = pc[c] /\ fetched'[c] = fetched[c]
         /\ unwritten'[c] = unwritten[c] /\ sha'[c] = sha[c]
  BY <1>1, <1>8 DEF WriteFile, TypeInv, TypeOK
<1> QED BY <1>2, <1>3, <1>4, <1>5, <1>6, <1>7, <1>8 DEF CallStep, Step

\* What a call's own step does to what it knows.
LEMMA OwnStep ==
  ASSUME TypeInv, NEW c \in Calls, CallInv(c), CallStep(c)
  PROVE  CallInv(c)'
<1> USE FilesAssumption DEF TypeInv, TypeOK
<1>1. ASSUME NEW s, Goes(c, s) PROVE pc'[c] = s
  BY <1>1 DEF Goes
<1>2. ASSUME pc'[c] \in Working \ {"destroy"}, Active(c), pc[c] # "destroy",
             pc'[c] \in BeforeWrite => pc[c] \in BeforeWrite,
             unwritten' = unwritten, fetched' = fetched, sha' = sha
      PROVE  CallInv(c)'
  BY <1>2 DEF CallInv, Active, Working, Ended
<1>3. ASSUME pc'[c] = "refused", Active(c), unwritten' = unwritten, fetched' = fetched, sha' = sha
      PROVE  CallInv(c)'
  BY <1>3 DEF CallInv, Active, Working, Ended, BeforeWrite
<1>4. CASE Fetch(c)
  <2>1. /\ pc'[c] = "fetched" /\ unwritten'[c] = FilesOf[c]
        /\ fetched'[c] = design /\ sha' = sha /\ pc[c] = "idle"
    BY <1>1, <1>4 DEF Fetch
  <2> QED BY <2>1 DEF CallInv, Active, Working, Ended, Absent, BeforeWrite
<1>5. CASE EnsureRepo(c)
  BY <1>1, <1>2, <1>5 DEF EnsureRepo, FirstWrite, Active, Working, BeforeWrite
<1>6. CASE GitInit(c) BY <1>1, <1>2, <1>6 DEF GitInit, Active, Working, BeforeWrite
<1>7. CASE FirstCommit(c)
  BY <1>1, <1>2, <1>7 DEF FirstCommit, FirstWrite, Active, Working, BeforeWrite
<1>8. CASE Wipe(c) BY <1>1, <1>2, <1>8 DEF Wipe, Active, Working, BeforeWrite
<1>9. ASSUME NEW f \in unwritten[c], WriteFile(c, f) PROVE CallInv(c)'
  <2>1. /\ pc[c] = "write" /\ pc'[c] \in {"write", "head"} /\ fetched' = fetched
        /\ sha' = sha /\ unwritten'[c] \subseteq unwritten[c]
    BY <1>1, <1>9 DEF WriteFile
  <2> QED BY <2>1 DEF CallInv, Active, Working, Ended, BeforeWrite
<1>10. CASE GetHead(c) BY <1>1, <1>2, <1>3, <1>10 DEF GetHead, Active, Working, BeforeWrite
<1>11. CASE GitAdd(c) BY <1>1, <1>2, <1>11 DEF GitAdd, Active, Working, BeforeWrite
<1>12. CASE GitDiff(c) BY <1>1, <1>2, <1>12 DEF GitDiff, Active, Working, BeforeWrite
<1>13. CASE GitCommit(c)
  BY <1>1, <1>2, <1>3, <1>13 DEF GitCommit, Active, Working, BeforeWrite
<1>14. CASE Report(c)
  <2>1. HeadExists BY <1>14 DEF Report, HeadInv
  <2>2. Len(history) # 0 BY <2>1 DEF HeadExists
  <2>3. /\ pc[c] = "report" /\ pc'[c] = "destroy" /\ fetched' = fetched
        /\ sha'[c] # 0 /\ unwritten' = unwritten
    BY <1>1, <1>14, <2>2 DEF Report, HeadNumber
  <2> QED BY <2>3 DEF CallInv, Active, Working, Ended, BeforeWrite
<1>15. CASE Throws(c) BY <1>1, <1>3, <1>15 DEF Throws
<1>16. CASE Destroy(c)
  <2>1. /\ pc[c] = "destroy" /\ pc'[c] = "done" /\ fetched' = fetched
        /\ sha' = sha /\ unwritten' = unwritten
    BY <1>1, <1>16 DEF Destroy
  <2> QED BY <2>1 DEF CallInv, Active, Working, Ended, BeforeWrite
<1> QED
  BY <1>4, <1>5, <1>6, <1>7, <1>8, <1>9, <1>10, <1>11, <1>12, <1>13, <1>14, <1>15, <1>16
  DEF CallStep, Step

LEMMA CallsStep ==
  ASSUME TypeInv, CallsInv, [Next]_vars
  PROVE  CallsInv'
<1> SUFFICES ASSUME NEW c \in Calls PROVE CallInv(c)'
  BY DEF CallsInv
<1>0. CallInv(c) BY DEF CallsInv
<1>1. ASSUME NEW d \in Calls, CallStep(d) PROVE CallInv(c)'
  <2>1. CASE c = d BY <1>0, <1>1, <2>1, OwnStep
  <2>2. CASE c # d BY <1>0, <1>1, <2>2, OthersKeep DEF CallInv, Active
  <2> QED BY <2>1, <2>2
<1>2. CASE Edit \/ UNCHANGED vars
  BY <1>0, <1>2 DEF Edit, vars, CallInv, Active
<1>3. CASE Crash
  <2>1. pc'[c] = pc[c] \/ (Active(c) /\ pc'[c] = "lost") BY <1>3 DEF Crash
  <2>2. UNCHANGED <<fetched, unwritten, sha>> BY <1>3 DEF Crash
  <2> QED BY <1>0, <2>1, <2>2 DEF CallInv, Active, Working, Ended, BeforeWrite
<1> QED BY <1>1, <1>2, <1>3 DEF Next, CallStep

\* Who is at work was so before, or has just begun and looked.
LEMMA CrossedStep ==
  ASSUME TypeInv, CrossedIsKnown, [Next]_vars
  PROVE  CrossedIsKnown' /\ crossed \subseteq crossed'
<1>1. ASSUME crossed' = crossed, \A c \in Calls : Active(c)' => Active(c)
      PROVE  CrossedIsKnown' /\ crossed \subseteq crossed'
  BY <1>1 DEF CrossedIsKnown
<1>2. ASSUME NEW d \in Calls, Fetch(d) PROVE CrossedIsKnown' /\ crossed \subseteq crossed'
  <2>1. \A c \in Calls : c # d /\ Active(c)' => Active(c)
    BY <1>2, OthersKeep DEF CallStep, Active
  <2>2. crossed \subseteq crossed' BY <1>2 DEF Fetch
  <2>3. ASSUME NEW c \in Calls, c # d, Active(c), FilesOf[c] \cap FilesOf[d] # {}
        PROVE  c \in crossed' /\ d \in crossed'
    <3>1. c \in Overlaps(d) BY <2>3 DEF Overlaps
    <3> QED BY <1>2, <3>1 DEF Fetch
  <2> QED BY <2>1, <2>2, <2>3 DEF CrossedIsKnown
<1>3. ASSUME NEW d \in Calls, Step(d) \/ Throws(d)
      PROVE  CrossedIsKnown' /\ crossed \subseteq crossed'
  <2>1. crossed' = crossed
    BY <1>3 DEF Step, EnsureRepo, GitInit, FirstCommit, Wipe, WriteFile, GetHead, GitAdd,
                GitDiff, GitCommit, Report, Destroy, Throws
  <2>2. Active(d)
    BY <1>3 DEF Step, EnsureRepo, GitInit, FirstCommit, Wipe, WriteFile, GetHead, GitAdd,
                GitDiff, GitCommit, Report, Destroy, Throws, Active, Working
  <2>3. \A c \in Calls : c # d /\ Active(c)' => Active(c)
    BY <1>3, OthersKeep DEF CallStep, Active
  <2> QED BY <1>1, <2>1, <2>2, <2>3
<1>4. CASE Edit \/ UNCHANGED vars BY <1>1, <1>4 DEF Edit, vars, Active
<1>5. CASE Crash
  <2>1. \A c \in Calls : pc'[c] = pc[c] \/ pc'[c] = "lost" BY <1>5 DEF Crash
  <2> QED BY <1>1, <1>5, <2>1 DEF Crash, Active, Working
<1> QED BY <1>2, <1>3, <1>4, <1>5 DEF Next

-----------------------------------------------------------------------------
(* What an uncrossed call relies on. *)

Mine(c) ==
  /\ pc[c] = "write" => \A f \in FilesOf[c] \ unwritten[c] : tree[f] = fetched[c]
  /\ pc[c] \in AfterWrite => \A f \in FilesOf[c] : tree[f] = fetched[c]
  /\ pc[c] \in AfterAdd => \A f \in FilesOf[c] : index[f] = fetched[c]
  /\ pc[c] = "report" => \A f \in FilesOf[c] : HEAD[f] = fetched[c]
  /\ sha[c] # 0 => Holds(c)

InPlace == \A c \in Calls \ crossed : Mine(c)

IInv == TypeInv /\ CallsInv /\ CrossedIsKnown /\ InPlace

LEMMA OwnFiles ==
  ASSUME NEW c \in Calls, NEW f \in FilesOf[c]
  PROVE  f \in Files /\ f \in Project(c)
BY FilesAssumption DEF Project

\* A commit that a call reported still holds what it did.
LEMMA StillHolds ==
  ASSUME TypeInv, [Next]_vars, NEW c \in Calls, sha'[c] = sha[c], fetched'[c] = fetched[c],
         sha[c] # 0, Holds(c)
  PROVE  Holds(c)'
<1>1. sha[c] \in 1..Len(history) BY HistoryGrows DEF TypeInv, TypeOK
<1>2. history'[sha[c]] = history[sha[c]] BY <1>1, HistoryGrows
<1> QED BY <1>2 DEF Holds

\* Steps of others that keep an uncrossed call's files as they are.
LEMMA MineKept ==
  ASSUME TypeInv, [Next]_vars, NEW c \in Calls, Mine(c),
         pc'[c] = pc[c], fetched'[c] = fetched[c],
         unwritten'[c] = unwritten[c], sha'[c] = sha[c],
         Active(c) => \A f \in FilesOf[c] : tree'[f] = tree[f],
         pc[c] \in AfterAdd => \A f \in FilesOf[c] : index'[f] = fetched[c],
         pc[c] = "report" => \A f \in FilesOf[c] : HEAD'[f] = fetched[c]
  PROVE  Mine(c)'
<1>1. sha'[c] # 0 => Holds(c)' BY StillHolds DEF Mine
<1> QED BY <1>1 DEF Mine, Active, Working, AfterWrite

LEMMA OthersKeepMine ==
  ASSUME IInv, [Next]_vars, NEW d \in Calls, CallStep(d),
         NEW c \in Calls \ crossed, c # d
  PROVE  Mine(c)'
<1> USE FilesAssumption
<1>1. Mine(c) BY DEF IInv, InPlace
<1>2. TypeInv /\ CallInv(c) /\ CallInv(d) BY DEF IInv, CallsInv
<1>3. pc'[c] = pc[c] /\ fetched'[c] = fetched[c] /\ unwritten'[c] = unwritten[c] /\ sha'[c] = sha[c]
  BY <1>2, OthersKeep
<1>4. \A f \in FilesOf[c] : f \in Files /\ (Active(c) /\ Active(d) => f \notin FilesOf[d])
  BY DEF IInv, CrossedIsKnown
<1> DEFINE TreeKept == Active(c) => \A f \in FilesOf[c] : tree'[f] = tree[f]
           IndexKept == pc[c] \in AfterAdd => \A f \in FilesOf[c] : index'[f] = fetched[c]
           HeadKept == pc[c] = "report" => \A f \in FilesOf[c] : HEAD'[f] = fetched[c]
<1>5. ASSUME UNCHANGED tree PROVE TreeKept BY <1>5
<1>6. ASSUME UNCHANGED index PROVE IndexKept BY <1>1, <1>6 DEF Mine
<1>7. ASSUME UNCHANGED history PROVE HeadKept BY <1>1, <1>7 DEF Mine, HEAD
<1>8. TreeKept /\ IndexKept /\ HeadKept => Mine(c)'
  BY <1>1, <1>2, <1>3, MineKept
<1> DEFINE Kept == TreeKept /\ IndexKept /\ HeadKept
<1>9. ASSUME tree' = tree, index' = index, history' = history PROVE Kept
  BY <1>5, <1>6, <1>7, <1>9
<1>10. CASE Fetch(d) \/ EnsureRepo(d) \/ GitInit(d) \/ GetHead(d)
  <2>1. Kept BY <1>9, <1>10 DEF Fetch, EnsureRepo, GitInit, GetHead, repo
  <2> QED BY <1>8, <2>1
<1>11. CASE GitDiff(d) \/ Report(d) \/ Throws(d) \/ Destroy(d)
  <2>1. Kept BY <1>9, <1>11 DEF GitDiff, Report, Throws, Destroy, repo
  <2> QED BY <1>8, <2>1
<1>12. CASE FirstCommit(d)
  <2>1. index \in Trees BY <1>2 DEF TypeInv, TypeOK
  <2>2. HEAD' = index
    BY <1>2, <1>12, <2>1, OneCommitMore DEF FirstCommit, TypeInv
  <2>3. HeadKept BY <1>1, <2>2 DEF Mine, AfterAdd
  <2> QED BY <1>5, <1>6, <1>8, <1>12, <2>3 DEF FirstCommit
<1>13. CASE Wipe(d)
  <2>1. Active(d) BY <1>13 DEF Wipe, Active, Working
  <2>2. TreeKept BY <1>2, <1>4, <1>13, <2>1 DEF Wipe, TypeInv, TypeOK, Trees
  <2> QED BY <1>6, <1>7, <1>8, <1>13, <2>2 DEF Wipe, repo
<1>14. ASSUME NEW g \in unwritten[d], WriteFile(d, g) PROVE Mine(c)'
  <2>1. Active(d) BY <1>14 DEF WriteFile, Active, Working
  <2>2. g \in FilesOf[d] BY <1>2 DEF CallInv
  <2>3. TreeKept BY <1>2, <1>4, <1>14, <2>1, <2>2 DEF WriteFile, TypeInv, TypeOK, Trees
  <2> QED BY <1>6, <1>7, <1>8, <1>14, <2>3 DEF WriteFile, repo
<1>15. CASE GitAdd(d)
  <2>1. \A f \in Files : index'[f] \in {tree[f], index[f]} BY <1>15 DEF GitAdd, Staged
  <2>2. IndexKept BY <1>1, <1>4, <2>1 DEF Mine, AfterAdd, AfterWrite
  <2> QED BY <1>5, <1>7, <1>8, <1>15, <2>2 DEF GitAdd, repo
<1>16. CASE GitCommit(d)
  <2>1. CASE UNCHANGED <<history, index>>
    BY <1>5, <1>6, <1>7, <1>8, <1>16, <2>1 DEF GitCommit
  <2>2. CASE /\ history' = Append(history, Committed(d))
             /\ index' = [f \in Files |-> IF f \in Project(d) THEN Committed(d)[f] ELSE index[f]]
    <3>1. HeadExists BY <1>2, <1>16 DEF GitCommit, TypeInv, HeadInv
    <3>2. Committed(d) \in Trees BY <1>2, <3>1, CommittedIsTree DEF TypeInv
    <3>3. HEAD' = Committed(d) BY <1>2, <2>2, <3>2, OneCommitMore DEF TypeInv
    <3>4. ASSUME pc[c] \in AfterAdd, NEW f \in FilesOf[c]
          PROVE  /\ tree[f] = fetched[c] /\ index[f] = fetched[c]
                 /\ f \in Files /\ Tracked(f)
      <4>1. tree[f] = fetched[c] /\ index[f] = fetched[c]
        BY <1>1, <3>4 DEF Mine, AfterAdd, AfterWrite
      <4>2. fetched[c] # Absent BY <1>2, <3>4 DEF CallInv, AfterAdd, Active, Working
      <4> QED BY <1>4, <4>1, <4>2 DEF Tracked
    <3>5. IndexKept BY <2>2, <3>4 DEF Committed
    <3>6. HeadKept BY <1>1, <3>3, <3>4 DEF Committed, Mine, AfterAdd
    <3> QED BY <1>5, <1>8, <1>16, <3>5, <3>6 DEF GitCommit
  <2> QED BY <1>16, <2>1, <2>2 DEF GitCommit
<1> QED
  BY <1>10, <1>11, <1>12, <1>13, <1>14, <1>15, <1>16 DEF CallStep, Step

\* A call's own steps put its files in place one after the other.
LEMMA OwnStepMine ==
  ASSUME IInv, [Next]_vars, NEW c \in Calls \ crossed, CallStep(c)
  PROVE  Mine(c)'
<1>1. Mine(c) BY DEF IInv, InPlace
<1>2. TypeInv /\ CallInv(c) BY DEF IInv, CallsInv
<1>3. \A f \in FilesOf[c] : f \in Files /\ f \in Project(c) BY OwnFiles
<1>4. ASSUME NEW s, Goes(c, s) PROVE pc'[c] = s
  BY <1>2, <1>4 DEF Goes, TypeInv, TypeOK
<1>5. pc[c] \notin {"destroy"} \cup Ended => sha[c] = 0 BY <1>2 DEF CallInv
<1>6. ASSUME pc'[c] \in {"fetched", "init", "first", "wipe", "refused"}, sha'[c] = 0 PROVE Mine(c)'
  BY <1>6 DEF Mine, AfterWrite, AfterAdd
<1>7. ASSUME pc'[c] = "write", sha'[c] = 0, unwritten'[c] = FilesOf[c] PROVE Mine(c)'
  BY <1>7 DEF Mine, AfterWrite, AfterAdd
<1>8. CASE Fetch(c) BY <1>4, <1>5, <1>6, <1>8 DEF Fetch, Ended
<1>9. CASE EnsureRepo(c) \/ FirstCommit(c)
  <2>1. pc'[c] \in {"init", "wipe", "write"} BY <1>4, <1>9 DEF EnsureRepo, FirstCommit, FirstWrite
  <2>2. sha'[c] = 0 /\ unwritten'[c] = FilesOf[c]
    BY <1>2, <1>5, <1>9 DEF EnsureRepo, FirstCommit, Ended, CallInv, BeforeWrite
  <2> QED BY <1>6, <1>7, <2>1, <2>2
<1>10. CASE GitInit(c) BY <1>4, <1>5, <1>6, <1>10 DEF GitInit, Ended
<1>11. CASE Wipe(c)
  <2>1. sha'[c] = 0 /\ unwritten'[c] = FilesOf[c]
    BY <1>2, <1>5, <1>11 DEF Wipe, Ended, CallInv, BeforeWrite
  <2> QED BY <1>4, <1>7, <1>11, <2>1 DEF Wipe
<1>12. ASSUME NEW g \in unwritten[c], WriteFile(c, g) PROVE Mine(c)'
  <2>1. /\ pc[c] = "write" /\ pc'[c] \in {"write", "head"} /\ fetched' = fetched
        /\ unwritten'[c] = unwritten[c] \ {g}
        /\ pc'[c] = "head" => unwritten[c] = {g}
        /\ tree' = [tree EXCEPT ![g] = fetched[c]]
    BY <1>2, <1>4, <1>12 DEF WriteFile, TypeInv, TypeOK
  <2>2. sha'[c] = 0 BY <1>5, <1>12 DEF WriteFile, Ended
  <2>3. \A f \in FilesOf[c] \ (unwritten[c] \ {g}) : tree'[f] = fetched'[c]
    <3>1. \A f \in FilesOf[c] \ unwritten[c] : tree[f] = fetched[c] BY <1>1, <2>1 DEF Mine
    <3>2. tree \in [Files -> Nat] BY <1>2 DEF TypeInv, TypeOK, Trees
    <3> QED BY <1>3, <2>1, <3>1, <3>2
  <2> QED BY <2>1, <2>2, <2>3 DEF Mine, AfterWrite, AfterAdd
<1>13. CASE GetHead(c)
  <2>1. pc[c] = "head" /\ pc'[c] \in {"add", "refused"} /\ UNCHANGED <<fetched, tree, sha>>
    BY <1>4, <1>13 DEF GetHead
  <2> QED BY <1>1, <1>5, <2>1 DEF Mine, AfterWrite, AfterAdd, Ended
<1>14. CASE GitAdd(c)
  <2>1. pc[c] = "add" /\ pc'[c] = "diff" /\ UNCHANGED <<fetched, tree, sha>> /\ index' = Staged(c)
    BY <1>4, <1>14 DEF GitAdd
  <2>2. \A f \in FilesOf[c] : index'[f] = tree[f] BY <1>3, <2>1 DEF Staged
  <2> QED BY <1>1, <1>5, <2>1, <2>2 DEF Mine, AfterWrite, AfterAdd, Ended
<1>15. CASE GitDiff(c)
  <2>1. /\ pc[c] = "diff" /\ pc'[c] \in {"commit", "report"}
        /\ UNCHANGED <<fetched, tree, index, history, sha>>
        /\ pc'[c] = "report" => ~SomethingStaged(c)
    BY <1>4, <1>15 DEF GitDiff, repo
  <2>2. pc'[c] = "report" => \A f \in FilesOf[c] : HEAD'[f] = index[f]
    BY <1>3, <2>1 DEF SomethingStaged, HEAD
  <2> QED BY <1>1, <1>5, <2>1, <2>2 DEF Mine, AfterWrite, AfterAdd, Ended
<1>16. CASE GitCommit(c)
  <2>1. pc[c] = "commit" /\ UNCHANGED <<fetched, tree, sha>> BY <1>16 DEF GitCommit
  <2>2. sha'[c] = 0 BY <1>5, <2>1 DEF Ended
  <2>3. CASE pc'[c] = "refused" BY <1>6, <2>2, <2>3
  <2>4. CASE /\ history' = Append(history, Committed(c)) /\ pc'[c] = "report"
             /\ index' = [f \in Files |-> IF f \in Project(c) THEN Committed(c)[f] ELSE index[f]]
    <3>1. HeadExists BY <1>2, <2>1 DEF TypeInv, HeadInv
    <3>2. Committed(c) \in Trees BY <1>2, <3>1, CommittedIsTree DEF TypeInv
    <3>3. HEAD' = Committed(c) BY <1>2, <2>4, <3>2, OneCommitMore DEF TypeInv
    <3>4. ASSUME NEW f \in FilesOf[c]
          PROVE  /\ tree[f] = fetched[c] /\ Committed(c)[f] = fetched[c]
                 /\ f \in Files /\ f \in Project(c)
      <4>1. tree[f] = fetched[c] /\ index[f] = fetched[c]
        BY <1>1, <2>1 DEF Mine, AfterAdd, AfterWrite
      <4>2. fetched[c] # Absent BY <1>2, <2>1 DEF CallInv, Active, Working
      <4> QED BY <1>3, <4>1, <4>2 DEF Tracked, Committed
    <3>5. \A f \in FilesOf[c] : index'[f] = fetched[c] /\ HEAD'[f] = fetched[c]
      BY <2>4, <3>3, <3>4
    <3> QED BY <2>1, <2>2, <2>4, <3>4, <3>5 DEF Mine, AfterWrite, AfterAdd
  <2> QED BY <1>4, <1>16, <2>3, <2>4 DEF GitCommit
<1>17. CASE Report(c)
  <2>1. /\ pc[c] = "report" /\ pc'[c] = "destroy" /\ UNCHANGED <<fetched, history>>
        /\ sha' = [sha EXCEPT ![c] = Len(history)]
    BY <1>4, <1>17 DEF Report, HeadNumber, repo
  <2>2. sha'[c] = Len(history) BY <1>2, <2>1 DEF TypeInv, TypeOK
  <2>3. \A f \in FilesOf[c] : HEAD[f] = fetched[c] BY <1>1, <2>1 DEF Mine
  <2> QED BY <2>1, <2>2, <2>3 DEF Mine, Holds, HEAD, AfterWrite, AfterAdd
<1>18. CASE Throws(c)
  <2>1. pc'[c] = "refused" /\ sha' = sha BY <1>4, <1>18 DEF Throws
  <2>2. pc[c] \notin {"destroy"} \cup Ended BY <1>18 DEF Throws, Active, Working, Ended
  <2> QED BY <1>5, <1>6, <2>1, <2>2
<1>19. CASE Destroy(c)
  <2>1. pc'[c] = "done" /\ sha' = sha /\ fetched' = fetched BY <1>4, <1>19 DEF Destroy
  <2>2. sha'[c] # 0 => Holds(c)' BY <1>1, <1>2, <2>1, StillHolds DEF Mine
  <2> QED BY <2>1, <2>2 DEF Mine, AfterWrite, AfterAdd
<1> QED
  BY <1>8, <1>9, <1>10, <1>11, <1>12, <1>13, <1>14, <1>15, <1>16, <1>17, <1>18, <1>19
  DEF CallStep, Step

LEMMA IInvStep ==
  ASSUME IInv, [Next]_vars
  PROVE  IInv'
<1>1. TypeInv' /\ CallsInv' BY TypeStep, CallsStep DEF IInv
<1>2. CrossedIsKnown' /\ crossed \subseteq crossed' BY CrossedStep DEF IInv
<1>3. ASSUME NEW c \in Calls, c \notin crossed' PROVE Mine(c)'
  <2>1. c \in Calls \ crossed BY <1>2, <1>3
  <2>2. Mine(c) /\ TypeInv BY <2>1 DEF IInv, InPlace
  <2>3. ASSUME NEW d \in Calls, CallStep(d) PROVE Mine(c)'
    BY <2>1, <2>3, OthersKeepMine, OwnStepMine
  <2>4. CASE Edit \/ UNCHANGED vars
    <3>1. UNCHANGED <<pc, fetched, unwritten, tree, index, history, sha>>
      BY <2>4 DEF Edit, vars, repo
    <3> QED BY <2>2, <3>1 DEF Mine, Holds, HEAD
  <2>5. CASE Crash
    <3>1. UNCHANGED <<fetched, unwritten, tree, index, history, sha>> BY <2>5 DEF Crash, repo
    <3>2. pc'[c] \in {pc[c], "lost"} BY <2>5 DEF Crash
    <3> QED BY <2>2, <3>1, <3>2 DEF Mine, Holds, HEAD, AfterWrite, AfterAdd
  <2> QED BY <2>3, <2>4, <2>5 DEF Next, CallStep
<1> QED BY <1>1, <1>2, <1>3 DEF IInv, InPlace

LEMMA IInvInit == Init => IInv
<1> SUFFICES ASSUME Init PROVE IInv OBVIOUS
<1>1. TypeInv BY TypeInit
<1>2. \A c \in Calls : pc[c] = "idle" /\ unwritten[c] = {} /\ sha[c] = 0 BY DEF Init
<1>3. CallsInv
  BY <1>2 DEF CallsInv, CallInv, Active, Working, Ended, BeforeWrite
<1>4. CrossedIsKnown BY <1>2 DEF CrossedIsKnown, Active, Working
<1>5. InPlace BY <1>2 DEF InPlace, Mine, AfterWrite, AfterAdd
<1> QED BY <1>1, <1>3, <1>4, <1>5 DEF IInv

\* The commit that an uncrossed call reports holds what the call fetched, and
\* no destructive request goes out without one (backupDocument, backupProject).
THEOREM ReportsArePriorState == Spec => []UndisturbedShaIsPriorState
<1>1. Spec => []IInv
  BY IInvInit, IInvStep, PTL DEF Spec
<1>2. IInv => UndisturbedShaIsPriorState
  BY DEF IInv, InPlace, CallsInv, CallInv, Mine, UndisturbedShaIsPriorState
<1> QED BY <1>1, <1>2, PTL

-----------------------------------------------------------------------------
(* What is not committed yet has a call that will see to it, unless one failed. *)

NoneFailed == \A c \in Calls : pc[c] \notin {"refused", "lost"}

DirtyTree ==
  \A f \in Files : tree[f] # index[f] =>
    \E c \in Calls : pc[c] \in {"write", "head", "add"} /\ f \in Project(c)

DirtyIndex ==
  HeadExists => \A f \in Files : index[f] # HEAD[f] =>
    \E c \in Calls : pc[c] \in {"diff", "commit"} /\ f \in Project(c)

SeenTo == NoneFailed => DirtyTree /\ DirtyIndex

\* A call that failed stays failed.
LEMMA FailuresStay ==
  ASSUME TypeInv, [Next]_vars, NoneFailed'
  PROVE  NoneFailed
<1>1. ASSUME NEW c \in Calls, pc[c] \in {"refused", "lost"} PROVE pc'[c] = pc[c]
  <2>1. ASSUME NEW d \in Calls, CallStep(d) PROVE pc'[c] = pc[c]
    <3>1. pc[d] \notin {"refused", "lost"}
      BY <2>1 DEF CallStep, Fetch, Step, EnsureRepo, GitInit, FirstCommit, Wipe, WriteFile,
           GetHead, GitAdd, GitDiff, GitCommit, Report, Destroy, Throws, Active, Working
    <3> QED BY <1>1, <2>1, <3>1, OthersKeep
  <2>2. CASE Edit \/ Crash \/ UNCHANGED vars
    BY <1>1, <2>2 DEF Edit, Crash, vars, Active, Working
  <2> QED BY <2>1, <2>2 DEF Next, CallStep
<1> QED BY <1>1 DEF NoneFailed

LEMMA SeenToStep ==
  ASSUME TypeInv, CallsInv, SeenTo, [Next]_vars
  PROVE  SeenTo'
<1> SUFFICES ASSUME NoneFailed' PROVE DirtyTree' /\ DirtyIndex'
  BY DEF SeenTo
<1>1. DirtyTree /\ DirtyIndex BY FailuresStay DEF SeenTo
<1> USE DEF TypeInv, TypeOK, Trees
<1>2. ASSUME NEW d \in Calls, NEW s, Goes(d, s)
      PROVE  pc'[d] = s /\ \A c \in Calls : c # d => pc'[c] = pc[c]
  BY <1>2 DEF Goes
<1>3. ASSUME NEW d \in Calls, NEW s, Goes(d, s),
             pc[d] \in {"write", "head", "add"} => s \in {"write", "head", "add"},
             \A f \in Files : tree'[f] # index'[f] =>
               tree[f] # index[f] \/ (s \in {"write", "head", "add"} /\ f \in Project(d))
      PROVE  DirtyTree'
  <2>1. \A c \in Calls : pc[c] \in {"write", "head", "add"} => pc'[c] \in {"write", "head", "add"}
    BY <1>2, <1>3
  <2>2. pc'[d] = s BY <1>2, <1>3
  <2> QED BY <1>1, <1>3, <2>1, <2>2 DEF DirtyTree, Project
<1>4. ASSUME NEW d \in Calls, NEW s, Goes(d, s),
             pc[d] \in {"diff", "commit"} => s \in {"diff", "commit"},
             UNCHANGED <<index, history>>
      PROVE  DirtyIndex'
  <2>1. \A c \in Calls : pc[c] \in {"diff", "commit"} => pc'[c] \in {"diff", "commit"}
    BY <1>2, <1>4
  <2> QED BY <1>1, <1>4, <2>1 DEF DirtyIndex, HeadExists, HEAD, Project
<1>5. ASSUME NEW d \in Calls, NEW s, Goes(d, s), UNCHANGED <<tree, index, history>>,
             pc[d] \notin {"write", "head", "add", "diff", "commit"}
      PROVE  DirtyTree' /\ DirtyIndex'
  BY <1>3, <1>4, <1>5
<1>6. ASSUME NEW d \in Calls,
             Fetch(d) \/ EnsureRepo(d) \/ GitInit(d) \/ Report(d) \/ Destroy(d)
      PROVE  DirtyTree' /\ DirtyIndex'
  BY <1>5, <1>6 DEF Fetch, EnsureRepo, GitInit, Report, Destroy, repo
<1>7. ASSUME NEW d \in Calls, FirstCommit(d) PROVE DirtyTree' /\ DirtyIndex'
  <2>1. DirtyTree' BY <1>3, <1>7 DEF FirstCommit
  <2>2. HEAD' = index BY <1>7, OneCommitMore DEF FirstCommit
  <2> QED BY <1>7, <2>1, <2>2 DEF FirstCommit, DirtyIndex
<1>8. ASSUME NEW d \in Calls, Wipe(d) PROVE DirtyTree' /\ DirtyIndex'
  <2>1. \A f \in Files : tree'[f] # tree[f] => f \in Project(d)
    BY <1>8, OwnFiles DEF Wipe
  <2>2. DirtyTree' BY <1>3, <1>8, <2>1 DEF Wipe
  <2> QED BY <1>4, <1>8, <2>2 DEF Wipe, repo
<1>9. ASSUME NEW d \in Calls, NEW g \in unwritten[d], WriteFile(d, g) PROVE DirtyTree' /\ DirtyIndex'
  <2>1. g \in FilesOf[d] BY DEF CallsInv, CallInv
  <2>2. \A f \in Files : tree'[f] # tree[f] => f \in Project(d)
    BY <1>9, <2>1, OwnFiles DEF WriteFile
  <2>3. DirtyTree' BY <1>3, <1>9, <2>2 DEF WriteFile
  <2> QED BY <1>4, <1>9, <2>3 DEF WriteFile, repo
<1>10. ASSUME NEW d \in Calls, GetHead(d) PROVE DirtyTree' /\ DirtyIndex'
  <2>1. Goes(d, "add") BY <1>10 DEF GetHead, Goes, NoneFailed
  <2> QED BY <1>3, <1>4, <1>10, <2>1 DEF GetHead, repo
<1>11. ASSUME NEW d \in Calls, GitAdd(d) PROVE DirtyTree' /\ DirtyIndex'
  <2>1. /\ pc[d] = "add" /\ pc'[d] = "diff" /\ UNCHANGED <<tree, history>>
        /\ \A c \in Calls : c # d => pc'[c] = pc[c]
        /\ \A f \in Files : index'[f] = IF f \in Project(d) THEN tree[f] ELSE index[f]
    BY <1>2, <1>11 DEF GitAdd, Staged, repo
  <2>2. DirtyTree' BY <1>1, <2>1 DEF DirtyTree, Project
  <2>3. DirtyIndex' BY <1>1, <2>1 DEF DirtyIndex, HeadExists, HEAD, Project
  <2> QED BY <2>2, <2>3
<1>12. ASSUME NEW d \in Calls, GitDiff(d) PROVE DirtyTree' /\ DirtyIndex'
  <2>1. DirtyTree' BY <1>3, <1>12 DEF GitDiff
  <2>2. CASE SomethingStaged(d) BY <1>4, <1>12, <2>1, <2>2 DEF GitDiff, repo
  <2>3. CASE ~SomethingStaged(d)
    <3>1. /\ UNCHANGED <<index, history>>
          /\ \A c \in Calls : c # d => pc'[c] = pc[c]
          /\ \A f \in Project(d) : index[f] = HEAD[f]
      BY <1>2, <1>12, <2>3 DEF GitDiff, repo, SomethingStaged
    <3> QED BY <1>1, <2>1, <3>1 DEF DirtyIndex, HeadExists, HEAD, Project
  <2> QED BY <2>2, <2>3
<1>13. ASSUME NEW d \in Calls, GitCommit(d) PROVE DirtyTree' /\ DirtyIndex'
  <2>1. /\ Goes(d, "report") /\ pc[d] = "commit" /\ tree' = tree
        /\ history' = Append(history, Committed(d))
        /\ index' = [f \in Files |-> IF f \in Project(d) THEN Committed(d)[f] ELSE index[f]]
    BY <1>13 DEF GitCommit, Goes, NoneFailed
  <2>2. HeadExists BY <2>1 DEF HeadInv
  <2>3. Committed(d) \in Trees BY <2>2, CommittedIsTree
  <2>4. HEAD' = Committed(d) BY <2>1, <2>3, OneCommitMore
  <2>5. ASSUME NEW f \in Files
        PROVE  /\ index'[f] \in {tree[f], index[f]}
               /\ f \in Project(d) => HEAD'[f] = index'[f]
               /\ f \notin Project(d) => HEAD'[f] = HEAD[f] /\ index'[f] = index[f]
    BY <2>1, <2>4, <2>5 DEF Committed, Tracked
  <2>6. DirtyTree' BY <1>3, <2>1, <2>5
  <2>7. \A c \in Calls : c # d => pc'[c] = pc[c] BY <1>2, <2>1
  <2>8. DirtyIndex' BY <1>1, <2>2, <2>5, <2>7 DEF DirtyIndex, Project
  <2> QED BY <2>6, <2>8
<1>14. ASSUME NEW d \in Calls, Throws(d) PROVE FALSE
  BY <1>14 DEF Throws, Goes, NoneFailed
<1>15. CASE Edit \/ UNCHANGED vars
  <2>1. UNCHANGED <<pc, tree, index, history>> BY <1>15 DEF Edit, vars, repo
  <2> QED BY <1>1, <2>1 DEF DirtyTree, DirtyIndex, HeadExists, HEAD, Project
<1>16. CASE Crash BY <1>16 DEF Crash, NoneFailed
<1> QED
  BY <1>6, <1>7, <1>8, <1>9, <1>10, <1>11, <1>12, <1>13, <1>14, <1>15, <1>16 DEF Next, Step

\* If every call so far went through, nothing stays behind in the working tree
\* or the index, whoever staged it and whoever committed it (commitAndGetSha).
THEOREM NothingLeftBehind == Spec => []EverythingIsCommitted
<1> DEFINE Inv == TypeInv /\ CallsInv /\ SeenTo
<1>1. Init => Inv
  <2>1. Init => SeenTo BY DEF Init, SeenTo, DirtyTree, DirtyIndex, HeadExists
  <2> QED BY <2>1, IInvInit DEF IInv
<1>2. Inv /\ [Next]_vars => Inv' BY TypeStep, CallsStep, SeenToStep
<1>3. Inv => EverythingIsCommitted
  <2> SUFFICES ASSUME Inv, \A c \in Calls : pc[c] \in {"idle", "done"}, HeadExists
               PROVE  HEAD = tree /\ HEAD = index
    BY DEF EverythingIsCommitted
  <2>1. NoneFailed BY DEF NoneFailed
  <2>2. \A f \in Files : tree[f] = index[f] /\ index[f] = HEAD[f]
    BY <2>1 DEF SeenTo, DirtyTree, DirtyIndex
  <2>3. HEAD \in Trees BY HeadIsTree DEF TypeInv
  <2> QED BY <2>2, <2>3 DEF TypeInv, TypeOK, Trees
<1>4. Spec => []Inv BY <1>1, <1>2, PTL DEF Spec
<1> QED BY <1>3, <1>4, PTL

-----------------------------------------------------------------------------
(* The design library.                                                     *)

-----------------------------------------------------------------------------
(* Numbers: the least and the greatest of a set, and induction over a set. *)

(* A set of numbers that is not empty has a least one. *)
LEMMA LeastNumber ==
  ASSUME NEW T, T \subseteq Nat, T # {}
  PROVE  \E x \in T : \A y \in T : x <= y
<1> DEFINE R == OpToRel(<, Nat)
<1>1. IsWellFoundedOn(R, Nat)
  BY NatLessThanWellFounded
<1>2. \A x, y \in Nat : <<y, x>> \in R <=> y < x
  BY DEF OpToRel
<1> HIDE DEF R
<1>3. \E x \in T : \A y \in T : ~ (<<y, x>> \in R)
  BY <1>1, WFMin
<1>4. PICK x \in T : \A y \in T : ~ (<<y, x>> \in R)
  BY <1>3
<1>5. ASSUME NEW y \in T PROVE x <= y
  <2>1. x \in Nat /\ y \in Nat
    OBVIOUS
  <2>2. ~(y < x)
    BY <1>2, <1>4, <2>1
  <2>3. QED
    BY <2>1, <2>2
<1>6. QED
  BY <1>5

(* Induction as a closed set: a set that holds 0 and every successor. *)
LEMMA EveryNumber ==
  ASSUME NEW S, 0 \in S, \A n \in Nat : n \in S => n + 1 \in S
  PROVE  \A n \in Nat : n \in S
<1> SUFFICES ASSUME NEW m \in Nat, m \notin S PROVE FALSE
  OBVIOUS
<1> DEFINE T == {n \in Nat : n \notin S}
<1>1. T \subseteq Nat /\ T # {}
  OBVIOUS
<1>2. PICK x \in T : \A y \in T : x <= y
  BY <1>1, LeastNumber
<1>3. x \in Nat /\ x # 0
  OBVIOUS
<1>4. x - 1 \in Nat /\ (x - 1) + 1 = x
  BY <1>3
<1>5. x - 1 \notin S
  BY <1>4
<1>6. x - 1 \in T
  BY <1>4, <1>5
<1>7. x <= x - 1
  BY <1>2, <1>6
<1>8. QED
  BY <1>3, <1>7

(* So the minimum of a set of numbers is what it is meant to be. *)
LEMMA MinOf ==
  ASSUME NEW T, T \subseteq Nat, T # {}
  PROVE  Min(T) \in T /\ \A y \in T : Min(T) <= y
BY LeastNumber DEF Min

(* A bounded set of numbers has a greatest one: the least of the upper bounds. *)
LEMMA MaxOf ==
  ASSUME NEW T, T \subseteq Nat, T # {}, NEW b \in Nat, \A y \in T : y <= b
  PROVE  Max(T) \in T /\ \A y \in T : y <= Max(T)
<1> DEFINE U == {u \in Nat : \A y \in T : y <= u}
<1>1. PICK u \in U : \A v \in U : u <= v
  <2>1. U \subseteq Nat /\ b \in U
    OBVIOUS
  <2> QED BY <2>1, LeastNumber
<1>2. u \in T
  <2> SUFFICES ASSUME u \notin T PROVE FALSE
    OBVIOUS
  <2>1. \A y \in T : y \in Nat /\ y < u
    BY <1>1
  <2>2. u \in Nat /\ u # 0
    <3>1. PICK y : y \in T
      OBVIOUS
    <3>2. y \in Nat /\ y < u
      BY <2>1, <3>1
    <3> QED BY <3>2
  <2>3. u - 1 \in U
    BY <2>1, <2>2
  <2> QED BY <1>1, <2>2, <2>3
<1>3. \E x \in T : \A y \in T : x >= y
  BY <1>1, <1>2
<1>4. \A y \in T : y \in Nat
  OBVIOUS
<1> QED BY <1>3, <1>4 DEF Max

(* A finite list of numbers is bounded. *)
LEMMA Bounded ==
  ASSUME NEW k \in Nat, NEW f, \A i \in 1..k : f[i] \in Nat
  PROVE  \E b \in Nat : \A i \in 1..k : f[i] <= b
<1> DEFINE S == {n \in Nat : n <= k => \E b \in Nat : \A i \in 1..n : f[i] <= b}
<1>1. 0 \in S
  OBVIOUS
<1>2. ASSUME NEW n \in Nat, n \in S PROVE n + 1 \in S
  <2> SUFFICES ASSUME n + 1 <= k PROVE \E b \in Nat : \A i \in 1..(n + 1) : f[i] <= b
    OBVIOUS
  <2>1. PICK b \in Nat : \A i \in 1..n : f[i] <= b
    BY <1>2
  <2> DEFINE c == IF f[n + 1] <= b THEN b ELSE f[n + 1]
  <2>2. f[n + 1] \in Nat /\ \A i \in 1..n : f[i] \in Nat
    OBVIOUS
  <2>3. c \in Nat /\ b <= c /\ f[n + 1] <= c
    BY <2>2
  <2> HIDE DEF c
  <2>4. \A i \in 1..(n + 1) : i = n + 1 \/ i \in 1..n
    OBVIOUS
  <2>5. \A i \in 1..(n + 1) : f[i] <= c
    BY <2>1, <2>2, <2>3, <2>4
  <2> QED BY <2>3, <2>5
<1>3. \A n \in Nat : n \in S
  <2> HIDE DEF S
  <2> QED BY <1>1, <1>2, EveryNumber
<1>4. k \in S
  <2> HIDE DEF S
  <2> QED BY <1>3
<1>5. k <= k
  OBVIOUS
<1> QED BY <1>4, <1>5

(* So the maximum of a finite set of numbers is what it is meant to be. *)
LEMMA MaxOfFinite ==
  ASSUME NEW T, T \subseteq Nat, T # {}, IsFiniteSet(T)
  PROVE  Max(T) \in T /\ \A y \in T : y <= Max(T)
<1>1. Cardinality(T) \in Nat /\ ExistsBijection(1..Cardinality(T), T)
  BY FS_CardinalityType
<1>2. PICK f \in Bijection(1..Cardinality(T), T) : TRUE
  BY <1>1 DEF ExistsBijection
<1>3. /\ f \in [1..Cardinality(T) -> T]
      /\ \A y \in T : \E i \in 1..Cardinality(T) : f[i] = y
  BY <1>2 DEF Bijection, Surjection
<1>4. PICK b \in Nat : \A i \in 1..Cardinality(T) : f[i] <= b
  BY <1>1, <1>3, Bounded
<1>5. \A y \in T : y <= b
  BY <1>3, <1>4
<1> QED BY <1>5, MaxOf

-----------------------------------------------------------------------------
(* The places of a set in their order.                                     *)

Enumerates(order, S) ==
  /\ order \in Seq(S)
  /\ \A i \in S : \E n \in 1..Len(order) : order[n] = i
  /\ \A m, n \in 1..Len(order) : m < n => order[m] < order[n]

IsUpTo(up, S, k) ==
  up = [n \in 0..k |-> IF n = 0 THEN <<>> ELSE IF n \in S THEN Append(up[n - 1], n) ELSE up[n - 1]]

(* The recursive function inside InOrder exists for any length, *)
LEMMA UpToExists ==
  ASSUME NEW S
  PROVE  \A k \in Nat : \E up : IsUpTo(up, S, k)
<1> DEFINE T == {k \in Nat : \E up : IsUpTo(up, S, k)}
<1>1. 0 \in T
  <2>1. IsUpTo([n \in 0..0 |-> <<>>], S, 0)
    BY DEF IsUpTo
  <2> QED BY <2>1
<1>2. ASSUME NEW k \in Nat, k \in T PROVE k + 1 \in T
  <2>1. PICK up : IsUpTo(up, S, k)
    BY <1>2
  <2> DEFINE t == [n \in 0..(k + 1) |-> IF n = 0 THEN <<>>
                                         ELSE IF n \in S THEN Append(up[n - 1], n) ELSE up[n - 1]]
  <2>2. \A n \in 0..k : t[n] = up[n]
    <3>1. \A n \in 0..k : up[n] = IF n = 0 THEN <<>>
                                ELSE IF n \in S THEN Append(up[n - 1], n) ELSE up[n - 1]
      BY <2>1 DEF IsUpTo
    <3>2. \A n \in 0..k : n \in 0..(k + 1)
      OBVIOUS
    <3> QED BY <3>1, <3>2
  <2>3. \A n \in 0..(k + 1) : n # 0 => n - 1 \in 0..k
    OBVIOUS
  <2>4. \A n \in 0..(k + 1) : n # 0 => t[n - 1] = up[n - 1]
    BY <2>2, <2>3
  <2>5. \A n \in 0..(k + 1) :
          t[n] = IF n = 0 THEN <<>> ELSE IF n \in S THEN Append(t[n - 1], n) ELSE t[n - 1]
    BY <2>4
  <2>6. t = [n \in 0..(k + 1) |-> t[n]]
    OBVIOUS
  <2> HIDE DEF t
  <2>7. IsUpTo(t, S, k + 1)
    BY <2>5, <2>6 DEF IsUpTo
  <2> QED BY <2>7
<1>3. \A k \in Nat : k \in T
  <2> HIDE DEF T
  <2> QED BY <1>1, <1>2, EveryNumber
<1> QED BY <1>3

(* and at n it lists the places of S up to n. *)
LEMMA UpToEnumerates ==
  ASSUME NEW S, NEW k \in Nat, NEW up, IsUpTo(up, S, k)
  PROVE  \A n \in 0..k : Enumerates(up[n], S \cap (1..n))
<1> DEFINE T == {n \in Nat : n <= k => Enumerates(up[n], S \cap (1..n))}
<1>0. \A n \in 0..k : up[n] = IF n = 0 THEN <<>> ELSE IF n \in S THEN Append(up[n - 1], n) ELSE up[n - 1]
  BY DEF IsUpTo
<1>1. 0 \in T
  <2>1. up[0] = <<>>
    BY <1>0
  <2>2. S \cap (1..0) = {}
    OBVIOUS
  <2>3. Enumerates(<<>>, {})
    BY DEF Enumerates
  <2> QED BY <2>1, <2>2, <2>3
<1>2. ASSUME NEW n \in Nat, n \in T PROVE n + 1 \in T
  <2> SUFFICES ASSUME n + 1 <= k PROVE Enumerates(up[n + 1], S \cap (1..(n + 1)))
    OBVIOUS
  <2> DEFINE before == S \cap (1..n)
             now == S \cap (1..(n + 1))
             s == up[n]
  <2>1. Enumerates(s, before)
    BY <1>2
  <2>2. up[n + 1] = IF n + 1 \in S THEN Append(s, n + 1) ELSE s
    <3>1. n + 1 \in 0..k /\ n + 1 # 0 /\ (n + 1) - 1 = n
      OBVIOUS
    <3> QED BY <3>1, <1>0
  <2>3. CASE n + 1 \notin S
    <3>1. now = before
      BY <2>3
    <3> QED BY <2>1, <2>2, <2>3, <3>1
  <2>4. CASE n + 1 \in S
    <3>1. now = before \cup {n + 1} /\ before \subseteq Nat
      BY <2>4
    <3> DEFINE t == Append(s, n + 1)
    <3>2. s \in Seq(now) /\ n + 1 \in now
      BY <2>1, <3>1, SeqMonotonic DEF Enumerates
    <3>3. /\ t \in Seq(now) /\ Len(t) = Len(s) + 1 /\ Len(s) \in Nat
          /\ \A i \in 1..Len(s) : t[i] = s[i]
          /\ t[Len(s) + 1] = n + 1
      BY <3>2, AppendProperties, LenProperties
    <3>4. \A i \in 1..Len(s) : s[i] \in before
      BY <2>1, ElementOfSeq DEF Enumerates
    <3> HIDE DEF t, s
    <3>5. \A i \in now : \E m \in 1..Len(t) : t[m] = i
      <4> TAKE i \in now
      <4>1. CASE i = n + 1
        BY <4>1, <3>3
      <4>2. CASE i \in before
        <5>1. PICK m \in 1..Len(s) : s[m] = i
          BY <4>2, <2>1 DEF Enumerates
        <5>2. m \in 1..Len(t) /\ t[m] = i
          BY <5>1, <3>3
        <5> QED BY <5>2
      <4> QED BY <4>1, <4>2, <3>1
    <3>6. ASSUME NEW m \in 1..Len(t), NEW j \in 1..Len(t), m < j PROVE t[m] < t[j]
      <4>1. m \in 1..Len(s)
        BY <3>3, <3>6
      <4>2. CASE j = Len(s) + 1
        <5>1. t[m] \in 1..n
          BY <4>1, <3>3, <3>4
        <5> QED BY <5>1, <4>2, <3>3
      <4>3. CASE j # Len(s) + 1
        <5>1. j \in 1..Len(s)
          BY <4>3, <3>3
        <5> QED BY <5>1, <4>1, <3>3, <3>6, <2>1 DEF Enumerates
      <4> QED BY <4>2, <4>3
    <3>7. Enumerates(t, now)
      BY <3>3, <3>5, <3>6 DEF Enumerates
    <3> QED BY <3>7, <2>2, <2>4 DEF t
  <2> QED BY <2>3, <2>4
<1>3. \A n \in Nat : n \in T
  <2> HIDE DEF T
  <2> QED BY <1>1, <1>2, EveryNumber
<1> QED BY <1>3

(* InOrder lists every place of S once, in its order. *)
LEMMA InOrderEnumerates ==
  ASSUME NEW lines, Len(lines) \in Nat, NEW S, S \subseteq 1..Len(lines)
  PROVE  Enumerates(InOrder(lines, S), S)
<1> DEFINE k == Len(lines)
           up == CHOOSE up : up = [n \in 0..k |-> IF n = 0 THEN <<>>
                                     ELSE IF n \in S THEN Append(up[n - 1], n) ELSE up[n - 1]]
<1>1. InOrder(lines, S) = up[k]
  BY DEF InOrder
<1>2. IsUpTo(up, S, k)
  <2>1. \E u : IsUpTo(u, S, k)
    BY UpToExists
  <2> QED BY <2>1, ZenonT(40) DEF IsUpTo
<1>3. Enumerates(up[k], S \cap (1..k))
  <2> HIDE DEF up
  <2>1. k \in 0..k
    OBVIOUS
  <2> QED BY <1>2, <2>1, UpToEnumerates
<1>4. S \cap (1..k) = S
  OBVIOUS
<1> QED BY <1>1, <1>3, <1>4

-----------------------------------------------------------------------------
(* Placements: where a pin is drawn.                                       *)

(* What a minus sign is, in the form the provers can use. *)
LEMMA Negative == \A l \in Int : -l = 0 - l
OBVIOUS

(* And that 0 has none. *)
LEMMA MinusZero == -0 = 0
<1>1. 0 \in Int
  OBVIOUS
<1>2. -0 = 0 - 0
  BY <1>1, Negative, Zenon
<1>3. 0 - 0 = 0
  OBVIOUS
<1> QED BY <1>2, <1>3, Zenon

(* Degrees, once around. *)
LEMMA Around ==
  /\ \A l \in Int : l + 90 = 0 => l % 360 = 270
  /\ 0 % 360 = 0 /\ 90 % 360 = 90 /\ 180 % 360 = 180 /\ 270 % 360 = 270
  /\ 360 % 360 = 0 /\ 450 % 360 = 90 /\ 540 % 360 = 180
OBVIOUS

(* A right-angled turn of a point, *)
LEMMA RotateIs ==
  ASSUME NEW x, NEW y
  PROVE  /\ Rotate(<<x, y>>, 0) = <<x, y>>
         /\ Rotate(<<x, y>>, 90) = <<-y, x>>
         /\ Rotate(<<x, y>>, 180) = <<-x, -y>>
         /\ Rotate(<<x, y>>, 270) = <<y, -x>>
BY DEF Rotate

(* a sum of points, *)
LEMMA PlusIs ==
  ASSUME NEW x \in Int, NEW y \in Int, NEW a \in Int, NEW b \in Int
  PROVE  Plus(<<x, y>>, <<a, b>>) = <<x + a, y + b>>
BY DEF Plus

(* and a turn of a sum: the sum of the turned points. *)
LEMMA RotateAdds ==
  ASSUME NEW x \in Int, NEW y \in Int, NEW a \in Int, NEW b \in Int, NEW rotation \in RightAngles
  PROVE  Rotate(Plus(<<x, y>>, <<a, b>>), rotation) = Plus(Rotate(<<x, y>>, rotation), Rotate(<<a, b>>, rotation))
<1>1. Plus(<<x, y>>, <<a, b>>) = <<x + a, y + b>>
  BY PlusIs
<1>0. /\ -x \in Int /\ -y \in Int /\ -a \in Int /\ -b \in Int
      /\ -(x + a) = (-x) + (-a) /\ -(y + b) = (-y) + (-b)
  OBVIOUS
<1>2. CASE rotation = 0
  <2>1. Rotate(<<x + a, y + b>>, 0) = <<x + a, y + b>> /\ Rotate(<<x, y>>, 0) = <<x, y>> /\ Rotate(<<a, b>>, 0) = <<a, b>>
    BY RotateIs
  <2> QED BY <1>1, <1>2, <2>1
<1>3. CASE rotation = 90
  <2>1. /\ Rotate(<<x + a, y + b>>, 90) = <<-(y + b), x + a>>
        /\ Rotate(<<x, y>>, 90) = <<-y, x>> /\ Rotate(<<a, b>>, 90) = <<-b, a>>
    BY RotateIs
  <2>2. Plus(<<-y, x>>, <<-b, a>>) = <<(-y) + (-b), x + a>>
    BY <1>0, PlusIs
  <2> QED BY <1>0, <1>1, <1>3, <2>1, <2>2
<1>4. CASE rotation = 180
  <2>1. /\ Rotate(<<x + a, y + b>>, 180) = <<-(x + a), -(y + b)>>
        /\ Rotate(<<x, y>>, 180) = <<-x, -y>> /\ Rotate(<<a, b>>, 180) = <<-a, -b>>
    BY RotateIs
  <2>2. Plus(<<-x, -y>>, <<-a, -b>>) = <<(-x) + (-a), (-y) + (-b)>>
    BY <1>0, PlusIs
  <2> QED BY <1>0, <1>1, <1>4, <2>1, <2>2
<1>5. CASE rotation = 270
  <2>1. /\ Rotate(<<x + a, y + b>>, 270) = <<y + b, -(x + a)>>
        /\ Rotate(<<x, y>>, 270) = <<y, -x>> /\ Rotate(<<a, b>>, 270) = <<b, -a>>
    BY RotateIs
  <2>2. Plus(<<y, -x>>, <<b, -a>>) = <<y + b, (-x) + (-a)>>
    BY <1>0, PlusIs
  <2> QED BY <1>0, <1>1, <1>5, <2>1, <2>2
<1> QED BY <1>2, <1>3, <1>4, <1>5 DEF RightAngles

(* Stubs from the origin.  The number 0 has a name in what follows, because *)
(* the prover does not read -0.                                             *)

Stubs(l, zero) ==
  /\ Rotate(<<l, zero>>, 0) = <<l, zero>> /\ Rotate(<<zero, l>>, 0) = <<zero, l>>
  /\ Rotate(<<l, zero>>, 90) = <<zero, l>> /\ Rotate(<<zero, l>>, 90) = <<-l, zero>>
  /\ Rotate(<<l, zero>>, 180) = <<-l, zero>> /\ Rotate(<<zero, l>>, 180) = <<zero, -l>>
  /\ Rotate(<<l, zero>>, 270) = <<zero, -l>> /\ Rotate(<<zero, l>>, 270) = <<l, zero>>

(* A stub from the origin, turned: along one axis or the other. *)
LEMMA StubIs ==
  ASSUME NEW l \in Int, NEW zero \in Int, -zero = zero
  PROVE  Stubs(l, zero)
<1>1. /\ Rotate(<<l, zero>>, 0) = <<l, zero>> /\ Rotate(<<l, zero>>, 90) = <<-zero, l>>
      /\ Rotate(<<l, zero>>, 180) = <<-l, -zero>> /\ Rotate(<<l, zero>>, 270) = <<zero, -l>>
  BY DEF Rotate
<1>2. /\ Rotate(<<zero, l>>, 0) = <<zero, l>> /\ Rotate(<<zero, l>>, 90) = <<-l, zero>>
      /\ Rotate(<<zero, l>>, 180) = <<-zero, -l>> /\ Rotate(<<zero, l>>, 270) = <<l, -zero>>
  BY DEF Rotate
<1> QED BY <1>1, <1>2 DEF Stubs

(* The far end of a stub is a point. *)
LEMMA StubIsPoint ==
  ASSUME NEW length \in Int, NEW angle \in RightAngles, NEW zero \in Int, -zero = zero
  PROVE  \E a, b \in Int : Rotate(<<length, zero>>, angle) = <<a, b>>
<1>1. -length \in Int /\ Stubs(length, zero)
  BY StubIs
<1> QED BY <1>1 DEF RightAngles, Stubs

\* One turn after the other.
LEMMA RotateTwice ==
  ASSUME NEW length \in Int, NEW angle \in RightAngles, NEW rotation \in RightAngles, NEW zero \in Int, -zero = zero
  PROVE  Rotate(Rotate(<<length, zero>>, angle), rotation) = Rotate(<<length, zero>>, (angle + rotation) % 360)
<1>0. -(-length) = length /\ -length \in Int
  OBVIOUS
<1>a. rotation = 0 \/ rotation = 90 \/ rotation = 180 \/ rotation = 270
  BY DEF RightAngles
<1>b. Stubs(length, zero) /\ Stubs(-length, zero)
  BY <1>0, StubIs
<1>1. CASE angle = 0
  <2>1. (0 + rotation) % 360 = rotation
    BY <1>a
  <2> QED BY <1>1, <2>1, <1>b DEF Stubs
<1>2. CASE angle = 90
  <2>1. (90 + 0) % 360 = 90 /\ (90 + 90) % 360 = 180 /\ (90 + 180) % 360 = 270 /\ (90 + 270) % 360 = 0
    OBVIOUS
  <2>2. Rotate(<<length, zero>>, angle) = <<zero, length>>
    BY <1>2, <1>b DEF Stubs
  <2> QED BY <1>2, <1>a, <2>1, <2>2, <1>b DEF Stubs
<1>3. CASE angle = 180
  <2>1. (180 + 0) % 360 = 180 /\ (180 + 90) % 360 = 270 /\ (180 + 180) % 360 = 0 /\ (180 + 270) % 360 = 90
    OBVIOUS
  <2>2. Rotate(<<length, zero>>, angle) = <<-length, zero>>
    BY <1>3, <1>b DEF Stubs
  <2> QED BY <1>0, <1>3, <1>a, <2>1, <2>2, <1>b DEF Stubs
<1>4. CASE angle = 270
  <2>1. (270 + 0) % 360 = 270 /\ (270 + 90) % 360 = 0 /\ (270 + 180) % 360 = 90 /\ (270 + 270) % 360 = 180
    OBVIOUS
  <2>2. Rotate(<<length, zero>>, angle) = <<zero, -length>>
    BY <1>4, <1>b DEF Stubs
  <2> QED BY <1>0, <1>4, <1>a, <2>1, <2>2, <1>b DEF Stubs
<1> QED BY <1>1, <1>2, <1>3, <1>4 DEF RightAngles

Mirrored(p) == <<-p[1], p[2]>>

\* A mirrored stub is the stub at the mirrored angle.
LEMMA MirrorStub ==
  ASSUME NEW length \in Int, NEW angle \in RightAngles, NEW zero \in Int, -zero = zero
  PROVE  /\ (180 - angle) % 360 \in RightAngles
         /\ Mirrored(Rotate(<<length, zero>>, angle)) = Rotate(<<length, zero>>, (180 - angle) % 360)
<1>0. -(-length) = length /\ -length \in Int
  OBVIOUS
<1>b. Stubs(length, zero)
  BY StubIs
<1>1. /\ Mirrored(<<length, zero>>) = <<-length, zero>> /\ Mirrored(<<-length, zero>>) = <<length, zero>>
      /\ Mirrored(<<zero, length>>) = <<zero, length>> /\ Mirrored(<<zero, -length>>) = <<zero, -length>>
  BY <1>0 DEF Mirrored
<1>2. CASE angle = 0
  <2>1. (180 - 0) % 360 = 180
    OBVIOUS
  <2> QED BY <1>1, <1>2, <2>1, <1>b DEF RightAngles, Stubs
<1>3. CASE angle = 90
  <2>1. (180 - 90) % 360 = 90
    OBVIOUS
  <2> QED BY <1>1, <1>3, <2>1, <1>b DEF RightAngles, Stubs
<1>4. CASE angle = 180
  <2>1. (180 - 180) % 360 = 0
    OBVIOUS
  <2> QED BY <1>1, <1>4, <2>1, <1>b DEF RightAngles, Stubs
<1>5. CASE angle = 270
  <2> DEFINE mirrored == 180 - angle
  <2>1. mirrored % 360 = 270
    <3>1. mirrored + 90 = 0 /\ mirrored \in Int
      BY <1>5 DEF RightAngles
    <3> HIDE DEF mirrored
    <3> QED BY <3>1, Around
  <2> HIDE DEF mirrored
  <2>2. /\ mirrored % 360 \in RightAngles
        /\ Mirrored(Rotate(<<length, zero>>, angle)) = Rotate(<<length, zero>>, mirrored % 360)
    BY <1>1, <1>5, <2>1, <1>b DEF RightAngles, Stubs
  <2> QED BY <2>2 DEF mirrored
<1> QED BY <1>2, <1>3, <1>4, <1>5 DEF RightAngles

(* A turned point is a point. *)
LEMMA RotatedIsPoint ==
  ASSUME NEW x \in Int, NEW y \in Int, NEW rotation \in RightAngles
  PROVE  \E a, b \in Int : Rotate(<<x, y>>, rotation) = <<a, b>>
<1>1. -x \in Int /\ -y \in Int
  OBVIOUS
<1>2. /\ Rotate(<<x, y>>, 0) = <<x, y>> /\ Rotate(<<x, y>>, 90) = <<-y, x>>
      /\ Rotate(<<x, y>>, 180) = <<-x, -y>> /\ Rotate(<<x, y>>, 270) = <<y, -x>>
  BY DEF Rotate
<1> QED BY <1>1, <1>2 DEF RightAngles

(* Right angles are closed under turning, *)
LEMMA SumIsRight ==
  ASSUME NEW angle \in RightAngles, NEW rotation \in RightAngles
  PROVE  (angle + rotation) % 360 \in RightAngles
<1>1. CASE angle = 0
  BY <1>1 DEF RightAngles
<1>2. CASE angle = 90
  BY <1>2 DEF RightAngles
<1>3. CASE angle = 180
  BY <1>3 DEF RightAngles
<1>4. CASE angle = 270
  BY <1>4 DEF RightAngles
<1> QED BY <1>1, <1>2, <1>3, <1>4 DEF RightAngles

(* and so is what the reader makes of the angle of a pin (transformPinAngle). *)
LEMMA TurnedIsRight ==
  ASSUME NEW angle \in RightAngles, NEW rotation \in RightAngles, NEW flip \in {0, 1}
  PROVE  transformPinAngle(angle, rotation, flip) \in RightAngles
<1> DEFINE zero == 0
           mirrored == (180 - angle) % 360
<1>y. zero \in Int
  OBVIOUS
<1>z. zero \in Int /\ -zero = zero
  BY <1>y, MinusZero, Zenon
<1> HIDE DEF zero
<1>1. mirrored \in RightAngles
  BY <1>y, <1>z, MirrorStub, ZenonT(40)
<1>2. flip = 0 => transformPinAngle(angle, rotation, flip) = (angle + rotation) % 360
  BY DEF transformPinAngle
<1>3. flip = 1 => transformPinAngle(angle, rotation, flip) = (mirrored + rotation) % 360
  BY DEF transformPinAngle, RightAngles
<1> HIDE DEF mirrored
<1> QED BY <1>1, <1>2, <1>3, SumIsRight

(* What the reader makes of a position is a position (transformSymbolPoint). *)
LEMMA TurnedIsPoint ==
  ASSUME NEW x \in Int, NEW y \in Int, NEW rotation \in RightAngles, NEW flip \in {0, 1}
  PROVE  transformSymbolPoint(<<x, y>>, rotation, flip) \in Int \X Int
<1>1. ASSUME NEW u \in Int, NEW v \in Int PROVE Rotate(<<u, v>>, rotation) \in Int \X Int
  <2>1. PICK a \in Int, b \in Int : Rotate(<<u, v>>, rotation) = <<a, b>>
    BY RotatedIsPoint
  <2> QED BY <2>1
<1>2. -x \in Int
  OBVIOUS
<1>3. CASE flip = 0
  <2>1. transformSymbolPoint(<<x, y>>, rotation, flip) = Rotate(<<x, y>>, rotation)
    BY <1>3 DEF transformSymbolPoint
  <2> QED BY <2>1, <1>1
<1>4. CASE flip = 1
  <2>1. transformSymbolPoint(<<x, y>>, rotation, flip) = Rotate(<<-x, y>>, rotation)
    BY <1>4 DEF transformSymbolPoint
  <2> QED BY <2>1, <1>1, <1>2
<1> QED BY <1>3, <1>4

(* The heart of it: turning and mirroring a pin's end point by the rule for
   points gives the end point of the turned pin by the rule for angles. *)
LEMMA Turns ==
  ASSUME NEW x \in Int, NEW y \in Int, NEW length \in Int,
         NEW angle \in RightAngles, NEW rotation \in RightAngles, NEW flip \in {0, 1}
  PROVE  transformSymbolPoint(Plus(<<x, y>>, Rotate(<<length, 0>>, angle)), rotation, flip)
         = Plus(transformSymbolPoint(<<x, y>>, rotation, flip),
                Rotate(<<length, 0>>, transformPinAngle(angle, rotation, flip)))
<1> DEFINE zero == 0
<1>y. zero \in Int
  OBVIOUS
<1>z. zero \in Int /\ -zero = zero
  BY <1>y, MinusZero, Zenon
<1> SUFFICES transformSymbolPoint(Plus(<<x, y>>, Rotate(<<length, zero>>, angle)), rotation, flip)
             = Plus(transformSymbolPoint(<<x, y>>, rotation, flip),
                    Rotate(<<length, zero>>, transformPinAngle(angle, rotation, flip)))
  OBVIOUS
<1> HIDE DEF zero
<1>0. PICK a \in Int, b \in Int : Rotate(<<length, zero>>, angle) = <<a, b>>
  BY <1>z, StubIsPoint
<1>1. CASE flip = 0
  <2>1. transformSymbolPoint(<<x, y>>, rotation, 0) = Rotate(<<x, y>>, rotation)
    BY DEF transformSymbolPoint
  <2>2. transformPinAngle(angle, rotation, 0) = (angle + rotation) % 360
    BY DEF transformPinAngle
  <2>3. transformSymbolPoint(Plus(<<x, y>>, <<a, b>>), rotation, 0) = Rotate(Plus(<<x, y>>, <<a, b>>), rotation)
    BY DEF transformSymbolPoint
  <2>4. Rotate(<<a, b>>, rotation) = Rotate(<<length, zero>>, (angle + rotation) % 360)
    BY <1>z, <1>0, RotateTwice
  <2> QED BY <1>0, <1>1, <2>1, <2>2, <2>3, <2>4, RotateAdds
<1>2. CASE flip = 1
  <2> DEFINE mirrored == (180 - angle) % 360
  <2>0. -x \in Int /\ -a \in Int
    OBVIOUS
  <2>1. transformSymbolPoint(<<x, y>>, rotation, 1) = Rotate(<<-x, y>>, rotation)
    BY DEF transformSymbolPoint
  <2>2. transformPinAngle(angle, rotation, 1) = (mirrored + rotation) % 360
    BY DEF transformPinAngle, RightAngles
  <2>3. Plus(<<x, y>>, <<a, b>>) = <<x + a, y + b>>
    BY DEF Plus
  <2>4. transformSymbolPoint(<<x + a, y + b>>, rotation, 1) = Rotate(<<-(x + a), y + b>>, rotation)
    BY DEF transformSymbolPoint
  <2>5. <<-(x + a), y + b>> = Plus(<<-x, y>>, <<-a, b>>)
    BY DEF Plus
  <2>6. <<-a, b>> = Rotate(<<length, zero>>, mirrored) /\ mirrored \in RightAngles
    <3>1. Mirrored(<<a, b>>) = <<-a, b>>
      BY DEF Mirrored
    <3> QED BY <1>z, <1>0, <3>1, MirrorStub
  <2> HIDE DEF mirrored
  <2>7. Rotate(<<-a, b>>, rotation) = Rotate(<<length, zero>>, (mirrored + rotation) % 360)
    BY <1>z, <2>6, RotateTwice
  <2>8. Rotate(Plus(<<-x, y>>, <<-a, b>>), rotation) = Plus(Rotate(<<-x, y>>, rotation), Rotate(<<-a, b>>, rotation))
    BY <2>0, RotateAdds
  <2> QED BY <1>0, <1>2, <2>1, <2>2, <2>3, <2>4, <2>5, <2>7, <2>8
<1> QED BY <1>1, <1>2

-----------------------------------------------------------------------------
(* A pin of a symbol stands at integers and a right angle, because only PIN
   lines become pins. *)
LEMMA PinsOfSymbol ==
  ASSUME NEW uuid \in DOMAIN Symbols, NEW k \in DOMAIN SymbolCache[uuid].pins
  PROVE  LET pin == SymbolCache[uuid].pins[k]
         IN pin.at \in Int \X Int /\ pin.length \in Int /\ pin.angle \in RightAngles
<1> DEFINE source == Symbols[uuid]
           lines == parseSource(source, EsymSchemas)
           places == Known(lines, "PIN")
           order == InOrder(lines, places)
<1>1. /\ Len(source) \in Nat /\ DOMAIN source = 1..Len(source)
      /\ \A i \in DOMAIN source : IsTuple(source[i], "PIN") =>
           source[i].at \in Int \X Int /\ source[i].length \in Int /\ source[i].angle \in RightAngles
  BY SymbolsAssumption
<1>2. SymbolCache[uuid] = parseSymbol(source)
  BY DEF SymbolCache
<1> HIDE DEF source
<1>3. /\ DOMAIN lines = 1..Len(source) /\ Len(lines) = Len(source)
      /\ \A i \in DOMAIN source : lines[i].data = source[i] /\ lines[i].kind = Kind(source[i], EsymSchemas)
  BY <1>1 DEF parseSource
<1>4. parseSymbol(source).pins = [n \in DOMAIN order |->
         [id |-> lines[order[n]].data.id, at |-> lines[order[n]].data.at,
          length |-> lines[order[n]].data.length, angle |-> lines[order[n]].data.angle,
          number |-> PinAttr(lines, order[n], "NUMBER"), name |-> PinAttr(lines, order[n], "NAME")]]
  BY DEF parseSymbol
<1> HIDE DEF lines
<1>5. places \subseteq 1..Len(lines) /\ Len(lines) \in Nat
  BY <1>1, <1>3 DEF Known
<1>6. Enumerates(order, places)
  BY <1>5, InOrderEnumerates
<1> HIDE DEF order
<1>7. k \in DOMAIN order
  BY <1>2, <1>4
<1>8. order[k] \in places
  BY <1>6, <1>7 DEF Enumerates
<1>9. /\ order[k] \in DOMAIN source
      /\ lines[order[k]].kind = "known" /\ lines[order[k]].data.tag = "PIN"
  BY <1>3, <1>8 DEF Known
<1>10. IsTuple(source[order[k]], "PIN")
  BY <1>3, <1>9 DEF Kind, IsTuple
<1> QED BY <1>1, <1>2, <1>3, <1>4, <1>7, <1>9, <1>10

Instance == [symbol : DOMAIN Symbols, t : Transforms]

(* What the reader makes of an instance of a symbol on a page. *)
LEMMA ReaderSeesPart ==
  ASSUME NEW i \in Instance
  PROVE  LET read == Component(parseSource(<<makeComponentLine(1, NoPart, i.t.at, i.t.rotation, i.t.flip),
                                             makeAttrLine(2, 1, "Symbol", i.symbol)>>, EschSchemas), 1)
             pins == SymbolCache[i.symbol].pins
         IN \A k \in DOMAIN pins :
              /\ read.pins[k].at = Plus(i.t.at, transformSymbolPoint(pins[k].at, i.t.rotation, i.t.flip))
              /\ read.pins[k].angle = transformPinAngle(pins[k].angle, i.t.rotation, i.t.flip)
<1> DEFINE source == <<makeComponentLine(1, NoPart, i.t.at, i.t.rotation, i.t.flip),
                       makeAttrLine(2, 1, "Symbol", i.symbol)>>
           lines == parseSource(source, EschSchemas)
           read == Component(lines, 1)
           pins == SymbolCache[i.symbol].pins
<1>0. i.symbol \in DOMAIN Symbols
  BY DEF Instance
<1>1. i.symbol # None
  BY <1>0, SymbolsAssumption
<1>2. /\ DOMAIN source = {1, 2}
      /\ source[1] = makeComponentLine(1, NoPart, i.t.at, i.t.rotation, i.t.flip)
      /\ source[2] = makeAttrLine(2, 1, "Symbol", i.symbol)
  OBVIOUS
<1> HIDE DEF source
<1>3. /\ DOMAIN lines = {1, 2} /\ lines[1].data = source[1] /\ lines[2].data = source[2]
      /\ lines[1].kind = Kind(source[1], EschSchemas) /\ lines[2].kind = Kind(source[2], EschSchemas)
  BY <1>2 DEF parseSource
<1>4. /\ lines[1].kind = "known" /\ lines[2].kind = "known"
  BY <1>2, <1>3 DEF Kind, makeComponentLine, makeAttrLine, EschSchemas
<1>5. /\ lines[1].data.tag = "COMPONENT" /\ lines[1].data.id = 1 /\ lines[1].data.at = i.t.at
      /\ lines[1].data.rotation = i.t.rotation /\ lines[1].data.flip = i.t.flip
      /\ lines[2].data.tag = "ATTR" /\ lines[2].data.parent = 1
      /\ lines[2].data.key = "Symbol" /\ lines[2].data.value = i.symbol
  BY <1>2, <1>3 DEF makeComponentLine, makeAttrLine
<1> HIDE DEF lines
<1>6. Known(lines, "ATTR") = {2}
  BY <1>3, <1>4, <1>5 DEF Known
<1>7. AttrsOf(lines, 1) = {2}
  <2>1. 2 > 1 /\ ~\E k \in Known(lines, "COMPONENT") : k \in (1 + 1)..(2 - 1)
    OBVIOUS
  <2> QED BY <2>1, <1>5, <1>6 DEF AttrsOf
<1>8. AttrOf(lines, 1, "Symbol") = i.symbol
  <2> DEFINE own == {j \in AttrsOf(lines, 1) : lines[j].data.key = "Symbol"}
  <2>1. own = {2}
    BY <1>5, <1>7
  <2>2. Latest({2}) = 2
    BY DEF Latest, Max
  <2> QED BY <2>1, <2>2, <1>5 DEF AttrOf
<1>9. SymbolOf(lines, 1) = i.symbol
  BY <1>1, <1>8 DEF SymbolOf
<1>10. read.pins = [n \in DOMAIN pins |->
         [number |-> pins[n].number, name |-> pins[n].name,
          at |-> Plus(i.t.at, transformSymbolPoint(pins[n].at, i.t.rotation, i.t.flip)),
          angle |-> transformPinAngle(pins[n].angle, i.t.rotation, i.t.flip)]]
  BY <1>0, <1>5, <1>9 DEF Component
<1> QED BY <1>10 DEF source, lines

\* Both of the transformations are one.
LEMMA Transformed ==
  ASSUME NEW p, NEW t
  PROVE  transformPoint(p, t) = Plus(t.at, transformSymbolPoint(p, t.rotation, t.flip))
BY DEF transformPoint, transformSymbolPoint

(* A pin that is drawn and then transformed is the transformed pin, drawn. *)
LEMMA DrawnWhereRead ==
  ASSUME NEW i \in Instance, NEW at \in Int \X Int, NEW length \in Int, NEW angle \in RightAngles
  PROVE  LET drawn == pinPolygon(at, length, angle)
         IN [j \in {1, 2} |-> transformPoint(drawn.points[j], i.t)]
            = pinPolygon(Plus(i.t.at, transformSymbolPoint(at, i.t.rotation, i.t.flip)), length,
                         transformPinAngle(angle, i.t.rotation, i.t.flip)).points
<1> DEFINE r == i.t.rotation  f == i.t.flip  o == i.t.at
           turned == transformPinAngle(angle, r, f)
           end == Plus(at, Rotate(<<length, 0>>, angle))
           drawn == pinPolygon(at, length, angle)
           from == transformSymbolPoint(at, r, f)
           stub == Rotate(<<length, 0>>, turned)
<1>1. r \in RightAngles /\ f \in {0, 1} /\ o \in Int \X Int
  BY DEF Instance, Transforms
<1>2. PICK x \in Int, y \in Int : at = <<x, y>>
  OBVIOUS
<1>3. drawn.points = <<at, end>>
  BY DEF pinPolygon, Polygon
<1>4. transformSymbolPoint(end, r, f) = Plus(from, stub)
  BY <1>1, <1>2, Turns
<1>5. turned \in RightAngles
  BY <1>1, TurnedIsRight
<1>6. Plus(o, Plus(from, stub)) = Plus(Plus(o, from), stub)
  <2>0. transformSymbolPoint(<<x, y>>, r, f) \in Int \X Int
    <3> HIDE DEF r, f
    <3> QED BY <1>1, TurnedIsPoint
  <2>1. PICK a \in Int, b \in Int : from = <<a, b>>
    BY <2>0, <1>2
  <2>2. PICK c \in Int, d \in Int : stub = <<c, d>>
    BY <1>5, RotatedIsPoint
  <2>3. PICK u \in Int, v \in Int : o = <<u, v>>
    BY <1>1
  <2>4. /\ Plus(<<a, b>>, <<c, d>>) = <<a + c, b + d>>
        /\ Plus(<<u, v>>, <<a, b>>) = <<u + a, v + b>>
        /\ Plus(<<u, v>>, <<a + c, b + d>>) = <<u + (a + c), v + (b + d)>>
        /\ Plus(<<u + a, v + b>>, <<c, d>>) = <<(u + a) + c, (v + b) + d>>
    BY PlusIs
  <2>5. u + (a + c) = (u + a) + c /\ v + (b + d) = (v + b) + d
    OBVIOUS
  <2> HIDE DEF from, stub, o
  <2> QED BY <2>1, <2>2, <2>3, <2>4, <2>5
<1>7. transformPoint(at, i.t) = Plus(o, from) /\ transformPoint(end, i.t) = Plus(Plus(o, from), stub)
  BY <1>4, <1>6, Transformed
<1>8. pinPolygon(Plus(o, from), length, turned).points = <<Plus(o, from), Plus(Plus(o, from), stub)>>
  BY DEF pinPolygon, Polygon
<1>9. [j \in {1, 2} |-> transformPoint(drawn.points[j], i.t)] = <<transformPoint(at, i.t), transformPoint(end, i.t)>>
  <2>1. drawn.points[1] = at /\ drawn.points[2] = end
    BY <1>3
  <2> HIDE DEF drawn, end
  <2> QED BY <2>1
<1> QED BY <1>7, <1>8, <1>9

-----------------------------------------------------------------------------
PlacementInv == placed \in [1..2 -> Instance]

\* Where the reader says a pin is, and at that angle, it is drawn.
LEMMA PlacedPins ==
  ASSUME PlacementInv
  PROVE  PinsAreWhereDrawn
<1> SUFFICES ASSUME NEW n \in DOMAIN placed,
                    NEW k \in DOMAIN SymbolCache[placed[n].symbol].pins
             PROVE  LET i == placed[n]
                        read == Component(parseSource(<<makeComponentLine(1, NoPart, i.t.at, i.t.rotation, i.t.flip),
                                                        makeAttrLine(2, 1, "Symbol", i.symbol)>>, EschSchemas), 1)
                        symbol == SymbolCache[i.symbol]
                        drawn == pinPolygon(symbol.pins[k].at, symbol.pins[k].length, symbol.pins[k].angle)
                    IN [j \in {1, 2} |-> transformPoint(drawn.points[j], i.t)]
                       = pinPolygon(read.pins[k].at, symbol.pins[k].length, read.pins[k].angle).points
  BY ZenonT(40) DEF PinsAreWhereDrawn
<1> DEFINE i == placed[n]
           pins == SymbolCache[i.symbol].pins
<1>1. i \in Instance /\ i.symbol \in DOMAIN Symbols
  BY DEF PlacementInv, Instance
<1>2. pins[k].at \in Int \X Int /\ pins[k].length \in Int /\ pins[k].angle \in RightAngles
  BY <1>1, PinsOfSymbol
<1>3. [j \in {1, 2} |-> transformPoint(pinPolygon(pins[k].at, pins[k].length, pins[k].angle).points[j], i.t)]
      = pinPolygon(Plus(i.t.at, transformSymbolPoint(pins[k].at, i.t.rotation, i.t.flip)), pins[k].length,
                   transformPinAngle(pins[k].angle, i.t.rotation, i.t.flip)).points
  <2> HIDE DEF i, pins
  <2> QED BY <1>1, <1>2, DrawnWhereRead
<1> QED BY <1>1, <1>3, ReaderSeesPart, ZenonT(40)

(* Placements start as instances of symbols of the library, *)
LEMMA PlacementStarts ==
  ASSUME PlacementInit
  PROVE  PlacementInv
<1>1. PICK a \in Instances(Fixed), uuid \in DOMAIN Symbols : placed = <<a, [symbol |-> uuid, t |-> a.t]>>
  BY DEF PlacementInit
<1>2. a \in Instance /\ [symbol |-> uuid, t |-> a.t] \in Instance
  BY PlacementAssumption DEF Instances, Instance
<1> QED BY <1>1, <1>2 DEF PlacementInv

(* and moving or turning one leaves it one. *)
LEMMA PlacementKept ==
  ASSUME PlacementInv, PlacementNext
  PROVE  PlacementInv'
<1>1. ASSUME NEW p \in Positions, PlaceAt(p) PROVE PlacementInv'
  BY <1>1, PlacementAssumption DEF PlacementInv, PlaceAt, Instance, Transforms
<1>2. ASSUME NEW rotation \in RightAngles, NEW flip \in {0, 1}, Turn(rotation, flip) PROVE PlacementInv'
  <2> DEFINE b == placed[2]
             moved == [[b EXCEPT !.t.rotation = rotation] EXCEPT !.t.flip = flip]
  <2>1. b \in Instance /\ placed[1] \in Instance
    BY DEF PlacementInv
  <2>2. moved \in Instance
    BY <2>1 DEF Instance, Transforms
  <2>3. placed' = [placed EXCEPT ![2] = moved]
    BY <1>2 DEF Turn
  <2> HIDE DEF moved
  <2> QED BY <2>1, <2>2, <2>3 DEF PlacementInv
<1> QED BY <1>1, <1>2 DEF PlacementNext

-----------------------------------------------------------------------------
(* The symbol editor.                                                      *)

-----------------------------------------------------------------------------
(* Sequences: an element more in the middle.                               *)
LEMMA InsertedAt ==
  ASSUME NEW S, NEW s \in Seq(S), NEW e \in S, NEW at \in 1..(Len(s) + 1)
  PROVE  /\ InsertAt(s, at, e) \in Seq(S) /\ Len(InsertAt(s, at, e)) = Len(s) + 1
         /\ \A i \in 1..(Len(s) + 1) :
              InsertAt(s, at, e)[i] = IF i < at THEN s[i] ELSE IF i = at THEN e ELSE s[i - 1]
<1> DEFINE front == SubSeq(s, 1, at - 1)
           back == SubSeq(s, at, Len(s))
           n == Len(s)
<1>0. n \in Nat /\ at \in Nat
  BY LenProperties
<1>1. /\ front \in Seq(S) /\ Len(front) = at - 1
      /\ \A i \in 1..(at - 1) : front[i] = s[i]
  <2>1. 1 \in 1..(n + 1) /\ at - 1 \in (1 - 1)..n
    BY <1>0
  <2>2. /\ front \in Seq(S)
        /\ Len(front) = IF 1 <= at - 1 THEN (at - 1) - 1 + 1 ELSE 0
        /\ \A i \in 1..((at - 1) - 1 + 1) : front[i] = s[1 + i - 1]
    BY <2>1, SubSeqProperties
  <2>3. \A i \in 1..(at - 1) : 1 + i - 1 = i
    BY <1>0
  <2>4. (at - 1) - 1 + 1 = at - 1 /\ (1 <= at - 1 \/ at - 1 = 0)
    BY <1>0
  <2> HIDE DEF front
  <2> QED BY <2>2, <2>3, <2>4
<1>2. /\ back \in Seq(S) /\ Len(back) = (n + 1) - at
      /\ \A i \in 1..((n + 1) - at) : back[i] = s[(at - 1) + i]
  <2>1. at \in 1..(n + 1) /\ n \in (at - 1)..n
    BY <1>0
  <2>2. /\ back \in Seq(S)
        /\ Len(back) = IF at <= n THEN n - at + 1 ELSE 0
        /\ \A i \in 1..(n - at + 1) : back[i] = s[at + i - 1]
    BY <2>1, SubSeqProperties
  <2>3. n - at + 1 = (n + 1) - at /\ (at <= n \/ (n + 1) - at = 0)
    BY <1>0
  <2>4. \A i \in 1..((n + 1) - at) : at + i - 1 = (at - 1) + i
    BY <1>0
  <2> HIDE DEF back, n
  <2> QED BY <2>2, <2>3, <2>4
<1> HIDE DEF front, back, n
<1> DEFINE f1 == front \o <<e>>
<1>3. /\ f1 \in Seq(S) /\ Len(f1) = at
      /\ \A i \in 1..at : f1[i] = IF i < at THEN s[i] ELSE e
  <2>1. <<e>> \in Seq(S) /\ Len(<<e>>) = 1 /\ <<e>>[1] = e
    OBVIOUS
  <2>2. /\ f1 \in Seq(S) /\ Len(f1) = Len(front) + 1
        /\ \A i \in 1..(Len(front) + 1) : f1[i] = IF i <= Len(front) THEN front[i] ELSE <<e>>[i - Len(front)]
    BY <1>1, <2>1, ConcatProperties
  <2> HIDE DEF f1
  <2>3. (at - 1) + 1 = at /\ \A i \in 1..at : (i <= at - 1 <=> i < at) /\ (~(i < at) => i - (at - 1) = 1)
    BY <1>0
  <2>4. \A i \in 1..at : i < at => i \in 1..(at - 1)
    BY <1>0
  <2> QED BY <2>1, <2>2, <2>3, <2>4, <1>1
<1> HIDE DEF f1
<1>4. /\ f1 \o back \in Seq(S) /\ Len(f1 \o back) = Len(f1) + Len(back)
      /\ \A i \in 1..(Len(f1) + Len(back)) :
           (f1 \o back)[i] = IF i <= Len(f1) THEN f1[i] ELSE back[i - Len(f1)]
  BY <1>2, <1>3, ConcatProperties
<1>5. InsertAt(s, at, e) = f1 \o back
  BY DEF InsertAt, f1, front, back, n
<1>6. Len(f1) + Len(back) = n + 1
  BY <1>0, <1>2, <1>3
<1>7. ASSUME NEW i \in 1..(n + 1)
      PROVE  (f1 \o back)[i] = IF i < at THEN s[i] ELSE IF i = at THEN e ELSE s[i - 1]
  <2>1. (f1 \o back)[i] = IF i <= at THEN f1[i] ELSE back[i - at]
    BY <1>3, <1>4, <1>6
  <2>2. CASE i <= at
    <3>1. i \in 1..at
      BY <2>2, <1>0
    <3> QED BY <3>1, <2>1, <2>2, <1>3, <1>0
  <2>3. CASE ~(i <= at)
    <3>1. i - at \in 1..((n + 1) - at) /\ (at - 1) + (i - at) = i - 1 /\ ~(i < at) /\ i # at
      BY <2>3, <1>0
    <3>2. back[i - at] = s[i - 1]
      BY <1>2, <3>1
    <3> QED BY <2>1, <2>3, <3>1, <3>2
  <2> QED BY <2>2, <2>3
<1> QED BY <1>4, <1>5, <1>6, <1>7 DEF n

-----------------------------------------------------------------------------
(* An index says for every id of its lines which one was last.             *)
LastOf(lines, tag, id, k) ==
  /\ k \in Known(lines, tag) /\ lines[k].data.id = id
  /\ \A j \in Known(lines, tag) : lines[j].data.id = id => j <= k

IsIndex(f, lines, tag) ==
  /\ f = [id \in DOMAIN f |-> f[id]]
  /\ \A i \in Known(lines, tag) : lines[i].data.id \in DOMAIN f
  /\ \A id \in DOMAIN f : LastOf(lines, tag, id, f[id])

\* Lines as they are parsed.
Parsed(lines) ==
  /\ lines \in Seq(Range(lines))
  /\ \A i \in DOMAIN lines : lines[i] = [kind |-> Kind(lines[i].data, EsymSchemas), data |-> lines[i].data]

(* The lines of a tag are some of the lines. *)
LEMMA KnownPlaces ==
  ASSUME NEW lines, lines \in Seq(Range(lines)), NEW tag
  PROVE  Len(lines) \in Nat /\ DOMAIN lines = 1..Len(lines) /\ Known(lines, tag) \subseteq 1..Len(lines)
<1>1. Len(lines) \in Nat /\ DOMAIN lines = 1..Len(lines)
  BY LenProperties
<1> QED BY <1>1 DEF Known

(* The latest of a set of places that has a greatest one. *)
LEMMA LatestIs ==
  ASSUME NEW T, T \subseteq Nat, NEW m \in T, \A y \in T : y <= m
  PROVE  Latest(T) = m
<1>1. Max(T) \in T /\ \A y \in T : y <= Max(T)
  BY MaxOf
<1>2. m \in Nat /\ Max(T) \in Nat /\ m <= Max(T) /\ Max(T) <= m
  BY <1>1
<1> QED BY <1>2 DEF Latest

(* indexAll indexes its lines. *)
LEMMA IndexOfIsIndex ==
  ASSUME NEW lines, lines \in Seq(Range(lines)), NEW tag
  PROVE  IsIndex(IndexOf(lines, tag), lines, tag)
<1> DEFINE places == Known(lines, tag)
           f == IndexOf(lines, tag)
           Of(id) == {i \in places : lines[i].data.id = id}
<1>1. Len(lines) \in Nat /\ places \subseteq 1..Len(lines)
  BY KnownPlaces
<1>2. f = [id \in {lines[i].data.id : i \in places} |-> Latest(Of(id))]
  BY DEF IndexOf
<1> HIDE DEF places, f
<1>3. ASSUME NEW id \in DOMAIN f PROVE LastOf(lines, tag, id, f[id])
  <2>1. Of(id) # {} /\ Of(id) \subseteq 1..Len(lines) /\ f[id] = Latest(Of(id))
    BY <1>1, <1>2, <1>3
  <2>2. Of(id) \subseteq Nat /\ \A y \in Of(id) : y <= Len(lines)
    BY <1>1, <2>1
  <2>3. Latest(Of(id)) \in Of(id) /\ \A y \in Of(id) : y <= Latest(Of(id))
    <3> HIDE DEF Of
    <3> QED BY <1>1, <2>1, <2>2, MaxOf DEF Latest
  <2> QED BY <2>1, <2>3 DEF LastOf, places
<1>4. \A i \in places : lines[i].data.id \in DOMAIN f
  BY <1>2
<1>5. f = [id \in DOMAIN f |-> f[id]]
  BY <1>2
<1> QED BY <1>3, <1>4, <1>5 DEF IsIndex, places, f

(* What the indexes make of a label is what the lines show.                 *)
LEMMA ShownByIndex ==
  ASSUME NEW lines, lines \in Seq(Range(lines)),
         NEW byEid, IsIndex(byEid, lines, "ATTR"), NEW byFsId, IsIndex(byFsId, lines, "FONTSTYLE"),
         NEW eid \in DOMAIN byEid
  PROVE  StyleShown(lines, eid) = LET style == lines[byEid[eid]].data.fontStyle
                                  IN IF style \in DOMAIN byFsId THEN <<lines[byFsId[style]].data.style>> ELSE None
<1> DEFINE attrs == Known(lines, "ATTR")
           fonts == Known(lines, "FONTSTYLE")
           own == {j \in attrs : lines[j].data.id = eid}
           k == byEid[eid]
           style == lines[k].data.fontStyle
           styles == {j \in fonts : lines[j].data.id = style}
<1>1. attrs \subseteq Nat /\ fonts \subseteq Nat
  <2>1. attrs \subseteq 1..Len(lines) /\ fonts \subseteq 1..Len(lines) /\ Len(lines) \in Nat
    BY KnownPlaces
  <2> QED BY <2>1
<1>2. k \in attrs /\ lines[k].data.id = eid /\ \A j \in attrs : lines[j].data.id = eid => j <= k
  BY DEF IsIndex, LastOf
<1> HIDE DEF attrs, fonts, k
<1>3. Latest(own) = k
  BY <1>1, <1>2, LatestIs
<1>4. StyleShown(lines, eid) = IF styles = {} THEN None ELSE <<lines[Latest(styles)].data.style>>
  BY <1>3, ZenonT(40) DEF StyleShown, attrs, fonts
<1>5. CASE style \in DOMAIN byFsId
  <2>1. /\ byFsId[style] \in fonts /\ lines[byFsId[style]].data.id = style
        /\ \A j \in fonts : lines[j].data.id = style => j <= byFsId[style]
    BY <1>5 DEF IsIndex, LastOf, fonts
  <2>2. byFsId[style] \in styles /\ styles \subseteq Nat /\ \A j \in styles : j <= byFsId[style]
    BY <1>1, <2>1
  <2>3. Latest(styles) = byFsId[style]
    <3> HIDE DEF styles
    <3> QED BY <2>2, LatestIs
  <2> QED BY <1>4, <1>5, <2>2, <2>3, ZenonT(40) DEF k
<1>6. CASE style \notin DOMAIN byFsId
  <2>1. styles = {}
    BY <1>6 DEF IsIndex, fonts
  <2> QED BY <1>4, <1>6, <2>1 DEF k
<1> QED BY <1>5, <1>6

(* A function over 1..n is a sequence of length n. *)
LEMMA IsSequence ==
  ASSUME NEW n \in Nat, NEW f, f = [i \in 1..n |-> f[i]]
  PROVE  f \in Seq(Range(f)) /\ Len(f) = n /\ DOMAIN f = 1..n
<1> DEFINE S == Range(f)
<1>1. f \in [1..n -> S]
  BY DEF Range
<1> HIDE DEF S
<1>2. f \in Seq(S)
  BY <1>1
<1>3. DOMAIN f = 1..n
  BY <1>1
<1>4. Len(f) = n
  <2>1. Len(f) \in Nat /\ DOMAIN f = 1..Len(f)
    BY <1>2, LenProperties
  <2> QED BY <2>1, <1>3
<1> QED BY <1>2, <1>3, <1>4 DEF S

Interpreted == {"ATTR", "FONTSTYLE"}

(* In parsed lines the known ones of a tag are the tuples with that tag. *)
LEMMA KnownIs ==
  ASSUME NEW lines, Parsed(lines), NEW tag \in Interpreted
  PROVE  \A i \in DOMAIN lines : i \in Known(lines, tag) <=> IsTuple(lines[i].data, tag)
<1>1. tag \in EsymSchemas
  BY DEF Interpreted, EsymSchemas
<1> TAKE i \in DOMAIN lines
<1>2. lines[i].kind = Kind(lines[i].data, EsymSchemas)
  BY DEF Parsed
<1> QED BY <1>1, <1>2 DEF Known, IsTuple, Kind

(* The data of each line, as Labelled has it. *)
LabelledData(lines) ==
  /\ \A i \in DOMAIN lines : IsTuple(lines[i].data, "FONTSTYLE") =>
       /\ lines[i].data = FontStyleLine(lines[i].data.id, lines[i].data.style)
       /\ lines[i].data.id \in Nat \ {0} /\ IsStyle(lines[i].data.style)
  /\ \A i \in DOMAIN lines : IsTuple(lines[i].data, "ATTR") =>
       /\ lines[i].data = StyledAttrLine(lines[i].data.id, lines[i].data.parent, lines[i].data.key,
                                         lines[i].data.value, lines[i].data.fontStyle)
       /\ lines[i].data.fontStyle = 0
          \/ \E j \in DOMAIN lines : /\ IsTuple(lines[j].data, "FONTSTYLE")
                                     /\ lines[j].data.id = lines[i].data.fontStyle

(* Lines are well labelled as they are written. *)
LEMMA LabelledAsWritten ==
  ASSUME NEW lines
  PROVE  Labelled(serializeLines(lines)) <=> LabelledData(lines)
<1>1. DOMAIN serializeLines(lines) = DOMAIN lines /\ \A i \in DOMAIN lines : serializeLines(lines)[i] = lines[i].data
  BY DEF serializeLines
<1> DEFINE s == serializeLines(lines)
<1> HIDE DEF s
<1>2. DOMAIN s = DOMAIN lines /\ \A i \in DOMAIN lines : s[i] = lines[i].data
  BY <1>1 DEF s
<1>3. Labelled(s) <=> LabelledData(lines)
  BY <1>2 DEF Labelled, LabelledData
<1> QED BY <1>3 DEF s

-----------------------------------------------------------------------------
(* One line is replaced by another one of the same kind and id.             *)
ReplacedAt(lines, new, k, d) ==
  /\ Parsed(new) /\ DOMAIN new = DOMAIN lines
  /\ \A i \in DOMAIN lines : new[i].data = IF i = k THEN d ELSE lines[i].data
  /\ \A t \in Interpreted : Known(new, t) = Known(lines, t)
  /\ \A i \in DOMAIN lines : i \in Known(lines, "ATTR") \cup Known(lines, "FONTSTYLE") =>
       new[i].data.id = lines[i].data.id

(* ReplacedAt is what replaceLineByFsId and replaceLineByEid do to the lines. *)
LEMMA Replaced ==
  ASSUME NEW lines, Parsed(lines), NEW tag \in Interpreted, NEW k \in Known(lines, tag),
         NEW d, IsTuple(d, tag), d.id = lines[k].data.id,
         NEW new, new = [lines EXCEPT ![k] = wrapAsParsedLine(d)]
  PROVE  ReplacedAt(lines, new, k, d)
<1>0. k \in DOMAIN lines
  BY DEF Known
<1>1. DOMAIN new = DOMAIN lines /\ \A i \in DOMAIN lines : new[i] = IF i = k THEN wrapAsParsedLine(d) ELSE lines[i]
  BY <1>0
<1>2. wrapAsParsedLine(d) = [kind |-> Kind(d, EsymSchemas), data |-> d]
  <2>1. Kind(d, EsymSchemas) = "known"
    BY DEF Kind, IsTuple, Interpreted, EsymSchemas
  <2> QED BY <2>1 DEF wrapAsParsedLine
<1>3. \A i \in DOMAIN lines : new[i].data = IF i = k THEN d ELSE lines[i].data
  BY <1>1, <1>2
<1>4. \A i \in DOMAIN new : new[i] = [kind |-> Kind(new[i].data, EsymSchemas), data |-> new[i].data]
  <2>1. \A i \in DOMAIN lines : lines[i] = [kind |-> Kind(lines[i].data, EsymSchemas), data |-> lines[i].data]
    BY DEF Parsed
  <2> QED BY <1>1, <1>2, <1>3, <2>1
<1>5. new \in Seq(Range(new))
  <2>1. lines \in Seq(Range(lines))
    BY DEF Parsed
  <2>2. Len(lines) \in Nat /\ DOMAIN lines = 1..Len(lines)
    BY <2>1, LenProperties
  <2>3. new = [i \in 1..Len(lines) |-> new[i]] /\ \A i \in 1..Len(lines) : new[i] \in Range(new)
    BY <1>1, <2>2 DEF Range
  <2> QED BY <2>2, <2>3, IsSequence
<1>6. Parsed(new)
  BY <1>4, <1>5 DEF Parsed
<1>7. \A t \in Interpreted : Known(new, t) = Known(lines, t)
  <2> TAKE t \in Interpreted
  <2>1. \A i \in DOMAIN lines : i \in Known(lines, t) <=> IsTuple(lines[i].data, t)
    BY KnownIs
  <2>2. \A i \in DOMAIN lines : i \in Known(new, t) <=> IsTuple(new[i].data, t)
    BY <1>1, <1>6, KnownIs
  <2>3. IsTuple(lines[k].data, tag)
    BY <1>0, KnownIs
  <2>4. IsTuple(d, t) <=> IsTuple(lines[k].data, t)
    BY <2>3 DEF IsTuple
  <2>5. \A i \in DOMAIN lines : i \in Known(lines, t) <=> i \in Known(new, t)
    BY <1>3, <2>1, <2>2, <2>4
  <2> QED BY <1>1, <2>5 DEF Known
<1>8. \A i \in DOMAIN lines : i \in Known(lines, "ATTR") \cup Known(lines, "FONTSTYLE") =>
              new[i].data.id = lines[i].data.id
  BY <1>3
<1> QED BY <1>1, <1>3, <1>6, <1>7, <1>8 DEF ReplacedAt

(* An index of lines whose ids did not change is still one. *)
LEMMA IndexKept ==
  ASSUME NEW lines, NEW new, NEW tag \in Interpreted, NEW f, IsIndex(f, lines, tag),
         Known(new, tag) = Known(lines, tag),
         \A i \in Known(lines, tag) : new[i].data.id = lines[i].data.id
  PROVE  IsIndex(f, new, tag)
BY DEF IsIndex, LastOf

-----------------------------------------------------------------------------
(* One line is inserted.                                                    *)
Shift(i, at) == IF i >= at THEN i + 1 ELSE i

Interpolated(lines, new, at, d) ==
  /\ Parsed(new)
  /\ \A i \in DOMAIN lines : Shift(i, at) \in DOMAIN new /\ new[Shift(i, at)] = lines[i]
  /\ at \in DOMAIN new /\ new[at].data = d
  /\ \A j \in DOMAIN new : j = at \/ \E i \in DOMAIN lines : j = Shift(i, at)
  /\ \A i, j \in DOMAIN lines : i <= j => Shift(i, at) <= Shift(j, at)
  /\ \A i \in DOMAIN lines : Shift(i, at) # at

(* Interpolated is what insertFontStyleAfter does to the lines. *)
LEMMA Inserted ==
  ASSUME NEW lines, Parsed(lines), NEW at \in 1..(Len(lines) + 1), NEW d, IsTuple(d, "FONTSTYLE"),
         NEW new, new = InsertAt(lines, at, wrapAsParsedLine(d))
  PROVE  Interpolated(lines, new, at, d)
<1> DEFINE w == wrapAsParsedLine(d)
           S == Range(lines) \cup {w}
           n == Len(lines)
<1>0. n \in Nat /\ DOMAIN lines = 1..n /\ lines \in Seq(S)
  <2>1. lines \in Seq(Range(lines))
    BY DEF Parsed
  <2>2. n \in Nat /\ DOMAIN lines = 1..n
    BY <2>1, LenProperties
  <2> QED BY <2>1, <2>2, SeqMonotonic
<1>a. w = [kind |-> Kind(d, EsymSchemas), data |-> d]
  <2>1. Kind(d, EsymSchemas) = "known"
    BY DEF Kind, IsTuple, EsymSchemas
  <2> QED BY <2>1 DEF wrapAsParsedLine
<1>b. \A i \in DOMAIN lines : lines[i] = [kind |-> Kind(lines[i].data, EsymSchemas), data |-> lines[i].data]
  BY DEF Parsed
<1>1. /\ new \in Seq(S) /\ Len(new) = n + 1
      /\ \A i \in 1..(n + 1) : new[i] = IF i < at THEN lines[i] ELSE IF i = at THEN w ELSE lines[i - 1]
  <2>1. w \in S
    OBVIOUS
  <2> HIDE DEF w, S
  <2>2. new = InsertAt(lines, at, w)
    BY DEF w
  <2>3. /\ InsertAt(lines, at, w) \in Seq(S) /\ Len(InsertAt(lines, at, w)) = Len(lines) + 1
        /\ \A i \in 1..(Len(lines) + 1) :
             InsertAt(lines, at, w)[i] = IF i < at THEN lines[i] ELSE IF i = at THEN w ELSE lines[i - 1]
    BY <1>0, <2>1, InsertedAt
  <2> QED BY <2>2, <2>3
<1> HIDE DEF w, S, n
<1>2. DOMAIN new = 1..(n + 1)
  BY <1>1, LenProperties
<1>3. \A i \in 1..n : Shift(i, at) \in 1..(n + 1) /\ new[Shift(i, at)] = lines[i]
  <2> TAKE i \in 1..n
  <2>1. CASE i >= at
    <3>1. Shift(i, at) = i + 1 /\ i + 1 \in 1..(n + 1) /\ ~(i + 1 < at) /\ i + 1 # at /\ (i + 1) - 1 = i
      BY <1>0, <2>1 DEF Shift, n
    <3> QED BY <3>1, <1>1
  <2>2. CASE ~(i >= at)
    <3>1. Shift(i, at) = i /\ i \in 1..(n + 1) /\ i < at
      BY <1>0, <2>2 DEF Shift, n
    <3> QED BY <3>1, <1>1
  <2> QED BY <2>1, <2>2
<1>4. at \in 1..(n + 1) /\ new[at].data = d
  <2>1. at \in 1..(n + 1) /\ ~(at < at)
    BY <1>0 DEF n
  <2> QED BY <2>1, <1>1, <1>a
<1>5. \A j \in 1..(n + 1) : j = at \/ \E i \in 1..n : j = Shift(i, at)
  <2> TAKE j \in 1..(n + 1)
  <2>1. CASE j < at
    <3>1. j \in 1..n /\ Shift(j, at) = j
      BY <1>0, <2>1, <1>4 DEF Shift
    <3> QED BY <3>1
  <2>2. CASE j > at
    <3>1. j - 1 \in 1..n /\ Shift(j - 1, at) = j
      BY <1>0, <2>2, <1>4 DEF Shift
    <3> QED BY <3>1
  <2> QED BY <2>1, <2>2, <1>0, <1>4
<1>6. \A i, j \in 1..n : i <= j => Shift(i, at) <= Shift(j, at)
  BY <1>0, <1>4 DEF Shift
<1>7. \A i \in 1..n : Shift(i, at) # at
  BY <1>0, <1>4 DEF Shift
<1>8. \A j \in DOMAIN new : new[j] = [kind |-> Kind(new[j].data, EsymSchemas), data |-> new[j].data]
  <2> TAKE j \in DOMAIN new
  <2>1. CASE j = at
    <3>1. new[j] = w
      BY <1>1, <1>4, <2>1
    <3> QED BY <3>1, <1>a
  <2>2. CASE j # at
    <3>1. PICK i \in 1..n : j = Shift(i, at)
      BY <2>2, <1>2, <1>5
    <3> QED BY <3>1, <1>3, <1>0, <1>b
  <2> QED BY <2>1, <2>2
<1>9. new \in Seq(Range(new))
  <2>1. new = [i \in 1..(n + 1) |-> new[i]] /\ \A i \in 1..(n + 1) : new[i] \in Range(new)
    <3>1. new = [i \in 1..Len(new) |-> new[i]]
      BY <1>1, LenProperties
    <3> QED BY <3>1, <1>1, <1>2 DEF Range
  <2> QED BY <1>0, <2>1, IsSequence
<1>10. Parsed(new)
  BY <1>8, <1>9 DEF Parsed
<1> QED BY <1>0, <1>2, <1>3, <1>4, <1>5, <1>6, <1>7, <1>10 DEF Interpolated

EditorShape(e) ==
  /\ e = [parsed |-> e.parsed, pins |-> e.pins, attrs |-> e.attrs, fontStyles |-> e.fontStyles,
          lineByEid |-> e.lineByEid, lineByFsId |-> e.lineByFsId]
  /\ Len(e.pins) \in Nat /\ DOMAIN e.pins = 1..Len(e.pins)
EditorIndexes(e) ==
  /\ IsIndex(e.lineByEid, e.parsed, "ATTR")
  /\ IsIndex(e.lineByFsId, e.parsed, "FONTSTYLE")
EditorCopies(e) ==
  /\ e.attrs = [eid \in DOMAIN e.lineByEid |-> e.parsed[e.lineByEid[eid]].data]
  /\ e.fontStyles = [id \in DOMAIN e.lineByFsId |-> e.parsed[e.lineByFsId[id]].data.style]
EditorOK(e) ==
  /\ EditorShape(e) /\ Parsed(e.parsed) /\ LabelledData(e.parsed)
  /\ EditorIndexes(e) /\ EditorCopies(e)

AsShown(e, eid) ==
  IF e.attrs[eid].fontStyle \in DOMAIN e.fontStyles THEN <<e.fontStyles[e.attrs[eid].fontStyle]>> ELSE None

(* What the editor holds of a label is on the line it noted for it. *)
LEMMA LabelsOfEditor ==
  ASSUME NEW e, EditorOK(e)
  PROVE  /\ DOMAIN e.attrs = DOMAIN e.lineByEid
         /\ \A i \in Known(e.parsed, "ATTR") : e.parsed[i].data.id \in DOMAIN e.attrs
         /\ \A eid \in DOMAIN e.attrs :
              LET attr == e.attrs[eid]
              IN /\ e.lineByEid[eid] \in Known(e.parsed, "ATTR") /\ e.parsed[e.lineByEid[eid]].data = attr
                 /\ attr.id = eid /\ IsTuple(attr, "ATTR")
                 /\ attr = StyledAttrLine(eid, attr.parent, attr.key, attr.value, attr.fontStyle)
<1>1. DOMAIN e.attrs = DOMAIN e.lineByEid
  BY DEF EditorOK, EditorCopies
<1>2. \A i \in Known(e.parsed, "ATTR") : e.parsed[i].data.id \in DOMAIN e.attrs
  BY <1>1 DEF EditorOK, EditorIndexes, IsIndex
<1>3. ASSUME NEW eid \in DOMAIN e.attrs
      PROVE  LET attr == e.attrs[eid]
              IN /\ e.lineByEid[eid] \in Known(e.parsed, "ATTR") /\ e.parsed[e.lineByEid[eid]].data = attr
                 /\ attr.id = eid /\ IsTuple(attr, "ATTR")
                 /\ attr = StyledAttrLine(eid, attr.parent, attr.key, attr.value, attr.fontStyle)
  <2> DEFINE attr == e.attrs[eid]
             k == e.lineByEid[eid]
  <2>1. e.parsed[k].data = attr
    BY <1>1 DEF EditorOK, EditorCopies
  <2>2. k \in Known(e.parsed, "ATTR") /\ attr.id = eid
    BY <1>1, <2>1 DEF EditorOK, EditorIndexes, IsIndex, LastOf
  <2>3. k \in DOMAIN e.parsed
    BY <2>2 DEF Known
  <2>4. IsTuple(attr, "ATTR")
    BY <2>1, <2>2, <2>3, KnownIs DEF EditorOK, Interpreted
  <2>5. attr = StyledAttrLine(attr.id, attr.parent, attr.key, attr.value, attr.fontStyle)
    BY <2>1, <2>3, <2>4 DEF EditorOK, LabelledData
  <2> QED BY <2>1, <2>2, <2>4, <2>5
<1> QED BY <1>1, <1>2, <1>3

(* What the editor holds of a style is on the line it noted for it. *)
LEMMA StylesOfEditor ==
  ASSUME NEW e, EditorOK(e)
  PROVE  /\ DOMAIN e.fontStyles = DOMAIN e.lineByFsId
         /\ \A i \in Known(e.parsed, "FONTSTYLE") : e.parsed[i].data.id \in DOMAIN e.fontStyles
         /\ \A id \in DOMAIN e.fontStyles :
              LET k == e.lineByFsId[id]
              IN /\ k \in Known(e.parsed, "FONTSTYLE") /\ e.parsed[k].data.id = id
                 /\ e.parsed[k].data.style = e.fontStyles[id]
                 /\ id \in Nat \ {0} /\ IsStyle(e.fontStyles[id])
<1>1. DOMAIN e.fontStyles = DOMAIN e.lineByFsId
  BY DEF EditorOK, EditorCopies
<1>2. \A i \in Known(e.parsed, "FONTSTYLE") : e.parsed[i].data.id \in DOMAIN e.fontStyles
  BY <1>1 DEF EditorOK, EditorIndexes, IsIndex
<1>3. ASSUME NEW id \in DOMAIN e.fontStyles
      PROVE  LET k == e.lineByFsId[id]
              IN /\ k \in Known(e.parsed, "FONTSTYLE") /\ e.parsed[k].data.id = id
                 /\ e.parsed[k].data.style = e.fontStyles[id]
                 /\ id \in Nat \ {0} /\ IsStyle(e.fontStyles[id])
  <2> DEFINE k == e.lineByFsId[id]
  <2>1. e.parsed[k].data.style = e.fontStyles[id]
    BY <1>1 DEF EditorOK, EditorCopies
  <2>2. k \in Known(e.parsed, "FONTSTYLE") /\ e.parsed[k].data.id = id
    BY <1>1 DEF EditorOK, EditorIndexes, IsIndex, LastOf
  <2>3. k \in DOMAIN e.parsed
    BY <2>2 DEF Known
  <2>4. IsTuple(e.parsed[k].data, "FONTSTYLE")
    BY <2>2, <2>3, KnownIs DEF EditorOK, Interpreted
  <2> QED BY <2>1, <2>2, <2>3, <2>4 DEF EditorOK, LabelledData
<1> QED BY <1>1, <1>2, <1>3

(* There are finitely many of both, one line each. *)
LEMMA FewLabels ==
  ASSUME NEW e, EditorOK(e)
  PROVE  IsFiniteSet(DOMAIN e.attrs) /\ IsFiniteSet(DOMAIN e.fontStyles)
<1>1. ASSUME NEW tag \in Interpreted, NEW f, IsIndex(f, e.parsed, tag)
      PROVE  IsFiniteSet(DOMAIN f)
  <2> DEFINE places == Known(e.parsed, tag)
  <2>1. Len(e.parsed) \in Nat /\ places \subseteq 1..Len(e.parsed)
    BY KnownPlaces DEF EditorOK, Parsed
  <2>2. IsFiniteSet(places)
    <3>1. IsFiniteSet(1..Len(e.parsed))
      BY <2>1, FS_Interval
    <3> HIDE DEF places
    <3> QED BY <2>1, <3>1, FS_Subset
  <2>3. f \in Injection(DOMAIN f, places)
    <3>1. f \in [DOMAIN f -> places]
      BY <1>1 DEF IsIndex, LastOf
    <3>2. \A x, y \in DOMAIN f : f[x] = f[y] => x = y
      BY <1>1 DEF IsIndex, LastOf
    <3> HIDE DEF places
    <3> QED BY <3>1, <3>2 DEF Injection, IsInjective
  <2> HIDE DEF places
  <2> QED BY <2>2, <2>3, FS_Injection
<1> QED BY <1>1, LabelsOfEditor, StylesOfEditor DEF EditorOK, EditorIndexes, Interpreted

(* What a label names is in the file, or nowhere.                           *)
LEMMA NamedStyles ==
  ASSUME NEW e, EditorOK(e), NEW eid \in DOMAIN e.attrs
  PROVE  e.attrs[eid].fontStyle = 0 \/ e.attrs[eid].fontStyle \in DOMAIN e.fontStyles
<1> DEFINE k == e.lineByEid[eid]
           lines == e.parsed
<1>1. lines[k].data = e.attrs[eid] /\ k \in DOMAIN lines /\ IsTuple(lines[k].data, "ATTR")
  BY LabelsOfEditor DEF Known
<1>2. SUFFICES ASSUME NEW j \in DOMAIN lines, IsTuple(lines[j].data, "FONTSTYLE"),
                      lines[j].data.id = lines[k].data.fontStyle
               PROVE  lines[k].data.fontStyle \in DOMAIN e.fontStyles
  BY <1>1 DEF EditorOK, LabelledData
<1>3. j \in Known(lines, "FONTSTYLE")
  BY <1>2, KnownIs DEF EditorOK, Interpreted
<1> QED BY <1>2, <1>3, StylesOfEditor

Becomes(e, r, attrs, styles) ==
  EditorOK(r) /\ r.pins = e.pins /\ r.attrs = attrs /\ r.fontStyles = styles

(* replaceLineByFsId changes one style, its line and nothing else. *)
LEMMA StyleReplaced ==
  ASSUME NEW e, EditorOK(e), NEW id \in DOMAIN e.fontStyles, NEW style, IsStyle(style),
         NEW r, r = replaceLineByFsId(e, id, style)
  PROVE  Becomes(e, r, e.attrs, [e.fontStyles EXCEPT ![id] = style])
<1> DEFINE k == e.lineByFsId[id]
           lines == e.parsed
           d == FontStyleLine(id, style)
           new == [lines EXCEPT ![k] = wrapAsParsedLine(d)]
<1>1. r = [parsed |-> new, pins |-> e.pins, attrs |-> e.attrs, fontStyles |-> [e.fontStyles EXCEPT ![id] = style],
           lineByEid |-> e.lineByEid, lineByFsId |-> e.lineByFsId]
  BY DEF replaceLineByFsId, EditorOK, EditorShape
<1>2. /\ k \in Known(lines, "FONTSTYLE") /\ lines[k].data.id = id /\ id \in Nat \ {0}
      /\ Parsed(lines) /\ k \in DOMAIN lines /\ IsTuple(lines[k].data, "FONTSTYLE")
  <2>1. k \in Known(lines, "FONTSTYLE") /\ lines[k].data.id = id /\ id \in Nat \ {0}
    BY StylesOfEditor
  <2> QED BY <2>1, KnownIs DEF EditorOK, Interpreted, Known
<1>3. /\ IsTuple(d, "FONTSTYLE") /\ d.id = id /\ d.style = style /\ d = FontStyleLine(d.id, d.style)
      /\ ~IsTuple(d, "ATTR")
  BY DEF FontStyleLine, IsTuple
<1> HIDE DEF new, d
<1>4. /\ Parsed(new) /\ DOMAIN new = DOMAIN lines
      /\ \A i \in DOMAIN lines : new[i].data = IF i = k THEN d ELSE lines[i].data
      /\ \A t \in Interpreted : Known(new, t) = Known(lines, t)
      /\ \A i \in DOMAIN lines : i \in Known(lines, "ATTR") \cup Known(lines, "FONTSTYLE") =>
              new[i].data.id = lines[i].data.id
  <2>1. ReplacedAt(lines, new, k, d)
    BY <1>2, <1>3, Replaced DEF new, Interpreted
  <2> QED BY <2>1 DEF ReplacedAt
<1>5. EditorIndexes(r)
  <2>1. \A i \in Known(lines, "ATTR") \cup Known(lines, "FONTSTYLE") : i \in DOMAIN lines
    BY DEF Known
  <2>2. IsIndex(e.lineByEid, new, "ATTR")
    BY <1>4, <2>1, IndexKept DEF EditorOK, EditorIndexes, Interpreted
  <2>3. IsIndex(e.lineByFsId, new, "FONTSTYLE")
    BY <1>4, <2>1, IndexKept DEF EditorOK, EditorIndexes, Interpreted
  <2> QED BY <2>2, <2>3, <1>1 DEF EditorIndexes
<1>6. EditorCopies(r)
  <2>1. ASSUME NEW eid \in DOMAIN e.lineByEid PROVE new[e.lineByEid[eid]].data = e.attrs[eid]
    <3>1. e.lineByEid[eid] \in DOMAIN lines /\ IsTuple(lines[e.lineByEid[eid]].data, "ATTR")
          /\ lines[e.lineByEid[eid]].data = e.attrs[eid]
      BY LabelsOfEditor DEF Known
    <3>2. e.lineByEid[eid] # k
      BY <3>1, <1>2 DEF IsTuple
    <3> QED BY <3>1, <3>2, <1>4
  <2>2. e.attrs = [eid \in DOMAIN e.lineByEid |-> new[e.lineByEid[eid]].data]
    BY <2>1 DEF EditorOK, EditorCopies
  <2>3. ASSUME NEW x \in DOMAIN e.lineByFsId
        PROVE  new[e.lineByFsId[x]].data.style = [e.fontStyles EXCEPT ![id] = style][x]
    <3>1. /\ x \in DOMAIN e.fontStyles /\ e.lineByFsId[x] \in DOMAIN lines
          /\ lines[e.lineByFsId[x]].data.id = x /\ lines[e.lineByFsId[x]].data.style = e.fontStyles[x]
      BY StylesOfEditor DEF Known
    <3>2. CASE x = id
      BY <3>1, <3>2, <1>3, <1>4
    <3>3. CASE x # id
      <4>1. e.lineByFsId[x] # k
        BY <3>1, <3>3, <1>2
      <4> QED BY <3>1, <3>3, <4>1, <1>4
    <3> QED BY <3>2, <3>3
  <2>4. DOMAIN e.fontStyles = DOMAIN e.lineByFsId
    BY StylesOfEditor
  <2>5. [e.fontStyles EXCEPT ![id] = style] = [x \in DOMAIN e.lineByFsId |-> new[e.lineByFsId[x]].data.style]
    BY <2>3, <2>4
  <2> QED BY <2>2, <2>5, <1>1 DEF EditorCopies
<1>7. LabelledData(new)
  <2>0. LabelledData(lines)
    BY DEF EditorOK
  <2>1. \A i \in DOMAIN new : IsTuple(new[i].data, "FONTSTYLE") =>
          /\ new[i].data = FontStyleLine(new[i].data.id, new[i].data.style)
          /\ new[i].data.id \in Nat \ {0} /\ IsStyle(new[i].data.style)
    BY <2>0, <1>2, <1>3, <1>4 DEF LabelledData
  <2>2. ASSUME NEW i \in DOMAIN new, IsTuple(new[i].data, "ATTR")
        PROVE  /\ new[i].data = StyledAttrLine(new[i].data.id, new[i].data.parent, new[i].data.key,
                                               new[i].data.value, new[i].data.fontStyle)
               /\ \/ new[i].data.fontStyle = 0
                  \/ \E j \in DOMAIN new : /\ IsTuple(new[j].data, "FONTSTYLE")
                                           /\ new[j].data.id = new[i].data.fontStyle
    <3>1. i # k /\ i \in DOMAIN lines /\ new[i].data = lines[i].data
      BY <2>2, <1>3, <1>4
    <3>2. \A j \in DOMAIN lines : IsTuple(lines[j].data, "FONTSTYLE") =>
             IsTuple(new[j].data, "FONTSTYLE") /\ new[j].data.id = lines[j].data.id
      BY <1>2, <1>3, <1>4
    <3> QED BY <2>0, <2>2, <3>1, <3>2, <1>4 DEF LabelledData
  <2> QED BY <2>1, <2>2 DEF LabelledData
<1>8. EditorShape(r)
  BY <1>1 DEF EditorOK, EditorShape
<1>9. r.parsed = new
  BY <1>1
<1>10. EditorOK(r)
  BY <1>4, <1>5, <1>6, <1>7, <1>8, <1>9 DEF EditorOK
<1> QED BY <1>1, <1>10 DEF Becomes

(* replaceLineByEid gives one label another style of the file. *)
LEMMA LabelRebound ==
  ASSUME NEW e, EditorOK(e), NEW eid \in DOMAIN e.attrs, NEW id \in DOMAIN e.fontStyles,
         NEW attr, attr = [e.attrs[eid] EXCEPT !.fontStyle = id],
         NEW r, r = replaceLineByEid(e, eid, attr)
  PROVE  Becomes(e, r, [e.attrs EXCEPT ![eid] = attr], e.fontStyles) /\ attr.fontStyle = id
<1> DEFINE k == e.lineByEid[eid]
           lines == e.parsed
           new == [lines EXCEPT ![k] = wrapAsParsedLine(attr)]
           old == e.attrs[eid]
<1>1. r = [parsed |-> new, pins |-> e.pins, attrs |-> [e.attrs EXCEPT ![eid] = attr], fontStyles |-> e.fontStyles,
           lineByEid |-> e.lineByEid, lineByFsId |-> e.lineByFsId]
  BY DEF replaceLineByEid, EditorOK, EditorShape
<1>2. /\ k \in Known(lines, "ATTR") /\ lines[k].data = old /\ old.id = eid /\ IsTuple(old, "ATTR")
      /\ old = StyledAttrLine(eid, old.parent, old.key, old.value, old.fontStyle)
      /\ Parsed(lines) /\ k \in DOMAIN lines
  <2>1. /\ k \in Known(lines, "ATTR") /\ lines[k].data = old /\ old.id = eid /\ IsTuple(old, "ATTR")
        /\ old = StyledAttrLine(eid, old.parent, old.key, old.value, old.fontStyle)
    BY LabelsOfEditor
  <2> QED BY <2>1 DEF EditorOK, Known
<1>3. /\ attr = StyledAttrLine(eid, old.parent, old.key, old.value, id)
      /\ IsTuple(attr, "ATTR") /\ attr.id = eid /\ attr.fontStyle = id /\ ~IsTuple(attr, "FONTSTYLE")
      /\ attr = StyledAttrLine(attr.id, attr.parent, attr.key, attr.value, attr.fontStyle)
  <2>1. attr = StyledAttrLine(eid, old.parent, old.key, old.value, id)
    BY <1>2 DEF StyledAttrLine
  <2> QED BY <2>1 DEF StyledAttrLine, IsTuple
<1>j. "ATTR" \in Interpreted /\ attr.id = lines[k].data.id
  BY <1>2, <1>3 DEF Interpreted
<1> HIDE DEF new, old, k
<1>4. /\ Parsed(new) /\ DOMAIN new = DOMAIN lines
      /\ \A i \in DOMAIN lines : new[i].data = IF i = k THEN attr ELSE lines[i].data
      /\ \A t \in Interpreted : Known(new, t) = Known(lines, t)
      /\ \A i \in DOMAIN lines : i \in Known(lines, "ATTR") \cup Known(lines, "FONTSTYLE") =>
              new[i].data.id = lines[i].data.id
  <2>1. new = [lines EXCEPT ![k] = wrapAsParsedLine(attr)]
    BY DEF new
  <2>2. ReplacedAt(lines, new, k, attr)
    BY <2>1, <1>j, <1>2, <1>3, Replaced
  <2> QED BY <2>2 DEF ReplacedAt
<1>5. EditorIndexes(r)
  <2>1. \A i \in Known(lines, "ATTR") \cup Known(lines, "FONTSTYLE") : i \in DOMAIN lines
    BY DEF Known
  <2>2. IsIndex(e.lineByEid, new, "ATTR")
    BY <1>4, <2>1, IndexKept DEF EditorOK, EditorIndexes, Interpreted
  <2>3. IsIndex(e.lineByFsId, new, "FONTSTYLE")
    BY <1>4, <2>1, IndexKept DEF EditorOK, EditorIndexes, Interpreted
  <2> QED BY <2>2, <2>3, <1>1 DEF EditorIndexes
<1>a. \A x \in DOMAIN e.fontStyles :
        /\ e.lineByFsId[x] \in DOMAIN lines /\ IsTuple(lines[e.lineByFsId[x]].data, "FONTSTYLE")
        /\ lines[e.lineByFsId[x]].data.id = x /\ lines[e.lineByFsId[x]].data.style = e.fontStyles[x]
  BY StylesOfEditor, KnownIs, <1>2 DEF Known, Interpreted
<1>b. \A x \in DOMAIN e.fontStyles : e.lineByFsId[x] # k
  BY <1>a, <1>2 DEF IsTuple
<1>6. EditorCopies(r)
  <2>1. ASSUME NEW x \in DOMAIN e.lineByEid PROVE new[e.lineByEid[x]].data = [e.attrs EXCEPT ![eid] = attr][x]
    <3>1. /\ x \in DOMAIN e.attrs /\ e.lineByEid[x] \in DOMAIN lines
          /\ lines[e.lineByEid[x]].data = e.attrs[x] /\ e.attrs[x].id = x
      BY LabelsOfEditor DEF Known
    <3>2. CASE x = eid
      BY <3>1, <3>2, <1>4 DEF k
    <3>3. CASE x # eid
      <4>1. e.lineByEid[x] # k
        BY <3>1, <3>3, <1>2
      <4> QED BY <3>1, <3>3, <4>1, <1>4
    <3> QED BY <3>2, <3>3
  <2>2. DOMAIN e.attrs = DOMAIN e.lineByEid
    BY LabelsOfEditor
  <2>3. [e.attrs EXCEPT ![eid] = attr] = [x \in DOMAIN e.lineByEid |-> new[e.lineByEid[x]].data]
    <3>1. e.attrs = [x \in DOMAIN e.lineByEid |-> e.attrs[x]]
      BY <2>2, ZenonT(40) DEF EditorOK, EditorCopies
    <3> QED BY <2>1, <3>1
  <2>4. \A x \in DOMAIN e.lineByFsId : new[e.lineByFsId[x]].data.style = e.fontStyles[x]
    BY <1>a, <1>b, <1>4, StylesOfEditor
  <2>5. e.fontStyles = [x \in DOMAIN e.lineByFsId |-> new[e.lineByFsId[x]].data.style]
    BY <2>4, ZenonT(40) DEF EditorOK, EditorCopies
  <2>6. /\ r.attrs = [e.attrs EXCEPT ![eid] = attr] /\ r.fontStyles = e.fontStyles /\ r.parsed = new
        /\ r.lineByEid = e.lineByEid /\ r.lineByFsId = e.lineByFsId
    BY <1>1
  <2> QED BY <2>3, <2>5, <2>6, ZenonT(40) DEF EditorCopies
<1>7. LabelledData(new)
  <2>0. LabelledData(lines)
    BY DEF EditorOK
  <2>1. \A i \in DOMAIN new : IsTuple(new[i].data, "FONTSTYLE") =>
          /\ new[i].data = FontStyleLine(new[i].data.id, new[i].data.style)
          /\ new[i].data.id \in Nat \ {0} /\ IsStyle(new[i].data.style)
    BY <2>0, <1>2, <1>3, <1>4, SMTT(30) DEF LabelledData
  <2>3. \A j \in DOMAIN lines : IsTuple(lines[j].data, "FONTSTYLE") =>
             IsTuple(new[j].data, "FONTSTYLE") /\ new[j].data.id = lines[j].data.id
    BY <1>2, <1>4 DEF IsTuple
  <2>2. ASSUME NEW i \in DOMAIN new, IsTuple(new[i].data, "ATTR")
        PROVE  /\ new[i].data = StyledAttrLine(new[i].data.id, new[i].data.parent, new[i].data.key,
                                               new[i].data.value, new[i].data.fontStyle)
               /\ \/ new[i].data.fontStyle = 0
                  \/ \E j \in DOMAIN new : /\ IsTuple(new[j].data, "FONTSTYLE")
                                           /\ new[j].data.id = new[i].data.fontStyle
    <3>1. CASE i = k
      <4>1. new[i].data = attr
        BY <3>1, <1>2, <1>4
      <4>2. e.lineByFsId[id] \in DOMAIN new /\ IsTuple(new[e.lineByFsId[id]].data, "FONTSTYLE")
            /\ new[e.lineByFsId[id]].data.id = id
        BY <1>a, <2>3, <1>4
      <4> QED BY <4>1, <4>2, <1>3
    <3>2. CASE i # k
      <4>1. i \in DOMAIN lines /\ new[i].data = lines[i].data
        BY <3>2, <1>4
      <4> QED BY <2>0, <2>2, <2>3, <4>1, <1>4 DEF LabelledData
    <3> QED BY <3>1, <3>2
  <2> QED BY <2>1, <2>2 DEF LabelledData
<1>8. EditorShape(r)
  BY <1>1 DEF EditorOK, EditorShape
<1>9. r.parsed = new
  BY <1>1
<1>10. EditorOK(r)
  BY <1>4, <1>5, <1>6, <1>7, <1>8, <1>9 DEF EditorOK
<1> QED BY <1>1, <1>3, <1>10, SMTT(30) DEF Becomes

-----------------------------------------------------------------------------
(* insertFontStyleAfter adds one style; every noted line number follows its line. *)
LEMMA StyleInserted ==
  ASSUME NEW e, EditorOK(e), NEW neighbor \in DOMAIN e.fontStyles,
         NEW id \in Nat \ {0}, id \notin DOMAIN e.fontStyles, NEW style, IsStyle(style),
         NEW r, r = insertFontStyleAfter(e, neighbor, id, style)
  PROVE  Becomes(e, r, e.attrs, With(e.fontStyles, id, style))
<1> DEFINE at == e.lineByFsId[neighbor] + 1
           lines == e.parsed
           d == FontStyleLine(id, style)
           new == InsertAt(lines, at, wrapAsParsedLine(d))
           byEid == [k \in DOMAIN e.lineByEid |-> Shift(e.lineByEid[k], at)]
           shifted == [k \in DOMAIN e.lineByFsId |-> Shift(e.lineByFsId[k], at)]
           byFsId == With(shifted, id, at)
           styles == With(e.fontStyles, id, style)
<1>1. r = [parsed |-> new, pins |-> e.pins, attrs |-> e.attrs, fontStyles |-> styles,
           lineByEid |-> byEid, lineByFsId |-> byFsId]
  BY DEF insertFontStyleAfter, EditorOK, EditorShape, Shift
<1>2. /\ Parsed(lines) /\ LabelledData(lines) /\ Len(lines) \in Nat /\ DOMAIN lines = 1..Len(lines)
      /\ e.lineByFsId[neighbor] \in 1..Len(lines)
  <2>1. Parsed(lines) /\ LabelledData(lines) /\ lines \in Seq(Range(lines))
    BY DEF EditorOK, Parsed
  <2>2. Len(lines) \in Nat /\ DOMAIN lines = 1..Len(lines)
    BY <2>1, LenProperties
  <2>3. e.lineByFsId[neighbor] \in DOMAIN lines
    BY StylesOfEditor DEF Known
  <2> QED BY <2>1, <2>2, <2>3
<1>3. at \in 1..(Len(lines) + 1)
  BY <1>2
<1>4. /\ IsTuple(d, "FONTSTYLE") /\ d.id = id /\ d.style = style /\ d = FontStyleLine(d.id, d.style)
      /\ ~IsTuple(d, "ATTR")
  BY DEF FontStyleLine, IsTuple
<1> HIDE DEF at, d, new, byEid, shifted, byFsId, styles
<1>5. /\ Parsed(new)
      /\ \A i \in DOMAIN lines : Shift(i, at) \in DOMAIN new /\ new[Shift(i, at)] = lines[i]
      /\ at \in DOMAIN new /\ new[at].data = d
      /\ \A j \in DOMAIN new : j = at \/ \E i \in DOMAIN lines : j = Shift(i, at)
      /\ \A i, j \in DOMAIN lines : i <= j => Shift(i, at) <= Shift(j, at)
      /\ \A i \in DOMAIN lines : Shift(i, at) # at
  <2>1. new = InsertAt(lines, at, wrapAsParsedLine(d))
    BY DEF new
  <2>2. Interpolated(lines, new, at, d)
    BY <2>1, <1>2, <1>3, <1>4, Inserted
  <2> QED BY <2>2 DEF Interpolated
<1>a. \A i \in DOMAIN lines : \A t \in Interpreted : i \in Known(lines, t) <=> IsTuple(lines[i].data, t)
  BY <1>2, KnownIs
<1>b. \A i \in DOMAIN new : \A t \in Interpreted : i \in Known(new, t) <=> IsTuple(new[i].data, t)
  BY <1>5, KnownIs
<1>c. \A t \in Interpreted : Known(lines, t) \subseteq DOMAIN lines /\ Known(new, t) \subseteq DOMAIN new
  BY DEF Known
<1>d. /\ \A i \in Known(lines, "ATTR") : Shift(i, at) \in Known(new, "ATTR")
      /\ \A i \in Known(lines, "FONTSTYLE") : Shift(i, at) \in Known(new, "FONTSTYLE")
      /\ at \in Known(new, "FONTSTYLE")
  BY <1>a, <1>b, <1>c, <1>4, <1>5 DEF Interpreted
<1>e. /\ \A j \in Known(new, "ATTR") : \E i \in Known(lines, "ATTR") : j = Shift(i, at) /\ i \in DOMAIN lines
      /\ \A j \in Known(new, "FONTSTYLE") : j = at \/ \E i \in Known(lines, "FONTSTYLE") : j = Shift(i, at) /\ i \in DOMAIN lines
  <2>1. ASSUME NEW t \in Interpreted, NEW j \in Known(new, t), j # at
        PROVE  \E i \in Known(lines, t) : j = Shift(i, at) /\ i \in DOMAIN lines
    <3>1. PICK i \in DOMAIN lines : j = Shift(i, at)
      BY <2>1, <1>c, <1>5
    <3>2. IsTuple(lines[i].data, t)
      BY <3>1, <2>1, <1>b, <1>c, <1>5
    <3> QED BY <3>1, <3>2, <1>a
  <2>2. \A j \in Known(new, "ATTR") : j # at
    BY <1>b, <1>c, <1>4, <1>5 DEF Interpreted
  <2> QED BY <2>1, <2>2 DEF Interpreted
<1>f. /\ DOMAIN byEid = DOMAIN e.lineByEid /\ \A k \in DOMAIN byEid : byEid[k] = Shift(e.lineByEid[k], at)
      /\ byEid = [k \in DOMAIN byEid |-> byEid[k]]
  BY DEF byEid
<1>g. /\ DOMAIN byFsId = DOMAIN e.lineByFsId \cup {id} /\ byFsId[id] = at
      /\ \A k \in DOMAIN e.lineByFsId : k # id => byFsId[k] = Shift(e.lineByFsId[k], at)
      /\ byFsId = [k \in DOMAIN byFsId |-> byFsId[k]]
  BY DEF byFsId, shifted, With
<1>h. id \notin DOMAIN e.lineByFsId /\ DOMAIN e.fontStyles = DOMAIN e.lineByFsId /\ DOMAIN e.attrs = DOMAIN e.lineByEid
  BY StylesOfEditor, LabelsOfEditor
<1>i. IsIndex(e.lineByEid, lines, "ATTR") /\ IsIndex(e.lineByFsId, lines, "FONTSTYLE")
  BY DEF EditorOK, EditorIndexes
<1>6. IsIndex(byEid, new, "ATTR")
  <2>1. ASSUME NEW j \in Known(new, "ATTR") PROVE new[j].data.id \in DOMAIN byEid
    BY <1>e, <1>f, <1>i, <1>5 DEF IsIndex
  <2>2. ASSUME NEW x \in DOMAIN byEid PROVE LastOf(new, "ATTR", x, byEid[x])
    <3>1. LastOf(lines, "ATTR", x, e.lineByEid[x])
      BY <1>f, <1>i DEF IsIndex
    <3>2. e.lineByEid[x] \in Known(lines, "ATTR") /\ e.lineByEid[x] \in DOMAIN lines
      BY <3>1 DEF LastOf, Known
    <3>3. byEid[x] \in Known(new, "ATTR") /\ new[byEid[x]].data.id = x
      BY <3>1, <3>2, <1>d, <1>f, <1>5 DEF LastOf
    <3>4. ASSUME NEW j \in Known(new, "ATTR"), new[j].data.id = x PROVE j <= byEid[x]
      <4>1. PICK i \in Known(lines, "ATTR") : j = Shift(i, at) /\ i \in DOMAIN lines
        BY <1>e
      <4>2. i <= e.lineByEid[x]
        BY <4>1, <3>1, <3>4, <1>5 DEF LastOf
      <4> QED BY <4>1, <4>2, <3>2, <1>f, <1>5
    <3> QED BY <3>3, <3>4 DEF LastOf
  <2> QED BY <2>1, <2>2, <1>f DEF IsIndex
<1>7. IsIndex(byFsId, new, "FONTSTYLE")
  <2>1. ASSUME NEW j \in Known(new, "FONTSTYLE") PROVE new[j].data.id \in DOMAIN byFsId
    <3>1. CASE j = at
      BY <3>1, <1>4, <1>5, <1>g
    <3>2. CASE j # at
      BY <3>2, <1>e, <1>g, <1>i, <1>5 DEF IsIndex
    <3> QED BY <3>1, <3>2
  <2>2. ASSUME NEW x \in DOMAIN e.lineByFsId PROVE LastOf(new, "FONTSTYLE", x, byFsId[x])
    <3>0. x # id /\ byFsId[x] = Shift(e.lineByFsId[x], at)
      BY <1>g, <1>h
    <3>1. LastOf(lines, "FONTSTYLE", x, e.lineByFsId[x])
      BY <1>i DEF IsIndex
    <3>2. e.lineByFsId[x] \in Known(lines, "FONTSTYLE") /\ e.lineByFsId[x] \in DOMAIN lines
      BY <3>1 DEF LastOf, Known
    <3>3. byFsId[x] \in Known(new, "FONTSTYLE") /\ new[byFsId[x]].data.id = x
      BY <3>0, <3>1, <3>2, <1>d, <1>5 DEF LastOf
    <3>4. ASSUME NEW j \in Known(new, "FONTSTYLE"), new[j].data.id = x PROVE j <= byFsId[x]
      <4>0. j # at
        BY <3>0, <3>4, <1>4, <1>5
      <4>1. PICK i \in Known(lines, "FONTSTYLE") : j = Shift(i, at) /\ i \in DOMAIN lines
        BY <4>0, <1>e
      <4>2. i <= e.lineByFsId[x]
        BY <4>1, <3>1, <3>4, <1>5 DEF LastOf
      <4> QED BY <4>1, <4>2, <3>0, <3>2, <1>5
    <3> QED BY <3>3, <3>4 DEF LastOf
  <2>3. LastOf(new, "FONTSTYLE", id, at)
    <3>1. new[at].data.id = id
      BY <1>4, <1>5
    <3>2. ASSUME NEW j \in Known(new, "FONTSTYLE"), new[j].data.id = id PROVE j = at
      <4> SUFFICES ASSUME j # at PROVE FALSE
        OBVIOUS
      <4>1. PICK i \in Known(lines, "FONTSTYLE") : j = Shift(i, at) /\ i \in DOMAIN lines
        BY <1>e
      <4>2. lines[i].data.id = id
        BY <4>1, <3>2, <1>5
      <4> QED BY <4>1, <4>2, <1>h, <1>i DEF IsIndex
    <3>3. at <= at
      BY <1>3
    <3> QED BY <3>1, <3>2, <3>3, <1>d DEF LastOf
  <2> QED BY <2>1, <2>2, <2>3, <1>g DEF IsIndex
<1>8. EditorCopies(r)
  <2>1. \A x \in DOMAIN byEid : new[byEid[x]].data = e.attrs[x]
    <3>1. \A x \in DOMAIN e.attrs : e.lineByEid[x] \in DOMAIN lines /\ lines[e.lineByEid[x]].data = e.attrs[x]
      BY LabelsOfEditor DEF Known
    <3> QED BY <3>1, <1>f, <1>h, <1>5
  <2>2. e.attrs = [x \in DOMAIN byEid |-> new[byEid[x]].data]
    <3>1. e.attrs = [x \in DOMAIN e.lineByEid |-> e.attrs[x]]
      BY <1>h DEF EditorOK, EditorCopies
    <3> QED BY <3>1, <2>1, <1>f
  <2>3. \A x \in DOMAIN e.lineByFsId : new[byFsId[x]].data.style = e.fontStyles[x]
    <3>1. \A x \in DOMAIN e.fontStyles : /\ e.lineByFsId[x] \in DOMAIN lines
                                         /\ lines[e.lineByFsId[x]].data.style = e.fontStyles[x]
      BY StylesOfEditor DEF Known
    <3> QED BY <3>1, <1>g, <1>h, <1>5
  <2>4. new[byFsId[id]].data.style = style
    BY <1>g, <1>4, <1>5
  <2>5. styles = [x \in DOMAIN byFsId |-> new[byFsId[x]].data.style]
    BY <2>3, <2>4, <1>g, <1>h DEF styles, With
  <2> QED BY <2>2, <2>5, <1>1 DEF EditorCopies
<1>9. LabelledData(new)
  <2>1. ASSUME NEW j \in DOMAIN new, IsTuple(new[j].data, "FONTSTYLE")
        PROVE  /\ new[j].data = FontStyleLine(new[j].data.id, new[j].data.style)
               /\ new[j].data.id \in Nat \ {0} /\ IsStyle(new[j].data.style)
    <3>1. CASE j = at
      BY <3>1, <1>4, <1>5
    <3>2. CASE j # at
      <4>1. PICK i \in DOMAIN lines : new[j] = lines[i]
        BY <3>2, <1>5
      <4> QED BY <4>1, <2>1, <1>2 DEF LabelledData
    <3> QED BY <3>1, <3>2
  <2>2. ASSUME NEW j \in DOMAIN new, IsTuple(new[j].data, "ATTR")
        PROVE  /\ new[j].data = StyledAttrLine(new[j].data.id, new[j].data.parent, new[j].data.key,
                                               new[j].data.value, new[j].data.fontStyle)
               /\ \/ new[j].data.fontStyle = 0
                  \/ \E i \in DOMAIN new : /\ IsTuple(new[i].data, "FONTSTYLE")
                                           /\ new[i].data.id = new[j].data.fontStyle
    <3>1. j # at
      BY <2>2, <1>4, <1>5
    <3>2. PICK i \in DOMAIN lines : new[j] = lines[i]
      BY <3>1, <1>5
    <3>3. /\ lines[i].data = StyledAttrLine(lines[i].data.id, lines[i].data.parent, lines[i].data.key,
                                               lines[i].data.value, lines[i].data.fontStyle)
          /\ \/ lines[i].data.fontStyle = 0
             \/ \E k \in DOMAIN lines : /\ IsTuple(lines[k].data, "FONTSTYLE")
                                        /\ lines[k].data.id = lines[i].data.fontStyle
      BY <3>2, <2>2, <1>2 DEF LabelledData
    <3> QED BY <3>2, <3>3, <1>5
  <2> QED BY <2>1, <2>2 DEF LabelledData
<1>10. EditorShape(r)
  BY <1>1 DEF EditorOK, EditorShape
<1>11. /\ r.parsed = new /\ r.lineByEid = byEid /\ r.lineByFsId = byFsId /\ r.fontStyles = styles
       /\ r.attrs = e.attrs /\ r.pins = e.pins
  BY <1>1
<1>12. EditorOK(r)
  BY <1>5, <1>6, <1>7, <1>8, <1>9, <1>10, <1>11 DEF EditorOK, EditorIndexes
<1> QED BY <1>11, <1>12 DEF styles, Becomes

(* Reading a style of the file and writing it again loses nothing, and a
   merged style is one that can be written. *)
LEMMA Merged ==
  ASSUME NEW style, IsStyle(style), NEW partial \in Changes
  PROVE  /\ fontStyleFromTuple(style) = style
         /\ fontStyleToTuple(mergeFontStyle(style, partial)) = mergeFontStyle(style, partial)
         /\ IsStyle(mergeFontStyle(style, partial))
<1>1. style = [size |-> style.size, bold |-> style.bold, vAlign |-> style.vAlign]
  BY DEF IsStyle
<1>2. fontStyleFromTuple(style) = style
  <2>1. (IF style.bold = Null THEN Null ELSE IF style.bold = 1 THEN 1 ELSE 0) = style.bold
    BY DEF IsStyle
  <2>2. (IF style.vAlign # Null /\ style.vAlign <= 2 THEN style.vAlign ELSE Null) = style.vAlign
    BY DEF IsStyle
  <2> QED BY <1>1, <2>1, <2>2 DEF fontStyleFromTuple
<1> DEFINE m == mergeFontStyle(style, partial)
<1>3. m = [slot \in {"size", "bold", "vAlign"} |-> IF slot \in DOMAIN partial THEN partial[slot] ELSE style[slot]]
  <2>1. DOMAIN style = {"size", "bold", "vAlign"}
    BY <1>1
  <2> QED BY <2>1 DEF mergeFontStyle
<1> HIDE DEF m
<1>4. m = [size |-> m.size, bold |-> m.bold, vAlign |-> m.vAlign]
  BY <1>3
<1>5. m.bold \in {Null, 0, 1} /\ m.vAlign \in {Null, 0, 1, 2}
  <2>1. style["bold"] \in {Null, 0, 1} /\ style["vAlign"] \in {Null, 0, 1, 2}
    BY DEF IsStyle
  <2> QED BY <2>1, <1>3, ChangesAssumption
<1>6. IsStyle(m)
  BY <1>4, <1>5 DEF IsStyle
<1>7. fontStyleToTuple(m) = m
  BY <1>4 DEF fontStyleToTuple
<1> QED BY <1>2, <1>6, <1>7 DEF m

(* The number given out is no style's yet. *)
LEMMA FreshStyle ==
  ASSUME NEW e, EditorOK(e)
  PROVE  allocFontStyleId(e) \in Nat \ {0} /\ allocFontStyleId(e) \notin DOMAIN e.fontStyles
<1> DEFINE S == DOMAIN e.fontStyles \cup {0}
<1>1. IsFiniteSet(S) /\ S \subseteq Nat /\ S # {}
  <2>1. IsFiniteSet(DOMAIN e.fontStyles)
    BY FewLabels
  <2>2. DOMAIN e.fontStyles \subseteq Nat
    BY StylesOfEditor
  <2>3. IsFiniteSet(S)
    BY <2>1, FS_AddElement
  <2> QED BY <2>2, <2>3
<1>2. Max(S) \in S /\ \A y \in S : y <= Max(S)
  <2> HIDE DEF S
  <2> QED BY <1>1, MaxOfFinite
<1> DEFINE m == Max(S)
<1>3. allocFontStyleId(e) = m + 1
  BY DEF allocFontStyleId
<1>4. m \in Nat /\ \A y \in S : y \in Nat /\ y <= m
  <2> HIDE DEF S
  <2> QED BY <1>1, <1>2
<1> HIDE DEF m, S
<1>5. m + 1 \in Nat \ {0} /\ (m + 1) \notin S
  BY <1>4
<1> QED BY <1>3, <1>5 DEF S

RestyledOne(e, r, eid, partial) ==
  /\ EditorOK(r) /\ r.pins = e.pins /\ DOMAIN r.attrs = DOMAIN e.attrs
  /\ Len(AsShown(e, eid)) = 1 /\ AsShown(r, eid) = <<mergeFontStyle(AsShown(e, eid)[1], partial)>>
  /\ \A x \in DOMAIN e.attrs : x # eid => AsShown(r, x) = AsShown(e, x)

(* One label changes and no other.                                          *)
LEMMA Updated ==
  ASSUME NEW e, EditorOK(e), NEW eid, CanBeStyled(e, eid), NEW partial \in Changes,
         NEW r, r = updateAttrStyle(e, eid, partial)
  PROVE  RestyledOne(e, r, eid, partial)
<1> DEFINE attr == e.attrs[eid]
           fs == attr.fontStyle
           current == e.fontStyles[fs]
           new == mergeFontStyle(current, partial)
           id == allocFontStyleId(e)
           rebound == [attr EXCEPT !.fontStyle = id]
<1>1. eid \in DOMAIN e.attrs /\ fs \in DOMAIN e.fontStyles /\ IsStyle(current)
  <2>1. eid \in DOMAIN e.attrs /\ fs \in DOMAIN e.fontStyles
    BY DEF CanBeStyled
  <2> QED BY <2>1, StylesOfEditor
<1>2. IsStyle(new) /\ r = IF new = current THEN e
                          ELSE IF countFontStyleRefs(e, fs) = 1 THEN replaceLineByFsId(e, fs, new)
                          ELSE replaceLineByEid(insertFontStyleAfter(e, fs, id, new), eid, rebound)
  BY <1>1, Merged DEF updateAttrStyle
<1>3. AsShown(e, eid) = <<current>>
  BY <1>1 DEF AsShown
<1>s. SUFFICES /\ EditorOK(r) /\ r.pins = e.pins /\ DOMAIN r.attrs = DOMAIN e.attrs
               /\ AsShown(r, eid) = <<new>>
               /\ \A x \in DOMAIN e.attrs : x # eid => AsShown(r, x) = AsShown(e, x)
  BY <1>1, <1>3 DEF RestyledOne
<1> HIDE DEF new, current, rebound, fs, attr, id
<1>4. CASE new = current
  BY <1>2, <1>3, <1>4
<1>5. CASE new # current /\ countFontStyleRefs(e, fs) = 1
  <2>1. r = replaceLineByFsId(e, fs, new)
    BY <1>2, <1>5
  <2>0. Becomes(e, r, e.attrs, [e.fontStyles EXCEPT ![fs] = new])
    BY <2>1, <1>1, <1>2, StyleReplaced
  <2>2. /\ EditorOK(r) /\ r.pins = e.pins /\ r.attrs = e.attrs
        /\ r.fontStyles = [e.fontStyles EXCEPT ![fs] = new]
    BY <2>0 DEF Becomes
  <2> DEFINE users == {a \in DOMAIN e.attrs : e.attrs[a].fontStyle = fs}
  <2>3. users = {eid}
    <3>1. Cardinality(users) = 1
      BY <1>5 DEF countFontStyleRefs
    <3>2. IsFiniteSet(users)
      BY FewLabels, FS_Subset
    <3>3. \E x : users = {x}
      <4> HIDE DEF users
      <4> QED BY <3>1, <3>2, FS_Singleton
    <3>4. eid \in users
      BY <1>1 DEF fs, attr
    <3> QED BY <3>3, <3>4
  <2>4. AsShown(r, eid) = <<new>>
    BY <2>2, <1>1 DEF AsShown, fs, attr
  <2>5. \A x \in DOMAIN e.attrs : x # eid => e.attrs[x].fontStyle # fs
    BY <2>3
  <2>6. \A x \in DOMAIN e.attrs : x # eid => AsShown(r, x) = AsShown(e, x)
    BY <2>2, <2>5 DEF AsShown
  <2> QED BY <2>2, <2>4, <2>6
<1>6. CASE new # current /\ countFontStyleRefs(e, fs) # 1
  <2> DEFINE e1 == insertFontStyleAfter(e, fs, id, new)
  <2>1. r = replaceLineByEid(e1, eid, rebound)
    BY <1>2, <1>6
  <2>2. id \in Nat \ {0} /\ id \notin DOMAIN e.fontStyles
    BY FreshStyle DEF id
  <2>0. Becomes(e, e1, e.attrs, With(e.fontStyles, id, new))
    BY <1>1, <1>2, <2>2, StyleInserted
  <2>3. /\ EditorOK(e1) /\ e1.pins = e.pins /\ e1.attrs = e.attrs
        /\ e1.fontStyles = With(e.fontStyles, id, new)
    BY <2>0 DEF Becomes
  <2> HIDE DEF e1
  <2>4. DOMAIN e1.fontStyles = DOMAIN e.fontStyles \cup {id} /\ e1.fontStyles[id] = new
        /\ \A x \in DOMAIN e.fontStyles : e1.fontStyles[x] = e.fontStyles[x]
    BY <2>2, <2>3 DEF With
  <2>5. /\ EditorOK(r) /\ r.pins = e.pins /\ r.fontStyles = e1.fontStyles
        /\ r.attrs = [e.attrs EXCEPT ![eid] = rebound] /\ rebound.fontStyle = id
    <3>1. eid \in DOMAIN e1.attrs /\ id \in DOMAIN e1.fontStyles /\ e1.attrs[eid] = attr
      BY <1>1, <2>3, <2>4 DEF attr
    <3>2. rebound = [e1.attrs[eid] EXCEPT !.fontStyle = id]
      BY <3>1 DEF rebound
    <3>3. Becomes(e1, r, [e1.attrs EXCEPT ![eid] = rebound], e1.fontStyles) /\ rebound.fontStyle = id
      BY <2>1, <2>3, <3>1, <3>2, LabelRebound
    <3> QED BY <2>3, <3>3 DEF Becomes
  <2>6. AsShown(r, eid) = <<new>>
    BY <2>4, <2>5, <1>1 DEF AsShown
  <2>7. ASSUME NEW x \in DOMAIN e.attrs, x # eid PROVE AsShown(r, x) = AsShown(e, x)
    <3>1. r.attrs[x] = e.attrs[x]
      BY <2>5, <2>7
    <3>2. e.attrs[x].fontStyle = 0 \/ e.attrs[x].fontStyle \in DOMAIN e.fontStyles
      BY NamedStyles
    <3>3. 0 \notin DOMAIN e.fontStyles
      BY StylesOfEditor
    <3> QED BY <2>2, <2>4, <2>5, <3>1, <3>2, <3>3 DEF AsShown
  <2>8. DOMAIN r.attrs = DOMAIN e.attrs
    BY <2>5
  <2> QED BY <2>5, <2>6, <2>7, <2>8
<1> QED BY <1>4, <1>5, <1>6

(* A change that is applied twice is applied. *)
LEMMA MergedTwice ==
  ASSUME NEW style, NEW partial
  PROVE  mergeFontStyle(mergeFontStyle(style, partial), partial) = mergeFontStyle(style, partial)
BY DEF mergeFontStyle

(* Some labels have their new style and no other label has changed.        *)
RestyledAll(e, a, some, partial) ==
  /\ EditorOK(a) /\ a.pins = e.pins /\ DOMAIN a.attrs = DOMAIN e.attrs
  /\ \A x \in DOMAIN e.attrs :
       AsShown(a, x) = IF x \in some THEN <<mergeFontStyle(AsShown(e, x)[1], partial)>> ELSE AsShown(e, x)

(* A label can be styled when it shows a style. *)
LEMMA CanBe ==
  ASSUME NEW e, NEW x
  PROVE  CanBeStyled(e, x) <=> x \in DOMAIN e.attrs /\ Len(AsShown(e, x)) = 1
<1>1. AsShown(e, x) = IF e.attrs[x].fontStyle \in DOMAIN e.fontStyles
                      THEN <<e.fontStyles[e.attrs[x].fontStyle]>> ELSE <<>>
  BY DEF AsShown, None
<1>2. \A v : Len(<<v>>) = 1 /\ Len(<<>>) # 1
  OBVIOUS
<1> QED BY <1>1, <1>2 DEF CanBeStyled

(* updateAttrStyle, as one more of a list of labels. *)
LEMMA OneMore ==
  ASSUME NEW e, NEW partial \in Changes, NEW a, NEW some, RestyledAll(e, a, some, partial),
         NEW x, CanBeStyled(e, x)
  PROVE  RestyledAll(e, updateAttrStyle(a, x, partial), some \cup {x}, partial)
<1> DEFINE r == updateAttrStyle(a, x, partial)
           Merge(y) == <<mergeFontStyle(AsShown(e, y)[1], partial)>>
<1>0. x \in DOMAIN e.attrs /\ Len(AsShown(e, x)) = 1
  BY CanBe
<1>a. /\ EditorOK(a) /\ a.pins = e.pins /\ DOMAIN a.attrs = DOMAIN e.attrs
      /\ \A y \in DOMAIN e.attrs : AsShown(a, y) = IF y \in some THEN Merge(y) ELSE AsShown(e, y)
  BY DEF RestyledAll
<1> HIDE DEF r
<1>1. CanBeStyled(a, x)
  <2>1. Len(Merge(x)) = 1
    OBVIOUS
  <2>2. Len(AsShown(a, x)) = 1
    BY <2>1, <1>0, <1>a
  <2> QED BY <2>2, <1>0, <1>a, CanBe
<1>2. RestyledOne(a, r, x, partial)
  BY <1>1, <1>a, Updated DEF r
<1>3. /\ EditorOK(r) /\ r.pins = e.pins /\ DOMAIN r.attrs = DOMAIN e.attrs
      /\ AsShown(r, x) = <<mergeFontStyle(AsShown(a, x)[1], partial)>>
      /\ \A y \in DOMAIN e.attrs : y # x => AsShown(r, y) = AsShown(a, y)
  BY <1>2, <1>a DEF RestyledOne
<1>4. AsShown(r, x) = Merge(x)
  <2>1. CASE x \in some
    <3>1. AsShown(a, x)[1] = mergeFontStyle(AsShown(e, x)[1], partial)
      BY <2>1, <1>0, <1>a
    <3> QED BY <3>1, <1>3, MergedTwice
  <2>2. CASE x \notin some
    BY <2>2, <1>0, <1>a, <1>3
  <2> QED BY <2>1, <2>2
<1>5. \A y \in DOMAIN e.attrs : AsShown(r, y) = IF y \in some \cup {x} THEN Merge(y) ELSE AsShown(e, y)
  BY <1>3, <1>4, <1>a
<1>6. RestyledAll(e, r, some \cup {x}, partial)
  BY <1>3, <1>5 DEF RestyledAll
<1> QED BY <1>6 DEF r

Restyles(after, e, todo, partial, k) ==
  after = [n \in 0..k |-> IF n = 0 THEN e ELSE updateAttrStyle(after[n - 1], todo[n], partial)]

(* The recursive function inside Restyle exists for any number of labels, *)
LEMMA RestylesExist ==
  ASSUME NEW e, NEW todo, NEW partial
  PROVE  \A k \in Nat : \E after : Restyles(after, e, todo, partial, k)
<1> DEFINE T == {k \in Nat : \E after : Restyles(after, e, todo, partial, k)}
<1>1. 0 \in T
  <2>1. Restyles([n \in 0..0 |-> e], e, todo, partial, 0)
    BY DEF Restyles
  <2> QED BY <2>1
<1>2. ASSUME NEW k \in Nat, k \in T PROVE k + 1 \in T
  <2>1. PICK up : Restyles(up, e, todo, partial, k)
    BY <1>2
  <2> DEFINE t == [n \in 0..(k + 1) |-> IF n = 0 THEN e ELSE updateAttrStyle(up[n - 1], todo[n], partial)]
  <2>2. \A n \in 0..k : t[n] = up[n]
    <3>1. \A n \in 0..k : up[n] = IF n = 0 THEN e ELSE updateAttrStyle(up[n - 1], todo[n], partial)
      BY <2>1 DEF Restyles
    <3>2. \A n \in 0..k : n \in 0..(k + 1)
      OBVIOUS
    <3> QED BY <3>1, <3>2
  <2>3. \A n \in 0..(k + 1) : n # 0 => n - 1 \in 0..k
    OBVIOUS
  <2>4. \A n \in 0..(k + 1) : n # 0 => t[n - 1] = up[n - 1]
    BY <2>2, <2>3
  <2>5. \A n \in 0..(k + 1) :
          t[n] = IF n = 0 THEN e ELSE updateAttrStyle(t[n - 1], todo[n], partial)
    BY <2>4
  <2>6. t = [n \in 0..(k + 1) |-> t[n]]
    OBVIOUS
  <2> HIDE DEF t
  <2>7. Restyles(t, e, todo, partial, k + 1)
    BY <2>5, <2>6 DEF Restyles
  <2> QED BY <2>7
<1>3. \A k \in Nat : k \in T
  <2> HIDE DEF T
  <2> QED BY <1>1, <1>2, EveryNumber
<1> QED BY <1>3

(* and at n the first n labels have the new style. *)
LEMMA ManyRestyled ==
  ASSUME NEW e, EditorOK(e), NEW partial \in Changes, NEW todo, NEW k \in Nat,
         \A n \in 1..k : CanBeStyled(e, todo[n]),
         NEW after, Restyles(after, e, todo, partial, k)
  PROVE  RestyledAll(e, after[k], {todo[n] : n \in 1..k}, partial)
<1> DEFINE Some(n) == {todo[i] : i \in 1..n}
           T == {n \in Nat : n <= k => RestyledAll(e, after[n], Some(n), partial)}
<1>0. \A n \in 0..k : after[n] = IF n = 0 THEN e ELSE updateAttrStyle(after[n - 1], todo[n], partial)
  BY DEF Restyles
<1>1. 0 \in T
  <2>1. after[0] = e
    BY <1>0
  <2>2. Some(0) = {}
    OBVIOUS
  <2>3. RestyledAll(e, e, {}, partial)
    BY DEF RestyledAll
  <2> QED BY <2>1, <2>2, <2>3
<1>2. ASSUME NEW n \in Nat, n \in T PROVE n + 1 \in T
  <2> SUFFICES ASSUME n + 1 <= k PROVE RestyledAll(e, after[n + 1], Some(n + 1), partial)
    OBVIOUS
  <2>1. RestyledAll(e, after[n], Some(n), partial)
    BY <1>2
  <2>2. after[n + 1] = updateAttrStyle(after[n], todo[n + 1], partial)
    <3>1. n + 1 \in 0..k /\ n + 1 # 0 /\ (n + 1) - 1 = n
      OBVIOUS
    <3> QED BY <3>1, <1>0
  <2>3. CanBeStyled(e, todo[n + 1])
    <3>1. n + 1 \in 1..k
      OBVIOUS
    <3> QED BY <3>1
  <2>4. Some(n + 1) = Some(n) \cup {todo[n + 1]}
    <3>1. \A i \in 1..(n + 1) : i = n + 1 \/ i \in 1..n
      OBVIOUS
    <3>2. 1..n \subseteq 1..(n + 1) /\ n + 1 \in 1..(n + 1)
      OBVIOUS
    <3> QED BY <3>1, <3>2
  <2> HIDE DEF Some
  <2> QED BY <2>1, <2>2, <2>3, <2>4, OneMore
<1>3. \A n \in Nat : n \in T
  <2> HIDE DEF T
  <2> QED BY <1>1, <1>2, EveryNumber
<1>4. k \in T
  <2> HIDE DEF T
  <2> QED BY <1>3
<1>5. k <= k
  OBVIOUS
<1> QED BY <1>4, <1>5

(* The labels before the first one that cannot be styled.                  *)
LEMMA StyleableLabels ==
  ASSUME NEW e, NEW labels, labels \in Seq(Range(labels))
  PROVE  LET todo == Styleable(e, labels)
         IN /\ Len(todo) \in Nat /\ DOMAIN todo = 1..Len(todo)
            /\ \A n \in 1..Len(todo) : CanBeStyled(e, todo[n])
<1> DEFINE bad == {n \in DOMAIN labels : ~CanBeStyled(e, labels[n])}
           todo == Styleable(e, labels)
           S == Range(labels)
<1>0. Len(labels) \in Nat /\ DOMAIN labels = 1..Len(labels)
  BY LenProperties
<1>1. CASE bad = {}
  <2>1. todo = labels
    BY <1>1 DEF Styleable
  <2> QED BY <1>0, <1>1, <2>1
<1>2. CASE bad # {}
  <2> DEFINE b == Min(bad)
  <2>1. b \in bad /\ \A y \in bad : b <= y
    <3>1. bad \subseteq Nat
      BY <1>0
    <3> HIDE DEF bad
    <3> QED BY <1>2, <3>1, MinOf
  <2>2. todo = SubSeq(labels, 1, b - 1)
    BY <1>2 DEF Styleable
  <2>3. b \in 1..Len(labels)
    BY <2>1, <1>0
  <2> HIDE DEF b, bad, todo, S
  <2>4. /\ todo \in Seq(S) /\ Len(todo) = b - 1
        /\ \A i \in 1..(b - 1) : todo[i] = labels[i]
    <3>1. 1 \in 1..(Len(labels) + 1) /\ b - 1 \in (1 - 1)..Len(labels)
      BY <1>0, <2>3
    <3>2. /\ todo \in Seq(S)
          /\ Len(todo) = IF 1 <= b - 1 THEN (b - 1) - 1 + 1 ELSE 0
          /\ \A i \in 1..((b - 1) - 1 + 1) : todo[i] = labels[1 + i - 1]
      BY <2>2, <3>1, SubSeqProperties DEF S
    <3>3. \A i \in 1..(b - 1) : 1 + i - 1 = i
      BY <2>3
    <3>4. (b - 1) - 1 + 1 = b - 1 /\ (1 <= b - 1 \/ b - 1 = 0)
      BY <2>3
    <3> QED BY <3>2, <3>3, <3>4
  <2>5. \A i \in 1..(b - 1) : i \in DOMAIN labels /\ ~(b <= i)
    BY <1>0, <2>3
  <2>6. \A i \in 1..(b - 1) : CanBeStyled(e, labels[i])
    BY <2>1, <2>5 DEF bad
  <2> QED BY <2>4, <2>6, LenProperties DEF todo
<1> QED BY <1>1, <1>2

(* So a call styles the labels up to the first that cannot be and no other. *)
LEMMA Restyled ==
  ASSUME NEW e, EditorOK(e), NEW partial \in Changes, NEW labels, labels \in Seq(Range(labels))
  PROVE  RestyledAll(e, Restyle(e, labels, partial), Range(Styleable(e, labels)), partial)
<1> DEFINE todo == Styleable(e, labels)
           k == Len(todo)
           after == CHOOSE after : after = [n \in 0..k |-> IF n = 0 THEN e
                                              ELSE updateAttrStyle(after[n - 1], todo[n], partial)]
<1>1. Restyle(e, labels, partial) = after[k]
  BY DEF Restyle
<1>2. k \in Nat /\ DOMAIN todo = 1..k /\ \A n \in 1..k : CanBeStyled(e, todo[n])
  BY StyleableLabels
<1> HIDE DEF todo, k
<1>3. Restyles(after, e, todo, partial, k)
  <2>1. \E u : Restyles(u, e, todo, partial, k)
    BY <1>2, RestylesExist
  <2> QED BY <2>1 DEF Restyles
<1> HIDE DEF after
<1>4. RestyledAll(e, after[k], {todo[n] : n \in 1..k}, partial)
  BY <1>2, <1>3, ManyRestyled
<1>5. Range(todo) = {todo[n] : n \in 1..k}
  BY <1>2 DEF Range
<1> QED BY <1>1, <1>4, <1>5 DEF todo

(* What the lines show is what the editor's copies say.                    *)
LEMMA ShownIs ==
  ASSUME NEW e, EditorOK(e)
  PROVE  Shown(e.parsed) = [eid \in DOMAIN e.attrs |-> AsShown(e, eid)]
<1> DEFINE lines == e.parsed
<1>1. lines \in Seq(Range(lines)) /\ IsIndex(e.lineByEid, lines, "ATTR") /\ IsIndex(e.lineByFsId, lines, "FONTSTYLE")
  BY DEF EditorOK, Parsed, EditorIndexes
<1>2. LabelIds(lines) = DOMAIN e.attrs
  <2>1. \A i \in Known(lines, "ATTR") : lines[i].data.id \in DOMAIN e.attrs
    BY LabelsOfEditor
  <2>2. \A eid \in DOMAIN e.attrs : e.lineByEid[eid] \in Known(lines, "ATTR") /\ lines[e.lineByEid[eid]].data.id = eid
    BY LabelsOfEditor
  <2> QED BY <2>1, <2>2 DEF LabelIds
<1>3. ASSUME NEW eid \in DOMAIN e.attrs PROVE StyleShown(lines, eid) = AsShown(e, eid)
  <2> DEFINE style == lines[e.lineByEid[eid]].data.fontStyle
  <2>1. eid \in DOMAIN e.lineByEid /\ style = e.attrs[eid].fontStyle
    BY LabelsOfEditor
  <2>2. DOMAIN e.fontStyles = DOMAIN e.lineByFsId
    BY StylesOfEditor
  <2>3. \A id \in DOMAIN e.fontStyles : lines[e.lineByFsId[id]].data.style = e.fontStyles[id]
    BY StylesOfEditor
  <2>4. StyleShown(lines, eid) = IF style \in DOMAIN e.lineByFsId
                                 THEN <<lines[e.lineByFsId[style]].data.style>> ELSE None
    BY <1>1, <2>1, ShownByIndex, ZenonT(40)
  <2> QED BY <2>1, <2>2, <2>3, <2>4, ZenonT(40) DEF AsShown
<1> QED BY <1>2, <1>3 DEF Shown

(* Lines that are written and read again are the same lines. *)
LEMMA WrittenAndRead ==
  ASSUME NEW lines, Parsed(lines)
  PROVE  parseSource(serializeLines(lines), EsymSchemas) = lines
<1> DEFINE s == serializeLines(lines)
<1>1. DOMAIN s = DOMAIN lines /\ \A i \in DOMAIN lines : s[i] = lines[i].data
  BY DEF serializeLines
<1>2. parseSource(s, EsymSchemas) = [i \in DOMAIN s |-> [kind |-> Kind(s[i], EsymSchemas), data |-> s[i]]]
  BY DEF parseSource
<1> HIDE DEF s
<1>3. \A i \in DOMAIN lines : lines[i] = [kind |-> Kind(lines[i].data, EsymSchemas), data |-> lines[i].data]
  BY DEF Parsed
<1>4. lines = [i \in DOMAIN lines |-> lines[i]]
  <2>1. lines = [i \in 1..Len(lines) |-> lines[i]] /\ DOMAIN lines = 1..Len(lines)
    BY LenProperties DEF Parsed
  <2> QED BY <2>1
<1> QED BY <1>1, <1>2, <1>3, <1>4 DEF s

(* Lines that are read are parsed, and written they are the source. *)
LEMMA ReadAndParsed ==
  ASSUME NEW source, source \in Seq(Range(source))
  PROVE  LET lines == parseSource(source, EsymSchemas)
         IN Parsed(lines) /\ serializeLines(lines) = source
<1> DEFINE lines == parseSource(source, EsymSchemas)
<1>0. Len(source) \in Nat /\ DOMAIN source = 1..Len(source) /\ source = [i \in 1..Len(source) |-> source[i]]
  BY LenProperties
<1>1. /\ lines = [i \in DOMAIN source |-> lines[i]]
      /\ \A i \in DOMAIN source : lines[i] = [kind |-> Kind(source[i], EsymSchemas), data |-> source[i]]
  BY DEF parseSource
<1> HIDE DEF lines
<1>2. lines \in Seq(Range(lines)) /\ DOMAIN lines = DOMAIN source
  BY <1>0, <1>1, IsSequence
<1>3. \A i \in DOMAIN lines : lines[i] = [kind |-> Kind(lines[i].data, EsymSchemas), data |-> lines[i].data]
  BY <1>1, <1>2
<1>4. serializeLines(lines) = source
  BY <1>0, <1>1, <1>2 DEF serializeLines
<1> QED BY <1>2, <1>3, <1>4 DEF Parsed, lines

(* InOrder is a sequence of places of its set. *)
LEMMA Ordered ==
  ASSUME NEW lines, Len(lines) \in Nat, NEW S, S \subseteq 1..Len(lines)
  PROVE  /\ Len(InOrder(lines, S)) \in Nat /\ DOMAIN InOrder(lines, S) = 1..Len(InOrder(lines, S))
         /\ \A n \in DOMAIN InOrder(lines, S) : InOrder(lines, S)[n] \in S
<1> DEFINE order == InOrder(lines, S)
<1>1. order \in Seq(S)
  BY InOrderEnumerates DEF Enumerates
<1> HIDE DEF order
<1> QED BY <1>1, LenProperties, ElementOfSeq DEF order

(* load *)
LEMMA Loaded ==
  ASSUME NEW lines, Parsed(lines), LabelledData(lines)
  PROVE  EditorOK(indexAll(lines)) /\ indexAll(lines).parsed = lines
<1> DEFINE e == indexAll(lines)
           byEid == IndexOf(lines, "ATTR")
           byFsId == IndexOf(lines, "FONTSTYLE")
           order == InOrder(lines, Known(lines, "PIN"))
           pins == [n \in DOMAIN order |-> [id |-> lines[order[n]].data.id,
                                            NAME |-> LabelOf(lines, order[n], "NAME"),
                                            NUMBER |-> LabelOf(lines, order[n], "NUMBER")]]
<1>1. e = [parsed |-> lines, pins |-> pins,
           attrs |-> [eid \in DOMAIN byEid |-> lines[byEid[eid]].data],
           fontStyles |-> [id \in DOMAIN byFsId |-> lines[byFsId[id]].data.style],
           lineByEid |-> byEid, lineByFsId |-> byFsId]
  BY DEF indexAll
<1>2. Len(order) \in Nat /\ DOMAIN order = 1..Len(order)
  BY KnownPlaces, Ordered DEF Parsed
<1>3. Len(pins) \in Nat /\ DOMAIN pins = 1..Len(pins)
  <2>1. pins = [n \in 1..Len(order) |-> pins[n]]
    BY <1>2
  <2> HIDE DEF pins, order
  <2> QED BY <1>2, <2>1, IsSequence
<1>4. IsIndex(byEid, lines, "ATTR") /\ IsIndex(byFsId, lines, "FONTSTYLE")
  BY IndexOfIsIndex DEF Parsed
<1> HIDE DEF e, byEid, byFsId, order, pins
<1>5. EditorShape(e)
  BY <1>1, <1>3 DEF EditorShape
<1>6. EditorIndexes(e) /\ EditorCopies(e) /\ e.parsed = lines
  BY <1>1, <1>4 DEF EditorIndexes, EditorCopies
<1> QED BY <1>5, <1>6 DEF EditorOK, e

(* The labels of a call are a sequence. *)
LEMMA LabelsInOrder ==
  ASSUME NEW e, EditorOK(e), NEW pins, NEW key
  PROVE  Labels(e, pins, key) \in Seq(Range(Labels(e, pins, key)))
<1> DEFINE S == {n \in DOMAIN e.pins : e.pins[n].id \in pins /\ e.pins[n][key] # None}
           order == InOrder(e.pins, S)
           chosen == Filtered(e.pins, S)
           labels == Labels(e, pins, key)
<1>1. Len(order) \in Nat /\ DOMAIN order = 1..Len(order)
  BY Ordered DEF EditorOK, EditorShape
<1>2. DOMAIN chosen = DOMAIN order
  BY DEF Filtered
<1>3. labels = [n \in DOMAIN chosen |-> chosen[n][key][1]]
  BY DEF Labels
<1> HIDE DEF order, chosen, labels
<1>4. labels = [n \in 1..Len(order) |-> labels[n]]
  BY <1>1, <1>2, <1>3
<1>5. labels \in Seq(Range(labels))
  BY <1>1, <1>4, IsSequence
<1> QED BY <1>5 DEF labels

-----------------------------------------------------------------------------
SymbolInv ==
  /\ symbolFile \in Seq(Range(symbolFile))
  /\ isPipeFormatSource(symbolFile) \/ Labelled(symbolFile)
  /\ editor # None =>
       /\ editor = <<editor[1]>> /\ EditorOK(editor[1])
       /\ wanted = [eid \in DOMAIN editor[1].attrs |-> AsShown(editor[1], eid)]

(* The invariant is strong enough. *)
LEMMA SymbolShown ==
  SymbolInv => StylesAsAsked
<1> SUFFICES ASSUME SymbolInv, editor # None
             PROVE  Shown(parseSource(serializeLines(editor[1].parsed), EsymSchemas)) = wanted
  BY DEF StylesAsAsked
<1>1. EditorOK(editor[1]) /\ Parsed(editor[1].parsed)
  BY DEF SymbolInv, EditorOK
<1> QED BY <1>1, ShownIs, WrittenAndRead DEF SymbolInv

(* It holds before the file is loaded, *)
LEMMA EditorStarts == EditorInit => SymbolInv
BY SymbolFilesAssumption DEF EditorInit, SymbolInv

(* every operation of the editor keeps it, *)
LEMMA EditorKept ==
  ASSUME SymbolInv, EditorNext
  PROVE  SymbolInv'
<1>1. CASE LoadSymbol
  <2> DEFINE lines == parseSource(symbolFile, EsymSchemas)
             e == indexAll(lines)
  <2>1. editor' = <<e>> /\ wanted' = Shown(lines) /\ symbolFile' = symbolFile
    BY <1>1 DEF LoadSymbol
  <2>2. Parsed(lines) /\ LabelledData(lines)
    <3>1. Parsed(lines) /\ serializeLines(lines) = symbolFile
      BY ReadAndParsed DEF SymbolInv
    <3>2. Labelled(symbolFile)
      BY <1>1 DEF LoadSymbol, SymbolInv
    <3> HIDE DEF lines
    <3> QED BY <3>1, <3>2, LabelledAsWritten
  <2> HIDE DEF lines
  <2>3. EditorOK(e) /\ e.parsed = lines
    BY <2>2, Loaded
  <2> HIDE DEF e
  <2>4. wanted' = [eid \in DOMAIN e.attrs |-> AsShown(e, eid)]
    BY <2>1, <2>3, ShownIs
  <2>5. editor'[1] = e /\ editor' = <<editor'[1]>>
    BY <2>1
  <2> QED BY <2>1, <2>3, <2>4, <2>5 DEF SymbolInv
<1>2. ASSUME NEW key \in {"NAME", "NUMBER"}, NEW partial \in Changes, NEW pins, UpdateStyle(pins, key, partial)
      PROVE  SymbolInv'
  <2> DEFINE e == editor[1]
             labels == Labels(e, pins, key)
             styled == Range(Styleable(e, labels))
             r == Restyle(e, labels, partial)
  <2>1. /\ editor # None /\ editor' = <<r>> /\ symbolFile' = symbolFile
        /\ wanted' = [eid \in DOMAIN wanted |->
                        IF eid \in styled THEN <<mergeFontStyle(wanted[eid][1], partial)>> ELSE wanted[eid]]
    BY <1>2 DEF UpdateStyle
  <2>2. EditorOK(e) /\ wanted = [eid \in DOMAIN e.attrs |-> AsShown(e, eid)]
    BY <2>1 DEF SymbolInv
  <2> HIDE DEF e
  <2>3. labels \in Seq(Range(labels))
    BY <2>2, LabelsInOrder
  <2> HIDE DEF labels
  <2>4. RestyledAll(e, r, styled, partial)
    BY <2>2, <2>3, Restyled
  <2> HIDE DEF r, styled
  <2>5. /\ EditorOK(r) /\ DOMAIN r.attrs = DOMAIN e.attrs
        /\ \A x \in DOMAIN e.attrs :
             AsShown(r, x) = IF x \in styled THEN <<mergeFontStyle(AsShown(e, x)[1], partial)>> ELSE AsShown(e, x)
    BY <2>4 DEF RestyledAll
  <2>6. wanted' = [eid \in DOMAIN r.attrs |-> AsShown(r, eid)]
    <3>1. DOMAIN wanted = DOMAIN r.attrs /\ \A x \in DOMAIN r.attrs : wanted[x] = AsShown(e, x)
      BY <2>2, <2>5
    <3>2. \A x \in DOMAIN r.attrs : AsShown(r, x) = IF x \in styled THEN <<mergeFontStyle(wanted[x][1], partial)>> ELSE wanted[x]
      BY <2>5, <3>1
    <3>3. wanted' = [x \in DOMAIN r.attrs |-> IF x \in styled THEN <<mergeFontStyle(wanted[x][1], partial)>> ELSE wanted[x]]
      BY <2>1, <3>1
    <3> QED BY <3>2, <3>3
  <2>7. editor'[1] = r /\ editor' = <<editor'[1]>>
    BY <2>1
  <2> QED BY <2>1, <2>5, <2>6, <2>7 DEF SymbolInv
<1>3. CASE SaveSymbol
  <2> DEFINE lines == editor[1].parsed
  <2>1. /\ symbolFile' = serializeLines(lines) /\ editor # None
        /\ editor' = editor /\ wanted' = wanted
    BY <1>3 DEF SaveSymbol, editorVars
  <2>2. Parsed(lines) /\ LabelledData(lines)
    BY <2>1 DEF SymbolInv, EditorOK
  <2> HIDE DEF lines
  <2>3. Labelled(symbolFile')
    BY <2>1, <2>2, LabelledAsWritten
  <2>4. symbolFile' \in Seq(Range(symbolFile'))
    <3>1. Len(lines) \in Nat /\ DOMAIN lines = 1..Len(lines)
      BY <2>2, LenProperties DEF Parsed
    <3>2. serializeLines(lines) = [i \in 1..Len(lines) |-> serializeLines(lines)[i]]
      BY <3>1 DEF serializeLines
    <3> QED BY <2>1, <3>1, <3>2, IsSequence
  <2> QED BY <2>1, <2>3, <2>4 DEF SymbolInv
<1> QED BY <1>1, <1>2, <1>3 DEF EditorNext

(* and so does everything that is none. *)
LEMMA EditorRests ==
  ASSUME SymbolInv, UNCHANGED editorVars
  PROVE  SymbolInv'
BY DEF SymbolInv, editorVars

-----------------------------------------------------------------------------
(* The schematic writer.  Its lines are taken as one page: the loaded ones *)
(* that are not removed and the appended ones (Whole, Kept), which is      *)
(* Consistent as a page on disk is.  serialize rearranges it, an addition  *)
(* extends it by a block of lines with names of their own, and a removal   *)
(* leaves a remainder.                                                     *)

-----------------------------------------------------------------------------
(* Consistent lines stay so when they are put in another order, as long as *)
(* those that are tuples keep theirs.                                      *)

Rearranges(src, new, newPlaces, old, places) ==
  /\ newPlaces \subseteq Int /\ places \subseteq Int
  /\ src \in [newPlaces -> places]
  /\ \A i, j \in newPlaces : src[i] = src[j] => i = j
  /\ \A k \in places : \E i \in newPlaces : src[i] = k
  /\ \A i \in newPlaces : new[i] = old[src[i]]
  /\ \A i, j \in newPlaces : i < j /\ new[i].text = "tuple" /\ new[j].text = "tuple" => src[i] < src[j]

(* A page whose lines move without passing each other stays consistent. *)
LEMMA RearrangedConsistent ==
  ASSUME NEW src, NEW new, NEW newPlaces, NEW old, NEW places,
         Rearranges(src, new, newPlaces, old, places), Consistent(old, places)
  PROVE  Consistent(new, newPlaces)
<1>0. \A i \in newPlaces : src[i] \in places /\ new[i] = old[src[i]]
  BY DEF Rearranges
<1>a. \A i, j \in newPlaces : src[i] = src[j] => i = j
  BY DEF Rearranges
<1>b. \A k \in places : \E i \in newPlaces : src[i] = k
  BY DEF Rearranges
<1>1. \A i \in newPlaces : Formed(new[i])
  BY <1>0 DEF Consistent
<1>2. NamedOnce(new, newPlaces)
  <2>1. NamedOnce(old, places)
    BY DEF Consistent
  <2> SUFFICES ASSUME NEW i \in newPlaces, NEW j \in newPlaces,
                      Identified(new[i]), Identified(new[j]), new[i].id = new[j].id
               PROVE  i = j
    BY DEF NamedOnce
  <2>2. src[i] = src[j]
    BY <2>1, <1>0 DEF NamedOnce
  <2> QED BY <2>2, <1>a
<1>3. OneHead(new, newPlaces)
  <2>1. PICK k \in places : \A j \in places : IsTuple(old[j], "HEAD") <=> j = k
    BY DEF Consistent, OneHead
  <2>2. PICK h \in newPlaces : src[h] = k
    BY <1>b
  <2>3. \A j \in newPlaces : src[j] = k <=> j = h
    BY <2>2, <1>a
  <2>4. \A j \in newPlaces : IsTuple(new[j], "HEAD") <=> j = h
    BY <2>1, <2>3, <1>0
  <2> QED BY <2>4 DEF OneHead
<1>4. Owned(new, newPlaces)
  <2>1. Owned(old, places)
    BY DEF Consistent
  <2> SUFFICES ASSUME NEW j \in newPlaces, IsTuple(new[j], "ATTR")
               PROVE  \E c \in newPlaces : IsElement(new[c]) /\ new[c].id = new[j].parent
    BY DEF Owned
  <2>2. PICK k \in places : IsElement(old[k]) /\ old[k].id = new[j].parent
    BY <1>0, <2>1 DEF Owned
  <2>3. PICK c \in newPlaces : src[c] = k
    BY <1>b
  <2> QED BY <2>2, <2>3, <1>0
<1>5. OneUniqueId(new, newPlaces)
  <2>0. OneUniqueId(old, places)
    BY DEF Consistent
  <2> SUFFICES ASSUME NEW j \in newPlaces, Says(new[j], "UniqueID")
               PROVE  /\ OfComponent(new, newPlaces, j)
                      /\ \A k \in newPlaces : Says(new[k], "UniqueID") /\ Alike(new[k], new[j]) => k = j
    BY DEF OneUniqueId
  <2>1. src[j] \in places /\ Says(old[src[j]], "UniqueID") /\ new[j] = old[src[j]]
    BY <1>0
  <2>2. PICK k \in places : k < src[j] /\ IsTuple(old[k], "COMPONENT") /\ old[k].id = new[j].parent
    <3>1. OfComponent(old, places, src[j])
      BY <2>0, <2>1 DEF OneUniqueId
    <3> QED BY <3>1, <2>1 DEF OfComponent
  <2>3. PICK c \in newPlaces : src[c] = k
    BY <1>b
  <2>4. IsTuple(new[c], "COMPONENT") /\ new[c].id = new[j].parent
    BY <2>2, <2>3, <1>0
  <2>5. new[c].text = "tuple" /\ new[j].text = "tuple"
    BY <2>4 DEF IsTuple, Says
  <2>6. ~(j < c) /\ j # c
    <3>1. j < c => src[j] < src[c]
      BY <2>5 DEF Rearranges
    <3>2. src[j] \in Int /\ k \in Int
      BY <1>0 DEF Rearranges
    <3>3. k < src[j]
      BY <2>2
    <3>4. src[c] = k
      BY <2>3
    <3>5. c \in Int /\ j \in Int
      BY DEF Rearranges
    <3> QED BY <3>1, <3>2, <3>3, <3>4, <3>5
  <2>7. c < j
    <3>1. newPlaces \subseteq Int
      BY DEF Rearranges
    <3>2. c \in Int /\ j \in Int
      BY <3>1
    <3> QED BY <3>2, <2>6
  <2>8. ASSUME NEW i \in newPlaces, Says(new[i], "UniqueID"), Alike(new[i], new[j])
        PROVE  i = j
    <3>1. src[i] \in places /\ Says(old[src[i]], "UniqueID") /\ new[i] = old[src[i]]
      BY <1>0, <2>8
    <3>2. src[i] = src[j]
      BY <3>1, <2>0, <2>1, <2>8 DEF OneUniqueId
    <3> QED BY <3>2, <1>a
  <2> QED BY <2>4, <2>7, <2>8 DEF OfComponent
<1> QED BY <1>1, <1>2, <1>3, <1>4, <1>5 DEF Consistent

(* Without an element, and with it all that belongs to it, they stay so.    *)
Hit(line, ids) == \E id \in ids : Names(line, id)

(* What a line of a page is called by: an element by its own id, an attribute
   by its owner's too, and HEAD by nothing. *)
LEMMA ElementNamesItself ==
  ASSUME NEW line, Formed(line), NEW ids
  PROVE  /\ IsElement(line) => (Hit(line, ids) <=> line.id \in ids)
         /\ IsElement(line) => Identified(line)
         /\ IsTuple(line, "ATTR") => (Hit(line, ids) <=> line.id \in ids \/ line.parent \in ids)
         /\ IsTuple(line, "ATTR") => Identified(line)
         /\ IsTuple(line, "HEAD") => ~Hit(line, ids) /\ ~Identified(line)
<1>1. ASSUME IsTuple(line, "COMPONENT")
      PROVE  (Hit(line, ids) <=> line.id \in ids) /\ Identified(line)
  <2>1. line = makeComponentLine(line.id, line.part, line.at, line.rotation, line.flip)
    BY <1>1 DEF Formed
  <2>2. DOMAIN line = {"text", "tag", "id", "part", "at", "rotation", "flip"}
    BY <2>1 DEF makeComponentLine
  <2>3. line.text = "tuple"
    BY <1>1 DEF IsTuple
  <2>4. "id" \in DOMAIN line /\ "parent" \notin DOMAIN line
    BY <2>2
  <2> QED BY <2>3, <2>4 DEF Hit, Names, Identified
<1>2. ASSUME IsTuple(line, "WIRE")
      PROVE  (Hit(line, ids) <=> line.id \in ids) /\ Identified(line)
  <2>1. line = makeWireLine(line.id, line.segments)
    BY <1>2 DEF Formed
  <2>2. DOMAIN line = {"text", "tag", "id", "segments"}
    BY <2>1 DEF makeWireLine
  <2>3. line.text = "tuple"
    BY <1>2 DEF IsTuple
  <2>4. "id" \in DOMAIN line /\ "parent" \notin DOMAIN line
    BY <2>2
  <2> QED BY <2>3, <2>4 DEF Hit, Names, Identified
<1>3. ASSUME IsTuple(line, "ATTR")
      PROVE  (Hit(line, ids) <=> line.id \in ids \/ line.parent \in ids) /\ Identified(line)
  <2>1. line = makeAttrLine(line.id, line.parent, line.key, line.value)
    BY <1>3 DEF Formed
  <2>2. DOMAIN line = {"text", "tag", "id", "parent", "key", "value"}
    BY <2>1 DEF makeAttrLine
  <2>3. line.text = "tuple"
    BY <1>3 DEF IsTuple
  <2>4. "id" \in DOMAIN line /\ "parent" \in DOMAIN line
    BY <2>2
  <2> QED BY <2>3, <2>4 DEF Hit, Names, Identified
<1>4. ASSUME IsTuple(line, "HEAD")
      PROVE  ~Hit(line, ids) /\ ~Identified(line)
  <2>1. line = HeadLine(line.maxId)
    BY <1>4 DEF Formed
  <2>2. DOMAIN line = {"text", "tag", "maxId"}
    BY <2>1 DEF HeadLine
  <2>3. "id" \notin DOMAIN line /\ "parent" \notin DOMAIN line
    BY <2>2
  <2> QED BY <2>3 DEF Hit, Names, Identified
<1> QED BY <1>1, <1>2, <1>3, <1>4 DEF IsElement

(* Without the lines that some ids name, the rest stays consistent: attributes
   go with their owners. *)
LEMMA RemainderConsistent ==
  ASSUME NEW lines, NEW places, Consistent(lines, places), NEW ids, NEW rest \in SUBSET places,
         \A i \in places : i \notin rest => Hit(lines[i], ids),
         \A i \in places : IsElement(lines[i]) \/ IsTuple(lines[i], "ATTR") =>
                             (i \in rest <=> ~Hit(lines[i], ids))
  PROVE  Consistent(lines, rest)
<1>0. \A i \in places : Formed(lines[i])
  BY DEF Consistent
<1>1. \A i \in rest : Formed(lines[i])
  BY <1>0
<1>2. NamedOnce(lines, rest)
  BY DEF Consistent, NamedOnce
<1>3. OneHead(lines, rest)
  <2>1. PICK h \in places : \A j \in places : IsTuple(lines[j], "HEAD") <=> j = h
    BY DEF Consistent, OneHead
  <2>2. h \in rest
    BY <2>1, <1>0, ElementNamesItself
  <2> QED BY <2>1, <2>2 DEF OneHead
<1>4. ASSUME NEW j \in rest, IsTuple(lines[j], "ATTR"), NEW c \in places,
             IsElement(lines[c]), lines[c].id = lines[j].parent
      PROVE  c \in rest
  <2>1. ~Hit(lines[j], ids)
    BY <1>4
  <2>2. lines[j].parent \notin ids
    BY <2>1, <1>0, <1>4, ElementNamesItself
  <2>3. ~Hit(lines[c], ids)
    BY <2>2, <1>0, <1>4, ElementNamesItself
  <2> QED BY <2>3, <1>4
<1>5. Owned(lines, rest)
  <2>1. Owned(lines, places)
    BY DEF Consistent
  <2> QED BY <1>4, <2>1 DEF Owned
<1>6. OneUniqueId(lines, rest)
  <2>0. OneUniqueId(lines, places)
    BY DEF Consistent
  <2> SUFFICES ASSUME NEW j \in rest, Says(lines[j], "UniqueID")
               PROVE  /\ OfComponent(lines, rest, j)
                      /\ \A k \in rest : Says(lines[k], "UniqueID") /\ Alike(lines[k], lines[j]) => k = j
    BY DEF OneUniqueId
  <2>1. PICK c \in places : c < j /\ IsTuple(lines[c], "COMPONENT") /\ lines[c].id = lines[j].parent
    BY <2>0 DEF OneUniqueId, OfComponent
  <2>2. IsElement(lines[c]) /\ IsTuple(lines[j], "ATTR")
    BY <2>1 DEF IsElement, Says
  <2>3. c \in rest
    BY <2>1, <2>2, <1>4
  <2> QED BY <2>0, <2>1, <2>3 DEF OneUniqueId, OfComponent
<1> QED BY <1>1, <1>2, <1>3, <1>5, <1>6 DEF Consistent

(* With a block of new lines behind them, whose ids, and whose Unique ID,   *)
(* nothing had before, they stay so.                                        *)
NewUniqueId(lines, k, gge) ==
  /\ lines[k].value = <<"gge", gge>>
  /\ \E c \in 1..(k - 1) : IsTuple(lines[c], "COMPONENT") /\ lines[c].id = lines[k].parent
  /\ \A j \in 1..Len(lines) : Says(lines[j], "UniqueID") => j = k

Block(lines, first, next, gge) ==
  /\ Len(lines) \in Nat
  /\ \A k \in 1..Len(lines) : /\ Formed(lines[k]) /\ Identified(lines[k]) /\ ~IsTuple(lines[k], "HEAD")
                              /\ first <= lines[k].id /\ lines[k].id < next
  /\ Owned(lines, 1..Len(lines))
  /\ \A k \in 1..Len(lines) : Says(lines[k], "UniqueID") => NewUniqueId(lines, k, gge)
  /\ NamedOnce(lines, 1..Len(lines))

(* Nothing at these places is named like what a block names. *)
Behind(lines, places, first, gge) ==
  \A i \in places : /\ Identified(lines[i]) => lines[i].id < first
                    /\ Says(lines[i], "UniqueID") => lines[i].value # <<"gge", gge>>

Continues(new, old, places, n, lines) ==
  /\ places \subseteq 1..n
  /\ \A i \in places : new[i] = old[i]
  /\ \A k \in 1..Len(lines) : new[n + k] = lines[k]

(* With a block of lines behind it, a page stays consistent. *)
LEMMA ExtensionConsistent ==
  ASSUME NEW old, NEW places, NEW n \in Nat, Consistent(old, places),
         NEW lines, NEW first \in Nat, NEW next \in Nat, NEW gge \in Nat, Block(lines, first, next, gge),
         NEW new, Continues(new, old, places, n, lines), Behind(old, places, first, gge)
  PROVE  Consistent(new, places \cup ((n + 1)..(n + Len(lines))))
<1> DEFINE added == (n + 1)..(n + Len(lines))
           all == places \cup added
<1>0. /\ Len(lines) \in Nat
      /\ \A j \in added : j - n \in 1..Len(lines) /\ new[j] = lines[j - n] /\ j \in Int
      /\ \A k \in 1..Len(lines) : n + k \in added /\ new[n + k] = lines[k]
      /\ \A j \in added : \A c \in 1..((j - n) - 1) : c \in 1..Len(lines) /\ n + c < j
      /\ \A i, j \in added : i - n = j - n => i = j
  <2>1. Len(lines) \in Nat
    BY DEF Block
  <2>2. \A j \in added : j - n \in 1..Len(lines) /\ n + (j - n) = j /\ j \in Int
    BY <2>1
  <2>3. \A k \in 1..Len(lines) : n + k \in added
    BY <2>1
  <2>4. \A k \in 1..Len(lines) : new[n + k] = lines[k]
    BY DEF Continues
  <2>6. \A j \in added : \A c \in 1..((j - n) - 1) : c \in 1..Len(lines) /\ n + c < j
    BY <2>1, <2>2
  <2>7. \A i, j \in added : i - n = j - n => i = j
    BY <2>1
  <2> HIDE DEF added
  <2>5. \A j \in added : new[j] = lines[j - n]
    BY <2>2, <2>4
  <2> QED BY <2>1, <2>2, <2>3, <2>4, <2>5, <2>6, <2>7
<1>a. \A i \in places : i \in Int /\ i <= n /\ new[i] = old[i] /\ i \in 1..n
  BY DEF Continues
<1>b. \A j \in added : j > n
  BY <1>0
<1> HIDE DEF added
<1>c. \A i \in places : /\ Formed(new[i])
                        /\ Identified(new[i]) => new[i].id < first
  BY <1>a DEF Consistent, Behind
<1>d. \A j \in added : /\ Formed(new[j]) /\ Identified(new[j]) /\ ~IsTuple(new[j], "HEAD")
                       /\ first <= new[j].id
  BY <1>0 DEF Block
<1>e. \A i \in all : Identified(new[i]) => new[i].id \in Nat
  BY <1>c, <1>d DEF Formed
<1>1. \A i \in all : Formed(new[i])
  BY <1>c, <1>d
<1>2. NamedOnce(new, all)
  <2>a. NamedOnce(old, places) /\ NamedOnce(lines, 1..Len(lines))
    BY DEF Consistent, Block
  <2> SUFFICES ASSUME NEW i \in all, NEW j \in all,
                      Identified(new[i]), Identified(new[j]), new[i].id = new[j].id
               PROVE  i = j
    BY DEF NamedOnce
  <2>1. CASE i \in places /\ j \in places
    BY <2>1, <2>a, <1>a DEF NamedOnce
  <2>2. CASE i \in added /\ j \in added
    <3>1. i - n = j - n
      <4>1. /\ i - n \in 1..Len(lines) /\ j - n \in 1..Len(lines)
            /\ new[i] = lines[i - n] /\ new[j] = lines[j - n]
        BY <2>2, <1>0
      <4> QED BY <4>1, <2>a DEF NamedOnce
    <3> QED BY <3>1, <2>2, <1>0
  <2>3. CASE i \in places /\ j \in added
    BY <2>3, <1>c, <1>d, <1>e
  <2>4. CASE i \in added /\ j \in places
    BY <2>4, <1>c, <1>d, <1>e
  <2> QED BY <2>1, <2>2, <2>3, <2>4
<1>3. OneHead(new, all)
  <2>1. PICK h \in places : \A j \in places : IsTuple(old[j], "HEAD") <=> j = h
    BY DEF Consistent, OneHead
  <2>2. \A j \in added : j # h
    BY <1>a, <1>b
  <2>3. \A j \in all : IsTuple(new[j], "HEAD") <=> j = h
    BY <2>1, <2>2, <1>a, <1>d
  <2> QED BY <2>1, <2>3 DEF OneHead
<1>4. Owned(new, all)
  <2>a. Owned(old, places) /\ Owned(lines, 1..Len(lines))
    BY DEF Consistent, Block
  <2> SUFFICES ASSUME NEW j \in all, IsTuple(new[j], "ATTR")
               PROVE  \E c \in all : IsElement(new[c]) /\ new[c].id = new[j].parent
    BY DEF Owned
  <2>1. CASE j \in places
    BY <2>1, <2>a, <1>a DEF Owned
  <2>2. CASE j \in added
    <3>1. PICK c \in 1..Len(lines) : IsElement(lines[c]) /\ lines[c].id = new[j].parent
      <4>1. j - n \in 1..Len(lines) /\ new[j] = lines[j - n]
        BY <2>2, <1>0
      <4> QED BY <4>1, <2>a DEF Owned
    <3> QED BY <3>1, <1>0
  <2> QED BY <2>1, <2>2
<1>5. OneUniqueId(new, all)
  <2>0. \A i \in all : Says(new[i], "UniqueID") => IsTuple(new[i], "ATTR")
    BY DEF Says
  <2>9. OneUniqueId(old, places) /\ Owned(old, places)
    BY DEF Consistent
  <2>a. \A i \in places : Says(new[i], "UniqueID") =>
          new[i].parent < first /\ new[i].parent \in Nat /\ new[i].value # <<"gge", gge>>
    <3> TAKE i \in places
    <3> HAVE Says(new[i], "UniqueID")
    <3>1. new[i].value # <<"gge", gge>>
      BY <1>a DEF Behind
    <3>3. PICK c \in places : IsElement(old[c]) /\ old[c].id = new[i].parent
      BY <2>0, <2>9, <1>a DEF Owned
    <3>4. Formed(new[c]) /\ new[c] = old[c]
      BY <1>a, <1>c
    <3>5. Identified(new[c])
      BY <3>3, <3>4, ElementNamesItself
    <3> QED BY <3>1, <3>3, <3>4, <3>5, <1>c, <1>e
  <2>c. \A i \in added : Says(new[i], "UniqueID") => NewUniqueId(lines, i - n, gge) /\ Says(lines[i - n], "UniqueID")
    BY <1>0 DEF Block
  <2>b. \A i \in added : Says(new[i], "UniqueID") =>
          new[i].value = <<"gge", gge>> /\ first <= new[i].parent /\ new[i].parent \in Nat
    <3> TAKE i \in added
    <3> HAVE Says(new[i], "UniqueID")
    <3>1. NewUniqueId(lines, i - n, gge) /\ new[i] = lines[i - n]
      BY <2>c, <1>0
    <3>3. PICK c \in 1..((i - n) - 1) : IsTuple(lines[c], "COMPONENT") /\ lines[c].id = new[i].parent
      BY <3>1 DEF NewUniqueId
    <3>4. c \in 1..Len(lines)
      BY <1>0
    <3>5. Formed(lines[c]) /\ first <= lines[c].id /\ Identified(lines[c])
      BY <3>4 DEF Block
    <3>6. lines[c].id \in Nat
      BY <3>5 DEF Formed
    <3>7. new[i].value = <<"gge", gge>>
      BY <2>c, <1>0 DEF NewUniqueId
    <3> QED BY <3>3, <3>5, <3>6, <3>7
  <2> SUFFICES ASSUME NEW j \in all, Says(new[j], "UniqueID")
               PROVE  /\ OfComponent(new, all, j)
                      /\ \A k \in all : Says(new[k], "UniqueID") /\ Alike(new[k], new[j]) => k = j
    BY DEF OneUniqueId
  <2>1. OfComponent(new, all, j)
    <3>1. CASE j \in places
      <4>1. PICK c \in places : c < j /\ IsTuple(old[c], "COMPONENT") /\ old[c].id = old[j].parent
        BY <3>1, <2>9, <1>a DEF OneUniqueId, OfComponent
      <4> QED BY <4>1, <3>1, <1>a DEF OfComponent
    <3>2. CASE j \in added
      <4>0. NewUniqueId(lines, j - n, gge) /\ new[j] = lines[j - n]
        BY <3>2, <2>c, <1>0
      <4>1. PICK c \in 1..((j - n) - 1) : IsTuple(lines[c], "COMPONENT") /\ lines[c].id = new[j].parent
        BY <4>0 DEF NewUniqueId
      <4>2. c \in 1..Len(lines) /\ n + c < j
        BY <3>2, <1>0
      <4> QED BY <4>1, <4>2, <1>0 DEF OfComponent
    <3> QED BY <3>1, <3>2
  <2>2. ASSUME NEW k \in all, Says(new[k], "UniqueID"), Alike(new[k], new[j])
        PROVE  k = j
    <3>1. CASE j \in places /\ k \in places
      <4>1. Says(old[k], "UniqueID") /\ Says(old[j], "UniqueID") /\ Alike(old[k], old[j])
        BY <3>1, <2>2, <1>a
      <4> QED BY <4>1, <3>1, <2>9 DEF OneUniqueId
    <3>2. CASE j \in added /\ k \in added
      <4>1. k - n = j - n
        <5>1. Says(lines[k - n], "UniqueID") /\ NewUniqueId(lines, j - n, gge)
          BY <3>2, <2>2, <2>c
        <5> QED BY <5>1, <3>2, <1>0 DEF NewUniqueId
      <4> QED BY <4>1, <3>2, <1>0
    <3>3. CASE j \in places /\ k \in added
      BY <3>3, <2>2, <2>a, <2>b DEF Alike
    <3>4. CASE j \in added /\ k \in places
      BY <3>4, <2>2, <2>a, <2>b DEF Alike
    <3> QED BY <3>1, <3>2, <3>3, <3>4
  <2> QED BY <2>1, <2>2
<1> HIDE DEF all
<1>6. Consistent(new, all)
  BY <1>1, <1>2, <1>3, <1>4, <1>5 DEF Consistent
<1> QED BY <1>6 DEF all, added

(* What serialize splices together, place by place. *)
LEMMA Spliced ==
  ASSUME NEW S, NEW keep \in Seq(S), NEW app \in Seq(S), NEW cut \in 0..Len(keep)
  PROVE  LET new == SubSeq(keep, 1, cut) \o app \o SubSeq(keep, cut + 1, Len(keep))
         IN /\ new \in Seq(S) /\ Len(new) = Len(keep) + Len(app)
            /\ \A i \in 1..Len(new) : new[i] = IF i <= cut THEN keep[i]
                                               ELSE IF i <= cut + Len(app) THEN app[i - cut] ELSE keep[i - Len(app)]
<1> DEFINE front == SubSeq(keep, 1, cut)
           back == SubSeq(keep, cut + 1, Len(keep))
           both == front \o app
           new == both \o back
<1>1. /\ Len(keep) \in Nat /\ Len(app) \in Nat /\ cut \in Nat /\ cut <= Len(keep)
      /\ \A i \in 1..Len(keep) : keep[i] \in S
  BY LenProperties, ElementOfSeq
<1>2. front \in Seq(S) /\ Len(front) = cut /\ \A i \in 1..cut : front[i] = keep[i]
  <2>1. \A i \in 1..cut : keep[i] \in S
    BY <1>1
  <2>2. /\ front \in Seq(S) /\ Len(front) = IF 1 <= cut THEN cut - 1 + 1 ELSE 0
        /\ \A i \in 1..(cut - 1 + 1) : front[i] = keep[1 + i - 1]
    BY <1>1, <2>1, SubSeqProperties
  <2> HIDE DEF front
  <2>3. cut - 1 + 1 = cut /\ \A i \in 1..cut : 1 + i - 1 = i
    BY <1>1
  <2>4. Len(front) = cut
    BY <2>2, <2>3, <1>1
  <2> QED BY <2>2, <2>3, <2>4
<1>3. back \in Seq(S) /\ Len(back) = Len(keep) - cut /\ \A i \in 1..(Len(keep) - cut) : back[i] = keep[cut + i]
  <2>1. \A i \in (cut + 1)..Len(keep) : keep[i] \in S
    BY <1>1
  <2>2. /\ back \in Seq(S) /\ Len(back) = IF cut + 1 <= Len(keep) THEN Len(keep) - (cut + 1) + 1 ELSE 0
        /\ \A i \in 1..(Len(keep) - (cut + 1) + 1) : back[i] = keep[cut + 1 + i - 1]
    BY <1>1, <2>1, SubSeqProperties
  <2> HIDE DEF back
  <2>3. Len(keep) - (cut + 1) + 1 = Len(keep) - cut /\ \A i \in 1..(Len(keep) - cut) : cut + 1 + i - 1 = cut + i
    BY <1>1
  <2>4. Len(back) = Len(keep) - cut
    BY <2>2, <2>3, <1>1
  <2> QED BY <2>2, <2>3, <2>4, ZenonT(40)
<1> HIDE DEF front, back
<1>4. /\ both \in Seq(S) /\ Len(both) = cut + Len(app)
      /\ \A i \in 1..(cut + Len(app)) : both[i] = IF i <= cut THEN front[i] ELSE app[i - cut]
  BY <1>2, ConcatProperties
<1> HIDE DEF both
<1>a. /\ new \in Seq(S) /\ Len(new) = Len(both) + Len(back)
      /\ \A i \in 1..(Len(both) + Len(back)) : new[i] = IF i <= Len(both) THEN both[i] ELSE back[i - Len(both)]
  BY <1>3, <1>4, ConcatProperties
<1> HIDE DEF new
<1>5. /\ new \in Seq(S) /\ Len(new) = cut + Len(app) + (Len(keep) - cut)
      /\ \A i \in 1..(cut + Len(app) + (Len(keep) - cut)) :
            new[i] = IF i <= cut + Len(app) THEN both[i] ELSE back[i - (cut + Len(app))]
  <2> DEFINE x == Len(both)  y == Len(back)
  <2>1. x = cut + Len(app) /\ y = Len(keep) - cut
    BY <1>3, <1>4
  <2>2. /\ new \in Seq(S) /\ Len(new) = x + y
        /\ \A i \in 1..(x + y) : new[i] = IF i <= x THEN both[i] ELSE back[i - x]
    BY <1>a
  <2> HIDE DEF x, y
  <2> QED BY <2>1, <2>2
<1>6. Len(new) = Len(keep) + Len(app)
  BY <1>1, <1>5
<1>7. ASSUME NEW i \in 1..Len(new)
      PROVE  new[i] = IF i <= cut THEN keep[i]
                      ELSE IF i <= cut + Len(app) THEN app[i - cut] ELSE keep[i - Len(app)]
  <2>0. i \in 1..(cut + Len(app) + (Len(keep) - cut)) /\ i \in Nat
    BY <1>1, <1>5
  <2>1. CASE i <= cut
    <3>1. i <= cut + Len(app) /\ i \in 1..(cut + Len(app)) /\ i \in 1..cut
      BY <2>0, <2>1, <1>1
    <3> QED BY <3>1, <2>0, <2>1, <1>2, <1>4, <1>5
  <2>2. CASE ~(i <= cut) /\ i <= cut + Len(app)
    <3>1. i \in 1..(cut + Len(app))
      BY <2>0, <2>2, <1>1
    <3> QED BY <3>1, <2>0, <2>2, <1>4, <1>5
  <2>3. CASE ~(i <= cut + Len(app))
    <3>1. ~(i <= cut) /\ i - (cut + Len(app)) \in 1..(Len(keep) - cut) /\ cut + (i - (cut + Len(app))) = i - Len(app)
      BY <2>0, <2>3, <1>1
    <3> QED BY <3>1, <2>0, <2>3, <1>3, <1>5
  <2> QED BY <2>1, <2>2, <2>3
<1>8. /\ new \in Seq(S) /\ Len(new) = Len(keep) + Len(app)
      /\ \A i \in 1..Len(new) : new[i] = IF i <= cut THEN keep[i]
                                         ELSE IF i <= cut + Len(app) THEN app[i - cut] ELSE keep[i - Len(app)]
  BY <1>5, <1>6, <1>7
<1> QED BY <1>8 DEF new, both, front, back

(* The same of a sequence that is given by a name. *)
SplicedAs(new, keep, app, cut) ==
  /\ Len(new) = Len(keep) + Len(app)
  /\ \A i \in 1..Len(new) : new[i] = IF i <= cut THEN keep[i]
                                     ELSE IF i <= cut + Len(app) THEN app[i - cut] ELSE keep[i - Len(app)]

(* So whatever is spliced like that is theirs, place by place. *)
LEMMA SplicedIs ==
  ASSUME NEW S, NEW keep \in Seq(S), NEW app \in Seq(S), NEW cut \in 0..Len(keep),
         NEW new, new = SubSeq(keep, 1, cut) \o app \o SubSeq(keep, cut + 1, Len(keep))
  PROVE  new \in Seq(S) /\ SplicedAs(new, keep, app, cut)
BY Spliced DEF SplicedAs

(* A page with another maxId in its HEAD stays consistent. *)
LEMMA HeadReplaced ==
  ASSUME NEW old, NEW places, Consistent(old, places), NEW maxId \in Nat,
         NEW new, \A i \in places : new[i] = IF IsTuple(old[i], "HEAD") THEN HeadLine(maxId) ELSE old[i]
  PROVE  /\ Consistent(new, places)
         /\ \A i \in places : /\ IsTuple(new[i], "HEAD") => new[i] = HeadLine(maxId) /\ IsTuple(old[i], "HEAD")
                              /\ Identified(new[i]) => new[i] = old[i]
                              /\ ~IsTuple(old[i], "HEAD") => new[i] = old[i]
                              /\ old[i].text = new[i].text
<1>0. /\ HeadLine(maxId).text = "tuple" /\ HeadLine(maxId).tag = "HEAD" /\ HeadLine(maxId).maxId = maxId
      /\ DOMAIN HeadLine(maxId) = {"text", "tag", "maxId"}
  BY DEF HeadLine
<1>a. /\ IsTuple(HeadLine(maxId), "HEAD") /\ ~Identified(HeadLine(maxId)) /\ ~IsElement(HeadLine(maxId))
      /\ ~IsTuple(HeadLine(maxId), "ATTR") /\ ~IsTuple(HeadLine(maxId), "COMPONENT") /\ ~IsTuple(HeadLine(maxId), "WIRE")
      /\ Formed(HeadLine(maxId))
  <2>1. /\ IsTuple(HeadLine(maxId), "HEAD") /\ ~Identified(HeadLine(maxId))
        /\ ~IsTuple(HeadLine(maxId), "ATTR") /\ ~IsTuple(HeadLine(maxId), "COMPONENT") /\ ~IsTuple(HeadLine(maxId), "WIRE")
    BY <1>0 DEF IsTuple, Identified
  <2> QED BY <2>1, <1>0 DEF IsElement, Formed, Says
<1>b. \A i \in places : Formed(old[i])
  BY DEF Consistent
<1>1. \A i \in places : /\ IsTuple(new[i], "HEAD") <=> IsTuple(old[i], "HEAD")
                        /\ IsTuple(new[i], "HEAD") => new[i] = HeadLine(maxId)
                        /\ ~IsTuple(old[i], "HEAD") => new[i] = old[i]
                        /\ old[i].text = new[i].text
  BY <1>0, <1>a DEF IsTuple
<1>2. \A i \in places : IsTuple(old[i], "HEAD") =>
         /\ ~Identified(old[i]) /\ ~IsElement(old[i])
         /\ ~IsTuple(old[i], "ATTR") /\ ~IsTuple(old[i], "COMPONENT")
  <2> TAKE i \in places
  <2> HAVE IsTuple(old[i], "HEAD")
  <2>1. ~Identified(old[i])
    BY <1>b, ElementNamesItself
  <2> QED BY <2>1 DEF IsTuple, IsElement
<1>3. \A i \in places : /\ Identified(new[i]) <=> Identified(old[i])
                        /\ IsElement(new[i]) <=> IsElement(old[i])
                        /\ IsTuple(new[i], "ATTR") <=> IsTuple(old[i], "ATTR")
                        /\ IsTuple(new[i], "COMPONENT") <=> IsTuple(old[i], "COMPONENT")
                        /\ Identified(new[i]) \/ IsElement(new[i]) \/ IsTuple(new[i], "ATTR") => new[i] = old[i]
  BY <1>1, <1>2, <1>a
<1>4. \A i \in places : Formed(new[i])
  BY <1>1, <1>a, <1>b
<1>5. NamedOnce(new, places)
  BY <1>3 DEF NamedOnce, Consistent
<1>6. OneHead(new, places)
  BY <1>1 DEF OneHead, Consistent
<1>7. Owned(new, places)
  BY <1>3 DEF Owned, Consistent
<1>8. OneUniqueId(new, places)
  <2>1. \A i \in places : /\ Says(new[i], "UniqueID") <=> Says(old[i], "UniqueID")
                          /\ Says(new[i], "UniqueID") => new[i] = old[i]
    BY <1>3 DEF Says
  <2>2. \A i \in places : IsTuple(new[i], "COMPONENT") => new[i] = old[i]
    BY <1>3 DEF IsElement
  <2>3. OneUniqueId(old, places)
    BY DEF Consistent
  <2> SUFFICES ASSUME NEW j \in places, Says(new[j], "UniqueID")
               PROVE  /\ OfComponent(new, places, j)
                      /\ \A k \in places : Says(new[k], "UniqueID") /\ Alike(new[k], new[j]) => k = j
    BY DEF OneUniqueId
  <2>4. OfComponent(old, places, j) /\ Says(old[j], "UniqueID") /\ new[j] = old[j]
    BY <2>1, <2>3 DEF OneUniqueId
  <2>5. OfComponent(new, places, j)
    BY <2>2, <2>4, <1>3 DEF OfComponent
  <2>6. \A k \in places : Says(new[k], "UniqueID") /\ Alike(new[k], new[j]) => k = j
    BY <2>1, <2>3, <2>4 DEF OneUniqueId
  <2> QED BY <2>5, <2>6
<1> QED BY <1>1, <1>3, <1>4, <1>5, <1>6, <1>7, <1>8 DEF Consistent

-----------------------------------------------------------------------------
(* The lines of a session are those of the page as it was loaded, behind   *)
(* them the appended ones, without those that are removed.                 *)
Whole(m, s) ==
  [i \in 1..(Len(m.lines) + Len(s.appended)) |->
     IF i <= Len(m.lines) THEN m.lines[i].data ELSE s.appended[i - Len(m.lines)]]
Kept(m, s) ==
  ((1..Len(m.lines)) \ s.removed) \cup ((Len(m.lines) + 1)..(Len(m.lines) + Len(s.appended)))

PinsOK(m) ==
  \A n \in DOMAIN m.components : LET pins == m.components[n].pins
    IN DOMAIN pins \subseteq Nat /\ \A k \in DOMAIN pins : pins[k].at \in Int \X Int /\ pins[k].angle \in RightAngles

ModelOK(m) ==
  /\ Len(m.lines) \in Nat /\ DOMAIN m.lines = 1..Len(m.lines)
  /\ \A i \in 1..Len(m.lines) : m.lines[i].kind = Kind(m.lines[i].data, EschSchemas)
  /\ DOMAIN m.components \subseteq Nat /\ PinsOK(m)

WriterShape(s) ==
  /\ s = [appended |-> s.appended, removed |-> s.removed, companions |-> s.companions,
          nextElementId |-> s.nextElementId, nextGgeId |-> s.nextGgeId, nextDesignatorNum |-> s.nextDesignatorNum]
  /\ s.appended \in Seq(Range(s.appended))
  /\ s.nextElementId \in Nat \ {0} /\ s.nextGgeId \in Nat

OneHeadOnly(m, s) ==
  /\ \A i \in 1..Len(m.lines) : i \in s.removed => ~IsTuple(m.lines[i].data, "HEAD")
  /\ \A k \in 1..Len(s.appended) : ~IsTuple(s.appended[k], "HEAD")

(* No line that is kept is named as something new will be. *)
IdsBehind(m, s) ==
  /\ \A i \in Kept(m, s) : Identified(Whole(m, s)[i]) => Whole(m, s)[i].id < s.nextElementId
  /\ \A i \in Kept(m, s), k \in Nat :
       Says(Whole(m, s)[i], "UniqueID") /\ Whole(m, s)[i].value = <<"gge", k>> => k < s.nextGgeId

LinesOK(m, s) ==
  /\ WriterShape(s) /\ OneHeadOnly(m, s)
  /\ Consistent(Whole(m, s), Kept(m, s)) /\ IdsBehind(m, s)

(* Loaded lines come first, appended ones behind them, *)
LEMMA WholeIs ==
  ASSUME NEW m, NEW s, Len(m.lines) \in Nat, Len(s.appended) \in Nat
  PROVE  /\ \A i \in 1..Len(m.lines) : Whole(m, s)[i] = m.lines[i].data
         /\ \A k \in 1..Len(s.appended) : Whole(m, s)[Len(m.lines) + k] = s.appended[k]
<1> DEFINE n == Len(m.lines)  a == Len(s.appended)  w == Whole(m, s)
<1>0. n \in Nat /\ a \in Nat
  OBVIOUS
<1>1. w = [i \in 1..(n + a) |-> IF i <= n THEN m.lines[i].data ELSE s.appended[i - n]]
  BY DEF Whole
<1> HIDE DEF w, n, a
<1>3. \A i \in 1..n : i \in 1..(n + a) /\ i <= n
  BY <1>0
<1>5. \A k \in 1..a : n + k \in 1..(n + a) /\ ~(n + k <= n) /\ (n + k) - n = k
  BY <1>0
<1>6. \A i \in 1..n : w[i] = m.lines[i].data
  BY <1>1, <1>3
<1>8. \A k \in 1..a : w[n + k] = s.appended[k]
  <2> TAKE k \in 1..a
  <2>1. n + k \in 1..(n + a) /\ ~(n + k <= n) /\ (n + k) - n = k
    BY <1>5
  <2>2. w[n + k] = s.appended[(n + k) - n]
    BY <2>1, <1>1
  <2> QED BY <2>1, <2>2
<1> QED BY <1>6, <1>8 DEF w, n, a

(* a loaded line is kept unless it was removed, *)
LEMMA KeptPlaces ==
  ASSUME NEW m, NEW s, Len(m.lines) \in Nat, Len(s.appended) \in Nat
  PROVE  /\ \A i \in Kept(m, s) : i \in 1..(Len(m.lines) + Len(s.appended)) /\ i \in Int
         /\ \A i \in 1..Len(m.lines) : i \in Kept(m, s) <=> i \notin s.removed
<1> DEFINE n == Len(m.lines)  a == Len(s.appended)
<1>0. n \in Nat /\ a \in Nat
  OBVIOUS
<1>2. Kept(m, s) = ((1..n) \ s.removed) \cup ((n + 1)..(n + a))
  BY DEF Kept
<1> HIDE DEF n, a
<1>3. \A i \in 1..n : i \in 1..(n + a) /\ i \in Int
  BY <1>0
<1>4. \A i \in (n + 1)..(n + a) : i \in 1..(n + a) /\ i - n \in 1..a /\ i \in Int /\ i \notin 1..n
  BY <1>0
<1>9. /\ \A i \in Kept(m, s) : i \in 1..(n + a) /\ i \in Int
      /\ \A i \in 1..n : i \in Kept(m, s) <=> i \notin s.removed
  BY <1>2, <1>3, <1>4
<1> QED BY <1>9 DEF n, a

(* and an appended one is always kept. *)
LEMMA KeptAppended ==
  ASSUME NEW m, NEW s, Len(m.lines) \in Nat, Len(s.appended) \in Nat
  PROVE  /\ \A k \in 1..Len(s.appended) : Len(m.lines) + k \in Kept(m, s)
         /\ \A i \in Kept(m, s) : i \notin 1..Len(m.lines) =>
               i - Len(m.lines) \in 1..Len(s.appended) /\ i = Len(m.lines) + (i - Len(m.lines))
<1> DEFINE n == Len(m.lines)  a == Len(s.appended)
<1>0. n \in Nat /\ a \in Nat
  OBVIOUS
<1>2. Kept(m, s) = ((1..n) \ s.removed) \cup ((n + 1)..(n + a))
  BY DEF Kept
<1> HIDE DEF n, a
<1>4. \A i \in (n + 1)..(n + a) : i \in 1..(n + a) /\ i - n \in 1..a /\ i = n + (i - n) /\ i \notin 1..n
  BY <1>0
<1>5. \A k \in 1..a : n + k \in (n + 1)..(n + a)
  BY <1>0
<1>9. /\ \A k \in 1..a : n + k \in Kept(m, s)
      /\ \A i \in Kept(m, s) : i \notin 1..n => i - n \in 1..a /\ i = n + (i - n)
  BY <1>2, <1>4, <1>5
<1> QED BY <1>9 DEF n, a

(* The one HEAD is a loaded line, and is never removed. *)
LEMMA OneKnownHead ==
  ASSUME NEW m, ModelOK(m), NEW s, LinesOK(m, s)
  PROVE  \E h \in 1..Len(m.lines) : /\ h \notin s.removed /\ IsTuple(m.lines[h].data, "HEAD")
                                    /\ Known(m.lines, "HEAD") = {h}
                                    /\ \A j \in 1..Len(m.lines) : IsTuple(m.lines[j].data, "HEAD") <=> j = h
<1> DEFINE n == Len(m.lines)  a == Len(s.appended)
<1>0. n \in Nat /\ a \in Nat
  BY LenProperties DEF ModelOK, LinesOK, WriterShape
<1>1. PICK h \in Kept(m, s) : \A j \in Kept(m, s) : IsTuple(Whole(m, s)[j], "HEAD") <=> j = h
  BY DEF LinesOK, Consistent, OneHead
<1>2. h \in 1..n
  <2> SUFFICES ASSUME h \notin 1..n PROVE FALSE
    OBVIOUS
  <2>1. h - n \in 1..a /\ h = n + (h - n)
    BY <1>0, KeptAppended
  <2>2. Whole(m, s)[n + (h - n)] = s.appended[h - n]
    BY <2>1, <1>0, WholeIs
  <2>3. ~IsTuple(s.appended[h - n], "HEAD")
    BY <2>1 DEF LinesOK, OneHeadOnly
  <2> QED BY <1>1, <2>1, <2>2, <2>3
<1>3. h \notin s.removed
  BY <1>0, <1>2, KeptPlaces
<1>4. \A j \in 1..n : IsTuple(m.lines[j].data, "HEAD") <=> j = h
  <2>1. \A j \in 1..n : j \notin s.removed => j \in Kept(m, s)
    BY <1>0, KeptPlaces
  <2>3. \A j \in 1..n : Whole(m, s)[j] = m.lines[j].data
    BY <1>0, WholeIs
  <2>2. \A j \in 1..n : j \in s.removed => ~IsTuple(m.lines[j].data, "HEAD")
    BY DEF LinesOK, OneHeadOnly
  <2> QED BY <2>1, <2>2, <2>3, <1>1, <1>2
<1>5. \A j \in 1..n : m.lines[j].kind = "known" /\ m.lines[j].data.tag = "HEAD" <=> j = h
  <2>1. \A j \in 1..n : m.lines[j].kind = "known" /\ m.lines[j].data.tag = "HEAD" <=> IsTuple(m.lines[j].data, "HEAD")
    BY DEF ModelOK, Kind, IsTuple, EschSchemas
  <2> QED BY <2>1, <1>4
<1>6. Known(m.lines, "HEAD") = {h}
  BY <1>2, <1>5 DEF Known, ModelOK
<1> QED BY <1>2, <1>3, <1>4, <1>6

(* A function over 1..k is a sequence. *)
LEMMA AsSequence ==
  ASSUME NEW S, NEW k \in Nat, NEW f \in [1..k -> S]
  PROVE  f \in Seq(S) /\ Len(f) = k /\ DOMAIN f = 1..k
OBVIOUS

(* The places of a page as it is written: the kept places in their order,  *)
(* and the a appended ones, which are behind n, between those up to cut    *)
(* and the rest.                                                           *)
Woven(order, n, a, cut) ==
  [i \in 1..(Len(order) + a) |-> IF i <= cut THEN order[i] ELSE IF i <= cut + a THEN n + (i - cut) ELSE order[i - a]]

(* Each kept place comes once, and only blank lines, which have no order,
   change their order. *)
LEMMA WovenPlaces ==
  ASSUME NEW n \in Nat, NEW a \in Nat, NEW S, S \subseteq 1..n, NEW order, Enumerates(order, S), NEW cut \in 0..Len(order)
  PROVE  LET src == Woven(order, n, a, cut)   k == Len(order) + a   all == S \cup ((n + 1)..(n + a))
         IN /\ src \in [1..k -> all]
            /\ \A i, j \in 1..k : src[i] = src[j] => i = j
            /\ \A x \in all : \E i \in 1..k : src[i] = x
            /\ \A i, j \in 1..k : i < j /\ ~(i > cut /\ j > cut + a) => src[i] < src[j]
            /\ \A i, j \in 1..k : i < j /\ i > cut + a => src[i] < src[j]
<1> DEFINE l == Len(order)  src == Woven(order, n, a, cut)  k == l + a  all == S \cup ((n + 1)..(n + a))
<1>0. l \in Nat /\ cut \in Nat /\ cut <= l
  BY LenProperties DEF Enumerates
<1>1. \A i \in 1..l : order[i] \in S /\ order[i] \in 1..n
  BY ElementOfSeq DEF Enumerates
<1>2. \A i, j \in 1..l : i < j => order[i] < order[j]
  BY DEF Enumerates
<1>3. \A x \in S : \E i \in 1..l : order[i] = x
  BY DEF Enumerates
<1>4. src = [i \in 1..k |-> IF i <= cut THEN order[i] ELSE IF i <= cut + a THEN n + (i - cut) ELSE order[i - a]]
  BY DEF Woven
<1> HIDE DEF src, l, k
<1>k. k = l + a /\ k \in Nat
  BY <1>0 DEF k
<1>5. \A i \in 1..k : i <= cut => src[i] = order[i] /\ i \in 1..l
  BY <1>4, <1>0, <1>k
<1>6. \A i \in 1..k : ~(i <= cut) /\ i <= cut + a => src[i] = n + (i - cut) /\ i - cut \in 1..a
  BY <1>4, <1>0, <1>k
<1>7. \A i \in 1..k : ~(i <= cut + a) => src[i] = order[i - a] /\ i - a \in 1..l /\ i - a > cut
  BY <1>4, <1>0, <1>k
<1>8. \A i \in 1..k : \/ i <= cut /\ src[i] \in S
                      \/ ~(i <= cut) /\ i <= cut + a /\ src[i] \in (n + 1)..(n + a)
                      \/ ~(i <= cut + a) /\ src[i] \in S
  <2> TAKE i \in 1..k
  <2>1. CASE i <= cut
    BY <2>1, <1>5, <1>1
  <2>2. CASE ~(i <= cut) /\ i <= cut + a
    <3>1. src[i] = n + (i - cut) /\ i - cut \in 1..a
      BY <2>2, <1>6
    <3>2. n + (i - cut) \in (n + 1)..(n + a)
      BY <3>1
    <3> QED BY <3>1, <3>2, <2>2
  <2>3. CASE ~(i <= cut + a)
    BY <2>3, <1>7, <1>1
  <2> QED BY <2>1, <2>2, <2>3
<1>9. src \in [1..k -> all]
  BY <1>4, <1>8
<1>10. \A x \in S : x \in Nat /\ x <= n
  OBVIOUS
<1>a. \A i \in 1..k : src[i] \in Nat
  <2>1. \A x \in (n + 1)..(n + a) : x \in Nat
    OBVIOUS
  <2> QED BY <2>1, <1>8, <1>10
<1>11. ASSUME NEW i \in 1..k, NEW j \in 1..k, i < j, ~(i > cut /\ j > cut + a) \/ i > cut + a
       PROVE  src[i] < src[j]
  <2>0. i \in Nat /\ j \in Nat
    BY <1>k
  <2>1. CASE i <= cut /\ j <= cut
    BY <2>1, <1>5, <1>2, <1>11
  <2>2. CASE i <= cut /\ ~(j <= cut) /\ j <= cut + a
    <3>1. src[i] \in Nat /\ src[i] <= n
      BY <2>2, <1>5, <1>1, <1>10
    <3>2. src[j] = n + (j - cut) /\ j - cut \in 1..a
      BY <2>2, <1>6
    <3> QED BY <3>1, <3>2
  <2>3. CASE i <= cut /\ ~(j <= cut + a)
    <3>1. src[i] = order[i] /\ i \in 1..l
      BY <2>3, <1>5
    <3>2. src[j] = order[j - a] /\ j - a \in 1..l /\ j - a > cut
      BY <2>3, <1>7
    <3>3. i < j - a
      BY <3>2, <2>3, <2>0, <1>0
    <3> QED BY <3>1, <3>2, <3>3, <1>2
  <2>4. CASE ~(i <= cut) /\ i <= cut + a /\ ~(j <= cut) /\ j <= cut + a
    <3>1. src[i] = n + (i - cut) /\ src[j] = n + (j - cut)
      BY <2>4, <1>6
    <3>2. n + (i - cut) < n + (j - cut)
      BY <1>11, <1>0, <2>0
    <3> QED BY <3>1, <3>2
  <2>5. CASE ~(i <= cut + a) /\ ~(j <= cut + a)
    <3>1. src[i] = order[i - a] /\ i - a \in 1..l
      BY <2>5, <1>7
    <3>2. src[j] = order[j - a] /\ j - a \in 1..l
      BY <2>5, <1>7
    <3>3. i - a < j - a
      BY <1>11, <2>0
    <3> QED BY <3>1, <3>2, <3>3, <1>2
  <2> QED BY <2>0, <2>1, <2>2, <2>3, <2>4, <2>5, <1>11, <1>0
<1>12. ASSUME NEW i \in 1..k, NEW j \in 1..k, i < j
       PROVE  src[i] # src[j]
  <2>0. i \in Nat /\ j \in Nat /\ src[i] \in Nat /\ src[j] \in Nat
    BY <1>k, <1>a
  <2>1. CASE ~(i > cut /\ j > cut + a) \/ i > cut + a
    BY <2>1, <2>0, <1>11, <1>12
  <2>2. CASE i > cut /\ j > cut + a /\ ~(i > cut + a)
    <3>1. src[i] = n + (i - cut) /\ i - cut \in 1..a
      BY <2>2, <2>0, <1>0, <1>6
    <3>2. src[j] <= n
      BY <2>2, <2>0, <1>0, <1>7, <1>1, <1>10
    <3> QED BY <3>1, <3>2, <2>0
  <2> QED BY <2>1, <2>2
<1>13. \A i, j \in 1..k : src[i] = src[j] => i = j
  <2> TAKE i \in 1..k, j \in 1..k
  <2>1. i \in Nat /\ j \in Nat
    BY <1>k
  <2> QED BY <2>1, <1>12
<1>14. \A x \in all : \E i \in 1..k : src[i] = x
  <2> TAKE x \in all
  <2>1. CASE x \in S
    <3>1. PICK y \in 1..l : order[y] = x
      BY <2>1, <1>3
    <3>2. CASE y <= cut
      BY <3>1, <3>2, <1>4, <1>0, <1>k
    <3>3. CASE ~(y <= cut)
      <4>1. y + a \in 1..k /\ ~(y + a <= cut + a) /\ (y + a) - a = y /\ ~(y + a <= cut)
        BY <3>3, <1>0, <1>k
      <4> QED BY <3>1, <4>1, <1>7
    <3> QED BY <3>2, <3>3
  <2>2. CASE x \in (n + 1)..(n + a)
    <3>1. cut + (x - n) \in 1..k /\ ~(cut + (x - n) <= cut) /\ cut + (x - n) <= cut + a /\ n + ((cut + (x - n)) - cut) = x
      BY <2>2, <1>0, <1>k
    <3> QED BY <3>1, <1>6
  <2> QED BY <2>1, <2>2
<1> QED BY <1>9, <1>11, <1>13, <1>14 DEF src, l, k

(* A line of the loaded page as it is written, and all lines so. *)
Written(s, i) ==
  IF Known(model.lines, "HEAD") # {} /\ i = Min(Known(model.lines, "HEAD"))
  THEN [model.lines[i].data EXCEPT !.maxId = s.nextElementId - 1]
  ELSE model.lines[i].data
ForWriting(s) ==
  [i \in 1..(Len(model.lines) + Len(s.appended)) |->
     IF i <= Len(model.lines) THEN Written(s, i) ELSE s.appended[i - Len(model.lines)]]

(* The loaded lines that are kept, as serialize writes them. *)
LEMMA WrittenLines ==
  ASSUME ModelOK(model), NEW s, LinesOK(model, s)
  PROVE  \A i \in Kept(model, s) :
           ForWriting(s)[i] = IF IsTuple(Whole(model, s)[i], "HEAD") THEN HeadLine(s.nextElementId - 1) ELSE Whole(model, s)[i]
<1> DEFINE n == Len(model.lines)  a == Len(s.appended)  w == Whole(model, s)  next == s.nextElementId
<1>0. n \in Nat /\ a \in Nat
  BY LenProperties DEF ModelOK, LinesOK, WriterShape
<1>1. PICK h \in 1..n : /\ h \notin s.removed /\ IsTuple(model.lines[h].data, "HEAD")
                        /\ Known(model.lines, "HEAD") = {h}
                        /\ \A j \in 1..n : IsTuple(model.lines[j].data, "HEAD") <=> j = h
  BY OneKnownHead
<1>2. Min({h}) = h
  BY MinOf
<1>3. \A i \in 1..n : Written(s, i) = IF i = h THEN [model.lines[h].data EXCEPT !.maxId = next - 1] ELSE model.lines[i].data
  BY <1>1, <1>2 DEF Written
<1>4. [model.lines[h].data EXCEPT !.maxId = next - 1] = HeadLine(next - 1)
  <2>a. w[h] = model.lines[h].data
    BY <1>0, WholeIs
  <2>b. h \in Kept(model, s)
    BY <1>0, <1>1, KeptPlaces
  <2>2. Formed(model.lines[h].data)
    BY <2>a, <2>b DEF LinesOK, Consistent
  <2>3. PICK x : model.lines[h].data = HeadLine(x)
    BY <1>1, <2>2 DEF Formed
  <2>4. [HeadLine(x) EXCEPT !.maxId = next - 1] = HeadLine(next - 1)
    BY DEF HeadLine
  <2> QED BY <2>3, <2>4
<1> SUFFICES ASSUME NEW i \in Kept(model, s)
             PROVE  ForWriting(s)[i] = IF IsTuple(w[i], "HEAD") THEN HeadLine(next - 1) ELSE w[i]
  OBVIOUS
<1>5. i \in 1..(n + a)
  BY <1>0, KeptPlaces
<1>6. ForWriting(s)[i] = IF i <= n THEN Written(s, i) ELSE s.appended[i - n]
  BY <1>5 DEF ForWriting
<1>7. CASE i \in 1..n
  <2>1. w[i] = model.lines[i].data
    <3>1. \A j \in 1..n : w[j] = model.lines[j].data
      BY <1>0, WholeIs
    <3> QED BY <3>1, <1>7
  <2>2. i <= n
    BY <1>7, <1>0
  <2> QED BY <2>1, <2>2, <1>1, <1>3, <1>4, <1>6, <1>7
<1>8. CASE i \notin 1..n
  <2>1. i - n \in 1..a /\ i = n + (i - n)
    BY <1>0, <1>8, KeptAppended
  <2>2. w[n + (i - n)] = s.appended[i - n]
    BY <1>0, <2>1, WholeIs
  <2>3. ~IsTuple(s.appended[i - n], "HEAD")
    BY <2>1 DEF LinesOK, OneHeadOnly
  <2>4. ~(i <= n)
    BY <1>0, <1>5, <1>8
  <2> QED BY <2>1, <2>2, <2>3, <2>4, <1>6
<1> QED BY <1>7, <1>8

(* What serialize writes is the session's lines, rearranged. *)
LEMMA PageRearranges ==
  ASSUME ModelOK(model), NEW s, LinesOK(model, s)
  PROVE  LET new == serialize(s)
         IN /\ new \in Seq(Range(new)) /\ DOMAIN new = 1..Len(new) /\ Len(new) \in Nat
            /\ \E src : Rearranges(src, new, 1..Len(new), ForWriting(s), Kept(model, s))
<1> DEFINE n == Len(model.lines)  a == Len(s.appended)
           rest == (DOMAIN model.lines) \ s.removed
           order == InOrder(model.lines, rest)
           keep == [i \in DOMAIN order |-> Written(s, order[i])]
           bodies == {i \in DOMAIN keep : keep[i].text # "blank"}
           cut == IF bodies = {} THEN 0 ELSE Max(bodies)
           new == SubSeq(keep, 1, cut) \o s.appended \o SubSeq(keep, cut + 1, Len(keep))
           S == Range(keep) \cup Range(s.appended)
           src == Woven(order, n, a, cut)
<1>0. /\ n \in Nat /\ DOMAIN model.lines = 1..n
      /\ a \in Nat /\ DOMAIN s.appended = 1..a /\ s.appended = [i \in 1..a |-> s.appended[i]]
  BY LenProperties DEF ModelOK, LinesOK, WriterShape
<1>1. serialize(s) = new
  BY DEF serialize, Written
<1>2. rest = (1..n) \ s.removed
  BY <1>0
<1>3. Enumerates(order, rest) /\ DOMAIN order = 1..Len(order) /\ Len(order) \in Nat /\ \A i \in 1..Len(order) : order[i] \in 1..n
  BY <1>0, <1>2, InOrderEnumerates, Ordered
<1> HIDE DEF order
<1>4. keep = [i \in 1..Len(order) |-> Written(s, order[i])]
  BY <1>3
<1>5. /\ keep \in Seq(S) /\ Len(keep) = Len(order) /\ DOMAIN keep = 1..Len(order)
      /\ s.appended \in Seq(S)
  <2>1. \A i \in 1..Len(order) : keep[i] \in S
    BY <1>4 DEF Range
  <2>2. \A i \in 1..a : s.appended[i] \in S
    BY <1>0 DEF Range
  <2> HIDE DEF S, keep
  <2>3. keep \in [1..Len(order) -> S]
    BY <1>4, <2>1 DEF keep
  <2>4. s.appended \in [1..a -> S]
    BY <1>0, <2>2
  <2> QED BY <2>3, <2>4, <1>0, <1>3, AsSequence
<1> HIDE DEF S
<1>6. /\ cut \in 0..Len(order)
      /\ \A i \in 1..Len(order) : i > cut => keep[i].text = "blank"
  <2>1. bodies \subseteq Nat /\ \A y \in bodies : y <= Len(order)
    BY <1>5, <1>3
  <2>2. \A i \in 1..Len(order) : i \in bodies <=> keep[i].text # "blank"
    BY <1>5
  <2> HIDE DEF bodies, keep
  <2>3. CASE bodies = {}
    BY <2>2, <2>3, <1>3
  <2>4. CASE bodies # {}
    <3>1. Max(bodies) \in bodies /\ \A y \in bodies : y <= Max(bodies)
      BY <2>1, <2>4, <1>3, MaxOf
    <3> DEFINE top == Max(bodies)
    <3>2. top \in Nat /\ top <= Len(order) /\ \A y \in bodies : y <= top
      BY <3>1, <2>1
    <3>3. cut = top
      BY <2>4
    <3> HIDE DEF top, cut
    <3> QED BY <3>2, <3>3, <2>2, <1>3
  <2> QED BY <2>3, <2>4
<1>k. Len(order) + a \in Nat
  BY <1>0, <1>3
<1> DEFINE k == Len(order) + a
<1> HIDE DEF cut, keep
<1>7. /\ new \in Seq(S) /\ Len(new) = Len(keep) + Len(s.appended)
      /\ \A i \in 1..Len(new) : new[i] = IF i <= cut THEN keep[i]
                                         ELSE IF i <= cut + Len(s.appended) THEN s.appended[i - cut]
                                         ELSE keep[i - Len(s.appended)]
  <2>1. cut \in 0..Len(keep)
    BY <1>5, <1>6
  <2> DEFINE app == s.appended
  <2>n. new = SubSeq(keep, 1, cut) \o app \o SubSeq(keep, cut + 1, Len(keep))
    OBVIOUS
  <2>0. app \in Seq(S) /\ keep \in Seq(S)
    BY <1>5
  <2> HIDE DEF new, app
  <2>s. new \in Seq(S) /\ SplicedAs(new, keep, app, cut)
    BY <2>0, <2>1, <2>n, SplicedIs
  <2>2. new \in Seq(S) /\ Len(new) = Len(keep) + Len(s.appended)
    BY <2>s DEF SplicedAs, app
  <2>3. \A i \in 1..Len(new) : new[i] = IF i <= cut THEN keep[i]
                                       ELSE IF i <= cut + Len(s.appended) THEN s.appended[i - cut]
                                       ELSE keep[i - Len(s.appended)]
    BY <2>s DEF SplicedAs, app
  <2> QED BY <2>2, <2>3
<1> HIDE DEF new
<1>8. Len(new) = k /\ \A i \in 1..k : new[i] = IF i <= cut THEN keep[i] ELSE IF i <= cut + a THEN s.appended[i - cut] ELSE keep[i - a]
  BY <1>5, <1>7
<1>9. new \in Seq(Range(new)) /\ DOMAIN new = 1..k /\ k \in Nat
  <2>1. DOMAIN new = 1..k /\ new \in [1..k -> S]
    BY <1>7, <1>8, LenProperties
  <2>2. new \in [1..k -> Range(new)]
    BY <2>1 DEF Range
  <2> QED BY <2>1, <2>2, <1>k, AsSequence
<1>a. Kept(model, s) = rest \cup ((n + 1)..(n + a)) /\ rest \subseteq 1..n
  BY <1>2 DEF Kept
<1> HIDE DEF rest
<1>10. /\ src \in [1..k -> Kept(model, s)]
       /\ \A i, j \in 1..k : src[i] = src[j] => i = j
       /\ \A x \in Kept(model, s) : \E i \in 1..k : src[i] = x
       /\ \A i, j \in 1..k : i < j /\ ~(i > cut /\ j > cut + a) => src[i] < src[j]
       /\ \A i, j \in 1..k : i < j /\ i > cut + a => src[i] < src[j]
  <2> DEFINE all == rest \cup ((n + 1)..(n + a))
  <2>1. /\ src \in [1..k -> all]
        /\ \A i, j \in 1..k : src[i] = src[j] => i = j
        /\ \A x \in all : \E i \in 1..k : src[i] = x
        /\ \A i, j \in 1..k : i < j /\ ~(i > cut /\ j > cut + a) => src[i] < src[j]
        /\ \A i, j \in 1..k : i < j /\ i > cut + a => src[i] < src[j]
    BY <1>0, <1>3, <1>6, <1>a, WovenPlaces
  <2>2. all = Kept(model, s)
    BY <1>a
  <2> HIDE DEF all, src, k
  <2> QED BY <2>1, <2>2
<1>11. \A i \in 1..k : src[i] = IF i <= cut THEN order[i] ELSE IF i <= cut + a THEN n + (i - cut) ELSE order[i - a]
  BY DEF Woven
<1> HIDE DEF src
<1>12. ASSUME NEW i \in 1..k PROVE new[i] = ForWriting(s)[src[i]]
  <2>0. /\ src[i] \in Kept(model, s) /\ src[i] \in 1..(n + a)
        /\ ForWriting(s)[src[i]] = IF src[i] <= n THEN Written(s, src[i]) ELSE s.appended[src[i] - n]
    <3>1. src[i] \in Kept(model, s)
      BY <1>10
    <3>2. src[i] \in 1..(n + a)
      BY <3>1, <1>0, KeptPlaces
    <3> QED BY <3>1, <3>2 DEF ForWriting
  <2>i. i \in Nat /\ i <= Len(order) + a /\ i >= 1
    BY <1>k
  <2>1. CASE i <= cut
    <3>1. i \in 1..Len(order)
      BY <2>i, <2>1, <1>3, <1>6
    <3>2. src[i] = order[i] /\ new[i] = keep[i] /\ keep[i] = Written(s, order[i]) /\ order[i] \in 1..n
      BY <3>1, <2>1, <1>3, <1>4, <1>8, <1>11
    <3>3. order[i] <= n
      BY <3>2, <1>0
    <3> QED BY <3>2, <3>3, <2>0
  <2>2. CASE ~(i <= cut) /\ i <= cut + a
    <3>1. src[i] = n + (i - cut) /\ new[i] = s.appended[i - cut]
      BY <2>2, <1>8, <1>11
    <3>2. ~(n + (i - cut) <= n) /\ (n + (i - cut)) - n = i - cut
      BY <2>i, <2>2, <1>0, <1>3, <1>6
    <3> QED BY <3>1, <3>2, <2>0
  <2>3. CASE ~(i <= cut + a)
    <3>1. i - a \in 1..Len(order) /\ ~(i <= cut)
      BY <2>i, <2>3, <1>0, <1>3, <1>6
    <3>2. src[i] = order[i - a] /\ new[i] = keep[i - a]
      BY <3>1, <2>3, <1>8, <1>11
    <3>3. keep[i - a] = Written(s, order[i - a]) /\ order[i - a] \in 1..n
      BY <3>1, <1>3, <1>4
    <3>4. order[i - a] <= n
      BY <3>3, <1>0
    <3> QED BY <3>2, <3>3, <3>4, <2>0
  <2> QED BY <2>1, <2>2, <2>3
<1>13. ASSUME NEW i \in 1..k, NEW j \in 1..k, i < j, new[i].text = "tuple", new[j].text = "tuple"
       PROVE  src[i] < src[j]
  <2>0. i \in Nat /\ j \in Nat /\ j <= Len(order) + a
    BY <1>k
  <2>1. ~(j > cut + a)
    <3> SUFFICES ASSUME j > cut + a PROVE FALSE
      OBVIOUS
    <3>1. ~(j <= cut + a) /\ ~(j <= cut) /\ j - a \in 1..Len(order) /\ j - a > cut
      BY <2>0, <1>0, <1>3, <1>6
    <3>2. new[j] = keep[j - a] /\ keep[j - a].text = "blank"
      BY <3>1, <1>6, <1>8
    <3> QED BY <3>2, <1>13
  <2> QED BY <2>1, <1>10, <1>13
<1>14. Rearranges(src, new, 1..k, ForWriting(s), Kept(model, s))
  <2>1. Kept(model, s) \subseteq Int
    <3>1. \A x \in Kept(model, s) : x \in Int
      BY <1>0, KeptPlaces
    <3> QED BY <3>1
  <2>2. 1..k \subseteq Int
    BY <1>k
  <2> HIDE DEF k
  <2> QED BY <2>1, <2>2, <1>10, <1>12, <1>13 DEF Rearranges
<1> HIDE DEF k
<1>15. /\ new \in Seq(Range(new)) /\ DOMAIN new = 1..Len(new) /\ Len(new) \in Nat
       /\ \E t : Rearranges(t, new, 1..Len(new), ForWriting(s), Kept(model, s))
  BY <1>8, <1>9, <1>14
<1> QED BY <1>1, <1>15

(* The session's lines stay consistent when HEAD gets its new maxId. *)
LEMMA WritingConsistent ==
  ASSUME ModelOK(model), NEW s, LinesOK(model, s)
  PROVE  /\ Consistent(ForWriting(s), Kept(model, s))
         /\ \A i \in Kept(model, s) :
              /\ IsTuple(ForWriting(s)[i], "HEAD") => ForWriting(s)[i].maxId = s.nextElementId - 1
              /\ Identified(ForWriting(s)[i]) <=> Identified(Whole(model, s)[i])
              /\ Identified(ForWriting(s)[i]) => ForWriting(s)[i] = Whole(model, s)[i]
<1> DEFINE maxId == s.nextElementId - 1  new == ForWriting(s)  old == Whole(model, s)  places == Kept(model, s)
<1>1. maxId \in Nat
  BY DEF LinesOK, WriterShape
<1>2. \A i \in places : new[i] = IF IsTuple(old[i], "HEAD") THEN HeadLine(maxId) ELSE old[i]
  BY WrittenLines
<1>3. Consistent(old, places)
  BY DEF LinesOK
<1>4. HeadLine(maxId).maxId = maxId
  BY DEF HeadLine
<1> HIDE DEF maxId, new, old, places
<1>5. /\ Consistent(new, places)
      /\ \A i \in places : /\ IsTuple(new[i], "HEAD") => new[i] = HeadLine(maxId) /\ IsTuple(old[i], "HEAD")
                           /\ Identified(new[i]) => new[i] = old[i]
                           /\ ~IsTuple(old[i], "HEAD") => new[i] = old[i]
  BY <1>1, <1>2, <1>3, HeadReplaced
<1>6. \A i \in places : IsTuple(old[i], "HEAD") => ~Identified(old[i])
  BY <1>3, ElementNamesItself DEF Consistent
<1> QED BY <1>4, <1>5, <1>6 DEF maxId, new, old, places

(* What is written is again a page as the editor writes them, *)
LEMMA PageWellFormed ==
  ASSUME ModelOK(model), NEW s, LinesOK(model, s)
  PROVE  WellFormed(serialize(s)) /\ DOMAIN serialize(s) = 1..Len(serialize(s))
<1> DEFINE new == serialize(s)
<1>1. new \in Seq(Range(new)) /\ DOMAIN new = 1..Len(new)
  BY PageRearranges
<1>2. PICK src : Rearranges(src, new, 1..Len(new), ForWriting(s), Kept(model, s))
  BY PageRearranges
<1>3. Consistent(new, DOMAIN new)
  BY <1>1, <1>2, WritingConsistent, RearrangedConsistent
<1>4. \A i \in DOMAIN new : src[i] \in Kept(model, s) /\ new[i] = ForWriting(s)[src[i]]
  BY <1>1, <1>2 DEF Rearranges
<1> HIDE DEF new
<1>5. ASSUME NEW h \in DOMAIN new, NEW i \in DOMAIN new, IsTuple(new[h], "HEAD"), Identified(new[i])
      PROVE  new[i].id <= new[h].maxId
  <2>1. new[h].maxId = s.nextElementId - 1
    BY <1>4, <1>5, WritingConsistent
  <2>2. Identified(Whole(model, s)[src[i]]) /\ new[i] = Whole(model, s)[src[i]] /\ src[i] \in Kept(model, s)
    BY <1>4, <1>5, WritingConsistent
  <2>3. new[i].id < s.nextElementId
    BY <2>2 DEF LinesOK, IdsBehind
  <2>4. new[i].id \in Nat /\ s.nextElementId \in Nat
    BY <1>3, <1>5 DEF Consistent, Formed, LinesOK, WriterShape
  <2> QED BY <2>1, <2>3, <2>4
<1> QED BY <1>1, <1>3, <1>5 DEF WellFormed, new

(* and holds the ids of the lines that are kept. *)
LEMMA PageIds ==
  ASSUME ModelOK(model), NEW s, LinesOK(model, s)
  PROVE  \A id : id \in Ids(serialize(s)) <=>
                   \E i \in Kept(model, s) : Identified(Whole(model, s)[i]) /\ Whole(model, s)[i].id = id
<1> DEFINE new == serialize(s)
<1>1. DOMAIN new = 1..Len(new)
  BY PageRearranges
<1>2. PICK src : Rearranges(src, new, 1..Len(new), ForWriting(s), Kept(model, s))
  BY PageRearranges
<1>3. /\ \A i \in DOMAIN new : src[i] \in Kept(model, s) /\ new[i] = ForWriting(s)[src[i]]
      /\ \A k \in Kept(model, s) : \E i \in DOMAIN new : src[i] = k
  BY <1>1, <1>2 DEF Rearranges
<1>4. \A k \in Kept(model, s) :
        /\ Identified(ForWriting(s)[k]) <=> Identified(Whole(model, s)[k])
        /\ Identified(ForWriting(s)[k]) => ForWriting(s)[k] = Whole(model, s)[k]
  BY WritingConsistent
<1> HIDE DEF new
<1> SUFFICES ASSUME NEW id
             PROVE  id \in Ids(new) <=>
                      \E i \in Kept(model, s) : Identified(Whole(model, s)[i]) /\ Whole(model, s)[i].id = id
  BY DEF new
<1>5. id \in Ids(new) <=> \E j \in DOMAIN new : Identified(new[j]) /\ new[j].id = id
  BY DEF Ids
<1>6. (\E j \in DOMAIN new : Identified(new[j]) /\ new[j].id = id) =>
        \E i \in Kept(model, s) : Identified(Whole(model, s)[i]) /\ Whole(model, s)[i].id = id
  BY <1>3, <1>4
<1>7. (\E i \in Kept(model, s) : Identified(Whole(model, s)[i]) /\ Whole(model, s)[i].id = id) =>
        \E j \in DOMAIN new : Identified(new[j]) /\ new[j].id = id
  BY <1>3, <1>4
<1> QED BY <1>5, <1>6, <1>7

-----------------------------------------------------------------------------
(* A session grows by lines.                                               *)

Removable(line) == IsElement(line) \/ IsTuple(line, "ATTR")

GrownBy(m, s, t, lines) ==
  /\ \A i \in Kept(m, s) : i \in Kept(m, t) /\ Whole(m, t)[i] = Whole(m, s)[i]
  /\ \A i \in Kept(m, t) : i \in Kept(m, s) \/ \E k \in 1..Len(lines) : Whole(m, t)[i] = lines[k]
  /\ \A k \in 1..Len(lines) : \E i \in Kept(m, t) : Whole(m, t)[i] = lines[k]

Growth(s, t, lines) ==
  /\ WriterShape(t)
  /\ t.appended = s.appended \o lines /\ t.removed = s.removed
  /\ s.nextElementId <= t.nextElementId /\ s.nextGgeId <= t.nextGgeId
  /\ \A k \in 1..Len(lines) : Says(lines[k], "UniqueID") => s.nextGgeId < t.nextGgeId

(* A session that appends a block of lines still has all its lines in order. *)
LEMMA Grown ==
  ASSUME NEW m, ModelOK(m), NEW s, LinesOK(m, s), NEW t, NEW lines, lines \in Seq(Range(lines)),
         Block(lines, s.nextElementId, t.nextElementId, s.nextGgeId), Growth(s, t, lines)
  PROVE  LinesOK(m, t) /\ GrownBy(m, s, t, lines)
<1> DEFINE n == Len(m.lines)  a == Len(s.appended)  l == Len(lines)
           old == Whole(m, s)  new == Whole(m, t)
           first == s.nextElementId  next == t.nextElementId  gge == s.nextGgeId
<1>0. n \in Nat /\ a \in Nat /\ l \in Nat /\ s.appended \in Seq(Range(s.appended))
  BY LenProperties DEF ModelOK, LinesOK, WriterShape
<1>c. n \in Nat /\ a \in Nat /\ l \in Nat
  BY <1>0
<1>n. first \in Nat /\ next \in Nat /\ gge \in Nat /\ t.nextGgeId \in Nat /\ first <= next /\ gge <= t.nextGgeId
  BY DEF LinesOK, WriterShape, Growth
<1>1. /\ Len(t.appended) = a + l
      /\ \A i \in 1..a : t.appended[i] = s.appended[i]
      /\ \A k \in 1..l : t.appended[a + k] = lines[k]
  <2> DEFINE S == Range(s.appended) \cup Range(lines)
  <2>1. s.appended \in Seq(S) /\ lines \in Seq(S)
    <3>1. s.appended \in [1..a -> S] /\ lines \in [1..l -> S]
      BY <1>0, LenProperties
    <3> HIDE DEF S
    <3> QED BY <3>1, <1>0, AsSequence
  <2> HIDE DEF S
  <2>2. /\ Len(s.appended \o lines) = a + l
        /\ \A i \in 1..(a + l) : (s.appended \o lines)[i] = IF i <= a THEN s.appended[i] ELSE lines[i - a]
    BY <2>1, ConcatProperties
  <2>3. t.appended = s.appended \o lines
    BY DEF Growth
  <2> DEFINE both == s.appended \o lines
  <2> HIDE DEF both
  <2>4. Len(both) = a + l /\ \A i \in 1..(a + l) : both[i] = IF i <= a THEN s.appended[i] ELSE lines[i - a]
    BY <2>2 DEF both
  <2>5. \A i \in 1..a : i \in 1..(a + l) /\ i <= a
    BY <1>0
  <2>6. \A k \in 1..l : a + k \in 1..(a + l) /\ ~(a + k <= a) /\ (a + k) - a = k
    BY <1>0
  <2>7. \A k \in 1..l : both[a + k] = lines[k]
    <3> TAKE k \in 1..l
    <3>1. a + k \in 1..(a + l) /\ ~(a + k <= a) /\ (a + k) - a = k
      BY <2>6
    <3>2. both[a + k] = lines[(a + k) - a]
      BY <3>1, <2>4
    <3> QED BY <3>1, <3>2
  <2> QED BY <2>3, <2>4, <2>5, <2>7 DEF both
<1>2. Kept(m, t) = Kept(m, s) \cup ((n + a + 1)..(n + a + l))
  <2>1. t.removed = s.removed
    BY DEF Growth
  <2>2. Kept(m, t) = ((1..n) \ s.removed) \cup ((n + 1)..(n + (a + l)))
    BY <2>1, <1>1 DEF Kept
  <2>3. Kept(m, s) = ((1..n) \ s.removed) \cup ((n + 1)..(n + a))
    BY DEF Kept
  <2>4. (n + 1)..(n + (a + l)) = ((n + 1)..(n + a)) \cup ((n + a + 1)..(n + a + l))
    <3> HIDE DEF n, a, l
    <3> QED BY <1>c
  <2> QED BY <2>2, <2>3, <2>4
<1>3. new = [i \in 1..(n + (a + l)) |-> IF i <= n THEN m.lines[i].data ELSE t.appended[i - n]]
  BY <1>1 DEF Whole
<1>4. old = [i \in 1..(n + a) |-> IF i <= n THEN m.lines[i].data ELSE s.appended[i - n]]
  BY DEF Whole
<1>5. \A i \in 1..(n + a) : new[i] = old[i]
  <2> TAKE i \in 1..(n + a)
  <2>1. i \in 1..(n + (a + l)) /\ (~(i <= n) => i - n \in 1..a)
    <3> HIDE DEF n, a, l
    <3> QED BY <1>c
  <2> HIDE DEF new, old
  <2>2. CASE i <= n
    BY <2>1, <2>2, <1>3, <1>4
  <2>3. CASE ~(i <= n)
    BY <2>1, <2>3, <1>1, <1>3, <1>4
  <2> QED BY <2>2, <2>3
<1>6. \A k \in 1..l : new[n + a + k] = lines[k]
  <2> TAKE k \in 1..l
  <2>1. n + a + k \in 1..(n + (a + l)) /\ ~(n + a + k <= n) /\ (n + a + k) - n = a + k
    <3> HIDE DEF n, a, l
    <3> QED BY <1>c
  <2> HIDE DEF new
  <2>2. new[n + a + k] = t.appended[(n + a + k) - n]
    BY <2>1, <1>3
  <2> QED BY <2>1, <2>2, <1>1
<1>7. \A i \in Kept(m, s) : i \in 1..(n + a)
  BY <1>0, KeptPlaces
<1> HIDE DEF old, new
<1>8. Continues(new, old, Kept(m, s), n + a, lines)
  BY <1>5, <1>6, <1>7 DEF Continues
<1>9. Behind(old, Kept(m, s), first, gge)
  <2>1. \A i \in Kept(m, s) : Identified(old[i]) => old[i].id < first
    BY DEF LinesOK, IdsBehind, old
  <2>2. \A i \in Kept(m, s) : Says(old[i], "UniqueID") => old[i].value # <<"gge", gge>>
    <3>1. \A i \in Kept(m, s), k \in Nat : Says(old[i], "UniqueID") /\ old[i].value = <<"gge", k>> => k < gge
      BY DEF LinesOK, IdsBehind, old
    <3>2. ~(gge < gge)
      BY <1>n
    <3> HIDE DEF gge
    <3> QED BY <3>1, <3>2, <1>n
  <2> QED BY <2>1, <2>2 DEF Behind
<1>10. Consistent(new, Kept(m, t))
  <2>1. Consistent(old, Kept(m, s))
    BY DEF LinesOK, old
  <2>2. n + a \in Nat
    <3> HIDE DEF n, a, l
    <3> QED BY <1>c
  <2> HIDE DEF n, a
  <2>3. Consistent(new, Kept(m, s) \cup ((n + a + 1)..(n + a + Len(lines))))
    BY <2>1, <2>2, <1>8, <1>9, <1>n, ExtensionConsistent
  <2> QED BY <2>3, <1>2
<1>11. GrownBy(m, s, t, lines)
  <2>1. \A i \in Kept(m, s) : i \in Kept(m, t) /\ new[i] = old[i]
    BY <1>2, <1>5, <1>7
  <2>2. \A i \in Kept(m, t) : i \in Kept(m, s) \/ \E k \in 1..l : new[i] = lines[k]
    <3> TAKE i \in Kept(m, t)
    <3> SUFFICES ASSUME i \in (n + a + 1)..(n + a + l) PROVE \E k \in 1..l : new[i] = lines[k]
      BY <1>2
    <3>1. i - (n + a) \in 1..l /\ n + a + (i - (n + a)) = i
      <4> HIDE DEF n, a, l
      <4> QED BY <1>c
    <3> QED BY <3>1, <1>6
  <2>3. \A k \in 1..l : \E i \in Kept(m, t) : new[i] = lines[k]
    <3> TAKE k \in 1..l
    <3>1. n + a + k \in (n + a + 1)..(n + a + l)
      BY <1>0
    <3>2. n + a + k \in Kept(m, t)
      BY <3>1, <1>2
    <3> QED BY <3>2, <1>6
  <2> QED BY <2>1, <2>2, <2>3 DEF GrownBy, new, old
<1>12. OneHeadOnly(m, t)
  <2>1. \A i \in 1..n : i \in t.removed => ~IsTuple(m.lines[i].data, "HEAD")
    BY DEF Growth, LinesOK, OneHeadOnly
  <2>2. \A k \in 1..(a + l) : ~IsTuple(t.appended[k], "HEAD")
    <3> TAKE k \in 1..(a + l)
    <3>1. CASE k <= a
      <4>1. k \in 1..a
        BY <3>1, <1>0
      <4> QED BY <4>1, <1>1 DEF LinesOK, OneHeadOnly
    <3>2. CASE ~(k <= a)
      <4>1. k - a \in 1..l /\ a + (k - a) = k
        BY <3>2, <1>0
      <4>2. ~IsTuple(lines[k - a], "HEAD")
        BY <4>1 DEF Block
      <4> QED BY <4>1, <4>2, <1>1
    <3> QED BY <3>1, <3>2
  <2> QED BY <2>1, <2>2, <1>1 DEF OneHeadOnly
<1>13. IdsBehind(m, t)
  <2>1. \A i \in Kept(m, t) : Identified(new[i]) => new[i].id < next
    <3> TAKE i \in Kept(m, t)
    <3> HAVE Identified(new[i])
    <3>0. new[i].id \in Nat
      BY <1>10 DEF Consistent, Formed
    <3>1. CASE i \in Kept(m, s)
      <4>1. new[i].id < first
        BY <3>1, <1>9, <1>5, <1>7 DEF Behind
      <4> QED BY <4>1, <3>0, <1>n
    <3>2. CASE \E k \in 1..l : new[i] = lines[k]
      BY <3>2 DEF Block
    <3> QED BY <3>1, <3>2, <1>11 DEF GrownBy, new
  <2>2. \A i \in Kept(m, t), k \in Nat : Says(new[i], "UniqueID") /\ new[i].value = <<"gge", k>> => k < t.nextGgeId
    <3> TAKE i \in Kept(m, t), k \in Nat
    <3> HAVE Says(new[i], "UniqueID") /\ new[i].value = <<"gge", k>>
    <3>1. CASE i \in Kept(m, s)
      <4>1. new[i] = old[i]
        BY <3>1, <1>5, <1>7
      <4>2. k < gge
        BY <3>1, <4>1 DEF LinesOK, IdsBehind, old
      <4> QED BY <4>2, <1>n
    <3>2. CASE \E j \in 1..l : new[i] = lines[j]
      <4>1. PICK j \in 1..l : new[i] = lines[j]
        BY <3>2
      <4>2. lines[j].value = <<"gge", gge>>
        BY <4>1 DEF Block, NewUniqueId
      <4>3. gge < t.nextGgeId
        BY <4>1 DEF Growth
      <4>4. k = gge
        BY <4>1, <4>2
      <4> QED BY <4>3, <4>4
    <3> QED BY <3>1, <3>2, <1>11 DEF GrownBy, new
  <2> QED BY <2>1, <2>2 DEF IdsBehind, new
<1> QED BY <1>10, <1>11, <1>12, <1>13 DEF LinesOK, Growth, new

(* A component line, as makeComponentLine makes it, *)
LEMMA NewComponent ==
  ASSUME NEW c \in Nat, NEW part, NEW at \in Int \X Int, NEW rotation \in RightAngles, NEW line,
         line = makeComponentLine(c, part, at, rotation, 0)
  PROVE  /\ Formed(line) /\ Identified(line) /\ line.id = c
         /\ IsTuple(line, "COMPONENT") /\ ~IsTuple(line, "ATTR") /\ ~IsTuple(line, "HEAD")
<1>1. /\ line.text = "tuple" /\ line.tag = "COMPONENT" /\ line.id = c /\ line.part = part
      /\ line.at = at /\ line.rotation = rotation /\ line.flip = 0 /\ "id" \in DOMAIN line
  BY DEF makeComponentLine
<1>2. line = makeComponentLine(line.id, line.part, line.at, line.rotation, line.flip)
  BY <1>1
<1>3. /\ IsTuple(line, "COMPONENT") /\ ~IsTuple(line, "ATTR") /\ ~IsTuple(line, "HEAD") /\ ~IsTuple(line, "WIRE")
      /\ Identified(line)
  BY <1>1 DEF IsTuple, Identified
<1>4. Formed(line)
  BY <1>1, <1>2, <1>3 DEF Formed, Says
<1> QED BY <1>1, <1>3, <1>4

(* a wire line, *)
LEMMA NewWire ==
  ASSUME NEW w \in Nat, NEW segments, NEW line, line = makeWireLine(w, segments)
  PROVE  /\ Formed(line) /\ Identified(line) /\ line.id = w
         /\ IsTuple(line, "WIRE") /\ ~IsTuple(line, "ATTR") /\ ~IsTuple(line, "HEAD")
<1>1. line.text = "tuple" /\ line.tag = "WIRE" /\ line.id = w /\ line.segments = segments /\ "id" \in DOMAIN line
  BY DEF makeWireLine
<1>2. line = makeWireLine(line.id, line.segments)
  BY <1>1
<1>3. /\ IsTuple(line, "WIRE") /\ ~IsTuple(line, "ATTR") /\ ~IsTuple(line, "HEAD") /\ ~IsTuple(line, "COMPONENT")
      /\ Identified(line)
  BY <1>1 DEF IsTuple, Identified
<1>4. Formed(line)
  BY <1>1, <1>2, <1>3 DEF Formed, Says
<1> QED BY <1>1, <1>3, <1>4

(* and an attribute line. *)
LEMMA NewAttr ==
  ASSUME NEW id \in Nat, NEW parent, NEW key, NEW value, NEW line,
         key \notin {"Designator", "UniqueID"} \/ (Len(value) = 2 => value[2] \in Nat),
         line = makeAttrLine(id, parent, key, value)
  PROVE  /\ Formed(line) /\ Identified(line) /\ line.id = id /\ line.parent = parent
         /\ line.key = key /\ line.value = value
         /\ IsTuple(line, "ATTR") /\ ~IsTuple(line, "HEAD") /\ ~IsElement(line)
<1>1. /\ line.text = "tuple" /\ line.tag = "ATTR" /\ line.id = id /\ line.parent = parent
      /\ line.key = key /\ line.value = value /\ "id" \in DOMAIN line
  BY DEF makeAttrLine
<1>2. line = makeAttrLine(line.id, line.parent, line.key, line.value)
  BY <1>1
<1>3. /\ IsTuple(line, "ATTR") /\ ~IsTuple(line, "WIRE") /\ ~IsTuple(line, "HEAD") /\ ~IsTuple(line, "COMPONENT")
      /\ Identified(line)
  BY <1>1 DEF IsTuple, Identified
<1>4. Formed(line)
  BY <1>1, <1>2, <1>3 DEF Formed, Says
<1> QED BY <1>1, <1>3, <1>4 DEF IsElement

(* Lines that go with an element: its own, and its attributes'.            *)
AllHit(lines, ids) == \A k \in 1..Len(lines) : Removable(lines[k]) /\ Hit(lines[k], ids)

NewLine(line, first, next) ==
  /\ Formed(line) /\ Identified(line) /\ ~IsTuple(line, "HEAD")
  /\ first <= line.id /\ line.id < next

(* The lines of an element without a Unique ID.                            *)
Plain(lines, first) ==
  /\ lines \in Seq(Range(lines)) /\ Len(lines) \in Nat
  /\ \A k \in 1..Len(lines) : /\ NewLine(lines[k], first, first + Len(lines))
                              /\ ~Says(lines[k], "UniqueID")
  /\ Owned(lines, 1..Len(lines)) /\ NamedOnce(lines, 1..Len(lines))

(* Lines without a Unique ID are a block, whatever the next Unique ID is. *)
LEMMA PlainBlock ==
  ASSUME NEW lines, NEW first, Plain(lines, first), NEW gge
  PROVE  Block(lines, first, first + Len(lines), gge)
BY DEF Plain, Block, NewLine

(* The lines of addNetportAt: the wire stands behind the attributes of the
   component, and is named before them. *)
LEMMA NetportBlock ==
  ASSUME NEW c \in Nat, NEW at \in Int \X Int, NEW rotation \in RightAngles, NEW symbol, NEW device, NEW net,
         NEW lines, lines = <<makeComponentLine(c, NoPart, at, rotation, 0),
                              makeAttrLine(c + 2, c, "Symbol", symbol),
                              makeAttrLine(c + 3, c, "Name", net),
                              makeAttrLine(c + 4, c, "Device", device),
                              makeAttrLine(c + 5, c, "Relevance", <<"none">>),
                              makeWireLine(c + 1, <<<<at, at>>>>),
                              makeAttrLine(c + 6, c + 1, "NET", net)>>
  PROVE  /\ Plain(lines, c) /\ Len(lines) = 7 /\ AllHit(lines, {c, c + 1})
         /\ IsElement(lines[1]) /\ lines[1].id = c
<1>1. /\ Len(lines) = 7 /\ DOMAIN lines = 1..7
      /\ lines[1] = makeComponentLine(c, NoPart, at, rotation, 0)
      /\ lines[2] = makeAttrLine(c + 2, c, "Symbol", symbol)
      /\ lines[3] = makeAttrLine(c + 3, c, "Name", net)
      /\ lines[4] = makeAttrLine(c + 4, c, "Device", device)
      /\ lines[5] = makeAttrLine(c + 5, c, "Relevance", <<"none">>)
      /\ lines[6] = makeWireLine(c + 1, <<<<at, at>>>>)
      /\ lines[7] = makeAttrLine(c + 6, c + 1, "NET", net)
  OBVIOUS
<1>2. lines \in Seq(Range(lines))
  <2>1. lines \in [1..7 -> Range(lines)]
    BY <1>1 DEF Range
  <2> QED BY <2>1, AsSequence
<1>3. c + 1 \in Nat /\ c + 2 \in Nat /\ c + 3 \in Nat /\ c + 4 \in Nat /\ c + 5 \in Nat /\ c + 6 \in Nat
  OBVIOUS
<1>4. /\ NewLine(lines[1], c, c + 7) /\ lines[1].id = c
      /\ IsTuple(lines[1], "COMPONENT") /\ ~IsTuple(lines[1], "ATTR")
  BY <1>1, NewComponent DEF NewLine
<1>5. /\ NewLine(lines[6], c, c + 7) /\ lines[6].id = c + 1
      /\ IsTuple(lines[6], "WIRE") /\ ~IsTuple(lines[6], "ATTR")
  BY <1>1, <1>3, NewWire DEF NewLine
<1>6. /\ IsTuple(lines[2], "ATTR") /\ NewLine(lines[2], c, c + 7) /\ lines[2].id = c + 2 /\ lines[2].parent = c /\ lines[2].key = "Symbol"
      /\ IsTuple(lines[3], "ATTR") /\ NewLine(lines[3], c, c + 7) /\ lines[3].id = c + 3 /\ lines[3].parent = c /\ lines[3].key = "Name"
      /\ IsTuple(lines[4], "ATTR") /\ NewLine(lines[4], c, c + 7) /\ lines[4].id = c + 4 /\ lines[4].parent = c /\ lines[4].key = "Device"
      /\ IsTuple(lines[5], "ATTR") /\ NewLine(lines[5], c, c + 7) /\ lines[5].id = c + 5 /\ lines[5].parent = c /\ lines[5].key = "Relevance"
      /\ IsTuple(lines[7], "ATTR") /\ NewLine(lines[7], c, c + 7) /\ lines[7].id = c + 6 /\ lines[7].parent = c + 1 /\ lines[7].key = "NET"
  <2>1. IsTuple(lines[2], "ATTR") /\ NewLine(lines[2], c, c + 7) /\ lines[2].id = c + 2 /\ lines[2].parent = c /\ lines[2].key = "Symbol"
    BY <1>1, <1>3, NewAttr DEF NewLine
  <2>2. IsTuple(lines[3], "ATTR") /\ NewLine(lines[3], c, c + 7) /\ lines[3].id = c + 3 /\ lines[3].parent = c /\ lines[3].key = "Name"
    BY <1>1, <1>3, NewAttr DEF NewLine
  <2>3. IsTuple(lines[4], "ATTR") /\ NewLine(lines[4], c, c + 7) /\ lines[4].id = c + 4 /\ lines[4].parent = c /\ lines[4].key = "Device"
    BY <1>1, <1>3, NewAttr DEF NewLine
  <2>4. IsTuple(lines[5], "ATTR") /\ NewLine(lines[5], c, c + 7) /\ lines[5].id = c + 5 /\ lines[5].parent = c /\ lines[5].key = "Relevance"
    BY <1>1, <1>3, NewAttr DEF NewLine
  <2>5. IsTuple(lines[7], "ATTR") /\ NewLine(lines[7], c, c + 7) /\ lines[7].id = c + 6 /\ lines[7].parent = c + 1 /\ lines[7].key = "NET"
    BY <1>1, <1>3, NewAttr DEF NewLine
  <2> QED BY <2>1, <2>2, <2>3, <2>4, <2>5
<1>7. \A k \in 1..7 : k = 1 \/ k = 2 \/ k = 3 \/ k = 4 \/ k = 5 \/ k = 6 \/ k = 7
  OBVIOUS
<1>8. \A k \in 1..7 : NewLine(lines[k], c, c + 7)
  BY <1>4, <1>5, <1>6, <1>7
<1>9. \A k \in 1..7 : ~Says(lines[k], "UniqueID")
  BY <1>4, <1>5, <1>6, <1>7 DEF Says
<1>10. Owned(lines, 1..7)
  <2>1. IsElement(lines[1]) /\ IsElement(lines[6])
    BY <1>4, <1>5 DEF IsElement
  <2> QED BY <2>1, <1>4, <1>5, <1>6, <1>7 DEF Owned
<1>11. NamedOnce(lines, 1..7)
  <2>1. \A i, j \in 1..7 : lines[i].id = lines[j].id => i = j
    BY <1>4, <1>5, <1>6, <1>7
  <2> QED BY <2>1 DEF NamedOnce
<1>12. \A k \in 1..7 : Removable(lines[k]) /\ Hit(lines[k], {c, c + 1})
  <2>1. \A k \in 1..7 : Removable(lines[k])
    BY <1>4, <1>5, <1>6, <1>7 DEF Removable, IsElement
  <2>2. \A k \in 1..7 : Formed(lines[k])
    BY <1>8 DEF NewLine
  <2>3. Hit(lines[1], {c, c + 1}) /\ Hit(lines[6], {c, c + 1})
    BY <2>2, <1>4, <1>5, <1>7, ElementNamesItself DEF IsElement
  <2>4. /\ Hit(lines[2], {c, c + 1}) /\ Hit(lines[3], {c, c + 1}) /\ Hit(lines[4], {c, c + 1})
        /\ Hit(lines[5], {c, c + 1}) /\ Hit(lines[7], {c, c + 1})
    BY <2>2, <1>6, <1>7, ElementNamesItself
  <2> QED BY <2>1, <2>3, <2>4, <1>7
<1> QED BY <1>1, <1>2, <1>4, <1>8, <1>9, <1>10, <1>11, <1>12 DEF Plain, AllHit, IsElement

(* An element, and its attributes with the ids that follow its own.        *)
Dressed(lines, c) ==
  /\ lines \in Seq(Range(lines)) /\ Len(lines) \in Nat \ {0} /\ DOMAIN lines = 1..Len(lines)
  /\ Formed(lines[1]) /\ Identified(lines[1]) /\ IsElement(lines[1]) /\ lines[1].id = c
  /\ ~IsTuple(lines[1], "HEAD") /\ ~IsTuple(lines[1], "ATTR")
  /\ \A k \in 2..Len(lines) :
       /\ Formed(lines[k]) /\ Identified(lines[k]) /\ IsTuple(lines[k], "ATTR") /\ ~IsTuple(lines[k], "HEAD")
       /\ lines[k].id = c + (k - 1) /\ lines[k].parent = c

(* An element with its attributes is a block but for Unique IDs. *)
LEMMA DressedLines ==
  ASSUME NEW c \in Nat, NEW lines, Dressed(lines, c)
  PROVE  /\ \A k \in 1..Len(lines) : NewLine(lines[k], c, c + Len(lines))
         /\ Owned(lines, 1..Len(lines)) /\ NamedOnce(lines, 1..Len(lines))
         /\ AllHit(lines, {c})
<1> DEFINE l == Len(lines)
<1>0. l \in Nat /\ l >= 1
  BY DEF Dressed
<1>1. \A k \in 1..l : k = 1 \/ k \in 2..l
  BY <1>0
<1>2. \A k \in 1..l : Formed(lines[k]) /\ Identified(lines[k]) /\ ~IsTuple(lines[k], "HEAD")
  BY <1>1 DEF Dressed
<1>3. \A k \in 1..l : lines[k].id = c + (k - 1)
  <2>1. lines[1].id = c + (1 - 1)
    BY DEF Dressed
  <2> QED BY <2>1, <1>1 DEF Dressed
<1>4. 1 \in 1..l /\ IsElement(lines[1]) /\ lines[1].id = c /\ ~IsTuple(lines[1], "ATTR")
  BY <1>0 DEF Dressed
<1>5. \A k \in 2..l : IsTuple(lines[k], "ATTR") /\ lines[k].parent = c
  BY DEF Dressed
<1>6. \A k \in 1..l : NewLine(lines[k], c, c + l)
  <2>1. \A k \in 1..l : c <= c + (k - 1) /\ c + (k - 1) < c + l
    BY <1>0
  <2> HIDE DEF l
  <2> QED BY <2>1, <1>2, <1>3 DEF NewLine
<1>7. Owned(lines, 1..l)
  BY <1>1, <1>4, <1>5 DEF Owned
<1>8. NamedOnce(lines, 1..l)
  <2>1. \A i, j \in 1..l : c + (i - 1) = c + (j - 1) => i = j
    BY <1>0
  <2> HIDE DEF l
  <2> QED BY <2>1, <1>3 DEF NamedOnce
<1>9. \A k \in 1..l : Removable(lines[k]) /\ Hit(lines[k], {c})
  <2>1. Removable(lines[1]) /\ Hit(lines[1], {c})
    BY <1>2, <1>4, ElementNamesItself DEF Removable
  <2>2. \A k \in 2..l : Removable(lines[k]) /\ Hit(lines[k], {c})
    <3>1. \A k \in 2..l : k \in 1..l
      BY <1>0
    <3> QED BY <3>1, <1>2, <1>5, ElementNamesItself DEF Removable
  <2> QED BY <2>1, <2>2, <1>1
<1> QED BY <1>6, <1>7, <1>8, <1>9 DEF AllHit

(* The lines of addJunctionWire, *)
LEMMA WireBlock ==
  ASSUME NEW w \in Nat, NEW segments, NEW lines, lines = <<makeWireLine(w, segments)>>
  PROVE  /\ Plain(lines, w) /\ Len(lines) = 1 /\ AllHit(lines, {w})
         /\ IsElement(lines[1]) /\ lines[1].id = w
<1>1. Len(lines) = 1 /\ DOMAIN lines = 1..1 /\ lines[1] = makeWireLine(w, segments)
  OBVIOUS
<1>2. lines \in Seq(Range(lines))
  <2>1. lines \in [1..1 -> Range(lines)]
    BY <1>1 DEF Range
  <2> QED BY <2>1, AsSequence
<1>3. /\ Formed(lines[1]) /\ Identified(lines[1]) /\ lines[1].id = w
      /\ IsTuple(lines[1], "WIRE") /\ ~IsTuple(lines[1], "ATTR") /\ ~IsTuple(lines[1], "HEAD")
  BY <1>1, NewWire
<1>4. Dressed(lines, w)
  BY <1>1, <1>2, <1>3 DEF Dressed, IsElement
<1>5. ~Says(lines[1], "UniqueID")
  BY <1>3 DEF Says
<1>6. \A k \in 1..1 : k = 1
  OBVIOUS
<1> QED BY <1>1, <1>2, <1>3, <1>4, <1>5, <1>6, DressedLines DEF Plain, IsElement

(* of a wire that names its net, *)
LEMMA WireWithNet ==
  ASSUME NEW w \in Nat, NEW segments, NEW net, NEW lines,
         lines = <<makeWireLine(w, segments), makeAttrLine(w + 1, w, "NET", net)>>
  PROVE  /\ Plain(lines, w) /\ Len(lines) = 2 /\ AllHit(lines, {w})
         /\ IsElement(lines[1]) /\ lines[1].id = w
<1>1. /\ Len(lines) = 2 /\ DOMAIN lines = 1..2
      /\ lines[1] = makeWireLine(w, segments) /\ lines[2] = makeAttrLine(w + 1, w, "NET", net)
  OBVIOUS
<1>2. lines \in Seq(Range(lines))
  <2>1. lines \in [1..2 -> Range(lines)]
    BY <1>1 DEF Range
  <2> QED BY <2>1, AsSequence
<1>3. /\ Formed(lines[1]) /\ Identified(lines[1]) /\ lines[1].id = w
      /\ IsTuple(lines[1], "WIRE") /\ ~IsTuple(lines[1], "ATTR") /\ ~IsTuple(lines[1], "HEAD")
  BY <1>1, NewWire
<1>4. /\ Formed(lines[2]) /\ Identified(lines[2]) /\ lines[2].id = w + 1 /\ lines[2].parent = w
      /\ IsTuple(lines[2], "ATTR") /\ ~IsTuple(lines[2], "HEAD") /\ lines[2].key = "NET"
  BY <1>1, NewAttr
<1>5. \A k \in 2..2 : k = 2 /\ w + 1 = w + (k - 1)
  OBVIOUS
<1>6. Dressed(lines, w)
  BY <1>1, <1>2, <1>3, <1>4, <1>5 DEF Dressed, IsElement
<1>7. \A k \in 1..2 : ~Says(lines[k], "UniqueID")
  <2>1. \A k \in 1..2 : k = 1 \/ k = 2
    OBVIOUS
  <2> QED BY <2>1, <1>3, <1>4 DEF Says
<1> QED BY <1>1, <1>2, <1>3, <1>6, <1>7, DressedLines DEF Plain, IsElement

(* and of the symbol in addPowerSymbol. *)
LEMMA PowerBlock ==
  ASSUME NEW c \in Nat, NEW at \in Int \X Int, NEW rotation \in RightAngles, NEW symbol, NEW device, NEW net,
         NEW lines, lines = <<makeComponentLine(c, NoPart, at, rotation, 0),
                              makeAttrLine(c + 1, c, "Symbol", symbol),
                              makeAttrLine(c + 2, c, "Device", device),
                              makeAttrLine(c + 3, c, "Name", net),
                              makeAttrLine(c + 4, c, "Relevance", <<"none">>)>>
  PROVE  /\ Plain(lines, c) /\ Len(lines) = 5 /\ AllHit(lines, {c})
         /\ IsElement(lines[1]) /\ lines[1].id = c
<1>1. /\ Len(lines) = 5 /\ DOMAIN lines = 1..5
      /\ lines[1] = makeComponentLine(c, NoPart, at, rotation, 0)
      /\ lines[2] = makeAttrLine(c + 1, c, "Symbol", symbol)
      /\ lines[3] = makeAttrLine(c + 2, c, "Device", device)
      /\ lines[4] = makeAttrLine(c + 3, c, "Name", net)
      /\ lines[5] = makeAttrLine(c + 4, c, "Relevance", <<"none">>)
  OBVIOUS
<1>2. lines \in Seq(Range(lines))
  <2>1. lines \in [1..5 -> Range(lines)]
    BY <1>1 DEF Range
  <2> QED BY <2>1, AsSequence
<1>3. /\ Formed(lines[1]) /\ Identified(lines[1]) /\ lines[1].id = c
      /\ IsTuple(lines[1], "COMPONENT") /\ ~IsTuple(lines[1], "ATTR") /\ ~IsTuple(lines[1], "HEAD")
  BY <1>1, NewComponent
<1>4. \A k \in 2..5 : \E key \in {"Symbol", "Device", "Name", "Relevance"} : \E value :
         lines[k] = makeAttrLine(c + (k - 1), c, key, value)
  <2>1. \A k \in 2..5 : k = 2 \/ k = 3 \/ k = 4 \/ k = 5
    OBVIOUS
  <2>2. c + (2 - 1) = c + 1 /\ c + (3 - 1) = c + 2 /\ c + (4 - 1) = c + 3 /\ c + (5 - 1) = c + 4
    OBVIOUS
  <2> QED BY <2>1, <2>2, <1>1
<1>5. \A k \in 2..5 : /\ Formed(lines[k]) /\ Identified(lines[k]) /\ IsTuple(lines[k], "ATTR") /\ ~IsTuple(lines[k], "HEAD")
                      /\ lines[k].id = c + (k - 1) /\ lines[k].parent = c /\ ~Says(lines[k], "UniqueID")
  <2> TAKE k \in 2..5
  <2>0. PICK key \in {"Symbol", "Device", "Name", "Relevance"} : \E value : lines[k] = makeAttrLine(c + (k - 1), c, key, value)
    BY <1>4
  <2>1. PICK value : lines[k] = makeAttrLine(c + (k - 1), c, key, value)
    BY <2>0
  <2>2. c + (k - 1) \in Nat /\ key \notin {"Designator", "UniqueID"} /\ key # "UniqueID"
    BY <2>1
  <2>3. /\ Formed(lines[k]) /\ Identified(lines[k]) /\ IsTuple(lines[k], "ATTR") /\ ~IsTuple(lines[k], "HEAD")
        /\ lines[k].id = c + (k - 1) /\ lines[k].parent = c /\ lines[k].key = key
    BY <2>1, <2>2, NewAttr
  <2> QED BY <2>2, <2>3 DEF Says
<1>6. Dressed(lines, c)
  BY <1>1, <1>2, <1>3, <1>5 DEF Dressed, IsElement
<1>7. \A k \in 1..5 : ~Says(lines[k], "UniqueID")
  <2>1. \A k \in 1..5 : k = 1 \/ k \in 2..5
    OBVIOUS
  <2> QED BY <2>1, <1>3, <1>5 DEF Says
<1> QED BY <1>1, <1>2, <1>3, <1>6, <1>7, DressedLines DEF Plain, IsElement

(* The lines of addComponent: a part has a Unique ID of its own.           *)
PartLines(c, gge, part, at, rotation, symbol, device, designator) ==
  <<makeComponentLine(c, part, at, rotation, 0),
    makeAttrLine(c + 1, c, "Symbol", symbol),
    makeAttrLine(c + 2, c, "Designator", designator),
    makeAttrLine(c + 3, c, "Name", None),
    makeAttrLine(c + 4, c, "Device", device),
    makeAttrLine(c + 5, c, "ReuseBlock", None),
    makeAttrLine(c + 6, c, "GroupID", None),
    makeAttrLine(c + 7, c, "ChannelID", None),
    makeAttrLine(c + 8, c, "UniqueID", <<"gge", gge>>)>>

(* What they are made with, and what they are: a block. *)
PartMade(c, gge, at, rotation, designator) ==
  /\ c \in Nat /\ gge \in Nat /\ at \in Int \X Int /\ rotation \in RightAngles
  /\ Len(designator) = 2 => designator[2] \in Nat

Parted(lines, c, gge) ==
  /\ Block(lines, c, c + 9, gge) /\ Len(lines) = 9 /\ lines \in Seq(Range(lines))
  /\ AllHit(lines, {c}) /\ IsElement(lines[1]) /\ lines[1].id = c

(* The lines of addComponent are a block. *)
LEMMA PartBlock ==
  ASSUME NEW c, NEW gge, NEW part, NEW at, NEW rotation, NEW symbol, NEW device, NEW designator,
         PartMade(c, gge, at, rotation, designator),
         NEW lines, lines = PartLines(c, gge, part, at, rotation, symbol, device, designator)
  PROVE  Parted(lines, c, gge)
<1>0. c \in Nat /\ gge \in Nat /\ at \in Int \X Int /\ rotation \in RightAngles
  BY DEF PartMade
<1>k. Len(designator) = 2 => designator[2] \in Nat
  BY DEF PartMade
<1>1. /\ Len(lines) = 9 /\ DOMAIN lines = 1..9
      /\ lines[1] = makeComponentLine(c, part, at, rotation, 0)
      /\ lines[2] = makeAttrLine(c + 1, c, "Symbol", symbol)
      /\ lines[3] = makeAttrLine(c + 2, c, "Designator", designator)
      /\ lines[4] = makeAttrLine(c + 3, c, "Name", None)
      /\ lines[5] = makeAttrLine(c + 4, c, "Device", device)
      /\ lines[6] = makeAttrLine(c + 5, c, "ReuseBlock", None)
      /\ lines[7] = makeAttrLine(c + 6, c, "GroupID", None)
      /\ lines[8] = makeAttrLine(c + 7, c, "ChannelID", None)
      /\ lines[9] = makeAttrLine(c + 8, c, "UniqueID", <<"gge", gge>>)
  BY DEF PartLines
<1>2. lines \in Seq(Range(lines))
  <2>0. lines = [x \in 1..9 |-> lines[x]]
    BY <1>1 DEF PartLines
  <2>1. lines \in [1..9 -> Range(lines)]
    BY <2>0, <1>1 DEF Range
  <2> QED BY <2>1, AsSequence
<1>3. /\ Formed(lines[1]) /\ Identified(lines[1]) /\ lines[1].id = c
      /\ IsTuple(lines[1], "COMPONENT") /\ ~IsTuple(lines[1], "ATTR") /\ ~IsTuple(lines[1], "HEAD")
  BY <1>0, <1>1, NewComponent
<1>4. \A k \in 2..9 : \E key, value :
         /\ lines[k] = makeAttrLine(c + (k - 1), c, key, value)
         /\ key \notin {"Designator", "UniqueID"} \/ (Len(value) = 2 => value[2] \in Nat)
         /\ key = "UniqueID" => k = 9
  <2>1. \A k \in 2..9 : k = 2 \/ k = 3 \/ k = 4 \/ k = 5 \/ k = 6 \/ k = 7 \/ k = 8 \/ k = 9
    OBVIOUS
  <2>2. /\ c + (2 - 1) = c + 1 /\ c + (3 - 1) = c + 2 /\ c + (4 - 1) = c + 3 /\ c + (5 - 1) = c + 4
        /\ c + (6 - 1) = c + 5 /\ c + (7 - 1) = c + 6 /\ c + (8 - 1) = c + 7 /\ c + (9 - 1) = c + 8
    BY <1>0
  <2>3. <<"gge", gge>>[2] \in Nat
    BY <1>0
  <2> QED BY <2>1, <2>2, <2>3, <1>1, <1>k
<1>5. \A k \in 2..9 : /\ Formed(lines[k]) /\ Identified(lines[k]) /\ IsTuple(lines[k], "ATTR") /\ ~IsTuple(lines[k], "HEAD")
                      /\ lines[k].id = c + (k - 1) /\ lines[k].parent = c /\ (Says(lines[k], "UniqueID") => k = 9)
  <2> TAKE k \in 2..9
  <2>1. PICK key, value :
         /\ lines[k] = makeAttrLine(c + (k - 1), c, key, value)
         /\ key \notin {"Designator", "UniqueID"} \/ (Len(value) = 2 => value[2] \in Nat)
         /\ key = "UniqueID" => k = 9
    BY <1>4
  <2>2. c + (k - 1) \in Nat
    BY <1>0
  <2>3. /\ Formed(lines[k]) /\ Identified(lines[k]) /\ IsTuple(lines[k], "ATTR") /\ ~IsTuple(lines[k], "HEAD")
        /\ lines[k].id = c + (k - 1) /\ lines[k].parent = c /\ lines[k].key = key
    BY <2>1, <2>2, NewAttr
  <2> QED BY <2>1, <2>3 DEF Says
<1>6. Dressed(lines, c)
  BY <1>1, <1>2, <1>3, <1>5 DEF Dressed, IsElement
<1>7. \A k \in 1..9 : Says(lines[k], "UniqueID") => k = 9
  <2>1. \A k \in 1..9 : k = 1 \/ k \in 2..9
    OBVIOUS
  <2> QED BY <2>1, <1>3, <1>5 DEF Says
<1>8. lines[9].value = <<"gge", gge>> /\ lines[9].parent = c
  BY <1>1 DEF makeAttrLine
<1>9. NewUniqueId(lines, 9, gge)
  <2>1. 1 \in 1..(9 - 1)
    OBVIOUS
  <2> QED BY <2>1, <1>1, <1>3, <1>7, <1>8 DEF NewUniqueId
<1>10. \A k \in 1..9 : Says(lines[k], "UniqueID") => NewUniqueId(lines, k, gge)
  BY <1>7, <1>9
<1>11. /\ \A k \in 1..9 : NewLine(lines[k], c, c + 9)
       /\ Owned(lines, 1..9) /\ NamedOnce(lines, 1..9) /\ AllHit(lines, {c})
  <2>1. Len(lines) = 9
    BY <1>1
  <2> QED BY <2>1, <1>0, <1>6, DressedLines
<1>12. Block(lines, c, c + 9, gge)
  <2>1. Len(lines) = 9 /\ 9 \in Nat
    BY <1>1
  <2> QED BY <2>1, <1>10, <1>11 DEF Block, NewLine
<1> QED BY <1>1, <1>2, <1>3, <1>11, <1>12 DEF IsElement, Parted

LiveElement(m, s, e) == \E i \in Kept(m, s) : IsElement(Whole(m, s)[i]) /\ Whole(m, s)[i].id = e

(* t is s with lines that go when the elements in ids go.                   *)
GoesWith(line, first, ids) == Identified(line) /\ first <= line.id /\ Removable(line) /\ Hit(line, ids)
Adding(m, s, t, ids) ==
  /\ LinesOK(m, t)
  /\ t.companions = s.companions /\ t.nextDesignatorNum = s.nextDesignatorNum
  /\ s.nextElementId <= t.nextElementId
  /\ \A i \in Kept(m, s) : i \in Kept(m, t) /\ Whole(m, t)[i] = Whole(m, s)[i]
  /\ \A i \in Kept(m, t) : i \in Kept(m, s) \/ GoesWith(Whole(m, t)[i], s.nextElementId, ids)

(* A session adds nothing to itself. *)
LEMMA NothingAdded ==
  ASSUME NEW m, NEW s, LinesOK(m, s), NEW ids
  PROVE  Adding(m, s, s, ids)
<1>1. s.nextElementId <= s.nextElementId
  BY DEF LinesOK, WriterShape
<1> QED BY <1>1 DEF Adding

(* One block of lines more.                                                *)
LEMMA BlockAdded ==
  ASSUME NEW m, ModelOK(m), NEW s, WriterShape(s), NEW t, NEW ids, Adding(m, s, t, ids),
         NEW lines, lines \in Seq(Range(lines)), AllHit(lines, ids), Len(lines) >= 1, IsElement(lines[1]),
         NEW u, Block(lines, t.nextElementId, u.nextElementId, t.nextGgeId), Growth(t, u, lines),
         u.companions = t.companions, u.nextDesignatorNum = t.nextDesignatorNum
  PROVE  /\ Adding(m, s, u, ids) /\ LiveElement(m, u, lines[1].id)
         /\ \A e : LiveElement(m, t, e) => LiveElement(m, u, e)
<1>1. LinesOK(m, u) /\ GrownBy(m, t, u, lines)
  <2>1. LinesOK(m, t)
    BY DEF Adding
  <2> QED BY <2>1, Grown
<1>2. s.nextElementId \in Nat /\ t.nextElementId \in Nat /\ u.nextElementId \in Nat
      /\ s.nextElementId <= t.nextElementId /\ t.nextElementId <= u.nextElementId
  BY <1>1 DEF Adding, LinesOK, WriterShape, Growth
<1>3. Len(lines) \in Nat
  BY LenProperties
<1>4. \A k \in 1..Len(lines) : GoesWith(lines[k], s.nextElementId, ids)
  <2> TAKE k \in 1..Len(lines)
  <2>1. /\ Identified(lines[k]) /\ Formed(lines[k]) /\ t.nextElementId <= lines[k].id
        /\ Removable(lines[k]) /\ Hit(lines[k], ids)
    BY DEF Block, AllHit
  <2>2. lines[k].id \in Nat
    BY <2>1 DEF Formed
  <2>3. s.nextElementId <= lines[k].id
    BY <1>2, <2>1, <2>2
  <2> QED BY <2>1, <2>3 DEF GoesWith
<1>5. \A i \in Kept(m, s) : i \in Kept(m, u) /\ Whole(m, u)[i] = Whole(m, s)[i]
  BY <1>1 DEF Adding, GrownBy
<1>6. \A i \in Kept(m, u) : i \in Kept(m, s) \/ GoesWith(Whole(m, u)[i], s.nextElementId, ids)
  BY <1>1, <1>4 DEF Adding, GrownBy
<1>7. s.nextElementId <= u.nextElementId
  BY <1>2
<1>8. Adding(m, s, u, ids)
  BY <1>1, <1>5, <1>6, <1>7 DEF Adding
<1>9. LiveElement(m, u, lines[1].id)
  <2>1. 1 \in 1..Len(lines)
    BY <1>3
  <2> QED BY <2>1, <1>1 DEF GrownBy, LiveElement
<1>10. \A e : LiveElement(m, t, e) => LiveElement(m, u, e)
  BY <1>1 DEF GrownBy, LiveElement
<1> QED BY <1>8, <1>9, <1>10

(* What Appended changes. *)
LEMMA AppendedIs ==
  ASSUME NEW s, WriterShape(s), NEW lines, lines \in Seq(Range(lines)), NEW u, u = Appended(s, lines)
  PROVE  /\ WriterShape(u) /\ u.appended = s.appended \o lines /\ u.removed = s.removed /\ u.companions = s.companions
         /\ u.nextElementId = s.nextElementId + Len(lines) /\ u.nextGgeId = s.nextGgeId
         /\ u.nextDesignatorNum = s.nextDesignatorNum
<1>0. Len(lines) \in Nat
  BY LenProperties
<1> DEFINE both == s.appended \o lines   next == s.nextElementId + Len(lines)
<1>1. both \in Seq(Range(both))
  <2> DEFINE S == Range(s.appended) \cup Range(lines)   a == Len(s.appended)
  <2>0. /\ s.appended \in [1..a -> Range(s.appended)] /\ a \in Nat
        /\ lines \in [1..Len(lines) -> Range(lines)]
    BY LenProperties DEF WriterShape
  <2>1. s.appended \in [1..a -> S] /\ lines \in [1..Len(lines) -> S]
    <3> DEFINE A == Range(s.appended)  B == Range(lines)
    <3> HIDE DEF A, B
    <3>1. A \subseteq S /\ B \subseteq S
      BY DEF A, B
    <3>2. s.appended \in [1..a -> A] /\ lines \in [1..Len(lines) -> B]
      BY <2>0 DEF A, B
    <3> HIDE DEF S
    <3> QED BY <3>1, <3>2
  <2> HIDE DEF S
  <2>2. s.appended \in Seq(S) /\ lines \in Seq(S)
    BY <1>0, <2>0, <2>1, AsSequence
  <2>3. both \in Seq(S)
    BY <2>2
  <2>4. Len(both) \in Nat /\ both \in [1..Len(both) -> S] /\ DOMAIN both = 1..Len(both)
    BY <2>3, LenProperties
  <2> HIDE DEF both
  <2>5. both \in [1..Len(both) -> Range(both)]
    BY <2>4 DEF Range
  <2> QED BY <2>4, <2>5, AsSequence
<1> HIDE DEF both
<1>2. next \in Nat \ {0}
  BY <1>0 DEF WriterShape
<1> HIDE DEF next
<1>3. s = [appended |-> s.appended, removed |-> s.removed, companions |-> s.companions,
           nextElementId |-> s.nextElementId, nextGgeId |-> s.nextGgeId, nextDesignatorNum |-> s.nextDesignatorNum]
  BY DEF WriterShape
<1>4. u = [appended |-> both, removed |-> s.removed, companions |-> s.companions,
           nextElementId |-> next, nextGgeId |-> s.nextGgeId, nextDesignatorNum |-> s.nextDesignatorNum]
  <2>1. u = [s EXCEPT !.appended = both, !.nextElementId = next]
    BY DEF Appended, both, next
  <2> QED BY <2>1, <1>3
<1>5. s.nextGgeId \in Nat
  BY DEF WriterShape
<1> QED BY <1>1, <1>2, <1>4, <1>5 DEF WriterShape, both, next

(* A block without a Unique ID more. *)
LEMMA PlainAdded ==
  ASSUME NEW m, ModelOK(m), NEW s, WriterShape(s), NEW t, NEW ids, Adding(m, s, t, ids),
         NEW lines, Plain(lines, t.nextElementId), AllHit(lines, ids), Len(lines) >= 1, IsElement(lines[1]),
         NEW u, u = Appended(t, lines)
  PROVE  /\ Adding(m, s, u, ids) /\ LiveElement(m, u, lines[1].id)
         /\ \A e : LiveElement(m, t, e) => LiveElement(m, u, e)
         /\ u.nextElementId = t.nextElementId + Len(lines)
<1>1. WriterShape(t) /\ lines \in Seq(Range(lines)) /\ Len(lines) \in Nat /\ t.nextElementId \in Nat /\ t.nextGgeId \in Nat
  BY DEF Adding, LinesOK, WriterShape, Plain
<1>2. /\ WriterShape(u) /\ u.appended = t.appended \o lines /\ u.removed = t.removed /\ u.companions = t.companions
      /\ u.nextElementId = t.nextElementId + Len(lines) /\ u.nextGgeId = t.nextGgeId
      /\ u.nextDesignatorNum = t.nextDesignatorNum
  <2>1. WriterShape(u) /\ u.appended = t.appended \o lines
    BY <1>1, AppendedIs
  <2>2. u.removed = t.removed /\ u.companions = t.companions
    BY <1>1, AppendedIs
  <2>3. u.nextElementId = t.nextElementId + Len(lines) /\ u.nextGgeId = t.nextGgeId
    BY <1>1, AppendedIs
  <2>4. u.nextDesignatorNum = t.nextDesignatorNum
    BY <1>1, AppendedIs
  <2> QED BY <2>1, <2>2, <2>3, <2>4
<1>3. Block(lines, t.nextElementId, u.nextElementId, t.nextGgeId)
  BY <1>2, PlainBlock
<1>4. t.nextElementId <= t.nextElementId + Len(lines) /\ t.nextGgeId <= t.nextGgeId
  BY <1>1
<1>5. Growth(t, u, lines)
  BY <1>2, <1>4 DEF Growth, Plain
<1> QED BY <1>1, <1>2, <1>3, <1>5, BlockAdded

(* What Companions changes: nothing about the lines. *)
LEMMA CompanionsIs ==
  ASSUME NEW m, NEW t, LinesOK(m, t), NEW c, NEW ws, NEW u, u = Companions(t, c, ws)
  PROVE  /\ LinesOK(m, u) /\ Whole(m, u) = Whole(m, t) /\ Kept(m, u) = Kept(m, t)
         /\ u.nextElementId = t.nextElementId /\ u.nextDesignatorNum = t.nextDesignatorNum
         /\ DOMAIN u.companions = DOMAIN t.companions \cup {c}
         /\ \A e \in DOMAIN u.companions : u.companions[e] = IF e = c THEN ws ELSE t.companions[e]
<1> DEFINE comp == [e \in DOMAIN t.companions \cup {c} |-> IF e = c THEN ws ELSE t.companions[e]]
<1>1. t = [appended |-> t.appended, removed |-> t.removed, companions |-> t.companions,
           nextElementId |-> t.nextElementId, nextGgeId |-> t.nextGgeId, nextDesignatorNum |-> t.nextDesignatorNum]
  BY DEF LinesOK, WriterShape
<1>2. /\ DOMAIN comp = DOMAIN t.companions \cup {c}
      /\ \A e \in DOMAIN comp : comp[e] = IF e = c THEN ws ELSE t.companions[e]
  OBVIOUS
<1>3. u = [t EXCEPT !.companions = comp]
  BY DEF Companions
<1> HIDE DEF comp
<1>4. u = [appended |-> t.appended, removed |-> t.removed, companions |-> comp,
           nextElementId |-> t.nextElementId, nextGgeId |-> t.nextGgeId, nextDesignatorNum |-> t.nextDesignatorNum]
  BY <1>1, <1>3
<1>5. /\ u.appended = t.appended /\ u.removed = t.removed /\ u.companions = comp
      /\ u.nextElementId = t.nextElementId /\ u.nextGgeId = t.nextGgeId /\ u.nextDesignatorNum = t.nextDesignatorNum
  BY <1>4
<1>6. WriterShape(u)
  BY <1>4, <1>5 DEF LinesOK, WriterShape
<1>7. Whole(m, u) = Whole(m, t) /\ Kept(m, u) = Kept(m, t)
  BY <1>5 DEF Whole, Kept
<1>8. OneHeadOnly(m, u)
  BY <1>5 DEF LinesOK, OneHeadOnly
<1>9. IdsBehind(m, u)
  BY <1>5, <1>7 DEF LinesOK, IdsBehind
<1> QED BY <1>2, <1>5, <1>6, <1>7, <1>8, <1>9 DEF LinesOK

(* What has companions is on the page, and is no companion itself.         *)
CompanionsOK(m, s) ==
  \A e \in DOMAIN s.companions :
    /\ e \in Nat /\ e < s.nextElementId /\ LiveElement(m, s, e)
    /\ \A x \in s.companions[e] : x \in Nat /\ x < s.nextElementId /\ x \notin DOMAIN s.companions

(* Of what an edit made nothing is left, or all of it goes with the owner. *)
GoneTogether(m, s, d) ==
  /\ d.owner \in Nat /\ d.owner < s.nextElementId
  /\ \A x \in d.ids : x \in Nat /\ x < s.nextElementId
  /\ \/ \A i \in Kept(m, s) : Identified(Whole(m, s)[i]) => Whole(m, s)[i].id \notin d.ids
     \/ /\ d.owner \in DOMAIN s.companions
        /\ \A i \in Kept(m, s) : Identified(Whole(m, s)[i]) /\ Whole(m, s)[i].id \in d.ids =>
             /\ Removable(Whole(m, s)[i])
             /\ Hit(Whole(m, s)[i], {d.owner} \cup s.companions[d.owner])

Carries(m, s, D) ==
  /\ LinesOK(m, s) /\ CompanionsOK(m, s)
  /\ \A d \in D : "fresh" \in DOMAIN d /\ (d.fresh => GoneTogether(m, s, d))

(* d tells of an edit that made the ids from first to next - 1.             *)
Tells(d, first, next) == d.owner = first /\ d.ids = first..(next - 1) /\ "fresh" \in DOMAIN d

(* Companions of c, made with it.                                          *)
Partners(ws, c, next) == c < next /\ \A w \in ws : w \in Nat /\ c < w /\ w < next

(* u is s with what d tells of: the lines of t and the companions of c.    *)
Making(m, s, c, ws, t, u, d) ==
  /\ c = s.nextElementId
  /\ Adding(m, s, t, {c} \cup ws) /\ LiveElement(m, t, c)
  /\ Partners(ws, c, t.nextElementId)
  /\ u = Companions(t, c, ws) /\ Tells(d, c, t.nextElementId)

(* So an element that is made with its companions is one that can go with them. *)
LEMMA MadeCarried ==
  ASSUME NEW m, NEW s, NEW D, Carries(m, s, D),
         NEW c, NEW ws, NEW t, NEW u, NEW d, Making(m, s, c, ws, t, u, d)
  PROVE  /\ Carries(m, u, D \cup {d}) /\ u.nextElementId = t.nextElementId
         /\ u.nextDesignatorNum = s.nextDesignatorNum
<1>z. /\ c = s.nextElementId
      /\ Adding(m, s, t, {c} \cup ws) /\ LiveElement(m, t, c)
      /\ Partners(ws, c, t.nextElementId)
      /\ u = Companions(t, c, ws) /\ Tells(d, c, t.nextElementId)
  BY DEF Making
<1> DEFINE next == t.nextElementId
<1>0. /\ LinesOK(m, t) /\ t.companions = s.companions /\ t.nextDesignatorNum = s.nextDesignatorNum
      /\ \A i \in Kept(m, s) : i \in Kept(m, t) /\ Whole(m, t)[i] = Whole(m, s)[i]
      /\ \A i \in Kept(m, t) : i \in Kept(m, s) \/ GoesWith(Whole(m, t)[i], c, {c} \cup ws)
  BY <1>z DEF Adding
<1>d. d.owner = c /\ d.ids = c..(next - 1) /\ "fresh" \in DOMAIN d
  BY <1>z DEF Tells
<1>n. c \in Nat /\ next \in Nat
  BY <1>0, <1>z DEF Carries, LinesOK, WriterShape
<1>1. /\ LinesOK(m, u) /\ Whole(m, u) = Whole(m, t) /\ Kept(m, u) = Kept(m, t)
      /\ u.nextElementId = next /\ u.nextDesignatorNum = t.nextDesignatorNum
      /\ DOMAIN u.companions = DOMAIN s.companions \cup {c}
      /\ \A e \in DOMAIN u.companions : u.companions[e] = IF e = c THEN ws ELSE s.companions[e]
  <2>1. /\ LinesOK(m, u) /\ Whole(m, u) = Whole(m, t) /\ Kept(m, u) = Kept(m, t)
        /\ u.nextElementId = t.nextElementId /\ u.nextDesignatorNum = t.nextDesignatorNum
        /\ DOMAIN u.companions = DOMAIN t.companions \cup {c}
        /\ \A e \in DOMAIN u.companions : u.companions[e] = IF e = c THEN ws ELSE t.companions[e]
    BY <1>0, <1>z, CompanionsIs
  <2> QED BY <2>1, <1>0
<1> HIDE DEF next
<1>m. c < next
  BY <1>z DEF next, Partners
<1>2. \A i \in Kept(m, u) : \/ i \in Kept(m, s) /\ Whole(m, u)[i] = Whole(m, s)[i]
                            \/ GoesWith(Whole(m, u)[i], c, {c} \cup ws)
  BY <1>0, <1>1
<1>3. \A i \in Kept(m, s) : Identified(Whole(m, s)[i]) => Whole(m, s)[i].id < c
  BY <1>z DEF Carries, LinesOK, IdsBehind
<1>4. \A i \in Kept(m, u) : Identified(Whole(m, u)[i]) => Whole(m, u)[i].id \in Nat
  BY <1>1 DEF LinesOK, Consistent, Formed
<1>5. \A x \in Nat : x < c => x < next /\ x # c /\ ~(c < x)
  BY <1>n, <1>m
<1>6. CompanionsOK(m, u)
  <2> SUFFICES ASSUME NEW e \in DOMAIN u.companions
               PROVE  /\ e \in Nat /\ e < next /\ LiveElement(m, u, e)
                      /\ \A x \in u.companions[e] : x \in Nat /\ x < next /\ x \notin DOMAIN u.companions
    BY <1>1 DEF CompanionsOK
  <2>0. \A y \in DOMAIN s.companions : y \in Nat /\ y < c /\ LiveElement(m, s, y)
    BY <1>z DEF Carries, CompanionsOK
  <2>1. CASE e = c
    <3>1. LiveElement(m, u, e)
      BY <2>1, <1>1, <1>z DEF LiveElement
    <3>2. ASSUME NEW x \in ws PROVE x \in Nat /\ x < next /\ x \notin DOMAIN u.companions
      <4>1. x \in Nat /\ c < x /\ x < next
        BY <1>z DEF next, Partners
      <4>2. x # c /\ ~(x < c)
        BY <4>1, <1>n
      <4> QED BY <4>1, <4>2, <2>0, <1>1
    <3> QED BY <2>1, <3>1, <3>2, <1>1, <1>n, <1>m
  <2>2. CASE e # c
    <3>1. e \in DOMAIN s.companions /\ u.companions[e] = s.companions[e]
      BY <2>2, <1>1
    <3>2. LiveElement(m, u, e)
      <4>1. LiveElement(m, s, e)
        BY <3>1, <2>0
      <4> QED BY <4>1, <1>0, <1>1 DEF LiveElement
    <3>3. ASSUME NEW x \in s.companions[e] PROVE x \in Nat /\ x < next /\ x \notin DOMAIN u.companions
      <4>1. x \in Nat /\ x < c /\ x \notin DOMAIN s.companions
        BY <3>1, <1>z DEF Carries, CompanionsOK
      <4> QED BY <4>1, <1>1, <1>5
    <3> QED BY <3>1, <3>2, <3>3, <2>0, <1>5
  <2> QED BY <2>1, <2>2
<1>7. GoneTogether(m, u, d)
  <2>1. \A x \in d.ids : x \in Nat /\ c <= x /\ x < next
    BY <1>d, <1>n
  <2>2. d.owner \in DOMAIN u.companions /\ u.companions[d.owner] = ws
    BY <1>1, <1>d
  <2>3. ASSUME NEW i \in Kept(m, u), Identified(Whole(m, u)[i]), Whole(m, u)[i].id \in d.ids
        PROVE  Removable(Whole(m, u)[i]) /\ Hit(Whole(m, u)[i], {c} \cup ws)
    <3>1. GoesWith(Whole(m, u)[i], c, {c} \cup ws)
      <4> SUFFICES ASSUME i \in Kept(m, s), Whole(m, u)[i] = Whole(m, s)[i] PROVE FALSE
        BY <1>2
      <4>1. Whole(m, u)[i].id < c
        BY <2>3, <1>3
      <4>2. c <= Whole(m, u)[i].id /\ Whole(m, u)[i].id \in Nat
        BY <2>1, <2>3
      <4> QED BY <4>1, <4>2, <1>n
    <3> QED BY <3>1 DEF GoesWith
  <2>4. {d.owner} \cup u.companions[d.owner] = {c} \cup ws
    BY <2>2, <1>d
  <2>5. d.owner \in Nat /\ d.owner < u.nextElementId
    BY <1>d, <1>n, <1>1, <1>m
  <2>6. \A x \in d.ids : x \in Nat /\ x < u.nextElementId
    BY <2>1, <1>1
  <2>7. \A i \in Kept(m, u) : Identified(Whole(m, u)[i]) /\ Whole(m, u)[i].id \in d.ids =>
             /\ Removable(Whole(m, u)[i])
             /\ Hit(Whole(m, u)[i], {d.owner} \cup u.companions[d.owner])
    BY <2>3, <2>4
  <2> QED BY <2>2, <2>5, <2>6, <2>7 DEF GoneTogether
<1>8. ASSUME NEW f \in D, f.fresh PROVE GoneTogether(m, u, f)
  <2>0. GoneTogether(m, s, f)
    BY <1>8 DEF Carries
  <2>1. f.owner \in Nat /\ f.owner < next /\ f.owner # c /\ \A x \in f.ids : x \in Nat /\ x < next /\ x < c
    BY <2>0, <1>5, <1>z DEF GoneTogether
  <2>2. ASSUME NEW i \in Kept(m, u), Identified(Whole(m, u)[i]), Whole(m, u)[i].id \in f.ids
        PROVE  i \in Kept(m, s) /\ Whole(m, u)[i] = Whole(m, s)[i]
    <3> SUFFICES ASSUME GoesWith(Whole(m, u)[i], c, {c} \cup ws) PROVE FALSE
      BY <1>2
    <3>1. c <= Whole(m, u)[i].id /\ Whole(m, u)[i].id < c /\ Whole(m, u)[i].id \in Nat
      BY <2>1, <2>2, <1>4 DEF GoesWith
    <3> QED BY <3>1, <1>n
  <2>3. CASE \A i \in Kept(m, s) : Identified(Whole(m, s)[i]) => Whole(m, s)[i].id \notin f.ids
    <3>1. \A i \in Kept(m, u) : Identified(Whole(m, u)[i]) => Whole(m, u)[i].id \notin f.ids
      BY <2>2, <2>3
    <3> QED BY <3>1, <2>1, <1>1 DEF GoneTogether
  <2>4. CASE /\ f.owner \in DOMAIN s.companions
             /\ \A i \in Kept(m, s) : Identified(Whole(m, s)[i]) /\ Whole(m, s)[i].id \in f.ids =>
                  /\ Removable(Whole(m, s)[i])
                  /\ Hit(Whole(m, s)[i], {f.owner} \cup s.companions[f.owner])
    <3>1. f.owner \in DOMAIN u.companions /\ u.companions[f.owner] = s.companions[f.owner]
      BY <2>1, <2>4, <1>1
    <3>2. \A i \in Kept(m, u) : Identified(Whole(m, u)[i]) /\ Whole(m, u)[i].id \in f.ids =>
             /\ Removable(Whole(m, u)[i])
             /\ Hit(Whole(m, u)[i], {f.owner} \cup u.companions[f.owner])
      BY <2>2, <2>4, <3>1
    <3> QED BY <3>1, <3>2, <2>1, <1>1 DEF GoneTogether
  <2> QED BY <2>0, <2>3, <2>4 DEF GoneTogether
<1> QED BY <1>d, <1>0, <1>1, <1>6, <1>7, <1>8 DEF Carries, next

(* Where a part is placed outside a pin is a position. *)
LEMMA OutwardIsPoint ==
  ASSUME NEW pin, pin.at \in Int \X Int, pin.angle \in RightAngles, NEW distance \in Int
  PROVE  Plus(pin.at, pinOutwardOffset(pin, distance)) \in Int \X Int
<1>1. PICK x \in Int, y \in Int : pin.at = <<x, y>>
  OBVIOUS
<1>2. ASSUME NEW u \in Int, NEW v \in Int PROVE Plus(pin.at, <<u, v>>) \in Int \X Int
  <2>1. Plus(pin.at, <<u, v>>) = <<x + u, y + v>>
    BY <1>1 DEF Plus
  <2> QED BY <2>1
<1> DEFINE minus == -distance
<1>3. minus \in Int
  OBVIOUS
<1>4. pinOutwardOffset(pin, distance) =
        CASE pin.angle = 0   -> <<minus, 0>>
          [] pin.angle = 90  -> <<0, minus>>
          [] pin.angle = 180 -> <<distance, 0>>
          [] pin.angle = 270 -> <<0, distance>>
  BY DEF pinOutwardOffset
<1> HIDE DEF minus
<1>5. pin.angle = 0 \/ pin.angle = 90 \/ pin.angle = 180 \/ pin.angle = 270
  BY DEF RightAngles
<1>6. \/ pinOutwardOffset(pin, distance) = <<minus, 0>> \/ pinOutwardOffset(pin, distance) = <<0, minus>>
      \/ pinOutwardOffset(pin, distance) = <<distance, 0>> \/ pinOutwardOffset(pin, distance) = <<0, distance>>
  BY <1>4, <1>5
<1> QED BY <1>2, <1>3, <1>6

(* addNetportAt: the component goes with its wire, *)
LEMMA NetportCarried ==
  ASSUME ModelOK(model), NEW s, NEW D, Carries(model, s, D),
         NEW net, NEW at \in Int \X Int, NEW rotation \in RightAngles, NEW t, t = addNetportAt(s, net, at, rotation),
         NEW d, Tells(d, s.nextElementId, t.nextElementId)
  PROVE  Carries(model, t, D \cup {d}) /\ t.nextDesignatorNum = s.nextDesignatorNum
<1> DEFINE c == s.nextElementId
           symbol == model.palette.netport[1].symbol
           device == model.palette.netport[1].device
           lines == <<makeComponentLine(c, NoPart, at, rotation, 0),
                      makeAttrLine(c + 2, c, "Symbol", symbol),
                      makeAttrLine(c + 3, c, "Name", net),
                      makeAttrLine(c + 4, c, "Device", device),
                      makeAttrLine(c + 5, c, "Relevance", <<"none">>),
                      makeWireLine(c + 1, <<<<at, at>>>>),
                      makeAttrLine(c + 6, c + 1, "NET", net)>>
           u == Appended(s, lines)
           ws == {c + 1}
           ids == {c} \cup ws
<1>0. LinesOK(model, s) /\ WriterShape(s) /\ c \in Nat
  BY DEF Carries, LinesOK, WriterShape
<1>1. t = Companions(u, c, ws)
  BY DEF addNetportAt
<1> HIDE DEF c, symbol, device
<1>d. lines = <<makeComponentLine(c, NoPart, at, rotation, 0),
                makeAttrLine(c + 2, c, "Symbol", symbol),
                makeAttrLine(c + 3, c, "Name", net),
                makeAttrLine(c + 4, c, "Device", device),
                makeAttrLine(c + 5, c, "Relevance", <<"none">>),
                makeWireLine(c + 1, <<<<at, at>>>>),
                makeAttrLine(c + 6, c + 1, "NET", net)>>
  OBVIOUS
<1>e. u = Appended(s, lines)
  OBVIOUS
<1> HIDE DEF lines, u
<1>2. Plain(lines, c) /\ Len(lines) = 7 /\ AllHit(lines, {c, c + 1}) /\ IsElement(lines[1]) /\ lines[1].id = c
  BY <1>0, <1>d, NetportBlock
<1>3. Adding(model, s, s, ids)
  BY <1>0, NothingAdded
<1>4. AllHit(lines, ids)
  <2>1. ids = {c, c + 1}
    OBVIOUS
  <2> HIDE DEF ids
  <2> QED BY <2>1, <1>2
<1> HIDE DEF ids
<1>5. Adding(model, s, u, ids) /\ LiveElement(model, u, c) /\ u.nextElementId = c + 7
  <2>1. Len(lines) >= 1 /\ c = s.nextElementId
    BY <1>2 DEF c
  <2>2. Plain(lines, s.nextElementId)
    BY <1>2, <2>1
  <2>3. /\ Adding(model, s, u, ids) /\ LiveElement(model, u, lines[1].id)
        /\ u.nextElementId = s.nextElementId + Len(lines)
    <3>1. Adding(model, s, u, ids)
      BY <2>1, <2>2, <1>0, <1>2, <1>3, <1>4, <1>e, PlainAdded
    <3>2. LiveElement(model, u, lines[1].id)
      BY <2>1, <2>2, <1>0, <1>2, <1>3, <1>4, <1>e, PlainAdded
    <3>3. u.nextElementId = s.nextElementId + Len(lines)
      BY <2>2, <1>0, <1>e, AppendedIs DEF Plain
    <3> QED BY <3>1, <3>2, <3>3
  <2> QED BY <2>1, <2>3, <1>0, <1>2
<1>6. Partners(ws, c, u.nextElementId)
  BY <1>0, <1>5 DEF Partners
<1>8. t.nextElementId = u.nextElementId
  BY <1>1, <1>5, CompanionsIs DEF Adding
<1>9. Tells(d, c, u.nextElementId)
  BY <1>8 DEF c
<1>10. c = s.nextElementId
  BY DEF c
<1>11. ids = {c} \cup ws
  BY DEF ids
<1> HIDE DEF ws
<1>20. Making(model, s, c, ws, u, t, d)
  BY <1>1, <1>11, <1>5, <1>6, <1>9, <1>10 DEF Making
<1> QED BY <1>20, MadeCarried

(* placeResistor: the resistor with its junction, *)
LEMMA ResistorCarried ==
  ASSUME ModelOK(model), NEW s, NEW D, Carries(model, s, D),
         NEW pin, pin.at \in Int \X Int, pin.angle \in RightAngles,
         NEW designator, Len(designator) = 2 => designator[2] \in Nat, NEW t, t = placeResistor(s, pin, designator),
         NEW d, Tells(d, s.nextElementId, t.nextElementId)
  PROVE  Carries(model, t, D \cup {d}) /\ t.nextDesignatorNum = s.nextDesignatorNum
<1> DEFINE c == s.nextElementId
           gge == s.nextGgeId
           at == Plus(pin.at, pinOutwardOffset(pin, PinOffset))
           rotation == IF pin.angle \in {0, 180} THEN 0 ELSE 90
           symbol == model.palette.parts[Resistor][1].symbol
           device == model.palette.parts[Resistor][1].device
           lines == PartLines(c, gge, Resistor, at, rotation, symbol, device, designator)
           grown == Appended(s, lines)
           placedPart == [grown EXCEPT !.nextGgeId = @ + 1]
           w == placedPart.nextElementId
           wire == <<makeWireLine(w, <<<<pin.at, pin.at>>>>)>>
           joined == Appended(placedPart, wire)
           ws == {w}
           ids == {c} \cup ws
<1>0. LinesOK(model, s) /\ WriterShape(s) /\ c \in Nat /\ gge \in Nat
  BY DEF Carries, LinesOK, WriterShape
<1>1. t = Companions(joined, c, ws)
  BY ZenonT(40) DEF placeResistor, addComponent, addJunctionWire, PartLines
<1>2. at \in Int \X Int /\ rotation \in RightAngles
  BY OutwardIsPoint, OffsetAssumption DEF RightAngles
<1>n. c = s.nextElementId /\ gge = s.nextGgeId
  OBVIOUS
<1> HIDE DEF c, gge, at, rotation, symbol, device
<1>d. lines = PartLines(c, gge, Resistor, at, rotation, symbol, device, designator)
  OBVIOUS
<1>e. grown = Appended(s, lines) /\ w = placedPart.nextElementId /\ joined = Appended(placedPart, wire)
  OBVIOUS
<1>f. placedPart = [grown EXCEPT !.nextGgeId = @ + 1]
  OBVIOUS
<1>g. wire = <<makeWireLine(w, <<<<pin.at, pin.at>>>>)>>
  OBVIOUS
<1>h. ids = {c} \cup {w}
  OBVIOUS
<1> HIDE DEF lines, grown, placedPart, w, wire, joined, ids
<1>3. /\ Block(lines, c, c + 9, gge) /\ Len(lines) = 9 /\ lines \in Seq(Range(lines))
      /\ AllHit(lines, {c}) /\ IsElement(lines[1]) /\ lines[1].id = c
  <2>1. PartMade(c, gge, at, rotation, designator)
    BY <1>0, <1>2 DEF PartMade
  <2>2. Parted(lines, c, gge)
    BY <2>1, <1>d, PartBlock
  <2> QED BY <2>2 DEF Parted
<1>4. /\ WriterShape(grown) /\ grown.appended = s.appended \o lines /\ grown.removed = s.removed
      /\ grown.companions = s.companions /\ grown.nextElementId = c + 9 /\ grown.nextGgeId = gge
      /\ grown.nextDesignatorNum = s.nextDesignatorNum
  <2>1. /\ WriterShape(grown) /\ grown.appended = s.appended \o lines /\ grown.removed = s.removed
        /\ grown.companions = s.companions
        /\ grown.nextElementId = s.nextElementId + Len(lines) /\ grown.nextGgeId = s.nextGgeId
        /\ grown.nextDesignatorNum = s.nextDesignatorNum
    <3>0. WriterShape(s) /\ lines \in Seq(Range(lines)) /\ grown = Appended(s, lines)
      BY <1>0, <1>3, <1>e
    <3>1. WriterShape(grown) /\ grown.appended = s.appended \o lines
      BY <3>0, AppendedIs
    <3>2. grown.removed = s.removed /\ grown.companions = s.companions
      BY <3>0, AppendedIs
    <3>3. grown.nextElementId = s.nextElementId + Len(lines)
      BY <3>0, AppendedIs
    <3>4. grown.nextGgeId = s.nextGgeId /\ grown.nextDesignatorNum = s.nextDesignatorNum
      BY <3>0, AppendedIs
    <3> QED BY <3>1, <3>2, <3>3, <3>4
  <2>2. s.nextElementId + Len(lines) = c + 9
    BY <1>3, <1>n
  <2> QED BY <2>1, <2>2, <1>n
<1>5. /\ WriterShape(placedPart) /\ placedPart.appended = s.appended \o lines /\ placedPart.removed = s.removed
      /\ placedPart.companions = s.companions /\ placedPart.nextElementId = c + 9 /\ placedPart.nextGgeId = gge + 1
      /\ placedPart.nextDesignatorNum = s.nextDesignatorNum
  <2>1. grown = [appended |-> grown.appended, removed |-> grown.removed, companions |-> grown.companions,
                 nextElementId |-> grown.nextElementId, nextGgeId |-> grown.nextGgeId,
                 nextDesignatorNum |-> grown.nextDesignatorNum]
    BY <1>4 DEF WriterShape
  <2>2. placedPart = [appended |-> grown.appended, removed |-> grown.removed, companions |-> grown.companions,
                 nextElementId |-> grown.nextElementId, nextGgeId |-> grown.nextGgeId + 1,
                 nextDesignatorNum |-> grown.nextDesignatorNum]
    BY <2>1, <1>f
  <2>3. /\ placedPart.appended = grown.appended /\ placedPart.removed = grown.removed
        /\ placedPart.companions = grown.companions /\ placedPart.nextElementId = grown.nextElementId
        /\ placedPart.nextGgeId = grown.nextGgeId + 1 /\ placedPart.nextDesignatorNum = grown.nextDesignatorNum
    BY <2>2
  <2>4. grown.nextGgeId + 1 \in Nat
    BY <1>0, <1>4
  <2> QED BY <2>2, <2>3, <2>4, <1>4 DEF WriterShape
<1>6. w = c + 9 /\ w \in Nat
  BY <1>0, <1>5, <1>e
<1>7. Growth(s, placedPart, lines)
  <2>1. c <= c + 9 /\ gge <= gge + 1 /\ gge < gge + 1
    BY <1>0
  <2> QED BY <2>1, <1>3, <1>5, <1>n DEF Growth
<1>8. AllHit(lines, ids)
  BY <1>3, <1>h DEF AllHit, Hit
<1>9. Adding(model, s, s, ids)
  BY <1>0, NothingAdded
<1>10. Adding(model, s, placedPart, ids) /\ LiveElement(model, placedPart, c)
  <2>1. Len(lines) >= 1
    BY <1>3
  <2>2. Block(lines, s.nextElementId, placedPart.nextElementId, s.nextGgeId)
    BY <1>3, <1>5, <1>n
  <2> QED BY <2>1, <2>2, <1>0, <1>3, <1>5, <1>7, <1>8, <1>9, BlockAdded
<1>11. Plain(wire, w) /\ Len(wire) = 1 /\ AllHit(wire, {w}) /\ IsElement(wire[1])
  BY <1>6, <1>g, WireBlock
<1>12. AllHit(wire, ids)
  BY <1>11, <1>h DEF AllHit, Hit
<1>13. /\ Adding(model, s, joined, ids) /\ LiveElement(model, joined, c) /\ joined.nextElementId = c + 10
  <2>1. Len(wire) >= 1 /\ placedPart.nextElementId = w
    BY <1>11, <1>e
  <2>a. Plain(wire, placedPart.nextElementId)
    BY <1>11, <1>e
  <2>2. /\ Adding(model, s, joined, ids) /\ \A e : LiveElement(model, placedPart, e) => LiveElement(model, joined, e)
        /\ joined.nextElementId = placedPart.nextElementId + Len(wire)
    <3>1. Adding(model, s, joined, ids)
      BY <2>1, <2>a, <1>0, <1>10, <1>11, <1>12, <1>e, PlainAdded
    <3>2. \A e : LiveElement(model, placedPart, e) => LiveElement(model, joined, e)
      BY <2>1, <2>a, <1>0, <1>10, <1>11, <1>12, <1>e, PlainAdded
    <3>3. joined.nextElementId = placedPart.nextElementId + Len(wire)
      BY <2>a, <1>5, <1>e, AppendedIs DEF Plain
    <3> QED BY <3>1, <3>2, <3>3
  <2>3. placedPart.nextElementId + Len(wire) = c + 10
    BY <1>0, <1>5, <1>11
  <2> QED BY <2>2, <2>3, <1>10
<1>14. Partners(ws, c, joined.nextElementId)
  BY <1>0, <1>6, <1>13 DEF Partners
<1>16. t.nextElementId = joined.nextElementId
  BY <1>1, <1>13, CompanionsIs DEF Adding
<1>17. Tells(d, c, joined.nextElementId)
  BY <1>16, <1>n
<1>18. ids = {c} \cup ws
  BY DEF ids
<1> HIDE DEF ws
<1>20. Making(model, s, c, ws, joined, t, d)
  BY <1>1, <1>13, <1>14, <1>17, <1>18, <1>n DEF Making
<1> QED BY <1>20, MadeCarried

(* addPowerSymbol: the symbol with both of its wires. *)
LEMMA PowerCarried ==
  ASSUME ModelOK(model), NEW s, NEW D, Carries(model, s, D),
         NEW rail, NEW pin, pin.at \in Int \X Int, pin.angle \in RightAngles, NEW t, t = addPowerSymbol(s, rail, pin),
         NEW d, Tells(d, s.nextElementId, t.nextElementId)
  PROVE  Carries(model, t, D \cup {d}) /\ t.nextDesignatorNum = s.nextDesignatorNum
<1> DEFINE c == s.nextElementId
           symbol == model.palette.power[rail][1].symbol
           device == model.palette.power[rail][1].device
           lines == <<makeComponentLine(c, NoPart, pin.at, pin.angle, 0),
                      makeAttrLine(c + 1, c, "Symbol", symbol),
                      makeAttrLine(c + 2, c, "Device", device),
                      makeAttrLine(c + 3, c, "Name", rail),
                      makeAttrLine(c + 4, c, "Relevance", <<"none">>)>>
           drawn == Appended(s, lines)
           v == drawn.nextElementId
           wire == <<makeWireLine(v, <<<<pin.at, pin.at>>>>)>>
           joined == Appended(drawn, wire)
           w == joined.nextElementId
           named == <<makeWireLine(w, <<<<pin.at, pin.at>>>>), makeAttrLine(w + 1, w, "NET", rail)>>
           wired == Appended(joined, named)
           ws == {w - 1, w}
           ids == {c} \cup ws
<1>0. LinesOK(model, s) /\ WriterShape(s) /\ c \in Nat
  BY DEF Carries, LinesOK, WriterShape
<1>1. t = Companions(wired, c, ws)
  BY ZenonT(40) DEF addPowerSymbol, addJunctionWire
<1>n. c = s.nextElementId
  OBVIOUS
<1> HIDE DEF c, symbol, device
<1>d. lines = <<makeComponentLine(c, NoPart, pin.at, pin.angle, 0),
                      makeAttrLine(c + 1, c, "Symbol", symbol),
                      makeAttrLine(c + 2, c, "Device", device),
                      makeAttrLine(c + 3, c, "Name", rail),
                      makeAttrLine(c + 4, c, "Relevance", <<"none">>)>>
  OBVIOUS
<1>e. drawn = Appended(s, lines) /\ v = drawn.nextElementId /\ joined = Appended(drawn, wire)
  OBVIOUS
<1>f. w = joined.nextElementId /\ wired = Appended(joined, named)
  OBVIOUS
<1>g. wire = <<makeWireLine(v, <<<<pin.at, pin.at>>>>)>>
  OBVIOUS
<1>g2. named = <<makeWireLine(w, <<<<pin.at, pin.at>>>>), makeAttrLine(w + 1, w, "NET", rail)>>
  OBVIOUS
<1>h. ids = {c} \cup {w - 1, w}
  OBVIOUS
<1> HIDE DEF lines, drawn, v, wire, joined, w, named, wired, ids
<1>2. Plain(lines, c) /\ Len(lines) = 5 /\ AllHit(lines, {c}) /\ IsElement(lines[1]) /\ lines[1].id = c
  <2>1. Plain(lines, c)
    BY <1>0, <1>d, PowerBlock
  <2>2. Len(lines) = 5
    BY <1>0, <1>d, PowerBlock
  <2>3. AllHit(lines, {c})
    BY <1>0, <1>d, PowerBlock
  <2>4. IsElement(lines[1])
    BY <1>0, <1>d, PowerBlock
  <2>9. lines[1].id = c
    BY <1>d DEF makeComponentLine
  <2> QED BY <2>1, <2>2, <2>3, <2>4, <2>9
<1>3. AllHit(lines, ids)
  BY <1>2, <1>h DEF AllHit, Hit
<1>4. Adding(model, s, s, ids)
  BY <1>0, NothingAdded
<1>5. Adding(model, s, drawn, ids) /\ LiveElement(model, drawn, c) /\ drawn.nextElementId = c + 5
  <2>1. Len(lines) >= 1
    BY <1>2
  <2>2. Plain(lines, s.nextElementId)
    BY <1>2, <1>n
  <2>3. /\ Adding(model, s, drawn, ids) /\ LiveElement(model, drawn, lines[1].id)
        /\ drawn.nextElementId = s.nextElementId + Len(lines)
    <3>1. Adding(model, s, drawn, ids)
      BY <2>1, <2>2, <1>0, <1>2, <1>3, <1>4, <1>e, PlainAdded
    <3>2. LiveElement(model, drawn, lines[1].id)
      BY <2>1, <2>2, <1>0, <1>2, <1>3, <1>4, <1>e, PlainAdded
    <3>3. drawn.nextElementId = s.nextElementId + Len(lines)
      BY <2>2, <1>0, <1>e, AppendedIs DEF Plain
    <3> QED BY <3>1, <3>2, <3>3
  <2>4. s.nextElementId + Len(lines) = c + 5
    BY <1>2, <1>n
  <2> QED BY <2>3, <2>4, <1>2
<1>6. v = c + 5 /\ v \in Nat
  BY <1>0, <1>5, <1>e
<1>7. Plain(wire, v) /\ Len(wire) = 1 /\ AllHit(wire, {v}) /\ IsElement(wire[1])
  BY <1>6, <1>g, WireBlock
<1>8. joined.nextElementId = v + 1
  <2>1. WriterShape(drawn) /\ wire \in Seq(Range(wire))
    BY <1>5, <1>7 DEF Adding, LinesOK, Plain
  <2>2. joined.nextElementId = drawn.nextElementId + Len(wire)
    BY <2>1, <1>e, AppendedIs
  <2> QED BY <2>2, <1>7, <1>e
<1>9. w = c + 6 /\ w \in Nat /\ w - 1 = v
  BY <1>0, <1>6, <1>8, <1>f
<1>10. AllHit(wire, ids)
  BY <1>7, <1>9, <1>h DEF AllHit, Hit
<1>11. Adding(model, s, joined, ids) /\ LiveElement(model, joined, c)
  <2>1. Len(wire) >= 1 /\ drawn.nextElementId = v
    BY <1>7, <1>e
  <2>2. Plain(wire, drawn.nextElementId)
    BY <1>7, <2>1
  <2>3. /\ Adding(model, s, joined, ids) /\ \A e : LiveElement(model, drawn, e) => LiveElement(model, joined, e)
    BY <2>1, <2>2, <1>0, <1>5, <1>7, <1>10, <1>e, PlainAdded
  <2> QED BY <2>3, <1>5
<1>12. Plain(named, w) /\ Len(named) = 2 /\ AllHit(named, {w}) /\ IsElement(named[1])
  BY <1>9, <1>g2, WireWithNet
<1>13. AllHit(named, ids)
  BY <1>12, <1>h DEF AllHit, Hit
<1>14. Adding(model, s, wired, ids) /\ LiveElement(model, wired, c) /\ wired.nextElementId = c + 8
  <2>1. Len(named) >= 1 /\ joined.nextElementId = w
    BY <1>12, <1>f
  <2>a. Plain(named, joined.nextElementId)
    BY <1>12, <1>f
  <2>2. /\ Adding(model, s, wired, ids) /\ \A e : LiveElement(model, joined, e) => LiveElement(model, wired, e)
        /\ wired.nextElementId = joined.nextElementId + Len(named)
    <3>1. Adding(model, s, wired, ids)
      BY <2>1, <2>a, <1>0, <1>11, <1>12, <1>13, <1>f, PlainAdded
    <3>2. \A e : LiveElement(model, joined, e) => LiveElement(model, wired, e)
      BY <2>1, <2>a, <1>0, <1>11, <1>12, <1>13, <1>f, PlainAdded
    <3>3. wired.nextElementId = joined.nextElementId + Len(named)
      <4>1. WriterShape(joined)
        BY <1>11 DEF Adding, LinesOK
      <4> QED BY <4>1, <2>a, <1>f, AppendedIs DEF Plain
    <3> QED BY <3>1, <3>2, <3>3
  <2>3. joined.nextElementId + Len(named) = c + 8
    BY <2>1, <1>0, <1>9, <1>12
  <2> QED BY <2>2, <2>3, <1>11
<1>15. Partners(ws, c, wired.nextElementId)
  BY <1>0, <1>6, <1>9, <1>14 DEF Partners
<1>17. t.nextElementId = wired.nextElementId
  BY <1>1, <1>14, CompanionsIs DEF Adding
<1>18. Tells(d, c, wired.nextElementId)
  BY <1>17, <1>n
<1>19. ids = {c} \cup ws
  BY DEF ids
<1> HIDE DEF ws
<1>20. Making(model, s, c, ws, wired, t, d)
  BY <1>1, <1>14, <1>15, <1>18, <1>19, <1>n DEF Making
<1> QED BY <1>20, MadeCarried

(* What is left of the lines, at the places S, in their order.             *)
Leaves(order, S, out, lines) ==
  /\ Enumerates(order, S) /\ Len(out) = Len(order) /\ Len(order) \in Nat
  /\ \A k \in 1..Len(order) : out[k] = lines[order[k]]

(* Filtered leaves the lines at the places S. *)
LEMMA FilteredIs ==
  ASSUME NEW lines, lines \in Seq(Range(lines)), NEW S, S \subseteq 1..Len(lines), NEW out, out = Filtered(lines, S)
  PROVE  /\ out \in Seq(Range(out))
         /\ \E order : Leaves(order, S, out, lines)
<1> DEFINE order == InOrder(lines, S)
<1>0. Len(lines) \in Nat
  BY LenProperties
<1>1. Enumerates(order, S) /\ DOMAIN order = 1..Len(order) /\ Len(order) \in Nat
  BY <1>0, InOrderEnumerates, Ordered
<1>2. out = [k \in DOMAIN order |-> lines[order[k]]]
  BY DEF Filtered
<1> HIDE DEF order
<1>3. DOMAIN out = 1..Len(order) /\ \A k \in 1..Len(order) : out[k] = lines[order[k]]
  BY <1>1, <1>2
<1>4. out \in [1..Len(order) -> Range(out)]
  BY <1>1, <1>2, <1>3 DEF Range
<1>5. out \in Seq(Range(out)) /\ Len(out) = Len(order)
  BY <1>1, <1>4, AsSequence
<1>6. Leaves(order, S, out, lines)
  BY <1>1, <1>3, <1>5 DEF Leaves
<1> QED BY <1>5, <1>6

KnownHit(m, ids) == {i \in 1..Len(m.lines) : m.lines[i].kind = "known" /\ Hit(m.lines[i].data, ids)}

(* What removeAll changes. *)
LEMMA RemovedIs ==
  ASSUME ModelOK(model), NEW s, WriterShape(s), NEW ids, NEW t, t = removeAll(s, ids)
  PROVE  /\ WriterShape(t)
         /\ t.removed = s.removed \cup KnownHit(model, ids)
         /\ t.nextElementId = s.nextElementId /\ t.nextGgeId = s.nextGgeId
         /\ t.nextDesignatorNum = s.nextDesignatorNum
         /\ DOMAIN t.companions = DOMAIN s.companions \ ids
         /\ \A e \in DOMAIN t.companions : t.companions[e] = s.companions[e]
         /\ \E order : Leaves(order, {k \in 1..Len(s.appended) : ~Hit(s.appended[k], ids)}, t.appended, s.appended)
<1> DEFINE S == {k \in 1..Len(s.appended) : ~Hit(s.appended[k], ids)}
           left == Filtered(s.appended, S)
           gone == s.removed \cup KnownHit(model, ids)
           comp == [e \in DOMAIN s.companions \ ids |-> s.companions[e]]
<1>0. DOMAIN s.appended = 1..Len(s.appended) /\ DOMAIN model.lines = 1..Len(model.lines) /\ s.appended \in Seq(Range(s.appended))
  BY LenProperties DEF WriterShape, ModelOK
<1>1. t = [s EXCEPT !.removed = gone, !.appended = left, !.companions = comp]
  BY <1>0 DEF removeAll, Hit, KnownHit
<1>2. s = [appended |-> s.appended, removed |-> s.removed, companions |-> s.companions,
           nextElementId |-> s.nextElementId, nextGgeId |-> s.nextGgeId, nextDesignatorNum |-> s.nextDesignatorNum]
  BY DEF WriterShape
<1>3. DOMAIN comp = DOMAIN s.companions \ ids /\ \A e \in DOMAIN comp : comp[e] = s.companions[e]
  OBVIOUS
<1>4. S \subseteq 1..Len(s.appended)
  OBVIOUS
<1> HIDE DEF S
<1>5. left = Filtered(s.appended, S)
  OBVIOUS
<1> HIDE DEF left, gone, comp
<1>6. /\ left \in Seq(Range(left))
      /\ \E order : Leaves(order, S, left, s.appended)
  BY <1>0, <1>4, <1>5, FilteredIs
<1>7. t = [appended |-> left, removed |-> gone, companions |-> comp,
           nextElementId |-> s.nextElementId, nextGgeId |-> s.nextGgeId, nextDesignatorNum |-> s.nextDesignatorNum]
  BY <1>1, <1>2
<1>8. /\ t.appended = left /\ t.removed = gone /\ t.companions = comp
      /\ t.nextElementId = s.nextElementId /\ t.nextGgeId = s.nextGgeId /\ t.nextDesignatorNum = s.nextDesignatorNum
  BY <1>7
<1>9. WriterShape(t)
  BY <1>6, <1>7, <1>8 DEF WriterShape
<1>10. t.removed = s.removed \cup KnownHit(model, ids)
  BY <1>8 DEF gone
<1>11. \E order : Leaves(order, S, t.appended, s.appended)
  BY <1>6, <1>8
<1>12. DOMAIN t.companions = DOMAIN s.companions \ ids /\ \A e \in DOMAIN t.companions : t.companions[e] = s.companions[e]
  BY <1>3, <1>8
<1> QED BY <1>8, <1>9, <1>10, <1>11, <1>12 DEF S

(* The places that a removal leaves.                                       *)
Rest(m, s, ids) ==
  {i \in Kept(m, s) : ~(Hit(Whole(m, s)[i], ids) /\ (i \in 1..Len(m.lines) => m.lines[i].kind = "known"))}

(* Of elements and attributes just those are left that no id names. *)
LEMMA RestIs ==
  ASSUME NEW m, ModelOK(m), NEW s, LinesOK(m, s), NEW ids
  PROVE  /\ \A i \in Kept(m, s) : i \notin Rest(m, s, ids) => Hit(Whole(m, s)[i], ids)
         /\ \A i \in Kept(m, s) : Removable(Whole(m, s)[i]) =>
               (i \in Rest(m, s, ids) <=> ~Hit(Whole(m, s)[i], ids))
<1>1. \A i \in Kept(m, s) : i \notin Rest(m, s, ids) => Hit(Whole(m, s)[i], ids)
  BY DEF Rest
<1>2. ASSUME NEW i \in Kept(m, s), Removable(Whole(m, s)[i])
      PROVE  i \in Rest(m, s, ids) <=> ~Hit(Whole(m, s)[i], ids)
  <2>1. i \in 1..Len(m.lines) => m.lines[i].kind = "known"
    <3> SUFFICES ASSUME i \in 1..Len(m.lines) PROVE m.lines[i].kind = "known"
      OBVIOUS
    <3>0. Len(m.lines) \in Nat /\ Len(s.appended) \in Nat
      BY LenProperties DEF ModelOK, LinesOK, WriterShape
    <3>1. \A j \in 1..Len(m.lines) : Whole(m, s)[j] = m.lines[j].data
      BY <3>0, WholeIs
    <3>2. Removable(m.lines[i].data)
      BY <3>1, <1>2
    <3>3. m.lines[i].data.text = "tuple" /\ m.lines[i].data.tag \in EschSchemas
      BY <3>2 DEF Removable, IsElement, IsTuple, EschSchemas
    <3>4. m.lines[i].kind = Kind(m.lines[i].data, EschSchemas)
      BY DEF ModelOK
    <3> QED BY <3>3, <3>4 DEF Kind
  <2> QED BY <2>1 DEF Rest
<1> QED BY <1>1, <1>2

Source(m, s, t, order) ==
  [i \in Kept(m, t) |-> IF i \in 1..Len(m.lines) THEN i ELSE Len(m.lines) + order[i - Len(m.lines)]]

(* What removeAll keeps is what is left, with the appended lines moved up. *)
LEMMA RemovalRearranges ==
  ASSUME NEW m, ModelOK(m), NEW s, LinesOK(m, s), NEW ids,
         NEW t, t.removed = s.removed \cup KnownHit(m, ids), NEW order,
         Leaves(order, {k \in 1..Len(s.appended) : ~Hit(s.appended[k], ids)}, t.appended, s.appended)
  PROVE  Rearranges(Source(m, s, t, order), Whole(m, t), Kept(m, t), Whole(m, s), Rest(m, s, ids))
<1> DEFINE n == Len(m.lines)  a == Len(s.appended)  b == Len(order)
           S == {k \in 1..a : ~Hit(s.appended[k], ids)}
           src == Source(m, s, t, order)  old == Whole(m, s)  new == Whole(m, t)
           rest == Rest(m, s, ids)  kept == Kept(m, t)
<1>L. /\ Enumerates(order, S) /\ Len(t.appended) = b /\ b \in Nat
      /\ \A k \in 1..b : t.appended[k] = s.appended[order[k]]
  BY DEF Leaves
<1>0. n \in Nat /\ a \in Nat /\ b \in Nat /\ Len(t.appended) = b
  BY <1>L, LenProperties DEF ModelOK, LinesOK, WriterShape
<1>1. /\ \A k \in 1..b : order[k] \in S
      /\ \A k, l \in 1..b : k < l => order[k] < order[l]
      /\ \A x \in S : \E k \in 1..b : order[k] = x
  BY <1>L, ElementOfSeq DEF Enumerates
<1>2. \A k \in S : k \in 1..a /\ ~Hit(s.appended[k], ids)
  OBVIOUS
<1>S. \A k \in 1..a : ~Hit(s.appended[k], ids) => k \in S
  OBVIOUS
<1> HIDE DEF S
<1>3. /\ \A i \in 1..n : old[i] = m.lines[i].data /\ new[i] = m.lines[i].data
      /\ \A k \in 1..a : old[n + k] = s.appended[k]
      /\ \A k \in 1..b : new[n + k] = t.appended[k]
  BY <1>0, WholeIs
<1>4. /\ \A i \in kept : i \in 1..n \/ (i \notin 1..n /\ i - n \in 1..b /\ i = n + (i - n))
      /\ \A i \in 1..n : i \in kept <=> i \notin t.removed
      /\ \A k \in 1..b : n + k \in kept
      /\ kept \subseteq Int
  BY <1>0, KeptPlaces, KeptAppended
<1>5. /\ \A i \in Kept(m, s) : i \in 1..n \/ (i \notin 1..n /\ i - n \in 1..a /\ i = n + (i - n))
      /\ \A i \in 1..n : i \in Kept(m, s) <=> i \notin s.removed
      /\ \A k \in 1..a : n + k \in Kept(m, s)
      /\ Kept(m, s) \subseteq Int
  BY <1>0, KeptPlaces, KeptAppended
<1>6. \A i \in Kept(m, s) : i \in rest <=> ~(Hit(old[i], ids) /\ (i \in 1..n => m.lines[i].kind = "known"))
  BY DEF Rest
<1>7. rest \subseteq Kept(m, s)
  BY DEF Rest
<1>8. src = [i \in kept |-> IF i \in 1..n THEN i ELSE n + order[i - n]]
  BY DEF Source
<1>9. \A i \in 1..n : i \in t.removed <=> i \in s.removed \/ (m.lines[i].kind = "known" /\ Hit(m.lines[i].data, ids))
  BY DEF KnownHit
<1> HIDE DEF src, old, new, rest, kept
<1>10. \A i \in 1..n : i \in kept <=> i \in rest
  BY <1>3, <1>4, <1>5, <1>6, <1>7, <1>9
<1>11. \A k \in 1..a : n + k \in rest <=> k \in S
  <2> TAKE k \in 1..a
  <2>1. n + k \notin 1..n
    BY <1>0
  <2>2. n + k \in Kept(m, s) /\ old[n + k] = s.appended[k]
    BY <1>3, <1>5
  <2> QED BY <2>1, <2>2, <1>2, <1>S, <1>6
<1>12. \A i \in kept : \/ i \in 1..n /\ src[i] = i
                       \/ i \notin 1..n /\ i - n \in 1..b /\ src[i] = n + order[i - n] /\ i = n + (i - n)
  BY <1>4, <1>8
<1>13. \A k \in 1..b : order[k] \in 1..a /\ n + order[k] \notin 1..n
  <2> TAKE k \in 1..b
  <2>1. order[k] \in 1..a
    BY <1>1, <1>2
  <2> QED BY <2>1, <1>0
<1>14. src \in [kept -> rest]
  <2>1. \A i \in kept : src[i] \in rest
    BY <1>1, <1>10, <1>11, <1>12, <1>13
  <2> QED BY <2>1, <1>8
<1>15. \A k, l \in 1..b : order[k] = order[l] => k = l
  <2> TAKE k \in 1..b, l \in 1..b
  <2>1. order[k] \in Int /\ order[l] \in Int /\ k \in Int /\ l \in Int
    BY <1>13
  <2>2. ~(k < l) \/ ~(order[k] = order[l])
    BY <1>1, <2>1
  <2>3. ~(l < k) \/ ~(order[k] = order[l])
    BY <1>1, <2>1
  <2> QED BY <2>1, <2>2, <2>3
<1>16. ASSUME NEW i \in kept, NEW j \in kept, src[i] = src[j] PROVE i = j
  <2>1. CASE i \in 1..n /\ j \in 1..n
    BY <2>1, <1>12, <1>16
  <2>2. CASE i \in 1..n /\ j \notin 1..n
    <3>1. src[i] = i /\ src[j] = n + order[j - n] /\ n + order[j - n] \notin 1..n
      BY <2>2, <1>12, <1>13
    <3> QED BY <3>1, <2>2, <1>16
  <2>3. CASE i \notin 1..n /\ j \in 1..n
    <3>1. src[j] = j /\ src[i] = n + order[i - n] /\ n + order[i - n] \notin 1..n
      BY <2>3, <1>12, <1>13
    <3>2. i \in kept /\ j \in kept /\ src[i] = src[j]
      BY <1>16
    <3> QED BY <3>1, <3>2, <2>3
  <2>4. CASE i \notin 1..n /\ j \notin 1..n
    <3>1. n + order[i - n] = n + order[j - n] /\ i - n \in 1..b /\ j - n \in 1..b /\ i = n + (i - n) /\ j = n + (j - n)
      BY <2>4, <1>12, <1>16
    <3>2. order[i - n] = order[j - n]
      <4> DEFINE x == order[i - n]   y == order[j - n]
      <4>1. x \in Int /\ y \in Int /\ n + x = n + y /\ n \in Int
        BY <3>1, <1>13, <1>0
      <4> HIDE DEF x, y
      <4>2. x = y
        BY <4>1
      <4> QED BY <4>2 DEF x, y
    <3>3. i - n = j - n
      BY <3>1, <3>2, <1>15
    <3> QED BY <3>1, <3>3
  <2> QED BY <2>1, <2>2, <2>3, <2>4
<1>17. ASSUME NEW x \in rest PROVE \E i \in kept : src[i] = x
  <2>1. CASE x \in 1..n
    BY <2>1, <1>10, <1>12
  <2>2. CASE x \notin 1..n
    <3>1. x - n \in 1..a /\ x = n + (x - n)
      BY <2>2, <1>5, <1>7
    <3>2. x - n \in S
      BY <3>1, <1>11
    <3>3. PICK k \in 1..b : order[k] = x - n
      BY <3>2, <1>1
    <3>4. n + k \in kept /\ n + k \notin 1..n /\ (n + k) - n = k
      <4>1. n + k \in kept
        BY <1>4
      <4> QED BY <4>1, <1>0
    <3>5. src[n + k] = n + order[k]
      BY <3>4, <1>8
    <3> QED BY <3>1, <3>3, <3>4, <3>5
  <2> QED BY <2>1, <2>2
<1>18. ASSUME NEW i \in kept PROVE new[i] = old[src[i]]
  <2>1. CASE i \in 1..n
    BY <2>1, <1>3, <1>12
  <2>2. CASE i \notin 1..n
    <3>1. i - n \in 1..b /\ src[i] = n + order[i - n] /\ i = n + (i - n)
      BY <2>2, <1>12
    <3>2. new[n + (i - n)] = t.appended[i - n] /\ t.appended[i - n] = s.appended[order[i - n]]
      BY <3>1, <1>3, <1>L
    <3>3. old[n + order[i - n]] = s.appended[order[i - n]]
      BY <3>1, <1>3, <1>13
    <3> QED BY <3>1, <3>2, <3>3
  <2> QED BY <2>1, <2>2
<1>19. ASSUME NEW i \in kept, NEW j \in kept, i < j PROVE src[i] < src[j]
  <2>0. i \in Int /\ j \in Int
    BY <1>4
  <2>1. CASE i \in 1..n /\ j \in 1..n
    BY <2>1, <1>12, <1>19
  <2>2. CASE i \in 1..n /\ j \notin 1..n
    <3>1. src[i] = i /\ src[j] = n + order[j - n] /\ order[j - n] \in 1..a
      BY <2>2, <1>12, <1>13
    <3>2. i <= n /\ n < n + order[j - n]
      BY <3>1, <2>2, <1>0
    <3> QED BY <3>1, <3>2, <1>0, <2>0
  <2>3. CASE i \notin 1..n /\ j \in 1..n
    <3>1. i - n \in 1..b
      BY <2>3, <1>12
    <3>2. j <= n /\ n < i
      BY <2>0, <2>3, <3>1, <1>0
    <3> QED BY <3>2, <2>0, <1>0, <1>19
  <2>4. CASE i \notin 1..n /\ j \notin 1..n
    <3>1. src[i] = n + order[i - n] /\ src[j] = n + order[j - n] /\ i - n \in 1..b /\ j - n \in 1..b
      BY <2>4, <1>12
    <3>2. i - n < j - n
      BY <2>0, <1>0, <1>19
    <3>3. order[i - n] < order[j - n] /\ order[i - n] \in 1..a /\ order[j - n] \in 1..a
      BY <3>1, <3>2, <1>1, <1>13
    <3>4. n + order[i - n] < n + order[j - n]
      BY <3>3, <1>0
    <3> QED BY <3>1, <3>4
  <2> QED BY <2>1, <2>2, <2>3, <2>4
<1>20. rest \subseteq Int
  BY <1>5, <1>7
<1>21. Rearranges(src, new, kept, old, rest)
  BY <1>4, <1>14, <1>16, <1>17, <1>18, <1>19, <1>20 DEF Rearranges
<1> QED BY <1>21 DEF src, new, kept, old, rest

(* What t keeps is what s keeps, without what the ids name.                *)
Shrunk(m, s, t, ids) ==
  /\ \A i \in Kept(m, t) : \E j \in Rest(m, s, ids) : Whole(m, t)[i] = Whole(m, s)[j]
  /\ \A j \in Rest(m, s, ids) : \E i \in Kept(m, t) : Whole(m, t)[i] = Whole(m, s)[j]

(* So the lines of a session stay in order when some are removed, *)
LEMMA RemovedLines ==
  ASSUME ModelOK(model), NEW s, LinesOK(model, s), NEW ids, NEW t, t = removeAll(s, ids)
  PROVE  LinesOK(model, t) /\ Shrunk(model, s, t, ids)
<1> DEFINE m == model  old == Whole(m, s)  new == Whole(m, t)  rest == Rest(m, s, ids)
           S == {k \in 1..Len(s.appended) : ~Hit(s.appended[k], ids)}
<1>0. WriterShape(s) /\ Len(m.lines) \in Nat /\ Len(s.appended) \in Nat
  BY LenProperties DEF LinesOK, WriterShape, ModelOK
<1>1. /\ WriterShape(t) /\ t.removed = s.removed \cup KnownHit(m, ids)
      /\ t.nextElementId = s.nextElementId /\ t.nextGgeId = s.nextGgeId
  BY <1>0, RemovedIs
<1>r. \E order : Leaves(order, S, t.appended, s.appended)
  BY <1>0, RemovedIs
<1>2. PICK order : Leaves(order, S, t.appended, s.appended)
  BY <1>r
<1> DEFINE src == Source(m, s, t, order)
<1>3. Rearranges(src, new, Kept(m, t), old, rest)
  BY <1>1, <1>2, RemovalRearranges
<1>4. Consistent(old, Kept(m, s))
  BY DEF LinesOK
<1>5. /\ \A i \in Kept(m, s) : i \notin rest => Hit(old[i], ids)
      /\ \A i \in Kept(m, s) : Removable(old[i]) => (i \in rest <=> ~Hit(old[i], ids))
  BY RestIs
<1>6. rest \subseteq Kept(m, s)
  BY DEF Rest
<1>h. /\ \A i \in Kept(m, s) : IsTuple(old[i], "HEAD") => ~Hit(old[i], ids)
      /\ \A i \in 1..Len(m.lines) : i \in Kept(m, s) <=> i \notin s.removed
      /\ \A i \in 1..Len(m.lines) : old[i] = m.lines[i].data
      /\ \A i \in 1..Len(m.lines) : i \in s.removed => ~IsTuple(m.lines[i].data, "HEAD")
      /\ \A k \in 1..Len(s.appended) : ~IsTuple(s.appended[k], "HEAD")
  <2>1. \A i \in Kept(m, s) : Formed(old[i])
    BY <1>4 DEF Consistent
  <2>2. \A i \in Kept(m, s) : IsTuple(old[i], "HEAD") => ~Hit(old[i], ids)
    BY <2>1, ElementNamesItself
  <2>3. \A i \in 1..Len(m.lines) : i \in Kept(m, s) <=> i \notin s.removed
    BY <1>0, KeptPlaces
  <2>4. \A i \in 1..Len(m.lines) : old[i] = m.lines[i].data
    BY <1>0, WholeIs
  <2> QED BY <2>2, <2>3, <2>4 DEF LinesOK, OneHeadOnly
<1> HIDE DEF old, new, rest, src
<1>7. Consistent(old, rest)
  <2>1. \A i \in Kept(m, s) : IsElement(old[i]) \/ IsTuple(old[i], "ATTR") => (i \in rest <=> ~Hit(old[i], ids))
    BY <1>5 DEF Removable
  <2> QED BY <1>4, <1>5, <1>6, <2>1, RemainderConsistent
<1>8. Consistent(new, Kept(m, t))
  BY <1>3, <1>7, RearrangedConsistent
<1>9. /\ \A i \in Kept(m, t) : src[i] \in rest /\ new[i] = old[src[i]]
      /\ \A j \in rest : \E i \in Kept(m, t) : src[i] = j
  BY <1>3 DEF Rearranges
<1>10. OneHeadOnly(m, t)
  <2>1. ASSUME NEW i \in 1..Len(m.lines), i \in t.removed PROVE ~IsTuple(m.lines[i].data, "HEAD")
    <3>1. CASE i \in s.removed
      BY <3>1, <1>h
    <3>2. CASE i \notin s.removed
      <4>1. Hit(m.lines[i].data, ids)
        BY <1>1, <2>1, <3>2 DEF KnownHit
      <4> QED BY <4>1, <3>2, <1>h
    <3> QED BY <3>1, <3>2
  <2>2. ASSUME NEW k \in 1..Len(t.appended) PROVE ~IsTuple(t.appended[k], "HEAD")
    <3>1. Enumerates(order, S) /\ k \in 1..Len(order) /\ t.appended[k] = s.appended[order[k]]
      BY <1>2 DEF Leaves
    <3>2. order[k] \in S
      BY <3>1, ElementOfSeq DEF Enumerates
    <3> QED BY <3>1, <3>2, <1>h
  <2> QED BY <2>1, <2>2 DEF OneHeadOnly
<1>11. IdsBehind(m, t)
  <2>1. /\ \A i \in Kept(m, s) : Identified(old[i]) => old[i].id < s.nextElementId
        /\ \A i \in Kept(m, s), k \in Nat : Says(old[i], "UniqueID") /\ old[i].value = <<"gge", k>> => k < s.nextGgeId
    BY DEF LinesOK, IdsBehind, old
  <2>2. \A i \in Kept(m, t) : Identified(new[i]) => new[i].id < t.nextElementId
    BY <2>1, <1>1, <1>6, <1>9
  <2>3. \A i \in Kept(m, t), k \in Nat : Says(new[i], "UniqueID") /\ new[i].value = <<"gge", k>> => k < t.nextGgeId
    BY <2>1, <1>1, <1>6, <1>9
  <2> QED BY <2>2, <2>3 DEF IdsBehind, new
<1>12. LinesOK(m, t)
  BY <1>1, <1>8, <1>10, <1>11 DEF LinesOK, new
<1>13. Shrunk(m, s, t, ids)
  <2>1. \A i \in Kept(m, t) : \E j \in rest : new[i] = old[j]
    BY <1>9
  <2>2. \A j \in rest : \E i \in Kept(m, t) : new[i] = old[j]
    BY <1>9
  <2> QED BY <2>1, <2>2 DEF Shrunk, new, old, rest
<1> QED BY <1>12, <1>13

(* What goes with an element that is removed.                              *)
GoesToo(s, id) == {id} \cup IF id \in DOMAIN s.companions THEN s.companions[id] ELSE {}

(* and what an edit made goes whole or stays: removeElement follows the
   companions, which have none themselves. *)
LEMMA RemovalCarried ==
  ASSUME ModelOK(model), NEW s, NEW D, Carries(model, s, D), NEW id, NEW t, t = removeElement(s, id)
  PROVE  Carries(model, t, D) /\ t.nextDesignatorNum = s.nextDesignatorNum
<1> DEFINE m == model  ids == GoesToo(s, id)
<1>a. /\ LinesOK(m, s) /\ CompanionsOK(m, s)
      /\ \A d \in D : "fresh" \in DOMAIN d /\ (d.fresh => GoneTogether(m, s, d))
  BY DEF Carries
<1>b. t = removeAll(s, ids)
  BY DEF removeElement, GoesToo
<1>c. /\ id \in ids
      /\ id \in DOMAIN s.companions => ids = {id} \cup s.companions[id]
      /\ \A e \in ids : e \in DOMAIN s.companions => e = id
  <2>1. \A e \in ids : e = id \/ (id \in DOMAIN s.companions /\ e \in s.companions[id])
    BY DEF GoesToo
  <2>2. \A e \in ids : e \in DOMAIN s.companions => e = id
    BY <2>1, <1>a DEF CompanionsOK
  <2> QED BY <2>2 DEF GoesToo
<1> HIDE DEF ids
<1>1. LinesOK(m, t) /\ Shrunk(m, s, t, ids)
  BY <1>a, <1>b, RemovedLines
<1>w. WriterShape(s)
  BY <1>a DEF LinesOK
<1>2. /\ t.nextElementId = s.nextElementId /\ t.nextDesignatorNum = s.nextDesignatorNum
      /\ DOMAIN t.companions = DOMAIN s.companions \ ids
      /\ \A e \in DOMAIN t.companions : t.companions[e] = s.companions[e]
  BY <1>w, <1>b, RemovedIs
<1>3. /\ \A i \in Kept(m, s) : i \notin Rest(m, s, ids) => Hit(Whole(m, s)[i], ids)
      /\ \A i \in Kept(m, s) : Removable(Whole(m, s)[i]) => (i \in Rest(m, s, ids) <=> ~Hit(Whole(m, s)[i], ids))
      /\ Rest(m, s, ids) \subseteq Kept(m, s)
  BY <1>a, RestIs DEF Rest
<1>4. \A i \in Kept(m, s) : Formed(Whole(m, s)[i])
  BY <1>a DEF LinesOK, Consistent
<1>5. ASSUME NEW e, e \notin ids, LiveElement(m, s, e) PROVE LiveElement(m, t, e)
  <2>1. PICK j \in Kept(m, s) : IsElement(Whole(m, s)[j]) /\ Whole(m, s)[j].id = e
    BY <1>5 DEF LiveElement
  <2>2. ~Hit(Whole(m, s)[j], ids) /\ Removable(Whole(m, s)[j])
    BY <2>1, <1>4, <1>5, ElementNamesItself DEF Removable
  <2>3. j \in Rest(m, s, ids)
    BY <2>2, <1>3
  <2>4. PICK i \in Kept(m, t) : Whole(m, t)[i] = Whole(m, s)[j]
    BY <2>3, <1>1 DEF Shrunk
  <2> QED BY <2>1, <2>4 DEF LiveElement
<1>6. CompanionsOK(m, t)
  <2> SUFFICES ASSUME NEW e \in DOMAIN t.companions
               PROVE  /\ e \in Nat /\ e < t.nextElementId /\ LiveElement(m, t, e)
                      /\ \A x \in t.companions[e] : x \in Nat /\ x < t.nextElementId /\ x \notin DOMAIN t.companions
    BY DEF CompanionsOK
  <2>1. e \in DOMAIN s.companions /\ e \notin ids /\ t.companions[e] = s.companions[e]
    BY <1>2
  <2>2. /\ e \in Nat /\ e < s.nextElementId /\ LiveElement(m, s, e)
        /\ \A x \in s.companions[e] : x \in Nat /\ x < s.nextElementId /\ x \notin DOMAIN s.companions
    BY <2>1, <1>a DEF CompanionsOK
  <2>3. LiveElement(m, t, e)
    BY <2>1, <2>2, <1>5
  <2>4. \A x \in t.companions[e] : x \in Nat /\ x < t.nextElementId /\ x \notin DOMAIN t.companions
    BY <2>1, <2>2, <1>2
  <2> QED BY <2>2, <2>3, <2>4, <1>2
<1>7. ASSUME NEW d \in D, d.fresh PROVE GoneTogether(m, t, d)
  <2>1. GoneTogether(m, s, d)
    BY <1>a, <1>7
  <2>2. /\ d.owner \in Nat /\ d.owner < t.nextElementId
        /\ \A x \in d.ids : x \in Nat /\ x < t.nextElementId
    BY <2>1, <1>2 DEF GoneTogether
  <2>3. CASE \A i \in Kept(m, s) : Identified(Whole(m, s)[i]) => Whole(m, s)[i].id \notin d.ids
    <3>1. \A i \in Kept(m, t) : Identified(Whole(m, t)[i]) => Whole(m, t)[i].id \notin d.ids
      BY <2>3, <1>1, <1>3 DEF Shrunk
    <3> QED BY <2>2, <3>1 DEF GoneTogether
  <2>4. CASE /\ d.owner \in DOMAIN s.companions
             /\ \A i \in Kept(m, s) : Identified(Whole(m, s)[i]) /\ Whole(m, s)[i].id \in d.ids =>
                  /\ Removable(Whole(m, s)[i])
                  /\ Hit(Whole(m, s)[i], {d.owner} \cup s.companions[d.owner])
    <3>1. CASE d.owner \in ids
      <4>1. ids = {d.owner} \cup s.companions[d.owner]
        BY <3>1, <2>4, <1>c
      <4>2. \A j \in Rest(m, s, ids) : Identified(Whole(m, s)[j]) => Whole(m, s)[j].id \notin d.ids
        BY <4>1, <2>4, <1>3
      <4>3. \A i \in Kept(m, t) : Identified(Whole(m, t)[i]) => Whole(m, t)[i].id \notin d.ids
        BY <4>2, <1>1 DEF Shrunk
      <4> QED BY <2>2, <4>3 DEF GoneTogether
    <3>2. CASE d.owner \notin ids
      <4>1. d.owner \in DOMAIN t.companions /\ t.companions[d.owner] = s.companions[d.owner]
        BY <3>2, <2>4, <1>2
      <4>2. \A j \in Rest(m, s, ids) : Identified(Whole(m, s)[j]) /\ Whole(m, s)[j].id \in d.ids =>
                  /\ Removable(Whole(m, s)[j])
                  /\ Hit(Whole(m, s)[j], {d.owner} \cup t.companions[d.owner])
        BY <4>1, <2>4, <1>3
      <4>3. \A i \in Kept(m, t) : Identified(Whole(m, t)[i]) /\ Whole(m, t)[i].id \in d.ids =>
                  /\ Removable(Whole(m, t)[i])
                  /\ Hit(Whole(m, t)[i], {d.owner} \cup t.companions[d.owner])
        BY <4>2, <1>1 DEF Shrunk
      <4> QED BY <2>2, <4>1, <4>3 DEF GoneTogether
    <3> QED BY <3>1, <3>2
  <2> QED BY <2>1, <2>3, <2>4 DEF GoneTogether
<1>8. Carries(m, t, D)
  BY <1>a, <1>1, <1>6, <1>7 DEF Carries
<1> QED BY <1>2, <1>8

(* The next number of each prefix is behind those that are taken: by the   *)
(* page as it was loaded, and by what the session allocated.               *)
Taken(next, g) == g[1] \in DOMAIN next /\ g[2] \in Nat /\ g[2] < next[g[1]]
NumbersAhead(next) == \A p \in DOMAIN next : next[p] \in Nat
LoadedBehind(m, next) == \A c \in Range(m.components) : Len(c.designator) = 2 => Taken(next, c.designator)

Allocated(d) == d.fresh /\ d.auto # None
AllocatedBehind(next, D) == \A d \in D : Allocated(d) => Len(d.auto) = 2 /\ d.auto = <<d.auto[1], d.auto[2]>> /\ Taken(next, d.auto)
AllocatedOnce(m, D) ==
  \A d \in D : Allocated(d) => /\ \A c \in Range(m.components) : c.designator # d.auto
                               /\ \A e \in D : Allocated(e) /\ e.auto = d.auto => e = d
DesignatorsOK(m, next, D) ==
  NumbersAhead(next) /\ LoadedBehind(m, next) /\ AllocatedBehind(next, D) /\ AllocatedOnce(m, D)

(* A number that is free is not taken by anything yet.                     *)
LEMMA NumberAllocated ==
  ASSUME NEW m, NEW next, NEW D, DesignatorsOK(m, next, D), NEW prefix,
         NEW num, num = IF prefix \in DOMAIN next THEN next[prefix] ELSE 1,
         NEW after, after = [p \in DOMAIN next \cup {prefix} |-> IF p = prefix THEN num + 1 ELSE next[p]]
  PROVE  /\ num \in Nat /\ Taken(after, <<prefix, num>>) /\ ~Taken(next, <<prefix, num>>)
         /\ DesignatorsOK(m, after, D)
<1>0. /\ NumbersAhead(next) /\ LoadedBehind(m, next) /\ AllocatedBehind(next, D) /\ AllocatedOnce(m, D)
  BY DEF DesignatorsOK
<1>1. num \in Nat
  BY <1>0 DEF NumbersAhead
<1>2. /\ DOMAIN after = DOMAIN next \cup {prefix} /\ after[prefix] = num + 1
      /\ \A p \in DOMAIN next : p # prefix => after[p] = next[p]
      /\ \A p \in DOMAIN next : p = prefix => next[p] = num
  OBVIOUS
<1>3. Taken(after, <<prefix, num>>) /\ ~Taken(next, <<prefix, num>>)
  BY <1>1, <1>2 DEF Taken
<1>4. NumbersAhead(after)
  BY <1>0, <1>1, <1>2 DEF NumbersAhead
<1>5. ASSUME NEW g, Taken(next, g) PROVE Taken(after, g)
  <2>1. g[1] \in DOMAIN next /\ g[2] \in Nat /\ g[2] < next[g[1]] /\ next[g[1]] \in Nat
    BY <1>5, <1>0 DEF Taken, NumbersAhead
  <2>2. g[1] \in DOMAIN after /\ g[2] < after[g[1]]
    <3>1. CASE g[1] = prefix
      BY <2>1, <3>1, <1>1, <1>2
    <3>2. CASE g[1] # prefix
      BY <2>1, <3>2, <1>2
    <3> QED BY <3>1, <3>2
  <2> QED BY <2>1, <2>2 DEF Taken
<1>6. LoadedBehind(m, after) /\ AllocatedBehind(after, D)
  BY <1>0, <1>5 DEF LoadedBehind, AllocatedBehind
<1> QED BY <1>0, <1>1, <1>3, <1>4, <1>6 DEF DesignatorsOK

(* An edit may tell of a number that was free before it. *)
LEMMA AllocatedAdded ==
  ASSUME NEW m, NEW next, NEW D, DesignatorsOK(m, next, D), NEW after, DesignatorsOK(m, after, D),
         NEW prefix, NEW num, num \in Nat, Taken(after, <<prefix, num>>), ~Taken(next, <<prefix, num>>),
         NEW d, d.auto = <<prefix, num>>
  PROVE  DesignatorsOK(m, after, D \cup {d})
<1> DEFINE g == <<prefix, num>>
<1>0. Len(g) = 2 /\ g[1] = prefix /\ g[2] = num /\ g = <<g[1], g[2]>>
  OBVIOUS
<1>1. /\ LoadedBehind(m, next) /\ AllocatedBehind(next, D) /\ AllocatedOnce(m, D)
      /\ NumbersAhead(after) /\ LoadedBehind(m, after) /\ AllocatedBehind(after, D)
  BY DEF DesignatorsOK
<1>2. d.auto = g /\ Taken(after, g) /\ ~Taken(next, g)
  OBVIOUS
<1> HIDE DEF g
<1>3. \A c \in Range(m.components) : c.designator # g
  BY <1>0, <1>1, <1>2 DEF LoadedBehind
<1>4. \A e \in D : Allocated(e) => e.auto # g
  BY <1>1, <1>2 DEF AllocatedBehind
<1>5. AllocatedBehind(after, D \cup {d})
  <2> SUFFICES ASSUME NEW e \in D \cup {d}, Allocated(e)
               PROVE Len(e.auto) = 2 /\ e.auto = <<e.auto[1], e.auto[2]>> /\ Taken(after, e.auto)
    BY DEF AllocatedBehind
  <2>1. CASE e \in D
    BY <2>1, <1>1 DEF AllocatedBehind
  <2>2. CASE e = d
    BY <2>2, <1>0, <1>2
  <2> QED BY <2>1, <2>2
<1>6. AllocatedOnce(m, D \cup {d})
  <2> SUFFICES ASSUME NEW e \in D \cup {d}, Allocated(e)
               PROVE  /\ \A c \in Range(m.components) : c.designator # e.auto
                      /\ \A f \in D \cup {d} : Allocated(f) /\ f.auto = e.auto => f = e
    BY DEF AllocatedOnce
  <2>1. CASE e = d
    BY <2>1, <1>2, <1>3, <1>4
  <2>2. CASE e \in D
    <3>1. e.auto # g
      BY <2>2, <1>4
    <3>2. /\ \A c \in Range(m.components) : c.designator # e.auto
          /\ \A f \in D : Allocated(f) /\ f.auto = e.auto => f = e
      BY <2>2, <1>1 DEF AllocatedOnce
    <3> QED BY <3>1, <3>2, <1>2
  <2> QED BY <2>1, <2>2
<1> QED BY <1>1, <1>5, <1>6 DEF DesignatorsOK

(* What nobody allocated a designator for changes nothing here.            *)
LEMMA ChosenAdded ==
  ASSUME NEW m, NEW next, NEW D, DesignatorsOK(m, next, D), NEW d, d.auto = None
  PROVE  DesignatorsOK(m, next, D \cup {d})
<1>1. /\ NumbersAhead(next) /\ LoadedBehind(m, next) /\ AllocatedBehind(next, D) /\ AllocatedOnce(m, D)
  BY DEF DesignatorsOK
<1>2. ~Allocated(d)
  BY DEF Allocated
<1>3. AllocatedBehind(next, D \cup {d})
  BY <1>1, <1>2 DEF AllocatedBehind
<1>4. AllocatedOnce(m, D \cup {d})
  <2> SUFFICES ASSUME NEW e \in D \cup {d}, Allocated(e)
               PROVE  /\ \A c \in Range(m.components) : c.designator # e.auto
                      /\ \A f \in D \cup {d} : Allocated(f) /\ f.auto = e.auto => f = e
    BY DEF AllocatedOnce
  <2>1. e \in D
    BY <1>2
  <2>2. /\ \A c \in Range(m.components) : c.designator # e.auto
        /\ \A f \in D : Allocated(f) /\ f.auto = e.auto => f = e
    BY <2>1, <1>1 DEF AllocatedOnce
  <2> QED BY <2>2, <1>2
<1> QED BY <1>1, <1>3, <1>4 DEF DesignatorsOK

(* g is a designator that was free before it was allocated.                *)
NewNumber(next, after, g) ==
  \E prefix : \E num \in Nat : /\ g = <<prefix, num>> /\ Taken(after, <<prefix, num>>)
                               /\ ~Taken(next, <<prefix, num>>)

(* allocDesignator takes a free number and changes nothing else. *)
LEMMA AllocationCarried ==
  ASSUME NEW m, NEW s, NEW D, Carries(m, s, D), DesignatorsOK(m, s.nextDesignatorNum, D),
         NEW prefix, NEW named, named = allocDesignator(s, prefix)
  PROVE  /\ Carries(m, named.session, D) /\ DesignatorsOK(m, named.session.nextDesignatorNum, D)
         /\ NewNumber(s.nextDesignatorNum, named.session.nextDesignatorNum, named.designator)
<1> DEFINE next == s.nextDesignatorNum
           num == IF prefix \in DOMAIN next THEN next[prefix] ELSE 1
           after == [p \in DOMAIN next \cup {prefix} |-> IF p = prefix THEN num + 1 ELSE next[p]]
           t == named.session
<1>1. named.session = [s EXCEPT !.nextDesignatorNum = after] /\ named.designator = <<prefix, num>>
  BY DEF allocDesignator
<1>2. num \in Nat /\ Taken(after, <<prefix, num>>) /\ ~Taken(next, <<prefix, num>>) /\ DesignatorsOK(m, after, D)
  BY NumberAllocated
<1> HIDE DEF after, num
<1>3. s = [appended |-> s.appended, removed |-> s.removed, companions |-> s.companions,
           nextElementId |-> s.nextElementId, nextGgeId |-> s.nextGgeId, nextDesignatorNum |-> s.nextDesignatorNum]
  BY DEF Carries, LinesOK, WriterShape
<1>4. t = [appended |-> s.appended, removed |-> s.removed, companions |-> s.companions,
           nextElementId |-> s.nextElementId, nextGgeId |-> s.nextGgeId, nextDesignatorNum |-> after]
  BY <1>1, <1>3
<1>5. /\ t.appended = s.appended /\ t.removed = s.removed /\ t.companions = s.companions
      /\ t.nextElementId = s.nextElementId /\ t.nextGgeId = s.nextGgeId /\ t.nextDesignatorNum = after
  BY <1>4
<1> HIDE DEF t
<1>6. WriterShape(t)
  BY <1>4, <1>5 DEF Carries, LinesOK, WriterShape
<1>7. Whole(m, t) = Whole(m, s) /\ Kept(m, t) = Kept(m, s)
  BY <1>5 DEF Whole, Kept
<1>8. LinesOK(m, t)
  <2>1. OneHeadOnly(m, t)
    BY <1>5 DEF Carries, LinesOK, OneHeadOnly
  <2>2. IdsBehind(m, t)
    BY <1>5, <1>7 DEF Carries, LinesOK, IdsBehind
  <2> QED BY <2>1, <2>2, <1>6, <1>7 DEF Carries, LinesOK
<1>9. CompanionsOK(m, t)
  BY <1>5, <1>7 DEF Carries, CompanionsOK, LiveElement
<1>10. \A d \in D : "fresh" \in DOMAIN d /\ (d.fresh => GoneTogether(m, t, d))
  <2>1. \A d \in D : GoneTogether(m, s, d) => GoneTogether(m, t, d)
    BY <1>5, <1>7 DEF GoneTogether
  <2> QED BY <2>1 DEF Carries
<1>11. Carries(m, t, D)
  BY <1>8, <1>9, <1>10 DEF Carries
<1>12. NewNumber(next, after, named.designator)
  BY <1>1, <1>2 DEF NewNumber
<1> QED BY <1>2, <1>5, <1>11, <1>12 DEF t

SessionOK(m, s, D) == ModelOK(m) /\ Carries(m, s, D) /\ DesignatorsOK(m, s.nextDesignatorNum, D)

PinOK(pin) == pin.at \in Int \X Int /\ pin.angle \in RightAngles

PartOK(part) ==
  /\ DOMAIN part.pins \subseteq Nat
  /\ \A k \in DOMAIN part.pins : part.pins[k].at \in Int \X Int /\ part.pins[k].angle \in RightAngles

(* A part that findComponent finds is one of the page, *)
LEMMA PartFound ==
  ASSUME ModelOK(model), NEW ref, NEW part, part = findComponent(ref), part # None
  PROVE  PartOK(part[1])
<1> DEFINE parts == {n \in DOMAIN model.components :
                       \/ model.components[n].designator = ref
                       \/ <<"e", model.components[n].elementId>> = ref}
<1>1. part = IF parts = {} THEN None ELSE <<model.components[Min(parts)]>>
  BY ZenonT(40) DEF findComponent
<1>2. parts # {} /\ part = <<model.components[Min(parts)]>>
  BY <1>1, ZenonT(40)
<1>3. parts \subseteq Nat /\ parts \subseteq DOMAIN model.components
  BY DEF ModelOK
<1>4. \A n \in DOMAIN model.components : PartOK(model.components[n])
  BY DEF ModelOK, PinsOK, PartOK
<1> HIDE DEF parts
<1>5. Min(parts) \in parts
  BY <1>2, <1>3, MinOf
<1>6. part[1] = model.components[Min(parts)]
  BY <1>2
<1> QED BY <1>3, <1>4, <1>5, <1>6

(* and a pin that findPin finds stands at integers and a right angle. *)
LEMMA PinFound ==
  ASSUME ModelOK(model), NEW ref, NEW pin, pin = findPin(ref), pin # None
  PROVE  PinOK(pin[1])
<1> DEFINE part == findComponent(ref[1])
           pins == IF part = None THEN <<>> ELSE part[1].pins
           hits == {n \in DOMAIN pins : ref[3] = IF ref[2] = "." THEN pins[n].number ELSE pins[n].name}
<1>1. pin = IF hits = {} THEN None ELSE <<pins[Min(hits)]>>
  BY ZenonT(40) DEF findPin
<1> HIDE DEF part
<1>2. hits # {} /\ pin = <<pins[Min(hits)]>>
  BY <1>1, ZenonT(40)
<1>3. part # None
  <2> SUFFICES ASSUME part = None PROVE hits = {}
    BY <1>2, ZenonT(40)
  <2>1. pins = <<>>
    OBVIOUS
  <2> HIDE DEF pins
  <2>2. DOMAIN pins = {}
    BY <2>1
  <2> QED BY <2>2
<1>4. PartOK(part[1])
  BY <1>3, PartFound DEF part
<1>5. pins = part[1].pins
  BY <1>3
<1>6. /\ DOMAIN pins \subseteq Nat
      /\ \A k \in DOMAIN pins : pins[k].at \in Int \X Int /\ pins[k].angle \in RightAngles
  BY <1>4, <1>5 DEF PartOK
<1> HIDE DEF pins
<1>7. Min(hits) \in hits
  <2>1. hits \subseteq Nat
    BY <1>6
  <2> HIDE DEF hits
  <2> QED BY <2>1, <1>2, MinOf
<1>8. Min(hits) \in DOMAIN pins
  BY <1>7
<1> HIDE DEF hits
<1>9. pin[1] = pins[Min(hits)]
  BY <1>2
<1> QED BY <1>6, <1>8, <1>9 DEF PinOK

(* What Made tells of. *)
LEMMA MadeTells ==
  ASSUME NEW kind, NEW first, NEW last, NEW at, NEW net, NEW port, NEW auto,
         NEW d, d = Made(kind, first, last, at, net, port, auto)
  PROVE  Tells(d, first, last) /\ d.auto = auto
BY DEF Made, Tells

(* A netport that is made, *)
LEMMA NetportMade ==
  ASSUME NEW s, NEW D, SessionOK(model, s, D), NEW at, NEW angle, at \in Int \X Int, angle \in RightAngles,
         NEW net, NEW t, t = addNetportAt(s, net, at, angle),
         NEW d, Tells(d, s.nextElementId, t.nextElementId), d.auto = None
  PROVE  SessionOK(model, t, D \cup {d})
<1>1. Carries(model, t, D \cup {d}) /\ t.nextDesignatorNum = s.nextDesignatorNum
  BY NetportCarried DEF SessionOK
<1>2. DesignatorsOK(model, s.nextDesignatorNum, D \cup {d})
  BY ChosenAdded DEF SessionOK
<1> QED BY <1>1, <1>2 DEF SessionOK

(* a power symbol, *)
LEMMA PowerMade ==
  ASSUME NEW s, NEW D, SessionOK(model, s, D), NEW pin, PinOK(pin),
         NEW rail, NEW t, t = addPowerSymbol(s, rail, pin),
         NEW d, Tells(d, s.nextElementId, t.nextElementId), d.auto = None
  PROVE  SessionOK(model, t, D \cup {d})
<1>1. Carries(model, t, D \cup {d}) /\ t.nextDesignatorNum = s.nextDesignatorNum
  BY PowerCarried DEF SessionOK, PinOK
<1>2. DesignatorsOK(model, s.nextDesignatorNum, D \cup {d})
  BY ChosenAdded DEF SessionOK
<1> QED BY <1>1, <1>2 DEF SessionOK

(* Only a prefix and a number are a designator of two parts.               *)
NumberOK(designator) == Len(designator) = 2 => designator[2] \in Nat

(* a resistor, as placeResistor places it, *)
LEMMA ResistorPlaced ==
  ASSUME ModelOK(model), NEW s, NEW D, Carries(model, s, D), NEW pin, PinOK(pin),
         NEW designator, NumberOK(designator), NEW t, t = placeResistor(s, pin, designator),
         NEW d, Tells(d, s.nextElementId, t.nextElementId)
  PROVE  Carries(model, t, D \cup {d}) /\ t.nextDesignatorNum = s.nextDesignatorNum
BY ResistorCarried DEF PinOK, NumberOK

(* with a designator that the caller chose, *)
LEMMA ChosenResistorMade ==
  ASSUME NEW s, NEW D, SessionOK(model, s, D), NEW pin, PinOK(pin),
         NEW designator, NumberOK(designator),
         NEW t, t = placeResistor(s, pin, designator),
         NEW d, Tells(d, s.nextElementId, t.nextElementId), d.auto = None
  PROVE  SessionOK(model, t, D \cup {d})
<1>1. Carries(model, t, D \cup {d}) /\ t.nextDesignatorNum = s.nextDesignatorNum
  BY ResistorPlaced DEF SessionOK
<1>2. DesignatorsOK(model, s.nextDesignatorNum, D \cup {d})
  BY ChosenAdded DEF SessionOK
<1> QED BY <1>1, <1>2 DEF SessionOK

(* and with one that was allocated. *)
LEMMA NumberedResistorMade ==
  ASSUME ModelOK(model), NEW next, NEW D, DesignatorsOK(model, next, D),
         NEW s, Carries(model, s, D), DesignatorsOK(model, s.nextDesignatorNum, D),
         NEW designator, NewNumber(next, s.nextDesignatorNum, designator), NEW pin, PinOK(pin),
         NEW t, t = placeResistor(s, pin, designator),
         NEW d, Tells(d, s.nextElementId, t.nextElementId), d.auto = designator
  PROVE  SessionOK(model, t, D \cup {d})
<1>p. PICK prefix : \E num \in Nat : /\ designator = <<prefix, num>>
                                      /\ Taken(s.nextDesignatorNum, <<prefix, num>>) /\ ~Taken(next, <<prefix, num>>)
  BY DEF NewNumber
<1>1. PICK num \in Nat : /\ designator = <<prefix, num>>
                         /\ Taken(s.nextDesignatorNum, <<prefix, num>>) /\ ~Taken(next, <<prefix, num>>)
  BY <1>p
<1>2. NumberOK(designator)
  BY <1>1 DEF NumberOK
<1>3. Carries(model, t, D \cup {d}) /\ t.nextDesignatorNum = s.nextDesignatorNum
  BY <1>2, ResistorPlaced
<1>4. d.auto = <<prefix, num>>
  BY <1>1
<1>5. DesignatorsOK(model, s.nextDesignatorNum, D \cup {d})
  BY <1>1, <1>4, AllocatedAdded
<1> QED BY <1>3, <1>5 DEF SessionOK

(* An allocated designator may stay unused. *)
LEMMA AllocationKept ==
  ASSUME NEW s, NEW D, SessionOK(model, s, D), NEW prefix
  PROVE  SessionOK(model, allocDesignator(s, prefix).session, D)
BY AllocationCarried DEF SessionOK

WriterOK(pg, m, ss, D) ==
  /\ isPipeFormatSource(pg) \/ WellFormed(pg)
  /\ \A d \in D : "fresh" \in DOMAIN d
  /\ ss # None => ss = <<ss[1]>> /\ SessionOK(m, ss[1], D)

WriterInv == WriterOK(page, model, session, done)

(* An edit that leaves its session in order keeps the invariant. *)
LEMMA EditKept ==
  ASSUME WriterInv, NEW t, NEW what, SessionOK(model, t, done \cup what), Makes(t, what)
  PROVE  WriterInv'
<1>1. page' = page /\ model' = model /\ session' = <<t>> /\ done' = done \cup what
  BY DEF Makes
<1>2. session' = <<session'[1]>> /\ session'[1] = t
  BY <1>1
<1>3. SessionOK(model', session'[1], done')
  BY <1>1, <1>2
<1>4. \A d \in done' : "fresh" \in DOMAIN d
  BY <1>1 DEF SessionOK, Carries
<1>5. isPipeFormatSource(page') \/ WellFormed(page')
  BY <1>1 DEF WriterInv, WriterOK
<1>6. WriterOK(page', model', session', done')
  BY <1>2, <1>3, <1>4, <1>5 DEF WriterOK
<1> QED BY <1>6 DEF WriterInv

(* The edits, one by one: AddNetport, *)
LEMMA NetportKept ==
  ASSUME WriterInv, NEW ref, NEW net, AddNetport(ref, net)
  PROVE  WriterInv'
<1> DEFINE pin == findPin(ref)  s == session[1]
           t == addNetportAt(s, net, pin[1].at, pin[1].angle)
           d == Made("netport", s.nextElementId, t.nextElementId, pin[1].at, net, 0, None)
<1>1. session # None /\ pin # None /\ Makes(t, {d})
  BY DEF AddNetport, Open
<1>2. SessionOK(model, s, done)
  BY <1>1 DEF WriterInv, WriterOK
<1>3. PinOK(pin[1])
  BY <1>1, <1>2, PinFound DEF SessionOK
<1>4. Tells(d, s.nextElementId, t.nextElementId) /\ d.auto = None
  BY MadeTells
<1>5. t = addNetportAt(s, net, pin[1].at, pin[1].angle)
  OBVIOUS
<1>6. pin[1].at \in Int \X Int /\ pin[1].angle \in RightAngles
  BY <1>3 DEF PinOK
<1> HIDE DEF pin, s, t, d
<1>7. SessionOK(model, t, done \cup {d})
  BY <1>2, <1>4, <1>5, <1>6, NetportMade
<1> QED BY <1>1, <1>7, EditKept

(* AddPowerSymbol, *)
LEMMA PowerKept ==
  ASSUME WriterInv, NEW ref, NEW rail, AddPowerSymbol(ref, rail)
  PROVE  WriterInv'
<1> DEFINE pin == findPin(ref)  s == session[1]
           t == addPowerSymbol(s, rail, pin[1])
           d == Made("power", s.nextElementId, t.nextElementId, pin[1].at, rail, 0, None)
<1>1. session # None /\ pin # None /\ Makes(t, {d})
  BY DEF AddPowerSymbol, Open
<1>2. SessionOK(model, s, done)
  BY <1>1 DEF WriterInv, WriterOK
<1>3. PinOK(pin[1])
  BY <1>1, <1>2, PinFound DEF SessionOK
<1>4. Tells(d, s.nextElementId, t.nextElementId) /\ d.auto = None
  BY MadeTells
<1>5. t = addPowerSymbol(s, rail, pin[1])
  OBVIOUS
<1> HIDE DEF pin, s, t, d
<1>7. SessionOK(model, t, done \cup {d})
  BY <1>2, <1>3, <1>4, <1>5, PowerMade
<1> QED BY <1>1, <1>7, EditKept

(* The resistor, whoever chose its designator, and whatever it tells.       *)
LEMMA ResistorMade ==
  ASSUME WriterInv, Open, NEW chosen \in Designators,
         NEW named, named = IF chosen = None THEN allocDesignator(session[1], "R")
                            ELSE [session |-> session[1], designator |-> chosen],
         NEW pin, PinOK(pin), NEW t, t = placeResistor(named.session, pin, named.designator),
         NEW d, Tells(d, named.session.nextElementId, t.nextElementId),
         d.auto = IF chosen = None THEN named.designator ELSE None
  PROVE  SessionOK(model, t, done \cup {d})
<1> DEFINE s == session[1]
<1>1. SessionOK(model, s, done)
  BY DEF WriterInv, WriterOK, Open
<1>2. CASE chosen = None
  <2> DEFINE u == named.session  g == named.designator
  <2>1. named = allocDesignator(s, "R")
    BY <1>2
  <2>2. ModelOK(model) /\ Carries(model, s, done) /\ DesignatorsOK(model, s.nextDesignatorNum, done)
    BY <1>1 DEF SessionOK
  <2>3. /\ Carries(model, u, done) /\ DesignatorsOK(model, u.nextDesignatorNum, done)
        /\ NewNumber(s.nextDesignatorNum, u.nextDesignatorNum, g)
    BY <2>1, <2>2, AllocationCarried
  <2>4. t = placeResistor(u, pin, g) /\ Tells(d, u.nextElementId, t.nextElementId) /\ d.auto = g
    BY <1>2
  <2> HIDE DEF u, g, s
  <2> QED BY <2>2, <2>3, <2>4, NumberedResistorMade
<1>3. CASE chosen # None
  <2>1. named = [session |-> session[1], designator |-> chosen]
    BY <1>3
  <2>2. named.session = s /\ named.designator = chosen
    BY <2>1
  <2>3. NumberOK(chosen)
    BY DesignatorsAssumption DEF NumberOK
  <2>4. t = placeResistor(s, pin, chosen) /\ Tells(d, s.nextElementId, t.nextElementId) /\ d.auto = None
    BY <1>3, <2>2
  <2> HIDE DEF s
  <2> QED BY <1>1, <2>3, <2>4, ChosenResistorMade
<1> QED BY <1>2, <1>3

(* AddSeriesResistor with each of its outcomes, *)
LEMMA ResistorKept ==
  ASSUME WriterInv, NEW ref, NEW net, NEW chosen \in Designators, AddSeriesResistor(ref, net, chosen)
  PROVE  WriterInv'
<1> DEFINE named == IF chosen = None THEN allocDesignator(session[1], "R")
                    ELSE [session |-> session[1], designator |-> chosen]
           s == named.session
           pin == findPin(ref)
           t == placeResistor(s, pin[1], named.designator)
           u == addNetportAt(t, net, farEnd(pin[1]), pin[1].angle)
           auto == IF chosen = None THEN named.designator ELSE None
           d(port) == Made("resistor", s.nextElementId, t.nextElementId, pin[1].at, net, port, auto)
           e == Made("netport", t.nextElementId, u.nextElementId, farEnd(pin[1]), net, 0, None)
<1>1. /\ Open
      /\ \/ chosen = None /\ Makes(s, {})
         \/ pin # None /\ Makes(t, {d(0)})
         \/ pin # None /\ Makes(u, {d(t.nextElementId), e})
  BY DEF AddSeriesResistor
<1>2. SessionOK(model, session[1], done)
  BY <1>1 DEF WriterInv, WriterOK, Open
<1>3. CASE chosen = None /\ Makes(s, {})
  <2>1. s = allocDesignator(session[1], "R").session
    BY <1>3
  <2>2. SessionOK(model, s, done)
    BY <1>2, <2>1, AllocationKept
  <2>3. done \cup {} = done /\ Makes(s, {})
    BY <1>3
  <2> HIDE DEF s
  <2>4. SessionOK(model, s, done \cup {})
    BY <2>2, <2>3
  <2> QED BY <2>3, <2>4, EditKept
<1>4. ASSUME pin # None, NEW port PROVE PinOK(pin[1]) /\ SessionOK(model, t, done \cup {d(port)})
  <2>1. PinOK(pin[1])
    BY <1>2, <1>4, PinFound DEF SessionOK
  <2>2. Tells(d(port), s.nextElementId, t.nextElementId) /\ d(port).auto = auto
    BY MadeTells
  <2>3. t = placeResistor(named.session, pin[1], named.designator)
    OBVIOUS
  <2>4. named = IF chosen = None THEN allocDesignator(session[1], "R")
                ELSE [session |-> session[1], designator |-> chosen]
    OBVIOUS
  <2> DEFINE dp == d(port)  p == pin[1]
  <2>5. /\ Tells(dp, named.session.nextElementId, t.nextElementId)
        /\ dp.auto = IF chosen = None THEN named.designator ELSE None
    BY <2>2
  <2>6. t = placeResistor(named.session, p, named.designator) /\ PinOK(p)
    BY <2>1, <2>3
  <2> HIDE DEF dp, t, named, p, pin
  <2>7. SessionOK(model, t, done \cup {dp})
    BY <1>1, <2>4, <2>5, <2>6, ResistorMade
  <2> QED BY <2>1, <2>7 DEF dp, p
<1>5. CASE pin # None /\ Makes(t, {d(0)})
  <2>1. SessionOK(model, t, done \cup {d(0)})
    BY <1>4, <1>5
  <2> HIDE DEF t, d
  <2> QED BY <1>5, <2>1, EditKept
<1>6. CASE pin # None /\ Makes(u, {d(t.nextElementId), e})
  <2> DEFINE dp == d(t.nextElementId)  at == farEnd(pin[1])  angle == pin[1].angle
  <2>1. SessionOK(model, t, done \cup {dp}) /\ PinOK(pin[1])
    BY <1>4, <1>6
  <2>2. at \in Int \X Int /\ angle \in RightAngles
    <3>1. 2 * PinOffset \in Int
      BY OffsetAssumption
    <3> DEFINE p == pin[1]
    <3>2. p.at \in Int \X Int /\ p.angle \in RightAngles
      BY <2>1 DEF PinOK
    <3> HIDE DEF p
    <3>3. farEnd(p) \in Int \X Int
      BY <3>1, <3>2, OutwardIsPoint DEF farEnd
    <3> QED BY <3>2, <3>3 DEF p
  <2>3. Tells(e, t.nextElementId, u.nextElementId) /\ e.auto = None
    BY MadeTells
  <2>4. u = addNetportAt(t, net, at, angle) /\ Makes(u, {dp, e})
    BY <1>6
  <2> HIDE DEF dp, at, angle, t, u, e
  <2>5. SessionOK(model, u, (done \cup {dp}) \cup {e})
    BY <2>1, <2>2, <2>3, <2>4, NetportMade
  <2>6. (done \cup {dp}) \cup {e} = done \cup {dp, e}
    OBVIOUS
  <2>7. SessionOK(model, u, done \cup {dp, e})
    BY <2>5, <2>6
  <2> QED BY <2>4, <2>7, EditKept
<1> QED BY <1>1, <1>3, <1>5, <1>6

(* RemoveElement, *)
LEMMA RemovalKept ==
  ASSUME WriterInv, NEW id, RemoveElement(id)
  PROVE  WriterInv'
<1> DEFINE s == session[1]  t == removeElement(s, id)
<1>1. Open /\ Makes(t, {}) /\ t = removeElement(s, id)
  BY DEF RemoveElement
<1>2. SessionOK(model, s, done)
  BY <1>1 DEF WriterInv, WriterOK, Open
<1> HIDE DEF s, t
<1>3. Carries(model, t, done) /\ t.nextDesignatorNum = s.nextDesignatorNum
  BY <1>1, <1>2, RemovalCarried DEF SessionOK
<1>4. SessionOK(model, t, done)
  BY <1>2, <1>3 DEF SessionOK
<1>5. done \cup {} = done
  OBVIOUS
<1>6. SessionOK(model, t, done \cup {})
  BY <1>4, <1>5
<1> QED BY <1>1, <1>6, EditKept

(* and Save, which puts on disk what may be loaded again. *)
LEMMA SaveKept ==
  ASSUME WriterInv, Save
  PROVE  WriterInv'
<1>1. Open /\ page' = Page /\ UNCHANGED <<model, session, done>>
  BY DEF Save
<1>2. SessionOK(model, session[1], done)
  BY <1>1 DEF WriterInv, WriterOK, Open
<1>3. WellFormed(Page)
  BY <1>2, PageWellFormed DEF SessionOK, Carries, Page
<1>4. WriterOK(page', model', session', done')
  BY <1>1, <1>3 DEF WriterInv, WriterOK
<1> QED BY <1>4 DEF WriterInv

(* Each of T is one of these k numbers.                                     *)
Among(T, f, k) ==
  /\ k \in Nat /\ \A i \in 1..k : f[i] \in Nat
  /\ \A x \in T : \E i \in 1..k : x = f[i]

(* Each maximum that the reader and the writer start from is one. *)
LEMMA GreatestOf ==
  ASSUME NEW T, T # {}, NEW f, NEW k, Among(T, f, k)
  PROVE  Max(T) \in Nat /\ Max(T) \in T /\ \A y \in T : y <= Max(T)
<1>0. /\ k \in Nat /\ \A i \in 1..k : f[i] \in Nat
      /\ \A x \in T : \E i \in 1..k : x = f[i]
  BY DEF Among
<1>1. PICK b \in Nat : \A i \in 1..k : f[i] <= b
  BY <1>0, Bounded
<1>2. T \subseteq Nat /\ \A y \in T : y <= b
  BY <1>0, <1>1
<1>3. Max(T) \in T /\ \A y \in T : y <= Max(T)
  BY <1>2, MaxOf
<1> QED BY <1>2, <1>3

(* A source and what the parser makes of it.                                *)
Read(source, lines) == lines = parseSource(source, EschSchemas) /\ WellFormed(source)

(* A well-formed page, as it is parsed. *)
LEMMA ReadIs ==
  ASSUME NEW source, NEW lines, Read(source, lines)
  PROVE  /\ Len(source) \in Nat /\ DOMAIN source = 1..Len(source) /\ Len(lines) = Len(source)
         /\ DOMAIN lines = 1..Len(source) /\ source = [i \in 1..Len(source) |-> source[i]]
         /\ \A i \in 1..Len(source) : lines[i].data = source[i] /\ lines[i].kind = Kind(source[i], EschSchemas)
         /\ Consistent(source, 1..Len(source))
<1>1. source \in Seq(Range(source)) /\ Consistent(source, DOMAIN source)
  BY DEF Read, WellFormed
<1>2. Len(source) \in Nat /\ DOMAIN source = 1..Len(source)
  BY <1>1, LenProperties
<1>3. source = [i \in 1..Len(source) |-> source[i]]
  BY <1>1, <1>2
<1>4. lines = [i \in 1..Len(source) |-> [kind |-> Kind(source[i], EschSchemas), data |-> source[i]]]
  BY <1>2 DEF Read, parseSource
<1>5. /\ DOMAIN lines = 1..Len(source)
      /\ \A i \in 1..Len(source) : lines[i].data = source[i] /\ lines[i].kind = Kind(source[i], EschSchemas)
  BY <1>4
<1>6. Len(lines) = Len(source)
  BY <1>2, <1>4
<1> QED BY <1>1, <1>2, <1>3, <1>5, <1>6

(* Known lines of a tag are the tuples with that tag. *)
LEMMA KnownLines ==
  ASSUME NEW source, NEW lines, Read(source, lines), NEW tag \in EschSchemas
  PROVE  /\ Known(lines, tag) \subseteq 1..Len(source)
         /\ \A i \in 1..Len(source) : i \in Known(lines, tag) <=> IsTuple(source[i], tag)
<1>1. /\ DOMAIN lines = 1..Len(source)
      /\ \A i \in 1..Len(source) : lines[i].data = source[i] /\ lines[i].kind = Kind(source[i], EschSchemas)
  BY ReadIs
<1>2. \A i \in 1..Len(source) : lines[i].kind = "known" /\ lines[i].data.tag = tag <=> IsTuple(source[i], tag)
  BY <1>1 DEF Kind, IsTuple
<1> QED BY <1>1, <1>2 DEF Known

(* Where the value of an attribute comes from.                              *)
Gives(source, i, key, j, value) ==
  j \in 1..Len(source) /\ Says(source[j], key) /\ source[j].parent = source[i].id /\ source[j].value = value

(* An attribute that the reader finds is on the page, under its owner. *)
LEMMA AttrIs ==
  ASSUME NEW source, NEW lines, Read(source, lines), NEW i \in 1..Len(source), NEW key
  PROVE  /\ AttrOf(lines, i, key) = None \/ \E j : Gives(source, i, key, j, AttrOf(lines, i, key))
         /\ {j \in AttrsOf(lines, i) : lines[j].data.key = key} # {} =>
               \E j : Gives(source, i, key, j, AttrOf(lines, i, key))
<1> DEFINE own == {j \in AttrsOf(lines, i) : lines[j].data.key = key}
           value == AttrOf(lines, i, key)
<1>1. value = IF own = {} THEN None ELSE lines[Latest(own)].data.value
  BY DEF AttrOf
<1>2. /\ Len(source) \in Nat
      /\ \A j \in 1..Len(source) : lines[j].data = source[j]
  BY ReadIs
<1>3. /\ Known(lines, "ATTR") \subseteq 1..Len(source)
      /\ \A j \in 1..Len(source) : j \in Known(lines, "ATTR") <=> IsTuple(source[j], "ATTR")
  BY KnownLines DEF EschSchemas
<1>4. \A j \in own : j \in Known(lines, "ATTR") /\ lines[j].data.parent = lines[i].data.id /\ lines[j].data.key = key
  BY DEF AttrsOf
<1>5. \A j \in own : j \in 1..Len(source)
  BY <1>3, <1>4
<1> HIDE DEF own, value
<1>6. ASSUME own # {} PROVE \E j : Gives(source, i, key, j, value)
  <2>1. own \subseteq Nat /\ \A j \in own : j <= Len(source)
    BY <1>2, <1>5
  <2>2. Max(own) \in own
    BY <2>1, <1>2, <1>6, MaxOf
  <2> DEFINE j == Max(own)
  <2>3. j \in own /\ value = lines[j].data.value
    BY <2>2, <1>1, <1>6 DEF Latest
  <2> HIDE DEF j
  <2>4. j \in 1..Len(source) /\ lines[j].data = source[j] /\ lines[i].data = source[i]
    BY <2>3, <1>2, <1>5
  <2>5. IsTuple(source[j], "ATTR") /\ source[j].parent = source[i].id /\ source[j].key = key
    BY <2>3, <2>4, <1>3, <1>4
  <2> QED BY <2>3, <2>4, <2>5 DEF Gives, Says
<1>7. value = None \/ own # {}
  BY <1>1
<1> QED BY <1>6, <1>7 DEF own, value

(* Numbers in Unique IDs and designators are numbers.                      *)
LEMMA AttrNumber ==
  ASSUME NEW source, NEW lines, Read(source, lines), NEW i \in 1..Len(source),
         NEW key \in {"Designator", "UniqueID"}, NEW value, value = AttrOf(lines, i, key), Len(value) = 2
  PROVE  value[2] \in Nat
<1>1. CASE value = None
  <2>1. Len(<<>>) = 0
    OBVIOUS
  <2> QED BY <1>1, <2>1 DEF None
<1>2. CASE value # None
  <2>1. \E j : Gives(source, i, key, j, value)
    BY <1>2, AttrIs
  <2>2. PICK j : Gives(source, i, key, j, value)
    BY <2>1
  <2>3. Formed(source[j])
    BY <2>2, ReadIs DEF Gives, Consistent
  <2>4. Says(source[j], key) /\ source[j].value = value
    BY <2>2 DEF Gives
  <2> QED BY <2>3, <2>4 DEF Formed
<1> QED BY <1>1, <1>2

(* The one Unique ID that belongs to the component at i.                   *)
LEMMA UniqueIdRead ==
  ASSUME NEW source, NEW lines, Read(source, lines), NEW j \in 1..Len(source), Says(source[j], "UniqueID")
  PROVE  \E c \in 1..Len(source) : IsTuple(source[c], "COMPONENT") /\ AttrOf(lines, c, "UniqueID") = source[j].value
<1> DEFINE places == 1..Len(source)
<1>0. /\ Consistent(source, places) /\ Len(source) \in Nat
      /\ \A i \in places : lines[i].data = source[i]
  BY ReadIs
<1>1. OneUniqueId(source, places) /\ NamedOnce(source, places) /\ \A i \in places : Formed(source[i])
  BY <1>0 DEF Consistent
<1>2. /\ OfComponent(source, places, j)
      /\ \A k \in places : Says(source[k], "UniqueID") /\ Alike(source[k], source[j]) => k = j
  BY <1>1 DEF OneUniqueId
<1>3. PICK c \in places : c < j /\ IsTuple(source[c], "COMPONENT") /\ source[c].id = source[j].parent
  BY <1>2 DEF OfComponent
<1>4. \A k \in places : IsTuple(source[k], "COMPONENT") /\ source[k].id = source[c].id => k = c
  <2>1. \A k \in places : IsTuple(source[k], "COMPONENT") => Identified(source[k])
    BY <1>1, ElementNamesItself DEF IsElement
  <2> QED BY <2>1, <1>1, <1>3 DEF NamedOnce
<1>5. j \in {x \in AttrsOf(lines, c) : lines[x].data.key = "UniqueID"}
  <2>1. j \in Known(lines, "ATTR")
    BY KnownLines DEF Says, EschSchemas
  <2>2. lines[j].data.parent = lines[c].data.id /\ lines[j].data.key = "UniqueID"
    BY <1>0, <1>3 DEF Says
  <2>3. ASSUME NEW k \in Known(lines, "COMPONENT"), k \in (c + 1)..(j - 1), lines[k].data.id = lines[c].data.id PROVE FALSE
    <3>1. k \in places /\ IsTuple(source[k], "COMPONENT")
      BY <2>3, KnownLines DEF EschSchemas
    <3>2. k = c
      BY <2>3, <3>1, <1>0, <1>4
    <3> QED BY <2>3, <3>2
  <2>4. j > c
    BY <1>3
  <2> QED BY <2>1, <2>2, <2>3, <2>4 DEF AttrsOf
<1>6. \E k : Gives(source, c, "UniqueID", k, AttrOf(lines, c, "UniqueID"))
  BY <1>5, AttrIs
<1>7. PICK k : Gives(source, c, "UniqueID", k, AttrOf(lines, c, "UniqueID"))
  BY <1>6
<1>8. k = j
  BY <1>2, <1>3, <1>7 DEF Gives, Alike
<1> QED BY <1>3, <1>7, <1>8 DEF Gives

(* The pins of a symbol are numbered. *)
LEMMA PinPlaces ==
  ASSUME NEW uuid \in DOMAIN Symbols
  PROVE  DOMAIN SymbolCache[uuid].pins \subseteq Nat
<1> DEFINE source == Symbols[uuid]
           lines == parseSource(source, EsymSchemas)
           places == Known(lines, "PIN")
           order == InOrder(lines, places)
<1>1. Len(source) \in Nat /\ DOMAIN source = 1..Len(source)
  BY SymbolsAssumption
<1>2. SymbolCache[uuid] = parseSymbol(source)
  BY DEF SymbolCache
<1> HIDE DEF source
<1>3. DOMAIN lines = 1..Len(source) /\ Len(lines) = Len(source)
  BY <1>1 DEF parseSource
<1>4. parseSymbol(source).pins = [n \in DOMAIN order |->
         [id |-> lines[order[n]].data.id, at |-> lines[order[n]].data.at,
          length |-> lines[order[n]].data.length, angle |-> lines[order[n]].data.angle,
          number |-> PinAttr(lines, order[n], "NUMBER"), name |-> PinAttr(lines, order[n], "NAME")]]
  BY DEF parseSymbol
<1> HIDE DEF lines
<1>5. places \subseteq 1..Len(lines) /\ Len(lines) \in Nat
  BY <1>1, <1>3 DEF Known
<1>6. Len(order) \in Nat /\ DOMAIN order = 1..Len(order)
  BY <1>5, Ordered
<1> HIDE DEF order
<1>7. DOMAIN parseSymbol(source).pins = 1..Len(order)
  BY <1>4, <1>6
<1> QED BY <1>2, <1>6, <1>7

(* What a drawing of a component may be.                                   *)
DrawnOK(drawn) ==
  /\ DOMAIN drawn.pins \subseteq Nat
  /\ \A k \in DOMAIN drawn.pins : drawn.pins[k].at \in Int \X Int /\ drawn.pins[k].angle \in RightAngles

(* A component is drawn as its symbol is, or with no pins at all. *)
LEMMA DrawnIs ==
  ASSUME NEW symbol, NEW drawn,
         drawn = IF symbol \in DOMAIN Symbols THEN SymbolCache[symbol] ELSE [symbolType |-> 0, pins |-> <<>>]
  PROVE  DrawnOK(drawn)
<1>1. CASE symbol \in DOMAIN Symbols
  <2>1. drawn = SymbolCache[symbol]
    BY <1>1
  <2>2. DOMAIN SymbolCache[symbol].pins \subseteq Nat
    BY <1>1, PinPlaces
  <2>3. ASSUME NEW k \in DOMAIN SymbolCache[symbol].pins
        PROVE  SymbolCache[symbol].pins[k].at \in Int \X Int /\ SymbolCache[symbol].pins[k].angle \in RightAngles
    BY <1>1, PinsOfSymbol
  <2> QED BY <2>1, <2>2, <2>3 DEF DrawnOK
<1>2. CASE symbol \notin DOMAIN Symbols
  <2> DEFINE empty == <<>>
  <2>1. DOMAIN empty = {}
    OBVIOUS
  <2>2. drawn.pins = empty
    BY <1>2
  <2> HIDE DEF empty
  <2> QED BY <2>1, <2>2 DEF DrawnOK
<1> QED BY <1>1, <1>2

ComponentPinsOK(pins) ==
  DOMAIN pins \subseteq Nat /\ \A k \in DOMAIN pins : pins[k].at \in Int \X Int /\ pins[k].angle \in RightAngles

(* What the reader makes of a component line (schematic-reader.ts). *)
LEMMA ComponentIs ==
  ASSUME NEW lines, NEW i, lines[i].data.at \in Int \X Int,
         lines[i].data.rotation \in RightAngles, lines[i].data.flip \in {0, 1}
  PROVE  /\ Component(lines, i).designator = AttrOf(lines, i, "Designator")
         /\ Component(lines, i).uniqueId = AttrOf(lines, i, "UniqueID")
         /\ ComponentPinsOK(Component(lines, i).pins)
<1> DEFINE line == lines[i].data
           symbol == SymbolOf(lines, i)
           drawn == IF symbol \in DOMAIN Symbols THEN SymbolCache[symbol] ELSE [symbolType |-> 0, pins |-> <<>>]
           pins == [n \in DOMAIN drawn.pins |->
                     [number |-> drawn.pins[n].number, name |-> drawn.pins[n].name,
                      at |-> Plus(line.at, transformSymbolPoint(drawn.pins[n].at, line.rotation, line.flip)),
                      angle |-> transformPinAngle(drawn.pins[n].angle, line.rotation, line.flip)]]
<1>1. /\ Component(lines, i).designator = AttrOf(lines, i, "Designator")
      /\ Component(lines, i).uniqueId = AttrOf(lines, i, "UniqueID")
      /\ Component(lines, i).pins = pins
  BY DEF Component
<1>2. DrawnOK(drawn)
  BY DrawnIs
<1>3. line.at \in Int \X Int /\ line.rotation \in RightAngles /\ line.flip \in {0, 1}
  OBVIOUS
<1> HIDE DEF drawn, line
<1>4. /\ DOMAIN pins = DOMAIN drawn.pins
      /\ \A n \in DOMAIN pins :
           /\ pins[n].at = Plus(line.at, transformSymbolPoint(drawn.pins[n].at, line.rotation, line.flip))
           /\ pins[n].angle = transformPinAngle(drawn.pins[n].angle, line.rotation, line.flip)
  OBVIOUS
<1> HIDE DEF pins
<1>5. ASSUME NEW n \in DOMAIN pins PROVE pins[n].at \in Int \X Int /\ pins[n].angle \in RightAngles
  <2>1. drawn.pins[n].at \in Int \X Int /\ drawn.pins[n].angle \in RightAngles
    BY <1>2, <1>4 DEF DrawnOK
  <2>2. pins[n].angle \in RightAngles
    BY <2>1, <1>3, <1>4, TurnedIsRight
  <2>3. PICK x \in Int, y \in Int : drawn.pins[n].at = <<x, y>>
    BY <2>1
  <2> DEFINE p == transformSymbolPoint(drawn.pins[n].at, line.rotation, line.flip)
  <2>4. p \in Int \X Int
    BY <2>3, <1>3, TurnedIsPoint
  <2>5. pins[n].at = Plus(line.at, p)
    BY <1>4
  <2> HIDE DEF p
  <2>6. Plus(line.at, p) \in Int \X Int
    <3>1. PICK a \in Int, b \in Int : line.at = <<a, b>>
      BY <1>3
    <3>2. PICK c \in Int, e \in Int : p = <<c, e>>
      BY <2>4
    <3>3. Plus(<<a, b>>, <<c, e>>) = <<a + c, b + e>>
      BY PlusIs
    <3>4. <<a + c, b + e>> \in Int \X Int
      OBVIOUS
    <3> QED BY <3>1, <3>2, <3>3, <3>4
  <2> QED BY <2>2, <2>5, <2>6
<1>6. DOMAIN pins \subseteq Nat
  BY <1>2, <1>4 DEF DrawnOK
<1>7. ComponentPinsOK(pins)
  BY <1>5, <1>6 DEF ComponentPinsOK
<1> QED BY <1>1, <1>7

(* The components of a page, as the reader lists them.                     *)
ComponentsRead(source, lines, comps) ==
  /\ Read(source, lines)
  /\ Len(comps) \in Nat /\ DOMAIN comps = 1..Len(comps)
  /\ \A n \in 1..Len(comps) : /\ ComponentPinsOK(comps[n].pins)
                              /\ Len(comps[n].designator) = 2 => comps[n].designator[2] \in Nat
                              /\ Len(comps[n].uniqueId) = 2 => comps[n].uniqueId[2] \in Nat
  /\ \A c \in 1..Len(source) : IsTuple(source[c], "COMPONENT") =>
       \E n \in 1..Len(comps) : comps[n].uniqueId = AttrOf(lines, c, "UniqueID")

(* What it makes of all of them. *)
LEMMA ComponentsAre ==
  ASSUME NEW source, NEW lines, Read(source, lines), NEW order, order = InOrder(lines, Known(lines, "COMPONENT")),
         NEW comps, comps = [n \in DOMAIN order |-> Component(lines, order[n])]
  PROVE  ComponentsRead(source, lines, comps)
<1> DEFINE S == Known(lines, "COMPONENT")
<1>0. /\ Len(source) \in Nat /\ Len(lines) = Len(source)
      /\ \A i \in 1..Len(source) : lines[i].data = source[i]
      /\ Consistent(source, 1..Len(source))
  BY ReadIs
<1>1. /\ S \subseteq 1..Len(source)
      /\ \A i \in 1..Len(source) : i \in S <=> IsTuple(source[i], "COMPONENT")
  BY KnownLines DEF EschSchemas
<1>e. order = InOrder(lines, S)
  OBVIOUS
<1> HIDE DEF S
<1>2. Enumerates(order, S) /\ Len(order) \in Nat /\ DOMAIN order = 1..Len(order) /\ \A n \in DOMAIN order : order[n] \in S
  BY <1>0, <1>1, <1>e, InOrderEnumerates, Ordered
<1>3. /\ DOMAIN comps = 1..Len(order) /\ Len(comps) = Len(order)
      /\ \A n \in 1..Len(order) : comps[n] = Component(lines, order[n])
  <2>1. DOMAIN comps = 1..Len(order) /\ \A n \in 1..Len(order) : comps[n] = Component(lines, order[n])
    BY <1>2
  <2>2. comps = [n \in 1..Len(order) |-> Component(lines, order[n])]
    BY <1>2
  <2>3. Len(comps) = Len(order)
    BY <2>2, <1>2
  <2> QED BY <2>1, <2>3
<1>4. ASSUME NEW i \in S
      PROVE  /\ Component(lines, i).designator = AttrOf(lines, i, "Designator")
             /\ Component(lines, i).uniqueId = AttrOf(lines, i, "UniqueID")
             /\ ComponentPinsOK(Component(lines, i).pins)
  <2>1. i \in 1..Len(source) /\ IsTuple(source[i], "COMPONENT") /\ Formed(source[i]) /\ lines[i].data = source[i]
    BY <1>0, <1>1 DEF Consistent
  <2>2. /\ lines[i].data.at \in Int \X Int /\ lines[i].data.rotation \in RightAngles
        /\ lines[i].data.flip \in {0, 1}
    BY <2>1 DEF Formed
  <2> QED BY <2>2, ComponentIs
<1>5. ASSUME NEW n \in 1..Len(comps)
      PROVE  /\ ComponentPinsOK(comps[n].pins)
             /\ Len(comps[n].designator) = 2 => comps[n].designator[2] \in Nat
             /\ Len(comps[n].uniqueId) = 2 => comps[n].uniqueId[2] \in Nat
  <2> DEFINE i == order[n]  g == comps[n].designator  u == comps[n].uniqueId
  <2>1. i \in S /\ i \in 1..Len(source) /\ comps[n] = Component(lines, i)
    BY <1>1, <1>2, <1>3
  <2> HIDE DEF i
  <2>2. g = AttrOf(lines, i, "Designator") /\ u = AttrOf(lines, i, "UniqueID") /\ ComponentPinsOK(comps[n].pins)
    BY <2>1, <1>4
  <2> HIDE DEF g, u
  <2>3. Len(g) = 2 => g[2] \in Nat
    BY <2>1, <2>2, AttrNumber
  <2>4. Len(u) = 2 => u[2] \in Nat
    BY <2>1, <2>2, AttrNumber
  <2> QED BY <2>2, <2>3, <2>4 DEF g, u
<1>6. ASSUME NEW c \in 1..Len(source), IsTuple(source[c], "COMPONENT")
      PROVE  \E n \in 1..Len(comps) : comps[n].uniqueId = AttrOf(lines, c, "UniqueID")
  <2>1. c \in S
    BY <1>1, <1>6
  <2>2. PICK n \in 1..Len(order) : order[n] = c
    BY <2>1, <1>2 DEF Enumerates
  <2> QED BY <2>1, <2>2, <1>3, <1>4
<1> QED BY <1>2, <1>3, <1>5, <1>6 DEF ComponentsRead

(* The model of a well-formed page.                                         *)
Loads(source, m) == m = parseSchematic(source) /\ WellFormed(source)

HighestGge(comps) ==
  LET gge == {c.uniqueId[2] : c \in {d \in Range(comps) : Len(d.uniqueId) = 2 /\ d.uniqueId[1] = "gge"}}
  IN IF gge = {} THEN 0 ELSE Max(gge)

(* maxGgeId is behind no Unique ID of a component. *)
LEMMA HighestGgeIs ==
  ASSUME NEW source, NEW lines, NEW comps, ComponentsRead(source, lines, comps)
  PROVE  /\ HighestGge(comps) \in Nat
         /\ \A n \in 1..Len(comps), k \in Nat : comps[n].uniqueId = <<"gge", k>> => k <= HighestGge(comps)
<1> DEFINE gge == {c.uniqueId[2] : c \in {d \in Range(comps) : Len(d.uniqueId) = 2 /\ d.uniqueId[1] = "gge"}}
           f == [n \in 1..Len(comps) |-> IF Len(comps[n].uniqueId) = 2 THEN comps[n].uniqueId[2] ELSE 0]
           top == HighestGge(comps)
<1>0. top = IF gge = {} THEN 0 ELSE Max(gge)
  BY DEF HighestGge
<1>1. /\ Len(comps) \in Nat /\ DOMAIN comps = 1..Len(comps)
      /\ \A n \in 1..Len(comps) : Len(comps[n].uniqueId) = 2 => comps[n].uniqueId[2] \in Nat
  BY DEF ComponentsRead
<1>2. \A n \in 1..Len(comps) : /\ f[n] \in Nat
                               /\ Len(comps[n].uniqueId) = 2 => f[n] = comps[n].uniqueId[2]
  BY <1>1
<1> HIDE DEF f
<1>3. Among(gge, f, Len(comps))
  BY <1>1, <1>2 DEF Range, Among
<1>4. ASSUME NEW n \in 1..Len(comps), NEW k \in Nat, comps[n].uniqueId = <<"gge", k>> PROVE k \in gge
  <2>1. comps[n] \in Range(comps)
    BY <1>1 DEF Range
  <2>2. Len(comps[n].uniqueId) = 2 /\ comps[n].uniqueId[1] = "gge" /\ comps[n].uniqueId[2] = k
    BY <1>4
  <2> QED BY <2>1, <2>2
<1> HIDE DEF gge, top
<1>5. ASSUME gge # {} PROVE Max(gge) \in Nat /\ \A y \in gge : y <= Max(gge)
  BY <1>3, <1>5, GreatestOf
<1>6. top \in Nat
  BY <1>0, <1>5
<1>7. \A n \in 1..Len(comps), k \in Nat : comps[n].uniqueId = <<"gge", k>> => k <= top
  BY <1>0, <1>4, <1>5
<1> QED BY <1>6, <1>7 DEF top

(* The designators of a page that was just loaded.                          *)
NextNumbers(comps) ==
  [p \in {c.designator[1] : c \in {d \in Range(comps) : Len(d.designator) = 2}} |-> Max(UsedNumbers(comps, p)) + 1]

(* The numbers the writer starts from are behind no designator. *)
LEMMA NextNumbersAhead ==
  ASSUME NEW source, NEW lines, NEW comps, ComponentsRead(source, lines, comps)
  PROVE  /\ NumbersAhead(NextNumbers(comps))
         /\ \A c \in Range(comps) : Len(c.designator) = 2 => Taken(NextNumbers(comps), c.designator)
<1> DEFINE next == NextNumbers(comps)
           f == [n \in 1..Len(comps) |-> IF Len(comps[n].designator) = 2 THEN comps[n].designator[2] ELSE 0]
<1>1. /\ Len(comps) \in Nat /\ DOMAIN comps = 1..Len(comps)
      /\ \A n \in 1..Len(comps) : Len(comps[n].designator) = 2 => comps[n].designator[2] \in Nat
  BY DEF ComponentsRead
<1>2. \A n \in 1..Len(comps) : /\ f[n] \in Nat
                               /\ Len(comps[n].designator) = 2 => f[n] = comps[n].designator[2]
  BY <1>1
<1> HIDE DEF f
<1>3. /\ DOMAIN next = {c.designator[1] : c \in {d \in Range(comps) : Len(d.designator) = 2}}
      /\ \A p \in DOMAIN next : next[p] = Max(UsedNumbers(comps, p)) + 1
  BY DEF NextNumbers
<1>4. \A c \in Range(comps) : \E n \in 1..Len(comps) : c = comps[n]
  BY <1>1 DEF Range
<1>5. ASSUME NEW p \in DOMAIN next
      PROVE  /\ Max(UsedNumbers(comps, p)) \in Nat
             /\ \A y \in UsedNumbers(comps, p) : y <= Max(UsedNumbers(comps, p))
  <2> DEFINE T == UsedNumbers(comps, p)
  <2>1. T # {}
    BY <1>3 DEF UsedNumbers
  <2>2. Among(T, f, Len(comps))
    BY <1>1, <1>2, <1>4 DEF UsedNumbers, Among
  <2> HIDE DEF T
  <2>3. Max(T) \in Nat /\ \A y \in T : y <= Max(T)
    BY <2>1, <2>2, GreatestOf
  <2> QED BY <2>3 DEF T
<1>6. NumbersAhead(next)
  BY <1>3, <1>5 DEF NumbersAhead
<1>7. ASSUME NEW c \in Range(comps), Len(c.designator) = 2 PROVE Taken(next, c.designator)
  <2> DEFINE p == c.designator[1]  k == c.designator[2]
  <2>1. p \in DOMAIN next /\ k \in UsedNumbers(comps, p)
    BY <1>3, <1>7 DEF UsedNumbers
  <2>2. k \in Nat
    BY <1>1, <1>4, <1>7
  <2> HIDE DEF p, k
  <2> DEFINE top == Max(UsedNumbers(comps, p))
  <2>3. top \in Nat /\ k <= top /\ next[p] = top + 1
    BY <2>1, <1>3, <1>5
  <2> HIDE DEF top
  <2>4. k < next[p]
    BY <2>2, <2>3
  <2> QED BY <2>1, <2>2, <2>4 DEF Taken, p, k
<1> QED BY <1>6, <1>7 DEF next

(* maxId is what the one HEAD says. *)
LEMMA HeadRead ==
  ASSUME NEW source, NEW lines, Read(source, lines)
  PROVE  \E h \in 1..Len(source) : /\ IsTuple(source[h], "HEAD") /\ source[h].maxId \in Nat
                                   /\ HeadSlot(lines, "maxId") = source[h].maxId
<1>1. /\ Consistent(source, 1..Len(source))
      /\ \A i \in 1..Len(source) : lines[i].data = source[i]
  BY ReadIs
<1>2. PICK h \in 1..Len(source) : \A j \in 1..Len(source) : IsTuple(source[j], "HEAD") <=> j = h
  BY <1>1 DEF Consistent, OneHead
<1>3. Known(lines, "HEAD") = {h}
  BY <1>2, KnownLines DEF EschSchemas
<1>4. Min({h}) = h
  <2> DEFINE T == {h}
  <2>1. T \subseteq Nat /\ T # {}
    BY ReadIs
  <2> HIDE DEF T
  <2>2. Min(T) \in T
    BY <2>1, MinOf
  <2> QED BY <2>2 DEF T
<1>5. HeadSlot(lines, "maxId") = lines[h].data["maxId"]
  BY <1>3, <1>4 DEF HeadSlot
<1>6. lines[h].data = source[h]
  BY <1>1
<1>7. IsTuple(source[h], "HEAD") /\ source[h].maxId \in Nat
  BY <1>1, <1>2 DEF Consistent, Formed
<1> QED BY <1>5, <1>6, <1>7

(* What parseSchematic makes of a well-formed page. *)
LEMMA ModelIs ==
  ASSUME NEW source, NEW m, Loads(source, m)
  PROVE  /\ Read(source, m.lines) /\ ComponentsRead(source, m.lines, m.components)
         /\ m.maxId = HeadSlot(m.lines, "maxId") /\ m.maxGgeId = HighestGge(m.components)
         /\ ModelOK(m)
<1> DEFINE lines == parseSource(source, EschSchemas)
           order == InOrder(lines, Known(lines, "COMPONENT"))
           comps == [n \in DOMAIN order |-> Component(lines, order[n])]
<1>1. m.lines = lines /\ m.maxId = HeadSlot(lines, "maxId") /\ m.components = comps /\ m.maxGgeId = HighestGge(comps)
  BY DEF Loads, parseSchematic, HighestGge
<1>2. Read(source, lines)
  BY DEF Loads, Read
<1>a. order = InOrder(lines, Known(lines, "COMPONENT"))
  OBVIOUS
<1> HIDE DEF order
<1>b. comps = [n \in DOMAIN order |-> Component(lines, order[n])]
  OBVIOUS
<1> HIDE DEF lines, comps
<1>3. ComponentsRead(source, lines, comps)
  BY <1>2, <1>a, <1>b, ComponentsAre
<1>4. /\ Len(lines) \in Nat /\ DOMAIN lines = 1..Len(lines)
      /\ \A i \in 1..Len(lines) : lines[i].kind = Kind(lines[i].data, EschSchemas)
  BY <1>2, ReadIs
<1>5. /\ DOMAIN comps \subseteq Nat
      /\ \A n \in DOMAIN comps : ComponentPinsOK(comps[n].pins)
  BY <1>3 DEF ComponentsRead
<1>6. PinsOK(m)
  BY <1>1, <1>5 DEF PinsOK, ComponentPinsOK
<1>7. ModelOK(m)
  BY <1>1, <1>4, <1>5, <1>6 DEF ModelOK
<1> QED BY <1>1, <1>2, <1>3, <1>7

Bygone(D) == \A d \in D : "fresh" \in DOMAIN d /\ d.fresh = FALSE

(* A session on a page that was just loaded has the page's lines, *)
LEMMA LoadedLines ==
  ASSUME NEW source, NEW m, Loads(source, m), NEW s, s = newWriter(m)
  PROVE  LinesOK(m, s) /\ s.companions = <<>> /\ s.nextDesignatorNum = NextNumbers(m.components)
<1> DEFINE places == 1..Len(source)  lines == m.lines
           next == NextNumbers(m.components)  none == <<>>
<1>1. /\ Read(source, lines) /\ ComponentsRead(source, lines, m.components)
      /\ m.maxId = HeadSlot(lines, "maxId") /\ m.maxGgeId = HighestGge(m.components)
  BY ModelIs
<1>2. /\ Len(source) \in Nat /\ Len(lines) = Len(source) /\ source = [i \in places |-> source[i]]
      /\ DOMAIN source = places
      /\ \A i \in places : lines[i].data = source[i]
      /\ Consistent(source, places)
  BY <1>1, ReadIs
<1>3. s = [appended |-> none, removed |-> {}, companions |-> none,
           nextElementId |-> m.maxId + 1, nextGgeId |-> m.maxGgeId + 1, nextDesignatorNum |-> next]
  BY DEF newWriter, NextNumbers
<1>n. none \in Seq(Range(none)) /\ Len(none) = 0 /\ none = <<>>
  OBVIOUS
<1> HIDE DEF next, none
<1>4. /\ s.appended = none /\ s.removed = {} /\ s.companions = none /\ s.nextDesignatorNum = next
      /\ s.nextElementId = m.maxId + 1 /\ s.nextGgeId = m.maxGgeId + 1
  BY <1>3
<1>5. PICK h \in places : IsTuple(source[h], "HEAD") /\ source[h].maxId \in Nat /\ m.maxId = source[h].maxId
  BY <1>1, HeadRead
<1>6. /\ m.maxGgeId \in Nat
      /\ \A n \in 1..Len(m.components), k \in Nat : m.components[n].uniqueId = <<"gge", k>> => k <= m.maxGgeId
  BY <1>1, HighestGgeIs
<1>7. WriterShape(s)
  <2>1. s.nextElementId \in Nat \ {0} /\ s.nextGgeId \in Nat
    BY <1>4, <1>5, <1>6
  <2>2. s = [appended |-> s.appended, removed |-> s.removed, companions |-> s.companions,
             nextElementId |-> s.nextElementId, nextGgeId |-> s.nextGgeId, nextDesignatorNum |-> s.nextDesignatorNum]
    BY <1>3, <1>4
  <2>3. s.appended \in Seq(Range(s.appended))
    BY <1>4, <1>n
  <2> QED BY <2>1, <2>2, <2>3 DEF WriterShape
<1>8. Whole(m, s) = source
  <2>1. Len(s.appended) = 0 /\ Len(source) + 0 = Len(source)
    BY <1>2, <1>4, <1>n
  <2>2. Whole(m, s) = [i \in places |-> IF i <= Len(source) THEN lines[i].data ELSE s.appended[i - Len(source)]]
    BY <2>1, <1>2 DEF Whole
  <2>3. \A i \in places : i <= Len(source) /\ lines[i].data = source[i]
    BY <1>2
  <2>4. Whole(m, s) = [i \in places |-> source[i]]
    BY <2>2, <2>3
  <2> QED BY <2>4, <1>2
<1>9. Kept(m, s) = places
  <2>1. Len(s.appended) = 0
    BY <1>4, <1>n
  <2> DEFINE n == Len(source)
  <2>2. n \in Nat /\ Kept(m, s) = ((1..n) \ {}) \cup ((n + 1)..(n + 0))
    BY <2>1, <1>2, <1>4 DEF Kept
  <2> HIDE DEF n
  <2>3. Kept(m, s) = 1..n
    BY <2>2
  <2> QED BY <2>3 DEF n
<1>10. OneHeadOnly(m, s)
  <2>1. \A k \in 1..Len(s.appended) : FALSE
    BY <1>4, <1>n
  <2> QED BY <2>1, <1>4 DEF OneHeadOnly
<1>11. IdsBehind(m, s)
  <2>1. ASSUME NEW i \in places, Identified(source[i]) PROVE source[i].id < s.nextElementId
    <3>1. source[i].id <= source[h].maxId
      BY <2>1, <1>2, <1>5 DEF Loads, WellFormed
    <3>2. source[i].id \in Nat
      BY <2>1, <1>2 DEF Consistent, Formed
    <3> QED BY <3>1, <3>2, <1>4, <1>5
  <2>2. ASSUME NEW i \in places, NEW k \in Nat, Says(source[i], "UniqueID"), source[i].value = <<"gge", k>>
        PROVE  k < s.nextGgeId
    <3>1. \E c \in 1..Len(source) : IsTuple(source[c], "COMPONENT") /\ AttrOf(lines, c, "UniqueID") = source[i].value
      BY <2>2, <1>1, UniqueIdRead
    <3>2. PICK c \in 1..Len(source) : IsTuple(source[c], "COMPONENT") /\ AttrOf(lines, c, "UniqueID") = source[i].value
      BY <3>1
    <3>3. PICK n \in 1..Len(m.components) : m.components[n].uniqueId = AttrOf(lines, c, "UniqueID")
      BY <3>2, <1>1 DEF ComponentsRead
    <3>4. k <= m.maxGgeId
      BY <3>2, <3>3, <2>2, <1>6
    <3> QED BY <3>4, <1>4, <1>6
  <2> QED BY <2>1, <2>2, <1>8, <1>9 DEF IdsBehind
<1>12. LinesOK(m, s)
  BY <1>2, <1>7, <1>8, <1>9, <1>10, <1>11 DEF LinesOK
<1> QED BY <1>4, <1>12, <1>n DEF next

(* all in order, and carries nothing fresh. *)
LEMMA LoadedSession ==
  ASSUME NEW source, NEW m, Loads(source, m), NEW s, s = newWriter(m), NEW D, Bygone(D)
  PROVE  SessionOK(m, s, D)
<1>1. LinesOK(m, s) /\ s.companions = <<>> /\ s.nextDesignatorNum = NextNumbers(m.components)
  BY LoadedLines
<1>2. ModelOK(m) /\ ComponentsRead(source, m.lines, m.components)
  BY ModelIs
<1>3. CompanionsOK(m, s)
  <2>1. DOMAIN s.companions = {}
    BY <1>1
  <2> QED BY <2>1 DEF CompanionsOK
<1>4. Carries(m, s, D)
  BY <1>1, <1>3 DEF Carries, Bygone
<1>5. NumbersAhead(s.nextDesignatorNum) /\ LoadedBehind(m, s.nextDesignatorNum)
  BY <1>1, <1>2, NextNumbersAhead DEF LoadedBehind
<1>6. \A d \in D : ~Allocated(d)
  BY DEF Bygone, Allocated
<1>7. DesignatorsOK(m, s.nextDesignatorNum, D)
  BY <1>5, <1>6 DEF DesignatorsOK, AllocatedBehind, AllocatedOnce
<1> QED BY <1>2, <1>4, <1>7 DEF SessionOK

(* Loading, again and again, keeps the invariant. *)
LEMMA LoadKept ==
  ASSUME WriterInv, LoadSchematic
  PROVE  WriterInv'
<1>1. /\ ~isPipeFormatSource(page) /\ page' = page /\ model' = parseSchematic(page)
      /\ session' = <<newWriter(model')>>
      /\ done' = {[d EXCEPT !.fresh = FALSE] : d \in {e \in done : e.owner \in Ids(page)}}
  BY DEF LoadSchematic
<1>2. WellFormed(page) /\ \A d \in done : "fresh" \in DOMAIN d
  BY <1>1 DEF WriterInv, WriterOK
<1>3. Bygone(done')
  <2>1. \A d \in done : LET e == [d EXCEPT !.fresh = FALSE] IN "fresh" \in DOMAIN e /\ e.fresh = FALSE
    BY <1>2
  <2> QED BY <2>1, <1>1 DEF Bygone
<1>4. Loads(page, model')
  BY <1>1, <1>2 DEF Loads
<1> DEFINE m == model'  s == newWriter(m)  D == done'
<1>5. Loads(page, m) /\ s = newWriter(m) /\ Bygone(D) /\ session' = <<s>>
  BY <1>1, <1>3, <1>4
<1> HIDE DEF m, s, D
<1>6. SessionOK(m, s, D)
  BY <1>5, LoadedSession
<1>7. session' = <<session'[1]>> /\ session'[1] = s
  BY <1>5
<1>8. SessionOK(model', session'[1], done')
  BY <1>6, <1>7 DEF m, D
<1>9. \A d \in done' : "fresh" \in DOMAIN d
  BY <1>3 DEF Bygone
<1>10. WriterOK(page', model', session', done')
  BY <1>1, <1>2, <1>7, <1>8, <1>9 DEF WriterOK
<1> QED BY <1>10 DEF WriterInv

(* The invariant holds before a page is loaded, *)
LEMMA WriterStarts ==
  ASSUME WriterInit
  PROVE  WriterInv
<1>1. page \in Pages /\ session = None /\ done = {}
  BY DEF WriterInit
<1> QED BY <1>1, PagesAssumption DEF WriterInv, WriterOK

(* every operation of the writer keeps it, *)
LEMMA WriterKept ==
  ASSUME WriterInv, WriterNext
  PROVE  WriterInv'
<1>1. CASE LoadSchematic
  BY <1>1, LoadKept
<1>2. CASE \E ref \in PinRefs, net \in Nets : AddNetport(ref, net)
  BY <1>2, NetportKept
<1>3. CASE \E ref \in PinRefs, net \in Nets, d \in Designators : AddSeriesResistor(ref, net, d)
  BY <1>3, ResistorKept
<1>4. CASE \E ref \in PinRefs, rail \in Rails : AddPowerSymbol(ref, rail)
  BY <1>4, PowerKept
<1>5. CASE Open /\ \E id \in Elements(Page) : RemoveElement(id)
  BY <1>5, RemovalKept
<1>6. CASE Save
  BY <1>6, SaveKept
<1> QED BY <1>1, <1>2, <1>3, <1>4, <1>5, <1>6 DEF WriterNext

(* and so does everything that is none. *)
LEMMA WriterRests ==
  ASSUME WriterInv, UNCHANGED writerVars
  PROVE  WriterInv'
BY DEF WriterInv, WriterOK, writerVars

(* It is strong enough for both: names, *)
LEMMA NamedApart ==
  ASSUME WriterInv
  PROVE  NamesStayUnique
<1> SUFFICES ASSUME Open PROVE NamesStayUnique
  BY DEF NamesStayUnique
<1> DEFINE lines == Page  s == session[1]
<1>1. SessionOK(model, s, done)
  BY DEF WriterInv, WriterOK, Open
<1>2. WellFormed(lines)
  BY <1>1, PageWellFormed DEF SessionOK, Carries, Page
<1>3. AllocatedOnce(model, done)
  BY <1>1 DEF SessionOK, DesignatorsOK
<1> HIDE DEF lines
<1>4. \A i, j \in DOMAIN lines : Identified(lines[i]) /\ Identified(lines[j]) /\ lines[i].id = lines[j].id => i = j
  BY <1>2 DEF WellFormed, Consistent, NamedOnce
<1>5. \A h, i \in DOMAIN lines : IsTuple(lines[h], "HEAD") /\ Identified(lines[i]) => lines[h].maxId >= lines[i].id
  <2> SUFFICES ASSUME NEW h \in DOMAIN lines, NEW i \in DOMAIN lines, IsTuple(lines[h], "HEAD"), Identified(lines[i])
               PROVE  lines[h].maxId >= lines[i].id
    OBVIOUS
  <2>1. lines[i].id <= lines[h].maxId
    BY <1>2 DEF WellFormed
  <2>2. lines[i].id \in Nat /\ lines[h].maxId \in Nat
    BY <1>2 DEF WellFormed, Consistent, Formed
  <2> QED BY <2>1, <2>2
<1>6. \A i, j \in DOMAIN lines :
         Says(lines[i], "UniqueID") /\ Says(lines[j], "UniqueID") /\ lines[i].value # None
           /\ lines[i].value = lines[j].value => i = j
  <2>1. \A j \in DOMAIN lines : Says(lines[j], "UniqueID") =>
          \A k \in DOMAIN lines : Says(lines[k], "UniqueID") /\ Alike(lines[k], lines[j]) => k = j
    BY <1>2 DEF WellFormed, Consistent, OneUniqueId
  <2> SUFFICES ASSUME NEW i \in DOMAIN lines, NEW j \in DOMAIN lines,
                      Says(lines[i], "UniqueID"), Says(lines[j], "UniqueID"),
                      lines[i].value # None, lines[i].value = lines[j].value
               PROVE  i = j
    OBVIOUS
  <2>2. Alike(lines[i], lines[j])
    BY DEF Alike
  <2> QED BY <2>1, <2>2
<1>7. \A h \in {i \in DOMAIN lines : IsTuple(lines[i], "HEAD")} : \A id \in Ids(lines) : lines[h].maxId >= id
  BY <1>5 DEF Ids
<1>8. \A d \in {e \in done : e.fresh /\ e.auto # None} :
        /\ \A c \in Range(model.components) : c.designator # d.auto
        /\ \A e \in {f \in done : f.fresh /\ f.auto # None} : e.auto = d.auto => e = d
  BY <1>3 DEF AllocatedOnce, Allocated
<1> QED BY <1>4, <1>6, <1>7, <1>8 DEF NamesStayUnique, lines

(* and removals. *)
LEMMA RemovedWhole ==
  ASSUME WriterInv
  PROVE  RemovalLeavesNothing
<1> SUFFICES ASSUME Open PROVE RemovalLeavesNothing
  BY DEF RemovalLeavesNothing
<1> DEFINE lines == Page  s == session[1]  ids == Ids(lines)
<1>1. SessionOK(model, s, done)
  BY DEF WriterInv, WriterOK, Open
<1>2. /\ ModelOK(model) /\ LinesOK(model, s) /\ CompanionsOK(model, s)
      /\ \A d \in done : d.fresh => GoneTogether(model, s, d)
  BY <1>1 DEF SessionOK, Carries
<1>3. WellFormed(lines)
  BY <1>2, PageWellFormed DEF Page
<1>4. \A id : id \in ids <=> \E i \in Kept(model, s) : Identified(Whole(model, s)[i]) /\ Whole(model, s)[i].id = id
  BY <1>2, PageIds DEF Page
<1>5. \A i \in Kept(model, s) : IsElement(Whole(model, s)[i]) => Identified(Whole(model, s)[i])
  BY <1>2, ElementNamesItself DEF LinesOK, Consistent
<1> HIDE DEF lines, s, ids
<1>6. ASSUME NEW d \in done, d.fresh, d.owner \notin ids PROVE d.ids \cap ids = {}
  <2>1. GoneTogether(model, s, d)
    BY <1>2, <1>6
  <2>2. d.owner \notin DOMAIN s.companions
    <3> SUFFICES ASSUME d.owner \in DOMAIN s.companions PROVE FALSE
      OBVIOUS
    <3>1. LiveElement(model, s, d.owner)
      BY <1>2 DEF CompanionsOK
    <3> QED BY <3>1, <1>4, <1>5, <1>6 DEF LiveElement
  <2>3. \A i \in Kept(model, s) : Identified(Whole(model, s)[i]) => Whole(model, s)[i].id \notin d.ids
    BY <2>1, <2>2 DEF GoneTogether
  <2> QED BY <2>3, <1>4
<1>7. \A j \in DOMAIN lines : IsTuple(lines[j], "ATTR") => lines[j].parent \in Elements(lines)
  <2>1. \A j \in DOMAIN lines : IsTuple(lines[j], "ATTR") =>
          \E c \in DOMAIN lines : IsElement(lines[c]) /\ lines[c].id = lines[j].parent
    BY <1>3 DEF WellFormed, Consistent, Owned
  <2> QED BY <2>1 DEF Elements
<1> QED BY <1>6, <1>7 DEF RemovalLeavesNothing, lines, ids

-----------------------------------------------------------------------------
(* The program: one task at a time.                                        *)

LibraryInv ==
  /\ IF task = "schematic" THEN WriterInv ELSE session = None
  /\ IF task = "symbol" THEN SymbolInv ELSE editor = None
  /\ IF task = "placement" THEN PlacementInv ELSE placed = None

(* Each invariant holds in every state of a program that uses the library.  *)
LEMMA LibraryInvHolds == LibrarySpec => []LibraryInv
<1>1. LibraryInit => LibraryInv
  BY WriterStarts, EditorStarts, PlacementStarts DEF LibraryInit, LibraryInv
<1>2. LibraryInv /\ [LibraryNext]_libraryVars => LibraryInv'
  <2> SUFFICES ASSUME LibraryInv, [LibraryNext]_libraryVars PROVE LibraryInv'
    OBVIOUS
  <2>1. CASE task = "schematic" /\ WriterNext /\ UNCHANGED <<task, editorVars, placed>>
    <3>1. task' = task /\ editor' = editor /\ placed' = placed
      BY <2>1 DEF editorVars
    <3>2. WriterInv'
      BY <2>1, WriterKept DEF LibraryInv
    <3> QED BY <2>1, <3>1, <3>2 DEF LibraryInv
  <2>2. CASE task = "symbol" /\ EditorNext /\ UNCHANGED <<task, writerVars, placed>>
    <3>1. SymbolInv'
      BY <2>2, EditorKept DEF LibraryInv
    <3>2. session' = session
      BY <2>2 DEF writerVars
    <3> QED BY <2>2, <3>1, <3>2 DEF LibraryInv
  <2>3. CASE task = "placement" /\ PlacementNext /\ UNCHANGED <<task, writerVars, editorVars>>
    <3>1. PlacementInv'
      BY <2>3, PlacementKept DEF LibraryInv
    <3>2. editor' = editor /\ session' = session
      BY <2>3 DEF editorVars, writerVars
    <3> QED BY <2>3, <3>1, <3>2 DEF LibraryInv
  <2>4. CASE UNCHANGED libraryVars
    <3>1. /\ task' = task /\ editor' = editor /\ placed' = placed /\ session' = session
          /\ UNCHANGED editorVars /\ UNCHANGED writerVars
      BY <2>4 DEF libraryVars, editorVars, writerVars
    <3>2. SymbolInv => SymbolInv'
      BY <3>1, EditorRests
    <3>3. PlacementInv => PlacementInv'
      BY <3>1 DEF PlacementInv
    <3>4. WriterInv => WriterInv'
      BY <3>1, WriterRests
    <3> QED BY <3>1, <3>2, <3>3, <3>4 DEF LibraryInv
  <2> QED BY <2>1, <2>2, <2>3, <2>4 DEF LibraryNext
<1> QED BY <1>1, <1>2, PTL DEF LibrarySpec

(* Whatever is added, removed, saved and loaded again, what is written names *)
(* nothing twice: ids, Unique IDs, HEAD.maxId and allocated designators, for *)
(* any pages and any number of edits (schematic-writer.ts).                  *)
THEOREM NothingIsNamedTwice == LibrarySpec => []NamesStayUnique
<1>1. LibraryInv => NamesStayUnique
  <2>1. session = None => NamesStayUnique
    BY DEF NamesStayUnique, Open
  <2> QED BY <2>1, NamedApart DEF LibraryInv
<1> QED BY <1>1, LibraryInvHolds, PTL

(* An element added in this session takes everything along that was made     *)
(* with it, and no attribute loses its owner, for any pages and any number   *)
(* of edits (removeElement and the companions it follows).                   *)
THEOREM RemovalsAreWhole == LibrarySpec => []RemovalLeavesNothing
<1>1. LibraryInv => RemovalLeavesNothing
  <2>1. session = None => RemovalLeavesNothing
    BY DEF RemovalLeavesNothing, Open
  <2> QED BY <2>1, RemovedWhole DEF LibraryInv
<1> QED BY <1>1, LibraryInvHolds, PTL

(* A label shows the style that was asked for it and no other label changes, *)
(* for any symbol files, changes and calls (symbol-editor.ts).               *)
THEOREM LabelsShowWhatWasAsked == LibrarySpec => []StylesAsAsked
<1>1. LibraryInv => StylesAsAsked
  BY SymbolShown DEF LibraryInv, StylesAsAsked
<1> QED BY <1>1, LibraryInvHolds, PTL

(* A pin is drawn where the reader says it is, for any symbols, positions,   *)
(* rotations and flips (schematic-reader.ts and geometry.ts agree).          *)
THEOREM PinsAreDrawnWhereRead == LibrarySpec => []PinsAreWhereDrawn
<1>1. LibraryInv => PinsAreWhereDrawn
  <2>1. placed = None => PinsAreWhereDrawn
    <3>1. placed = None => DOMAIN placed = {}
      BY DEF None
    <3> QED BY <3>1, ZenonT(40) DEF PinsAreWhereDrawn
  <2> QED BY <2>1, PlacedPins DEF LibraryInv
<1> QED BY <1>1, LibraryInvHolds, PTL
=============================================================================
