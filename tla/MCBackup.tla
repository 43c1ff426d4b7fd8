------------------------------ MODULE MCBackup ------------------------------
(* Two calls that back up the same project and one that backs up a document  *)
(* of it; a snapshot is one file, written after the wipe.                    *)
EXTENDS Backup
CONSTANTS import, swap, set, snapshot, doc, p

MCCalls     == {import, swap, set}
MCFiles     == {snapshot, doc}
MCProjects  == {p}
MCProjectOf == [f \in MCFiles |-> p]
MCFilesOf   == [c \in MCCalls |-> IF c = set THEN {doc} ELSE {snapshot}]
MCSnapshots == {import, swap}
=============================================================================
