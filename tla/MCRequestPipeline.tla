------------------------- MODULE MCRequestPipeline --------------------------
(* Two requests, two boards and a schematic.  The jobs cover a switch with   *)
(* and without the split-screen lookup, a request without a document, and   *)
(* methods of each kind.                                                    *)
EXTENDS RequestPipeline
CONSTANTS r1, r2, boardA, boardB, sheet

MCRequests == {r1, r2}
MCDocs     == {boardA, boardB, sheet}
MCDocType  == [d \in MCDocs |-> IF d = sheet THEN "sch" ELSE "pcb"]

AsksFor(target, split, kind) == [target |-> target, split |-> split, kind |-> kind]

MCJobs == {AsksFor(boardA, TRUE, "pcb"), AsksFor(boardB, FALSE, "pcb"),
           AsksFor(sheet, FALSE, "pcb"), AsksFor(NoDoc, FALSE, "sch"),
           AsksFor(boardA, FALSE, "any")}
=============================================================================
