------------------------------ MODULE Library -------------------------------
(***************************************************************************)
(* A program that uses the design library (lib/index.ts) on one file: it   *)
(* edits a schematic page, restyles a symbol or looks for room for a part. *)
(***************************************************************************)
EXTENDS SchematicWriter, SymbolEditor, Geometry

VARIABLE task

libraryVars == <<task, writerVars, editorVars, placed>>

LibraryInit ==
  /\ task \in {"schematic", "symbol", "placement"}
  /\ IF task = "schematic" THEN WriterInit
     ELSE page = None /\ model = None /\ session = None /\ edits = 0 /\ done = {}
  /\ IF task = "symbol" THEN EditorInit
     ELSE symbolFile = None /\ editor = None /\ restyles = 0 /\ wanted = None
  /\ IF task = "placement" THEN PlacementInit ELSE placed = None

LibraryNext ==
  \/ task = "schematic" /\ WriterNext /\ UNCHANGED <<task, editorVars, placed>>
  \/ task = "symbol" /\ EditorNext /\ UNCHANGED <<task, writerVars, placed>>
  \/ task = "placement" /\ PlacementNext /\ UNCHANGED <<task, writerVars, editorVars>>

LibrarySpec == LibraryInit /\ [][LibraryNext]_libraryVars
=============================================================================
