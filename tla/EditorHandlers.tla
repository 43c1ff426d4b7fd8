----------------------------- MODULE EditorHandlers -----------------------------
(***************************************************************************)
(* The extension's handlers that do more than pass one call to EasyEDA:    *)
(* those of a schematic, the last step of its connectivity answer, and     *)
(* those of a board.  An editor shows one document, so a behaviour is of   *)
(* one task, and the state of the other two stands still.                  *)
(***************************************************************************)
EXTENDS SchematicHandlers, PcbHandlers, Connectivity

VARIABLE task

editorVars == <<vars, pcbVars, connectivityVars, task>>

NoPcb ==
    /\ want = None /\ given = None /\ board = None /\ answer = [told |-> "nothing"]
    /\ stage = "idle" /\ preference = "sound"
    /\ poured = {} /\ left = {} /\ rebuilt = {} /\ failed = <<>> /\ pouredCount = 0

NoConnectivity == query = None /\ reply = [ready |-> FALSE]

NoSchematic ==
    /\ CacheInit
    /\ project = CHOOSE p \in Projects : TRUE
    /\ page = Board /\ stored = Metadata /\ intended = Metadata /\ raced = {}
    /\ handler = [r \in Requests |-> IdleHandler] /\ slot = None /\ events = 0

EditorInit ==
    \/ task = "schematic" /\ Init /\ NoPcb /\ NoConnectivity
    \/ task = "connectivity" /\ ConnectivityInit /\ NoPcb /\ NoSchematic
    \/ task = "board" /\ PcbInit /\ NoSchematic /\ NoConnectivity

SchematicTask == task = "schematic" /\ Next /\ UNCHANGED <<pcbVars, connectivityVars, task>>
ConnectivityTask == task = "connectivity" /\ connectivityGet /\ UNCHANGED <<vars, pcbVars, task>>
BoardTask == task = "board" /\ PcbNext /\ UNCHANGED <<vars, connectivityVars, task>>

EditorNext == SchematicTask \/ ConnectivityTask \/ BoardTask

EditorSpec == EditorInit /\ [][EditorNext]_editorVars

=============================================================================
