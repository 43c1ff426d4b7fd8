------------------------------ MODULE PcbHandlers ------------------------------
(***************************************************************************)
(* The pcb.* handlers that do more than pass a call on: parameters whose   *)
(* names become EasyEDA's numbers, fills and regions that are read back    *)
(* once they are made, copper that is rebuilt pour by pour, and design     *)
(* rules, whose preference a bad write can leave unreadable.  One request  *)
(* at a time, one step for what happens between two awaits.                *)
(***************************************************************************)
EXTENDS Integers, Sequences, FiniteSets, SequencesExt

CONSTANTS
    PcbRequests, \* the requests: [op, type, params, points, rules, pours, ids]
    Pours,       \* the pours on the board
    Callable     \* those with a rebuildCopperRegion of their own

VARIABLES
    want,        \* the request
    stage,       \* where its handler is; "done" when the caller has its answer
    given,       \* its parameters once normalised
    board,       \* the primitive as EasyEDA stores it
    poured,      \* pours of which EasyEDA has returned new copper
    preference,  \* EasyEDA's stored rule configurations: "sound" or "corrupt"
    left,        \* pours the handler has still to try
    rebuilt,     \* pours it counts as rebuilt
    failed,      \* the calls it counts as failed, in order
    pouredCount, \* how many it says have new copper
    answer       \* what the caller is told

pourVars == <<poured, left, rebuilt, failed, pouredCount>>
pcbVars == <<want, stage, given, board, preference, pourVars, answer>>

-----------------------------------------------------------------------------
(* pcb-params.ts.  A value is a number, the digits of one, a name with its *)
(* case, blanks and "layer" taken off, undefined, or some other value: an  *)
(* array, an object, a function.                                           *)

number(k) == [is |-> "number", id |-> k, name |-> "", n |-> 0]
digits(k) == [is |-> "digits", id |-> k, name |-> "", n |-> 0]
named(s, k) == [is |-> "name", id |-> 0, name |-> s, n |-> k]
absent == [is |-> "absent", id |-> 0, name |-> "", n |-> 0]
throws == [is |-> "throws", id |-> 0, name |-> "", n |-> 0]
other == [is |-> "other", id |-> 0, name |-> "", n |-> 0]

(* A rule type, a via type or a fill mode is one value or a list of them.  *)
single(v) == [list |-> FALSE, items |-> <<v>>]
several(items) == [list |-> TRUE, items |-> items]

PcbValues(kinds) == [is: kinds, id: Nat, name: STRING \cup {""}, n: Nat]
Item == PcbValues({"number", "digits", "name", "other"})
Argument == Item \cup {absent}

IsMode(m) ==
    \/ m \in [list: {TRUE}, items: Seq(Item)]
    \/ m \in [list: {FALSE}, items: Seq(Argument)] /\ Len(m.items) = 1

Modes == [list: BOOLEAN, items: Seq(Argument)]
Properties == [layer: Argument, layerId: Argument, mode: Modes, width: Argument]

(* What the tools let through: a create's values are of its schema, the    *)
(* property of a modify is a record of anything at all.  Only the last of  *)
(* the types, which stands for those without an enum, has no mode.  An     *)
(* outline has two points or more (isPointArray), and a request for some   *)
(* of the pours finds no others.                                           *)
ASSUME PcbAssumption ==
    /\ IsFiniteSet(Pours)
    /\ \A q \in PcbRequests :
        /\ q.op \in {"create", "modify", "rebuild", "rules"}
        /\ q.type \in {"region", "via", "fill", "line"}
        /\ q.params \in [layer: Argument, mode: Modes, width: Argument, property: Properties]
        /\ IsMode(q.params.mode) /\ IsMode(q.params.property.mode)
        /\ q.type = "line" => {q.params.mode, q.params.property.mode} = {single(absent)}
        /\ q.points \in Seq(Int \X Int) /\ Len(q.points) >= 2
        /\ q.pours \subseteq Pours
        /\ q.ids # {} => q.pours \subseteq q.ids

LAYER_NAME_TO_ID ==
    [top |-> 1, bottom |-> 2, topsilkscreen |-> 3, topsilk |-> 3,
     bottomsilkscreen |-> 4, bottomsilk |-> 4, topsoldermask |-> 5, topsolder |-> 5,
     bottomsoldermask |-> 6, bottomsolder |-> 6, toppastemask |-> 7, toppaste |-> 7,
     bottompastemask |-> 8, bottompaste |-> 8, topassembly |-> 9, bottomassembly |-> 10,
     boardoutline |-> 11, outline |-> 11, multi |-> 12, document |-> 13, mechanical |-> 14, ratline |-> 57, topstiffener |-> 58, bottomstiffener |-> 59]

REGION_RULE_NAME_TO_ID ==
    [nocomponents |-> 2, nowires |-> 5, norouting |-> 5, notracks |-> 5, nofills |-> 6,
     nopours |-> 7, nopour |-> 7, noinnerlayers |-> 8, noinnerelectricallayers |-> 8,
     followregionrule |-> 9, constraint |-> 9]

VIA_TYPE_NAME_TO_ID ==
    [via |-> 0, through |-> 0, throughhole |-> 0, blind |-> 1, buried |-> 1,
     blindburied |-> 1, suture |-> 2, stitching |-> 2]

FILL_MODE_NAME_TO_ID ==
    [solid |-> 0, mesh |-> 1, grid |-> 1, innerelectricallayer |-> 2, innerlayer |-> 2,
     plane |-> 2]

(* The tables are objects, and one name of every object survives the       *)
(* folding of the case: it finds a function.                               *)
inherited(v) == v.is = "name" /\ v.name = "constructor" /\ v.n = 0

toEnumId(v, table) ==
    IF v.is = "digits" THEN number(v.id)
    ELSE IF v.is # "name" THEN v
    ELSE IF v.name \in DOMAIN table /\ v.n = 0 THEN number(table[v.name])
    ELSE IF inherited(v) THEN other ELSE throws

toLayerId(v) ==
    IF v.is = "name" /\ v.name = "inner" /\ v.n \in 1..30 THEN number(14 + v.n)
    ELSE IF v.is = "name" /\ v.name = "custom" /\ v.n \in 1..30 THEN number(70 + v.n)
    ELSE toEnumId(v, LAYER_NAME_TO_ID)

(* The names of the enum that a type's primitives carry, a region's        *)
(* perhaps several; a line has none.                                       *)
enumFieldFor(type) ==
    [region |-> REGION_RULE_NAME_TO_ID, via |-> VIA_TYPE_NAME_TO_ID,
     fill |-> FILL_MODE_NAME_TO_ID][type]

(* Only a region's list is gone through; any other stays as it is.         *)
EnumField(type, mode) ==
    IF type = "line" \/ (mode.list /\ type # "region") THEN mode
    ELSE [mode EXCEPT !.items = [i \in DOMAIN @ |-> toEnumId(@[i], enumFieldFor(type))]]

(* Not the code: layerId is left as it comes. *)
NormalizeLayerOnly(type, property) ==
    [property EXCEPT !.layer = toLayerId(@), !.mode = EnumField(type, @)]

(* Parameters stand at the top level of a create, and in the `property' of *)
(* a modify, which may call the layer layerId.                             *)
NormalizeProperty(type, property) ==
    [property EXCEPT !.layer = toLayerId(@), !.layerId = toLayerId(@),
                     !.mode = EnumField(type, @)]

normalizePcbParams(type, params) ==
    [params EXCEPT !.layer = toLayerId(@), !.mode = EnumField(type, @),
                   !.property = NormalizeProperty(type, @)]

Throws(p) ==
    throws \in {p.layer, p.property.layer, p.property.layerId}
                  \cup ToSet(p.mode.items) \cup ToSet(p.property.mode.items)

(* [{x, y}, ...] becomes x y L x y ..., with the first point once more at  *)
(* the end of a closed shape unless the caller has put it there.           *)
toPolygonSource(points) == [from |-> points[1], lines |-> Tail(points)]

toClosedPolygonSource(points) ==
    toPolygonSource(IF points[1] = Last(points) THEN points ELSE Append(points, points[1]))

-----------------------------------------------------------------------------
PcbInit ==
    /\ want \in PcbRequests
    /\ stage = "asked"
    /\ given = want.params
    /\ board = [layer |-> number(1), layerId |-> number(1), mode |-> single(number(0)),
                width |-> number(1), outline |-> toPolygonSource(<<<<0, 0>>>>)]
    /\ poured = {}
    /\ preference = "sound"
    /\ left = want.pours
    /\ rebuilt = {}
    /\ failed = <<>>
    /\ pouredCount = 0
    /\ answer = [told |-> "nothing"]

Answers(a) == stage' = "done" /\ answer' = a

(* The queue normalises the parameters before it calls the handler; a name *)
(* that no table has goes no further.                                      *)
Normalize ==
    /\ stage = "asked"
    /\ want.op \in {"create", "modify"}
    /\ given' = normalizePcbParams(want.type, want.params)
    /\ IF Throws(given') THEN Answers([told |-> "unknown name"])
       ELSE stage' = "write" /\ UNCHANGED answer
    /\ UNCHANGED <<want, board, preference, pourVars>>

(* The place of a request's values: a create hands over those it knows, a  *)
(* modify its whole property.  Of the keys that nothing converts, width    *)
(* stands for every one.                                                   *)
valuesOf(params) ==
    IF want.op = "create"
    THEN [layer |-> params.layer, layerId |-> absent, mode |-> params.mode, width |-> params.width]
    ELSE params.property

requested == valuesOf(given)

reversed(mode) == [mode EXCEPT !.items = Reverse(@)]

(* EasyEDA stores a layer as it comes, a list of rules in an order of its  *)
(* own, and of the rest what it likes.                                     *)
EdaStores ==
    /\ stage = "write"
    /\ want.op \in {"create", "modify"}
    /\ \E layerId \in {board.layerId, requested.layerId},
          mode \in {board.mode, requested.mode, reversed(requested.mode)},
          width \in {board.width, requested.width} :
        board' = [layer |-> IF requested.layer = absent THEN board.layer ELSE requested.layer,
                  layerId |-> IF requested.layerId = absent THEN board.layerId ELSE layerId,
                  mode |-> IF requested.mode = single(absent) THEN board.mode ELSE mode,
                  width |-> IF requested.width = absent THEN board.width ELSE width,
                  outline |-> IF want.op # "create" \/ want.type = "via" THEN board.outline
                              ELSE IF want.type = "line" THEN toPolygonSource(want.points)
                              ELSE toClosedPolygonSource(want.points)]
    /\ stage' = "stored"
    /\ UNCHANGED <<want, given, preference, pourVars, answer>>

(* createPolygon refuses the outline (Invalid polygon data), or EasyEDA    *)
(* throws, before it has stored anything or after.                         *)
EdaThrows ==
    /\ stage \in {"write", "stored"}
    /\ want.op \in {"create", "modify"}
    /\ Answers([told |-> "error"])
    /\ UNCHANGED <<want, given, board, preference, pourVars>>

(* Two lists are sorted and compared: one is the other reordered.  Other   *)
(* values are the same only if they are identical, which an array or an    *)
(* object read from EasyEDA never is.                                      *)
sameItems(x, y) ==
    \E p \in Bijection(DOMAIN x, DOMAIN y) : \A i \in DOMAIN x : x[i] = y[p[i]]

identical(v, w) == v = w /\ v.is # "other"

sameMode(x, y) ==
    IF x.list /\ y.list THEN sameItems(x.items, y.items)
    ELSE ~x.list /\ ~y.list /\ identical(x.items[1], y.items[1])

notApplied(stored) ==
    {k \in {"layer", "layerId", "width"} :
        requested[k] # absent /\ ~identical(requested[k], stored[k])}
        \cup {k \in {"mode"} :
                requested.mode # single(absent) /\ ~sameMode(requested.mode, stored.mode)}

(* A fill or a region is read again; EasyEDA's own answer to the write is  *)
(* only what it was sent.                                                  *)
readBackPrimitive ==
    /\ stage = "stored"
    /\ want.type \in {"fill", "region"}
    /\ Answers([told |-> "stored", primitive |-> board, notApplied |-> notApplied(board)])
    /\ UNCHANGED <<want, given, board, preference, pourVars>>

ReadBackFails ==
    /\ stage = "stored"
    /\ Answers([told |-> "made"])
    /\ UNCHANGED <<want, given, board, preference, pourVars>>

-----------------------------------------------------------------------------
(* pcb.pour.rebuild.  EasyEDA finds each pour once.                        *)

OwnFailure(p) == [call |-> "rebuildCopperRegion", ids |-> {p}]
AllFailure == [call |-> "rebuildCopperRegions", ids |-> want.ids]

Tries(p) ==
    /\ stage = "asked"
    /\ want.op = "rebuild"
    /\ p \in left
    /\ left' = left \ {p}

(* The pour's own call: a region comes back, nothing does, or it throws.   *)
PourRebuilds(p) ==
    /\ Tries(p)
    /\ p \in Callable
    /\ poured' = poured \cup {p}
    /\ rebuilt' = rebuilt \cup {p}
    /\ pouredCount' = pouredCount + 1
    /\ UNCHANGED <<want, stage, given, board, preference, failed, answer>>

PourFails(p) ==
    /\ Tries(p)
    /\ p \in Callable
    /\ failed' = Append(failed, OwnFailure(p))
    /\ UNCHANGED <<want, stage, given, board, preference, poured, rebuilt, pouredCount, answer>>

PourIsSkipped(p) ==
    /\ Tries(p)
    /\ p \notin Callable
    /\ UNCHANGED <<want, stage, given, board, preference, poured, rebuilt, failed, pouredCount,
                   answer>>

(* When no pour could be rebuilt on its own, the call for all of them, if  *)
(* this EasyEDA has it.                                                    *)
Tried == stage = "asked" /\ want.op = "rebuild" /\ left = {}

CallsForAll == rebuilt = {} /\ (want.pours # {} \/ want.ids = {})

(* It returns the copper of some, as a list or not; the answer then names  *)
(* every pour, and only the count tells how many EasyEDA returned.         *)
rebuildCopperRegions ==
    /\ Tried
    /\ CallsForAll
    /\ \E all \in SUBSET want.pours, list \in BOOLEAN :
        /\ poured' = all
        /\ Answers([told |-> "rebuildCopperRegions", rebuilt |-> want.pours, failed |-> <<>>,
                    pouredCount |-> IF list THEN Cardinality(all) ELSE 0])
    /\ UNCHANGED <<want, given, board, preference, left, rebuilt, failed, pouredCount>>

(* It is not there, not called for, or throws: one more failure, of the    *)
(* ids that were asked for.                                                *)
RebuildEnds ==
    /\ Tried
    /\ \E last \in {<<>>} \cup (IF CallsForAll THEN {<<AllFailure>>} ELSE {}) :
        Answers([told |-> IF want.pours \cap Callable # {} THEN "rebuildCopperRegion" ELSE "none",
                 rebuilt |-> rebuilt, failed |-> failed \o last, pouredCount |-> pouredCount,
                 note |-> (rebuilt = {} /\ failed \o last # <<>>)])
    /\ UNCHANGED <<want, given, board, preference, pourVars>>

-----------------------------------------------------------------------------
(* pcb.drc.saveRuleConfig and overwriteCurrentRuleConfig.  An object is a  *)
(* record of its kids; a rule set's kid is its editName.                   *)

(* pcb_get_design_rules answers {config, name}.                            *)
unwrapRuleConfiguration(input) ==
    IF input.config.object /\ input.name \in {"text", "none"} THEN input.config ELSE input.whole

Filled(o) == o.object /\ o.kids # {}

assertPlausibleRuleConfiguration(config) ==
    /\ Filled(config)
    /\ \A category \in config.kids :
        /\ Filled(category)
        /\ \A group \in category.kids :
            Filled(group) /\ \A set \in group.kids : set.object /\ set.editName

ChecksRules ==
    /\ stage = "asked"
    /\ want.op = "rules"
    /\ IF assertPlausibleRuleConfiguration(unwrapRuleConfiguration(want.rules))
       THEN stage' = "write" /\ UNCHANGED answer
       ELSE Answers([told |-> "refused"])
    /\ UNCHANGED <<want, given, board, preference, pourVars>>

(* The write: EasyEDA takes it, or says false, or throws, and then its     *)
(* preference may be past reading.                                         *)
RulesAccepted ==
    /\ stage = "write"
    /\ want.op = "rules"
    /\ Answers([told |-> "accepted"])
    /\ UNCHANGED <<want, given, board, preference, pourVars>>

RulesRejected(how) ==
    /\ stage = "write"
    /\ want.op = "rules"
    /\ preference' \in {"sound", "corrupt"}
    /\ stage' = how
    /\ UNCHANGED <<want, given, board, pourVars, answer>>

(* Not the code: what the write throws is passed on. *)
GuardOnlyFalse ==
    /\ stage \in {"false", "threw"}
    /\ \E isList \in BOOLEAN :
        /\ isList => preference = "sound"
        /\ Answers([told |-> IF stage = "threw" THEN "error"
                             ELSE IF ~isList THEN "repair" ELSE "rejected"])
    /\ UNCHANGED <<want, given, board, preference, pourVars>>

(* guardedRuleConfigWrite then asks for the list: an array, or not.        *)
guardedRuleConfigWrite ==
    /\ stage \in {"false", "threw"}
    /\ \E isList \in BOOLEAN :
        /\ isList => preference = "sound"
        /\ Answers([told |-> IF ~isList THEN "repair"
                             ELSE IF stage = "threw" THEN "error" ELSE "rejected"])
    /\ UNCHANGED <<want, given, board, preference, pourVars>>

PcbNext ==
    \/ Normalize \/ EdaStores \/ EdaThrows \/ readBackPrimitive \/ ReadBackFails
    \/ \E p \in Pours : PourRebuilds(p) \/ PourFails(p) \/ PourIsSkipped(p)
    \/ rebuildCopperRegions \/ RebuildEnds
    \/ ChecksRules \/ RulesAccepted
    \/ \E how \in {"false", "threw"} : RulesRejected(how)
    \/ guardedRuleConfigWrite

-----------------------------------------------------------------------------
(* Properties.                                                             *)

(* What no converter looks into: an array or object where a value should   *)
(* be, a list where only one value should be, and the name that every      *)
(* object has (toLayerId, toEnumId and toRegionRuleType hand on what is    *)
(* not a string; a modify's property is a record of anything,              *)
(* write-tools.ts).                                                        *)
LetThrough(v) == v.is = "other" \/ inherited(v)

LetModeThrough(type, mode) ==
    \/ mode.list /\ type # "region"
    \/ \E v \in ToSet(mode.items) : LetThrough(v)

(* EasyEDA stores a layer, a rule, a mode or a via type as it is sent and  *)
(* compares it with numbers: a name that gets through is copper nothing    *)
(* connects to.  At each of its places, the layer, the layerId and the     *)
(* mode of a create and of a modify's property, a value that is a number,  *)
(* digits or a name reaches the board as a number or not at all: what else *)
(* the board comes to hold there is what no converter looks into.          *)
NoDeadValues ==
    stage # "idle" =>
        LET asked == valuesOf(want.params) IN
        /\ board.layer.is = "number" \/ LetThrough(asked.layer)
        /\ board.layerId.is = "number" \/ LetThrough(asked.layerId)
        /\ \/ \A v \in ToSet(board.mode.items) : v.is = "number"
           \/ LetModeThrough(want.type, asked.mode)

(* A fill or region that could be read back is closed, is reported as it   *)
(* is stored, and names exactly the values asked for that are not there;   *)
(* a list is there in whatever order it is stored, and an array or object  *)
(* of which nobody can tell is named.                                      *)
PrimitivesAsStored ==
    answer.told = "stored" =>
        /\ answer.primitive = board
        /\ want.op = "create" => Last(board.outline.lines) = board.outline.from
        /\ \A k \in {"layer", "layerId", "width"} :
            requested[k].is \notin {"absent", "other"} =>
              (k \in answer.notApplied <=> requested[k] # board[k])
        /\ ~requested.mode.list /\ requested.mode.items[1].is \notin {"absent", "other"} =>
            ("mode" \in answer.notApplied <=> requested.mode # board.mode)
        /\ requested.mode.list =>
            /\ ToSet(requested.mode.items) # ToSet(board.mode.items)
                 => "mode" \in answer.notApplied
            /\ board.mode \in {requested.mode, reversed(requested.mode)} =>
                 "mode" \notin answer.notApplied

(* The failures that a rebuild reports of a pour's own call.               *)
NamedOnce(p, failures) ==
    \E i \in DOMAIN failures : \A j \in DOMAIN failures : failures[j] = OwnFailure(p) <=> j = i

NotNamed(p, failures) == \A j \in DOMAIN failures : failures[j] # OwnFailure(p)

(* A rebuild pour by pour counts exactly the pours with new copper as      *)
(* rebuilt, names each other callable pour once among the failures, closes *)
(* them with the failed call for all if there was one, and says what to do *)
(* when nothing was rebuilt but something failed.  The call for all is     *)
(* made only when no pour was rebuilt on its own, and its count is never   *)
(* above what EasyEDA returned.                                            *)
PoursAsRebuilt ==
    /\ answer.told \in {"rebuildCopperRegion", "none"} =>
        /\ answer.rebuilt = poured
        /\ answer.pouredCount = Cardinality(poured)
        /\ \A p \in Pours :
            IF p \in (want.pours \cap Callable) \ poured THEN NamedOnce(p, answer.failed)
            ELSE NotNamed(p, answer.failed)
        /\ \A i \in DOMAIN answer.failed :
            \/ \E p \in Pours : answer.failed[i] = OwnFailure(p)
            \/ answer.failed[i] = AllFailure /\ i = Len(answer.failed) /\ poured = {}
        /\ answer.note <=> poured = {} /\ answer.failed # <<>>
    /\ answer.told = "rebuildCopperRegions" =>
        rebuilt = {} /\ answer.pouredCount <= Cardinality(poured)

(* A rule write that leaves the preference unreadable ends in the error    *)
(* that names the repair, never in a plain false or somebody's exception.  *)
CorruptionIsLoud == (preference = "corrupt" /\ stage = "done") => answer.told = "repair"

AnswersAreTrue == PrimitivesAsStored /\ PoursAsRebuilt /\ CorruptionIsLoud

=============================================================================
