-------------------------- MODULE SchematicWriter ---------------------------
(***************************************************************************)
(* lib/schematic-writer.ts: edits to a schematic page.  A caller loads a   *)
(* page (lib/loader.ts), adds and removes elements and writes the source   *)
(* back, as often as it likes, and may load the page again at any time.    *)
(* The writer looks pins up in the model of the page as it was loaded.     *)
(***************************************************************************)
EXTENDS EasyEdaSource

CONSTANTS
  Pages,          \* sources a page may have at first
  PinRefs,        \* <<part, ".", pin number>> as in "U2.16", <<part, ":", pin name>>
  Nets,           \* net names for netports and resistors
  Rails,          \* net names for power symbols
  Resistor,       \* the part used in series, a two-pin symbol of length 2 * PinOffset
  PinOffset,      \* RES_PIN_OFFSET
  Designators,    \* designators a caller chooses for itself, None to have one allocated
  MaxEdits        \* how often each of them is edited in one behaviour (bound)

(* Pages as the editor writes them: ids and Unique IDs name one thing each, *)
(* HEAD is there once and ahead of every id, an attribute has its owner on  *)
(* the page, and a Unique ID comes after the component it belongs to.       *)

IsElement(line) == IsTuple(line, "COMPONENT") \/ IsTuple(line, "WIRE")
Says(line, key) == IsTuple(line, "ATTR") /\ line.key = key
Identified(line) == line.text = "tuple" /\ "id" \in DOMAIN line

Formed(line) ==
  /\ IsTuple(line, "HEAD") => line = HeadLine(line.maxId) /\ line.maxId \in Nat
  /\ IsTuple(line, "COMPONENT") =>
       /\ line = makeComponentLine(line.id, line.part, line.at, line.rotation, line.flip)
       /\ line.at \in Int \X Int /\ line.rotation \in RightAngles /\ line.flip \in {0, 1}
  /\ IsTuple(line, "WIRE") => line = makeWireLine(line.id, line.segments)
  /\ IsTuple(line, "ATTR") => line = makeAttrLine(line.id, line.parent, line.key, line.value)
  /\ Says(line, "Designator") \/ Says(line, "UniqueID") => (Len(line.value) = 2 => line.value[2] \in Nat)
  /\ Identified(line) => line.id \in Nat

(* The lines at these places. *)
NamedOnce(lines, places) ==
  \A i, j \in places : Identified(lines[i]) /\ Identified(lines[j]) /\ lines[i].id = lines[j].id => i = j
OneHead(lines, places) == \E h \in places : \A j \in places : IsTuple(lines[j], "HEAD") <=> j = h
Owned(lines, places) ==
  \A j \in places : IsTuple(lines[j], "ATTR") =>
    \E c \in places : IsElement(lines[c]) /\ lines[c].id = lines[j].parent

(* The Unique ID that stands at j: what it belongs to, and no other like it. *)
OfComponent(lines, places, j) ==
  \E c \in places : c < j /\ IsTuple(lines[c], "COMPONENT") /\ lines[c].id = lines[j].parent
Alike(a, b) == a.parent = b.parent \/ (b.value # None /\ a.value = b.value)
OneUniqueId(lines, places) ==
  \A j \in places : Says(lines[j], "UniqueID") =>
    /\ OfComponent(lines, places, j)
    /\ \A k \in places : Says(lines[k], "UniqueID") /\ Alike(lines[k], lines[j]) => k = j

Consistent(lines, places) ==
  /\ \A i \in places : Formed(lines[i])
  /\ NamedOnce(lines, places) /\ OneHead(lines, places)
  /\ Owned(lines, places) /\ OneUniqueId(lines, places)

WellFormed(source) ==
  /\ source \in Seq(Range(source))
  /\ Consistent(source, DOMAIN source)
  /\ \A h, i \in DOMAIN source :
       IsTuple(source[h], "HEAD") /\ Identified(source[i]) => source[i].id <= source[h].maxId

ASSUME PagesAssumption == \A p \in Pages : isPipeFormatSource(p) \/ WellFormed(p)
ASSUME OffsetAssumption == PinOffset \in Int
ASSUME DesignatorsAssumption == \A d \in Designators : Len(d) = 2 => d[2] \in Nat

VARIABLES
  page,      \* the page's source on disk
  model,     \* what the page held when it was loaded
  session,   \* the writer's own state
  edits,     \* edits left
  done       \* history: what the edits that are in the session or on disk were to achieve

writerVars == <<page, model, session, edits, done>>

-----------------------------------------------------------------------------
(* A writer on a freshly loaded model.  Designator numbers are the next    *)
(* free ones of each prefix that the page uses.                            *)

UsedNumbers(components, prefix) ==
  {c.designator[2] : c \in {d \in Range(components) : Len(d.designator) = 2 /\ d.designator[1] = prefix}}

newWriter(m) ==
  [appended |-> <<>>, removed |-> {}, companions |-> <<>>,
   nextElementId |-> m.maxId + 1, nextGgeId |-> m.maxGgeId + 1,
   nextDesignatorNum |-> [p \in {c.designator[1] : c \in {d \in Range(m.components) : Len(d.designator) = 2}} |->
                            Max(UsedNumbers(m.components, p)) + 1]]

allocDesignator(s, prefix) ==
  LET num == IF prefix \in DOMAIN s.nextDesignatorNum THEN s.nextDesignatorNum[prefix] ELSE 1
      next == [p \in DOMAIN s.nextDesignatorNum \cup {prefix} |->
                 IF p = prefix THEN num + 1 ELSE s.nextDesignatorNum[p]]
  IN [session |-> [s EXCEPT !.nextDesignatorNum = next],
      designator |-> <<prefix, num>>]

(* Of that designator or element id (<<"e", 7>>), in the model as loaded. *)
findComponent(ref) ==
  LET parts == {n \in DOMAIN model.components :
                  \/ model.components[n].designator = ref
                  \/ <<"e", model.components[n].elementId>> = ref}
  IN IF parts = {} THEN None ELSE <<model.components[Min(parts)]>>

findPin(ref) ==
  LET part == findComponent(ref[1])
      pins == IF part = None THEN <<>> ELSE part[1].pins
      hits == {n \in DOMAIN pins : ref[3] = IF ref[2] = "." THEN pins[n].number ELSE pins[n].name}
  IN IF hits = {} THEN None ELSE <<pins[Min(hits)]>>

Appended(s, lines) == [s EXCEPT !.appended = @ \o lines, !.nextElementId = @ + Len(lines)]
Companions(s, id, ids) ==
  [s EXCEPT !.companions = [e \in DOMAIN s.companions \cup {id} |-> IF e = id THEN ids ELSE s.companions[e]]]

(* The wire gets its id before the attributes of the component. *)
addNetportAt(s, net, at, rotation) ==
  LET c == s.nextElementId
      template == model.palette.netport[1]
      lines == <<makeComponentLine(c, NoPart, at, rotation, 0),
                 makeAttrLine(c + 2, c, "Symbol", template.symbol),
                 makeAttrLine(c + 3, c, "Name", net),
                 makeAttrLine(c + 4, c, "Device", template.device),
                 makeAttrLine(c + 5, c, "Relevance", <<"none">>),
                 makeWireLine(c + 1, <<<<at, at>>>>),
                 makeAttrLine(c + 6, c + 1, "NET", net)>>
  IN Companions(Appended(s, lines), c, {c + 1})

addJunctionWire(s, at) == Appended(s, <<makeWireLine(s.nextElementId, <<<<at, at>>>>)>>)

addComponent(s, part, designator, at, rotation) ==
  LET c == s.nextElementId
      template == model.palette.parts[part][1]
      lines == <<makeComponentLine(c, part, at, rotation, 0),
                 makeAttrLine(c + 1, c, "Symbol", template.symbol),
                 makeAttrLine(c + 2, c, "Designator", designator),
                 makeAttrLine(c + 3, c, "Name", None),
                 makeAttrLine(c + 4, c, "Device", template.device),
                 makeAttrLine(c + 5, c, "ReuseBlock", None),
                 makeAttrLine(c + 6, c, "GroupID", None),
                 makeAttrLine(c + 7, c, "ChannelID", None),
                 makeAttrLine(c + 8, c, "UniqueID", <<"gge", s.nextGgeId>>)>>
  IN [Appended(s, lines) EXCEPT !.nextGgeId = @ + 1]

(* Away from the component, along the pin's stub. *)
pinOutwardOffset(pin, distance) ==
  CASE pin.angle = 0   -> <<-distance, 0>>
    [] pin.angle = 90  -> <<0, -distance>>
    [] pin.angle = 180 -> <<distance, 0>>
    [] pin.angle = 270 -> <<0, distance>>

(* Not the code: the resistor is not turned. *)
placeResistorFlat(s, pin, designator) ==
  LET at == Plus(pin.at, pinOutwardOffset(pin, PinOffset))
      placed == addComponent(s, Resistor, designator, at, 0)
  IN Companions(addJunctionWire(placed, pin.at), s.nextElementId, {placed.nextElementId})

(* The resistor with one pin on the pin, and its junction there. *)
placeResistor(s, pin, designator) ==
  LET r == s.nextElementId
      at == Plus(pin.at, pinOutwardOffset(pin, PinOffset))
      placed == addComponent(s, Resistor, designator, at, IF pin.angle \in {0, 180} THEN 0 ELSE 90)
      joined == addJunctionWire(placed, pin.at)
  IN Companions(joined, r, {placed.nextElementId})

farEnd(pin) == Plus(pin.at, pinOutwardOffset(pin, 2 * PinOffset))

addPowerSymbol(s, rail, pin) ==
  LET c == s.nextElementId
      template == model.palette.power[rail][1]
      symbol == Appended(s, <<makeComponentLine(c, NoPart, pin.at, pin.angle, 0),
                             makeAttrLine(c + 1, c, "Symbol", template.symbol),
                             makeAttrLine(c + 2, c, "Device", template.device),
                             makeAttrLine(c + 3, c, "Name", rail),
                             makeAttrLine(c + 4, c, "Relevance", <<"none">>)>>)
      joined == addJunctionWire(symbol, pin.at)
      w == joined.nextElementId
      wired == Appended(joined, <<makeWireLine(w, <<<<pin.at, pin.at>>>>),
                                 makeAttrLine(w + 1, w, "NET", rail)>>)
  IN Companions(wired, c, {w - 1, w})

(* Lines of the loaded page are marked, lines added in this session go. *)
Names(line, id) ==
  /\ line.text = "tuple"
  /\ \/ "id" \in DOMAIN line /\ line.id = id
     \/ "parent" \in DOMAIN line /\ line.parent = id

removeAll(s, ids) ==
  LET Hit(line) == \E id \in ids : Names(line, id)
  IN [s EXCEPT !.removed = @ \cup {i \in DOMAIN model.lines : model.lines[i].kind = "known" /\ Hit(model.lines[i].data)},
               !.appended = Filtered(@, {i \in DOMAIN @ : ~Hit(@[i])}),
               !.companions = [e \in DOMAIN @ \ ids |-> @[e]]]

(* Not the code: the companions stay. *)
RemoveWithoutCompanions(s, id) == removeAll(s, {id})

(* Only a component has companions, and they are wires, which have none. *)
removeElement(s, id) ==
  removeAll(s, {id} \cup IF id \in DOMAIN s.companions THEN s.companions[id] ELSE {})

(* Not the code: HEAD keeps its maxId. *)
SerializeStaleHead(s) ==
  LET order == InOrder(model.lines, (DOMAIN model.lines) \ s.removed)
  IN [n \in DOMAIN order |-> model.lines[order[n]].data] \o s.appended

(* The appended lines go before the blank lines at the end. *)
serialize(s) ==
  LET heads == Known(model.lines, "HEAD")
      Written(i) == IF heads # {} /\ i = Min(heads)
                    THEN [model.lines[i].data EXCEPT !.maxId = s.nextElementId - 1]
                    ELSE model.lines[i].data
      order == InOrder(model.lines, (DOMAIN model.lines) \ s.removed)
      keep == [n \in DOMAIN order |-> Written(order[n])]
      bodies == {n \in DOMAIN keep : keep[n].text # "blank"}
      cut == IF bodies = {} THEN 0 ELSE Max(bodies)
  IN SubSeq(keep, 1, cut) \o s.appended \o SubSeq(keep, cut + 1, Len(keep))

-----------------------------------------------------------------------------
(* What a caller does.  An edit that throws before it changed anything is  *)
(* no step.                                                                *)

Open == session # None
Page == serialize(session[1])

Ids(lines) == {lines[i].id : i \in {j \in DOMAIN lines : Identified(lines[j])}}
Elements(lines) == {lines[i].id : i \in {j \in DOMAIN lines : IsElement(lines[j])}}

(* What one edit made: the ids first .. last - 1 go with the element first. *)
Made(kind, first, last, at, net, port, auto) ==
  [kind |-> kind, owner |-> first, ids |-> first..(last - 1), at |-> at, net |-> net,
   port |-> port, auto |-> auto, fresh |-> TRUE]

Makes(s, what) ==
  /\ edits > 0
  /\ edits' = edits - 1
  /\ session' = <<s>>
  /\ done' = done \cup what
  /\ UNCHANGED <<page, model>>

(* Another load gives up what was not saved. *)
LoadSchematic ==
  /\ ~isPipeFormatSource(page) /\ ~SymbolRefused
  /\ model' = parseSchematic(page)
  /\ session' = <<newWriter(model')>>
  /\ done' = {[d EXCEPT !.fresh = FALSE] : d \in {e \in done : e.owner \in Ids(page)}}
  /\ UNCHANGED <<page, edits>>

AddNetport(ref, net) ==
  LET pin == findPin(ref)   s == session[1]
      with == addNetportAt(s, net, pin[1].at, pin[1].angle)
  IN /\ Open /\ pin # None /\ model.palette.netport # None
     /\ Makes(with, {Made("netport", s.nextElementId, with.nextElementId, pin[1].at, net, 0, None)})

(* The designator is allocated before anything is looked up, and the        *)
(* resistor is placed before the page turns out to have no netport to copy. *)
AddSeriesResistor(ref, net, chosen) ==
  LET named == IF chosen = None THEN allocDesignator(session[1], "R")
               ELSE [session |-> session[1], designator |-> chosen]
      s == named.session
      pin == findPin(ref)
      placed == placeResistor(s, pin[1], named.designator)
      wired == addNetportAt(placed, net, farEnd(pin[1]), pin[1].angle)
      auto == IF chosen = None THEN named.designator ELSE None
      Resistance(port) ==
        Made("resistor", s.nextElementId, placed.nextElementId, pin[1].at, net, port, auto)
  IN /\ Open
     /\ \/ /\ pin = None \/ Resistor \notin DOMAIN model.palette.parts
           /\ chosen = None
           /\ Makes(s, {})
        \/ /\ pin # None /\ Resistor \in DOMAIN model.palette.parts
           /\ IF model.palette.netport = None
              THEN Makes(placed, {Resistance(0)})
              ELSE Makes(wired, {Resistance(placed.nextElementId),
                                Made("netport", placed.nextElementId, wired.nextElementId,
                                     farEnd(pin[1]), net, 0, None)})

AddPowerSymbol(ref, rail) ==
  LET pin == findPin(ref)   s == session[1]
      with == addPowerSymbol(s, rail, pin[1])
  IN /\ Open /\ pin # None /\ rail \in DOMAIN model.palette.power
     /\ Makes(with, {Made("power", s.nextElementId, with.nextElementId, pin[1].at, rail, 0, None)})

RemoveElement(id) ==
  /\ Open /\ id \in Elements(Page)
  /\ Makes(removeElement(session[1], id), {})

Save ==
  /\ Open /\ page # Page
  /\ page' = Page
  /\ UNCHANGED <<model, session, edits, done>>

WriterInit ==
  /\ page \in Pages
  /\ model = None /\ session = None /\ edits = MaxEdits[page] /\ done = {}

WriterNext ==
  \/ LoadSchematic
  \/ \E ref \in PinRefs, net \in Nets : AddNetport(ref, net)
  \/ \E ref \in PinRefs, net \in Nets, d \in Designators : AddSeriesResistor(ref, net, d)
  \/ \E ref \in PinRefs, rail \in Rails : AddPowerSymbol(ref, rail)
  \/ Open /\ \E id \in Elements(Page) : RemoveElement(id)
  \/ Save

-----------------------------------------------------------------------------
(* Whatever is added, removed, saved and loaded again, the source that is   *)
(* written names nothing twice: no two lines have one id, HEAD.maxId is not *)
(* behind any, no two components have one Unique ID, and a designator that  *)
(* the writer allocated is neither on the loaded page nor allocated again   *)
(* (allocId, allocGgeId, allocDesignator, the maxId that serialize writes). *)
NamesStayUnique ==
  Open =>
    LET lines == Page
        identified == {i \in DOMAIN lines : Identified(lines[i])}
        heads == {i \in DOMAIN lines : IsTuple(lines[i], "HEAD")}
        named == {i \in DOMAIN lines : Says(lines[i], "UniqueID") /\ lines[i].value # None}
        fresh == {d \in done : d.fresh /\ d.auto # None}
    IN /\ \A i, j \in identified : lines[i].id = lines[j].id => i = j
       /\ \A h \in heads : \A id \in Ids(lines) : lines[h].maxId >= id
       /\ \A i, j \in named : lines[i].value = lines[j].value => i = j
       /\ \A d \in fresh :
            /\ \A c \in Range(model.components) : c.designator # d.auto
            /\ \A e \in fresh : e.auto = d.auto => e = d

(* An element added in this session leaves nothing behind when it is        *)
(* removed, neither the wires that were made with it, which would still     *)
(* join nets without being visible, nor attributes without an owner         *)
(* (removeElement and the companions it follows).                           *)
RemovalLeavesNothing ==
  Open =>
    LET lines == Page   ids == Ids(lines)
    IN /\ \A d \in done : d.fresh /\ d.owner \notin ids => d.ids \cap ids = {}
       /\ \A j \in DOMAIN lines :
            IsTuple(lines[j], "ATTR") => lines[j].parent \in Elements(lines)

ComponentOf(id) == CHOOSE c \in Range(model.components) : c.elementId = id
Touches(id, at) == \E pin \in Range(ComponentOf(id).pins) : pin.at = at
WireAt(at, net) == \E w \in model.wires : w.netName = net /\ w.isJunction /\ w.segments[1][1] = at

(* Read back from disk, everything that was added connects: a netport or a  *)
(* power symbol has its pin on the pin it was asked for, over a wire that   *)
(* names the net; a series resistor has one pin there, over a junction, and *)
(* the other one on the pin of its netport (addNetportAt, addPowerSymbol,   *)
(* the placement in addSeriesResistor, the pin positions of the reader).    *)
AddedPartsConnect ==
  Open =>
    LET ids == Ids(serializeLines(model.lines))
        saved == {d \in done : ~d.fresh /\ d.ids \subseteq ids}
    IN \A d \in saved :
         /\ Touches(d.owner, d.at)
         /\ WireAt(d.at, IF d.kind = "resistor" THEN None ELSE d.net)
         /\ \A e \in saved :
              e.owner = d.port => Touches(d.owner, e.at) /\ Touches(e.owner, e.at) /\ e.at # d.at

=============================================================================
