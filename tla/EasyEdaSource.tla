--------------------------- MODULE EasyEdaSource ----------------------------
(***************************************************************************)
(* The text formats of the design library: what lib/schema/parser.ts makes *)
(* of a source, how it is written back, and the model that                 *)
(* lib/schematic-reader.ts reads out of a schematic page.                  *)
(*                                                                         *)
(* A source is a sequence of lines.  A line is a record of the slots the   *)
(* library reads; what it never looks into is left out.  Text that names   *)
(* something is a tuple: <<>> for an empty or null value, <<"GND">> for a  *)
(* word, <<"R", 3>> for a prefix and a number.  Ids are numbers (e7 is 7). *)
(* The keys of attributes are written without their blanks.                *)
(***************************************************************************)
EXTENDS Integers, Sequences, FiniteSets, SequencesExt, FiniteSetsExt, Functions

CONSTANTS
  Symbols,        \* symbol uuid -> source of its .esym file
  DeviceSymbol    \* project.json: device uuid -> symbol uuid

None == <<>>
NoPart == ""   \* the part of a component that is no part
RightAngles == {0, 90, 180, 270}

-----------------------------------------------------------------------------
(* Lines as they are in a source.                                          *)

IsTuple(line, tag) == line.text = "tuple" /\ line.tag = tag

Blank == [text |-> "blank"]
NotJson == [text |-> "not_json"]
NoTag == [text |-> "no_tag"]

HeadLine(maxId) == [text |-> "tuple", tag |-> "HEAD", maxId |-> maxId]
makeComponentLine(id, part, at, rotation, flip) ==
  [text |-> "tuple", tag |-> "COMPONENT", id |-> id, part |-> part, at |-> at, rotation |-> rotation, flip |-> flip]
makeAttrLine(id, parent, key, value) ==
  [text |-> "tuple", tag |-> "ATTR", id |-> id, parent |-> parent, key |-> key, value |-> value]
makeWireLine(id, segments) == [text |-> "tuple", tag |-> "WIRE", id |-> id, segments |-> segments]

EschSchemas == {"DOCTYPE", "HEAD", "COMPONENT", "ATTR", "WIRE", "FONTSTYLE", "LINESTYLE", "TEXT",
                "CIRCLE", "RECT", "ELLIPSE", "ARC", "POLY", "TABLE", "TABEL_CELL", "OBJ"}
EsymSchemas == {"DOCTYPE", "HEAD", "PIN", "ATTR", "FONTSTYLE", "LINESTYLE", "PART", "RECT",
                "CIRCLE", "ELLIPSE", "ARC", "POLY", "TABLE", "TABEL_CELL", "OBJ"}

(* A line that is no tuple of a known tag is kept but never interpreted. *)
Kind(line, schemas) ==
  IF line.text = "blank" THEN "blank"
  ELSE IF line.text # "tuple" THEN "invalid"
  ELSE IF line.tag \notin schemas THEN "unknown_tag"
  ELSE "known"

parseSource(source, schemas) ==
  [i \in DOMAIN source |-> [kind |-> Kind(source[i], schemas), data |-> source[i]]]

Count(lines, kind) == Cardinality({i \in DOMAIN lines : lines[i].kind = kind})
serializeLines(lines) == [i \in DOMAIN lines |-> lines[i].data]
wrapAsParsedLine(data) == [kind |-> "known", data |-> data]

(* {header}||{body} lines: this part of the library refuses them. *)
isPipeFormatSource(source) ==
  LET written == {i \in DOMAIN source : source[i].text # "blank"}
  IN written # {} /\ source[Min(written)].text = "pipe"

Known(lines, tag) == {i \in DOMAIN lines : lines[i].kind = "known" /\ lines[i].data.tag = tag}
Latest(S) == Max(S)

(* The places of S in their order, and what stands there. *)
InOrder(lines, S) ==
  LET upTo[n \in 0..Len(lines)] ==
        IF n = 0 THEN <<>> ELSE IF n \in S THEN Append(upTo[n - 1], n) ELSE upTo[n - 1]
  IN upTo[Len(lines)]
Filtered(lines, S) == LET order == InOrder(lines, S) IN [n \in DOMAIN order |-> lines[order[n]]]

(* The first HEAD decides. *)
HeadSlot(lines, slot) ==
  LET heads == Known(lines, "HEAD")
  IN IF heads = {} THEN 0 ELSE lines[Min(heads)].data[slot]

-----------------------------------------------------------------------------
(* Coordinates are integers and every pin stands at a right angle. *)
ASSUME SymbolsAssumption ==
  \A uuid \in DOMAIN Symbols :
    /\ uuid # None
    /\ Len(Symbols[uuid]) \in Nat /\ DOMAIN Symbols[uuid] = 1..Len(Symbols[uuid])
    /\ \A i \in DOMAIN Symbols[uuid] :
         LET line == Symbols[uuid][i]
         IN IsTuple(line, "PIN") =>
              line.at \in Int \X Int /\ line.length \in Int /\ line.angle \in RightAngles

(* Symbols.  A PIN owns the ATTRs that follow it up to the first line that *)
(* is neither an ATTR nor a FONTSTYLE; of two for one key the last counts. *)

PinAttr(lines, i, key) ==
  LET Closes(k) == lines[k].kind = "known" /\ lines[k].data.tag \notin {"ATTR", "FONTSTYLE"}
      own == {j \in Known(lines, "ATTR") :
                /\ j > i /\ lines[j].data.parent = lines[i].data.id /\ lines[j].data.key = key
                /\ \A k \in (i + 1)..(j - 1) : ~Closes(k)}
  IN IF own = {} THEN None ELSE lines[Latest(own)].data.value

parseSymbol(source) ==
  LET lines == parseSource(source, EsymSchemas)
      pins == InOrder(lines, Known(lines, "PIN"))
  IN [symbolType |-> HeadSlot(lines, "symbolType"),
      pins |-> [n \in DOMAIN pins |->
                  LET pin == lines[pins[n]].data
                  IN [id |-> pin.id, at |-> pin.at, length |-> pin.length, angle |-> pin.angle,
                      number |-> PinAttr(lines, pins[n], "NUMBER"),
                      name |-> PinAttr(lines, pins[n], "NAME")]]]

SymbolCache == [uuid \in DOMAIN Symbols |-> parseSymbol(Symbols[uuid])]

(* Every symbol of the project is parsed for a page; one refusal is enough. *)
SymbolRefused == \E uuid \in DOMAIN Symbols : isPipeFormatSource(Symbols[uuid])

Rotate(p, degrees) ==
  CASE degrees = 0   -> p
    [] degrees = 90  -> <<-p[2], p[1]>>
    [] degrees = 180 -> <<-p[1], -p[2]>>
    [] degrees = 270 -> <<p[2], -p[1]>>

(* Mirror about the local Y axis, then rotate counterclockwise. *)
transformSymbolPoint(p, rotation, flip) ==
  Rotate(IF flip = 1 THEN <<-p[1], p[2]>> ELSE p, rotation)

(* Not the code: an angle that is turned but not mirrored. *)
AngleTurnedOnly(angle, rotation, flip) == (angle + rotation) % 360

transformPinAngle(angle, rotation, flip) ==
  ((IF flip = 1 THEN 180 - angle ELSE angle) + rotation) % 360

Plus(p, q) == <<p[1] + q[1], p[2] + q[2]>>

-----------------------------------------------------------------------------
(* Schematic pages.  An ATTR belongs to the COMPONENT of its parent id that *)
(* was read last before it, and counts only if there is one.                *)

AttrsOf(lines, i) ==
  {j \in Known(lines, "ATTR") :
     /\ j > i /\ lines[j].data.parent = lines[i].data.id
     /\ ~\E k \in Known(lines, "COMPONENT") :
           k \in (i + 1)..(j - 1) /\ lines[k].data.id = lines[i].data.id}

AttrOf(lines, i, key) ==
  LET own == {j \in AttrsOf(lines, i) : lines[j].data.key = key}
  IN IF own = {} THEN None ELSE lines[Latest(own)].data.value

NetNameOf(lines, i) ==
  LET own == {j \in AttrsOf(lines, i) : lines[j].data.key = "Name" /\ lines[j].data.value # None}
  IN IF own = {} THEN None ELSE lines[Latest(own)].data.value

(* The Symbol attribute, or the symbol of the device when there is none. *)
SymbolOf(lines, i) ==
  LET own == AttrOf(lines, i, "Symbol")   device == AttrOf(lines, i, "Device")
  IN IF own # None THEN own
     ELSE IF device # None /\ device \in DOMAIN DeviceSymbol THEN DeviceSymbol[device] ELSE None

(* Without its symbol file a component has no pins and is of neither kind. *)
Component(lines, i) ==
  LET line == lines[i].data
      symbol == SymbolOf(lines, i)
      drawn == IF symbol \in DOMAIN Symbols THEN SymbolCache[symbol]
               ELSE [symbolType |-> 0, pins |-> <<>>]
  IN [elementId |-> line.id, part |-> line.part, at |-> line.at,
      rotation |-> line.rotation, flip |-> line.flip,
      symbol |-> symbol, device |-> AttrOf(lines, i, "Device"),
      designator |-> AttrOf(lines, i, "Designator"),
      uniqueId |-> AttrOf(lines, i, "UniqueID"),
      netName |-> NetNameOf(lines, i),
      isNetport |-> drawn.symbolType = 19, isPowerSymbol |-> drawn.symbolType = 18,
      pins |-> [n \in DOMAIN drawn.pins |->
                  LET pin == drawn.pins[n]
                  IN [number |-> pin.number, name |-> pin.name,
                      at |-> Plus(line.at, transformSymbolPoint(pin.at, line.rotation, line.flip)),
                      angle |-> transformPinAngle(pin.angle, line.rotation, line.flip)]]]

WireNet(lines, i) ==
  LET own == {j \in Known(lines, "ATTR") :
                j > i /\ lines[j].data.parent = lines[i].data.id /\ lines[j].data.key = "NET"}
  IN IF own = {} THEN None ELSE lines[Latest(own)].data.value

Wire(lines, i) ==
  LET segments == lines[i].data.segments
  IN [elementId |-> lines[i].data.id, segments |-> segments, netName |-> WireNet(lines, i),
      isJunction |-> Len(segments) = 1 /\ segments[1][1] = segments[1][2]]

(* The part name without its .1 is the name of the template. *)
IsTemplate(c) == c.part # NoPart /\ c.designator # None /\ ~c.isNetport /\ ~c.isPowerSymbol

FirstOf(components, S) ==
  IF S = {} THEN None
  ELSE <<[symbol |-> components[Min(S)].symbol, device |-> components[Min(S)].device]>>

(* A template is <<>> when the page shows none to copy. *)
Palette(components) ==
  LET netports == {n \in DOMAIN components : /\ components[n].isNetport
                                             /\ components[n].symbol # None /\ components[n].device # None}
      symbols == {n \in DOMAIN components : components[n].isPowerSymbol /\ components[n].netName # None}
      templates == {n \in DOMAIN components : IsTemplate(components[n])}
  IN [netport |-> FirstOf(components, netports),
      power |-> [rail \in {components[n].netName : n \in symbols} |->
                   FirstOf(components, {n \in symbols : components[n].netName = rail})],
      parts |-> [part \in {components[n].part : n \in templates} |->
                   FirstOf(components, {n \in templates : components[n].part = part})]]

parseSchematic(source) ==
  LET lines == parseSource(source, EschSchemas)
      order == InOrder(lines, Known(lines, "COMPONENT"))
      components == [n \in DOMAIN order |-> Component(lines, order[n])]
      gge == {c.uniqueId[2] : c \in {d \in Range(components) : Len(d.uniqueId) = 2 /\ d.uniqueId[1] = "gge"}}
  IN [lines |-> lines, maxId |-> HeadSlot(lines, "maxId"),
      components |-> components, palette |-> Palette(components),
      wires |-> {Wire(lines, i) : i \in Known(lines, "WIRE")},
      maxGgeId |-> IF gge = {} THEN 0 ELSE Max(gge)]
=============================================================================
