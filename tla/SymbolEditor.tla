---------------------------- MODULE SymbolEditor ----------------------------
(***************************************************************************)
(* lib/symbol/symbol-editor.ts: the font style of single labels of a       *)
(* symbol is changed.  Labels share styles; one whose style is shared gets *)
(* a style of its own, inserted as a new line, and every line number the   *)
(* editor has noted moves.  A font style is the tuple of its slots, here a *)
(* size, a flag and an alignment; Null is an explicitly empty slot.        *)
(***************************************************************************)
EXTENDS EasyEdaSource

CONSTANTS
  SymbolFiles,   \* sources a symbol file may have at first
  Changes,       \* partial styles a caller asks for
  Null,          \* the null of a slot
  MaxRestyles    \* calls in one behaviour (bound)

VARIABLES
  symbolFile,    \* the file on disk
  editor,        \* the editor's own state, <<>> before load
  restyles,      \* calls so far
  wanted         \* history: the style each label should show

editorVars == <<symbolFile, editor, restyles, wanted>>

FontStyleLine(id, style) == [text |-> "tuple", tag |-> "FONTSTYLE", id |-> id, style |-> style]
StyledAttrLine(id, parent, key, value, fontStyle) ==
  [text |-> "tuple", tag |-> "ATTR", id |-> id, parent |-> parent, key |-> key, value |-> value, fontStyle |-> fontStyle]

(* Symbol files as the editor writes them.  The style of a label is one of  *)
(* the file's, or one that no file has and none is given out for (0).       *)
IsStyle(style) ==
  /\ style = [size |-> style.size, bold |-> style.bold, vAlign |-> style.vAlign]
  /\ style.bold \in {Null, 0, 1} /\ style.vAlign \in {Null, 0, 1, 2}

Labelled(lines) ==
  /\ \A i \in DOMAIN lines : IsTuple(lines[i], "FONTSTYLE") =>
       /\ lines[i] = FontStyleLine(lines[i].id, lines[i].style)
       /\ lines[i].id \in Nat \ {0} /\ IsStyle(lines[i].style)
  /\ \A i \in DOMAIN lines : IsTuple(lines[i], "ATTR") =>
       /\ lines[i] = StyledAttrLine(lines[i].id, lines[i].parent, lines[i].key, lines[i].value, lines[i].fontStyle)
       /\ lines[i].fontStyle = 0
          \/ \E j \in DOMAIN lines : IsTuple(lines[j], "FONTSTYLE") /\ lines[j].id = lines[i].fontStyle

ASSUME SymbolFilesAssumption ==
  \A f \in SymbolFiles : f \in Seq(Range(f)) /\ (isPipeFormatSource(f) \/ Labelled(f))
ASSUME ChangesAssumption ==
  \A p \in Changes : /\ "bold" \in DOMAIN p => p["bold"] \in {Null, 0, 1}
                     /\ "vAlign" \in DOMAIN p => p["vAlign"] \in {Null, 0, 1, 2}

-----------------------------------------------------------------------------
(* What a tuple says and how it is written again.  A flag other than 0 and *)
(* 1 is read as 0, an alignment that has no name as empty.                  *)

fontStyleFromTuple(style) ==
  [size |-> style.size,
   bold |-> IF style.bold = Null THEN Null ELSE IF style.bold = 1 THEN 1 ELSE 0,
   vAlign |-> IF style.vAlign # Null /\ style.vAlign <= 2 THEN style.vAlign ELSE Null]

fontStyleToTuple(spec) ==
  [size |-> spec.size, bold |-> spec.bold, vAlign |-> spec.vAlign]

mergeFontStyle(base, partial) ==
  [slot \in DOMAIN base |-> IF slot \in DOMAIN partial THEN partial[slot] ELSE base[slot]]

(* Lines by id; of two with one id the last one counts. *)
IndexOf(lines, tag) ==
  [id \in {lines[i].data.id : i \in Known(lines, tag)} |->
     Latest({i \in Known(lines, tag) : lines[i].data.id = id})]

(* The last ATTR after the pin for that key, if there is one. *)
LabelOf(lines, i, key) ==
  LET own == {j \in Known(lines, "ATTR") :
                j > i /\ lines[j].data.parent = lines[i].data.id /\ lines[j].data.key = key}
  IN IF own = {} THEN None ELSE <<lines[Latest(own)].data.id>>

indexAll(lines) ==
  LET byEid == IndexOf(lines, "ATTR")   byFsId == IndexOf(lines, "FONTSTYLE")
      pins == InOrder(lines, Known(lines, "PIN"))
  IN [parsed |-> lines,
      pins |-> [n \in DOMAIN pins |-> [id |-> lines[pins[n]].data.id,
                                      NAME |-> LabelOf(lines, pins[n], "NAME"),
                                      NUMBER |-> LabelOf(lines, pins[n], "NUMBER")]],
      attrs |-> [eid \in DOMAIN byEid |-> lines[byEid[eid]].data],
      fontStyles |-> [id \in DOMAIN byFsId |-> lines[byFsId[id]].data.style],
      lineByEid |-> byEid, lineByFsId |-> byFsId]

countFontStyleRefs(e, id) == Cardinality({a \in DOMAIN e.attrs : e.attrs[a].fontStyle = id})
allocFontStyleId(e) == Max(DOMAIN e.fontStyles \cup {0}) + 1

replaceLineByFsId(e, id, style) ==
  [e EXCEPT !.parsed[e.lineByFsId[id]] = wrapAsParsedLine(FontStyleLine(id, style)),
            !.fontStyles[id] = style]

replaceLineByEid(e, eid, attr) ==
  [e EXCEPT !.parsed[e.lineByEid[eid]] = wrapAsParsedLine(attr), !.attrs[eid] = attr]

With(map, key, value) == [k \in DOMAIN map \cup {key} |-> IF k = key THEN value ELSE map[k]]

(* Not the code: a line is inserted and the line numbers stay. *)
InsertAndForget(e, neighbor, id, style) ==
  LET at == e.lineByFsId[neighbor] + 1
  IN [e EXCEPT !.parsed = InsertAt(@, at, wrapAsParsedLine(FontStyleLine(id, style))),
               !.fontStyles = With(@, id, style),
               !.lineByFsId = With(@, id, at)]

insertFontStyleAfter(e, neighbor, id, style) ==
  LET at == e.lineByFsId[neighbor] + 1
      Shifted(index) == [k \in DOMAIN index |-> IF index[k] >= at THEN index[k] + 1 ELSE index[k]]
  IN [e EXCEPT !.parsed = InsertAt(@, at, wrapAsParsedLine(FontStyleLine(id, style))),
               !.fontStyles = With(@, id, style),
               !.lineByEid = Shifted(@),
               !.lineByFsId = With(Shifted(@), id, at)]

(* A label without a style, or with one that is not in the file, throws. *)
CanBeStyled(e, eid) ==
  eid \in DOMAIN e.attrs /\ e.attrs[eid].fontStyle \in DOMAIN e.fontStyles

updateAttrStyle(e, eid, partial) ==
  LET attr == e.attrs[eid]
      current == e.fontStyles[attr.fontStyle]
      new == fontStyleToTuple(mergeFontStyle(fontStyleFromTuple(current), partial))
      id == allocFontStyleId(e)
  IN IF new = current THEN e
     ELSE IF countFontStyleRefs(e, attr.fontStyle) = 1
     THEN replaceLineByFsId(e, attr.fontStyle, new)
     ELSE replaceLineByEid(insertFontStyleAfter(e, attr.fontStyle, id, new),
                           eid, [attr EXCEPT !.fontStyle = id])

(* The labels of the chosen pins that have one, in the order of the pins. *)
Labels(e, pins, key) ==
  LET chosen == Filtered(e.pins, {n \in DOMAIN e.pins : e.pins[n].id \in pins /\ e.pins[n][key] # None})
  IN [n \in DOMAIN chosen |-> chosen[n][key][1]]

(* The first label that cannot be styled ends the call, and those before it *)
(* keep their new style.                                                    *)
Styleable(e, labels) ==
  LET bad == {n \in DOMAIN labels : ~CanBeStyled(e, labels[n])}
  IN IF bad = {} THEN labels ELSE SubSeq(labels, 1, Min(bad) - 1)

Restyle(e, labels, partial) ==
  LET todo == Styleable(e, labels)
      after[n \in 0..Len(todo)] == IF n = 0 THEN e ELSE updateAttrStyle(after[n - 1], todo[n], partial)
  IN after[Len(todo)]

-----------------------------------------------------------------------------
StyleShown(lines, eid) ==
  LET i == Latest({j \in Known(lines, "ATTR") : lines[j].data.id = eid})
      styles == {j \in Known(lines, "FONTSTYLE") : lines[j].data.id = lines[i].data.fontStyle}
  IN IF styles = {} THEN None ELSE <<lines[Latest(styles)].data.style>>

LabelIds(lines) == {lines[i].data.id : i \in Known(lines, "ATTR")}
Shown(lines) == [eid \in LabelIds(lines) |-> StyleShown(lines, eid)]

(* Lines that are invalid make load refuse the file. *)
LoadSymbol ==
  /\ ~isPipeFormatSource(symbolFile)
  /\ LET lines == parseSource(symbolFile, EsymSchemas)
     IN /\ Count(lines, "invalid") = 0
        /\ editor' = <<indexAll(lines)>>
        /\ wanted' = Shown(lines)
  /\ UNCHANGED <<symbolFile, restyles>>

(* updateNameStyle and updateNumberStyle *)
UpdateStyle(pins, key, partial) ==
  LET e == editor[1]   labels == Labels(e, pins, key)
      styled == Range(Styleable(e, labels))
  IN /\ editor # None /\ restyles < MaxRestyles
     /\ restyles' = restyles + 1
     /\ editor' = <<Restyle(e, labels, partial)>>
     /\ wanted' = [eid \in DOMAIN wanted |->
                     IF eid \in styled THEN <<mergeFontStyle(wanted[eid][1], partial)>> ELSE wanted[eid]]
     /\ UNCHANGED symbolFile

SaveSymbol ==
  /\ editor # None
  /\ symbolFile' = serializeLines(editor[1].parsed)
  /\ UNCHANGED <<editor, restyles, wanted>>

EditorInit ==
  /\ symbolFile \in SymbolFiles
  /\ editor = None /\ restyles = 0 /\ wanted = None

EditorNext ==
  \/ LoadSymbol
  \/ editor # None /\ \E key \in {"NAME", "NUMBER"}, p \in Changes :
       \E pins \in (SUBSET {pin.id : pin \in Range(editor[1].pins)}) \ {{}} : UpdateStyle(pins, key, p)
  \/ SaveSymbol

-----------------------------------------------------------------------------
(* Each label of the file that is written shows the style it was given, and *)
(* no other label changes: a change made to one label of a shared style     *)
(* reaches no other, and none lands on another line because line numbers    *)
(* have moved (updateAttrStyle, its copy of a shared style, the indexes).   *)
StylesAsAsked ==
  editor # None => Shown(parseSource(serializeLines(editor[1].parsed), EsymSchemas)) = wanted
=============================================================================
