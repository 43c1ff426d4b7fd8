----------------------------- MODULE MCLibrary ------------------------------
(* A chip with a pin in each of two directions, a resistor that is drawn    *)
(* through its device, a netport, a ground symbol, a lamp and a bracket     *)
(* whose outline has a notch, on a page with lines the library does not     *)
(* know.  The chip is mounted in each of the eight orientations, once on a  *)
(* page without a netport, and once with one more edit.  The symbol file    *)
(* has labels that share styles, one that names a style which is not there  *)
(* and a variant with an invalid line.                                      *)
EXTENDS Library
CONSTANT null

Tuple(tag, slots) == [text |-> "tuple", tag |-> tag] @@ slots
MCHead(type) == Tuple("HEAD", [symbolType |-> type])
Pin(id, at, angle) == Tuple("PIN", [id |-> id, at |-> at, length |-> 3, angle |-> angle])
Numbered(id, at, angle, n) == <<Pin(id, at, angle), makeAttrLine(id + 1, id, "NUMBER", <<n>>)>>
Rect(p, q) == Tuple("RECT", [id |-> 90, from |-> p, to |-> q])
Poly(points, closed) == Tuple("POLY", [id |-> 91, points |-> points, closed |-> closed])

MCSymbols ==
  (<<"chip">> :> <<MCHead(2)>> \o Numbered(1, <<-8, 0>>, 0, "1") \o Numbered(3, <<1, -9>>, 90, "2")
                 \o <<makeAttrLine(5, 3, "NAME", <<"B">>), Rect(<<-5, 6>>, <<5, -6>>)>>) @@
  (<<"resistor">> :> <<MCHead(2)>> \o Numbered(1, <<-2, 0>>, 0, "1") \o Numbered(3, <<2, 0>>, 180, "2")) @@
  (<<"netport">> :> <<MCHead(19)>> \o Numbered(1, <<0, 0>>, 0, "1")
                 \o <<Poly(<<<<3, 2>>, <<7, 2>>, <<9, 0>>, <<7, -2>>, <<3, -2>>, <<3, 2>>>>, TRUE)>>) @@
  (<<"ground">> :> <<MCHead(18)>> \o Numbered(1, <<0, 0>>, 270, "1")
                 \o <<Poly(<<<<-3, -3>>, <<3, -3>>, <<0, -6>>>>, FALSE)>>) @@
  (<<"lamp">> :> <<MCHead(2), Tuple("ELLIPSE", [id |-> 92, at |-> <<1, 0>>, rx |-> 4, ry |-> 3]),
                   Tuple("CIRCLE", [id |-> 93, at |-> <<8, 0>>, r |-> 2]), Tuple("ARC", [id |-> 94]),
                   Tuple("ARC", [id |-> 95, from |-> <<0, 6>>, mid |-> <<3, 7>>, to |-> <<6, 6>>])>>) @@
  (<<"bracket">> :> <<MCHead(2), Poly(<<<<1, 1>>, <<9, 1>>, <<9, -4>>, <<-4, -4>>, <<-4, 9>>, <<1, 9>>>>, TRUE)>>)
MCDeviceSymbol == <<"dev-r">> :> <<"resistor">>

Port == <<makeComponentLine(7, NoPart, <<-20, 20>>, 0, 0), makeAttrLine(8, 7, "Symbol", <<"netport">>),
          makeAttrLine(9, 7, "Device", <<"dev-port">>), makeAttrLine(10, 7, "Name", <<"OLD">>)>>
PageWith(rotation, flip, port) ==
  <<HeadLine(16), makeComponentLine(1, "CHIP", <<10, 10>>, rotation, flip),
    makeAttrLine(2, 1, "Symbol", <<"chip">>), makeAttrLine(3, 1, "Designator", <<"U", 1>>),
    makeComponentLine(4, "RES", <<30, 30>>, 0, 0), makeAttrLine(5, 4, "Device", <<"dev-r">>),
    makeAttrLine(6, 4, "Designator", <<"R", 1>>), makeAttrLine(16, 4, "UniqueID", <<"gge", 1>>), NotJson>>
  \o port
  \o <<Tuple("BUS", [id |-> 11]), makeComponentLine(12, NoPart, <<40, 40>>, 0, 0),
       makeAttrLine(13, 12, "Symbol", <<"ground">>), makeAttrLine(14, 12, "Device", <<"dev-gnd">>),
       makeAttrLine(15, 12, "Name", <<"GND">>), Blank>>
Turned == {PageWith(r, f, Port) : r \in {0, 90, 180, 270}, f \in {0, 1}}
Longer == PageWith(90, 1, Port)
MCPages == Turned \cup {PageWith(0, 0, None), <<[text |-> "pipe"]>>}
MCMaxEdits == [p \in MCPages |-> IF p = Longer THEN 3 ELSE 2]
MCPinRefs == {<<<<"U", 1>>, ".", <<"1">>>>, <<<<"e", 1>>, ":", <<"B">>>>, <<<<"U", 2>>, ".", <<"1">>>>}
MCNets == {<<"NET">>}
MCRails == {<<"GND">>}
MCDesignators == {None, <<"R", 7>>}

Style(size, bold, vAlign) == [size |-> size, bold |-> bold, vAlign |-> vAlign]
SymbolFile ==
  <<Pin(1, <<0, 0>>, 0), FontStyleLine(1, Style(null, 0, 2)), StyledAttrLine(2, 1, "NAME", <<"A">>, 1),
    StyledAttrLine(3, 1, "NUMBER", <<"1">>, 2), Pin(4, <<0, 5>>, 0), StyledAttrLine(5, 4, "NAME", <<"B">>, 1),
    FontStyleLine(2, Style(null, 0, 0)), StyledAttrLine(6, 4, "NUMBER", <<"2">>, 1), Pin(7, <<0, 9>>, 0),
    StyledAttrLine(8, 7, "NAME", <<"C">>, 2), StyledAttrLine(9, 7, "NUMBER", <<"3">>, 0),
    Tuple("TEXT", [id |-> 20])>>
MCSymbolFiles == {SymbolFile, [SymbolFile EXCEPT ![10] = StyledAttrLine(8, 7, "NAME", <<"C">>, 0)],
                  [SymbolFile EXCEPT ![12] = NotJson]}
MCChanges == {[size |-> 12], [bold |-> 1], [size |-> null, vAlign |-> 0]}

At(p, rotation, flip) == [at |-> p, rotation |-> rotation, flip |-> flip]
MCFixed == {At(<<0, 0>>, 0, 0), At(<<1, 0>>, 90, 1)}
MCPositions == {-13, -4, 0, 2, 7} \X {-9, -1, 0, 4}
=============================================================================
