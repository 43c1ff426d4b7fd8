------------------------------ MODULE Geometry ------------------------------
(***************************************************************************)
(* lib/geometry.ts: the outline of a symbol as polygons, placed at the     *)
(* position, rotation and mirroring of an instance, and the test whether   *)
(* two instances clash.  A caller tries positions for a part next to one   *)
(* that stays.                                                             *)
(*                                                                         *)
(* Points are pairs of integers and rotations multiples of 90 degrees, so  *)
(* that every coordinate is exact.  Circles have four corners and arcs two *)
(* segments: the caller of the library chooses these numbers.              *)
(***************************************************************************)
EXTENDS EasyEdaSource

CONSTANTS
  Positions,    \* where a caller tries to place an instance
  Fixed         \* the transforms of the part that stays

Transforms == [at : Int \X Int, rotation : RightAngles, flip : {0, 1}]
ASSUME PlacementAssumption == Positions \subseteq Int \X Int /\ Fixed \subseteq Transforms

VARIABLE
  placed        \* the two instances: [symbol, t], the first one stays

-----------------------------------------------------------------------------
Polygon(points, closed) == [points |-> points, closed |-> closed]

rectPolygon(p, q) == Polygon(<<p, <<q[1], p[2]>>, q, <<p[1], q[2]>>>>, TRUE)
ellipsePolygon(c, rx, ry) ==
  Polygon(<<Plus(c, <<rx, 0>>), Plus(c, <<0, ry>>), Plus(c, <<-rx, 0>>), Plus(c, <<0, -ry>>)>>, TRUE)
circlePolygon(c, r) == ellipsePolygon(c, r, r)
arcPolygon(start, mid, end) == Polygon(<<start, mid, end>>, FALSE)
pinPolygon(at, length, angle) == Polygon(<<at, Plus(at, Rotate(<<length, 0>>, angle))>>, FALSE)

PolygonOf(line) ==
  CASE line.tag = "RECT"    -> rectPolygon(line.from, line.to)
    [] line.tag = "CIRCLE"  -> circlePolygon(line.at, line.r)
    [] line.tag = "ELLIPSE" -> ellipsePolygon(line.at, line.rx, line.ry)
    [] line.tag = "ARC"     -> arcPolygon(line.from, line.mid, line.to)
    [] line.tag = "POLY"    -> Polygon(line.points, line.closed)
    [] line.tag = "PIN"     -> pinPolygon(line.at, line.length, line.angle)

(* An ARC whose slots are not six numbers is left out. *)
Drawn(line) ==
  \/ line.tag \in {"RECT", "CIRCLE", "ELLIPSE", "POLY", "PIN"}
  \/ line.tag = "ARC" /\ {"from", "mid", "to"} \subseteq DOMAIN line

computeBoundingBox(polygons) ==
  LET points == UNION {Range(p.points) : p \in polygons}
      xs == {p[1] : p \in points}   ys == {p[2] : p \in points}
  IN IF points = {} THEN [minX |-> 0, minY |-> 0, maxX |-> 0, maxY |-> 0]
     ELSE [minX |-> Min(xs), minY |-> Min(ys), maxX |-> Max(xs), maxY |-> Max(ys)]

Shape(polygons) == [polygons |-> polygons, bbox |-> computeBoundingBox(polygons)]

shapeFromSymbol(source) ==
  LET lines == parseSource(source, EsymSchemas)
  IN Shape({PolygonOf(lines[i].data) : i \in {j \in DOMAIN lines : lines[j].kind = "known" /\ Drawn(lines[j].data)}})

(* Mirror about the local Y axis, rotate, move. *)
transformPoint(p, t) ==
  LET mirrored == IF t.flip = 1 THEN <<-p[1], p[2]>> ELSE p
  IN Plus(t.at, Rotate(mirrored, t.rotation))

transformShape(shape, t) ==
  Shape({[p EXCEPT !.points = [i \in DOMAIN p.points |-> transformPoint(p.points[i], t)]] : p \in shape.polygons})

boundingBoxesOverlap(a, b) ==
  a.minX <= b.maxX /\ a.maxX >= b.minX /\ a.minY <= b.maxY /\ a.maxY >= b.minY

-----------------------------------------------------------------------------
cross(a, b) == a[1] * b[2] - a[2] * b[1]
Minus(p, q) == <<p[1] - q[1], p[2] - q[2]>>
Side(p, q, r) == cross(Minus(q, p), Minus(r, p))

polygonEdges(poly) ==
  LET n == Len(poly.points)
  IN {<<poly.points[i], poly.points[i + 1]>> : i \in 1..(n - 1)}
     \cup IF poly.closed /\ n >= 3 THEN {<<poly.points[n], poly.points[1]>>} ELSE {}

(* The ray to the right of the point meets an odd number of edges.  The    *)
(* division of the code is by the height of the edge, which is not 0 here. *)
RayMeets(edge, p) ==
  LET a == edge[1]   b == edge[2]
      side == Side(a, b, p)
  IN /\ (a[2] > p[2]) # (b[2] > p[2])
     /\ IF b[2] > a[2] THEN side > 0 ELSE side < 0

polygonContainsPoint(poly, p) ==
  /\ poly.closed
  /\ LET n == Len(poly.points)
         Edge(i) == <<poly.points[i], poly.points[IF i = n THEN 1 ELSE i + 1]>>
     IN Cardinality({i \in 1..n : RayMeets(Edge(i), p)}) % 2 = 1

(* Touching and running along each other is not counted. *)
segmentsIntersect(e, f) ==
  /\ Side(f[1], f[2], e[1]) * Side(f[1], f[2], e[2]) < 0
  /\ Side(e[1], e[2], f[1]) * Side(e[1], e[2], f[2]) < 0

(* Not the code: a test that forgets a part inside the other one. *)
OverlapByEdges(a, b) ==
  \E e \in polygonEdges(a), f \in polygonEdges(b) : segmentsIntersect(e, f)

(* Edges that cross, or the first point of one inside the other one. *)
polygonsOverlap(a, b) ==
  \/ \E e \in polygonEdges(a), f \in polygonEdges(b) : segmentsIntersect(e, f)
  \/ b.points # <<>> /\ polygonContainsPoint(a, b.points[1])
  \/ a.points # <<>> /\ polygonContainsPoint(b, a.points[1])

shapesOverlap(a, b) ==
  /\ boundingBoxesOverlap(a.bbox, b.bbox)
  /\ \E p \in a.polygons, q \in b.polygons :
       /\ boundingBoxesOverlap(computeBoundingBox({p}), computeBoundingBox({q}))
       /\ polygonsOverlap(p, q)

-----------------------------------------------------------------------------
ShapeOf(instance) == transformShape(shapeFromSymbol(Symbols[instance.symbol]), instance.t)

Instances(at) == [symbol : DOMAIN Symbols, t : at]

PlaceAt(p) == p # placed[2].t.at /\ placed' = [placed EXCEPT ![2].t.at = p]
Turn(rotation, flip) ==
  /\ rotation # placed[2].t.rotation \/ flip # placed[2].t.flip
  /\ placed' = [placed EXCEPT ![2].t.rotation = rotation, ![2].t.flip = flip]

(* The part starts on top of the one that stays. *)
PlacementInit ==
  placed \in {<<a, [symbol |-> uuid, t |-> a.t]>> : a \in Instances(Fixed), uuid \in DOMAIN Symbols}
PlacementNext ==
  \/ \E p \in Positions : PlaceAt(p)
  \/ \E rotation \in RightAngles, flip \in {0, 1} : Turn(rotation, flip)

-----------------------------------------------------------------------------
(* A reference that looks at no edge crossing another: a stroke is its     *)
(* segments, and a filled outline the triangles from its first corner,     *)
(* which is to see all of it, as the reflex corner of a bracket does.  Two *)
(* pieces share a point unless some line parallel to an edge, or to an     *)
(* axis, runs between them.                                                *)
Pieces(shape) ==
  UNION {IF p.closed
         THEN {t \in {<<p.points[1], p.points[i], p.points[i + 1]>> : i \in 2..(Len(p.points) - 1)} :
                 Side(t[1], t[2], t[3]) # 0}
         ELSE polygonEdges(p) : p \in shape.polygons}

Directions(piece) ==
  {Minus(piece[i], piece[j]) : i, j \in DOMAIN piece} \cup {<<1, 0>>, <<0, 1>>}

Apart(p, q, d) ==
  LET Seen(piece) == {cross(d, piece[i]) : i \in DOMAIN piece}
  IN d # <<0, 0>> /\ (Max(Seen(p)) < Min(Seen(q)) \/ Max(Seen(q)) < Min(Seen(p)))

Clash(a, b) ==
  \E p \in Pieces(a), q \in Pieces(b) :
    ~\E d \in Directions(p) \cup Directions(q) : Apart(p, q, d)

(* A corner of one outline on an edge of the other one. *)
On(edge, p) ==
  /\ Side(edge[1], edge[2], p) = 0
  /\ Min({edge[1][1], edge[2][1]}) <= p[1] /\ p[1] <= Max({edge[1][1], edge[2][1]})
  /\ Min({edge[1][2], edge[2][2]}) <= p[2] /\ p[2] <= Max({edge[1][2], edge[2][2]})

Touching(a, b) ==
  \E p \in a.polygons, q \in b.polygons :
    \/ \E e \in polygonEdges(p), i \in DOMAIN q.points : On(e, q.points[i])
    \/ \E e \in polygonEdges(q), i \in DOMAIN p.points : On(e, p.points[i])

(* Unless a corner of one lies exactly on the outline of the other, two     *)
(* parts are reported to clash if and only if they share a point: a stroke  *)
(* that crosses a stroke or an outline, outlines that cross or run into     *)
(* each other's notches, and a part inside another one, for every rotation  *)
(* and mirroring of both (shapesOverlap, transformShape).                   *)
ClashesAreSeen ==
  placed # None =>
  LET a == ShapeOf(placed[1])   b == ShapeOf(placed[2])
  IN ~Touching(a, b) => (shapesOverlap(a, b) <=> Clash(a, b))

(* The reader and the drawing agree on every pin of every instance: the     *)
(* stub starts where the reader says the pin is, and runs along the angle   *)
(* that the reader gives it and the writer places parts by                  *)
(* (transformSymbolPoint and transformPinAngle against transformPoint).     *)
PinsAreWhereDrawn ==
  \A n \in DOMAIN placed :
    LET i == placed[n]
        read == Component(parseSource(<<makeComponentLine(1, NoPart, i.t.at, i.t.rotation, i.t.flip),
                                        makeAttrLine(2, 1, "Symbol", i.symbol)>>, EschSchemas), 1)
        symbol == SymbolCache[i.symbol]
    IN \A k \in DOMAIN symbol.pins :
         LET drawn == pinPolygon(symbol.pins[k].at, symbol.pins[k].length, symbol.pins[k].angle)
         IN [j \in {1, 2} |-> transformPoint(drawn.points[j], i.t)]
            = pinPolygon(read.pins[k].at, symbol.pins[k].length, read.pins[k].angle).points
=============================================================================
