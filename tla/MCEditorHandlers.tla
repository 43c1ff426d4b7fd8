---------------------------- MODULE MCEditorHandlers ----------------------------
(* Two projects, one of two pages and one of a single page.  The resistor on   *)
(* page a names its part through a template, the one on page b outright.  The  *)
(* connectivity queries are of three components with up to two pins each, of   *)
(* which one may have a dot in its designator or the designator of another;    *)
(* the board has three pours, of which one has no rebuild of its own.          *)
EXTENDS EditorHandlers, TLC
CONSTANTS r1, r2, f1, f2, alpha, beta, a, b, z, R1, R2, p1, p2, p3, u1, u2, u3

MCPagesOf == alpha :> <<a, b>> @@ beta :> <<z>>
MCHomePage == R1 :> a @@ R2 :> b
MCMetadata ==
    R1 :> [part |-> Template, value |-> Template] @@
    R2 :> [part |-> Wanted, value |-> Wanted]

Plain == [refresh |-> FALSE, all |-> FALSE, netlist |-> TRUE, dryRun |-> FALSE,
          items |-> 1, target |-> None]
MCMenu == {
    Plain @@ [kind |-> "get"],
    [Plain EXCEPT !.all = TRUE, !.refresh = TRUE] @@ [kind |-> "getAll"],
    [Plain EXCEPT !.refresh = TRUE] @@ [kind |-> "getAllPins"],
    [Plain EXCEPT !.all = TRUE] @@ [kind |-> "connectivity"],
    [Plain EXCEPT !.all = TRUE] @@ [kind |-> "swap"],
    [Plain EXCEPT !.dryRun = TRUE] @@ [kind |-> "swap"],
    [Plain EXCEPT !.netlist = FALSE, !.target = R1] @@ [kind |-> "modify"],
    [Plain EXCEPT !.netlist = FALSE, !.items = 2] @@ [kind |-> "batch"],
    [Plain EXCEPT !.netlist = FALSE] @@ [kind |-> "write"],
    [Plain EXCEPT !.netlist = FALSE] @@ [kind |-> "import"]}

(* A power net and two that EasyEDA has named itself.                          *)
Nets == {[name |-> "VCC", own |-> FALSE], [name |-> "$1N1", own |-> TRUE],
         [name |-> "$1N2", own |-> TRUE]}
Wirings ==
    {[u1 |-> u, u2 |-> v, u3 |-> w] :
        u \in [{1} -> Nets], v \in [{1, 2} -> Nets], w \in [{1, 2} -> Nets] \cup {<<>>}}
MCQueries ==
    {[netlist |-> u1 :> [designator |-> <<"U1">>, pins |-> w.u1] @@
                  u2 :> [designator |-> <<"U2">>, pins |-> w.u2] @@
                  u3 :> [designator |-> third, pins |-> w.u3],
      found |-> found, designators |-> designators, nets |-> nets, depth |-> depth,
      pinNumbers |-> {1, 2}] :
        w \in Wirings, found \in {{u1, u2, u3}, {u1, u3}},
        third \in {<<"U3">>, <<"U3", "1">>, <<"U2">>},
        designators \in {All, [any |-> FALSE, names |-> {<<"U1">>}]},
        nets \in {All, [any |-> FALSE, names |-> {[name |-> "VCC", own |-> FALSE]}]},
        depth \in 1..3}

(* A parameter as a number, as digits, as a name, as one no table has, as one  *)
(* that every object has, and as an array.                                     *)
Layers == {absent, number(1), digits(2), named("bottom", 0), named("inner", 30),
           named("inner", 31), named("custom", 1), named("constructor", 0), other}
ModesOf(type) ==
    {single(v) : v \in {absent, number(0), digits(1), named("nonsense", 0), other}} \cup
    {several(items) : items \in {<<>>, <<named("nowires", 0), digits(2)>>,
                                 <<named("nowires", 0), digits(2), named("norouting", 0)>>}} \cup
    {single(v) : v \in IF type = "via" THEN {named("blind", 0)}
                       ELSE IF type = "fill" THEN {named("grid", 0)} ELSE {named("nowires", 0)}}
NoParams == [layer |-> absent, mode |-> single(absent), width |-> absent]
NoProperty == NoParams @@ [layerId |-> absent]
NoRules == [config |-> [object |-> FALSE, kids |-> {}], name |-> "none",
            whole |-> [object |-> FALSE, kids |-> {}]]
Corner == <<0, 0>>
Square == <<Corner, <<0, 1>>, <<1, 1>>>>

Asked == [op |-> "create", type |-> "line", params |-> NoParams @@ [property |-> NoProperty],
          points |-> Square, rules |-> NoRules, pours |-> {}, ids |-> {}]
Creates ==
    UNION {{[Asked EXCEPT !.type = type, !.points = points,
                !.params = [@ EXCEPT !.layer = layer, !.mode = mode, !.width = number(5)]] :
            layer \in Layers, mode \in IF type = "line" THEN {single(absent)} ELSE ModesOf(type),
            points \in {Square, Append(Square, Corner)}} :
           type \in {"region", "via", "fill", "line"}}
Modifies ==
    UNION {{[Asked EXCEPT !.op = "modify", !.type = type,
                !.params = [@ EXCEPT !.property = [@ EXCEPT !.layer = layer, !.layerId = layerId,
                                                            !.mode = mode]]] :
            layer \in Layers, layerId \in {absent, named("top", 0), other},
            mode \in IF type = "line" THEN {single(absent)} ELSE ModesOf(type)} :
           type \in {"region", "via", "fill", "line"}}
(* For every pour there is, or for some, of which not all need be found.       *)
Rebuilds == {q \in {[Asked EXCEPT !.op = "rebuild", !.pours = pours, !.ids = ids] :
                        pours \in SUBSET {p1, p2, p3}, ids \in SUBSET {p1, p2, p3}} :
                q.ids # {} => q.pours \subseteq q.ids}

Object(kids) == [object |-> TRUE, kids |-> kids]
RuleSet(editName) == [object |-> TRUE, editName |-> editName]
Configs == {Object({}), Object({Object({})}), Object({Object({Object({})})}),
            Object({Object({Object({RuleSet(FALSE)})})}),
            Object({Object({Object({RuleSet(TRUE)})})}),
            Object({Object({Object({RuleSet(TRUE), RuleSet(FALSE)})})})}
Rules == {[Asked EXCEPT !.op = "rules",
              !.rules = [config |-> NoRules.config, name |-> "none", whole |-> c]] : c \in Configs}
         \cup
         {[Asked EXCEPT !.op = "rules",
              !.rules = [config |-> c, name |-> name, whole |-> Object({c, [object |-> FALSE]})]] :
              c \in Configs, name \in {"text", "other"}}
MCPcbRequests == Creates \cup Modifies \cup Rebuilds \cup Rules

Symmetry == Permutations({r1, r2}) \cup Permutations({f1, f2})
=============================================================================
