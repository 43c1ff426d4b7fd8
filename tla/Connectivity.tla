----------------------------- MODULE Connectivity -----------------------------
(***************************************************************************)
(* What sch.connectivity.get makes of the netlist and of the components    *)
(* and pin names its walk has found: the designators asked for, widened    *)
(* hop by hop through the nets EasyEDA has named itself ($...), and two    *)
(* views of the same wiring, by net and by component.                      *)
(***************************************************************************)
EXTENDS Naturals, FiniteSets, Sequences

CONSTANTS
    Queries      \* [netlist, found, designators, nets, depth, pinNumbers]; of a
                 \* component the netlist gives a designator, as the parts its dots
                 \* separate, and the net of each connected pin

ASSUME QueriesAssumption ==
    \A q \in Queries :
        /\ q.depth \in Nat \ {0}
        /\ \A u \in DOMAIN q.netlist : DOMAIN q.netlist[u].pins \subseteq q.pinNumbers

VARIABLES query, reply
connectivityVars == <<query, reply>>

(* A filter: the names to keep, or none at all.                            *)
All == [any |-> TRUE, names |-> {}]
Keeps(filter, name) == filter.any \/ name \in filter.names

Components(q) == {u \in DOMAIN q.netlist : u \in q.found}
NetsOf(q, u) == {q.netlist[u].pins[n] : n \in DOMAIN q.netlist[u].pins}

netToDesignators(q, net) ==
    {q.netlist[u].designator : u \in {v \in Components(q) : net \in NetsOf(q, v)}}

designatorToDollarNets(q, d) ==
    {net \in UNION {NetsOf(q, u) : u \in {v \in Components(q) : q.netlist[v].designator = d}} :
        net.own}

Neighbours(q, d) ==
    UNION {netToDesignators(q, net) : net \in designatorToDollarNets(q, d)}

(* The search: a frontier that has not been looked beyond, and all that    *)
(* was reached.  The first hop is the frontier asked for.                  *)
start(q) == [frontier |-> q.designators.names, reached |-> q.designators.names]

nextFrontier(q, s) == (UNION {Neighbours(q, d) : d \in s.frontier}) \ s.reached
nextHop(q, s) ==
    [frontier |-> nextFrontier(q, s), reached |-> s.reached \cup nextFrontier(q, s)]

search(q, hops) ==
    LET s[hop \in 1..hops] == IF hop = 1 THEN start(q) ELSE nextHop(q, s[hop - 1])
    IN s[hops]

Reaching(q, hops) ==
    IF q.designators.any THEN All ELSE [any |-> FALSE, names |-> search(q, hops).reached]

(* Not the code: the first hop is not counted. *)
ExpandedOneMore(q) == Reaching(q, q.depth + 1)

Expanded(q) == Reaching(q, q.depth)

(* One label of the nets view: designator and pin number.                  *)
Label(q, u, n) == <<q.netlist[u].designator, n>>

Shown(q, wanted) == {u \in Components(q) : Keeps(wanted, q.netlist[u].designator)}

(* The pins on the nets of the answer, a component and a pin number each.  *)
Wired(q, wanted) ==
    {w \in Shown(q, wanted) \X q.pinNumbers :
        LET pins == q.netlist[w[1]].pins
        IN w[2] \in DOMAIN pins /\ ~pins[w[2]].own}
NetOf(q, w) == q.netlist[w[1]].pins[w[2]]
Labels(q, wanted, net) ==
    {Label(q, w[1], w[2]) : w \in {v \in Wired(q, wanted) : NetOf(q, v) = net}}

(* Among designators asked for, a label is looked up by what stands before *)
(* its first dot.                                                          *)
Relevant(q, wanted, net) ==
    wanted.any \/ ~q.nets.any \/
    \E label \in Labels(q, wanted, net) : <<Head(label[1])>> \in wanted.names

netsView(q, wanted) ==
    [net \in {n \in {NetOf(q, w) : w \in Wired(q, wanted)} :
                Keeps(q.nets, n) /\ Relevant(q, wanted, n)} |-> Labels(q, wanted, net)]

(* Of components that share a designator the last one read is shown.       *)
Touching(q, wanted) ==
    {u \in Shown(q, wanted) : q.nets.any \/ NetsOf(q, u) \cap q.nets.names # {}}
Designators(q, units) == {q.netlist[u].designator : u \in units}
LastRead(q, units) ==
    {last \in [Designators(q, units) -> units] :
        \A d \in DOMAIN last : q.netlist[last[d]].designator = d}

componentsView(q, last) == [d \in DOMAIN last |-> q.netlist[last[d]].pins]

ConnectivityInit ==
    /\ query \in Queries
    /\ reply = [nets |-> <<>>, components |-> <<>>, ready |-> FALSE]

connectivityGet ==
    /\ ~reply.ready
    /\ LET wanted == Expanded(query) IN
       \E last \in LastRead(query, Touching(query, wanted)) :
          reply' = [nets |-> netsView(query, wanted),
                    components |-> componentsView(query, last), ready |-> TRUE]
    /\ UNCHANGED query

-----------------------------------------------------------------------------
(* Properties.                                                             *)

(* Reached from d over at most k of EasyEDA's own nets.                    *)
Within(q, k, d) ==
    \E path \in [0..k -> Designators(q, Components(q))] :
        /\ path[0] \in q.designators.names
        /\ path[k] = d
        /\ \A i \in 0..(k - 1) :
            path[i] = path[i + 1] \/ path[i + 1] \in Neighbours(q, path[i])

Undotted(d) == d = <<Head(d)>>
Alone(q, d) ==
    \A u, v \in Components(q) :
        (q.netlist[u].designator = d /\ q.netlist[v].designator = d) => u = v

(* With no net asked for, the components of the answer are those within    *)
(* depth - 1 hops of the designators asked for, no more and no fewer.      *)
(* What a component says of a pin the nets say too, except where a dot in  *)
(* the designator hides it; and what a net says of a pin its component     *)
(* says too, where no other component bears the designator.                *)
ConnectivityIsRight ==
    (reply.ready /\ query.nets.any) =>
        /\ DOMAIN reply.components =
             {d \in Designators(query, Components(query)) :
                query.designators.any \/ Within(query, query.depth - 1, d)}
        /\ \A d \in DOMAIN reply.components : \A n \in DOMAIN reply.components[d] :
             LET net == reply.components[d][n] IN
             (~net.own /\ (query.designators.any \/ Undotted(d))) =>
                net \in DOMAIN reply.nets /\ <<d, n>> \in reply.nets[net]
        /\ \A net \in DOMAIN reply.nets : \A label \in reply.nets[net] :
             Alone(query, label[1]) => reply.components[label[1]][label[2]] = net

=============================================================================
