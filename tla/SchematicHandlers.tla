--------------------------- MODULE SchematicHandlers ---------------------------
(***************************************************************************)
(* The sch.* handlers of the extension that take several EasyEDA calls:    *)
(* reads that walk the schematic's pages while the netlist is fetched      *)
(* beside them, and writes that end by dropping the memoised netlist.      *)
(*                                                                         *)
(* The request queue runs one handler at a time, but a slot that times out *)
(* leaves its handler running beside the next one's; a handler whose walk  *)
(* fails leaves its netlist request behind; and the user goes on editing,  *)
(* changing pages and projects meanwhile.  One step is what happens        *)
(* between two awaits.                                                     *)
(***************************************************************************)
EXTENDS NetlistCache, Sequences, Functions

CONSTANTS
    Menu,        \* the requests: [kind, refresh, all, netlist, dryRun, items, target]
    FirstPages,  \* the documents that may be open at first
    MaxEvents,   \* bound: the requests, a walk of the pages counting as two, and
                 \* the mishaps: the user's acts, failures of EasyEDA, timeouts
    PagesOf,     \* per project, getAllSchematicPagesInfo's list
    Board,       \* an open document that is no schematic page
    Comps,       \* the components
    HomePage,    \* the page a component is on
    Metadata,    \* the metadata fields EasyEDA stores with each, at first
    Replaced,    \* the fields that a swap or a modify is asked to replace
    Wanted,      \* the value swapSupplierPart's filter asks for in them
    Template,    \* a stored ={...} expression that the netlist resolves to Wanted
    NewValue,    \* what they are replaced with
    Blank        \* what EasyEDA's modify leaves in a field it is not given

Fields == DOMAIN Metadata[CHOOSE c \in Comps : TRUE]

Requests == Calls
Values == {Wanted, Template, NewValue, Blank}
Pages == UNION {Range(PagesOf[p]) : p \in Projects}
Kinds == {"get", "getAll", "getAllPins", "connectivity", "swap", "modify", "batch",
          "write", "import"}

ASSUME HandlersAssumption ==
    /\ MaxEvents \in Nat
    /\ Replaced \subseteq Fields
    /\ Metadata \in [Comps -> [Fields -> Values]]
    /\ \A c \in Comps : \E p \in Projects : HomePage[c] \in Range(PagesOf[p])

(* A project has pages, and getAllSchematicPagesInfo names each one once.  *)
ASSUME PagesAssumption ==
    \A p \in Projects :
        /\ PagesOf[p] \in Seq(Range(PagesOf[p])) \ {<<>>}
        /\ IsInjective(PagesOf[p])
        /\ Board \notin Range(PagesOf[p])

(* A modify names a component.                                             *)
ASSUME RequestsAssumption ==
    /\ Menu \subseteq [kind: Kinds, refresh: BOOLEAN, all: BOOLEAN, netlist: BOOLEAN,
                       dryRun: BOOLEAN, items: Nat, target: Comps \cup {None}]
    /\ \A q \in Menu : q.kind = "modify" => q.target \in Comps

VARIABLES
    page,      \* the document open in the editor
    stored,    \* the components' metadata, as EasyEDA stores it
    intended,  \* history: the metadata with what was asked for, and no more, replaced
    raced,     \* history: components edited between a handler's read and its write
    handler,   \* the handlers that run, by request
    slot,      \* the request the queue waits for, or None
    events     \* the requests and mishaps so far

eda == <<page, stored, intended, raced>>
vars == <<cacheVars, eda, handler, slot, events>>

IdleHandler == [at |-> "idle", req |-> None, todo |-> <<>>, walks |-> FALSE,
                origin |-> None, failed |-> FALSE, listed |-> {}, target |-> None,
                snapshot |-> None, seen |-> [c \in Comps |-> 0], named |-> {},
                wrote |-> 0, disturbed |-> FALSE, stuck |-> FALSE]

Init ==
    /\ CacheInit
    /\ page \in FirstPages \cap (Range(PagesOf[project]) \cup {Board})
    /\ stored = Metadata
    /\ intended = Metadata
    /\ raced = {}
    /\ handler = [r \in Requests |-> IdleHandler]
    /\ slot = None
    /\ events = 0

Active == {r \in Requests : handler[r].at # "idle"}
Here == {c \in Comps : HomePage[c] = page}
InProject(p) == {c \in Comps : HomePage[c] \in Range(PagesOf[p])}
Kind(r) == handler[r].req.kind

(* A change of page or project is felt by every other handler that runs.   *)
Disturb(who) == [r \in Requests |->
    IF r \in Active \ who THEN [handler[r] EXCEPT !.disturbed = TRUE] ELSE handler[r]]

-----------------------------------------------------------------------------
(* A handler begins and ends.                                              *)

FirstStep(q) ==
    [get          |-> "list",
     getAll       |-> IF q.all THEN "pages" ELSE "list",
     getAllPins   |-> "list",
     connectivity |-> "pages",
     swap         |-> "await",
     modify       |-> "snapshot",
     batch        |-> "write",
     write        |-> "write",
     import       |-> "write"][q.kind]

FetchesFirst(q) == q.netlist /\ q.kind \in {"get", "getAll", "connectivity", "swap"}

(* The queue's slot is free and the request is the next.                   *)
Begin(r, q) ==
    /\ slot = None
    /\ handler[r].at = "idle"
    /\ call[r].at = "idle"
    /\ slot' = r
    /\ handler' = [handler EXCEPT ![r] =
                     [IdleHandler EXCEPT !.at = FirstStep(q), !.req = q,
                        !.target = q.target]]
    /\ IF FetchesFirst(q) THEN fetchParsedNetlist(r, q.refresh = TRUE) ELSE UNCHANGED call
    /\ OnlyCall
    /\ UNCHANGED eda

(* h is where the handler of r goes next; at "ended" its promise settles.  *)
Releases(r, h) == slot' = IF h.at = "ended" /\ slot = r THEN None ELSE slot

Goes(r, h) ==
    /\ handler' = [handler EXCEPT ![r] = h]
    /\ Releases(r, h)

(* Not the code: an error leaves the walk at once. *)
ThrownPastFinally(h) == [h EXCEPT !.failed = TRUE, !.at = "ended"]

(* An await in the handler throws: inside the walk its finally comes next. *)
Thrown(h) == [h EXCEPT !.failed = TRUE, !.at = IF h.walks THEN "restore" ELSE "ended"]

(* The pages are done: a read awaits the netlist it asked for.             *)
PagesDone(h) ==
    [h EXCEPT !.at = IF h.req.netlist /\ h.req.kind # "swap" THEN "await" ELSE "ended"]

PageDone(h) ==
    IF ~h.walks THEN PagesDone(h)
    ELSE [h EXCEPT !.todo = Tail(@), !.at = IF Len(h.todo) = 1 THEN "restore" ELSE "open"]

(* swapSupplierPart drops the netlist when all pages went well, and only   *)
(* if it wrote.                                                            *)
SwapInvalidates(h) == h.req.kind = "swap" /\ h.at = "ended" /\ ~h.failed /\ h.wrote > 0

SwapDone(h) ==
    IF SwapInvalidates(h) THEN invalidateNetlistCache
    ELSE UNCHANGED <<cache, generation, settled>>

(* The response is gone; the request's number may serve again once its     *)
(* call of fetchParsedNetlist has got past its own first await.            *)
Collected(r) ==
    /\ handler[r].at = "ended"
    /\ call[r].at # "asking"
    /\ IF call[r].at = "idle" THEN UNCHANGED call ELSE Collect(r)
    /\ handler' = [handler EXCEPT ![r] = IdleHandler]
    /\ OnlyCall
    /\ UNCHANGED <<eda, slot>>

(* The queue gives up on the handler, which does not stop for it.          *)
SlotTimesOut ==
    /\ slot # None
    /\ slot' = None
    /\ UNCHANGED <<cacheVars, eda, handler>>

-----------------------------------------------------------------------------
(* forEachSchematicPage.                                                   *)

(* The list of pages, and the page to come back to; the board is no page   *)
(* to return to.                                                           *)
WalkStarts(r) ==
    LET h == handler[r] IN
    /\ h.at = "pages"
    /\ Goes(r, [h EXCEPT !.walks = TRUE, !.todo = PagesOf[project], !.at = "open",
                         !.origin = IF page = Board THEN None ELSE page])
    /\ UNCHANGED <<cacheVars, eda>>

(* Without a list the visit runs once, on whatever is open.                *)
NoPageList(r) ==
    /\ handler[r].at = "pages"
    /\ Goes(r, [handler[r] EXCEPT !.at = "list"])
    /\ UNCHANGED <<cacheVars, eda>>

(* openDocument(p): the page opens, and the other handlers feel it.        *)
Opens(r, p, h) ==
    /\ p \in Range(PagesOf[project])
    /\ page' = p
    /\ handler' = [(IF p = page THEN handler ELSE Disturb({r})) EXCEPT ![r] = h]
    /\ Releases(r, h)
    /\ UNCHANGED <<stored, intended, raced>>

OpenPage(r) ==
    LET h == handler[r] IN
    /\ h.at = "open"
    /\ Opens(r, Head(h.todo), [h EXCEPT !.at = "verify"])
    /\ UNCHANGED cacheVars

(* It may resolve with another page still active.                          *)
PageStaysShut(r) ==
    /\ handler[r].at = "open"
    /\ Goes(r, [handler[r] EXCEPT !.at = "verify"])
    /\ UNCHANGED <<cacheVars, eda>>

(* Not the code: openDocument is taken at its word. *)
TrustPage(r) ==
    /\ handler[r].at = "verify"
    /\ Goes(r, [handler[r] EXCEPT !.at = "list"])
    /\ UNCHANGED <<cacheVars, eda>>

(* A page that did not open would be read twice.                           *)
VerifyPage(r) ==
    LET h == handler[r] IN
    /\ h.at = "verify"
    /\ Goes(r, IF page = Head(h.todo) THEN [h EXCEPT !.at = "list"] ELSE Thrown(h))
    /\ UNCHANGED <<cacheVars, eda>>

(* The finally: the user's page is opened again, or not, and nothing is    *)
(* said; then the walk's caller goes on, or the error does.                *)
Walked(h) == IF h.failed THEN [h EXCEPT !.at = "ended"] ELSE PagesDone(h)

RestorePage(r) ==
    LET h == Walked(handler[r]) IN
    /\ handler[r].at = "restore"
    /\ IF h.origin = None THEN Goes(r, h) /\ UNCHANGED eda ELSE Opens(r, h.origin, h)
    /\ SwapDone(h)
    /\ UNCHANGED <<project, edits, inflight, fetch, call>>

RestoreFails(r) ==
    LET h == Walked(handler[r]) IN
    /\ handler[r].at = "restore"
    /\ h.origin # None
    /\ Goes(r, [h EXCEPT !.stuck = TRUE])
    /\ SwapDone(h)
    /\ UNCHANGED <<project, edits, inflight, fetch, call, eda>>

-----------------------------------------------------------------------------
(* The visit of a page.                                                    *)

resolveTemplateExpressions(value) == IF value = Template THEN Wanted ELSE value

(* What resolveComponentTemplates makes of a copy of a component; without  *)
(* a netlist, or with one that does not have the component, it is as       *)
(* stored.                                                                 *)
View(r, c) ==
    IF call[r].at = "returned" /\ c \in InProject(call[r].netlist.project)
    THEN [f \in Fields |-> resolveTemplateExpressions(stored[c][f])]
    ELSE stored[c]

matchesFilter(view) == \A f \in Replaced : view[f] = Wanted

Matching(r) == {c \in Here : matchesFilter(View(r, c))}

(* A swap that matches nothing on the page, or only previews, awaits no    *)
(* more there.                                                             *)
Pick(h, listed) ==
    IF listed = {} THEN PageDone([h EXCEPT !.listed = {}])
    ELSE [h EXCEPT !.listed = listed, !.at = "snapshot"]

(* The native getAll: the components of the page that is active.           *)
ListPage(r) ==
    LET h == handler[r]
        counted == [h EXCEPT !.seen = [c \in Comps |->
                                         @[c] + IF c \in Here THEN 1 ELSE 0]]
    IN
    /\ h.at = "list"
    /\ Kind(r) # "getAllPins"
    /\ Goes(r,
         IF Kind(r) = "swap"
           THEN Pick(h, IF h.req.dryRun THEN {} ELSE Matching(r))
         ELSE IF Kind(r) = "connectivity" /\ Here # {}
           THEN [counted EXCEPT !.listed = Here, !.at = "pins"]
         ELSE PageDone(counted))
    /\ UNCHANGED <<cacheVars, eda>>

(* getAllPins has the component and its pins: now it wants the netlist.    *)
ReadComponent(r) ==
    LET h == handler[r] IN
    /\ h.at = "list"
    /\ Kind(r) = "getAllPins"
    /\ fetchParsedNetlist(r, h.req.refresh = TRUE)
    /\ Goes(r, [h EXCEPT !.at = "await"])
    /\ OnlyCall
    /\ UNCHANGED eda

(* fetchPinNames, of up to a dozen components at a time and so in any      *)
(* order; only the active page's pins are there to be read.                *)
fetchPinNames(r) ==
    LET h == handler[r] IN
    /\ h.at = "pins"
    /\ \E c \in h.listed :
        LET read == [h EXCEPT !.listed = @ \ {c},
                              !.named = @ \cup ({c} \cap Here)]
        IN Goes(r, IF read.listed = {} THEN PageDone(read) ELSE read)
    /\ UNCHANGED <<cacheVars, eda>>

(* preserveMetadataOnModify reads the component before it writes it.       *)
TakeSnapshot(r) ==
    LET h == handler[r] IN
    /\ h.at = "snapshot"
    /\ \E c \in IF Kind(r) = "swap" THEN h.listed ELSE {h.target} :
        Goes(r, [h EXCEPT !.target = c, !.snapshot = stored[c], !.at = "modify"])
    /\ UNCHANGED <<cacheVars, eda>>

(* Not the code: the request as it is. *)
PassOn(wanted, snapshot) == wanted

(* The caller's fields win; those it leaves out are the snapshot's.        *)
preserveMetadataOnModify(wanted, snapshot) ==
    [f \in Fields |-> IF f \in DOMAIN wanted THEN wanted[f] ELSE snapshot[f]]

(* EasyEDA writes the component anew from the fields it is given.          *)
modify(given) == [f \in Fields |-> IF f \in DOMAIN given THEN given[f] ELSE Blank]

property == [f \in Replaced |-> NewValue]

(* Handlers that have read component c and not yet written it.             *)
Midway(c) == {r \in Requests : handler[r].at = "modify" /\ handler[r].target = c}

ModifyLands(r) ==
    LET h == handler[r]
        c == h.target
    IN
    /\ h.at = "modify"
    /\ c \in InProject(project)
    /\ stored' = [stored EXCEPT
                    ![c] = modify(preserveMetadataOnModify(property, h.snapshot))]
    /\ intended' = [intended EXCEPT
                      ![c] = [f \in Fields |-> IF f \in Replaced THEN NewValue ELSE @[f]]]
    /\ raced' = IF Midway(c) = {r} THEN raced ELSE raced \cup {c}
    /\ Edit
    /\ Goes(r, [h EXCEPT !.at = "modified", !.wrote = @ + 1])
    /\ UNCHANGED <<project, cache, generation, inflight, fetch, call, settled, page>>

(* modify() resolves: a swap goes on to the page's next match, a single    *)
(* modify drops the netlist.                                               *)
ModifyResolves(r) ==
    LET h == [handler[r] EXCEPT !.snapshot = None, !.target = None] IN
    /\ h.at = "modified"
    /\ IF Kind(r) = "swap"
       THEN LET next == Pick(h, h.listed \ {handler[r].target})
            IN Goes(r, next) /\ SwapDone(next)
       ELSE Goes(r, [h EXCEPT !.at = "ended"]) /\ invalidateNetlistCache
    /\ UNCHANGED <<project, edits, inflight, fetch, call, eda>>

-----------------------------------------------------------------------------
(* The other writes: one call of EasyEDA, or one per flag or port.         *)

WriteLands(r) ==
    LET h == handler[r] IN
    /\ h.at = "write"
    /\ Edit
    /\ Goes(r, [h EXCEPT !.wrote = @ + 1,
                         !.at = IF h.wrote + 1 = h.req.items THEN "written" ELSE @])
    /\ UNCHANGED <<project, cache, generation, inflight, fetch, call, settled, eda>>

(* sch.document.importChanges leaves the netlist be.                       *)
WriteResolves(r) ==
    LET h == handler[r] IN
    /\ h.at = "written"
    /\ IF Kind(r) = "import" THEN UNCHANGED <<cache, generation, settled>>
       ELSE invalidateNetlistCache
    /\ Goes(r, [h EXCEPT !.at = "ended"])
    /\ UNCHANGED <<project, edits, inflight, fetch, call, eda>>

(* An EasyEDA call rejects.  What was written stays written, and a batch   *)
(* or a swap that ends so does not drop the netlist.                       *)
CallRejects(r) ==
    /\ handler[r].at \in {"pages", "open", "verify", "list", "pins", "snapshot",
                          "modify", "write"}
    /\ Goes(r, Thrown(handler[r]))
    /\ UNCHANGED <<cacheVars, eda>>

(* The netlist, or its failure, reaches the handler: a swap does without,  *)
(* a read fails.                                                           *)
NetlistArrives(r) ==
    LET h == handler[r] IN
    /\ h.at = "await"
    /\ call[r].at \in {"returned", "failed"}
    /\ Goes(r, IF Kind(r) = "swap" THEN [h EXCEPT !.at = IF h.req.all THEN "pages" ELSE "list"]
               ELSE [h EXCEPT !.at = "ended", !.failed = (call[r].at = "failed")])
    /\ UNCHANGED <<cacheVars, eda>>

-----------------------------------------------------------------------------
(* The user.                                                               *)

UserEdits ==
    /\ Edit
    /\ UNCHANGED <<project, cache, generation, inflight, fetch, call, settled, eda, handler, slot>>

UserEditsComponent(c, f) ==
    /\ c \in InProject(project)
    /\ stored[c][f] # Wanted
    /\ stored' = [stored EXCEPT ![c][f] = Wanted]
    /\ intended' = [intended EXCEPT ![c][f] = Wanted]
    /\ raced' = IF Midway(c) = {} THEN raced ELSE raced \cup {c}
    /\ Edit
    /\ UNCHANGED <<project, cache, generation, inflight, fetch, call, settled, page, handler, slot>>

UserOpens(p) ==
    /\ p # page
    /\ page' = p
    /\ handler' = Disturb({})
    /\ UNCHANGED <<cacheVars, stored, intended, raced, slot>>

UserSwitches(p) ==
    /\ SwitchProject(p)
    /\ page' = Head(PagesOf[p])
    /\ handler' = Disturb({})
    /\ UNCHANGED <<stored, intended, raced, slot>>

-----------------------------------------------------------------------------
HandlerStep(r) ==
    \/ WalkStarts(r) \/ OpenPage(r) \/ VerifyPage(r) \/ RestorePage(r)
    \/ ListPage(r) \/ ReadComponent(r) \/ fetchPinNames(r)
    \/ TakeSnapshot(r) \/ ModifyLands(r) \/ ModifyResolves(r)
    \/ WriteLands(r) \/ WriteResolves(r)
    \/ NetlistArrives(r) \/ Collected(r)

HandlerTrouble(r) ==
    \/ NoPageList(r) \/ PageStaysShut(r) \/ RestoreFails(r) \/ CallRejects(r)

OutsideHandlers == UNCHANGED <<eda, handler, slot>>

NetlistStep ==
    \/ \E r \in Requests : currentProjectUuid(r, project)
    \/ \E f \in Fetches : fetchRawNetlist(f) \/ FetchLands(f)

NetlistTrouble ==
    \/ \E r \in Requests : currentProjectUuid(r, NoProject)
    \/ \E f \in Fetches : FetchFails(f)
    \/ EntryExpires

UserStep ==
    \/ UserEdits
    \/ \E c \in Comps, f \in Fields : UserEditsComponent(c, f)
    \/ \E p \in Range(PagesOf[project]) \cup {Board} : UserOpens(p)
    \/ \E p \in Projects : UserSwitches(p)

AsItShould ==
    /\ (\E r \in Requests : HandlerStep(r)) \/ (NetlistStep /\ OutsideHandlers)
    /\ UNCHANGED events

Counts(n) == events + n <= MaxEvents /\ events' = events + n

NewRequest ==
    \E r \in Requests, q \in Menu : Begin(r, q) /\ Counts(IF q.all THEN 2 ELSE 1)

Mishap ==
    /\ \/ \E r \in Requests : HandlerTrouble(r)
       \/ NetlistTrouble /\ OutsideHandlers
       \/ SlotTimesOut
       \/ UserStep
    /\ Counts(1)

Next == AsItShould \/ NewRequest \/ Mishap

Spec == Init /\ [][Next]_vars

-----------------------------------------------------------------------------
(* Properties.                                                             *)

HandlerStates ==
    [at: {"idle", "pages", "open", "verify", "list", "pins", "snapshot", "modify",
          "modified", "write", "written", "restore", "await", "ended"},
     req: Menu \cup {None}, todo: Seq(Pages), walks: BOOLEAN, origin: Pages \cup {None},
     failed: BOOLEAN, listed: SUBSET Comps, target: Comps \cup {None},
     snapshot: [Fields -> Values] \cup {None}, seen: [Comps -> Nat],
     named: SUBSET Comps, wrote: Nat, disturbed: BOOLEAN, stuck: BOOLEAN]

TypeOK ==
    /\ CacheTypeOK
    /\ page \in Pages \cup {Board}
    /\ stored \in [Comps -> [Fields -> Values]]
    /\ intended \in [Comps -> [Fields -> Values]]
    /\ raced \subseteq Comps
    /\ handler \in [Requests -> HandlerStates]
    /\ slot \in Requests \cup {None}
    /\ events \in 0..MaxEvents

(* A walk nobody disturbed that ends well has read every component of the  *)
(* project exactly once, and connectivity every pin name, on its own page. *)
(* A page that silently fails to open would be read twice.                 *)
EachComponentOnce ==
    \A r \in Requests : LET h == handler[r] IN
        (h.at = "ended" /\ h.walks /\ ~h.failed /\ ~h.disturbed) =>
            /\ Kind(r) \in {"getAll", "connectivity"} =>
                \A c \in Comps : h.seen[c] = IF c \in InProject(project) THEN 1 ELSE 0
            /\ Kind(r) = "connectivity" => h.named = InProject(project)

(* However a walk ends, the editor shows the page the user had open,       *)
(* unless EasyEDA would not open it again or somebody else changed pages.  *)
PageComesBack ==
    \A r \in Requests : LET h == handler[r] IN
        (h.at = "ended" /\ h.origin # None /\ ~h.stuck /\ ~h.disturbed)
            => page = h.origin

(* However many pages, failures and late handlers, a component's metadata  *)
(* is what the user and the requests asked for: no field that was left out *)
(* of a request is blanked, and no template is replaced by what it stood   *)
(* for.  Only a component edited between a handler's read and its write    *)
(* may lose that edit.                                                     *)
MetadataSurvives ==
    \A c \in Comps \ raced : stored[c] = intended[c]

=============================================================================
