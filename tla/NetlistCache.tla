------------------------------ MODULE NetlistCache ------------------------------
(***************************************************************************)
(* The memoised project netlist of the extension: sch-netlist-utils.ts.    *)
(* EasyEDA recomputes the netlist of the whole project on every            *)
(* getNetlistFile, which can take tens of seconds, so the last one is kept *)
(* for a minute, dropped by every handler that writes to the schematic,    *)
(* and concurrent reads join the call in flight.  `generation' decides     *)
(* which call may be joined and which result may be kept.                  *)
(*                                                                         *)
(* A netlist is the project it describes and the number of edits it has    *)
(* seen.  A call of fetchParsedNetlist is a record of `call', the request  *)
(* to EasyEDA it makes or joins a record of `fetch'.                       *)
(***************************************************************************)
EXTENDS Naturals

CONSTANTS
    Projects,    \* the projects the user can have open in the window
    Calls,       \* concurrent calls of fetchParsedNetlist
    Fetches,     \* concurrent getNetlistFile requests
    NoProject,   \* currentProjectUuid's null: EasyEDA did not say
    None

ASSUME CacheAssumption ==
    /\ NoProject \notin Projects
    /\ None \notin Fetches \cup Projects \cup {NoProject}
    /\ None \notin [fetch: Fetches, generation: Nat]

Netlists == [project: Projects, edits: Nat]
CacheEntries == [project: Projects \cup {NoProject}, netlist: Netlists,
                 fresh: BOOLEAN, mixed: BOOLEAN]

VARIABLES
    project,     \* the project open in EasyEDA
    edits,       \* per project, the edits EasyEDA has made to its schematic
    cache,       \* netlistCache: None or an entry
    generation,  \* netlistGeneration
    inflight,    \* netlistInflight: None or the fetch and its generation
    fetch,       \* the getNetlistFile requests
    call,        \* the callers of fetchParsedNetlist
    settled      \* history: per project, the edits the last invalidation followed

cacheVars == <<project, edits, cache, generation, inflight, fetch, call, settled>>

IdleFetch == [live |-> FALSE, project |-> NoProject, generation |-> 0,
              netlist |-> None, mixed |-> FALSE]
IdleCall == [at |-> "idle", refresh |-> FALSE, project |-> None, on |-> None,
             netlist |-> None, since |-> [p \in Projects |-> 0], mixed |-> FALSE]

CacheInit ==
    /\ project \in Projects
    /\ edits = [p \in Projects |-> 0]
    /\ settled = [p \in Projects |-> 0]
    /\ cache = None
    /\ generation = 0
    /\ inflight = None
    /\ fetch = [f \in Fetches |-> IdleFetch]
    /\ call = [c \in Calls |-> IdleCall]

-----------------------------------------------------------------------------
(* fetchParsedNetlist.                                                     *)

(* A call begins by asking EasyEDA which project is open.  `since' is      *)
(* history: what the caller may count on, which is every edit made so far  *)
(* for a refresh, and else every edit an invalidation has followed.        *)
fetchParsedNetlist(c, refresh) ==
    /\ call[c].at = "idle"
    /\ call' = [call EXCEPT ![c] = [IdleCall EXCEPT
                   !.at = "asking", !.refresh = refresh,
                   !.since = IF refresh THEN edits ELSE settled]]

(* Not the code: one entry for whatever project is open. *)
CachedForAnyone(p) == cache # None /\ cache.fresh

Cached(p) == cache # None /\ cache.project = p /\ cache.fresh

(* Not the code: any request under way will do. *)
JoinableAtAnyAge == inflight # None

Joinable == inflight # None /\ inflight.generation = generation

(* currentProjectUuid answered p, and a fresh entry for p is kept.         *)
ServeFromCache(c, p) ==
    /\ ~call[c].refresh
    /\ Cached(p)
    /\ call' = [call EXCEPT ![c].at = "returned", ![c].project = p,
                            ![c].netlist = cache.netlist,
                            ![c].mixed = @ \/ cache.mixed]
    /\ UNCHANGED <<project, edits, cache, generation, inflight, fetch, settled>>

(* No entry, but a request of the current generation is under way: share   *)
(* its promise, whatever project it was made for.                          *)
JoinInflight(c, p) ==
    /\ ~call[c].refresh
    /\ ~Cached(p)
    /\ Joinable
    /\ call' = [call EXCEPT ![c].at = "waiting", ![c].project = p,
                            ![c].on = inflight.fetch,
                            ![c].mixed = @ \/ fetch[inflight.fetch].mixed]
    /\ UNCHANGED <<project, edits, cache, generation, inflight, fetch, settled>>

(* Not the code: a refresh begins no generation of its own. *)
SameGeneration(refresh) == generation

(* A refresh first begins a new generation.                                *)
FetchGeneration(refresh) == IF refresh THEN generation + 1 ELSE generation

(* A request of one's own.                                                 *)
StartFetch(c, p) ==
    /\ ~(~call[c].refresh /\ (Cached(p) \/ Joinable))
    /\ generation' = FetchGeneration(call[c].refresh)
    /\ \E f \in Fetches :
        /\ ~fetch[f].live
        /\ fetch' = [fetch EXCEPT ![f] =
                       [IdleFetch EXCEPT !.live = TRUE, !.project = p,
                                         !.generation = generation']]
        /\ inflight' = [fetch |-> f, generation |-> generation']
        /\ call' = [call EXCEPT ![c].at = "waiting", ![c].project = p, ![c].on = f]
    /\ UNCHANGED <<project, edits, cache, settled>>

(* currentProjectUuid resolves with the open project, or null on an error. *)
currentProjectUuid(c, p) ==
    /\ call[c].at = "asking"
    /\ p \in {project, NoProject}
    /\ ServeFromCache(c, p) \/ JoinInflight(c, p) \/ StartFetch(c, p)

-----------------------------------------------------------------------------
(* The request to EasyEDA.                                                 *)

(* EasyEDA computes the netlist of the project that is open at that time.  *)
fetchRawNetlist(f) ==
    /\ fetch[f].live
    /\ fetch[f].netlist = None
    /\ fetch' = [fetch EXCEPT
                   ![f].netlist = [project |-> project, edits |-> edits[project]]]
    /\ UNCHANGED <<project, edits, cache, generation, inflight, call, settled>>

(* The finally of the request: its own generation's slot is free again.    *)
ClearInflight(f) ==
    inflight' = IF inflight # None /\ inflight.generation = fetch[f].generation
                THEN None ELSE inflight

(* What the request's callers are handed, all of them at once.             *)
Settle(f, outcome, netlist) ==
    /\ fetch' = [fetch EXCEPT ![f] = IdleFetch]
    /\ call' = [c \in Calls |->
                  IF call[c].at = "waiting" /\ call[c].on = f
                  THEN [call[c] EXCEPT !.at = outcome, !.netlist = netlist]
                  ELSE call[c]]

Keep(f) ==
    cache' = IF fetch[f].generation = generation
             THEN [project |-> fetch[f].project, netlist |-> fetch[f].netlist,
                   fresh |-> TRUE, mixed |-> fetch[f].mixed]
             ELSE cache

(* The text arrives and parses: kept unless the generation has moved on.   *)
FetchLands(f) ==
    /\ fetch[f].live
    /\ fetch[f].netlist # None
    /\ Keep(f)
    /\ ClearInflight(f)
    /\ Settle(f, "returned", fetch[f].netlist)
    /\ UNCHANGED <<project, edits, generation, settled>>

(* No file, no text, or text that does not parse.                          *)
FetchFails(f) ==
    /\ fetch[f].live
    /\ ClearInflight(f)
    /\ Settle(f, "failed", None)
    /\ UNCHANGED <<project, edits, cache, generation, settled>>

-----------------------------------------------------------------------------
(* What the rest of the extension and the user do to it.                   *)

(* EasyEDA's schematic changes: a handler's call, or the user's hand.      *)
Edit == edits' = [edits EXCEPT ![project] = @ + 1]

invalidateNetlistCache ==
    /\ cache' = None
    /\ generation' = generation + 1
    /\ settled' = edits

(* The minute is over.                                                     *)
EntryExpires ==
    /\ cache # None
    /\ cache.fresh
    /\ cache' = [cache EXCEPT !.fresh = FALSE]
    /\ UNCHANGED <<project, edits, generation, inflight, fetch, call, settled>>

(* The user opens another project in the window.  `mixed' is history: the  *)
(* calls and requests that were under way then.                            *)
SwitchProject(p) ==
    /\ p # project
    /\ project' = p
    /\ fetch' = [f \in Fetches |-> [fetch[f] EXCEPT !.mixed = fetch[f].live]]
    /\ call' = [c \in Calls |->
                  [call[c] EXCEPT !.mixed = @ \/ call[c].at \in {"asking", "waiting"}]]
    /\ UNCHANGED <<edits, cache, generation, inflight, settled>>

(* A call whose outcome its handler has taken, or no longer waits for: the *)
(* request it made or joined goes on without it.                           *)
Collect(c) ==
    /\ call[c].at \in {"waiting", "returned", "failed"}
    /\ call' = [call EXCEPT ![c] = IdleCall]

OnlyCall == UNCHANGED <<project, edits, cache, generation, inflight, fetch, settled>>

CacheNext ==
    \/ \E c \in Calls :
        \/ \E refresh \in BOOLEAN : fetchParsedNetlist(c, refresh) /\ OnlyCall
        \/ \E p \in Projects \cup {NoProject} : currentProjectUuid(c, p)
        \/ Collect(c) /\ OnlyCall
    \/ \E f \in Fetches : fetchRawNetlist(f) \/ FetchLands(f) \/ FetchFails(f)
    \/ EntryExpires
    \/ \E p \in Projects : SwitchProject(p)
    \/ Edit /\ UNCHANGED <<project, cache, generation, inflight, fetch, call, settled>>
    \/ invalidateNetlistCache /\ UNCHANGED <<project, edits, inflight, fetch, call>>

CacheSpec == CacheInit /\ [][CacheNext]_cacheVars

-----------------------------------------------------------------------------
(* Properties.                                                             *)

FetchStates == [live: BOOLEAN, project: Projects \cup {NoProject}, generation: Nat,
                netlist: Netlists \cup {None}, mixed: BOOLEAN]

CallStates == [at: {"idle", "asking", "waiting", "returned", "failed"},
               refresh: BOOLEAN, project: Projects \cup {NoProject, None},
               on: Fetches \cup {None}, netlist: Netlists \cup {None},
               since: [Projects -> Nat], mixed: BOOLEAN]

CacheTypeOK ==
    /\ project \in Projects
    /\ edits \in [Projects -> Nat]
    /\ settled \in [Projects -> Nat]
    /\ cache \in CacheEntries \cup {None}
    /\ generation \in Nat
    /\ inflight \in [fetch: Fetches, generation: Nat] \cup {None}
    /\ fetch \in [Fetches -> FetchStates]
    /\ call \in [Calls -> CallStates]

(* A caller is never handed a netlist older than it may count on: for a    *)
(* refresh, than the schematic was when it asked; for any other read, than *)
(* it was at the last invalidation before.  A request that began before an *)
(* edit and lands after it must be neither joined nor kept.                *)
NeverStale ==
    \A c \in Calls : call[c].at = "returned" =>
        call[c].netlist.edits >= call[c].since[call[c].netlist.project]

(* What is kept of a project only ever gets newer: of two requests in      *)
(* flight, the one that lands last never replaces the later answer by the  *)
(* earlier one.                                                            *)
CacheMovesForward ==
    [][(cache # None /\ cache' # None /\ cache.netlist.project = cache'.netlist.project)
         => cache'.netlist.edits >= cache.netlist.edits]_cacheVars

(* A caller that was told its project is handed that project's netlist,    *)
(* unless the user changed projects while it, or the request that answered *)
(* it, was under way: the key is read before the netlist is.               *)
RightProject ==
    \A c \in Calls :
        (call[c].at = "returned" /\ ~call[c].mixed /\ call[c].project # NoProject)
            => call[c].netlist.project = call[c].project

=============================================================================
