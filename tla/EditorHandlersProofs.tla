------------------------- MODULE EditorHandlersProofs --------------------------
(***************************************************************************)
(* Proofs about the memoised netlist and the handlers that use it, for any *)
(* projects, pages, components, requests and menu of calls.                *)
(*                                                                         *)
(* A caller is handed a netlist by way of the entry kept or of a request   *)
(* it made or joined, so what a caller may count on must already hold of   *)
(* those.  At most one request under way is of the current generation, and *)
(* then it is the one in the slot (Generations): only that one is joined   *)
(* and only that one is kept.  It began after the last invalidation, so    *)
(* its netlist has seen every edit an invalidation has followed, and, as   *)
(* no request of its generation came before it, every edit the kept entry  *)
(* has seen (NewEnough).                                                   *)
(*                                                                         *)
(* Whatever the handlers do, to the memoised netlist every step of theirs  *)
(* is one of its own operations or nothing (HandlersUseTheCache), so what  *)
(* is proved of it alone holds of them.                                    *)
(*                                                                         *)
(* Of the handlers themselves the invariant says, of each alone, where it  *)
(* can be (Route), which page it leaves behind (ComesBack) and what it has *)
(* counted (Visit).  A step is judged by what it does to the handler that  *)
(* takes it; to the others it does nothing, or they know that the page has *)
(* changed under them (Others).  To that, the metadata adds what a handler *)
(* between its read and its write still holds (Fresh).                     *)
(*                                                                         *)
(* The board's invariant says what each stage has made of the request: of  *)
(* a primitive, of the pours and of the rules.  What it counts on are the  *)
(* converters of the parameters: a number or nothing comes out, or what    *)
(* they have not looked into (Normalized).  Of a rebuild it counts, pour   *)
(* by pour, the copper and the calls that failed (Tally).                  *)
(*                                                                         *)
(* The connectivity search is a recursive function; that it exists and how *)
(* far it reaches is by induction on a set of numbers (EveryNumber), one   *)
(* hop more of the search being one step more of a path (HopReaches,       *)
(* WithinOneMore).                                                         *)
(***************************************************************************)
EXTENDS EditorHandlers, SequenceTheorems, FiniteSetTheorems, WellFoundedInduction, TLAPS


Live(f) == fetch[f].live
Current(f) == Live(f) /\ fetch[f].generation = generation
Computed(f) == Live(f) /\ fetch[f].netlist # None

Generations ==
  /\ \A f \in Fetches : Live(f) => fetch[f].generation <= generation
  /\ inflight # None => /\ inflight.generation <= generation
                        /\ Live(inflight.fetch)
                        /\ fetch[inflight.fetch].generation = inflight.generation
  /\ \A f \in Fetches : Current(f) =>
       /\ inflight # None
       /\ inflight.fetch = f
       /\ inflight.generation = generation

Edits ==
  /\ \A p \in Projects : settled[p] <= edits[p]
  /\ \A f \in Fetches : Computed(f) =>
       fetch[f].netlist.edits <= edits[fetch[f].netlist.project]
  /\ cache # None => cache.netlist.edits <= edits[cache.netlist.project]

NewEnough ==
  /\ \A f \in Fetches : (Current(f) /\ Computed(f)) =>
       fetch[f].netlist.edits >= settled[fetch[f].netlist.project]
  /\ cache # None => cache.netlist.edits >= settled[cache.netlist.project]
  /\ \A f \in Fetches :
       (Current(f) /\ Computed(f) /\ cache # None
          /\ fetch[f].netlist.project = cache.netlist.project)
         => fetch[f].netlist.edits >= cache.netlist.edits

CountedOn ==
  \A c \in Calls :
    /\ call[c].at \in {"asking", "waiting"} =>
         \A p \in Projects : call[c].since[p] <= edits[p]
    /\ (call[c].at = "asking" /\ ~call[c].refresh) =>
         \A p \in Projects : call[c].since[p] <= settled[p]
    /\ call[c].at = "waiting" =>
         /\ call[c].on \in Fetches
         /\ Live(call[c].on)
         /\ Computed(call[c].on) =>
              fetch[call[c].on].netlist.edits
                >= call[c].since[fetch[call[c].on].netlist.project]
    /\ call[c].at = "returned" => call[c].netlist \in Netlists

ProjectsKnown ==
  /\ \A f \in Fetches : (Live(f) /\ ~fetch[f].mixed) =>
       /\ fetch[f].project \in {project, NoProject}
       /\ Computed(f) => fetch[f].netlist.project = project
  /\ (cache # None /\ ~cache.mixed /\ cache.project # NoProject) =>
       cache.netlist.project = cache.project
  /\ \A c \in Calls : (call[c].at = "waiting" /\ ~call[c].mixed) =>
       /\ ~fetch[call[c].on].mixed
       /\ call[c].project \in {project, NoProject}

CacheInv ==
  /\ CacheTypeOK
  /\ Generations
  /\ Edits
  /\ NewEnough
  /\ CountedOn
  /\ ProjectsKnown
  /\ NeverStale
  /\ RightProject

-----------------------------------------------------------------------------
LEMMA CacheInitInv == CacheInit => CacheInv
<1> SUFFICES ASSUME CacheInit PROVE CacheInv
  OBVIOUS
<1>1. CacheTypeOK
  BY DEF CacheInit, CacheTypeOK, FetchStates, CallStates, IdleFetch, IdleCall
<1>2. Generations /\ Edits /\ NewEnough /\ CountedOn /\ ProjectsKnown
  BY DEF CacheInit, Generations, Edits, NewEnough, CountedOn, ProjectsKnown,
         Live, Current, Computed, IdleFetch, IdleCall
<1>3. NeverStale /\ RightProject
  BY DEF CacheInit, NeverStale, RightProject, IdleCall
<1>4. QED
  BY <1>1, <1>2, <1>3 DEF CacheInv

-----------------------------------------------------------------------------
(* Types of what the actions assign to a call and a request.               *)

LEMMA MixedTyped ==
  /\ \A k \in CallStates, m \in BOOLEAN : [k EXCEPT !.mixed = m] \in CallStates
  /\ \A k \in FetchStates, m \in BOOLEAN : [k EXCEPT !.mixed = m] \in FetchStates
  /\ \A k \in FetchStates, n \in Netlists : [k EXCEPT !.netlist = n] \in FetchStates
BY DEF CallStates, FetchStates

LEMMA NothingTyped ==
  /\ IdleFetch \in FetchStates
  /\ IdleCall \in CallStates
BY DEF IdleFetch, FetchStates, IdleCall, CallStates

-----------------------------------------------------------------------------
(* One lemma for each action, one step for each part it can disturb.       *)

LEMMA AskStep ==
  ASSUME CacheInv, NEW c \in Calls, NEW refresh \in BOOLEAN,
         fetchParsedNetlist(c, refresh), OnlyCall
  PROVE  CacheInv'
<1> USE DEF CacheInv, OnlyCall, fetchParsedNetlist, IdleCall, Live, Current, Computed
<1>1. CacheTypeOK'
  <2>1. call'[c] \in CallStates
    BY DEF CacheTypeOK, CallStates
  <2>2. QED
    BY <2>1 DEF CacheTypeOK
<1>2. (Generations /\ Edits /\ NewEnough)'
  BY DEF Generations, Edits, NewEnough
<1>3. CountedOn'
  BY DEF CacheTypeOK, CallStates, CountedOn, Edits
<1>4. ProjectsKnown'
  BY DEF CacheTypeOK, CallStates, FetchStates, ProjectsKnown
<1>5. (NeverStale /\ RightProject)'
  BY DEF CacheTypeOK, CallStates, NeverStale, RightProject
<1>6. QED
  BY <1>1, <1>2, <1>3, <1>4, <1>5

LEMMA ServeStep ==
  ASSUME CacheInv, NEW c \in Calls, NEW p \in {project, NoProject},
         call[c].at = "asking", ServeFromCache(c, p)
  PROVE  CacheInv'
<1> DEFINE m == call[c].mixed \/ cache.mixed
<1> USE DEF CacheInv, Cached, Live, Current, Computed
<1>1. /\ call' = [call EXCEPT ![c] = [call[c] EXCEPT !.at = "returned", !.project = p,
                                       !.netlist = cache.netlist, !.mixed = m]]
      /\ cache # None /\ cache.project = p
      /\ ~call[c].refresh
      /\ UNCHANGED <<project, edits, cache, generation, inflight, fetch, settled>>
  BY DEF ServeFromCache, CacheTypeOK
<1>2. m \in BOOLEAN /\ (~m => ~cache.mixed)
  OBVIOUS
<1> HIDE DEF m
<1>3. call[c] \in CallStates /\ cache \in CacheEntries
  BY <1>1 DEF CacheTypeOK
<1>4. call'[c] = [call[c] EXCEPT !.at = "returned", !.project = p,
                                 !.netlist = cache.netlist, !.mixed = m]
  BY <1>1 DEF CacheTypeOK
<1>5. \A d \in Calls \ {c} : call'[d] = call[d]
  BY <1>1 DEF CacheTypeOK
<1>6. call'[c] \in CallStates
  <2>1. cache.netlist \in Netlists /\ p \in Projects \cup {NoProject}
    BY <1>3 DEF CacheTypeOK, CacheEntries
  <2>2. QED
    BY <1>2, <1>3, <1>4, <2>1 DEF CallStates
<1>7. CacheTypeOK'
  BY <1>1, <1>6 DEF CacheTypeOK
<1>8. (Generations /\ Edits /\ NewEnough)'
  BY <1>1 DEF Generations, Edits, NewEnough
<1>9. CountedOn'
  BY <1>1, <1>3, <1>4, <1>5 DEF CacheEntries, CallStates, CountedOn
<1>10. ProjectsKnown'
  BY <1>1, <1>3, <1>4, <1>5 DEF CallStates, ProjectsKnown
<1>11. NeverStale'
  <2> DEFINE q == cache.netlist.project
  <2>1. q \in Projects /\ cache.netlist.edits \in Nat
    BY <1>3 DEF CacheEntries, Netlists
  <2>2. call[c].since[q] <= settled[q]
    BY <1>1, <2>1 DEF CountedOn
  <2>3. cache.netlist.edits >= settled[q]
    BY <1>1 DEF NewEnough
  <2>4. call[c].since[q] \in Nat /\ settled[q] \in Nat
    BY <1>3, <2>1 DEF CacheTypeOK, CallStates
  <2>5. cache.netlist.edits >= call[c].since[q]
    BY <2>1, <2>2, <2>3, <2>4
  <2>6. QED
    BY <1>3, <1>4, <1>5, <2>5 DEF CallStates, NeverStale
<1>12. RightProject'
  BY <1>1, <1>2, <1>3, <1>4, <1>5 DEF CallStates, RightProject, ProjectsKnown
<1>13. QED
  BY <1>7, <1>8, <1>9, <1>10, <1>11, <1>12

LEMMA JoinStep ==
  ASSUME CacheInv, NEW c \in Calls, NEW p \in {project, NoProject},
         call[c].at = "asking", JoinInflight(c, p)
  PROVE  CacheInv'
<1> DEFINE g == inflight.fetch
           m == call[c].mixed \/ fetch[g].mixed
<1> USE DEF CacheInv, Live, Current, Computed
<1>1. /\ call' = [call EXCEPT ![c] = [call[c] EXCEPT !.at = "waiting", !.project = p,
                                       !.on = g, !.mixed = m]]
      /\ inflight # None /\ inflight.generation = generation
      /\ ~call[c].refresh
      /\ UNCHANGED <<project, edits, cache, generation, inflight, fetch, settled>>
  BY DEF JoinInflight, Joinable, CacheTypeOK
<1>2. m \in BOOLEAN /\ (~m => ~fetch[g].mixed)
  OBVIOUS
<1> HIDE DEF m
<1>3. call[c] \in CallStates /\ g \in Fetches /\ fetch[g] \in FetchStates
  BY <1>1 DEF CacheTypeOK
<1>4. call'[c] = [call[c] EXCEPT !.at = "waiting", !.project = p, !.on = g, !.mixed = m]
  BY <1>1 DEF CacheTypeOK
<1>5. \A d \in Calls \ {c} : call'[d] = call[d]
  BY <1>1 DEF CacheTypeOK
<1>6. call'[c] \in CallStates
  <2>1. p \in Projects \cup {NoProject}
    BY DEF CacheTypeOK
  <2>2. QED
    BY <1>2, <1>3, <1>4, <2>1 DEF CallStates
<1>7. CacheTypeOK'
  BY <1>1, <1>6 DEF CacheTypeOK
<1>8. (Generations /\ Edits /\ NewEnough)'
  BY <1>1 DEF Generations, Edits, NewEnough
<1>9. Current(g)
  BY <1>1 DEF Generations
<1>10. ASSUME Computed(g)
       PROVE  fetch[g].netlist.edits >= call[c].since[fetch[g].netlist.project]
  BY <1>1, <1>3, <1>9, <1>10
     DEF CacheTypeOK, CallStates, FetchStates, Netlists, NewEnough, CountedOn
<1>11. CountedOn'
  BY <1>1, <1>3, <1>4, <1>5, <1>9, <1>10 DEF CallStates, CountedOn
<1>12. ProjectsKnown'
  BY <1>1, <1>2, <1>3, <1>4, <1>5 DEF CallStates, ProjectsKnown
<1>13. (NeverStale /\ RightProject)'
  BY <1>1, <1>3, <1>4, <1>5 DEF CallStates, NeverStale, RightProject
<1>14. QED
  BY <1>7, <1>8, <1>11, <1>12, <1>13

LEMMA StartStep ==
  ASSUME CacheInv, NEW c \in Calls, NEW p \in {project, NoProject},
         call[c].at = "asking", StartFetch(c, p)
  PROVE  CacheInv'
<1> USE DEF CacheInv, Live, Current, Computed
<1>1. PICK g \in Fetches :
        /\ ~fetch[g].live
        /\ fetch' = [fetch EXCEPT ![g] = [IdleFetch EXCEPT !.live = TRUE, !.project = p,
                                                           !.generation = generation']]
        /\ inflight' = [fetch |-> g, generation |-> generation']
        /\ call' = [call EXCEPT ![c] = [call[c] EXCEPT !.at = "waiting", !.project = p,
                                                       !.on = g]]
  BY DEF StartFetch, CacheTypeOK
<1>2. /\ generation' \in Nat /\ generation' >= generation
      /\ generation' > generation \/ ~Joinable
      /\ UNCHANGED <<project, edits, cache, settled>>
  BY DEF StartFetch, FetchGeneration, CacheTypeOK
<1>3. /\ call[c] \in CallStates
      /\ p \in Projects \cup {NoProject}
  BY DEF CacheTypeOK
<1>4. call'[c] = [call[c] EXCEPT !.at = "waiting", !.project = p, !.on = g]
  BY <1>1 DEF CacheTypeOK
<1> DEFINE k == call'[c]
<1>40. /\ k.at = "waiting" /\ k.refresh = call[c].refresh /\ k.project = p /\ k.on = g
       /\ k.since = call[c].since /\ k.mixed = call[c].mixed
  BY <1>3, <1>4 DEF CallStates
<1>5. \A d \in Calls \ {c} : call'[d] = call[d]
  BY <1>1 DEF CacheTypeOK
<1>6. fetch'[g] = [live |-> TRUE, project |-> p, generation |-> generation',
                   netlist |-> None, mixed |-> FALSE]
  BY <1>1 DEF CacheTypeOK, IdleFetch
<1>7. \A f \in Fetches \ {g} : fetch'[f] = fetch[f]
  BY <1>1 DEF CacheTypeOK
<1>8. \A f \in Fetches \ {g} : ~(Live(f) /\ fetch[f].generation = generation')
  <2> SUFFICES ASSUME NEW f \in Fetches, Live(f), fetch[f].generation = generation'
               PROVE  FALSE
    OBVIOUS
  <2>1. generation' = generation
    BY <1>2 DEF Generations, CacheTypeOK
  <2>2. Joinable
    BY <2>1 DEF Generations, Joinable
  <2>3. QED
    BY <1>2, <2>1, <2>2 DEF CacheTypeOK
<1>9. CacheTypeOK'
  <2>1. fetch'[g] \in FetchStates
    BY <1>2, <1>3, <1>6 DEF FetchStates
  <2>2. call'[c] \in CallStates
    BY <1>3, <1>4 DEF CallStates
  <2>3. inflight' \in [fetch: Fetches, generation: Nat]
    BY <1>1, <1>2
  <2>4. QED
    BY <1>1, <1>2, <2>1, <2>2, <2>3 DEF CacheTypeOK
<1>10. inflight' # None
  BY <1>1, <1>2, CacheAssumption
<1>11. Generations'
  <2>1. \A f \in Fetches : Live(f)' => fetch'[f].generation <= generation'
    BY <1>2, <1>6, <1>7 DEF Generations, CacheTypeOK, FetchStates
  <2>2. QED
    BY <1>1, <1>2, <1>6, <1>7, <1>8, <1>10, <2>1 DEF Generations
<1>12. Edits'
  BY <1>2, <1>6, <1>7 DEF Edits
<1>13. NewEnough'
  BY <1>2, <1>6, <1>7, <1>8 DEF NewEnough
<1>14. CountedOn'
  BY <1>2, <1>40, <1>5, <1>6, <1>7 DEF CountedOn
<1>15. ProjectsKnown'
  BY <1>2, <1>40, <1>5, <1>6, <1>7 DEF ProjectsKnown, CountedOn
<1>16. (NeverStale /\ RightProject)'
  BY <1>40, <1>5 DEF NeverStale, RightProject
<1>17. QED
  BY <1>9, <1>11, <1>12, <1>13, <1>14, <1>15, <1>16

LEMMA RawStep ==
  ASSUME CacheInv, NEW g \in Fetches, fetchRawNetlist(g)
  PROVE  CacheInv'
<1> DEFINE n == [project |-> project, edits |-> edits[project]]
<1> USE DEF CacheInv, Live, Current, Computed
<1>1. /\ fetch[g].live
      /\ fetch' = [fetch EXCEPT ![g] = [fetch[g] EXCEPT !.netlist = n]]
      /\ UNCHANGED <<project, edits, cache, generation, inflight, call, settled>>
  BY DEF fetchRawNetlist, CacheTypeOK
<1>2. fetch[g] \in FetchStates /\ n \in Netlists
  BY DEF CacheTypeOK, Netlists
<1>3. fetch'[g] = [fetch[g] EXCEPT !.netlist = n]
  BY <1>1 DEF CacheTypeOK
<1>4. /\ fetch'[g].live /\ fetch'[g].project = fetch[g].project
      /\ fetch'[g].generation = fetch[g].generation
      /\ fetch'[g].netlist = n /\ fetch'[g].mixed = fetch[g].mixed
  BY <1>1, <1>2, <1>3 DEF FetchStates
<1>5. \A f \in Fetches \ {g} : fetch'[f] = fetch[f]
  BY <1>1 DEF CacheTypeOK
<1>6. CacheTypeOK'
  <2>1. fetch'[g] \in FetchStates
    BY <1>2, <1>3, MixedTyped
  <2>2. QED
    BY <1>1, <2>1 DEF CacheTypeOK
<1>7. Generations'
  BY <1>1, <1>4, <1>5 DEF Generations, CacheTypeOK
<1>8. n.project = project /\ n.edits = edits[project] /\ n.edits \in Nat
  BY <1>2 DEF Netlists
<1> HIDE DEF n
<1>9. Edits'
  BY <1>1, <1>4, <1>5, <1>8 DEF Edits
<1>10. NewEnough'
  <2>1. n.edits >= settled[n.project]
    BY <1>8 DEF Edits, CacheTypeOK
  <2>2. (cache # None /\ n.project = cache.netlist.project) => n.edits >= cache.netlist.edits
    BY <1>8 DEF Edits, CacheTypeOK, CacheEntries, Netlists
  <2>3. QED
    BY <1>1, <1>4, <1>5, <2>1, <2>2 DEF NewEnough
<1>11. CountedOn'
  <2>1. ASSUME NEW c \in Calls, call[c].at = "waiting"
        PROVE  n.edits >= call[c].since[n.project]
    <3>1. call[c].since[project] \in Nat /\ call[c].since[project] <= edits[project]
      BY <2>1 DEF CountedOn, CacheTypeOK, CallStates
    <3>2. QED
      BY <1>8, <3>1
  <2>2. QED
    BY <1>1, <1>4, <1>5, <2>1 DEF CountedOn
<1>12. ProjectsKnown'
  BY <1>1, <1>4, <1>5, <1>8 DEF ProjectsKnown, CountedOn
<1>13. (NeverStale /\ RightProject)'
  BY <1>1 DEF NeverStale, RightProject
<1>14. QED
  BY <1>6, <1>7, <1>9, <1>10, <1>11, <1>12, <1>13

-----------------------------------------------------------------------------
(* A request that ends, well or not, leaves the slot to the current one,   *)
(* and its callers with its outcome.                                       *)

LEMMA SlotAfter ==
  ASSUME CacheInv, NEW g \in Fetches, Live(g), ClearInflight(g),
         fetch' = [fetch EXCEPT ![g] = IdleFetch], generation' = generation
  PROVE  /\ Generations'
         /\ ~Live(g)'
         /\ \A f \in Fetches \ {g} : fetch'[f] = fetch[f]
         /\ fetch' \in [Fetches -> FetchStates]
         /\ inflight' \in [fetch: Fetches, generation: Nat] \cup {None}
<1> USE DEF CacheInv, Live, Current
<1>1. fetch'[g] = IdleFetch /\ ~fetch'[g].live
  BY DEF CacheTypeOK, IdleFetch
<1>2. \A f \in Fetches \ {g} : fetch'[f] = fetch[f]
  BY DEF CacheTypeOK
<1>3. fetch' \in [Fetches -> FetchStates]
  BY NothingTyped DEF CacheTypeOK
<1>4. inflight' \in [fetch: Fetches, generation: Nat] \cup {None}
  BY DEF CacheTypeOK, ClearInflight
<1>5. \A f \in Fetches : Live(f)' => fetch'[f].generation <= generation'
  BY <1>1, <1>2 DEF Generations
<1>6. inflight' # None =>
        /\ inflight'.generation <= generation'
        /\ Live(inflight.fetch)' /\ inflight' = inflight
        /\ fetch'[inflight'.fetch].generation = inflight'.generation
  BY <1>1, <1>2 DEF Generations, ClearInflight, CacheTypeOK
<1>7. \A f \in Fetches : Current(f)' =>
        /\ inflight' # None /\ inflight'.fetch = f /\ inflight'.generation = generation'
  <2> SUFFICES ASSUME NEW f \in Fetches, Current(f)'
               PROVE  inflight' # None /\ inflight'.fetch = f
                        /\ inflight'.generation = generation'
    OBVIOUS
  <2>1. f # g /\ Current(f)
    BY <1>1, <1>2
  <2>2. inflight # None /\ inflight.fetch = f /\ inflight.generation = generation
    BY <2>1 DEF Generations
  <2>3. fetch[g].generation # generation
    BY <2>1, <2>2 DEF Generations
  <2>4. QED
    BY <2>2, <2>3 DEF ClearInflight
<1>8. QED
  BY <1>1, <1>2, <1>3, <1>4, <1>5, <1>6, <1>7 DEF Generations

LEMMA CallsAfter ==
  ASSUME CacheInv, NEW g \in Fetches, NEW outcome \in {"returned", "failed"},
         NEW n \in Netlists \cup {None},
         call' = [c \in Calls |->
                    IF call[c].at = "waiting" /\ call[c].on = g
                    THEN [call[c] EXCEPT !.at = outcome, !.netlist = n]
                    ELSE call[c]]
  PROVE  /\ call' \in [Calls -> CallStates]
         /\ \A c \in Calls :
              IF call[c].at = "waiting" /\ call[c].on = g
              THEN /\ call'[c].at = outcome
                   /\ call'[c].netlist = n
                   /\ call'[c].project = call[c].project
                   /\ call'[c].since = call[c].since
                   /\ call'[c].mixed = call[c].mixed
              ELSE call'[c] = call[c]
<1>1. \A c \in Calls : call[c] \in CallStates
  BY DEF CacheInv, CacheTypeOK
<1>2. ASSUME NEW c \in Calls
      PROVE  call'[c] \in CallStates /\
              IF call[c].at = "waiting" /\ call[c].on = g
              THEN /\ call'[c].at = outcome
                   /\ call'[c].netlist = n
                   /\ call'[c].project = call[c].project
                   /\ call'[c].since = call[c].since
                   /\ call'[c].mixed = call[c].mixed
              ELSE call'[c] = call[c]
  <2>1. CASE call[c].at = "waiting" /\ call[c].on = g
    <3>1. call'[c] = [call[c] EXCEPT !.at = outcome, !.netlist = n]
      BY <2>1
    <3>2. QED
      BY <1>1, <2>1, <3>1 DEF CallStates
  <2>2. CASE ~(call[c].at = "waiting" /\ call[c].on = g)
    BY <1>1, <2>2
  <2>3. QED
    BY <2>1, <2>2
<1>3. QED
  BY <1>2

LEMMA LandStep ==
  ASSUME CacheInv, NEW g \in Fetches, FetchLands(g)
  PROVE  CacheInv'
<1> DEFINE n == fetch[g].netlist
<1> USE DEF Live, Current, Computed
<1>1. /\ Live(g) /\ n # None /\ n \in Netlists
      /\ fetch' = [fetch EXCEPT ![g] = IdleFetch]
      /\ UNCHANGED <<project, edits, generation, settled>>
  BY DEF FetchLands, Settle, CacheInv, CacheTypeOK, FetchStates
<1>2. /\ Generations' /\ ~Live(g)'
      /\ \A f \in Fetches \ {g} : fetch'[f] = fetch[f]
      /\ fetch' \in [Fetches -> FetchStates]
      /\ inflight' \in [fetch: Fetches, generation: Nat] \cup {None}
  BY <1>1, SlotAfter DEF FetchLands
<1>3. /\ call' \in [Calls -> CallStates]
      /\ \A c \in Calls :
           IF call[c].at = "waiting" /\ call[c].on = g
           THEN /\ call'[c].at = "returned"
                /\ call'[c].netlist = n
                /\ call'[c].project = call[c].project
                /\ call'[c].since = call[c].since
                /\ call'[c].mixed = call[c].mixed
           ELSE call'[c] = call[c]
  <2>1. call' = [c \in Calls |->
                    IF call[c].at = "waiting" /\ call[c].on = g
                    THEN [call[c] EXCEPT !.at = "returned", !.netlist = n]
                    ELSE call[c]]
    BY DEF FetchLands, Settle
  <2>2. n \in Netlists \cup {None}
    BY <1>1
  <2> HIDE DEF n
  <2>3. QED
    BY <2>1, <2>2, CallsAfter
<1>4. \/ /\ Current(g)
         /\ cache' = [project |-> fetch[g].project, netlist |-> n,
                      fresh |-> TRUE, mixed |-> fetch[g].mixed]
      \/ cache' = cache
  BY <1>1 DEF FetchLands, Keep
<1>5. CacheTypeOK'
  <2>1. cache' \in CacheEntries \cup {None}
    <3>1. cache \in CacheEntries \cup {None} /\ fetch[g] \in FetchStates
      BY DEF CacheInv, CacheTypeOK
    <3>2. fetch[g].project \in Projects \cup {NoProject} /\ fetch[g].mixed \in BOOLEAN
      BY <3>1 DEF FetchStates
    <3> DEFINE q == fetch[g].project
               m == fetch[g].mixed
    <3>3. [project |-> q, netlist |-> n, fresh |-> TRUE, mixed |-> m] \in CacheEntries
      <4> HIDE DEF q, m, n
      <4>1. QED
        BY <1>1, <3>2 DEF CacheEntries, q, m
    <3>4. QED
      BY <1>4, <3>1, <3>3
  <2>2. QED
    BY <1>1, <1>2, <1>3, <2>1 DEF CacheInv, CacheTypeOK
<1>6. Edits'
  BY <1>1, <1>2, <1>4 DEF CacheInv, Edits
<1>7. NewEnough'
  <2>1. Current(g) => \A f \in Fetches : ~Current(f)'
    BY <1>1, <1>2 DEF CacheInv, Generations
  <2>2. QED
    BY <1>1, <1>2, <1>4, <2>1 DEF CacheInv, NewEnough
<1>8. CountedOn'
  <2> SUFFICES ASSUME NEW c \in Calls PROVE CountedOn!(c)'
    BY DEF CountedOn
  <2>1. CASE call[c].at = "waiting" /\ call[c].on = g
    BY <1>1, <1>3, <2>1 DEF CacheInv, CountedOn
  <2>2. CASE ~(call[c].at = "waiting" /\ call[c].on = g)
    BY <1>1, <1>2, <1>3, <2>2 DEF CacheInv, CountedOn
  <2>3. QED
    BY <2>1, <2>2
<1>9. ProjectsKnown'
  BY <1>1, <1>2, <1>3, <1>4 DEF CacheInv, ProjectsKnown, CountedOn
<1>10. NeverStale'
  BY <1>1, <1>3 DEF CacheInv, NeverStale, CountedOn
<1>11. RightProject'
  BY <1>1, <1>3 DEF CacheInv, RightProject, ProjectsKnown
<1>12. QED
  BY <1>2, <1>5, <1>6, <1>7, <1>8, <1>9, <1>10, <1>11 DEF CacheInv

LEMMA FailStep ==
  ASSUME CacheInv, NEW g \in Fetches, FetchFails(g)
  PROVE  CacheInv'
<1> USE DEF Live, Current, Computed
<1>1. /\ Live(g)
      /\ fetch' = [fetch EXCEPT ![g] = IdleFetch]
      /\ UNCHANGED <<project, edits, cache, generation, settled>>
  BY DEF FetchFails, Settle
<1>2. /\ Generations' /\ ~Live(g)'
      /\ \A f \in Fetches \ {g} : fetch'[f] = fetch[f]
      /\ fetch' \in [Fetches -> FetchStates]
      /\ inflight' \in [fetch: Fetches, generation: Nat] \cup {None}
  BY <1>1, SlotAfter DEF FetchFails
<1>3. /\ call' \in [Calls -> CallStates]
      /\ \A c \in Calls :
           IF call[c].at = "waiting" /\ call[c].on = g
           THEN /\ call'[c].at = "failed"
                /\ call'[c].netlist = None
                /\ call'[c].project = call[c].project
                /\ call'[c].since = call[c].since
                /\ call'[c].mixed = call[c].mixed
           ELSE call'[c] = call[c]
  <2>1. call' = [c \in Calls |->
                    IF call[c].at = "waiting" /\ call[c].on = g
                    THEN [call[c] EXCEPT !.at = "failed", !.netlist = None]
                    ELSE call[c]]
    BY DEF FetchFails, Settle
  <2>2. QED
    BY <2>1, CallsAfter
<1>4. CacheTypeOK'
  BY <1>1, <1>2, <1>3 DEF CacheInv, CacheTypeOK
<1>5. Edits' /\ NewEnough'
  BY <1>1, <1>2 DEF CacheInv, Edits, NewEnough
<1>6. CountedOn'
  BY <1>1, <1>2, <1>3 DEF CacheInv, CountedOn
<1>7. ProjectsKnown'
  BY <1>1, <1>2, <1>3 DEF CacheInv, ProjectsKnown, CountedOn
<1>8. NeverStale' /\ RightProject'
  BY <1>1, <1>3 DEF CacheInv, NeverStale, RightProject
<1>9. QED
  BY <1>2, <1>4, <1>5, <1>6, <1>7, <1>8 DEF CacheInv

-----------------------------------------------------------------------------
(* What the rest of the extension and the user do to it.                   *)

LEMMA ExpiryStep ==
  ASSUME CacheInv, EntryExpires
  PROVE  CacheInv'
<1>1. /\ cache # None /\ cache \in CacheEntries
      /\ cache' = [cache EXCEPT !.fresh = FALSE]
      /\ UNCHANGED <<project, edits, generation, inflight, fetch, call, settled>>
  BY DEF EntryExpires, CacheInv, CacheTypeOK
<1>2. /\ cache' \in CacheEntries /\ cache'.project = cache.project
      /\ cache'.netlist = cache.netlist /\ cache'.mixed = cache.mixed
  BY <1>1 DEF CacheEntries
<1>3. CacheTypeOK'
  BY <1>1, <1>2 DEF CacheInv, CacheTypeOK
<1>4. (Generations /\ Edits /\ NewEnough /\ CountedOn /\ ProjectsKnown)'
  BY <1>1, <1>2 DEF CacheInv, Generations, Edits, NewEnough, CountedOn, ProjectsKnown,
                    Live, Current, Computed
<1>5. (NeverStale /\ RightProject)'
  BY <1>1 DEF CacheInv, NeverStale, RightProject
<1>6. QED
  BY <1>3, <1>4, <1>5 DEF CacheInv

LEMMA SwitchStep ==
  ASSUME CacheInv, NEW p \in Projects, SwitchProject(p)
  PROVE  CacheInv'
<1>1. UNCHANGED <<edits, cache, generation, inflight, settled>> /\ project' = p
  BY DEF SwitchProject
<1>2. ASSUME NEW f \in Fetches
      PROVE  /\ fetch'[f] \in FetchStates
             /\ fetch'[f].live = fetch[f].live
             /\ fetch'[f].project = fetch[f].project
             /\ fetch'[f].generation = fetch[f].generation
             /\ fetch'[f].netlist = fetch[f].netlist
             /\ fetch[f].live => fetch'[f].mixed
  <2> DEFINE m == fetch[f].live
  <2>1. fetch[f] \in FetchStates /\ m \in BOOLEAN
    BY DEF CacheInv, CacheTypeOK, FetchStates
  <2>2. fetch'[f] = [fetch[f] EXCEPT !.mixed = m]
    BY DEF SwitchProject
  <2> HIDE DEF m
  <2>3. /\ fetch'[f] \in FetchStates
        /\ fetch'[f].live = fetch[f].live
        /\ fetch'[f].project = fetch[f].project
        /\ fetch'[f].generation = fetch[f].generation
        /\ fetch'[f].netlist = fetch[f].netlist
        /\ fetch'[f].mixed = m
    BY <2>1, <2>2 DEF FetchStates
  <2>4. fetch[f].live => m
    BY DEF m
  <2>5. QED
    BY <2>3, <2>4
<1>3. ASSUME NEW c \in Calls
      PROVE  /\ call'[c] \in CallStates
             /\ call'[c].at = call[c].at /\ call'[c].refresh = call[c].refresh
             /\ call'[c].project = call[c].project /\ call'[c].on = call[c].on
             /\ call'[c].netlist = call[c].netlist /\ call'[c].since = call[c].since
             /\ ~call'[c].mixed => ~call[c].mixed /\ call[c].at # "waiting"
  <2> DEFINE m == call[c].mixed \/ call[c].at \in {"asking", "waiting"}
  <2>1. call[c] \in CallStates /\ m \in BOOLEAN
    BY DEF CacheInv, CacheTypeOK
  <2>2. call'[c] = [call[c] EXCEPT !.mixed = m]
    BY DEF SwitchProject
  <2>3. ~m => ~call[c].mixed /\ call[c].at # "waiting"
    OBVIOUS
  <2> HIDE DEF m
  <2>4. /\ call'[c] \in CallStates
        /\ call'[c].at = call[c].at /\ call'[c].refresh = call[c].refresh
        /\ call'[c].project = call[c].project /\ call'[c].on = call[c].on
        /\ call'[c].netlist = call[c].netlist /\ call'[c].since = call[c].since
        /\ call'[c].mixed = m
    BY <2>1, <2>2 DEF CallStates
  <2>5. QED
    BY <2>3, <2>4
<1>4. CacheTypeOK'
  <2>1. fetch' \in [Fetches -> FetchStates]
    BY <1>2 DEF SwitchProject
  <2>2. call' \in [Calls -> CallStates]
    BY <1>3 DEF SwitchProject
  <2>3. QED
    BY <1>1, <2>1, <2>2 DEF CacheInv, CacheTypeOK
<1>5. inflight # None => inflight.fetch \in Fetches
  BY DEF CacheInv, CacheTypeOK
<1>6. (Generations /\ Edits /\ NewEnough)'
  BY <1>1, <1>2, <1>5 DEF CacheInv, Generations, Edits, NewEnough, Live, Current, Computed
<1>7. CountedOn'
  BY <1>1, <1>2, <1>3 DEF CacheInv, CountedOn, Live, Computed
<1>8. ProjectsKnown'
  BY <1>1, <1>2, <1>3 DEF CacheInv, ProjectsKnown, Live, Computed
<1>9. (NeverStale /\ RightProject)'
  BY <1>3 DEF CacheInv, NeverStale, RightProject
<1>10. QED
  BY <1>4, <1>6, <1>7, <1>8, <1>9 DEF CacheInv

LEMMA EditStep ==
  ASSUME CacheInv, Edit,
         UNCHANGED <<project, cache, generation, inflight, fetch, call, settled>>
  PROVE  CacheInv'
<1> USE DEF CacheInv, Edit, Live, Current, Computed
<1>1. /\ edits' \in [Projects -> Nat]
      /\ \A p \in Projects : edits[p] <= edits'[p] /\ edits[p] \in Nat
  BY DEF CacheTypeOK
<1>2. CacheTypeOK'
  BY <1>1 DEF CacheTypeOK
<1>3. Generations' /\ NewEnough' /\ ProjectsKnown' /\ NeverStale' /\ RightProject'
  BY DEF Generations, NewEnough, ProjectsKnown, NeverStale, RightProject
<1>4. Edits'
  BY <1>1 DEF Edits, CacheTypeOK, CacheEntries, FetchStates, Netlists
<1>5. CountedOn'
  <2>1. \A c \in Calls, p \in Projects : call[c].since[p] \in Nat
    BY DEF CacheTypeOK, CallStates
  <2>2. QED
    BY <1>1, <2>1 DEF CountedOn
<1>6. QED
  BY <1>2, <1>3, <1>4, <1>5

LEMMA InvalidateStep ==
  ASSUME CacheInv, invalidateNetlistCache,
         UNCHANGED <<project, edits, inflight, fetch, call>>
  PROVE  CacheInv'
<1> USE DEF CacheInv, invalidateNetlistCache, Live, Current, Computed
<1>1. CacheTypeOK'
  BY DEF CacheTypeOK
<1>2. \A f \in Fetches : ~Current(f)'
  BY DEF Generations, CacheTypeOK, FetchStates
<1>3. Generations'
  BY <1>2 DEF Generations, CacheTypeOK, FetchStates
<1>4. Edits' /\ NewEnough' /\ ProjectsKnown' /\ NeverStale' /\ RightProject'
  BY <1>2 DEF Edits, NewEnough, ProjectsKnown, NeverStale, RightProject, CacheTypeOK
<1>5. CountedOn'
  BY DEF CountedOn
<1>6. QED
  BY <1>1, <1>3, <1>4, <1>5

LEMMA CollectStep ==
  ASSUME CacheInv, NEW c \in Calls, Collect(c), OnlyCall
  PROVE  CacheInv'
<1> USE DEF CacheInv, Collect, OnlyCall, Live, Current, Computed
<1>1. call'[c] = IdleCall /\ \A d \in Calls \ {c} : call'[d] = call[d]
  BY DEF CacheTypeOK
<1>2. CacheTypeOK'
  BY NothingTyped DEF CacheTypeOK
<1>3. (Generations /\ Edits /\ NewEnough)'
  BY DEF Generations, Edits, NewEnough
<1>4. CountedOn' /\ ProjectsKnown' /\ NeverStale' /\ RightProject'
  BY <1>1 DEF CountedOn, ProjectsKnown, NeverStale, RightProject, IdleCall
<1>5. QED
  BY <1>2, <1>3, <1>4

LEMMA IdleStep == CacheInv /\ UNCHANGED cacheVars => CacheInv'
BY DEF CacheInv, cacheVars, CacheTypeOK, Generations, Edits, NewEnough, CountedOn,
       ProjectsKnown, NeverStale, RightProject, Live, Current, Computed

LEMMA CacheStep == CacheInv /\ [CacheNext]_cacheVars => CacheInv'
<1> SUFFICES ASSUME CacheInv, CacheNext PROVE CacheInv'
  BY IdleStep
<1>1. ASSUME NEW c \in Calls, NEW refresh \in BOOLEAN, fetchParsedNetlist(c, refresh), OnlyCall
      PROVE  CacheInv'
  BY <1>1, AskStep
<1>2. ASSUME NEW c \in Calls, NEW p \in Projects \cup {NoProject}, currentProjectUuid(c, p)
      PROVE  CacheInv'
  BY <1>2, ServeStep, JoinStep, StartStep DEF currentProjectUuid
<1>3. ASSUME NEW c \in Calls, Collect(c), OnlyCall
      PROVE  CacheInv'
  BY <1>3, CollectStep
<1>4. ASSUME NEW f \in Fetches, fetchRawNetlist(f) \/ FetchLands(f) \/ FetchFails(f)
      PROVE  CacheInv'
  BY <1>4, RawStep, LandStep, FailStep
<1>5. QED
  BY <1>1, <1>2, <1>3, <1>4, ExpiryStep, SwitchStep, EditStep, InvalidateStep DEF CacheNext

-----------------------------------------------------------------------------
(* A netlist handed to a caller has seen every edit that caller may count  *)
(* on, however its request and the invalidations interleave, for any       *)
(* number of callers, requests and projects.                               *)
THEOREM CallersAreNeverStale == CacheSpec => []NeverStale
<1>1. CacheInv => NeverStale
  BY DEF CacheInv
<1>2. QED
  BY <1>1, CacheInitInv, CacheStep, PTL DEF CacheSpec

(* A caller that was told its project is handed that project's netlist,    *)
(* unless the user changed projects under it or under its request.         *)
THEOREM CallersGetTheirProject == CacheSpec => []RightProject
<1>1. CacheInv => RightProject
  BY DEF CacheInv
<1>2. QED
  BY <1>1, CacheInitInv, CacheStep, PTL DEF CacheSpec

(* The entry kept of a project is never replaced by an older netlist of it *)
THEOREM TheCacheMovesForward == CacheSpec => CacheMovesForward
<1> DEFINE Forward == (cache # None /\ cache' # None
                         /\ cache.netlist.project = cache'.netlist.project)
                      => cache'.netlist.edits >= cache.netlist.edits
<1>1. ASSUME CacheInv, [CacheNext]_cacheVars
      PROVE  [Forward]_cacheVars
  <2>1. cache # None => cache.netlist.edits \in Nat
    BY <1>1 DEF CacheInv, CacheTypeOK, CacheEntries, Netlists
  <2>2. ASSUME NEW g \in Fetches, FetchLands(g)
        PROVE  Forward
    BY <1>1, <2>1, <2>2 DEF FetchLands, Keep, CacheInv, NewEnough, Live, Current, Computed
  <2>3. ASSUME EntryExpires
        PROVE  Forward
    BY <1>1, <2>1, <2>3 DEF EntryExpires, CacheInv, CacheTypeOK, CacheEntries
  <2>4. cache' = cache => Forward
    BY <2>1
  <2>5. cache' = None => Forward
    OBVIOUS
  <2> HIDE DEF Forward
  <2>6. ASSUME NEW c \in Calls, NEW p \in Projects \cup {NoProject}, currentProjectUuid(c, p)
        PROVE  cache' = cache
    BY <2>6 DEF currentProjectUuid, ServeFromCache, JoinInflight, StartFetch
  <2>7. QED
    BY <1>1, <2>2, <2>3, <2>4, <2>5, <2>6
       DEF CacheNext, cacheVars, OnlyCall, fetchRawNetlist, FetchFails, SwitchProject,
           invalidateNetlistCache
<1>2. QED
  BY <1>1, CacheInitInv, CacheStep, PTL DEF CacheSpec, CacheMovesForward, Forward

-----------------------------------------------------------------------------
(* The handlers: to the cache, each step is one of its own or none.        *)


Stays == UNCHANGED cacheVars

LEMMA InitIsCacheInit == EditorInit => CacheInit
BY DEF EditorInit, Init, NoSchematic

LEMMA BeginsFetch ==
  ASSUME NEW r \in Requests, NEW q \in Menu, Begin(r, q)
  PROVE  CacheNext \/ Stays
<1>1. CASE FetchesFirst(q)
  <2>1. (q.refresh = TRUE) \in BOOLEAN
    OBVIOUS
  <2>2. fetchParsedNetlist(r, q.refresh = TRUE) /\ OnlyCall
    BY <1>1 DEF Begin
  <2>3. QED
    BY <2>1, <2>2 DEF CacheNext, Requests
<1>2. CASE ~FetchesFirst(q)
  BY <1>2 DEF Begin, OnlyCall, Stays, cacheVars
<1>3. QED
  BY <1>1, <1>2

LEMMA ReadsFetch ==
  ASSUME NEW r \in Requests, ReadComponent(r)
  PROVE  CacheNext
<1> DEFINE refresh == (handler[r].req.refresh = TRUE)
<1>1. fetchParsedNetlist(r, refresh) /\ OnlyCall
  BY DEF ReadComponent
<1>2. refresh \in BOOLEAN
  OBVIOUS
<1> HIDE DEF refresh
<1>3. QED
  BY <1>1, <1>2 DEF CacheNext, Requests

LEMMA CollectsCall ==
  ASSUME NEW r \in Requests, Collected(r)
  PROVE  CacheNext \/ Stays
<1>1. CASE call[r].at = "idle"
  BY <1>1 DEF Collected, OnlyCall, Stays, cacheVars
<1>2. CASE call[r].at # "idle"
  BY <1>2 DEF Collected, CacheNext, Requests
<1>3. QED
  BY <1>1, <1>2

LEMMA SwapsInvalidate ==
  ASSUME NEW h, SwapDone(h), UNCHANGED <<project, edits, inflight, fetch, call>>
  PROVE  CacheNext \/ Stays
BY DEF SwapDone, CacheNext, Stays, cacheVars

LEMMA EndsInvalidate ==
  ASSUME NEW r \in Requests,
         RestorePage(r) \/ RestoreFails(r) \/ ModifyResolves(r) \/ WriteResolves(r)
  PROVE  CacheNext \/ Stays
<1>1. CASE RestorePage(r)
  BY <1>1, SwapsInvalidate DEF RestorePage
<1>2. CASE RestoreFails(r)
  BY <1>2, SwapsInvalidate DEF RestoreFails
<1>3. CASE ModifyResolves(r)
  <2>1. CASE Kind(r) = "swap"
    BY <1>3, <2>1, SwapsInvalidate DEF ModifyResolves
  <2>2. CASE Kind(r) # "swap"
    BY <1>3, <2>2 DEF ModifyResolves, CacheNext
  <2>3. QED
    BY <2>1, <2>2
<1>4. CASE WriteResolves(r)
  BY <1>4 DEF WriteResolves, CacheNext, Stays, cacheVars
<1>5. QED
  BY <1>1, <1>2, <1>3, <1>4

LEMMA WritesEdit ==
  ASSUME NEW r \in Requests, ModifyLands(r) \/ WriteLands(r)
  PROVE  CacheNext
BY DEF ModifyLands, WriteLands, CacheNext

LEMMA OthersStay ==
  ASSUME NEW r \in Requests,
         \/ WalkStarts(r) \/ OpenPage(r) \/ VerifyPage(r) \/ ListPage(r)
         \/ fetchPinNames(r) \/ TakeSnapshot(r) \/ NetlistArrives(r)
         \/ NoPageList(r) \/ PageStaysShut(r) \/ CallRejects(r)
  PROVE  Stays
BY DEF WalkStarts, OpenPage, VerifyPage, ListPage, fetchPinNames, TakeSnapshot,
       NetlistArrives, NoPageList, PageStaysShut, CallRejects, Stays

LEMMA StepIsCacheStep ==
  ASSUME project \in Projects, [EditorNext]_editorVars
  PROVE  [CacheNext]_cacheVars
<1>1. ASSUME AsItShould PROVE CacheNext \/ Stays
  <2>1. ASSUME NEW r \in Requests, HandlerStep(r) PROVE CacheNext \/ Stays
    BY <2>1, ReadsFetch, CollectsCall, EndsInvalidate, WritesEdit, OthersStay DEF HandlerStep
  <2>2. ASSUME NetlistStep PROVE CacheNext
    BY <2>2 DEF NetlistStep, CacheNext, Requests
  <2>3. QED
    BY <1>1, <2>1, <2>2 DEF AsItShould
<1>2. ASSUME NewRequest PROVE CacheNext \/ Stays
  BY <1>2, BeginsFetch DEF NewRequest
<1>3. ASSUME Mishap PROVE CacheNext \/ Stays
  <2>1. ASSUME NEW r \in Requests, HandlerTrouble(r) PROVE CacheNext \/ Stays
    BY <2>1, EndsInvalidate, OthersStay DEF HandlerTrouble
  <2>2. ASSUME NetlistTrouble PROVE CacheNext
    BY <2>2 DEF NetlistTrouble, CacheNext, Requests
  <2>3. ASSUME SlotTimesOut PROVE Stays
    BY <2>3 DEF SlotTimesOut, Stays
  <2>4. ASSUME UserStep PROVE CacheNext \/ Stays
    BY <2>4 DEF UserStep, UserEdits, UserEditsComponent, UserOpens, UserSwitches,
                CacheNext, Stays
  <2>5. QED
    BY <1>3, <2>1, <2>2, <2>3, <2>4 DEF Mishap
<1>4. CASE SchematicTask
  BY <1>1, <1>2, <1>3, <1>4 DEF SchematicTask, Next, Stays
<1>5. CASE ConnectivityTask \/ BoardTask \/ UNCHANGED editorVars
  BY <1>5 DEF ConnectivityTask, BoardTask, editorVars, vars, cacheVars
<1>6. QED
  BY <1>4, <1>5 DEF EditorNext

(* The handlers, their failures, their late ends and the user's hand never *)
(* do anything to the memoised netlist but its own operations.             *)
THEOREM HandlersUseTheCache == EditorSpec => CacheSpec
<1>1. CacheInv => project \in Projects
  BY DEF CacheInv, CacheTypeOK
<1>2. CacheInv /\ [EditorNext]_editorVars => [CacheNext]_cacheVars
  BY <1>1, StepIsCacheStep
<1>3. QED
  BY <1>2, InitIsCacheInit, CacheInitInv, CacheStep, PTL DEF EditorSpec, CacheSpec

(* No handler is handed a netlist older than it may count on.              *)
THEOREM HandlersAreNeverStale == EditorSpec => []NeverStale
BY HandlersUseTheCache, CallersAreNeverStale, PTL

(* No handler is handed another project's netlist, unless the user changed *)
(* projects under it or under the request that answered it.                *)
THEOREM HandlersGetTheirProject == EditorSpec => []RightProject
BY HandlersUseTheCache, CallersGetTheirProject, PTL

(* What the handlers find kept of a project only ever gets newer.          *)
THEOREM HandlersCacheMovesForward == EditorSpec => CacheMovesForward
BY HandlersUseTheCache, TheCacheMovesForward, PTL

-----------------------------------------------------------------------------
(* A handler's walk of the pages.  The kinds that may walk, and the places *)
(* of a walk on a page.                                                    *)
Walkers == {"getAll", "connectivity", "swap"}
OnPage == {"open", "verify", "list", "pins", "snapshot", "modify", "modified"}

(* Where a handler can be, given what it was asked and whether it walks.   *)
Route(h) ==
  /\ h.at # "idle" => h.req \in Menu
  /\ h.walks => h.req.kind \in Walkers
  /\ ~h.walks => h.origin = None
  /\ h.walks /\ h.at \in OnPage => h.todo # <<>>
  /\ h.at \in {"idle", "pages"} => ~h.walks
  /\ h.at = "pages" => h.req.kind \in Walkers
  /\ h.at \in {"open", "verify", "restore"} => h.walks
  /\ h.at = "await" /\ h.req.kind = "swap" => ~h.walks
  /\ h.at \in {"write", "written"} => h.req.kind \notin Walkers
  /\ h.at \in {"snapshot", "modify", "modified"} => h.req.kind \in {"swap", "modify"}
  /\ h.at = "snapshot" /\ h.req.kind = "modify" => h.target \in Comps
  /\ h.at = "modify" => h.target \in Comps /\ h.snapshot \in [Fields -> Values]
  /\ h.at = "pins" => h.req.kind = "connectivity"
  /\ h.failed => h.at \in {"restore", "ended"}

(* p, the page shown, is the one to come back to once the walk is over.    *)
ComesBack(h, p) ==
  (h.at \in {"await", "ended"} /\ h.origin # None /\ ~h.stuck /\ ~h.disturbed) => p = h.origin

(* t is what is left of the list of pages L; the pages before it are read, *)
(* and so is the list of components, not the pins, of the one being read.  *)
Suffix(L, t) ==
  /\ Len(t) <= Len(L)
  /\ \A i \in 1..Len(t) : t[i] = L[Len(L) - Len(t) + i]
Before(L, t) == {L[i] : i \in 1..(Len(L) - Len(t))}

ReadPages(h, j) ==
  Before(PagesOf[j], h.todo) \cup (IF h.at = "pins" THEN {Head(h.todo)} ELSE {})

(* The walks that EachComponentOnce is about, and what holds of one at     *)
(* page p of project j: what it has counted is what is on the pages read.  *)
Undisturbed(h) ==
  /\ h.at # "idle" /\ ~h.disturbed /\ ~h.failed
  /\ h.req.kind \in {"getAll", "connectivity"}

Visit(h, p, j) ==
  Undisturbed(h) =>
    /\ h.at = "pages" => (\A c \in Comps : h.seen[c] = 0) /\ h.named = {}
    /\ h.walks =>
         /\ h.at \in {"open", "verify", "list", "pins", "restore", "await", "ended"}
         /\ Suffix(PagesOf[j], h.todo)
         /\ h.at \in {"restore", "await", "ended"} => h.todo = <<>>
         /\ h.at \in {"list", "pins"} => p = Head(h.todo)
         /\ \A c \in Comps : h.seen[c] = IF HomePage[c] \in ReadPages(h, j) THEN 1 ELSE 0
         /\ h.at = "pins" => \A c \in h.listed : HomePage[c] = p
         /\ h.req.kind = "connectivity" => \A c \in Comps :
              (c \in h.named \/ (h.at = "pins" /\ c \in h.listed)) <=> HomePage[c] \in ReadPages(h, j)

(* What becomes of a handler that does not move: only `disturbed' may.     *)
Kept(h, g) ==
  /\ g.at = h.at /\ g.req = h.req /\ g.todo = h.todo /\ g.walks = h.walks
  /\ g.origin = h.origin /\ g.failed = h.failed /\ g.listed = h.listed
  /\ g.target = h.target /\ g.snapshot = h.snapshot /\ g.seen = h.seen
  /\ g.named = h.named /\ g.stuck = h.stuck
  /\ h.disturbed => g.disturbed

HandlersTyped ==
  /\ page \in Pages \cup {Board}
  /\ handler \in [Requests -> HandlerStates]
  /\ slot \in Requests \cup {None}

(* What a step is to the handlers that do not take it.                     *)
Others(who) ==
  \A s \in Requests \ who :
    /\ handler'[s] \in HandlerStates
    /\ Kept(handler[s], handler'[s])
    /\ (handler[s].at = "idle" \/ handler'[s].disturbed \/ (page' = page /\ project' = project))

(* The step of a handler that is not about to write what it read before.   *)
Rereads(r) == Others({r}) /\ handler'[r].at # "modify"

WalksInv ==
  \A r \in Requests :
    /\ Route(handler[r])
    /\ ComesBack(handler[r], page)
    /\ Visit(handler[r], page, project)

-----------------------------------------------------------------------------
LEMMA KeptRoute ==
  ASSUME NEW h, NEW g, Kept(h, g), Route(h)
  PROVE  Route(g)
BY DEF Kept, Route

LEMMA KeptWalk ==
  ASSUME NEW h, NEW g, NEW p, NEW q, NEW i, NEW j, Kept(h, g),
         h.at = "idle" \/ g.disturbed \/ (p = q /\ i = j),
         Route(h), ComesBack(h, p), Visit(h, p, i)
  PROVE  Route(g) /\ ComesBack(g, q) /\ Visit(g, q, j)
<1>1. Route(g)
  BY KeptRoute
<1>2. ComesBack(g, q)
  BY DEF Kept, ComesBack
<1>3. Visit(g, q, j)
  <2>1. CASE h.at = "idle" \/ g.disturbed
    BY <2>1 DEF Kept, Visit, Undisturbed
  <2>2. CASE p = q /\ i = j
    BY <2>2 DEF Kept, Visit, Undisturbed, ReadPages
  <2>3. QED
    BY <2>1, <2>2
<1>4. QED
  BY <1>1, <1>2, <1>3

(* A step is judged by what it does to the handler that takes it.          *)
LEMMA OneWalks ==
  ASSUME WalksInv, NEW r \in Requests, Others({r}),
         Route(handler'[r]), ComesBack(handler'[r], page'), Visit(handler'[r], page', project')
  PROVE  WalksInv'
<1> SUFFICES ASSUME NEW s \in Requests
             PROVE  Route(handler'[s]) /\ ComesBack(handler'[s], page')
                      /\ Visit(handler'[s], page', project')
  BY DEF WalksInv
<1>1. CASE s = r
  BY <1>1
<1>2. CASE s # r
  BY <1>2, KeptWalk DEF WalksInv, Others
<1>3. QED
  BY <1>1, <1>2

LEMMA NobodyWalks ==
  ASSUME WalksInv, Others({})
  PROVE  WalksInv'
BY KeptWalk DEF WalksInv, Others

LEMMA GoesAlone ==
  ASSUME HandlersTyped, NEW r \in Requests, NEW h \in HandlerStates, Goes(r, h),
         UNCHANGED <<page, project>>
  PROVE  /\ handler'[r] = h
         /\ handler' \in [Requests -> HandlerStates]
         /\ slot' \in Requests \cup {None}
         /\ Others({r})
<1>1. /\ handler'[r] = h /\ handler' \in [Requests -> HandlerStates]
      /\ \A s \in Requests \ {r} : handler'[s] = handler[s]
  BY DEF HandlersTyped, Goes
<1>2. slot' \in Requests \cup {None}
  BY DEF HandlersTyped, Goes, Releases
<1>3. Others({r})
  BY <1>1 DEF Others, Kept
<1>4. QED
  BY <1>1, <1>2, <1>3

LEMMA Disturbed ==
  ASSUME HandlersTyped, NEW who, NEW s \in Requests
  PROVE  /\ Disturb(who)[s] \in HandlerStates
         /\ Kept(handler[s], Disturb(who)[s])
         /\ s \notin who => handler[s].at = "idle" \/ Disturb(who)[s].disturbed
<1> DEFINE h == handler[s]
           g == Disturb(who)[s]
<1>1. h \in HandlerStates
  BY DEF HandlersTyped
<1>2. CASE s \in Active \ who
  <2>1. g = [h EXCEPT !.disturbed = TRUE]
    BY <1>2 DEF Disturb
  <2> HIDE DEF g, h
  <2>2. g \in HandlerStates /\ Kept(h, g) /\ g.disturbed
    BY <1>1, <2>1 DEF HandlerStates, Kept
  <2>3. QED
    BY <2>2 DEF g, h
<1>3. CASE s \notin Active \ who
  <2>1. g = h
    BY <1>3 DEF Disturb
  <2>2. s \notin who => h.at = "idle"
    BY <1>3 DEF Active
  <2> HIDE DEF g, h
  <2>3. g \in HandlerStates /\ Kept(h, g)
    BY <1>1, <2>1 DEF Kept
  <2>4. QED
    BY <2>2, <2>3 DEF g, h
<1>4. QED
  BY <1>2, <1>3

LEMMA OpensFelt ==
  ASSUME HandlersTyped, project \in Projects, NEW r \in Requests, NEW h \in HandlerStates, NEW p,
         Opens(r, p, h), UNCHANGED project
  PROVE  /\ handler'[r] = h
         /\ page' = p /\ p \in Pages
         /\ handler' \in [Requests -> HandlerStates]
         /\ slot' \in Requests \cup {None}
         /\ Others({r})
<1> DEFINE before == IF p = page THEN handler ELSE Disturb({r})
<1>1. handler' = [before EXCEPT ![r] = h] /\ page' = p /\ p \in Pages
  BY DEF Opens, Pages
<1>2. before \in [Requests -> HandlerStates]
  <2>1. CASE p = page
    BY <2>1 DEF HandlersTyped
  <2>2. CASE p # page
    <3>1. before = [s \in Requests |-> before[s]]
      BY <2>2 DEF Disturb
    <3>2. \A s \in Requests : before[s] \in HandlerStates
      BY <2>2, Disturbed
    <3>3. QED
      BY <3>1, <3>2
  <2>3. QED
    BY <2>1, <2>2
<1>3. ASSUME NEW s \in Requests \ {r}
      PROVE  /\ Kept(handler[s], before[s])
             /\ handler[s].at = "idle" \/ before[s].disturbed \/ page' = page
  <2>1. CASE p = page
    BY <1>1, <2>1 DEF Kept
  <2>2. CASE p # page
    <3>1. before[s] = Disturb({r})[s]
      BY <2>2
    <3>2. QED
      BY <3>1, Disturbed
  <2>3. QED
    BY <2>1, <2>2
<1> HIDE DEF before
<1>4. /\ handler'[r] = h /\ handler' \in [Requests -> HandlerStates]
      /\ \A s \in Requests \ {r} : handler'[s] = before[s]
  BY <1>1, <1>2
<1>5. slot' \in Requests \cup {None}
  BY DEF HandlersTyped, Opens, Releases
<1>6. Others({r})
  BY <1>3, <1>4 DEF Others
<1>7. QED
  BY <1>1, <1>4, <1>5, <1>6

-----------------------------------------------------------------------------
(* Where a handler goes.                                                   *)

LEMMA PagesDoneGoes ==
  ASSUME NEW h \in HandlerStates, NEW g, g = PagesDone(h)
  PROVE  /\ g \in HandlerStates
         /\ g = [h EXCEPT !.at = g.at]
         /\ g.at \in {"await", "ended"}
         /\ g.at = "await" => h.req.kind # "swap"
<1> DEFINE to == IF h.req.netlist /\ h.req.kind # "swap" THEN "await" ELSE "ended"
<1>1. g = [h EXCEPT !.at = to] /\ to \in {"await", "ended"} /\ (to = "await" => h.req.kind # "swap")
  BY DEF PagesDone
<1> HIDE DEF to
<1>2. QED
  BY <1>1 DEF HandlerStates

LEMMA PageDoneGoes ==
  ASSUME NEW h \in HandlerStates, NEW g, g = PageDone(h), h.walks => h.todo # <<>>
  PROVE  /\ g \in HandlerStates
         /\ g = [h EXCEPT !.at = g.at, !.todo = g.todo]
         /\ ~h.walks => /\ g.at \in {"await", "ended"} /\ g.todo = h.todo
                        /\ g.at = "await" => h.req.kind # "swap"
         /\ h.walks => /\ g.todo = Tail(h.todo)
                       /\ g.at = IF Len(h.todo) = 1 THEN "restore" ELSE "open"
<1>1. h.todo \in Seq(Pages)
  BY DEF HandlerStates
<1>2. CASE ~h.walks
  <2>1. g = PagesDone(h)
    BY <1>2 DEF PageDone
  <2>2. /\ g \in HandlerStates /\ g = [h EXCEPT !.at = g.at]
        /\ g.at \in {"await", "ended"} /\ (g.at = "await" => h.req.kind # "swap")
    BY <2>1, PagesDoneGoes
  <2>3. g.todo = h.todo /\ g = [h EXCEPT !.at = g.at, !.todo = g.todo]
    BY <2>2 DEF HandlerStates
  <2>4. QED
    BY <1>2, <2>2, <2>3
<1>3. CASE h.walks
  <2> DEFINE to == IF Len(h.todo) = 1 THEN "restore" ELSE "open"
             rest == Tail(h.todo)
  <2>1. g = [h EXCEPT !.todo = rest, !.at = to]
    BY <1>3 DEF PageDone
  <2>2. to \in {"restore", "open"} /\ rest \in Seq(Pages)
    BY <1>1, <1>3, HeadTailProperties
  <2> HIDE DEF to, rest
  <2>3. /\ g \in HandlerStates /\ g.at = to /\ g.todo = rest
        /\ g = [h EXCEPT !.at = g.at, !.todo = g.todo]
    BY <2>1, <2>2 DEF HandlerStates
  <2>4. QED
    BY <1>3, <2>3 DEF to, rest
<1>4. QED
  BY <1>2, <1>3

LEMMA ThrownGoes ==
  ASSUME NEW h \in HandlerStates, NEW g, g = Thrown(h)
  PROVE  /\ g \in HandlerStates
         /\ g = [h EXCEPT !.failed = TRUE, !.at = g.at]
         /\ g.at = IF h.walks THEN "restore" ELSE "ended"
         /\ g.failed
<1> DEFINE to == IF h.walks THEN "restore" ELSE "ended"
<1>1. g = [h EXCEPT !.failed = TRUE, !.at = to] /\ to \in {"restore", "ended"}
  BY DEF Thrown
<1> HIDE DEF to
<1>2. /\ g \in HandlerStates /\ g.at = to /\ g.failed
      /\ g = [h EXCEPT !.failed = TRUE, !.at = g.at]
  BY <1>1 DEF HandlerStates
<1>3. QED
  BY <1>2 DEF to

(* A handler that failed, in its walk or outside of it.                    *)
LEMMA ThrownWalks ==
  ASSUME NEW h \in HandlerStates, NEW p, NEW j, NEW g, g = Thrown(h), Route(h), h.at # "idle"
  PROVE  g \in HandlerStates /\ Route(g) /\ ComesBack(g, p) /\ Visit(g, p, j)
         /\ g.at # "modify"
<1>1. /\ g \in HandlerStates
      /\ g = [h EXCEPT !.failed = TRUE, !.at = g.at]
      /\ g.at = IF h.walks THEN "restore" ELSE "ended"
      /\ g.failed
  BY ThrownGoes
<1>2. g.walks = h.walks /\ g.origin = h.origin /\ g.req = h.req
  BY <1>1 DEF HandlerStates
<1>3. Route(g)
  BY <1>1, <1>2 DEF Route, OnPage
<1>4. ComesBack(g, p)
  BY <1>1, <1>2 DEF Route, ComesBack
<1>5. Visit(g, p, j)
  BY <1>1 DEF Visit, Undisturbed
<1>6. QED
  BY <1>1, <1>3, <1>4, <1>5

(* A page of a walk is done: the list of pages read grows by one.          *)
LEMMA OnePageMore ==
  ASSUME NEW j \in Projects, NEW t \in Seq(Pages), t # <<>>, Suffix(PagesOf[j], t)
  PROVE  /\ Suffix(PagesOf[j], Tail(t))
         /\ Before(PagesOf[j], Tail(t)) = Before(PagesOf[j], t) \cup {Head(t)}
         /\ Head(t) \notin Before(PagesOf[j], t)
         /\ Len(t) = 1 <=> Tail(t) = <<>>
<1> DEFINE L == PagesOf[j]
           u == Tail(t)
           k == Len(L) - Len(t)
<1>1. L \in Seq(Range(L)) /\ IsInjective(L)
  BY PagesAssumption
<1>2. Len(L) \in Nat /\ DOMAIN L = 1..Len(L) /\ Len(t) \in Nat /\ Len(t) >= 1
  BY <1>1, LenProperties, EmptySeq
<1>3. /\ u \in Seq(Pages) /\ Len(u) = Len(t) - 1
      /\ \A i \in 1..Len(u) : u[i] = t[i + 1]
  BY HeadTailProperties
<1>4. Head(t) = t[1]
  OBVIOUS
<1>5. Len(t) <= Len(L) /\ \A i \in 1..Len(t) : t[i] = L[k + i]
  BY DEF Suffix
<1>6. Len(L) - Len(u) = k + 1 /\ k \in Nat /\ k + 1 \in 1..Len(L)
  BY <1>2, <1>3, <1>5
<1>7. t[1] = L[k + 1]
  BY <1>2, <1>5
<1>8. Suffix(L, u)
  <2>1. ASSUME NEW i \in 1..Len(u) PROVE u[i] = L[Len(L) - Len(u) + i]
    <3> HIDE DEF u, k, L
    <3>1. i + 1 \in 1..Len(t) /\ k + (i + 1) = (k + 1) + i
      BY <1>2, <1>3, <1>6
    <3>2. u[i] = t[i + 1] /\ t[i + 1] = L[k + (i + 1)]
      BY <1>3, <1>5, <3>1
    <3>3. QED
      BY <1>6, <3>1, <3>2
  <2>2. Len(u) <= Len(L)
    BY <1>2, <1>3, <1>5
  <2> HIDE DEF u, L
  <2>3. QED
    BY <2>1, <2>2 DEF Suffix
<1>9. Before(L, u) = Before(L, t) \cup {L[k + 1]}
  <2>1. 1..(k + 1) = (1..k) \cup {k + 1}
    BY <1>6
  <2> HIDE DEF u, L
  <2>2. Before(L, u) = {L[i] : i \in 1..(k + 1)} /\ Before(L, t) = {L[i] : i \in 1..k}
    BY <1>6 DEF Before
  <2> HIDE DEF k
  <2>3. QED
    BY <2>1, <2>2
<1>10. L[k + 1] \notin Before(L, t)
  <2> SUFFICES ASSUME NEW i \in 1..k, L[i] = L[k + 1] PROVE FALSE
    BY DEF Before
  <2>1. i \in DOMAIN L /\ k + 1 \in DOMAIN L /\ i # k + 1
    BY <1>2, <1>6
  <2>2. QED
    BY <1>1, <2>1 DEF IsInjective
<1>11. Len(t) = 1 <=> u = <<>>
  <2>1. u # <<>> => Len(u) \in Nat \ {0}
    BY <1>3, EmptySeq
  <2>2. u = <<>> => Len(u) = 0
    BY EmptySeq
  <2> HIDE DEF u
  <2>3. QED
    BY <1>2, <1>3, <2>1, <2>2
<1>12. QED
  BY <1>4, <1>7, <1>8, <1>9, <1>10, <1>11

LEMMA PageDoneWalks ==
  ASSUME NEW h \in HandlerStates, NEW p, NEW j \in Projects, NEW g, g = PageDone(h),
         h.req \in Menu, ~h.failed,
         h.walks => h.req.kind \in Walkers /\ h.todo # <<>>,
         ~h.walks => h.origin = None,
         (h.walks /\ ~h.disturbed /\ h.req.kind \in {"getAll", "connectivity"}) =>
           /\ Suffix(PagesOf[j], h.todo)
           /\ \A c \in Comps :
                h.seen[c] = IF HomePage[c] \in Before(PagesOf[j], h.todo) \cup {Head(h.todo)}
                            THEN 1 ELSE 0
           /\ h.req.kind = "connectivity" => \A c \in Comps :
                c \in h.named <=> HomePage[c] \in Before(PagesOf[j], h.todo) \cup {Head(h.todo)}
  PROVE  g \in HandlerStates /\ Route(g) /\ ComesBack(g, p) /\ Visit(g, p, j)
         /\ g.at # "modify"
<1>1. /\ g \in HandlerStates
      /\ g = [h EXCEPT !.at = g.at, !.todo = g.todo]
      /\ ~h.walks => /\ g.at \in {"await", "ended"} /\ g.todo = h.todo
                     /\ g.at = "await" => h.req.kind # "swap"
      /\ h.walks => /\ g.todo = Tail(h.todo)
                    /\ g.at = IF Len(h.todo) = 1 THEN "restore" ELSE "open"
  BY PageDoneGoes
<1>2. /\ g.walks = h.walks /\ g.origin = h.origin /\ g.req = h.req /\ g.failed = h.failed
      /\ g.disturbed = h.disturbed /\ g.seen = h.seen /\ g.named = h.named
  BY <1>1 DEF HandlerStates
<1>3. h.walks => h.todo \in Seq(Pages) /\ h.todo # <<>> /\ (Len(h.todo) = 1 <=> g.todo = <<>>)
  <2>1. SUFFICES ASSUME h.walks PROVE Len(h.todo) = 1 <=> Tail(h.todo) = <<>>
    BY <1>1 DEF HandlerStates
  <2>2. h.todo \in Seq(Pages) /\ h.todo # <<>>
    BY <2>1 DEF HandlerStates
  <2> DEFINE u == Tail(h.todo)
  <2>3. Len(u) = Len(h.todo) - 1 /\ u \in Seq(Pages) /\ Len(h.todo) \in Nat
    BY <2>2, HeadTailProperties, LenProperties
  <2>4. (u # <<>> => Len(u) \in Nat \ {0}) /\ (u = <<>> => Len(u) = 0)
    BY <2>3, EmptySeq
  <2> HIDE DEF u
  <2>5. Len(h.todo) = 1 <=> u = <<>>
    BY <2>3, <2>4
  <2>6. QED
    BY <2>5 DEF u
<1>4. Route(g)
  BY <1>1, <1>2, <1>3 DEF Route, OnPage
<1>5. ComesBack(g, p)
  BY <1>1, <1>2 DEF ComesBack
<1>6. Visit(g, p, j)
  <2>1. SUFFICES ASSUME Undisturbed(g), g.walks
                 PROVE  /\ g.at \in {"open", "restore"}
                        /\ Suffix(PagesOf[j], g.todo)
                        /\ g.at = "restore" => g.todo = <<>>
                        /\ ReadPages(g, j) = Before(PagesOf[j], h.todo) \cup {Head(h.todo)}
    BY <1>1, <1>2 DEF Visit, Undisturbed
  <2>2. Suffix(PagesOf[j], h.todo)
    BY <1>2, <2>1 DEF Undisturbed
  <2>3. /\ Suffix(PagesOf[j], g.todo)
        /\ Before(PagesOf[j], g.todo) = Before(PagesOf[j], h.todo) \cup {Head(h.todo)}
    <3>1. h.walks /\ h.todo \in Seq(Pages) /\ h.todo # <<>> /\ g.todo = Tail(h.todo)
      BY <1>1, <1>2, <1>3, <2>1
    <3>2. /\ Suffix(PagesOf[j], Tail(h.todo))
          /\ Before(PagesOf[j], Tail(h.todo)) = Before(PagesOf[j], h.todo) \cup {Head(h.todo)}
      BY <2>2, <3>1, OnePageMore
    <3>3. QED
      BY <3>1, <3>2
  <2>4. QED
    BY <1>1, <1>2, <1>3, <2>1, <2>3 DEF ReadPages
<1>7. QED
  BY <1>1, <1>4, <1>5, <1>6

(* What has to be shown of a step is about the handler that takes it.      *)
LEMMA StaysHere ==
  ASSUME HandlersTyped, WalksInv, NEW r \in Requests, NEW h \in HandlerStates, Goes(r, h),
         UNCHANGED <<page, project>>,
         Route(h), ComesBack(h, page), Visit(h, page, project)
  PROVE  (HandlersTyped /\ WalksInv)' /\ Others({r}) /\ handler'[r] = h
<1>1. /\ handler'[r] = h
      /\ handler' \in [Requests -> HandlerStates]
      /\ slot' \in Requests \cup {None}
      /\ Others({r})
  BY GoesAlone
<1>2. HandlersTyped'
  BY <1>1 DEF HandlersTyped
<1>3. WalksInv'
  BY <1>1, OneWalks
<1>4. QED
  BY <1>1, <1>2, <1>3

LEMMA OpensHere ==
  ASSUME HandlersTyped, WalksInv, project \in Projects, NEW r \in Requests,
         NEW h \in HandlerStates, NEW p, Opens(r, p, h), UNCHANGED project,
         Route(h), ComesBack(h, p), Visit(h, p, project)
  PROVE  (HandlersTyped /\ WalksInv)' /\ Others({r}) /\ handler'[r] = h
<1>1. /\ handler'[r] = h
      /\ page' = p /\ p \in Pages
      /\ handler' \in [Requests -> HandlerStates]
      /\ slot' \in Requests \cup {None}
      /\ Others({r})
  BY OpensFelt
<1>2. HandlersTyped'
  BY <1>1 DEF HandlersTyped
<1>3. WalksInv'
  BY <1>1, OneWalks
<1>4. QED
  BY <1>1, <1>2, <1>3

-----------------------------------------------------------------------------
(* One lemma for each step.                                                *)

LEMMA BeginWalks ==
  ASSUME HandlersTyped, WalksInv, NEW r \in Requests, NEW q \in Menu, Begin(r, q)
  PROVE  (HandlersTyped /\ WalksInv)' /\ Rereads(r)
<1> DEFINE to == FirstStep(q)
           h == [IdleHandler EXCEPT !.at = to, !.req = q, !.target = q.target]
<1>1. /\ q.kind \in Kinds /\ q.target \in Comps \cup {None}
      /\ q.kind = "modify" => q.target \in Comps
  BY RequestsAssumption
<1>2. /\ to \in {"list", "pages", "await", "snapshot", "write"}
      /\ to = "pages" => q.kind \in Walkers
      /\ to = "snapshot" => q.kind = "modify"
      /\ to = "write" => q.kind \notin Walkers
  BY <1>1 DEF FirstStep, Kinds, Walkers
<1>3. IdleHandler \in HandlerStates
  BY DEF IdleHandler, HandlerStates
<1>4. /\ handler' = [handler EXCEPT ![r] = h] /\ slot' = r
      /\ UNCHANGED <<page, project>>
  BY DEF Begin, OnlyCall, eda
<1> HIDE DEF to
<1>5. /\ h \in HandlerStates /\ h.at = to /\ h.req = q /\ h.target = q.target
      /\ ~h.walks /\ h.origin = None /\ ~h.failed /\ h.named = {}
      /\ \A c \in Comps : h.seen[c] = 0
  BY <1>1, <1>2, <1>3 DEF IdleHandler, HandlerStates
<1> HIDE DEF h
<1>6. Route(h)
  BY <1>1, <1>2, <1>5 DEF Route, OnPage
<1>7. ComesBack(h, page) /\ Visit(h, page, project)
  BY <1>2, <1>5 DEF ComesBack, Visit
<1>8. handler'[r] = h /\ handler' \in [Requests -> HandlerStates] /\ Others({r})
  BY <1>4, <1>5 DEF HandlersTyped, Others, Kept
<1>9. HandlersTyped'
  BY <1>4, <1>8 DEF HandlersTyped
<1>10. WalksInv'
  BY <1>4, <1>6, <1>7, <1>8, OneWalks
<1>11. QED
  BY <1>2, <1>5, <1>8, <1>9, <1>10 DEF Rereads

LEMMA CollectedWalks ==
  ASSUME HandlersTyped, WalksInv, NEW r \in Requests, Collected(r)
  PROVE  (HandlersTyped /\ WalksInv)' /\ Rereads(r)
<1>1. handler' = [handler EXCEPT ![r] = IdleHandler] /\ UNCHANGED <<page, project, slot>>
  BY DEF Collected, OnlyCall, eda
<1>2. IdleHandler \in HandlerStates
  BY DEF IdleHandler, HandlerStates
<1>3. Route(IdleHandler) /\ ComesBack(IdleHandler, page) /\ Visit(IdleHandler, page, project)
  BY DEF IdleHandler, Route, OnPage, ComesBack, Visit, Undisturbed
<1>4. /\ handler'[r] = IdleHandler /\ handler' \in [Requests -> HandlerStates]
      /\ Others({r})
  BY <1>1, <1>2 DEF HandlersTyped, Others, Kept
<1>5. HandlersTyped'
  BY <1>1, <1>4 DEF HandlersTyped
<1>6. WalksInv'
  BY <1>1, <1>3, <1>4, OneWalks
<1>7. QED
  BY <1>4, <1>5, <1>6 DEF Rereads, IdleHandler

LEMMA WalkStartsWalks ==
  ASSUME HandlersTyped, WalksInv, project \in Projects, NEW r \in Requests, WalkStarts(r)
  PROVE  (HandlersTyped /\ WalksInv)' /\ Rereads(r)
<1> DEFINE h == handler[r]
           L == PagesOf[project]
           o == IF page = Board THEN None ELSE page
           g == [h EXCEPT !.walks = TRUE, !.todo = L, !.at = "open", !.origin = o]
<1>1. h \in HandlerStates /\ Route(h) /\ Visit(h, page, project) /\ h.at = "pages"
  BY DEF HandlersTyped, WalksInv, WalkStarts
<1>2. L \in Seq(Range(L)) /\ L # <<>> /\ L \in Seq(Pages)
  <2>1. L \in Seq(Range(L)) /\ L # <<>> /\ Range(L) \subseteq Pages
    BY PagesAssumption DEF Pages
  <2> HIDE DEF L
  <2>2. QED
    BY <2>1, SeqMonotonic
<1>3. o \in Pages \cup {None}
  BY DEF HandlersTyped
<1>4. Goes(r, g) /\ UNCHANGED <<page, project>>
  BY DEF WalkStarts, cacheVars, eda
<1> HIDE DEF h, L, o
<1>5. /\ g \in HandlerStates /\ g.walks /\ g.todo = L /\ g.at = "open"
      /\ g.req = h.req /\ g.failed = h.failed /\ g.seen = h.seen /\ g.named = h.named
      /\ g.disturbed = h.disturbed
  BY <1>1, <1>2, <1>3 DEF HandlerStates
<1> HIDE DEF g
<1>6. Route(g)
  BY <1>1, <1>2, <1>5 DEF Route, OnPage
<1>7. ComesBack(g, page)
  BY <1>5 DEF ComesBack
<1>8. Visit(g, page, project)
  <2>1. Len(L) \in Nat /\ Suffix(L, L) /\ Before(L, L) = {}
    BY <1>2, LenProperties DEF Suffix, Before
  <2>2. Undisturbed(g) => (\A c \in Comps : g.seen[c] = 0) /\ g.named = {}
    BY <1>1, <1>5 DEF Visit, Undisturbed
  <2>3. ReadPages(g, project) = {}
    BY <1>5, <2>1 DEF ReadPages, L
  <2>4. QED
    BY <1>5, <2>1, <2>2, <2>3 DEF Visit, L
<1>9. QED
  BY <1>4, <1>5, <1>6, <1>7, <1>8, StaysHere DEF Rereads

LEMMA NoPageListWalks ==
  ASSUME HandlersTyped, WalksInv, NEW r \in Requests, NoPageList(r)
  PROVE  (HandlersTyped /\ WalksInv)' /\ Rereads(r)
<1> DEFINE h == handler[r]
           g == [h EXCEPT !.at = "list"]
<1>1. h \in HandlerStates /\ Route(h) /\ h.at = "pages"
  BY DEF HandlersTyped, WalksInv, NoPageList
<1>2. Goes(r, g) /\ UNCHANGED <<page, project>>
  BY DEF NoPageList, cacheVars, eda
<1> HIDE DEF h
<1>3. /\ g \in HandlerStates /\ g.at = "list" /\ g.walks = h.walks /\ g.origin = h.origin
      /\ g.req = h.req /\ g.failed = h.failed
  BY <1>1 DEF HandlerStates
<1>4. Route(g) /\ ComesBack(g, page) /\ Visit(g, page, project)
  BY <1>1, <1>3 DEF Route, OnPage, ComesBack, Visit
<1>5. QED
  BY <1>2, <1>3, <1>4, StaysHere DEF Rereads

(* Both outcomes of openDocument: the page opens, or another one stays.    *)
LEMMA OpenedIsRight ==
  ASSUME NEW h \in HandlerStates, NEW p, NEW q, NEW j, Route(h), Visit(h, p, j), h.at = "open",
         NEW g, g = [h EXCEPT !.at = "verify"]
  PROVE  g \in HandlerStates /\ Route(g) /\ ComesBack(g, q) /\ Visit(g, q, j)
         /\ g.at # "modify"
<1>1. /\ g \in HandlerStates /\ g.at = "verify" /\ g.walks = h.walks /\ g.origin = h.origin
      /\ g.req = h.req /\ g.failed = h.failed /\ g.todo = h.todo /\ g.seen = h.seen
      /\ g.named = h.named /\ g.disturbed = h.disturbed
  BY DEF HandlerStates
<1>2. Route(g) /\ ComesBack(g, q)
  BY <1>1 DEF Route, OnPage, ComesBack
<1>3. Visit(g, q, j)
  BY <1>1 DEF Visit, Undisturbed, ReadPages
<1>4. QED
  BY <1>1, <1>2, <1>3

LEMMA OpenPageWalks ==
  ASSUME HandlersTyped, WalksInv, project \in Projects, NEW r \in Requests,
         OpenPage(r) \/ PageStaysShut(r)
  PROVE  (HandlersTyped /\ WalksInv)' /\ Rereads(r)
<1> DEFINE h == handler[r]
           g == [h EXCEPT !.at = "verify"]
<1>1. h \in HandlerStates /\ Route(h) /\ Visit(h, page, project) /\ h.at = "open"
  BY DEF HandlersTyped, WalksInv, OpenPage, PageStaysShut
<1>2. CASE OpenPage(r)
  <2>1. Opens(r, Head(h.todo), g) /\ UNCHANGED project
    BY <1>2 DEF OpenPage, cacheVars
  <2> HIDE DEF g, h
  <2>2. /\ g \in HandlerStates /\ Route(g) /\ g.at # "modify"
        /\ ComesBack(g, Head(h.todo)) /\ Visit(g, Head(h.todo), project)
    BY <1>1, OpenedIsRight DEF g
  <2>3. QED
    BY <2>1, <2>2, OpensHere DEF Rereads
<1>3. CASE PageStaysShut(r)
  <2>1. Goes(r, g) /\ UNCHANGED <<page, project>>
    BY <1>3 DEF PageStaysShut, cacheVars, eda
  <2> HIDE DEF g, h
  <2>2. /\ g \in HandlerStates /\ Route(g) /\ g.at # "modify"
        /\ ComesBack(g, page) /\ Visit(g, page, project)
    BY <1>1, OpenedIsRight DEF g
  <2>3. QED
    BY <2>1, <2>2, StaysHere DEF Rereads
<1>4. QED
  BY <1>2, <1>3

LEMMA VerifyPageWalks ==
  ASSUME HandlersTyped, WalksInv, NEW r \in Requests, VerifyPage(r)
  PROVE  (HandlersTyped /\ WalksInv)' /\ Rereads(r)
<1> DEFINE h == handler[r]
           g == [h EXCEPT !.at = "list"]
<1>1. /\ h \in HandlerStates /\ Route(h) /\ Visit(h, page, project) /\ h.at = "verify"
      /\ UNCHANGED <<page, project>>
  BY DEF HandlersTyped, WalksInv, VerifyPage, cacheVars, eda
<1>2. CASE page = Head(h.todo)
  <2>1. Goes(r, g)
    BY <1>2 DEF VerifyPage
  <2>2. page = Head(h.todo)
    BY <1>2
  <2> HIDE DEF h
  <2>3. /\ g \in HandlerStates /\ g.at = "list" /\ g.walks = h.walks /\ g.origin = h.origin
        /\ g.req = h.req /\ g.failed = h.failed /\ g.todo = h.todo /\ g.seen = h.seen
        /\ g.named = h.named /\ g.disturbed = h.disturbed
    BY <1>1 DEF HandlerStates
  <2>4. Route(g) /\ ComesBack(g, page)
    BY <1>1, <2>3 DEF Route, OnPage, ComesBack
  <2>5. Visit(g, page, project)
    BY <1>1, <2>2, <2>3 DEF Visit, Undisturbed, ReadPages
  <2>6. QED
    BY <1>1, <2>1, <2>3, <2>4, <2>5, StaysHere DEF Rereads
<1>3. CASE page # Head(h.todo)
  <2>1. Goes(r, Thrown(h))
    BY <1>3 DEF VerifyPage
  <2> HIDE DEF h
  <2>2. /\ Thrown(h) \in HandlerStates /\ Route(Thrown(h)) /\ Thrown(h).at # "modify"
        /\ ComesBack(Thrown(h), page) /\ Visit(Thrown(h), page, project)
    BY <1>1, ThrownWalks
  <2>3. QED
    BY <1>1, <2>1, <2>2, StaysHere DEF Rereads
<1>4. QED
  BY <1>2, <1>3

LEMMA CallRejectsWalks ==
  ASSUME HandlersTyped, WalksInv, NEW r \in Requests, CallRejects(r)
  PROVE  (HandlersTyped /\ WalksInv)' /\ Rereads(r)
<1> DEFINE h == handler[r]
<1>1. /\ h \in HandlerStates /\ Route(h) /\ h.at # "idle"
      /\ Goes(r, Thrown(h)) /\ UNCHANGED <<page, project>>
  BY DEF HandlersTyped, WalksInv, CallRejects, cacheVars, eda
<1> HIDE DEF h
<1>2. /\ Thrown(h) \in HandlerStates /\ Route(Thrown(h)) /\ Thrown(h).at # "modify"
      /\ ComesBack(Thrown(h), page) /\ Visit(Thrown(h), page, project)
  BY <1>1, ThrownWalks
<1>3. QED
  BY <1>1, <1>2, StaysHere DEF Rereads

LEMMA WalkedWalks ==
  ASSUME NEW h \in HandlerStates, NEW p, NEW q, NEW j, Route(h), Visit(h, p, j),
         h.at = "restore", NEW g, g = Walked(h)
  PROVE  /\ g \in HandlerStates /\ Route(g) /\ Visit(g, q, j)
         /\ g.origin = h.origin /\ g.at # "modify"
         /\ g.origin = None \/ q = g.origin => ComesBack(g, q)
<1>1. /\ g \in HandlerStates /\ g = [h EXCEPT !.at = g.at]
      /\ g.at \in {"await", "ended"}
      /\ g.at = "await" => h.req.kind # "swap" /\ ~h.failed
  <2>1. CASE h.failed
    BY <2>1 DEF Walked, HandlerStates
  <2>2. CASE ~h.failed
    <3>1. g = PagesDone(h)
      BY <2>2 DEF Walked
    <3>2. QED
      BY <2>2, <3>1, PagesDoneGoes
  <2>3. QED
    BY <2>1, <2>2
<1>2. /\ g.walks = h.walks /\ g.origin = h.origin /\ g.req = h.req /\ g.failed = h.failed
      /\ g.todo = h.todo /\ g.seen = h.seen /\ g.named = h.named /\ g.listed = h.listed
      /\ g.disturbed = h.disturbed /\ g.stuck = h.stuck
  BY <1>1 DEF HandlerStates
<1>3. Route(g)
  BY <1>1, <1>2 DEF Route, OnPage
<1>4. Visit(g, q, j)
  BY <1>1, <1>2 DEF Visit, Undisturbed, ReadPages
<1>5. g.origin = None \/ q = g.origin => ComesBack(g, q)
  BY DEF ComesBack
<1>6. QED
  BY <1>1, <1>2, <1>3, <1>4, <1>5

LEMMA RestorePageWalks ==
  ASSUME HandlersTyped, WalksInv, project \in Projects, NEW r \in Requests, RestorePage(r)
  PROVE  (HandlersTyped /\ WalksInv)' /\ Rereads(r)
<1> DEFINE h == handler[r]
           g == Walked(h)
<1>1. /\ h \in HandlerStates /\ Route(h) /\ Visit(h, page, project) /\ h.at = "restore"
      /\ UNCHANGED project
      /\ IF g.origin = None THEN Goes(r, g) /\ UNCHANGED eda ELSE Opens(r, g.origin, g)
  BY DEF HandlersTyped, WalksInv, RestorePage
<1> HIDE DEF h
<1>2. CASE g.origin = None
  <2>1. Goes(r, g) /\ UNCHANGED <<page, project>>
    BY <1>1, <1>2 DEF eda
  <2>2. /\ g \in HandlerStates /\ Route(g) /\ g.at # "modify"
        /\ Visit(g, page, project) /\ ComesBack(g, page)
    BY <1>1, <1>2, WalkedWalks
  <2>3. QED
    BY <2>1, <2>2, StaysHere DEF Rereads
<1>3. CASE g.origin # None
  <2> DEFINE q == g.origin
  <2>1. Opens(r, q, g) /\ UNCHANGED project
    BY <1>1, <1>3
  <2>2. /\ g \in HandlerStates /\ Route(g) /\ g.at # "modify"
        /\ Visit(g, q, project) /\ ComesBack(g, q)
    BY <1>1, WalkedWalks
  <2> HIDE DEF q, g
  <2>3. QED
    BY <2>1, <2>2, OpensHere DEF Rereads
<1>4. QED
  BY <1>2, <1>3

LEMMA RestoreFailsWalks ==
  ASSUME HandlersTyped, WalksInv, NEW r \in Requests, RestoreFails(r)
  PROVE  (HandlersTyped /\ WalksInv)' /\ Rereads(r)
<1> DEFINE h == handler[r]
           g == Walked(h)
           k == [g EXCEPT !.stuck = TRUE]
<1>1. /\ h \in HandlerStates /\ Route(h) /\ Visit(h, page, project) /\ h.at = "restore"
      /\ UNCHANGED <<page, project>>
      /\ Goes(r, k)
  BY DEF HandlersTyped, WalksInv, RestoreFails, eda
<1> HIDE DEF h
<1>2. g \in HandlerStates /\ Route(g) /\ Visit(g, page, project) /\ g.at # "modify"
  BY <1>1, WalkedWalks
<1> HIDE DEF g
<1>3. /\ k \in HandlerStates /\ k.stuck
      /\ k.at = g.at /\ k.req = g.req /\ k.todo = g.todo /\ k.walks = g.walks
      /\ k.origin = g.origin /\ k.failed = g.failed /\ k.listed = g.listed
      /\ k.target = g.target /\ k.snapshot = g.snapshot /\ k.seen = g.seen
      /\ k.named = g.named /\ k.disturbed = g.disturbed
  BY <1>2 DEF HandlerStates
<1> HIDE DEF k
<1>4. Route(k)
  BY <1>2, <1>3 DEF Route
<1>5. ComesBack(k, page)
  BY <1>3 DEF ComesBack
<1>6. Visit(k, page, project)
  BY <1>2, <1>3 DEF Visit, Undisturbed, ReadPages
<1>7. QED
  BY <1>1, <1>2, <1>3, <1>4, <1>5, <1>6, StaysHere DEF Rereads

(* A swap that goes on to the page's next match.                           *)
LEMMA PickWalks ==
  ASSUME NEW h \in HandlerStates, NEW p, NEW j \in Projects, NEW listed \in SUBSET Comps,
         NEW g, g = Pick(h, listed), h.req \in Menu, h.req.kind = "swap", ~h.failed,
         h.walks => h.todo # <<>>, ~h.walks => h.origin = None
  PROVE  g \in HandlerStates /\ Route(g) /\ ComesBack(g, p) /\ Visit(g, p, j)
         /\ g.at # "modify"
<1>1. CASE listed = {}
  <2> DEFINE k == [h EXCEPT !.listed = {}]
  <2>1. g = PageDone(k)
    BY <1>1 DEF Pick
  <2>2. /\ k \in HandlerStates /\ k.req = h.req /\ k.failed = h.failed /\ k.walks = h.walks
        /\ k.todo = h.todo /\ k.origin = h.origin
    BY DEF HandlerStates
  <2> HIDE DEF k
  <2>3. k.walks => k.req.kind \in Walkers /\ k.todo # <<>>
    BY <2>2 DEF Walkers
  <2>4. ~(k.walks /\ ~k.disturbed /\ k.req.kind \in {"getAll", "connectivity"})
    BY <2>2
  <2>5. QED
    BY <2>1, <2>2, <2>3, <2>4, PageDoneWalks
<1>2. CASE listed # {}
  <2>1. g = [h EXCEPT !.listed = listed, !.at = "snapshot"]
    BY <1>2 DEF Pick
  <2>2. /\ g \in HandlerStates /\ g.req = h.req /\ g.failed = h.failed /\ g.walks = h.walks
        /\ g.todo = h.todo /\ g.origin = h.origin /\ g.at = "snapshot"
    BY <2>1 DEF HandlerStates
  <2>3. Route(g)
    BY <2>2 DEF Route, OnPage, Walkers
  <2>4. ComesBack(g, p) /\ Visit(g, p, j)
    BY <2>2 DEF ComesBack, Visit, Undisturbed
  <2>5. QED
    BY <2>2, <2>3, <2>4
<1>3. QED
  BY <1>1, <1>2

(* What a page's list adds to the counts.                                  *)
LEMMA Counted ==
  ASSUME NEW h \in HandlerStates, NEW j \in Projects, Route(h), Visit(h, page, j),
         h.at = "list", NEW g \in HandlerStates,
         \A c \in Comps : g.seen[c] = h.seen[c] + IF HomePage[c] = page THEN 1 ELSE 0,
         h.walks, ~h.disturbed, h.req.kind \in {"getAll", "connectivity"}
  PROVE  /\ Suffix(PagesOf[j], h.todo)
         /\ page = Head(h.todo)
         /\ Head(h.todo) \notin Before(PagesOf[j], h.todo)
         /\ \A c \in Comps :
              g.seen[c] = IF HomePage[c] \in Before(PagesOf[j], h.todo) \cup {page}
                          THEN 1 ELSE 0
         /\ h.req.kind = "connectivity" => \A c \in Comps :
              c \in h.named <=> HomePage[c] \in Before(PagesOf[j], h.todo)
<1>1. Undisturbed(h) /\ h.todo # <<>>
  BY DEF Undisturbed, Route, OnPage
<1>2. /\ Suffix(PagesOf[j], h.todo) /\ page = Head(h.todo)
      /\ \A c \in Comps :
           h.seen[c] = IF HomePage[c] \in Before(PagesOf[j], h.todo) THEN 1 ELSE 0
      /\ h.req.kind = "connectivity" => \A c \in Comps :
           c \in h.named <=> HomePage[c] \in Before(PagesOf[j], h.todo)
  BY <1>1 DEF Visit, ReadPages
<1>3. Head(h.todo) \notin Before(PagesOf[j], h.todo)
  BY <1>1, <1>2, OnePageMore DEF HandlerStates
<1> DEFINE B == Before(PagesOf[j], h.todo)
<1>4. page \notin B
  BY <1>2, <1>3
<1> HIDE DEF B
<1>5. ASSUME NEW c \in Comps
      PROVE  g.seen[c] = IF HomePage[c] \in B \cup {page} THEN 1 ELSE 0
  <2>1. h.seen[c] = IF HomePage[c] \in B THEN 1 ELSE 0
    BY <1>2 DEF B
  <2>2. g.seen[c] = h.seen[c] + IF HomePage[c] = page THEN 1 ELSE 0
    OBVIOUS
  <2>3. QED
    BY <1>4, <2>1, <2>2
<1>6. QED
  BY <1>2, <1>3, <1>5 DEF B

LEMMA ListPageWalks ==
  ASSUME HandlersTyped, WalksInv, project \in Projects, NEW r \in Requests, ListPage(r)
  PROVE  (HandlersTyped /\ WalksInv)' /\ Rereads(r)
<1> DEFINE h == handler[r]
           s == [c \in Comps |-> h.seen[c] + IF c \in Here THEN 1 ELSE 0]
           k == [h EXCEPT !.seen = s]
           some == IF h.req.dryRun THEN {} ELSE Matching(r)
           g == IF h.req.kind = "swap" THEN Pick(h, some)
                ELSE IF h.req.kind = "connectivity" /\ Here # {}
                  THEN [k EXCEPT !.listed = Here, !.at = "pins"]
                ELSE PageDone(k)
<1>1. /\ h \in HandlerStates /\ Route(h) /\ Visit(h, page, project) /\ h.at = "list"
      /\ UNCHANGED <<page, project>>
      /\ Goes(r, g)
  <2>1. k = [h EXCEPT !.seen = [c \in Comps |-> @[c] + IF c \in Here THEN 1 ELSE 0]]
    OBVIOUS
  <2>2. QED
    BY <2>1 DEF HandlersTyped, WalksInv, ListPage, Kind, cacheVars, eda
<1>2. some \subseteq Comps /\ Here \subseteq Comps
  BY DEF Matching, Here
<1>3. h.req \in Menu /\ ~h.failed /\ (h.walks => h.todo # <<>> /\ h.req.kind \in Walkers)
      /\ (~h.walks => h.origin = None)
  BY <1>1 DEF Route, OnPage
<1>4. /\ s \in [Comps -> Nat]
      /\ \A c \in Comps : s[c] = h.seen[c] + IF HomePage[c] = page THEN 1 ELSE 0
      /\ k = [h EXCEPT !.seen = s]
  <2> HIDE DEF h
  <2>1. QED
    BY <1>1 DEF HandlerStates, Here
<1> HIDE DEF h, s, some, k
<1>5. /\ k \in HandlerStates /\ k.at = h.at /\ k.req = h.req /\ k.todo = h.todo
      /\ k.walks = h.walks /\ k.origin = h.origin /\ k.failed = h.failed
      /\ k.named = h.named /\ k.disturbed = h.disturbed /\ k.seen = s
  BY <1>1, <1>4 DEF HandlerStates
<1>6. ASSUME h.walks, ~h.disturbed, h.req.kind \in {"getAll", "connectivity"}
      PROVE  /\ Suffix(PagesOf[project], h.todo)
             /\ page = Head(h.todo)
             /\ Head(h.todo) \notin Before(PagesOf[project], h.todo)
             /\ \A c \in Comps :
                  k.seen[c] = IF HomePage[c] \in Before(PagesOf[project], h.todo) \cup {page}
                              THEN 1 ELSE 0
             /\ h.req.kind = "connectivity" => \A c \in Comps :
                  c \in h.named <=> HomePage[c] \in Before(PagesOf[project], h.todo)
  <2>1. \A c \in Comps : k.seen[c] = h.seen[c] + IF HomePage[c] = page THEN 1 ELSE 0
    BY <1>4, <1>5
  <2>2. QED
    BY <1>1, <1>5, <1>6, <2>1, Counted
<1>7. /\ g \in HandlerStates /\ Route(g) /\ g.at # "modify"
      /\ ComesBack(g, page) /\ Visit(g, page, project)
  <2>1. CASE h.req.kind = "swap"
    <3>1. g = Pick(h, some)
      BY <2>1
    <3>2. QED
      BY <1>1, <1>2, <1>3, <2>1, <3>1, PickWalks
  <2>2. CASE h.req.kind = "connectivity" /\ Here # {}
    <3>1. g = [k EXCEPT !.listed = Here, !.at = "pins"]
      BY <2>2
    <3>2. /\ g \in HandlerStates /\ g.at = "pins" /\ g.listed = Here
          /\ g.req = h.req /\ g.todo = h.todo /\ g.walks = h.walks
          /\ g.origin = h.origin /\ g.failed = h.failed /\ g.named = h.named
          /\ g.disturbed = h.disturbed /\ g.seen = k.seen
      BY <1>2, <1>5, <3>1 DEF HandlerStates
    <3> HIDE DEF g
    <3>3. Route(g)
      BY <1>3, <2>2, <3>2 DEF Route, OnPage
    <3>4. ComesBack(g, page)
      BY <3>2 DEF ComesBack
    <3>5. Visit(g, page, project)
      <4>1. SUFFICES ASSUME Undisturbed(g), g.walks
                     PROVE  /\ Suffix(PagesOf[project], g.todo)
                            /\ page = Head(g.todo)
                            /\ \A c \in Comps :
                                 g.seen[c] = IF HomePage[c] \in ReadPages(g, project)
                                             THEN 1 ELSE 0
                            /\ \A c \in g.listed : HomePage[c] = page
                            /\ g.req.kind = "connectivity" => \A c \in Comps :
                                 (c \in g.named \/ c \in g.listed)
                                   <=> HomePage[c] \in ReadPages(g, project)
        BY <3>2 DEF Visit
      <4>2. h.walks /\ ~h.disturbed /\ h.req.kind \in {"getAll", "connectivity"}
        BY <3>2, <4>1 DEF Undisturbed
      <4>3. ReadPages(g, project) = Before(PagesOf[project], h.todo) \cup {page}
        BY <1>6, <3>2, <4>2 DEF ReadPages
      <4>4. \A c \in Comps : c \in g.listed <=> HomePage[c] = page
        BY <3>2 DEF Here
      <4>5. \A c \in g.listed : HomePage[c] = page
        BY <3>2 DEF Here
      <4>6. QED
        BY <1>5, <1>6, <3>2, <4>2, <4>3, <4>4, <4>5
    <3>6. QED
      BY <3>2, <3>3, <3>4, <3>5
  <2>3. CASE ~(h.req.kind = "swap") /\ ~(h.req.kind = "connectivity" /\ Here # {})
    <3>1. g = PageDone(k)
      BY <2>3
    <3>2. (k.walks /\ ~k.disturbed /\ k.req.kind \in {"getAll", "connectivity"}) =>
            /\ Suffix(PagesOf[project], k.todo)
            /\ \A c \in Comps :
                 k.seen[c] = IF HomePage[c] \in Before(PagesOf[project], k.todo) \cup {Head(k.todo)}
                             THEN 1 ELSE 0
            /\ k.req.kind = "connectivity" => \A c \in Comps :
                 c \in k.named <=>
                   HomePage[c] \in Before(PagesOf[project], k.todo) \cup {Head(k.todo)}
      <4>1. SUFFICES ASSUME k.walks, ~k.disturbed, k.req.kind \in {"getAll", "connectivity"}
                     PROVE  /\ Suffix(PagesOf[project], k.todo)
                            /\ \A c \in Comps :
                                 k.seen[c] = IF HomePage[c] \in Before(PagesOf[project], k.todo) \cup {Head(k.todo)}
                                             THEN 1 ELSE 0
                            /\ k.req.kind = "connectivity" => \A c \in Comps :
                                 c \in k.named <=>
                                   HomePage[c] \in Before(PagesOf[project], k.todo) \cup {Head(k.todo)}
        OBVIOUS
      <4>2. k.req.kind = "connectivity" => \A c \in Comps : HomePage[c] # page
        BY <1>5, <2>3 DEF Here
      <4>3. QED
        BY <1>5, <1>6, <4>1, <4>2
    <3>3. /\ k.req \in Menu /\ ~k.failed
          /\ k.walks => k.req.kind \in Walkers /\ k.todo # <<>>
          /\ ~k.walks => k.origin = None
      BY <1>3, <1>5
    <3> HIDE DEF g
    <3>4. QED
      BY <1>5, <3>1, <3>2, <3>3, PageDoneWalks
  <2>4. QED
    BY <2>1, <2>2, <2>3
<1> HIDE DEF g
<1>8. QED
  BY <1>1, <1>7, StaysHere DEF Rereads

LEMMA ReadComponentWalks ==
  ASSUME HandlersTyped, WalksInv, NEW r \in Requests, ReadComponent(r)
  PROVE  (HandlersTyped /\ WalksInv)' /\ Rereads(r)
<1> DEFINE h == handler[r]
           g == [h EXCEPT !.at = "await"]
<1>1. /\ h \in HandlerStates /\ Route(h) /\ h.at = "list" /\ h.req.kind = "getAllPins"
      /\ Goes(r, g) /\ UNCHANGED <<page, project>>
  BY DEF HandlersTyped, WalksInv, ReadComponent, Kind, OnlyCall, eda
<1> HIDE DEF h
<1>2. /\ g \in HandlerStates /\ g.at = "await" /\ g.walks = h.walks /\ g.origin = h.origin
      /\ g.req = h.req /\ g.failed = h.failed
  BY <1>1 DEF HandlerStates
<1>3. Route(g) /\ ComesBack(g, page) /\ Visit(g, page, project)
  BY <1>1, <1>2 DEF Route, OnPage, Walkers, ComesBack, Visit, Undisturbed
<1>4. QED
  BY <1>1, <1>2, <1>3, StaysHere DEF Rereads

LEMMA fetchPinNamesWalks ==
  ASSUME HandlersTyped, WalksInv, project \in Projects, NEW r \in Requests, fetchPinNames(r)
  PROVE  (HandlersTyped /\ WalksInv)' /\ Rereads(r)
<1> DEFINE h == handler[r]
<1>1. PICK c \in h.listed :
        LET read == [h EXCEPT !.listed = @ \ {c}, !.named = @ \cup ({c} \cap Here)]
        IN Goes(r, IF read.listed = {} THEN PageDone(read) ELSE read)
  BY DEF fetchPinNames
<1> DEFINE rest == h.listed \ {c}
           names == h.named \cup ({c} \cap Here)
           k == [h EXCEPT !.listed = rest, !.named = names]
           g == IF k.listed = {} THEN PageDone(k) ELSE k
<1>2. /\ h \in HandlerStates /\ Route(h) /\ Visit(h, page, project) /\ h.at = "pins"
      /\ UNCHANGED <<page, project>>
  BY DEF HandlersTyped, WalksInv, fetchPinNames, cacheVars, eda
<1>3. Goes(r, g)
  BY <1>1
<1> HIDE DEF h
<1>4. c \in Comps /\ rest \in SUBSET Comps /\ names \in SUBSET Comps
  BY <1>2 DEF HandlerStates
<1>5. /\ \A d \in Comps : (d \in names \/ d \in rest) => (d \in h.named \/ d \in h.listed)
      /\ c \in Here => \A d \in Comps :
           (d \in names \/ d \in rest) <=> (d \in h.named \/ d \in h.listed)
      /\ rest \subseteq h.listed
  BY <1>4
<1> HIDE DEF rest, names
<1>6. /\ k \in HandlerStates /\ k.at = "pins" /\ k.listed = rest /\ k.named = names
      /\ k.req = h.req /\ k.todo = h.todo /\ k.walks = h.walks /\ k.origin = h.origin
      /\ k.failed = h.failed /\ k.disturbed = h.disturbed /\ k.seen = h.seen
  BY <1>2, <1>4 DEF HandlerStates
<1> HIDE DEF k
<1>7. h.req \in Menu /\ ~h.failed /\ h.req.kind = "connectivity"
      /\ (h.walks => h.todo # <<>>) /\ (~h.walks => h.origin = None)
  BY <1>2 DEF Route, OnPage
<1>8. ASSUME h.walks, ~h.disturbed
      PROVE  /\ Suffix(PagesOf[project], h.todo)
             /\ page = Head(h.todo)
             /\ \A d \in Comps : k.seen[d] =
                  IF HomePage[d] \in Before(PagesOf[project], h.todo) \cup {page} THEN 1 ELSE 0
             /\ \A d \in k.listed : HomePage[d] = page
             /\ \A d \in Comps : (d \in k.named \/ d \in k.listed) <=>
                  HomePage[d] \in Before(PagesOf[project], h.todo) \cup {page}
  <2>1. Undisturbed(h)
    BY <1>2, <1>7, <1>8 DEF Undisturbed
  <2>2. ReadPages(h, project) = Before(PagesOf[project], h.todo) \cup {page}
    BY <1>2, <1>8, <2>1 DEF Visit, ReadPages
  <2>3. c \in Here
    BY <1>2, <1>4, <1>8, <2>1 DEF Visit, Here
  <2>4. QED
    BY <1>2, <1>5, <1>6, <1>7, <1>8, <2>1, <2>2, <2>3 DEF Visit
<1>9. /\ g \in HandlerStates /\ Route(g) /\ g.at # "modify"
      /\ ComesBack(g, page) /\ Visit(g, page, project)
  <2>1. CASE rest = {}
    <3>1. g = PageDone(k)
      BY <1>6, <2>1
    <3>2. (k.walks /\ ~k.disturbed /\ k.req.kind \in {"getAll", "connectivity"}) =>
            /\ Suffix(PagesOf[project], k.todo)
            /\ \A d \in Comps :
                 k.seen[d] = IF HomePage[d] \in Before(PagesOf[project], k.todo) \cup {Head(k.todo)}
                             THEN 1 ELSE 0
            /\ k.req.kind = "connectivity" => \A d \in Comps :
                 d \in k.named <=>
                   HomePage[d] \in Before(PagesOf[project], k.todo) \cup {Head(k.todo)}
      BY <1>6, <1>8, <2>1
    <3>3. k.walks => k.req.kind \in Walkers /\ k.todo # <<>>
      BY <1>6, <1>7 DEF Walkers
    <3>4. QED
      BY <1>6, <1>7, <3>1, <3>2, <3>3, PageDoneWalks
  <2>2. CASE rest # {}
    <3>1. g = k
      BY <1>6, <2>2
    <3>2. Route(k)
      BY <1>2, <1>6, <1>7 DEF Route, OnPage
    <3>3. ComesBack(k, page)
      BY <1>6 DEF ComesBack
    <3>4. Visit(k, page, project)
      <4>1. SUFFICES ASSUME Undisturbed(k), k.walks
                     PROVE  /\ Suffix(PagesOf[project], k.todo)
                            /\ page = Head(k.todo)
                            /\ \A d \in Comps :
                                 k.seen[d] = IF HomePage[d] \in ReadPages(k, project)
                                             THEN 1 ELSE 0
                            /\ \A d \in k.listed : HomePage[d] = page
                            /\ \A d \in Comps :
                                 (d \in k.named \/ d \in k.listed)
                                   <=> HomePage[d] \in ReadPages(k, project)
        BY <1>6 DEF Visit
      <4>2. h.walks /\ ~h.disturbed
        BY <1>6, <4>1 DEF Undisturbed
      <4>3. ReadPages(k, project) = Before(PagesOf[project], h.todo) \cup {page}
        BY <1>6, <1>8, <4>2 DEF ReadPages
      <4>4. QED
        BY <1>6, <1>8, <4>2, <4>3
    <3>5. QED
      BY <1>6, <3>1, <3>2, <3>3, <3>4
  <2>3. QED
    BY <2>1, <2>2
<1> HIDE DEF g
<1>10. QED
  BY <1>2, <1>3, <1>9, StaysHere DEF Rereads

(* The step before and after a modify.  A walk that modifies is a swap's,  *)
(* which says nothing of what it read.                                     *)
LEMMA TakeSnapshotWalks ==
  ASSUME HandlersTyped, WalksInv, stored \in [Comps -> [Fields -> Values]],
         NEW r \in Requests, TakeSnapshot(r)
  PROVE  /\ (HandlersTyped /\ WalksInv)' /\ Others({r})
         /\ handler'[r].target \in Comps
         /\ handler'[r].snapshot = stored[handler'[r].target]
<1> DEFINE h == handler[r]
<1>1. /\ h \in HandlerStates /\ Route(h) /\ h.at = "snapshot"
      /\ UNCHANGED <<page, project>>
  BY DEF HandlersTyped, WalksInv, TakeSnapshot, cacheVars, eda
<1>2. PICK c \in IF h.req.kind = "swap" THEN h.listed ELSE {h.target} :
        Goes(r, [h EXCEPT !.target = c, !.snapshot = stored[c], !.at = "modify"])
  BY DEF TakeSnapshot, Kind
<1> DEFINE s == stored[c]
           g == [h EXCEPT !.target = c, !.snapshot = s, !.at = "modify"]
<1>3. Goes(r, g)
  BY <1>2
<1> HIDE DEF h
<1>4. c \in Comps /\ s \in [Fields -> Values]
  BY <1>1, <1>2 DEF Route, HandlerStates
<1> HIDE DEF s
<1>5. /\ g \in HandlerStates /\ g.at = "modify" /\ g.target = c /\ g.snapshot = s
      /\ g.req = h.req /\ g.todo = h.todo /\ g.walks = h.walks /\ g.origin = h.origin
      /\ g.failed = h.failed
  BY <1>1, <1>4 DEF HandlerStates
<1>6. Route(g) /\ ComesBack(g, page) /\ Visit(g, page, project)
  BY <1>1, <1>4, <1>5 DEF Route, OnPage, ComesBack, Visit, Undisturbed
<1> HIDE DEF g
<1>7. QED
  BY <1>1, <1>3, <1>4, <1>5, <1>6, StaysHere DEF s

LEMMA ModifyLandsWalks ==
  ASSUME HandlersTyped, WalksInv, NEW r \in Requests, ModifyLands(r)
  PROVE  (HandlersTyped /\ WalksInv)' /\ Rereads(r)
<1> DEFINE h == handler[r]
           n == h.wrote + 1
           g == [h EXCEPT !.at = "modified", !.wrote = n]
<1>1. /\ h \in HandlerStates /\ Route(h) /\ h.at = "modify"
      /\ Goes(r, g) /\ UNCHANGED <<page, project>>
  BY DEF HandlersTyped, WalksInv, ModifyLands
<1> HIDE DEF h
<1>2. n \in Nat
  BY <1>1 DEF HandlerStates
<1> HIDE DEF n
<1>3. /\ g \in HandlerStates /\ g.at = "modified" /\ g.req = h.req /\ g.todo = h.todo
      /\ g.walks = h.walks /\ g.origin = h.origin /\ g.failed = h.failed
  BY <1>1, <1>2 DEF HandlerStates
<1>4. Route(g) /\ ComesBack(g, page) /\ Visit(g, page, project)
  BY <1>1, <1>3 DEF Route, OnPage, ComesBack, Visit, Undisturbed
<1> HIDE DEF g
<1>5. QED
  BY <1>1, <1>3, <1>4, StaysHere DEF Rereads

LEMMA ModifyResolvesWalks ==
  ASSUME HandlersTyped, WalksInv, project \in Projects, NEW r \in Requests, ModifyResolves(r)
  PROVE  (HandlersTyped /\ WalksInv)' /\ Rereads(r)
<1> DEFINE h == handler[r]
           k == [h EXCEPT !.snapshot = None, !.target = None]
           rest == k.listed \ {h.target}
           g == IF h.req.kind = "swap" THEN Pick(k, rest) ELSE [k EXCEPT !.at = "ended"]
<1>1. /\ h \in HandlerStates /\ Route(h) /\ h.at = "modified"
      /\ Goes(r, g) /\ UNCHANGED <<page, project>>
  BY DEF HandlersTyped, WalksInv, ModifyResolves, Kind, eda
<1> HIDE DEF h
<1>2. /\ k \in HandlerStates /\ k.req = h.req /\ k.todo = h.todo /\ k.walks = h.walks
      /\ k.origin = h.origin /\ k.failed = h.failed /\ k.listed = h.listed
  BY <1>1 DEF HandlerStates
<1>3. rest \in SUBSET Comps
  BY <1>2 DEF HandlerStates
<1>4. h.req \in Menu /\ ~h.failed /\ h.req.kind \in {"swap", "modify"}
      /\ (h.walks => h.todo # <<>> /\ h.req.kind \in Walkers) /\ (~h.walks => h.origin = None)
  BY <1>1 DEF Route, OnPage
<1> HIDE DEF k, rest
<1>5. /\ g \in HandlerStates /\ Route(g) /\ g.at # "modify"
      /\ ComesBack(g, page) /\ Visit(g, page, project)
  <2>1. CASE h.req.kind = "swap"
    <3>1. g = Pick(k, rest)
      BY <2>1
    <3>2. QED
      BY <1>2, <1>3, <1>4, <2>1, <3>1, PickWalks
  <2>2. CASE h.req.kind # "swap"
    <3>1. g = [k EXCEPT !.at = "ended"]
      BY <2>2
    <3>2. /\ g \in HandlerStates /\ g.at = "ended" /\ g.req = h.req /\ g.walks = h.walks
          /\ g.origin = h.origin /\ g.failed = h.failed
      BY <1>2, <3>1 DEF HandlerStates
    <3> HIDE DEF g
    <3>3. QED
      BY <1>4, <2>2, <3>2 DEF Route, OnPage, Walkers, ComesBack, Visit
  <2>3. QED
    BY <2>1, <2>2
<1> HIDE DEF g
<1>6. QED
  BY <1>1, <1>5, StaysHere DEF Rereads

LEMMA WriteLandsWalks ==
  ASSUME HandlersTyped, WalksInv, NEW r \in Requests, WriteLands(r)
  PROVE  (HandlersTyped /\ WalksInv)' /\ Rereads(r)
<1> DEFINE h == handler[r]
           n == h.wrote + 1
           to == IF n = h.req.items THEN "written" ELSE h.at
           g == [h EXCEPT !.wrote = n, !.at = to]
<1>1. /\ h \in HandlerStates /\ Route(h) /\ h.at = "write"
      /\ Goes(r, g) /\ UNCHANGED <<page, project>>
  BY DEF HandlersTyped, WalksInv, WriteLands, eda
<1>2. to \in {"write", "written"}
  BY <1>1
<1> HIDE DEF h, to
<1>3. n \in Nat
  BY <1>1 DEF HandlerStates
<1> HIDE DEF n
<1>4. /\ g \in HandlerStates /\ g.at = to /\ g.req = h.req /\ g.walks = h.walks
      /\ g.origin = h.origin /\ g.failed = h.failed
  BY <1>1, <1>2, <1>3 DEF HandlerStates
<1> HIDE DEF g
<1>5. Route(g) /\ ComesBack(g, page) /\ Visit(g, page, project)
  BY <1>1, <1>2, <1>4 DEF Route, OnPage, Walkers, ComesBack, Visit, Undisturbed
<1>6. QED
  BY <1>1, <1>2, <1>4, <1>5, StaysHere DEF Rereads

LEMMA WriteResolvesWalks ==
  ASSUME HandlersTyped, WalksInv, NEW r \in Requests, WriteResolves(r)
  PROVE  (HandlersTyped /\ WalksInv)' /\ Rereads(r)
<1> DEFINE h == handler[r]
           g == [h EXCEPT !.at = "ended"]
<1>1. /\ h \in HandlerStates /\ Route(h) /\ h.at = "written"
      /\ Goes(r, g) /\ UNCHANGED <<page, project>>
  BY DEF HandlersTyped, WalksInv, WriteResolves, eda
<1> HIDE DEF h
<1>2. /\ g \in HandlerStates /\ g.at = "ended" /\ g.req = h.req /\ g.walks = h.walks
      /\ g.origin = h.origin /\ g.failed = h.failed
  BY <1>1 DEF HandlerStates
<1> HIDE DEF g
<1>3. Route(g) /\ ComesBack(g, page) /\ Visit(g, page, project)
  BY <1>1, <1>2 DEF Route, OnPage, Walkers, ComesBack, Visit, Undisturbed
<1>4. QED
  BY <1>1, <1>2, <1>3, StaysHere DEF Rereads

LEMMA NetlistArrivesWalks ==
  ASSUME HandlersTyped, WalksInv, NEW r \in Requests, NetlistArrives(r)
  PROVE  (HandlersTyped /\ WalksInv)' /\ Rereads(r)
<1> DEFINE h == handler[r]
           swaps == h.req.kind = "swap"
           to == IF swaps THEN (IF h.req.all THEN "pages" ELSE "list") ELSE "ended"
           fails == IF swaps THEN h.failed ELSE call[r].at = "failed"
           g == [h EXCEPT !.at = to, !.failed = fails]
<1>1. /\ h \in HandlerStates /\ Route(h) /\ Visit(h, page, project)
      /\ ComesBack(h, page) /\ h.at = "await"
      /\ UNCHANGED <<page, project>>
  BY DEF HandlersTyped, WalksInv, NetlistArrives, cacheVars, eda
<1>2. Goes(r, IF swaps THEN [h EXCEPT !.at = IF h.req.all THEN "pages" ELSE "list"]
              ELSE [h EXCEPT !.at = "ended", !.failed = (call[r].at = "failed")])
  BY DEF NetlistArrives, Kind
<1>3. fails \in BOOLEAN /\ ~h.failed
  BY <1>1 DEF HandlerStates, Route
<1>4. Goes(r, g)
  <2>1. CASE swaps
    <3>1. g = [h EXCEPT !.at = IF h.req.all THEN "pages" ELSE "list"]
      BY <1>1, <2>1 DEF HandlerStates
    <3>2. QED
      BY <1>2, <2>1, <3>1
  <2>2. CASE ~swaps
    <3>1. g = [h EXCEPT !.at = "ended", !.failed = (call[r].at = "failed")]
      BY <2>2
    <3>2. QED
      BY <1>2, <2>2, <3>1
  <2>3. QED
    BY <2>1, <2>2
<1>5. /\ swaps => to \in {"pages", "list"} /\ ~fails
      /\ ~swaps => to = "ended"
  BY <1>3
<1> HIDE DEF h, to, fails
<1>6. /\ g \in HandlerStates /\ g.at = to /\ g.failed = fails /\ g.req = h.req
      /\ g.walks = h.walks /\ g.origin = h.origin /\ g.todo = h.todo /\ g.seen = h.seen
      /\ g.named = h.named /\ g.listed = h.listed /\ g.disturbed = h.disturbed
      /\ g.stuck = h.stuck
  BY <1>1, <1>3, <1>5 DEF HandlerStates
<1> HIDE DEF g
<1>7. Route(g)
  BY <1>1, <1>3, <1>5, <1>6 DEF Route, OnPage, Walkers
<1>8. ComesBack(g, page)
  BY <1>1, <1>5, <1>6 DEF ComesBack
<1>9. Visit(g, page, project)
  BY <1>1, <1>3, <1>5, <1>6 DEF Visit, Undisturbed, ReadPages
<1>10. QED
  BY <1>1, <1>4, <1>5, <1>6, <1>7, <1>8, <1>9, StaysHere DEF Rereads

-----------------------------------------------------------------------------
(* The user, and the steps of nobody's handler.                            *)

LEMMA UserMovesWalks ==
  ASSUME HandlersTyped, WalksInv, project \in Projects,
         \/ \E p \in Range(PagesOf[project]) \cup {Board} : UserOpens(p)
         \/ \E p \in Projects : UserSwitches(p)
  PROVE  (HandlersTyped /\ WalksInv)' /\ Others({})
<1>1. handler' = Disturb({}) /\ slot' = slot
  BY DEF UserOpens, UserSwitches
<1>2. page' \in Pages \cup {Board}
  <2>1. ASSUME NEW p \in Projects PROVE Range(PagesOf[p]) \subseteq Pages
    BY DEF Pages
  <2>2. ASSUME NEW p \in Projects PROVE Head(PagesOf[p]) \in Range(PagesOf[p])
    <3> DEFINE L == PagesOf[p]
    <3>1. L \in Seq(Range(L)) /\ L # <<>>
      BY PagesAssumption
    <3> HIDE DEF L
    <3>2. Head(L) \in Range(L)
      BY <3>1, HeadTailProperties
    <3>3. QED
      BY <3>2 DEF L
  <2>3. QED
    BY <2>1, <2>2 DEF UserOpens, UserSwitches
<1>3. /\ handler' \in [Requests -> HandlerStates]
      /\ Others({})
  <2>1. handler' = [s \in Requests |-> handler'[s]]
    BY <1>1 DEF Disturb
  <2>2. \A s \in Requests :
          /\ handler'[s] \in HandlerStates
          /\ Kept(handler[s], handler'[s])
          /\ (handler[s].at = "idle" \/ handler'[s].disturbed)
    BY <1>1, Disturbed
  <2>3. QED
    BY <2>1, <2>2 DEF Others
<1>4. HandlersTyped'
  BY <1>1, <1>2, <1>3 DEF HandlersTyped
<1>5. QED
  BY <1>3, <1>4, NobodyWalks

LEMMA OutsideWalks ==
  ASSUME HandlersTyped, WalksInv, UNCHANGED <<page, project, handler>>,
         slot' \in Requests \cup {None}
  PROVE  (HandlersTyped /\ WalksInv)' /\ Others({})
<1>1. Others({})
  BY DEF HandlersTyped, Others, Kept
<1>2. HandlersTyped'
  BY DEF HandlersTyped
<1>3. QED
  BY <1>1, <1>2, NobodyWalks

LEMMA NetlistLeavesProject ==
  ASSUME NetlistStep \/ NetlistTrouble
  PROVE  UNCHANGED project
BY DEF NetlistStep, NetlistTrouble, currentProjectUuid, ServeFromCache, JoinInflight,
       StartFetch, fetchRawNetlist, FetchLands, FetchFails, EntryExpires

-----------------------------------------------------------------------------
(* What EasyEDA stores, and what it was meant to store.                    *)

(* A handler midway through a modify holds what is stored, unless somebody *)
(* edited the component in between.                                        *)
Fresh(h) == h.at = "modify" /\ h.target \notin raced => h.snapshot = stored[h.target]

DataTyped ==
  /\ stored \in [Comps -> [Fields -> Values]]
  /\ intended \in [Comps -> [Fields -> Values]]
  /\ raced \subseteq Comps

DataInv ==
  /\ DataTyped
  /\ \A r \in Requests : Fresh(handler[r])
  /\ MetadataSurvives

Untouched == UNCHANGED <<stored, intended, raced>>

LEMMA UntouchedData ==
  ASSUME DataInv, Untouched, \A r \in Requests : Fresh(handler[r])'
  PROVE  DataInv'
BY DEF DataInv, DataTyped, MetadataSurvives, Untouched

LEMMA OthersAreFresh ==
  ASSUME DataInv, Untouched, NEW who, Others(who), NEW s \in Requests \ who
  PROVE  Fresh(handler[s])'
BY DEF DataInv, Untouched, Others, Kept, Fresh

LEMMA RereadsData ==
  ASSUME DataInv, Untouched, NEW r \in Requests, Rereads(r)
  PROVE  DataInv'
<1>1. Fresh(handler[r])'
  BY DEF Rereads, Fresh
<1>2. QED
  BY <1>1, OthersAreFresh, UntouchedData DEF Rereads

LEMMA NobodyData ==
  ASSUME DataInv, Untouched, Others({})
  PROVE  DataInv'
BY OthersAreFresh, UntouchedData

LEMMA TakeSnapshotData ==
  ASSUME HandlersTyped, WalksInv, DataInv, NEW r \in Requests, TakeSnapshot(r)
  PROVE  DataInv'
<1>1. Untouched
  BY DEF TakeSnapshot, eda, Untouched
<1>2. /\ Others({r})
      /\ handler'[r].snapshot = stored[handler'[r].target]
  BY TakeSnapshotWalks DEF DataInv, DataTyped
<1>3. Fresh(handler[r])'
  BY <1>1, <1>2 DEF Fresh, Untouched
<1>4. QED
  BY <1>1, <1>2, <1>3, OthersAreFresh, UntouchedData

(* What a modify puts in the fields it is not asked to replace.            *)
LEMMA ModifyPuts ==
  ASSUME NEW s \in [Fields -> Values]
  PROVE  modify(preserveMetadataOnModify(property, s)) =
           [f \in Fields |-> IF f \in Replaced THEN NewValue ELSE s[f]]
<1>1. DOMAIN property = Replaced /\ \A f \in Replaced : property[f] = NewValue
  BY DEF property
<1> DEFINE merged == preserveMetadataOnModify(property, s)
<1>2. merged = [f \in Fields |-> IF f \in Replaced THEN NewValue ELSE s[f]]
  BY <1>1 DEF preserveMetadataOnModify
<1> HIDE DEF merged
<1>3. modify(merged) = merged
  BY <1>2 DEF modify
<1>4. QED
  BY <1>2, <1>3 DEF merged

LEMMA ModifyLandsData ==
  ASSUME HandlersTyped, WalksInv, DataInv, NEW r \in Requests, ModifyLands(r)
  PROVE  DataInv'
<1> DEFINE h == handler[r]
           c == h.target
           puts(s) == [f \in Fields |-> IF f \in Replaced THEN NewValue ELSE s[f]]
<1>1. c \in Comps /\ h.snapshot \in [Fields -> Values] /\ h.at = "modify"
  BY DEF WalksInv, Route, ModifyLands
<1>2. /\ stored' = [stored EXCEPT ![c] = puts(h.snapshot)]
      /\ intended' = [intended EXCEPT ![c] = puts(intended[c])]
      /\ raced' = IF Midway(c) = {r} THEN raced ELSE raced \cup {c}
  BY <1>1, ModifyPuts DEF ModifyLands
<1>3. \A s \in [Fields -> Values] : puts(s) \in [Fields -> Values]
  BY DEF Values
<1>4. Rereads(r)
  BY ModifyLandsWalks
<1> HIDE DEF puts
<1>5. DataTyped'
  BY <1>1, <1>2, <1>3 DEF DataInv, DataTyped
<1>6. raced \subseteq raced' /\ (c \notin raced' => Midway(c) = {r})
  BY <1>2
<1>7. ASSUME NEW s \in Requests PROVE Fresh(handler[s])'
  <2>1. CASE s = r
    BY <1>4, <2>1 DEF Rereads, Fresh
  <2>2. CASE s # r
    <3>1. SUFFICES ASSUME handler'[s].at = "modify", handler'[s].target \notin raced'
                   PROVE  handler'[s].snapshot = stored'[handler'[s].target]
      BY DEF Fresh
    <3>2. /\ handler[s].at = "modify" /\ handler[s].target = handler'[s].target
          /\ handler[s].snapshot = handler'[s].snapshot
      BY <1>4, <2>2, <3>1 DEF Rereads, Others, Kept
    <3>3. handler[s].target \in Comps
      BY <3>2 DEF WalksInv, Route
    <3>4. handler[s].target # c
      BY <1>6, <2>2, <3>1, <3>2 DEF Midway
    <3>5. handler[s].snapshot = stored[handler[s].target]
      BY <1>6, <3>1, <3>2 DEF DataInv, Fresh
    <3>6. stored'[handler[s].target] = stored[handler[s].target]
      BY <1>2, <3>3, <3>4 DEF DataInv, DataTyped
    <3>7. QED
      BY <3>2, <3>5, <3>6
  <2>3. QED
    BY <2>1, <2>2
<1>8. MetadataSurvives'
  <2> SUFFICES ASSUME NEW d \in Comps, d \notin raced' PROVE stored'[d] = intended'[d]
    BY DEF MetadataSurvives
  <2>1. stored[d] = intended[d]
    BY <1>6 DEF DataInv, MetadataSurvives
  <2>2. CASE d = c
    <3>1. h.snapshot = stored[c]
      BY <1>1, <1>6, <2>2 DEF DataInv, Fresh
    <3>2. QED
      BY <1>1, <1>2, <2>1, <2>2, <3>1 DEF DataInv, DataTyped
  <2>3. CASE d # c
    BY <1>2, <2>1, <2>3 DEF DataInv, DataTyped
  <2>4. QED
    BY <2>2, <2>3
<1>9. QED
  BY <1>5, <1>7, <1>8 DEF DataInv

LEMMA UserEditsData ==
  ASSUME HandlersTyped, DataInv, NEW c \in Comps, NEW f \in Fields, UserEditsComponent(c, f)
  PROVE  DataInv'
<1> DEFINE puts(s) == [s EXCEPT ![f] = Wanted]
<1>1. /\ stored' = [stored EXCEPT ![c] = puts(stored[c])]
      /\ intended' = [intended EXCEPT ![c] = puts(intended[c])]
      /\ raced' = IF Midway(c) = {} THEN raced ELSE raced \cup {c}
      /\ handler' = handler
  BY DEF UserEditsComponent
<1>2. \A s \in [Fields -> Values] : puts(s) \in [Fields -> Values]
  BY DEF Values
<1> HIDE DEF puts
<1>3. DataTyped'
  BY <1>1, <1>2 DEF DataInv, DataTyped
<1>4. ASSUME NEW s \in Requests PROVE Fresh(handler[s])'
  BY <1>1 DEF DataInv, DataTyped, Fresh, Midway
<1>5. MetadataSurvives'
  BY <1>1 DEF DataInv, DataTyped, MetadataSurvives
<1>6. QED
  BY <1>3, <1>4, <1>5 DEF DataInv

-----------------------------------------------------------------------------
(* The inductive invariant of the handlers.                                *)

HandlersInv == HandlersTyped /\ WalksInv /\ DataInv /\ events \in 0..MaxEvents

LEMMA HandlersInitInv == EditorInit => HandlersInv
<1> SUFFICES ASSUME EditorInit PROVE HandlersInv
  OBVIOUS
<1>1. /\ project \in Projects /\ page \in Pages \cup {Board}
      /\ handler = [r \in Requests |-> IdleHandler] /\ slot = None /\ events = 0
      /\ stored = Metadata /\ intended = Metadata /\ raced = {}
  BY DEF EditorInit, Init, NoSchematic, CacheInit, Pages
<1>2. HandlersTyped
  BY <1>1 DEF HandlersTyped, IdleHandler, HandlerStates
<1>3. WalksInv
  BY <1>1 DEF WalksInv, IdleHandler, Route, OnPage, ComesBack, Visit, Undisturbed
<1>4. DataInv
  BY <1>1, HandlersAssumption
     DEF DataInv, DataTyped, Fresh, IdleHandler, MetadataSurvives
<1>5. events \in 0..MaxEvents
  BY <1>1, HandlersAssumption
<1>6. QED
  BY <1>2, <1>3, <1>4, <1>5 DEF HandlersInv

LEMMA HandlerStepInv ==
  ASSUME HandlersInv, project \in Projects, NEW r \in Requests,
         HandlerStep(r) \/ HandlerTrouble(r)
  PROVE  (HandlersTyped /\ WalksInv /\ DataInv)'
<1> USE DEF HandlersInv
<1>1. CASE TakeSnapshot(r)
  <2>1. stored \in [Comps -> [Fields -> Values]]
    BY DEF DataInv, DataTyped
  <2>2. QED
    BY <1>1, <2>1, TakeSnapshotWalks, TakeSnapshotData
<1>2. CASE ModifyLands(r)
  BY <1>2, ModifyLandsWalks, ModifyLandsData
<1>3. ASSUME (HandlersTyped /\ WalksInv)' /\ Rereads(r), Untouched
      PROVE  (HandlersTyped /\ WalksInv /\ DataInv)'
  BY <1>3, RereadsData
<1>4. CASE WalkStarts(r) \/ OpenPage(r) \/ VerifyPage(r) \/ NoPageList(r) \/ PageStaysShut(r)
  <2>1. Untouched
    BY <1>4 DEF WalkStarts, OpenPage, Opens, VerifyPage, NoPageList, PageStaysShut, eda, Untouched
  <2>2. QED
    BY <1>3, <1>4, <2>1, WalkStartsWalks, OpenPageWalks, VerifyPageWalks, NoPageListWalks
<1>5. CASE RestorePage(r) \/ RestoreFails(r) \/ CallRejects(r)
  <2>1. Untouched
    BY <1>5 DEF RestorePage, RestoreFails, Opens, CallRejects, eda, Untouched
  <2>2. QED
    BY <1>3, <1>5, <2>1, RestorePageWalks, RestoreFailsWalks, CallRejectsWalks
<1>6. CASE ListPage(r) \/ ReadComponent(r) \/ fetchPinNames(r) \/ NetlistArrives(r)
  <2>1. Untouched
    BY <1>6 DEF ListPage, ReadComponent, fetchPinNames, NetlistArrives, eda, Untouched
  <2>2. QED
    BY <1>3, <1>6, <2>1, ListPageWalks, ReadComponentWalks, fetchPinNamesWalks,
       NetlistArrivesWalks
<1>7. CASE ModifyResolves(r) \/ WriteLands(r) \/ WriteResolves(r) \/ Collected(r)
  <2>1. Untouched
    BY <1>7 DEF ModifyResolves, WriteLands, WriteResolves, Collected, eda, Untouched
  <2>2. QED
    BY <1>3, <1>7, <2>1, ModifyResolvesWalks, WriteLandsWalks, WriteResolvesWalks,
       CollectedWalks
<1>8. QED
  BY <1>1, <1>2, <1>4, <1>5, <1>6, <1>7 DEF HandlerStep, HandlerTrouble

LEMMA UserStepInv ==
  ASSUME HandlersInv, project \in Projects, UserStep
  PROVE  (HandlersTyped /\ WalksInv /\ DataInv)'
<1> USE DEF HandlersInv
<1>1. ASSUME NEW c \in Comps, NEW f \in Fields, UserEditsComponent(c, f)
      PROVE  (HandlersTyped /\ WalksInv /\ DataInv)'
  <2>1. UNCHANGED <<page, project, handler, slot>>
    BY <1>1 DEF UserEditsComponent
  <2>2. (HandlersTyped /\ WalksInv)'
    BY <2>1, OutsideWalks DEF HandlersTyped
  <2>3. QED
    BY <1>1, <2>2, UserEditsData
<1>2. CASE UserEdits
  <2>1. UNCHANGED <<page, project, handler, slot>> /\ Untouched
    BY <1>2 DEF UserEdits, eda, Untouched
  <2>2. (HandlersTyped /\ WalksInv)' /\ Others({})
    BY <2>1, OutsideWalks DEF HandlersTyped
  <2>3. QED
    BY <2>1, <2>2, NobodyData
<1>3. CASE \/ \E p \in Range(PagesOf[project]) \cup {Board} : UserOpens(p)
           \/ \E p \in Projects : UserSwitches(p)
  <2>1. Untouched
    BY <1>3 DEF UserOpens, UserSwitches, Untouched
  <2>2. (HandlersTyped /\ WalksInv)' /\ Others({})
    BY <1>3, UserMovesWalks
  <2>3. QED
    BY <2>1, <2>2, NobodyData
<1>4. QED
  BY <1>1, <1>2, <1>3 DEF UserStep

LEMMA OutsideInv ==
  ASSUME HandlersInv, UNCHANGED <<page, project, handler, stored, intended, raced>>,
         slot' \in Requests \cup {None}
  PROVE  (HandlersTyped /\ WalksInv /\ DataInv)'
BY OutsideWalks, NobodyData DEF HandlersInv, Untouched

LEMMA HandlersStepInv ==
  HandlersInv /\ project \in Projects /\ [EditorNext]_editorVars => HandlersInv'
<1> SUFFICES ASSUME HandlersInv, project \in Projects, [EditorNext]_editorVars
             PROVE  HandlersInv'
  OBVIOUS
<1> DEFINE Parts == HandlersTyped /\ WalksInv /\ DataInv
<1>1. ASSUME NetlistStep \/ NetlistTrouble, OutsideHandlers PROVE Parts'
  <2>1. UNCHANGED <<page, project, handler, stored, intended, raced, slot>>
    BY <1>1, NetlistLeavesProject DEF OutsideHandlers, eda
  <2>2. QED
    BY <2>1, OutsideInv DEF HandlersInv, HandlersTyped
<1>2. ASSUME AsItShould PROVE Parts' /\ events' = events
  BY <1>1, <1>2, HandlerStepInv DEF AsItShould
<1>3. ASSUME NewRequest PROVE Parts' /\ events' \in 0..MaxEvents
  <2>1. PICK r \in Requests, q \in Menu : Begin(r, q) /\ Counts(IF q.all THEN 2 ELSE 1)
    BY <1>3 DEF NewRequest
  <2>2. Untouched
    BY <2>1 DEF Begin, eda, Untouched
  <2>3. events' \in 0..MaxEvents
    BY <2>1, HandlersAssumption DEF Counts, HandlersInv
  <2>4. QED
    BY <2>1, <2>2, <2>3, BeginWalks, RereadsData DEF HandlersInv
<1>4. ASSUME Mishap PROVE Parts' /\ events' \in 0..MaxEvents
  <2>1. events' \in 0..MaxEvents
    BY <1>4, HandlersAssumption DEF Mishap, Counts, HandlersInv
  <2>2. CASE SlotTimesOut
    BY <2>1, <2>2, OutsideInv DEF SlotTimesOut, cacheVars, eda
  <2>3. QED
    BY <1>1, <1>4, <2>1, <2>2, HandlerStepInv, UserStepInv DEF Mishap
<1>5. CASE SchematicTask
  BY <1>2, <1>3, <1>4, <1>5 DEF SchematicTask, Next, HandlersInv
<1>6. CASE ConnectivityTask \/ BoardTask \/ UNCHANGED editorVars
  <2>1. UNCHANGED <<page, project, handler, stored, intended, raced, slot, events>>
    BY <1>6 DEF ConnectivityTask, BoardTask, editorVars, vars, cacheVars, eda
  <2>2. QED
    BY <2>1, OutsideInv DEF HandlersInv, HandlersTyped
<1>7. QED
  BY <1>5, <1>6 DEF EditorNext

LEMMA HandlersInvAlways == EditorSpec => []HandlersInv
<1>1. CacheInv => project \in Projects
  BY DEF CacheInv, CacheTypeOK
<1>2. CacheInv /\ [EditorNext]_editorVars => CacheInv'
  BY <1>1, StepIsCacheStep, CacheStep
<1>3. QED
  BY <1>1, <1>2, InitIsCacheInit, CacheInitInv, HandlersInitInv, HandlersStepInv, PTL
     DEF EditorSpec

(* The types of everything the schematic handlers keep.                    *)
THEOREM HandlersTypeCorrect == EditorSpec => []TypeOK
<1>1. CacheInv /\ HandlersInv => TypeOK
  BY DEF CacheInv, HandlersInv, HandlersTyped, DataInv, DataTyped, TypeOK
<1>2. CacheSpec => []CacheInv
  BY CacheInitInv, CacheStep, PTL DEF CacheSpec
<1>3. QED
  BY <1>1, <1>2, HandlersUseTheCache, HandlersInvAlways, PTL

(* However a walk of the pages ends, the editor shows the page the user    *)
(* had open, unless EasyEDA refuses or somebody else changed pages; for    *)
(* any projects and pages, and any number of handlers left running.        *)
THEOREM HandlersComeBack == EditorSpec => []PageComesBack
<1>1. HandlersInv => PageComesBack
  BY DEF HandlersInv, WalksInv, ComesBack, PageComesBack
<1>2. QED
  BY <1>1, HandlersInvAlways, PTL

(* A walk that ends well and undisturbed has read every component of the   *)
(* project exactly once.                                                   *)
THEOREM WalksReadEachOnce == EditorSpec => []EachComponentOnce
<1>1. ASSUME HandlersInv, project \in Projects PROVE EachComponentOnce
  <2> DEFINE L == PagesOf[project]
  <2> SUFFICES ASSUME NEW r \in Requests,
                      LET h == handler[r] IN
                        h.at = "ended" /\ h.walks /\ ~h.failed /\ ~h.disturbed
               PROVE  LET h == handler[r] IN
                        /\ h.req.kind \in {"getAll", "connectivity"} =>
                             \A c \in Comps : h.seen[c] = IF c \in InProject(project) THEN 1 ELSE 0
                        /\ h.req.kind = "connectivity" => h.named = InProject(project)
    BY DEF EachComponentOnce, Kind
  <2> DEFINE h == handler[r]
  <2>1. h.named \subseteq Comps
    BY <1>1 DEF HandlersInv, HandlersTyped, HandlerStates
  <2>2. h.req.kind \in {"getAll", "connectivity"} => Undisturbed(h)
    BY DEF Undisturbed
  <2>3. Undisturbed(h) =>
          /\ h.todo = <<>>
          /\ \A c \in Comps : h.seen[c] = IF HomePage[c] \in ReadPages(h, project) THEN 1 ELSE 0
          /\ h.req.kind = "connectivity" => \A c \in Comps :
               c \in h.named <=> HomePage[c] \in ReadPages(h, project)
    BY <1>1 DEF HandlersInv, WalksInv, Visit
  <2>4. h.todo = <<>> => ReadPages(h, project) = Range(L)
    <3>1. SUFFICES ASSUME h.todo = <<>> PROVE Before(L, <<>>) = Range(L)
      BY DEF ReadPages
    <3>2. L \in Seq(Range(L)) /\ Len(<<>>) = 0
      BY <1>1, PagesAssumption, EmptySeq
    <3> HIDE DEF L
    <3>3. Len(L) \in Nat /\ DOMAIN L = 1..Len(L) /\ Len(L) - 0 = Len(L)
      BY <3>2, LenProperties
    <3>4. QED
      BY <3>2, <3>3 DEF Before, Range
  <2>5. \A c \in Comps : c \in InProject(project) <=> HomePage[c] \in Range(L)
    BY DEF InProject
  <2>6. InProject(project) \subseteq Comps
    BY DEF InProject
  <2> HIDE DEF h, L
  <2>7. h.req.kind \in {"getAll", "connectivity"} =>
          \A c \in Comps : h.seen[c] = IF c \in InProject(project) THEN 1 ELSE 0
    BY <2>2, <2>3, <2>4, <2>5
  <2>8. h.req.kind = "connectivity" => h.named = InProject(project)
    BY <2>1, <2>2, <2>3, <2>4, <2>5, <2>6
  <2>9. QED
    BY <2>7, <2>8 DEF h
<1>2. CacheInv => project \in Projects
  BY DEF CacheInv, CacheTypeOK
<1>3. CacheSpec => []CacheInv
  BY CacheInitInv, CacheStep, PTL DEF CacheSpec
<1>4. QED
  BY <1>1, <1>2, <1>3, HandlersUseTheCache, HandlersInvAlways, PTL

(* A component's metadata is what the user and the requests asked for,     *)
(* except where it was edited between a handler's read and its write.      *)
THEOREM HandlersKeepMetadata == EditorSpec => []MetadataSurvives
<1>1. HandlersInv => MetadataSurvives
  BY DEF HandlersInv, DataInv
<1>2. QED
  BY <1>1, HandlersInvAlways, PTL

-----------------------------------------------------------------------------
(* The board's requests.  What parameters are once they are normalised: at *)
(* each place nothing, a number, or what no converter looks into.          *)

Reaches(v, w) ==
  /\ w \in Argument
  /\ w = absent \/ w.is = "number" \/ LetThrough(v)

ModeReaches(type, mode, m) ==
  /\ m \in Modes /\ (~m.list => Len(m.items) = 1)
  /\ \/ m = single(absent)
     \/ LetModeThrough(type, mode)
     \/ \A v \in ToSet(m.items) : v.is = "number"

LEMMA NumberTyped ==
  ASSUME NEW k \in Nat
  PROVE  number(k) \in Argument /\ number(k).is = "number"
BY DEF number, Argument, Item, PcbValues

(* Each converter gives a number for what is there, or throws, or has not  *)
(* looked.                                                                 *)
LEMMA EnumIds ==
  ASSUME NEW v \in Argument, NEW table, \A s \in DOMAIN table : table[s] \in Nat,
         NEW w, w = toEnumId(v, table), w # throws
  PROVE  Reaches(v, w) /\ (w = absent => v = absent)
<1> absent.is = "absent"
  BY DEF absent
<1>1. CASE v.is = "digits"
  <2>1. w = number(v.id) /\ v.id \in Nat
    <3>1. v \in Item
      BY <1>1 DEF Argument
    <3>2. QED
      BY <1>1, <3>1 DEF toEnumId, Item, PcbValues
  <2>2. w \in Argument /\ w.is = "number"
    BY <2>1, NumberTyped
  <2>3. QED
    BY <2>2 DEF Reaches
<1>2. CASE v.is = "name" /\ v.name \in DOMAIN table /\ v.n = 0
  <2>1. w = number(table[v.name])
    BY <1>2 DEF toEnumId
  <2> DEFINE k == table[v.name]
  <2>2. k \in Nat /\ w = number(k)
    BY <1>2, <2>1
  <2> HIDE DEF k
  <2>3. w \in Argument /\ w.is = "number"
    BY <2>2, NumberTyped
  <2>4. QED
    BY <2>3 DEF Reaches
<1>3. CASE v.is = "name" /\ ~(v.name \in DOMAIN table /\ v.n = 0)
  <2>1. w = other /\ inherited(v)
    BY <1>3 DEF toEnumId
  <2>2. other \in Argument /\ other.is = "other"
    BY DEF other, Argument, Item, PcbValues
  <2>3. QED
    BY <2>1, <2>2 DEF Reaches, LetThrough
<1>4. CASE v.is \notin {"digits", "name"}
  <2>1. w = v
    BY <1>4 DEF toEnumId
  <2>2. v = absent \/ v.is = "number" \/ v.is = "other"
    BY <1>4 DEF Argument, Item, PcbValues
  <2>3. QED
    BY <2>1, <2>2 DEF Reaches, LetThrough
<1>5. QED
  BY <1>1, <1>2, <1>3, <1>4

LEMMA LayerIds ==
  ASSUME NEW v \in Argument, NEW w, w = toLayerId(v), w # throws
  PROVE  Reaches(v, w)
<1>1. ASSUME NEW k \in Nat, w = number(k) PROVE Reaches(v, w)
  BY <1>1, NumberTyped DEF Reaches
<1>2. CASE v.is = "name" /\ v.name = "inner" /\ v.n \in 1..30
  <2>1. w = number(14 + v.n) /\ 14 + v.n \in Nat
    BY <1>2 DEF toLayerId
  <2>2. QED
    BY <1>1, <2>1
<1>3. CASE v.is = "name" /\ v.name = "custom" /\ v.n \in 1..30
  <2>1. w = number(70 + v.n) /\ 70 + v.n \in Nat
    BY <1>3 DEF toLayerId
  <2>2. QED
    BY <1>1, <2>1
<1>4. CASE w = toEnumId(v, LAYER_NAME_TO_ID)
  <2>1. \A s \in DOMAIN LAYER_NAME_TO_ID : LAYER_NAME_TO_ID[s] \in Nat
    BY DEF LAYER_NAME_TO_ID
  <2>2. QED
    BY <1>4, <2>1, EnumIds
<1>5. QED
  BY <1>2, <1>3, <1>4 DEF toLayerId

LEMMA SingleIs ==
  ASSUME NEW m \in Modes, ~m.list, Len(m.items) = 1
  PROVE  m = single(m.items[1]) /\ m.items[1] \in Argument /\ DOMAIN m.items = {1}
<1> DEFINE s == m.items
<1>1. s \in Seq(Argument) /\ Len(s) = 1 /\ DOMAIN s = 1..1
  BY LenProperties DEF Modes
<1>2. s[1] \in Argument
  BY <1>1, ElementOfSeq
<1>3. s = <<s[1]>>
  BY <1>1
<1> HIDE DEF s
<1>4. m = [list |-> FALSE, items |-> s]
  BY DEF Modes, s
<1>5. QED
  BY <1>1, <1>2, <1>3, <1>4 DEF s, single

LEMMA EnumFields ==
  ASSUME NEW type \in {"region", "via", "fill", "line"}, NEW mode, IsMode(mode),
         type = "line" => mode = single(absent),
         NEW m, m = EnumField(type, mode), throws \notin ToSet(m.items)
  PROVE  ModeReaches(type, mode, m)
<1>1. mode \in Modes /\ (~mode.list => Len(mode.items) = 1)
  <2>1. \A s \in Seq(Item) : s \in Seq(Argument)
    <3> SUFFICES ASSUME NEW s \in Seq(Item) PROVE s \in Seq(Argument)
      OBVIOUS
    <3>1. s \in [1..Len(s) -> Item] /\ Len(s) \in Nat
      BY LenProperties
    <3>2. s = [i \in 1..Len(s) |-> s[i]] /\ \A i \in 1..Len(s) : s[i] \in Argument
      BY <3>1 DEF Argument
    <3>3. QED
      BY <3>1, <3>2, IsASeq
  <2>2. QED
    BY <2>1 DEF IsMode, Modes
<1>2. CASE type = "line" \/ (mode.list /\ type # "region")
  <2>1. m = mode
    BY <1>2 DEF EnumField
  <2>2. QED
    BY <1>1, <1>2, <2>1 DEF ModeReaches, LetModeThrough
<1>3. CASE type # "line" /\ ~(mode.list /\ type # "region")
  <2> DEFINE table == enumFieldFor(type)
             s == mode.items
             t == [i \in DOMAIN s |-> toEnumId(s[i], table)]
  <2>1. \A n \in DOMAIN table : table[n] \in Nat
    <3>1. table \in {REGION_RULE_NAME_TO_ID, VIA_TYPE_NAME_TO_ID, FILL_MODE_NAME_TO_ID}
      BY <1>3 DEF enumFieldFor
    <3>2. /\ \A n \in DOMAIN REGION_RULE_NAME_TO_ID : REGION_RULE_NAME_TO_ID[n] \in Nat
          /\ \A n \in DOMAIN VIA_TYPE_NAME_TO_ID : VIA_TYPE_NAME_TO_ID[n] \in Nat
          /\ \A n \in DOMAIN FILL_MODE_NAME_TO_ID : FILL_MODE_NAME_TO_ID[n] \in Nat
      BY DEF REGION_RULE_NAME_TO_ID, VIA_TYPE_NAME_TO_ID, FILL_MODE_NAME_TO_ID
    <3> HIDE DEF table
    <3>3. QED
      BY <3>1, <3>2
  <2>2. m = [mode EXCEPT !.items = t]
    BY <1>3 DEF EnumField
  <2>3. s \in Seq(Argument) /\ DOMAIN s = 1..Len(s) /\ Len(s) \in Nat
    BY <1>1, LenProperties DEF Modes
  <2> HIDE DEF table
  <2>4. m.items = t /\ m.list = mode.list /\ m = [list |-> mode.list, items |-> t]
    BY <1>1, <2>2 DEF Modes
  <2>5. ASSUME NEW i \in 1..Len(s)
        PROVE  Reaches(s[i], t[i]) /\ (t[i] = absent => s[i] = absent)
    <3>1. s[i] \in Argument
      BY <2>3, ElementOfSeq
    <3>2. t[i] = toEnumId(s[i], table)
      BY <2>3
    <3>3. t[i] # throws
      BY <2>3, <2>4 DEF ToSet
    <3> HIDE DEF t, s
    <3>4. QED
      BY <2>1, <3>1, <3>2, <3>3, EnumIds
  <2>6. t \in Seq(Argument) /\ DOMAIN t = DOMAIN s /\ Len(t) = Len(s)
    <3>1. t = [i \in 1..Len(s) |-> t[i]]
      BY <2>3
    <3>2. \A i \in 1..Len(s) : t[i] \in Argument
      BY <2>5 DEF Reaches
    <3> DEFINE n == Len(s)
    <3> HIDE DEF t, s, n
    <3>3. t \in Seq(Argument)
      <4>1. n \in Nat /\ t = [i \in 1..n |-> t[i]] /\ \A i \in 1..n : t[i] \in Argument
        BY <2>3, <3>1, <3>2 DEF n
      <4>2. QED
        BY <4>1, IsASeq
    <3>4. DOMAIN t = 1..Len(s)
      BY <3>1
    <3>5. QED
      BY <2>3, <3>3, <3>4, LenProperties
  <2> HIDE DEF t
  <2>7. m \in Modes /\ (~m.list => Len(m.items) = 1)
    BY <1>1, <2>4, <2>6 DEF Modes, s
  <2>8. ASSUME \A i \in 1..Len(s) : ~LetThrough(s[i]), m # single(absent),
               NEW i \in 1..Len(s)
        PROVE  t[i].is = "number"
    <3>1. CASE t[i] # absent
      BY <2>5, <2>8, <3>1 DEF Reaches
    <3>2. CASE t[i] = absent
      <4>1. s[i] = absent
        BY <2>5, <3>2
      <4>2. ~mode.list
        <5> SUFFICES ASSUME mode.list PROVE FALSE
          OBVIOUS
        <5>1. s \in Seq(Item)
          BY DEF IsMode, s
        <5>2. s[i] \in Item
          BY <2>3, <5>1, ElementOfSeq
        <5>3. s[i].is # "absent" /\ absent.is = "absent"
          BY <5>2 DEF Item, PcbValues, absent
        <5>4. QED
          BY <4>1, <5>3
      <4>3. m = single(m.items[1]) /\ DOMAIN m.items = {1}
        BY <2>4, <2>7, <4>2, SingleIs
      <4>4. i = 1
        BY <2>3, <2>4, <2>6, <4>3
      <4>5. QED
        BY <2>4, <2>8, <3>2, <4>3, <4>4
    <3>3. QED
      BY <3>1, <3>2
  <2>9. (\E i \in 1..Len(s) : LetThrough(s[i])) => LetModeThrough(type, mode)
    BY <2>3 DEF LetModeThrough, ToSet, s
  <2>10. m # single(absent) /\ ~LetModeThrough(type, mode) =>
           \A v \in ToSet(m.items) : v.is = "number"
    BY <2>3, <2>4, <2>6, <2>8, <2>9 DEF ToSet
  <2>11. QED
    BY <2>7, <2>10 DEF ModeReaches
<1>4. QED
  BY <1>2, <1>3

(* The parameters of a request, and what the queue hands on.               *)
Normalizes(q, g) ==
  /\ Reaches(q.params.layer, g.layer)
  /\ ModeReaches(q.type, q.params.mode, g.mode)
  /\ Reaches(q.params.property.layer, g.property.layer)
  /\ Reaches(q.params.property.layerId, g.property.layerId)
  /\ ModeReaches(q.type, q.params.property.mode, g.property.mode)

LEMMA Normalized ==
  ASSUME NEW q \in PcbRequests, NEW g, g = normalizePcbParams(q.type, q.params), ~Throws(g)
  PROVE  Normalizes(q, g)
<1> DEFINE p == q.params
           o == p.property
           layer == toLayerId(p.layer)
           mode == EnumField(q.type, p.mode)
           layer2 == toLayerId(o.layer)
           layerId == toLayerId(o.layerId)
           mode2 == EnumField(q.type, o.mode)
           normalized == [o EXCEPT !.layer = layer2, !.layerId = layerId, !.mode = mode2]
<1>1. /\ q.type \in {"region", "via", "fill", "line"}
      /\ p \in [layer: Argument, mode: Modes, width: Argument, property: Properties]
      /\ IsMode(p.mode) /\ IsMode(o.mode)
      /\ q.type = "line" => p.mode = single(absent) /\ o.mode = single(absent)
  BY PcbAssumption
<1>2. o \in Properties
  BY <1>1
<1>3. g = [p EXCEPT !.layer = layer, !.mode = mode, !.property = normalized]
  BY DEF normalizePcbParams, NormalizeProperty
<1> HIDE DEF p, o, layer, mode, layer2, layerId, mode2
<1>4. normalized.layer = layer2 /\ normalized.layerId = layerId /\ normalized.mode = mode2
  BY <1>2 DEF Properties
<1>5. g.layer = layer /\ g.mode = mode /\ g.property = normalized
  <2> HIDE DEF normalized
  <2>1. QED
    BY <1>1, <1>3
<1>6. /\ layer # throws /\ layer2 # throws /\ layerId # throws
      /\ throws \notin ToSet(mode.items) /\ throws \notin ToSet(mode2.items)
  BY <1>4, <1>5 DEF Throws
<1>7. p.layer \in Argument /\ o.layer \in Argument /\ o.layerId \in Argument
  BY <1>1, <1>2 DEF Properties
<1>8. /\ Reaches(p.layer, layer) /\ Reaches(o.layer, layer2) /\ Reaches(o.layerId, layerId)
  BY <1>6, <1>7, LayerIds DEF layer, layer2, layerId
<1>9. ModeReaches(q.type, p.mode, mode) /\ ModeReaches(q.type, o.mode, mode2)
  BY <1>1, <1>6, EnumFields DEF mode, mode2
<1> HIDE DEF normalized
<1>10. QED
  BY <1>4, <1>5, <1>8, <1>9 DEF Normalizes, p, o

-----------------------------------------------------------------------------
(* A list and what is stored of it.                                        *)

LEMMA SameSets ==
  ASSUME NEW x, NEW y, sameItems(x, y)
  PROVE  ToSet(x) = ToSet(y)
<1>1. PICK p \in Bijection(DOMAIN x, DOMAIN y) : \A i \in DOMAIN x : x[i] = y[p[i]]
  BY DEF sameItems
<1>2. /\ \A i \in DOMAIN x : p[i] \in DOMAIN y
      /\ \A k \in DOMAIN y : \E i \in DOMAIN x : p[i] = k
  BY DEF Bijection, Injection, Surjection
<1>3. QED
  BY <1>1, <1>2 DEF ToSet

LEMMA SameItself ==
  ASSUME NEW x
  PROVE  sameItems(x, x)
<1> DEFINE p == [i \in DOMAIN x |-> i]
<1>1. p \in Bijection(DOMAIN x, DOMAIN x)
  BY DEF Bijection, Injection, IsInjective, Surjection
<1>2. \A i \in DOMAIN x : x[i] = x[p[i]]
  OBVIOUS
<1>3. QED
  BY <1>1, <1>2 DEF sameItems

LEMMA ReversedIsASequence ==
  ASSUME NEW S, NEW x \in Seq(S)
  PROVE  /\ Reverse(x) \in Seq(S) /\ DOMAIN Reverse(x) = DOMAIN x
         /\ DOMAIN x = 1..Len(x) /\ Len(x) \in Nat
         /\ \A i \in DOMAIN x : Reverse(x)[i] = x[(Len(x) - i) + 1]
<1>1. DOMAIN x = 1..Len(x) /\ Len(x) \in Nat
  BY LenProperties
<1>2. \A i \in 1..Len(x) : x[(Len(x) - i) + 1] \in S
  BY <1>1, ElementOfSeq
<1>3. Reverse(x) = [i \in 1..Len(x) |-> x[(Len(x) - i) + 1]]
  BY DEF Reverse
<1>4. Reverse(x) \in Seq(S)
  BY <1>1, <1>2, <1>3, IsASeq
<1>5. QED
  BY <1>1, <1>3, <1>4

LEMMA SameReversed ==
  ASSUME NEW S, NEW x \in Seq(S)
  PROVE  sameItems(x, Reverse(x))
<1> DEFINE p == [i \in 1..Len(x) |-> (Len(x) - i) + 1]
<1>1. /\ DOMAIN Reverse(x) = 1..Len(x) /\ DOMAIN x = 1..Len(x) /\ Len(x) \in Nat
      /\ \A i \in 1..Len(x) : Reverse(x)[i] = x[(Len(x) - i) + 1]
  BY ReversedIsASequence
<1>2. \A i \in 1..Len(x) :
        /\ p[i] \in 1..Len(x) /\ p[i] = (Len(x) - i) + 1
        /\ (Len(x) - p[i]) + 1 = i /\ p[p[i]] = i
  BY <1>1
<1>3. p \in [1..Len(x) -> 1..Len(x)]
  BY <1>2
<1> HIDE DEF p
<1>4. \A i, j \in 1..Len(x) : p[i] = p[j] => i = j
  BY <1>2
<1>5. \A k \in 1..Len(x) : \E i \in 1..Len(x) : p[i] = k
  BY <1>2
<1>6. p \in Bijection(1..Len(x), 1..Len(x))
  BY <1>3, <1>4, <1>5 DEF Bijection, Injection, IsInjective, Surjection
<1>7. \A i \in 1..Len(x) : x[i] = Reverse(x)[p[i]]
  BY <1>1, <1>2
<1>8. QED
  BY <1>1, <1>6, <1>7 DEF sameItems

LEMMA ReversedMode ==
  ASSUME NEW m \in Modes
  PROVE  /\ reversed(m) \in Modes /\ reversed(m).list = m.list
         /\ Len(reversed(m).items) = Len(m.items)
         /\ ToSet(reversed(m).items) = ToSet(m.items)
         /\ sameItems(m.items, reversed(m).items)
<1> DEFINE s == m.items
           r == Reverse(s)
<1>1. s \in Seq(Argument)
  BY DEF Modes
<1>2. r \in Seq(Argument) /\ DOMAIN r = DOMAIN s /\ DOMAIN s = 1..Len(s)
  BY <1>1, ReversedIsASequence
<1>3. sameItems(s, r) /\ ToSet(r) = ToSet(s)
  BY <1>1, SameReversed, SameSets
<1>4. Len(r) = Len(s)
  <2> HIDE DEF r, s
  <2>1. QED
    BY <1>1, <1>2, LenProperties
<1>5. reversed(m) = [m EXCEPT !.items = r]
  BY DEF reversed
<1> HIDE DEF r
<1>6. reversed(m).items = r /\ reversed(m).list = m.list /\ reversed(m) \in Modes
  BY <1>2, <1>5 DEF Modes
<1>7. QED
  BY <1>3, <1>4, <1>6 DEF s

-----------------------------------------------------------------------------
(* What holds of a board's request on its way, by what it is about.        *)

Closes == want.op = "create" /\ want.type \notin {"line", "via"}
            => Last(board.outline.lines) = board.outline.from

AsRequested ==
  LET asked == valuesOf(want.params) IN
  /\ Reaches(asked.layer, requested.layer)
  /\ Reaches(asked.layerId, requested.layerId)
  /\ ModeReaches(want.type, asked.mode, requested.mode)

HoldsNumbers ==
  /\ board.mode \in Modes /\ (~board.mode.list => Len(board.mode.items) = 1)
  /\ NoDeadValues

PrimitiveInv ==
  /\ want \in PcbRequests
  /\ HoldsNumbers
  /\ stage \in {"write", "stored"} /\ want.op \in {"create", "modify"} => AsRequested
  /\ stage = "stored" => want.op \in {"create", "modify"} /\ Closes
  /\ PrimitivesAsStored

(* The pours whose own call has failed.                                    *)
Unbuilt == ((want.pours \cap Callable) \ left) \ rebuilt

Tally ==
  /\ left \subseteq want.pours
  /\ poured = rebuilt /\ rebuilt \subseteq (want.pours \cap Callable) \ left
  /\ IsFiniteSet(rebuilt) /\ pouredCount = Cardinality(rebuilt)
  /\ failed \in Seq({OwnFailure(p) : p \in Pours})
  /\ \A p \in Pours : IF p \in Unbuilt THEN NamedOnce(p, failed) ELSE NotNamed(p, failed)

PourInv ==
  /\ stage = "asked" /\ want.op = "rebuild" => Tally
  /\ PoursAsRebuilt

RuleInv ==
  /\ stage \in {"asked", "write", "stored"} => preference = "sound"
  /\ CorruptionIsLoud

PcbInv ==
  /\ stage \in {"idle", "asked", "write", "stored", "false", "threw", "done"}
  /\ stage # "done" => answer.told = "nothing"
  /\ stage # "idle" => PrimitiveInv /\ PourInv /\ RuleInv

(* A request that is not answered yet keeps its answer, or is given one.   *)
LEMMA Asked ==
  ASSUME PcbInv, stage \notin {"idle", "done"}
  PROVE  PrimitiveInv /\ PourInv /\ RuleInv /\ answer.told = "nothing"
BY DEF PcbInv

LEMMA UnansweredInv ==
  ASSUME PcbInv, stage \notin {"idle", "done"}, UNCHANGED answer,
         stage' \in {"asked", "write", "stored", "false", "threw"}
  PROVE  PrimitivesAsStored' /\ PoursAsRebuilt' /\ CorruptionIsLoud' /\ answer'.told = "nothing"
BY Asked DEF PrimitivesAsStored, PoursAsRebuilt, CorruptionIsLoud

LEMMA AnsweredInv ==
  ASSUME NEW a, Answers(a),
         a.told \notin {"stored", "rebuildCopperRegion", "none", "rebuildCopperRegions"}
  PROVE  stage' = "done" /\ PrimitivesAsStored' /\ PoursAsRebuilt'
BY DEF Answers, PrimitivesAsStored, PoursAsRebuilt

LEMMA SameBoard ==
  ASSUME PrimitiveInv, stage # "idle", UNCHANGED <<want, board>>
  PROVE  HoldsNumbers'
BY DEF PrimitiveInv, HoldsNumbers, NoDeadValues, valuesOf

LEMMA SameRequest ==
  ASSUME UNCHANGED <<want, given>>
  PROVE  /\ UNCHANGED requested /\ UNCHANGED valuesOf(want.params)
         /\ AsRequested => AsRequested'
BY DEF requested, valuesOf, AsRequested

LEMMA NormalizeInv == PcbInv /\ Normalize => PcbInv'
<1> SUFFICES ASSUME PcbInv, Normalize PROVE PcbInv'
  OBVIOUS
<1>1. /\ PrimitiveInv /\ PourInv /\ RuleInv /\ stage = "asked" /\ want.op \in {"create", "modify"}
      /\ UNCHANGED <<want, board, preference, left, rebuilt, failed, poured, pouredCount>>
  BY Asked DEF Normalize, pourVars
<1>2. HoldsNumbers' /\ (want \in PcbRequests)'
  BY <1>1, SameBoard DEF PrimitiveInv
<1>3. CASE Throws(given')
  <2>1. Answers([told |-> "unknown name"])
    BY <1>3 DEF Normalize
  <2>2. stage' = "done" /\ PrimitivesAsStored' /\ PoursAsRebuilt'
    BY <2>1, AnsweredInv
  <2>3. CorruptionIsLoud'
    BY <1>1 DEF RuleInv, CorruptionIsLoud
  <2>4. QED
    BY <1>1, <1>2, <2>2, <2>3 DEF PcbInv, PrimitiveInv, PourInv, RuleInv
<1>4. CASE ~Throws(given')
  <2>1. stage' = "write" /\ UNCHANGED answer
    BY <1>4 DEF Normalize
  <2>2. PrimitivesAsStored' /\ PoursAsRebuilt' /\ CorruptionIsLoud' /\ answer'.told = "nothing"
    BY <1>1, <2>1, UnansweredInv
  <2>3. Normalizes(want, given')
    BY <1>1, <1>4, Normalized DEF Normalize, PrimitiveInv
  <2>4. AsRequested'
    <3>1. CASE want.op = "create"
      <4>1. /\ valuesOf(want.params)'
                 = [layer |-> want.params.layer, layerId |-> absent, mode |-> want.params.mode,
                    width |-> want.params.width]
            /\ requested' = [layer |-> given'.layer, layerId |-> absent, mode |-> given'.mode,
                             width |-> given'.width]
        BY <1>1, <3>1 DEF requested, valuesOf
      <4>2. Reaches(absent, absent)
        BY DEF Reaches, Argument
      <4>3. QED
        BY <1>1, <2>3, <4>1, <4>2 DEF AsRequested, Normalizes
    <3>2. CASE want.op = "modify"
      <4>1. /\ valuesOf(want.params)' = want.params.property
            /\ requested' = given'.property
        BY <1>1, <3>2 DEF requested, valuesOf
      <4>2. QED
        BY <1>1, <2>3, <4>1 DEF AsRequested, Normalizes
    <3>3. QED
      BY <1>1, <3>1, <3>2
  <2>5. QED
    BY <1>1, <1>2, <2>1, <2>2, <2>4 DEF PcbInv, PrimitiveInv, PourInv, RuleInv
<1>5. QED
  BY <1>3, <1>4

(* A shape closes where it began.                                          *)
Points == Seq(Int \X Int)

LEMMA OutlineTyped ==
  ASSUME NEW points \in Points, Len(points) >= 2
  PROVE  /\ toPolygonSource(points) \in [from: Int \X Int, lines: Points]
         /\ toClosedPolygonSource(points) \in [from: Int \X Int, lines: Points]
         /\ Last(toClosedPolygonSource(points).lines) = toClosedPolygonSource(points).from
<1> DEFINE S == Int \X Int
<1>1. Len(points) \in Nat /\ points \in Seq(S) /\ points # <<>>
  BY LenProperties, EmptySeq DEF Points
<1> HIDE DEF S
<1>2. ASSUME NEW p \in Seq(S), Len(p) >= 2
      PROVE  /\ p[1] \in S /\ Tail(p) \in Seq(S)
             /\ Last(Tail(p)) = Last(p)
  <2>1. /\ Len(p) \in Nat /\ p # <<>>
    BY <1>2, LenProperties, EmptySeq
  <2>2. p[1] \in S
    BY <1>2, <2>1, ElementOfSeq
  <2>3. /\ Tail(p) \in Seq(S) /\ Len(Tail(p)) = Len(p) - 1
        /\ \A i \in 1..Len(Tail(p)) : Tail(p)[i] = p[i + 1]
    BY <2>1, HeadTailProperties
  <2> DEFINE n == Len(p) - 1
  <2>4. n \in 1..n /\ n + 1 = Len(p)
    BY <1>2, <2>1
  <2> DEFINE t == Tail(p)
  <2>5. t[n] = p[n + 1] /\ Len(t) = n
    BY <2>3, <2>4
  <2> HIDE DEF n, t
  <2>6. Last(t) = Last(p)
    BY <2>4, <2>5 DEF Last
  <2>7. QED
    BY <2>2, <2>3, <2>6 DEF t
<1>3. toPolygonSource(points) \in [from: S, lines: Seq(S)]
  BY <1>1, <1>2 DEF toPolygonSource
<1> DEFINE closed == IF points[1] = Last(points) THEN points ELSE Append(points, points[1])
<1>4. closed \in Seq(S) /\ Len(closed) >= 2 /\ Last(closed) = closed[1]
  <2>1. CASE points[1] = Last(points)
    BY <1>1, <2>1
  <2>2. CASE points[1] # Last(points)
    <3> DEFINE x == points[1]
               n == Len(points)
    <3>1. x \in S
      BY <1>1, <1>2
    <3>2. n \in Nat /\ n >= 2 /\ 1 \in 1..n
      BY <1>1
    <3>3. closed = Append(points, x)
      BY <2>2
    <3> HIDE DEF x, closed
    <3>4. closed \in Seq(S) /\ Len(closed) = n + 1 /\ closed[n + 1] = x
          /\ \A i \in 1..n : closed[i] = points[i]
      BY <1>1, <3>1, <3>3, AppendProperties
    <3>5. closed[1] = x /\ Last(closed) = x
      BY <3>2, <3>4 DEF Last, x
    <3> HIDE DEF n
    <3>6. QED
      BY <3>2, <3>4, <3>5
  <2>3. QED
    BY <2>1, <2>2
<1>5. toClosedPolygonSource(points) = [from |-> closed[1], lines |-> Tail(closed)]
  BY DEF toClosedPolygonSource, toPolygonSource
<1> HIDE DEF closed
<1>6. closed[1] \in S /\ Tail(closed) \in Seq(S) /\ Last(Tail(closed)) = closed[1]
  BY <1>2, <1>4
<1>7. QED
  BY <1>3, <1>5, <1>6 DEF S, Points

LEMMA EdaStoresInv == PcbInv /\ EdaStores => PcbInv'
<1> SUFFICES ASSUME PcbInv, EdaStores PROVE PcbInv'
  OBVIOUS
<1> DEFINE asked == valuesOf(want.params)
           closed == toClosedPolygonSource(want.points)
           open == toPolygonSource(want.points)
           through == LetModeThrough(want.type, asked.mode)
<1>1. /\ PrimitiveInv /\ PourInv /\ RuleInv /\ stage = "write" /\ stage' = "stored"
      /\ want.op \in {"create", "modify"}
      /\ UNCHANGED <<want, given, answer, preference, left, rebuilt, failed, poured, pouredCount>>
  BY Asked DEF EdaStores, pourVars
<1>2. /\ Reaches(asked.layer, requested.layer)
      /\ Reaches(asked.layerId, requested.layerId)
      /\ ModeReaches(want.type, asked.mode, requested.mode)
  BY <1>1 DEF PrimitiveInv, AsRequested
<1>3. /\ board.mode \in Modes /\ (~board.mode.list => Len(board.mode.items) = 1)
      /\ board.layer.is = "number" \/ LetThrough(asked.layer)
      /\ board.layerId.is = "number" \/ LetThrough(asked.layerId)
      /\ (\A v \in ToSet(board.mode.items) : v.is = "number") \/ through
  BY <1>1 DEF PrimitiveInv, HoldsNumbers, NoDeadValues
<1>4. PICK layerId \in {board.layerId, requested.layerId},
           mode \in {board.mode, requested.mode, reversed(requested.mode)},
           width \in {board.width, requested.width} :
        board' = [layer |-> IF requested.layer = absent THEN board.layer ELSE requested.layer,
                  layerId |-> IF requested.layerId = absent THEN board.layerId ELSE layerId,
                  mode |-> IF requested.mode = single(absent) THEN board.mode ELSE mode,
                  width |-> IF requested.width = absent THEN board.width ELSE width,
                  outline |-> IF want.op # "create" \/ want.type = "via" THEN board.outline
                              ELSE IF want.type = "line" THEN open ELSE closed]
  BY DEF EdaStores
<1>5. /\ board'.layer = IF requested.layer = absent THEN board.layer ELSE requested.layer
      /\ board'.layerId = IF requested.layerId = absent THEN board.layerId ELSE layerId
      /\ board'.mode = IF requested.mode = single(absent) THEN board.mode ELSE mode
      /\ board'.outline = IF want.op # "create" \/ want.type = "via" THEN board.outline
                          ELSE IF want.type = "line" THEN open ELSE closed
  BY <1>4
<1>6. board'.layer.is = "number" \/ LetThrough(asked.layer)
  BY <1>2, <1>3, <1>5 DEF Reaches
<1>7. board'.layerId.is = "number" \/ LetThrough(asked.layerId)
  BY <1>2, <1>3, <1>5 DEF Reaches
<1>8. /\ board'.mode \in Modes /\ (~board'.mode.list => Len(board'.mode.items) = 1)
      /\ (\A v \in ToSet(board'.mode.items) : v.is = "number") \/ through
  <2>1. CASE board'.mode = board.mode
    BY <1>3, <2>1
  <2>2. CASE requested.mode # single(absent) /\ board'.mode = requested.mode
    BY <1>2, <2>2 DEF ModeReaches
  <2>3. CASE requested.mode # single(absent) /\ board'.mode = reversed(requested.mode)
    <3>1. requested.mode \in Modes
      BY <1>2 DEF ModeReaches
    <3>2. /\ reversed(requested.mode) \in Modes
          /\ reversed(requested.mode).list = requested.mode.list
          /\ Len(reversed(requested.mode).items) = Len(requested.mode.items)
          /\ ToSet(reversed(requested.mode).items) = ToSet(requested.mode.items)
      BY <3>1, ReversedMode
    <3>3. QED
      BY <1>2, <2>3, <3>2 DEF ModeReaches
  <2>4. QED
    BY <1>5, <2>1, <2>2, <2>3
<1>9. UNCHANGED valuesOf(want.params)
  BY <1>1, SameRequest
<1>10. HoldsNumbers'
  <2> HIDE DEF asked, through
  <2>1. asked' = asked /\ through' = through
    BY <1>1, <1>9 DEF asked, through
  <2>2. QED
    BY <1>6, <1>7, <1>8, <2>1 DEF HoldsNumbers, NoDeadValues, asked, through
<1>11. Closes'
  <2>1. want.points \in Points /\ Len(want.points) >= 2
    BY <1>1, PcbAssumption DEF PrimitiveInv, Points
  <2>2. Last(closed.lines) = closed.from
    BY <2>1, OutlineTyped
  <2>3. want.op = "create" /\ want.type \notin {"line", "via"} => board'.outline = closed
    BY <1>5
  <2> HIDE DEF closed
  <2>4. QED
    BY <1>1, <2>2, <2>3 DEF Closes
<1>12. AsRequested'
  BY <1>1, SameRequest DEF PrimitiveInv
<1>13. PrimitivesAsStored' /\ PoursAsRebuilt' /\ CorruptionIsLoud' /\ answer'.told = "nothing"
  BY <1>1, UnansweredInv
<1>14. QED
  BY <1>1, <1>10, <1>11, <1>12, <1>13 DEF PcbInv, PrimitiveInv, PourInv, RuleInv

LEMMA EdaThrowsInv == PcbInv /\ EdaThrows => PcbInv'
<1> SUFFICES ASSUME PcbInv, EdaThrows PROVE PcbInv'
  OBVIOUS
<1>1. /\ PrimitiveInv /\ PourInv /\ RuleInv /\ stage \in {"write", "stored"}
      /\ Answers([told |-> "error"])
      /\ UNCHANGED <<want, given, board, poured, preference, left, rebuilt, failed, pouredCount>>
  BY Asked DEF EdaThrows, pourVars
<1>2. stage' = "done" /\ PrimitivesAsStored' /\ PoursAsRebuilt'
  BY <1>1, AnsweredInv
<1>3. CorruptionIsLoud'
  BY <1>1 DEF RuleInv, CorruptionIsLoud
<1>4. HoldsNumbers'
  BY <1>1, SameBoard
<1>5. QED
  BY <1>1, <1>2, <1>3, <1>4 DEF PcbInv, PrimitiveInv, PourInv, RuleInv

(* The values that a read-back names.                                      *)
LEMMA NamedValues ==
  ASSUME NEW k \in {"layer", "layerId", "width"},
         requested[k].is \notin {"absent", "other"}
  PROVE  k \in notApplied(board) <=> requested[k] # board[k]
<1>1. requested[k] # absent
  <2>1. absent.is = "absent"
    BY DEF absent
  <2>2. QED
    BY <2>1
<1>2. k \in notApplied(board) <=> ~identical(requested[k], board[k])
  BY <1>1 DEF notApplied
<1>3. QED
  BY <1>2 DEF identical

LEMMA NamedModes ==
  ASSUME requested.mode \in Modes, ~requested.mode.list => Len(requested.mode.items) = 1,
         board.mode \in Modes, ~board.mode.list => Len(board.mode.items) = 1
  PROVE  /\ ~requested.mode.list /\ requested.mode.items[1].is \notin {"absent", "other"} =>
              ("mode" \in notApplied(board) <=> requested.mode # board.mode)
         /\ requested.mode.list =>
              /\ ToSet(requested.mode.items) # ToSet(board.mode.items)
                   => "mode" \in notApplied(board)
              /\ board.mode \in {requested.mode, reversed(requested.mode)}
                   => "mode" \notin notApplied(board)
<1> DEFINE r == requested.mode
           b == board.mode
<1>1. "mode" \in notApplied(board) <=> r # single(absent) /\ ~sameMode(r, b)
  BY DEF notApplied
<1>2. ASSUME ~r.list, r.items[1].is \notin {"absent", "other"}
      PROVE  "mode" \in notApplied(board) <=> r # b
  <2>1. r = single(r.items[1])
    BY <1>2, SingleIs
  <2>2. r # single(absent)
    <3>1. single(absent).items[1] = absent /\ absent.is = "absent"
      BY DEF single, absent
    <3>2. QED
      BY <1>2, <3>1
  <2>3. CASE b.list
    BY <1>1, <1>2, <2>2, <2>3 DEF sameMode
  <2>4. CASE ~b.list
    <3>1. b = single(b.items[1])
      BY <2>4, SingleIs
    <3>2. r = b <=> r.items[1] = b.items[1]
      BY <2>1, <3>1
    <3>3. sameMode(r, b) <=> r.items[1] = b.items[1]
      BY <1>2, <2>4 DEF sameMode, identical
    <3>4. QED
      BY <1>1, <2>2, <3>2, <3>3
  <2>5. QED
    BY <2>3, <2>4
<1>3. ASSUME r.list, ToSet(r.items) # ToSet(b.items)
      PROVE  "mode" \in notApplied(board)
  <2>1. r # single(absent)
    BY <1>3 DEF single
  <2>2. ~sameMode(r, b)
    BY <1>3, SameSets DEF sameMode
  <2>3. QED
    BY <1>1, <2>1, <2>2
<1>4. ASSUME r.list, b \in {r, reversed(r)}
      PROVE  "mode" \notin notApplied(board)
  <2>1. b.list /\ sameItems(r.items, b.items)
    BY <1>4, ReversedMode, SameItself
  <2>2. sameMode(r, b)
    BY <1>4, <2>1 DEF sameMode
  <2>3. QED
    BY <1>1, <2>2
<1>5. QED
  BY <1>2, <1>3, <1>4

LEMMA readBackInv == PcbInv /\ readBackPrimitive => PcbInv'
<1> SUFFICES ASSUME PcbInv, readBackPrimitive PROVE PcbInv'
  OBVIOUS
<1> DEFINE lost == notApplied(board)
           a == [told |-> "stored", primitive |-> board, notApplied |-> lost]
<1>1. /\ PrimitiveInv /\ PourInv /\ RuleInv /\ stage = "stored" /\ Answers(a)
      /\ want.type \in {"fill", "region"}
      /\ UNCHANGED <<want, given, board, poured, preference, left, rebuilt, failed, pouredCount>>
  BY Asked DEF readBackPrimitive, pourVars
<1>2. Closes /\ want.op \in {"create", "modify"} /\ AsRequested
  BY <1>1 DEF PrimitiveInv
<1>3. UNCHANGED requested
  BY <1>1, SameRequest
<1>4. \A k \in {"layer", "layerId", "width"} :
        requested[k].is \notin {"absent", "other"} => (k \in lost <=> requested[k] # board[k])
  BY NamedValues
<1>5. /\ ~requested.mode.list /\ requested.mode.items[1].is \notin {"absent", "other"} =>
           ("mode" \in lost <=> requested.mode # board.mode)
      /\ requested.mode.list =>
           /\ ToSet(requested.mode.items) # ToSet(board.mode.items) => "mode" \in lost
           /\ board.mode \in {requested.mode, reversed(requested.mode)} => "mode" \notin lost
  <2>1. requested.mode \in Modes /\ (~requested.mode.list => Len(requested.mode.items) = 1)
    BY <1>2 DEF AsRequested, ModeReaches
  <2>2. board.mode \in Modes /\ (~board.mode.list => Len(board.mode.items) = 1)
    BY <1>1 DEF PrimitiveInv, HoldsNumbers
  <2>3. QED
    BY <2>1, <2>2, NamedModes
<1> HIDE DEF lost
<1>6. /\ stage' = "done" /\ answer' = a /\ answer'.told = "stored"
      /\ answer'.primitive = board /\ answer'.notApplied = lost
  BY <1>1 DEF Answers
<1>7. PrimitivesAsStored'
  <2>1. reversed(requested.mode)' = reversed(requested.mode)
    BY <1>3 DEF reversed
  <2>2. QED
    BY <1>1, <1>2, <1>3, <1>4, <1>5, <1>6, <2>1 DEF PrimitivesAsStored, Closes
<1>8. PoursAsRebuilt' /\ CorruptionIsLoud'
  BY <1>1, <1>6 DEF PoursAsRebuilt, CorruptionIsLoud, RuleInv
<1>9. HoldsNumbers'
  BY <1>1, SameBoard
<1>10. QED
  BY <1>1, <1>6, <1>7, <1>8, <1>9 DEF PcbInv, PrimitiveInv, PourInv, RuleInv

LEMMA ReadBackFailsInv == PcbInv /\ ReadBackFails => PcbInv'
<1> SUFFICES ASSUME PcbInv, ReadBackFails PROVE PcbInv'
  OBVIOUS
<1>1. /\ PrimitiveInv /\ PourInv /\ RuleInv /\ stage = "stored" /\ Answers([told |-> "made"])
      /\ UNCHANGED <<want, given, board, poured, preference, left, rebuilt, failed, pouredCount>>
  BY Asked DEF ReadBackFails, pourVars
<1>2. stage' = "done" /\ PrimitivesAsStored' /\ PoursAsRebuilt'
  BY <1>1, AnsweredInv
<1>3. CorruptionIsLoud'
  BY <1>1 DEF RuleInv, CorruptionIsLoud
<1>4. HoldsNumbers'
  BY <1>1, SameBoard
<1>5. QED
  BY <1>1, <1>2, <1>3, <1>4 DEF PcbInv, PrimitiveInv, PourInv, RuleInv

(* What a failure more says of each pour.                                  *)
LEMMA OneMoreFailure ==
  ASSUME NEW S, NEW f \in Seq(S), NEW e \in S, NEW q
  PROVE  /\ e # OwnFailure(q) /\ NamedOnce(q, f) => NamedOnce(q, Append(f, e))
         /\ e # OwnFailure(q) /\ NotNamed(q, f) => NotNamed(q, Append(f, e))
         /\ e = OwnFailure(q) /\ NotNamed(q, f) => NamedOnce(q, Append(f, e))
<1> DEFINE n == Len(f)
           g == Append(f, e)
           o == OwnFailure(q)
<1>1. /\ n \in Nat /\ DOMAIN f = 1..n /\ DOMAIN g = 1..(n + 1)
      /\ g[n + 1] = e /\ \A i \in 1..n : g[i] = f[i]
  BY AppendProperties, LenProperties
<1> HIDE DEF n, g, o
<1>2. ASSUME e # o, NEW i \in 1..n, \A j \in 1..n : f[j] = o <=> j = i
      PROVE  i \in 1..(n + 1) /\ \A j \in 1..(n + 1) : g[j] = o <=> j = i
  BY <1>1, <1>2
<1>3. e # o /\ NamedOnce(q, f) => NamedOnce(q, g)
  BY <1>1, <1>2 DEF NamedOnce, o
<1>4. e # o /\ NotNamed(q, f) => NotNamed(q, g)
  BY <1>1 DEF NotNamed, o
<1>5. ASSUME e = o, \A j \in 1..n : f[j] # o
      PROVE  n + 1 \in 1..(n + 1) /\ \A j \in 1..(n + 1) : g[j] = o <=> j = n + 1
  BY <1>1, <1>5
<1>6. e = o /\ NotNamed(q, f) => NamedOnce(q, g)
  <2> SUFFICES ASSUME e = o, NotNamed(q, f)
               PROVE  \E i \in DOMAIN g : \A j \in DOMAIN g : g[j] = o <=> j = i
    BY DEF NamedOnce, o
  <2>1. \A j \in 1..n : f[j] # o
    BY <1>1 DEF NotNamed, o
  <2>2. n + 1 \in DOMAIN g /\ \A j \in DOMAIN g : g[j] = o <=> j = n + 1
    BY <1>1, <1>5, <2>1
  <2>3. QED
    BY <2>2
<1>7. QED
  BY <1>3, <1>4, <1>6 DEF g, o

LEMMA OwnFailures ==
  /\ \A p, q : OwnFailure(p) = OwnFailure(q) <=> p = q
  /\ \A q : AllFailure # OwnFailure(q)
<1>1. ASSUME NEW p, NEW q, OwnFailure(p) = OwnFailure(q) PROVE p = q
  <2>1. OwnFailure(p).ids = {p} /\ OwnFailure(q).ids = {q}
    BY DEF OwnFailure
  <2>2. QED
    BY <1>1, <2>1
<1>2. ASSUME NEW q PROVE AllFailure # OwnFailure(q)
  <2>1. AllFailure.call = "rebuildCopperRegions" /\ OwnFailure(q).call = "rebuildCopperRegion"
    BY DEF AllFailure, OwnFailure
  <2>2. QED
    BY <2>1
<1>3. QED
  BY <1>1, <1>2

LEMMA PourTriedInv ==
  ASSUME PcbInv, NEW p \in Pours, PourRebuilds(p) \/ PourFails(p) \/ PourIsSkipped(p)
  PROVE  PcbInv'
<1>1. /\ PrimitiveInv /\ PourInv /\ RuleInv /\ stage = "asked" /\ want.op = "rebuild"
      /\ p \in left /\ left' = left \ {p}
      /\ UNCHANGED <<want, stage, given, board, preference, answer>>
  BY Asked DEF PourRebuilds, PourFails, PourIsSkipped, Tries
<1>2. PrimitivesAsStored' /\ PoursAsRebuilt' /\ CorruptionIsLoud' /\ answer'.told = "nothing"
  BY <1>1, UnansweredInv
<1>3. Tally'
  <2> DEFINE A == want.pours \cap Callable
             S == {OwnFailure(q) : q \in Pours}
  <2>1. /\ left \subseteq want.pours
        /\ poured = rebuilt /\ rebuilt \subseteq A \ left
        /\ IsFiniteSet(rebuilt) /\ pouredCount = Cardinality(rebuilt)
        /\ failed \in Seq(S)
        /\ Unbuilt = (A \ left) \ rebuilt
        /\ \A q \in Pours : IF q \in Unbuilt THEN NamedOnce(q, failed) ELSE NotNamed(q, failed)
    BY <1>1 DEF PourInv, Tally, Unbuilt
  <2>2. Unbuilt' = (A \ left') \ rebuilt' /\ S' = S /\ A' = A
    BY <1>1 DEF Unbuilt, OwnFailure
  <2>3. p \in want.pours /\ p \notin rebuilt /\ p \notin Unbuilt
    BY <1>1, <2>1
  <2> HIDE DEF A, S
  <2>4. CASE PourRebuilds(p)
    <3>1. /\ poured' = poured \cup {p} /\ rebuilt' = rebuilt \cup {p}
          /\ pouredCount' = pouredCount + 1 /\ UNCHANGED failed /\ p \in A
      BY <2>3, <2>4 DEF PourRebuilds, A
    <3>2. IsFiniteSet(rebuilt \cup {p})
          /\ Cardinality(rebuilt \cup {p}) = Cardinality(rebuilt) + 1
      BY <2>1, <2>3, FS_AddElement
    <3>3. left' \subseteq want.pours /\ rebuilt' \subseteq A \ left'
      BY <1>1, <2>1, <3>1
    <3>4. Unbuilt' = Unbuilt
      BY <1>1, <2>1, <2>2, <3>1
    <3>5. \A q \in Pours : IF q \in Unbuilt' THEN NamedOnce(q, failed') ELSE NotNamed(q, failed')
      BY <2>1, <3>1, <3>4
    <3>6. QED
      BY <1>1, <2>1, <2>2, <3>1, <3>2, <3>3, <3>5 DEF Tally, NamedOnce, NotNamed, OwnFailure, A, S
  <2>5. CASE PourFails(p)
    <3> DEFINE e == OwnFailure(p)
    <3>1. failed' = Append(failed, e) /\ UNCHANGED <<poured, rebuilt, pouredCount>> /\ p \in A
      BY <2>3, <2>5 DEF PourFails, A
    <3>2. e \in S
      BY DEF S
    <3>3. \A q \in Pours : e = OwnFailure(q) <=> q = p
      BY OwnFailures
    <3>4. Unbuilt' = Unbuilt \cup {p}
      BY <1>1, <2>1, <2>2, <2>3, <3>1
    <3>5. left' \subseteq want.pours /\ rebuilt' \subseteq A \ left'
      BY <1>1, <2>1, <3>1
    <3> HIDE DEF e
    <3>6. failed' \in Seq(S)
      BY <2>1, <3>1, <3>2, AppendProperties
    <3>7. ASSUME NEW q \in Pours
          PROVE  IF q \in Unbuilt' THEN NamedOnce(q, failed') ELSE NotNamed(q, failed')
      <4>1. CASE q = p
        <5>1. NotNamed(q, failed) /\ e = OwnFailure(q)
          BY <2>1, <2>3, <3>3, <4>1
        <5>2. NamedOnce(q, failed')
          BY <2>1, <3>1, <3>2, <5>1, OneMoreFailure
        <5>3. QED
          BY <3>4, <4>1, <5>2
      <4>2. CASE q # p
        <5>1. e # OwnFailure(q)
          BY <3>3, <4>2
        <5>2. q \in Unbuilt' <=> q \in Unbuilt
          BY <3>4, <4>2
        <5>3. QED
          BY <2>1, <3>1, <3>2, <5>1, <5>2, OneMoreFailure
      <4>3. QED
        BY <4>1, <4>2
    <3>8. QED
      BY <1>1, <2>1, <2>2, <3>1, <3>5, <3>6, <3>7 DEF Tally, NamedOnce, NotNamed, OwnFailure, A, S
  <2>6. CASE PourIsSkipped(p)
    <3>1. UNCHANGED <<poured, rebuilt, failed, pouredCount>> /\ p \notin A
      BY <2>6 DEF PourIsSkipped, A
    <3>2. Unbuilt' = Unbuilt
      BY <1>1, <2>1, <2>2, <3>1
    <3>3. left' \subseteq want.pours /\ rebuilt' \subseteq A \ left'
      BY <1>1, <2>1, <3>1
    <3>4. \A q \in Pours : IF q \in Unbuilt' THEN NamedOnce(q, failed') ELSE NotNamed(q, failed')
      BY <2>1, <3>1, <3>2
    <3>5. QED
      BY <1>1, <2>1, <2>2, <3>1, <3>3, <3>4 DEF Tally, NamedOnce, NotNamed, OwnFailure, A, S
  <2>7. QED
    BY <2>4, <2>5, <2>6
<1>4. HoldsNumbers'
  BY <1>1, SameBoard
<1>5. QED
  BY <1>1, <1>2, <1>3, <1>4 DEF PcbInv, PrimitiveInv, PourInv, RuleInv

LEMMA RebuildAllInv == PcbInv /\ rebuildCopperRegions => PcbInv'
<1> SUFFICES ASSUME PcbInv, rebuildCopperRegions PROVE PcbInv'
  OBVIOUS
<1>1. PICK all \in SUBSET want.pours, list \in BOOLEAN :
        /\ poured' = all
        /\ Answers([told |-> "rebuildCopperRegions", rebuilt |-> want.pours, failed |-> <<>>,
                    pouredCount |-> IF list THEN Cardinality(all) ELSE 0])
  BY DEF rebuildCopperRegions
<1> DEFINE n == IF list THEN Cardinality(all) ELSE 0
           a == [told |-> "rebuildCopperRegions", rebuilt |-> want.pours, failed |-> <<>>,
                 pouredCount |-> n]
<1>2. /\ PrimitiveInv /\ PourInv /\ RuleInv /\ stage = "asked" /\ Answers(a) /\ rebuilt = {}
      /\ UNCHANGED <<want, given, board, preference, left, rebuilt, failed, pouredCount>>
  BY <1>1, Asked DEF rebuildCopperRegions, Tried, CallsForAll
<1>3. IsFiniteSet(all) /\ Cardinality(all) \in Nat
  <2>1. all \subseteq Pours /\ IsFiniteSet(Pours)
    BY <1>2, PcbAssumption DEF PrimitiveInv
  <2>2. QED
    BY <2>1, FS_Subset, FS_CardinalityType
<1>4. n <= Cardinality(all)
  BY <1>3
<1> HIDE DEF n
<1>5. /\ stage' = "done" /\ answer'.told = "rebuildCopperRegions" /\ answer'.pouredCount = n
  BY <1>2 DEF Answers
<1>6. PoursAsRebuilt' /\ PrimitivesAsStored' /\ CorruptionIsLoud'
  BY <1>1, <1>2, <1>4, <1>5 DEF PoursAsRebuilt, PrimitivesAsStored, CorruptionIsLoud, RuleInv
<1>7. HoldsNumbers'
  BY <1>2, SameBoard
<1>8. QED
  BY <1>2, <1>5, <1>6, <1>7 DEF PcbInv, PrimitiveInv, PourInv, RuleInv

LEMMA RebuildEndsInv == PcbInv /\ RebuildEnds => PcbInv'
<1> SUFFICES ASSUME PcbInv, RebuildEnds PROVE PcbInv'
  OBVIOUS
<1>1. PICK last \in {<<>>} \cup (IF CallsForAll THEN {<<AllFailure>>} ELSE {}) :
        Answers([told |-> IF want.pours \cap Callable # {} THEN "rebuildCopperRegion" ELSE "none",
                 rebuilt |-> rebuilt, failed |-> failed \o last, pouredCount |-> pouredCount,
                 note |-> (rebuilt = {} /\ failed \o last # <<>>)])
  BY DEF RebuildEnds
<1> DEFINE to == IF want.pours \cap Callable # {} THEN "rebuildCopperRegion" ELSE "none"
           end == failed \o last
           n == rebuilt = {} /\ end # <<>>
           a == [told |-> to, rebuilt |-> rebuilt, failed |-> end, pouredCount |-> pouredCount,
                 note |-> n]
           A == want.pours \cap Callable
           S == {OwnFailure(q) : q \in Pours}
           T == S \cup {AllFailure}
<1>2. /\ PrimitiveInv /\ PourInv /\ RuleInv /\ stage = "asked" /\ want.op = "rebuild"
      /\ left = {} /\ Answers(a)
      /\ UNCHANGED <<want, given, board, poured, preference, left, rebuilt, failed, pouredCount>>
  BY <1>1, Asked DEF RebuildEnds, Tried, pourVars
<1>3. /\ poured = rebuilt /\ rebuilt \subseteq A /\ pouredCount = Cardinality(rebuilt)
      /\ failed \in Seq(S) /\ Unbuilt = A \ poured
      /\ \A q \in Pours : IF q \in Unbuilt THEN NamedOnce(q, failed) ELSE NotNamed(q, failed)
  BY <1>2 DEF PourInv, Tally, Unbuilt
<1>4. to \in {"rebuildCopperRegion", "none"}
  OBVIOUS
<1> HIDE DEF to, A, S, T
<1>5. failed \in Seq(T) /\ Len(failed) \in Nat /\ DOMAIN failed = 1..Len(failed)
      /\ \A i \in DOMAIN failed : \E q \in Pours : failed[i] = OwnFailure(q)
  <2>1. failed \in [1..Len(failed) -> S] /\ Len(failed) \in Nat
    BY <1>3, LenProperties
  <2>2. failed = [i \in 1..Len(failed) |-> failed[i]] /\ \A i \in 1..Len(failed) : failed[i] \in T
    BY <2>1 DEF T
  <2> DEFINE k == Len(failed)
  <2> HIDE DEF k
  <2>3. k \in Nat /\ failed = [i \in 1..k |-> failed[i]] /\ \A i \in 1..k : failed[i] \in T
    BY <2>1, <2>2 DEF k
  <2>4. failed \in Seq(T)
    BY <2>3, IsASeq
  <2>5. QED
    BY <2>1, <2>4 DEF S
<1>6. /\ \A q \in Pours : IF q \in A \ poured THEN NamedOnce(q, end) ELSE NotNamed(q, end)
      /\ \A i \in DOMAIN end :
           \/ \E q \in Pours : end[i] = OwnFailure(q)
           \/ end[i] = AllFailure /\ i = Len(end) /\ poured = {}
  <2>1. CASE last = <<>>
    <3>1. end = failed
      BY <1>5, <2>1
    <3> HIDE DEF end
    <3>2. QED
      BY <1>3, <1>5, <3>1
  <2>2. CASE last = <<AllFailure>> /\ CallsForAll
    <3> DEFINE e == AllFailure
    <3>1. e \in T /\ \A q : e # OwnFailure(q)
      BY OwnFailures DEF T
    <3>2. end = Append(failed, e)
      <4> HIDE DEF e
      <4>1. last = <<e>>
        BY <2>2 DEF e
      <4>2. QED
        BY <1>5, <4>1, AppendIsConcat
    <3> HIDE DEF e, end
    <3>3. /\ end \in Seq(T) /\ Len(end) = Len(failed) + 1 /\ DOMAIN end = 1..Len(end)
          /\ end[Len(failed) + 1] = e /\ \A i \in 1..Len(failed) : end[i] = failed[i]
      BY <1>5, <3>1, <3>2, AppendProperties, LenProperties
    <3>4. \A q \in Pours : IF q \in A \ poured THEN NamedOnce(q, end) ELSE NotNamed(q, end)
      BY <1>3, <1>5, <3>1, <3>2, OneMoreFailure
    <3>5. poured = {}
      BY <1>3, <2>2 DEF CallsForAll
    <3>6. \A i \in DOMAIN end :
            \/ \E q \in Pours : end[i] = OwnFailure(q)
            \/ end[i] = e /\ i = Len(end) /\ poured = {}
      BY <1>5, <3>3, <3>5
    <3>7. QED
      BY <3>4, <3>6 DEF e
  <2>3. QED
    BY <1>1, <2>1, <2>2
<1> HIDE DEF end, n
<1>7. /\ stage' = "done" /\ answer'.told = to /\ answer'.rebuilt = rebuilt
      /\ answer'.failed = end /\ answer'.note = n /\ answer'.pouredCount = pouredCount
  BY <1>2 DEF Answers
<1>8. PoursAsRebuilt'
  <2>1. /\ poured' = poured /\ want' = want /\ AllFailure' = AllFailure
        /\ \A q : OwnFailure(q)' = OwnFailure(q)
    BY <1>2 DEF AllFailure, OwnFailure
  <2>2. n <=> poured = {} /\ end # <<>>
    BY <1>3 DEF n
  <2>3. answer'.told # "rebuildCopperRegions"
    BY <1>4, <1>7
  <2>4. \A q \in Pours : IF q \in (want'.pours \cap Callable) \ poured'
                         THEN NamedOnce(q, answer'.failed) ELSE NotNamed(q, answer'.failed)
    BY <1>6, <1>7, <2>1 DEF A
  <2>5. \A i \in DOMAIN answer'.failed :
           \/ \E q \in Pours : answer'.failed[i] = OwnFailure(q)
           \/ answer'.failed[i] = AllFailure /\ i = Len(answer'.failed) /\ poured' = {}
    BY <1>6, <1>7, <2>1
  <2>6. answer'.rebuilt = poured' /\ answer'.pouredCount = Cardinality(poured')
    BY <1>3, <1>7, <2>1
  <2>7. answer'.note <=> poured' = {} /\ answer'.failed # <<>>
    BY <1>7, <2>1, <2>2
  <2>8. QED
    BY <2>1, <2>3, <2>4, <2>5, <2>6, <2>7 DEF PoursAsRebuilt, NamedOnce, NotNamed, OwnFailure, AllFailure
<1>9. PrimitivesAsStored' /\ CorruptionIsLoud'
  BY <1>2, <1>4, <1>7 DEF PrimitivesAsStored, CorruptionIsLoud, RuleInv
<1>10. HoldsNumbers'
  BY <1>2, SameBoard
<1>11. QED
  BY <1>2, <1>7, <1>8, <1>9, <1>10 DEF PcbInv, PrimitiveInv, PourInv, RuleInv

LEMMA ChecksRulesInv == PcbInv /\ ChecksRules => PcbInv'
<1> SUFFICES ASSUME PcbInv, ChecksRules PROVE PcbInv'
  OBVIOUS
<1>1. /\ PrimitiveInv /\ PourInv /\ RuleInv /\ stage = "asked" /\ want.op = "rules"
      /\ (stage' = "write" /\ UNCHANGED answer) \/ Answers([told |-> "refused"])
      /\ UNCHANGED <<want, given, board, poured, preference, left, rebuilt, failed, pouredCount>>
  BY Asked DEF ChecksRules, pourVars
<1>2. HoldsNumbers'
  BY <1>1, SameBoard
<1>3. CASE stage' = "write" /\ UNCHANGED answer
  <2>1. PrimitivesAsStored' /\ PoursAsRebuilt' /\ CorruptionIsLoud' /\ answer'.told = "nothing"
    BY <1>1, <1>3, UnansweredInv
  <2>2. QED
    BY <1>1, <1>2, <1>3, <2>1 DEF PcbInv, PrimitiveInv, PourInv, RuleInv
<1>4. CASE Answers([told |-> "refused"])
  <2>1. stage' = "done" /\ PrimitivesAsStored' /\ PoursAsRebuilt'
    BY <1>4, AnsweredInv
  <2>2. CorruptionIsLoud'
    BY <1>1 DEF RuleInv, CorruptionIsLoud
  <2>3. QED
    BY <1>1, <1>2, <2>1, <2>2 DEF PcbInv, PrimitiveInv, PourInv, RuleInv
<1>5. QED
  BY <1>1, <1>3, <1>4

LEMMA RulesAcceptedInv == PcbInv /\ RulesAccepted => PcbInv'
<1> SUFFICES ASSUME PcbInv, RulesAccepted PROVE PcbInv'
  OBVIOUS
<1>1. /\ PrimitiveInv /\ PourInv /\ RuleInv /\ stage = "write" /\ Answers([told |-> "accepted"])
      /\ UNCHANGED <<want, given, board, poured, preference, left, rebuilt, failed, pouredCount>>
  BY Asked DEF RulesAccepted, pourVars
<1>2. stage' = "done" /\ PrimitivesAsStored' /\ PoursAsRebuilt'
  BY <1>1, AnsweredInv
<1>3. CorruptionIsLoud'
  BY <1>1 DEF RuleInv, CorruptionIsLoud
<1>4. HoldsNumbers'
  BY <1>1, SameBoard
<1>5. QED
  BY <1>1, <1>2, <1>3, <1>4 DEF PcbInv, PrimitiveInv, PourInv, RuleInv

LEMMA RulesRejectedInv ==
  ASSUME PcbInv, NEW how \in {"false", "threw"}, RulesRejected(how)
  PROVE  PcbInv'
<1>1. /\ PrimitiveInv /\ PourInv /\ RuleInv /\ stage = "write" /\ want.op = "rules"
      /\ stage' = how
      /\ UNCHANGED <<want, given, board, poured, left, rebuilt, failed, pouredCount, answer>>
  BY Asked DEF RulesRejected, pourVars
<1>2. PrimitivesAsStored' /\ PoursAsRebuilt' /\ CorruptionIsLoud' /\ answer'.told = "nothing"
  BY <1>1, UnansweredInv
<1>3. HoldsNumbers'
  BY <1>1, SameBoard
<1>4. QED
  BY <1>1, <1>2, <1>3 DEF PcbInv, PrimitiveInv, PourInv, RuleInv

LEMMA GuardedWriteInv == PcbInv /\ guardedRuleConfigWrite => PcbInv'
<1> SUFFICES ASSUME PcbInv, guardedRuleConfigWrite PROVE PcbInv'
  OBVIOUS
<1>1. PICK isList \in BOOLEAN :
        /\ isList => preference = "sound"
        /\ Answers([told |-> IF ~isList THEN "repair"
                             ELSE IF stage = "threw" THEN "error" ELSE "rejected"])
  BY DEF guardedRuleConfigWrite
<1> DEFINE to == IF ~isList THEN "repair" ELSE IF stage = "threw" THEN "error" ELSE "rejected"
<1>2. /\ PrimitiveInv /\ PourInv /\ RuleInv /\ stage \in {"false", "threw"}
      /\ Answers([told |-> to])
      /\ UNCHANGED <<want, given, board, poured, preference, left, rebuilt, failed, pouredCount>>
  BY <1>1, Asked DEF guardedRuleConfigWrite, pourVars
<1>3. to \in {"repair", "error", "rejected"} /\ (preference # "sound" => to = "repair")
  BY <1>1
<1> HIDE DEF to
<1>4. stage' = "done" /\ answer'.told = to
  BY <1>2 DEF Answers
<1>5. PrimitivesAsStored' /\ PoursAsRebuilt' /\ CorruptionIsLoud'
  BY <1>2, <1>3, <1>4 DEF PrimitivesAsStored, PoursAsRebuilt, CorruptionIsLoud
<1>6. HoldsNumbers'
  BY <1>2, SameBoard
<1>7. QED
  BY <1>2, <1>4, <1>5, <1>6 DEF PcbInv, PrimitiveInv, PourInv, RuleInv

LEMMA PcbInitInv == EditorInit => PcbInv
<1>1. ASSUME PcbInit PROVE PcbInv
  <2>1. /\ want \in PcbRequests /\ stage = "asked" /\ answer = [told |-> "nothing"]
        /\ poured = {} /\ rebuilt = {} /\ failed = <<>> /\ left = want.pours
        /\ preference = "sound" /\ pouredCount = 0
    BY <1>1 DEF PcbInit
  <2> DEFINE o == toPolygonSource(<<<<0, 0>>>>)
             one == number(1)
             zero == number(0)
             mode == single(zero)
  <2>2. board = [layer |-> one, layerId |-> one, mode |-> mode, width |-> one, outline |-> o]
    BY <1>1 DEF PcbInit
  <2>3. one.is = "number" /\ zero.is = "number" /\ zero \in Argument
    BY NumberTyped
  <2> HIDE DEF o, one, zero
  <2>4. /\ mode.items = <<zero>> /\ <<zero>> \in Seq(Argument) /\ Len(<<zero>>) = 1
        /\ ToSet(<<zero>>) = {zero}
    BY <2>3 DEF single, ToSet
  <2>5. mode \in Modes
    BY <2>4 DEF single, Modes
  <2> HIDE DEF mode
  <2>6. HoldsNumbers
    <3>1. board.layer = one /\ board.layerId = one /\ board.mode = mode
      BY <2>2
    <3>2. \A v \in ToSet(board.mode.items) : v.is = "number"
      BY <2>3, <2>4, <3>1
    <3>3. Len(board.mode.items) = 1
      BY <2>4, <3>1
    <3>4. QED
      BY <2>3, <2>5, <3>1, <3>2, <3>3 DEF HoldsNumbers, NoDeadValues
  <2>7. PrimitiveInv
    BY <2>1, <2>6 DEF PrimitiveInv, PrimitivesAsStored
  <2>8. Tally
    <3> DEFINE S == {OwnFailure(p) : p \in Pours}
    <3>1. <<>> \in Seq(S)
      <4> HIDE DEF S
      <4>1. QED
        BY EmptySeq
    <3>2. IsFiniteSet({}) /\ Cardinality({}) = 0
      BY FS_EmptySet
    <3>3. Unbuilt = {}
      BY <2>1 DEF Unbuilt
    <3>4. \A p \in Pours : NotNamed(p, failed)
      BY <2>1 DEF NotNamed
    <3>5. QED
      BY <2>1, <3>1, <3>2, <3>3, <3>4 DEF Tally
  <2>9. PourInv
    BY <2>1, <2>8 DEF PourInv, PoursAsRebuilt
  <2>10. RuleInv
    BY <2>1 DEF RuleInv, CorruptionIsLoud
  <2>11. QED
    BY <2>1, <2>7, <2>9, <2>10 DEF PcbInv
<1>2. ASSUME NoPcb PROVE PcbInv
  BY <1>2 DEF NoPcb, PcbInv
<1>3. QED
  BY <1>1, <1>2 DEF EditorInit

LEMMA PcbStepInv == PcbInv /\ [EditorNext]_editorVars => PcbInv'
<1> SUFFICES ASSUME PcbInv, [EditorNext]_editorVars PROVE PcbInv'
  OBVIOUS
<1>1. ASSUME PcbNext PROVE PcbInv'
  BY <1>1, NormalizeInv, EdaStoresInv, EdaThrowsInv, readBackInv, ReadBackFailsInv,
     PourTriedInv, RebuildAllInv, RebuildEndsInv, ChecksRulesInv, RulesAcceptedInv,
     RulesRejectedInv, GuardedWriteInv DEF PcbNext
<1>2. ASSUME UNCHANGED pcbVars PROVE PcbInv'
  <2>1. UNCHANGED <<want, stage, given, board, preference, answer, poured, left, rebuilt, failed,
                    pouredCount>>
    BY <1>2 DEF pcbVars, pourVars
  <2>2. UNCHANGED requested /\ (AsRequested => AsRequested')
    BY <2>1, SameRequest
  <2>3. stage # "idle" => PrimitiveInv'
    <3> SUFFICES ASSUME stage # "idle" PROVE PrimitiveInv'
      OBVIOUS
    <3>1. PrimitiveInv
      BY DEF PcbInv
    <3>2. HoldsNumbers'
      BY <2>1, <3>1, SameBoard
    <3>3. reversed(requested.mode)' = reversed(requested.mode)
      BY <2>2 DEF reversed
    <3>4. PrimitivesAsStored'
      BY <2>1, <2>2, <3>1, <3>3 DEF PrimitiveInv, PrimitivesAsStored
    <3>5. QED
      BY <2>1, <2>2, <3>1, <3>2, <3>4 DEF PrimitiveInv, Closes
  <2>4. PourInv => PourInv'
    <3>1. /\ \A p : OwnFailure(p)' = OwnFailure(p)
          /\ UNCHANGED <<AllFailure, Unbuilt>>
      BY <2>1 DEF OwnFailure, AllFailure, Unbuilt
    <3>2. Tally => Tally'
      BY <2>1, <3>1 DEF Tally, NamedOnce, NotNamed, OwnFailure
    <3>3. PoursAsRebuilt => PoursAsRebuilt'
      BY <2>1, <3>1 DEF PoursAsRebuilt, NamedOnce, NotNamed, OwnFailure
    <3>4. QED
      BY <2>1, <3>2, <3>3 DEF PourInv
  <2>5. RuleInv => RuleInv'
    BY <2>1 DEF RuleInv, CorruptionIsLoud
  <2>6. QED
    BY <2>1, <2>3, <2>4, <2>5 DEF PcbInv
<1>3. QED
  BY <1>1, <1>2 DEF EditorNext, SchematicTask, ConnectivityTask, BoardTask, editorVars

(* Wherever it stands in the parameters of a create or a modify, a number, *)
(* digits or a name reaches the board as a number or not at all: for every *)
(* request that the tools let through, an array or object in a place that  *)
(* no converter looks into excepted.                                       *)
THEOREM BoardsHoldNumbers == EditorSpec => []NoDeadValues
<1>1. PcbInv => NoDeadValues
  BY DEF PcbInv, PrimitiveInv, HoldsNumbers, NoDeadValues
<1>2. QED
  BY <1>1, PcbInitInv, PcbStepInv, PTL DEF EditorSpec

(* What a board's handlers tell their caller is what is on the board: the  *)
(* primitive read back, the pours rebuilt and the calls that failed, also  *)
(* where the call for all pours was tried, and a preference past reading,  *)
(* for any pours, shapes and rule configurations.                          *)
THEOREM BoardAnswersAreTrue == EditorSpec => []AnswersAreTrue
<1>1. PcbInv => AnswersAreTrue
  <2>1. PcbInv /\ stage # "idle" => AnswersAreTrue
    BY DEF PcbInv, PrimitiveInv, PourInv, RuleInv, AnswersAreTrue
  <2>2. PcbInv /\ stage = "idle" => AnswersAreTrue
    BY DEF PcbInv, AnswersAreTrue, PrimitivesAsStored, PoursAsRebuilt, CorruptionIsLoud
  <2>3. QED
    BY <2>1, <2>2
<1>2. QED
  BY <1>1, PcbInitInv, PcbStepInv, PTL DEF EditorSpec

-----------------------------------------------------------------------------
(* Connectivity.  The search is a recursive function of the hops, so what  *)
(* it reaches is shown by induction on a set of numbers.                   *)

LEMMA LeastNumber ==
  ASSUME NEW T, T \subseteq Nat, T # {}
  PROVE  \E x \in T : \A y \in T : x <= y
<1> DEFINE R == OpToRel(<, Nat)
<1>1. IsWellFoundedOn(R, Nat)
  BY NatLessThanWellFounded
<1>2. \A x, y \in Nat : <<y, x>> \in R <=> y < x
  BY DEF OpToRel
<1> HIDE DEF R
<1>3. \E x \in T : \A y \in T : ~ (<<y, x>> \in R)
  BY <1>1, WFMin
<1>4. PICK x \in T : \A y \in T : ~ (<<y, x>> \in R)
  BY <1>3
<1>5. ASSUME NEW y \in T PROVE x <= y
  <2>1. x \in Nat /\ y \in Nat
    OBVIOUS
  <2>2. ~(y < x)
    BY <1>2, <1>4, <2>1
  <2>3. QED
    BY <2>1, <2>2
<1>6. QED
  BY <1>5

LEMMA EveryNumber ==
  ASSUME NEW S, 0 \in S, \A n \in Nat : n \in S => n + 1 \in S
  PROVE  \A n \in Nat : n \in S
<1> SUFFICES ASSUME NEW m \in Nat, m \notin S PROVE FALSE
  OBVIOUS
<1> DEFINE T == {n \in Nat : n \notin S}
<1>1. T \subseteq Nat /\ T # {}
  OBVIOUS
<1>2. PICK x \in T : \A y \in T : x <= y
  BY <1>1, LeastNumber
<1>3. x \in Nat /\ x # 0
  OBVIOUS
<1>4. x - 1 \in Nat /\ (x - 1) + 1 = x
  BY <1>3
<1>5. x - 1 \notin S
  BY <1>4
<1>6. x - 1 \in T
  BY <1>4, <1>5
<1>7. x <= x - 1
  BY <1>2, <1>6
<1>8. QED
  BY <1>3, <1>7

(* The function the search defines exists, whatever the number of hops.    *)
IsSearch(q, hops, s) ==
  s = [hop \in 1..hops |-> IF hop = 1 THEN start(q) ELSE nextHop(q, s[hop - 1])]

LEMMA SearchExists == \A q : \A hops \in Nat : \E s : IsSearch(q, hops, s)
<1> SUFFICES ASSUME NEW q PROVE \A hops \in Nat : \E s : IsSearch(q, hops, s)
  OBVIOUS
<1> DEFINE S == {hops \in Nat : \E s : IsSearch(q, hops, s)}
<1>1. 0 \in S
  <2>1. IsSearch(q, 0, [hop \in 1..0 |-> start(q)])
    BY DEF IsSearch
  <2>2. QED
    BY <2>1
<1>2. ASSUME NEW n \in Nat, n \in S PROVE n + 1 \in S
  <2>1. PICK s : IsSearch(q, n, s)
    BY <1>2
  <2> DEFINE t == [hop \in 1..(n + 1) |-> IF hop = 1 THEN start(q) ELSE nextHop(q, s[hop - 1])]
  <2>2. \A hop \in 1..n : t[hop] = s[hop]
    BY <2>1 DEF IsSearch
  <2>3. \A hop \in 1..(n + 1) : hop # 1 => hop - 1 \in 1..n
    OBVIOUS
  <2>4. \A hop \in 1..(n + 1) : hop # 1 => t[hop - 1] = s[hop - 1]
    BY <2>2, <2>3
  <2>5. \A hop \in 1..(n + 1) :
          t[hop] = IF hop = 1 THEN start(q) ELSE nextHop(q, t[hop - 1])
    BY <2>4
  <2>6. t = [hop \in 1..(n + 1) |-> t[hop]]
    OBVIOUS
  <2> HIDE DEF t
  <2>7. IsSearch(q, n + 1, t)
    BY <2>5, <2>6 DEF IsSearch
  <2>8. QED
    BY <2>7
<1>3. \A n \in Nat : n \in S
  <2> HIDE DEF S
  <2>1. QED
    BY <1>1, <1>2, EveryNumber
<1>4. QED
  BY <1>3

Searched(q, hops) ==
  CHOOSE s : s = [hop \in 1..hops |-> IF hop = 1 THEN start(q) ELSE nextHop(q, s[hop - 1])]

LEMMA SearchIsLast == \A q : \A hops \in Nat \ {0} : search(q, hops) = Searched(q, hops)[hops]
BY DEF search, Searched

LEMMA SearchedSteps ==
  ASSUME NEW q, NEW hops \in Nat \ {0}
  PROVE  /\ Searched(q, hops)[1] = start(q)
         /\ \A h \in 1..(hops - 1) :
              Searched(q, hops)[h + 1] = nextHop(q, Searched(q, hops)[h])
<1> DEFINE s == Searched(q, hops)
<1>1. \E t : IsSearch(q, hops, t)
  BY SearchExists
<1>2. IsSearch(q, hops, s)
  BY <1>1 DEF IsSearch, Searched
<1> HIDE DEF s
<1>3. \A hop \in 1..hops : s[hop] = IF hop = 1 THEN start(q) ELSE nextHop(q, s[hop - 1])
  BY <1>2 DEF IsSearch
<1>4. \A h \in 1..(hops - 1) : h + 1 \in 1..hops /\ h + 1 # 1 /\ (h + 1) - 1 = h
  OBVIOUS
<1>5. 1 \in 1..hops
  OBVIOUS
<1>6. QED
  BY <1>3, <1>4, <1>5 DEF s

AllOf(q) == Designators(q, Components(q))

LEMMA NeighboursAreDesignators ==
  ASSUME NEW q, NEW d, NEW e \in Neighbours(q, d)
  PROVE  d \in AllOf(q) /\ e \in AllOf(q)
<1>1. PICK net \in designatorToDollarNets(q, d) : e \in netToDesignators(q, net)
  BY DEF Neighbours
<1>2. \E u \in Components(q) : q.netlist[u].designator = d
  BY <1>1 DEF designatorToDollarNets
<1>3. \E u \in Components(q) : q.netlist[u].designator = e
  BY <1>1 DEF netToDesignators
<1>4. QED
  BY <1>2, <1>3 DEF AllOf, Designators

Path(q, k, path) ==
  /\ path \in [0..k -> AllOf(q)]
  /\ path[0] \in q.designators.names
  /\ \A i \in 0..(k - 1) : path[i] = path[i + 1] \/ path[i + 1] \in Neighbours(q, path[i])

LEMMA WithinPath ==
  ASSUME NEW q, NEW k \in Nat, NEW d
  PROVE  Within(q, k, d) <=> \E path : Path(q, k, path) /\ path[k] = d
BY DEF Within, Path, AllOf

LEMMA WithinNone ==
  ASSUME NEW q, NEW d \in AllOf(q)
  PROVE  Within(q, 0, d) <=> d \in q.designators.names
<1>1. ASSUME Within(q, 0, d) PROVE d \in q.designators.names
  BY <1>1, WithinPath DEF Path
<1>2. ASSUME d \in q.designators.names PROVE Within(q, 0, d)
  <2> DEFINE path == [i \in 0..0 |-> d]
  <2>1. path \in [0..0 -> AllOf(q)] /\ path[0] = d
    OBVIOUS
  <2> HIDE DEF path
  <2>2. Path(q, 0, path)
    BY <1>2, <2>1 DEF Path
  <2>3. QED
    BY <2>1, <2>2, WithinPath
<1>3. QED
  BY <1>1, <1>2

LEMMA WithinOneMore ==
  ASSUME NEW q, NEW k \in Nat, NEW d \in AllOf(q)
  PROVE  Within(q, k + 1, d) <=>
           \E e \in AllOf(q) : Within(q, k, e) /\ (d = e \/ d \in Neighbours(q, e))
<1>1. ASSUME Within(q, k + 1, d)
      PROVE  \E e \in AllOf(q) : Within(q, k, e) /\ (d = e \/ d \in Neighbours(q, e))
  <2>1. PICK path : Path(q, k + 1, path) /\ path[k + 1] = d
    BY <1>1, WithinPath
  <2> DEFINE front == [i \in 0..k |-> path[i]]
             e == path[k]
  <2>2. /\ path \in [0..(k + 1) -> AllOf(q)]
        /\ path[0] \in q.designators.names
        /\ \A i \in 0..((k + 1) - 1) :
             path[i] = path[i + 1] \/ path[i + 1] \in Neighbours(q, path[i])
    BY <2>1 DEF Path
  <2>3. /\ \A i \in 0..k : i \in 0..(k + 1)
        /\ \A i \in 0..(k - 1) : i \in 0..k /\ i + 1 \in 0..k /\ i \in 0..((k + 1) - 1)
        /\ 0 \in 0..k /\ k \in 0..k /\ k \in 0..((k + 1) - 1)
    OBVIOUS
  <2>4. /\ front \in [0..k -> AllOf(q)]
        /\ \A i \in 0..k : front[i] = path[i]
    BY <2>2, <2>3
  <2> HIDE DEF front
  <2>5. Path(q, k, front) /\ front[k] = e
    BY <2>2, <2>3, <2>4 DEF Path
  <2>6. Within(q, k, e)
    BY <2>5, WithinPath
  <2>7. e \in AllOf(q) /\ (d = e \/ d \in Neighbours(q, e))
    BY <2>1, <2>2, <2>3
  <2> HIDE DEF e
  <2>8. QED
    BY <2>6, <2>7
<1>2. ASSUME NEW e \in AllOf(q), Within(q, k, e), d = e \/ d \in Neighbours(q, e)
      PROVE  Within(q, k + 1, d)
  <2>1. PICK front : Path(q, k, front) /\ front[k] = e
    BY <1>2, WithinPath
  <2> DEFINE path == [i \in 0..(k + 1) |-> IF i = k + 1 THEN d ELSE front[i]]
  <2>2. /\ front \in [0..k -> AllOf(q)]
        /\ front[0] \in q.designators.names
        /\ \A i \in 0..(k - 1) :
             front[i] = front[i + 1] \/ front[i + 1] \in Neighbours(q, front[i])
    BY <2>1 DEF Path
  <2>3. /\ \A i \in 0..(k + 1) : i = k + 1 \/ i \in 0..k
        /\ \A i \in 0..k : i \in 0..(k + 1) /\ i # k + 1
        /\ \A i \in 0..((k + 1) - 1) : i \in 0..(k - 1) \/ i = k
        /\ \A i \in 0..(k - 1) : i \in 0..k /\ i + 1 \in 0..k
        /\ 0 \in 0..k /\ k \in 0..k /\ k + 1 \in 0..(k + 1)
    OBVIOUS
  <2>4. /\ path \in [0..(k + 1) -> AllOf(q)]
        /\ \A i \in 0..k : path[i] = front[i]
        /\ path[k + 1] = d
    BY <2>2, <2>3
  <2> HIDE DEF path
  <2>5. \A i \in 0..((k + 1) - 1) :
          path[i] = path[i + 1] \/ path[i + 1] \in Neighbours(q, path[i])
    <3> SUFFICES ASSUME NEW i \in 0..((k + 1) - 1)
                 PROVE  path[i] = path[i + 1] \/ path[i + 1] \in Neighbours(q, path[i])
      OBVIOUS
    <3>1. CASE i = k
      BY <1>2, <2>1, <2>3, <2>4, <3>1
    <3>2. CASE i \in 0..(k - 1)
      BY <2>2, <2>3, <2>4, <3>2
    <3>3. QED
      BY <2>3, <3>1, <3>2
  <2>6. Path(q, k + 1, path)
    BY <2>2, <2>3, <2>4, <2>5 DEF Path
  <2>7. k + 1 \in Nat
    OBVIOUS
  <2>8. QED
    BY <2>4, <2>6, <2>7, WithinPath
<1>3. QED
  BY <1>1, <1>2

(* After h hops nothing reached is left unexplored but the frontier, and   *)
(* what is reached is what lies within h - 1 hops.                         *)
Explored(q, s) ==
  /\ s.frontier \subseteq s.reached
  /\ \A e \in s.reached \ s.frontier : Neighbours(q, e) \subseteq s.reached
ReachedWithin(q, s, k) == \A d \in AllOf(q) : d \in s.reached <=> Within(q, k, d)

LEMMA HopExplores ==
  ASSUME NEW q, NEW s, Explored(q, s)
  PROVE  /\ Explored(q, nextHop(q, s))
         /\ \A d : d \in nextHop(q, s).reached <=>
              \E e \in s.reached : d = e \/ d \in Neighbours(q, e)
<1> DEFINE next == nextFrontier(q, s)
           t == nextHop(q, s)
<1>1. t.frontier = next /\ t.reached = s.reached \cup next
  BY DEF nextHop
<1>2. \A d : d \in next <=>
        (\E e \in s.frontier : d \in Neighbours(q, e)) /\ d \notin s.reached
  BY DEF nextFrontier
<1>3. /\ s.frontier \subseteq s.reached
      /\ \A e \in s.reached \ s.frontier : Neighbours(q, e) \subseteq s.reached
  BY DEF Explored
<1> HIDE DEF next, t
<1>4. \A e \in s.reached : Neighbours(q, e) \subseteq t.reached
  BY <1>1, <1>2, <1>3
<1>5. t.frontier \subseteq t.reached /\ t.reached \ t.frontier \subseteq s.reached
  BY <1>1
<1>6. Explored(q, t)
  BY <1>4, <1>5 DEF Explored
<1>7. ASSUME NEW d
      PROVE  d \in t.reached <=> \E e \in s.reached : d = e \/ d \in Neighbours(q, e)
  BY <1>1, <1>2, <1>3, <1>4
<1>8. QED
  BY <1>6, <1>7 DEF t

LEMMA HopReaches ==
  ASSUME NEW q, NEW s, NEW k \in Nat, Explored(q, s), ReachedWithin(q, s, k)
  PROVE  Explored(q, nextHop(q, s)) /\ ReachedWithin(q, nextHop(q, s), k + 1)
<1>1. /\ Explored(q, nextHop(q, s))
      /\ \A d : d \in nextHop(q, s).reached <=>
              \E e \in s.reached : d = e \/ d \in Neighbours(q, e)
  BY HopExplores
<1>2. ASSUME NEW d \in AllOf(q)
      PROVE  d \in nextHop(q, s).reached <=> Within(q, k + 1, d)
  <2>1. \A e \in s.reached : (d = e \/ d \in Neighbours(q, e)) => e \in AllOf(q)
    BY NeighboursAreDesignators
  <2>2. \A e \in AllOf(q) : e \in s.reached <=> Within(q, k, e)
    BY DEF ReachedWithin
  <2>3. d \in nextHop(q, s).reached <=>
          \E e \in AllOf(q) : Within(q, k, e) /\ (d = e \/ d \in Neighbours(q, e))
    BY <1>1, <2>1, <2>2
  <2>4. QED
    BY <2>3, WithinOneMore
<1>3. QED
  BY <1>1, <1>2 DEF ReachedWithin

LEMMA SearchReaches ==
  ASSUME NEW q, NEW hops \in Nat \ {0}
  PROVE  ReachedWithin(q, search(q, hops), hops - 1)
<1> DEFINE s == Searched(q, hops)
           Good(k) == Explored(q, s[k + 1]) /\ ReachedWithin(q, s[k + 1], k)
           S == {k \in Nat : k < hops => Good(k)}
<1>1. /\ s[1] = start(q)
      /\ \A h \in 1..(hops - 1) : s[h + 1] = nextHop(q, s[h])
  BY SearchedSteps
<1> HIDE DEF s
<1>2. 0 \in S
  <2>1. s[0 + 1] = start(q)
    BY <1>1
  <2>2. /\ start(q).frontier = q.designators.names
        /\ start(q).reached = q.designators.names
    BY DEF start
  <2>3. Explored(q, start(q))
    BY <2>2 DEF Explored
  <2>4. ReachedWithin(q, start(q), 0)
    BY <2>2, WithinNone DEF ReachedWithin
  <2>5. QED
    BY <2>1, <2>3, <2>4
<1>3. ASSUME NEW k \in Nat, k \in S PROVE k + 1 \in S
  <2> SUFFICES ASSUME k + 1 < hops PROVE Good(k + 1)
    OBVIOUS
  <2>1. k < hops /\ k + 1 \in 1..(hops - 1)
    OBVIOUS
  <2>2. Explored(q, s[k + 1]) /\ ReachedWithin(q, s[k + 1], k)
    BY <1>3, <2>1
  <2>3. s[(k + 1) + 1] = nextHop(q, s[k + 1])
    BY <1>1, <2>1
  <2>4. QED
    BY <2>2, <2>3, HopReaches
<1>4. \A k \in Nat : k \in S
  <2> HIDE DEF S
  <2>1. QED
    BY <1>2, <1>3, EveryNumber
<1>5. hops - 1 \in Nat /\ hops - 1 < hops /\ (hops - 1) + 1 = hops
  OBVIOUS
<1>6. ReachedWithin(q, s[hops], hops - 1)
  BY <1>4, <1>5
<1>7. QED
  BY <1>6, SearchIsLast DEF s

-----------------------------------------------------------------------------
(* The two views of an answer.                                             *)

LEMMA WiredPins ==
  ASSUME NEW q, NEW wanted, NEW u, NEW n
  PROVE  <<u, n>> \in Wired(q, wanted) <=>
           /\ u \in Shown(q, wanted)
           /\ n \in q.pinNumbers
           /\ n \in DOMAIN q.netlist[u].pins
           /\ ~q.netlist[u].pins[n].own
BY DEF Wired

LEMMA LabelOfPin ==
  ASSUME NEW q, NEW wanted, NEW u, NEW n, <<u, n>> \in Wired(q, wanted)
  PROVE  <<q.netlist[u].designator, n>> \in Labels(q, wanted, q.netlist[u].pins[n])
<1> DEFINE w == <<u, n>>
           net == q.netlist[u].pins[n]
<1>1. w[1] = u /\ w[2] = n
  OBVIOUS
<1>2. NetOf(q, w) = net /\ Label(q, w[1], w[2]) = <<q.netlist[u].designator, n>>
  BY <1>1 DEF NetOf, Label
<1>3. w \in Wired(q, wanted)
  OBVIOUS
<1> HIDE DEF w, net
<1>4. Label(q, w[1], w[2]) \in Labels(q, wanted, net)
  BY <1>2, <1>3 DEF Labels
<1>5. QED
  BY <1>2, <1>4 DEF net

LEMMA PinOfLabel ==
  ASSUME NEW q, NEW wanted, NEW net, NEW label \in Labels(q, wanted, net)
  PROVE  \E w \in Wired(q, wanted) : /\ label[1] = q.netlist[w[1]].designator
                                     /\ label[2] = w[2]
                                     /\ q.netlist[w[1]].pins[w[2]] = net
BY DEF Labels, Label, NetOf

(* What an answer without a filter of nets shows.                          *)
LEMMA NetsShow ==
  ASSUME NEW q, q.nets.any, NEW wanted, NEW u, NEW n, <<u, n>> \in Wired(q, wanted),
         wanted.any \/ <<Head(q.netlist[u].designator)>> \in wanted.names
  PROVE  LET net == q.netlist[u].pins[n] IN
           /\ net \in DOMAIN netsView(q, wanted)
           /\ <<q.netlist[u].designator, n>> \in netsView(q, wanted)[net]
<1> DEFINE net == q.netlist[u].pins[n]
           d == q.netlist[u].designator
           label == <<d, n>>
<1>1. label \in Labels(q, wanted, net)
  BY LabelOfPin
<1>2. label[1] = d
  OBVIOUS
<1>3. wanted.any \/ <<Head(d)>> \in wanted.names
  OBVIOUS
<1>4. net = NetOf(q, <<u, n>>)
  BY DEF NetOf
<1> HIDE DEF label, d, net
<1>5. Relevant(q, wanted, net)
  BY <1>1, <1>2, <1>3 DEF Relevant
<1>6. Keeps(q.nets, net)
  BY DEF Keeps
<1>7. net \in {NetOf(q, w) : w \in Wired(q, wanted)}
  BY <1>4
<1>8. net \in DOMAIN netsView(q, wanted) /\ netsView(q, wanted)[net] = Labels(q, wanted, net)
  BY <1>5, <1>6, <1>7 DEF netsView
<1>9. QED
  BY <1>1, <1>8 DEF label, d, net

LEMMA NetsShowPins ==
  ASSUME NEW q, NEW wanted, NEW net \in DOMAIN netsView(q, wanted)
  PROVE  netsView(q, wanted)[net] = Labels(q, wanted, net)
BY DEF netsView

LEMMA ExpandedKeeps ==
  ASSUME NEW q \in Queries
  PROVE  /\ Expanded(q).any <=> q.designators.any
         /\ \A d \in AllOf(q) : Keeps(Expanded(q), d) <=>
              (q.designators.any \/ Within(q, q.depth - 1, d))
<1> DEFINE wanted == Expanded(q)
<1>1. q.depth \in Nat \ {0}
  BY QueriesAssumption
<1>2. \A d \in AllOf(q) : d \in search(q, q.depth).reached <=> Within(q, q.depth - 1, d)
  BY <1>1, SearchReaches DEF ReachedWithin
<1>3. CASE q.designators.any
  <2>1. wanted = All
    BY <1>3 DEF Expanded, Reaching
  <2>2. wanted.any
    BY <2>1 DEF All
  <2>3. QED
    BY <1>3, <2>2 DEF Keeps
<1>4. CASE ~q.designators.any
  <2>1. wanted = [any |-> FALSE, names |-> search(q, q.depth).reached]
    BY <1>4 DEF Expanded, Reaching
  <2>2. ~wanted.any /\ wanted.names = search(q, q.depth).reached
    BY <2>1
  <2> HIDE DEF wanted
  <2>3. QED
    BY <1>2, <1>4, <2>2 DEF Keeps, wanted
<1>5. QED
  BY <1>3, <1>4

LEMMA GetIsRight ==
  ASSUME query \in Queries, connectivityGet
  PROVE  ConnectivityIsRight'
<1> DEFINE q == query
           wanted == Expanded(q)
           units == Touching(q, wanted)
<1>1. PICK last \in LastRead(q, units) :
        reply' = [nets |-> netsView(q, wanted), components |-> componentsView(q, last),
                  ready |-> TRUE]
  BY DEF connectivityGet
<1>2. /\ reply'.nets = netsView(q, wanted)
      /\ reply'.components = componentsView(q, last)
      /\ query' = q
  BY <1>1 DEF connectivityGet
<1> DEFINE nets == reply'.nets
           components == reply'.components
<1> SUFFICES ASSUME q.nets.any
             PROVE  /\ DOMAIN components =
                         {d \in AllOf(q) : q.designators.any \/ Within(q, q.depth - 1, d)}
                    /\ \A d \in DOMAIN components : \A n \in DOMAIN components[d] :
                         LET net == components[d][n] IN
                         (~net.own /\ (q.designators.any \/ Undotted(d))) =>
                            net \in DOMAIN nets /\ <<d, n>> \in nets[net]
                    /\ \A net \in DOMAIN nets : \A label \in nets[net] :
                         Alone(q, label[1]) => components[label[1]][label[2]] = net
  BY <1>2 DEF ConnectivityIsRight, AllOf
<1>3. units = Shown(q, wanted)
  BY DEF Touching
<1>4. /\ DOMAIN last = Designators(q, units)
      /\ \A d \in DOMAIN last : last[d] \in units /\ q.netlist[last[d]].designator = d
  BY <1>1 DEF LastRead
<1>5. /\ DOMAIN components = DOMAIN last
      /\ \A d \in DOMAIN last : components[d] = q.netlist[last[d]].pins
  BY <1>2 DEF componentsView
<1>6. /\ wanted.any <=> q.designators.any
      /\ \A d \in AllOf(q) : Keeps(wanted, d) <=>
              (q.designators.any \/ Within(q, q.depth - 1, d))
  BY ExpandedKeeps
<1> HIDE DEF q, wanted, units, nets, components
<1>7. \A u : u \in units <=> u \in Components(q) /\ Keeps(wanted, q.netlist[u].designator)
  BY <1>3 DEF Shown
<1>8. DOMAIN components =
        {d \in AllOf(q) : q.designators.any \/ Within(q, q.depth - 1, d)}
  <2>1. Designators(q, units) = {d \in AllOf(q) : Keeps(wanted, d)}
    BY <1>7 DEF Designators, AllOf
  <2>2. QED
    BY <1>4, <1>5, <1>6, <2>1
<1>9. ASSUME NEW d \in DOMAIN components, NEW n \in DOMAIN components[d],
             ~components[d][n].own, q.designators.any \/ Undotted(d)
      PROVE  components[d][n] \in DOMAIN nets /\ <<d, n>> \in nets[components[d][n]]
  <2> DEFINE u == last[d]
  <2>1. u \in units /\ q.netlist[u].designator = d /\ components[d] = q.netlist[u].pins
    BY <1>4, <1>5
  <2> HIDE DEF u
  <2>2. u \in Components(q) /\ Keeps(wanted, d) /\ u \in Shown(q, wanted)
    BY <1>3, <1>7, <2>1
  <2>3. n \in q.pinNumbers
    <3>1. u \in DOMAIN q.netlist
      BY <2>2 DEF Components
    <3>2. DOMAIN q.netlist[u].pins \subseteq q.pinNumbers
      BY <3>1, QueriesAssumption DEF q
    <3>3. QED
      BY <2>1, <3>2
  <2>4. <<u, n>> \in Wired(q, wanted)
    BY <1>9, <2>1, <2>2, <2>3, WiredPins
  <2>5. wanted.any \/ <<Head(d)>> \in wanted.names
    BY <1>6, <1>9, <2>2 DEF Keeps, Undotted
  <2>6. LET net == q.netlist[u].pins[n] IN
           /\ net \in DOMAIN netsView(q, wanted)
           /\ <<q.netlist[u].designator, n>> \in netsView(q, wanted)[net]
    BY <2>1, <2>4, <2>5, NetsShow
  <2>7. nets = netsView(q, wanted)
    BY <1>2 DEF nets
  <2>8. QED
    BY <2>1, <2>6, <2>7
<1>10. ASSUME NEW net \in DOMAIN nets, NEW label \in nets[net], Alone(q, label[1])
       PROVE  components[label[1]][label[2]] = net
  <2>1. nets = netsView(q, wanted)
    BY <1>2 DEF nets
  <2>2. label \in Labels(q, wanted, net)
    BY <2>1, NetsShowPins
  <2>3. PICK w \in Wired(q, wanted) : /\ label[1] = q.netlist[w[1]].designator
                                      /\ label[2] = w[2]
                                      /\ q.netlist[w[1]].pins[w[2]] = net
    BY <2>2, PinOfLabel
  <2> DEFINE u == w[1]
             n == w[2]
             d == q.netlist[u].designator
  <2>4. label[1] = d /\ label[2] = n /\ q.netlist[u].pins[n] = net
    BY <2>3
  <2>5. u \in units
    BY <1>3, <2>3 DEF Wired
  <2> HIDE DEF u, n
  <2>6. d \in DOMAIN last
    BY <1>4, <2>5 DEF Designators
  <2>7. last[d] \in units /\ q.netlist[last[d]].designator = d
        /\ components[d] = q.netlist[last[d]].pins
    BY <1>4, <1>5, <2>6
  <2>8. last[d] = u
    BY <1>7, <1>10, <2>4, <2>5, <2>7 DEF Alone
  <2>9. QED
    BY <2>4, <2>7, <2>8
<1>11. QED
  BY <1>8, <1>9, <1>10

ConnectivityInv ==
  /\ task = "connectivity" => query \in Queries
  /\ ConnectivityIsRight

(* An answer of sch.connectivity.get reaches as far as it was asked to,    *)
(* and its two views agree.                                                *)
THEOREM ConnectivityAnswersAreRight == EditorSpec => []ConnectivityIsRight
<1>1. EditorInit => ConnectivityInv
  BY DEF EditorInit, NoConnectivity, ConnectivityInit, ConnectivityInv, ConnectivityIsRight
<1>2. ConnectivityInv /\ [EditorNext]_editorVars => ConnectivityInv'
  <2> SUFFICES ASSUME ConnectivityInv, [EditorNext]_editorVars PROVE ConnectivityInv'
    OBVIOUS
  <2>1. CASE ConnectivityTask
    BY <2>1, GetIsRight DEF ConnectivityTask, ConnectivityInv, connectivityGet
  <2>2. CASE UNCHANGED <<query, reply, task>>
    BY <2>2 DEF ConnectivityInv, ConnectivityIsRight
  <2>3. QED
    BY <2>1, <2>2
      DEF EditorNext, SchematicTask, BoardTask, connectivityVars, editorVars
<1>3. ConnectivityInv => ConnectivityIsRight
  BY DEF ConnectivityInv
<1>4. QED
  BY <1>1, <1>2, <1>3, PTL DEF EditorSpec

=============================================================================
