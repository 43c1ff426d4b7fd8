# A TLA+ development of the EasyEDA MCP bridge

The bridge lets an MCP client (an assistant) drive a running EasyEDA editor. It
is three processes in a row, each of which may be restarted, disconnected or
slow on its own:

    MCP client --stdio--> MCP server proxy --NDJSON over a Unix socket--> bridge daemon
       --WebSocket--> extension in the editor --calls--> the eda API

This directory holds the models of that system, the TLC runs that check them on
small instances, and the TLAPS proofs of what holds on every instance.
`PROJECT.json` lists the runs, a seeded fault for every checked property, the
source lines behind every definition, the hazards and the theorems.

Run a model with `tlc -config X.cfg M`, a proof module with `tlapm M.tla`.

## Inventory

| Component (source under `src/`) | State it keeps | Operations | What is hard | Status |
|---|---|---|---|---|
| Verification gate and auth exchange (`extension/daemon-verification.ts`, `ws-client.ts` 326-357, 654-741, `bridge-daemon/index.ts` 535-622, `auth-mac.ts`, `auth-path-validator.ts`) | gate, its timer and waiters, `AUTH_STATE`; per connection `authed`, `registered`, `authAnswered` | challenge, token read, answer, `auth.ok`, MAC check, timeout, reset | promises that outlive their socket; three kinds of peer; timeout against late proof | modelled, proved: `DaemonVerification` |
| Request queue and pipeline (`extension/request-queue.ts`, `ws-client.ts` 263-291, 358-501, `active-document-check.ts`) | queue tail, the slot and its timer, `forceReleased`, the editor's active document | enqueue, verdict, document switch, check, type check, handler, answer, force release | one shared editor; calls that never return; released tasks that stay alive; a user | modelled, proved: `RequestPipeline` |
| Daemon's extensions and requests (`bridge-daemon/index.ts` 200-436, 500-650, `request-id.ts`) | `extensions`, `pendingExtRequests`, counter, auth state and timers per socket | connect, authenticate, register, replace, close, call, answer, time out, shut down, restart | reconnects that overtake the close of the old socket; answers on another socket or in another run | modelled, proved, except instance information, ping and log: `BridgeDaemon`, `Rpc` |
| Extension's connection (`ws-client.ts` 502-660, 742-1015, `extension/index.ts`) | connection flags, retry, attempt and heartbeat timers, response buffer, live mode | activate, toggle, connect, open, give up, schedule, check, beat, flush, push, shutdown message | timers of abandoned attempts; every path must leave a timer armed; sockets that die silently | modelled in real time, proved: `Connection` |
| Proxy client and tool list (`mcp-server/proxy-client.ts`, `index.ts`) | socket, `connected`, pending calls, buffer, retry timer, known tools | connect, list, call, retry, disconnect, reconnect, sync, stop | a destructive call must take effect at most once; what a dead connection leaves behind; overlapping reconnect attempts | modelled, proved: `ProxyClient`, `ToolCall` |
| Daemon lifecycle (`bridge-daemon/index.ts` 437-508, 660-903, `spawn.ts`, `protocol.ts`) | socket and token files, WebSocket port, idle timer, monitor of the socket file | spawn, probe, bind, unlink, bind again, watch, write the token, listen, idle exit, shutdown | several daemons starting and stopping at once on names nobody locks | modelled, proved, except pid file, log and named pipes: `DaemonLifecycle` |
| Netlist cache (`handlers/sch-netlist-utils.ts`) | entry, generation, fetch in flight | get, join, fetch, keep, invalidate, expire | invalidation and project switch during a fetch | modelled, proved: `NetlistCache` |
| Multi-step schematic handlers (`sch-page-walk.ts`, `sch-component.ts`, `preserve-metadata.ts`, `sch-document.ts`, `sch-wire.ts`, `sch-primitive.ts`, `sch-select.ts`) | none of their own; the open page, the components' metadata | walk pages and restore, read with netlist, swap, read-merge-modify, batch, import, connectivity | one step of several fails; handlers that overlap after a timeout; the user | modelled: `SchematicHandlers`, `Connectivity`, `EditorHandlers` |
| Backup repository (`bridge-daemon/backup.ts`, and the tools that call it) | working tree, index and history of one git repository | fetch, ensure the repository, write or wipe and unzip, add, diff, commit, report, then the destructive call | several backups at once on one tree and index; a crash between any two steps | modelled, proved: `Backup` |
| Tool registry, tools (`bridge-daemon/registry.ts`, `tools/*.ts`) | none | describe, validate, forward, format | mostly one call each | the order of backup and destructive call: `Backup`; the rest is one call each |
| PCB handlers (`extension/handlers/*.ts`) | none | normalise parameters, create and read back, rebuild copper with fallback, guarded rule writes | failures in the middle; values stored as they are sent | modelled where they take more than one call: `PcbHandlers` |
| File library (`lib/`) | the parsed source, writer session, symbol editor indexes | load, add, remove, save, restyle, place | ids and designators across sessions; orientations; shared styles | modelled except samples of reports and the board schemas, proved in part: `EasyEdaSource`, `SchematicWriter`, `SymbolEditor`, `Geometry`, `Library` |
| `pcb-lint` skill | none | checks | pure functions | not modelled |
| Build, packaging, site, examples | none | - | - | not modelled: no run-time behaviour |

How they interact. The daemon's socket handler and the extension's message
handler exchange three kinds of messages on one WebSocket: the auth exchange,
requests with an id, and answers with that id. The extension shares one editor
among all requests, and the user shares it too. The daemon is asked by several
proxies, and an extension reconnects to whichever daemon listens.

For each component, what makes it correct:

* gate: "verified" only after a mutual proof; every waiter is let go; no verdict
  is downgraded; no request of a daemon meets an idle gate;
* pipeline: at most one answer, none after release; a write lands in the document
  that was named; one hanging call blocks nobody for ever;
* daemon: a request is decided once, by its own answer, a timeout or the end of
  its socket; the registry names the live socket of each instance;
* connection: while live it always tries again, and soon enough; nothing but the user
  ends a working connection; kept answers arrive;
* proxy: a call takes effect at most once, a refused one never; every call is
  settled; the proxy comes back by itself and offers the tools of the present daemon;
* lifecycle: a daemon that nobody displaces keeps its names; one that has lost them, or
  has no clients, makes way;
* cache: nothing stale after a write or a project switch, and nothing newer replaced by
  something older; handlers: the page is restored, each component is read once,
  metadata survives, answers say what happened; library: what is written reads back as
  asked, with no name used twice;
* backup: the destructive call has a snapshot of what it destroys.

## The models

### `DaemonVerification`: the gate across reconnects

| Variable | Code |
|---|---|
| `gate`, `timer` | `current` and `timer` of `createDaemonVerification` |
| `authState` | `globalThis[AUTH_STATE_KEY]`; which connection's nonces it holds |
| `reads`, `checks` | promises under way in `answerAuthChallenge` and `handleAuthOk` |
| `conn`, `up`, `toExt`, `toPeer` | the latest WebSocket and what is on it |
| `sess` | the daemon's `authed`, `authAnswered`, `registered` for it |
| `req` | the requests of the peer, up to the pipeline's use of the verdict |
| `from`, `vouched`, `proofs`, `settledBy` | history, for the properties only |

`Settle`, `AuthOkChecked` and `MarkPending` are the gate's methods; `Connect` is
`connect()` from the reset on; the `Receive...` actions are branches of
`handleMessage`, `FinishTokenRead` and `FinishCheck` the code after their awaits.
A MAC is named by the nonce pair it is over, so a peer without the token can
replay or invent but not compute one. The peers are a current daemon, one
from before hmac-v1, and any other program on the port.

What the environment may do: drop the socket at any time, never answer, read the
token late or never, send any message of the right shape.

### `RequestPipeline`: slots, the editor and the user

`pc[r]` says which `await` a request's task is at; an action is the code from one
await to the next, with its `isForceReleased()` check. `slot`, `forced` and
`queue` are `request-queue.ts`; `active` is the editor's document. A handler
is `HandlerSteps` writes of the document that is active when each is made. An
open call may do its work late, silently fail, throw or never return.
`disturbed` records whom a user's or a released task's switch of documents hit
after the pipeline had verified the document, a window the code cannot close; `skipped`
records that the editor could not say which document is active, in which case
`checkActiveDocument` lets the request through.

### `BridgeDaemon` and `Rpc`: requests, sockets and runs

`extensions`, `pending` (with `id` and `outcome`) are the daemon's maps; `ws` the
`readyState` of each socket; `authed`, `answered`, `registered` the variables of
its connection handler; `run` and `seq` the nonce and the counter of
`createRequestIdGenerator`. Registration includes the request for the
instance's information that it makes. `holder` and `answers` are the extension's side:
it answers once, on any socket it then has, which is what its response buffer
amounts to. `Restart` ends the process, at any point, and starts the next.

`Rpc` is the promise made to a tool: a request is made or refused, and once made
is decided once, by its own answer or by a failure. `ImplementsRpc` maps the
daemon's outcomes to it.

### `ProxyClient` and `ToolCall`: calls across daemons

A socket is named by the run of the daemon it leads to, because a connection ends
only when that process or the proxy ends; `run` is the latest run and `up` the live ones,
so a daemon whose socket file was unlinked may live on beside its successor. `sock`
stands for `sock` and `connected`, which are assigned together. `connecting` is `connectPromise`;
`redialling`, `relisting` and the calls in state `"connecting"` are those who await
it, and since promise continuations run before the next event, what each of them
then does (fire the listener, send again) is part of `OpenSocket` or
`ConnectFails`. `timers` counts the chains of `scheduleReconnect`, of which there
may be several. `wire`, `running`, `inbox` are the daemon's end of tool calls, `executed`
what any daemon began to execute. Listings are counted by attempt (`pendingList`), as
all of one connection have the same answer; `slow` records the runs on which one
timed out.

`ToolCall` is what the agent may rely on: at most one effect, an answer only
after it, a refusal only without it, and otherwise an unknown outcome that may
take effect later.

### `Backup`: one git repository for all calls

`tree`, `index` and `history` are the repository, a file's content being the
version of the design it was fetched from; `inited` says that `.git` exists. `pc` follows a
call from its fetch through `ensureRepo`, the writes, `getHead` and `commitAndGetSha` to the
destructive request. A git command is one action, as git locks the index, and one
that finds the lock taken for all its retries is among the ways to fail (`Throws`). `GitCommit` is
`git commit -- <project>`, which takes tracked files from the working tree and not from the
index, and fails if that changes nothing. `Crash` ends every call under way and leaves
the files. `crossed` is history: who was at work while another call was at work on one
of the same files.

### `Connection`: timers in real time

Here the timers are the subject, so time is explicit: `reconnect`, `check`, `beat` and each
of `giveUps` is the time a timer has left, `Tick` lets one unit pass, and what is due cannot be
overtaken. `giveUps` is a set because nothing cancels the 10 s timer of an attempt. `sock`
is the host's registration for the id, which the code must close before `register()` does
anything again; the host reports neither a failed attempt nor the death of a socket, so the
only ways to learn of them are a send that throws, the heartbeat and the timers. `buffer` and
`request` follow responses from a handler's `sendResponse` through the buffer and the
flush to the daemon. `live` and `stored` are live mode and the setting that survives a reload.
`waited` counts how long a listening daemon has waited for an extension in live mode; only the connection, the end of live mode or
the end of the daemon resets it, nothing that the code's own timers do. `setbacks` counts what
came into that wait from outside: an attempt that the user or the host set off, a `register()` or a send that
threw. A `request` ends as "sent", on an open socket, or "lost": swallowed by a
socket the host took for open, or displaced from a full buffer. `silence` and `restarts` (how often the heartbeat was
started anew in one silence) are counted in a connection only.

### `NetlistCache`, `SchematicHandlers`, `Connectivity`, `PcbHandlers`, `EditorHandlers`

A netlist is the project it describes and the number of edits it has seen. `call[c]` is one
caller of `fetchParsedNetlist`, `fetch[f]` one `getNetlistFile` under way, which is asked
for one project and answers for the one that is open when EasyEDA computes it.
`settled` is history: the edits that the last invalidation followed, which is what a caller may
count on; `since` is what a call was entitled to when it asked.

`SchematicHandlers` puts the handlers on top, one action for what happens between two awaits: the walk
(`h.todo` the pages left, `h.origin` the page to return to), the reads that fetch the netlist
beside it, swap, modify, batches, plain writes and imports. `slot` is the queue: a handler
whose slot times out runs on beside the next. `disturbed`, `stuck` and `raced` are history: that somebody else
turned pages, that EasyEDA would not open the page again, that a component was edited between a
handler's read and its write. `Connectivity` is the last step of `sch.connectivity.get`
over given netlists: the search as a recursive function of the hops, and the two views. A designator is the
sequence of the parts its dots separate, because a filter looks labels up by the first of them; of components that
share a designator the components view shows one, whichever comes last. `PcbHandlers` follows one board request. `EditorHandlers` is the three of
them, an editor showing one document at a time.

### `Library`: schematic pages, symbols and placements

`EasyEdaSource` is the reader: lines by kind, the model of a page, the transforms of pins.
`SchematicWriter` is a session of the writer over a file that is loaded and saved in any order,
`SymbolEditor` one of the symbol editor with its indexes of line numbers, `Geometry` the outlines and the clash
test. Lines are records of the slots the library reads; ids are numbers, designators a
prefix and a number.

### `DaemonLifecycle`: names nobody locks

`file` gives each name in the state directory to the daemon whose file it is, `port` the
WebSocket port. `boot[d]` says how far `main()` has come: bind, or find the name taken, probe, unlink,
bind again; watch the file, write the token, listen on the port. Between any two of these others take
steps. `process[d]` is up, closing (`shutdown()` was called), unlinking or gone; `main()` goes on
during a shutdown, as it does in the code. `uds.close()` unlinks the name it was bound to, and the unlinks of
the shutdown come after, both by name.
`entitled` and `crowded` are history: a daemon may take the names if it found the socket free or its
probe got no answer, and is crowded once it was so beside another one, or beside one on its way out.

## The runs

| Run | What it asks | Bounds |
|---|---|---|
| `daemon_verification` | `MutualAgreement`, `VerdictStands`, `EveryWaiterIsReleased` | 2 connections, 2 requests: whatever a connection leaves behind (a read, a check, a timer, a waiter, an exchange) meets the next one, and a settlement has several waiters |
| `verdict_across_reconnect` | `VerdictOfThisConnection`, violated | the same |
| `request_pipeline` | `WritesLandWhereAsked`, `AnsweredOnceAndInTime`, `EveryRequestGetsASlot` | 2 requests, 3 documents, 5 jobs, 1 write: a released task and the next one interleave; two boards tell "wrong document" from "wrong type" |
| `late_writes` | `LateWritesStayHome`, violated | the same |
| `bridge_daemon` | `OwnAnswer`, `PendingCanBeRejected`, `RegistryIsTrue`, `ImplementsRpc` | an instance with 2 sockets, a second instance that never connects, 1 tool call and 2 information requests, 2 runs, require mode: reconnect before the old close, an answer on the other socket, an answer across a restart |
| `proxy_client` | `AtMostOnce`, `NeverStranded`, `CallsSettle`, `ToolsConverge`, `ImplementsToolCall` | 1 call, 3 runs of the daemon with different tools: a first attempt lost with its daemon, a second one on the next, a daemon that never comes back, half a line left over, two chains of reconnect attempts and the second attempts of listings overlapping. The theorems hold for several calls |
| `backup` | `UndisturbedShaIsPriorState`, `EverythingIsCommitted`, `CallsEnd` | 2 calls that snapshot a project and one that backs up a document of it, 2 files, 1 edit by others: each call's commit can carry what another one added, a crash can leave any step half done, a call can start after the crash of another |
| `shared_snapshot` | `ShaIsPriorState`, violated | the same |
| `connection` | `CanReconnect`, `ReconnectsInTime`, `OnlyTheUserHangsUp`, `KeptResponsesArrive` | the delays scaled to 2, 4, 1 and 3 units with the order they have in the code, a beat of 2 and death after 6, 2 responses and a buffer of 2, 2 upsets: an attempt is made while the timers of two earlier ones run, a socket dies unseen, a flush fails in the middle and has a rest to keep. Both responses fit the buffer, so it does not overflow here; the theorems hold for all delays, responses and buffers |
| `editor_handlers` | `NeverStale`, `RightProject`, `CacheMovesForward`, `EachComponentOnce`, `PageComesBack`, `MetadataSurvives`, `ConnectivityIsRight`, `NoDeadValues`, `AnswersAreTrue` | 2 requests from a menu of 10, 2 fetches, 2 projects of 2 and 1 pages, 2 components, and 4 events, a walk counting as two: two requests and two mishaps, or a walk, a request and a mishap. Every netlist of 3 components and 5 pins over 3 nets, where one component may have a dot in its designator or the designator of another; every form of every parameter that the tool schemas let through, also in a modify's free record; 3 pours |
| `library` | `NamesStayUnique`, `RemovalLeavesNothing`, `AddedPartsConnect`, `StylesAsAsked`, `ClashesAreSeen`, `PinsAreWhereDrawn` | a chip in all 8 orientations with 2 edits, in one of them with 3, on pages with and without a netport; 2 restyles on 3 symbol files with shared, missing (number 0) and undecodable styles; 6 symbols, one with a notch in its outline, at 20 positions in 8 orientations beside 2 fixed ones: strokes and outlines that cross, parts inside others, parts in the notch |
| `daemon_lifecycle` | `LoneDaemonServes`, `OrphanLeaves`, `IdleLeaves` | 2 daemons, 1 client, 1 mishap, with or without the files of a dead daemon: every interleaving of two starts, of a start and an end, and of either with a crash, a signal, a lost file or a probe that times out |

`CHECK_DEADLOCK FALSE` everywhere: connections, requests, processes and runs are bounded, and
a system whose requests are all done may stop. What the proof modules show besides
(`TypeOK`, `NoWaiterLeftBehind`, `ChallengedBeforeRequest`, `OneTaskUnflagged`,
`RegisteredUntilItCloses`, `RefusedIsNotDone`, `PendingCanBeAnswered`) is not run again here.

The bounds of `bridge_daemon` leave out two instances registered at once (an ambiguous call without
`instance_id`) and the default auth policy of the daemon. The theorems of the proof
modules hold for those too. `editor_handlers` uses symmetry, on requests and on fetches; it
checks no liveness. No symbol of `library` is in the pipe format, so what a load is refused for there is the page; the proofs allow both.

**Three disagreements between the code and its comments.**

* `verdict_across_reconnect`. `reset()` is documented as "Fresh socket: forget
  everything" (`daemon-verification.ts:76`), but the token read of the old
  connection is not cancelled and settles the gate of the new one
  (`ws-client.ts:671-712`). A stale token read says "unverified" or "not-applicable", never
  "verified". A stale check of a MAC (`ws-client.ts:729-733`) can say "verified" of the new connection, on the
  strength of a proof that the old one did give. `MutualAgreement` says that this is the worst:
  the verdict rests on a mutual proof of the connection whose event settled it. That this
  is always the connection it is applied to is what `VerdictOfThisConnection` says and the code does not keep.
* `late_writes`. The comment on the queue (`ws-client.ts:277-279`) says that after
  force release further `eda` calls are abandoned; that is so between the steps of
  the pipeline, but not between the calls of one handler, so a
  released handler can write the document that the next request has opened.
* `shared_snapshot`. The tools promise that "the returned backup.sha references the
  pre-import state" (`file-manager-tools.ts:263-265`), but a second call that snapshots
  the same project may remove the directory (`backup.ts:242`) between the first one's
  writes and its `git add`. The first one then reports a commit in which the
  snapshot is empty, and imports. `UndisturbedShaIsPriorState` says that this is the only way:
  a call that no other one crossed on its own files is right, whatever others do
  to the index and to HEAD.

**What else the models show of the code.** Some of this contradicts a comment or a description, which is quoted; the rest
is what the properties above leave room for, and hold beside.

* *Connection.* "Any extension reconnects within 15s of a daemon
  (re)start" (`ws-client.ts:852-853`) does not hold. An attempt made just before the daemon
  listened fails silently and blocks the next for its 10 s, after which a full delay of 15 s begins. And
  nothing cancels the timer of an earlier attempt, so it can end a later one that is still opening. On the scale of the run, where
  the steady delay is 4, a wait of 11 occurs without anything from outside: a failed attempt's timer, and two more
  attempts ended by the timers of older ones. `PatienceBound`, which is proved, is the attempt timeout and, for each
  initial delay and two more, a steady delay and an opening: 70 s and four openings with the delays in the code. That there is
  a bound at all needs the 10 s to be less than the 15 s (`TimeoutAssumption`), or each timer would meet
  the next attempt for ever. The heartbeat's 30 + 2 x 30 s just reach its 90 s; two reloads
  of the extension in one silence can make it drop a link that is merely quiet. Requests that
  came over an old socket are still carried out after a reconnect (`ws-client.ts:405-408`).
* *Netlist cache.* A fetch in flight is joined whatever project it was asked for, and the key is read
  before the netlist is, so a caller can get the other project's netlist when the user changes
  projects in between, against "switching projects in the same window never serves another project's netlist"
  (`sch-netlist-utils.ts:15-16`). `RightProject` leaves out just that change of projects during a fetch, and says that
  there is no other way. A project that EasyEDA does not name shares one entry.
  A swap or a batch that fails midway, and `sch.document.importChanges`, do
  not invalidate, against "every write handler" (`sch-netlist-utils.ts:12-13`): what a reader may
  count on is therefore counted from the last invalidation, not from the last write.
* *Handlers.* With another kind of document open, a walk has no page to return to. `pcb_rebuild_pours` "returns which pours were rebuilt and
  which failed with a reason" (`write-tools.ts:196`), but when its one call for all pours succeeds it lists every pour as rebuilt
  and drops the failures of the pours' own calls (`pour-fill.ts:104-109`): only `pouredCount` says how many came back, and
  0 if EasyEDA returned no list. `AnswersAreTrue` bounds that count and takes the list of that answer for what it is, the pours it asked for.
  When the call for all fails, the list of failures has one entry per call and so may name a pour twice (`pour-fill.ts:111`); a
  pour without a rebuild of its own is passed over silently
  when another succeeds. "Unknown names throw" (`pcb-params.ts:44`) and "enum names are converted" (`write-tools.ts:298`) go for
  strings where one value is expected: the property of a modify is a record of anything, and an array in place of a layer, of a via type or of a
  fill mode is stored with the names that are in it, as is an object; and `"constructor"`, which every object has, finds a function in the tables
  instead of throwing. `NoDeadValues` lists these (`LetThrough`, `LetModeThrough`) and says that nothing else gets by, at
  `layer`, `layerId` and the enum field alike. Further, a read-back that fails returns the caller's own values. Of components
  with one designator connectivity's components view keeps only the last, while its nets view has the pins of all; and asked for
  designators it leaves out a net if every designator on it has a dot and what stands before the dot was not asked for or
  reached (`sch-document.ts:203`). `ConnectivityIsRight` says that the views agree otherwise. The read-back compares
  modes as sorted lists, not "as sets" (`read-back.ts:28`): a mode EasyEDA stores once though it was asked for twice is
  reported as not applied; `AnswersAreTrue` is about what both readings have in common.
* *Library.* The comments of `geometry.ts` say that open polylines and pin stubs are "treated as zero-area for the
  edge-intersection test" (18-21) and "skipped for the edge-cross check" (364-368). The code skips nothing: the edges of a stroke are tested like all others, and
  two strokes that cross are a clash. So they are in `ClashesAreSeen`, whose reference counts any point in common.
  Collinear edges and touching corners are left out of the test on purpose (340-341), so that parts whose outlines
  are aligned or coincide may go unreported, two netports in exactly the same place for one; hence the exception (`Touching`). The
  reference cuts a filled outline into triangles from its first corner, which therefore has to see all of it. `addSeriesResistor`
  without a netport template leaves the resistor behind. A designator the caller chooses is not registered.
  Companions are known within one session only. `allocFontStyleId` looks at the styles only: a label
  that names a missing style whose number is next is restyled with whatever label is forked first, which `SymbolFilesAssumption` excludes. Styles used by text and tables are not counted as shared.
* *Lifecycle.* "Race-safe" (`spawn.ts:71-73`) holds for starts beside a running daemon whose probe is answered, which is
  `LoneDaemonServes`, and not for two starts over a stale socket: the second to unlink takes away what the first has bound.
  A daemon that closes removes the names of its successor, twice. The token is written before the port is
  taken, so a daemon that fails on the port leaves its token, and its dead socket, in the place of the other's. The comment there says the opposite, that
  "a second daemon start cannot clobber the running daemon's token" (`index.ts:884-885`), which again is true only if the second
  one's probe is answered. And the monitor that should make a daemon leave when its "UDS file gets
  unlinked (or replaced)", so that it does not hold the port of the next (`index.ts:721-725`), first looks after the bind: if the file is
  gone by then there is no monitor, and if it is another's that is what it watches (738-744). Such a daemon leaves when its last client
  does, and keeps the port until then; `OrphanLeaves` names it as the one exception, and the run does not pass without it. The rest of
  these make a daemon leave, or a client start another, sooner or later; but a chain of such events has no bound, so no
  property says that a client is served in the end.
* *Backup.* A crash between `git init` and the first commit leaves a repository without a HEAD, in which every later
  backup is refused.

## Fairness

Only what needs nobody else is assumed to happen. `DaemonVerification`: the
exchange timer fires, a MAC check ends, the queue asks for the verdict; the token read may hang,
the peer and the network owe nothing. `RequestPipeline`: the slot's timer fires
and a released tail starts the next slot (a promise continuation); no `eda` call
need return. `BridgeDaemon`: the timer of a request fires. `ProxyClient`: the event loop
delivers a close, a timer and an answer that is there, and an attempt to connect ends. All
of these are timers or continuations of a running event loop, and each action stays enabled
until it is taken, so weak fairness is enough. Only the two steps of connecting have strong
fairness: an attempt may fail as often as it likes, but to a daemon that stays up some attempt
succeeds, since `ensureDaemonRunning` probes it again each time. `Backup`: a handler that has begun
takes its next step, since a git command ends and a request to the editor times out.
`Connection`: time passes and what is due happens (`Progress`). `DaemonLifecycle`: `main()` goes on, and the timers of a
process fire; of clients nothing is assumed. `EditorHandlers` and `Library` state safety only.

## What is proved

Every theorem holds for all values of the constants that satisfy the named
assumptions of the module (`MaxConnAssumption`, `DocAssumption`,
`InstanceAssumption` and so on, which TLC evaluates in every run).

`DaemonVerificationProofs`. `TypeCorrect`, `WaitersAreBounded`,
`AgreementIsMutual`, `ChallengePrecedesRequests`, `VerdictsStand`. The last
follows from types. `NoWaiterLeftBehind` is inductive with them, through one lemma on
what a settlement does. `MutualAgreement` is not inductive: it needs that no message
under way and no check in progress carries a MAC nobody vouched for
(`MacsAreVouchedFor`), and that a check which succeeds is over the nonces of its own connection. `AUTH_STATE` may hold
another one's, put there by a token read that ended late; but a challenge is answered once (`OneAnswerEach`), so no daemon has
accepted an answer to that one, and no MAC over it exists (`ExchangesAreFresh`). `ChallengedBeforeRequest` needs that while the gate
is idle the next message of a daemon is its challenge (`ChallengeComesFirst`).

`RequestPipelineProofs`. `TypeCorrect`, `SlotsAreExclusive`,
`AnswersAreTimely`, `WritesLand`. Every step of a task either goes on or settles
(`TaskMoves`), which with `QueueIsWaiting`, `ForcedHaveStarted` and
`UnsettledAreUnanswered` gives the first three. `WritesLand` adds what a task knows
between its checks and its writes (`KnowsWhereItIs`); that another task cannot move the editor
under it without disturbing it rests on `OneTaskUnflagged`.

`BridgeDaemonProofs`. `TypeCorrect`, `PendingIsRejectable`,
`RegistryHoldsGoodSockets`, `InstancesStayRegistered`, `AnswersAreOwn`,
`ImplementsRpcSafety`. `AnswersAreOwn` rests on the uniqueness of ids, hence on
every id being of the past (`IdsAreOfThePast`). The refinement adds that a socket's
information request is made once (`AskedOnce`); it then maps each step of the daemon to a
step of `Rpc` or to a stutter.

`ProxyClientProofs`. `TypeCorrect`, `ProxyComesBack`, `NeverTwice`, `RefusalsAreTrue`,
`PendingIsAnswerable`, `CallsAreAtMostOnce`. `OneRequestEach` is the heart: requests that are
pending, under way or executed never include two of one call, although a call has two
attempts, because a call that awaits `connect()` has none. `NeverStranded` and
`PendingCanBeAnswered` need `ConnectionInv`: no attempt is made while there is a connection. The
refinement maps every step to a step of `ToolCall` or a stutter; `ToolCall` has no liveness, so
the theorem is all of `ImplementsToolCall`.

`FileProofs`, the backup repository. `TypeCorrect`, `ReportsArePriorState`, `NothingLeftBehind`. The first
already needs that nothing is added before there is a HEAD (`HeadInv`). For
the second, `InPlace` says how far the files of an uncrossed call have come: in the
working tree from its writes on, in the index from its `git add`, in HEAD from its commit or from another
call's; others may stage and commit these files, but only with the content that
the working tree has, and `CrossedIsKnown` says that nobody else is writing them. For the
third, `SeenTo` says that while no call has failed, whatever the tree and the index, or the index
and HEAD, disagree on has a call under way that will commit it.

`FileProofs`, the writer of schematics. `NothingIsNamedTwice`, `RemovalsAreWhole`. A session is read as one page (`Whole`): the lines that
were loaded and the appended ones behind them, of which some are left (`Kept`). `LinesOK` says that the lines left are
consistent (`Consistent`: no id twice, no Unique ID twice, every attribute with its owner) and that the counters of
the session are ahead of all of them (`IdsBehind`). `serialize` only rearranges what is left, an edit appends a block whose
names are those the counter gave out (`Block`), and a removal takes a set of lines with every attribute of theirs, so what remains is
consistent again (`Leaves`). None of this is enough for removals: `CompanionsOK` says that companions have no
companions, which is why removing an element and them reaches everything in one pass, and `GoneTogether` that of
an edit of the session nothing is left, or its owner and the companions of it reach all that is.
For designators, `DesignatorsOK` says that the next number of each prefix is ahead of every designator on the page and of every
one allocated. Loading establishes it all from a well-formed page, and a saved page is well-formed, so the
rounds of load, edit and save can go on for ever. Assumed of the constants: every page is well-formed or in another format
(`PagesAssumption`), numbered designators are numbered by naturals (`DesignatorsAssumption`), the offset of a resistor's pins is an integer
(`OffsetAssumption`; 20, `schematic-writer.ts:345`).

`FileProofs`, labels and pins. `LabelsShowWhatWasAsked`: the invariant (`SymbolInv`, `EditorOK`) says that the indexes of the editor name
the lines they should, that every style a label names exists or never did (0), and what each label shows. A fork inserts a line, so all
indexes shift; that they do so together is `StyleInserted`. A restyle of several labels is a recursive function of their number,
so that it exists, and what it does to all of them, is by induction. `PinsAreDrawnWhereRead`:
the sixteen cases of orientation and angle, reduced to one statement about a turn that commutes with the offset of a pin's
body (`Turns`), for all integer coordinates. Assumed of the constants: symbols, placements and changes have the forms the schemas
give them (`SymbolsAssumption`, `PlacementAssumption`, `ChangesAssumption`), and the styles that labels of a file name are in
it, or missing under a number that is given to nobody (`SymbolFilesAssumption`; see the limits above).

`ConnectionProofs`. `ConnectionIsTyped`, `LiveModeCanReconnect`, `DaemonsAreFoundInTime`,
`NobodyElseHangsUp`, for all delays that satisfy `DelayAssumption`, `TimeoutAssumption` and `HeartbeatAssumption`. The
invariant has four parts: `Flags` relates `connected` and `connecting` to the socket and to a
running 10 s timer; `Retries` says that a live extension without a connection has a timer armed;
`Patience` bounds what is left to wait by what the timers hold (`Ends`): the attempt under way succeeds unless the timer of an
older one is due before the socket opens; after it comes the running delay or the next one; and of the attempts to come no more than
one per initial delay can be cut short, since a steady delay outlasts every timer left over (`Settles`). A setback starts the
account anew, for which the bound grows by as much; `Hearing` bounds the silence by the time to the next beat and
whether a ping or its answer is on the way.

`EditorHandlersProofs`. For the cache alone (`CacheSpec`): `CallersAreNeverStale`, `CallersGetTheirProject`,
`TheCacheMovesForward`. At most one request under way is of the current generation, and it is the one in the slot
(`Generations`); a kept or current netlist has seen every settled edit and, in flight, whatever the kept one has
seen (`NewEnough`); callers count on no more than what they are given can deliver (`CountedOn`), and know
their project (`ProjectsKnown`). `HandlersUseTheCache` then shows that every step of the composed
system is a step of the cache or leaves it alone, so the same three hold of the handlers, for any menu of requests and any pages
(`HandlersAreNeverStale`, `HandlersGetTheirProject`, `HandlersCacheMovesForward`).

Of the handlers themselves: `HandlersTypeCorrect`, `HandlersComeBack`, `WalksReadEachOnce`, `HandlersKeepMetadata`, for any number
of projects, pages, requests and mishaps. Three facts about each handler make the invariant: where it can be with what it has
left to do (`Route`), which page is open or owed to whom (`ComesBack`), and that what it has counted are the components of the
pages before the one it is on, if nobody has disturbed it (`Visit`). A step is a step of one handler, and `Others` says what the rest need
of it: that it leaves the open page alone or that they are told. Metadata adds that a snapshot is still what is stored, or
the component is known to have been edited since (`Fresh`). `Visit` counts with the pages
of a project being in a sequence without repetition (`PagesAssumption`: EasyEDA lists every page once, and a board is
no schematic page); `RequestsAssumption` says that a modify names a component that exists.

Of a board's request: `BoardsHoldNumbers`, `BoardAnswersAreTrue`. Whatever layer or mode goes into the converters, a number comes
out, or nothing if nothing went in (`Normalized`), and the invariant says what each stage has made of the request
(`PrimitiveInv`, `PourInv`, `RuleInv`). `PcbAssumption` lists what the tool schemas let through: in a modify's property anything, numbers, strings, arrays and other values,
alone or in lists; a track has no mode, a polygon has at least two points, or the converter does not take it for one
(`isPointArray`), and the pours that are found are among those asked for. Each claim of `AnswersAreTrue` about a
failed rebuild comes from what the list of failures holds while pours are left (`Tally`): every callable pour that is neither left nor poured, once.

Of connectivity: `ConnectivityAnswersAreRight`, for every netlist, filter and depth. After h hops nothing reached is left unexplored but the
frontier (`Explored`), and what is reached is what lies within h - 1 hops (`ReachedWithin`); one more hop reaches what
one more step of a path does (`HopReaches`, `WithinOneMore`). The search is a recursive function, so that it exists at all, and that
this holds after every hop, is by induction on the hops: `EveryNumber` proves from the library's well-foundedness of the naturals
that a set with 0 and every successor has them all, and is applied to the set of the numbers for which the claim holds.
`QueriesAssumption`: the depth is positive (`depth || 2`), and pins have numbers among those considered.

`DaemonLifecycleProofs`. `TheLoneDaemonServes`, for any number of daemons, clients and mishaps.
Those who bind, write or unlink the names are past the probe or on their way out
(`Entitlement`); a daemon that is not crowded is the only such one (`Alone`); so what it has by each stage of its start
(`Holds`) only it can have changed.

Only model-checked: the liveness properties (`EveryWaiterIsReleased`,
`EveryRequestGetsASlot`, the `Decided` part of `ImplementsRpc`, `CallsSettle`, `ToolsConverge`, `CallsEnd`,
`KeptResponsesArrive`, `OrphanLeaves`, `IdleLeaves`), which are beyond the
prover; and of the library `AddedPartsConnect`, which relates a session to the walk over wires that the reader makes of the page and rests on how the symbols of a library are drawn,
and `ClashesAreSeen`, a statement of plane geometry whose exceptions are many and small.

## Not modelled

Message texts, logging, formatting; HMAC and nonces as numbers; the shape of token
paths (an outcome of the challenge); the values that calls return. In `BridgeDaemon`, the
merge of instance information and the ping and log messages. Except in `Connection`, time is not
measured: a timer is an action that may happen once it is armed, so the models allow
orders that the configured delays would make rare, and say nothing about how the
120 s slot relates to the daemon's configurable timeout (a hazard on the list).

In `DaemonLifecycle`: the pid file, which nobody reads, the rotation of the log, named pipes, and extensions, whose
daemon is `BridgeDaemon`. In the handlers: those that pass one call on, and the geometry of polygons. In the
library: the samples in a parse report, `listSchematics`, the schemas of board files, curves with more than the
fewest segments, rotations other than by right angles. The tools of the daemon are descriptors around one
forwarded request each, and `pcb-lint` is a set of pure checks of one board in another language. Build scripts, the site and the
examples have no behaviour at run time.

## Plan

Done, in this order: `DaemonVerification`, `RequestPipeline`, `BridgeDaemon` with `Rpc`, `ProxyClient` with
`ToolCall`, `Backup`; `Connection`; `NetlistCache` with the handlers over it; the library; `DaemonLifecycle`; and the
proofs of each, of the library's in part.

What is left, and worth it:

1. `AddedPartsConnect` as a theorem of writer and reader: the wire that a part is added with ends where the pin is read.
2. The composition of pipeline, connection and daemon over one WebSocket, implementing `Rpc` end to end.
3. A module with the budgets of proxy, daemon and slot as constants, to show which orders of the three
   timeouts the answers rest on.
