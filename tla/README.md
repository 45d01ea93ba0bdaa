# TLA+ models of CC Use

CC Use is a desktop app (Tauri), a background daemon and a command line that let
coding assistants use any provider's API key through one local gateway. This
directory models the parts of it whose correctness depends on the order in which
several processes, threads or statements act, and the pure rules that decide what
a request may become: TLA+ modules translated from the source, TLC configurations
that check them on small instances, and TLAPS proofs of the properties that
matter most for every value of the constants.

Paths below are relative to the repository (`src/` here is its root), and line
numbers are those of the modelled commit; `PROJECT.json` ("map") names the lines
behind every definition.

    tlc -workers 2 -config records.cfg MC_Records          # check a run
    tlapm RequestPermits_proofs.tla                        # check the proofs of a module

## 1. Inventory

### 1.1 The system

Three kinds of process share one SQLite file and a few files under `~/.cc-use`,
`~/.codex` and Claude Desktop's directories:

* the **app** (`src-tauri/src/lib.rs`, `commands/`, `tray.rs`): its commands run on
  a thread pool; its `Mutex<Database>` is held per block, not per command;
* the **daemon** (`crates/cc-use-daemon`, `src-tauri/src/proxy`): the gateway on
  127.0.0.1, a management API, and a sweeper, on an async runtime with a database
  connection and a mutex of its own; launchd restarts it;
* any number of **`cc-use <client>`** command lines (`crates/cc-use-cli`), and the
  **wrapper scripts** they and the app start in terminals.

Nothing but SQLite orders the statements of different processes. A statement, or
an explicit transaction, is the unit in which they interleave.

### 1.2 Components

| Component | State | Operations | What makes it hard | What must hold |
|---|---|---|---|---|
| Managed launch and wrapper (`terminal/mod.rs`, `cmds.rs`) | stage of a launch; shell phase, stop already sent | prepare, create session, create instance, open terminal, roll back, mark failed; heartbeat, prelaunch, trap, exit | launcher dies between two rows; posts are fire-and-forget curl calls, late, lost or reordered | a launch leaves both rows or a closed token; an instance whose wrapper is gone is closed in the end |
| Instance rows and proxy sessions (`db/managed_instances.rs`, `db/proxy_sessions.rs`, `commands/managed_instances.rs`) | status, key, heartbeat age; valid or revoked, key, last use | create, touch, stop, fail, stale, hot switch, clean up; revoke, touch, delete | three processes write the same rows; switch races stop; foreign keys cascade | an ended instance never comes back, a revoked token never opens again, row and session name the same key |
| Daemon management API and sweeper (`management.rs`, `runtime.rs`) | the handler under the lock | heartbeat, stop (three statements), four sweep statements every 10 s | dies between statements; sweeps by age alone | stop and sweep agree whatever is repeated or lost |
| Request admission (`proxy/mod.rs`) | global semaphore, map of session semaphores | acquire both, prune the map, drop | try_acquire, lookup and the destructor overlap on several threads; pruning by `strong_count` | limits hold, the map is bounded, all permits return |
| Request handler, streams, relay, metrics (`proxy/handler.rs`, `proxy/mod.rs`, `db/gateway_metrics.rs`) | where a handler is, its guard, what a stream has seen; events, rows, metrics queue | route, forward, stream, relay, report | the client leaves at any await; responsibility moves from handler to stream or relay; capture bounds; bounded queue | one answer per request, console and log agree, success means complete |
| Codex takeover (`commands/codex_config.rs`) | setting, session row; backup, catalog, config.toml | takeover, restore | an await, then five writes outside any common lock; fails or dies between them; the user edits the same file; page and tray overlap | no token that nothing names stays open, success means taken over, a restore gives back the user's state |
| Claude Desktop takeover (`commands/claude_desktop_config.rs`) | setting, session row; four files of the client, a snapshot; key marked as current | takeover, restore, roll back, refresh after a saved key and at start | token and session are prepared under the lock, the files are written after it; a step, its rollback or the process fails; the user picks another profile | an open token is the one the setting names, an applied profile serves, a restore leaves nothing of ours |
| Providers, keys, outlets, import (`db/api_keys.rs`, `db/providers.rs`, `commands/gateways.rs`, `services/import_export.rs`) | provider and key rows, gateway rows that name both, a backup file | save, toggle, delete with cascades, export, import with and without overwriting; a relay's three reads per frame | outlets are bound to keys by no foreign key; deletions and imports are several statements which the daemon reads between | an outlet names a key of its provider that exists; a frame goes on only under a grant that held since it arrived |
| Model policy, headers and paths (`shared_runtime/gateway_*`, `request_headers.rs`, `user_agent.rs`, `upstream_routing.rs`, `handler.rs`) | none | envelope and body checks, strip and insert of headers, joining of paths | the order of strip, rules, credential and agent differs by route | the local token stays here, one credential goes out, only what the policy allows is sent, one version in the path |
| Console log store (`services/console_log_store.rs`) | rotated JSONL files, meta.json, directory lock, a queue per process | append, rotate, expire, prune, clear, page | two processes write, prune and clear one directory; crashes and failed writes between files and meta.json; a file that cannot be read, rewritten or deleted is passed over | within limits when idle but for files it could not read or delete, losses are announced, a cleared record does not return, a page says when something is missing |
| Console bridge and stream (`services/console_bridge.rs`, `console_stream.rs`, `tray.rs`) | broadcast ring, bytes on the way, buffer, backoff, refreshes of the badge | connect, lag, cut, reconnect, drain frames, ask for a refresh, read, draw | chunks end anywhere, the subscriber lags, the daemon restarts, a restart wakes the wait; refreshes run behind the window and overtake each other | events once and in order, what is shown as paid has its row and a refresh that finds it, the bridge gets back |
| Daemon lifecycle (`commands/settings.rs`, `lib.rs`, `daemon_client.rs`, `launchd.rs`) | wanted, loaded, running, version | toggle, watchdog, upgrade restart | toggle, watchdog and launchd race | converges to what the user wants, one daemon |
| Model catalog and mapping (`services/model_catalog.rs`, `shared_runtime/model_mapping.rs`) | cached catalogs per identity, alias table | fetch, fall back, save, rename, decode | key, list or rules change during a fetch; a renamed id meets a real one | a catalog is used only for the route it was fetched for, a pick is sent as what it stands for |
| Schema and migrations (`db/mod.rs`, `db/*_migration.rs`, `db/*_cleanup.rs`) | version, markers, columns, backfills | alter, run scripts, mark, snapshot, repair | every process migrates at its start, statement by statement; errors are swallowed | all processes end with the whole schema, what the user saved is kept |
| Usage parsing, auto mode (`proxy/usage_parser.rs`, ...) | none | pure functions on a request | parsing | unit-tested; outcomes are choices in our models |
| Statistics, balance, projects, terminals, UI, status line | rows and views | CRUD and queries | little concurrency of their own | see `PROJECT.json` |

`PROJECT.json` lists every component with its status, and under "hazards" each
thing that is hard to test, at its line, with the properties that cover it or the
reason why none does.

### 1.3 How they interact

* The launcher writes session and instance, then starts the wrapper; the wrapper
  posts heartbeats and a stop to the daemon; the sweeper ends what falls silent.
* A request presents a token. The gateway takes permits for it, reads session,
  instance, provider and key, forwards, and hands permits and reporting over to a
  stream or a relay. Console event, log row and metric are three separate writes.
* A takeover writes a desktop session whose token a desktop client then presents;
  the gateway substitutes the takeover session for Codex requests without one.
* The app switches keys, deletes them and revokes sessions while all of this runs.
* The daemon's console events go to the log directory (which the app writes and clears
  too) and over the event stream to the app's window and tray.
* A client's model menu is made from a cached catalog and a table of aliases; requests
  are decoded by that table, then rewritten for their upstream.
* Every process opens the database first, and migrates it.

## 2. Modules

| Module | What it is |
|---|---|
| `ManagedAccess` | abstract promise: a token opens once, is switched only while open, closes for good |
| `ManagedInstances` | launch, wrapper, daemon, sweeper, app and clock over the two tables; implements `ManagedAccess` |
| `RequestPermits` | global and session semaphores with the pruned map |
| `RequestLifecycle` | extends `RequestPermits`: one request from admission to its last report; implements `PermitsSpec` |
| `RequestRewrite` | what of a request reaches the upstream: policy, headers, path |
| `KeyStore` | providers, keys and outlets with deletion and import, read by a relay per frame |
| `ModelCatalog` | discovery, cache, menu, alias table |
| `CodexTakeover` | takeover and restore of Codex Desktop, statement by statement |
| `ClaudeDesktop` | takeover, restore and refresh of Claude Desktop, file by file |
| `ConsoleLogStore` | the console history on disk, two writers and a reader |
| `ConsoleStream` | the live console from the daemon's history to window and tray |
| `DaemonLifecycle` | switch, port, start, watchdog and launchd |
| `SchemaMigrations` | migrations of one database by several processes |
| `Records_proofs` | theorems and proofs about `KeyStore`, `SchemaMigrations`, `RequestRewrite` and `ModelCatalog`, and the types of all that `MC_Records` puts together |
| `Takeover_proofs` | theorems and proofs about `CodexTakeover`, `ClaudeDesktop` and both together (`MC_Desktop`) |
| `Daemon_proofs` | theorems and proofs about `DaemonLifecycle`, `ConsoleStream` and both together (`MC_Daemon`) |
| other `*_proofs` | theorems and proofs of the module of that name |
| `MC_*` | values of the constants, symmetry and constraints for TLC |

`MC_Desktop`, `MC_Daemon` and `MC_Records` each instantiate several modules that share no
state. Their variable `subject` says which of them moves in a behaviour, so the state
spaces add up instead of multiplying; nothing is claimed about a combination.

Definitions marked "(Variant: ...)" are plausible mistakes, kept beside what they
vary; `PROJECT.json` ("mutants") says which property each of them breaks.

### 2.1 ManagedInstances

`session` and `instance` are the two tables, a row per instance id (an id stands
for its token). `launch` and `shell` hold what a launcher and a wrapper remember,
`net` the posts under way, `app` and `daemon` what holds each process's database
mutex. Actions are named for the functions (`CreateSession`, `StopRead`,
`StopMark`, `StopRevoke`, `SweepLaunching`, ..., `ReassignCheck`,
`ReassignCommit`); the check of a request is three actions (`AuthSession`,
`AuthInstance`, `AuthKey`), because the app's statements may fall in between.
`net` is a set of messages per instance, so posts may be delayed and reordered
(a heartbeat that is sent again before the first was received is one message),
and they are lost while the daemon is down. Heartbeat ages count
heartbeat periods up to one beyond the last limit. Faults (failed statement,
crash, thirty idle days) share one bound.

### 2.2 RequestPermits and RequestLifecycle

A request passes through `stage` (its permits) and `at` (its handler). The steps
that touch shared state are separate: `TakeGlobal`, `Lookup` (which prunes, under
the lock of the map), `TakeSession`, `ReleaseGlobal`, `ReleaseSession`. A
semaphore is an address, so that a pruned and re-created semaphore of the same
token are two; `Held` is the test `Arc::strong_count(..) > 1`.

`task` is the stream or relay that took over from a handler, `carrier` says which
of them owns the permits, `armed` is the cancellation guard, `stream` what a
stream's accumulator knows (what the upstream `sent`, what was `seen`, whether
the capture was `truncated`, how it ended). `events`, `rows`, `queue` and `metric`
are what has been reported. Which of its many error paths a request takes is a
choice; what each path reports, stores and gives back is the code's.

### 2.3 RequestRewrite, KeyStore and ModelCatalog

These are the three parts of a request's meaning that `RequestLifecycle` abstracts.

`RequestRewrite` computes: a target (outlet, session, or passed through), a request, an
outcome. Headers are a function from names to the origin of the value ("local", "client",
"key", "provider", "chosen", "app"), which is what the policies tell apart; the operators
apply the source's operations in the source's order, which is not the same for outlets
(`build_headers`), sessions and their WebSocket handshakes, and requests passed through.
What a client's Connection lists (`ConnectionLists`) and what a provider's rules name (`RuleLists`)
are constants, sets of any header names, credentials and hop-by-hop ones included. So the model has
the two ways in which a session differs from an outlet: its key is set before the strip of what
Connection lists (`handler.rs:754`, 758), which can take it away again, and its rules have no reserved
names (2228). The property says what goes out in both.
A path is whether it is an inference endpoint and how often its result holds a version.

`KeyStore` has the rows of the database and `job`, the command the app is in and the
statement it has reached; every statement is an action, the daemon's reads fall between
them. `Next` conjoins `Watch`, which keeps the history variable `since`: which of a frame's
three conditions have held at some moment since it arrived. `replaced` are keys that an
import took with the row of their provider, the exception that `OutletsReach` names.

`ModelCatalog` has the discoveries in flight (`query`), the cache (`snapshots`, by route and
tenant headers), the alias `table` and who wrote it. Settings are read before the fetch
and used after it, so saves fall in between. An id is a base name with or without the
prefix the client wants, which is what renaming can confuse.

### 2.4 CodexTakeover and ClaudeDesktop

config.toml is a record of the four groups of fields a takeover overwrites, with
values "the user's", "absent" and "ours"; other keys are never touched. A
command is a program counter with what it remembers (key, token, the text it
read). Between two actions of one command the other command, a crash or an edit
may come. The history variables serve the properties only: `baseline` (the file
before the first of a series of takeovers), `disturbed` (two commands have
overlapped; the user has moved `model_provider` while it was ours) and `orphans`
(tokens replaced because the setting could not be read).

`ClaudeDesktop` has the four files the client reads (two configs, a profile, the list of
profiles), the setting with the token, the session row, the alias tables and the key that
page or tray mark. A takeover prepares the rows under the lock, snapshots the files, writes
them in order and undoes them in reverse when one fails (`Undo`, `UndoFails`); a restore
works from the files to the rows. `unsure` records what an overlap, a crash or a failure of
the rollback has left in doubt; the file properties exempt exactly that. A refresh takes the key of
the session row whether it is revoked or not, and with a row it cannot read it goes on without a key
and writes an empty menu (`Bound`, `Renewal`).

### 2.5 Console: ConsoleLogStore and ConsoleStream

`ConsoleLogStore` keeps files as sequences of records by source, epoch and index. A locked
section is two actions, its work on the files and its write of meta.json, and a fault can
come between them; the append needs no lock and is an action of its own, as is the count that
follows it. A clear goes to the owner of each source through its queue and waits for the answer
or its timeout. What a reader that holds the lock is shown (`Shown`, `Truncated`, `Generation`) are
operators on files and the meta.json on disk, so the promise to readers is an action property over
every step of any process.

Errors the code swallows are choices that cost a fault: how far a compaction reads each file
(`Reaches`, 0 for a file it cannot open, rewrite or delete), which victims of the budget cannot be
unlinked (`stuck`), which files a clear cannot delete (`stay`). The section goes on and counts as
done. `left` is a history variable of the files passed over since the last pass (`pass`) or by the
last clear (`clear`); the properties exempt exactly those. Half a line (`Torn`) spoils the one line
that is appended to it; one that ends inside a character (`Garbled`) ends the reading of its file.

`ConsoleStream` cuts each frame into text, rest and blank line; `Receive(n)` takes any prefix of
what is on the way, so chunks end anywhere. `Persist` and `Broadcast` are two steps, between
which other requests' events overtake. `lost` sorts the losses by cause: overtaken in the
ring, cut off, torn in the bridge. A paid event goes to the window and only asks for the badge
(`Asked`): each refresh reads the rows (`ReadRows`) and draws (`DrawBadge`) at its own time, beside those
that the tray's loop, the menu and the window ask for (`RefreshElsewhere`), so the window runs ahead of the
badge and an older reading can be drawn over a newer one. `BadgeFollows` says what is true all the same.

### 2.6 DaemonLifecycle and SchemaMigrations

`DaemonLifecycle` has what launchd knows (`plist`, `loaded`), the process and the port it read,
other listeners, and one program counter per command of the app, the check at its start and
the watchdog. A call to the daemon's binary unloads, loads and waits for the port; each is a step
that may fail, and other calls come in between.

`SchemaMigrations` has the committed database, reduced to the values each migration converts, and
`boot`, where each process is and what it has read. A statement whose error the code swallows
may fail (`trouble`); a transaction reads a snapshot and is refused at its first write if
anybody committed since (`stale`).

## 3. Runs

| Run | States | What it asks |
|---|---|---|
| `instance_safety` | 1.25 M | one instance, two keys, two faults: rows and sessions consistent, no revival, refinement of `ManagedAccess` |
| `instance_pair` | 1.4 M | two instances of two clients: does anything that happens to one close the other |
| `instance_liveness` | 36 k | under fairness: gone wrappers and ended rows lose their access |
| `request_single` | 16 k | every path of one request; one answer, agreeing row, last metric, permits back |
| `desktop` | 0.8 M | takeovers and restores of Codex and Claude Desktop, two commands each, failing and dying |
| `daemon_link` | 195 k | under fairness: events in order, the badge behind them, the bridge comes back; the daemon settles as ordered |
| `records` | 1.3 M | console log, permits, rows, catalogs, headers and schema, one at a time |
| `request_completed` | violation | finding 1 |
| `codex_provider` | violation | finding 2 |
| `schema_race` | violation | finding 3 |
| `stream_utf8` | violation | finding 4 |
| `upstream_path` | violation | finding 5 |

### 3.1 Why the bounds are enough

* `instance_*`: instances interact only through the daemon's and the app's lock,
  the clean-up by client and a shared key, so one instance shows what happens to a
  row, and two what they do to each other (`instance_pair` runs with ages 0/0 and no
  faults, which do not change who closes whom). Two keys are what a switch needs.
  Ages 1 and 2 give every order of the limits. Two faults allow a fault in the
  handling of another.
* `request_single`: requests interact through permits (checked in `records`, and proved for any
  number) and through the metrics queue, which a request's own events fill: it has one place.
* `records`, permits: a semaphore is at risk when one request holds it, another has a handle and a
  third prunes or contends (`MCThird`); four tokens and semaphores let the map pass its limit and a
  pruned token come back; the first request makes two of them. One worker means that destructors do not overlap; the proof has no such
  limit.
* `records`, log: both processes, files of two records, three files, a budget of one record beside
  the open file, a clear, a fault and a day that passes. One fault may spare any set of files at
  once; the proofs have no bound on faults. Faults, the clock and the clear are
  combined freely with one process and in part with two (`MCSmall`, `MCThirdRecord`, which also keeps a fault and a clear apart on the second day): two sources
  meet only in meta.json and the lock, which two short histories reach.
* `records`, rows: two providers, keys and names give every import over a renamed, a clashing and an
  absent row; the start is an empty or a filled store.
* `records`, catalogs: two routes and two overlapping discoveries, one change; one of the two makes
  the previews, which store nothing (`MCPreviews`). One model with and without its prefix is all that
  renaming can confuse.
* `records`, headers: every kind of target and request with two model ids, one exposed; a body with
  two model fields, a query and a content type are only followed where they are read at all
  (`MCBodies`). Connection lists an unknown header, either credential, or the other headers that are kept;
  rules name no header, those a session adds harmlessly, or a credential and hop-by-hop ones. The proof
  has any sets.
* `records`, schema: two processes, a crash, a swallowed error and a saved value each once; a third
  process repeats what the second can do to the first.
* `desktop`: more than two commands add only longer queues at the lock. Edits and faults are not
  combined with overlaps, and the first of two overlapping commands finds Claude Desktop's files in
  order (`MCQuiet`, `MCDeskQuiet`), because every property about files exempts overlaps, and those about tokens (`CurrentTokenOnly`, `OpenIsNamed`) are proved for all of it.
* `daemon_link`: two requests give events that overtake; a ring of one lags at the second event; one
  break. Three refreshes, one of each request and one of the tray's own, can overtake each other; one reading may fail. Two ports, one user, the check at start and the watchdog give every pair of overlapping
  calls. It checks liveness, so it uses no symmetry and no constraint.
* SYMMETRY in `desktop` is over commands, tokens and keys, which no definition
  distinguishes; its temporal properties are action properties.
* Deadlock is checked where the system never stops (instances, takeovers),
  not where all requests may be over or all bounded events used up.

### 3.2 Fairness

* `instance_liveness`: the clock ticks and the sweeper gets its turn (strong fairness,
  since other handlers and restarts interrupt them), a handler that holds the lock
  finishes, and launchd restarts the daemon (`KeepAlive`). Nothing is assumed of the
  wrapper, the app, the launcher or the clients.
* `request_single`: destructors run to their end (weak fairness of `DropPermits`).
  That a stream ends at all is not assumed: the property speaks of requests that are
  over.
* `daemon_link`, stream: the bridge's task runs on (connect, wait, break, receive), the
  subscription serialises, and a connection to a daemon that has stopped is noticed. That
  connections hold, that the daemon starts or that events come is not assumed.
* `daemon_link`, lifecycle: calls and checks that have begun go on, the watchdog makes its rounds,
  launchd starts what it keeps alive and the daemon reads and binds its port. Nobody has to give an
  order; `Converges` speaks of what stays wanted.

### 3.3 Findings

1. **`request_completed`** (`proxy/handler.rs:2787`). A compressed stream that is passed
   through without a session is never captured unless detail mode is on, so the
   completion marker is never seen and a complete 200 stream is reported as
   `upstream_error`. The comment at `handler.rs:2774` promises the opposite.
2. **`codex_provider`** (`commands/codex_config.rs:837`). The comparison that lets a
   takeover skip its write does not read `model_provider`. If that was changed, a
   takeover reports success and Codex does not use the gateway.
3. **`schema_race`** (`db/mod.rs:706`). The lifecycle backfill reads its marker, updates and marks in
   three statements. The late update of one process hides the outlets while another takes the
   one-time snapshot of their connection, and no later start takes it again.
4. **`stream_utf8`** (`services/console_bridge.rs:112`). A chunk that is not UTF-8 by itself is dropped
   whole, so an event is lost when a chunk ends inside one of its characters.
5. **`upstream_path`** (`proxy/handler.rs:1809`). `strip_common_prefix` compares whole base paths, not
   the end of the base with the start of the request, so a base `/relay/v1` yields `/relay/v1/v1/...`.

## 4. Proofs

All theorems hold for every choice of the constants that meets the assumptions named in the
modules. These say that the "none" values are not values, that bounds are naturals and limits
positive, and that the set of requests in flight is finite. Further: `CatalogConstants` says what
settings and lists are made of, `RewriteAssumption` that an outlet with selected models exposes one,
`FilesAssumption` and `DeskAbsence` that no file is not one of the records that stand for files,
`EventConstants` that a request ends with a final event and no event is not one of them, and
`OneWriterEach` that each source of the console log has one process (a second daemon ends at its port).
TLC evaluates all of them in the runs.

* **ManagedInstances_proofs.** `IInv` adds to the type what the properties need to
  survive a step: `LaunchFootprint` (which rows exist at which stage of a launch, no
  posts and no running row without a wrapper) and `HandlerFootprint` (a stop handler
  about to revoke has an ended row). `RevokedMeansOver` and `AssignmentsAgree` alone are
  not inductive: `StopRevoke` would revoke a row of any status, `ReassignCommit` would
  switch what was not checked. From `IInv` follow `RevokedSessionsAreOver`,
  `RowAndSessionAgree`, the action properties `TerminalStaysTerminal`,
  `RevokedStaysRevoked`, `PhasesOnlyAdvance` and `AdmittedRequestsAreOpen`, and
  `KeepsTheAccessPromise`: every step opens, switches or closes in `ManagedAccess`, or
  changes nothing there. `TokensCloseOnTheirOwnAccount` needs `StopInv` besides: a stop that is
  under way, being handled or half done was sent by the wrapper of that instance.
* **RequestPermits_proofs.** `PermitsInv`: a semaphore address belongs to one token, a
  handle in use is the one in the map (pruning spares it), the holders are within the
  limits, and the map has at most `MapLimit` entries or one for each request that can be
  in flight or draining. Hence `LimitsHold` and `MapStaysBounded`, for any limits and any
  number of threads.
* **RequestLifecycle_proofs.** `PermitsRefined`: each step is a permit step or leaves
  the permits alone, so everything proved of `RequestPermits` carries over.
  `RequestInv` ties guard, events, rows and carrier to the place of the handler;
  `ServingStaysWithinLimits` combines it with `LimitsHold`. `SuccessIsComplete` uses a
  further invariant: what was seen of a stream was sent. `MetricsStayLatest` uses `MetricInv`: the
  metrics of a request in the queue, followed by nothing, end with its last event that counts, so
  the row the writer leaves does too.
* **Takeover_proofs, Codex.** `CodexInv`: commands carry what they need
  (`CommandsCarry`), and whoever is between two statements on the database holds its lock
  and finds setting and row as its first statement left them (`LockedSections`). Without
  the second, `Forget` could delete a setting that another command had just opened. Hence
  `OnlyTheCurrentTokenOpens` and `RestoreCloses`, for any number of commands that overlap,
  fail and die in any way. `Undisturbed` says what holds while no two commands have overlapped and
  no mark was moved: the files are in order (`FilesInOrder`), and each command can rely at each stage
  on what its own earlier stages left (`ReliesOn`), which no edit or fault takes away. Hence
  `PointerFindsCatalog`, `SuccessfulTakeoverServes` and `RestoreGivesTheFileBack`.
* **Takeover_proofs, Claude Desktop.** `DeskInv`: token and row change together under the lock, so an open token
  stays the one the setting names; a command that may have to undo a file has its snapshot, so that
  every undo gives back files the client could have had; only a refresh holds the database
  over several steps. Hence `OpenTokensAreNamed`. `ServeInv` adds the order of the files: at rest it
  is complete (`InOrderInv`), for a command that runs alone it is complete but for what that command
  has done so far, and its snapshot is in order (`AloneInv`); of two that overlap neither counts as
  alone (`OverlapInv`). Hence `AppliedFilesServe` and `RestoreIsClean`. `TakeoverTypesAreKept` puts
  the types of both together, as the run of `MC_Desktop` checks them.
* **ConsoleLogStore_proofs.** Four invariants, each on top of the one before, and one of names. `LogBase`: an open section
  knows meta.json, which only it can replace, and a flag of the budget stays in meta.json or in the
  section that will write it; hence `EvictionStaysFlagged`. `Forgetting`: an owner that confirmed the
  clear command has nothing older on disk, in its queue or in hand, and one that still holds the
  command has nothing older behind it, the files it could not delete aside (`Remaining`); hence
  `ConfirmedClearForgets`. `AllOrdered` and `AllInOrder`:
  disk, hand and queue hold records in the order of their making, and the indices of a source's files
  follow it with the open file last, so that what the budget takes is older than what it leaves but for files that no pass could remove.
  `Explained` adds what an open section has taken and what it owes the page (`Accounted`), which its
  `Commit` pays; hence `LeavingIsExplained`. `AllTidy`: from the end of a pass on, a source is within its
  budget or has files only that the pass left, and all its other lines are within the window the writer
  keeps; hence `IdleStaysTidy`. `LogNamed` says that
  every file and every writer that runs belongs to an epoch that was handed out, and that no queue
  is over its limit; hence the types. The lemmas below them say what a compaction keeps (`KeptLinesStay`, which rests on the ranks of a finite set of numbers), that
  a free index is found (`FreeIndexIsFree`), and what each section leaves of files and meta.json.
* **Daemon_proofs.** `StreamInv` follows an event from the request to the window. `Told`: the event a
  request has in hand is new, and what the history holds of it is what its stage allows, so nothing
  is broadcast twice. `Paid`: a row precedes the event that tells of it. `Line`: what the window was
  shown, then the pieces the bridge holds or that are under way, then the ring, is in the order of the
  broadcast; this must also hold of pieces cut in the middle of a frame, since the bridge puts frames together from
  them. What the bridge reads out of a buffer is the recursive function `Emitted`. Induction by the
  library's rule is not available (its parameter is an operator), so `EmittedExists` and
  `EmittedInOrder` argue by a least counterexample, which `LeastNumber` takes from the well-foundedness of
  the naturals. `Tray`: what was drawn last is what one of the refreshes read, of two readings one
  includes the other, and the refresh of a paid request finds its row unless its reading fails. Hence
  `WindowIsInOrderAndCounted`. `LifeInv` adds to the types of the lifecycle those of
  its calls, and `DaemonTypesAreKept` puts both together.
* **Records_proofs, database.** `StoreInv` adds to `OutletsReach` what holds between the statements of a
  command (`JobInv`: nothing is bound any more to a row that is about to go; an import has its
  entry), that ids which are there are not drawn again (`KeysKnown`), and what the reads of a frame have
  found (`RelayInv`). Hence `OutletsAlwaysReach` and `FramesAreGranted`. `SchemaInv` says of the
  migrations what each process has passed and what each marker guards: a set marker means that its
  values are converted (`Guarded`), a process behind a step finds it done (`Passed`), and a name that a
  late backfill spoilt is owed a repair by a process that is still on its way (`RepairOwed`). Hence
  `SchemaEndsWhole`.
* **Records_proofs, upstream.** `NamesAreDistinct` is the lemma of the renaming: no two ids of a catalog are
  shown alike, since an alias is taken only if no real id has it. So a table decodes each row of its
  menu (`TablesDecode`). `CatalogInv` says that the cache holds what was answered under its identity
  (`CacheInv`), that a discovery carries the identity of its settings (`AskedInv`) and that the table is
  its writer's (`TableInv`). Hence `ServedListsAreOfTheRoute` and `PicksAreSent`. Each operation on
  headers keeps what every route owes the upstream (`Cleaned`) and what it owes its scheme (`Signed`), in
  the order in which each kind of route applies them; `PolicyIsSent` puts them together, for any
  model ids, Connection lists and rules.

What the attempts at these proofs changed in the models:

* `IdleIsTidy` was false with two faults, which no run had combined with a change of the clock: the pass
  of a day fails, its record is written all the same, the clock that was set back goes forward again,
  and the writer, which compares the window of its last pass (`console_log_store.rs:1170`), finds
  nothing due although an expired record is there; it goes with the next pass. The history
  variable `overdue` names that record's source, and the property exempts it.
* A clear command carries which clear it belongs to, as in the code, where each has a channel of its own
  for the answer: a command whose time ran out must not answer for the next.
* `OneWriterEach`, which the runs met by their constants, is now stated.
* A compaction, the budget and a clear pass over files they cannot read, rewrite or delete, as the code
  does, and each ends as if it had done its work. Without the exemption of `left` neither `IdleIsTidy` nor
  `ClearForgets` holds, and the order of files is kept only among those that a pass could remove.
* The promise to readers is checked against meta.json as written. What a section took that never wrote
  it is gone without notice, as is what a compaction could not read of a file it then rewrote.
* The badge is drawn by refreshes of its own; that every paid event of the window is counted already
  holds only of the one whose reading was drawn last.

Only model-checked, because temporal reasoning about fairness is out of the prover's reach:
`GoneIsClosed`, `EndedIsRevoked`, `PermitsReturn`, `EventsArrive`, `Converges`. Every other property of a
run that passes is stated by a theorem.

## 5. Not modelled

Besides the components marked so in `PROJECT.json` (statistics, balance and query scripts, terminals, tray and
pages, status line): the text of scripts, headers and bodies; usage and cost figures; the time a lock
or a SQLite busy timeout takes (a failure is a fault); a second daemon that finds its port taken; the
search filters of a log page, and a page or a generation read without the lock after its timeout; a write that
fails exactly between a line and its end; the sizes of lines that run into one another; the port a refresh of Claude
Desktop falls back to when it cannot read the settings; a session's rule for `host` or another name the models do not
tell apart; validation of fields; in the Codex takeover the catalog state
file, which only a takeover without catalog reads and nothing but tests calls, `auth.json`, the
port, the clean-up of dormant sessions and the deletion of the key during the await; in the Claude Desktop
takeover the process checks and the restart of the client.

What the models show but nothing promises is listed among the hazards with a note: an
overlap of two takeovers may leave the file of one with the session of the other; a
restore of a file that did not exist takes the values of an older backup; a sweep after
a long sleep ends instances that are alive; an import that replaces a provider's row takes keys that
outlets name; the session limit counts the token a request presents, not the takeover session it
is routed to; the bridge's wait grows with every break and shrinks only after a requested restart; a badge that an
older reading was drawn over stays until the next refresh, at the latest that of the 30-second loop.

Where a comment of the code promises more than the code does, the models have the code and the
properties name the exception:

* a clear is confirmed although files it could not delete remain (`console_log_store.rs:1284`), while
  `commands/console.rs:152` says the app "closes and removes its own files and waits for that to finish";
* a compaction whose reading of a file stops half way rewrites it to what it has read
  (`console_log_store.rs:690`), while the comment at 1248 says a file that cannot be read is left alone;
  half a line that ends inside a character stops page and compaction at that line, while the comment at
  1670 says "skip it and keep going";
* a crash, or a meta.json that cannot be written, after a section has deleted files leaves neither flag nor
  generation that would tell a reader;
* a session's WebSocket handshake has none of the provider's headers, while the comment at
  `handler.rs:2985` says it uses "the same provider-header/auth/UA policy as HTTP";
* a session's key is set before the strip of what the client's Connection lists (`handler.rs:754`), so a
  client that lists the key's header there sends its request without a key; and a session's rules may name
  hop-by-hop headers and credentials, which an outlet's may not.

## 6. Plan

What is left, in this order:

1. A theorem for each of the composed runs, from those of their parts.
2. An abstract specification of the console (a log that forgets only from its old end, and a stream that
   is a subsequence of it) that `ConsoleLogStore` and `ConsoleStream` both implement.
3. `KeyStore` composed with `ManagedInstances`, so that one deletion meets outlets and instances at once.
4. Usage parsing and auto mode as operators over abstract events.
