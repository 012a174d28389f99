# Battlestream: a verification project in TLA+

Battlestream is a daemon that follows the log of a Hearthstone Battlegrounds client, keeps a record of the game
being played, stores finished games, and serves both over gRPC, REST, WebSocket and files. The modules in this
directory model its core, TLC checks them on small instances, and TLAPS proves the most important properties for
all values of the constants. `PROJECT.json` lists the components, the runs, the mutants, the source lines behind
every definition, the hazards and the theorems.

Paths below are relative to the repository.

## 1. Inventory

```
            fsnotify              chan 512                 chan 512
Power.log ----------> Watcher ------------> ingestion ----------------> event loop (one goroutine)
 (client)             session                goroutine    parser         builder -> dispatcher -> processor
                      switcher               Parser.Feed                 -> machine; store at a game's end
                                                                           |  broadcastCh 512, dropped if full
                                                            ticker -->     v
                                                                         gRPC fan-out, one chan 512 a subscriber
                                                              .------------+------------.
                                                            stream        SSE         REST pump
                                                            handlers      handlers      | chan 256
                                                                                       hub -> chan 64 a client
```

| Component | State | Operations | Talks to | Hard behaviour | What makes it correct |
|---|---|---|---|---|---|
| Game lifecycle: `gamestate/builder`, `dispatcher.go`, `processor_visitor.go`, `state.go` | three phases, the record (game ID, turn, snapshots, placement, streaks), the reconnect stash | CREATE_GAME, its tags, TURN, combat, placement, STATE=COMPLETE, the staleness ticker | one call per event, all in the event loop | a reconnect looks like a new game until its tags are read; a silent log; a torn CREATE_GAME block | a record is that of one game, with its ID, its turns and its rounds |
| Archive: `store/store.go`, the persistence block of `main.go`, `resolveLogDir`, `reparse` | the list of games, states, turns; the parser's date | save at a game's end, replay at start, reparse | event loop to Badger | crash between transactions, replay of one session, midnight, a store error | each finished game stored, once, under its own ID |
| Watcher: `watcher/watcher.go` | tails, senders, the Lines channel, `stopped`, `done` | start, switch of session, Stop | mutex, channel, fsnotify | Stop during a switch, senders parked on a full channel | no send on a closed channel, no lost line, Stop returns |
| gRPC server, fan-out: `api/grpc/server.go` | the subscriptions, `subsClosed` | subscribe, unsubscribe, fan out, stop | mutex, channels | slow or stalled clients, late subscribers, double close | each channel closed once, nobody waits for a slow client |
| REST server, SSE: `api/rest/server.go` | the `http.Server`, `shutdownCh` | serve, handle, shut down | store, subscriptions | grace period, Serve against Shutdown | no use of a closed store, shutdown ends |
| WebSocket hub: `api/rest/server.go` | clients, their channels and goroutines | register, unregister, broadcast, evict | channels | eviction against unregistering, a hub that is gone | channels closed once, no gaps, nobody blocked |
| Daemon: `cmd/battlestream/main.go` | goroutines, the shutdown order | start, cancel, shut down | all of the above | the order in which things end | store closed after its users |
| Board: `state.go`, `processor.go`, `processor_visitor.go` | the board, the snapshot of the recruit board, the combat copies and the slots they claim, the gate of a triple | register, zone and stat changes, turn transition, game end | event loop | minions are replaced by copies in every combat, copies of both sides look alike, the game may end at any point of a turn, the limit of seven | the final board is the last recruit board; departures are counted once |
| Turn snapshots: `state.go` | totals of the last turn | capture at a recruit phase, at a forced end and at the end | event loop | reconnects, forced ends | a turn's deltas add up to the totals |
| Buffs, tribes, counters: `processor.go`, `categories.go` | trackers per category, the counters of the Dnt enchantments, the gold counter | absolute and differential enchantment tags, player tags, zone changes | event loop | copies and reconnects repeat old values, one number a line | what is shown is what the sources carry; a total is never counted twice |
| Routing: `builder.go`, `dispatcher.go`, `action/*`, `Handle` | none but the phases | Build, Dispatch, Handle | the event loop asks the first, then the second, then the third | three components with a phase of their own | an event reaches the method its phase admits, whichever way it takes |
| Duos: `processor.go`, `processor_visitor.go` | three detection flags, team totals, the partner, the entities of a combat | hero, teammate and combat tags | event loop | the same tag means either player; minions before or after the flag | the partner's board is the partner's; the two shares add up to the total |
| Parser: `parser/parser.go` | the pending event, the open blocks, the reference date | `Feed`, `Flush` | ingestion goroutine, the replay's loader | lines cut short, blocks left open | one event for each line that begins one, whole |
| Capture tool: `capture/*`, `cmd/bscapture` | capture loop, frame sequence, SQLite rows, files | tick, catch up, time out, save | its own watcher and pipeline | restart in a game, the marker of the backlog's end overtaking events | frames of one game, none overwritten, no session of a past game |
| Queries and the web page: `store.go`, `stats.go`, REST and gRPC handlers, `dashboard/app.js` | the page's list, mode, selected game and kept turns | list, filter, cut to pages, count; refresh, drill down | event loop writes while they read | pages fetched one by one over a list that grows | no game missed; the APIs agree |
| Terminal dashboard: `tui/tui.go`, `combined.go`, `client.go` | the model, commands in flight, the connection | connect, subscribe, poll, re-arm, switch views | gRPC | messages of a past connection, of the hidden view | one chain of each kind, no client left open, the current game shown in the end |
| Replay: `debugtui/*` | steps, games, cursor, filter, source | load, browse, reload | parser, store | ranges and counts kept by hand; loads that end late | each line in one step, each game a range, the cursor on a step |
| Discovery, configuration, `log.config`: `discovery/*`, `config.go`, `logconfig.go`, `tui/discover.go` | installs found, profiles, the file, the layout | scan, name, choose, save, patch | files on disk, background scans and savers | a scan that answers late, savers in any order, names that differ in case | the program runs with the install chosen; the log is switched on; the layout is kept |
| File output, migrations, update | none that outlives a call, or none that others read | | | | |

`PROJECT.json` gives for each of them whether it is modelled, and if not why.

## 2. Plan

| | Module | Status | Then |
|---|---|---|---|
| 1 | `Lifecycle`, `LifecycleProofs` | modelled, checked, proved | |
| 2 | `Routing`, in `LifecycleProofs` | modelled, checked with `Lifecycle`, proved | |
| 3 | `Archive`, `ArchiveProofs` | modelled, checked, proved | |
| 4 | `Watcher`, in `LogProofs` | modelled, checked, proved | `OneLateLine` as a theorem |
| 5 | `Feed`, `Hub`, `HubProofs` | modelled, checked, proved, with the refinement | |
| 6 | `Servers`, in `HubProofs` | modelled, checked, proved | |
| 7 | `Board`, `BoardProofs` | modelled, checked, proved | |
| 8 | `Buffs`, `ProcessorProofs` | modelled, checked, proved | enchantments and tribes |
| 9 | `Duos`, `ProcessorProofs` | modelled, checked, proved | the partner's hero |
| 10 | `Parser`, `Replay`, `LogProofs` | modelled, checked, proved | `TurnsReached` as a theorem |
| 11 | `Capture`, `CaptureProofs` | modelled, checked, proved | |
| 12 | `Client`, in `TerminalProofs` | modelled, checked, proved | |
| 13 | `Discovery`, `LogConfig`, `Setup`, `TerminalProofs` | modelled, checked, proved | |
| 14 | `Dashboard`, in `ArchiveProofs` | modelled, checked with `Archive`, proved | |

Composition is by the interface each module leaves behind. `Watcher` promises that a session's lines arrive whole, from
the first, in order; `Archive` reads a session that way, and `Parser` a file. `Lifecycle` shows which game ID a CREATE_GAME
block yields; `Archive` takes a whole block as one entry of its log and has that rule as `IDAfterCreate`. `Routing` extends
`Lifecycle`, whose phases decide the way of an event; `Board`, `Buffs` and `Duos` are what the methods at the end of that way
do inside one game, each with the phases it needs. `Servers` has the fan-out up to the subscriptions; `Hub` begins at one of
them, and implements `Feed`, which says what a subscriber may rely on. `Replay` extends `Parser`, and `Setup` extends
`Discovery` and `LogConfig`. `Dashboard` reads what `Archive` writes: the two share the shape of the store, and one run.

Every module takes its bounds as constants, states its assumptions by name, has one action per operation and no
RECURSIVE operator, so that it can be proved about as it is.

## 3. The modules and the code

In every module of a component with state `TypeOK` is the type invariant, and `Spec` the specification (with the module's name, as in `DuosTypeOK` or
`ClientSpec`, where a module of proofs extends two of them); where the module promises
that something happens, `Spec` has fairness and `Safe`, if it is named, is without. The modules state more than the runs check:
`TypeOK`, `PhasesTrackTurn`, `StreaksMatchCombats`, `PlacedMeansComplete` (which needs two places to say something), `OneLateLine`, `SessionsEnd`, `OneConnector`,
`TurnsReached` and, proved, `PhasesAgree`, `NoGap`, `SlotsFit`, `BoardInPlay`, `ListMatchesStates`, `SendsOnOpen`, `OwnSpellsKept`, `TeammateIsFinal`, `TagsShown`, `TotalsExact` and `ReplayTypeOK` hold on the same instances, and can be added to the configuration of the module's run.
Variables under "History" observe and never guide: no guard and no code variable's next value reads them.
An operator whose name has a suffix (`Stale_inPlay`) and whose comment begins with "mutant" is a plausible mistake in
the operator of that name; no specification uses it.

### Lifecycle

One line of the log goes through `ActionBuilder.Build`, `ActionDispatcher.Dispatch` and a visitor of the `Processor` in
one goroutine, and the ticker that calls `CheckStaleness` is in the same `select`. So an event is one action. The client,
which writes the log, is modelled with it: `game`, `live` and `geTurn` are the game as it is, `block` is how far the
CREATE_GAME block has been written.

| Action | Code |
|---|---|
| `NewGame`, `Reconnect` | `buildGameStart`, `OnGameStart`: the stash, `resetProcessorState`, `Machine.GameStart` |
| `GameEntityTags` | `OnReconnect` on `STATE=RUNNING` with `TURN > 1`: the stash is restored or dropped |
| `PlayerDef` | `OnPlayerDef` of the local player with its initial turn |
| `TurnStart`, `PlayerTurn` | `buildTurnTransition`/`OnTurnTransition`, `OnPlayerBGTurnChanged` |
| `HeroAttack` | the combat result, routed in the combat phase alone |
| `PlacementChanged`, `GameComplete` | the leaderboard place, `OnGameEnd`/`Machine.GameEnd` |
| `Timeout` | `CheckStaleness` when three minutes have passed: enabled in any phase that is not idle or over |
| `Disconnect`, `MissTurn`, `Abandon` | the client leaves; the game goes on, or ends, without it |

A game ID is the timestamp of a CREATE_GAME and is modelled as its number: timestamps are assumed distinct, and the first
CREATE_GAME of a game is assumed to be in the log.

Two things befall the record of a game that goes on, and `faults` remembers them. One is a log silent for three minutes (`forced`): `CheckStaleness` puts the record in
GAME_OVER, and since `OnGameStart` stashes only a record in progress, the game goes on under a new ID after its next reconnect. The other is a connection that is lost
again inside a reconnect's CREATE_GAME block, before the tags (`torn`, by `TearsRecord`): the record is still in the stash, and the next `OnGameStart` (`processor_visitor.go:60`) puts
the empty record of the lobby in its place, so that the game comes back under a new ID and without its turns. A block torn while no turn was put aside, in a game's own first block or after
the tags, does no harm, and is not a fault.

`GameIdentity` excepts games with either fault, and `SnapshotsMatchTurns` those with a torn record; both hold over any other reconnect. A forced end stays within `SnapshotsMatchTurns`: `GameEnd`
captures the turn in progress, and a game that goes on captures it again at its next recruit phase. `closedAt` are the turns of the record in which it was ended; only those may have two snapshots, and the turn
in progress has one only if it is among them. `seen` and `closedAt` begin anew with the record. What the documents promise without exception (`docs/plans/2026-03-25-reconnect-aware-handling.md:111` and `:114`, `docs/API.md:63`) is
`IdentityOverTornBlocks`, `SnapshotsOverTornBlocks` and `OneSnapshotEach`, which `MCLifecycle_RecordHazards` refutes.

### Routing

`Route(e)` is the set of visitor methods an event reaches: `Build` makes an action of it or drops it or leaves it, `Dispatch` takes or
refuses the action by its phase, and what is left goes to `Handle`. An event is known by its case in the three functions. `RoutedAsPlayed`
says that, whenever a live game is between its blocks, the events the client logs in the phase of its TURN reach what a direct call
of `Handle`, as in the repository's tests, reaches, that the ones gated by a phase are taken in it and in no other, and that a reconnect changes none of it.

### Archive

The client logs to sessions; the daemon tails the newest from its start (`Read`, `NextSession`), saves the game when its
end is read (`CheckStored`, `SaveFullGame`, `SaveTurnSnapshots`, each a store transaction that may fail), may stop between any
two steps (`Stop`) and starts again with the newest session, or as `reparse` with all of them (`Start`, `Reparse`). `Reset` is `db-reset`, which empties the store while no process has it. A line of
the log has a time of day; `DayOf` is the date that `extractTimestamp` gives it. The clock counts half days, the unit in which
that function decides: a fall by more than twelve hours is an evening followed by a morning. Entries in the daemon's channels
count as unread until processed; a crash loses them either way. A game that went on in a second session, and was
stored, is stored again under a second ID when the daemon restarts (`resolveLogDir` takes the newest session, so the first CREATE_GAME
is not replayed), contrary to `docs/plans/2026-03-25-reconnect-aware-handling.md:113`; `OneEntryPerWholeGame` speaks of games logged in one session.

### Board

The client and the processor together: a client's step is one group of log lines, and the step includes what the processor
and the machine do with them. The order of the lines is that of the logs in `testdata/`: `TB_BaconShop_3ofKindChecke` goes to the GRAVEYARD
once, as a recruit phase ends; in the combat that follows every fighter gets a copy in SETASIDE and so does every opponent's minion, both
with the local player as CONTROLLER; when it is over the survivors are removed, the player's copies go to PLAY, and the next TURN begins.

| Action | Code |
|---|---|
| `Buy`, `Summon` | `handleEntityUpdate`, `OnMinionRegistered`: `UpsertMinion`, mirrored in RECRUIT |
| `Replay`, `ReturnCopy` | ZONE=PLAY: `tryAddMinionFromRegistry` |
| `Sell`, `Bounce`, `Die`, `Clear` | ZONE from PLAY: `OnMinionSold` (`Leave`), with its count of sales |
| `Merge` | the same for each minion that merges, with `OnPlayerTriplesChanged` after the last |
| `EndOfTurn` | `OnMinionSold` of the 3ofKindChecke, which opens the gate |
| `StartCombat`, `StartRecruit` | `OnTurnTransition`: flush, gate, copies, pruning, `SetGameEntityTurn` with the snapshot |
| `OwnCopy`, `FoeCopy` | `OnMinionRegistered` of a combat copy: peak, slot, raised snapshot |
| `StatChange` | `handleTagChange` of ATK or HEALTH: `updateMinionStatByID`, `updateCombatCopyPeak` |
| `Complete`, `Timeout` | `OnGameEnd`, `CheckStaleness`: `GameEnd` restores the snapshot |

A minion has one stat: ATK and HEALTH take the same path. An entity is the number of its FULL_ENTITY. Minions that were sold, merged,
killed or removed share the zone GONE, since nothing reads what became of them; `pruneStaleEntities` forgets them at the next recruit
phase. `truth` follows the lineup the player sees, and the best stat of each minion's own copy. After a forced end
(`forced`) the machine refuses removals until the next game, so old minions stay on its board; the properties except it, and `MaxForced`
bounds how far such a game is followed.

`StatsRecovered` speaks of the minions whose card is theirs alone in the fight. Copies of one card claim their entries in the order of
creation, not by minion as the comment at `state.go:338` has it: in `testdata/power_log_2026_03_07.txt:166160` copy 10512 of minion
8009 raises minion 9857 from 13/9 to 35/24.

### Buffs

A buff comes from a Dnt enchantment that carries a running total in two numbers, each a line of its own (`DntLine`); what
the line does depends on the kind of source, and one source stands for each handler: `HandleAbsoluteDnt`, `HandleGenericShopBuffDnt`,
`HandleShopBuffDnt`, `HandleNomiStickerDnt`, `HandleMaxDnt`. `ReplayLine` is a combat copy that repeats an old value, `TagLine` and `TagZeroed`
the player's own tags, which a combat zeroes and brings back, `GoldLine` and the Overconfidence actions the gold counter, `PlayerTurn` the
capture of a turn's deltas, `Reconnect` a CREATE_GAME that empties the trackers and restores the totals.

A reconnect is where what is shown may differ from the game. `BuffsShown` excepts the handler that keeps the highest value, until that grows again (`older`). Of the gold `GoldExact` says what is
left to say: `handleOverconfidenceZone` counts zone changes, and a card that FULL_ENTITY declares in PLAY makes none, so that of three for each card any part may be missing for the cards that were in play at the reconnect (`forgotten`),
for as long as they stay; the sure part may be 0 until the next line of the tag (`untold`). The number never exceeds the cards in play, never falls short of the others, and without a reconnect is exact.

### Duos

In a combat the two partners fight one after the other, and for the partner's fight the client swaps the partner's side in under the
local controller (`SwapIn`, `SwapOut`). `Flag` is BACON_CURRENT_COMBAT_PLAYER_ID, before the swap or after it; `MateMinion`, `FoeMinion`, `Token`,
`Raise`, `Die` are the lines about entities, whichever fight they belong to; `OnCombatPlayerChanged` ends one fight's collection and begins
the next, with the retroactive scan (`Retro`). `GrowTeam` is the team's buff, split by `HandleDntDuos`. `naming` is whether the log tells the teammate
at once, later or never.

### Parser and Replay

`Feed` and `Flush` are functions of the parser's state and a line; a line is its kind and its position. `ExpectedEvent` and
`HasEvent` say of the whole log at once which lines have an event and with which tags and block, and `EventsExact` compares the two while
`Replay` reads every log that the client can write (`MayFollow`). `Replay` then is the loader (`AppendStep`, `Drain`, `Build`), which turns
events into steps with their raw lines and games into ranges of steps, and the browser, with one action per key.

### Capture

The feed (`FeedLine`, `Quiesce`, which puts the marker when the backlog is read or the log is quiet), the consumer (`ConsumeEvent`) and the loop (`Drain`,
`StaleTimeout`, `Tick`, `StartSession`, `Screenshot`, `InsertRow`, `RenameFile` and their failures) are three goroutines; rows and
files outlive `Stop`, `Crash` and `Restart`. A line is an event that matters to the loop.

`LiveGamesCaptured` speaks of each game: one that stays on has sessions of its own again and again. The exception is in the formula: when the consumer applies the end of a game and the first TURN of the next
between two ticks, `Run` (`loop.go:174-218`) sees a game on before and after, compares no game IDs, and goes on with the earlier game's session, to whose archive the frames of the later game go.

### Client

Bubbletea runs an event loop that owns the model, and each command in a goroutine that returns one message. A command or a
message is an element of a bag (`Items`), so that messages overtake one another; `Dial`, `Subscribe`, `Fetch`, `ReadEvent` run a command, `Deliver`
hands a message to `Update`. A generation number tells a chain's message from those of an earlier connection. `Drop` is a message that the
hidden view, not the live one, is given. The daemon changes its game, crashes and starts again.

### Discovery, LogConfig and Setup

`Discovery` is the probe of a directory, the walk below it and the scans built from them, as functions of a disk; `LogConfig` the
repair of `log.config`, with names compared with and without regard to case where the code does either. `Setup` is the wizard with
its five pages (one action per key), a scan that answers at any later step (`ScanArrives`), the configuration file, the start
of the program on it, and the layout saved in the background (`ReleaseDivider`, `SaveTUI`). `SetupAssumption` and `TreeAssumption` say what the parameters are: a name is a base,
a number and a case; a file is missing, unreadable or a configuration with at most one layout of the keys of an older release; a directory of logs lies in another directory of the same prefix.

### Dashboard

The queries are operators over the metadata in the order of `game:list`; the two handlers that list cut a page themselves. `Fetch` is one
request of `getAllGames` and the code after its `await`; a refresh keeps the mode it began with. `DrillToGame` asks for turns that
are not kept, `KeepTurns` keeps the answer under the game selected when it comes. `GameSaved` and `TurnsSaved` are the
daemon's `SaveFullGame` and `SaveTurnSnapshots`. What a filter leaves is `Chosen`, by position, and the sum of the placements counts as many pairs: both are said that way to be proved about.

### Watcher

A critical section of `w.mu` is one action. A sender goroutine waits for a line, is parked on `Lines` with it, or has gone;
`SenderEnds` are its selects on `done` and the context. `Stop` is three actions (`StopBegins`, `StopUnderLock`, `CloseLines`), a
switch two (`LeaveOldSession`, `EnterNewSession`), because the mutex is released between them. `nxadm/tail` and `fsnotify` are
external: a tail hands over each line once, from the start, without a buffer, and a directory created after the watch is set
is reported once.

### Hub

One action for each operation on a channel. The hub's `select` is the choice among `HubRegisters`, `HubUnregisters`,
`HubBroadcasts` and `HubEnds`. A broadcast is one action because the hub holds `mu` and its sends do not wait.
`sendCloses` counts the `close` calls: two of them, or a send to a closed channel, would be a panic. `Feed` is the promise without
channels: messages published one after the other, clients that join, are given every message from then on and leave for good. The mapping takes
the hub's `clients` for the members, the closed channels for those who left, and what a client's writer wrote or its channel still holds for what it was given.

### Servers

A request arrives as one of four kinds: a plain REST or gRPC call, which reads the store (`ReadStore`) and answers, or an
SSE or gRPC stream, which subscribes, takes and sends events, and unsubscribes. `ClientLeaves` is a connection that is gone.
The shutdown is a program counter through `WatcherStops`, `RestShutdown`, `RestDrained` or `RestExpires`, `GrpcStop`,
`GrpcDrained` or `GrpcExpires`, `CloseStore` and `Exit`, the order of `daemonServices.shutdown`. Serve of each server is a
step of its own (`RestBinds`, `GrpcBinds`) since both run in goroutines that the shutdown does not wait for. `GracefulStop`
of grpc-go waits for its handlers even after the forced `Stop`; `http.Server.Close` does not: `GrpcAwaits` and `RestExpires`.

## 4. The runs

| Run | Bounds | Shows | Minutes |
|---|---|---|---|
| `lifecycle` | 3 CREATE_GAMEs, TURN up to 5, 1 place | `GameIdentity`, `SnapshotsMatchTurns`, `RestoreSameGame`; `RoutedAsPlayed`; an abandoned game is closed | 2 |
| `archive` | 2 CREATE_GAMEs, 2 sessions, 3 half days, 1 restart, reparse or reset, 1 failing call; or 4 games, 1 refresh, pages of 1 | whole games stored once, under their own ID; ended games are stored; the history is read whole | 2.5 |
| `board` | 2 cards, stats 1 and 2, a board of 2, 4 minions created (3 with a forced end), TURN up to 4 | the final board is the last recruit board, with the stats its copies showed; departures counted once | 2 |
| `buffs` | 5 sources, 2 cards, growth of 3, gold of 1, TURN up to 3, 1 reconnect | the buffs shown are what the sources carry; deltas add up; the gold promised, after a reconnect within bounds | 1.5 |
| `duos` | boards of 2, 1 foe, 4 entities, stats 1 and 2, TURN up to 3, counters of 2 | the two boards after the partner's fight; the split of the team's buff | 0.5 |
| `watcher` | 2 sessions of 2 lines, channel of 1 | nobody sends on the closed channel; lines whole and in order; Stop returns; sessions and lines arrive | 0.5 |
| `hub` | 2 clients, 2 events, channels of 1 | channels closed once; the hub implements the feed; nobody blocked on the hub, evicted clients end | 0.5 |
| `servers` | 2 requests of any kind, channels of 1 | who may use a closed store; the shutdown ends | 1 |
| `capture` | 2 games, 5 lines, 1 frame a session, 2 starts | no session of a game over before the start; frames never replaced; each game that stays on has sessions of its own, unless an earlier game's is open | 2 |
| `client` | 2 gRPC clients, 2 generations, 2 versions of the game, 1 event queued, 2 fetches | one chain of each kind; no client left open; the current game shown in the end | 1 |
| `replay` | logs of 5 lines in up to 2 files, 2 raw lines a step, a store of one or two games | the parser's events; no line lost or shown twice; the games; the step shown | 1.5 |
| `setup` | 2 Wine prefixes, 1 setup and 1 run, 2 scans, 2 savers, four first files | the install chosen runs; `log.config` is repaired; the layout is kept | 2 |

Why these bounds are enough to see what can go wrong:

- Three CREATE_GAMEs are a game, its reconnect and either a second reconnect or a new game after it: the stash can hold a record
  of the same game, of an earlier one, or a torn one, in whose place the second reconnect puts the lobby's. TURN 5 is the third recruit phase: the first round is skipped, a second
  and a third counted, and turns can be missed in between.
- Two sessions with one restart show a game in one, in the other and across both; three half days have one midnight; one
  failure meets each store call in turn. Four games are two on the list when the page begins and two saved between its pages, after
  which a page begins with a game newer than the last one it has: the list is then in no order, and the page's tables, which sort it, do not show that.
- TURN 4 is two recruit phases and two combats, so that copies return, are played on and are copied again, and slots and peaks of
  the first combat meet the second. With four entities there are two minions with a copy each, or one with its copy, an opponent's copy
  and a token. A board of two is full after two minions; two cards tell a copy that fits from one that does not; two stats tell a raise
  from none. The two cards are symmetric: no definition names one.
- TURN 3 is a recruit phase, a combat and the recruit phase after it in which what the combat left is seen, for `buffs` and `duos`; a growth of three is a first
  value, a second that differs and one that comes after a reconnect.
- A channel of one element is full after one send, which is when senders wait, subscribers miss and clients are evicted. Two
  clients, or two requests, are what it takes for one to be harmed by what the other does.
- Two starts of the capture tool meet a game that was captured before, one that is on and one that is over; five lines are both games with
  their ends and a turn. Two gRPC clients are the one in use and one dialled beside it; two generations are a connection and the one after it.
- Five lines are a game with a block in it and a line after, or a game cut by the next; two raw lines a step are exceeded by three.
  Two prefixes are an install to choose and one not to; one of the names that may be typed differs from another in case only.

Each property of these runs has a mutant in `PROJECT.json` that breaks it.

Other configurations end in counterexamples, and show where the code does not do what a reader may expect. They are not among
the runs of `PROJECT.json`. Where the table says "with", the property is to be added to the configuration of that run. A configuration with several properties is best run with `-continue`, which reports every one.

| Configuration | Property | What the code does |
|---|---|---|
| `MCLifecycle_RecordHazards` | `IdentityOverTornBlocks` | the connection lost again inside a reconnect's CREATE_GAME block: the next one stashes the lobby's record over the game's (`processor_visitor.go:60`), where `docs/plans/2026-03-25-reconnect-aware-handling.md:111` has the game ID preserved |
| | `SnapshotsOverTornBlocks` | the same: the snapshots so far are gone, where line 114 has them attach to the same game |
| | `OneSnapshotEach` | a game that goes on after a forced end captures the turn it was ended in twice (`state.go:271`), where `docs/API.md:63` has per-turn snapshots |
| `MCArchive_StableGameID` | `StableGameID` | the date of a CREATE_GAME depends on whether the daemon was restarted since its session began (`watcher.go:279`, `main.go:271`), where `docs/TODO.md:30` has stable IDs |
| `MCArchive_StoreHazards` | `StoredGamesHaveTurns` | a crash between the two transactions leaves a game without turns for good (`main.go:344`), where `docs/TODO.md:20` has them persisted |
| | `GamesOfMode` | a slow refresh of an earlier mode replaces the list of the mode chosen since (`app.js:2942`) |
| | `TurnsOfTheGame` | turns are kept under the game that is selected when they arrive, not the one they were asked for (`app.js:3071`) |
| | `TurnsComeInTheEnd` | turns asked for between the two transactions of a save are kept as none for as long as the page is open |
| `MCBoard_CombatHazards` | `RecruitStatsRestored` | the copy of an opponent's minion raises the player's own minion of that card, and the final board shows it |
| | `RecruitChangesBuffered` | the old value is read after the new one was written, so no board-wide modification is ever recorded |
| | `TriplesNotSold` | the gate opens at the end of a turn and closes before anything merges: merged minions count as sold |
| `MCBuffs`, with | `GoldOverReconnects` | the Overconfidence cards in play at a reconnect are declared by FULL_ENTITY, which `handleOverconfidenceZone` does not count (`processor.go:1883`), where its comment (`processor.go:1873`) has each of them contribute |
| `MCDuos`, with | `SpellsAreOwn` | the maximum of a counter that shows the partner's spells during the swap is taken for the player's (`processor_visitor.go:380`) |
| `MCServers_NoneAfterClose` | `NoneAfterClose` | a handler that outlasts the grace period, or a server that binds late, reaches the closed store |
| `MCCapture_StaleStops` | `StaleStops` | a game that fell silent is captured again at the next tick, where `docs/plans/2026-03-27-bscapture-screenshot-capture-design.md:107` has the next game begin capture |
| `MCCapture`, with | `EveryGameCaptured` | a game whose predecessor ended between the same two ticks as it began has no session of its own (`loop.go:174`), where the comment at `loop.go:177` has a game that is on captured |
| `MCClient_ReplayArrives` | `ReplayArrives` | the replay's model is discarded if its message arrives while the live view is shown, where `combined.go:279` has it waited for |
| `MCReplay`, with | `EmbeddedStays` | an embedded replay is left without one by a failed switch of its source (`model.go:485`), where the comment at `model.go:124` has it kept |
| `MCSetup_WizardHazards` | `NamesHaveInputs` | a scan that answers at the summary adds an install, and going back to the names finds fewer inputs than installs: the index is out of range (`discover.go:518`) |
| | `ActiveIsFound` | the file is read with its keys in lower case: an active profile with a capital is not found beside another (`config.go:89`) |
| | `AddressesKept` | a configuration that cannot be read is saved with blank addresses of the servers (`main.go:756`) |
| | `NoInstallLost` | a name given twice leaves one profile for two installs |

Other things met while modelling, without a property of their own:

- The dispatcher's comment calls a confusion of phases structurally impossible, but `Handle` calls methods of both visitors in any phase; and
  BACON_DUO_TEAMMATE_PLAYER_ID is checked for the local player in `Handle` alone, not on the way through the builder.
- `closeAllSubscribers` says that it ends the WebSocket feeds: it ends the pump; the hub returns without closing its clients' channels,
  whose goroutines go on until the peer leaves.
- In duos the opponents' minions keep the first stat they are logged with; a reconnect loses the split of the team's buff; a teammate's tag that comes
  late never yields the partner's hero.
- After a reconnect the player's tags are not read again, so a growth while the client was away is not shown; a growth of such a tag in a combat waits for the next change.
- A frame whose rename fails leaves its row, and the sequence does not go on; a session that continues a game begins its sequence at zero,
  and its total replaces the one before.
- `db-reset` copies the database before anything keeps a running daemon from writing to it.

## 5. Fairness

`Board`, `Buffs`, `Duos`, `Replay`, `Setup`, `Dashboard` and `Feed` promise nothing that must happen and assume nothing.

| Specification | Assumed | Because |
|---|---|---|
| `Lifecycle!Spec` | the ticker | `time.Ticker` with `write_interval_ms`, in a loop that runs as long as the daemon; the log promises nothing |
| `Archive!Fairness` | reading, the switch of session, the steps of saving | the event loop and the session watcher run as long as the daemon; neither the client nor a restart is fair |
| `Watcher!Spec` | each goroutine; Stop after a cancellation | Go schedules every runnable goroutine; `stopOnCancel` waits for the context |
| `Hub!Spec` | the pump, the hub, each client's goroutines, the closing of the feed once cancelled | the same; a write has a deadline of ten seconds, so a stalled peer ends its writer; connecting, breaking and cancelling are not fair |
| `ServersSpec` | the goroutines; strong fairness of `LoopEnds`; a send on a connection that is gone; a grace period against a client that stopped reading | Go's `select` picks at random among what is ready, so a busy event loop does not miss the cancellation for ever; clients promise nothing, and the timers fire only where something stalls |
| `Capture!Spec` | the feed, the consumer, the loop's steps | three goroutines of a process that is not fair itself: it may stay down; neither is the client, nor the failures |
| `ClientSpec` | each kind of command returns, each kind of message is delivered | Bubbletea starts a goroutine for every command and takes senders of its channel in the order they came; nothing is assumed of the daemon, the user or the network but that a call ends |

`CHECK_DEADLOCK FALSE` is in the configurations because the systems may stop: the log ends, the daemon exits, the bounds are
reached.

## 6. The proofs

`tlapm` checks every step; nothing is assumed but the named assumptions on the constants (bounds are naturals, capacities are
positive, `NoStash` is no record). The theorems hold for any number of games, turns, sessions, lines and any capacity: the
bounds are constants without a value there. Every property that a run of section 4 checks is a theorem but for those of liveness.

**LifecycleProofs**

- `TypeCorrect`.
- `PhasesAgreeHolds`: inductive as it stands, given the types.
- `RestoreSameGameHolds`, `GameIdentityHolds`, `SnapshotsMatchTurnsHolds`. None of the three is inductive: what the record
  is after a reconnect depends on what the stash held, and that on the record at the CREATE_GAME before it. The invariants
  therefore say of the stash what the property says of the record, with the position in the CREATE_GAME block to tell which
  of the two is the game's. `GameOrder`: neither the record nor a stash that may be restored is older than the game.
  `IdentityInv`: until a forced end or a torn record, the record of a live game is in progress, so that a reconnect stashes it, and the anchor is the ID in
  the record or, inside the block, in the stash; by then the record has a turn, so that a block that loses it is one that `TearsRecord` counts. `SnapshotsInv`: the record, or the stash inside the block, tells (`Tells`) the turns
  announced, the one in progress only if the record was ended in it, and none is later than the GameEntity's. It needs nothing of `IdentityInv`: a record that is not restored begins anew, and so does what it has seen. That `SetTurn` and `GameEnd`
  keep `Tells`, and the snapshots their order, are lemmas (`SetTurnTells`, `GameEndTells`, `AppendOrdered`).
- `RoutedAsPlayedHolds`. `PhaseInv` says where the three machines' phases stand at each position in the CREATE_GAME block, and that the processor's
  machine is in COMBAT only when the builder's is. The rest is the tables: the events that each phase gates are apart from those that none does (`GatedApart`,
  `UngatedIs`, `GatedInIs`), so that a route is either the phase's or what `Handle` gives (`RouteOf`, `GatedRoute`, `UngatedRoute`), and no action is refused (`NoneRefused`).

**LogProofs** is about the log on its way into the program, `Watcher`, and about the log read back, `Parser` and `Replay`, which do not use the watcher.

- `TypeCorrect`, with two facts it needs (`TypeInv`): a parked sender has read the line it holds, and the directory that
  `New` resolved exists.
- `ClosedMeansQuietHolds`. `QuietInv`: once Stop has been in its critical section every tail is stopped and `stopped` makes
  `startTails` refuse; the channel is closed after that, when every sender has ended.
- `WholeFromTheStartHolds`. `EnteredOnce`: a directory's tail is started at most once, as the switcher only takes directories
  created after its watch was set, each reported once, and nothing of them has been sent. `SentInv`: the lines of a directory
  handed over are exactly those its sender has read, but for the one it is parked with.
- `EventsExactHolds`. The property compares an automaton that sees one line at a time with definitions that see the whole log. `ParserOK` ties the two after any number of lines: `StackInv`, the stack
  holds the block starts that are open around the next line, the innermost last, and its height is the difference that `Depth` counts; `HeldInv`, what is held back is the event of a line with nothing but tag
  and foreign lines behind it, and has all of those tags; `Listed`, the events emitted are those of the `Marked` lines, in order. A line more changes the definitions only for the line that is still
  open (`EndsGrow`, `MarkedGrows`, `OverLast`, `ExpectedGrows`), so that what was emitted stays right and what the line closes is what is emitted now (`StackKept`, `SourceIs`, `FeedOther`, `HeldOut`).
- `LinesKeptHolds`. `LinesAre` says of what is built so far that there is a function that adds up the lines of the steps, whose raw lines follow it; each way of building (fold, new step, cap) hands one on (`CappedLines`),
  and any such function is the recursive `KeptTo` (`KeptToIs`).
- `ReplayTypeCorrect`, `GamesExactHolds`, `ShownStepHolds`, from `ReplayInv`. `GamesInv`: the games so far are the whole ranges that ended, and between the start of the open one and the last step there is neither a start nor an end (`Calm`).
  That the filter, which takes the k-th matching step by counting, yields matching steps in order and all of them is `RankFound` and `FilterLists`.

**HubProofs**

- `ClosedOnceHolds`. `HubInv`: a client that was never registered is not in the set, has an open channel and no goroutine that could unregister it
  (`Fresh`), and the pump has an event in hand when it sends.
- `HubImplementsFeed`: under `HubInv` every step of `Hub` maps to a step of `Feed` or to none. A broadcast publishes to those it does not evict; a registration joins;
  an unregistration leaves; taking a message from the channel and writing it moves it within what was given (`MoveHead`).
- `HubNoGap`, by the refinement and an invariant of `Feed`: `FeedInv` says where the stretch of the messages that a client was given begins and ends, for a member
  at the last message published. Its lemmas (`RunOfLonger`, `RunExtended`, `JoinContiguous`, `PublishContiguous`) are about stretches of sequences.
- `ServersTypeCorrect`, `SubscribersClosedOnce`, `FanOutSendsOnOpen`, of `Servers`, which the module extends beside `Hub`; nothing ties the two components. A subscriber's channel is closed by its own handler or by the shutdown, never by both, and the fan-out sends to none
  that is closed. `Unsubscribed`: a handler that has not subscribed has no channel; `Arrived`: a request is of a kind as soon as it is there.
- `StoreOutlivesUsersHolds`. `RestIsDown` and `GrpcIsDown` say of each server what is left of it at every step of the shutdown that is past it: no new request,
  and no handler but those that a grace period gave up on (`gaps`); `ClosedLast`: the store is closed after both.

**ArchiveProofs**

- `TypeCorrect`, `ClockNeverAhead`: the parser's clock never passes an entry that is still to be read, on which the dates rest.
- `ListMatchesStatesHolds`: whatever crashes and fails, what the list names has a state. It is inductive with `OwnID`.
- `StoredUnderOwnIDHolds`, `OneEntryPerWholeGameHolds`. `LogInv` is about what the client writes: the games of a log are numbered in order, a game's entries
  follow one another through the sessions (`InOrder`, `GoesOn`, `GoesOnAfter`), and its first CREATE_GAME is on record. `ReaderInv` is about the process:
  what it reads, saves and has stored belongs to the game it takes it for (`AtEntry`, `OwnID`, `StoredOwn`), and a game logged in one session is read, saved and stored under the ID of its only CREATE_GAME
  (`WholeRead`, `WholeSaving`, `WholeStored`).
- `PageTypeCorrect`, `HistoryExactHolds`, of `Dashboard`, which the module extends beside `Archive`. A behaviour of `MCArchive` is one of `Archive` or one of `Dashboard`, and so each theorem holds of the specification it names. `PageInv` follows every refresh between two lists, the one of its mode when it began and the one of now. Both descend, and the second is the first with
  newer games before it (`HistoryGrows`, `Grown`), so that a game of the first at `i` is at `i + d` of the second, `d` the difference of their lengths. `KeepsUp`: what the refresh has, up to its offset, is of the new list, and all of the old that the `d` games
  have not pushed past the offset is among it; with `d` at 0 it is the old list so far, with `d` at most 1 still in order. A page more keeps that (`FetchFollows`), and so does a game saved between two pages (`SaveFollows`), which only makes the claim weaker; a refresh that is done was at the end of the list (`DoneWhole`).
- That the APIs agree (`Answers`) needs no history. A filter lists each position once and in order (`NthLists`, `ChosenLists`), so that every figure of the aggregate counts positions of the store, however they were listed (`FiguresOfList`), and the positions
  of the two modes are apart and together those of all (`FiguresAdd`).

**CaptureProofs**

- `TypeCorrect`, `TotalsExactHolds`.
- `NoHistoricSessionHolds`: why the barrier holds although the marker of the backlog's end is sent by one goroutine and the events are applied by another. `FeedInv`: there is a number `n` of lines applied,
  such that the events queued are the lines fed since, with the marker among them at or behind the old log's end (`Queued`), the tracker is what `n` lines make it
  (`Tracker`), and whoever has seen the marker has applied the whole old log. `MayStart` carries that over to a session about to begin.
- `FramesKeptHolds`: no frame replaces another. `FilesHaveRows`: a file was inserted as a row first; `Rows`: the sequence of a session counts its rows, which is the number the next frame is named by.

**BoardProofs**

- `TypeCorrect`, `BoardInPlayHolds`. `PhaseOfStage` ties the machine's phase to the client's turn until the record is over. The limit of the board is the hard part of the second:
  a minion that is refused would be missed for good. The copies of a combat that return are copies of different minions (`OneCopyEach`), each of them on the snapshot (`SnapshotKept`), so there are
  no more of them than the board holds.
- `SlotsFitHolds`. `SlotsClaimed`: while a combat lasts what follows a slot is a copy of that combat and of the slot's card, and no two copies follow the same one; a copy peak is forgotten before the snapshot is mirrored again.
- `RecruitBoardRestoredHolds`, `StatsRecoveredHolds`. The properties speak of the end, which may come at any moment; `SnapshotKept` and `StatsKept` say of every moment what the snapshot would restore. A minion is `Alone` if
  no other minion in the fight, on either side, has its card; whatever follows its slot or has its card is then its own copy (`CopiesOfAlone`), so that its entry is raised by what its copy shows and by nothing else.
- `SoldExactHolds`, from `BoardInPlay` (what is sold is on the board), `PhaseOfStage` and `GateShut`.

**ProcessorProofs** is about two modules of the processor that do not use one another, `Buffs` and `Duos`.

- `BuffsTypeCorrect`, `BuffsShownHolds`, `TagsShownHolds`, `DeltasAddUpHolds`, `GoldExactHolds`. The properties speak of a time when no line is owed, and are not inductive: a number is read line by line,
  by counters that add differences. `Read` and `Shown` say what each tracker holds of a number whose line is read, one number at a time, and leave open what it holds of one that is owed;
  a reconnect empties the trackers, and the client then owes a line for each number that is not zero. `Beasts` is for the one that keeps the highest value, `Promised` for the
  gold, which the processor counts and the model derives from the cards in play: the count is that of the cards it was told of, between all cards in play and those not forgotten in a reconnect.
- `SplitExactHolds`, `OwnSpellsKeptHolds`, `TeammateIsFinalHolds`, of `Duos`. `PartsKnown`: the processor takes a part of a combat for the partner's just when it is, which
  keeps the partner's counters out of the player's share (`Shares`); `Told`: what the log told of the teammate is in all four places that record it.
- `BoardsOfTheFightHolds`, of `Duos`, from an invariant that follows the partner's minions from the log to the board (`BoardsInv`). While the board is set up what is collected is what stands on either side, with
  the stats last logged (`Collecting`): by the lines one at a time, or by the scan that the flag starts when it comes after the swap, which finds every entity of the combat (`Logged`). From the first attack to the next flag what was
  collected is the line-up of that attack (`Settled`), and afterwards the boards show it (`OnShow`); `Day` is the turn the last combat was in, whose number changes before its last flag. That a board is not cut short follows
  from positions of their own (`Placed`, `ListFits`).
- A board is sorted by ranks (`Sorted`): of each minion the number of those before it. `SortedLists` says that this lists each once and in the order, and `AscendingIsOne` that there is one ascending sequence of a set of IDs,
  so that what was collected line by line and what stands at the first attack are the same list (`ListIsOne`).

**TerminalProofs** is about what a user meets in the terminal before the board is shown, `Setup` and `Client`, which do not use one another.

- `SetupInvariant`: `SetupInv` is inductive. `SetupTypes` says that names, installs, configurations and files are what they should be at every step of the wizard, whatever was found on the disk; `NamesRead` that the wizard begins
  with a configuration that was read, with its names in lower case.
- `RunsChosenHolds`. `ChoiceSaved`: once a setup is saved, every reading of the file makes the chosen install the active one, although of two names that differ in case either may survive the reading. That the wizard's profiles,
  merged into those of the configuration (`MergedIs`), written and read again (`LoadIs`, `LoweredAre`, `LoadedIs`) and looked up (`GetProfileIs`) lead back to the install is the bulk of the proof.
- `LoggingOnHolds`, from `LogsAsked` and `SettingsKept`: what the patch makes of any `log.config` (`MergeSectionIs`, `WrittenIs`, `PatchIs`) asks for all the logs and keeps every other setting.
- `LayoutKeptHolds`. `LayoutSaved`: a reading of the file is the dashboard's configuration but for the layout, and that too when no saver is left.
- The folds of the model (over sections, over the directories found, over the installs named) are recursive functions. What such a fold makes is shown without an induction theorem, whose operator parameter the provers cannot instantiate:
  a set of numbers that is not empty has a least element (`Least`), so that what holds of 0 and is handed on holds up to any number (`UpTo`); a fold exists (`FoldExists`), and what each of its steps keeps its result has (`FoldMakes`, `FoldSteps`).
- `ClientOneConnector`, `ClientOneChain`, `ClientNoLeak`, of `Client`. Its commands and messages are a bag, and the properties count the elements of a kind. `Turned` says what a step takes out of the bag and puts in, and the lemmas
  on kinds (`KindKept`, `KindMoved`, `KindLeft`, `KindEntered`, `Counting`) what it does to those counts, so that no sum over the bag is needed. `Connector`: while the program runs and is not connected exactly one item of the
  bag is on the way to a connection, and none while it is; `Chains`: connected, there is exactly one item of each chain of the generation in use, or the loss of the connection is on its way; `InUseOpen`: an open client is the one in use, or in an item that will hand it over.

Not proved, and why:

- The liveness properties (`AbandonedGameCloses`, `EndedGamesAreStored`, `StopReturns`, `LinesArrive`,
  `HubHoldsNoOne`, `EvictedEnd`, `ShutdownEnds`, `LiveGamesCaptured`, `CaughtUp`) stay with TLC: the prover reasons neither about fairness nor ENABLED.
- `TurnsReached` of `Replay`, `StreaksMatchCombats` and `PlacedMeansComplete` of `Lifecycle`, `OneLateLine` of `Watcher`: TLC checks them when they are added to the configuration.

## 7. Not modelled

- Enchantments on minions, the tribe of a lobby and the ability counters, which take the path of a player tag; the partner's hero. `Lifecycle` has
  which turns have a snapshot, `Buffs` the deltas in it, `Board` the board it would copy.
- On the board: Duos, where the partner's copies pass through the same code before the combat flag arrives; a reconnect in mid-combat, after which
  the phase is RECRUIT and deaths count as sold; stat changes after the end of the game, which still alter the restored board.
- The text of the log: the regular expressions of the parser are taken to recognise their lines. Time stamps are in `Archive` only.
- The date of a log without a session directory, which `sessionDirDate` takes from the file's times.
- A session that appears between `resolveLogDir` and the start of the directory watch: it is in the model of the watcher, and
  `LinesArrive` does not promise it.
- In `Setup`: the profile flag, the non-interactive search, another process that writes the file at the same time, the paths of Windows and macOS.
- In `Client` the aggregate, whose poll is a chain like the game's; in `Replay` scrolling and the mouse; in both the rendering. In `Dashboard` the charts,
  the filters by date and number, and the full games behind the charts.
- The end of the process: goroutines that are still blocked when `main` returns go with it.
- File output writes each file under a temporary name and renames it; it keeps no state and nothing of it is read back. The only store
  migration does nothing. Self-update delegates to a library. Logging and the Stream Deck plug-in keep nothing the system depends on.
- A third of the Go lines cannot be mapped: the two generated `game.pb.go`, the generated table of card names, the card catalog. Much of the rest that is
  not mapped is the layout of the terminal views and conversions to protobuf and JSON.

## 8. Running it

```
tlc -workers 2 -config MCLifecycle.cfg MCLifecycle
tlapm LifecycleProofs.tla
```

and likewise for the other modules. The times in section 4 are of two workers; `tlapm` takes a few minutes for each module of proofs, and about eight for `LogProofs` and for `ArchiveProofs`.
