# Verification of girasolbot

girasolbot is a copy-trading bot for Solana. It watches the transactions of one
target wallet, buys what the target buys, and sells by its own take-profit and
stop-loss rules or when the target sells. This directory holds TLA+ models of
its trading core, TLC configurations that check them on small instances, and
TLAPS proofs of the properties that matter most. Paths below are relative to
the repository root.

## The system

### Components, their state and their operations

| component | source | state | operations |
|---|---|---|---|
| position store | `src/position_monitor.rs` 104–381, `src/models.rs` 40–115 | the map mint -> `Holding` behind an `RwLock`; `positions.json` | `add_position` (then `persist`), `accumulate_position`, `update_after_sell`, `set_pending_sell`, `clear_pending_sell`, `mark_migrated`, removal by a validation, load at startup |
| buy slots | `src/position_monitor.rs` 287–327 | `pending_buys`, a set of mints behind a mutex | `try_acquire_buy`, `release_buy` |
| buy tasks | `src/main.rs` 675–1204, `src/buyer.rs` | one spawned future per detection: `already_holding`, the buy result | acquire, read the map, count positions, screen, build and send, wait, register, release |
| monitor loop | `src/position_monitor.rs` 383–767 | a snapshot of the map, one order | tick, price look-up, order, mark, periodic revalidation |
| mirror arm | `src/main.rs` 1206–1264 | one order | turn a sell of the target into an order |
| sell channel | `src/main.rs` 441 | a bounded FIFO of 100 orders | send (waits when full), receive |
| executor | `src/main.rs` 1364–1597, `src/rpc.rs` 1542–1946 | the order in hand | take, skip, sell, settle, give up |
| startup validation | `src/position_monitor.rs` 789–872 | the entries still to check | read a balance, remove, save |
| dispatch loop | `src/main.rs` 637–694 | signatures seen, with their age | deduplicate, hot reload, spawn |
| listeners | `src/geyser_listener.rs`, `src/shreds_listener.rs`, `src/ws_listener.rs`, `src/copy_engine.rs` | connections; the cache of address lookup tables and the set of tables being fetched | subscribe, put the keys together, classify, reconnect, `prefetch` |
| RPC access, prices | `src/rpc.rs` 233–325, 565–1056, 1131–1185, 1446–1512 | the round-robin counter, the price cache | `fetch_with_fallback`, `fetch_current_price`, `fetch_current_price_full`, `fetch_token_safety_report` |
| senders | `src/swqos_sender.rs`, `src/helius_sender.rs`, `src/quic_sender.rs`, `src/leader_cache.rs` | circuit per provider, semaphore, connections | race the providers, fall back, retry |
| caches | `src/blockhash_cache.rs`, `src/onchain_idl.rs` | latest blockhash | refresh, wait until ready |
| settings, risk | `src/settings.rs`, `src/rug_guard.rs`, `src/replay.rs`, `src/main.rs` 112–159, 1600–1653 | `config.toml`, the settings in the `ArcSwap`, the watcher's notifications | load, validate, reload, size an order, screen a token and a trade |
| key vault, panel | `src/api_key_vault.rs`, `src/key_panel.rs` | encrypted file and each process's copy | get, set, migrate, save |
| instruction building, parsing | `src/idl.rs`, `src/tx_*.rs`, `src/pumpswap.rs`, `src/raydium_*.rs`, `src/pumpfun_parser.rs` | none | pure functions of bytes and amounts |

### How they interact

Listeners put detections into one channel; the dispatch loop drops those it has
seen and spawns a buy task for each of the rest, or turns a sell of the target
into an order. Buy tasks, monitor loop, mirror arm, executor and validations
all work on the one position map. Each method takes the lock and lets it go, so
what another task may see or change lies between two calls. Monitor loop and
mirror arm send orders into the sell channel, and the executor drains it one
order at a time. A crash loses everything but `positions.json` and the chain.

### What is hard, and what correctness means

* Position store: what was bought is counted once, what was sold is subtracted
  once, a level triggers once, and the file tells a restart the same.
* Buy slots: one buy per mint at a time, and no slot is lost.
* Sell path: no two orders for one position, no order for what is already sold,
  a flag that says exactly whether an order is under way.
* Limits: `max_holded_coins` bounds the positions.
* Channels: nobody waits for ever.
* Prices: a reachable price is found, and a position leaves the watch for good
  only when its curve is gone.
* Settings: what is in the file comes into force, and no rule of it is skipped.

`PROJECT.json` lists every hazard at its line, with the property that covers it
or the reason that none does.

## The modules

```
Positions            the map, its file, the wallet
  BuyTasks           spawned buy tasks
  SellSide           monitor loop, mirror arm, sell channel, executor, validations
    Trading          the four together, with crashes         -> implements BuySlot
Dispatch             main's two receiving arms, dedup, reload
  Listeners          Geyser and ShredStream in front of it
    ShredStream      the keys of a transaction, lookup tables  -> implements Listeners
  CopyEngine         WebSocket listener and fetch pool in front of it
Swqos                concurrent sender, circuits, semaphore
QuicSender           what one provider task of Swqos does over QUIC, then HTTP
Startup              start of main: panel, caches and their waits
  HeliusRetry        one order: cached blockhash, attempts, landing
Vault                key panel and encrypted file             -> implements KeyStore
Rpc                  one call over several endpoints, the shared round robin
  PriceFeed          monitor and buy task asking for the price of one mint
Settings             config.toml, its validation and its watcher
PositionFile         the writers of positions.json and their temporary file
Screen               size of an order, risk rules (operators without state)
  Session            Settings, PositionFile and Screen together, with crashes
```

An indented module EXTENDS the one above it. `BuySlot` and `KeyStore` are the
abstract specifications. `MC*` modules only hold values that a configuration
file cannot write down. `*_proofs` modules hold theorems.

### How a module corresponds to the code

`PROJECT.json` maps each definition to its lines. The general rules:

* A step is what happens between two awaits that matter. A method of
  `PositionMonitor` runs under one lock and is one step; the caller's next
  method is another.
* Prices, screens, pools and RPC answers are nondeterministic: any level that
  the holding leaves open may trigger at any look, any screen may refuse, any
  remote call may fail where a `...Faults` constant allows it.
* A chain transaction is a small state machine (`sent`, `landed`, `dropped`)
  that moves by itself, whether or not the task still waits for it.

**Positions.** `Holding` keeps the fields that steer control flow. `disk` is
the content of `positions.json`; each method writes it exactly where the Rust
method calls the save, so `add_position` does not and `update_after_sell` does.
A write is one step here; what it consists of is in `PositionFile`. With
`FileFaults` a save may fail, which the code logs and never makes good by itself,
and a load may find nothing; `behind` says that the last of them failed.

**BuyTasks.** `phase` is the task's place in the spawned future of `main.rs`
675-1204. `AcquireWin`/`AcquireSkip` are `try_acquire_buy`, whose mutex is held
over check and insert. `Release` is the task that the drop guard spawns: it runs
some time after the buy task has ended. `Reports` is what the buy result says
was bought: the estimate, for a Helius buy the balance of the token account,
for an AMM buy zero. The route is that of the detection (`AmmTasks`), so one mint
may be bought on both; the holding keeps the exchange of its first buy (`amm`), and
an accumulating one changes its amount and price whatever its own route.

**SellSide.** `MonTick`..`MonTickDone` are one tick of `monitor_loop` over its
snapshot; sending an order (`MonQueue`) and marking the position (`MonMark`)
are two steps, as in lines 609-613. The executor's exits differ in what they
clear, so each is an action: `ExecFail` clears the flag, `ExecAbandon` does not,
`ExecNothingToSell` and `ExecDone` record the sale. `ValFindsNone` and
`ValRemove` are the balance read and the later removal.

**Trading.** Adds the crash: the map becomes what can be loaded of the file,
channels and tasks vanish, the chain stays.

**Dispatch, Listeners, CopyEngine.** `seenAt` is `seen_sigs`; an insert
overwrites the instant before it is looked at. The mirror arm is guarded by the
present settings, the senders by the settings at startup. A full channel blocks
its sender. A gap in a stream is `Reconnect` or `Miss`. A copy-engine job is
the place of a notification in the stream, since the node may repeat one; it holds
its permit until what it found is in the channels.

**Swqos.** A task that was told to abort may still finish its last poll on
another thread (`aborting` may still be accepted or refused); its permit returns
when it is dropped. `Refused` and `AnswerLost` look alike to the task, but after
the second the provider has the transaction (`taken`, history); the same goes for
an error of the direct fallback. `known` are the providers with an entry in the map
of circuits, which matters when the threshold is 0. The circuits of all providers are asked in one step: they
are asked one after another without an await, and no property relates the
answers of two providers.

**QuicSender.** One provider task of `Swqos` is one call here: QUIC first, HTTP
when every region failed. The `RwLock` is the queue of its waiters; readers are
the workers that send on a stored connection, and the writer needs no await, so
`Store` is granted, stores and is gone in one step. A worker of bloXroute is
spawned and outlives its aborted call; NextBlock has one endpoint (`Single`), and
its worker is the call itself. A worker that failed after a region took its
transaction is `unanswered` (only for the regions in `Lossy`, to keep the run
small); the code treats it like any other that failed. `Init`
picks the sender, since the two share nothing. A call that is over, with all its
workers, makes room for a later one (`NextCall`), so that connections are stored
and replaced again and again; what it tells the race is in `Swqos`. `lost` is an end that
`is_connection_error` knows, `closed` one that it does not.

**Listeners.** What Geyser detects depends on the exchange: the instructions in
order on the bonding curve and PumpSwap, the first change of a balance on
Raydium. ShredStream knows the bonding curve alone.

**ShredStream.** The listener of `Listeners` in detail. `TakeTx`, a `CopyTable`
for each lookup and `Look` are `resolve_keys` and the parsing; between two of
them a prefetch may begin, end or be unmarked (`FetchBegins`, `FetchEnds`,
`Unmark` are the spawned task of `prefetch`, whose check under the `in_flight`
lock is one step). A table only grows, so it is a length, and a cached one is an
earlier length, possibly what a lagging node reported. `keys` records what the
last transaction was read with: looked up entry by entry in the copies, where
`ChainKeys` looks in the tables as the chain has them.

**Rpc, PriceFeed.** A call is the start it has drawn, the number of endpoints it
has tried and, as history, their set. `down` stands for everything that makes
`fetch_with_fallback` try the next endpoint, `refusing` for everything that makes
it return. An endpoint shows one account at commitment `processed` (`view`) and
possibly an older one at `finalized` (`final`); the direct attempts ask for
`processed`, `confirmed` and `finalized` in turn, `Retries` times each, the probe at
the end for `finalized` alone. What was processed is assumed not to be rolled back.
A fetch of the monitor goes through the phases of
`fetch_current_price` and holds the price cache all the time; a position that is
`pending` is passed over. `steady` is history:
the endpoints that could have answered the probe from its beginning on. What an error says
matters to the monitor, so `lastErr` says whether it quotes one of the words that mark a migration;
only a refusal can (`Wordy`).

**Settings, Screen, Session.** `Edit` is anybody who writes the file, `Replace`
anybody who puts another one in its place; the watch is on the old one and goes with
it. `watched` says that the watch is there: setting it up may fail, which is logged
and nothing more. Notifications are a flag: one in the channel is as good as ten. `Wake`, `Drain`,
`Read` and `Store` are one round of the watcher. A URL is its scheme and a key
valid or not; amounts and percentages are integers, and the narrowing of the
highest fee to 16 bits is kept. A buy task loads the settings once (`Detect`) and
is screened with them (`Decide`), whatever becomes of the file.

**PositionFile.** The positions are the number of their last change. A save under
a read lock can meet another one; each is the opening, the writing and the renaming
of the one temporary file, and inodes tell a renamed file from a new one of its
name. Any of the three may fail (`SaveFails`), which ends the save; `failed` says
that such a save was among those that overlapped with the last one.

**Startup, HeliusRetry.** `wait_ready` is two steps, the look at the cache and
the creation of `notified()`. The caches are followed by the request for the fee
recipients (`FeesFetched`), which has no time-out, and the warm-up of the
connections (`Warmed`), which has one. The cache holds the last height its
blockhash is valid at. A retry draws a tip account anew, so a transaction is a pair
of a tip account and an expiry. Any error of a send may follow a transaction that
was taken.

**Vault.** A change is two steps under `io_lock`, the read and the rename. An
entry remembers the passphrase it was encrypted by; a reader with another
passphrase sees nothing. `passphrase` stands for `VAULT_PASSPHRASE` or, without
it, the secret of the installation, which is generated anew when it cannot be read
(`NewSecret`). The file starts in either layout or `damaged`; a load that cannot read
or parse it gives an empty vault (`LoadEmpty`), and the change that follows writes
that (`rewriting`). `KeyStore` knows such requests as `blind`.

## The runs

All bounds are constants of the configurations. Small ones are enough where the
code treats its mints, tasks, signatures and providers alike: two tasks make a
race, a channel of one place makes every sender wait, one crash separates file
and memory. The theorems below need no bound.

| run | instance | shows |
|---|---|---|
| `positions` | 1 mint, 2 buy tasks, one on an AMM and one on the curve, 1 mirror sell, 1 crash, failing calls, accumulation | `BuyExclusion`, `NeverOverwritten`, `SlotRefined` (the slots implement `BuySlot`), `AbandonHarmless` |
| `orders` | 1 curve mint, 2 buy tasks that are alike (symmetry), one take-profit and one stop-loss level, 1 crash, accumulation, failing saves and loads | up to the crash `OneOrder`, `NoStaleLevel`, `OrderCovered`; `Saved`, `NeverRearmed` |
| `progress` | 1 curve mint, 1 buy task, 2 mirror sells of 50 or 100 %, sell channel of one place | `TypeOK`, `Backed`, `SlotFreed`, `SendersProceed` |
| `swqos` | 2 calls, 2 providers, 2 permits, threshold 1, cool-down 1, instants 0-2, refusals and lost answers | `OpenIffFailing`, `PermitsKept`, `CallsEnd` |
| `quic` | 2 calls at a time, repeated, 2 regions, either sender, aborts, connections that end, one region that loses answers | `InUseNotReplaced`, `WorkersEnd`, `FirstSuccessEnds` |
| `listeners` | 3 signatures (one on each exchange, one of them also a sell), 2 sources, channels of one place, time to live 2, instants 0-2, 1 reload, 1 lookup table that grows once | `KeysRight`, `BoughtOnce`, `ListenersProceed`, `BuysDispatched` |
| `engine` | 3 notifications of 2 signatures, the last a repetition, 1 permit, 1 retry, channels of one place, 1 reload | `NotificationsEnd`, `FetchedBuyDispatched` |
| `vault` | 2 slots, 2 keys, 3 concurrent requests (two stores, a delete), failing reads and writes, restarts, either layout or a damaged file | `IsMap` (the vault implements `KeyStore`), `OthersUntouched`, `Answered` |
| `order_path` | heights 0-4, blockhash validity 2, margin 1, 3 attempts, 2 tip accounts, failing RPC, lost answers | `BotStarts`, `ExpiredIsFinal` |
| `prices` | 2 endpoints of any health, 1 change of it, one direct attempt per commitment, a curve that may end, endpoints that lag and finalize late, monitor and buy task | `NoneSkipped`, `PricedWhenReachable`, `MarkedMeansGone`, `GoneIsMarked` |
| `session` | 3 settings (one of them invalid), 3 trades, 4 coins, 3 liquidities, 2 edits or replacements (unreadable files included), a watch that may fail, 2 changes of the positions, saves that may fail, 1 crash | `FileInForce`, `Latest`, `NeverLax` |

One run ends in a counterexample, because a text of the repository says what the
code does not do: in `pending_flag` (`PendingMeansInFlight`) the executor finishes
an order between the monitor's send and its `set_pending_sell`. The flag is set
after it was cleared, nothing clears it again, and the position is never looked at
any more.

Conditions under which the properties are stated, and why:

* `OneOrder`, `NoStaleLevel` and `OrderCovered` hold while the monitor is the
  only source of orders (`MonitorOnly`). A mirror sell ignores `pending_sell`,
  and after a crash the startup validation may remove a position that a new buy
  task has just registered and whose order is under way.
* `Backed` holds until something happens that the bot cannot see (`Honest`): a
  call that fails although the transaction lands or the other way round, a crash
  between landing and recording, a balance read that counts an earlier buy again,
  and two buys of a mint of which a mirror sell sells the tokens of the second
  before it is registered. Each of these makes file and chain differ.
* `Saved` leaves out the time since a failed save or load (`behind`) and the two
  windows in which the code itself has not saved yet: a registration between
  `add_position` and `persist`, and a validation that saves once at its end.
  `NeverRearmed` leaves out a crash in the first of these.
* `AbandonHarmless` leaves out a mint that was also bought on the curve: that buy
  gives an AMM position a price, so it is flagged, and the executor's exits leave
  the flag (`AmmNotSkipped` below).
* `SlotFreed` assumes that remote calls return, as the section on fairness says.
* `OpenIffFailing` holds for every threshold, also 0, which `validate` accepts; the
  branch "at threshold but no opened_at" is out of reach only if it is not 0
  (`SuccessCloses` below). `CallsEnd` assumes at least one permit, which nothing
  in `settings.rs` ensures either.
* `ExpiredIsFinal` is about buys: each attempt of a sell fetches a blockhash of its
  own, which outlives the deadline computed before it.
* `BotStarts` is about a start without a panel token and leaves one outcome beside
  the trading loop: a request for the fee recipients that is never answered.
* `ListenersProceed` and `NotificationsEnd` assume that mirror sells are
  switched on again and again (`[]<>mirrorOn`); `engine_stall` below shows why.
* `IsMap` assumes that the secret stays the same, and `vault` is run so; with
  `Rotates = TRUE` the run confirms `OthersUntouched`, which is proved for both. In `KeyStore` a change that found
  nothing to read keeps its own key and loses all others: what the code does with
  a damaged or unreadable file. `OthersUntouched` is about v2 files and says the same.
* `PricedWhenReachable` is about endpoints that are up and have the curve finalized:
  a fresh curve, processed or confirmed only, escapes the probe when the endpoint
  asked first refuses the direct attempts.
* `MarkedMeansGone` is checked with refusals that are not worded like a migration
  (`Wordy = FALSE`), `GoneIsMarked` with an endpoint that stays up, a mint that has
  a curve, and a flag that does not stay set or come back for ever (`<>[]~pending`):
  the monitor does not look at a flagged position, and `pending_flag` shows that the
  flag may stay.
* `FileInForce` leaves out a change the watcher was not told of (`untold`), and
  `NeverLax` a coin whose mint account cannot be read: the code allows those buys
  (`main.rs` 129-137).
* `Latest` is about the changes the code saves; `pending_sell` and `migrated` go
  into the file with the next of them. It leaves out a file whose last save, or one
  that overlapped with it, failed.

### Further disagreements

These properties, too, state what a comment or document says; each fails under
the configuration named, run by hand (`tlc -config <name>.cfg <module>`). Where
there is no file for it, the configuration is the one of a run above with the
constants and the property given in its place.

| configuration, module | property | what the code does instead |
|---|---|---|
| `engine_stall`, MCCopyEngine | `KeepsProgressing` | A reload switches `mirror_sells` off; fetch tasks wait at the full mirror channel with their permits in hand, and no later notification is fetched (`copy_engine.rs` 311, comment at 243). |
| `panel_blocks`, HeliusRetry | `StartsWithPanel` | With a panel token set, `main` awaits the panel's accept loop and never starts trading (`main.rs` 302, `INSTALL.md` 90-93). |
| `amm_mirror`, MCTrading | `MirrorSellsAll` | A Raydium or PumpSwap position is registered with amount 0 (`main.rs` 1087), so its mirror sell sells nothing and the position is dropped while the wallet keeps the tokens (comment at `main.rs` 1207). |
| `restart_flag`, MCTrading | `RestartArms` | `pending_sell` is saved with the next change and restored by a restart, although the sell channel is empty then (`models.rs` 84-86). |
| `duplicate_orders`, MCTrading | `NoDuplicateOrders` | The mirror arm neither reads nor sets `pending_sell` (`main.rs` 1256). |
| `max_positions`, MCTrading | `MaxPositions` | Positions are counted long before one is registered, and buys under way are not counted (`main.rs` 745). |
| `positions` with `AmmTasks = {}`, `ReadsBalance = TRUE`, `RemoteFaults = FALSE`, `MaxCrashes = 0`, MCTrading | `CountedOnce` | An accumulating Helius buy adds the balance of the whole token account (`buyer.rs` 417). |
| `positions`, MCTrading | `AmmNotSkipped` | "Skip positions with a sell already in-flight": a curve buy added to an AMM position gives it a price and an order, the executor gives up on that order without clearing the flag, and the position is skipped with nothing in flight (`position_monitor.rs` 235-260, `main.rs` 1403, 1441, 1522). |
| `sell_twice`, MCListeners | `MirroredOnce` | `seen_sigs` is asked for buys only; a sell that two listeners report is mirrored twice (`main.rs` 1208). |
| `listeners`, MCListeners | `SeenIsFirst` | A duplicate moves the instant of its signature (`main.rs` 659, comment at 641). |
| `listeners`, MCListeners | `OutdatedRefetched` | A table thrown out as outdated is meant to be read again by "the next prefetch"; that one ends at once while the one before is still marked in flight (`shreds_listener.rs` 76, comment at 193). |
| `listeners` with `MintInTable = {}`, MCListeners | `AccountsInPlace` | Accounts without a key are left out, and "the buyer's pre-built template can fill the rest"; those behind move up, and the buyer reads accounts 9 and 16 by number (`shreds_listener.rs` 446-452, `buyer.rs` 280, 495). |
| `swqos` with `Calls = {c1, c2, c3}`, MCSwqos | `SingleProbe` | A half-open circuit lets every concurrent call through (`swqos_sender.rs` 99, comment at 38). |
| `swqos_reopen`, MCSwqos | `FailedProbeReopens` | A failed probe leaves the circuit half-open (`swqos_sender.rs` 127, comment at 386). |
| `swqos` with `Threshold = 0`, MCSwqos | `SuccessCloses` | "Resets consecutive failures to 0 and closes circuit": zero failures reach a threshold of 0, so after a success the provider is open with no time to cool down (`swqos_sender.rs` 104-107, 113). |
| `swqos`, MCSwqos | `ErrorMeansNotTaken` | The buy task takes an error for "nothing was sent" and frees the slot; a time-out or an unreadable answer may follow a transaction that was taken (`swqos_sender.rs` 789-808, 466). |
| `quic`, QuicSender | `HttpOnlyUntaken` | HTTP sends again what a region may have taken without an answer (`quic_sender.rs` 321-349). |
| `quic_closed`, QuicSender | `GoneMeansReconnect` | A connection that the server's application closed does not count as gone, so it is never replaced and every send falls back to HTTP (`quic_sender.rs` 572-581). |
| `quic` with `Silent = {r1}`, QuicSender | `FirstSuccessEnds` | With one region that keeps its connection up and does not answer, a region that took the transaction waits for the write lock with the signature in hand (`quic_sender.rs` 232, "multi-region failover" at 163). |
| `vault_migration`, MCVault | `MigrationKeeps` | The conversion of a v1 file leaves out what the present passphrase does not decrypt (`api_key_vault.rs` 513, `README.md` 112). |
| `vault` with `Body <- Garbled`, MCVault | `OnlyEmptyDeletes` | A body that cannot be parsed deletes the key (`key_panel.rs` 217, `INSTALL.md` 114). |
| `order_path`, HeliusRetry | `AnnouncementHeard` | A fill between the look at the cache and the wait is not heard (`blockhash_cache.rs` 80). |
| `order_path`, HeliusRetry | `LandsOnce` | An attempt whose answer was lost is repeated with another tip account, so an order may be executed twice (`helius_sender.rs` 456-475, 693). |
| `order_path`, HeliusRetry | `StartsWithoutFees` | "Failed to cache fee_recipients, will fetch per-buy": a request that is never answered does not fail, and `main` waits for it (`main.rs` 341-346, `rpc.rs` 166). |
| `order_path`, HeliusRetry | `HashFresh` | The deadline is computed from the present height, not from the blockhash (`helius_sender.rs` 666). |
| `prices` with `HasCurve = FALSE`, PriceFeed | `AbsentIsMarked` | "Detect migration signals: ..., account not found": the error for a missing account contains none of the words looked for, so a mint without a curve is asked for again and again (`position_monitor.rs` 441-446). |
| `prices` with `Wordy = TRUE`, PriceFeed | `MarkedMeansGone` | The error quotes the node; a refusal that says "not found" marks the position as migrated (`rpc.rs` 669, 935). |
| `session`, MCSession | `FileAlwaysInForce` | What is written between the load of the settings and the start of the watcher is not in force until the next change (`main.rs` 235, 621), and nothing is any more once the file was replaced by a rename or the watch could not be set up (`main.rs` 1606-1623). |
| `session`, MCSession | `AlwaysLatest` | A save that fails is logged and not tried again; the file lags until the next change (`position_monitor.rs` 367-379). |
| `session`, MCSession | `FileWhole` | "Atomically save": a save that opens the temporary file another one is about to rename leaves `positions.json` empty until it has written (`position_monitor.rs` 362). |
| `session`, MCSession | `SpendCapped` | `max_position_sol` "Caps both fixed buy_amount and mirror_percent calculations" (`settings.rs` 215-217); only a replayed buy is capped (`main.rs` 775). |

Two texts that no model is needed for: `mirror_percent` "overrides buy_amount" only
in replay mode (`settings.rs` 204), and the "hot-reloadable" blacklist
(`main.rs` 111) is loaded once, at the start (`main.rs` 395).

### Fairness

* *Scheduling.* Every spawned future that can go on is polled in the end: weak
  fairness of each task's steps.
* *Queues.* Tokio's channels, semaphores and mutexes serve waiters in order, so
  one that waits is served although others compete: strong fairness of the
  waiting step (`MonQueue`, `MirrorQueue`, `Acquire`, `Send`, `Deliver`, `Load`).
* *select.* The main loop's `select!` picks a ready arm at random, so none is
  passed over for ever: strong fairness of `TakeMirror`.
* *Remote calls.* The copy engine's HTTP client has a time-out of ten seconds.
  The shared client of `rpc.rs` 166-171 has none, so `SlotFreed`
  rests on the assumption that the remote end answers or the connection breaks.
  A send over HTTP times out after ten seconds; one over QUIC ends when quinn
  ends an idle connection. A server that keeps its connection up and never
  answers is excluded from `CallsEnd` and from `quic`; what it does is shown by
  `quic` with `Silent = {r1}`, above. `Startup` assumes nothing of the RPC node:
  a cache may never be filled, and the fee recipients may never come.
* *Prices.* Monitor and buy task are polled (weak fairness of their steps), and
  each request is answered or breaks, which the shared client does not see to by
  a time-out: assumed, as for `SlotFreed`. Time passes, so a cached price expires,
  and an endpoint that lags sees the end of a curve, and sees it finalized, in the
  end (`CatchUp`). Nothing makes the flag of the position turn.
* `Session` states no fairness: its properties are about safety.
* Nothing makes detections, sells of the target, reloads, blocks, restarts or
  crashes happen.

## What is proved

For every value of the constants, from the named assumptions in the modules
alone (`PositionsAssumption`, `BuyTasksAssumption`, ...: sets are disjoint from
their markers, counts are natural numbers, capacities are positive).

| theorem | states | along which argument |
|---|---|---|
| `TypeCorrect` (Trading_proofs) | `TypeOK` | `TypeOK` is inductive; lemmas give the types of what the methods build and of the orders. |
| `BuyExclusionHolds` | `BuyExclusion` | `SlotInv`: a task in a slot phase has its mint in `pendingBuys`, and no other task of that mint is in one. Exclusion alone is not inductive: it does not say that the set knows the owner. |
| `SlotsHaveOwners` | the reserved mints are those of the tasks on their way to `release_buy`; the safety half of `SlotFreed` | `SlotInv` and its converse. |
| `NothingOverwritten` | `NeverOverwritten` | `MapInv`: types, `SlotInv` and the property. Only the owner of the slot may add an entry, everything else shrinks the map (`Shrunk`). |
| `SlotImplemented` | `SlotRefined` | Each step maps to a step of `BuySlot` or to a stutter, under `SlotInv`. |
| `LevelsStayTriggered` | `NeverRearmed` | `FileHasLevels`: unless it is behind, the file has every level of an entry that both hold, so that a restart re-arms nothing; no new entry replaces an old one, by `MapInv`. |
| `FileSaved` | `Saved`, with saves and loads that may fail | `SaveInv`: `TypeOK`, `Saved`, and that a validation with something left to check or to remove is running. |
| `OneOrderAtATime`, `LevelsFresh`, `OrdersCovered` | `OneOrder`, `NoStaleLevel`, `OrderCovered`: until the first mirrored sell and the first crash | `SellInv`: `MapInv`, and under that condition `OrderInv`. A mint with an order under way is marked, or about to be by the monitor that has just sent it, so the next snapshot passes over it and the periodic validation leaves it alone. What the tick has yet to look at in an old snapshot has only grown since (`SnapshotServes`), so what it decides is covered by the position. |
| `PositionsBacked` | `Backed` | `BackedInv`: while `Honest`, the claim of a position and what a task of its mint still has to register are covered together by the wallet, the unlanded buys and the sale being settled (`ClaimsCovered`). Beside it, nothing is sent twice (`TxOnce`), without accumulation the owner of a slot finds no position (`NewOnly`), and a mint that is bought once has no order, nor anything one could come from, before its position is registered (`FirstBuys`). |
| `BuysCountedOnce` | while no buy reads the balance, a position counts at most what the transactions of its mint asked for | `CountedInv`: the claim of map and of file plus what tasks still have to register is at most `BuyAmount` for each transaction sent; the file counts, because a restart takes it for the map. |
| `AmmNeverMarked` | `AbandonHarmless` | `AmmInv`: for a mint that no curve buy has reported, the entries of the map, of the file and of the monitor's snapshot hold no tokens, no price and no flag; buys on AMM pools report 0, and the monitor's order in hand is never for such a mint. The flag alone is not inductive: it is set for an order decided on from a snapshot of a map read from the file. |
| `CircuitsConsistent`, `PermitsNeverLost` (Swqos_proofs) | `OpenIffFailing`, for every natural threshold, and `PermitsKept` | `IInv` adds that the set of permit holders is finite, which its cardinality needs, and `TasksSettled`: a call that has not begun, or has no provider, has no task. |
| `QueueHoldsWaiters` (QuicSender_proofs) | the lock's queue holds exactly the waiting workers, each once; the safety half of `WorkersEnd` | `QueueInv`: with it, an idle call has no workers and one of NextBlock at most one. Lemmas on head, arrival and removal in a sequence without duplicates; that the workers of a call arrive once each is a counting argument (an injection between finite sets of one size is a surjection). |
| `NoneReplacedInUse` | `InUseNotReplaced` | From `QueueInv`: the worker that stores was at the head of the queue and no reader held the lock. |
| `NeverBoughtTwice` (Listeners_proofs) | `BoughtOnce` | By the lemma `RecentlyBoughtKnown`, whose invariant is `KnownSince`: the entry of a signature bought within the time to live exists and is no older than the buy, so the clean-up keeps it. |
| `ShredStreamRefines`, `ShredStreamBuysOnce` (Listeners_proofs) | `BoughtOnce` in the detailed model | Each step of `ShredStream` is a step of `Listeners` or leaves its variables alone: `TakeTx`, `CopyTable` and the cache's steps stutter, `Look` is what `Listeners` calls `Observe` of the source shreds. |
| `KeysAreRight` | `KeysRight` | `KeysInv`: a cached table is a beginning of the one on the chain (`Beginnings`), so is a copy (`Copies`), and the lookups of the last transaction stay within the tables (`KeysKnown`), so that a table that grows changes none of its keys. |
| `EngineBuysOnce` (Listeners_proofs) | `BoughtOnce` behind the copy engine | The engine as an instance over the same main loop: every step of it is one of the loop or touches neither signatures nor clock (`SeenStep`), so `KnownSince` carries over although notifications repeat and fetches end in any order. |
| `PermitsComeBack` | a permit is free or held by one job that fetches or sends, and a job sends as long as something is left to send; the safety half of `NotificationsEnd`, for any natural `MaxRpc` | `EngineInv`: beside it `JobsFresh`, that the channel holds notifications in the order of the stream which are no jobs yet, so that none is taken twice. |
| `NoEndpointSkipped` (PriceFeed_proofs) | `NoneSkipped` | `AskedFromStart`: what a call has asked is the run of endpoints from its start on, as long as the number of its attempts, whatever the other callers have drawn. |
| `ReachableIsPriced` | `PricedWhenReachable` | `FetchInv`: an endpoint that has been steady can answer the probe, since no endpoint loses a finalized curve again, and the probing at the end of a fetch has not passed any. |
| `MarkedOnlyGone` | `~Wordy` implies `Spec => MarkedMeansGone` | `GoneInv`: what an endpoint shows as gone is gone, and the monitor is about to mark only such a curve; beside it `Plain`: no error quotes a word that marks. |
| `OtherKeysKept` (Vault_proofs) | `OthersUntouched`, under any rotation | `LockHeldByWriter` and `CopyCurrent`: one request is between read and rename, and its copy is the file of this moment, or nothing where it could not be read, with one entry changed. |
| `VaultIsMap` | `~Rotates` implies `Spec => IsMap` | The same with `AllReadable`; a request that found nothing to read maps to a `blind` one; each step maps to a step of `KeyStore` or to a stutter. |
| `FileComesIntoForce` (Session_proofs) | `FileInForce` | `WatchInv`: a round of the watcher that has read an older file has been told of the newer one, unless some change was not told; without a running watcher there is neither watch nor notification. |
| `NothingLost` | `Latest` | `FileInv`: whoever writes, writes the last change (`SavesLast`), and, unless an overlapping save failed, the file that the next rename leaves has it or is being written (`RenameLeavesLast`); there is always a free inode. |
| `RulesKept` | `NeverLax` | `ScreenInv`: a buy that was sent was let through with the settings, coin and trade it remembers; lemmas on the narrowing, the cap and the entry with the fee. |
| `ExpiredBuysLapse` (HeliusRetry_proofs) | `ExpiredIsFinal` | `AgeInv`: no cached blockhash outlives one fetched now (`CacheAged`), the one a buy has chosen expires no later than the deadline the loop computes from a later height, everything sent expires with it (`HashAged`), and nothing is sent before (`Nothing`). |

Every safety property of the runs has its theorem. Only model-checked are the
liveness properties (`SlotFreed`, `SendersProceed`, `CallsEnd`, `WorkersEnd`,
`FirstSuccessEnds`, `ListenersProceed`, `BuysDispatched`, `NotificationsEnd`,
`FetchedBuyDispatched`, `Answered`, `BotStarts`, `GoneIsMarked`): the prover handles
neither fairness nor ENABLED.

## What is not modelled

* Parsing of instructions and transactions, instruction building, pool and
  bonding-curve arithmetic: pure functions of bytes and amounts, many of them in
  floating point or 128 bits, without state between two calls.
* Tips and priority fees, and the cache of host names of the QUIC sender.
* The look-ups of `rpc.rs` that a buy makes before it sends (fee recipients,
  creators, metadata, past transactions): `BuyTasks` leaves their outcome open.
* `merge` and `save_to_file` of `settings.rs`, which nothing calls; settings that
  no modelled part reads.
* The least recently used entry that a full cache of lookup tables drops: a miss,
  which `ShredStream` has anyway.
* The token amount of a replayed trade, which is only logged.
* The heartbeat of the WebSocket: a dead connection is a gap (`Miss`).
* Another bot that may write the vault's file: it is not part of this repository.
* Requests to the panel that only read, masking, cryptography.
* Logging.

## Plan

Done: the modules above. First Positions, BuyTasks, SellSide, Trading and the
first proofs; then Swqos, Dispatch, Listeners, CopyEngine, Vault, Startup,
HeliusRetry and QuicSender; then Rpc, PriceFeed, ShredStream, Settings,
PositionFile, Screen and Session.

To come, the most important first:

1. Bonding-curve and pool amounts as integer operators with their rounding.
2. The heartbeat of `ws_listener.rs`, if the copy engine's model can carry it.
