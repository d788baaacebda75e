# Verification of the BlitzkriegBot trading kernel

TLA+ models of the order, persistence, money, pairing, risk, live-execution,
settlement and start-up paths of `core/blitzkrieg_core` and of the polymarket
executor, checked with TLC on small instances; the safety properties of all eight
detailed modules are also proved with TLAPS for all constants. `PROJECT.json` maps every definition
to the source lines it translates and lists the runs, the mutants that show each
property can fail, the findings and the hazards.

## 1. The system

BlitzkriegBot is a trading bot for binary prediction markets. One process holds
a `Core` behind one async lock. Venue extensions ("plugins") run as tasks of
their own, drain work from the core through `MarketHost`, talk to the venue and
report back. Everything durable is a file: append-only JSONL logs (orders,
applied fills, trades, the settlement journal) and snapshots that are rewritten
as a whole (open positions). A start loads and folds these files.

| Component | State | Operations | Interacts with |
|---|---|---|---|
| Order management engine (`ome.rs`) | order rows, live indexes, internal-key index, applied-fill table, buffer of unresolved fills, completion stamps of SELLs | submit, confirm, bind, cancel, reject, force-close, ghost repair, fill ingestion, drain, reset, eviction | called by every service handler |
| Order service (`service/settlement_orders/orders.rs`, `service/risk_admission`) | exit ledger, cooldowns, rejection streaks, the cancel queue | place, accept, reject, time out, apply a fill's effects, escalate | engine, ledger, positions, files |
| Persistence (`order_db.rs`, `position_db.rs`, `trade_db.rs`, `jsonl.rs`) | the files | append, rewrite, load | restart |
| Live bridge (`extensions/polymarket/src/live.rs`) | strikes, sweep clock, redemption queue | per turn: forward cancels, post orders, settle, redeem, merge, deliver events, sweep | core through `MarketHost`, venue |
| Reconciliation (`reconcile.rs`, `service/accounts/reconcile.rs`) | watermark of external fills | ghost repair, missed partials, unanswered placements, external fills, cash realign | snapshot of the venue |
| Settlement (`settlement.rs`, `service/settlement_orders/settlement.rs`) | applied settlements, claims, redeemed ids, watch list, merges | query, resolve, book, close, redeem, merge, expiry fallback, force-close, recover | positions, ledger, journal, bridge |
| Ledger and accounts (`ledger.rs`, `service/accounts`) | balance, reservations, journal with a capped window, audit anchor, venue truth | reserve, settle, charge, realign, detect unexplained cash, audit, replay | orders, fills, settlement |
| Positions | open and closed positions, close credentials | project a fill delta, close, roll back, merge, restore | fills, settlement |
| Risk, admission, freezes, breakers (`service/risk_admission`, `risk.rs`) | kill flag, freeze book with stamps, streaks, the risk-state file | admit, freeze, lift, kill, resume, restore | every entry, every venue report |
| Exit jobs and policy | jobs with backoff | decide, submit, retry | positions, orders |
| Pair book (`pair.rs`, `service/accounts/sweeps.rs`) | leg facts, continuations, chase stamps | declare, bind, observe, chase, flatten | orders, fills, the tick |
| Hedge executor | hedge phases | pair, unwind | orders, fills |
| Data directory lock (`data_lock.rs`) | kernel locks and record files of several directories | acquire, refuse, release | every core that starts |
| Engine cycle, simulation, strategies, market data, klines, shadow evolution, arbitration | numeric state | evaluate, simulate | orders |
| Runtime configuration, IPC, CLI, launcher, UI, other venues | files, sockets | parse, serve | core |

What is hard in this code:

* *Delivery.* The venue reports one trade several times, in several statuses,
  with cumulative sizes that grow or shrink, over two channels, before or after
  the order is known, and again after a restart.
* *Writes in sequence.* One fill or one settlement touches three or four files.
  The process may stop between any two of them.
* *A loop against a moving core.* The executor drops the core's lock around every
  network call, so what it read is old when it acts.
* *Silence.* A POST without an answer, a market that is never resolved, a
  redemption that never reports.
* *Bounds.* The applied-fill table, the cancel queue and the journal window drop
  entries when full.
* *Two sources of cash.* The core's own journal and the venue's report are
  compared at instants at which each may be behind the other.
* *Sweeps that judge by what they see.* The orphan sweep, the escalation and the
  requote of a pair's legs run in one tick over facts of different age.
* *Several processes.* Cores that start together race over directories, locks and
  records.

Correctness, per component: a trade is booked once; at most one live order per
internal key; indexes agree with rows; ended orders stay ended; the log and the
position book agree after any restart; reservations are exactly what live orders
commit and cash equals what the trade records say; a landed pair is kept and a
naked leg does not stay; an operator's freeze is lifted by the operator only and a
restart keeps the posture; one core writes a directory; an order is posted once and ends in the
core when it ends at the venue; a position is paid exactly once and its claim
reaches the account that paid for it.

## 2. Modules

### `Ome` - the order management engine

`orders` is the row table, `liveIndex` and `byInternal` are the hand-maintained
indexes, `applied` with `older` the bounded applied-fill table, `pending` the
buffer, `draining` the batch `drain_pending` works through, `sellTimes` the
completion stamps, `journal` the records the caller has not persisted yet. Each
public method is an action. The arithmetic of a fill (cap at the order size,
floor at zero, FAILED rollback, delta against what the table already holds) is
kept; prices, roles and the escalation clock are not. `reported`, `booked` and
`disowned` are history: what the venue said, what the engine told its caller to
book, and the trades whose entry no longer covers what was booked (evicted, or
rolled back only in part).

### `FillLog` - the engine with its files

Extends `Ome` with the order log, the position book and the applied-fill log,
and breaks `apply_delta_effects` into its writes: position book, order row,
applied-fill journal. `Restart` may fall between any two; it rebuilds the engine
as `restore_orders` and `restore_applied` do (live rows only; the fold over the
log with its evictions) and compacts the log. The trading reset is refused in LIVE
mode and is no step here. `cut` and `torn` are history: the trades a report was
larger than the order it fell to could take, and those a stop caught between two
writes.

### `Bridge` - the executor loop

The loop's phases (startup sweep, cancels, places, events, sweep, orphans,
reconcile) interleave with the core (place, cancel, escalate), with the venue
(accept, execute, accept late) and with crashes. `row` and `disk` are the core's
table and its log, `book` the venue's orders, `events` the user-WS channel, which
loses what does not fit. Every venue call is a step of its own, since the loop
holds no lock during it.

### `Settlement` - from verdict to cash

`watch` is the query list, `book` the `SettlementBook`, `journal`, `snap` and
`trades` the files. `job` is the handler that holds the core's lock together with
its program counter, so that `on_market_resolution`, `run_expiry_fallback_sweep`,
`force_close_expired_position` and `recover_settlements` can be stopped between
two writes although nothing else runs in between. `credited` and `fallback` count
the payments of a position over its two channels; `torn` holds the positions that
were closed in memory but still in the snapshot when the process stopped.
`unverified` is the `source == "fallback"` mark on closed positions. Amounts are
sets of legs, and a claim id `m#k` is the pair `<<m, k>>`.

### `Ledger` and `Cash` - the money of an account

`Ledger` is `ledger.rs` as operators on a record (balance, reservations, durable
journal, row count) with the window of the newest rows that the cash detector
reads. `Cash` composes it with the rows of the orders, the position and its close
credentials, the venue, the external-fill fold with its watermark, the venue's
balance reports (`seed_balance`, the free-cash fold, the realign), the accounting
audit and its entry gate, and a restart that replays the journal and rebuilds
reservations. A sweep takes the venue's trades in any order they may be listed in:
first the missed fills of known orders, row by row and then their effects, then the
manual SELLs, then the manual BUYs. Handlers are atomic here; `FillLog` has the stops inside one, `Ome`
the resolution of reports. `booked`, `leaks` and `seen` are history: how often a
trade was booked, which named departure (a floor, a dropped remainder, the fee of
a rolled back close, an exit without a position) let cash and records part, and
what the venue's cash was at the last report.

### `WriteGate` and `DataLock` - one writer per directory

`WriteGate` is the promise: cores enter and leave, and two that exclude each
other are never in at once. `DataLock` is `DataLock::acquire` system call by system
call (look, create, open, lock, read the owner, read the record, write the record,
or remove and unlock) for several cores, with inodes apart from paths, cores of an
older build that record themselves without a lock, the escape hatch, unreadable
records, failing calls and death at any point. `ImplementsGate` is the refinement:
`writing` is mapped to the cores that serve, `Dirs` to the directories that exist.

### `Pair` - the legs of an arbitrage pair

`core` is one record: the orders by slot (entry, the entry a requote replaced,
escalated, chase, flatten), the positions, the pair book, the escalation and chase
stamps. `Tick` runs the escalation sweep and the orphan sweep in the code's order;
evaluation cycles, fills, cancels and refusals come in between. The strategy trades
a pair in one market, across two venues on one account, or on two accounts.
`bought` and `first` are history.

### `Risk` - the posture and its file

`killed`, `freezes`, `stamps` and the streaks are the `FreezeBook` and the gate,
`cell` the in-memory image of the risk-state file, `disk` the file. `freeze_account_auto`
writes twice, a failed probe freezes several accounts one after the other, a healthy
sweep lifts several, the start after a damaged file freezes all: these handlers are a
`job` of several steps, between which only a crash can come. A stamp is kept as its
age. `held` and `saved` are history: what the operator froze, and which of it a
successful write followed.

### `MC...` - instances

The `MC` modules give the attributes of orders, trades, pairs and cores; the
`.cfg` files give the sets and the bounds.

## 3. Runs

| Run | States | What it shows |
|---|---|---|
| `ome` | 642 k | types and sizes, exact live indexes, one live order per key, a trade booked once, stamped SELL completions, ended orders stay ended |
| `ome_cap` | 32 k | three trades, a table of one: eviction never forgets a trade of a live order |
| `fill_log` | 1.54 M | the log is current, no key is live twice after a restart, the table equals the position book unless a stop tore them |
| `bridge` | 3.17 M | an order is posted once per process, ghosts are really gone, sweeps spare managed orders, the cancel queue stays within its cap |
| `bridge_live` | 178 k | orphans leave the venue's book, vanished orders end in the core, unanswered placements are resolved |
| `settlement` | 426 k | replay rebuilds the book, payouts are owed or paid once, one channel per position, worthless legs join their siblings, closed positions are not traded again, redeemed ids stay retired, everything settles in the end |
| `cash` | 709 k | reservations equal what live BUYs commit, cash equals the trade records, a manual trade is folded once, the detector alerts exactly for cash no fact explains |
| `data_lock` | 275 k | the system calls implement the gate, a serving core keeps its record, a refused or dead core holds nothing, every acquire ends |
| `pair` | 133 k | the pair book hears of every fill, a landed pair is never sold by the sweep, a naked leg out of budget is unwound |
| `risk` | 920 k | an operator's freeze stands, a restart restores the posture, an automatic freeze heals |
| `cash_rebook` | violation | finding 1 |
| `pair_resting` | violation | finding 2 |

**Bounds.** Two orders under one key are the least with which the dedup guard,
the token+side fallback and a replacement can go wrong; both are SELLs of size 2
so that partials, completions and the stamps occur, and a report of 1 or 2 can
grow, shrink and be rolled back (size 4 in `ome_cap`, where an order must stay
live after a trade of it was evicted and reported again; sizes 2 and 1 in
`fill_log`, so that a report of 2 is cut short when it falls back to the smaller
order). Caps of one entry put the table, the buffer and
the queue at their limit at once, where the interesting steps are. One clock tick
is enough for an entry of the buffer to outlive a lifetime of 0. In `Bridge` two
venue ids let an order be posted, lost and posted again; one failure, timeout,
lost event and crash each, in any combination, reach every branch of the loop
(two failures in the liveness run, where a failed snapshot must be retried). In
`Settlement` one account holds a paying and a worthless leg and a second account
another paying one; two attempts per claim allow a retry to race an answer; two
faults allow a partly priced verdict and a lost one; one stop falls between any
two writes, and recovery itself completes after it.

In `Cash` a BUY with a price improvement and a fee, a SELL of a part and a SELL by
hand of the rest make every arm of the projection happen; whole shares leave no
remainder below the venue's grid; a window of two rows is at its cap after two
fills; `MaxEvents` bounds restarts, FAILED trades, silent cash moves, audits and
reports together. In `DataLock` four cores on three directories, one missing at
the start, with overlapping but different orders; four inodes allow one removal
and re-creation; one call fails. `Pair` has one strategy and one round; takers do
not rest; a slot is placed again only after the venue closed the order in it;
`MaxBought` and `MaxDeaths` of one keep one fill and one outside cancel per leg,
which is what the sweep's clauses tell apart; there is no restart, since the pair
book is in memory only, and none of the operator's manual flattening. `Risk` has
two accounts on one venue (so that a freeze is a loop) and a venue without accounts
(so that it kills), thresholds of two, one crash, one failed write, one damaged
file; the wall clock does not step back.

`ome`, `cash` and `data_lock` do not check deadlock: an engine whose orders have
all ended, an account whose trades have all happened and cores that all serve or
died may stop. The other passing runs check it.

**Fairness.** `Ome` and `FillLog` have none: all their properties are safety.
`Bridge`: weak fairness of the loop, a task the runtime keeps scheduling, and
strong fairness of the sweep that retires an unanswered placement, since an
order that is swept again and again is past its 30 s budget sooner or later. The
core, the venue's matching and crashes have none. `Settlement`: weak fairness of
the handler that holds the lock; strong fairness of the query drain, of the
redemption drain and of the two reports, because each happens in every turn of
the loop (or in a task it spawned) and the async lock is a fair queue, while
other handlers may take the lock in between; weak fairness of the venue's
resolution, without which no code can settle a position. Faults are bounded,
which stands for the assumption that a venue does not fail for ever. `DataLock`:
weak fairness of each core's acquire, which is straight-line code; nothing makes a
core die. `Pair`: weak fairness of the tick, which the core's timer drives, and of
the venue's answer to a cancel; the asks may be anything, and `NakedLegUnwound`
asks only for behaviours in which the counterpart stays out of budget. `Risk`: weak
fairness of a handler's steps, of the start after a crash and of the clock; strong
fairness of a successful sweep, since the loop retries it for ever and the lock is
handed out in order. `Cash` has none.

## 4. Findings and observations

Findings, each with a run that shows it:

1. `cash_rebook`: the sweep tells a known trade from a manual one by the venue id of
   an order row alone. A fill of an order whose acknowledgement was lost is booked
   through the token and side fallback and a second time as a manual trade;
   `reconcile.rs:116` says a fill the WS already booked is a no-op.
2. `pair_resting`: the clause that spares a leg whose counterpart is arriving looks
   for the other outcome of the same market. For a pair across two venues it finds
   nothing, and the sweep buys the counterpart a second time or sells the first leg;
   `sweeps.rs:138` says such a leg is not orphaned.

Observations. The first ten are stated as properties at the end of their modules
and do not hold; adding the name to the module's `.cfg` (as a property or an
invariant) makes TLC show the behaviour, in the instance a bullet names if it
names one.

* `FillLog!NoRebookAcrossRestart`: the position book is saved before the
  applied-fill journal, so a stop in between lets a re-delivered trade be booked
  again.
* `FillLog!EvictionOrderInLog`: an entry of the applied-fill table keeps its sequence
  number when it is updated, but `restore_applied` numbers it by its last record, so
  after a restart a full table evicts another key than before; `ome.rs:448` says it
  evicts in exactly the order the original would have (`OrderIds = {o1}`,
  `Trades = {t1, t2}`, `SizeOf <- AllFour`, `AppliedCap = 2`, `LogBound = 3`).
* `Bridge!OldGoneBeforeNew`: cancels and orders are drained under two separate
  locks; an escalation between them posts the replacement before the old order's
  DELETE.
* `Bridge!FailedCancelsSwept`: a queued cancel that fails is not queued again, and
  the sweep skips every id the core has ever known (`MCBridgeLive.cfg`).
* `Bridge!TimedOutNeverResent`: the verdict that a POST timed out is not written to
  the log, so a crash makes the order look unsent.
* `Settlement!ClaimsAttributable`: claim ids count redeemed claims only, so the
  second and the third account of a market can share one (`MCSettlement.cfg` with
  `Accounts = {a, b, c}` and the position `pc`; two accounts are too few).
* `Settlement!FinishedBeforeTrading`: the Closed line is written before the
  snapshot, so a stop in between leaves a settled position open, which recovery
  skips.
* `Cash!StaleReadNeverHalts`: one balance report taken before a BUY is read by two
  audits after it, counts as two mismatches and halts entries; `audit.rs:208` says a
  single stale read must not.
* `DataLock!OneWriterEverywhere`: a refused core removes the directory it created
  before it unlocks it. A core that had it open gets the lock of the removed inode,
  a third one the lock of the new one (instance `FreshAnchors`, with `d1` the only
  directory that exists and `legacy` serving it).
* `Risk!LiftedKillStaysLifted`: a trading reset resumes the gate in memory but leaves
  the kill in the risk-state file, so the next start of a dry core is killed again;
  `trading_reset.rs:952` says the cell is cleared.

Read along the way, outside the properties:

* Orders: SELL completion stamps do not survive a restart (`service.rs:829`); the id
  counter restarts past the live orders only (`freeze.rs:302`); `confirm_live` logs
  the row before it arms the escalation clock (`orders.rs:108`).
* Settlement: a verdict for a market the fallback emptied returns before the backfill
  (`settlement_orders/settlement.rs:137`); the settlement key has no account
  (`settlement.rs:138`); legs join a claim while it is being redeemed
  (`settlement.rs:264`); a merge is journalled before the snapshot (`exits.rs:931`).
* Cash: after a restart the detector's cursor is zero and its first report may alert
  for rows of the previous run; a FAILED rollback never returns the fee; a taker's
  fee is not reserved.
* Pair: a chase that the checks refuse re-stamps the window every tick, so the
  flatten waits as long as the walk stays feasible; the fill of a chase of a leg that
  is bound already is not counted; a landed pair split over two accounts reads as two
  orphans; a FAILED trade never lowers a leg's `filled_shares`.
* Data lock: cores that share two directories can refuse each other; a failed write
  of a later record leaves the earlier ones.
* Risk: a crash between the two writes of an automatic freeze leaves it without a
  stamp, so only the operator can lift it; the start after a damaged file writes one
  account at a time, and a crash in between leaves a file that parses and freezes
  only the accounts written so far. The retraction of a closed trade restores a loss
  streak that forgets losses recorded since.

## 5. Proofs

Each theorem holds for every value of the constants that satisfies the named
`ASSUME`s of its module. Those say of what kind the constants are: attributes are
functions, bounds are naturals, sets that are counted (trades, claims, the
directories that exist) are finite, and marks such as `NoOrder` are none of the
values they are told apart from. `DataLock` assumes in addition what a start-up
finds: an anchor list names no directory twice, cores of the older build have
recorded themselves in directories that exist, and there is an inode for each of
those. `Cash` assumes that the venue never matches more of an order than its size,
which is the venue's part of the protocol. TLC evaluates all of them on the instances it checks. Every inductive
invariant below was checked by TLC on the run's instance before it was proved.

| Module | Theorem | Statement |
|---|---|---|
| `Ome_proofs` | `TypeCorrect` | `TypeOK`: types, and filled within 0..size |
| | `LiveIndexNeverDrifts` | `LiveIndexExact` |
| | `DedupGuard` | `OneLivePerKey` |
| | `Idempotency` | `BookedOnce` |
| | `SellsStamped` | `CompletedSellsStamped` |
| | `TerminalAbsorption` | `NeverResurrected`, an action property |
| | `CapSparesLive` | `LiveTradeBookedOnce`, if every report names its order and no trade fails (`NamedReports`) |
| `FillLog_proofs` | `LogTypeCorrect` | `LogTypeOK` |
| | `RowsAreCurrent` | `RowsCurrent` |
| | `OneLivePerKeyRestored` | `OneLivePerKeyAcrossRestart` |
| | `TableIsBook` | `TableMatchesBook` |
| `Bridge_proofs` | `TypeCorrect` | `TypeOK`, the cap of the cancel queue included |
| | `NeverPostedTwice` | `PostedOnce`, an action property |
| | `GhostsOffTheBook` | `GhostsAreGone`, an action property |
| | `ManagedOrdersSpared` | `SweepSparesManaged`, an action property |
| `Settlement_proofs` | `JournalRebuilds` | `ReplayFaithful` |
| | `OwedOrPaid` | `PaidOnce` |
| | `PaidOverOneChannel` | `OneChannel` |
| | `IdsRetired` | `RedeemedIdsRetired` |
| | `PayingLegsFirst` | `LegsTogether`, an action property |
| | `NoSecondTrade` | `ClosedNotRetraded`, an action property |
| `DataLock_proofs` | `NothingLeftBehind` | `RefusalLeavesNothing` |
| | `RecordKept` | `LiveOwnerKeepsRecord`, an action property |
| | `GateImplemented` | `ImplementsGate`, the refinement of `WriteGate` |
| `Risk_proofs` | `TypeCorrect` | `TypeOK` |
| | `FreezeStands` | `OperatorFreezeStands` |
| | `PostureOnDisk` | `PostureRecorded` |
| `Pair_proofs` | `EveryFillTold` | `FillsReachTheBook` |
| | `LandedPairSafe` | `LandedPairKept`, an action property |
| `Cash_proofs` | `TypeSafety` | `TypeOK`: balance and reservations are naturals |
| | `ReservationsSafe` | `ReservationsExact` |
| | `CashSafe` | `CashIdentity` |
| | `ManualSafe` | `ManualFoldedOnce` |
| | `DetectorSound` | `DetectorExact`, an action property |

Every module also has the theorem that its inductive invariant holds
(`Invariance`, `LogInvariance`, `BookInvariance`, `CashInvariance`), and one lemma
per action or group of actions.

**`Ome`**: `IInv == CoreInv /\ TableInv /\ BufferInv`.

* `OneLivePerKey` is not inductive: `HasPending` looks only at the one order the
  index remembers for a key. `KeyGuard` adds that a live order *is* the one its
  key remembers; `LiveIndexExact` and `RowsIssued` make that survive submissions
  and resets.
* `CompletedSellsStamped` needs `RowsIssued`, which says that no order was
  submitted after the current instant.
* `BookedOnce` compares two histories. `TableCovers` puts the table between them:
  what was booked is at most what the table holds, which is at most what was
  reported, as long as the table has not disowned the trade. Buffered reports are
  applied later, so `BufferInv` says the same of the buffer and of the batch being
  drained.

* `LiveTradeBookedOnce` says that the cap on the table does not make a trade of a
  live order count twice. It is not true of every channel: a report without an order
  id may be attached to another order of the same token and side, whose end then
  exposes the entry to eviction, and a FAILED report rolls back no more than the
  order still holds. `NamedReports`, the hypothesis of the theorem and what
  `ome_cap` instantiates, excludes these two. `OwnInv` then adds to `IInv` that the
  entry of a trade is attached to the trade's own order while that order is live
  (`Attached`), which is what `remember` looks at when it evicts; `Unplaced` and
  `BufferPlaced` say that nothing is known of a trade before its order is registered,
  so that a registration cannot bring an order to life under an old entry.

**`FillLog`**: a stop breaks what `Ome` proves about the table (what was booked may
exceed what the restored table holds), so only `CoreInv` and the types are taken
over, and the rest is rebuilt from the files.

* `RowsLag`: a row differs from its order only while a delta of the order has its
  row still to be written. `RowsSound`: every row on disk, the stale ones included,
  is one the engine can be rebuilt from, with its key pointing at it if it is live.
* `TableInLog`: the log followed by the journal folds to the table. The fold is
  stated as the last record that names a key (`FoldIs`), so that an append changes
  it for the keys the record names and no other (`FoldAppend`), and the compacted
  log has the same one (`CompactedFolds`).
* `Chain`: the deltas still to be written lead from the position book to what was
  booked, through one intermediate book per delta.
* `BookInLog`: where a trade's deltas have not touched the position book, the book
  holds what the log alone says. This is what a restart needs; `HalfWritten` are
  exactly the trades for which it may fail.

**`Bridge`**: `PostSound` and `PostedSound` tie what was posted to what the drain
would still show: an order that was posted is in flight, or is bound, ended or
flagged; `BatchSound` is about the batch the loop took before it dropped the lock.
`DiskSound` keeps the log in step with the rows, so that a restart cannot unbind an
order. `SweepSound`: while a sweep works off its snapshot, a managed order that
rests is in the snapshot, and none of the ids it is about to cancel is bound;
`BoundSound` (only ids the venue gave out are bound) keeps this when an order is
bound in the meantime.

**`Settlement`**: `ReplayFaithful` is proved for a journal of any length: two
recursive folds over sequences that agree on a prefix agree there, by looking at
the least index at which they would differ. `LegsSound` and `RecordsSound`: a
settled position is a leg of the claim its record names until that claim is
credited, and then never again. `CountSound` and `IdsSound`: the next ordinal of a
market is one no redeemed claim has, and there is one left for every position.
`JobSound` carries the facts a handler relies on from one write to the next,
`BirthSound` says that nothing happened to a position before it was opened, and
`ChannelSound` that an open position no stop has torn was not closed yet, so that
only one channel can still pay it.

**`DataLock`**: a core that did not ask for sharing and is not refused so far has
the kernel lock of every existing directory it has decided (`LocksHeld`), on the
inode the path leads to (`PathsSound`, `HandleSound`, `NewSound`); its claims are
the locks it has (`ClaimsExact`, `StepsSound`); while an older core serves, its
records stand and whoever decided one of its directories was refused or shares it
(`LegacyKept`, `RecordsSound`). The step to `serve` is then a step of the gate; the
others leave `writing` alone or shrink it.

**`Risk`**: `Mirror` (the cell is the book, also inside handlers that write several
times; the file is the cell while the last write landed) and `Promise` (what the
operator froze is frozen and unstamped in the book, and in the file from the first
write that landed).

**`Pair`**: a tick is a chain of sweeps over one record, so the invariant is a
predicate of the record (`Kept`) that every part of every handler keeps. `Shown`:
while the round's first pair is open, a leg that was not chased is either
`Untouched` (nothing was bought or offered of it, and the book has neither key nor
fill) or `Told` (the book has it under the key of its entry, the escalation's
continuation leads back to that key, and it shows what was bought). A fill of any
slot then resolves to the leg's key. `Tidy` says that a slot without an order has
nothing to fill. `LandedPairKept` follows the sweep: it places a SELL in one arm
only, behind the test that the other leg is not held, and the escalation sweep that
runs before it in the same tick cannot make or unmake a position.

**`Cash`**: `IInv` has six parts.

* `RowsOK`: the filled size of a tracked row is the sum of its applied trades. With
  `MatchingAssumption` (the venue never matches more than an order's size) no fill is
  cut and no rollback floored, so a rollback takes back what the fill gave.
  `Placed`: applied trades belong to placed orders.
* `Fine`: the ledger's last row holds its balance, so that a replay finds it; a
  close credential's net is that of the row it would restore plus its trade's cash;
  without a departure in `leaks`, cash less realized less the open position's net is
  what the venue's corrections add up to; and (`Past`) the journal still begins with
  the rows it had when the cursor of the cash reports was set, and the cursor counts
  the rows since.
* `Exact` (reservations are what the rows commit), `Once` (the watermark has passed
  every manual trade that was folded in) and `Types`.

`DetectorSound` reads `Past` at a report: the rows of the window above the cursor
are the journal's rows since the cursor was set, or some of those were evicted and
`EvidenceGap` says so. Sums over finite sets and over sequences, and the folds of a
sweep over the venue's lists, are recursive functions; that they exist and what one
more element does to them is proved from the least element at which it would fail
(`LeastNatural`, `FiniteDescent`, `UpTo`), since the library's induction schemes
cannot be instantiated by these provers.

**Only model-checked**: liveness, which is out of TLAPS's reach here (the three
properties of `bridge_live`, `AllSettled`, `AcquireEnds`, `NakedLegUnwound`,
`AutoFreezesHeal`), and the violations of section 4.

## 6. Not modelled

The repository has 147 000 lines of implementation; the models follow the parts in
which order, failure or concurrency decides what is right, and these are a small
share of it. Left out:

* *Numeric and sequential code*: strategies and the foreign-strategy runtime, exit
  policy, execution policy, the backtester and the paper fill model, market data,
  klines, the scanner, shadow evolution, arbitration between strategies. One call
  maps inputs to outputs; there is no interleaving and no fault for a model to
  explore, its state spaces are decimals and price series, and the repository
  compares them with recorded replays. These are most of the lines.
* *Parsing, formatting and plumbing*: configuration, command line, launcher, IPC
  dispatch and schema, user interfaces, the other venues' wire protocols.
* *Parts of modelled components*: merges, dry-mode verdicts and the blind alert
  (`Settlement`); redemption and funding credits and more than one account (`Cash`);
  the views for strategies and several pairs at once (`Pair`); the numeric admission
  gates, systemic and virtual limits, the loss breakers and the daily-loss book
  (`Risk`); path canonicalisation (`DataLock`); the reset of ledger, positions and
  files.
* *Planned and not yet done*: the hedge executor, exit jobs with their backoff.

## 7. Plan

1. *Hedge executor*: two-leg phases, timeouts and unwinding.
2. *Merges* in `Settlement`, and the journal/snapshot order of a merge.
3. *Exit jobs*: retry, backoff and the residual backstop.
4. Abstract specifications of booking ("each venue trade moves the position once")
   and of settlement ("each position is paid once, over one channel"), implemented
   by `FillLog` and `Settlement`.
