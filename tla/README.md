# Metis bridge faucet: TLA+ models and proofs

The program watches the L2 bridge contract of Metis, records every deposit that
arrives from L1, and gives the recipient of a deposit of some value a small
amount of METIS (a *drip*) if the account is still empty, so that it can pay
for its first transactions. It is one Go process with a MySQL database, an RPC
endpoint and a price service. Paths below are relative to `src/`.

## 1. Inventory

| Component | Code | State it keeps | Operations |
|---|---|---|---|
| Supervisor | `main.go`, `docker-compose.yml` | flags, two contexts, errgroup | start, signal, one loop per goroutine, exit, restart by docker |
| DataSync | `internal/services/datasync.go` | `height`, the next block to copy | `Prefight`, `tryToSync`, `syncWithRange`, `formatEvent` |
| Sync repository | `internal/repository/dbsync.go` | table `height` (one row), inserts into `deposits` | `InitHeight`, `SaveSyncedData` |
| Faucet | `internal/services/faucet.go` | `nonce`; `recset` during a pass | `Initial`, `SendDrips`, `shouldTransfer`, `makeDripTx`, `CheckDrips`, `getTxStatus` |
| Faucet repository | `internal/repository/faucet.go` | tables `deposits`, `drips` | `GetDepositTxStream`, `HasGotDrip`, `NewDrip`, `GetPendingDripsStream`, `UpdateDripStatus` |
| Streams | same file | a goroutine and a channel of five rows per query | producer, consumer, cancellation |
| Schema | `datamodel.go`, `migrations/` | columns, primary keys | |
| Price client | `internal/utils/uniswap.go`, `internal/graphql/` | | `GetTokenPrice` |
| Amounts | `internal/utils/ether.go`, `bigint/big.go` | | `Readable`, `ToWei`, `ToEther`, JSON and SQL conversions |
| Constants | `internal/utils/address.go`, `chainId.go` | token tables | |
| Contract bindings | `internal/goabi/` | the iterator of a log query | generated: `FilterDepositFinalized`, `Next`, `Close`, `Decimals` |
| L2 node | external | pool, chain, accounts | `NonceAt`, `BalanceAt`, `CodeAt`, `SendTransaction`, `TransactionReceipt`, `FilterLogs` |

**How they interact.** The two goroutines share nothing in memory. The syncer
inserts rows into `deposits` and writes `height`; the faucet moves the status of
those rows (`unprocessed` → `ignore`, or `unprocessed` → `processing` → `done`)
and inserts into `drips`. The node is called by both, and changes the faucet's
world on its own: transactions are mined or forgotten, and recipients use their
accounts at any time. A goroutine keeps only a small copy of durable state:
DataSync the next height, Faucet the next nonce.

**What is hard.**

- The two copies in memory against the tables and the chain, when a call fails,
  when a commit succeeds but its answer is lost, and when the process dies
  between two calls and starts again.
- Write-ahead: a drip is stored before it is sent, so sending may fail or be
  repeated and the checking pass must make up for it.
- Nonces: they must be unique or one of the two drips dies, and without gaps or
  everything behind the gap waits for ever.
- The recipient's account is looked at by three calls while it lives on.
- Deposits of one user in the same page, in later pages, and duplicated rows.
- Two goroutines in every query: a producer that may be blocked on a full
  channel and a consumer that may leave early; the same in the log iterator,
  which waits for a log and for the end of the subscription at once.
- Two contexts in one process: a failure cancels one, a signal both, and a
  `select` with two ready cases takes either.
- Block ranges: inclusive at both ends, resumed at the recorded height plus one.
- Transactions whose `Rollback` is never reached: they end when a goroutine of
  `database/sql` has noticed that their context is done, some time after the call.
- Replies that lack parts, integers that do not fit, flags that are no number.

**What makes each component correct.** Syncer: every event is recorded up to
the recorded height and none above it, and progress never stops while it can be
made. Faucet: an address gets at most one drip, out of one deposit; the status
column and the drips table agree; a drip reaches the node only after it is
stored; a deposit is closed only after its transaction was executed; nonces are
unique and dense; every deposit is judged, every drip that is not dead is
confirmed. Streams: a row comes once and in order, silence means that all have
come unless something went wrong, and producer and connection are freed.
Supervisor: an end after a failure is reported as one, a failure or a signal
ends the process, docker brings it back. Codec and valuation: what is written is
read back, no verdict rests on an incomplete price, no drip pays nothing. The
whole: neither goroutine breaks what the other one promises. The `hazards` of
`PROJECT.json` list, line by line, what can break these.

## 2. Modules

| Module | Models | Uses |
|---|---|---|
| `DataModel` | the rows of `deposits` | |
| `FaucetRepository` | the statements of `repository/faucet.go` | `DataModel` |
| `L2Node` | the node (external) as `faucet.go` sees it | |
| `Faucet` | the faucet goroutine with its environment | `FaucetRepository`, instances of `L2Node` and `DripLedger` |
| `DripLedger` | abstract: what the faucet promises | `DataModel` |
| `SyncRepository` | the statements of `repository/dbsync.go` | `DataModel` |
| `DataSync` | the sync goroutine with its environment | `SyncRepository` |
| `RangeCopy` | `syncWithRange` call by call, with the log iterator, the goroutine behind it, the transaction and its rollback | `DataSync` |
| `BridgeFaucet` | the whole process: both goroutines over one table | `Faucet`, instances of `DataSync` |
| `Supervisor` | `main.go`: start, errgroup, signals, loops, exit, docker | |
| `RowStream` | the goroutine and the channel of a streaming query, with the pass that ranges over it | instance of `PageCursor` |
| `PageCursor` | abstract: what a pass may expect of a stream | |
| `BigInt` | `bigint.Int`: constructors, JSON and SQL conversions | |
| `Valuation` | the value of a deposit and of the drip: price service, decimals, `Readable`, `ToWei` | |
| `MCFaucet`, `MCDataSync`, `MCRangeCopy`, `MCBridgeFaucet` | small instances for TLC; the other modules are given their constants in a configuration | |
| `FaucetProofs`, `DataSyncProofs`, `RowStreamProofs`, `SupervisorProofs`, `BigIntProofs`, `ValuationProofs` | theorems about the module of that name | |
| `RangeCopyProofs` | theorems about `RangeCopy` | `DataSyncProofs`, whose theorems it carries over |
| `BridgeFaucetProofs` | theorems about `BridgeFaucet` | `FaucetProofs`, likewise |

The same code may be modelled twice, at two grains: `Faucet` takes its stream as
a set of rows, and `RowStream` shows with `PageCursor` that it may;
`DataSync` copies a range in two strokes, and `RangeCopy` shows that the calls
amount to them; each goroutine has an environment of its own that stands for the
other one, and `BridgeFaucet` shows that the other one stays within it.

### Faucet

The goroutine is a program counter `pc` that names the call it is about to
make, and the locals of the pass: `page` (the rows of the stream not consumed
yet), `item`, `recset`, `probe` and `tx`. `nonce` is `Faucet.nonce`.

| Code | Actions |
|---|---|
| `Initial` (36-45) | `Initial`, `InitialFails` |
| `tryToSendDrip` (55-106) | `StartSending`, `TakeDeposit`, `EndSending`, `SendingFails` |
| `shouldTransfer` (108-176) | `JudgePasses`, `JudgeRefuses`, `ProbePasses`, `ProbeRefuses` |
| `makeDripTx` (178-202) and `recset` | `DripTx`, `MakeDripTx` |
| `NewDrip` and `nonce++` (94-99) | `SaveDrip`, `SaveDripUnacknowledged`; refusal: `IgnoreDeposit`, `IgnoreDepositUnacknowledged` |
| `SendTransaction` (100-102) | `SubmitDrip`, `SubmitDripFails` |
| `tryToCheckDrip`, `getTxStatus` (212-247) | `StartChecking`, `TakeDrip`, `GetTxStatus`, `ResendDrip`, `ConfirmDrip`, `ConfirmDripUnacknowledged`, `EndChecking`, `CheckingFails` |
| process death, docker's restart | `Crash`, `Restart` |
| the syncer | `Synced`, `DepositsSynced` (a range's rows at once, `unprocessed` or born `ignore`; the same event again after a lost answer) |
| the chain and its users | `MineNext`, `NodeActivity` (`EvictDrip`, `AccountActivity`) |

Two calls are one step only when nobody else can change what the second reads:
the checks of `shouldTransfer` before the first look at the chain read what this
goroutine alone writes (`drips`, `recset`), flags, or an unrelated price. A
token without a pair or without decimals (`Unpriceable`) is an error each time,
not a refusal: it ends every pass that meets it. The
three looks at the recipient (`Probes`) are three steps. `makeDripTx` reads the
gas price and an estimate, which the properties do not tell apart; it can fail,
like every call (`SendingFails`).

A write has three outcomes: done and reported, not done and reported as failed
(the `...Fails` actions), done but reported as failed (`...Unacknowledged`).
`HasGotDrip` keeps the code's name although it is true when the address has *not*
got one. A stream that is cut off, by an error or silently when the pass's five
minutes are over, is `SendingFails` or `CheckingFails` between two rows: the
rest of the page is dropped either way.

`NewDrip` is one step: a failed one has no effect. In the code its transaction
stays open for a while, because the deferred `Rollback` is never reached (the
errors shadow the variable it tests) and the callers only cancel its context as
they return. What that means is explored in `RangeCopy`, for the transaction of
`SaveSyncedData`, which has the same shape. `NewDrip` is left atomic because the
rows it locks, a new drip and the status of one deposit, are written by nobody
but the faucet's own goroutine: a left transaction can only make a later
write wait and fail, and that failure is `SendingFails`.

### DataSync

`height` is `DataSync.height`, `number` the row of the `height` table.

| Code | Actions |
|---|---|
| `Prefight`, `InitHeight` | `Prefight`, `PrefightFails` |
| `tryToSync` (46-67) | `BlockNumber`, `StartRange`, `EndRun` |
| `syncWithRange` (69-122), `formatEvent` | `FilterEvents`, `SaveRange`, `SaveRangeUnacknowledged`, `RunFails` |
| process death (external), restart, the chain | `Crash`, `Restart`, `NewBlock` |

The goroutine's own copy of the height falls behind the table after a commit
whose answer was lost; the range is then copied again, with another end if the
chain has grown. An event whose `uint256` amount does not fit `decimal(64,0)`
(`Unstorable`) makes its range fail every time.

### RangeCopy

What is one `FilterEvents` and one `SaveRange` in `DataSync` is here the code's
sequence of calls.

| Code | Actions |
|---|---|
| `syncWithRange` up to the query (69-104) | `Call`, `HeaderByNumber`, `CallFails` |
| `FilterDepositFinalized` | `FilterDepositFinalized`; the library's goroutine: `HandOver`, `SubscriptionEnds` |
| `Next`, `Error` of the iterator (`L2StandardBridge.go`) and the loop's body | `NextLog`, `NextHearsEnd`, `NextEnds`, `NextFails` |
| `SaveSyncedData` | `BeginTx`, `Insert`, `InsertRefused`, `UpdateHeight`, `CommitAnswered`, `CommitUnanswered` |
| `defer iter.Close()` | `Close` (tell the goroutine to quit), `Closed` (it is gone) |
| `defer cancel()` | `Return` |
| the minute is over, or the end was called | `Expire` |
| `Tx.awaitDone` of `database/sql` (external) | `RollBackOpen`, `RollBackLeft` |

A call that fails leaves `tx` open. `Return` does no more than to cancel: the
transaction moves to `left`, the transactions that earlier calls have left open,
and `RollBackLeft` takes it away some time later, while the goroutine waits, copies
another range, or after the process was started again (`CrashInCall` leaves the
transaction too: the database rolls back when it sees the connection close). Of a
left transaction the module keeps whether it has the row of `height` locked and
whether it is `doomed`, its context being done. `UpdateHeight` waits while one has
that row locked, or fails of it (`CallFails`). When the context ends during the
call (`Expire`, which clears `live`), `database/sql` may roll back between two
statements (`RollBackOpen`); the next call that looks at the context fails. `Next`
does not look at it.

The module extends `DataSync`: every step is one of `DataSync`'s on its variables
or leaves them alone. Outside of a call these are `DataSync`'s own actions
(`Outside`), with the death of the process (`CrashInCall`) and the growth of the
chain (`BlockArrives`) beside a call in progress. `ImplementsSync` is `DataSync`'s
specification *with its fairness*; `found` and `pc` change when the iteration
ends, and row by row inserts become visible at the commit only.

### BridgeFaucet

The module extends `Faucet`, and `Syncer` is an instance of `DataSync` over the same
`deposits`, with a program counter and a count of faults of its own.

| Code | Actions |
|---|---|
| sync goroutine (`main.go` 91-113) | `SyncLoop`, and `Commit` where it writes `deposits` |
| faucet goroutine (115-157) | `DripLoop` |
| an error of either start ends both (159-161) | `StartFails` |
| process death, docker's restart | `Die`, `ComeBack` |
| the chain and its users | `Mine`, `World` |

Every step is one of the syncer or of the faucet. They share the death of the
process and its restart. Two refinements say that they do not disturb each other: `ImplementsSync`, under a
mapping that shows the rows as they were inserted (the faucet changes nothing
but their status), and `ImplementsFaucet`, in which the syncer's commit is the
environment's step `DepositsSynced`. `DripsAreDue`, `TransfersAreDue` and
`EveryEventIsSettled` follow an event from the bridge to the drip and to the
money through both of them. The last one names what the code cannot get past:
`NeverRecorded`, an event that cannot be stored lies before this one or in a range
with it, and `JudgingBlocked`, this one waits for its judgement together with a
deposit whose token has no price or no decimals.

### Supervisor

`main` is the call the main goroutine is about to make (`dial`, `chainId`,
`connect`, then `wait` for the errgroup) or how the process ended. `stopped` is
`basectx` being done, `stopped \/ failed` is `egctx` being done. Each loop is a
record: where it is, whether its timer is ready, how many runs it began `late`.

| Code | Actions |
|---|---|
| dial, chain id, tables | `Start`, `StartFails` |
| `signal.Notify` goroutine | `Notify`, `Signal` |
| sync goroutine (91-113) | `Prefight`, `SyncStops`, `StartRun`, `EndRun` |
| faucet goroutine (115-157) | `Open`, `FaucetStops`, `StartPass`, `EndPass` |
| timers | `TimerFires` (not fair) |
| `eg.Wait` and the exit | `Wait` |
| death, docker | `Die`, `Restart`, `StaysDown` |

A run of the syncer works on `basectx`: when the faucet has failed, the run goes
on to its end before the loop notices (`EndRun` does not look at the contexts).

### RowStream and PageCursor

The producer's steps are `Query`, `NextRow`, `RowsEnd`, `Offer`, `Finish`, the
consumer's `Receive`, `Work`, `RangeEnds`, `Return`; `Expire` is the end of the
pass's context. `rows.Next` may be false before the last row, and nobody asks
`rows.Err` why: `upset` is the history variable that remembers it.
`ImplementsCursor` therefore promises completeness only when nothing was upset.

### BigInt

Variables are pointers to cells. The operations of `big.go` are the actions, and
a text is taken apart as far as the code looks at it: quotes, prefix, rest.
`Copy`, `ToInt` and `FromBigInt` differ in what they share. `ReadBack` is about what
`Value` and `MarshalJSON` write and `Scan` and `UnmarshalJSON` read.

### Valuation

One deposit on its way through `shouldTransfer`: `AskRate` (`GetTokenPrice` over
the GraphQL client), `AskDecimals`, `Compare` (`Readable` and the threshold); and
the flag `-drip` on its way through `main` (`Asked`), `ToWei` and `Initial` (`Start`).
A flag may be no number: NaN and +Inf pass the test of `main`, `SetString` refuses
what `ToWei` prints of them, and `Initial` has the last word (-Inf is taken for
not positive by `main` already, like zero). The
initial states range over every shape of the price service's reply.

### DripLedger

The promise without process, nonce or node: a deposit is judged once, an address
is granted at most one drip, a granted drip is executed at most once, a deposit
is closed only after that. `Faucet` implements it under the mapping

    book <- deposits, granted <- {<<t.pid, t.to>> : t \in drips},
    executed <- {t.pid : t \in mined}

Every step of the faucet that is not a step of the ledger is a stutter: the
calls that only read, the submissions, the failures and the crashes.

### Variants

Next to some definitions stands one whose comment begins "Variant with a bug"
(`GetTxStatusKnownIsDone`, `BehindAFullRange`, ...). Nothing uses it. Putting it
in the place of the definition after it makes the property that
`PROJECT.json` names under `mutants` fail: this is how each property is known to
depend on the code.

## 3. Runs

| Run | Configuration | Shows |
|---|---|---|
| `faucet_drips` | 3 users, 3 rows, page 2, 2 faults, quiet accounts; 664,759 states | `TypeOK`, `OneDripPerAddress`, `StatusMatchesDrips`, `WriteAhead`, `NoNonceGap`, `NoncesUniqueUnlessBehind`, and `ImplementsLedger` |
| `faucet_accounts` | 2 users who use their accounts, 2 rows, 1 fault; 372,810 states | `DripsGoToFreshAccounts`, `DoneMeansExecuted` |
| `faucet_live` | 3 users, 3 rows, one deposit too old, one without a price, 2 faults, fairness; 37,459 states | `EveryDepositIsJudged`, `EveryLiveDripIsConfirmed` |
| `faucet_restart` | 2 users, 1 fault | *violated:* `TransferedBefore` (below) |
| `sync_copies` | 5 events in 7 blocks, the last one not storable, ranges of 2, 3 faults, fairness; 18,522 states | `TypeOK`, `HeightTellsWhatIsRecorded`, `DuplicatesNeedLostAcks`, `MemoryNeverAhead`, `HeightNeverFalls`, `EveryEventIsRecorded` |
| `sync_range` | `-range 20`, 41 blocks | *violated:* `RangeAtOnce` (below) |
| `range_copy` | 4 events, three of them in one block, one not storable, 3 blocks, a channel of 1, 2 faults, fairness; 119,212 states | `CallTypeOK`, `NoGoroutineIsLeft`, `EveryTransactionEnds`, `ImplementsSync` |
| `bridge_faucet` | 5 events of 2 users: one old, one of METIS, one due, one without a price, one not storable; 5 blocks, ranges of 1, 6 rows, 1 fault, fairness; 91,574 states | `DripsAreDue`, `TransfersAreDue`, `ImplementsSync`, `ImplementsFaucet`, `EveryEventIsSettled` |
| `supervisor` | 3 faults (failures, signals, deaths), with and without the faucet, fairness; 2,766 states | `TypeOK`, `ExitTellsWhy`, `AtMostOneMore`, `ProcessEnds`, `ComesBack` |
| `rowstream` | pages of 0 to 8 rows, a channel of 5, failures and expiry anywhere, fairness; 64,825 states | `TypeOK`, `ReceivedInOrder`, `NoGapWhileLive`, `ImplementsCursor`, `PassEnds`, `StreamIsReleased` |
| `bigint` | 3 variables, 3 cells, 2 numbers; 16,180 states | `ReadBack` |
| `valuation` | every shape of a reply, 6 amounts around the width of an integer of 5 bits, 2 decimals, 3 prices, 7 flags, one no number; 269,640 states | `VerdictIsRight`, `DripIsAsked` |

**Bounds.** Three rows are enough for a page that does not hold all of them, for
two deposits of one user next to another user's, and for a duplicated row; two
faults are enough for a failure or a lost answer followed by a crash, the
shortest ways to two drips with one nonce. `MaxFaults` counts crashes, failed
calls, lost answers and evictions together. The accounts run is separate because
the outside activity multiplies the states and none of the other properties
reads an account. In the syncer's runs two events share a block that ends one
range in some interleavings and begins one in others, one event lies in the
block the last range may stop at, and one block beyond it is empty. In
`range_copy` a block has more events than the channel has room for, so that the
library's goroutine blocks, and a range may hold storable and unstorable rows
together; two faults are enough for two left transactions, for an `UPDATE` that
waits for the row one of them has locked, and for a crash beside an open one. In
`bridge_faucet` one fault is a crash of both or a lost answer of either; four of the
events can be recorded, and two rows more leave room for a range copied
twice: the deposit that is due may be recorded twice, and judged a second time
while its drip still waits in the pool. Events 2 and 3 share a block, and ranges
are of one block (`RangeSync = 0`), so that the unstorable event has a range of its
own and the unpriceable one before it is recorded and blocks the judging; ranges
that hold storable and unstorable events together are those of `sync_copies` and
`range_copy`. The recipients are quiet there (`Active = {}`): `faucet_accounts`
has them use their accounts, no property of this run reads an account, and the
theorems `ProcessIsFaucet` and `ProcessKeepsPromises` hold for every `Active`. In `rowstream` eight rows are more than the channel, the producer's hand and the consumer's hold
together, so that the producer blocks and is released. In `valuation` an integer
of 5 bits wraps at 16, between the amounts 15 and 16, and 40 has low bits that
read as a small positive number. The theorems of section 5 hold without any of
these bounds.

**Fairness.** `Process` and `MineNext` are weakly fair. Each loop's timer fires
again after every pass, every call has a context with a deadline, docker
restarts the process (`restart: unless-stopped`), and a live chain executes the
wallet's next transaction while it waits in the pool. Nothing is assumed of the
environment: deposits need not arrive, the chain of `DataSync` need not grow,
accounts need not move. `RangeCopy` is fair to the syncer's goroutine, to the
library's, and to the goroutine of `database/sql` that every transaction has of its
own (`RollBackLeft(t)` for each `t`, for a transaction that is left must end whatever
becomes of others); the end of a context (`Expire`) is never relied on. `RowStream`
is fair to producer and consumer, with no fairness on its `Expire` either, and
`Supervisor` to its three goroutines; its timers need not fire for the process to
end, and a signal need not come. `BridgeFaucet` is fair to the syncer, to the
faucet, to the restart and to the chain's mining, each by itself. Liveness is
claimed for finitely many faults only: a node that fails for ever lets nothing
happen.

`EveryDepositIsJudged` and `EveryEventIsRecorded` name what the code cannot get
past: an unprocessed deposit whose token has no price ends every pass (run
`faucet_live` has one), and an amount wider than its column ends every range it
lies in (`sync_copies` has one). `EveryEventIsSettled` excepts both, and the run has
one of each. `EveryLiveDripIsConfirmed` excepts dead drips and
times when more drips are pending than the `LIMIT` of the query, which states
no order.

**Deadlock** is checked in every run. The faucet, the syncer and the codec always
have a next step; where a story has an end, the last state repeats itself by an
action named for it (`Over`, `StaysDown`) or by the verdict's disjunct of
`Valuation!Next`, so that any other stop is an error.

## 4. Findings

- **A restart may strand a drip.** `faucet.go:43` takes the nonce of the latest
  block. Drips stored but not mined before a restart are not counted in it, so the
  next drip is signed with the nonce of an old one and only one of the two can
  be executed. The recipient of the other is refused for good: `faucet.go:146`
  tells "transfered before". Run `faucet_restart`. The history variable
  `nonceBehind` records exactly this situation (and the second way to it, a
  `NewDrip` that commits but reports an error), and what holds otherwise is
  `NoncesUniqueUnlessBehind`.
- **A range is one block larger than the flag says.** `main.go:39` describes
  `-range` as "range sync at once"; `datasync.go:57` and the inclusive filter
  ask for `RangeSync + 1` blocks. Nothing is lost by it. Run `sync_range`.

## 5. Proofs

All are checked by TLAPS, for every value of the constants that satisfies the
named assumptions of the modules (the types of the constants, a page of at least
one row, no event in block 0, finitely many events). The prover knows nothing of
`^`: the three facts about powers that `Valuation` needs are its
`PowersAssumption`, which TLC evaluates.

| Theorem | States | Rests on |
|---|---|---|
| **`FaucetProofs`** | | |
| `TypeCorrect` | `Spec => []TypeOK` | `TypeInv` |
| `OneDrip`, `StatusTellsDrips`, `WrittenAhead` | `OneDripPerAddress`, `StatusMatchesDrips`, `WriteAhead` | `TableInv` |
| `DepositorIsPaid` | each drip pays the account of its own deposit | `TableInv`, `RowsKeepEvents` |
| `NoGap`, `NoncesUniqueOrBehind` | `NoNonceGap`, `NoncesUniqueUnlessBehind` | `NonceInv` on top of `TableInv` |
| `DoneIsExecuted`, `RecipientsWereFresh` | `DoneMeansExecuted`, `DripsGoToFreshAccounts` | `PaidInv`, `FreshInv` |
| `FaucetImplementsLedger` | `Spec => Ledger!LedgerSpec` | `StepRefines` |
| `LedgerMeansFairness` | whatever implements the ledger grants once, executes what is granted, closes what is executed | `BookInv` |
| **`DataSyncProofs`** | | |
| `TypeCorrect`, `NothingSkipped`, `NeverAhead`, `NeverFalls`, `DuplicatesCounted` | `TypeOK` and the four safety properties of `sync_copies` | `SyncInv`, `CopiesInv` |
| `RecordedExactlyOnce` | without lost answers, exactly one row per event up to the recorded height | the above |
| **`RangeCopyProofs`** | | |
| `CallTypeCorrect`, `GoroutineIsGone` | `CallTypeOK`, `NoGoroutineIsLeft` | `TypeInv`, `ControlInv` |
| `CopyImplementsSync` | `CopySpec => Spec`, the safety half of `ImplementsSync` | `CopyInv`, `StepRefines` |
| `CopyKeepsSyncPromises` | the four safety properties of `sync_copies`, of the copy call by call | `CopyImplementsSync` |
| **`RowStreamProofs`** | | |
| `TypeCorrect`, `NoRowTwice`, `NothingPassedOver` | `TypeOK`, `ReceivedInOrder`, `NoGapWhileLive` | `StreamInv`, `Gapless` |
| `StreamIsCursor` | `Spec => Cursor!CursorSpec` | `StepRefines`, `Complete` |
| **`SupervisorProofs`** | | |
| `TypeCorrect`, `StatusIsTrue`, `NoSecondLateRun` | `TypeOK`, `ExitTellsWhy`, `AtMostOneMore` | `SupervisorInv` |
| **`BridgeFaucetProofs`** | | |
| `SyncUndisturbed`, `FaucetUndisturbed` | `BridgeSpec => ImplementsSync`, `BridgeSpec => ImplementsFaucet` | `SharedInv`, `StepMapsToRecord`, `StepMapsToFaucet` |
| `ProcessIsFaucet`, `ProcessKeepsLedger`, `ProcessKeepsPromises` | `BridgeSpec => Spec`, and with it the ledger and the seven safety invariants of the faucet, of the whole process | `FaucetUndisturbed`'s steps, `FaucetProofs` |
| `OnlyDueDrips`, `TransfersDue` | `DripsAreDue`, `TransfersAreDue` | `SharedInv`, `SeenInv`, `DueInv`; `DepositorIsPaid`, `OneDrip`, `WrittenAhead` |
| `SpendingBounded` | no more executed transfers than accounts | `OneDrip`, `WrittenAhead` |
| **`BigIntProofs`** | | |
| `WrittenIsReadBack` | `ReadBack` | `TypeInv`, `Spares` |
| **`ValuationProofs`** | | |
| `VerdictRight`, `DripAsAsked` | `VerdictIsRight`, `DripIsAsked` | `JudgeInv` |

**Why the invariants need strengthening.** `OneDripPerAddress` is not inductive:
that `NewDrip` inserts no second drip for an address follows from a check made
several steps earlier. `TableInv` carries it along: from the judgement to the
insertion no drip has the item's recipient, the item is still unprocessed, and
its row is not in the rest of the page. `NonceInv` ties the counter to the
table: every drip's nonce below the counter is taken and, unless `nonceBehind`,
exactly those are; the wallet's nonce never passes the drips. `FreshInv` is the
reason the order of the three looks matters: an account loses a balance only by
spending, which leaves a nonce, so balance first and nonce last amount to one
look at the moment the judgement began. `SyncInv` says what lies between the two
ends of a range at each call and that memory and table differ only after a lost
answer. `CopiesInv` bounds the copies of an event by the lost answers.

A row's place in the order of a stream is decided long before it is received:
`Ascending` says that what was received, what waits in the channel and what the
producer holds come in this order, `Gapless` that together they are all that was
read as long as the context lives, and `Complete` that a closed channel means a
read answer unless something was upset. `LateOnce` says why a loop begins no
second run after the end: the first one used up the timer, and a timer that was
set again is not ready while the context is.

For the whole process, `SharedInv` says that what the syncer is about to insert is
what `formatEvent` makes of an event; together with the fact that the faucet only
writes the status of the row it is working on, this is what makes the two
refinements go through, step by step. `SeenInv` bounds what the syncer copies by
the chain's length, and `DueInv` carries the decision of `formatEvent` over the
table into the faucet's page, its item and its drips. A transfer is then followed
backwards: the node has it from the table of drips (`WriteAhead`), there it pays
its own deposit's account (`PaysDepositor`, which needs that no step gives a row
another event) and is that account's only one, and its deposit is due.

For `syncWithRange` call by call, `StepFitsPc` ties the place in the call to the
program counter of `DataSync`; `IteratorInv` says when the library's goroutine
runs, that it is gone before the context is cancelled, and why nothing is left to
take once the iterator has heard the end and found the channel empty;
`AnswerInv` says that what was listed, what waits in the
channel and what is still to be handed over make up one listing of the range,
which is what a finished iteration must be to be `FilterEvents`; `TxInv` says that
the open transaction holds a prefix of the rows, and all of them when it is to be
committed, as long as the context lives (afterwards `database/sql` may have rolled
it back), so that its commit is `SaveRange`.

`Spares` says of each operation that every variable but its receiver reads as
before: a new number goes to a cell that nobody points to. `JudgeInv` keeps, between the calls of
`shouldTransfer`, that the rate in hand is a price the reply may be said to give.

**Only model-checked:** the liveness properties `EveryDepositIsJudged`,
`EveryLiveDripIsConfirmed`, `EveryEventIsRecorded`, `EveryEventIsSettled`,
`EveryTransactionEnds`, `PassEnds`, `StreamIsReleased`, `ProcessEnds`, `ComesBack` and the fairness in
`RangeCopy`'s `ImplementsSync` (fairness and ENABLED are out of the prover's
reach), and the two violations. That the syncer's own invariants hold of the
whole process follows from `SyncUndisturbed` and `DataSyncProofs` by
substitution, a step taken by hand: the prover does not carry theorems through an
instance.

## 6. Not modelled

- Reorganisations, and replicas of different heights behind one endpoint: the
  node is one consistent chain. The code assumes the same.
- A wallet that signs anything but drips, and a wallet whose nonce is not zero
  at the very first start: a shift of all nonces.
- The rounding of `float64` in `Readable`, `ToWei` and the price: amounts and
  prices are integers in `Valuation`, and a flag just between two micros is
  excluded by its assumption. `ToEther` only fills a column that nobody reads back. In
  `Faucet` a price is a member of `Price` and an amount a number of whole tokens.
- Gas price and gas limit: no property depends on them; their calls can fail.
- The genesis block: `InitHeight` begins with block 0 only at the first start,
  and no event lies there (`HeightAssumption`).
- The token addresses and chain ids (tables of constants), the key file, the
  connection to the database and its ping: `Supervisor` knows that they can fail.
- The generated bindings beyond the log query and `Decimals`: the other events,
  calls and transactions of the two contracts are never used.
- The transaction of `NewDrip` statement by statement (section 2, Faucet).
- The signal handler's part in a death: `Crash`, `CrashInCall` and `Die` are sudden
  deaths, which no code decides; the graceful end is `Supervisor`'s.
- Block hashes, log lines, the HTTP exchange, the database driver but for its
  rollback.

## 7. Plan

Done: the faucet, the syncer and their repositories with the abstract ledger; the
supervisor, the streams, the composition of the whole process, the call by call
copy of a range, the codec and the valuation; as theorems, every safety property
that a run checks, the safety half of every refinement, and the faucet's promises
carried over to the whole process, the syncer's to the copy call by call.

Left:

1. The syncer's invariants as theorems about `BridgeFaucet`, proved anew on the
   rows as they were inserted.
2. The joint lifetime of `Supervisor` in the place of `BridgeFaucet`'s `Die`,
   `StartFails` and `ComeBack`.
