# Models of blindbit-scan

TLA+ models, model-checking configurations and machine-checked proofs for
blindbit-scan, a scanner for BIP 352 silent payments. Paths are relative to the
repository; `scan.go`, `daemon.go`, `routes.go`, `wallet.go`, `db.go` and
`main.go` are the files of that name under `internal/daemon`, `internal/server`,
`pkg/wallet`, `pkg/database` and `cmd/blindbit-scan`.

## 1. The system

| part | state | operations | talks to |
|---|---|---|---|
| Scan loop (`scan.go`) | the locals of one `ContinuousScan` goroutine: `abort`, `t1`, the block in work, what `syncBlock` returned | `ContinuousScan`, `SyncToTip`, `ForceSyncFrom`, `MarkSpentUTXOs`, `syncBlock`, `CheckUnspentUTXOs` | wallet (through `d.Wallet`, read again at every step), oracle, Electrum, wallet file |
| Wallet (`wallet.go`, `utxo.go`) | keys, birth height, `LastScanHeight`, `UTXOs`, `UTXOMapping` | `SetupWallet`, `AddUTXOs`, `GetUTXOsByStates`, state changes through pointers | written by the loop, read by HTTP and NWC handlers without a lock |
| Wallet file (`db.go`) | one JSON file | `WriteWalletToDB`, `TryLoadWalletFromDisk` | written by the loop and at exit, removed by a key reset |
| Daemon (`daemon.go`) | `ctx`, `cancelFunc`, `Wallet`, channels | `SetupDaemon`, `ResetDaemonAndWallet`, `Cancel` | shared by loop, server and NWC handlers |
| Process (`main.go`) | which daemon, who waits for keys | start with or without keys, flush at exit | everything |
| HTTP server (`server.go`, `routes.go`) | none of its own | `PUT /new-keys`, `POST /rescan`, `POST /new-nwc-connection`, reads | daemon, config globals, config-file, NWC controller |
| NWC controller (`nip47_controller.go`) | `apps`, the listener goroutine and its subscription, one goroutine per request | `NewConnection`, `StartListening`, `StopListening`, `processEvent` | relay, apps file, NWC handlers |
| NWC handlers (`internal/nwc_server`) | none | three reads of the wallet, which need one | daemon |
| Clients (`blindbit.go`, `electrum.go`) | none | one HTTP or Electrum request each | the oracle, Electrum (external) |
| Configuration | globals | read at start, written by `PUT /new-keys` | all |

What is hard here:

- *Failure in the middle of a block.* Four requests and a file write per block,
  each of which may fail after an earlier one has changed the wallet. An error
  is logged and retried from `LastScanHeight` in one caller and ends the loop
  for ever in two others.
- *Order.* Spends of a block are marked before its coins are found; the coins
  carry the oracle's opinion of that moment; the height is set after the coins
  and before the save; a flush at exit may happen between any two of these.
- *Going back.* `POST /rescan` moves the height to anywhere.
- *Crash.* `os.WriteFile` truncates before it fills.
- *Two loops on one wallet.* A key reset swaps the wallet under a running loop,
  which hears of it late, through a flag set by a goroutine.
- *Two loops on one file.* A process started without keys ends up with two daemons once it
  is given some: the one the server has, and one of `main`'s own that no request reaches.
- *A flush beside the loop.* The save at exit serialises the wallet while the loop may stand
  between two assignments to it, and writes the file while the loop may be writing it.
- *Two servers.* Electrum announces blocks the oracle has not indexed, and
  may not know coins the oracle has.
- *One listener.* Connections replace the NWC listener over an unbuffered
  channel, and store the apps without a lock. A request may arrive before there is a wallet.
- *Maps of a block.* `syncBlock` goes from tweaks to scripts to transactions and back, through
  maps that keep one value where a block may have two.

What makes each part correct is stated by the properties in section 3; the
hazards they are for are listed, line by line, in `PROJECT.json`.

## 2. The modules

| module | models | with |
|---|---|---|
| `Chain` | the chain and what oracle and Electrum answer about it (external) | |
| `Wallet` | a wallet as a value, its operations, and what it promises about the chain (`Consistent`) | extends `Chain` |
| `WalletView` | abstract specification: what readers and restarts may see | extends `Wallet` |
| `Scanner` | the loop of one daemon, its wallet and file, rescans, Electrum, crash, exit, restart | extends `Wallet`, instantiates `WalletView` |
| `ScannerProofs` | theorems: types, and wallet and file consistent with the scanned chain | extends `Scanner`, `TLAPS` |
| `ScannerCoinProofs` | theorems about the states of single coins | extends `ScannerProofs` |
| `ScannerViewProofs` | theorem: `Scanner` implements `WalletView` | extends `ScannerCoinProofs` |
| `KeyReset` | `PUT /new-keys` step by step against the loops of two daemons and their watchers, a start with or without keys | |
| `KeyResetProofs` | theorems: types, and under `Quiet` every invariant the runs check | extends `KeyReset`, `TLAPS` |
| `BlockMatch` | which outputs of a block are the wallet's: the maps of `syncBlock`, and BIP 352 as their reference | |
| `BlockMatchProofs` | theorems: what `syncBlock` returns is served and derived, and in a block that follows the protocol is exactly what is paid | extends `BlockMatch`, `TLAPS` |
| `BlockSync` | one block, request by request and assignment by assignment, beside the flush at exit | extends `BlockMatch` |
| `BlockSyncProofs` | theorems: every invariant the run checks | extends `BlockSync`, `BlockMatchProofs` |
| `Nip47Controller` | NWC connections, the listener, requests and their handlers, the apps file | |
| `Nip47Proofs` | theorems: types, one listener, requests answered at most once, stored apps | extends `Nip47Controller`, `TLAPS` |
| `MCScanner`, `MCKeyReset`, `MCBlockSync`, `MCNip47Controller` | the instances TLC checks | |

**Chain.** The whole chain is chosen in the initial state (`createdAt`,
`spentAt`: the heights at which an output is created and spent, 0 for never) and
revealed block by block (`mined`), the oracle following (`indexed`). Nothing reads
a height before it is mined, so this is as general as choosing each block when it
is mined, and simpler to reason about. A request for a block the oracle has not
indexed fails. Any request may fail at any time.

**Wallet.** `utxos[u]` is the state of output `u`, `"unknown"` if it is not in the
collection; `last` is `LastScanHeight`; `keyed` says whether the two keys are set.
Keys, labels, amounts and addresses are abstracted.
`Consistent(w)` is the promise: every output paid to the wallet in
`FirstHeight..w.last` is known, every known coin spent in those blocks is
`"spent"`, and no coin comes from a block that was not served.

**Scanner.** The loop is sequential, so that one `pc` and the locals
(`call`, `i`, `chainTip`, `owned`, `todo`) describe it. One action is one stretch
of code between two points where something else can be seen to happen: a request, an
assignment to the wallet, a step of the file write.

| action | code |
|---|---|
| `InitialScan`, `NewBlock`, `TakeRescan`, `Tick`, `CheckTick` | the five cases of `select` in `ContinuousScan` |
| `SyncToTip`, `Loop` | the head of `SyncToTip` and of the loops over heights |
| `MarkSpentUTXOs`, `SyncBlock`, `AddOwnedUTXOs`, `SetLastScanHeight` | one block, the same in `SyncToTip` and `ForceSyncFrom` |
| `TruncateFile`, `FillFile` | `WriteWalletToDB` (`os.WriteFile`) |
| `CheckUTXO` | one balance of `CheckUnspentUTXOs` |
| `PostRescan` | the handler, which blocks on the channel |
| `Crash`, `Interrupt` | kill; interrupt with the deferred flush; both followed by a start from `Load(disk)` |

`ReturnError` is every early return of an error: it leads back to the select statement
when `SyncToTip` failed and to `"dead"` when a rescan or the Electrum ticker did.
No keys are replaced in this module, so that `abort` stays false; `KeyReset` is
about the other case.

**WalletView** has two variables, the wallet that is read and the one a restart
would load, and five kinds of steps: the chain grows, coins are learned about (never
forgotten, at the same height), the height advances (at most to the next one, only
with coins and spends accounted for), the wallet is saved, the process restarts
from what is saved. `Scanner` implements it with `view <- wallet` and
`saved <- Load(disk)`, which is checked and proved. The flush at exit is one step of
`Scanner` (`Interrupt`, cut short or not); what happens inside it is in `BlockSync`.

**KeyReset.** Every request brings keys, makes a wallet object and starts a loop,
and all three have the name of the request. `current` is `d.Wallet`, which each
step of each loop reads again; `ctx` counts how often `d.ctx` was replaced. A
loop has two abort flags (`ContinuousScan` and the `SyncToTip` in it) and a watcher
for each, which first runs at any later time and *then* reads `d.ctx`
(`<-d.ctx.Done()` is evaluated in the goroutine). `CheckAbort` and
`SetLastScanHeight` are two steps, as in the code; so are the two halves of `syncBlock`, which
reads the wallet's keys before and after the request for the outputs (`SyncBlock`,
`MatchOutputs`). The handler is eleven steps, each of which that can fail may fail; the values
of viper, which `WriteConfig` writes, are set one by one before the globals are.

A process started without keys has no loop: `main` is `"waiting"`. The goroutine that
`WriteConfig` starts looks at `d.Wallet` at any later moment (`LookForWallet`) and hands
over to `main` (`KeysReady`) only if there is none. `main` receives once. It then sets up a second
daemon (`SetupDaemon`), whose wallet is whatever the file holds at that moment, or made of the
globals, and whose loop, `Second`, runs in a context that nothing cancels; a file that does not
parse, or a failing connection, ends the process. `text` says whether the file parses. A file
that does not is loaded as the zero wallet, and a start with one waits for keys as a start without a
file does; a zero wallet that a process without keys saved on its way out parses, and gives
a second daemon without keys. Both daemons save to one file, in
two steps each: a loop that fills a file another has written since may leave the tail of the
longer text (`Overlay`), and what is written to a file removed since is lost. Spends,
Electrum and rescans are left to `Scanner`; the chain is fixed.

**BlockMatch.** A transaction and its tweak have one name, and a script of the wallet is the
triple of tweak, index and label it is derived from, so that curve arithmetic is
equality of triples. What is kept is the control of `syncBlock`: a precomputed script for the
first output of each tweak, with and without labels; one transaction for each script,
the last that has it; one entry for each tweak, that of whichever script a Go map
yields last (`tweaksOutputsToCheckMap` is the set of all outcomes); `ReceiverScanTransaction`
of the library, which stops at the first index it does not find; and the search for the output
with a found script. `Payments` is the reference: what BIP 352 finds looking at one
transaction with its own tweak. `FollowsProtocol` says that nobody pays a script of the
wallet a second time.

**BlockSync.** The block is any of the constant `Blocks`. `GetFilter`,
`GetSpentOutpointsIndex`, `GetTweaks` and `GetUTXOs` are a request each, with what the client
makes of a good answer, an error and (for the index) an error object. `AppendUTXO` and
`EnterMapping` are the two assignments of `AddUTXOs`. The flush at exit reads
`LastScanHeight`, `UTXOs` and `UTXOMapping` one after the other, in the order of the struct,
as `json.Marshal` does, and then writes the file in two steps, with the steps of the loop
in between. Two histories name what the properties exclude: `missed`, an answer
without an index was taken for an empty one, and `skewed`, a file was loaded whose mapping is
not that of its coins.

**Nip47Controller.** A listener subscribes once, to the apps of that moment. The
handler of `POST /new-nwc-connection` publishes, adds the app, hands over the
stop (a rendezvous with whichever listener is in its select statement), starts the
next listener, serialises the apps and writes the file in two steps. Two handlers that write at
once (`crossed`) may leave the text of one over the tail of the other's, which does not parse. The relay
gives a request to the subscriptions of that moment and keeps none, `Unsub` drops
what a subscription still holds. A request that is taken runs through `processEvent` in
a goroutine of its own: `DecryptEvent` drops it if the sender is not known, `RunMethod`
calls the handler, which panics when there is no wallet yet and so ends the process,
and `PublishResponse` may fail. `lost` names the apps whose request met one of the ways
to get lost. A kill or a panic loses the memory; a start panics (`down`) on a torn file.

Definitions whose comment begins with "Slip" are not part of any specification: each
is a plausible mistake in the definition after it, and the property that notices it
is named in `PROJECT.json` ("mutants").

## 3. What is checked

### Scanner

Invariants and action properties, run **ScannerSafety** (2 coins, symmetric; chain of 3
blocks; birth height 2, so that block 1 lies before it; a save every 2nd instead of
every 100th block; Electrum; rescans from 1 and 2; crashes and interrupts at any
time; 1.1 million states):

- `MemoryConsistent`, `DiskConsistent`: wallet and file never claim more than was seen.
- `NoCoinWrittenOff`: "spent" means spent by a mined block, as long as Electrum knows
  what the oracle has indexed.
- `StatesOnlyAdvance`: within one run of the process nothing learned about a coin is
  lost, whatever is rescanned.
- `ScanInv`: the inductive invariant of the proofs.

**ScannerRefinement** (1 coin, 4 blocks, birth height 3, rescans from 1 and 3,
Electrum lagging) checks `ImplementsView`. One coin is enough for the refinement
because no step relates two coins; four blocks leave two before the birth height
and two after it.

**ScannerLiveness** (1 coin, 3 blocks, a rescan, Electrum) checks under `FairSpec`
that every coin is found (`EveryCoinFound`) and every spend noticed (`EverySpendFound`)
while the loop lives, that a rescan request does not block for ever (`RescanServed`),
and that the height catches up with the oracle again and again (`CatchesUp`). Each
says "or the loop is dead", because the code lets it die. Restarts are off: with an
unbounded number of crashes nothing has to happen.

### KeyReset

**KeyResetQuiet** (two requests, birth height 1, blocks 2 and 3 to scan) assumes that a
request meets an idle loop with its watchers in place, which takes no tick while the
handler runs, and no other request (`Quiet`). Then a new wallet is scanned from scratch
(`ScansFromScratch`) and holds only its own coins (`OwnCoinsOnly`), a restart finds a sound
wallet (`RestartIsSound`), with the keys in use unless it is the second daemon that has others
(`OnlySecondReplacesKeys`), and the answer is the address of the keys that were sent
(`AnswersOwnAddress`): although the old loop may work on the new wallet beside the new
loop until its watcher has run, and although any step may fail (`PutFails`). The invariants hold
of the second daemon's wallet too.

Block 1 is the exception of `ScansFromScratch` and `RestartIsSound`. Birth height 1 is what a
request gets that names none (`routes.go:104`), and `SetupWallet` then counts block 1 as processed
(`wallet.go:45`), so that no loop ever scans it. From block 2 on nothing is excepted. (`Scanner`
says the same with `FirstHeight`, the first height that is scanned, which is 2 at birth height 1.)

`AnnouncementMet` is about the goroutine that announces keys over a channel without a buffer
(`routes.go:121`), from which `main` receives once (`main.go:92`): it finds `main` waiting, *unless*
an earlier request failed after its own goroutine had been started (`routes.go:119`). Then `main` has
received that announcement, there is still no wallet, and the goroutine of the next
request waits for ever (`ReceivedForNothing`); the keys are in use all the same, as the handler
starts the loop itself. Two overlapping requests get there too: both goroutines may look
before either handler has assigned its wallet. `Quiet` excludes that.

`Quiet` is an assumption about timing which nothing guarantees: a caller can keep requests apart, but
neither the caller nor the code keeps a loop in its select statement while a handler runs
(`scan.go:314` has no such guard). **KeyResetOverride** shows what happens otherwise. The second
daemon's loop is not restricted and ticks whenever it likes.

**KeyResetLiveness** (one request, one block to scan) shows that in the end one loop of the server's
daemon is left (`OneLoopRemains`) and that it finds all coins of the new keys
(`EveryCoinFound`), unless a step of the handler failed or the process ended. Both runs start with keys
and without.

### BlockSync

**BlockSync** (blocks of up to three outputs in two transactions, below) checks, with any
request failing, interrupts and kills at any time and any number of rescans of the block:

- `PaymentsFound`: in a block that follows the protocol the maps of `syncBlock` lose no payment.
- `OwnOutputsOnly`: in *any* block a coin is an output whose key the wallet can derive.
- `NoCoinTwice`: a block that is retried, rescanned or interrupted half-way adds no coin twice.
- `FileNeverAhead`: also a file that the flush wrote beside the running loop has the coins and
  the spends of the height it claims. This rests on the order of the struct's fields
  (`wallet.go:22`): with `LastScanHeight` declared after `UTXOs` it fails, as the mutant shows.
- `SpendsMarked`: a coin of the wallet that the block spends is spent after it.

Each needs its condition. A flush that catches the loop between the two assignments of
`AddUTXOs` (`wallet.go:93`) writes a file whose mapping lacks a coin or, read in between, has one
that `UTXOs` lacks; the process that loads it (`skewed`) adds the coin twice or never,
against "not add the same twice" (`wallet.go:24`). An object that reports an error in
place of the spent index is taken for an empty index (`missed`; `bip352` may instead panic at its
missing hash), and the spends of that block are not seen again unless it is rescanned; `GetFilter`
rejects such an object. In a block where a script is paid again in another transaction the maps may
lose payments. And without the histories in their conditions, TLC refutes
`PaymentsFound`, `NoCoinTwice`, `FileNeverAhead` and `SpendsMarked`.

### Nip47Controller

**NwcConnections** (two connections, crossing in every way, a request each, one kill, with a
wallet from the start or later): there is always
exactly one listener or one handler about to start it (`OneListener`), no request is
answered twice (`AnsweredOnce`), the app of a handler that wrote while no other did is in memory and,
as long as the file parses, in the file for good, and the file fails to parse only while it is written,
after a write that was cut short or after two that crossed (`AppsSurvive`), no handler waits for
ever for a listener to stop (`ConnectionEnds`), every app known is listened for in the end
(`EveryAppListenedFor`), and a request is answered unless it met one of the ways to get lost
(`RequestAnswered`): no subscription at that moment, the replacement of the listener,
the end of the process, a relay that fails. Two connections are enough for a handler to stop
the listener of the other and for two writes of the file to cross. That an app which crossed nobody survives
a crossing of two others takes three connections, which `ConnectedAppsSurvive` covers.

### Where the code and its comments disagree

- **ScannerRescanGap**: `LastHeightProcessed` (`wallet.go:42`) fails. A rescan that
  starts above the next height leaves a gap for good. The other Scanner runs keep
  rescans at or below the next height (`RescanAhead = FALSE`).
- **ScannerTornFile**: `KeysSurvive` (`daemon.go:27`) fails. After a crash in the
  middle of a write the process waits for keys that the config-file has. (The comment stands on
  `SetupDaemon`; `main` starts with the same `TryLoadWalletFromDisk`, `main.go:49`.)
- **ScannerLoopDies**: `ChecksForEver` (`scan.go:348`) fails. One failed balance request of the
  one-minute case ends the loop, and nothing starts it again. So does a failed rescan
  (`scan.go:340`); the other three cases log an error and go on.
- **KeyResetOverride**: `ScansFromScratch` (`scan.go:251`, `daemon.go:110`) fails when the
  request meets a sync in progress: the flag is checked before the height is
  assigned, and the watcher may be late or wait for the new context.
- **KeyResetSecondDaemon**: `RestartKeepsKeys` (`daemon.go:109`) fails after a start without keys
  (`main.go:93`), although requests are quiet. The second request removes the wallet file and cancels the first daemon only; the
  loop of the second daemon, which nothing cancels, saves the wallet of the first request's
  keys again, and a restart continues with it.

### Bounds

`MaxHeight`, the number of coins, requests and connections, `RescanHeights`,
`SaveInterval` and `MaxCrashes` are bounds. Heights matter only by their order
around the birth height, the last height, the tips and a rescan, which 3 or 4 blocks
distinguish. The number of crashes of the Scanner, of failed requests, of ticks and of
rescans is not bounded.

In KeyReset one request that succeeds is enough to meet a loop of the start and the second
daemon (`MaxServed` = 1); **KeyResetQuiet** has a second one, `r2`, after the first has failed and left
no wallet, which is where a failed request changes what the next one meets (`RetrySpec`). Block 1 pays
everybody there, as no loop looks at it, the other blocks pay the keys of the start, any of them those of `r1`
and, where `r2` comes, all of them those of `r2` and none those of `r1`; a start with an
empty file is left out because it is like one with a torn file. **KeyResetSecondDaemon** has two
requests that succeed, one block and a start without keys or file (`FreshSpec`), as the second daemon has to
have been made by an earlier request. Any number of requests is left to the theorems.
In NwcConnections every app may send one request (`Senders`). In BlockSync the blocks are all pairs of outputs in one
transaction or in two, in either order, with any of four scripts of the wallet and a foreign
one, two blocks of three outputs (labelled outputs of one payment around another's; a script paid three
times), and blocks of one output or none, which may spend that output themselves; indices reach `MaxK` = 1 and there is one
label. Two transactions are what a map that keeps one value can confuse. A process that loaded
a skewed file is not interrupted again, because its coins may double each time.

### Fairness

- A goroutine that can go on does (`WF` of the steps on a block, of handlers that have
  begun, of watchers and listeners).
- `select` chooses at random among the ready cases, so a case that is ready again and
  again is taken (`SF` of `Tick` and `TakeRescan`). The one-minute case gets no
  fairness: its ticker is made anew in every round, and another event resets it.
- The oracle goes on indexing, and asked about the same block again and again it
  answers once (`SF` of `MarkSpentUTXOs(TRUE)` and `SyncBlock(TRUE)`, for each height).
- In KeyReset only the server's loops, their watchers and the handlers that have begun are fair
  (with `SF` of `Tick`, `SyncBlock(l, TRUE)` and `MatchOutputs(l, TRUE)`, for the reasons above); the
  announcing goroutine, `main` and the second daemon's loop need not do anything.
- In Nip47Controller handlers that have begun, listeners and the goroutines that answer go on
  (`WF` of `Handle`, `Listen` and `Answer`); an answer may not arrive, and the relay, the apps and the
  callers do as they like.
- Nothing is assumed of Electrum, the file system, the chain or the users.

## 4. What is proved

`ScannerProofs`, for every set of outputs, chain, birth height, save interval and Electrum
setting, with any failures, crashes and exits:

- `TypeCorrect`: `Spec => []TypeOK`. Beyond types, `TypeOK` says that the block in work lies
  between 1 and the tip being synced to, and belongs to a sync or a rescan.
- `ScanInvariant`, and from it `ScanConsistent` and `FileConsistent`: `~RescanAhead` implies
  `Spec => []ScanInv`, `Spec => []MemoryConsistent` and `Spec => []DiskConsistent`.

`ScannerCoinProofs`, equally general, and with rescans that start anywhere:

- `NothingWrittenOff`: `Spec => []NoCoinWrittenOff`.
- `KnowledgeGrows`: `Spec => StatesOnlyAdvance`.

`ScannerViewProofs`, equally general:

- `Implements`: `~RescanAhead` implies `Spec => ImplementsView`, the refinement of `WalletView`.

`Nip47Proofs`, for any number of connections, requests and kills, with any failures:

- `TypeCorrect`: `Spec => []TypeOK`.
- `ExactlyOneListener`: `Spec => []OneListener`.
- `AnsweredAtMostOnce`: `Spec => []AnsweredOnce`.
- `ConnectedAppsSurvive`: `Spec => []AppsSurvive`.

The assumptions are those named in the modules (`MaxHeight`, `ConfigBirth` naturals,
`SaveInterval` positive, `RescanHeights` positive; `Boot` no connection) and, where it says `~RescanAhead`, that no
rescan starts above the next height; `ScannerRescanGap` shows that it is needed.

`Consistent(wallet)` is not inductive: that it survives `LastScanHeight = i` depends on what
the loop did to block `i` before. `ScanInv` adds the reasons:

- `Behind`: a wallet claims heights the oracle has served, unless its scan has not begun.
- `NoGapAhead`: the block in work is at or below the next height.
- `BlockProgress`: after `MarkSpentUTXOs` all known coins that `i` spends are spent; an
  output `syncBlock` returns as unspent is spent in no scanned block and not in `i`;
  after `AddUTXOs` all coins of `i` are known.
- `PendingInReach`: a waiting rescan starts at or below the next height, or will when the
  rescan in work is done. A rescan in work takes the height *back*, so that a waiting
  one may be ahead for a while, which is harmless because the rescan in work
  either brings the height back or ends the loop.
- `TodoUnchecked`: Electrum is only asked about coins that are not spent.

The lemmas follow the code: one about each operation on a wallet (`MarkSpentInv`,
`AddInv`, `SetLastInv`, ...), one about each way to enter or leave the loop
(`LoopStartInv`, `LoopNextInv`, `ReturnErrorInv`, ...), one for each action
(`MarkSpentScan`, ..., `RestartScan`), put together in `ScanStep`.

The two theorems about coins need less: `NoCoinWrittenOff` that what the loop is about to add
(`owned`) is right too (`SpendInv`), `StatesOnlyAdvance` that Electrum is asked about
coins that are not spent (`TodoUnchecked`), so that a late "pending" cannot take a spent
coin back.

The refinement is proved step by step (`BlockView`, `RestartView`, `ViewStep`): a change of coins
is a `Learn` because `ScanInv` holds after it and `AdvanceStep` has shown that no coin goes
back; `SetLastScanHeight` is an `Advance` because `NoGapAhead` bounds the block in work and
`BlockProgress` says that the oracle served it; writing the file is a `Save`; a
crash or an exit is a `Restart`; everything else is invisible.

The invariants of `Nip47Proofs` say who has what:

- `OneToken`: the right to listen is with one listener, or with the one handler that has
  stopped the last listener and is about to start the next. `OneListener` counts; this names.
- `AnswerInv`: a request has come to one listener at most, which `OneToken` is needed for; it is
  in the subscription or with a goroutine, never both; once answered it is through.
- `FileInv`: the app of a handler that has written and crossed nobody is in `c.apps`, in the file if it
  parses, and in everything another handler has serialised and not yet written, because that
  was serialised after this one had written. The process only stands still over a file that
  does not parse, and for that a handler is writing, has been cut short or has crossed another.

`KeyResetProofs`, for every finite set of requests, any chain and any failures; all but the first
assume `Quiet`, which nothing in the code sees to (section 3):

- `TypeCorrect`: a finite set of requests implies `Spec => []TypeOK`. Quiet or not; that `ctx` is
  at most the number of requests is the part that needs an argument (each has counted once).
- `ScanFromScratch`, `CoinsAreOwn`, `RestartLoadsSound`, `OwnAddress`: `Spec => []ScansFromScratch`,
  `[]OwnCoinsOnly`, `[]RestartIsSound` and `[]AnswersOwnAddress`, for any number of requests and any
  birth height from 1 on; the first and the third with block 1 excepted, as in the runs.
- `RestartKeeps`: `Spec => []OnlySecondReplacesKeys`, that is: a restart keeps the keys as long as the
  second daemon has either none or the current ones (`SecondAgrees`). `StartedWithKeysKeeps`:
  `[]RestartKeepsKeys` after a start with keys, where there is no second daemon. That it
  fails after one without keys is what **KeyResetSecondDaemon** shows.
- `AnnouncementsMeet`: `Spec => []AnnouncementMet`.

Soundness of a wallet is not inductive, as two loops may work on one wallet beside each other:

- `ContextInv`: `ctx` and the requests that have not cancelled yet are together no more than the
  requests.
- `QuietInv`: one handler runs at a time, and meanwhile no loop of the server's daemon is in a
  sync. The loops of two daemons, and the old and the new loop of one, still overlap outside of it.
- `SoundInv`: a loop at a block works on a wallet that covers all blocks before it, holds what the
  keys of that wallet find in the block, as far as it has come (`"match"`, `"add"`), and, once this is
  added, the block too (`WorkInv`). All this
  another loop on the same wallet can only add to, which is why two loops do no harm. Every wallet in
  memory, in what the loops have serialised and in the file has all coins up to its height and
  no others (`Sound`).
- `KeyInv`: whose keys are in viper, the globals, the config-file and the wallet at each step of a handler
  (`HandlerKeys`, `CurrentKeys`), in the second daemon (`SecondKeys`), in the file (`DiskKeys`: torn,
  those in use unless it has just been removed, or those of the second daemon) and in what
  a loop has serialised (`DataKeys`). Here `Quiet` is used once more: a request arrives only when
  `main` has done what the last one asked for.
- `AnnounceInv`: while a goroutine is about to look or to send, no other one is and no other handler
  runs (`Announcing`); and once `main` no longer waits there is a wallet, or a request whose
  announcement it received is still at work or has failed (`Received`).

`BlockMatchProofs`, for a block of any number of outputs, transactions, tweaks and labels, and for
any order in which Go goes through its maps:

- `OwnedIsServed`: whatever the scripts, a coin that `syncBlock` returns is an output of the block
  whose script one of the block's tweaks gives the wallet.
- `OwnedIsPaid`: in a block that follows the protocol `syncBlock` returns `Payments(block)`, no more
  and no less. One script then stands for one transaction, the transaction of its tweak
  (`ProtocolTxid`), so that the order of the maps makes no difference; and the search for an output with a
  found script can only meet the one that was found.

`BlockSyncProofs`, for any set of such blocks, through any number of failures, rescans and restarts:

- `TypeCorrect`, `CoinsAreServed`, `CoinsOnce`, `NoPaymentLost`, `NoSpendLost`, `FileIsBehind`:
  `Spec => []P` for `TypeOK`, `OwnOutputsOnly`, `NoCoinTwice`, `PaymentsFound`, `SpendsMarked` and
  `FileNeverAhead`. The first two rest on `OwnedIsServed`, `NoPaymentLost` on `OwnedIsPaid`.

The invariants follow a coin and a spend from the oracle to the file and back into a wallet:

- `OnceInv`: the mapping is that of the coins, but lacks the last coin between the two assignments of
  `AddUTXOs`; no copy has a coin twice. A restart keeps this unless the file is one that sets `skewed`.
- `FoundInv`: while `AddUTXOs` works, a payment is in the wallet or among the coins still to
  come, which needs `OnceInv`, because a coin in the mapping is passed over.
- `SpentInv`: past the spent index the wallet offers no coin that the block spends, and none of those to come.
- `FlushInv`: the height that the flush has read is one the wallet has reached, whose coins it reads
  next. This is where the order of the struct's fields enters.

The assumptions on constants are that transactions are not `None` and indices naturals
(`BlockMatchAssumption`), that blocks are well formed, make the old outpoint no second time, and that an
output which the block itself spends is served as spent (`BlockSyncAssumption`: the oracle answers
as of its tip, which is not below the block), and in `KeyReset` that the names of its two loops
that no request makes are not those of requests, that heights are naturals and that the birth height is
at least 1, to which the handler raises it (`KeyResetAssumption`).

Of the properties that passing runs check, only the liveness properties are left to TLC: `EveryCoinFound`,
`EverySpendFound`, `RescanServed` and `CatchesUp` of `Scanner`, `OneLoopRemains` and
`EveryCoinFound` of `KeyReset`, `ConnectionEnds`, `EveryAppListenedFor` and
`RequestAnswered` of `Nip47Controller`. Liveness under fairness is out of the prover's reach. Every
invariant and every action property is proved.

## 5. What is not modelled

- The cryptography of BIP 352, the filter and the hashing of outpoints. They are taken at
  their contracts: a filter without false negatives, keys that differ when their derivations do.
- Reorganisations: the code has no step for them.
- Requests that never return (`http.Get` has no timeout): such a loop waits for ever by
  definition. An error object in place of the chain tip reads as tip 0, so that a tick does
  nothing and a rescan is dropped; `Scanner` has both outcomes for other reasons.
- What two overlapping key requests make of `config.BirthHeight`: every request of `KeyReset`
  has the same one. The steps of overlapping requests are in the module (`Quiet = FALSE`), but nothing is
  claimed of them: nothing in the repository says what should come of such requests.
- A flush at exit in `KeyReset`; `Scanner` and `BlockSync` have it for one daemon.
- Keys in the environment, which win over the config-file (`load.go:45`), and the parsing of
  configuration.
- Data races as such. Every access to the wallet, the apps and the file is atomic in the models,
  except where two steps can be told apart; where Go may end a process at a race, that is
  one of the crashes.
- Authentication, logging, and the content of answers, of HTTP as of NWC.

## 6. Plan

1. Done: `Chain`, `Wallet`, `WalletView`, `Scanner` with its proofs and the proof of the
   refinement; `KeyReset` with the start without keys and the second daemon; `BlockMatch` and
   `BlockSync`; `Nip47Controller` with its requests and its proofs.
2. Done: the invariants of `KeyReset`, `BlockMatch` and `BlockSync`, for any number of requests
   and blocks of any size.
3. Left: an abstract specification of key replacement (one wallet per request, replaced at once)
   that `KeyReset` implements when requests are quiet, and one of the flush at exit that `BlockSync`
   implements: what it saves has the coins of one moment and the height of an earlier one, so that
   `WalletView`, which saves a wallet as it is in memory, does not cover it.
