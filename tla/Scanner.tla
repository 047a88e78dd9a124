------------------------------- MODULE Scanner ------------------------------
(***************************************************************************)
(* The scan loop of one daemon (internal/daemon/scan.go), the wallet it    *)
(* owns, the wallet file (pkg/database/db.go) and the process around it:   *)
(* crash, orderly exit and restart (cmd/blindbit-scan/main.go).            *)
(*                                                                         *)
(* The module covers one set of keys: nobody calls PUT /new-keys, so the   *)
(* daemon's context is never cancelled, "abort" stays false and exactly    *)
(* one ContinuousScan runs.                                                *)
(*                                                                         *)
(* The loop is sequential.  pc says where it stands:                       *)
(*   waiting  main waits for keys; no loop runs                            *)
(*   select   in the select statement of ContinuousScan                    *)
(*   mark     before MarkSpentUTXOs(i)                                     *)
(*   fetch    before syncBlock(i)                                          *)
(*   add      before AddUTXOs(owned)                                       *)
(*   height   before LastScanHeight = i                                    *)
(*   save     before the wallet file is truncated                          *)
(*   fill     between truncating and filling the wallet file               *)
(*   check    inside CheckUnspentUTXOs, todo still to ask about            *)
(*   dead     ContinuousScan has returned an error                         *)
(* and call which caller gets an error: "sync" (SyncToTip, whose error     *)
(* ContinuousScan only logs), "rescan" (ForceSyncFrom) or "check" (the     *)
(* electrum ticker), whose errors end ContinuousScan.                      *)
(***************************************************************************)
EXTENDS Wallet

CONSTANTS
  SaveInterval,   \* a block without own outputs saves every 100th height
  UseElectrum,    \* network.use_electrum
  ElectrumLags,   \* Electrum may not know a coin the oracle has indexed
  RescanHeights,  \* heights POST /rescan asks for
  RescanAhead,    \* a rescan may start beyond the next unscanned height
  Restarts        \* the process may crash or be interrupted, and start again

ASSUME ScannerAssumption ==
  /\ SaveInterval \in Nat \ {0}
  /\ RescanHeights \subseteq Nat \ {0}
  /\ {UseElectrum, ElectrumLags, RescanAhead, Restarts} \subseteq BOOLEAN

VARIABLES
  wallet,    \* d.Wallet
  disk,      \* the wallet file
  pending,   \* POST /rescan handlers blocked on TriggerRescanChan
  t1,        \* the initial trigger is still in its channel
  pc, call, i, chainTip, owned, todo   \* the loop's control and locals

memory == <<wallet, pending, t1>>
locals == <<pc, call, i, chainTip, owned, todo>>
vars == <<chainVars, memory, disk, locals>>

PC == {"waiting", "select", "mark", "fetch", "add", "height", "save", "fill",
       "check", "dead"}

\* The loop is working on block i.
BlockPC == {"mark", "fetch", "add", "height", "save", "fill"}

Disk == [status : {"absent", "torn", "ok"}, wallet : Wallet]
Absent == [status |-> "absent", wallet |-> ZeroWallet]
Torn == [status |-> "torn", wallet |-> ZeroWallet]
Saved(w) == [status |-> "ok", wallet |-> w]

TypeOK ==
  /\ ChainTypeOK
  /\ wallet \in Wallet
  /\ disk \in Disk
  /\ pending \subseteq RescanHeights
  /\ t1 \in BOOLEAN
  /\ pc \in PC
  /\ call \in {"none", "sync", "rescan", "check"}
  /\ i \in Nat
  /\ chainTip \in Nat
  /\ owned \in Collection
  /\ todo \subseteq UTXO
  /\ pc \in BlockPC => call \in {"sync", "rescan"} /\ i \in 1..chainTip

-----------------------------------------------------------------------------
(* Returning.  The locals of a finished call are reset.                    *)

Return(where) ==
  /\ pc' = where
  /\ call' = "none"
  /\ i' = 0
  /\ chainTip' = 0
  /\ owned' = NoUTXOs
  /\ todo' = {}

ReturnOk == Return("select")

\* Slip: an error sends the loop back to the same block until it goes well.
RetryForEver ==
  IF call = "check" THEN Return("dead")
  ELSE pc' = "mark" /\ owned' = NoUTXOs /\ UNCHANGED <<call, i, chainTip, todo>>

\* Every early "return err": SyncToTip's caller logs and goes on, the callers
\* of ForceSyncFrom and of the ticker's CheckUnspentUTXOs return it.
ReturnError == Return(IF call = "sync" THEN "select" ELSE "dead")

-----------------------------------------------------------------------------
(* Entering a sync.                                                        *)

\* CheckUnspentUTXOs: without electrum, or with nothing to ask, it returns.
UncheckedUTXOs == GetUTXOsByStates(wallet, {"unspent", "unconfirmed_spent"})

CheckUnspentUTXOs(caller) ==
  IF UseElectrum /\ UncheckedUTXOs # {}
    THEN /\ pc' = "check"
         /\ call' = caller
         /\ todo' = UncheckedUTXOs
         /\ i' = 0
         /\ chainTip' = 0
         /\ owned' = NoUTXOs
    ELSE ReturnOk

\* Slip: i <= chainTip+1 for i < chainTip+1.
LoopBeyondTip(caller, from, tip) ==
  IF from <= tip + 1
    THEN /\ pc' = "mark"
         /\ call' = caller
         /\ i' = from
         /\ chainTip' = tip
         /\ owned' = NoUTXOs
         /\ todo' = {}
    ELSE CheckUnspentUTXOs(caller)

\* The for loop from height "from" to height "tip", or what follows it.
Loop(caller, from, tip) ==
  IF from <= tip
    THEN /\ pc' = "mark"
         /\ call' = caller
         /\ i' = from
         /\ chainTip' = tip
         /\ owned' = NoUTXOs
         /\ todo' = {}
    ELSE CheckUnspentUTXOs(caller)

\* Slip: startHeight >= chainTip for startHeight > chainTip.
SyncToTipShort(tip) ==
  IF NextHeight(wallet) >= tip THEN UNCHANGED locals
                               ELSE Loop("sync", NextHeight(wallet), tip)

\* SyncToTip returns early when nothing is left to scan, before the loop and
\* before asking electrum.
SyncToTip(tip) ==
  IF NextHeight(wallet) > tip THEN UNCHANGED locals
                              ELSE Loop("sync", NextHeight(wallet), tip)

Select == pc = "select"

\* case <-t1: SyncToTip(0) asks the oracle for the tip, which may fail.
InitialScan(ok) ==
  /\ Select
  /\ t1
  /\ t1' = FALSE
  /\ IF ok THEN SyncToTip(indexed) ELSE UNCHANGED locals
  /\ UNCHANGED <<chainVars, wallet, pending, disk>>

\* case newBlock := <-d.NewBlockChan: electrum announces any mined height,
\* which the oracle may not serve yet.
NewBlock(h) ==
  /\ Select
  /\ UseElectrum
  /\ h \in 1..mined
  /\ SyncToTip(h)
  /\ UNCHANGED <<chainVars, memory, disk>>

\* Slip: the ticker waits until the wallet is two blocks behind.
TickTwoBehind(ok) ==
  /\ Select
  /\ IF ok /\ indexed > wallet.last + 1 THEN SyncToTip(indexed)
                                        ELSE UNCHANGED locals
  /\ UNCHANGED <<chainVars, memory, disk>>

\* case <-ticker.C: an error leaves chainTip 0; a tip below the last scanned
\* height is skipped.
Tick(ok) ==
  /\ Select
  /\ IF ok /\ indexed >= wallet.last THEN SyncToTip(indexed)
                                     ELSE UNCHANGED locals
  /\ UNCHANGED <<chainVars, memory, disk>>

\* Slip: the height asked for counts as scanned, as LastScanHeight does.
TakeRescanAfter(h, ok) ==
  /\ Select
  /\ h \in pending
  /\ pending' = pending \ {h}
  /\ IF ok THEN Loop("rescan", h + 1, indexed) ELSE Return("dead")
  /\ UNCHANGED <<chainVars, wallet, t1, disk>>

\* case height := <-d.TriggerRescanChan: ForceSyncFrom(height).
TakeRescan(h, ok) ==
  /\ Select
  /\ h \in pending
  /\ pending' = pending \ {h}
  /\ IF ok THEN Loop("rescan", h, indexed) ELSE Return("dead")
  /\ UNCHANGED <<chainVars, wallet, t1, disk>>

\* the one-minute ticker of the select statement
CheckTick ==
  /\ Select
  /\ UseElectrum
  /\ CheckUnspentUTXOs("check")
  /\ UNCHANGED <<chainVars, memory, disk>>

-----------------------------------------------------------------------------
(* One block.                                                              *)

\* Slip: the error of MarkSpentUTXOs is logged and the block goes on.
MarkSpentIgnoringErrors(ok) ==
  /\ pc = "mark"
  /\ ok => Serves(i)
  /\ wallet' = IF ok THEN SetStates(wallet, SpentIn(i) \cap Known(wallet), "spent")
                     ELSE wallet
  /\ pc' = "fetch"
  /\ UNCHANGED <<chainVars, pending, t1, disk, call, i, chainTip, owned, todo>>

\* Slip: MarkSpentUTXOs is left out of the loop.
MarkNothing(ok) ==
  /\ pc = "mark"
  /\ IF ok THEN /\ Serves(i)
                /\ pc' = "fetch"
                /\ UNCHANGED <<call, i, chainTip, owned, todo>>
           ELSE ReturnError
  /\ UNCHANGED <<chainVars, memory, disk>>

\* MarkSpentUTXOs(i): the filter has no false negatives, so the spent index is
\* read whenever it names a coin of the wallet.  Any request may fail.
MarkSpentUTXOs(ok) ==
  /\ pc = "mark"
  /\ IF ok
       THEN /\ Serves(i)
            /\ wallet' = SetStates(wallet, SpentIn(i) \cap Known(wallet), "spent")
            /\ pc' = "fetch"
            /\ UNCHANGED <<call, i, chainTip, owned, todo>>
       ELSE ReturnError /\ UNCHANGED wallet
  /\ UNCHANGED <<chainVars, pending, t1, disk>>

\* Slip: the "spent" flag of the oracle is not read.
FoundUnspent(h) ==
  [u \in UTXO |-> IF u \in CreatedIn(h) THEN "unspent" ELSE "unknown"]

\* syncBlock(i): the outputs of block i that the keys match, "spent" when the
\* oracle says so as of now.  With none it returns nil, which skips AddUTXOs.
Found(h) ==
  [u \in UTXO |-> IF u \notin CreatedIn(h) THEN "unknown"
                  ELSE IF ServedSpent(u) THEN "spent" ELSE "unspent"]

\* Slip: LastScanHeight = i before AddUTXOs.
SyncBlockHeightFirst(ok) ==
  /\ pc = "fetch"
  /\ IF ok
       THEN /\ owned' = Found(i)
            /\ wallet' = [wallet EXCEPT !.last = i]
            /\ pc' = IF owned' = NoUTXOs THEN "height" ELSE "add"
            /\ UNCHANGED <<call, i, chainTip, todo>>
       ELSE ReturnError /\ UNCHANGED wallet
  /\ UNCHANGED <<chainVars, pending, t1, disk>>

SyncBlock(ok) ==
  /\ pc = "fetch"
  /\ IF ok
       THEN /\ owned' = Found(i)
            /\ pc' = IF owned' = NoUTXOs THEN "height" ELSE "add"
            /\ UNCHANGED <<call, i, chainTip, todo>>
       ELSE ReturnError
  /\ UNCHANGED <<chainVars, memory, disk>>

AddOwnedUTXOs ==
  /\ pc = "add"
  /\ wallet' = AddUTXOs(wallet, owned)
  /\ pc' = "height"
  /\ UNCHANGED <<chainVars, pending, t1, disk, call, i, chainTip, owned, todo>>

\* LastScanHeight = i; then save, or go on with the next block.
SetLastScanHeight ==
  /\ pc = "height"
  /\ wallet' = [wallet EXCEPT !.last = i]
  /\ IF owned # NoUTXOs \/ i % SaveInterval = 0
       THEN pc' = "save" /\ UNCHANGED <<call, i, chainTip, owned, todo>>
       ELSE Loop(call, i + 1, chainTip)
  /\ UNCHANGED <<chainVars, pending, t1, disk>>

\* WriteWalletToDB: os.WriteFile truncates the file and then fills it; opening
\* it may fail, and so may the write.
TruncateFile(ok) ==
  /\ pc = "save"
  /\ IF ok
       THEN /\ disk' = Torn
            /\ pc' = "fill"
            /\ UNCHANGED <<call, i, chainTip, owned, todo>>
       ELSE ReturnError /\ UNCHANGED disk
  /\ UNCHANGED <<chainVars, memory>>

FillFile(ok) ==
  /\ pc = "fill"
  /\ IF ok
       THEN /\ disk' = Saved(wallet)
            /\ Loop(call, i + 1, chainTip)
       ELSE ReturnError /\ UNCHANGED disk
  /\ UNCHANGED <<chainVars, memory>>

\* Slip: a pending spend counts as a confirmed one.
CheckUTXOPendingIsSpent(u, answer) ==
  /\ pc = "check"
  /\ u \in todo
  /\ answer = "gone" => ElectrumLags \/ MinedSpent(u)
  /\ wallet' = IF answer \in {"gone", "pending"} THEN SetStates(wallet, {u}, "spent")
                                                 ELSE wallet
  /\ IF answer = "error" THEN ReturnError
     ELSE IF todo = {u} THEN ReturnOk
     ELSE todo' = todo \ {u} /\ UNCHANGED <<pc, call, i, chainTip, owned>>
  /\ UNCHANGED <<chainVars, pending, t1, disk>>

\* One electrum balance: "gone" is confirmed and unconfirmed both zero,
\* "pending" a negative unconfirmed balance, "funded" anything else.
CheckUTXO(u, answer) ==
  /\ pc = "check"
  /\ u \in todo
  /\ answer = "gone" => ElectrumLags \/ MinedSpent(u)
  /\ wallet' = CASE answer = "gone" -> SetStates(wallet, {u}, "spent")
                 [] answer = "pending" -> SetStates(wallet, {u}, "unconfirmed_spent")
                 [] OTHER -> wallet
  /\ IF answer = "error" THEN ReturnError
     ELSE IF todo = {u} THEN ReturnOk
     ELSE todo' = todo \ {u} /\ UNCHANGED <<pc, call, i, chainTip, owned>>
  /\ UNCHANGED <<chainVars, pending, t1, disk>>

-----------------------------------------------------------------------------
(* Requests, and the process.                                              *)

\* POST /rescan: the handler blocks on the unbuffered channel.  Without
\* RescanAhead, callers stay at or below the next height to scan.
PostRescan(h) ==
  /\ h \notin pending
  /\ RescanAhead \/ h <= NextHeight(wallet)
  /\ pending' = pending \cup {h}
  /\ UNCHANGED <<chainVars, wallet, t1, disk, locals>>

\* TryLoadWalletFromDisk: no file makes a wallet from the config-file, a file
\* that does not parse leaves the zero wallet (main only warns).
Load(file) == IF file.status = "absent" THEN SetupWallet ELSE file.wallet

Start(w) ==
  /\ wallet' = w
  /\ pending' = {}
  /\ t1' = w.keyed
  /\ Return(IF w.keyed THEN "select" ELSE "waiting")

Crash ==
  /\ Restarts
  /\ Start(Load(disk))
  /\ UNCHANGED <<chainVars, disk>>

\* An interrupt ends main, which saves the wallet on the way out while the
\* loop still runs: the loop may truncate the file again before the end, and
\* a kill may cut the save itself.
Interrupt ==
  /\ Restarts
  /\ disk' \in {Saved(wallet), Torn}
  /\ Start(Load(disk'))
  /\ UNCHANGED chainVars

-----------------------------------------------------------------------------
Init ==
  /\ ChainInit
  /\ wallet = SetupWallet
  /\ disk = Absent
  /\ pending = {}
  /\ t1 = TRUE
  /\ pc = "select"
  /\ call = "none"
  /\ i = 0
  /\ chainTip = 0
  /\ owned = NoUTXOs
  /\ todo = {}

ChainStep == ChainNext /\ UNCHANGED <<memory, disk, locals>>

Entry ==
  \/ \E ok \in BOOLEAN : InitialScan(ok) \/ Tick(ok)
  \/ \E h \in Height : NewBlock(h)
  \/ \E h \in RescanHeights, ok \in BOOLEAN : TakeRescan(h, ok)
  \/ CheckTick

Block ==
  \/ \E ok \in BOOLEAN :
       \/ MarkSpentUTXOs(ok)
       \/ SyncBlock(ok)
       \/ TruncateFile(ok)
       \/ FillFile(ok)
  \/ AddOwnedUTXOs
  \/ SetLastScanHeight
  \/ \E u \in UTXO, answer \in {"funded", "pending", "gone", "error"} :
       CheckUTXO(u, answer)

Next ==
  \/ ChainStep
  \/ Entry
  \/ Block
  \/ \E h \in RescanHeights : PostRescan(h)
  \/ Crash
  \/ Interrupt

Spec == Init /\ [][Next]_vars

-----------------------------------------------------------------------------
(* Safety.                                                                 *)

\* The scanner as an implementation of WalletView: readers see the wallet in
\* memory, a start would load what TryLoadWalletFromDisk makes of the file.
View == INSTANCE WalletView WITH view <- wallet, saved <- Load(disk)

\* Every step of the loop, of a request or of the process is a step of WalletView
\* or invisible to it: knowledge only grows within a run of the process, the
\* height never skips one, and a restart loads a wallet that was once saved.
ImplementsView == View!ViewSpec

\* The wallet in memory never claims more than it has seen: every coin of the
\* scanned heights is known, and "spent" if one of them spends it, wherever the
\* loop stands, whatever failed, and however often a range was rescanned.
MemoryConsistent == Consistent(wallet)

\* So is the wallet a restart would load: the height on disk is never ahead of
\* the coins and the spends saved with it (WriteWalletToDB after AddUTXOs and
\* LastScanHeight = i, and the flush at exit wherever the loop stands).
DiskConsistent == Consistent(disk.wallet)

\* Without a lagging Electrum no coin is written off: "spent", in memory or on
\* disk, means that a mined block spends it.
NoCoinWrittenOff ==
  ~ElectrumLags => SpentIsSpent(wallet) /\ SpentIsSpent(disk.wallet)

\* "last scan was last height which has already been processed. Scanning will
\* continue with the lastScanHeight + 1" (wallet.go:42): no coin of a height at
\* or below the last is missing, whatever heights rescans start from.
LastHeightProcessed == Complete(wallet)

\* "Will try to load a wallet from disk or will create a new one based on the
\* blindbit.toml config-file" (daemon.go:27): the config-file has the keys, so
\* that every start of the process ends with a wallet that has them.
KeysSurvive == wallet.keyed

\* Within one run of the process a coin is never forgotten and never goes back:
\* a rescan that finds a coin again does not undo what was learned about it
\* since (UTXOMapping, "used to keep track of utxos and not add the same twice").
StatesOnlyAdvance ==
  [][Crash \/ Interrupt \/
     \A u \in UTXO : View!Rank(wallet.utxos[u]) <= View!Rank(wallet'.utxos[u])]_vars

-----------------------------------------------------------------------------
(* The inductive invariant behind MemoryConsistent and DiskConsistent when  *)
(* no rescan starts ahead of the next height.  Each conjunct is a reason.   *)

\* A wallet claims heights the oracle has served, or it is one whose scan
\* has not reached its first height.
Behind(w) == w.last <= indexed \/ w.last < FirstHeight

\* The block in work is at or below the next height, so that recording it
\* leaves no gap; a sync works on the next height itself.
NoGapAhead ==
  /\ pc \in {"mark", "fetch", "add", "height"} =>
       /\ i <= NextHeight(wallet)
       /\ call = "sync" => i = NextHeight(wallet)
  /\ pc \in {"save", "fill"} =>
       /\ i = wallet.last
       /\ call = "sync" => i >= BirthHeight

\* What the earlier steps on block i established for the later ones.
BlockProgress ==
  /\ pc \in BlockPC \ {"mark"} => Serves(i)
  /\ pc \in {"fetch", "add", "height"} =>
       \A u \in Known(wallet) : spentAt[u] = i => wallet.utxos[u] = "spent"
  /\ pc = "add" =>
       \A u \in UTXO :
         /\ owned[u] # "unknown" <=> createdAt[u] = i
         /\ owned[u] = "unspent" => spentAt[u] \notin Scanned(wallet) \cup {i}
         /\ owned[u] # "unconfirmed_spent"
  /\ pc = "height" => CreatedIn(i) \subseteq Known(wallet)

\* A waiting rescan starts at or below the next height, or it will once the
\* rescan in work has brought the height back up to its chain tip.
NextAfter(h) == IF h >= BirthHeight THEN h + 1 ELSE BirthHeight

PendingInReach ==
  /\ pc \in BlockPC /\ call = "rescan" =>
       /\ NextHeight(wallet) <= NextAfter(chainTip)
       /\ \A h \in pending : h <= NextAfter(chainTip)
  /\ ~(pc \in BlockPC /\ call = "rescan") /\ pc # "dead" =>
       \A h \in pending : h <= NextHeight(wallet)

\* The coins still to ask electrum about are not spent yet.
TodoUnchecked == pc = "check" => todo \subseteq UncheckedUTXOs

WalletInv(w) == Consistent(w) /\ Behind(w)

LoopInv == NoGapAhead /\ BlockProgress /\ PendingInReach /\ TodoUnchecked

ScanInv ==
  /\ ChainWellFormed
  /\ WalletInv(wallet)
  /\ WalletInv(disk.wallet)
  /\ LoopInv

-----------------------------------------------------------------------------
(* Fairness.  The goroutine runs; the oracle keeps indexing; the select    *)
(* statement picks among ready cases at random, so a case that is ready    *)
(* again and again is taken; and an oracle asked about a block again and   *)
(* again answers once.  Nothing makes a block be mined, a rescan be        *)
(* posted, or electrum or the file system succeed.                         *)

Fairness ==
  /\ WF_vars(IndexBlock /\ UNCHANGED <<memory, disk, locals>>)
  /\ WF_vars(Block)
  /\ SF_vars(Tick(TRUE))
  /\ \A h \in RescanHeights : SF_vars(\E ok \in BOOLEAN : TakeRescan(h, ok))
  /\ \A h \in 1..MaxHeight : /\ SF_vars(i = h /\ MarkSpentUTXOs(TRUE))
                             /\ SF_vars(i = h /\ SyncBlock(TRUE))

FairSpec == Spec /\ Fairness

\* While the loop lives, every output paid to the wallet at or after its first
\* height is found once it is mined, although the oracle lags the chain,
\* requests fail and NewBlock asks for heights that are not indexed yet.
EveryCoinFound ==
  \A u \in UTXO : createdAt[u] \in FirstHeight..mined
                   ~> u \in Known(wallet) \/ pc = "dead"

\* While the loop lives, a coin spent in a block it has to scan ends up spent.
EverySpendFound ==
  \A u \in UTXO : createdAt[u] \in FirstHeight..mined /\ MinedSpent(u)
                   ~> wallet.utxos[u] = "spent" \/ pc = "dead"

\* A POST /rescan handler does not wait for ever for a loop that lives.
RescanServed ==
  \A h \in RescanHeights : h \in pending ~> h \notin pending \/ pc = "dead"

\* "check every 5 minutes anyway" (scan.go:348): the loop always gets back to
\* its select statement, where the automatic scan is one of the cases.
ChecksForEver == []<>Select

\* The height is never stuck: the loop has scanned all that the oracle serves
\* again and again (each rescan takes the height back for a while).
CatchesUp == []<>(NextHeight(wallet) > indexed \/ pc = "dead")
=============================================================================
