---------------------------- MODULE ScannerProofs ---------------------------
(***************************************************************************)
(* Proofs about Scanner, for every set of outputs, every chain, every      *)
(* birth height and save interval, with crashes and failing requests.      *)
(***************************************************************************)
EXTENDS Scanner, TLAPS

USE MaxHeightAssumption, ConfigBirthAssumption, ScannerAssumption

-----------------------------------------------------------------------------
(* Heights.                                                                *)

\* SetupWallet's heights are positive and the first scanned height is at most
\* one above the birth height.
LEMMA BirthFacts ==
  /\ BirthHeight \in Nat \ {0}
  /\ SetupLastScanHeight \in Nat \ {0}
  /\ FirstHeight = SetupLastScanHeight + 1
  /\ FirstHeight >= BirthHeight
  /\ FirstHeight <= BirthHeight + 1
  /\ FirstHeight > BirthHeight => BirthHeight = 1
BY DEF BirthHeight, SetupLastScanHeight, FirstHeight

\* The next height of a sync is positive and above the last scanned one.
LEMMA NextHeightFacts ==
  ASSUME NEW w \in Wallet
  PROVE  /\ w.last \in Nat
         /\ NextHeight(w) \in Nat \ {0}
         /\ NextHeight(w) > w.last
         /\ NextHeight(w) >= BirthHeight
         /\ w.last >= BirthHeight => NextHeight(w) = w.last + 1
         /\ w.last < BirthHeight => NextHeight(w) = BirthHeight
BY BirthFacts DEF NextHeight, Wallet

\* The wallets the code builds from nothing are wallets.
LEMMA WalletTypes ==
  /\ NoUTXOs \in Collection
  /\ SetupWallet \in Wallet
  /\ ZeroWallet \in Wallet
  /\ Absent \in Disk
  /\ Torn \in Disk
  /\ \A w \in Wallet : Saved(w) \in Disk
  /\ \A file \in Disk : Load(file) \in Wallet
BY BirthFacts DEF NoUTXOs, Collection, SetupWallet, ZeroWallet, Wallet, Absent,
   Torn, Saved, Disk, Load

\* The operations on a collection keep it a collection.
LEMMA OperationTypes ==
  ASSUME NEW w \in Wallet
  PROVE  /\ \A found \in Collection : AddUTXOs(w, found) \in Wallet
         /\ \A us \in SUBSET UTXO, state \in UTXOState : SetStates(w, us, state) \in Wallet
         /\ \A h \in Nat : [w EXCEPT !.last = h] \in Wallet
         /\ \A states : GetUTXOsByStates(w, states) \subseteq UTXO
BY DEF AddUTXOs, SetStates, Wallet, Collection, GetUTXOsByStates, UTXOState

-----------------------------------------------------------------------------
(* Type correctness.                                                       *)

\* The part of TypeOK about the loop's control and locals.
LocalsOK ==
  /\ pc \in PC
  /\ call \in {"none", "sync", "rescan", "check"}
  /\ i \in Nat
  /\ chainTip \in Nat
  /\ owned \in Collection
  /\ todo \subseteq UTXO
  /\ pc \in BlockPC => call \in {"sync", "rescan"} /\ i \in 1..chainTip

\* A return leaves well-typed locals.
LEMMA ReturnTypes ==
  ASSUME NEW p \in PC \ BlockPC, Return(p)
  PROVE  LocalsOK'
BY WalletTypes DEF Return, LocalsOK

\* So does an early return of an error.
LEMMA ReturnErrorTypes == ASSUME ReturnError PROVE LocalsOK'
BY ReturnTypes DEF ReturnError, PC, BlockPC

\* Entering CheckUnspentUTXOs, or skipping it, leaves well-typed locals.
LEMMA CheckTypes ==
  ASSUME TypeOK, NEW c \in {"sync", "rescan", "check"}, CheckUnspentUTXOs(c)
  PROVE  LocalsOK'
<1>1. CASE UseElectrum /\ UncheckedUTXOs # {}
  BY <1>1, WalletTypes, OperationTypes
     DEF CheckUnspentUTXOs, LocalsOK, PC, BlockPC, UncheckedUTXOs, TypeOK
<1>2. CASE ~(UseElectrum /\ UncheckedUTXOs # {})
  BY <1>2, ReturnTypes DEF CheckUnspentUTXOs, ReturnOk, PC, BlockPC
<1> QED BY <1>1, <1>2

\* The loop starts within the range it is given, or not at all.
LEMMA LoopTypes ==
  ASSUME TypeOK, NEW c \in {"sync", "rescan"}, NEW from \in Nat \ {0},
         NEW tip \in Nat, Loop(c, from, tip)
  PROVE  LocalsOK'
<1>1. CASE from <= tip
  BY <1>1, WalletTypes DEF Loop, LocalsOK, PC, BlockPC
<1>2. CASE ~(from <= tip)
  BY <1>2, CheckTypes DEF Loop
<1> QED BY <1>1, <1>2

\* SyncToTip starts the loop at a positive height.
LEMMA SyncToTipTypes ==
  ASSUME TypeOK, NEW tip \in Nat, SyncToTip(tip)
  PROVE  LocalsOK'
<1> USE DEF TypeOK
<1>1. CASE NextHeight(wallet) > tip
  BY <1>1 DEF SyncToTip, locals, LocalsOK
<1>2. CASE ~(NextHeight(wallet) > tip)
  BY <1>2, NextHeightFacts, LoopTypes DEF SyncToTip
<1> QED BY <1>1, <1>2

\* Every step of the chain, the loop, the requests and the process keeps the
\* types.
LEMMA TypeStep == TypeOK /\ [Next]_vars => TypeOK'
<1> SUFFICES ASSUME TypeOK, [Next]_vars PROVE TypeOK'
  OBVIOUS
<1> USE DEF TypeOK, LocalsOK
<1>1. CASE ChainStep
  BY <1>1 DEF ChainStep, ChainNext, MineBlock, IndexBlock, ChainTypeOK,
     ChainWellFormed, Height, memory, locals
<1>2. ASSUME NEW ok \in BOOLEAN, InitialScan(ok)
      PROVE  TypeOK'
  <2>1. indexed \in Nat
    BY DEF ChainTypeOK, Height
  <2>2. LocalsOK'
    BY <1>2, <2>1, SyncToTipTypes DEF InitialScan, locals
  <2> QED
    BY <1>2, <2>2 DEF InitialScan, chainVars, ChainTypeOK
<1>3. ASSUME NEW ok \in BOOLEAN, Tick(ok)
      PROVE  TypeOK'
  <2>1. indexed \in Nat
    BY DEF ChainTypeOK, Height
  <2>2. LocalsOK'
    BY <1>3, <2>1, SyncToTipTypes DEF Tick, locals
  <2> QED
    BY <1>3, <2>2 DEF Tick, chainVars, memory, ChainTypeOK
<1>4. ASSUME NEW h \in Height, NewBlock(h)
      PROVE  TypeOK'
  <2>1. LocalsOK'
    BY <1>4, SyncToTipTypes DEF NewBlock, Height
  <2> QED
    BY <1>4, <2>1 DEF NewBlock, chainVars, memory, ChainTypeOK
<1>5. ASSUME NEW h \in RescanHeights, NEW ok \in BOOLEAN, TakeRescan(h, ok)
      PROVE  TypeOK'
  <2>1. indexed \in Nat /\ h \in Nat \ {0}
    BY DEF ChainTypeOK, Height
  <2>2. LocalsOK'
    BY <1>5, <2>1, LoopTypes, ReturnTypes DEF TakeRescan, PC, BlockPC
  <2> QED
    BY <1>5, <2>2 DEF TakeRescan, chainVars, ChainTypeOK
<1>6. CASE CheckTick
  <2>1. LocalsOK'
    BY <1>6, CheckTypes DEF CheckTick
  <2> QED
    BY <1>6, <2>1 DEF CheckTick, chainVars, memory, ChainTypeOK
<1>7. ASSUME NEW ok \in BOOLEAN, MarkSpentUTXOs(ok)
      PROVE  TypeOK'
  <2>1. LocalsOK'
    BY <1>7, ReturnErrorTypes DEF MarkSpentUTXOs, PC, BlockPC
  <2>2. wallet' \in Wallet
    BY <1>7, OperationTypes DEF MarkSpentUTXOs, SpentIn, UTXOState
  <2> QED
    BY <1>7, <2>1, <2>2 DEF MarkSpentUTXOs, chainVars, ChainTypeOK
<1>8. ASSUME NEW ok \in BOOLEAN, SyncBlock(ok)
      PROVE  TypeOK'
  <2>1. Found(i) \in Collection
    BY DEF Found, Collection, UTXOState
  <2>2. LocalsOK'
    BY <1>8, <2>1, ReturnErrorTypes DEF SyncBlock, PC, BlockPC
  <2> QED
    BY <1>8, <2>2 DEF SyncBlock, chainVars, memory, ChainTypeOK
<1>9. CASE AddOwnedUTXOs
  <2>1. wallet' \in Wallet
    BY <1>9, OperationTypes DEF AddOwnedUTXOs
  <2> QED
    BY <1>9, <2>1 DEF AddOwnedUTXOs, chainVars, ChainTypeOK, PC, BlockPC
<1>10. CASE SetLastScanHeight
  <2>1. wallet' \in Wallet
    BY <1>10, OperationTypes DEF SetLastScanHeight
  <2>2. call \in {"sync", "rescan"} /\ i + 1 \in Nat \ {0}
    BY <1>10 DEF SetLastScanHeight, PC, BlockPC
  <2>3. LocalsOK'
    BY <1>10, <2>2, LoopTypes DEF SetLastScanHeight, PC, BlockPC
  <2> QED
    BY <1>10, <2>1, <2>3 DEF SetLastScanHeight, chainVars, ChainTypeOK
<1>11. ASSUME NEW ok \in BOOLEAN, TruncateFile(ok)
       PROVE  TypeOK'
  <2>1. LocalsOK'
    BY <1>11, ReturnErrorTypes DEF TruncateFile, PC, BlockPC
  <2> QED
    BY <1>11, <2>1, WalletTypes DEF TruncateFile, chainVars, memory, ChainTypeOK
<1>12. ASSUME NEW ok \in BOOLEAN, FillFile(ok)
       PROVE  TypeOK'
  <2>1. call \in {"sync", "rescan"} /\ i + 1 \in Nat \ {0}
    BY <1>12 DEF FillFile, PC, BlockPC
  <2>2. LocalsOK'
    BY <1>12, <2>1, LoopTypes, ReturnErrorTypes DEF FillFile
  <2> QED
    BY <1>12, <2>2, WalletTypes DEF FillFile, chainVars, memory, ChainTypeOK
<1>13. ASSUME NEW u \in UTXO, NEW answer \in {"funded", "pending", "gone", "error"},
              CheckUTXO(u, answer)
       PROVE  TypeOK'
  <2>1. wallet' \in Wallet
    BY <1>13, OperationTypes, Zenon DEF CheckUTXO, UTXOState
  <2>2. LocalsOK'
    BY <1>13, ReturnErrorTypes, ReturnTypes DEF CheckUTXO, ReturnOk, PC, BlockPC
  <2> QED
    BY <1>13, <2>1, <2>2 DEF CheckUTXO, chainVars, ChainTypeOK
<1>14. ASSUME NEW h \in RescanHeights, PostRescan(h)
       PROVE  TypeOK'
  BY <1>14 DEF PostRescan, chainVars, locals, ChainTypeOK
<1>15. ASSUME NEW w \in Wallet, Start(w)
       PROVE  /\ wallet' \in Wallet
              /\ pending' \subseteq RescanHeights
              /\ t1' \in BOOLEAN
              /\ LocalsOK'
  <2>1. LocalsOK'
    BY <1>15, ReturnTypes DEF Start, PC, BlockPC
  <2> QED
    BY <1>15, <2>1 DEF Start, Wallet
<1>16. CASE Crash
  <2>1. Load(disk) \in Wallet
    BY WalletTypes
  <2> QED
    BY <1>15, <1>16, <2>1 DEF Crash, chainVars, ChainTypeOK
<1>17. CASE Interrupt
  <2>1. disk' \in Disk
    BY <1>17, WalletTypes DEF Interrupt
  <2>2. Load(disk') \in Wallet
    BY <2>1, WalletTypes
  <2> QED
    BY <1>15, <1>17, <2>1, <2>2 DEF Interrupt, chainVars, ChainTypeOK
<1>18. CASE UNCHANGED vars
  BY <1>18 DEF vars, chainVars, memory, locals, ChainTypeOK
<1> QED
  BY <1>1, <1>2, <1>3, <1>4, <1>5, <1>6, <1>7, <1>8, <1>9, <1>10, <1>11, <1>12,
     <1>13, <1>14, <1>16, <1>17, <1>18 DEF Next, Entry, Block

\* The types hold when the process starts.
LEMMA TypeInit == Init => TypeOK
BY WalletTypes DEF Init, ChainInit, TypeOK, PC, BlockPC

\* The variables of the scanner, its wallet and its file keep their types, and
\* the loop never leaves the range of heights it was sent to scan.
THEOREM TypeCorrect == Spec => []TypeOK
BY TypeInit, TypeStep, PTL DEF Spec

-----------------------------------------------------------------------------
(* The wallet keeps its promises: what each operation does to WalletInv.   *)

\* A wallet built from nothing promises nothing.
LEMMA FreshWalletInv ==
  /\ WalletInv(SetupWallet)
  /\ WalletInv(ZeroWallet)
BY BirthFacts DEF WalletInv, Consistent, Complete, SpendsSeen, NoPhantom, Behind,
   Known, Scanned, SetupWallet, ZeroWallet, NoUTXOs

\* More of the chain being mined or indexed breaks no promise, so a wallet that
\* keeps them now keeps them as the next state's wallet or file.
LEMMA WalletInvKept ==
  ASSUME ChainTypeOK, ChainNext \/ UNCHANGED chainVars,
         NEW w \in Wallet, WalletInv(w)
  PROVE  /\ wallet' = w => WalletInv(wallet)'
         /\ disk'.wallet = w => WalletInv(disk.wallet)'
<1>1. /\ createdAt' = createdAt
      /\ spentAt' = spentAt
      /\ indexed \in Nat
      /\ indexed' \in Nat
      /\ indexed' >= indexed
      /\ createdAt \in [UTXO -> Nat]
  BY DEF ChainTypeOK, ChainNext, MineBlock, IndexBlock, Height, chainVars
<1> QED
  BY <1>1, BirthFacts DEF WalletInv, Consistent, Complete, SpendsSeen, NoPhantom,
     Behind, Known, Scanned, Serves, Wallet

\* Marking coins "spent" breaks no promise.
LEMMA MarkSpentInv ==
  ASSUME NEW w \in Wallet, WalletInv(w), NEW us \in SUBSET Known(w)
  PROVE  WalletInv(SetStates(w, us, "spent"))
BY DEF WalletInv, Consistent, Complete, SpendsSeen, NoPhantom, Behind, Known,
   Scanned, SetStates, Wallet

\* A known coin that is not spent in a scanned block may become
\* "unconfirmed_spent".
LEMMA MarkPendingInv ==
  ASSUME NEW w \in Wallet, WalletInv(w),
         NEW u \in GetUTXOsByStates(w, {"unspent", "unconfirmed_spent"})
  PROVE  WalletInv(SetStates(w, {u}, "unconfirmed_spent"))
BY DEF WalletInv, Consistent, Complete, SpendsSeen, NoPhantom, Behind, Known,
   Scanned, SetStates, Wallet, GetUTXOsByStates

\* Coins of block h may be added when the oracle serves h and those spent in a
\* scanned block come as "spent".
LEMMA AddInv ==
  ASSUME NEW w \in Wallet, WalletInv(w), NEW found \in Collection, NEW h, Serves(h),
         \A u \in UTXO :
           /\ found[u] # "unknown" <=> createdAt[u] = h
           /\ found[u] = "unspent" => spentAt[u] \notin Scanned(w),
         \A u \in UTXO : found[u] # "unconfirmed_spent"
  PROVE  WalletInv(AddUTXOs(w, found))
BY DEF WalletInv, Consistent, Complete, SpendsSeen, NoPhantom, Behind, Known,
   Scanned, AddUTXOs, Wallet, Collection, UTXOState

\* The height may become h when h leaves no gap, is served, and the coins h
\* creates are known and those it spends are spent.
LEMMA SetLastInv ==
  ASSUME NEW w \in Wallet, WalletInv(w), ChainTypeOK,
         NEW h \in Nat, Serves(h), h <= NextHeight(w),
         CreatedIn(h) \subseteq Known(w),
         \A u \in Known(w) : spentAt[u] = h => w.utxos[u] = "spent"
  PROVE  WalletInv([w EXCEPT !.last = h])
<1> DEFINE v == [w EXCEPT !.last = h]
<1>1. v \in Wallet /\ v.last = h /\ v.utxos = w.utxos
  BY DEF Wallet
<1>2. ASSUME NEW k \in Nat, k \in Scanned(v)
      PROVE  k \in Scanned(w) \/ k = h
  BY <1>1, <1>2, BirthFacts, NextHeightFacts DEF Scanned
<1>3. createdAt \in [UTXO -> Nat] /\ spentAt \in [UTXO -> Nat] /\ indexed \in Nat
  BY DEF ChainTypeOK, Height
<1>4. Complete(v)
  BY <1>1, <1>2, <1>3 DEF Complete, WalletInv, Consistent, CreatedIn, Known
<1>5. SpendsSeen(v)
  BY <1>1, <1>2, <1>3 DEF SpendsSeen, WalletInv, Consistent, Known
<1>6. NoPhantom(v) /\ Behind(v)
  BY <1>1, <1>3 DEF NoPhantom, Behind, Serves, WalletInv, Consistent, Known
<1> QED
  BY <1>4, <1>5, <1>6 DEF WalletInv, Consistent

-----------------------------------------------------------------------------
(* The loop keeps its place: what entering and leaving a call establishes.  *)

\* Outside the block steps only waiting rescans and electrum's list matter.
LEMMA ReturnInv ==
  ASSUME NEW p \in {"select", "dead", "waiting"}, Return(p),
         p # "dead" => \A h \in pending' : h <= NextHeight(wallet')
  PROVE  LoopInv'
BY DEF Return, LoopInv, NoGapAhead, BlockProgress, PendingInReach, TodoUnchecked,
   BlockPC

\* An error return leaves the waiting rescans in reach: a failed sync has only
\* raised the height, and nothing takes a rescan from a dead loop.
LEMMA ReturnErrorInv ==
  ASSUME TypeOK, PendingInReach, ReturnError, pending' = pending,
         pc \in BlockPC \cup {"check"}, wallet'.last = wallet.last
  PROVE  LoopInv'
<1>1. NextHeight(wallet') = NextHeight(wallet)
  BY DEF NextHeight
<1>2. CASE call = "sync"
  <2>1. \A h \in pending' : h <= NextHeight(wallet')
    BY <1>1, <1>2 DEF PendingInReach, BlockPC
  <2> QED
    BY <1>2, <2>1, ReturnInv DEF ReturnError
<1>3. CASE call # "sync"
  BY <1>3, ReturnInv DEF ReturnError
<1> QED
  BY <1>2, <1>3

\* CheckUnspentUTXOs starts with unspent coins only.
LEMMA CheckInv ==
  ASSUME NEW c, CheckUnspentUTXOs(c), wallet'.utxos = wallet.utxos,
         \A h \in pending' : h <= NextHeight(wallet')
  PROVE  LoopInv'
<1>1. CASE UseElectrum /\ UncheckedUTXOs # {}
  BY <1>1 DEF CheckUnspentUTXOs, LoopInv, NoGapAhead, BlockProgress, PendingInReach,
     TodoUnchecked, BlockPC, UncheckedUTXOs, GetUTXOsByStates
<1>2. CASE ~(UseElectrum /\ UncheckedUTXOs # {})
  BY <1>2, ReturnInv DEF CheckUnspentUTXOs, ReturnOk
<1> QED
  BY <1>1, <1>2

\* The loop may start, or go on, at a height that leaves no gap.
LEMMA LoopStartInv ==
  ASSUME NEW c \in {"sync", "rescan"}, NEW from \in Nat, NEW tip \in Nat,
         Loop(c, from, tip), wallet'.utxos = wallet.utxos,
         from <= NextHeight(wallet'),
         c = "sync" => from = NextHeight(wallet'),
         from <= tip /\ c = "rescan" =>
           /\ NextHeight(wallet') <= NextAfter(tip)
           /\ \A h \in pending' : h <= NextAfter(tip),
         ~(from <= tip /\ c = "rescan") =>
           \A h \in pending' : h <= NextHeight(wallet')
  PROVE  LoopInv'
<1>1. CASE from <= tip
  BY <1>1 DEF Loop, LoopInv, NoGapAhead, BlockProgress, PendingInReach,
     TodoUnchecked, BlockPC
<1>2. CASE ~(from <= tip)
  BY <1>2, CheckInv DEF Loop
<1> QED
  BY <1>1, <1>2

\* A sync starts at the next height.
LEMMA SyncToTipInv ==
  ASSUME TypeOK, LoopInv, Select, NEW tip \in Nat, SyncToTip(tip),
         wallet' = wallet, pending' = pending
  PROVE  LoopInv'
<1>1. \A h \in pending : h <= NextHeight(wallet)
  BY DEF LoopInv, PendingInReach, BlockPC, Select
<1>2. CASE NextHeight(wallet) > tip
  BY <1>1, <1>2 DEF SyncToTip, locals, LoopInv, NoGapAhead, BlockProgress,
     PendingInReach, TodoUnchecked, BlockPC, Select
<1>3. CASE ~(NextHeight(wallet) > tip)
  BY <1>1, <1>3, NextHeightFacts, LoopStartInv DEF SyncToTip, TypeOK
<1> QED
  BY <1>2, <1>3

\* After block i is recorded the loop goes on at the next height, or it has
\* brought the height up to its tip.
LEMMA LoopNextInv ==
  ASSUME TypeOK, pc \in BlockPC, call = "rescan" => PendingInReach,
         call = "sync" => i >= BirthHeight /\ \A h \in pending : h <= NextHeight(wallet'),
         Loop(call, i + 1, chainTip), wallet' \in Wallet,
         wallet'.utxos = wallet.utxos, wallet'.last = i, pending' = pending
  PROVE  LoopInv'
<1>1. call \in {"sync", "rescan"} /\ i \in 1..chainTip /\ chainTip \in Nat
  BY DEF TypeOK
<1>2. NextHeight(wallet') \in Nat /\ i + 1 <= NextHeight(wallet')
      /\ (i >= BirthHeight => NextHeight(wallet') = i + 1)
      /\ (i < BirthHeight => NextHeight(wallet') = BirthHeight)
  BY <1>1, NextHeightFacts, BirthFacts
<1>3. NextHeight(wallet') <= NextAfter(chainTip)
  BY <1>1, <1>2, BirthFacts DEF NextAfter
<1>4. i = chainTip => NextHeight(wallet') = NextAfter(chainTip)
  BY <1>1, <1>2, BirthFacts DEF NextAfter
<1>5. call = "rescan" => \A h \in pending' : h <= NextAfter(chainTip)
  BY DEF PendingInReach
<1>6. ~(i + 1 <= chainTip) => i = chainTip
  BY <1>1
<1>7. CASE call = "sync"
  BY <1>1, <1>2, <1>7, LoopStartInv
<1>8. CASE call = "rescan"
  BY <1>1, <1>2, <1>3, <1>4, <1>5, <1>6, <1>8, LoopStartInv
<1> QED
  BY <1>1, <1>7, <1>8

-----------------------------------------------------------------------------
(* The inductive step, one action at a time.                               *)

\* The invariant holds when the process starts.
LEMMA ScanInit == Init => ScanInv
BY FreshWalletInv DEF Init, ChainInit, ScanInv, LoopInv, NoGapAhead, BlockProgress,
   PendingInReach, TodoUnchecked, BlockPC, Absent

\* A step that changes neither the wallet nor the file.
LEMMA WalletsKept ==
  ASSUME TypeOK, ScanInv, UNCHANGED chainVars, wallet' = wallet, disk' = disk
  PROVE  ChainWellFormed' /\ WalletInv(wallet)' /\ WalletInv(disk.wallet)'
<1>1. disk.wallet \in Wallet
  BY DEF TypeOK, Disk
<1>2. WalletInv(wallet)' /\ WalletInv(disk.wallet)'
  BY <1>1, WalletInvKept DEF TypeOK, ScanInv
<1> QED
  BY <1>2 DEF ScanInv, ChainWellFormed, chainVars

\* A step that changes the wallet and not the file.
LEMMA FileKept ==
  ASSUME TypeOK, ScanInv, UNCHANGED chainVars, disk' = disk,
         wallet' \in Wallet, NEW w \in Wallet, wallet' = w, WalletInv(w)
  PROVE  ChainWellFormed' /\ WalletInv(wallet)' /\ WalletInv(disk.wallet)'
<1>1. disk.wallet \in Wallet
  BY DEF TypeOK, Disk
<1>2. WalletInv(wallet)' /\ WalletInv(disk.wallet)'
  BY <1>1, WalletInvKept DEF TypeOK, ScanInv
<1> QED
  BY <1>2 DEF ScanInv, ChainWellFormed, chainVars

\* A block mined or indexed keeps the invariant.
LEMMA ChainStepScan ==
  ASSUME TypeOK, ScanInv, ChainStep
  PROVE  ScanInv'
<1>1. ChainTypeOK /\ ChainNext /\ disk.wallet \in Wallet /\ wallet' = wallet /\ disk' = disk
  BY DEF TypeOK, ChainStep, Disk, memory
<1>2. WalletInv(wallet)' /\ WalletInv(disk.wallet)'
  BY <1>1, WalletInvKept DEF TypeOK, ScanInv
<1>3. ChainWellFormed'
  BY <1>1 DEF ScanInv, ChainWellFormed, ChainNext, MineBlock, IndexBlock, ChainTypeOK,
     Height
<1>4. LoopInv'
  BY <1>1 DEF ChainStep, ScanInv, LoopInv, NoGapAhead, BlockProgress, PendingInReach,
     TodoUnchecked, UncheckedUTXOs, ChainNext, MineBlock, IndexBlock, ChainTypeOK,
     Height, memory, locals, Serves, TypeOK, BlockPC, CreatedIn
<1> QED
  BY <1>2, <1>3, <1>4 DEF ScanInv

\* Every case of the select statement keeps it.
LEMMA EntryScan ==
  ASSUME TypeOK, ScanInv, Entry
  PROVE  ScanInv'
<1> USE DEF ScanInv
<1>1. UNCHANGED chainVars /\ wallet' = wallet /\ disk' = disk
  BY DEF Entry, InitialScan, Tick, NewBlock, TakeRescan, CheckTick, memory
<1>2. indexed \in Nat /\ Height \subseteq Nat
  BY DEF TypeOK, ChainTypeOK, Height
<1>3. ASSUME NEW ok \in BOOLEAN, InitialScan(ok) \/ Tick(ok)
      PROVE  LoopInv'
  <2>1. Select /\ pending' = pending
    BY <1>3 DEF InitialScan, Tick, memory
  <2>2. CASE SyncToTip(indexed)
    BY <1>1, <1>2, <2>1, <2>2, SyncToTipInv
  <2>3. CASE UNCHANGED locals
    BY <1>1, <2>1, <2>3 DEF locals, LoopInv, NoGapAhead, BlockProgress, PendingInReach,
       TodoUnchecked, BlockPC, Select
  <2> QED
    BY <1>3, <2>2, <2>3 DEF InitialScan, Tick
<1>4. ASSUME NEW h \in Height, NewBlock(h)
      PROVE  LoopInv'
  BY <1>1, <1>2, <1>4, SyncToTipInv DEF NewBlock, memory
<1>5. ASSUME NEW h \in RescanHeights, NEW ok \in BOOLEAN, TakeRescan(h, ok)
      PROVE  LoopInv'
  <2>1. pending' \subseteq pending /\ h \in pending /\ h \in Nat
    BY <1>5 DEF TakeRescan
  <2>2. \A k \in pending : k <= NextHeight(wallet)
    BY <1>5 DEF TakeRescan, Select, LoopInv, PendingInReach, BlockPC
  <2>3. CASE ok
    <3>1. h <= indexed => NextHeight(wallet) <= NextAfter(indexed)
      BY <1>2, <2>1, BirthFacts, NextHeightFacts DEF NextAfter, WalletInv, Behind, TypeOK
    <3>2. /\ NextHeight(wallet) \in Nat
          /\ NextAfter(indexed) \in Nat
          /\ \A k \in pending' : k \in Nat /\ k <= NextHeight(wallet)
      BY <1>2, <2>1, <2>2, BirthFacts, NextHeightFacts DEF NextAfter, TypeOK
    <3>3. Loop("rescan", h, indexed)
      BY <1>5, <2>3 DEF TakeRescan
    <3>4. h <= indexed => \A k \in pending' : k <= NextAfter(indexed)
      BY <3>1, <3>2
    <3> QED
      BY <1>1, <1>2, <2>1, <2>2, <3>1, <3>2, <3>3, <3>4, LoopStartInv
  <2>4. CASE ~ok
    BY <1>5, <2>4, ReturnInv DEF TakeRescan
  <2> QED
    BY <2>3, <2>4
<1>6. ASSUME CheckTick
      PROVE  LoopInv'
  <2>1. \A h \in pending' : h <= NextHeight(wallet')
    BY <1>1, <1>6 DEF CheckTick, memory, Select, LoopInv, PendingInReach, BlockPC
  <2> QED
    BY <1>1, <1>6, <2>1, CheckInv DEF CheckTick
<1> QED
  BY <1>1, <1>3, <1>4, <1>5, <1>6, WalletsKept DEF Entry

\* MarkSpentUTXOs keeps it: the spends of block i are marked before its coins.
LEMMA MarkSpentScan ==
  ASSUME TypeOK, ScanInv, NEW ok \in BOOLEAN, MarkSpentUTXOs(ok)
  PROVE  ScanInv'
<1> USE DEF ScanInv
<1>1. UNCHANGED chainVars /\ disk' = disk /\ pending' = pending
  BY DEF MarkSpentUTXOs
<1>2. CASE ok
  <2> DEFINE us == SpentIn(i) \cap Known(wallet)
             w == SetStates(wallet, us, "spent")
  <2>1. us \in SUBSET Known(wallet) /\ us \in SUBSET UTXO /\ wallet \in Wallet
    BY DEF SpentIn, TypeOK
  <2>2. w \in Wallet /\ WalletInv(w) /\ wallet' = w
    BY <1>2, <2>1, OperationTypes, MarkSpentInv DEF MarkSpentUTXOs, UTXOState
  <2>3. ChainWellFormed' /\ WalletInv(wallet)' /\ WalletInv(disk.wallet)'
    BY <1>1, <2>2, FileKept
  <2>4. w.last = wallet.last /\ \A u \in Known(w) : spentAt[u] = i => w.utxos[u] = "spent"
    BY <2>1 DEF SetStates, Known, SpentIn, Wallet
  <2>5. NextHeight(wallet') = NextHeight(wallet)
    BY <2>2, <2>4 DEF NextHeight
  <2>6. NoGapAhead' /\ PendingInReach' /\ TodoUnchecked'
    BY <1>1, <1>2, <2>5 DEF MarkSpentUTXOs, LoopInv, NoGapAhead, PendingInReach,
       TodoUnchecked, BlockPC
  <2>7. BlockProgress'
    BY <1>1, <1>2, <2>2, <2>4 DEF MarkSpentUTXOs, BlockProgress, BlockPC, Serves, Known,
       chainVars
  <2> QED
    BY <2>3, <2>6, <2>7 DEF LoopInv
<1>3. CASE ~ok
  <2>1. LoopInv'
    BY <1>1, <1>3, ReturnErrorInv DEF MarkSpentUTXOs, BlockPC, LoopInv
  <2> QED
    BY <1>1, <1>3, <2>1, WalletsKept DEF MarkSpentUTXOs
<1> QED
  BY <1>2, <1>3

\* syncBlock keeps it: an output served as unspent is spent in no scanned block.
LEMMA SyncBlockScan ==
  ASSUME TypeOK, ScanInv, NEW ok \in BOOLEAN, SyncBlock(ok)
  PROVE  ScanInv'
<1> USE DEF ScanInv
<1>1. UNCHANGED chainVars /\ disk' = disk /\ pending' = pending /\ wallet' = wallet
  BY DEF SyncBlock, memory
<1>2. ChainWellFormed' /\ WalletInv(wallet)' /\ WalletInv(disk.wallet)'
  BY <1>1, WalletsKept
<1>3. CASE ok
  <2>1. \A u \in UTXO :
          /\ Found(i)[u] # "unknown" <=> createdAt[u] = i
          /\ Found(i)[u] = "unspent" => spentAt[u] \notin Scanned(wallet) \cup {i}
          /\ Found(i)[u] # "unconfirmed_spent"
    <3>1. i \in 1..indexed /\ indexed \in Nat /\ spentAt \in [UTXO -> Nat]
      BY DEF SyncBlock, LoopInv, BlockProgress, BlockPC, Serves, TypeOK, ChainTypeOK,
         Height
    <3>2. \A k \in Scanned(wallet) : k \in 1..indexed
      BY <3>1, BirthFacts DEF Scanned, WalletInv, Behind, TypeOK, Wallet
    <3> QED
      BY <3>1, <3>2 DEF Found, CreatedIn, ServedSpent
  <2>2. NoGapAhead' /\ PendingInReach' /\ TodoUnchecked'
    BY <1>1, <1>3 DEF SyncBlock, LoopInv, NoGapAhead, PendingInReach, TodoUnchecked,
       BlockPC
  <2>3. owned' = NoUTXOs => CreatedIn(i) = {}
    BY <1>3, <2>1 DEF SyncBlock, NoUTXOs, CreatedIn
  <2>4. BlockProgress'
    BY <1>1, <1>3, <2>1, <2>3 DEF SyncBlock, LoopInv, BlockProgress, BlockPC, Serves,
       Known, Scanned, CreatedIn, chainVars
  <2> QED
    BY <1>2, <2>2, <2>4 DEF LoopInv
<1>4. CASE ~ok
  BY <1>1, <1>2, <1>4, ReturnErrorInv DEF SyncBlock, BlockPC, LoopInv
<1> QED
  BY <1>3, <1>4

\* AddUTXOs keeps it: block i's coins come with states that are right.
LEMMA AddOwnedScan ==
  ASSUME TypeOK, ScanInv, AddOwnedUTXOs
  PROVE  ScanInv'
<1> USE DEF ScanInv
<1> DEFINE w == AddUTXOs(wallet, owned)
<1>1. UNCHANGED chainVars /\ disk' = disk /\ pending' = pending /\ wallet' = w
  BY DEF AddOwnedUTXOs
<1>2. pc = "add" /\ wallet \in Wallet /\ owned \in Collection /\ Serves(i)
  BY DEF AddOwnedUTXOs, LoopInv, BlockProgress, BlockPC, TypeOK
<1>3. \A u \in UTXO :
        /\ owned[u] # "unknown" <=> createdAt[u] = i
        /\ owned[u] = "unspent" => spentAt[u] \notin Scanned(wallet) \cup {i}
        /\ owned[u] # "unconfirmed_spent"
  BY <1>2 DEF LoopInv, BlockProgress
<1>4. w \in Wallet /\ WalletInv(w)
  BY <1>2, <1>3, OperationTypes, AddInv
<1>5. ChainWellFormed' /\ WalletInv(wallet)' /\ WalletInv(disk.wallet)'
  BY <1>1, <1>4, FileKept
<1>6. w.last = wallet.last /\ CreatedIn(i) \subseteq Known(w)
      /\ \A u \in Known(w) : spentAt[u] = i => w.utxos[u] = "spent"
  <2>1. w.last = wallet.last
        /\ w.utxos = [u \in UTXO |-> IF wallet.utxos[u] = "unknown" THEN owned[u]
                                     ELSE wallet.utxos[u]]
    BY <1>2 DEF AddUTXOs, Wallet
  <2>2. \A u \in Known(wallet) : spentAt[u] = i => wallet.utxos[u] = "spent"
    BY <1>2 DEF LoopInv, BlockProgress
  <2> QED
    BY <1>2, <1>3, <2>1, <2>2 DEF Known, CreatedIn, Collection, UTXOState
<1>7. NextHeight(wallet') = NextHeight(wallet)
  BY <1>1, <1>6 DEF NextHeight
<1>8. NoGapAhead' /\ PendingInReach' /\ TodoUnchecked'
  BY <1>1, <1>7 DEF AddOwnedUTXOs, LoopInv, NoGapAhead, PendingInReach, TodoUnchecked,
     BlockPC
<1>9. BlockProgress'
  BY <1>1, <1>2, <1>6 DEF AddOwnedUTXOs, BlockProgress, BlockPC, Serves, Known,
     CreatedIn, chainVars
<1> QED
  BY <1>5, <1>8, <1>9 DEF LoopInv

\* LastScanHeight = i keeps it: block i's coins and spends are in the wallet.
LEMMA SetLastScan ==
  ASSUME TypeOK, ScanInv, SetLastScanHeight
  PROVE  ScanInv'
<1> USE DEF ScanInv
<1> DEFINE w == [wallet EXCEPT !.last = i]
<1>1. UNCHANGED chainVars /\ disk' = disk /\ pending' = pending /\ wallet' = w
  BY DEF SetLastScanHeight
<1>2. /\ pc = "height" /\ pc \in BlockPC /\ wallet \in Wallet /\ ChainTypeOK
      /\ call \in {"sync", "rescan"} /\ i \in 1..chainTip /\ chainTip \in Nat /\ i \in Nat
      /\ i <= NextHeight(wallet) /\ (call = "sync" => i = NextHeight(wallet))
  BY DEF SetLastScanHeight, LoopInv, NoGapAhead, BlockPC, TypeOK
<1>3. /\ Serves(i)
      /\ CreatedIn(i) \subseteq Known(wallet)
      /\ \A u \in Known(wallet) : spentAt[u] = i => wallet.utxos[u] = "spent"
  BY <1>2 DEF LoopInv, BlockProgress
<1>4. w \in Wallet /\ WalletInv(w) /\ w.last = i /\ w.utxos = wallet.utxos
  <2>1. w \in Wallet /\ w.last = i /\ w.utxos = wallet.utxos
    BY <1>2 DEF Wallet
  <2> QED
    BY <1>2, <1>3, <2>1, SetLastInv
<1>5. ChainWellFormed' /\ WalletInv(wallet)' /\ WalletInv(disk.wallet)'
  BY <1>1, <1>4, FileKept
<1>6. /\ NextHeight(wallet') \in Nat
      /\ NextHeight(wallet') <= NextAfter(chainTip)
      /\ i < NextHeight(wallet')
  <2>1. wallet' \in Wallet /\ wallet'.last = i
    BY <1>1, <1>4
  <2>2. /\ NextHeight(wallet') \in Nat /\ NextHeight(wallet') > i
        /\ i >= BirthHeight => NextHeight(wallet') = i + 1
        /\ i < BirthHeight => NextHeight(wallet') = BirthHeight
    BY <2>1, NextHeightFacts
  <2> QED
    BY <1>2, <2>2, BirthFacts DEF NextAfter
<1>7. call = "sync" => /\ i >= BirthHeight
                       /\ \A h \in pending : h <= NextHeight(wallet')
  <2> SUFFICES ASSUME call = "sync"
               PROVE  i >= BirthHeight /\ \A h \in pending : h <= NextHeight(wallet')
    OBVIOUS
  <2>1. \A h \in pending : h \in Nat /\ h <= i
    BY <1>2 DEF LoopInv, PendingInReach, TypeOK
  <2>2. i >= BirthHeight
    BY <1>2, NextHeightFacts
  <2> QED
    BY <1>2, <1>6, <2>1, <2>2
<1>8. PendingInReach
  BY DEF LoopInv
<1>9. CASE Loop(call, i + 1, chainTip)
  <2>1. LoopInv'
    BY <1>1, <1>2, <1>4, <1>7, <1>8, <1>9, LoopNextInv
  <2> QED
    BY <1>5, <2>1
<1>10. CASE pc' = "save" /\ UNCHANGED <<call, i, chainTip, owned, todo>>
  <2>1. NoGapAhead' /\ BlockProgress' /\ TodoUnchecked'
    BY <1>1, <1>2, <1>3, <1>4, <1>7, <1>10 DEF NoGapAhead, BlockProgress, TodoUnchecked,
       BlockPC, Serves, chainVars
  <2>2. PendingInReach'
    BY <1>1, <1>2, <1>6, <1>7, <1>8, <1>10 DEF PendingInReach, BlockPC
  <2> QED
    BY <1>5, <2>1, <2>2 DEF LoopInv
<1> QED
  BY <1>9, <1>10 DEF SetLastScanHeight

\* A truncated file promises nothing.
LEMMA TruncateScan ==
  ASSUME TypeOK, ScanInv, NEW ok \in BOOLEAN, TruncateFile(ok)
  PROVE  ScanInv'
<1> USE DEF ScanInv
<1>1. UNCHANGED chainVars /\ pending' = pending /\ wallet' = wallet
  BY DEF TruncateFile, memory
<1>2. ChainWellFormed' /\ WalletInv(wallet)'
  BY <1>1, WalletInvKept DEF ChainWellFormed, chainVars, TypeOK
<1>3. CASE ok
  <2>1. disk'.wallet = ZeroWallet
    BY <1>3 DEF TruncateFile, Torn
  <2>2. WalletInv(disk.wallet)'
    BY <1>1, <2>1, FreshWalletInv, WalletTypes, WalletInvKept DEF TypeOK
  <2>3. LoopInv'
    BY <1>1, <1>3 DEF TruncateFile, LoopInv, NoGapAhead, BlockProgress, PendingInReach,
       TodoUnchecked, BlockPC, Serves, chainVars
  <2> QED
    BY <1>2, <2>2, <2>3
<1>4. CASE ~ok
  <2>1. LoopInv'
    BY <1>1, <1>4, ReturnErrorInv DEF TruncateFile, BlockPC, LoopInv
  <2> QED
    BY <1>1, <1>4, <2>1, WalletsKept DEF TruncateFile
<1> QED
  BY <1>3, <1>4

\* A saved file promises what the wallet promises.
LEMMA FillScan ==
  ASSUME TypeOK, ScanInv, NEW ok \in BOOLEAN, FillFile(ok)
  PROVE  ScanInv'
<1> USE DEF ScanInv
<1>1. UNCHANGED chainVars /\ pending' = pending /\ wallet' = wallet
  BY DEF FillFile, memory
<1>2. ChainWellFormed' /\ WalletInv(wallet)'
  BY <1>1, WalletInvKept DEF ChainWellFormed, chainVars, TypeOK
<1>3. CASE ok
  <2>1. disk'.wallet = wallet
    BY <1>3 DEF FillFile, Saved
  <2>2. WalletInv(disk.wallet)'
    BY <1>1, <2>1, WalletInvKept DEF TypeOK
  <2>3. /\ pc \in BlockPC /\ wallet' \in Wallet /\ wallet'.last = i
        /\ PendingInReach
        /\ call = "sync" => i >= BirthHeight /\ \A h \in pending : h <= NextHeight(wallet')
    BY <1>1, <1>3 DEF FillFile, BlockPC, TypeOK, LoopInv, NoGapAhead, PendingInReach
  <2>4. LoopInv'
    BY <1>1, <1>3, <2>3, LoopNextInv DEF FillFile
  <2> QED
    BY <1>2, <2>2, <2>4
<1>4. CASE ~ok
  <2>1. LoopInv'
    BY <1>1, <1>4, ReturnErrorInv DEF FillFile, BlockPC, LoopInv
  <2> QED
    BY <1>1, <1>4, <2>1, WalletsKept DEF FillFile
<1> QED
  BY <1>3, <1>4

\* An answer of electrum keeps it: it only changes coins that are not spent.
LEMMA CheckUTXOScan ==
  ASSUME TypeOK, ScanInv, NEW u \in UTXO,
         NEW answer \in {"funded", "pending", "gone", "error"}, CheckUTXO(u, answer)
  PROVE  ScanInv'
<1> USE DEF ScanInv
<1>1. UNCHANGED chainVars /\ pending' = pending /\ disk' = disk /\ pc = "check" /\ u \in todo
  BY DEF CheckUTXO
<1>2. wallet \in Wallet /\ todo \subseteq UncheckedUTXOs /\ todo \subseteq UTXO
  BY <1>1 DEF TypeOK, LoopInv, TodoUnchecked
<1>3. PICK s \in {"spent", "unconfirmed_spent", "same"} :
        wallet' = IF s = "same" THEN wallet ELSE SetStates(wallet, {u}, s)
  BY Zenon DEF CheckUTXO
<1>4. \A v \in UncheckedUTXOs : v \in Known(wallet)
  BY DEF UncheckedUTXOs, GetUTXOsByStates, Known
<1>5. wallet' \in Wallet /\ WalletInv(wallet') /\ wallet'.last = wallet.last
      /\ \A v \in UTXO \ {u} : wallet'.utxos[v] = wallet.utxos[v]
  <2>1. CASE s = "same"
    BY <1>2, <1>3, <2>1
  <2>2. CASE s = "spent"
    <3>1. {u} \in SUBSET Known(wallet) /\ wallet' = SetStates(wallet, {u}, "spent")
      BY <1>1, <1>2, <1>3, <1>4, <2>2
    <3>2. wallet' \in Wallet /\ WalletInv(wallet')
      BY <1>2, <3>1, MarkSpentInv, OperationTypes DEF UTXOState
    <3> QED
      BY <1>2, <3>1, <3>2 DEF SetStates, Wallet
  <2>3. CASE s = "unconfirmed_spent"
    <3>1. u \in GetUTXOsByStates(wallet, {"unspent", "unconfirmed_spent"})
          /\ wallet' = SetStates(wallet, {u}, "unconfirmed_spent")
      BY <1>1, <1>2, <1>3, <2>3 DEF UncheckedUTXOs
    <3>2. wallet' \in Wallet /\ WalletInv(wallet')
      BY <1>2, <3>1, MarkPendingInv, OperationTypes DEF UTXOState
    <3> QED
      BY <1>2, <3>1, <3>2 DEF SetStates, Wallet
  <2> QED
    BY <2>1, <2>2, <2>3
<1>6. ChainWellFormed' /\ WalletInv(wallet)' /\ WalletInv(disk.wallet)'
  BY <1>1, <1>5, FileKept
<1>7. NextHeight(wallet') = NextHeight(wallet)
  BY <1>5 DEF NextHeight
<1>8. \A h \in pending' : h <= NextHeight(wallet')
  BY <1>1, <1>7 DEF LoopInv, PendingInReach, BlockPC
<1>9. LoopInv'
  <2>1. CASE ReturnError
    BY <1>1, <1>5, <2>1, ReturnErrorInv DEF LoopInv, BlockPC
  <2>2. CASE ReturnOk
    BY <1>8, <2>2, ReturnInv DEF ReturnOk
  <2>3. CASE todo' = todo \ {u} /\ UNCHANGED <<pc, call, i, chainTip, owned>>
    <3>1. TodoUnchecked'
      BY <1>2, <1>5, <2>3 DEF TodoUnchecked, UncheckedUTXOs, GetUTXOsByStates
    <3>2. NoGapAhead' /\ BlockProgress' /\ PendingInReach'
      BY <1>1, <1>8, <2>3 DEF NoGapAhead, BlockProgress, PendingInReach, BlockPC
    <3> QED
      BY <3>1, <3>2 DEF LoopInv
  <2> QED
    BY <2>1, <2>2, <2>3 DEF CheckUTXO
<1> QED
  BY <1>6, <1>9

\* A handler that respects the next height waits with a height in reach.
LEMMA PostRescanScan ==
  ASSUME ~RescanAhead, TypeOK, ScanInv, NEW h \in RescanHeights, PostRescan(h)
  PROVE  ScanInv'
<1> USE DEF ScanInv
<1>1. /\ UNCHANGED chainVars /\ wallet' = wallet /\ disk' = disk /\ UNCHANGED locals
      /\ h <= NextHeight(wallet) /\ pending' = pending \cup {h} /\ h \in Nat
  BY DEF PostRescan
<1>2. ChainWellFormed' /\ WalletInv(wallet)' /\ WalletInv(disk.wallet)'
  BY <1>1, WalletsKept
<1>3. NoGapAhead' /\ BlockProgress' /\ TodoUnchecked'
  BY <1>1 DEF locals, LoopInv, NoGapAhead, BlockProgress, TodoUnchecked, BlockPC, Serves,
     chainVars, UncheckedUTXOs, CreatedIn
<1>4. pc \in BlockPC /\ call = "rescan" => h <= NextAfter(chainTip)
  BY <1>1, BirthFacts, NextHeightFacts DEF LoopInv, PendingInReach, NextAfter, TypeOK
<1>5. PendingInReach'
  BY <1>1, <1>4 DEF locals, LoopInv, PendingInReach
<1> QED
  BY <1>2, <1>3, <1>5 DEF LoopInv

\* A restart, after a crash or after the flush at exit, loads a wallet that
\* keeps its promises.
LEMMA RestartScan ==
  ASSUME TypeOK, ScanInv, Crash \/ Interrupt
  PROVE  ScanInv'
<1> USE DEF ScanInv
<1>1. UNCHANGED chainVars /\ wallet \in Wallet /\ disk.wallet \in Wallet /\ disk \in Disk
  BY DEF Crash, Interrupt, TypeOK, Disk
<1>2. PICK file \in Disk : /\ disk' = file /\ Start(Load(file))
                           /\ file.wallet \in Wallet /\ WalletInv(file.wallet)
  <2>1. CASE Crash
    BY <1>1, <2>1 DEF Crash
  <2>2. CASE Interrupt
    <3>1. disk' \in {Saved(wallet), Torn} /\ Start(Load(disk'))
      BY <2>2 DEF Interrupt
    <3>2. disk' \in Disk /\ disk'.wallet \in {wallet, ZeroWallet}
      BY <1>1, <3>1, WalletTypes DEF Saved, Torn
    <3> QED
      BY <1>1, <3>1, <3>2, FreshWalletInv, WalletTypes
  <2> QED
    BY <2>1, <2>2
<1>3. Load(file) \in Wallet /\ WalletInv(Load(file))
  BY <1>2, FreshWalletInv, WalletTypes DEF Load
<1>4. WalletInv(wallet)' /\ WalletInv(disk.wallet)'
  <2>1. wallet' = Load(file) /\ disk'.wallet = file.wallet /\ ChainTypeOK
    BY <1>2 DEF Start, TypeOK
  <2> QED
    BY <1>1, <1>2, <1>3, <2>1, WalletInvKept
<1>5. LoopInv'
  BY <1>2, ReturnInv DEF Start
<1>6. ChainWellFormed'
  BY <1>1 DEF ChainWellFormed, chainVars
<1> QED
  BY <1>4, <1>5, <1>6

\* Every step keeps the invariant.
LEMMA ScanStep ==
  ASSUME ~RescanAhead, TypeOK, ScanInv, [Next]_vars
  PROVE  ScanInv'
<1>1. CASE UNCHANGED vars
  <2>1. UNCHANGED chainVars /\ wallet' = wallet /\ disk' = disk
    BY <1>1 DEF vars, memory
  <2>2. LoopInv'
    BY <1>1 DEF vars, chainVars, memory, locals, ScanInv, LoopInv, NoGapAhead,
       BlockProgress, PendingInReach, TodoUnchecked, BlockPC, Serves,
       UncheckedUTXOs, CreatedIn
  <2> QED
    BY <2>1, <2>2, WalletsKept DEF ScanInv
<1>2. CASE Block
  BY <1>2, MarkSpentScan, SyncBlockScan, AddOwnedScan, SetLastScan, TruncateScan,
     FillScan, CheckUTXOScan DEF Block
<1> QED
  BY <1>1, <1>2, ChainStepScan, EntryScan, PostRescanScan, RestartScan DEF Next

\* Where no rescan starts beyond the next height to scan, each step of the loop
\* finds what the steps before it on the same block left: for every chain, birth
\* height and save interval, through failing requests and writes, rescans, crashes,
\* torn files and exits.
THEOREM ScanInvariant ==
  ASSUME ~RescanAhead
  PROVE  Spec => []ScanInv
<1>1. Init => TypeOK /\ ScanInv
  BY TypeInit, ScanInit
<1>2. TypeOK /\ ScanInv /\ [Next]_vars => (TypeOK /\ ScanInv)'
  BY TypeStep, ScanStep
<1> QED
  BY <1>1, <1>2, PTL DEF Spec

\* Under the same condition the wallet in memory never claims a height whose coins
\* or spends it has not taken in.
THEOREM ScanConsistent ==
  ASSUME ~RescanAhead
  PROVE  Spec => []MemoryConsistent
<1>1. ScanInv => MemoryConsistent
  BY DEF ScanInv, WalletInv, MemoryConsistent
<1> QED
  BY <1>1, ScanInvariant, PTL

\* Nor does the wallet a restart would load, wherever the last save or the exit
\* caught the loop.
THEOREM FileConsistent ==
  ASSUME ~RescanAhead
  PROVE  Spec => []DiskConsistent
<1>1. ScanInv => DiskConsistent
  BY DEF ScanInv, WalletInv, DiskConsistent
<1> QED
  BY <1>1, ScanInvariant, PTL
=============================================================================
