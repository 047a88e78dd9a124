-------------------------- MODULE ScannerViewProofs -------------------------
(***************************************************************************)
(* Proof that Scanner implements WalletView: the wallet in memory and the  *)
(* wallet a restart would load make the steps that WalletView allows and   *)
(* no others.  One lemma for each kind of step of WalletView says which    *)
(* steps of the scanner are of that kind.                                  *)
(***************************************************************************)
EXTENDS ScannerCoinProofs

-----------------------------------------------------------------------------
(* WalletView is about the same wallets and the same chain.                *)

\* The operators of the instance are those of Wallet and Chain.
LEMMA SameView ==
  /\ View!chainVars = chainVars
  /\ View!ChainInit <=> ChainInit
  /\ View!ChainNext <=> ChainNext
  /\ View!SetupWallet = SetupWallet
  /\ View!ZeroWallet = ZeroWallet
  /\ \A w : View!Consistent(w) <=> Consistent(w)
  /\ \A w : View!NextHeight(w) = NextHeight(w)
  /\ \A h : View!Serves(h) <=> Serves(h)
BY DEF View!chainVars, chainVars, View!ChainInit, ChainInit, View!ChainTypeOK,
   ChainTypeOK, View!ChainWellFormed, ChainWellFormed, View!Height, Height,
   View!ChainNext, ChainNext, View!MineBlock, MineBlock, View!IndexBlock, IndexBlock,
   View!SetupWallet, SetupWallet, View!SetupLastScanHeight, SetupLastScanHeight,
   View!BirthHeight, BirthHeight, View!NoUTXOs, NoUTXOs, View!ZeroWallet, ZeroWallet,
   View!Consistent, Consistent, View!Complete, Complete, View!SpendsSeen, SpendsSeen,
   View!NoPhantom, NoPhantom, View!Known, Known, View!Scanned, Scanned,
   View!FirstHeight, FirstHeight, View!NextHeight, NextHeight, View!Serves, Serves

\* What a start makes of each kind of file.
LEMMA Loads ==
  /\ Load(Absent) = SetupWallet
  /\ Load(Torn) = ZeroWallet
  /\ \A w : Load(Saved(w)) = w
BY DEF Load, Absent, Torn, Saved

\* A step that touches neither wallet nor file cannot be seen.
LEMMA HiddenStep ==
  ASSUME UNCHANGED <<chainVars, wallet, disk>>
  PROVE  UNCHANGED View!viewVars
BY SameView DEF View!viewVars, View!chainVars, chainVars, Load

\* Coins of the wallet in memory go forward and leave it consistent.
LEMMA LearnStep ==
  ASSUME TypeOK, UNCHANGED <<chainVars, disk>>, Consistent(wallet)',
         wallet' \in Wallet, wallet'.keyed = wallet.keyed, wallet'.last = wallet.last,
         Advances(wallet, wallet')
  PROVE  View!Learn
<1>1. wallet' = [wallet EXCEPT !.utxos = wallet'.utxos]
  BY DEF TypeOK, Wallet
<1>2. Consistent(wallet')
  BY DEF Consistent, Complete, SpendsSeen, NoPhantom, Known, Scanned, chainVars, Serves
<1>3. Load(disk)' = Load(disk)
  BY DEF Load
<1> QED
  BY <1>1, <1>2, <1>3, SameView DEF View!Learn, Advances, View!chainVars, chainVars

\* A height that the loop records is served and skips none.
LEMMA AdvanceHeight ==
  ASSUME TypeOK, UNCHANGED <<chainVars, disk>>, Consistent(wallet)',
         NEW h \in Nat, wallet' = [wallet EXCEPT !.last = h],
         Serves(h), h <= NextHeight(wallet)
  PROVE  View!Advance
<1>1. wallet'.last = h /\ wallet' = [wallet EXCEPT !.last = wallet'.last]
  BY DEF TypeOK, Wallet
<1>2. Consistent(wallet')
  BY DEF Consistent, Complete, SpendsSeen, NoPhantom, Known, Scanned, chainVars, Serves
<1>3. Load(disk)' = Load(disk)
  BY DEF Load
<1> QED
  BY <1>1, <1>2, <1>3, SameView DEF View!Advance, View!chainVars, chainVars

-----------------------------------------------------------------------------
(* Every step of the scanner is a step of WalletView or hidden from it.    *)

\* The steps of the loop on a block, and on the coins electrum is asked about.
LEMMA BlockView ==
  ASSUME TypeOK, TypeOK', ScanInv, ScanInv', Block
  PROVE  View!ViewNext \/ UNCHANGED View!viewVars
<1> USE DEF View!ViewNext
<1>1. Consistent(wallet)' /\ wallet \in Wallet /\ wallet' \in Wallet
  BY DEF ScanInv, WalletInv, TypeOK
<1>2. Advances(wallet, wallet') \/ Crash \/ Interrupt
  BY AdvanceStep DEF ScanInv, LoopInv, Next
<1>3. ASSUME NEW ok \in BOOLEAN, MarkSpentUTXOs(ok)
      PROVE  View!Learn \/ UNCHANGED View!viewVars
  <2>1. CASE ok
    <3>1. wallet' = SetStates(wallet, SpentIn(i) \cap Known(wallet), "spent")
      BY <1>3, <2>1 DEF MarkSpentUTXOs
    <3>2. /\ wallet'.keyed = wallet.keyed /\ wallet'.last = wallet.last
          /\ SpentIn(i) \cap Known(wallet) \in SUBSET UTXO
      BY <1>1, <3>1 DEF SetStates, Wallet, SpentIn
    <3>3. Advances(wallet, wallet')
      BY <1>1, <3>1, <3>2, OperationsAdvance
    <3> QED
      BY <1>1, <1>3, <3>2, <3>3, LearnStep DEF MarkSpentUTXOs
  <2>2. CASE ~ok
    BY <1>3, <2>2, HiddenStep DEF MarkSpentUTXOs
  <2> QED
    BY <2>1, <2>2
<1>4. ASSUME NEW ok \in BOOLEAN, SyncBlock(ok)
      PROVE  UNCHANGED View!viewVars
  BY <1>4, HiddenStep DEF SyncBlock, memory
<1>5. CASE AddOwnedUTXOs
  <2>1. wallet' = AddUTXOs(wallet, owned) /\ owned \in Collection
    BY <1>5 DEF AddOwnedUTXOs, TypeOK
  <2>2. wallet'.keyed = wallet.keyed /\ wallet'.last = wallet.last
    BY <1>1, <2>1 DEF AddUTXOs, Wallet
  <2>3. Advances(wallet, wallet')
    BY <1>1, <2>1, OperationsAdvance
  <2> QED
    BY <1>1, <1>5, <2>2, <2>3, LearnStep DEF AddOwnedUTXOs
<1>6. CASE SetLastScanHeight
  <2>1. /\ UNCHANGED <<chainVars, disk>>
        /\ wallet' = [wallet EXCEPT !.last = i]
        /\ i \in Nat
    BY <1>6 DEF SetLastScanHeight, TypeOK
  <2>2. Serves(i) /\ i <= NextHeight(wallet)
    BY <1>6 DEF SetLastScanHeight, ScanInv, LoopInv, NoGapAhead, BlockProgress, BlockPC
  <2> QED
    BY <1>1, <2>1, <2>2, AdvanceHeight
<1>7. ASSUME NEW ok \in BOOLEAN, TruncateFile(ok) \/ FillFile(ok)
      PROVE  View!Save \/ UNCHANGED View!viewVars
  <2>1. UNCHANGED <<chainVars, wallet>>
    BY <1>7 DEF TruncateFile, FillFile, memory
  <2>2. disk' = disk \/ disk' \in {Torn, Saved(wallet)}
    BY <1>7 DEF TruncateFile, FillFile
  <2>3. CASE disk' = disk
    BY <2>1, <2>3, HiddenStep
  <2>4. CASE disk' \in {Torn, Saved(wallet)}
    <3>1. Load(disk)' \in {wallet, ZeroWallet}
      <4>1. Load(disk') \in {wallet, ZeroWallet}
        BY <2>4, Loads
      <4> QED
        BY <4>1 DEF Load, SetupWallet, NoUTXOs
    <3> QED
      BY <2>1, <3>1, SameView DEF View!Save, View!chainVars, chainVars
  <2> QED
    BY <2>2, <2>3, <2>4
<1>8. ASSUME NEW u \in UTXO, NEW answer \in {"funded", "pending", "gone", "error"},
             CheckUTXO(u, answer)
      PROVE  View!Learn \/ UNCHANGED View!viewVars
  <2>1. UNCHANGED <<chainVars, disk>>
    BY <1>8 DEF CheckUTXO
  <2>2. CASE wallet' = wallet
    BY <2>1, <2>2, HiddenStep
  <2>3. CASE answer \in {"gone", "pending"}
    <3>1. /\ {u} \in SUBSET UTXO
          /\ {u} \in SUBSET GetUTXOsByStates(wallet, {"unspent", "unconfirmed_spent"})
      BY <1>8 DEF CheckUTXO, ScanInv, LoopInv, TodoUnchecked, UncheckedUTXOs
    <3>2. wallet' \in {SetStates(wallet, {u}, "spent"),
                       SetStates(wallet, {u}, "unconfirmed_spent")}
      BY <1>8, <2>3 DEF CheckUTXO
    <3>3. wallet'.keyed = wallet.keyed /\ wallet'.last = wallet.last
      BY <1>1, <3>2 DEF SetStates, Wallet
    <3>4. Advances(wallet, wallet')
      BY <1>1, <3>1, <3>2, OperationsAdvance
    <3> QED
      BY <1>1, <2>1, <3>3, <3>4, LearnStep
  <2> QED
    BY <1>8, <2>2, <2>3 DEF CheckUTXO
<1> QED
  BY <1>3, <1>4, <1>5, <1>6, <1>7, <1>8 DEF Block

\* A crash or an exit ends with the process started again from what is saved.
LEMMA RestartView ==
  ASSUME Crash \/ Interrupt
  PROVE  View!Restart
<1>1. /\ UNCHANGED chainVars
      /\ disk' \in {disk, Saved(wallet), Torn}
      /\ wallet' = Load(disk')
  BY DEF Crash, Interrupt, Start
<1>2. Load(disk') \in {Load(disk), wallet, ZeroWallet}
  BY <1>1, Loads
<1>3. Load(disk)' = Load(disk')
  BY DEF Load, SetupWallet, NoUTXOs
<1> QED
  BY <1>1, <1>2, <1>3, SameView DEF View!Restart, View!chainVars, chainVars

\* All steps together.
LEMMA ViewStep ==
  ASSUME ~RescanAhead, TypeOK, ScanInv, [Next]_vars
  PROVE  [View!ViewNext]_(View!viewVars)
<1>1. TypeOK' /\ ScanInv'
  BY TypeStep, ScanStep
<1>2. CASE ChainStep
  BY <1>2, SameView DEF ChainStep, View!ViewNext, View!Grow, memory, Load
<1>3. CASE Entry
  BY <1>3, HiddenStep
     DEF Entry, InitialScan, Tick, NewBlock, TakeRescan, CheckTick, memory
<1>4. CASE Block
  BY <1>1, <1>4, BlockView
<1>5. ASSUME NEW h \in RescanHeights, PostRescan(h)
      PROVE  UNCHANGED View!viewVars
  BY <1>5, HiddenStep DEF PostRescan
<1>6. CASE Crash \/ Interrupt
  BY <1>6, RestartView DEF View!ViewNext
<1>7. CASE UNCHANGED vars
  BY <1>7, HiddenStep DEF vars, memory
<1> QED
  BY <1>2, <1>3, <1>4, <1>5, <1>6, <1>7 DEF Next

\* The scanner keeps the promise of WalletView: whoever reads the wallet sees
\* coins only go forward and the height advance by at most one scanned block, and
\* whoever restarts the process gets a wallet that was once in memory, or none.
\* As in ScanConsistent, no rescan starts beyond the next height.
THEOREM Implements ==
  ASSUME ~RescanAhead
  PROVE  Spec => ImplementsView
<1>1. Init => View!ViewInit
  BY SameView, Loads DEF Init, View!ViewInit
<1>2. Init => TypeOK /\ ScanInv
  BY TypeInit, ScanInit
<1>3. TypeOK /\ ScanInv /\ [Next]_vars => (TypeOK /\ ScanInv)'
  BY TypeStep, ScanStep
<1>4. TypeOK /\ ScanInv /\ [Next]_vars => [View!ViewNext]_(View!viewVars)
  BY ViewStep
<1> QED
  BY <1>1, <1>2, <1>3, <1>4, PTL DEF Spec, ImplementsView, View!ViewSpec
=============================================================================
