-------------------------- MODULE ScannerCoinProofs -------------------------
(***************************************************************************)
(* Proofs about the states of single coins in Scanner.  They need nothing  *)
(* about heights, so that rescans may start anywhere.                      *)
(***************************************************************************)
EXTENDS ScannerProofs

-----------------------------------------------------------------------------
(* No coin is written off: "spent" means spent by a mined block.           *)

\* The invariant behind it: what the loop is about to add is right as well.
SpendInv ==
  /\ ChainWellFormed
  /\ SpentIsSpent(wallet)
  /\ SpentIsSpent(disk.wallet)
  /\ \A u \in UTXO : owned[u] = "spent" => MinedSpent(u)

\* A step without a new block has to answer only for what it changes.
LEMMA SpendKept ==
  ASSUME SpendInv, UNCHANGED chainVars,
         SpentIsSpent(wallet') \/ wallet' = wallet,
         SpentIsSpent(disk'.wallet) \/ disk'.wallet = disk.wallet,
         owned' \in {owned, NoUTXOs}
  PROVE  SpendInv'
BY DEF SpendInv, ChainWellFormed, chainVars, SpentIsSpent, MinedSpent, NoUTXOs

\* Wherever the loop goes, it keeps or resets what it found.
LEMMA OwnedKept ==
  /\ \A p : Return(p) => owned' = NoUTXOs
  /\ ReturnError => owned' = NoUTXOs
  /\ \A c : CheckUnspentUTXOs(c) => owned' = NoUTXOs
  /\ \A c, from, tip : Loop(c, from, tip) => owned' = NoUTXOs
  /\ \A tip : SyncToTip(tip) => owned' \in {owned, NoUTXOs}
BY DEF Return, ReturnError, ReturnOk, CheckUnspentUTXOs, Loop, SyncToTip, locals

\* A wallet stays right when only coins that are spent become "spent", when other
\* states change, and when it is made anew.
LEMMA SpentOperations ==
  ASSUME NEW w \in Wallet
  PROVE  /\ SpentIsSpent(w) =>
              /\ \A us \in SUBSET UTXO :
                   (\A u \in us : MinedSpent(u)) => SpentIsSpent(SetStates(w, us, "spent"))
              /\ \A us \in SUBSET UTXO : SpentIsSpent(SetStates(w, us, "unconfirmed_spent"))
              /\ \A found \in Collection :
                   (\A u \in UTXO : found[u] = "spent" => MinedSpent(u))
                     => SpentIsSpent(AddUTXOs(w, found))
              /\ \A h \in Nat : SpentIsSpent([w EXCEPT !.last = h])
         /\ SpentIsSpent(SetupWallet)
         /\ SpentIsSpent(ZeroWallet)
BY DEF SpentIsSpent, SetStates, AddUTXOs, SetupWallet, ZeroWallet, NoUTXOs, Wallet,
   Collection

\* The invariant holds when the process starts.
LEMMA SpendInit == Init => SpendInv
BY SpentOperations, WalletTypes
   DEF Init, ChainInit, SpendInv, Absent, NoUTXOs

\* What a block the oracle serves spends is spent by a mined block.
LEMMA ServedIsMined ==
  ASSUME TypeOK, ChainWellFormed, NEW u \in UTXO, ServedSpent(u) \/ Serves(spentAt[u])
  PROVE  MinedSpent(u)
BY DEF TypeOK, ChainTypeOK, ChainWellFormed, Height, ServedSpent, Serves, MinedSpent

\* Every step keeps the invariant, if electrum knows what the oracle has indexed.
LEMMA SpendStep ==
  ASSUME ~ElectrumLags, TypeOK, SpendInv, [Next]_vars
  PROVE  SpendInv'
<1> USE DEF SpendInv
<1>1. CASE ChainStep
  <2>1. /\ UNCHANGED <<createdAt, spentAt>>
        /\ mined \in Nat /\ mined' \in Nat /\ mined' >= mined
        /\ indexed' <= mined'
    BY <1>1 DEF ChainStep, ChainNext, MineBlock, IndexBlock, TypeOK, ChainTypeOK,
       ChainWellFormed, Height
  <2>2. wallet' = wallet /\ disk' = disk /\ owned' = owned
    BY <1>1 DEF ChainStep, memory, locals
  <2>3. \A u \in UTXO : MinedSpent(u) => MinedSpent(u)'
    BY <2>1 DEF MinedSpent
  <2> QED
    BY <2>1, <2>2, <2>3 DEF ChainWellFormed, SpentIsSpent
<1>2. CASE Entry
  <2>1. UNCHANGED <<chainVars, wallet, disk>>
    BY <1>2 DEF Entry, InitialScan, Tick, NewBlock, TakeRescan, CheckTick, memory
  <2>2. owned' \in {owned, NoUTXOs}
    BY <1>2, OwnedKept
       DEF Entry, InitialScan, Tick, NewBlock, TakeRescan, CheckTick, locals
  <2> QED
    BY <2>1, <2>2, SpendKept
<1>3. ASSUME NEW ok \in BOOLEAN, MarkSpentUTXOs(ok)
      PROVE  SpendInv'
  <2>1. UNCHANGED <<chainVars, disk>> /\ owned' \in {owned, NoUTXOs}
    BY <1>3, OwnedKept DEF MarkSpentUTXOs
  <2>2. CASE ok
    <3>1. /\ SpentIn(i) \cap Known(wallet) \in SUBSET UTXO
          /\ \A u \in SpentIn(i) \cap Known(wallet) : MinedSpent(u)
      BY <1>3, <2>2, ServedIsMined DEF MarkSpentUTXOs, SpentIn
    <3>2. SpentIsSpent(wallet')
      BY <1>3, <2>2, <3>1, SpentOperations DEF MarkSpentUTXOs, TypeOK
    <3> QED
      BY <2>1, <3>2, SpendKept
  <2>3. CASE ~ok
    BY <1>3, <2>1, <2>3, SpendKept DEF MarkSpentUTXOs
  <2> QED
    BY <2>2, <2>3
<1>4. ASSUME NEW ok \in BOOLEAN, SyncBlock(ok)
      PROVE  SpendInv'
  <2>1. UNCHANGED <<chainVars, wallet, disk>>
    BY <1>4 DEF SyncBlock, memory
  <2>2. CASE ok
    <3>1. owned' = Found(i)
      BY <1>4, <2>2 DEF SyncBlock
    <3>2. \A u \in UTXO : owned'[u] = "spent" => MinedSpent(u)
      BY <3>1, ServedIsMined DEF Found
    <3> QED
      BY <2>1, <3>2 DEF ChainWellFormed, chainVars, SpentIsSpent, MinedSpent
  <2>3. CASE ~ok
    BY <1>4, <2>1, <2>3, OwnedKept, SpendKept DEF SyncBlock
  <2> QED
    BY <2>2, <2>3
<1>5. CASE AddOwnedUTXOs
  <2>1. SpentIsSpent(wallet')
    BY <1>5, SpentOperations DEF AddOwnedUTXOs, TypeOK
  <2> QED
    BY <1>5, <2>1, SpendKept DEF AddOwnedUTXOs
<1>6. CASE SetLastScanHeight
  <2>1. SpentIsSpent(wallet')
    BY <1>6, SpentOperations DEF SetLastScanHeight, TypeOK
  <2>2. owned' \in {owned, NoUTXOs}
    BY <1>6, OwnedKept DEF SetLastScanHeight
  <2> QED
    BY <1>6, <2>1, <2>2, SpendKept DEF SetLastScanHeight
<1>7. ASSUME NEW ok \in BOOLEAN, TruncateFile(ok) \/ FillFile(ok)
      PROVE  SpendInv'
  <2>1. UNCHANGED <<chainVars, wallet>>
    BY <1>7 DEF TruncateFile, FillFile, memory
  <2>2. owned' \in {owned, NoUTXOs}
    BY <1>7, OwnedKept DEF TruncateFile, FillFile
  <2>3. disk' \in {disk, Torn, Saved(wallet)}
    BY <1>7 DEF TruncateFile, FillFile
  <2>4. SpentIsSpent(disk'.wallet) \/ disk'.wallet = disk.wallet
    BY <2>3, SpentOperations, WalletTypes DEF Torn, Saved
  <2> QED
    BY <2>1, <2>2, <2>4, SpendKept
<1>8. ASSUME NEW u \in UTXO, NEW answer \in {"funded", "pending", "gone", "error"},
             CheckUTXO(u, answer)
      PROVE  SpendInv'
  <2>1. UNCHANGED <<chainVars, disk>> /\ owned' \in {owned, NoUTXOs}
    BY <1>8, OwnedKept DEF CheckUTXO, ReturnOk
  <2>2. CASE answer = "gone"
    BY <1>8, <2>1, <2>2, SpentOperations, SpendKept DEF CheckUTXO, TypeOK
  <2>3. CASE answer = "pending"
    BY <1>8, <2>1, <2>3, SpentOperations, SpendKept DEF CheckUTXO, TypeOK
  <2>4. CASE answer \in {"funded", "error"}
    BY <1>8, <2>1, <2>4, SpendKept DEF CheckUTXO
  <2> QED
    BY <2>2, <2>3, <2>4
<1>9. ASSUME NEW h \in RescanHeights, PostRescan(h)
      PROVE  SpendInv'
  BY <1>9, SpendKept DEF PostRescan, locals
<1>10. CASE Crash \/ Interrupt
  <2>1. /\ UNCHANGED chainVars
        /\ disk' \in {disk, Saved(wallet), Torn}
        /\ Start(Load(disk'))
    BY <1>10 DEF Crash, Interrupt
  <2>2. SpentIsSpent(disk'.wallet)
    BY <2>1, SpentOperations, WalletTypes DEF Torn, Saved
  <2>3. SpentIsSpent(wallet') /\ owned' = NoUTXOs
    BY <2>1, <2>2, SpentOperations, WalletTypes, OwnedKept DEF Start, Load
  <2> QED
    BY <2>1, <2>2, <2>3, SpendKept
<1>11. CASE UNCHANGED vars
  BY <1>11, SpendKept DEF vars, memory, locals
<1> QED
  BY <1>1, <1>2, <1>3, <1>4, <1>5, <1>6, <1>7, <1>8, <1>9, <1>10, <1>11
     DEF Next, Block

\* Neither in memory nor on disk is a coin "spent" that no mined block spends, as
\* long as electrum knows what the oracle has indexed: whatever fails, whatever
\* is rescanned, and wherever the process is killed.
THEOREM NothingWrittenOff == Spec => []NoCoinWrittenOff
<1>1. CASE ElectrumLags
  <2>1. NoCoinWrittenOff
    BY <1>1 DEF NoCoinWrittenOff
  <2> QED
    BY <2>1, PTL
<1>2. CASE ~ElectrumLags
  <2>1. TypeOK /\ SpendInv /\ [Next]_vars => (TypeOK /\ SpendInv)'
    BY <1>2, TypeStep, SpendStep
  <2>2. SpendInv => NoCoinWrittenOff
    BY DEF SpendInv, NoCoinWrittenOff
  <2> QED
    BY <2>1, <2>2, TypeInit, SpendInit, PTL DEF Spec
<1> QED
  BY <1>1, <1>2

-----------------------------------------------------------------------------
(* What is known about a coin only grows.                                  *)

Advances(w, later) ==
  \A u \in UTXO : View!Rank(w.utxos[u]) <= View!Rank(later.utxos[u])

States == {"unknown", "unspent", "unconfirmed_spent", "spent"}

\* The order of the states.
LEMMA Ranks ==
  ASSUME NEW s \in States
  PROVE  /\ View!Rank(s) <= View!Rank(s)
         /\ View!Rank(s) <= View!Rank("spent")
         /\ View!Rank("unknown") <= View!Rank(s)
         /\ s \in {"unspent", "unconfirmed_spent"}
              => View!Rank(s) <= View!Rank("unconfirmed_spent")
<1>1. /\ View!Rank("unknown") = 0 /\ View!Rank("unspent") = 1
      /\ View!Rank("unconfirmed_spent") = 2 /\ View!Rank("spent") = 3
  BY DEF View!Rank
<1>2. CASE s = "unknown"
  BY <1>1, <1>2
<1>3. CASE s = "unspent"
  BY <1>1, <1>3
<1>4. CASE s = "unconfirmed_spent"
  BY <1>1, <1>4
<1>5. CASE s = "spent"
  BY <1>1, <1>5
<1> QED
  BY <1>2, <1>3, <1>4, <1>5 DEF States

\* Each operation on the wallet takes coins forward, if "unconfirmed_spent" is
\* given to coins that are not spent only.
LEMMA OperationsAdvance ==
  ASSUME NEW w \in Wallet
  PROVE  /\ Advances(w, w)
         /\ \A us \in SUBSET UTXO : Advances(w, SetStates(w, us, "spent"))
         /\ \A us \in SUBSET GetUTXOsByStates(w, {"unspent", "unconfirmed_spent"}) :
              Advances(w, SetStates(w, us, "unconfirmed_spent"))
         /\ \A found \in Collection : Advances(w, AddUTXOs(w, found))
         /\ \A h \in Nat : Advances(w, [w EXCEPT !.last = h])
<1>1. \A u \in UTXO : w.utxos[u] \in States
  BY DEF Wallet, Collection, UTXOState, States
<1>2. Advances(w, w)
  BY <1>1, Ranks DEF Advances
<1>3. ASSUME NEW us \in SUBSET UTXO PROVE Advances(w, SetStates(w, us, "spent"))
  <2>1. SUFFICES ASSUME NEW u \in UTXO
                 PROVE  View!Rank(w.utxos[u])
                          <= View!Rank(SetStates(w, us, "spent").utxos[u])
    BY DEF Advances
  <2>2. SetStates(w, us, "spent").utxos[u] = IF u \in us THEN "spent" ELSE w.utxos[u]
    BY DEF SetStates, Wallet
  <2> QED
    BY <1>1, <2>2, Ranks
<1>4. ASSUME NEW us \in SUBSET GetUTXOsByStates(w, {"unspent", "unconfirmed_spent"})
      PROVE  Advances(w, SetStates(w, us, "unconfirmed_spent"))
  <2>1. SUFFICES ASSUME NEW u \in UTXO
                 PROVE  View!Rank(w.utxos[u])
                          <= View!Rank(SetStates(w, us, "unconfirmed_spent").utxos[u])
    BY DEF Advances
  <2>2. SetStates(w, us, "unconfirmed_spent").utxos[u]
          = IF u \in us THEN "unconfirmed_spent" ELSE w.utxos[u]
    BY DEF SetStates, Wallet
  <2>3. u \in us => w.utxos[u] \in {"unspent", "unconfirmed_spent"}
    BY DEF GetUTXOsByStates
  <2> QED
    BY <1>1, <2>2, <2>3, Ranks
<1>5. ASSUME NEW found \in Collection PROVE Advances(w, AddUTXOs(w, found))
  <2>1. SUFFICES ASSUME NEW u \in UTXO
                 PROVE  View!Rank(w.utxos[u]) <= View!Rank(AddUTXOs(w, found).utxos[u])
    BY DEF Advances
  <2>2. AddUTXOs(w, found).utxos[u]
          = IF w.utxos[u] = "unknown" THEN found[u] ELSE w.utxos[u]
    BY DEF AddUTXOs, Wallet
  <2>3. found[u] \in States
    BY DEF Collection, UTXOState, States
  <2> QED
    BY <1>1, <2>2, <2>3, Ranks
<1>6. ASSUME NEW h \in Nat PROVE Advances(w, [w EXCEPT !.last = h])
  BY <1>2 DEF Advances, Wallet
<1> QED
  BY <1>2, <1>3, <1>4, <1>5, <1>6

\* CheckUnspentUTXOs starts with the unspent coins, and nothing but itself runs
\* until it is done.
LEMMA TodoEntered ==
  ASSUME wallet'.utxos = wallet.utxos
  PROVE  /\ \A p \in PC \ {"check"} : Return(p) => TodoUnchecked'
         /\ ReturnError => TodoUnchecked'
         /\ \A c : CheckUnspentUTXOs(c) => TodoUnchecked'
         /\ \A c, from, tip : Loop(c, from, tip) => TodoUnchecked'
         /\ UNCHANGED locals /\ TodoUnchecked => TodoUnchecked'
         /\ \A tip : TodoUnchecked /\ SyncToTip(tip) => TodoUnchecked'
BY DEF Return, ReturnError, ReturnOk, CheckUnspentUTXOs, Loop, SyncToTip, locals,
   TodoUnchecked, UncheckedUTXOs, GetUTXOsByStates, PC

\* In every step electrum is left with unspent coins to be asked about, and no coin
\* of a process that goes on goes back.
LEMMA AdvanceStep ==
  ASSUME TypeOK, TodoUnchecked, [Next]_vars
  PROVE  TodoUnchecked' /\ (Crash \/ Interrupt \/ Advances(wallet, wallet'))
<1> USE DEF TypeOK
<1>1. CASE ChainStep \/ UNCHANGED vars
  <2>1. wallet' = wallet /\ UNCHANGED locals
    BY <1>1 DEF ChainStep, vars, memory
  <2> QED
    BY <2>1, TodoEntered, OperationsAdvance
<1>2. CASE Entry
  <2>1. wallet' = wallet
    BY <1>2 DEF Entry, InitialScan, Tick, NewBlock, TakeRescan, CheckTick, memory
  <2>2. TodoUnchecked'
    BY <1>2, <2>1, TodoEntered
       DEF Entry, InitialScan, Tick, NewBlock, TakeRescan, CheckTick, PC
  <2> QED
    BY <2>1, <2>2, OperationsAdvance
<1>3. ASSUME NEW ok \in BOOLEAN, MarkSpentUTXOs(ok)
      PROVE  TodoUnchecked' /\ Advances(wallet, wallet')
  <2>1. CASE ok
    <3>1. wallet' = SetStates(wallet, SpentIn(i) \cap Known(wallet), "spent")
          /\ pc' = "fetch"
      BY <1>3, <2>1 DEF MarkSpentUTXOs
    <3>2. SpentIn(i) \cap Known(wallet) \in SUBSET UTXO
      BY DEF SpentIn
    <3> QED
      BY <3>1, <3>2, OperationsAdvance DEF TodoUnchecked
  <2>2. CASE ~ok
    BY <1>3, <2>2, TodoEntered, OperationsAdvance DEF MarkSpentUTXOs
  <2> QED
    BY <2>1, <2>2
<1>4. ASSUME NEW ok \in BOOLEAN, SyncBlock(ok)
      PROVE  TodoUnchecked' /\ Advances(wallet, wallet')
  <2>1. wallet' = wallet
    BY <1>4 DEF SyncBlock, memory
  <2>2. TodoUnchecked'
    <3>1. CASE ok
      BY <1>4, <3>1 DEF SyncBlock, TodoUnchecked
    <3>2. CASE ~ok
      BY <1>4, <2>1, <3>2, TodoEntered DEF SyncBlock
    <3> QED
      BY <3>1, <3>2
  <2> QED
    BY <2>1, <2>2, OperationsAdvance
<1>5. CASE AddOwnedUTXOs
  BY <1>5, OperationsAdvance DEF AddOwnedUTXOs, TodoUnchecked
<1>6. CASE SetLastScanHeight
  <2>1. wallet' = [wallet EXCEPT !.last = i] /\ wallet'.utxos = wallet.utxos
    BY <1>6 DEF SetLastScanHeight, Wallet
  <2>2. TodoUnchecked'
    BY <1>6, <2>1, TodoEntered DEF SetLastScanHeight, TodoUnchecked
  <2> QED
    BY <2>1, <2>2, OperationsAdvance
<1>7. ASSUME NEW ok \in BOOLEAN, TruncateFile(ok) \/ FillFile(ok)
      PROVE  TodoUnchecked' /\ Advances(wallet, wallet')
  <2>1. wallet' = wallet
    BY <1>7 DEF TruncateFile, FillFile, memory
  <2>2. TodoUnchecked'
    BY <1>7, <2>1, TodoEntered DEF TruncateFile, FillFile, TodoUnchecked
  <2> QED
    BY <2>1, <2>2, OperationsAdvance
<1>8. ASSUME NEW u \in UTXO, NEW answer \in {"funded", "pending", "gone", "error"},
             CheckUTXO(u, answer)
      PROVE  TodoUnchecked' /\ Advances(wallet, wallet')
  <2>1. {u} \in SUBSET UTXO
        /\ {u} \in SUBSET GetUTXOsByStates(wallet, {"unspent", "unconfirmed_spent"})
    BY <1>8 DEF CheckUTXO, TodoUnchecked, UncheckedUTXOs
  <2>2. wallet' \in {wallet, SetStates(wallet, {u}, "spent"),
                     SetStates(wallet, {u}, "unconfirmed_spent")}
    BY <1>8 DEF CheckUTXO
  <2>3. Advances(wallet, wallet')
    BY <2>1, <2>2, OperationsAdvance
  <2>4. \A v \in UTXO \ {u} : wallet'.utxos[v] = wallet.utxos[v]
    BY <2>2 DEF SetStates, Wallet
  <2>5. TodoUnchecked'
    <3>1. CASE ReturnError \/ ReturnOk
      BY <3>1 DEF ReturnError, ReturnOk, Return, TodoUnchecked
    <3>2. CASE todo' = todo \ {u} /\ UNCHANGED <<pc, call, i, chainTip, owned>>
      BY <2>4, <3>2 DEF TodoUnchecked, UncheckedUTXOs, GetUTXOsByStates
    <3> QED
      BY <1>8, <3>1, <3>2 DEF CheckUTXO
  <2> QED
    BY <2>3, <2>5
<1>9. ASSUME NEW h \in RescanHeights, PostRescan(h)
      PROVE  TodoUnchecked' /\ Advances(wallet, wallet')
  BY <1>9, TodoEntered, OperationsAdvance DEF PostRescan
<1>10. CASE Crash \/ Interrupt
  <2>1. \E w : Start(w)
    BY <1>10 DEF Crash, Interrupt
  <2> QED
    BY <1>10, <2>1 DEF Start, Return, TodoUnchecked
<1> QED
  BY <1>1, <1>2, <1>3, <1>4, <1>5, <1>6, <1>7, <1>8, <1>9, <1>10 DEF Next, Block

\* Within one run of the process no coin is forgotten and none goes back to an
\* earlier state, whatever is rescanned, whatever electrum answers and whatever
\* fails.
THEOREM KnowledgeGrows == Spec => StatesOnlyAdvance
<1>1. Init => TodoUnchecked
  BY DEF Init, TodoUnchecked
<1>2. TypeOK /\ TodoUnchecked /\ [Next]_vars => (TypeOK /\ TodoUnchecked)'
  BY TypeStep, AdvanceStep
<1>3. TypeOK /\ TodoUnchecked /\ [Next]_vars
        => [Crash \/ Interrupt \/
            \A u \in UTXO : View!Rank(wallet.utxos[u]) <= View!Rank(wallet'.utxos[u])]_vars
  BY AdvanceStep DEF Advances
<1> QED
  BY <1>1, <1>2, <1>3, TypeInit, PTL DEF Spec, StatesOnlyAdvance
=============================================================================
