------------------------------- MODULE Wallet -------------------------------
(***************************************************************************)
(* pkg/wallet/wallet.go: the wallet as a value.  Keys, addresses, labels   *)
(* and amounts are abstracted: an output of UTXO is one the wallet's keys  *)
(* match, and a wallet record keeps                                        *)
(*   keyed  the keys are set (SecretKeyScan and PubKeySpend not all zero), *)
(*   last   LastScanHeight,                                                *)
(*   utxos  UTXOs and UTXOMapping: the state of every output, "unknown"    *)
(*          for one that is not in the collection.                         *)
(* UTXOs and UTXOMapping change together here; the window between the two  *)
(* assignments of AddUTXOs is a matter for another module.                 *)
(* StateUnconfirmed is declared in the code and assigned nowhere.          *)
(***************************************************************************)
EXTENDS Chain

CONSTANT ConfigBirth   \* wallet.birth_height of blindbit.toml

ASSUME ConfigBirthAssumption == ConfigBirth \in Nat

UTXOState == {"unspent", "unconfirmed_spent", "spent"}
Collection == [UTXO -> UTXOState \cup {"unknown"}]
Wallet == [keyed : BOOLEAN, last : Nat, utxos : Collection]

NoUTXOs == [u \in UTXO |-> "unknown"]

\* SetupWallet: the birth height is at least 1 ...
BirthHeight == IF ConfigBirth < 1 THEN 1 ELSE ConfigBirth

\* ... and the block before it counts as scanned, except that there is no
\* block 0 to name, so that a birth height of 1 starts with last = 1.
SetupLastScanHeight == IF BirthHeight - 1 > 0 THEN BirthHeight - 1
                                              ELSE BirthHeight

SetupWallet == [keyed |-> TRUE, last |-> SetupLastScanHeight, utxos |-> NoUTXOs]

\* The zero value of the struct: what a failed DeSerialise leaves.
ZeroWallet == [keyed |-> FALSE, last |-> 0, utxos |-> NoUTXOs]

\* The first height a sync scans (the head of SyncToTip).
NextHeight(w) == IF w.last >= BirthHeight THEN w.last + 1 ELSE BirthHeight

GetUTXOsByStates(w, states) == {u \in UTXO : w.utxos[u] \in states}

\* Slip: the mapping is not consulted, a coin found again replaces the old one.
AddUTXOsAgain(w, found) ==
  [w EXCEPT !.utxos = [u \in UTXO |-> IF found[u] = "unknown" THEN w.utxos[u]
                                      ELSE found[u]]]

\* Outputs already in the mapping are skipped, the others appended.
AddUTXOs(w, found) ==
  [w EXCEPT !.utxos = [u \in UTXO |-> IF w.utxos[u] = "unknown" THEN found[u]
                                      ELSE w.utxos[u]]]

SetStates(w, us, state) ==
  [w EXCEPT !.utxos = [u \in UTXO |-> IF u \in us THEN state ELSE w.utxos[u]]]

-----------------------------------------------------------------------------
(* What a wallet promises about the chain.                                 *)

Known(w) == {u \in UTXO : w.utxos[u] # "unknown"}

\* The first height a fresh wallet's scan looks at: with birth height 1 it is 2.
FirstHeight == SetupLastScanHeight + 1

\* The heights the wallet claims to have scanned.
Scanned(w) == FirstHeight..w.last

\* Every output paid to the wallet in a scanned block is in the wallet.
Complete(w) == \A u \in UTXO : createdAt[u] \in Scanned(w) => u \in Known(w)

\* A coin that a scanned block spends is "spent": none of them is still
\* offered as free or counted in the balance.
SpendsSeen(w) ==
  \A u \in Known(w) : spentAt[u] \in Scanned(w) => w.utxos[u] = "spent"

\* A coin in the wallet was created in a block the oracle served.
NoPhantom(w) == \A u \in Known(w) : Serves(createdAt[u])

\* A coin marked "spent" is spent by a mined block.
SpentIsSpent(w) == \A u \in UTXO : w.utxos[u] = "spent" => MinedSpent(u)

Consistent(w) == Complete(w) /\ SpendsSeen(w) /\ NoPhantom(w)
=============================================================================
