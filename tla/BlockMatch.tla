----------------------------- MODULE BlockMatch -----------------------------
(***************************************************************************)
(* Which outputs of a block belong to the wallet: the maps of syncBlock    *)
(* (internal/daemon/scan.go), as operators on the oracle's answers.        *)
(*                                                                         *)
(* Curve arithmetic is abstracted to its result.  A transaction and its    *)
(* tweak have one name.  The script <<t, k, l>> is the k-th output key     *)
(* that tweak t gives the wallet's keys, shifted by label l unless l is    *)
(* None (a label stands for its negation too); a script that is none of    *)
(* the wallet's is Foreign.                                                *)
(*                                                                         *)
(* A block is what the oracle serves of it:                                *)
(*   utxos   the sequence of its taproot outputs: txid, vout, script, and  *)
(*           whether they are spent as of the oracle's tip;                *)
(*   tweaks  the transactions whose tweak is served, which the dust limit  *)
(*           may leave out;                                                *)
(*   spends  the outpoints its inputs spend.                               *)
(***************************************************************************)
EXTENDS Integers, Sequences, SequencesExt

CONSTANTS
  Txids,    \* the transactions of a block
  Labels,   \* the labels of the wallet
  MaxK      \* bound: the last output index of a payment

None == "none"

ASSUME BlockMatchAssumption ==
  /\ None \notin Txids
  /\ MaxK \in Nat

Foreign == <<None, 0, None>>
Script == (Txids \X (0..MaxK) \X (Labels \cup {None})) \cup {Foreign}

UTXOServed == [txid : Txids, vout : Nat, script : Script, spent : BOOLEAN]
IsBlock(block) == block.utxos \in Seq(UTXOServed) /\ block.tweaks \subseteq Txids

Tweak(s) == s[1]
K(s) == s[2]
Outpoint(u) == <<u.txid, u.vout>>

\* OwnedUTXO, as far as a block tells; GetKey is txid and vout.
Coin(u) == [key |-> Outpoint(u), state |-> IF u.spent THEN "spent" ELSE "unspent"]

\* Slip: the scripts shifted by labels are not precomputed.
unlabelledScriptMap(tweaks) == {<<t, 0, None>> : t \in tweaks}

\* tweakToScriptMap: for every tweak the first output key, plain and with labels.
tweakToScriptMap(tweaks) == {<<t, 0, l>> : t \in tweaks, l \in Labels \cup {None}}

\* A group is a list in the order of the block: the places in it.
txidGroup(utxos, txid) == {n \in DOMAIN utxos : utxos[n].txid = txid}

With(utxos, group, s) == {n \in group : utxos[n].script = s}

Scripts(utxos) == {u.script : u \in ToSet(utxos)}

\* The last output with a script decides which transaction the script stands for.
helperMapping(utxos) ==
  [s \in Scripts(utxos) |-> utxos[Max(With(utxos, DOMAIN utxos, s))].txid]

\* The transactions that tweakToScriptMap names for a tweak.
TxidsOf(block, t) ==
  {helperMapping(block.utxos)[s] :
     s \in {r \in tweakToScriptMap(block.tweaks) : Tweak(r) = t} \cap Scripts(block.utxos)}

\* Go's maps have no order: the entry of a tweak is that of the script seen last.
tweaksOutputsToCheckMap(block) ==
  LET relevant == {t \in block.tweaks : TxidsOf(block, t) # {}} IN
  {txidOf \in [relevant -> Txids] : \A t \in relevant : txidOf[t] \in TxidsOf(block, t)}

\* ReceiverScanTransaction of bip352: for k = 0, 1, ... the first output with the
\* k-th key of the tweak, until there is none.
ReceiverScanTransaction(utxos, group, t) ==
  LET At(k) == {n \in group : LET s == utxos[n].script IN Tweak(s) = t /\ K(s) = k}
      found == {k \in 0..MaxK : \A j \in 0..k : At(j) # {}}
  IN  {utxos[Min(At(k))].script : k \in found}

\* Slip: the first output of the transaction, whatever its script.
FirstOutput(utxos, group, s) == utxos[Min(group)]

\* "break" after the first output of the transaction with a script that was found.
FindOutput(utxos, group, s) == utxos[Min(With(utxos, group, s))]

\* The coins of one tweak, found in the outputs of one transaction.
OwnedOf(utxos, group, t) ==
  {Coin(FindOutput(utxos, group, s)) : s \in ReceiverScanTransaction(utxos, group, t)}

\* What syncBlock may return, as a set of coins.  No tweak, no request for outputs.
OwnedUTXOs(block) ==
  {UNION {OwnedOf(block.utxos, txidGroup(block.utxos, txidOf[t]), t) : t \in DOMAIN txidOf} :
     txidOf \in tweaksOutputsToCheckMap(block)}

-----------------------------------------------------------------------------
(* The definition the maps are checked against: BIP 352 looks at one       *)
(* transaction with its own tweak.                                         *)

Pays(block, u) ==
  /\ Tweak(u.script) = u.txid
  /\ u.txid \in block.tweaks
  /\ \A k \in 0..K(u.script) :
       \E v \in ToSet(block.utxos) :
         v.txid = u.txid /\ Tweak(v.script) = u.txid /\ K(v.script) = k

Payments(block) == {Coin(u) : u \in {v \in ToSet(block.utxos) : Pays(block, v)}}

\* Senders of silent payments never derive a key twice and pay it only in the
\* transaction of its tweak; anyone else may pay a script seen on chain again.
FollowsProtocol(block) ==
  \A m, n \in DOMAIN block.utxos :
    LET s == block.utxos[m].script
        r == block.utxos[n].script
    IN  /\ s # Foreign => Tweak(s) = block.utxos[m].txid
        /\ m # n /\ s # Foreign => <<Tweak(s), K(s)>> # <<Tweak(r), K(r)>>
=============================================================================
