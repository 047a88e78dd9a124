------------------------------- MODULE Chain -------------------------------
(***************************************************************************)
(* The Bitcoin chain and the two servers that report it: the BlindBit      *)
(* oracle (pkg/networking/blindbit.go is its client) and Electrum.  Both   *)
(* are external; they are modelled from the answers the scanner relies on. *)
(*                                                                         *)
(* The chain that will be mined is chosen in the initial state and never   *)
(* changes: createdAt[u] is the height of the block that creates output u, *)
(* spentAt[u] the height of the block that spends it, 0 for "never".  What *)
(* moves is how much of it exists: heights 1..mined have been mined and    *)
(* heights 1..indexed are served by the oracle, which lags the chain.      *)
(* Nothing reads a height before it is mined.  Reorganisations are outside *)
(* the model (the scanner has no code for them).                           *)
(***************************************************************************)
EXTENDS Integers

CONSTANTS UTXO,       \* the outputs that pay the wallet
          MaxHeight   \* bound: the last height that is mined

ASSUME MaxHeightAssumption == MaxHeight \in Nat

VARIABLES createdAt, spentAt, mined, indexed

chainVars == <<createdAt, spentAt, mined, indexed>>

Height == 0..MaxHeight

ChainTypeOK ==
  /\ createdAt \in [UTXO -> Height]
  /\ spentAt \in [UTXO -> Height]
  /\ mined \in Height
  /\ indexed \in Height

\* An output is created before it is spent (the same block may do both).
ChainWellFormed ==
  /\ \A u \in UTXO : spentAt[u] # 0 => createdAt[u] \in 1..spentAt[u]
  /\ indexed <= mined

ChainInit == ChainTypeOK /\ ChainWellFormed

MineBlock ==
  /\ mined < MaxHeight
  /\ mined' = mined + 1
  /\ UNCHANGED <<createdAt, spentAt, indexed>>

\* The oracle finishes indexing the next block ("indexing server does not
\* index immediately after a block is found", scan.go:324).
IndexBlock ==
  /\ indexed < mined
  /\ indexed' = indexed + 1
  /\ UNCHANGED <<createdAt, spentAt, mined>>

ChainNext == MineBlock \/ IndexBlock

-----------------------------------------------------------------------------
(* What the servers answer.                                                *)

\* The oracle has data (filter, tweaks, outputs, spent index) of block h.
Serves(h) == h \in 1..indexed

\* The outputs of block h that the scan keys match.
CreatedIn(h) == {u \in UTXO : createdAt[u] = h}

\* The outputs block h spends (the spent-outpoints index of h).
SpentIn(h) == {u \in UTXO : spentAt[u] = h}

\* The "spent" flag the oracle serves with an output, as of its own tip.
ServedSpent(u) == spentAt[u] \in 1..indexed

\* The output is spent by a mined block.
MinedSpent(u) == spentAt[u] \in 1..mined
=============================================================================
