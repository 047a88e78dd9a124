------------------------------ MODULE BlockSync -----------------------------
(***************************************************************************)
(* The scan loop on one block, request by request and assignment by        *)
(* assignment (internal/daemon/scan.go, pkg/networking/blindbit.go,        *)
(* pkg/wallet/wallet.go), beside the flush that main runs on its way out   *)
(* (SaveWalletToDB, pkg/database/db.go) and that shares the wallet and the *)
(* file with it without a lock.                                            *)
(*                                                                         *)
(* Scanner takes the matching of a block, AddUTXOs and the flush as one    *)
(* step each; this module is about what happens inside of them.  The block *)
(* is any of Blocks, the last height is 0 before it and 1 with it, and the *)
(* wallet holds one coin of an earlier block, which this one may spend.    *)
(***************************************************************************)
EXTENDS BlockMatch

CONSTANTS
  Blocks,   \* what the oracle may serve for the block
  OldKey    \* the outpoint of the coin found earlier

\* An outpoint is made once, and one that the block itself spends is served as spent.
ASSUME BlockSyncAssumption ==
  \A b \in Blocks :
    /\ IsBlock(b)
    /\ \A u \in ToSet(b.utxos) : /\ Outpoint(u) # OldKey
                                 /\ Outpoint(u) \in b.spends => u.spent

VARIABLES
  block,
  wallet,   \* LastScanHeight, UTXOs and UTXOMapping
  file,     \* the wallet file, or Torn
  pc,       \* where the loop stands
  todo,     \* the coins AddUTXOs has not come to
  data,     \* what the loop has serialised
  flush,    \* where main's flush stands
  copy,     \* what the flush has serialised
  missed,   \* history: an answer without an index was taken for an empty one
  skewed    \* history: a file was loaded whose mapping is not that of its coins

loop == <<pc, todo, data>>
exit == <<flush, copy>>
vars == <<block, wallet, file, loop, exit, missed, skewed>>

Keys(utxos) == {c.key : c \in ToSet(utxos)}

OldCoins == {[key |-> OldKey, state |-> s] : s \in {"unspent", "unconfirmed_spent"}}

FreshWallet(old) == [last |-> 0, utxos |-> <<old>>, mapping |-> {OldKey}]

\* A file cut short, or one text over the tail of another: it does not parse.
Torn == [last |-> 0, utxos |-> <<>>, mapping |-> {}]

BlockKeys == {Outpoint(u) : u \in ToSet(block.utxos)}

IsWallet(w) ==
  /\ w.last \in 0..1
  /\ \A c \in ToSet(w.utxos) : /\ c.key \in BlockKeys \cup {OldKey}
                               /\ c.state \in {"unspent", "unconfirmed_spent", "spent"}
  /\ w.mapping \subseteq BlockKeys \cup {OldKey}

TypeOK ==
  /\ block \in Blocks
  /\ IsWallet(wallet) /\ IsWallet(file) /\ IsWallet(data) /\ IsWallet(copy)
  /\ pc \in {"idle", "mark", "index", "tweaks", "utxos", "add", "map", "height",
             "save", "fill", "waiting"}
  /\ todo \subseteq [key : BlockKeys, state : {"unspent", "spent"}]
  /\ flush \in {"none", "height", "utxos", "mapping", "truncate", "fill", "exit"}
  /\ missed \in BOOLEAN /\ skewed \in BOOLEAN

-----------------------------------------------------------------------------
(* The loop.  An error takes it back to its select statement.              *)

\* A tick or a rescan reaches the block, for the first time or again.
Begin ==
  /\ pc = "idle"
  /\ pc' = "mark"
  /\ UNCHANGED <<block, wallet, file, todo, data, exit, missed, skewed>>

\* Slip: a coin with a pending spend is not looked for.
localOutpointsUnspent(w) == {c.key : c \in {d \in ToSet(w.utxos) : d.state = "unspent"}}

\* generateLocalOutpointHashes: coins that are not spent.
localOutpoints(w) == {c.key : c \in {d \in ToSet(w.utxos) : d.state # "spent"}}

\* GetFilter and matchFilter: an answer without a block hash is an error, and a
\* filter may match what the block does not spend.
GetFilter ==
  /\ pc = "mark"
  /\ \/ pc' = "idle"
     \/ pc' = "index"
     \/ pc' = "tweaks" /\ localOutpoints(wallet) \cap block.spends = {}
  /\ UNCHANGED <<block, wallet, file, todo, data, exit, missed, skewed>>

MarkSpent(utxos, keys) ==
  [n \in DOMAIN utxos |->
     IF utxos[n].key \in keys THEN [utxos[n] EXCEPT !.state = "spent"] ELSE utxos[n]]

\* GetSpentOutpointsIndex: unlike GetFilter it takes any JSON object for an index,
\* also one that reports an error and has neither hash nor data.  (If bip352 panics
\* at the missing hash instead of padding it, that is a Restart.)
GetSpentOutpointsIndex ==
  /\ pc = "index"
  /\ \/ pc' = "idle" /\ UNCHANGED <<wallet, missed>>
     \/ pc' = "tweaks" /\ missed' = TRUE /\ UNCHANGED wallet
     \/ /\ pc' = "tweaks"
        /\ wallet' = [wallet EXCEPT
             !.utxos = MarkSpent(@, localOutpoints(wallet) \cap block.spends)]
        /\ UNCHANGED missed
  /\ UNCHANGED <<block, file, todo, data, exit, skewed>>

\* GetTweaks: without any, the outputs are not asked for.
GetTweaks ==
  /\ pc = "tweaks"
  /\ \/ pc' = "idle"
     \/ pc' = IF tweakToScriptMap(block.tweaks) = {} THEN "height" ELSE "utxos"
  /\ UNCHANGED <<block, wallet, file, todo, data, exit, missed, skewed>>

\* GetUTXOs, and the rest of syncBlock.
GetUTXOs ==
  /\ pc = "utxos"
  /\ \/ pc' = "idle" /\ UNCHANGED todo
     \/ /\ todo' \in OwnedUTXOs(block)
        /\ pc' = IF todo' = {} THEN "height" ELSE "add"
  /\ UNCHANGED <<block, wallet, file, data, exit, missed, skewed>>

\* Slip: the mapping is not looked at.
AppendAnyUTXO(c) ==
  /\ pc = "add"
  /\ c \in todo
  /\ wallet' = [wallet EXCEPT !.utxos = Append(@, c)]
  /\ pc' = "map"
  /\ UNCHANGED <<block, file, todo, data, exit, missed, skewed>>

\* AddUTXOs: a coin in the mapping is passed over, any other appended to UTXOs ...
AppendUTXO(c) ==
  /\ pc = "add"
  /\ c \in todo
  /\ IF c.key \in wallet.mapping
       THEN /\ todo' = todo \ {c}
            /\ pc' = IF todo' = {} THEN "height" ELSE "add"
            /\ UNCHANGED wallet
       ELSE /\ wallet' = [wallet EXCEPT !.utxos = Append(@, c)]
            /\ pc' = "map"
            /\ UNCHANGED todo
  /\ UNCHANGED <<block, file, data, exit, missed, skewed>>

\* ... and then entered into UTXOMapping.
EnterMapping(c) ==
  /\ pc = "map"
  /\ c \in todo
  /\ c = wallet.utxos[Len(wallet.utxos)]
  /\ wallet' = [wallet EXCEPT !.mapping = @ \cup {c.key}]
  /\ todo' = todo \ {c}
  /\ pc' = IF todo' = {} THEN "height" ELSE "add"
  /\ UNCHANGED <<block, file, data, exit, missed, skewed>>

\* Slip: the height to scan next is recorded.
SetNextScanHeight ==
  /\ pc = "height"
  /\ wallet' = [wallet EXCEPT !.last = 2]
  /\ pc' \in {"save", "idle"}
  /\ UNCHANGED <<block, file, todo, data, exit, missed, skewed>>

\* LastScanHeight = i.  A block with coins is followed by a save, one without now
\* and then; which of them this one is does not matter here.
SetLastScanHeight ==
  /\ pc = "height"
  /\ wallet' = [wallet EXCEPT !.last = 1]
  /\ pc' \in {"save", "idle"}
  /\ UNCHANGED <<block, file, todo, data, exit, missed, skewed>>

\* WriteWalletToDB: serialise and truncate, then fill.
TruncateFile ==
  /\ pc = "save"
  /\ \/ pc' = "idle" /\ UNCHANGED <<file, data>>
     \/ pc' = "fill" /\ data' = wallet /\ file' = Torn
  /\ UNCHANGED <<block, wallet, todo, exit, missed, skewed>>

\* os.WriteFile writes from the start of the file it has opened: the tail of what
\* the other one has written since may stay behind.
Overlay(text) == IF file = Torn THEN {text} ELSE {text, Torn}

FillFile ==
  /\ pc = "fill"
  /\ pc' = "idle"
  /\ \/ UNCHANGED file
     \/ file' \in Overlay(data)
  /\ data' = Torn
  /\ UNCHANGED <<block, wallet, todo, exit, missed, skewed>>

-----------------------------------------------------------------------------
(* Main's flush reads the wallet field by field, in the order of the        *)
(* struct, while the loop goes on.                                          *)

\* Bound: a process that loaded a skewed file is not interrupted, as the coins of
\* such a file may double each time.
Interrupt ==
  /\ flush = "none"
  /\ ~skewed
  /\ flush' = "height"
  /\ UNCHANGED <<block, wallet, file, loop, copy, missed, skewed>>

ReadLastScanHeight ==
  /\ flush = "height"
  /\ flush' = "utxos"
  /\ copy' = [copy EXCEPT !.last = wallet.last]
  /\ UNCHANGED <<block, wallet, file, loop, missed, skewed>>

ReadUTXOs ==
  /\ flush = "utxos"
  /\ flush' = "mapping"
  /\ copy' = [copy EXCEPT !.utxos = wallet.utxos]
  /\ UNCHANGED <<block, wallet, file, loop, missed, skewed>>

\* Slip: LastScanHeight is declared, and so serialised, after UTXOs.
ReadUTXOMappingAndHeight ==
  /\ flush = "mapping"
  /\ flush' = "truncate"
  /\ copy' = [copy EXCEPT !.mapping = wallet.mapping, !.last = wallet.last]
  /\ UNCHANGED <<block, wallet, file, loop, missed, skewed>>

ReadUTXOMapping ==
  /\ flush = "mapping"
  /\ flush' = "truncate"
  /\ copy' = [copy EXCEPT !.mapping = wallet.mapping]
  /\ UNCHANGED <<block, wallet, file, loop, missed, skewed>>

FlushTruncates ==
  /\ flush = "truncate"
  /\ flush' \in {"fill", "exit"}
  /\ file' = IF flush' = "fill" THEN Torn ELSE file
  /\ UNCHANGED <<block, wallet, loop, copy, missed, skewed>>

FlushFills ==
  /\ flush = "fill"
  /\ flush' = "exit"
  /\ \/ UNCHANGED file
     \/ file' \in Overlay(copy)
  /\ UNCHANGED <<block, wallet, loop, copy, missed, skewed>>

\* The process ends, after the flush or killed before, and is started again.  Go
\* ends it too when the flush meets an assignment to the mapping.
Restart ==
  /\ wallet' = file
  /\ pc' = IF file = Torn THEN "waiting" ELSE "idle"
  /\ todo' = {}
  /\ data' = Torn
  /\ flush' = "none"
  /\ copy' = Torn
  /\ skewed' = (skewed \/ Keys(file.utxos) # file.mapping)
  /\ UNCHANGED <<block, file, missed>>

-----------------------------------------------------------------------------
Init ==
  /\ block \in Blocks
  /\ \E old \in OldCoins : wallet = FreshWallet(old)
  /\ file = wallet
  /\ pc = "idle"
  /\ todo = {}
  /\ data = Torn
  /\ flush = "none"
  /\ copy = Torn
  /\ missed = FALSE
  /\ skewed = FALSE

Scan ==
  \/ Begin \/ GetFilter \/ GetSpentOutpointsIndex \/ GetTweaks \/ GetUTXOs
  \/ \E c \in todo : AppendUTXO(c) \/ EnterMapping(c)
  \/ SetLastScanHeight \/ TruncateFile \/ FillFile

Flush ==
  \/ Interrupt \/ ReadLastScanHeight \/ ReadUTXOs \/ ReadUTXOMapping
  \/ FlushTruncates \/ FlushFills

Next == Scan \/ Flush \/ Restart

Spec == Init /\ [][Next]_vars

-----------------------------------------------------------------------------
(* Safety.                                                                 *)

\* Every payment of the block is in the wallet.
Complete(w) == {c.key : c \in Payments(block)} \subseteq Keys(w.utxos)

\* No coin that the block spends is offered as free.
SpendsSeen(w) ==
  \A c \in ToSet(w.utxos) : c.key \in block.spends => c.state = "spent"

\* In a block of silent payments as BIP 352 has them sent, the maps of syncBlock
\* lose none: once the height covers the block every payment is a coin, whatever
\* failed before and however often the process came back in the middle of it.
PaymentsFound ==
  FollowsProtocol(block) /\ wallet.last = 1 /\ ~skewed => Complete(wallet)

\* In any block, however scripts are reused, a coin is an output the keys can spend.
OwnOutputsOnly ==
  \A c \in ToSet(wallet.utxos) :
    c.key # OldKey =>
      \E u \in ToSet(block.utxos) :
        Outpoint(u) = c.key /\ Tweak(u.script) \in block.tweaks

\* "used to keep track of utxos and not add the same twice" (wallet.go:24): retries,
\* rescans and restarts add no coin a second time, unless the flush caught AddUTXOs
\* between its two assignments.
NoCoinTwice ==
  ~skewed =>
    \A m, n \in DOMAIN wallet.utxos : wallet.utxos[m].key = wallet.utxos[n].key => m = n

\* What the file claims to have scanned it has the coins and the spends of: also
\* when the flush wrote it, which read the height before the coins.
FileNeverAhead ==
  file.last = 1 /\ ~skewed => /\ FollowsProtocol(block) => Complete(file)
                              /\ missed \/ SpendsSeen(file)

\* A coin that a scanned block spends is spent, whether or not a spend of it was
\* pending, unless the oracle had no index to answer with.
SpendsMarked == wallet.last = 1 /\ ~missed => SpendsSeen(wallet)
=============================================================================
