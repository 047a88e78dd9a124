----------------------------- MODULE WalletView -----------------------------
(***************************************************************************)
(* What the scanner promises to whoever reads the wallet (GET /utxos,      *)
(* /height, the NWC handlers) and to whoever restarts it, without saying   *)
(* how: at every moment the wallet in memory, and the wallet a start would *)
(* load, is a consistent account of the scanned part of the chain.         *)
(***************************************************************************)
EXTENDS Wallet

VARIABLES view,   \* the wallet that is read
          saved   \* the wallet the next start would load

viewVars == <<chainVars, view, saved>>

\* How much is known about a coin; knowledge only grows.
Rank(state) == CASE state = "unknown" -> 0 [] state = "unspent" -> 1
                 [] state = "unconfirmed_spent" -> 2 [] state = "spent" -> 3

ViewInit ==
  /\ ChainInit
  /\ view = SetupWallet
  /\ saved = SetupWallet

Grow == ChainNext /\ UNCHANGED <<view, saved>>

\* Coins are found and states advance, at the same height.
Learn ==
  /\ view' = [view EXCEPT !.utxos = view'.utxos]
  /\ \A u \in UTXO : Rank(view.utxos[u]) <= Rank(view'.utxos[u])
  /\ Consistent(view')
  /\ UNCHANGED <<chainVars, saved>>

\* Another height counts as scanned: at most the next one (a rescan goes back),
\* and only when its coins and spends are accounted for.
Advance ==
  /\ view' = [view EXCEPT !.last = view'.last]
  /\ Serves(view'.last)
  /\ view'.last <= NextHeight(view)
  /\ Consistent(view')
  /\ UNCHANGED <<chainVars, saved>>

\* The file is replaced; a torn one loads as a wallet without keys.
Save ==
  /\ saved' \in {view, ZeroWallet}
  /\ UNCHANGED <<chainVars, view>>

\* The process starts again from what is saved, after a last save or not.
Restart ==
  /\ saved' \in {saved, view, ZeroWallet}
  /\ view' = saved'
  /\ UNCHANGED chainVars

ViewNext == Grow \/ Learn \/ Advance \/ Save \/ Restart

ViewSpec == ViewInit /\ [][ViewNext]_viewVars
=============================================================================
