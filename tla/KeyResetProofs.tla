--------------------------- MODULE KeyResetProofs ---------------------------
(***************************************************************************)
(* Proofs about KeyReset, for any number of requests, any birth height and *)
(* chain, any payments, and with handlers that fail anywhere: types, and   *)
(* what quiet requests may rely on.                                        *)
(***************************************************************************)
EXTENDS KeyReset, FiniteSetTheorems, TLAPS

-----------------------------------------------------------------------------
(* Types.                                                                  *)

\* The wallet file, and what a loop holds for it, is one text or none.
Single(S) == S = {} \/ \E w \in S : S = {w}

\* The loops of the server's daemon, and a handler that answers, find a wallet.
HasWallet ==
  /\ \A l \in Keys : loops[l].pc # "none" => current # None
  /\ \A r \in Reqs : put[r] = "answer" => current # None

TypeInv ==
  /\ Types /\ HasWallet
  /\ Single(disk) /\ \A l \in Names : Single(loops[l].data)

LEMMA NamesFacts ==
  /\ Reqs \subseteq Keys /\ Boot \in Keys /\ Keys \subseteq Names /\ Second \in Names
  /\ None \notin Names /\ Second \notin Keys /\ Boot \notin Reqs
BY KeyResetAssumption DEF Keys, Names

LEMMA SingleCardinality == ASSUME NEW S, Single(S) PROVE Cardinality(S) <= 1
<1>1. CASE S = {}
  BY <1>1, FS_EmptySet
<1>2. CASE \E w \in S : S = {w}
  <2>1. PICK w \in S : S = {w}
    BY <1>2
  <2>2. Cardinality({w}) = 1
    BY FS_Singleton
  <2> QED
    BY <2>1, <2>2
<1> QED
  BY <1>1, <1>2 DEF Single

\* The wallets that are made, and those that are loaded.
LEMMA WalletTypes ==
  /\ ZeroWallet \in Wallet
  /\ \A k \in Keys \cup {None} : KeysOf(k) \in KeyPair
  /\ \A keys \in KeyPair : NewWallet(keys) \in Wallet
<1>1. (IF Birth > 1 THEN Birth - 1 ELSE Birth) \in Nat
  BY KeyResetAssumption
<1> QED
  BY <1>1 DEF ZeroWallet, Wallet, KeyPair, KeysOf, NewWallet

LEMMA LoadTypes ==
  ASSUME disk \subseteq Wallet, Single(disk), NEW keys \in KeyPair
  PROVE  /\ Load(keys) \in Wallet
         /\ disk = {} => Load(keys) = NewWallet(keys)
         /\ disk # {} => Load(keys) \in disk
<1>1. CASE disk = {}
  BY <1>1, WalletTypes DEF Load
<1>2. CASE disk # {}
  <2>1. (CHOOSE w \in disk : TRUE) \in disk
    BY <1>2
  <2> QED
    BY <1>2, <2>1 DEF Load
<1> QED
  BY <1>1, <1>2

\* What a file may be and read like.
Stored ==
  /\ disk \subseteq Wallet /\ Single(disk)
  /\ text \in {"whole", "empty", "torn"}
  /\ text # "whole" => disk = {ZeroWallet}

\* A write leaves one text.
LEMMA OverlayTypes ==
  ASSUME Stored, NEW data \in SUBSET Wallet, Single(data), Overlay(data) \/ Tear
  PROVE  /\ Stored'
         /\ \A w \in disk' : w \in disk \/ w \in data \/ (w = ZeroWallet /\ text' # "whole")
<1>1. Single({ZeroWallet}) /\ {ZeroWallet} \subseteq Wallet
  BY WalletTypes DEF Single
<1>2. CASE UNCHANGED store
  BY <1>2 DEF Stored, Single, store
<1>3. CASE disk' = data /\ text' = "whole"
  BY <1>3 DEF Stored, Single
<1>4. CASE Tear
  BY <1>1, <1>4 DEF Stored, Single, Tear
<1> QED
  BY <1>2, <1>3, <1>4 DEF Overlay

\* A loop assigns its locals.
LEMMA SetLoop ==
  ASSUME TypeInv, NEW l \in Names, NEW upd \in Loop, Set(l, upd)
  PROVE  /\ loops' \in [Names -> Loop] /\ loops'[l] = upd
         /\ \A m \in Names : m # l => loops'[m] = loops[m]
BY DEF TypeInv, Types, Set

\* What a step of a loop must see to.
LEMMA LoopTypes ==
  ASSUME TypeInv, NEW l \in Names, loops[l].pc # "none",
         NEW upd \in Loop, Single(upd.data), Set(l, upd),
         wallets' \in [Names -> Wallet], Stored',
         UNCHANGED <<pays, current, server, start>>
  PROVE  TypeInv'
<1>1. /\ loops' \in [Names -> Loop] /\ loops'[l] = upd
      /\ \A m \in Names : m # l => loops'[m] = loops[m]
  BY SetLoop
<1>2. Types'
  BY <1>1, SingleCardinality DEF TypeInv, Types, Stored, server, conf, start
<1>3. HasWallet'
  BY <1>1, NamesFacts DEF TypeInv, HasWallet, server
<1>4. \A m \in Names : Single(loops'[m].data)
  BY <1>1 DEF TypeInv
<1> QED
  BY <1>2, <1>3, <1>4 DEF TypeInv, Stored

\* The same for a step that leaves the file alone.
LEMMA LoopTypesOnly ==
  ASSUME TypeInv, NEW l \in Names, loops[l].pc # "none",
         NEW upd \in Loop, Single(upd.data), Set(l, upd),
         wallets' \in [Names -> Wallet], UNCHANGED store,
         UNCHANGED <<pays, current, server, start>>
  PROVE  TypeInv'
<1>1. Stored'
  BY DEF TypeInv, Types, Stored, store, Single
<1> QED
  BY <1>1, LoopTypes

LEMMA MineTypes ==
  ASSUME TypeInv, NEW l \in Names, loops[l].pc # "none"
  PROVE  /\ Mine(l) \in Names /\ wallets[Mine(l)] \in Wallet
         /\ l \in Keys => Mine(l) = current
         /\ Ctx(l) \in Nat
<1>1. Mine(l) \in Names
  BY NamesFacts DEF TypeInv, Types, HasWallet, Mine, Names
<1> QED
  BY <1>1, NamesFacts DEF TypeInv, Types, Mine, Ctx

\* What is left of a loop's locals when SyncToTip has returned.
LEMMA EndSyncTypes ==
  ASSUME TypeInv, NEW l \in Names, EndSync(l)
  PROVE  \E upd \in Loop : /\ Set(l, upd) /\ upd.data = {} /\ upd.pc = "top"
<1>1. loops[l] \in Loop
  BY DEF TypeInv, Types
<1> DEFINE upd == [loops[l] EXCEPT !.pc = "top", !.inner = FALSE, !.iwatch = NoCtx, !.i = 0,
                                   !.owned = {}, !.checked = FALSE, !.data = {}]
<1>2. upd \in [pc : PC, stop : BOOLEAN, inner : BOOLEAN, watch : {NoCtx} \cup Nat,
               iwatch : {NoCtx} \cup Nat, i : Nat, owned : SUBSET (Keys \X Height),
               checked : BOOLEAN, data : SUBSET Wallet]
  BY <1>1 DEF Loop, PC
<1>3. upd \in Loop /\ upd.data = {} /\ upd.pc = "top"
  BY <1>1, <1>2 DEF Loop
<1>4. Set(l, upd)
  BY DEF EndSync
<1> QED
  BY <1>3, <1>4

LEMMA FoundTypes ==
  ASSUME pays \subseteq Keys \X Height, NEW keys, NEW h
  PROVE  Found(keys, h) \subseteq Keys \X Height
BY DEF Found

LEMMA ScanTypes ==
  ASSUME TypeInv, NEW l \in Names, Scan(l) \/ Watch(l)
  PROVE  TypeInv'
<1>1. /\ loops[l] \in Loop /\ Single(loops[l].data)
      /\ wallets \in [Names -> Wallet] /\ Stored
      /\ pays \subseteq Keys \X Height
  BY DEF TypeInv, Types, Stored
<1> DEFINE next == loops[l].i + 1
<1>0. next \in Nat
  BY <1>1 DEF Loop
<1>2. NoLoop \in Loop
  BY DEF NoLoop, Loop, PC, NoCtx
<1>3. Single({})
  BY DEF Single
<1>4. ASSUME EndSync(l), loops[l].pc # "none", wallets' = wallets, Stored',
             UNCHANGED <<pays, current, server, start>>
      PROVE  TypeInv'
  BY <1>1, <1>3, <1>4, EndSyncTypes, LoopTypes
<1>16. UNCHANGED store => Stored'
  BY <1>1 DEF Stored, Single, store
<1> HIDE DEF next
<1>5. CASE StartLoop(l)
  <2> DEFINE upd == [loops[l] EXCEPT !.pc = "top"]
  <2>1. upd \in Loop /\ upd.data = loops[l].data
    BY <1>1 DEF Loop, PC
  <2>2. Set(l, upd) /\ loops[l].pc # "none"
    BY <1>5 DEF StartLoop
  <2> HIDE DEF upd
  <2> QED
    BY <1>1, <1>5, <2>1, <2>2, LoopTypesOnly DEF StartLoop
<1>6. CASE LoopTop(l)
  <2> DEFINE upd == IF loops[l].stop THEN [NoLoop EXCEPT !.pc = "ended"]
                                     ELSE [loops[l] EXCEPT !.pc = "select"]
  <2>1. upd \in Loop /\ upd.data \in {{}, loops[l].data}
    BY <1>1, <1>2 DEF Loop, PC, NoLoop
  <2>2. Set(l, upd) /\ loops[l].pc # "none"
    BY <1>6 DEF LoopTop
  <2> HIDE DEF upd
  <2> QED
    BY <1>1, <1>3, <1>6, <2>1, <2>2, LoopTypesOnly DEF LoopTop
<1>7. CASE Tick(l)
  <2>1. loops[l].pc # "none"
    BY <1>7 DEF Tick
  <2>2. wallets[Mine(l)].last + 1 \in Nat
    BY <2>1, MineTypes DEF Wallet
  <2> DEFINE from == wallets[Mine(l)].last + 1
             upd == IF from <= MaxHeight
                      THEN [loops[l] EXCEPT !.pc = "block", !.i = from]
                      ELSE [loops[l] EXCEPT !.pc = "top"]
  <2>3. upd \in Loop /\ upd.data = loops[l].data
    BY <1>1, <2>2 DEF Loop, PC
  <2>4. Set(l, upd)
    BY <1>7 DEF Tick
  <2> HIDE DEF upd
  <2> QED
    BY <1>1, <1>7, <2>1, <2>3, <2>4, LoopTypesOnly DEF Tick
<1>8. CASE NextBlock(l)
  <2> DEFINE upd == [loops[l] EXCEPT !.pc = "fetch"]
  <2>1. upd \in Loop /\ upd.data = loops[l].data
    BY <1>1 DEF Loop, PC
  <2>2. /\ loops[l].pc # "none"
        /\ EndSync(l) \/ Set(l, upd)
        /\ UNCHANGED <<pays, wallets, current, store, server, start>>
    BY <1>8 DEF NextBlock
  <2> HIDE DEF upd
  <2> QED
    BY <1>1, <1>4, <1>16, <2>1, <2>2, LoopTypesOnly
<1>9. ASSUME NEW ok \in BOOLEAN, SyncBlock(l, ok)
      PROVE  TypeInv'
  <2> DEFINE owned == Found(wallets[Mine(l)].keys, loops[l].i)
             upd == [loops[l] EXCEPT !.pc = IF owned = {} THEN "guard" ELSE "match",
                                     !.owned = owned]
  <2>1. owned \subseteq Keys \X Height
    BY <1>1, FoundTypes
  <2> HIDE DEF owned
  <2>2. upd \in Loop /\ upd.data = loops[l].data
    BY <1>1, <2>1 DEF Loop, PC
  <2>3. /\ loops[l].pc # "none"
        /\ EndSync(l) \/ Set(l, upd)
        /\ UNCHANGED <<pays, wallets, current, store, server, start>>
    BY <1>9 DEF SyncBlock, owned
  <2> HIDE DEF upd
  <2> QED
    BY <1>1, <1>4, <1>16, <2>2, <2>3, LoopTypesOnly
<1>17. ASSUME NEW ok \in BOOLEAN, MatchOutputs(l, ok)
       PROVE  TypeInv'
  <2> DEFINE upd(owned) == [loops[l] EXCEPT !.pc = IF owned = {} THEN "guard" ELSE "add",
                                            !.owned = owned]
  <2>1. /\ loops[l].pc # "none"
        /\ EndSync(l) \/ \E owned \in SUBSET (Keys \X Height) : Set(l, upd(owned))
        /\ UNCHANGED <<pays, wallets, current, store, server, start>>
    <3>1. Found(wallets[Mine(l)].keys, loops[l].i) \subseteq Keys \X Height
      BY <1>1, FoundTypes
    <3> QED
      BY <1>17, <3>1 DEF MatchOutputs
  <2>2. ASSUME NEW owned \in SUBSET (Keys \X Height)
        PROVE  upd(owned) \in Loop /\ upd(owned).data = loops[l].data
    BY <1>1 DEF Loop, PC
  <2> HIDE DEF upd
  <2> QED
    BY <1>1, <1>4, <1>16, <2>1, <2>2, LoopTypesOnly
<1>10. CASE AddOwnedUTXOs(l)
  <2> DEFINE upd == [loops[l] EXCEPT !.pc = "guard"]
  <2>1. upd \in Loop /\ upd.data = loops[l].data
    BY <1>1 DEF Loop, PC
  <2>2. Set(l, upd) /\ loops[l].pc # "none"
    BY <1>10 DEF AddOwnedUTXOs
  <2>3. wallets' \in [Names -> Wallet]
    <3>1. wallets[Mine(l)] \in Wallet /\ loops[l].owned \subseteq Keys \X Height
      BY <1>1, <2>2, MineTypes DEF Loop
    <3> QED
      BY <1>1, <1>10, <3>1 DEF AddOwnedUTXOs, Wallet
  <2> HIDE DEF upd
  <2> QED
    BY <1>1, <1>10, <2>1, <2>2, <2>3, LoopTypesOnly DEF AddOwnedUTXOs
<1>11. CASE CheckAbort(l)
  <2> DEFINE upd == [loops[l] EXCEPT !.pc = "height", !.checked = ~loops[l].inner]
  <2>1. upd \in Loop /\ upd.data = loops[l].data
    BY <1>1 DEF Loop, PC
  <2>2. Set(l, upd) /\ loops[l].pc # "none"
    BY <1>11 DEF CheckAbort
  <2> HIDE DEF upd
  <2> QED
    BY <1>1, <1>11, <2>1, <2>2, LoopTypesOnly DEF CheckAbort
<1>12. CASE SetLastScanHeight(l)
  <2> DEFINE upd1 == [loops[l] EXCEPT !.pc = "save"]
             upd2 == [loops[l] EXCEPT !.pc = "block", !.i = next, !.checked = FALSE]
  <2>1. /\ upd1 \in Loop /\ upd1.data = loops[l].data
        /\ upd2 \in Loop /\ upd2.data = loops[l].data
    BY <1>0, <1>1 DEF Loop, PC
  <2>2. Set(l, upd1) \/ Set(l, upd2)
    BY <1>12 DEF SetLastScanHeight, next
  <2>3. loops[l].pc # "none"
    BY <1>12 DEF SetLastScanHeight
  <2>4. wallets' \in [Names -> Wallet]
    <3>1. wallets[Mine(l)] \in Wallet /\ loops[l].i \in Nat
      BY <1>1, <2>3, MineTypes DEF Loop
    <3> QED
      BY <1>1, <1>12, <3>1 DEF SetLastScanHeight, Wallet
  <2> HIDE DEF upd1, upd2
  <2> QED
    BY <1>1, <1>12, <2>1, <2>2, <2>3, <2>4, LoopTypesOnly DEF SetLastScanHeight
<1>13. ASSUME NEW ok \in BOOLEAN, TruncateFile(l, ok)
       PROVE  TypeInv'
  <2> DEFINE upd == [loops[l] EXCEPT !.pc = "fill", !.data = {wallets[Mine(l)]}]
  <2>1. /\ loops[l].pc # "none"
        /\ \/ EndSync(l) /\ UNCHANGED store
           \/ Set(l, upd) /\ disk' = {ZeroWallet} /\ text' = "empty"
        /\ UNCHANGED <<pays, wallets, current, server, start>>
    BY <1>13 DEF TruncateFile
  <2>2. wallets[Mine(l)] \in Wallet
    BY <2>1, MineTypes
  <2>3. upd \in Loop /\ upd.data = {wallets[Mine(l)]}
    BY <1>1, <2>2 DEF Loop, PC
  <2>4. Single(upd.data) /\ {ZeroWallet} \subseteq Wallet /\ Single({ZeroWallet})
    BY <2>3, WalletTypes DEF Single
  <2>5. disk' = {ZeroWallet} /\ text' = "empty" => Stored'
    BY <2>4 DEF Stored, Single
  <2> HIDE DEF upd
  <2> QED
    BY <1>1, <1>4, <1>16, <2>1, <2>3, <2>4, <2>5, LoopTypes
<1>14. ASSUME NEW ok \in BOOLEAN, FillFile(l, ok)
       PROVE  TypeInv'
  <2> DEFINE upd == [loops[l] EXCEPT !.pc = "block", !.i = next, !.owned = {},
                                     !.checked = FALSE, !.data = {}]
  <2>1. /\ loops[l].pc # "none"
        /\ \/ EndSync(l) /\ (UNCHANGED store \/ Tear)
           \/ Set(l, upd) /\ Overlay(loops[l].data)
        /\ UNCHANGED <<pays, wallets, current, server, start>>
    BY <1>14 DEF FillFile, NextHeight, next
  <2>2. upd \in Loop /\ upd.data = {}
    BY <1>0, <1>1 DEF Loop, PC
  <2>3. loops[l].data \subseteq Wallet
    BY <1>1 DEF Loop
  <2>4. Overlay(loops[l].data) \/ Tear => Stored'
    BY <1>1, <2>3, OverlayTypes
  <2> HIDE DEF upd
  <2> QED
    BY <1>1, <1>3, <1>4, <1>16, <2>1, <2>2, <2>4, LoopTypes
<1>15. CASE Watch(l)
  <2> DEFINE upd1 == [loops[l] EXCEPT !.watch = Ctx(l)]
             upd2 == [loops[l] EXCEPT !.stop = TRUE]
             upd3 == [loops[l] EXCEPT !.iwatch = Ctx(l)]
             upd4 == [loops[l] EXCEPT !.inner = TRUE]
  <2>1. /\ loops[l].pc # "none"
        /\ Set(l, upd1) \/ Set(l, upd2) \/ Set(l, upd3) \/ Set(l, upd4)
    BY <1>15 DEF Watch, Running
  <2>2. Ctx(l) \in Nat
    BY <2>1, MineTypes
  <2>3. /\ upd1 \in Loop /\ upd1.data = loops[l].data
        /\ upd2 \in Loop /\ upd2.data = loops[l].data
        /\ upd3 \in Loop /\ upd3.data = loops[l].data
        /\ upd4 \in Loop /\ upd4.data = loops[l].data
    BY <1>1, <2>2 DEF Loop
  <2> HIDE DEF upd1, upd2, upd3, upd4
  <2> QED
    BY <1>1, <1>15, <2>1, <2>3, LoopTypesOnly DEF Watch
<1> QED
  BY <1>5, <1>6, <1>7, <1>8, <1>9, <1>10, <1>11, <1>12, <1>13, <1>14, <1>15, <1>17 DEF Scan

\* A handler goes on.
LEMMA StepPut ==
  ASSUME TypeInv, NEW r \in Reqs, NEW from, NEW to, Step(r, from, to)
  PROVE  /\ put[r] = from /\ put'[r] = to
         /\ \A q \in Reqs : q # r => put'[q] = put[q]
BY DEF TypeInv, Types, Step

\* What a step of a handler that starts no loop must see to.
LEMMA PutTypes ==
  ASSUME TypeInv, NEW r \in Reqs, NEW from,
         NEW to \in {"vscan", "vspend", "scan", "spend", "config", "setup", "cancel",
                     "remove", "assign", "done", "failed"},
         Step(r, from, to),
         config' \in KeyPair, viper' \in KeyPair, file' \in KeyPair, ctx' \in Nat,
         wallets' \in [Names -> Wallet], Stored',
         announce' \in [Reqs -> {"none", "look", "send", "done"}],
         address' \in [Reqs -> Keys \cup {None}],
         loops' \in [Names -> Loop],
         \A l \in Names : /\ loops'[l].pc = loops[l].pc
                          /\ loops'[l].data \in {{}, loops[l].data},
         UNCHANGED <<pays, current, main>>
  PROVE  TypeInv'
<1>1. put' \in [Reqs -> {"new", "vscan", "vspend", "scan", "spend", "config", "setup",
                         "cancel", "remove", "assign", "answer", "done", "failed"}]
  BY DEF TypeInv, Types, Step
<1>2. Single({})
  BY DEF Single
<1>3. Types'
  BY <1>1, SingleCardinality DEF TypeInv, Types, Stored
<1>4. HasWallet'
  BY StepPut, NamesFacts DEF TypeInv, HasWallet
<1>5. \A l \in Names : Single(loops'[l].data)
  BY <1>2 DEF TypeInv
<1> QED
  BY <1>3, <1>4, <1>5 DEF TypeInv, Stored

LEMMA HandlerTypes == ASSUME TypeInv, NEW r \in Reqs, Put(r) PROVE TypeInv'
<1>1. /\ pays \subseteq Keys \X Height
      /\ config \in KeyPair /\ viper \in KeyPair /\ file \in KeyPair
      /\ wallets \in [Names -> Wallet] /\ ctx \in Nat
      /\ announce \in [Reqs -> {"none", "look", "send", "done"}]
      /\ address \in [Reqs -> Keys \cup {None}]
      /\ loops \in [Names -> Loop] /\ Stored
  BY DEF TypeInv, Types, Stored
<1>2. r \in Keys /\ r \in Names
  BY NamesFacts
<1>12. UNCHANGED store => Stored'
  BY <1>1 DEF Stored, Single, store
<1>3. CASE Arrive(r)
  BY <1>1, <1>3, <1>12, PutTypes DEF Arrive, start, conf
<1>13. CASE SetViperScanKey(r)
  <2>1. viper' \in KeyPair
    BY <1>1, <1>2, <1>13 DEF SetViperScanKey, KeyPair
  <2> QED
    BY <1>1, <1>12, <1>13, <2>1, PutTypes DEF SetViperScanKey, start
<1>14. CASE SetViperSpendKey(r)
  <2>1. viper' \in KeyPair
    BY <1>1, <1>2, <1>14 DEF SetViperSpendKey, KeyPair
  <2>2. \E to \in {"scan", "failed"} : Step(r, "vspend", to)
    BY <1>14 DEF SetViperSpendKey
  <2> QED
    BY <1>1, <1>12, <1>14, <2>1, <2>2, PutTypes DEF SetViperSpendKey, start
<1>4. CASE SetScanKey(r)
  <2>1. config' \in KeyPair
    BY <1>1, <1>2, <1>4 DEF SetScanKey, KeyPair
  <2> QED
    BY <1>1, <1>4, <1>12, <2>1, PutTypes DEF SetScanKey, start
<1>5. CASE SetSpendKey(r)
  <2>1. config' \in KeyPair
    BY <1>1, <1>2, <1>5 DEF SetSpendKey, KeyPair
  <2> QED
    BY <1>1, <1>5, <1>12, <2>1, PutTypes DEF SetSpendKey, start
<1>6. CASE WriteConfig(r)
  <2>1. file' \in KeyPair /\ announce' \in [Reqs -> {"none", "look", "send", "done"}]
    BY <1>1, <1>6 DEF WriteConfig
  <2>2. \E to \in {"setup", "failed"} : Step(r, "config", to)
    BY <1>6 DEF WriteConfig
  <2> QED
    BY <1>1, <1>6, <1>12, <2>1, <2>2, PutTypes DEF WriteConfig
<1>7. CASE SetupWallet(r)
  <2>1. wallets' \in [Names -> Wallet]
    BY <1>1, <1>7, WalletTypes DEF SetupWallet
  <2>2. \E to \in {"cancel", "failed"} : Step(r, "setup", to)
    BY <1>7 DEF SetupWallet
  <2> QED
    BY <1>1, <1>7, <1>12, <2>1, <2>2, PutTypes DEF SetupWallet, conf, start
<1>8. CASE Cancel(r)
  BY <1>1, <1>8, <1>12, PutTypes DEF Cancel, conf, start
<1>9. CASE RemoveFile(r)
  <2>1. \E to \in {"assign", "failed"} : Step(r, "remove", to)
    BY <1>9 DEF RemoveFile
  <2>2. /\ loops' \in [Names -> Loop]
        /\ \A l \in Names : /\ loops'[l].pc = loops[l].pc
                            /\ loops'[l].data \in {{}, loops[l].data}
    <3>1. CASE loops' = loops
      BY <1>1, <3>1
    <3>2. CASE loops' = [l \in Names |-> [loops[l] EXCEPT !.data = {}]]
      <4>1. ASSUME NEW l \in Names
            PROVE  /\ [loops[l] EXCEPT !.data = {}] \in Loop
                   /\ [loops[l] EXCEPT !.data = {}].pc = loops[l].pc
                   /\ [loops[l] EXCEPT !.data = {}].data = {}
        <5>1. loops[l] \in Loop
          BY <1>1
        <5> QED
          BY <5>1 DEF Loop
      <4> QED
        BY <3>2, <4>1
    <3> QED
      BY <1>9, <3>1, <3>2 DEF RemoveFile
  <2>3. Stored'
    BY <1>9, <1>12 DEF RemoveFile, Stored, Single
  <2> QED
    BY <1>1, <1>9, <2>1, <2>2, <2>3, PutTypes DEF RemoveFile, conf, start
<1>10. CASE AssignWallet(r)
  <2> DEFINE upd == [NoLoop EXCEPT !.pc = "delayed"]
  <2>1. upd \in Loop /\ upd.data = {} /\ Set(r, upd)
    BY <1>10 DEF AssignWallet, NoLoop, Loop, PC, NoCtx
  <2> HIDE DEF upd
  <2>2. /\ loops' \in [Names -> Loop]
        /\ \A l \in Names : loops'[l] = IF l = r THEN upd ELSE loops[l]
    BY <1>2, <2>1, SetLoop
  <2>3. current' = r /\ Step(r, "assign", "answer")
        /\ UNCHANGED <<pays, wallets, disk, text, config, viper, file, ctx, address,
                        announce, main>>
    BY <1>10 DEF AssignWallet, store, conf, start
  <2>4. put' \in [Reqs -> {"new", "vscan", "vspend", "scan", "spend", "config", "setup",
                           "cancel", "remove", "assign", "answer", "done", "failed"}]
    BY <2>3 DEF TypeInv, Types, Step
  <2>5. Types'
    BY <1>2, <2>2, <2>3, <2>4 DEF TypeInv, Types
  <2>6. current' # None
    BY <1>2, <2>3, NamesFacts
  <2>7. Single({})
    BY DEF Single
  <2> QED
    BY <2>1, <2>2, <2>3, <2>5, <2>6, <2>7 DEF TypeInv, HasWallet
<1>11. CASE AnswerAddress(r)
  <2>1. current \in Keys
    BY <1>11 DEF AnswerAddress, Step, TypeInv, Types, HasWallet
  <2>2. wallets[current].keys.scan \in Keys \cup {None}
    BY <1>1, <2>1, NamesFacts DEF Wallet, KeyPair
  <2>3. address' \in [Reqs -> Keys \cup {None}]
    BY <1>1, <1>11, <2>2 DEF AnswerAddress
  <2>4. \E to \in {"done", "failed"} : Step(r, "answer", to)
    BY <1>11 DEF AnswerAddress
  <2> QED
    BY <1>1, <1>11, <1>12, <2>3, <2>4, PutTypes DEF AnswerAddress, conf, start
<1> QED
  BY <1>3, <1>4, <1>5, <1>6, <1>7, <1>8, <1>9, <1>10, <1>11, <1>13, <1>14 DEF Put

LEMMA NoLoopTypes == NoLoop \in Loop /\ NoLoop.data = {} /\ NoLoop.pc = "none" /\ Single({})
BY DEF NoLoop, Loop, PC, NoCtx, Single

LEMMA MainTypes ==
  ASSUME TypeInv, NEW ok \in BOOLEAN, SetupDaemon(ok)
  PROVE  TypeInv'
<1>1. CASE ok /\ text = "whole"
  <2> DEFINE upd == [NoLoop EXCEPT !.pc = "top"]
  <2>1. upd \in Loop /\ upd.data = {}
    BY DEF NoLoop, Loop, PC, NoCtx
  <2>2. Set(Second, upd)
    BY <1>1 DEF SetupDaemon
  <2> HIDE DEF upd
  <2>3. /\ loops' \in [Names -> Loop]
        /\ \A l \in Names : loops'[l] = IF l = Second THEN upd ELSE loops[l]
    BY <2>1, <2>2, NamesFacts, SetLoop
  <2>4. /\ wallets' = [wallets EXCEPT ![Second] = Load(config)] /\ main' = "running"
        /\ UNCHANGED <<pays, current, disk, text, config, viper, file, ctx, address, put,
                        announce>>
    BY <1>1 DEF SetupDaemon, store, conf
  <2>5. Load(config) \in Wallet
    BY LoadTypes DEF TypeInv, Types
  <2>6. Types'
    BY <2>3, <2>4, <2>5, NamesFacts DEF TypeInv, Types
  <2> QED
    BY <2>1, <2>3, <2>4, <2>6, NoLoopTypes, NamesFacts DEF TypeInv, HasWallet
<1>2. CASE ~(ok /\ text = "whole")
  <2>1. Panic /\ UNCHANGED <<wallets, pays, current, disk, text, config, viper, file, ctx,
                              address>>
    BY <1>2 DEF SetupDaemon, store, conf
  <2>2. /\ loops' \in [Names -> Loop]
        /\ \A l \in Names : loops'[l].data = {} /\ loops'[l].pc = "none"
    BY <2>1, NoLoopTypes DEF Panic
  <2>3. \A r \in Reqs : put'[r] # "answer"
    BY <2>1 DEF Panic, Handling
  <2>4. Types'
    BY <2>1, <2>2 DEF TypeInv, Types, Panic
  <2> QED
    BY <2>1, <2>2, <2>3, <2>4, NoLoopTypes, NamesFacts DEF TypeInv, HasWallet
<1> QED
  BY <1>1, <1>2

\* Every step keeps the types.
LEMMA TypeStep == ASSUME TypeInv, [Next]_vars PROVE TypeInv'
<1>1. ASSUME NEW r \in Reqs, Announce(r)
      PROVE  TypeInv'
  <2>1. /\ announce' \in [Reqs -> {"none", "look", "send", "done"}]
        /\ main' \in {"waiting", "setup", "running", "down"}
        /\ UNCHANGED <<pays, wallets, current, disk, text, loops, config, viper, file, ctx,
                        put, address>>
    BY <1>1 DEF Announce, LookForWallet, KeysReady, TypeInv, Types, server, store, conf
  <2> QED
    BY <2>1 DEF TypeInv, Types, HasWallet
<1>2. CASE UNCHANGED vars
  BY <1>2 DEF vars, server, store, conf, start, TypeInv, Types, HasWallet
<1> QED
  BY <1>1, <1>2, ScanTypes, HandlerTypes, MainTypes DEF Next

LEMMA TypeInit == Init => TypeInv
<1> SUFFICES ASSUME Init PROVE TypeInv
  OBVIOUS
<1>1. config \in {KeysOf(Boot), KeysOf(None)} /\ config \in KeyPair
  BY WalletTypes, NamesFacts DEF Init, StartWithKeys, StartWithoutKeys
<1>2. NewWallet(config) \in Wallet /\ ZeroWallet \in Wallet
  BY <1>1, WalletTypes
<1>3. disk = {} \/ disk = {NewWallet(config)} \/ disk = {ZeroWallet}
  BY DEF Init, StartWithKeys, StartWithoutKeys
<1>4. disk \subseteq Wallet /\ Single(disk)
  BY <1>2, <1>3 DEF Single
<1>5. wallets \in [Names -> Wallet]
  <2>1. \A l \in Names : KeysOf(IF l = Second THEN None ELSE l) \in KeyPair
    BY WalletTypes DEF Names
  <2> QED
    BY <2>1, WalletTypes DEF Init
<1>6. /\ loops \in [Names -> Loop]
      /\ \A l \in Names : loops[l].data = {}
      /\ \A l \in Names : loops[l].pc # "none" => current = Boot
  <2>1. [NoLoop EXCEPT !.pc = "top"] \in Loop /\ [NoLoop EXCEPT !.pc = "top"].data = {}
    BY DEF NoLoop, Loop, PC, NoCtx
  <2>2. CASE StartWithKeys
    BY <2>1, <2>2, NoLoopTypes DEF StartWithKeys
  <2>3. CASE StartWithoutKeys
    BY <2>3, NoLoopTypes DEF StartWithoutKeys
  <2> QED
    BY <2>2, <2>3 DEF Init
<1>7. pays \subseteq Keys \X Height
  BY NamesFacts DEF Init, StartWithKeys, StartWithoutKeys
<1>10. text \in {"whole", "empty", "torn"} /\ (text # "whole" => disk = {ZeroWallet})
  BY DEF Init, StartWithKeys, StartWithoutKeys
<1>8. Types
  BY <1>1, <1>4, <1>5, <1>6, <1>7, <1>10, NamesFacts, SingleCardinality
     DEF Init, Types, StartWithKeys, StartWithoutKeys
<1>9. HasWallet
  BY <1>6, NamesFacts DEF Init, HasWallet
<1> QED
  BY <1>4, <1>6, <1>8, <1>9, NoLoopTypes DEF TypeInv

\* The requests that have not cancelled a context.
ToCancel == {r \in Reqs : put[r] \in {"new", "vscan", "vspend", "scan", "spend", "config",
                                      "setup", "cancel"}}

ContextInv == ctx + Cardinality(ToCancel) <= Cardinality(Reqs)

\* The context is replaced once for every request that has come that far.
LEMMA ContextStep ==
  ASSUME IsFiniteSet(Reqs), TypeInv, ContextInv, [Next]_vars
  PROVE  ContextInv'
<1>1. IsFiniteSet(ToCancel) /\ Cardinality(ToCancel) \in Nat /\ Cardinality(Reqs) \in Nat
  BY FS_Subset, FS_CardinalityType DEF ToCancel
<1>2. ctx \in Nat
  BY DEF TypeInv, Types
<1>3. ASSUME ctx' = ctx, ToCancel' \subseteq ToCancel
      PROVE  ContextInv'
  <2>1. Cardinality(ToCancel') <= Cardinality(ToCancel) /\ Cardinality(ToCancel') \in Nat
    BY <1>1, <1>3, FS_Subset, FS_CardinalityType
  <2>2. (ctx + Cardinality(ToCancel) <= Cardinality(Reqs))'
        <=> ctx + Cardinality(ToCancel') <= Cardinality(Reqs)
    BY <1>3
  <2> QED
    BY <1>1, <1>2, <2>1, <2>2 DEF ContextInv
<1>4. ASSUME NEW r \in Reqs, Cancel(r)
      PROVE  ContextInv'
  <2>1. r \in ToCancel /\ ToCancel' = ToCancel \ {r} /\ ctx' = ctx + 1
    BY <1>4, StepPut DEF Cancel, ToCancel
  <2>2. Cardinality(ToCancel \ {r}) = Cardinality(ToCancel) - 1
    BY <1>1, <2>1, FS_RemoveElement
  <2>3. Cardinality(ToCancel') = Cardinality(ToCancel) - 1
    BY <2>1, <2>2
  <2> QED
    BY <1>1, <1>2, <2>1, <2>3 DEF ContextInv
<1>5. ASSUME NEW r \in Reqs, Put(r), ~Cancel(r)
      PROVE  ctx' = ctx /\ ToCancel' \subseteq ToCancel
  <2>1. /\ ctx' = ctx
        /\ \E from \in {"new", "vscan", "vspend", "scan", "spend", "config", "setup",
                       "remove", "assign", "answer"},
              to \in {"vscan", "vspend", "scan", "spend", "config", "setup", "cancel",
                      "assign", "answer", "done", "failed"} :
             /\ Step(r, from, to)
             /\ from \in {"remove", "assign", "answer"} =>
                  to \in {"assign", "answer", "done", "failed"}
    BY <1>5 DEF Put, Arrive, SetViperScanKey, SetViperSpendKey, SetScanKey, SetSpendKey,
       WriteConfig, SetupWallet, RemoveFile, AssignWallet, AnswerAddress
  <2> QED
    BY <2>1, StepPut DEF ToCancel
<1>6. ASSUME NEW ok \in BOOLEAN, SetupDaemon(ok)
      PROVE  ctx' = ctx /\ ToCancel' \subseteq ToCancel
  BY <1>6 DEF SetupDaemon, Panic, ToCancel, Handling
<1>7. ASSUME \/ \E r \in Reqs : Announce(r)
             \/ \E l \in Names : Scan(l) \/ Watch(l)
             \/ UNCHANGED vars
      PROVE  ctx' = ctx /\ put' = put
  BY <1>7 DEF Announce, LookForWallet, KeysReady, Scan, StartLoop, LoopTop, Tick, NextBlock,
     SyncBlock, MatchOutputs, AddOwnedUTXOs, CheckAbort, SetLastScanHeight, TruncateFile, FillFile, Watch,
     vars, server
<1>8. put' = put => ToCancel' \subseteq ToCancel
  BY DEF ToCancel
<1> QED
  BY <1>3, <1>4, <1>5, <1>6, <1>7, <1>8 DEF Next

\* The state keeps its types, and every request replaces the context of the daemon
\* at most once, for any number of requests, quiet or not.
THEOREM TypeCorrect == IsFiniteSet(Reqs) => (Spec => []TypeOK)
<1> SUFFICES ASSUME IsFiniteSet(Reqs) PROVE Spec => []TypeOK
  OBVIOUS
<1>1. Init => ContextInv
  <2> SUFFICES ASSUME Init PROVE ContextInv
    OBVIOUS
  <2>1. ToCancel = Reqs /\ ctx = 0
    BY DEF Init, ToCancel
  <2>2. Cardinality(Reqs) \in Nat
    BY FS_CardinalityType
  <2> QED
    BY <2>1, <2>2 DEF ContextInv
<1>2. TypeInv /\ ContextInv /\ [Next]_vars => (TypeInv /\ ContextInv)'
  BY TypeStep, ContextStep
<1>3. TypeInv /\ ContextInv => TypeOK
  <2> SUFFICES ASSUME TypeInv, ContextInv PROVE TypeOK
    OBVIOUS
  <2>1. Cardinality(ToCancel) \in Nat /\ Cardinality(Reqs) \in Nat
    BY FS_Subset, FS_CardinalityType DEF ToCancel
  <2> QED
    BY <2>1 DEF TypeInv, Types, ContextInv, TypeOK
<1> QED
  BY <1>1, <1>2, <1>3, TypeInit, PTL DEF Spec

-----------------------------------------------------------------------------
(* Sound wallets.                                                          *)

\* The wallet has the coins of all its blocks up to height n, block 1 left out.
Covers(w, n) == \A h \in (Birth..n) \ {1} : Found(w.keys, h) \subseteq w.utxos

Sound(w) == Complete(w) /\ Own(w)

\* A loop that has returned from SyncToTip, or not started.
Resting == {"none", "delayed", "top", "select", "ended"}

\* One handler runs at a time, and no loop of the server's daemon works meanwhile.
QuietInv ==
  /\ \A q, r \in Handling : q = r
  /\ \A r \in Handling, l \in Keys : loops[l].pc \in Resting

\* The block in work is the one after those that the wallet covers; what syncBlock has
\* found in it is what its keys find; once added, the wallet covers the block too.
WorkInv(l) ==
  LET w == wallets[Mine(l)] IN
  /\ loops[l].pc \in {"block", "fetch", "match", "add"} => Covers(w, loops[l].i - 1)
  /\ loops[l].pc \in {"match", "add"} => loops[l].owned = Found(w.keys, loops[l].i)
  /\ loops[l].pc \in {"guard", "height", "save", "fill"} => Covers(w, loops[l].i)

SoundInv ==
  /\ \A l \in Names : WorkInv(l) /\ Sound(wallets[l])
  /\ \A w \in disk : Sound(w)
  /\ \A l \in Names : \A w \in loops[l].data : Sound(w)

\* The payments do not change.
LEMMA FoundKept == ASSUME UNCHANGED pays PROVE \A keys, h : Found(keys, h)' = Found(keys, h)
BY DEF Found

LEMMA SoundKept ==
  ASSUME UNCHANGED pays
  PROVE  \A w : Sound(w)' <=> Sound(w)
BY FoundKept DEF Sound, Complete, Own

LEMMA CoversKept ==
  ASSUME UNCHANGED pays
  PROVE  \A v, w, n : v.keys = w.keys /\ w.utxos \subseteq v.utxos /\ Covers(w, n)
                        => Covers(v, n)'
BY FoundKept DEF Covers

\* A wallet without coins that has scanned nothing yet.
LEMMA NewSound == Sound(ZeroWallet) /\ \A keys : Sound(NewWallet(keys))
<1>1. \A w : w.utxos = {} /\ (Birth..w.last) \ {1} = {} => Sound(w)
  BY DEF Sound, Complete, Own
<1>2. Birth..0 = {} /\ (Birth > 1 => Birth..(Birth - 1) = {})
  BY KeyResetAssumption
<1>3. ~(Birth > 1) => (Birth..Birth) \ {1} = {}
  BY KeyResetAssumption
<1> QED
  BY <1>1, <1>2, <1>3 DEF ZeroWallet, NewWallet

\* The work of a loop that stays where it is, while its wallet gains coins.
LEMMA WorkKept ==
  ASSUME NEW l \in Names, WorkInv(l), UNCHANGED pays,
         loops'[l].pc = loops[l].pc, loops'[l].i = loops[l].i,
         loops'[l].owned = loops[l].owned, Mine(l)' = Mine(l),
         wallets'[Mine(l)].keys = wallets[Mine(l)].keys,
         wallets[Mine(l)].utxos \subseteq wallets'[Mine(l)].utxos
  PROVE  WorkInv(l)'
<1>1. \A n : Covers(wallets[Mine(l)], n) => Covers(wallets[Mine(l)], n)'
  BY CoversKept
<1>2. \A n : Found(wallets[Mine(l)].keys, n)' = Found(wallets[Mine(l)].keys, n)
  BY FoundKept
<1> QED
  BY <1>1, <1>2 DEF WorkInv

LEMMA WorkRests == ASSUME NEW l, loops'[l].pc \in Resting PROVE WorkInv(l)'
BY DEF WorkInv, Resting

-----------------------------------------------------------------------------
(* One handler at a time.                                                  *)

\* A step of a loop assigns the locals of no other.
LEMMA OwnLocals ==
  ASSUME NEW l \in Names, Scan(l) \/ Watch(l)
  PROVE  \E upd : Set(l, upd)
<1>1. EndSync(l) => \E upd : Set(l, upd)
  BY DEF EndSync
<1>2. NextHeight(l) => \E upd : Set(l, upd)
  BY DEF NextHeight
<1>3. ASSUME NEW ok \in BOOLEAN, MatchOutputs(l, ok)
      PROVE  \E upd : Set(l, upd)
  BY <1>1, <1>3 DEF MatchOutputs
<1>4. ASSUME NEW ok \in BOOLEAN, SyncBlock(l, ok) \/ TruncateFile(l, ok) \/ FillFile(l, ok)
      PROVE  \E upd : Set(l, upd)
  BY <1>1, <1>2, <1>4 DEF SyncBlock, TruncateFile, FillFile
<1>5. CASE Watch(l) \/ StartLoop(l) \/ LoopTop(l) \/ Tick(l) \/ NextBlock(l)
           \/ AddOwnedUTXOs(l) \/ CheckAbort(l) \/ SetLastScanHeight(l)
  BY <1>1, <1>5 DEF StartLoop, LoopTop, Tick, NextBlock, AddOwnedUTXOs, CheckAbort,
     SetLastScanHeight, Watch
<1> QED
  BY <1>3, <1>4, <1>5 DEF Scan

\* A loop that rests does not begin to work while a handler runs.
LEMMA RestStays ==
  ASSUME Quiet, TypeInv, Handling # {}, NEW l \in Keys, loops[l].pc \in Resting,
         NEW m \in Names, Scan(m) \/ Watch(m)
  PROVE  loops'[l].pc \in Resting
<1>1. l \in Names /\ l # Second /\ loops \in [Names -> Loop]
  BY NamesFacts DEF TypeInv, Types
<1>2. CASE l # m
  <2>1. \E upd : Set(m, upd)
    BY OwnLocals
  <2> QED
    BY <1>1, <1>2, <2>1 DEF Set
<1>3. CASE l = m
  <2>1. loops[l] \in Loop
    BY <1>1
  <2>2. CASE Watch(l)
    BY <1>1, <2>1, <2>2 DEF Watch, Set, Loop
  <2>3. CASE StartLoop(l) \/ LoopTop(l)
    BY <1>1, <2>1, <2>3 DEF StartLoop, LoopTop, Set, Loop, NoLoop, Resting
  <2>4. ~Tick(l)
    BY <1>1 DEF Tick
  <2>5. ~(Scan(l) /\ ~StartLoop(l) /\ ~LoopTop(l) /\ ~Tick(l))
    BY DEF Scan, NextBlock, SyncBlock, MatchOutputs, AddOwnedUTXOs, CheckAbort, SetLastScanHeight,
       TruncateFile, FillFile, Resting
  <2> QED
    BY <1>3, <2>2, <2>3, <2>4, <2>5
<1> QED
  BY <1>2, <1>3

LEMMA ScanUnchanged ==
  ASSUME NEW l \in Names, Scan(l) \/ Watch(l)
  PROVE  UNCHANGED <<pays, current, config, viper, file, ctx, put, address, announce, main>>
BY DEF Scan, StartLoop, LoopTop, Tick, NextBlock, SyncBlock, MatchOutputs, AddOwnedUTXOs, CheckAbort,
   SetLastScanHeight, TruncateFile, FillFile, Watch, server, conf, start

\* A handler that runs on is the same one, or it ends.
LEMMA PutHandling ==
  ASSUME TypeInv, NEW r \in Reqs, Put(r), ~Arrive(r)
  PROVE  r \in Handling /\ Handling' \subseteq Handling
<1>1. \E from, to : /\ Step(r, from, to)
                    /\ from \in {"vscan", "vspend", "scan", "spend", "config", "setup",
                                "cancel", "remove", "assign", "answer"}
  BY DEF Put, SetViperScanKey, SetViperSpendKey, SetScanKey, SetSpendKey, WriteConfig, SetupWallet, Cancel, RemoveFile,
     AssignWallet, AnswerAddress
<1> QED
  BY <1>1, StepPut DEF Handling

LEMMA RemoveLoops ==
  ASSUME TypeInv, NEW r \in Reqs, RemoveFile(r)
  PROVE  \A l \in Names :
           /\ loops'[l].pc = loops[l].pc /\ loops'[l].i = loops[l].i
           /\ loops'[l].owned = loops[l].owned
           /\ loops'[l].data \in {{}, loops[l].data}
<1>1. SUFFICES ASSUME NEW l \in Names, loops' = [m \in Names |-> [loops[m] EXCEPT !.data = {}]]
               PROVE  /\ loops'[l].pc = loops[l].pc /\ loops'[l].i = loops[l].i
                      /\ loops'[l].owned = loops[l].owned
                      /\ loops'[l].data \in {{}, loops[l].data}
  BY DEF RemoveFile
<1>2. loops'[l] = [loops[l] EXCEPT !.data = {}] /\ loops[l] \in Loop
  BY <1>1 DEF TypeInv, Types
<1> QED
  BY <1>2 DEF Loop

LEMMA QuietStep == ASSUME Quiet, TypeInv, QuietInv, [Next]_vars PROVE QuietInv'
<1>1. ASSUME Handling' \subseteq Handling,
             Handling # {} => \A l \in Keys : loops[l].pc \in Resting => loops'[l].pc \in Resting
      PROVE  QuietInv'
  BY <1>1 DEF QuietInv
<1>2. ASSUME NEW l \in Names, Scan(l) \/ Watch(l)
      PROVE  QuietInv'
  <2>1. Handling' = Handling
    BY <1>2, ScanUnchanged DEF Handling
  <2> QED
    BY <1>1, <1>2, <2>1, RestStays
<1>3. ASSUME NEW r \in Reqs, Arrive(r)
      PROVE  QuietInv'
  <2>1. Handling' = {r} /\ loops' = loops
    BY <1>3, StepPut DEF Arrive, Handling
  <2>2. \A l \in Keys : loops[l].pc \in Resting
    <3> SUFFICES ASSUME NEW l \in Keys PROVE loops[l].pc \in Resting
      OBVIOUS
    <3>1. l \in Running => loops[l].pc = "select"
      BY <1>3, NamesFacts DEF Arrive, Idle
    <3> QED
      BY <3>1, NamesFacts DEF Running, Resting
  <2> QED
    BY <2>1, <2>2 DEF QuietInv
<1>4. ASSUME NEW r \in Reqs, Put(r), ~Arrive(r)
      PROVE  QuietInv'
  <2>1. \A l \in Keys : loops[l].pc \in Resting => loops'[l].pc \in Resting
    <3>1. CASE RemoveFile(r)
      BY <3>1, RemoveLoops, NamesFacts
    <3>2. CASE AssignWallet(r)
      BY <3>2 DEF AssignWallet, Set, NoLoop, Resting, TypeInv, Types, Names
    <3>3. CASE loops' = loops
      BY <3>3
    <3> QED
      BY <1>4, <3>1, <3>2, <3>3 DEF Put, SetViperScanKey, SetViperSpendKey, SetScanKey,
         SetSpendKey, WriteConfig, SetupWallet, Cancel, AnswerAddress
  <2> QED
    BY <1>1, <1>4, <2>1, PutHandling
<1>5. ASSUME NEW ok \in BOOLEAN, SetupDaemon(ok)
      PROVE  QuietInv'
  <2>1. Handling' \subseteq Handling
    BY <1>5 DEF SetupDaemon, Panic, Handling
  <2>2. \A l \in Keys : loops[l].pc \in Resting => loops'[l].pc \in Resting
    BY <1>5, NamesFacts DEF SetupDaemon, Panic, Set, NoLoop, Resting, TypeInv, Types
  <2> QED
    BY <1>1, <2>1, <2>2
<1>6. ASSUME NEW r \in Reqs, Announce(r)
      PROVE  QuietInv'
  BY <1>1, <1>6 DEF Announce, LookForWallet, KeysReady, server, Handling
<1>7. CASE UNCHANGED vars
  BY <1>1, <1>7 DEF vars, server, Handling
<1> QED
  BY <1>2, <1>3, <1>4, <1>5, <1>6, <1>7 DEF Next

-----------------------------------------------------------------------------
(* Wallets stay sound.                                                     *)

\* What a step of a loop must see to: its own work and what it writes.
LEMMA LoopSound ==
  ASSUME TypeInv, SoundInv, NEW l \in Names, UNCHANGED <<pays, current>>,
         \A m \in Names : m # l => loops'[m] = loops[m],
         WorkInv(l)',
         \A n \in Names : /\ wallets'[n].keys = wallets[n].keys
                          /\ wallets[n].utxos \subseteq wallets'[n].utxos
                          /\ Sound(wallets[n])',
         \A w \in disk' : Sound(w), \A w \in loops'[l].data : Sound(w)
  PROVE  SoundInv'
<1>1. \A m \in Names : \A w \in loops'[m].data : Sound(w)
  BY DEF SoundInv
<1>2. ASSUME NEW m \in Names PROVE WorkInv(m)'
  <2>1. CASE m = l
    BY <2>1
  <2>2. CASE m # l /\ loops[m].pc = "none"
    BY <2>2, WorkRests DEF Resting
  <2>3. CASE m # l /\ loops[m].pc # "none"
    <3>1. Mine(m) \in Names /\ Mine(m)' = Mine(m)
      BY <2>3, MineTypes DEF Mine
    <3> QED
      BY <2>3, <3>1, WorkKept DEF SoundInv
  <2> QED
    BY <2>1, <2>2, <2>3
<1>3. (\A w \in disk : Sound(w))' /\ (\A m \in Names : \A w \in loops[m].data : Sound(w))'
  BY <1>1, SoundKept
<1> QED
  BY <1>2, <1>3 DEF SoundInv

\* The same for a step that writes nothing.
LEMMA LoopSoundOnly ==
  ASSUME TypeInv, SoundInv, NEW l \in Names, UNCHANGED <<pays, current, wallets, disk>>,
         \A m \in Names : m # l => loops'[m] = loops[m],
         WorkInv(l)', loops'[l].data \in {{}, loops[l].data}
  PROVE  SoundInv'
<1>1. \A n \in Names : Sound(wallets[n])'
  BY SoundKept DEF SoundInv
<1>2. \A w \in loops'[l].data : Sound(w)
  BY DEF SoundInv
<1> QED
  BY <1>1, <1>2, LoopSound DEF SoundInv

LEMMA ScanSound ==
  ASSUME TypeInv, SoundInv, NEW l \in Names, Scan(l) \/ Watch(l)
  PROVE  SoundInv'
<1>1. /\ loops \in [Names -> Loop] /\ loops[l] \in Loop
      /\ wallets \in [Names -> Wallet] /\ pays \subseteq Keys \X Height
  BY DEF TypeInv, Types
<1>2. UNCHANGED <<pays, current>> /\ Mine(l)' = Mine(l)
  BY ScanUnchanged DEF Mine
<1>3. \A m \in Names : m # l => loops'[m] = loops[m]
  <2>1. \E upd : Set(l, upd)
    BY OwnLocals
  <2> QED
    BY <1>1, <2>1 DEF Set
<1>4. /\ WorkInv(l) /\ Sound(wallets[l])
      /\ \A n \in Names : Sound(wallets[n])
      /\ \A w \in disk : Sound(w)
      /\ \A w \in loops[l].data : Sound(w)
  BY DEF SoundInv
<1>5. loops[l].pc # "none" => Mine(l) \in Names /\ wallets[Mine(l)] \in Wallet
  BY MineTypes
<1>6. \A n : Covers(wallets[Mine(l)], n) /\ wallets' = wallets
               => Covers(wallets[Mine(l)], n)'
  BY <1>2, CoversKept
<1>7. \A n : Found(wallets[Mine(l)].keys, n)' = Found(wallets'[Mine(l)].keys, n)
  BY <1>2, FoundKept
<1> DEFINE next == loops[l].i + 1
<1>0. next \in Nat /\ next - 1 = loops[l].i
  BY <1>1 DEF Loop
<1> HIDE DEF next
<1>8. ASSUME EndSync(l), wallets' = wallets, \A w \in disk' : Sound(w)
      PROVE  SoundInv'
  <2>1. loops'[l].pc = "top" /\ loops'[l].data = {}
    BY <1>1, <1>8 DEF EndSync, Set, Loop
  <2>2. WorkInv(l)'
    BY <2>1, WorkRests DEF Resting
  <2>3. \A n \in Names : Sound(wallets[n])'
    BY <1>2, <1>4, <1>8, SoundKept
  <2> QED
    BY <1>2, <1>3, <1>8, <2>1, <2>2, <2>3, LoopSound
<1>9. CASE StartLoop(l) \/ LoopTop(l)
  <2>1. loops'[l].pc \in Resting /\ loops'[l].data \in {{}, loops[l].data}
    BY <1>1, <1>9 DEF StartLoop, LoopTop, Set, Loop, NoLoop, Resting
  <2>2. UNCHANGED <<wallets, disk>>
    BY <1>9 DEF StartLoop, LoopTop, store
  <2> QED
    BY <1>2, <1>3, <2>1, <2>2, WorkRests, LoopSoundOnly
<1>10. CASE Tick(l)
  <2>1. UNCHANGED <<wallets, disk>> /\ loops[l].pc # "none"
    BY <1>10 DEF Tick, store
  <2>2. /\ loops'[l].data = loops[l].data
        /\ \/ loops'[l].pc = "top"
           \/ loops'[l].pc = "block" /\ loops'[l].i = wallets[Mine(l)].last + 1
    BY <1>1, <1>10 DEF Tick, Set, Loop
  <2>3. Covers(wallets[Mine(l)], wallets[Mine(l)].last)
    BY <1>4, <1>5, <2>1 DEF Sound, Complete, Covers
  <2>4. wallets[Mine(l)].last \in Nat
    BY <1>5, <2>1 DEF Wallet
  <2>5. WorkInv(l)'
    <3>1. CASE loops'[l].pc = "top"
      BY <3>1, WorkRests DEF Resting
    <3>2. CASE loops'[l].pc = "block" /\ loops'[l].i = wallets[Mine(l)].last + 1
      <4>0. loops'[l].i - 1 = wallets[Mine(l)].last
        BY <2>4, <3>2
      <4>1. Covers(wallets[Mine(l)], loops'[l].i - 1)
        BY <2>3, <4>0
      <4>2. Covers(wallets[Mine(l)], loops[l].i - 1)'
        BY <1>2, <2>1, <4>1, CoversKept
      <4> QED
        BY <3>2, <4>2 DEF WorkInv
    <3> QED
      BY <2>2, <3>1, <3>2
  <2> QED
    BY <1>2, <1>3, <2>1, <2>2, <2>5, LoopSoundOnly
<1>11. CASE NextBlock(l)
  <2>1. UNCHANGED <<wallets, disk>> /\ loops[l].pc = "block"
    BY <1>11 DEF NextBlock, store
  <2>2. CASE Set(l, [loops[l] EXCEPT !.pc = "fetch"])
    <3>1. /\ loops'[l].pc = "fetch" /\ loops'[l].i = loops[l].i
          /\ loops'[l].data = loops[l].data
      BY <1>1, <2>2 DEF Set, Loop
    <3>2. Covers(wallets[Mine(l)], loops[l].i - 1)'
      BY <1>2, <1>4, <2>1, <3>1, CoversKept DEF WorkInv
    <3>3. WorkInv(l)'
      BY <3>1, <3>2 DEF WorkInv
    <3> QED
      BY <1>2, <1>3, <2>1, <3>1, <3>3, LoopSoundOnly
  <2> QED
    BY <1>4, <1>8, <1>11, <2>1, <2>2 DEF NextBlock
<1>12. ASSUME NEW ok \in BOOLEAN, SyncBlock(l, ok)
       PROVE  SoundInv'
  <2> DEFINE owned == Found(wallets[Mine(l)].keys, loops[l].i)
  <2>1. UNCHANGED <<wallets, disk>> /\ loops[l].pc = "fetch"
    BY <1>12 DEF SyncBlock, store
  <2>2. CASE ok
    <3> HIDE DEF owned
    <3>1. Set(l, [loops[l] EXCEPT !.pc = IF owned = {} THEN "guard" ELSE "match",
                                  !.owned = owned])
      BY <1>12, <2>2 DEF SyncBlock, owned
    <3>2. /\ loops'[l].pc = IF owned = {} THEN "guard" ELSE "match"
          /\ loops'[l].i = loops[l].i /\ loops'[l].owned = owned
          /\ loops'[l].data = loops[l].data
      BY <1>1, <3>1 DEF Set, Loop
    <3>3. Covers(wallets[Mine(l)], loops[l].i - 1)
      BY <1>4, <2>1 DEF WorkInv
    <3>4. CASE owned = {}
      <4>1. Covers(wallets[Mine(l)], loops[l].i)
        <5>1. ASSUME NEW h \in (Birth..loops[l].i) \ {1}
              PROVE  Found(wallets[Mine(l)].keys, h) \subseteq wallets[Mine(l)].utxos
          <6>1. h = loops[l].i \/ h \in (Birth..(loops[l].i - 1)) \ {1}
            BY <1>1, <5>1, KeyResetAssumption DEF Loop
          <6> QED
            BY <3>3, <3>4, <6>1 DEF Covers, owned
        <5> QED
          BY <5>1 DEF Covers
      <4>2. Covers(wallets[Mine(l)], loops[l].i)'
        BY <1>2, <2>1, <3>2, <4>1, CoversKept
      <4>3. WorkInv(l)'
        BY <3>2, <3>4, <4>2 DEF WorkInv
      <4> QED
        BY <1>2, <1>3, <2>1, <3>2, <4>3, LoopSoundOnly
    <3>5. CASE owned # {}
      <4>1. Covers(wallets[Mine(l)], loops[l].i - 1)'
        BY <1>2, <2>1, <3>2, <3>3, CoversKept
      <4>2. loops'[l].owned = Found(wallets[Mine(l)].keys, loops[l].i)'
        BY <1>2, <2>1, <3>2, FoundKept DEF owned
      <4>3. WorkInv(l)'
        BY <3>2, <3>5, <4>1, <4>2 DEF WorkInv
      <4> QED
        BY <1>2, <1>3, <2>1, <3>2, <4>3, LoopSoundOnly
    <3> QED
      BY <3>4, <3>5
  <2>3. CASE ~ok
    BY <1>4, <1>8, <1>12, <2>1, <2>3 DEF SyncBlock
  <2> QED
    BY <2>2, <2>3
<1>19. ASSUME NEW ok \in BOOLEAN, MatchOutputs(l, ok)
       PROVE  SoundInv'
  <2> DEFINE now == Found(wallets[Mine(l)].keys, loops[l].i)
             upd == [loops[l] EXCEPT !.pc = IF now = {} THEN "guard" ELSE "add",
                                     !.owned = now]
  <2>1. UNCHANGED <<wallets, disk>> /\ loops[l].pc = "match"
    BY <1>19 DEF MatchOutputs, store
  <2>2. /\ loops[l].owned = now
        /\ Covers(wallets[Mine(l)], loops[l].i - 1)
    BY <1>4, <2>1 DEF WorkInv
  <2>3. EndSync(l) \/ Set(l, upd)
    <3>1. now \cap loops[l].owned = now
      BY <2>2
    <3> QED
      BY <1>19, <3>1 DEF MatchOutputs
  <2>4. CASE Set(l, upd)
    <3> HIDE DEF now
    <3>1. /\ loops'[l].pc = IF now = {} THEN "guard" ELSE "add"
          /\ loops'[l].i = loops[l].i /\ loops'[l].owned = now
          /\ loops'[l].data = loops[l].data
      BY <1>1, <2>4 DEF Set, Loop
    <3>2. CASE now = {}
      <4>1. Covers(wallets[Mine(l)], loops[l].i)
        <5>1. ASSUME NEW h \in (Birth..loops[l].i) \ {1}
              PROVE  Found(wallets[Mine(l)].keys, h) \subseteq wallets[Mine(l)].utxos
          <6>1. \/ h = loops[l].i
                \/ h \in (Birth..(loops[l].i - 1)) \ {1}
            BY <1>1, <5>1, KeyResetAssumption DEF Loop
          <6> QED
            BY <2>2, <3>2, <6>1 DEF Covers, now
        <5> QED
          BY <5>1 DEF Covers
      <4>2. Covers(wallets[Mine(l)], loops[l].i)'
        BY <1>2, <2>1, <3>1, <4>1, CoversKept
      <4>3. WorkInv(l)'
        BY <3>1, <3>2, <4>2 DEF WorkInv
      <4> QED
        BY <1>2, <1>3, <2>1, <3>1, <4>3, LoopSoundOnly
    <3>3. CASE now # {}
      <4>1. Covers(wallets[Mine(l)], loops[l].i - 1)'
        BY <1>2, <2>1, <2>2, <3>1, CoversKept
      <4>2. loops'[l].owned = Found(wallets[Mine(l)].keys, loops[l].i)'
        BY <1>2, <2>1, <3>1, FoundKept DEF now
      <4>3. WorkInv(l)'
        BY <3>1, <3>3, <4>1, <4>2 DEF WorkInv
      <4> QED
        BY <1>2, <1>3, <2>1, <3>1, <4>3, LoopSoundOnly
    <3> QED
      BY <3>2, <3>3
  <2> QED
    BY <1>4, <1>8, <2>1, <2>3, <2>4
<1>13. CASE AddOwnedUTXOs(l)
  <2>1. loops[l].pc = "add" /\ disk' = disk /\ Mine(l) \in Names
    BY <1>5, <1>13 DEF AddOwnedUTXOs, store
  <2>2. /\ loops'[l].pc = "guard" /\ loops'[l].i = loops[l].i
        /\ loops'[l].data = loops[l].data
    BY <1>1, <1>13 DEF AddOwnedUTXOs, Set, Loop
  <2>3. \A n \in Names :
          /\ wallets'[n].keys = wallets[n].keys /\ wallets'[n].last = wallets[n].last
          /\ wallets'[n].utxos = IF n = Mine(l) THEN wallets[n].utxos \cup loops[l].owned
                                 ELSE wallets[n].utxos
    BY <1>1, <1>13 DEF AddOwnedUTXOs, Wallet
  <2>4. /\ loops[l].owned = Found(wallets[Mine(l)].keys, loops[l].i)
        /\ Covers(wallets[Mine(l)], loops[l].i - 1)
    BY <1>4, <2>1 DEF WorkInv
  <2>5. ASSUME NEW n \in Names PROVE Sound(wallets[n])'
    <3>1. \A c \in loops[l].owned : c[2] = loops[l].i
      BY <2>4 DEF Found
    <3>2. Own(wallets'[n])
      <4>1. SUFFICES ASSUME NEW c \in wallets'[n].utxos
                     PROVE  c \in Found(wallets[n].keys, c[2])
        BY <2>3 DEF Own
      <4>2. CASE c \in wallets[n].utxos
        BY <1>4, <4>2 DEF Sound, Own
      <4>3. CASE n = Mine(l) /\ c \in loops[l].owned
        BY <2>4, <3>1, <4>3
      <4> QED
        BY <2>3, <4>1, <4>2, <4>3
    <3>3. Complete(wallets'[n])
      BY <1>4, <2>3 DEF Sound, Complete
    <3> QED
      BY <1>2, <3>2, <3>3, SoundKept DEF Sound
  <2>6. Covers(wallets'[Mine(l)], loops[l].i)
    <3>1. ASSUME NEW h \in (Birth..loops[l].i) \ {1}
          PROVE  Found(wallets'[Mine(l)].keys, h) \subseteq wallets'[Mine(l)].utxos
      <4>1. h = loops[l].i \/ h \in (Birth..(loops[l].i - 1)) \ {1}
        BY <1>1, <3>1, KeyResetAssumption DEF Loop
      <4>2. CASE h = loops[l].i
        BY <2>1, <2>3, <2>4, <4>2
      <4>3. CASE h \in (Birth..(loops[l].i - 1)) \ {1}
        BY <2>1, <2>3, <2>4, <4>3 DEF Covers
      <4> QED
        BY <4>1, <4>2, <4>3
    <3> QED
      BY <3>1 DEF Covers
  <2>7. Covers(wallets[Mine(l)], loops[l].i)'
    BY <1>2, <2>2, <2>6, CoversKept
  <2>8. WorkInv(l)'
    BY <2>2, <2>7 DEF WorkInv
  <2> QED
    BY <1>2, <1>3, <1>4, <2>1, <2>2, <2>3, <2>5, <2>8, LoopSound
<1>14. CASE CheckAbort(l)
  <2>1. UNCHANGED <<wallets, disk>> /\ loops[l].pc = "guard"
    BY <1>14 DEF CheckAbort, store
  <2>2. /\ loops'[l].pc = "height" /\ loops'[l].i = loops[l].i
        /\ loops'[l].data = loops[l].data
    BY <1>1, <1>14 DEF CheckAbort, Set, Loop
  <2>3. Covers(wallets[Mine(l)], loops[l].i)'
    BY <1>2, <1>4, <2>1, <2>2, CoversKept DEF WorkInv
  <2>4. WorkInv(l)'
    BY <2>2, <2>3 DEF WorkInv
  <2> QED
    BY <1>2, <1>3, <2>1, <2>2, <2>4, LoopSoundOnly
<1>15. CASE SetLastScanHeight(l)
  <2>1. loops[l].pc = "height" /\ disk' = disk /\ Mine(l) \in Names
    BY <1>5, <1>15 DEF SetLastScanHeight, store
  <2>2. /\ loops'[l].data = loops[l].data
        /\ \/ loops'[l].pc = "save" /\ loops'[l].i = loops[l].i
           \/ loops'[l].pc = "block" /\ loops'[l].i = next
    <3>1. CASE Set(l, [loops[l] EXCEPT !.pc = "save"])
      BY <1>1, <3>1 DEF Set, Loop
    <3>2. CASE Set(l, [loops[l] EXCEPT !.pc = "block", !.i = next, !.checked = FALSE])
      BY <1>1, <3>2 DEF Set, Loop
    <3> QED
      BY <1>15, <3>1, <3>2 DEF SetLastScanHeight, next
  <2>3. \A n \in Names :
          /\ wallets'[n].keys = wallets[n].keys /\ wallets'[n].utxos = wallets[n].utxos
          /\ \/ wallets'[n].last = wallets[n].last
             \/ n = Mine(l) /\ wallets'[n].last = loops[l].i
    BY <1>1, <1>15 DEF SetLastScanHeight, Wallet
  <2>4. Covers(wallets[Mine(l)], loops[l].i)
    BY <1>4, <2>1 DEF WorkInv
  <2>5. ASSUME NEW n \in Names PROVE Sound(wallets[n])'
    <3>1. Own(wallets'[n])
      BY <1>4, <2>3 DEF Sound, Own
    <3>2. Complete(wallets'[n])
      BY <1>4, <2>3, <2>4 DEF Sound, Complete, Covers
    <3> QED
      BY <1>2, <3>1, <3>2, SoundKept DEF Sound
  <2>6. WorkInv(l)'
    <3>1. \A n : Covers(wallets[Mine(l)], n) => Covers(wallets'[Mine(l)], n)
      BY <2>1, <2>3 DEF Covers
    <3>2. CASE loops'[l].pc = "save" /\ loops'[l].i = loops[l].i
      <4>1. Covers(wallets[Mine(l)], loops[l].i)'
        BY <1>2, <2>4, <3>1, <3>2, CoversKept
      <4> QED
        BY <3>2, <4>1 DEF WorkInv
    <3>3. CASE loops'[l].pc = "block" /\ loops'[l].i = next
      <4>1. loops'[l].i - 1 = loops[l].i
        BY <1>0, <3>3
      <4>2. Covers(wallets[Mine(l)], loops[l].i - 1)'
        BY <1>2, <2>4, <3>1, <3>3, <4>1, CoversKept
      <4> QED
        BY <3>3, <4>2 DEF WorkInv
    <3> QED
      BY <2>2, <3>2, <3>3
  <2> QED
    BY <1>2, <1>3, <1>4, <2>1, <2>2, <2>3, <2>5, <2>6, LoopSound
<1>16. ASSUME NEW ok \in BOOLEAN, TruncateFile(l, ok)
       PROVE  SoundInv'
  <2>1. wallets' = wallets /\ loops[l].pc = "save"
    BY <1>16 DEF TruncateFile
  <2>2. CASE ok
    <3>0. /\ Set(l, [loops[l] EXCEPT !.pc = "fill", !.data = {wallets[Mine(l)]}])
          /\ disk' = {ZeroWallet}
      BY <1>16, <2>2 DEF TruncateFile
    <3>1. /\ loops'[l].pc = "fill" /\ loops'[l].i = loops[l].i
          /\ loops'[l].data = {wallets[Mine(l)]}
      BY <1>1, <3>0 DEF Set, Loop
    <3>2. Covers(wallets[Mine(l)], loops[l].i)'
      BY <1>2, <1>4, <2>1, <3>1, CoversKept DEF WorkInv
    <3>3. WorkInv(l)'
      BY <3>1, <3>2 DEF WorkInv
    <3>4. \A n \in Names : Sound(wallets[n])'
      BY <1>2, <1>4, <2>1, SoundKept
    <3>5. Sound(wallets[Mine(l)])
      BY <1>4, <1>5, <2>1
    <3> QED
      BY <1>2, <1>3, <2>1, <3>0, <3>1, <3>3, <3>4, <3>5, NewSound, LoopSound
  <2>3. CASE ~ok
    BY <1>4, <1>8, <1>16, <2>1, <2>3 DEF TruncateFile, store
  <2> QED
    BY <2>2, <2>3
<1>17. ASSUME NEW ok \in BOOLEAN, FillFile(l, ok)
       PROVE  SoundInv'
  <2>1. wallets' = wallets /\ loops[l].pc = "fill"
    BY <1>17 DEF FillFile
  <2>2. CASE ok
    <3>0. /\ Set(l, [loops[l] EXCEPT !.pc = "block", !.i = next, !.owned = {},
                                     !.checked = FALSE, !.data = {}])
          /\ Overlay(loops[l].data)
      BY <1>17, <2>2 DEF FillFile, NextHeight, next
    <3>1. /\ loops'[l].pc = "block" /\ loops'[l].i = next
          /\ loops'[l].data = {}
      BY <1>1, <3>0 DEF Set, Loop
    <3>2. loops'[l].i - 1 = loops[l].i
      BY <1>0, <3>1
    <3>3. Covers(wallets[Mine(l)], loops[l].i - 1)'
      BY <1>2, <1>4, <2>1, <3>1, <3>2, CoversKept DEF WorkInv
    <3>4. WorkInv(l)'
      BY <3>1, <3>3 DEF WorkInv
    <3>5. \A n \in Names : Sound(wallets[n])'
      BY <1>2, <1>4, <2>1, SoundKept
    <3>6. \A w \in disk' : w \in disk \/ w \in loops[l].data \/ w = ZeroWallet
      <4>1. /\ loops[l].data \subseteq Wallet /\ Single(loops[l].data) /\ Stored
        BY <1>1 DEF Loop, TypeInv, Types, Stored
      <4> QED
        BY <3>0, <4>1, OverlayTypes
    <3>7. \A w \in disk' : Sound(w)
      BY <1>4, <3>6, NewSound
    <3> QED
      BY <1>2, <1>3, <2>1, <3>1, <3>4, <3>5, <3>7, LoopSound
  <2>3. CASE ~ok
    <3>1. EndSync(l) /\ (disk' = disk \/ disk' = {ZeroWallet})
      BY <1>17, <2>3 DEF FillFile, Tear, store
    <3>2. \A w \in disk' : Sound(w)
      BY <1>4, <3>1, NewSound
    <3> QED
      BY <1>8, <2>1, <3>1, <3>2
  <2> QED
    BY <2>2, <2>3
<1>18. CASE Watch(l)
  <2>1. UNCHANGED <<wallets, disk>> /\ loops[l].pc # "none"
    BY <1>18 DEF Watch, Running, store
  <2>2. /\ loops'[l].pc = loops[l].pc /\ loops'[l].i = loops[l].i
        /\ loops'[l].owned = loops[l].owned /\ loops'[l].data = loops[l].data
    BY <1>1, <1>18 DEF Watch, Set, Loop
  <2>3. WorkInv(l)'
    BY <1>2, <1>4, <2>1, <2>2, WorkKept
  <2> QED
    BY <1>2, <1>3, <2>1, <2>2, <2>3, LoopSoundOnly
<1> QED
  BY <1>9, <1>10, <1>11, <1>12, <1>13, <1>14, <1>15, <1>16, <1>17, <1>18,
     <1>19 DEF Scan

\* A handler changes what loops work on only while they rest.
LEMMA PutSound ==
  ASSUME Quiet, TypeInv, QuietInv, SoundInv, NEW r \in Reqs, Put(r)
  PROVE  SoundInv'
<1>1. r \in Keys /\ r # Second /\ wallets \in [Names -> Wallet] /\ loops \in [Names -> Loop]
  BY NamesFacts DEF TypeInv, Types
<1>2. ASSUME UNCHANGED <<pays, current, wallets>>, disk' \in {{}, disk},
             \A l \in Names : /\ loops'[l].pc = loops[l].pc /\ loops'[l].i = loops[l].i
                              /\ loops'[l].owned = loops[l].owned
                              /\ loops'[l].data \in {{}, loops[l].data}
      PROVE  SoundInv'
  <2>1. ASSUME NEW l \in Names PROVE WorkInv(l)'
    <3>1. Mine(l)' = Mine(l) /\ WorkInv(l)
      BY <1>2 DEF Mine, SoundInv
    <3> QED
      BY <1>2, <3>1, WorkKept
  <2>2. \A w \in disk' : Sound(w)
    BY <1>2 DEF SoundInv
  <2>3. \A l \in Names : \A w \in loops'[l].data : Sound(w)
    BY <1>2 DEF SoundInv
  <2>4. \A l \in Names : Sound(wallets'[l])
    BY <1>2 DEF SoundInv
  <2> QED
    BY <1>2, <2>1, <2>2, <2>3, <2>4, SoundKept DEF SoundInv
<1>3. ASSUME UNCHANGED <<pays, disk>>,
             \A l \in Keys : /\ loops'[l].pc \in Resting
                             /\ loops'[l].data \in {{}, loops[l].data},
             loops'[Second] = loops[Second], wallets'[Second] = wallets[Second],
             \A n \in Names : wallets'[n] \in {wallets[n], NewWallet(config)}
      PROVE  SoundInv'
  <2>1. ASSUME NEW l \in Keys PROVE WorkInv(l)'
    BY <1>3, WorkRests
  <2>2. WorkInv(Second)'
    <3>1. Mine(Second)' = Mine(Second) /\ Mine(Second) = Second /\ WorkInv(Second)
      BY NamesFacts DEF Mine, SoundInv
    <3> QED
      BY <1>3, <3>1, WorkKept, NamesFacts
  <2>3. \A l \in Names : Sound(wallets'[l])
    BY <1>3, NewSound DEF SoundInv
  <2>4. \A l \in Names : \A w \in loops'[l].data : Sound(w)
    BY <1>3 DEF SoundInv, Names
  <2>5. \A w \in disk' : Sound(w)
    BY <1>3 DEF SoundInv
  <2> QED
    BY <1>3, <2>1, <2>2, <2>3, <2>4, <2>5, SoundKept DEF SoundInv, Names
<1>4. ~Arrive(r) => \A l \in Keys : loops[l].pc \in Resting
  BY PutHandling DEF QuietInv
<1>5. CASE SetupWallet(r)
  <2>0. /\ UNCHANGED <<pays, disk, loops>>
        /\ wallets' = wallets \/ wallets' = [wallets EXCEPT ![r] = NewWallet(config)]
    BY <1>5 DEF SetupWallet, store
  <2>1. \A n \in Names : \/ wallets'[n] = wallets[n]
                         \/ n = r /\ wallets'[n] = NewWallet(config)
    BY <1>1, <2>0
  <2>2. ~Arrive(r)
    BY <1>5 DEF SetupWallet, Arrive, Step
  <2> QED
    BY <1>1, <1>3, <1>4, <2>0, <2>1, <2>2, NamesFacts
<1>6. CASE AssignWallet(r)
  <2>1. UNCHANGED <<pays, disk, wallets>> /\ Set(r, [NoLoop EXCEPT !.pc = "delayed"])
    BY <1>6 DEF AssignWallet, store
  <2>2. \A l \in Names : loops'[l] = IF l = r THEN [NoLoop EXCEPT !.pc = "delayed"] ELSE loops[l]
    BY <1>1, <2>1 DEF Set
  <2>3. ~Arrive(r)
    BY <1>6 DEF AssignWallet, Arrive, Step
  <2>4. \A l \in Keys : loops'[l].pc \in Resting /\ loops'[l].data \in {{}, loops[l].data}
    BY <1>4, <2>2, <2>3, NamesFacts DEF NoLoop, Resting
  <2> QED
    BY <1>1, <1>3, <2>1, <2>2, <2>4, NamesFacts
<1>7. CASE RemoveFile(r)
  BY <1>2, <1>7, RemoveLoops DEF RemoveFile, store
<1> QED
  BY <1>2, <1>5, <1>6, <1>7 DEF Put, Arrive, SetViperScanKey, SetViperSpendKey, SetScanKey,
     SetSpendKey, WriteConfig, Cancel, AnswerAddress, store

\* The second daemon begins with a sound wallet.
LEMMA MainSound ==
  ASSUME TypeInv, SoundInv, NEW ok \in BOOLEAN, SetupDaemon(ok)
  PROVE  SoundInv'
<1>1. wallets \in [Names -> Wallet] /\ loops \in [Names -> Loop] /\ UNCHANGED <<pays, current, disk>>
  BY DEF TypeInv, Types, SetupDaemon, store
<1>2. CASE ok /\ text = "whole"
  <2>1. /\ wallets' = [wallets EXCEPT ![Second] = Load(config)]
        /\ Set(Second, [NoLoop EXCEPT !.pc = "top"])
    BY <1>2 DEF SetupDaemon
  <2>2. \A l \in Names : /\ l # Second => loops'[l] = loops[l] /\ wallets'[l] = wallets[l]
                         /\ l = Second => loops'[l].pc = "top" /\ loops'[l].data = {}
    BY <1>1, <2>1 DEF Set, NoLoop
  <2>3. Sound(Load(config))
    BY NewSound, LoadTypes DEF SoundInv, TypeInv, Types
  <2>4. \A l \in Names : Sound(wallets'[l])
    BY <1>1, <2>1, <2>3 DEF SoundInv
  <2>5. ASSUME NEW l \in Names PROVE WorkInv(l)'
    <3>1. CASE l = Second \/ loops[l].pc = "none"
      BY <2>2, <3>1, WorkRests DEF Resting
    <3>2. CASE l # Second /\ loops[l].pc # "none"
      <4>1. Mine(l) \in Names /\ Mine(l) # Second /\ Mine(l)' = Mine(l)
        BY <1>1, <3>2, MineTypes, NamesFacts DEF Mine, Names, TypeInv, Types
      <4> QED
        BY <1>1, <2>2, <3>2, <4>1, WorkKept DEF SoundInv
    <3> QED
      BY <3>1, <3>2
  <2>6. \A l \in Names : \A w \in loops'[l].data : Sound(w)
    BY <2>2 DEF SoundInv
  <2>7. \A w \in disk' : Sound(w)
    BY <1>1 DEF SoundInv
  <2> QED
    BY <1>1, <2>4, <2>5, <2>6, <2>7, SoundKept DEF SoundInv
<1>3. CASE ~(ok /\ text = "whole")
  <2>1. wallets' = wallets /\ \A l \in Names : loops'[l].pc = "none" /\ loops'[l].data = {}
    BY <1>3, NoLoopTypes DEF SetupDaemon, Panic
  <2>2. \A l \in Names : WorkInv(l)'
    BY <2>1, WorkRests DEF Resting
  <2>3. \A l \in Names : Sound(wallets'[l])
    BY <2>1 DEF SoundInv
  <2>4. \A w \in disk' : Sound(w)
    BY <1>1 DEF SoundInv
  <2> QED
    BY <1>1, <2>1, <2>2, <2>3, <2>4, SoundKept DEF SoundInv
<1> QED
  BY <1>2, <1>3

LEMMA SoundStep ==
  ASSUME Quiet, TypeInv, QuietInv, SoundInv, [Next]_vars
  PROVE  SoundInv'
<1>1. ASSUME UNCHANGED <<pays, wallets, current, disk, loops>>
      PROVE  SoundInv'
  <2>1. ASSUME NEW l \in Names PROVE WorkInv(l)'
    <3>1. Mine(l)' = Mine(l) /\ WorkInv(l)
      BY <1>1 DEF Mine, SoundInv
    <3> QED
      BY <1>1, <3>1, WorkKept
  <2>2. /\ \A l \in Names : Sound(wallets'[l])
        /\ \A w \in disk' : Sound(w)
        /\ \A l \in Names : \A w \in loops'[l].data : Sound(w)
    BY <1>1 DEF SoundInv
  <2> QED
    BY <1>1, <2>1, <2>2, SoundKept DEF SoundInv
<1>2. ASSUME NEW r \in Reqs, Announce(r)
      PROVE  SoundInv'
  BY <1>1, <1>2 DEF Announce, LookForWallet, KeysReady, store
<1>3. CASE UNCHANGED vars
  BY <1>1, <1>3 DEF vars, store
<1> QED
  BY <1>2, <1>3, ScanSound, PutSound, MainSound DEF Next

LEMMA SoundInit == Init => QuietInv /\ SoundInv
<1> SUFFICES ASSUME Init PROVE QuietInv /\ SoundInv
  OBVIOUS
<1>1. Handling = {}
  BY DEF Init, Handling
<1>2. \A l \in Names : loops[l].pc \in {"none", "top"} /\ loops[l].data = {}
  <2>1. CASE StartWithKeys
    BY <2>1, NoLoopTypes DEF StartWithKeys, NoLoop
  <2>2. CASE StartWithoutKeys
    BY <2>2, NoLoopTypes DEF StartWithoutKeys
  <2> QED
    BY <2>1, <2>2 DEF Init
<1>3. \A l \in Names : WorkInv(l)
  BY <1>2 DEF WorkInv
<1>4. \A l \in Names : Sound(wallets[l])
  BY NewSound DEF Init
<1>5. \A w \in disk : Sound(w)
  BY NewSound DEF Init, StartWithKeys, StartWithoutKeys
<1> QED
  BY <1>1, <1>2, <1>3, <1>4, <1>5 DEF QuietInv, SoundInv

LEMMA SoundCorrect == Quiet => (Spec => [](TypeInv /\ QuietInv /\ SoundInv))
<1> SUFFICES ASSUME Quiet PROVE Spec => [](TypeInv /\ QuietInv /\ SoundInv)
  OBVIOUS
<1>1. Init => TypeInv /\ QuietInv /\ SoundInv
  BY TypeInit, SoundInit
<1>2. TypeInv /\ QuietInv /\ SoundInv /\ [Next]_vars => (TypeInv /\ QuietInv /\ SoundInv)'
  BY TypeStep, QuietStep, SoundStep
<1> QED
  BY <1>1, <1>2, PTL DEF Spec

\* A wallet made for new keys is scanned from scratch: whichever loop works on it,
\* its height covers only blocks scanned with its own keys.  Block 1 is left out.
THEOREM ScanFromScratch == Quiet => (Spec => []ScansFromScratch)
<1>1. SoundInv => ScansFromScratch
  BY DEF SoundInv, Sound, ScansFromScratch
<1> QED
  BY <1>1, SoundCorrect, PTL

\* No loop puts a coin of other keys into a wallet.
THEOREM CoinsAreOwn == Quiet => (Spec => []OwnCoinsOnly)
<1>1. SoundInv => OwnCoinsOnly
  BY DEF SoundInv, Sound, OwnCoinsOnly
<1> QED
  BY <1>1, SoundCorrect, PTL

\* At any moment, while a loop writes the wallet file too, a restart loads a wallet
\* that has the coins of all the blocks it need not scan but block 1, and no others.
THEOREM RestartLoadsSound == Quiet => (Spec => []RestartIsSound)
<1>1. TypeInv /\ SoundInv => RestartIsSound
  BY NewSound, LoadTypes DEF SoundInv, Sound, RestartIsSound, Loaded, TypeInv, Types
<1> QED
  BY <1>1, SoundCorrect, PTL

-----------------------------------------------------------------------------
(* Whose keys are where.                                                   *)

\* What a handler has set up is of its own keys.
HandlerKeys(r) ==
  /\ put[r] = "vspend" => viper.scan = r
  /\ put[r] \in {"scan", "spend", "config", "setup", "cancel", "remove", "assign",
                "answer"} => viper = KeysOf(r)
  /\ put[r] = "spend" => config.scan = r
  /\ put[r] \in {"config", "setup", "cancel", "remove", "assign", "answer"} =>
       config = KeysOf(r)
  /\ put[r] \in {"setup", "cancel", "remove", "assign", "answer"} => file = KeysOf(r)
  /\ put[r] \in {"cancel", "remove", "assign", "answer"} => wallets[r].keys = KeysOf(r)
  /\ put[r] = "answer" => current = r
  /\ address[r] \in {None, r}

\* The wallet in use is of the keys it is named after, and so is the config-file
\* when no request is under way and none failed.
CurrentKeys ==
  current # None =>
    /\ wallets[current].keys = KeysOf(current)
    /\ Handling = {} /\ (\A r \in Reqs : put[r] # "failed") => file = KeysOf(current)

\* Main sets up the second daemon once.
SecondKeys == main \in {"waiting", "setup"} => loops[Second].pc = "none"

\* The wallet file does not parse, or is the zero wallet a start found, or the wallet in
\* use unless it has just been removed, or that of the second daemon.
DiskKeys ==
  \A w \in disk :
    \/ /\ w = ZeroWallet
       /\ text = "whole" =>
            current = None /\ \A r \in Reqs : put[r] \notin {"assign", "answer"}
    \/ /\ current # None /\ w.keys = KeysOf(current)
       /\ \A r \in Reqs : put[r] \notin {"assign", "answer"}
    \/ loops[Second].pc # "none" /\ w.keys = wallets[Second].keys

\* A loop writes the wallet it works on.
DataKeys ==
  \A l \in Names : \A w \in loops[l].data :
    loops[l].pc = "fill" /\ w.keys = wallets[Mine(l)].keys

KeyInv ==
  /\ \A r \in Reqs : HandlerKeys(r)
  /\ CurrentKeys /\ SecondKeys /\ DiskKeys /\ DataKeys

\* What a step of a loop writes.
LEMMA ScanWrites ==
  ASSUME TypeInv, DataKeys, NEW l \in Names, Scan(l) \/ Watch(l)
  PROVE  /\ \A n \in Names : wallets'[n].keys = wallets[n].keys
         /\ \A m \in Names : m # l => loops'[m] = loops[m]
         /\ loops[l].pc # "none" /\ loops'[l].pc # "none"
         /\ \A w \in loops'[l].data : /\ loops'[l].pc = "fill"
                                      /\ w.keys = wallets[Mine(l)].keys
         /\ \A w \in disk' : \/ w \in disk /\ UNCHANGED store
                             \/ w = ZeroWallet /\ text' # "whole"
                             \/ w \in loops[l].data
<1>1. /\ loops \in [Names -> Loop] /\ loops[l] \in Loop
      /\ wallets \in [Names -> Wallet] /\ Stored
      /\ Single(loops[l].data)
  BY DEF TypeInv, Types, Stored
<1>2. \A m \in Names : m # l => loops'[m] = loops[m]
  <2>1. \E upd : Set(l, upd)
    BY OwnLocals
  <2> QED
    BY <1>1, <2>1 DEF Set
<1>3. \A n \in Names : wallets'[n].keys = wallets[n].keys
  <2>1. CASE wallets' = wallets
    BY <2>1
  <2>2. CASE \E u : wallets' = [wallets EXCEPT ![Mine(l)].utxos = u]
    BY <1>1, <2>2 DEF Wallet
  <2>3. CASE \E h : wallets' = [wallets EXCEPT ![Mine(l)].last = h]
    BY <1>1, <2>3 DEF Wallet
  <2> QED
    BY <2>1, <2>2, <2>3 DEF Scan, StartLoop, LoopTop, Tick, NextBlock, SyncBlock,
       MatchOutputs, AddOwnedUTXOs, CheckAbort, SetLastScanHeight, TruncateFile, FillFile, Watch
<1>4. \A w \in loops[l].data : loops[l].pc = "fill" /\ w.keys = wallets[Mine(l)].keys
  BY DEF DataKeys
<1> DEFINE next == loops[l].i + 1
<1> HIDE DEF next
<1>5. ASSUME EndSync(l)
      PROVE  loops'[l].pc = "top" /\ loops'[l].data = {}
  BY <1>1, <1>5 DEF EndSync, Set, Loop
<1>6. CASE TruncateFile(l, TRUE)
  <2>1. /\ Set(l, [loops[l] EXCEPT !.pc = "fill", !.data = {wallets[Mine(l)]}])
        /\ loops[l].pc = "save" /\ disk' = {ZeroWallet} /\ text' = "empty"
    BY <1>6 DEF TruncateFile
  <2>2. loops'[l].pc = "fill" /\ loops'[l].data = {wallets[Mine(l)]}
    BY <1>1, <2>1 DEF Set, Loop
  <2> QED
    BY <1>2, <1>3, <2>1, <2>2
<1>7. CASE FillFile(l, TRUE)
  <2>1. /\ Set(l, [loops[l] EXCEPT !.pc = "block", !.i = next, !.owned = {},
                                   !.checked = FALSE, !.data = {}])
        /\ loops[l].pc = "fill" /\ Overlay(loops[l].data)
    BY <1>7 DEF FillFile, NextHeight, next
  <2>2. loops'[l].pc = "block" /\ loops'[l].data = {}
    BY <1>1, <2>1 DEF Set, Loop
  <2>3. \A w \in disk' : \/ w \in disk /\ UNCHANGED store
                         \/ w = ZeroWallet /\ text' # "whole"
                         \/ w \in loops[l].data
    BY <2>1 DEF Overlay, Tear, store
  <2> QED
    BY <1>2, <1>3, <2>1, <2>2, <2>3
<1>8. CASE Watch(l)
  <2>1. loops[l].pc # "none" /\ disk' = disk /\ UNCHANGED store
    BY <1>8 DEF Watch, Running, store
  <2>2. loops'[l].pc = loops[l].pc /\ loops'[l].data = loops[l].data
    BY <1>1, <1>8 DEF Watch, Set, Loop
  <2> QED
    BY <1>2, <1>3, <1>4, <2>1, <2>2
<1>9. CASE TruncateFile(l, FALSE) \/ FillFile(l, FALSE)
  <2>1. /\ EndSync(l) /\ loops[l].pc # "none"
        /\ \/ UNCHANGED store
           \/ disk' = {ZeroWallet} /\ text' # "whole"
    BY <1>9 DEF TruncateFile, FillFile, Tear
  <2>2. \A w \in disk' : \/ w \in disk /\ UNCHANGED store
                         \/ w = ZeroWallet /\ text' # "whole"
    BY <2>1 DEF store
  <2> QED
    BY <1>2, <1>3, <1>5, <2>1, <2>2
<1>10. CASE Scan(l) /\ \A ok \in BOOLEAN : ~TruncateFile(l, ok) /\ ~FillFile(l, ok)
  <2>1. UNCHANGED store /\ disk' = disk /\ loops[l].pc \notin {"none", "fill"}
    BY <1>10 DEF Scan, StartLoop, LoopTop, Tick, NextBlock, SyncBlock, MatchOutputs,
       AddOwnedUTXOs, CheckAbort, SetLastScanHeight, store
  <2>2. loops[l].data = {}
    BY <1>4, <2>1
  <2>3. CASE \E to \in {"top", "select", "fetch", "guard", "save"} :
                Set(l, [loops[l] EXCEPT !.pc = to])
    <3>1. loops'[l].pc # "none" /\ loops'[l].data = {}
      BY <1>1, <2>2, <2>3 DEF Set, Loop
    <3> QED
      BY <1>2, <1>3, <2>1, <3>1
  <2>4. CASE \E from : Set(l, [loops[l] EXCEPT !.pc = "block", !.i = from])
    <3>1. loops'[l].pc # "none" /\ loops'[l].data = {}
      BY <1>1, <2>2, <2>4 DEF Set, Loop
    <3> QED
      BY <1>2, <1>3, <2>1, <3>1
  <2>5. CASE Set(l, [NoLoop EXCEPT !.pc = "ended"])
    <3>1. loops'[l].pc # "none" /\ loops'[l].data = {}
      BY <1>1, <2>5 DEF Set, NoLoop
    <3> QED
      BY <1>2, <1>3, <2>1, <3>1
  <2>6. CASE EndSync(l)
    BY <1>2, <1>3, <1>5, <2>1, <2>6
  <2>7. CASE \E owned, to : /\ to \in {"guard", "match", "add"}
                            /\ Set(l, [loops[l] EXCEPT !.pc = to, !.owned = owned])
    <3>1. loops'[l].pc # "none" /\ loops'[l].data = {}
      BY <1>1, <2>2, <2>7 DEF Set, Loop
    <3> QED
      BY <1>2, <1>3, <2>1, <3>1
  <2>8. CASE \E checked : Set(l, [loops[l] EXCEPT !.pc = "height", !.checked = checked])
    <3>1. loops'[l].pc # "none" /\ loops'[l].data = {}
      BY <1>1, <2>2, <2>8 DEF Set, Loop
    <3> QED
      BY <1>2, <1>3, <2>1, <3>1
  <2>9. CASE Set(l, [loops[l] EXCEPT !.pc = "block", !.i = next, !.checked = FALSE])
    <3>1. loops'[l].pc # "none" /\ loops'[l].data = {}
      BY <1>1, <2>2, <2>9 DEF Set, Loop
    <3> QED
      BY <1>2, <1>3, <2>1, <3>1
  <2>10. \/ StartLoop(l) \/ LoopTop(l) \/ Tick(l) \/ NextBlock(l) \/ AddOwnedUTXOs(l)
         \/ CheckAbort(l) \/ SetLastScanHeight(l)
         \/ \E ok \in BOOLEAN : SyncBlock(l, ok) \/ MatchOutputs(l, ok)
    BY <1>10 DEF Scan
  <2>11. CASE StartLoop(l) \/ AddOwnedUTXOs(l) \/ NextBlock(l)
    BY <2>3, <2>6, <2>11 DEF StartLoop, AddOwnedUTXOs, NextBlock
  <2>12. CASE LoopTop(l)
    BY <2>3, <2>5, <2>12 DEF LoopTop
  <2>13. CASE Tick(l)
    BY <2>3, <2>4, <2>13 DEF Tick
  <2>14. CASE CheckAbort(l)
    BY <2>8, <2>14 DEF CheckAbort
  <2>15. CASE SetLastScanHeight(l)
    BY <2>3, <2>9, <2>15 DEF SetLastScanHeight, next
  <2>16. ASSUME NEW ok \in BOOLEAN, SyncBlock(l, ok) \/ MatchOutputs(l, ok)
         PROVE  \/ EndSync(l)
                \/ \E owned, to : /\ to \in {"guard", "match", "add"}
                                  /\ Set(l, [loops[l] EXCEPT !.pc = to, !.owned = owned])
    BY <2>16 DEF SyncBlock, MatchOutputs
  <2> QED
    BY <2>6, <2>7, <2>10, <2>11, <2>12, <2>13, <2>14, <2>15, <2>16
<1> QED
  BY <1>6, <1>7, <1>8, <1>9, <1>10 DEF Scan

LEMMA ScanKeys ==
  ASSUME TypeInv, QuietInv, KeyInv, NEW l \in Names, Scan(l) \/ Watch(l)
  PROVE  KeyInv'
<1>1. UNCHANGED <<current, config, viper, file, put, address, announce, main>>
  BY ScanUnchanged
<1>2. /\ \A n \in Names : wallets'[n].keys = wallets[n].keys
      /\ \A m \in Names : m # l => loops'[m] = loops[m]
      /\ loops[l].pc # "none" /\ loops'[l].pc # "none"
      /\ \A w \in loops'[l].data : /\ loops'[l].pc = "fill"
                                   /\ w.keys = wallets[Mine(l)].keys
      /\ \A w \in disk' : \/ w \in disk /\ UNCHANGED store
                          \/ w = ZeroWallet /\ text' # "whole"
                          \/ w \in loops[l].data
  BY ScanWrites DEF KeyInv
<1>3. loops'[Second].pc = "none" <=> loops[Second].pc = "none"
  BY <1>2, NamesFacts
<1>4. Handling' = Handling
  BY <1>1 DEF Handling
<1>5. \A r \in Reqs : HandlerKeys(r)'
  BY <1>1, <1>2, NamesFacts DEF KeyInv, HandlerKeys
<1>6. CurrentKeys'
  BY <1>1, <1>2, <1>4, NamesFacts DEF KeyInv, CurrentKeys, TypeInv, Types
<1>7. SecondKeys'
  BY <1>1, <1>2, <1>3, NamesFacts DEF KeyInv, SecondKeys
<1>8. DataKeys'
  <2>1. ASSUME NEW m \in Names, NEW w \in loops'[m].data
        PROVE  loops'[m].pc = "fill" /\ w.keys = wallets'[Mine(m)].keys
    <3>1. loops'[m].pc = "fill" /\ w.keys = wallets[Mine(m)].keys /\ loops[m].pc # "none"
      BY <1>2, <2>1 DEF KeyInv, DataKeys
    <3> QED
      BY <1>2, <3>1, MineTypes
  <2>2. \A m \in Names : Mine(m)' = Mine(m)
    BY <1>1 DEF Mine
  <2> QED
    BY <2>1, <2>2 DEF DataKeys
<1>9. DiskKeys'
  <2>1. ASSUME NEW w \in disk, UNCHANGED store
        PROVE  \/ /\ w = ZeroWallet
                  /\ text' = "whole" =>
                       current = None /\ \A r \in Reqs : put[r] \notin {"assign", "answer"}
               \/ /\ current # None /\ w.keys = KeysOf(current)
                  /\ \A r \in Reqs : put[r] \notin {"assign", "answer"}
               \/ loops'[Second].pc # "none" /\ w.keys = wallets'[Second].keys
    BY <1>2, <1>3, <2>1, NamesFacts DEF KeyInv, DiskKeys, store
  <2>2. ASSUME NEW w \in loops[l].data, l # Second
        PROVE  /\ current # None /\ w.keys = KeysOf(current)
               /\ \A r \in Reqs : put[r] \notin {"assign", "answer"}
    <3>1. l \in Keys /\ loops[l].pc = "fill" /\ Mine(l) = current
      BY <1>2, <2>2, MineTypes DEF KeyInv, DataKeys, Names
    <3>2. current # None /\ w.keys = KeysOf(current)
      BY <2>2, <3>1 DEF KeyInv, DataKeys, CurrentKeys, TypeInv, HasWallet
    <3>3. Handling = {}
      BY <3>1 DEF QuietInv, Resting
    <3> QED
      BY <3>2, <3>3 DEF Handling
  <2>3. ASSUME NEW w \in loops[l].data, l = Second
        PROVE  loops'[Second].pc # "none" /\ w.keys = wallets'[Second].keys
    BY <1>2, <2>3 DEF KeyInv, DataKeys, Mine
  <2> QED
    BY <1>1, <1>2, <2>1, <2>2, <2>3 DEF DiskKeys
<1> QED
  BY <1>5, <1>6, <1>7, <1>8, <1>9 DEF KeyInv

\* No loop of the server's daemon has the wallet file open while a handler runs.
LEMMA NothingOpen ==
  ASSUME QuietInv, DataKeys, Handling # {}
  PROVE  \A l \in Names : l # Second => loops[l].data = {}
BY DEF QuietInv, DataKeys, Resting, Names

\* What a step of the one handler must see to: what it has set up itself, and that
\* the wallets of other keys keep theirs.
LEMMA HandlerSteps ==
  ASSUME TypeInv, QuietInv, KeyInv, NEW r \in Reqs, Put(r), ~Arrive(r),
         HandlerKeys(r)', CurrentKeys',
         \A q \in Reqs : q # r => address'[q] = address[q],
         wallets'[Second] = wallets[Second], loops'[Second].pc = loops[Second].pc,
         loops'[Second].data \in {{}, loops[Second].data},
         \A l \in Names : l # Second => loops'[l].data \in {{}, loops[l].data},
         current' \in {current, r}, main' = main,
         disk' = {} \/ /\ UNCHANGED store
                       /\ \/ put[r] = "assign"
                          \/ current' = current /\ put'[r] \notin {"assign", "answer"}
  PROVE  KeyInv'
<1>1. /\ Handling = {r} /\ r # Second /\ r # Boot /\ r \in Names
      /\ \A q \in Reqs : q # r => put'[q] = put[q] /\ put[q] \notin
           {"vspend", "scan", "spend", "config", "setup", "cancel", "remove", "assign",
            "answer"}
  <2>1. Handling = {r}
    BY PutHandling DEF QuietInv
  <2>2. \E from, to : Step(r, from, to)
    BY DEF Put, SetViperScanKey, SetViperSpendKey, SetScanKey, SetSpendKey, WriteConfig,
       SetupWallet, Cancel, RemoveFile, AssignWallet, AnswerAddress
  <2>3. \A q \in Reqs : q # r => put'[q] = put[q]
    BY <2>2, StepPut
  <2>4. \A q \in Reqs : q # r => put[q] \in {"new", "done", "failed"}
    BY <2>1 DEF Handling
  <2> QED
    BY <2>1, <2>3, <2>4, NamesFacts
<1>2. \A q \in Reqs : HandlerKeys(q)'
  BY <1>1 DEF KeyInv, HandlerKeys
<1>3. DataKeys'
  <2>1. \A l \in Names : l # Second => loops'[l].data = {}
    BY <1>1, NothingOpen DEF KeyInv
  <2>2. \A w \in loops'[Second].data :
           loops'[Second].pc = "fill" /\ w.keys = wallets'[Second].keys
    BY NamesFacts DEF KeyInv, DataKeys, Mine
  <2> QED
    BY <2>1, <2>2 DEF DataKeys, Mine
<1>4. DiskKeys'
  BY <1>1 DEF KeyInv, DiskKeys, store
<1>5. SecondKeys'
  BY DEF KeyInv, SecondKeys
<1> QED
  BY <1>2, <1>3, <1>4, <1>5 DEF KeyInv

LEMMA PutKeys ==
  ASSUME Quiet, TypeInv, QuietInv, KeyInv, NEW r \in Reqs, Put(r)
  PROVE  KeyInv'
<1>1. /\ r \in Keys /\ r \in Names /\ r # Second /\ Second \in Names
      /\ wallets \in [Names -> Wallet] /\ loops \in [Names -> Loop]
      /\ config \in KeyPair /\ viper \in KeyPair
      /\ announce \in [Reqs -> {"none", "look", "send", "done"}]
      /\ address \in [Reqs -> Keys \cup {None}]
      /\ current \in Keys \cup {None}
  BY NamesFacts DEF TypeInv, Types
<1>2. HandlerKeys(r) /\ CurrentKeys
  BY DEF KeyInv
<1>3. ASSUME ~Arrive(r), current' \in {current, r}, file' = file \/ put[r] = "config",
             put[r] = "answer" => current = r,
             put[r] = "assign" => wallets'[r].keys = KeysOf(r),
             put'[r] \in {"new", "done"} => put[r] = "answer",
             current' = r /\ current' # current => put[r] = "assign",
             \A n \in Names : n # r => wallets'[n] = wallets[n],
             wallets'[r].keys \in {wallets[r].keys, KeysOf(r)}
      PROVE  CurrentKeys'
  <2>1. r \in Handling /\ \A q \in Handling : q = r
    BY <1>3, PutHandling DEF QuietInv
  <2>2. ASSUME current' # None PROVE wallets'[current'].keys = KeysOf(current')
    <3>1. CASE current' # r
      BY <1>1, <1>2, <1>3, <2>2, <3>1, NamesFacts DEF CurrentKeys
    <3>2. CASE current' = r
      BY <1>1, <1>2, <1>3, <2>2, <3>2, NamesFacts DEF CurrentKeys
    <3> QED
      BY <3>1, <3>2
  <2>3. Handling' = {} /\ (\A q \in Reqs : put'[q] # "failed") => put[r] = "answer"
    BY <1>3 DEF Handling
  <2>4. put[r] = "answer" => file' = KeysOf(r) /\ current = r /\ current' = r
    BY <1>2, <1>3 DEF HandlerKeys
  <2> QED
    BY <2>2, <2>3, <2>4 DEF CurrentKeys
<1>4. CASE Arrive(r)
  <2>1. /\ UNCHANGED <<pays, wallets, current, disk, text, loops, config, viper, file, ctx,
                       address, announce, main>>
        /\ put'[r] = "vscan" /\ \A q \in Reqs : q # r => put'[q] = put[q]
    BY <1>4, StepPut DEF Arrive, start, store, conf
  <2>2. \A q \in Reqs : HandlerKeys(q)'
    BY <2>1 DEF KeyInv, HandlerKeys
  <2>3. CurrentKeys'
    <3>1. r \in Handling'
      BY <2>1 DEF Handling
    <3> QED
      BY <1>2, <2>1, <3>1 DEF CurrentKeys
  <2>4. SecondKeys'
    BY <2>1 DEF KeyInv, SecondKeys
  <2>5. DiskKeys'
    BY <2>1 DEF KeyInv, DiskKeys
  <2>6. DataKeys'
    BY <2>1 DEF KeyInv, DataKeys, Mine
  <2> QED
    BY <2>2, <2>3, <2>4, <2>5, <2>6 DEF KeyInv
<1>13. CASE SetViperScanKey(r)
  <2>1. /\ put[r] = "vscan" /\ put'[r] = "vspend" /\ viper'.scan = r
        /\ UNCHANGED <<wallets, current, store, loops, config, file, address, announce, main>>
    BY <1>1, <1>13, StepPut DEF SetViperScanKey, start, KeyPair
  <2>2. ~Arrive(r)
    BY <2>1, StepPut DEF Arrive
  <2>3. HandlerKeys(r)' /\ CurrentKeys'
    BY <1>2, <1>3, <2>1, <2>2 DEF HandlerKeys
  <2> QED
    BY <2>1, <2>2, <2>3, HandlerSteps
<1>14. CASE SetViperSpendKey(r)
  <2>1. /\ put[r] = "vspend"
        /\ UNCHANGED <<wallets, current, store, loops, config, file, address, announce, main>>
        /\ \/ put'[r] = "scan" /\ viper' = [viper EXCEPT !.spend = r]
           \/ put'[r] = "failed" /\ viper' = viper
    BY <1>14, StepPut DEF SetViperSpendKey, start
  <2>2. put'[r] = "scan" => viper' = KeysOf(r)
    BY <1>1, <1>2, <2>1 DEF HandlerKeys, KeyPair, KeysOf
  <2>3. ~Arrive(r)
    BY <2>1, StepPut DEF Arrive
  <2>4. HandlerKeys(r)' /\ CurrentKeys'
    BY <1>2, <1>3, <2>1, <2>2, <2>3 DEF HandlerKeys
  <2> QED
    BY <2>1, <2>3, <2>4, HandlerSteps
<1>5. CASE SetScanKey(r)
  <2>1. /\ put[r] = "scan" /\ put'[r] = "spend" /\ config'.scan = r
        /\ UNCHANGED <<wallets, current, store, loops, viper, file, address, announce, main>>
    BY <1>1, <1>5, StepPut DEF SetScanKey, start, KeyPair
  <2>2. ~Arrive(r)
    BY <2>1, StepPut DEF Arrive
  <2>3. HandlerKeys(r)' /\ CurrentKeys'
    BY <1>2, <1>3, <2>1, <2>2 DEF HandlerKeys
  <2> QED
    BY <2>1, <2>2, <2>3, HandlerSteps
<1>6. CASE SetSpendKey(r)
  <2>1. /\ put[r] = "spend" /\ put'[r] = "config" /\ config' = [config EXCEPT !.spend = r]
        /\ UNCHANGED <<wallets, current, store, loops, viper, file, address, announce, main>>
    BY <1>6, StepPut DEF SetSpendKey, start
  <2>2. config' = KeysOf(r)
    BY <1>1, <1>2, <2>1 DEF HandlerKeys, KeyPair, KeysOf
  <2>3. ~Arrive(r)
    BY <2>1, StepPut DEF Arrive
  <2>4. HandlerKeys(r)' /\ CurrentKeys'
    BY <1>2, <1>3, <2>1, <2>2, <2>3 DEF HandlerKeys
  <2> QED
    BY <2>1, <2>3, <2>4, HandlerSteps
<1>7. CASE WriteConfig(r)
  <2>1. /\ put[r] = "config"
        /\ UNCHANGED <<wallets, current, store, loops, config, viper, address, main>>
        /\ \/ /\ put'[r] = "setup" /\ file' = viper
              /\ announce' = [announce EXCEPT ![r] = "look"]
           \/ /\ put'[r] = "failed" /\ UNCHANGED <<file, announce>>
    BY <1>7, StepPut DEF WriteConfig
  <2>2. config = KeysOf(r) /\ viper = KeysOf(r)
    BY <1>2, <2>1 DEF HandlerKeys
  <2>3. ~Arrive(r)
    BY <2>1, StepPut DEF Arrive
  <2>4. HandlerKeys(r)' /\ CurrentKeys'
    BY <1>2, <1>3, <2>1, <2>2, <2>3 DEF HandlerKeys
  <2> QED
    BY <2>1, <2>2, <2>3, <2>4, HandlerSteps
<1>8. CASE SetupWallet(r)
  <2>1. /\ put[r] = "setup"
        /\ UNCHANGED <<current, store, loops, config, viper, file, address, announce, main>>
        /\ \/ /\ put'[r] = "cancel" /\ wallets' = [wallets EXCEPT ![r] = NewWallet(config)]
           \/ /\ put'[r] = "failed" /\ wallets' = wallets
    BY <1>8, StepPut DEF SetupWallet, start, conf
  <2>2. config = KeysOf(r) /\ file = KeysOf(r)
    BY <1>2, <2>1 DEF HandlerKeys
  <2>3. ~Arrive(r)
    BY <2>1, StepPut DEF Arrive
  <2>4. /\ \A n \in Names : n # r => wallets'[n] = wallets[n]
        /\ put'[r] = "cancel" => wallets'[r].keys = KeysOf(r)
        /\ wallets'[r].keys \in {wallets[r].keys, KeysOf(r)}
    BY <1>1, <2>1, <2>2 DEF NewWallet
  <2>5. HandlerKeys(r)' /\ CurrentKeys'
    BY <1>2, <1>3, <2>1, <2>2, <2>3, <2>4 DEF HandlerKeys
  <2> QED
    BY <1>1, <2>1, <2>3, <2>4, <2>5, HandlerSteps
<1>9. CASE Cancel(r)
  <2>1. /\ put[r] = "cancel" /\ put'[r] = "remove"
        /\ UNCHANGED <<wallets, current, store, loops, config, viper, file, address, announce, main>>
    BY <1>9, StepPut DEF Cancel, start, conf
  <2>2. ~Arrive(r)
    BY <2>1, StepPut DEF Arrive
  <2>3. HandlerKeys(r)' /\ CurrentKeys'
    BY <1>2, <1>3, <2>1, <2>2 DEF HandlerKeys
  <2> QED
    BY <2>1, <2>2, <2>3, HandlerSteps
<1>10. CASE RemoveFile(r)
  <2>1. /\ put[r] = "remove"
        /\ UNCHANGED <<wallets, current, config, viper, file, address, announce, main>>
        /\ \/ put'[r] = "assign" /\ disk' = {}
           \/ put'[r] = "failed" /\ UNCHANGED store
    BY <1>10, StepPut DEF RemoveFile, start, conf
  <2>2. ~Arrive(r)
    BY <2>1, StepPut DEF Arrive
  <2>3. HandlerKeys(r)' /\ CurrentKeys'
    BY <1>2, <1>3, <2>1, <2>2 DEF HandlerKeys
  <2> QED
    BY <1>1, <1>10, <2>1, <2>2, <2>3, HandlerSteps, RemoveLoops
<1>11. CASE AssignWallet(r)
  <2>1. /\ put[r] = "assign" /\ put'[r] = "answer" /\ current' = r
        /\ UNCHANGED <<wallets, store, config, viper, file, address, announce, main>>
        /\ Set(r, [NoLoop EXCEPT !.pc = "delayed"])
    BY <1>11, StepPut DEF AssignWallet, start, conf
  <2>2. \A l \in Names : IF l = r THEN loops'[l].data = {} ELSE loops'[l] = loops[l]
    BY <1>1, <2>1 DEF Set, NoLoop
  <2>3. ~Arrive(r)
    BY <2>1, StepPut DEF Arrive
  <2>4. HandlerKeys(r)' /\ CurrentKeys'
    BY <1>2, <1>3, <2>1, <2>3 DEF HandlerKeys
  <2> QED
    BY <1>1, <2>1, <2>2, <2>3, <2>4, HandlerSteps
<1>12. CASE AnswerAddress(r)
  <2>1. /\ put[r] = "answer" /\ put'[r] \in {"done", "failed"}
        /\ \/ address' = [address EXCEPT ![r] = wallets[current].keys.scan]
           \/ address' = address
        /\ UNCHANGED <<wallets, current, store, loops, config, viper, file, announce, main>>
    BY <1>12, StepPut DEF AnswerAddress, start, conf
  <2>2. current = r /\ wallets[r].keys = KeysOf(r)
    BY <1>2, <2>1 DEF HandlerKeys
  <2>3. \A q \in Reqs : address'[q] = address[q] \/ (q = r /\ address'[q] = r)
    BY <1>1, <2>1, <2>2 DEF KeysOf
  <2>4. ~Arrive(r)
    BY <2>1, StepPut DEF Arrive
  <2>5. HandlerKeys(r)' /\ CurrentKeys'
    BY <1>2, <1>3, <2>1, <2>2, <2>3, <2>4 DEF HandlerKeys
  <2> QED
    BY <2>1, <2>3, <2>4, <2>5, HandlerSteps
<1> QED
  BY <1>4, <1>5, <1>6, <1>7, <1>8, <1>9, <1>10, <1>11, <1>12, <1>13,
     <1>14 DEF Put

\* The second daemon loads the wallet file, or makes a wallet of the globals.
LEMMA MainKeys ==
  ASSUME TypeInv, KeyInv, NEW ok \in BOOLEAN, SetupDaemon(ok)
  PROVE  KeyInv'
<1>1. /\ wallets \in [Names -> Wallet] /\ loops \in [Names -> Loop]
      /\ config \in KeyPair /\ current \in Keys \cup {None}
      /\ main = "setup" /\ UNCHANGED <<current, disk, text, config, viper, file, address>>
  BY DEF SetupDaemon, TypeInv, Types, store, conf
<1>2. loops[Second].pc = "none"
  BY <1>1 DEF KeyInv, SecondKeys
<1>3. \A w \in disk : \/ /\ w = ZeroWallet
                         /\ text = "whole" => /\ current = None
                                              /\ \A r \in Reqs : put[r] \notin
                                                                  {"assign", "answer"}
                      \/ /\ current # None /\ w.keys = KeysOf(current)
                         /\ \A r \in Reqs : put[r] \notin {"assign", "answer"}
  BY <1>2 DEF KeyInv, DiskKeys
<1>4. CASE ok /\ text = "whole"
  <2>1. /\ wallets' = [wallets EXCEPT ![Second] = Load(config)]
        /\ Set(Second, [NoLoop EXCEPT !.pc = "top"])
        /\ main' = "running" /\ UNCHANGED <<put, announce>>
    BY <1>4 DEF SetupDaemon
  <2>2. /\ \A l \in Names : /\ l # Second => loops'[l] = loops[l] /\ wallets'[l] = wallets[l]
                            /\ l = Second => loops'[l].data = {}
        /\ loops'[Second].pc = "top" /\ wallets'[Second] = Load(config)
    BY <1>1, <2>1, NamesFacts DEF Set, NoLoop
  <2>4. Handling' = Handling
    BY <2>1 DEF Handling
  <2>5. \A r \in Reqs : HandlerKeys(r)'
    BY <1>1, <2>1, <2>2, NamesFacts DEF KeyInv, HandlerKeys
  <2>6. CurrentKeys'
    BY <1>1, <2>1, <2>2, <2>4, NamesFacts DEF KeyInv, CurrentKeys
  <2>7. SecondKeys'
    BY <2>1 DEF SecondKeys
  <2>8. DiskKeys'
    BY <1>1, <1>3, <2>1 DEF DiskKeys
  <2>9. DataKeys'
    <3>1. ASSUME NEW l \in Names, NEW w \in loops'[l].data
          PROVE  loops'[l].pc = "fill" /\ w.keys = wallets'[Mine(l)].keys
      <4>1. /\ l # Second /\ loops'[l] = loops[l] /\ loops[l].pc = "fill"
            /\ w.keys = wallets[Mine(l)].keys
        BY <2>2, <3>1 DEF KeyInv, DataKeys
      <4>2. Mine(l) \in Names /\ Mine(l) # Second
        BY <1>1, <4>1, MineTypes, NamesFacts DEF Names
      <4> QED
        BY <2>2, <4>1, <4>2
    <3>2. \A l \in Names : Mine(l)' = Mine(l)
      BY <1>1 DEF Mine
    <3> QED
      BY <3>1, <3>2 DEF DataKeys
  <2> QED
    BY <2>5, <2>6, <2>7, <2>8, <2>9 DEF KeyInv
<1>5. CASE ~(ok /\ text = "whole")
  <2>1. Panic /\ UNCHANGED wallets
    BY <1>5 DEF SetupDaemon
  <2>2. /\ \A l \in Names : loops'[l].data = {} /\ loops'[l].pc = "none"
        /\ main' = "down" /\ \A r \in Reqs : announce'[r] = "done"
    BY <2>1, NoLoopTypes DEF Panic
  <2>3. \A r \in Reqs : /\ put'[r] \in {"new", "done", "failed"}
                        /\ r \in Handling => put'[r] = "failed"
                        /\ r \notin Handling => put'[r] = put[r]
    BY <2>1 DEF Panic, Handling
  <2>4. \A r \in Reqs : HandlerKeys(r)'
    BY <1>1, <2>3 DEF KeyInv, HandlerKeys
  <2>5. CurrentKeys'
    BY <1>1, <2>1, <2>3 DEF KeyInv, CurrentKeys, Handling
  <2>6. SecondKeys'
    BY <2>2 DEF SecondKeys
  <2>7. DiskKeys'
    BY <1>1, <1>3, <2>3 DEF DiskKeys
  <2>8. DataKeys'
    BY <2>2 DEF DataKeys
  <2> QED
    BY <2>4, <2>5, <2>6, <2>7, <2>8 DEF KeyInv
<1> QED
  BY <1>4, <1>5

LEMMA KeyStep ==
  ASSUME Quiet, TypeInv, QuietInv, KeyInv, [Next]_vars
  PROVE  KeyInv'
<1>1. ASSUME UNCHANGED <<wallets, current, store, loops, server>>, SecondKeys'
      PROVE  KeyInv'
  <2>1. \A r \in Reqs : HandlerKeys(r)'
    BY <1>1 DEF KeyInv, HandlerKeys, server, conf
  <2>2. CurrentKeys'
    BY <1>1 DEF KeyInv, CurrentKeys, server, conf, Handling
  <2>3. DiskKeys'
    BY <1>1 DEF KeyInv, DiskKeys, server, store
  <2>4. DataKeys'
    BY <1>1 DEF KeyInv, DataKeys, Mine
  <2> QED
    BY <1>1, <2>1, <2>2, <2>3, <2>4 DEF KeyInv
<1>2. ASSUME NEW r \in Reqs, Announce(r)
      PROVE  KeyInv'
  <2>1. /\ UNCHANGED <<wallets, current, store, loops, server>>
        /\ main' = main \/ (main = "waiting" /\ main' = "setup")
    BY <1>2 DEF Announce, LookForWallet, KeysReady
  <2>2. SecondKeys'
    BY <2>1 DEF KeyInv, SecondKeys
  <2> QED
    BY <1>1, <2>1, <2>2
<1>3. CASE UNCHANGED vars
  <2>1. SecondKeys'
    BY <1>3 DEF KeyInv, SecondKeys, vars, start
  <2> QED
    BY <1>1, <1>3, <2>1 DEF vars
<1> QED
  BY <1>2, <1>3, ScanKeys, PutKeys, MainKeys DEF Next

LEMMA KeyInit == Init => KeyInv
<1> SUFFICES ASSUME Init PROVE KeyInv
  OBVIOUS
<1>1. \A r \in Reqs : HandlerKeys(r)
  BY DEF Init, HandlerKeys
<1>2. current = None \/ /\ current = Boot /\ main = "running"
                        /\ config = KeysOf(Boot) /\ wallets[Boot].keys = KeysOf(Boot)
                        /\ disk \in {{}, {NewWallet(config)}}
  <2>1. CASE StartWithKeys
    BY <2>1, NamesFacts DEF Init, StartWithKeys, NewWallet
  <2>2. CASE StartWithoutKeys
    BY <2>2 DEF StartWithoutKeys
  <2> QED
    BY <2>1, <2>2 DEF Init
<1>3. CurrentKeys
  BY <1>2 DEF Init, CurrentKeys
<1>4. \A l \in Names : /\ loops[l].data = {}
                       /\ l # Boot => loops[l].pc = "none"
  <2>1. CASE StartWithKeys
    BY <2>1, NoLoopTypes DEF StartWithKeys, NoLoop
  <2>2. CASE StartWithoutKeys
    BY <2>2, NoLoopTypes DEF StartWithoutKeys
  <2> QED
    BY <2>1, <2>2 DEF Init
<1>5. SecondKeys
  BY <1>4, NamesFacts DEF SecondKeys
<1>6. DiskKeys
  <2>1. \A w \in disk : \/ w = ZeroWallet /\ current = None
                        \/ current = Boot /\ w.keys = KeysOf(Boot)
    BY DEF Init, StartWithKeys, StartWithoutKeys, NewWallet
  <2> QED
    BY <2>1, NamesFacts DEF Init, DiskKeys
<1>7. DataKeys
  BY <1>4 DEF DataKeys
<1> QED
  BY <1>1, <1>3, <1>5, <1>6, <1>7 DEF KeyInv

LEMMA KeyCorrect == Quiet => (Spec => [](TypeInv /\ QuietInv /\ KeyInv))
<1> SUFFICES ASSUME Quiet PROVE Spec => [](TypeInv /\ QuietInv /\ KeyInv)
  OBVIOUS
<1>1. Init => TypeInv /\ QuietInv /\ KeyInv
  BY TypeInit, SoundInit, KeyInit
<1>2. TypeInv /\ QuietInv /\ KeyInv /\ [Next]_vars => (TypeInv /\ QuietInv /\ KeyInv)'
  BY TypeStep, QuietStep, KeyStep
<1> QED
  BY <1>1, <1>2, PTL DEF Spec

\* A request is answered with the address of the keys it brought, never of others.
THEOREM OwnAddress == Quiet => (Spec => []AnswersOwnAddress)
<1>1. KeyInv => AnswersOwnAddress
  BY DEF KeyInv, HandlerKeys, AnswersOwnAddress
<1> QED
  BY <1>1, KeyCorrect, PTL

LEMMA AgreedKeys ==
  ASSUME TypeInv, KeyInv, SecondAgrees
  PROVE  RestartKeepsKeys
<1> SUFFICES ASSUME Handling = {}, \A r \in Reqs : put[r] # "failed", current # None,
                    text = "whole"
             PROVE  Loaded.keys = wallets[current].keys
  BY DEF RestartKeepsKeys
<1>1. wallets[current].keys = KeysOf(current) /\ file = KeysOf(current)
  BY DEF KeyInv, CurrentKeys
<1>2. file \in KeyPair /\ disk \subseteq Wallet /\ Single(disk)
  BY DEF TypeInv, Types
<1>3. CASE disk = {}
  BY <1>1, <1>2, <1>3, LoadTypes DEF Loaded, NewWallet
<1>4. CASE disk # {}
  <2>1. Loaded \in disk
    BY <1>2, <1>4, LoadTypes DEF Loaded
  <2>2. \A w \in disk : w.keys = wallets[current].keys
    BY <1>1 DEF KeyInv, DiskKeys, SecondAgrees
  <2> QED
    BY <2>1, <2>2
<1> QED
  BY <1>3, <1>4

\* A restart between requests continues with the keys in use, as long as the second
\* daemon, which no request reaches, has none of its own.  (That it may have is
\* shown by the run KeyResetSecondDaemon.)
THEOREM RestartKeeps == Quiet => (Spec => []OnlySecondReplacesKeys)
<1>1. TypeInv /\ KeyInv => OnlySecondReplacesKeys
  BY AgreedKeys DEF OnlySecondReplacesKeys
<1> QED
  BY <1>1, KeyCorrect, PTL

\* A process that is started with keys has no second daemon: a restart keeps the keys
\* of the last request, after any number of requests.
THEOREM StartedWithKeysKeeps == Quiet => (Spec /\ StartWithKeys => []RestartKeepsKeys)
<1> SUFFICES ASSUME Quiet PROVE Spec /\ StartWithKeys => []RestartKeepsKeys
  OBVIOUS
<1> DEFINE NoSecond == main \in {"running", "down"} /\ loops[Second].pc = "none"
<1>1. StartWithKeys => NoSecond
  BY NoLoopTypes, NamesFacts DEF StartWithKeys
<1>2. TypeInv /\ KeyInv /\ NoSecond /\ [Next]_vars => NoSecond'
  <2> SUFFICES ASSUME TypeInv, KeyInv, NoSecond, [Next]_vars PROVE NoSecond'
    OBVIOUS
  <2>1. ASSUME NEW r \in Reqs, Put(r)
        PROVE  NoSecond'
    <3>1. loops'[Second].pc = loops[Second].pc
      <4>1. CASE AssignWallet(r)
        BY <4>1, NamesFacts DEF AssignWallet, Set, TypeInv, Types
      <4>2. CASE loops' = loops
        BY <4>2
      <4> QED
        BY <2>1, <4>1, <4>2, RemoveLoops, NamesFacts DEF Put, Arrive,
           SetViperScanKey, SetViperSpendKey, SetScanKey, SetSpendKey, WriteConfig,
           SetupWallet, Cancel, AnswerAddress
    <3>2. main' = main
      BY <2>1 DEF Put, Arrive, SetViperScanKey, SetViperSpendKey, SetScanKey, SetSpendKey,
         WriteConfig, SetupWallet, Cancel, RemoveFile, AssignWallet, AnswerAddress, start
    <3> QED
      BY <3>1, <3>2
  <2>2. ASSUME NEW r \in Reqs, Announce(r)
        PROVE  NoSecond'
    BY <2>2 DEF Announce, LookForWallet, KeysReady
  <2>3. ASSUME NEW l \in Names, Scan(l) \/ Watch(l)
        PROVE  NoSecond'
    <3>1. /\ loops[l].pc # "none" /\ main' = main
          /\ \A m \in Names : m # l => loops'[m] = loops[m]
      BY <2>3, ScanWrites, ScanUnchanged DEF KeyInv
    <3> QED
      BY <3>1, NamesFacts
  <2>4. ~\E ok \in BOOLEAN : SetupDaemon(ok)
    BY DEF SetupDaemon
  <2>5. CASE UNCHANGED vars
    BY <2>5 DEF vars, start
  <2> QED
    BY <2>1, <2>2, <2>3, <2>4, <2>5 DEF Next
<1>3. TypeInv /\ KeyInv /\ NoSecond => RestartKeepsKeys
  BY AgreedKeys DEF SecondAgrees
<1> QED
  BY <1>1, <1>2, <1>3, KeyCorrect, PTL DEF Spec

-----------------------------------------------------------------------------
(* The announcement.                                                       *)

\* Only the last handler's goroutine announces keys, after that handler has stored
\* them; what it waits for is a main that waits too, unless another failed in vain.
Announcing(r) ==
  /\ announce[r] \in {"look", "send"} =>
       /\ Handling \subseteq {r}
       /\ \A q \in Reqs : q # r => announce[q] \in {"none", "done"}
       /\ put[r] \in {"setup", "cancel", "remove", "assign", "answer", "done", "failed"}
  /\ announce[r] = "send" => main = "waiting" \/ ReceivedForNothing(r)
  /\ put[r] \in {"answer", "done"} => current # None

\* When main has received and there is still no wallet, then from a handler that has
\* not come as far as the wallet, or never will.
Received ==
  /\ main \in {"setup", "running"} /\ current = None =>
       \E q \in Reqs : /\ announce[q] = "done"
                       /\ put[q] \in {"setup", "cancel", "remove", "assign", "failed"}
  /\ main = "down" => Handling = {} /\ \A r \in Reqs : announce[r] = "done"

AnnounceInv == Received /\ \A r \in Reqs : Announcing(r)

\* A step that leaves the handlers, the announcements, main and the wallet in use alone.
LEMMA AnnounceKept ==
  ASSUME AnnounceInv, UNCHANGED <<put, announce, main, current>>
  PROVE  AnnounceInv'
BY DEF AnnounceInv, Received, Announcing, ReceivedForNothing, Handling

LEMMA PutAnnounce ==
  ASSUME Quiet, TypeInv, QuietInv, AnnounceInv, NEW r \in Reqs, Put(r)
  PROVE  AnnounceInv'
<1>1. announce \in [Reqs -> {"none", "look", "send", "done"}] /\ r # None
  BY NamesFacts DEF TypeInv, Types
<1>2. CASE Arrive(r)
  <2>1. /\ UNCHANGED <<announce, main, current>> /\ main # "down"
        /\ put[r] = "new" /\ put'[r] = "vscan"
        /\ \A q \in Reqs : q # r => put'[q] = put[q]
        /\ \A q \in Reqs : announce[q] \in {"none", "done"}
    BY <1>2, StepPut DEF Arrive, start
  <2>2. Received'
    BY <2>1 DEF AnnounceInv, Received
  <2>3. \A q \in Reqs : Announcing(q)'
    BY <2>1 DEF AnnounceInv, Announcing
  <2> QED
    BY <2>2, <2>3 DEF AnnounceInv
<1>3. ASSUME ~Arrive(r)
      PROVE  /\ r \in Handling /\ main # "down" /\ main' = main
             /\ Handling' \subseteq Handling /\ \A q \in Handling : q = r
             /\ \A q \in Reqs : q # r => put'[q] = put[q]
             /\ \A q \in Reqs : q # r => announce[q] \in {"none", "done"}
  <2>1. r \in Handling /\ Handling' \subseteq Handling /\ \A q \in Handling : q = r
    BY <1>3, PutHandling DEF QuietInv
  <2>2. \E from, to : Step(r, from, to)
    BY DEF Put, Arrive, SetViperScanKey, SetViperSpendKey, SetScanKey, SetSpendKey,
       WriteConfig, SetupWallet, Cancel, RemoveFile, AssignWallet, AnswerAddress
  <2>3. main' = main
    BY DEF Put, Arrive, SetViperScanKey, SetViperSpendKey, SetScanKey, SetSpendKey,
       WriteConfig, SetupWallet, Cancel, RemoveFile, AssignWallet, AnswerAddress, start
  <2>4. \A q \in Reqs : q # r => announce[q] \in {"none", "done"}
    BY <1>1, <2>1 DEF AnnounceInv, Announcing
  <2>5. main # "down"
    BY <2>1 DEF AnnounceInv, Received
  <2> QED
    BY <2>1, <2>2, <2>3, <2>4, <2>5, StepPut
<1>4. CASE WriteConfig(r)
  <2>1. ~Arrive(r)
    BY <1>4, StepPut DEF Arrive, WriteConfig
  <2>2. /\ put[r] = "config" /\ current' = current
        /\ \/ put'[r] = "setup" /\ announce' = [announce EXCEPT ![r] = "look"]
           \/ put'[r] = "failed" /\ announce' = announce
    BY <1>4, StepPut DEF WriteConfig
  <2>3. announce[r] \in {"none", "done"}
    BY <1>1, <2>2 DEF AnnounceInv, Announcing
  <2>4. /\ \A q \in Reqs : q # r => announce'[q] = announce[q]
        /\ announce'[r] \in {"look", announce[r]}
        /\ announce'[r] = "look" => put'[r] = "setup"
    BY <1>1, <2>2, <2>3
  <2>5. Received'
    BY <1>3, <2>1, <2>2, <2>4 DEF AnnounceInv, Received
  <2>6. ASSUME NEW q \in Reqs PROVE Announcing(q)'
    <3>1. announce'[q] # "send"
      BY <1>3, <2>1, <2>3, <2>4
    <3>2. announce'[q] = "look" => q = r
      BY <1>3, <2>1, <2>4
    <3>3. put'[q] \in {"answer", "done"} => put[q] = put'[q]
      BY <1>3, <2>1, <2>2
    <3> QED
      BY <1>3, <2>1, <2>2, <2>4, <3>1, <3>2, <3>3 DEF AnnounceInv, Announcing
  <2> QED
    BY <2>5, <2>6 DEF AnnounceInv
<1>5. CASE ~Arrive(r) /\ ~WriteConfig(r)
  <2>1. /\ announce' = announce
        /\ \/ put[r] \in {"vscan", "vspend", "scan", "spend"} /\ current' = current
              /\ put'[r] \in {"vspend", "scan", "spend", "config", "failed"}
           \/ /\ put[r] \in {"setup", "cancel", "remove"} /\ current' = current
              /\ put'[r] \in {"cancel", "remove", "assign", "failed"}
           \/ put[r] = "assign" /\ put'[r] = "answer" /\ current' = r
           \/ /\ put[r] = "answer" /\ put'[r] \in {"done", "failed"}
              /\ current' = current
    BY <1>5, StepPut DEF Put, SetViperScanKey, SetViperSpendKey, SetScanKey, SetSpendKey,
       SetupWallet, Cancel, RemoveFile, AssignWallet, AnswerAddress, start
  <2>2. put[r] = "answer" => current # None
    BY DEF AnnounceInv, Announcing
  <2>3. Received'
    <3>1. CASE current' = None
      <4>1. \A q \in Reqs :
              put[q] \in {"setup", "cancel", "remove", "assign", "failed"}
                => put'[q] \in {"setup", "cancel", "remove", "assign", "failed"}
        BY <1>1, <1>3, <1>5, <2>1, <3>1
      <4>2. current = None
        BY <1>1, <2>1, <3>1
      <4> QED
        BY <1>3, <1>5, <2>1, <4>1, <4>2 DEF AnnounceInv, Received
    <3> QED
      BY <1>3, <1>5, <3>1 DEF Received
  <2>4. ASSUME NEW q \in Reqs PROVE Announcing(q)'
    <3>1. announce'[q] \in {"look", "send"} =>
            /\ Handling' \subseteq {q}
            /\ \A p \in Reqs : p # q => announce'[p] \in {"none", "done"}
            /\ put'[q] \in {"setup", "cancel", "remove", "assign", "answer", "done", "failed"}
      BY <1>3, <1>5, <2>1 DEF AnnounceInv, Announcing
    <3>2. ReceivedForNothing(q) => ReceivedForNothing(q)'
      BY <1>3, <1>5, <2>1 DEF ReceivedForNothing
    <3>3. put'[q] \in {"answer", "done"} => current' # None
      BY <1>1, <1>3, <1>5, <2>1, <2>2 DEF AnnounceInv, Announcing
    <3> QED
      BY <1>3, <1>5, <2>1, <3>1, <3>2, <3>3 DEF AnnounceInv, Announcing
  <2> QED
    BY <2>3, <2>4 DEF AnnounceInv
<1> QED
  BY <1>2, <1>4, <1>5

LEMMA LookAnnounce ==
  ASSUME TypeInv, AnnounceInv, NEW r \in Reqs, LookForWallet(r)
  PROVE  AnnounceInv'
<1>1. /\ announce \in [Reqs -> {"none", "look", "send", "done"}]
      /\ main \in {"waiting", "setup", "running", "down"}
  BY DEF TypeInv, Types
<1>2. /\ UNCHANGED <<put, main, current>> /\ announce[r] = "look"
      /\ announce' = [announce EXCEPT ![r] = IF current = None THEN "send" ELSE "done"]
  BY DEF LookForWallet, server
<1>3. /\ \A q \in Reqs : q # r => announce'[q] = announce[q]
      /\ announce'[r] = IF current = None THEN "send" ELSE "done"
  BY <1>1, <1>2
<1>4. Handling' = Handling
  BY <1>2 DEF Handling
<1>5. Received'
  BY <1>2, <1>3, <1>4 DEF AnnounceInv, Received
<1>6. /\ Handling \subseteq {r} /\ \A q \in Reqs : q # r => announce[q] \in {"none", "done"}
      /\ put[r] \in {"setup", "cancel", "remove", "assign", "answer", "done", "failed"}
  BY <1>2 DEF AnnounceInv, Announcing
<1>7. current = None => main = "waiting" \/ ReceivedForNothing(r)'
  <2> SUFFICES ASSUME current = None, main # "waiting" PROVE ReceivedForNothing(r)'
    OBVIOUS
  <2>1. main \in {"setup", "running"}
    BY <1>1, <1>2 DEF AnnounceInv, Received
  <2>2. PICK q \in Reqs : /\ announce[q] = "done"
                          /\ put[q] \in {"setup", "cancel", "remove", "assign", "failed"}
    BY <2>1 DEF AnnounceInv, Received
  <2>3. q # r /\ put[q] = "failed"
    BY <1>2, <1>6, <2>2 DEF Handling
  <2> QED
    BY <1>2, <1>3, <2>2, <2>3 DEF ReceivedForNothing
<1>8. \A q \in Reqs : Announcing(q)'
  BY <1>2, <1>3, <1>4, <1>6, <1>7 DEF AnnounceInv, Announcing
<1> QED
  BY <1>5, <1>8 DEF AnnounceInv

LEMMA ReadyAnnounce ==
  ASSUME TypeInv, AnnounceInv, NEW r \in Reqs, KeysReady(r)
  PROVE  AnnounceInv'
<1>1. announce \in [Reqs -> {"none", "look", "send", "done"}]
  BY DEF TypeInv, Types
<1>2. /\ UNCHANGED <<put, current>> /\ announce[r] = "send" /\ main' = "setup"
      /\ announce' = [announce EXCEPT ![r] = "done"]
  BY DEF KeysReady, server
<1>3. \A q \in Reqs : announce'[q] \in {"none", "done"}
  BY <1>1, <1>2 DEF AnnounceInv, Announcing
<1>4. Received'
  BY <1>1, <1>2 DEF AnnounceInv, Received, Announcing
<1>5. \A q \in Reqs : Announcing(q)'
  BY <1>2, <1>3 DEF AnnounceInv, Announcing
<1> QED
  BY <1>4, <1>5 DEF AnnounceInv

LEMMA MainAnnounce ==
  ASSUME TypeInv, AnnounceInv, NEW ok \in BOOLEAN, SetupDaemon(ok)
  PROVE  AnnounceInv'
<1>1. CASE ok /\ text = "whole"
  <2>1. /\ UNCHANGED <<put, announce, current>>
        /\ main = "setup" /\ main' = "running"
    BY <1>1 DEF SetupDaemon
  <2> QED
    BY <2>1 DEF AnnounceInv, Received, Announcing, ReceivedForNothing, Handling
<1>2. CASE ~(ok /\ text = "whole")
  <2>1. /\ main' = "down" /\ \A q \in Reqs : announce'[q] = "done"
        /\ \A q \in Reqs : put'[q] = IF q \in Handling THEN "failed" ELSE put[q]
        /\ current' = current
    BY <1>2 DEF SetupDaemon, Panic
  <2>2. \A q \in Reqs : put'[q] \in {"new", "done", "failed"}
    BY <2>1 DEF Handling
  <2>3. Received'
    BY <2>1, <2>2 DEF Received, Handling
  <2>4. \A q \in Reqs : Announcing(q)'
    BY <2>1 DEF AnnounceInv, Announcing
  <2> QED
    BY <2>3, <2>4 DEF AnnounceInv
<1> QED
  BY <1>1, <1>2

LEMMA AnnounceInit == Init => AnnounceInv
<1> SUFFICES ASSUME Init PROVE AnnounceInv
  OBVIOUS
<1>1. \A r \in Reqs : put[r] = "new" /\ announce[r] = "none"
  BY DEF Init
<1>2. main \in {"waiting", "running"} /\ (main = "running" => current # None)
  BY NamesFacts DEF Init, StartWithKeys, StartWithoutKeys
<1> QED
  BY <1>1, <1>2 DEF AnnounceInv, Received, Announcing

\* The goroutine that announces keys finds main waiting, unless the announcement of a
\* request that failed was received before: for any number of requests.
THEOREM AnnouncementsMeet == Quiet => (Spec => []AnnouncementMet)
<1> SUFFICES ASSUME Quiet PROVE Spec => []AnnouncementMet
  OBVIOUS
<1>1. Init => TypeInv /\ QuietInv /\ AnnounceInv
  BY TypeInit, SoundInit, AnnounceInit
<1>2. TypeInv /\ QuietInv /\ AnnounceInv /\ [Next]_vars => AnnounceInv'
  <2> SUFFICES ASSUME TypeInv, QuietInv, AnnounceInv, [Next]_vars PROVE AnnounceInv'
    OBVIOUS
  <2>1. ASSUME NEW l \in Names, Scan(l) \/ Watch(l)
        PROVE  AnnounceInv'
    BY <2>1, ScanUnchanged, AnnounceKept
  <2>2. CASE UNCHANGED vars
    BY <2>2, AnnounceKept DEF vars, server, start
  <2> QED
    BY <2>1, <2>2, PutAnnounce, LookAnnounce, ReadyAnnounce, MainAnnounce DEF Next, Announce
<1>3. TypeInv /\ QuietInv /\ [Next]_vars => (TypeInv /\ QuietInv)'
  BY TypeStep, QuietStep
<1>4. AnnounceInv => AnnouncementMet
  BY DEF AnnounceInv, Announcing, AnnouncementMet
<1> QED
  BY <1>1, <1>2, <1>3, <1>4, PTL DEF Spec
=============================================================================
