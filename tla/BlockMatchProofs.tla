-------------------------- MODULE BlockMatchProofs --------------------------
(***************************************************************************)
(* What the maps of syncBlock find, in a block of any number of outputs,   *)
(* transactions, tweaks and labels: only outputs that the wallet's keys    *)
(* derive, and in a block of silent payments sent as BIP 352 has it        *)
(* exactly the payments.                                                   *)
(***************************************************************************)
EXTENDS BlockMatch, WellFoundedInduction, TLAPS

-----------------------------------------------------------------------------
(* The first and the last of some places.                                  *)

LEMMA MinFacts ==
  ASSUME NEW S \in SUBSET Nat, S # {}
  PROVE  Min(S) \in S /\ \A n \in S : Min(S) <= n
<1>1. PICK m \in S : \A n \in S : ~(<<n, m>> \in OpToRel(<, Nat))
  BY NatLessThanWellFounded, WFMin
<1>2. ASSUME NEW n \in S, n < m
      PROVE  FALSE
  <2>1. <<n, m>> \in Nat \X Nat
    OBVIOUS
  <2>2. <<n, m>>[1] < <<n, m>>[2]
    BY <1>2
  <2>3. <<n, m>> \in OpToRel(<, Nat)
    BY <2>1, <2>2, Zenon DEF OpToRel
  <2> QED
    BY <1>1, <2>3
<1>3. \A n \in S : m <= n
  BY <1>2
<1> QED
  BY <1>3 DEF Min

LEMMA MaxFacts ==
  ASSUME NEW len \in Nat, NEW S \in SUBSET (1..len), S # {}
  PROVE  Max(S) \in S /\ \A n \in S : n <= Max(S)
<1> DEFINE T == {len - n : n \in S}
<1>1. T \subseteq Nat /\ T # {}
  <2>1. \A n \in S : len - n \in Nat
    OBVIOUS
  <2>2. PICK n \in S : TRUE
    OBVIOUS
  <2> QED
    BY <2>1, <2>2
<1>2. PICK n \in S : Min(T) = len - n
  <2> HIDE DEF T
  <2>1. Min(T) \in T
    BY <1>1, MinFacts
  <2> QED
    BY <2>1 DEF T
<1>3. \A m \in S : len - n <= len - m
  <2>1. ASSUME NEW m \in S PROVE len - m \in T
    OBVIOUS
  <2> HIDE DEF T
  <2> QED
    BY <1>1, <1>2, <2>1, MinFacts
<1>4. \A m \in S : n >= m
  BY <1>3
<1>5. \E x \in S : \A y \in S : x >= y
  BY <1>4
<1>6. Max(S) \in S /\ \A y \in S : Max(S) >= y
  BY <1>5 DEF Max
<1> QED
  BY <1>6

-----------------------------------------------------------------------------
(* Outputs and scripts.                                                    *)

LEMMA OutputFacts ==
  ASSUME NEW utxos \in Seq(UTXOServed)
  PROVE  /\ \A n \in DOMAIN utxos : utxos[n] \in UTXOServed /\ utxos[n] \in ToSet(utxos)
         /\ \A u \in ToSet(utxos) : \E n \in DOMAIN utxos : u = utxos[n]
         /\ \A S \in SUBSET DOMAIN utxos : S # {} => Min(S) \in S /\ Max(S) \in S
<1>1. Len(utxos) \in Nat /\ DOMAIN utxos = 1..Len(utxos)
  OBVIOUS
<1>2. \A n \in DOMAIN utxos : utxos[n] \in UTXOServed /\ utxos[n] \in ToSet(utxos)
  BY <1>1 DEF ToSet
<1>3. \A u \in ToSet(utxos) : \E n \in DOMAIN utxos : u = utxos[n]
  BY DEF ToSet
<1>4. ASSUME NEW S \in SUBSET DOMAIN utxos, S # {}
      PROVE  Min(S) \in S /\ Max(S) \in S
  <2>1. S \in SUBSET Nat /\ S \in SUBSET (1..Len(utxos))
    BY <1>1
  <2> QED
    BY <1>1, <1>4, <2>1, MinFacts, MaxFacts
<1> QED
  BY <1>2, <1>3, <1>4

LEMMA ScriptFacts ==
  /\ Tweak(Foreign) = None
  /\ \A s \in Script : Tweak(s) # None =>
       /\ Tweak(s) \in Txids /\ K(s) \in 0..MaxK
       /\ K(s) = 0 => s \in tweakToScriptMap({Tweak(s)})
<1>1. Tweak(Foreign) = None
  BY DEF Tweak, Foreign
<1>2. ASSUME NEW s \in Script, Tweak(s) # None
      PROVE  \E t \in Txids, k \in 0..MaxK, l \in Labels \cup {None} : s = <<t, k, l>>
  BY <1>1, <1>2 DEF Script
<1>3. ASSUME NEW s \in Script, Tweak(s) # None
      PROVE  /\ Tweak(s) \in Txids /\ K(s) \in 0..MaxK
             /\ K(s) = 0 => s \in tweakToScriptMap({Tweak(s)})
  <2>1. PICK t \in Txids, k \in 0..MaxK, l \in Labels \cup {None} : s = <<t, k, l>>
    BY <1>2, <1>3
  <2>2. Tweak(s) = t /\ K(s) = k
    BY <2>1 DEF Tweak, K
  <2> QED
    BY <2>1, <2>2 DEF tweakToScriptMap
<1> QED
  BY <1>1, <1>3

\* Without tweaks there is nothing to look for.
LEMMA NoTweaks == \A tweaks : tweakToScriptMap(tweaks) = {} <=> tweaks = {}
<1>1. ASSUME NEW tweaks, NEW t \in tweaks
      PROVE  <<t, 0, None>> \in tweakToScriptMap(tweaks)
  BY DEF tweakToScriptMap
<1>2. tweakToScriptMap({}) = {}
  BY DEF tweakToScriptMap
<1> QED
  BY <1>1, <1>2

-----------------------------------------------------------------------------
(* Matching.                                                               *)

\* bip352 finds scripts that the tweak gives, and the loop after it an output of the
\* transaction with each of them.
LEMMA FindFacts ==
  ASSUME NEW utxos \in Seq(UTXOServed), NEW group \in SUBSET DOMAIN utxos, NEW t,
         NEW s \in ReceiverScanTransaction(utxos, group, t)
  PROVE  /\ Tweak(s) = t /\ K(s) \in 0..MaxK
         /\ \A j \in 0..K(s) : \E n \in group : /\ Tweak(utxos[n].script) = t
                                                /\ K(utxos[n].script) = j
         /\ \E n \in group : /\ utxos[n].script = s
                             /\ FindOutput(utxos, group, s) = utxos[n]
<1> DEFINE At(k) == {n \in group : Tweak(utxos[n].script) = t /\ K(utxos[n].script) = k}
<1>1. PICK k \in 0..MaxK : /\ \A j \in 0..k : At(j) # {}
                           /\ s = utxos[Min(At(k))].script
  BY DEF ReceiverScanTransaction
<1>2. k \in 0..k
  BY BlockMatchAssumption
<1>3. At(k) # {} /\ At(k) \in SUBSET DOMAIN utxos
  BY <1>1, <1>2
<1>4. Min(At(k)) \in At(k)
  <2> HIDE DEF At
  <2> QED
    BY <1>3, OutputFacts
<1>5. Tweak(s) = t /\ K(s) = k /\ Min(At(k)) \in group
  BY <1>1, <1>4
<1>6. With(utxos, group, s) # {} /\ With(utxos, group, s) \in SUBSET DOMAIN utxos
  BY <1>1, <1>5 DEF With
<1>7. Min(With(utxos, group, s)) \in With(utxos, group, s)
  BY <1>6, OutputFacts
<1> QED
  BY <1>1, <1>5, <1>7 DEF With, FindOutput

LEMMA FoundTweak ==
  ASSUME NEW utxos \in Seq(UTXOServed), NEW group \in SUBSET DOMAIN utxos, NEW t,
         NEW s \in ReceiverScanTransaction(utxos, group, t)
  PROVE  Tweak(s) = t
<1>1. /\ Tweak(s) = t /\ K(s) \in 0..MaxK
      /\ \A j \in 0..K(s) : \E n \in group : /\ Tweak(utxos[n].script) = t
                                             /\ K(utxos[n].script) = j
  BY FindFacts
<1> QED
  BY <1>1

\* A coin is an output of the transaction that the tweak's script stands for, and of
\* one of the tweaks.
LEMMA OwnedFacts ==
  ASSUME NEW block, IsBlock(block), NEW owned \in OwnedUTXOs(block)
  PROVE  \E txidOf \in tweaksOutputsToCheckMap(block) :
           owned = UNION {OwnedOf(block.utxos, txidGroup(block.utxos, txidOf[t]), t) :
                            t \in DOMAIN txidOf}
BY DEF OwnedUTXOs

LEMMA GroupFacts ==
  ASSUME NEW utxos, NEW txid
  PROVE  /\ txidGroup(utxos, txid) \in SUBSET DOMAIN utxos
         /\ \A n \in txidGroup(utxos, txid) : utxos[n].txid = txid
BY DEF txidGroup

\* In any block, however scripts are reused: a coin is an output of the block that a
\* tweak of the block gives the wallet.
THEOREM OwnedIsServed ==
  ASSUME NEW block, IsBlock(block), NEW owned \in OwnedUTXOs(block), NEW c \in owned
  PROVE  \E u \in ToSet(block.utxos) : c = Coin(u) /\ Tweak(u.script) \in block.tweaks
<1>1. PICK txidOf \in tweaksOutputsToCheckMap(block) :
        owned = UNION {OwnedOf(block.utxos, txidGroup(block.utxos, txidOf[t]), t) :
                         t \in DOMAIN txidOf}
  BY OwnedFacts
<1>2. PICK t \in DOMAIN txidOf : c \in OwnedOf(block.utxos, txidGroup(block.utxos, txidOf[t]), t)
  BY <1>1
<1> DEFINE utxos == block.utxos
           group == txidGroup(utxos, txidOf[t])
<1>3. t \in block.tweaks
  BY <1>1, <1>2 DEF tweaksOutputsToCheckMap
<1>4. utxos \in Seq(UTXOServed) /\ group \in SUBSET DOMAIN utxos
  BY GroupFacts DEF IsBlock
<1>5. PICK s \in ReceiverScanTransaction(utxos, group, t) : c = Coin(FindOutput(utxos, group, s))
  BY <1>2 DEF OwnedOf
<1> HIDE DEF utxos, group
<1>6. PICK n \in group : FindOutput(utxos, group, s) = utxos[n] /\ utxos[n].script = s
  BY <1>4, <1>5, FindFacts
<1>7. Tweak(s) = t
  BY <1>4, <1>5, FindFacts
<1>8. utxos[n] \in ToSet(utxos)
  BY <1>4, <1>6, OutputFacts
<1> QED
  BY <1>3, <1>5, <1>6, <1>7, <1>8 DEF utxos


\* A script is paid once, in the transaction of its tweak.
LEMMA ProtocolFacts ==
  ASSUME NEW block, IsBlock(block), FollowsProtocol(block),
         NEW m \in DOMAIN block.utxos, Tweak(block.utxos[m].script) # None
  PROVE  /\ Tweak(block.utxos[m].script) = block.utxos[m].txid
         /\ \A n \in DOMAIN block.utxos :
              /\ Tweak(block.utxos[n].script) = Tweak(block.utxos[m].script)
              /\ K(block.utxos[n].script) = K(block.utxos[m].script)
              => n = m
<1>1. block.utxos[m].script # Foreign
  BY ScriptFacts
<1> QED
  BY <1>1 DEF FollowsProtocol

LEMMA ProtocolTxid ==
  ASSUME NEW block, IsBlock(block), FollowsProtocol(block), NEW t \in block.tweaks,
         NEW txid \in TxidsOf(block, t)
  PROVE  txid = t
<1> DEFINE utxos == block.utxos
<1>1. PICK s \in Scripts(utxos) : Tweak(s) = t /\ txid = helperMapping(utxos)[s]
  BY DEF TxidsOf
<1>2. utxos \in Seq(UTXOServed) /\ t # None
  BY BlockMatchAssumption DEF IsBlock
<1>3. \E n \in DOMAIN utxos : utxos[n].script = s
  BY <1>1, <1>2, OutputFacts DEF Scripts
<1>4. With(utxos, DOMAIN utxos, s) # {} /\ With(utxos, DOMAIN utxos, s) \in SUBSET DOMAIN utxos
  BY <1>3 DEF With
<1>5. Max(With(utxos, DOMAIN utxos, s)) \in With(utxos, DOMAIN utxos, s)
  BY <1>2, <1>4, OutputFacts
<1>6. PICK n \in DOMAIN utxos : utxos[n].script = s /\ txid = utxos[n].txid
  BY <1>1, <1>5 DEF With, helperMapping
<1> QED
  BY <1>1, <1>2, <1>6, ProtocolFacts

\* In a block of silent payments as BIP 352 has them sent, whatever the order in which
\* Go goes through its maps: syncBlock returns the payments of the block, no more and
\* no less.
THEOREM OwnedIsPaid ==
  ASSUME NEW block, IsBlock(block), FollowsProtocol(block), NEW owned \in OwnedUTXOs(block)
  PROVE  owned = Payments(block)
<1> DEFINE utxos == block.utxos
           relevant == {t \in block.tweaks : TxidsOf(block, t) # {}}
<1>1. PICK txidOf \in tweaksOutputsToCheckMap(block) :
        owned = UNION {OwnedOf(block.utxos, txidGroup(block.utxos, txidOf[t]), t) :
                         t \in DOMAIN txidOf}
  BY OwnedFacts
<1>2. DOMAIN txidOf = relevant /\ \A t \in relevant : txidOf[t] = t
  <2>1. DOMAIN txidOf = relevant /\ \A t \in relevant : txidOf[t] \in TxidsOf(block, t)
    BY <1>1 DEF tweaksOutputsToCheckMap
  <2> QED
    BY <2>1, ProtocolTxid
<1>3. owned = UNION {OwnedOf(utxos, txidGroup(utxos, t), t) : t \in relevant}
  BY <1>1, <1>2
<1>4. utxos \in Seq(UTXOServed) /\ block.tweaks \subseteq Txids
  BY DEF IsBlock
<1>5. \A txid : txidGroup(utxos, txid) \in SUBSET DOMAIN utxos
  BY GroupFacts
<1>6. ASSUME NEW c \in owned
      PROVE  c \in Payments(block)
  <2>1. PICK t \in relevant : c \in OwnedOf(utxos, txidGroup(utxos, t), t)
    BY <1>3
  <2> DEFINE group == txidGroup(utxos, t)
  <2>2. PICK s \in ReceiverScanTransaction(utxos, group, t) : c = Coin(FindOutput(utxos, group, s))
    BY <2>1 DEF OwnedOf
  <2>0. group \in SUBSET DOMAIN utxos
    BY <1>5
  <2> HIDE DEF utxos, group
  <2>3. PICK n \in group : FindOutput(utxos, group, s) = utxos[n] /\ utxos[n].script = s
    BY <1>4, <2>0, <2>2, FindFacts
  <2>4. Tweak(s) = t
    BY <1>4, <2>0, <2>2, FoundTweak
  <2>7. \A j \in 0..K(s) : \E m \in group : /\ Tweak(utxos[m].script) = t
                                            /\ K(utxos[m].script) = j
    BY <1>4, <2>0, <2>2, FindFacts
  <2>5. \A m \in group : utxos[m].txid = t /\ utxos[m] \in ToSet(utxos)
    BY <1>4, <1>5, GroupFacts, OutputFacts DEF group
  <2>6. Pays(block, utxos[n])
    BY <2>3, <2>4, <2>5, <2>7 DEF Pays, utxos
  <2> QED
    BY <2>2, <2>3, <2>5, <2>6 DEF Payments, utxos
<1>7. ASSUME NEW c \in Payments(block)
      PROVE  c \in owned
  <2>1. PICK n \in DOMAIN utxos : c = Coin(utxos[n]) /\ Pays(block, utxos[n])
    BY <1>4, OutputFacts DEF Payments
  <2> DEFINE s == utxos[n].script
             t == utxos[n].txid
             group == txidGroup(utxos, t)
             At(k) == {m \in group : Tweak(utxos[m].script) = t /\ K(utxos[m].script) = k}
  <2>0. Min({n}) = n
    <3>1. {n} \in SUBSET DOMAIN utxos /\ {n} # {}
      OBVIOUS
    <3> HIDE DEF utxos
    <3>2. Min({n}) \in {n}
      BY <1>4, <3>1, OutputFacts
    <3> QED
      BY <3>2
  <2>2. Tweak(s) = t /\ t \in block.tweaks /\ t # None /\ s \in Script
    BY <1>4, <2>1, OutputFacts, BlockMatchAssumption DEF Pays, UTXOServed
  <2>3. K(s) \in 0..MaxK
    BY <2>2, ScriptFacts
  <2>4. \A j \in 0..K(s) : At(j) # {}
    <3>1. ASSUME NEW j \in 0..K(s) PROVE At(j) # {}
      <4>1. PICK v \in ToSet(utxos) : v.txid = t /\ Tweak(v.script) = t /\ K(v.script) = j
        BY <2>1, <3>1 DEF Pays
      <4>2. PICK m \in DOMAIN utxos : v = utxos[m]
        BY <1>4, OutputFacts
      <4> QED
        BY <4>1, <4>2 DEF txidGroup
    <3> QED
      BY <3>1
  <2>5. t \in relevant
    <3>1. 0 \in 0..K(s)
      BY <2>3, BlockMatchAssumption
    <3>2. PICK m \in DOMAIN utxos : Tweak(utxos[m].script) = t /\ K(utxos[m].script) = 0
      BY <1>5, <2>4, <3>1
    <3>3. utxos[m].script \in Script /\ utxos[m].script \in Scripts(utxos)
      BY <1>4, OutputFacts DEF UTXOServed, Scripts
    <3>4. utxos[m].script \in tweakToScriptMap({t})
      BY <2>2, <3>2, <3>3, ScriptFacts
    <3>5. utxos[m].script \in tweakToScriptMap(block.tweaks)
      BY <2>2, <3>4 DEF tweakToScriptMap
    <3> QED
      BY <2>2, <3>2, <3>3, <3>5 DEF TxidsOf
  <2>6. \A m \in group : Tweak(utxos[m].script) = t /\ K(utxos[m].script) = K(s) => m = n
    BY <1>5, <2>1, <2>2, ProtocolFacts
  <2>7. n \in group
    BY DEF txidGroup
  <2>8. s \in ReceiverScanTransaction(utxos, group, t)
    <3>1. At(K(s)) = {n}
      BY <2>2, <2>6, <2>7
    <3>2. Min(At(K(s))) = n
      BY <2>0, <3>1
    <3> QED
      BY <2>3, <2>4, <3>2 DEF ReceiverScanTransaction
  <2>9. FindOutput(utxos, group, s) = utxos[n]
    <3>1. With(utxos, group, s) = {n}
      BY <2>2, <2>6, <2>7 DEF With
    <3> QED
      BY <2>0, <3>1 DEF FindOutput
  <2>10. c \in OwnedOf(utxos, group, t)
    BY <2>1, <2>8, <2>9 DEF OwnedOf
  <2> QED
    BY <1>3, <2>5, <2>10
<1> QED
  BY <1>6, <1>7
=============================================================================
