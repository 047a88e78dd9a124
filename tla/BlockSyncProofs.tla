--------------------------- MODULE BlockSyncProofs ---------------------------
(***************************************************************************)
(* What holds of the scan of one block and the flush beside it, for blocks *)
(* of any outputs, tweaks and spends, and through any number of retries,   *)
(* rescans and restarts.                                                   *)
(***************************************************************************)
EXTENDS BlockSync, BlockMatchProofs

\* What the keys can spend in the block.
OwnKeys == {Outpoint(u) : u \in {v \in ToSet(block.utxos) : Tweak(v.script) \in block.tweaks}}

Coins == [key : OwnKeys \cup {OldKey}, state : {"unspent", "unconfirmed_spent", "spent"}]

Wallets == [last : 0..1, utxos : Seq(Coins), mapping : SUBSET (OwnKeys \cup {OldKey})]

(* TypeOK and OwnOutputsOnly: not of the loop's wallet alone, but of every   *)
(* copy that a restart may load, and of the coins on their way to it.       *)
TypeInv ==
  /\ block \in Blocks
  /\ wallet \in Wallets /\ file \in Wallets /\ data \in Wallets /\ copy \in Wallets
  /\ pc \in {"idle", "mark", "index", "tweaks", "utxos", "add", "map", "height",
             "save", "fill", "waiting"}
  /\ todo \subseteq [key : OwnKeys, state : {"unspent", "spent"}]
  /\ flush \in {"none", "height", "utxos", "mapping", "truncate", "fill", "exit"}
  /\ missed \in BOOLEAN /\ skewed \in BOOLEAN

Distinct(utxos) == \A m, n \in DOMAIN utxos : utxos[m].key = utxos[n].key => m = n

Settled(w) == Distinct(w.utxos) /\ Keys(w.utxos) = w.mapping

\* Between the two assignments of AddUTXOs the mapping lacks the last coin.
Entering(w) ==
  /\ w.utxos # <<>>
  /\ Distinct(w.utxos)
  /\ Keys(w.utxos) = w.mapping \cup {w.utxos[Len(w.utxos)].key}

(* NoCoinTwice: the mapping is that of the coins.                            *)
OnceInv ==
  ~skewed =>
    /\ pc # "map" => Settled(wallet)
    /\ pc = "map" => Entering(wallet)
    /\ Distinct(file.utxos) /\ Distinct(data.utxos) /\ Distinct(copy.utxos)

PaidKeys == {c.key : c \in Payments(block)}

Pending == {c.key : c \in todo}

(* The height that the flush has read is that of the wallet whose coins it   *)
(* reads next.                                                              *)
FlushInv == flush = "utxos" /\ copy.last = 1 => wallet.last = 1

(* PaymentsFound: what is not in the wallet is on its way to it.             *)
FoundInv ==
  FollowsProtocol(block) /\ ~skewed =>
    /\ pc \in {"add", "map"} => PaidKeys \subseteq Keys(wallet.utxos) \cup Pending
    /\ pc = "height" \/ wallet.last = 1 => Complete(wallet)
    /\ file.last = 1 => Complete(file)
    /\ data.last = 1 => Complete(data)
    /\ flush \in {"mapping", "truncate", "fill"} /\ copy.last = 1 => Complete(copy)

\* Where the loop has dealt with the spends of the block.
Matched == {"tweaks", "utxos", "add", "map", "height"}

(* SpendsMarked: once past the index, the loop adds no coin but as the       *)
(* block leaves it.                                                         *)
SpentInv ==
  /\ \A c \in todo : c.key \in block.spends => c.state = "spent"
  /\ ~missed =>
       /\ pc \in Matched \/ wallet.last = 1 => SpendsSeen(wallet)
       /\ file.last = 1 => SpendsSeen(file)
       /\ data.last = 1 => SpendsSeen(data)
       /\ flush \in {"mapping", "truncate", "fill"} /\ copy.last = 1 => SpendsSeen(copy)

-----------------------------------------------------------------------------
(* A list of coins grows at its end, and its coins are marked in place.      *)

LEMMA ListFacts ==
  ASSUME NEW S, NEW utxos \in Seq(S)
  PROVE  /\ Len(utxos) \in Nat /\ DOMAIN utxos = 1..Len(utxos)
         /\ \A n \in DOMAIN utxos : utxos[n] \in S /\ utxos[n] \in ToSet(utxos)
         /\ \A c \in ToSet(utxos) : c \in S /\ \E n \in DOMAIN utxos : c = utxos[n]
<1>1. Len(utxos) \in Nat /\ DOMAIN utxos = 1..Len(utxos)
  OBVIOUS
<1>2. \A n \in DOMAIN utxos : utxos[n] \in S /\ utxos[n] \in ToSet(utxos)
  BY <1>1 DEF ToSet
<1>3. \A c \in ToSet(utxos) : \E n \in DOMAIN utxos : c = utxos[n]
  BY DEF ToSet
<1> QED
  BY <1>1, <1>2, <1>3

LEMMA AppendFacts ==
  ASSUME NEW S, NEW utxos \in Seq(S), NEW c \in S
  PROVE  /\ Append(utxos, c) \in Seq(S)
         /\ ToSet(Append(utxos, c)) = ToSet(utxos) \cup {c}
         /\ Keys(Append(utxos, c)) = Keys(utxos) \cup {c.key}
         /\ Append(utxos, c) # <<>>
         /\ Append(utxos, c)[Len(Append(utxos, c))] = c
         /\ Distinct(utxos) /\ c.key \notin Keys(utxos) => Distinct(Append(utxos, c))
<1> DEFINE more == Append(utxos, c)
<1>1. /\ more \in Seq(S)
      /\ Len(more) = Len(utxos) + 1
      /\ \A n \in 1..Len(utxos) : more[n] = utxos[n]
      /\ more[Len(utxos) + 1] = c
  OBVIOUS
<1>2. Len(utxos) \in Nat /\ DOMAIN utxos = 1..Len(utxos) /\ DOMAIN more = 1..(Len(utxos) + 1)
  BY <1>1
<1> HIDE DEF more
<1>3. ToSet(more) = ToSet(utxos) \cup {c}
  <2>1. ASSUME NEW d \in ToSet(more) PROVE d \in ToSet(utxos) \cup {c}
    <3>1. PICK n \in DOMAIN more : d = more[n]
      BY DEF ToSet
    <3>2. CASE n = Len(utxos) + 1
      BY <1>1, <3>1, <3>2
    <3>3. CASE n # Len(utxos) + 1
      <4>1. n \in 1..Len(utxos)
        BY <1>2, <3>3
      <4> QED
        BY <1>1, <1>2, <3>1, <4>1 DEF ToSet
    <3> QED
      BY <3>2, <3>3
  <2>2. ASSUME NEW n \in DOMAIN utxos PROVE utxos[n] \in ToSet(more)
    <3>1. n \in DOMAIN more /\ more[n] = utxos[n]
      BY <1>1, <1>2
    <3> QED
      BY <3>1 DEF ToSet
  <2>3. c \in ToSet(more)
    <3>1. Len(utxos) + 1 \in DOMAIN more
      BY <1>2
    <3> QED
      BY <1>1, <3>1 DEF ToSet
  <2>4. \A d \in ToSet(utxos) : \E n \in DOMAIN utxos : d = utxos[n]
    BY DEF ToSet
  <2> QED
    BY <2>1, <2>2, <2>3, <2>4
<1>4. Keys(more) = Keys(utxos) \cup {c.key}
  BY <1>3 DEF Keys
<1>5. more # <<>>
  BY <1>1, <1>2
<1>6. more[Len(more)] = c
  BY <1>1
<1>7. ASSUME Distinct(utxos), c.key \notin Keys(utxos)
      PROVE  Distinct(more)
  <2>1. \A n \in DOMAIN utxos : utxos[n].key \in Keys(utxos)
    BY ListFacts DEF Keys
  <2> SUFFICES ASSUME NEW m \in DOMAIN more, NEW n \in DOMAIN more, more[m].key = more[n].key
               PROVE  m = n
    BY DEF Distinct
  <2>2. \A k \in DOMAIN more : k = Len(utxos) + 1 \/ (k \in DOMAIN utxos /\ more[k] = utxos[k])
    BY <1>1, <1>2
  <2> QED
    BY <1>1, <1>7, <2>1, <2>2 DEF Distinct
<1> QED
  BY <1>1, <1>3, <1>4, <1>5, <1>6, <1>7 DEF more

LEMMA MarkFacts ==
  ASSUME NEW utxos \in Seq(Coins), NEW keys
  PROVE  /\ MarkSpent(utxos, keys) \in Seq(Coins)
         /\ Keys(MarkSpent(utxos, keys)) = Keys(utxos)
         /\ Distinct(utxos) => Distinct(MarkSpent(utxos, keys))
         /\ \A c \in ToSet(MarkSpent(utxos, keys)) :
              c.state = "spent" \/ (c \in ToSet(utxos) /\ c.key \notin keys)
<1> DEFINE marked == MarkSpent(utxos, keys)
           Mark(d) == IF d.key \in keys THEN [d EXCEPT !.state = "spent"] ELSE d
<1>1. /\ Len(utxos) \in Nat /\ DOMAIN utxos = 1..Len(utxos)
      /\ \A n \in 1..Len(utxos) : utxos[n] \in Coins
  OBVIOUS
<1>2. marked = [n \in 1..Len(utxos) |-> Mark(utxos[n])]
  BY <1>1 DEF MarkSpent
<1>3. \A d \in Coins : /\ Mark(d) \in Coins /\ Mark(d).key = d.key
                       /\ Mark(d).state = "spent" \/ (Mark(d) = d /\ d.key \notin keys)
  BY DEF Coins
<1> HIDE DEF marked, Mark
<1>4. marked \in Seq(Coins) /\ DOMAIN marked = DOMAIN utxos
  BY <1>1, <1>2, <1>3
<1>5. \A n \in DOMAIN utxos : /\ marked[n].key = utxos[n].key
                              /\ marked[n].state = "spent"
                                 \/ (marked[n] = utxos[n] /\ utxos[n].key \notin keys)
  BY <1>1, <1>2, <1>3
<1>6. /\ \A n \in DOMAIN utxos : utxos[n] \in ToSet(utxos) /\ marked[n] \in ToSet(marked)
      /\ \A c \in ToSet(utxos) : \E n \in DOMAIN utxos : c = utxos[n]
      /\ \A c \in ToSet(marked) : \E n \in DOMAIN utxos : c = marked[n]
  BY <1>4, ListFacts
<1>7. Keys(marked) = Keys(utxos)
  BY <1>5, <1>6 DEF Keys
<1>8. Distinct(utxos) => Distinct(marked)
  BY <1>4, <1>5 DEF Distinct
<1>9. \A c \in ToSet(marked) : c.state = "spent" \/ (c \in ToSet(utxos) /\ c.key \notin keys)
  BY <1>5, <1>6
<1> QED
  BY <1>4, <1>7, <1>8, <1>9 DEF marked

LEMMA EmptyFacts ==
  /\ Torn \in Wallets /\ Torn.last = 0 /\ Settled(Torn)
  /\ Torn.utxos = <<>> /\ ToSet(<<>>) = {} /\ Keys(<<>>) = {}
<1>1. Torn.last = 0 /\ Torn.utxos = <<>> /\ Torn.mapping = {}
  BY DEF Torn
<1>2. <<>> \in Seq(Coins) /\ DOMAIN <<>> = {} /\ ToSet(<<>>) = {}
  BY DEF ToSet
<1>3. Keys(<<>>) = {}
  BY <1>2 DEF Keys
<1>4. Torn \in Wallets
  BY <1>2 DEF Torn, Wallets
<1>5. Settled(Torn)
  BY <1>1, <1>2, <1>3 DEF Settled, Distinct
<1> QED
  BY <1>1, <1>2, <1>3, <1>4, <1>5

LEMMA BlockFixed ==
  ASSUME [Next]_vars
  PROVE  /\ block' = block
         /\ OwnKeys' = OwnKeys /\ Coins' = Coins /\ Wallets' = Wallets
         /\ PaidKeys' = PaidKeys
<1>1. block' = block
  BY DEF Next, Scan, Flush, vars, Begin, GetFilter, GetSpentOutpointsIndex, GetTweaks, GetUTXOs,
         AppendUTXO, EnterMapping, SetLastScanHeight, TruncateFile, FillFile, Interrupt,
         ReadLastScanHeight, ReadUTXOs, ReadUTXOMapping, FlushTruncates, FlushFills, Restart
<1> QED
  BY <1>1 DEF OwnKeys, Coins, Wallets, PaidKeys, Payments

-----------------------------------------------------------------------------
(* Types, and whose the coins are.                                           *)

LEMMA ServedCoins ==
  ASSUME NEW coins \in OwnedUTXOs(block), block \in Blocks
  PROVE  /\ coins \subseteq [key : OwnKeys, state : {"unspent", "spent"}]
         /\ \A c \in coins : c.key \in block.spends => c.state = "spent"
<1>1. /\ IsBlock(block)
      /\ \A u \in ToSet(block.utxos) : Outpoint(u) \in block.spends => u.spent
  BY BlockSyncAssumption
<1>2. ASSUME NEW c \in coins
      PROVE  /\ c \in [key : OwnKeys, state : {"unspent", "spent"}]
             /\ c.key \in block.spends => c.state = "spent"
  <2>1. PICK u \in ToSet(block.utxos) : c = Coin(u) /\ Tweak(u.script) \in block.tweaks
    BY <1>1, OwnedIsServed
  <2>2. /\ c = [key |-> Outpoint(u), state |-> IF u.spent THEN "spent" ELSE "unspent"]
        /\ c.key = Outpoint(u)
        /\ u.spent => c.state = "spent"
    BY <2>1 DEF Coin
  <2>3. Outpoint(u) \in OwnKeys
    BY <2>1 DEF OwnKeys
  <2> QED
    BY <1>1, <2>2, <2>3
<1> QED
  BY <1>2

LEMMA OldFacts ==
  ASSUME NEW old \in OldCoins
  PROVE  /\ FreshWallet(old) \in Wallets /\ FreshWallet(old).last = 0
         /\ Settled(FreshWallet(old))
<1>1. old \in Coins /\ old.key = OldKey
  BY DEF OldCoins, Coins
<1>2. /\ FreshWallet(old).last = 0 /\ FreshWallet(old).utxos = <<old>>
      /\ FreshWallet(old).mapping = {OldKey}
  BY DEF FreshWallet
<1>3. <<old>> \in Seq(Coins) /\ DOMAIN <<old>> = {1} /\ <<old>>[1] = old
  BY <1>1
<1>4. ToSet(<<old>>) = {old}
  BY <1>3 DEF ToSet
<1>5. Keys(<<old>>) = {OldKey}
  BY <1>1, <1>4 DEF Keys
<1>6. FreshWallet(old) \in Wallets
  BY <1>3 DEF FreshWallet, Wallets
<1> QED
  BY <1>2, <1>3, <1>5, <1>6 DEF Settled, Distinct

LEMMA TypeInit == Init => TypeInv
BY OldFacts, EmptyFacts DEF Init, TypeInv

LEMMA TypeStep == TypeInv /\ [Next]_vars => TypeInv'
<1> SUFFICES ASSUME TypeInv, [Next]_vars
             PROVE  TypeInv'
  OBVIOUS
<1>1. block' = block /\ OwnKeys' = OwnKeys /\ Coins' = Coins /\ Wallets' = Wallets
  BY BlockFixed
<1>2. \A w \in Wallets, utxos \in Seq(Coins) : [w EXCEPT !.utxos = utxos] \in Wallets
  BY DEF Wallets
<1>3. \A w \in Wallets, keys \in SUBSET (OwnKeys \cup {OldKey}) :
        [w EXCEPT !.mapping = keys] \in Wallets
  BY DEF Wallets
<1>4. \A w \in Wallets, last \in 0..1 : [w EXCEPT !.last = last] \in Wallets
  BY DEF Wallets
<1>5. \A w \in Wallets : /\ w.last \in 0..1 /\ w.utxos \in Seq(Coins)
                         /\ w.mapping \subseteq OwnKeys \cup {OldKey}
  BY DEF Wallets
<1>6. \A c \in todo : c \in Coins /\ c.key \in OwnKeys
  BY DEF TypeInv, Coins
<1> USE DEF TypeInv
<1>7. CASE Begin
  BY <1>1, <1>7 DEF Begin, exit
<1>8. CASE GetFilter
  BY <1>1, <1>8 DEF GetFilter, exit
<1>9. CASE GetSpentOutpointsIndex
  <2>1. MarkSpent(wallet.utxos, localOutpoints(wallet) \cap block.spends) \in Seq(Coins)
    BY <1>5, MarkFacts
  <2>2. wallet' \in Wallets
    BY <1>2, <1>9, <2>1 DEF GetSpentOutpointsIndex
  <2> QED
    BY <1>1, <1>9, <2>2 DEF GetSpentOutpointsIndex, exit
<1>10. CASE GetTweaks
  BY <1>1, <1>10 DEF GetTweaks, exit
<1>11. CASE GetUTXOs
  <2>1. todo' \subseteq [key : OwnKeys, state : {"unspent", "spent"}]
    BY <1>11, ServedCoins DEF GetUTXOs
  <2> QED
    BY <1>1, <1>11, <2>1 DEF GetUTXOs, exit
<1>12. ASSUME NEW c \in todo, AppendUTXO(c)
       PROVE  TypeInv'
  <2>1. Append(wallet.utxos, c) \in Seq(Coins)
    BY <1>5, <1>6
  <2>2. wallet' \in Wallets
    BY <1>2, <1>12, <2>1 DEF AppendUTXO
  <2> QED
    BY <1>1, <1>12, <2>2 DEF AppendUTXO, exit
<1>13. ASSUME NEW c \in todo, EnterMapping(c)
       PROVE  TypeInv'
  <2>1. wallet' \in Wallets
    BY <1>3, <1>5, <1>6, <1>13 DEF EnterMapping
  <2> QED
    BY <1>1, <1>13, <2>1 DEF EnterMapping, exit
<1>14. CASE SetLastScanHeight
  <2>1. wallet' = [wallet EXCEPT !.last = 1] /\ 1 \in 0..1
    BY <1>14 DEF SetLastScanHeight
  <2>2. wallet' \in Wallets
    BY <1>4, <2>1
  <2> QED
    BY <1>1, <1>14, <2>2 DEF SetLastScanHeight, exit
<1>15. CASE TruncateFile
  BY <1>1, <1>15, EmptyFacts DEF TruncateFile, exit
<1>16. CASE FillFile
  BY <1>1, <1>16, EmptyFacts DEF FillFile, Overlay, exit
<1>17. CASE Interrupt
  BY <1>1, <1>17 DEF Interrupt, loop
<1>18. CASE ReadLastScanHeight
  BY <1>1, <1>4, <1>5, <1>18 DEF ReadLastScanHeight, loop
<1>19. CASE ReadUTXOs
  BY <1>1, <1>2, <1>5, <1>19 DEF ReadUTXOs, loop
<1>20. CASE ReadUTXOMapping
  BY <1>1, <1>3, <1>5, <1>20 DEF ReadUTXOMapping, loop
<1>21. CASE FlushTruncates
  BY <1>1, <1>21, EmptyFacts DEF FlushTruncates, loop
<1>22. CASE FlushFills
  BY <1>1, <1>22, EmptyFacts DEF FlushFills, Overlay, loop
<1>23. CASE Restart
  BY <1>1, <1>23, EmptyFacts DEF Restart
<1>24. CASE UNCHANGED vars
  BY <1>1, <1>24 DEF vars, loop, exit
<1> QED
  BY <1>7, <1>8, <1>9, <1>10, <1>11, <1>12, <1>13, <1>14, <1>15, <1>16, <1>17, <1>18, <1>19,
     <1>20, <1>21, <1>22, <1>23, <1>24 DEF Next, Scan, Flush

LEMMA TypeAlways == Spec => []TypeInv
BY TypeInit, TypeStep, PTL DEF Spec

\* Every variable keeps its type: whatever the oracle serves and wherever the process
\* is interrupted, wallet and file hold outpoints of this block or the old one alone.
THEOREM TypeCorrect == Spec => []TypeOK
<1>1. TypeInv => TypeOK
  <2>1. OwnKeys \subseteq BlockKeys
    BY DEF OwnKeys, BlockKeys
  <2>2. ASSUME NEW w \in Wallets
        PROVE  IsWallet(w)
    <3>1. /\ w.last \in 0..1 /\ w.utxos \in Seq(Coins)
          /\ w.mapping \subseteq OwnKeys \cup {OldKey}
      BY DEF Wallets
    <3>2. \A c \in ToSet(w.utxos) : c \in Coins
      BY <3>1, ListFacts
    <3> QED
      BY <2>1, <3>1, <3>2 DEF IsWallet, Coins
  <2> QED
    BY <2>1, <2>2 DEF TypeInv, TypeOK
<1> QED
  BY <1>1, TypeAlways, PTL

\* In any block, however its scripts are reused, a coin is an output the keys can spend:
\* of the maps of syncBlock none leads to an output of somebody else.
THEOREM CoinsAreServed == Spec => []OwnOutputsOnly
<1>1. TypeInv => OwnOutputsOnly
  <2> SUFFICES ASSUME TypeInv, NEW c \in ToSet(wallet.utxos), c.key # OldKey
               PROVE  \E u \in ToSet(block.utxos) :
                        Outpoint(u) = c.key /\ Tweak(u.script) \in block.tweaks
    BY DEF OwnOutputsOnly
  <2>1. wallet.utxos \in Seq(Coins)
    BY DEF TypeInv, Wallets
  <2>2. c \in Coins
    BY <2>1, ListFacts
  <2>3. c.key \in OwnKeys
    BY <2>2 DEF Coins
  <2> QED
    BY <2>3 DEF OwnKeys
<1> QED
  BY <1>1, TypeAlways, PTL

-----------------------------------------------------------------------------
(* No coin twice.                                                            *)

LEMMA WalletFacts ==
  ASSUME NEW w \in Wallets
  PROVE  /\ w.last \in 0..1 /\ w.utxos \in Seq(Coins)
         /\ \A utxos : [w EXCEPT !.utxos = utxos].utxos = utxos
                       /\ [w EXCEPT !.utxos = utxos].mapping = w.mapping
                       /\ [w EXCEPT !.utxos = utxos].last = w.last
         /\ \A keys : [w EXCEPT !.mapping = keys].utxos = w.utxos
                      /\ [w EXCEPT !.mapping = keys].mapping = keys
                      /\ [w EXCEPT !.mapping = keys].last = w.last
         /\ \A last : [w EXCEPT !.last = last].utxos = w.utxos
                      /\ [w EXCEPT !.last = last].mapping = w.mapping
                      /\ [w EXCEPT !.last = last].last = last
BY DEF Wallets

LEMMA OnceInit == Init => OnceInv
BY OldFacts, EmptyFacts DEF Init, OnceInv, Settled

LEMMA OnceStep == TypeInv /\ OnceInv /\ [Next]_vars => OnceInv'
<1> SUFFICES ASSUME TypeInv, OnceInv, [Next]_vars, ~skewed'
             PROVE  /\ pc' # "map" => Settled(wallet')
                    /\ pc' = "map" => Entering(wallet')
                    /\ Distinct(file'.utxos) /\ Distinct(data'.utxos) /\ Distinct(copy'.utxos)
  BY DEF OnceInv, Settled, Entering, Distinct, Keys
<1>1. /\ wallet \in Wallets /\ file \in Wallets /\ data \in Wallets /\ copy \in Wallets
      /\ wallet.utxos \in Seq(Coins)
      /\ \A c \in todo : c \in Coins
  BY WalletFacts DEF TypeInv, Coins
<1>2. ~skewed
  BY DEF Next, Scan, Flush, vars, loop, exit, Begin, GetFilter, GetSpentOutpointsIndex, GetTweaks,
         GetUTXOs, AppendUTXO, EnterMapping, SetLastScanHeight, TruncateFile, FillFile, Interrupt,
         ReadLastScanHeight, ReadUTXOs, ReadUTXOMapping, FlushTruncates, FlushFills, Restart
<1>3. /\ pc # "map" => Settled(wallet)
      /\ pc = "map" => Entering(wallet)
      /\ Distinct(file.utxos) /\ Distinct(data.utxos) /\ Distinct(copy.utxos)
      /\ Distinct(wallet.utxos)
  BY <1>2 DEF OnceInv, Settled, Entering
<1>4. Settled(Torn) /\ Distinct(Torn.utxos)
  BY EmptyFacts DEF Settled
<1>5. CASE Begin
  BY <1>3, <1>5 DEF Begin, exit
<1>6. CASE GetFilter
  BY <1>3, <1>6 DEF GetFilter, exit
<1>7. CASE GetSpentOutpointsIndex
  <2>1. pc # "map" /\ pc' # "map" /\ UNCHANGED <<file, data, copy>>
    BY <1>7 DEF GetSpentOutpointsIndex, exit
  <2>2. CASE UNCHANGED wallet
    BY <1>3, <2>1, <2>2
  <2>3. CASE wallet' = [wallet EXCEPT
               !.utxos = MarkSpent(wallet.utxos, localOutpoints(wallet) \cap block.spends)]
    <3> DEFINE marked == MarkSpent(wallet.utxos, localOutpoints(wallet) \cap block.spends)
    <3>1. Keys(marked) = Keys(wallet.utxos) /\ Distinct(marked)
      BY <1>1, <1>3, MarkFacts
    <3>2. wallet'.utxos = marked /\ wallet'.mapping = wallet.mapping
      BY <1>1, <2>3, WalletFacts
    <3> HIDE DEF marked
    <3>3. Settled(wallet')
      BY <1>3, <2>1, <3>1, <3>2 DEF Settled
    <3> QED
      BY <1>3, <2>1, <3>3
  <2> QED
    BY <1>7, <2>2, <2>3 DEF GetSpentOutpointsIndex
<1>8. CASE GetTweaks
  BY <1>3, <1>8 DEF GetTweaks, exit
<1>9. CASE GetUTXOs
  BY <1>3, <1>9 DEF GetUTXOs, exit
<1>10. ASSUME NEW c \in todo, AppendUTXO(c)
       PROVE  /\ pc' # "map" => Settled(wallet')
              /\ pc' = "map" => Entering(wallet')
              /\ Distinct(file'.utxos) /\ Distinct(data'.utxos) /\ Distinct(copy'.utxos)
  <2>1. Settled(wallet) /\ UNCHANGED <<file, data, copy>>
    BY <1>3, <1>10 DEF AppendUTXO, exit
  <2>2. CASE c.key \in wallet.mapping
    BY <1>3, <1>10, <2>1, <2>2 DEF AppendUTXO
  <2>3. CASE c.key \notin wallet.mapping
    <3> DEFINE more == Append(wallet.utxos, c)
    <3>1. c.key \notin Keys(wallet.utxos) /\ Keys(wallet.utxos) = wallet.mapping
      BY <2>1, <2>3 DEF Settled
    <3>2. /\ Keys(more) = Keys(wallet.utxos) \cup {c.key} /\ more # <<>>
          /\ more[Len(more)] = c /\ Distinct(more)
      BY <1>1, <1>3, <3>1, AppendFacts
    <3>3. pc' = "map" /\ wallet' = [wallet EXCEPT !.utxos = more]
      BY <1>10, <2>3 DEF AppendUTXO
    <3> HIDE DEF more
    <3>4. wallet'.utxos = more /\ wallet'.mapping = wallet.mapping
      BY <1>1, <3>3, WalletFacts
    <3> QED
      BY <1>3, <2>1, <3>1, <3>2, <3>3, <3>4 DEF Entering
  <2> QED
    BY <2>2, <2>3
<1>11. ASSUME NEW c \in todo, EnterMapping(c)
       PROVE  /\ pc' # "map" /\ Settled(wallet')
              /\ Distinct(file'.utxos) /\ Distinct(data'.utxos) /\ Distinct(copy'.utxos)
  <2>1. /\ pc = "map" /\ pc' # "map" /\ UNCHANGED <<file, data, copy>>
        /\ c = wallet.utxos[Len(wallet.utxos)]
        /\ wallet' = [wallet EXCEPT !.mapping = wallet.mapping \cup {c.key}]
    BY <1>11 DEF EnterMapping, exit
  <2>2. wallet'.utxos = wallet.utxos /\ wallet'.mapping = wallet.mapping \cup {c.key}
    BY <1>1, <2>1, WalletFacts
  <2>3. Settled(wallet')
    BY <1>3, <2>1, <2>2 DEF Settled, Entering
  <2> QED
    BY <1>3, <2>1, <2>3
<1>12. CASE SetLastScanHeight
  <2>1. /\ pc = "height" /\ pc' # "map" /\ UNCHANGED <<file, data, copy>>
        /\ wallet' = [wallet EXCEPT !.last = 1]
    BY <1>12 DEF SetLastScanHeight, exit
  <2>2. wallet'.utxos = wallet.utxos /\ wallet'.mapping = wallet.mapping
    BY <1>1, <2>1, WalletFacts
  <2> QED
    BY <1>3, <2>1, <2>2 DEF Settled
<1>13. CASE TruncateFile
  BY <1>3, <1>4, <1>13 DEF TruncateFile, exit
<1>14. CASE FillFile
  BY <1>3, <1>4, <1>14 DEF FillFile, Overlay, exit
<1>15. CASE Interrupt
  BY <1>3, <1>15 DEF Interrupt, loop
<1>16. CASE ReadLastScanHeight
  <2>1. copy'.utxos = copy.utxos
    BY <1>1, <1>16, WalletFacts DEF ReadLastScanHeight
  <2> QED
    BY <1>3, <1>16, <2>1 DEF ReadLastScanHeight, loop
<1>17. CASE ReadUTXOs
  <2>1. copy'.utxos = wallet.utxos
    BY <1>1, <1>17, WalletFacts DEF ReadUTXOs
  <2> QED
    BY <1>3, <1>17, <2>1 DEF ReadUTXOs, loop
<1>18. CASE ReadUTXOMapping
  <2>1. copy'.utxos = copy.utxos
    BY <1>1, <1>18, WalletFacts DEF ReadUTXOMapping
  <2> QED
    BY <1>3, <1>18, <2>1 DEF ReadUTXOMapping, loop
<1>19. CASE FlushTruncates
  BY <1>3, <1>4, <1>19 DEF FlushTruncates, loop
<1>20. CASE FlushFills
  BY <1>3, <1>4, <1>20 DEF FlushFills, Overlay, loop
<1>21. CASE Restart
  <2>1. Keys(file.utxos) = file.mapping
    BY <1>21 DEF Restart
  <2> QED
    BY <1>3, <1>4, <1>21, <2>1 DEF Restart, Settled
<1>22. CASE UNCHANGED vars
  BY <1>3, <1>22 DEF vars, loop, exit
<1> QED
  BY <1>5, <1>6, <1>7, <1>8, <1>9, <1>10, <1>11, <1>12, <1>13, <1>14, <1>15, <1>16, <1>17,
     <1>18, <1>19, <1>20, <1>21, <1>22 DEF Next, Scan, Flush

LEMMA OnceAlways == Spec => [](TypeInv /\ OnceInv)
<1>1. TypeInv /\ OnceInv /\ [Next]_vars => (TypeInv /\ OnceInv)'
  BY TypeStep, OnceStep
<1> QED
  BY <1>1, TypeInit, OnceInit, PTL DEF Spec

\* Retries, rescans and restarts add no coin a second time, unless a file was loaded
\* that the flush wrote between the two assignments of AddUTXOs.
THEOREM CoinsOnce == Spec => []NoCoinTwice
<1>1. OnceInv => NoCoinTwice
  BY DEF OnceInv, Settled, Entering, Distinct, NoCoinTwice
<1> QED
  BY <1>1, OnceAlways, PTL

-----------------------------------------------------------------------------
(* What a step does to the wallet and to its copies.                         *)

\* But for a restart, coins are added and spent, and the height is set in its place.
LEMMA WalletStep ==
  ASSUME TypeInv, [Next]_vars, ~Restart
  PROVE  /\ wallet'.last = wallet.last \/ (wallet'.last = 1 /\ pc = "height")
         /\ Keys(wallet.utxos) \subseteq Keys(wallet'.utxos)
         /\ \A c \in ToSet(wallet'.utxos) :
              c \in ToSet(wallet.utxos) \/ c.state = "spent" \/ c \in todo
<1>1. wallet \in Wallets /\ wallet.utxos \in Seq(Coins) /\ \A c \in todo : c \in Coins
  BY WalletFacts DEF TypeInv, Coins
<1>2. CASE UNCHANGED wallet
  BY <1>2
<1>3. CASE GetSpentOutpointsIndex /\ wallet' # wallet
  <2> DEFINE marked == MarkSpent(wallet.utxos, localOutpoints(wallet) \cap block.spends)
  <2>1. wallet' = [wallet EXCEPT !.utxos = marked]
    BY <1>3 DEF GetSpentOutpointsIndex
  <2>2. /\ Keys(marked) = Keys(wallet.utxos)
        /\ \A c \in ToSet(marked) : c.state = "spent" \/ c \in ToSet(wallet.utxos)
    BY <1>1, MarkFacts
  <2> HIDE DEF marked
  <2>3. wallet'.utxos = marked /\ wallet'.last = wallet.last
    BY <1>1, <2>1, WalletFacts
  <2> QED
    BY <2>2, <2>3
<1>4. ASSUME NEW c \in todo, AppendUTXO(c), wallet' # wallet
      PROVE  /\ wallet'.last = wallet.last
             /\ Keys(wallet.utxos) \subseteq Keys(wallet'.utxos)
             /\ \A d \in ToSet(wallet'.utxos) : d \in ToSet(wallet.utxos) \/ d \in todo
  <2> DEFINE more == Append(wallet.utxos, c)
  <2>1. wallet' = [wallet EXCEPT !.utxos = more]
    BY <1>4 DEF AppendUTXO
  <2>2. /\ Keys(more) = Keys(wallet.utxos) \cup {c.key}
        /\ ToSet(more) = ToSet(wallet.utxos) \cup {c}
    BY <1>1, AppendFacts
  <2> HIDE DEF more
  <2>3. wallet'.utxos = more /\ wallet'.last = wallet.last
    BY <1>1, <2>1, WalletFacts
  <2> QED
    BY <2>2, <2>3
<1>5. ASSUME NEW c \in todo, EnterMapping(c)
      PROVE  wallet'.utxos = wallet.utxos /\ wallet'.last = wallet.last
  <2>1. wallet' = [wallet EXCEPT !.mapping = wallet.mapping \cup {c.key}]
    BY <1>5 DEF EnterMapping
  <2> QED
    BY <1>1, <2>1, WalletFacts
<1>6. CASE SetLastScanHeight
  <2>1. pc = "height" /\ wallet' = [wallet EXCEPT !.last = 1]
    BY <1>6 DEF SetLastScanHeight
  <2>2. wallet'.utxos = wallet.utxos /\ wallet'.last = 1
    BY <1>1, <2>1, WalletFacts
  <2> QED
    BY <2>1, <2>2
<1>7. \/ UNCHANGED wallet \/ GetSpentOutpointsIndex \/ SetLastScanHeight
      \/ \E c \in todo : AppendUTXO(c) \/ EnterMapping(c)
  BY DEF Next, Scan, Flush, vars, Begin, GetFilter, GetTweaks, GetUTXOs, TruncateFile, FillFile,
         Interrupt, ReadLastScanHeight, ReadUTXOs, ReadUTXOMapping, FlushTruncates, FlushFills
<1> QED
  BY <1>2, <1>3, <1>4, <1>5, <1>6, <1>7

\* The file and what is serialised for it are copies of the wallet, or torn.
LEMMA CopiesStep ==
  ASSUME TypeInv, [Next]_vars
  PROVE  /\ file' \in {file, Torn, data} \/ (file' = copy /\ flush = "fill")
         /\ data' \in {data, Torn, wallet}
<1> USE DEF exit, loop
<1>1. CASE Scan
  BY <1>1 DEF Scan, Begin, GetFilter, GetSpentOutpointsIndex, GetTweaks, GetUTXOs, AppendUTXO,
              EnterMapping, SetLastScanHeight, TruncateFile, FillFile, Overlay
<1>2. CASE Flush
  BY <1>2 DEF Flush, Interrupt, ReadLastScanHeight, ReadUTXOs, ReadUTXOMapping, FlushTruncates,
              FlushFills, Overlay
<1>3. CASE Restart
  BY <1>3 DEF Restart
<1>4. CASE UNCHANGED vars
  BY <1>4 DEF vars
<1> QED
  BY <1>1, <1>2, <1>3, <1>4 DEF Next

\* The flush reads the height before it reads the coins.
LEMMA FlushStep ==
  ASSUME TypeInv, [Next]_vars, copy'.last = 1
  PROVE  /\ flush' = "utxos" => \/ flush' = flush /\ copy' = copy /\ ~Restart
                                \/ flush = "height" /\ UNCHANGED wallet /\ wallet.last = 1
         /\ flush' \in {"mapping", "truncate", "fill"} =>
              /\ copy.last = 1
              /\ \/ flush = "utxos" /\ copy'.utxos = wallet.utxos
                 \/ flush \in {"mapping", "truncate", "fill"} /\ copy'.utxos = copy.utxos
<1>1. wallet \in Wallets /\ copy \in Wallets
  BY DEF TypeInv
<1>2. CASE Scan
  <2>1. flush' = flush /\ copy' = copy
    BY <1>2 DEF Scan, exit, Begin, GetFilter, GetSpentOutpointsIndex, GetTweaks, GetUTXOs,
                AppendUTXO, EnterMapping, SetLastScanHeight, TruncateFile, FillFile
  <2>2. Restart => flush' = "none"
    BY DEF Restart
  <2> QED
    BY <2>1, <2>2
<1>3. CASE Interrupt
  BY <1>3 DEF Interrupt
<1>4. CASE ReadLastScanHeight
  <2>1. copy'.last = wallet.last
    BY <1>1, <1>4, WalletFacts DEF ReadLastScanHeight
  <2> QED
    BY <1>4, <2>1 DEF ReadLastScanHeight
<1>5. CASE ReadUTXOs
  <2>1. copy'.last = copy.last /\ copy'.utxos = wallet.utxos
    BY <1>1, <1>5, WalletFacts DEF ReadUTXOs
  <2> QED
    BY <1>5, <2>1 DEF ReadUTXOs
<1>6. CASE ReadUTXOMapping
  <2>1. copy'.last = copy.last /\ copy'.utxos = copy.utxos
    BY <1>1, <1>6, WalletFacts DEF ReadUTXOMapping
  <2> QED
    BY <1>6, <2>1 DEF ReadUTXOMapping
<1>7. CASE FlushTruncates
  BY <1>7 DEF FlushTruncates
<1>8. CASE FlushFills
  BY <1>8 DEF FlushFills
<1>9. CASE Restart
  BY <1>9 DEF Restart
<1>10. CASE UNCHANGED vars
  <2>1. Restart => flush' = "none"
    BY DEF Restart
  <2> QED
    BY <1>10, <2>1 DEF vars, exit
<1> QED
  BY <1>2, <1>3, <1>4, <1>5, <1>6, <1>7, <1>8, <1>9, <1>10 DEF Next, Flush

LEMMA FlushInvStep == TypeInv /\ FlushInv /\ [Next]_vars => FlushInv'
<1> SUFFICES ASSUME TypeInv, FlushInv, [Next]_vars, flush' = "utxos", copy'.last = 1
             PROVE  wallet'.last = 1
  BY DEF FlushInv
<1>1. CASE flush' = flush /\ copy' = copy /\ ~Restart
  BY <1>1, WalletStep DEF FlushInv
<1>2. CASE flush = "height" /\ UNCHANGED wallet /\ wallet.last = 1
  BY <1>2
<1> QED
  BY <1>1, <1>2, FlushStep

LEMMA FlushAlways == Spec => [](TypeInv /\ OnceInv /\ FlushInv)
<1>1. Init => FlushInv
  BY DEF Init, FlushInv
<1>2. TypeInv /\ OnceInv /\ FlushInv /\ [Next]_vars => (TypeInv /\ OnceInv /\ FlushInv)'
  BY TypeStep, OnceStep, FlushInvStep
<1> QED
  BY <1>1, <1>2, TypeInit, OnceInit, PTL DEF Spec

-----------------------------------------------------------------------------
(* No payment is lost.                                                       *)

\* The loop comes to a height only with the payments of the block in the wallet.
LEMMA FoundLoop ==
  ASSUME TypeInv, OnceInv, FoundInv, [Next]_vars, FollowsProtocol(block), ~skewed
  PROVE  /\ pc' \in {"add", "map"} => PaidKeys \subseteq Keys(wallet'.utxos) \cup Pending'
         /\ pc' = "height" => PaidKeys \subseteq Keys(wallet'.utxos)
<1>1. /\ pc \in {"add", "map"} => PaidKeys \subseteq Keys(wallet.utxos) \cup Pending
      /\ pc = "height" => PaidKeys \subseteq Keys(wallet.utxos)
  BY DEF FoundInv, Complete, PaidKeys, Pending
<1>2. wallet \in Wallets /\ block \in Blocks
  BY DEF TypeInv
<1>3. ~Restart => Keys(wallet.utxos) \subseteq Keys(wallet'.utxos)
  BY WalletStep
<1>4. CASE GetTweaks
  <2>1. pc' \in {"idle", "height", "utxos"}
    BY <1>4 DEF GetTweaks
  <2>2. ASSUME pc' = "height"
        PROVE  PaidKeys = {}
    <3>1. block.tweaks = {}
      BY <1>4, <2>2, NoTweaks DEF GetTweaks
    <3> QED
      BY <3>1 DEF PaidKeys, Payments, Pays
  <2> QED
    BY <2>1, <2>2
<1>5. CASE GetUTXOs
  <2>1. \/ pc' = "idle"
        \/ /\ todo' \in OwnedUTXOs(block)
           /\ pc' = IF todo' = {} THEN "height" ELSE "add"
    BY <1>5 DEF GetUTXOs
  <2>2. ASSUME todo' \in OwnedUTXOs(block)
        PROVE  Pending' = PaidKeys
    <3>1. todo' = Payments(block)
      BY <1>2, <2>2, OwnedIsPaid, BlockSyncAssumption
    <3> QED
      BY <3>1 DEF Pending, PaidKeys
  <2>3. todo' = {} => Pending' = {}
    BY DEF Pending
  <2> QED
    BY <2>1, <2>2, <2>3
<1>6. ASSUME NEW c \in todo, AppendUTXO(c)
      PROVE  /\ pc' \in {"add", "map"} => PaidKeys \subseteq Keys(wallet'.utxos) \cup Pending'
             /\ pc' = "height" => PaidKeys \subseteq Keys(wallet'.utxos)
  <2>1. /\ pc = "add" /\ ~Restart
        /\ PaidKeys \subseteq Keys(wallet.utxos) \cup Pending
    <3>1. pc = "add" /\ (skewed' = skewed) /\ flush' = flush
      BY <1>6 DEF AppendUTXO, exit
    <3>2. pc' \notin {"idle", "waiting"}
      BY <1>6 DEF AppendUTXO
    <3>3. ~Restart
      BY <3>2 DEF Restart
    <3> QED
      BY <1>1, <3>1, <3>3
  <2>2. CASE c.key \in wallet.mapping
    <3>1. c.key \in Keys(wallet.utxos)
      BY <2>1, <2>2 DEF OnceInv, Settled
    <3>2. todo' = todo \ {c} /\ pc' = IF todo' = {} THEN "height" ELSE "add"
      BY <1>6, <2>2 DEF AppendUTXO
    <3>3. Pending \subseteq Pending' \cup {c.key}
      BY <3>2 DEF Pending
    <3>4. todo' = {} => Pending' = {}
      BY DEF Pending
    <3> QED
      BY <1>3, <2>1, <3>1, <3>2, <3>3, <3>4
  <2>3. CASE c.key \notin wallet.mapping
    <3>1. pc' = "map" /\ todo' = todo
      BY <1>6, <2>3 DEF AppendUTXO
    <3>2. Pending' = Pending
      BY <3>1 DEF Pending
    <3> QED
      BY <1>3, <2>1, <3>1, <3>2
  <2> QED
    BY <2>2, <2>3
<1>7. ASSUME NEW c \in todo, EnterMapping(c)
      PROVE  /\ pc' \in {"add", "map"} => PaidKeys \subseteq Keys(wallet'.utxos) \cup Pending'
             /\ pc' = "height" => PaidKeys \subseteq Keys(wallet'.utxos)
  <2>1. /\ pc = "map" /\ c = wallet.utxos[Len(wallet.utxos)]
        /\ todo' = todo \ {c} /\ pc' = IF todo' = {} THEN "height" ELSE "add"
    BY <1>7 DEF EnterMapping
  <2>2. ~Restart
    BY <2>1 DEF Restart
  <2>3. c.key \in Keys(wallet.utxos)
    BY <2>1 DEF OnceInv, Entering
  <2>4. Pending \subseteq Pending' \cup {c.key}
    BY <2>1 DEF Pending
  <2>5. todo' = {} => Pending' = {}
    BY DEF Pending
  <2> QED
    BY <1>1, <1>3, <2>1, <2>2, <2>3, <2>4, <2>5
<1>8. CASE UNCHANGED <<pc, todo, wallet>>
  BY <1>1, <1>8 DEF Pending
<1>9. \/ pc' \notin {"add", "map", "height"} \/ UNCHANGED <<pc, todo, wallet>>
      \/ GetTweaks \/ GetUTXOs \/ \E c \in todo : AppendUTXO(c) \/ EnterMapping(c)
  BY DEF Next, Scan, Flush, vars, loop, Begin, GetFilter, GetSpentOutpointsIndex,
         SetLastScanHeight, TruncateFile, FillFile, Interrupt, ReadLastScanHeight, ReadUTXOs,
         ReadUTXOMapping, FlushTruncates, FlushFills, Restart
<1> QED
  BY <1>4, <1>5, <1>6, <1>7, <1>8, <1>9

LEMMA FoundStep == TypeInv /\ OnceInv /\ FlushInv /\ FoundInv /\ [Next]_vars => FoundInv'
<1> SUFFICES ASSUME TypeInv, OnceInv, FlushInv, FoundInv, [Next]_vars,
                    FollowsProtocol(block)', ~skewed'
             PROVE  /\ pc' \in {"add", "map"} =>
                         PaidKeys' \subseteq Keys(wallet'.utxos) \cup Pending'
                    /\ pc' = "height" \/ wallet'.last = 1 => PaidKeys' \subseteq Keys(wallet'.utxos)
                    /\ file'.last = 1 => PaidKeys' \subseteq Keys(file'.utxos)
                    /\ data'.last = 1 => PaidKeys' \subseteq Keys(data'.utxos)
                    /\ flush' \in {"mapping", "truncate", "fill"} /\ copy'.last = 1 =>
                         PaidKeys' \subseteq Keys(copy'.utxos)
  BY DEF FoundInv, Complete, PaidKeys, Pending, Keys
<1>1. block' = block /\ PaidKeys' = PaidKeys /\ FollowsProtocol(block)
  BY BlockFixed
<1>2. ~skewed
  BY DEF Next, Scan, Flush, vars, loop, exit, Begin, GetFilter, GetSpentOutpointsIndex, GetTweaks,
         GetUTXOs, AppendUTXO, EnterMapping, SetLastScanHeight, TruncateFile, FillFile, Interrupt,
         ReadLastScanHeight, ReadUTXOs, ReadUTXOMapping, FlushTruncates, FlushFills, Restart
<1>3. /\ pc = "height" \/ wallet.last = 1 => PaidKeys \subseteq Keys(wallet.utxos)
      /\ file.last = 1 => PaidKeys \subseteq Keys(file.utxos)
      /\ data.last = 1 => PaidKeys \subseteq Keys(data.utxos)
      /\ flush \in {"mapping", "truncate", "fill"} /\ copy.last = 1 =>
           PaidKeys \subseteq Keys(copy.utxos)
  BY <1>1, <1>2 DEF FoundInv, Complete, PaidKeys
<1>4. Torn.last = 0
  BY EmptyFacts
<1>5. /\ pc' \in {"add", "map"} => PaidKeys' \subseteq Keys(wallet'.utxos) \cup Pending'
      /\ pc' = "height" => PaidKeys' \subseteq Keys(wallet'.utxos)
  BY <1>1, <1>2, FoundLoop
<1>6. wallet'.last = 1 => PaidKeys' \subseteq Keys(wallet'.utxos)
  <2>1. CASE Restart
    BY <1>1, <1>3, <2>1 DEF Restart
  <2>2. CASE ~Restart
    BY <1>1, <1>3, <2>2, WalletStep
  <2> QED
    BY <2>1, <2>2
<1>7. data'.last = 1 => PaidKeys' \subseteq Keys(data'.utxos)
  BY <1>1, <1>3, <1>4, CopiesStep
<1>8. flush' \in {"mapping", "truncate", "fill"} /\ copy'.last = 1 =>
        PaidKeys' \subseteq Keys(copy'.utxos)
  BY <1>1, <1>3, FlushStep DEF FlushInv
<1>9. file'.last = 1 => PaidKeys' \subseteq Keys(file'.utxos)
  BY <1>1, <1>3, <1>4, CopiesStep
<1> QED
  BY <1>5, <1>6, <1>7, <1>8, <1>9

LEMMA FoundAlways == Spec => [](TypeInv /\ OnceInv /\ FlushInv /\ FoundInv)
<1>1. Init => FoundInv
  BY OldFacts, EmptyFacts DEF Init, FoundInv
<1>2. TypeInv /\ OnceInv /\ FlushInv /\ FoundInv /\ [Next]_vars => FoundInv'
  BY FoundStep
<1> QED
  BY <1>1, <1>2, FlushAlways, PTL DEF Spec

\* In a block of silent payments sent as BIP 352 has it, of any size: once the height
\* covers the block every payment is a coin, whatever failed before and however often
\* the process came back in the middle of it.
THEOREM NoPaymentLost == Spec => []PaymentsFound
<1>1. FoundInv => PaymentsFound
  BY DEF FoundInv, PaymentsFound
<1> QED
  BY <1>1, FoundAlways, PTL

-----------------------------------------------------------------------------
(* No spend is lost.                                                         *)

\* Past the index, either no coin is one that the block spends or each is marked.
LEMMA SpentLoop ==
  ASSUME TypeInv, SpentInv, [Next]_vars, ~missed', pc' \in Matched, ~missed
  PROVE  SpendsSeen(wallet) \/ (GetSpentOutpointsIndex /\ SpendsSeen(wallet)')
<1>1. CASE pc \in Matched
  BY <1>1 DEF SpentInv, Matched
<1>2. CASE GetFilter
  <2>1. localOutpoints(wallet) \cap block.spends = {}
    BY <1>2 DEF GetFilter, Matched
  <2>2. \A c \in ToSet(wallet.utxos) : c.state # "spent" => c.key \in localOutpoints(wallet)
    BY DEF localOutpoints
  <2> QED
    BY <2>1, <2>2 DEF SpendsSeen
<1>3. CASE GetSpentOutpointsIndex
  <2> DEFINE keys == localOutpoints(wallet) \cap block.spends
             marked == MarkSpent(wallet.utxos, keys)
  <2>1. wallet' = [wallet EXCEPT !.utxos = marked] /\ block' = block
    BY <1>3 DEF GetSpentOutpointsIndex, Matched
  <2>2. wallet \in Wallets /\ wallet.utxos \in Seq(Coins)
    BY WalletFacts DEF TypeInv
  <2>3. \A c \in ToSet(marked) :
          c.state = "spent" \/ (c \in ToSet(wallet.utxos) /\ c.key \notin keys)
    BY <2>2, MarkFacts
  <2>4. \A c \in ToSet(wallet.utxos) :
          c.state = "spent" \/ c.key \in keys \/ c.key \notin block.spends
    BY DEF localOutpoints
  <2> HIDE DEF marked, keys
  <2>5. wallet'.utxos = marked
    BY <2>1, <2>2, WalletFacts
  <2>6. SpendsSeen(wallet)'
    BY <2>1, <2>3, <2>4, <2>5 DEF SpendsSeen
  <2> QED
    BY <1>3, <2>6
<1>4. pc \in Matched \/ GetFilter \/ GetSpentOutpointsIndex
  BY DEF Next, Scan, Flush, vars, loop, Begin, GetTweaks, GetUTXOs, AppendUTXO, EnterMapping,
         SetLastScanHeight, TruncateFile, FillFile, Interrupt, ReadLastScanHeight, ReadUTXOs,
         ReadUTXOMapping, FlushTruncates, FlushFills, Restart, Matched
<1> QED
  BY <1>1, <1>2, <1>3, <1>4

LEMMA SpentStep == TypeInv /\ FlushInv /\ SpentInv /\ [Next]_vars => SpentInv'
<1> SUFFICES ASSUME TypeInv, FlushInv, SpentInv, [Next]_vars
             PROVE  SpentInv'
  OBVIOUS
<1>1. block' = block /\ block \in Blocks
  BY BlockFixed DEF TypeInv
<1>2. \A c \in todo' : c.key \in block'.spends => c.state = "spent"
  <2>1. todo' \subseteq todo \/ todo' \in OwnedUTXOs(block)
    BY DEF Next, Scan, Flush, vars, loop, Begin, GetFilter, GetSpentOutpointsIndex, GetTweaks,
           GetUTXOs, AppendUTXO, EnterMapping, SetLastScanHeight, TruncateFile, FillFile,
           Interrupt, ReadLastScanHeight, ReadUTXOs, ReadUTXOMapping, FlushTruncates, FlushFills,
           Restart
  <2>2. CASE todo' \subseteq todo
    BY <1>1, <2>2 DEF SpentInv
  <2>3. CASE todo' \in OwnedUTXOs(block)
    BY <1>1, <2>3, ServedCoins
  <2> QED
    BY <2>1, <2>2, <2>3
<1>3. ASSUME ~missed'
      PROVE  /\ pc' \in Matched \/ wallet'.last = 1 => SpendsSeen(wallet)'
             /\ file'.last = 1 => SpendsSeen(file)'
             /\ data'.last = 1 => SpendsSeen(data)'
             /\ flush' \in {"mapping", "truncate", "fill"} /\ copy'.last = 1 => SpendsSeen(copy)'
  <2>1. ~missed
    BY <1>3 DEF Next, Scan, Flush, vars, loop, exit, Begin, GetFilter, GetSpentOutpointsIndex,
                GetTweaks, GetUTXOs, AppendUTXO, EnterMapping, SetLastScanHeight, TruncateFile,
                FillFile, Interrupt, ReadLastScanHeight, ReadUTXOs, ReadUTXOMapping,
                FlushTruncates, FlushFills, Restart
  <2>2. /\ pc \in Matched \/ wallet.last = 1 => SpendsSeen(wallet)
        /\ file.last = 1 => SpendsSeen(file)
        /\ data.last = 1 => SpendsSeen(data)
        /\ flush \in {"mapping", "truncate", "fill"} /\ copy.last = 1 => SpendsSeen(copy)
    BY <2>1 DEF SpentInv, Matched
  <2>3. Torn.last = 0
    BY EmptyFacts
  <2>4. ASSUME SpendsSeen(wallet), ~Restart
        PROVE  SpendsSeen(wallet)'
    <3>1. \A c \in ToSet(wallet'.utxos) :
            c \in ToSet(wallet.utxos) \/ c.state = "spent" \/ c \in todo
      BY <2>4, WalletStep
    <3> QED
      BY <1>1, <2>4, <3>1 DEF SpendsSeen, SpentInv
  <2>5. Restart => wallet' = file /\ pc' \notin Matched
    BY DEF Restart, Matched
  <2>6. ASSUME pc' \in Matched
        PROVE  SpendsSeen(wallet)'
    BY <1>3, <2>1, <2>4, <2>5, <2>6, SpentLoop
  <2>7. ASSUME wallet'.last = 1, ~Restart
        PROVE  SpendsSeen(wallet)'
    <3>1. wallet.last = 1 \/ pc \in Matched
      BY <2>7, WalletStep DEF Matched
    <3> QED
      BY <2>2, <2>4, <2>7, <3>1
  <2>8. ASSUME wallet'.last = 1, Restart
        PROVE  SpendsSeen(wallet)'
    BY <1>1, <2>2, <2>5, <2>8 DEF SpendsSeen
  <2>9. ASSUME data'.last = 1
        PROVE  SpendsSeen(data)'
    BY <1>1, <2>2, <2>3, <2>9, CopiesStep DEF SpendsSeen
  <2>10. ASSUME flush' \in {"mapping", "truncate", "fill"}, copy'.last = 1
         PROVE  SpendsSeen(copy)'
    <3>1. \/ copy'.utxos = wallet.utxos /\ wallet.last = 1
          \/ copy'.utxos = copy.utxos /\ copy.last = 1 /\ flush \in {"mapping", "truncate", "fill"}
      BY <2>10, FlushStep DEF FlushInv
    <3> QED
      BY <1>1, <2>2, <3>1 DEF SpendsSeen
  <2>11. ASSUME file'.last = 1
         PROVE  SpendsSeen(file)'
    BY <1>1, <2>2, <2>3, <2>11, CopiesStep DEF SpendsSeen
  <2> QED
    BY <2>6, <2>7, <2>8, <2>9, <2>10, <2>11
<1> QED
  BY <1>2, <1>3 DEF SpentInv, Matched

LEMMA SpentAlways == Spec => [](TypeInv /\ FlushInv /\ SpentInv)
<1>1. Init => SpentInv
  BY OldFacts, EmptyFacts DEF Init, SpentInv, Matched
<1>2. TypeInv /\ FlushInv /\ SpentInv /\ [Next]_vars => SpentInv'
  BY SpentStep
<1> QED
  BY <1>1, <1>2, FlushAlways, PTL DEF Spec

\* A coin that a scanned block spends is spent, whether or not a spend of it was
\* pending, unless the oracle had no index to answer with.
THEOREM NoSpendLost == Spec => []SpendsMarked
<1>1. SpentInv => SpendsMarked
  BY DEF SpentInv, SpendsMarked
<1> QED
  BY <1>1, SpentAlways, PTL

\* What the file claims to have scanned it has the coins and the spends of: also when
\* the flush wrote it while the loop went on, which read the height before the coins.
THEOREM FileIsBehind == Spec => []FileNeverAhead
<1>1. FoundInv /\ SpentInv => FileNeverAhead
  BY DEF FoundInv, SpentInv, FileNeverAhead
<1> QED
  BY <1>1, FoundAlways, SpentAlways, PTL
=============================================================================
