--------------------------- MODULE MigrationBooks ---------------------------
(***************************************************************************)
(* Theorems about the values in Migration: whatever the node has, every    *)
(* account's balance is exact.                                             *)
(*                                                                         *)
(* Conserved is no property of a step: an eviction removes several         *)
(* transactions at once, and the coins of one that stays may have been     *)
(* made by any other.  It follows from BooksInOrder, which says of each    *)
(* transaction that its own outputs and inputs balance, and of all of them *)
(* that they share no coin.  That is inductive, and adds up by induction   *)
(* over the transactions the node has.                                     *)
(***************************************************************************)
EXTENDS MigrationProofs, SumLemmas

-----------------------------------------------------------------------------
(***************************************************************************)
(* What a set of coins is worth: nothing without coins, the value of the   *)
(* one coin, and the parts of it together.                                 *)
(***************************************************************************)
Coins(S) == IsFiniteSet(S) /\ \A c \in S : c.value \in Int

LEMMA WorthOfNone == SumOf({}) = 0
BY SumEmpty DEF SumOf

(***************************************************************************)
(* The worth of one coin, or of one recipient.                             *)
(***************************************************************************)
LEMMA WorthOfOne == ASSUME NEW c, c.value \in Int PROVE SumOf({c}) = c.value
<1> DEFINE w == [x \in {c} |-> x.value]
<1>1. w[c] = c.value
  OBVIOUS
<1> HIDE DEF w
<1>2. SumFunctionOnSet(w, {c}) = w[c]
  BY <1>1, SumOne
<1> QED
  BY <1>1, <1>2 DEF SumOf, w

(***************************************************************************)
(* The worth of two sets that share no coin.                               *)
(***************************************************************************)
LEMMA WorthOfUnion ==
    ASSUME NEW A, NEW B, Coins(A), Coins(B), A \cap B = {}
    PROVE  /\ SumOf(A \cup B) = SumOf(A) + SumOf(B)
           /\ Coins(A \cup B) /\ SumOf(A) \in Int /\ SumOf(B) \in Int
<1> DEFINE w == [c \in A \cup B |-> c.value]
           v == [c \in A |-> c.value]
           u == [c \in B |-> c.value]
<1> USE DEF Coins
<1>1. \A c \in A \cup B : w[c] \in Int
  OBVIOUS
<1>2. (\A c \in A : w[c] = v[c]) /\ (\A c \in A : v[c] \in Int)
  OBVIOUS
<1>3. (\A c \in B : w[c] = u[c]) /\ (\A c \in B : u[c] \in Int)
  OBVIOUS
<1>4. SumOf(A \cup B) = SumFunctionOnSet(w, A \cup B)
      /\ SumOf(A) = SumFunctionOnSet(v, A) /\ SumOf(B) = SumFunctionOnSet(u, B)
  BY DEF SumOf
<1>5. IsFiniteSet(A \cup B)
  BY FS_Union
<1> HIDE DEF w, v, u
<1>6. SumFunctionOnSet(w, A \cup B) = SumFunctionOnSet(w, A) + SumFunctionOnSet(w, B)
  BY <1>1, SumUnion
<1>7. SumFunctionOnSet(w, A) = SumFunctionOnSet(v, A)
  BY <1>2, SumSame
<1>8. SumFunctionOnSet(w, B) = SumFunctionOnSet(u, B)
  BY <1>3, SumSame
<1>9. SumFunctionOnSet(v, A) \in Int /\ SumFunctionOnSet(u, B) \in Int
  BY <1>2, <1>3, SumType
<1> QED
  BY <1>4, <1>5, <1>6, <1>7, <1>8, <1>9

(***************************************************************************)
(* The worth of coins is a number, and at least that of one of them when   *)
(* none is negative.                                                       *)
(***************************************************************************)
LEMMA WorthIsInt == ASSUME NEW S, Coins(S) PROVE SumOf(S) \in Int
BY WorthOfUnion, WorthOfNone, FS_EmptySet DEF Coins

(***************************************************************************)
(* Coins are worth something.                                              *)
(***************************************************************************)
LEMMA WorthIsPositive ==
    ASSUME NEW S, IsFiniteSet(S), S # {}, \A c \in S : c.value \in Nat \ {0}
    PROVE  SumOf(S) \in Nat \ {0}
<1> DEFINE w == [c \in S |-> c.value]
<1>1. \A c \in S : w[c] \in Nat /\ w[c] > 0
  OBVIOUS
<1>2. SumOf(S) = SumFunctionOnSet(w, S)
  BY DEF SumOf
<1> HIDE DEF w
<1>3. SumFunctionOnSet(w, S) \in Nat /\ \A x \in S : SumFunctionOnSet(w, S) >= w[x]
  BY <1>1, SumNat
<1>4. PICK c \in S : TRUE
  OBVIOUS
<1> QED
  BY <1>1, <1>2, <1>3, <1>4

-----------------------------------------------------------------------------
(***************************************************************************)
(* What an account has of some coins, and of all coins if all are its own. *)
(***************************************************************************)
Own(a, S) == {c \in S : AccountOf(c.script) = a}

LEMMA BalanceIsWorth == ASSUME NEW a, NEW S PROVE BalanceOf(a, S) = SumOf(Own(a, S))
BY DEF BalanceOf, Own

(***************************************************************************)
(* The coins of an account are coins.                                      *)
(***************************************************************************)
LEMMA OwnAreCoins ==
    ASSUME NEW a, NEW S, Coins(S)
    PROVE  Coins(Own(a, S)) /\ BalanceOf(a, S) \in Int
<1>1. Own(a, S) \in SUBSET S
  BY DEF Own
<1>2. Coins(Own(a, S))
  BY <1>1, FS_Subset DEF Coins
<1> QED
  BY <1>2, WorthIsInt, BalanceIsWorth

(***************************************************************************)
(* A balance of two sets that share no coin.                               *)
(***************************************************************************)
LEMMA BalanceOfUnion ==
    ASSUME NEW a, NEW A, NEW B, Coins(A), Coins(B), A \cap B = {}
    PROVE  BalanceOf(a, A \cup B) = BalanceOf(a, A) + BalanceOf(a, B)
<1>1. Own(a, A \cup B) = Own(a, A) \cup Own(a, B) /\ Own(a, A) \cap Own(a, B) = {}
  BY DEF Own
<1>2. Coins(Own(a, A)) /\ Coins(Own(a, B))
  BY OwnAreCoins
<1>3. SumOf(Own(a, A) \cup Own(a, B)) = SumOf(Own(a, A)) + SumOf(Own(a, B))
  BY <1>1, <1>2, WorthOfUnion
<1> QED
  BY <1>1, <1>3, BalanceIsWorth

(***************************************************************************)
(* A balance without some of the coins.                                    *)
(***************************************************************************)
LEMMA BalanceOfRest ==
    ASSUME NEW a, NEW A, NEW B \in SUBSET A, Coins(A)
    PROVE  BalanceOf(a, A \ B) = BalanceOf(a, A) - BalanceOf(a, B)
<1>1. Coins(B) /\ Coins(A \ B)
  BY FS_Subset, FS_Difference DEF Coins
<1>2. (A \ B) \cup B = A /\ (A \ B) \cap B = {}
  OBVIOUS
<1>3. BalanceOf(a, A) = BalanceOf(a, A \ B) + BalanceOf(a, B)
  BY <1>1, <1>2, BalanceOfUnion
<1>4. BalanceOf(a, A \ B) \in Int /\ BalanceOf(a, B) \in Int
  BY <1>1, OwnAreCoins
<1> QED
  BY <1>3, <1>4

(***************************************************************************)
(* A set with no coin of an account is worth nothing to it.                *)
(***************************************************************************)
LEMMA NoBalance ==
    ASSUME NEW a, NEW S, \A c \in S : AccountOf(c.script) # a
    PROVE  BalanceOf(a, S) = 0
<1>1. Own(a, S) = {}
  BY DEF Own
<1> QED
  BY <1>1, BalanceIsWorth, WorthOfNone

-----------------------------------------------------------------------------
(***************************************************************************)
(* The sum of a quantity of transactions, one transaction more.            *)
(***************************************************************************)
Outs(txs) == UNION {tx.outs : tx \in txs}
Ins(txs)  == UNION {tx.ins : tx \in txs}

LEMMA OneMore ==
    ASSUME NEW T, IsFiniteSet(T), NEW x \in T, NEW a, 
           \A tx \in T : Gives(a, tx) \in Int /\ Gets(a, tx) \in Int
    PROVE  /\ Spent(a, T) = Gives(a, x) + Spent(a, T \ {x})
           /\ Received(a, T) = Gets(a, x) + Received(a, T \ {x})
           /\ Spent(a, T \ {x}) \in Int /\ Received(a, T \ {x}) \in Int
<1> DEFINE U == T \ {x}
           g == [tx \in T |-> Gives(a, tx)]
           h == [tx \in T |-> Gets(a, tx)]
           gu == [tx \in U |-> Gives(a, tx)]
           hu == [tx \in U |-> Gets(a, tx)]
<1>1. /\ Spent(a, T) = SumFunctionOnSet(g, T) /\ Received(a, T) = SumFunctionOnSet(h, T)
      /\ Spent(a, U) = SumFunctionOnSet(gu, U) /\ Received(a, U) = SumFunctionOnSet(hu, U)
  BY DEF Spent, Received
<1>2. /\ \A tx \in T : g[tx] \in Int /\ h[tx] \in Int
      /\ \A tx \in U : g[tx] = gu[tx] /\ h[tx] = hu[tx]
      /\ \A tx \in U : gu[tx] \in Int /\ hu[tx] \in Int
      /\ g[x] = Gives(a, x) /\ h[x] = Gets(a, x)
  OBVIOUS
<1>3. IsFiniteSet(U)
  BY FS_RemoveElement
<1> HIDE DEF g, h, gu, hu
<1>4. SumFunctionOnSet(g, T) = g[x] + SumFunctionOnSet(g, U)
  BY <1>2, SumRemove
<1>5. SumFunctionOnSet(h, T) = h[x] + SumFunctionOnSet(h, U)
  BY <1>2, SumRemove
<1> HIDE DEF U
<1>6. SumFunctionOnSet(g, U) = SumFunctionOnSet(gu, U)
      /\ SumFunctionOnSet(h, U) = SumFunctionOnSet(hu, U)
  BY <1>2, <1>3, SumSame
<1>7. SumFunctionOnSet(gu, U) \in Int /\ SumFunctionOnSet(hu, U) \in Int
  BY <1>2, <1>3, SumType
<1> QED
  BY <1>1, <1>2, <1>4, <1>5, <1>6, <1>7 DEF U

(***************************************************************************)
(* Books over any of a finite set of transactions that share no input and  *)
(* no output: together they give an account what they take from it, less   *)
(* what its orders cost it.                                                *)
(***************************************************************************)
Separate(txs) == \A s, t \in txs :
    s # t => s.ins \cap t.ins = {} /\ s.outs \cap t.outs = {}

Accounted(a, tx) ==
    /\ Coins(tx.ins) /\ Coins(tx.outs)
    /\ Gives(a, tx) \in Int /\ Gets(a, tx) \in Int
    /\ BalanceOf(a, tx.outs) = BalanceOf(a, tx.ins) - Gives(a, tx) + Gets(a, tx)

LEMMA BalanceOfTxs ==
    ASSUME NEW txs, IsFiniteSet(txs), Separate(txs), NEW a, \A tx \in txs : Accounted(a, tx)
    PROVE  /\ BalanceOf(a, Outs(txs)) =
                  BalanceOf(a, Ins(txs)) - Spent(a, txs) + Received(a, txs)
           /\ Coins(Outs(txs)) /\ Coins(Ins(txs))
           /\ Spent(a, txs) \in Int /\ Received(a, txs) \in Int
<1> DEFINE Fine(T) == /\ BalanceOf(a, Outs(T)) = BalanceOf(a, Ins(T)) - Spent(a, T) + Received(a, T)
                      /\ Coins(Outs(T)) /\ Coins(Ins(T))
                      /\ Spent(a, T) \in Int /\ Received(a, T) \in Int
           Good == {T \in SUBSET txs : Fine(T)}
<1>1. ASSUME NEW T \in SUBSET txs, \A x \in T : T \ {x} \in Good
      PROVE  T \in Good
  <2>1. CASE T = {}
    <3>1. Outs(T) = {} /\ Ins(T) = {}
      BY <2>1 DEF Outs, Ins
    <3>2. Coins({}) /\ BalanceOf(a, {}) = 0
      BY NoBalance, FS_EmptySet DEF Coins
    <3>3. Spent(a, T) = 0 /\ Received(a, T) = 0
      BY <2>1, SumEmpty DEF Spent, Received
    <3>4. BalanceOf(a, Outs(T)) = 0 /\ BalanceOf(a, Ins(T)) = 0
      BY <3>1, <3>2
    <3>5. Fine(T)
      BY <3>1, <3>2, <3>3, <3>4
    <3> QED
      BY <3>5
  <2>2. CASE T # {}
    <3>1. PICK x : x \in T
      BY <2>2
    <3> DEFINE U == T \ {x}
    <3>2. Fine(U)
      BY <1>1, <3>1
    <3>3. Accounted(a, x) /\ IsFiniteSet(T)
      BY <3>1, FS_Subset
    <3>4. /\ Spent(a, T) = Gives(a, x) + Spent(a, U)
          /\ Received(a, T) = Gets(a, x) + Received(a, U)
      <4>1. \A tx \in T : Gives(a, tx) \in Int /\ Gets(a, tx) \in Int
        BY DEF Accounted
      <4> QED
        BY <4>1, <3>1, <3>3, OneMore
    <3>5. Outs(T) = x.outs \cup Outs(U) /\ Ins(T) = x.ins \cup Ins(U)
      BY <3>1 DEF Outs, Ins
    <3>6. x.outs \cap Outs(U) = {} /\ x.ins \cap Ins(U) = {}
      BY <3>1 DEF Outs, Ins, Separate
    <3>7. Coins(x.outs) /\ Coins(x.ins)
      BY <3>3 DEF Accounted
    <3> HIDE DEF U
    <3>8. BalanceOf(a, Outs(T)) = BalanceOf(a, x.outs) + BalanceOf(a, Outs(U))
      BY <3>2, <3>5, <3>6, <3>7, BalanceOfUnion
    <3>9. BalanceOf(a, Ins(T)) = BalanceOf(a, x.ins) + BalanceOf(a, Ins(U))
      BY <3>2, <3>5, <3>6, <3>7, BalanceOfUnion
    <3>10. Coins(Outs(T)) /\ Coins(Ins(T))
      <4>1. Coins(x.outs \cup Outs(U))
        BY <3>2, <3>6, <3>7, WorthOfUnion
      <4>2. Coins(x.ins \cup Ins(U))
        BY <3>2, <3>6, <3>7, WorthOfUnion
      <4> QED
        BY <3>5, <4>1, <4>2
    <3>11. /\ BalanceOf(a, x.ins) \in Int /\ BalanceOf(a, Ins(U)) \in Int
           /\ Gives(a, x) \in Int /\ Gets(a, x) \in Int
      BY <3>2, <3>3, <3>7, OwnAreCoins DEF Accounted
    <3>12. BalanceOf(a, x.outs) = BalanceOf(a, x.ins) - Gives(a, x) + Gets(a, x)
      BY <3>3 DEF Accounted
    <3>13. Fine(T)
      BY <3>2, <3>4, <3>8, <3>9, <3>10, <3>11, <3>12
    <3> HIDE DEF Fine
    <3> QED
      BY <3>13
  <2> QED
    BY <2>1, <2>2
<1>2. \A T \in SUBSET txs : T \in Good
  <2> HIDE DEF Good
  <2> QED
    BY <1>1, SubsetInduction
<1>3. Fine(txs)
  BY <1>2
<1> QED
  BY <1>3

(***************************************************************************)
(* Transactions with ids of their own share no output, and none makes a    *)
(* coin that was there at first.                                           *)
(***************************************************************************)
LEMMA OutputsApart ==
    ASSUME TypeOK, BooksInOrder, NEW s \in Made, NEW t \in Made, s # t
    PROVE  s.outs \cap t.outs = {} /\ s.outs \cap Funding = {}
<1>1. s.id # t.id
  BY DEF BooksInOrder, OwnIds
<1>2. (\A c \in s.outs : c.tx = s.id) /\ (\A c \in t.outs : c.tx = t.id)
  BY DEF BooksInOrder, CoinsNameTheirTx
<1>3. s.id \in Txid
  BY DEF Made, TypeOK, Tx
<1>4. \A c \in Funding : c.tx \notin Txid
  BY MigrationAssumption DEF MigrationAssumption
<1> QED
  BY <1>1, <1>2, <1>3, <1>4

(***************************************************************************)
(* Books in order add up: balances of the unspent coins are those of the   *)
(* first ones, less what was spent, and with what was received.            *)
(***************************************************************************)
LEMMA BooksAddUp == TypeOK /\ BooksInOrder => Conserved
<1> SUFFICES ASSUME TypeOK, BooksInOrder, NEW a \in Account
             PROVE  BalanceOf(a, Unspent(node)) =
                        BalanceOf(a, Funding) - Spent(a, node) + Received(a, node)
  BY DEF Conserved
<1>1. NoTx \notin node /\ node \subseteq Made
  <2>1. NoTx \notin Tx
    BY MigrationAssumption DEF NoTx, Tx, MigrationAssumption
  <2> QED
    BY <2>1 DEF TypeOK, Made
<1>2. Coins(Funding)
  BY MigrationAssumption DEF MigrationAssumption, Coins, Coin
<1>3. \A tx \in node : Accounted(a, tx)
  <2> SUFFICES ASSUME NEW tx \in node PROVE Accounted(a, tx)
    OBVIOUS
  <2>1. tx \in Tx /\ tx \in Made
    BY <1>1 DEF TypeOK
  <2>2. Coins(tx.ins) /\ Coins(tx.outs)
    BY <2>1 DEF BooksInOrder, AllFinite, Coins, Tx, Coin
  <2>3. Gives(a, tx) \in Int /\ Gets(a, tx) \in Int
    BY <2>1 DEF Gives, Gets, Tx
  <2>4. BalanceOf(a, tx.outs) = BalanceOf(a, tx.ins) - Gives(a, tx) + Gets(a, tx)
    BY <2>1 DEF BooksInOrder, Balanced
  <2> QED
    BY <2>2, <2>3, <2>4 DEF Accounted
<1>4. Separate(node) /\ IsFiniteSet(node)
  BY <1>1, OutputsApart DEF BooksInOrder, SpentOnce, AllFinite, Separate
<1>5. /\ BalanceOf(a, Outs(node)) = BalanceOf(a, Ins(node)) - Spent(a, node) + Received(a, node)
      /\ Coins(Outs(node)) /\ Coins(Ins(node))
      /\ Spent(a, node) \in Int /\ Received(a, node) \in Int
  BY <1>3, <1>4, BalanceOfTxs
<1>6. Funding \cap Outs(node) = {}
  <2> SUFFICES ASSUME NEW tx \in node PROVE tx.outs \cap Funding = {}
    BY DEF Outs
  <2>1. tx \in Made /\ tx.id \in Txid
    BY <1>1 DEF TypeOK, Tx
  <2> QED
    BY <2>1, MigrationAssumption DEF BooksInOrder, CoinsNameTheirTx, MigrationAssumption
<1>7. Ins(node) \in SUBSET (Funding \cup Outs(node))
  BY DEF Ins, Outs, BooksInOrder, SpentAreMade
<1>8. Unspent(node) = (Funding \cup Outs(node)) \ Ins(node)
  BY DEF Unspent, Outs, Ins
<1> DEFINE all == Funding \cup Outs(node)
<1>9. Coins(all) /\ BalanceOf(a, all) = BalanceOf(a, Funding) + BalanceOf(a, Outs(node))
  BY <1>2, <1>5, <1>6, WorthOfUnion, BalanceOfUnion
<1>10. BalanceOf(a, all \ Ins(node)) = BalanceOf(a, all) - BalanceOf(a, Ins(node))
  <2> HIDE DEF all
  <2> QED
    BY <1>7, <1>9, BalanceOfRest DEF all
<1>11. /\ BalanceOf(a, Funding) \in Int /\ BalanceOf(a, Ins(node)) \in Int
       /\ BalanceOf(a, Outs(node)) \in Int
  BY <1>2, <1>5, OwnAreCoins
<1> QED
  BY <1>5, <1>8, <1>9, <1>10, <1>11

-----------------------------------------------------------------------------
(***************************************************************************)
(* Books stay in order when nothing new is made, a new transaction has its *)
(* books in order, and what the node has is spent once and was made.       *)
(***************************************************************************)
FreshTx(tx) ==
    /\ \A t \in Made : t.id # tx.id
    /\ \A c \in tx.outs : c.tx = tx.id
    /\ Balanced(tx) /\ IsFiniteSet(tx.ins) /\ IsFiniteSet(tx.outs)

LEMMA BooksKept ==
    ASSUME BooksInOrder, NEW new, \A tx \in new : FreshTx(tx),
           \A s, t \in new : s = t, Made' \subseteq Made \cup new,
           SpentOnce', SpentAreMade',
           IsFiniteSet(node'), IsFiniteSet(store'), IsFiniteSet(hand')
    PROVE  BooksInOrder'
<1>1. \A tx \in Made' :
         /\ \A c \in tx.outs : c.tx = tx.id
         /\ Balanced(tx) /\ IsFiniteSet(tx.ins) /\ IsFiniteSet(tx.outs)
  BY DEF BooksInOrder, CoinsNameTheirTx, AllFinite, FreshTx
<1>2. OwnIds'
  BY DEF BooksInOrder, OwnIds, FreshTx
<1>3. CoinsNameTheirTx' /\ AllFinite' /\ \A tx \in Made' : Balanced(tx)
  BY <1>1 DEF CoinsNameTheirTx, AllFinite
<1> QED
  BY <1>2, <1>3 DEF BooksInOrder, Balanced

(***************************************************************************)
(* The same without a new transaction.                                     *)
(***************************************************************************)
LEMMA BooksUntouched ==
    ASSUME BooksInOrder, Made' \subseteq Made, SpentOnce', SpentAreMade',
           IsFiniteSet(node'), IsFiniteSet(store'), IsFiniteSet(hand')
    PROVE  BooksInOrder'
<1> DEFINE none == {}
<1>1. (\A tx \in none : FreshTx(tx)) /\ (\A s, t \in none : s = t)
      /\ Made' \subseteq Made \cup none
  OBVIOUS
<1> HIDE DEF none
<1> QED
  BY <1>1, BooksKept

(***************************************************************************)
(* Faults are counted up to their bound.                                   *)
(***************************************************************************)
LEMMA FaultCounted == TypeOK /\ Fault => faults' \in 0 .. MaxFaults
BY MigrationAssumption DEF TypeOK, Fault, MigrationAssumption

(***************************************************************************)
(* What the node has is in order while the node has the same.              *)
(***************************************************************************)
LEMMA SameNode ==
    ASSUME BooksInOrder, node' = node
    PROVE  SpentOnce' /\ SpentAreMade' /\ IsFiniteSet(node')
BY DEF BooksInOrder, SpentOnce, SpentAreMade, AllFinite

(***************************************************************************)
(* A transaction the node accepts spends coins nobody has spent.           *)
(***************************************************************************)
LEMMA NodeTakes ==
    ASSUME BooksInOrder, NEW tx, Accepts(tx), node' = node \cup {tx}
    PROVE  SpentOnce' /\ SpentAreMade' /\ IsFiniteSet(node')
<1>1. \A t \in node : t.ins \cap tx.ins = {}
  BY DEF Accepts, Unspent
<1>2. tx.ins \subseteq Funding \cup UNION {t.outs : t \in node'}
  BY DEF Accepts, Unspent
<1>3. SpentOnce'
  BY <1>1 DEF SpentOnce, BooksInOrder
<1>4. SpentAreMade'
  BY <1>2 DEF SpentAreMade, BooksInOrder
<1>5. IsFiniteSet(node')
  BY FS_AddElement DEF BooksInOrder, AllFinite
<1> QED
  BY <1>3, <1>4, <1>5

(***************************************************************************)
(* What an eviction leaves was made by what it leaves.                     *)
(***************************************************************************)
LEMMA NodeDrops ==
    ASSUME BooksInOrder, NEW gone, ClosedIn(gone, node), node' = node \ gone
    PROVE  SpentOnce' /\ SpentAreMade' /\ IsFiniteSet(node')
<1>1. SpentOnce'
  BY DEF SpentOnce, BooksInOrder
<1>2. SpentAreMade'
  <2> SUFFICES ASSUME NEW s \in node', NEW c \in s.ins, c \notin Funding
               PROVE  \E t \in node' : c \in t.outs
    BY DEF SpentAreMade
  <2>1. PICK t \in node : c \in t.outs
    BY DEF BooksInOrder, SpentAreMade
  <2>2. t \notin gone
    BY <2>1 DEF ClosedIn
  <2> QED
    BY <2>1, <2>2
<1>3. IsFiniteSet(node')
  BY FS_Difference DEF BooksInOrder, AllFinite
<1> QED
  BY <1>1, <1>2, <1>3

-----------------------------------------------------------------------------
(***************************************************************************)
(* The coins of inputs are coins, finitely many of finitely many inputs.   *)
(***************************************************************************)
LEMMA InputCoins ==
    ASSUME NEW inputs, inputs \subseteq Input, IsFiniteSet(inputs)
    PROVE  /\ CoinsOf(inputs) \subseteq Coin /\ IsFiniteSet(CoinsOf(inputs))
           /\ Coins(CoinsOf(inputs))
<1>1. CoinsOf(inputs) \subseteq Coin
  BY DEF CoinsOf, Input, Captured
<1> DEFINE f == [i \in inputs |-> i.utxo.coin]
<1>2. CoinsOf(inputs) = {f[i] : i \in inputs}
  BY DEF CoinsOf
<1> HIDE DEF f
<1>3. IsFiniteSet(CoinsOf(inputs))
  BY <1>2, ImageFinite
<1> QED
  BY <1>1, <1>3 DEF Coins, Coin

(***************************************************************************)
(* The rest of a transaction is what its inputs are worth, less what its   *)
(* recipients get and the fee.                                             *)
(***************************************************************************)
LEMMA RestIs ==
    ASSUME NEW inputs, inputs \subseteq Input, IsFiniteSet(inputs),
           NEW recipients, Coins(recipients), NEW fee \in Int
    PROVE  /\ Rest(inputs, recipients, fee) =
                  SumOf(CoinsOf(inputs)) - SumOf(recipients) - fee
           /\ Rest(inputs, recipients, fee) \in Int
           /\ SumOf(CoinsOf(inputs)) \in Int /\ SumOf(recipients) \in Int
<1>1. SumOf(CoinsOf(inputs)) \in Int /\ SumOf(recipients) \in Int
  BY InputCoins, WorthIsInt
<1> QED
  BY <1>1 DEF Rest

(***************************************************************************)
(* The outputs of a transaction name it.                                   *)
(***************************************************************************)
LEMMA OutputsName ==
    ASSUME NEW id, NEW inputs, NEW recipients, NEW rest_to, NEW fee
    PROVE  \A c \in Outputs(id, inputs, recipients, rest_to, fee) : c.tx = id
BY DEF Outputs, Paid

(***************************************************************************)
(* They are those of the recipients and the one of the rest.               *)
(***************************************************************************)
Output(id, script, value) == [tx |-> id, script |-> script, value |-> value]

LEMMA OutputsAre ==
    ASSUME NEW id, NEW inputs, NEW recipients, NEW rest_to, NEW fee, NEW c
    PROVE  c \in Outputs(id, inputs, recipients, rest_to, fee) <=>
               \/ \E r \in recipients : c = Output(id, r.script, r.value)
               \/ c = Output(id, rest_to, Rest(inputs, recipients, fee))
<1> DEFINE q == Recipient(rest_to, Rest(inputs, recipients, fee))
<1>1. q.script = rest_to /\ q.value = Rest(inputs, recipients, fee)
  BY DEF Recipient
<1>2. Outputs(id, inputs, recipients, rest_to, fee) =
          {Output(id, r.script, r.value) : r \in recipients \cup {q}}
  BY DEF Outputs, Paid, Output
<1> HIDE DEF q
<1> QED
  BY <1>1, <1>2

(***************************************************************************)
(* They are finitely many coins if the recipients are, and a transaction   *)
(* has its rest.                                                           *)
(***************************************************************************)
LEMMA OutputsAreCoins ==
    ASSUME NEW id \in Txid, NEW inputs, NEW recipients, IsFiniteSet(recipients),
           \A r \in recipients : r.script \in Script /\ r.value \in Nat \ {0},
           NEW rest_to \in Script, NEW fee,
           Rest(inputs, recipients, fee) \in Nat \ {0}
    PROVE  /\ Outputs(id, inputs, recipients, rest_to, fee) \subseteq Coin
           /\ IsFiniteSet(Outputs(id, inputs, recipients, rest_to, fee))
<1> DEFINE rest == Recipient(rest_to, Rest(inputs, recipients, fee))
           rs == recipients \cup {rest}
           f == [r \in rs |-> [tx |-> id, script |-> r.script, value |-> r.value]]
<1>1. Outputs(id, inputs, recipients, rest_to, fee) = {f[r] : r \in rs}
  BY DEF Outputs, Paid
<1>2. \A r \in rs : r.script \in Script /\ r.value \in Nat \ {0}
  BY DEF Recipient
<1>3. \A r \in rs : f[r] \in Coin
  BY <1>2 DEF Coin
<1>4. IsFiniteSet(rs)
  BY FS_AddElement
<1> HIDE DEF f, rs
<1>5. IsFiniteSet({f[r] : r \in rs})
  BY <1>4, ImageFinite
<1> QED
  BY <1>1, <1>3, <1>5

(***************************************************************************)
(* An account that gets one of the outputs and no other.                   *)
(***************************************************************************)
LEMMA OneOutput ==
    ASSUME NEW a, NEW outs, NEW c \in outs, AccountOf(c.script) = a, c.value \in Int,
           \A x \in outs : AccountOf(x.script) = a => x = c
    PROVE  BalanceOf(a, outs) = c.value
<1>1. Own(a, outs) = {c}
  BY DEF Own
<1> QED
  BY <1>1, BalanceIsWorth, WorthOfOne

(***************************************************************************)
(* The new id is nobody's.                                                 *)
(***************************************************************************)
LEMMA NewIdIsNew ==
    ASSUME Txid \ UsedIds # {}
    PROVE  NewId \in Txid /\ \A t \in Made : t.id # NewId
<1>1. NewId \in Txid \ UsedIds
  BY DEF NewId
<1>2. \A t \in Made : t.id \in UsedIds
  BY DEF Made, UsedIds
<1> QED
  BY <1>1, <1>2

-----------------------------------------------------------------------------
(***************************************************************************)
(* The coins in hand of some accounts.                                     *)
(***************************************************************************)
InHand(accounts) == {c \in CoinsOf(hand) : AccountOf(c.script) \in accounts}

LEMMA HandedCoins == \A accounts : CoinsOf(Handed(accounts)) = InHand(accounts)
BY DEF Handed, CoinsOf, InHand

(***************************************************************************)
(* The recipients of a batch get together what its customers hand in.      *)
(***************************************************************************)
RecipientOf(c) == Recipient(AddressOf(<<c, "new">>, "external", 1), SumOf(InHand({c})))

LEMMA RecipientsTotal ==
    ASSUME hand \subseteq Input, IsFiniteSet(hand), NEW batch, batch \subseteq Customer
    PROVE  /\ SumOf(RecipientsOf(batch)) = SumOf(InHand(batch))
           /\ Coins(RecipientsOf(batch)) /\ Coins(InHand(batch))
<1>0. IsFiniteSet(batch)
  BY FS_Subset, MigrationAssumption DEF MigrationAssumption
<1>1. \A B : Coins(InHand(B))
  <2>1. Coins(CoinsOf(hand))
    BY InputCoins
  <2> QED
    BY <2>1, FS_Subset DEF Coins, InHand
<1>2. \A B : RecipientsOf(B) = {RecipientOf(c) : c \in B}
  BY HandedCoins DEF RecipientsOf, RecipientOf
<1> DEFINE Fine(B) == /\ SumOf(RecipientsOf(B)) = SumOf(InHand(B))
                      /\ Coins(RecipientsOf(B))
           Good == {B \in SUBSET batch : Fine(B)}
<1>3. ASSUME NEW B \in SUBSET batch, \A c \in B : B \ {c} \in Good
      PROVE  B \in Good
  <2>1. CASE B = {}
    <3>1. RecipientsOf(B) = {} /\ InHand(B) = {}
      BY <2>1 DEF RecipientsOf, InHand
    <3>2. Coins({})
      BY FS_EmptySet DEF Coins
    <3>3. Fine(B)
      BY <3>1, <3>2
    <3> QED
      BY <3>3
  <2>2. CASE B # {}
    <3>1. PICK c : c \in B
      BY <2>2
    <3> DEFINE A == B \ {c}
               r == RecipientOf(c)
    <3>2. Fine(A)
      BY <1>3, <3>1
    <3>3. InHand(B) = InHand(A) \cup InHand({c}) /\ InHand(A) \cap InHand({c}) = {}
      BY <3>1 DEF InHand
    <3>4. SumOf(InHand(B)) = SumOf(InHand(A)) + SumOf(InHand({c}))
          /\ SumOf(InHand(A)) \in Int /\ SumOf(InHand({c})) \in Int
      BY <1>1, <3>3, WorthOfUnion
    <3>5. RecipientsOf(B) = RecipientsOf(A) \cup {r}
      BY <1>2, <3>1
    <3>6. r \notin RecipientsOf(A)
      <4> SUFFICES ASSUME NEW d \in A, r = RecipientOf(d) PROVE FALSE
        BY <1>2
      <4>1. AddressOf(<<c, "new">>, "external", 1) = AddressOf(<<d, "new">>, "external", 1)
        BY DEF RecipientOf, Recipient
      <4>2. c = d
        BY <4>1 DEF AddressOf
      <4> QED
        BY <4>2
    <3>7. r.value = SumOf(InHand({c}))
      BY DEF RecipientOf, Recipient
    <3>8. Coins({r}) /\ SumOf({r}) = SumOf(InHand({c}))
      BY <3>4, <3>7, WorthOfOne, FS_Singleton DEF Coins
    <3> HIDE DEF A, r
    <3>9. RecipientsOf(A) \cap {r} = {} /\ Coins(RecipientsOf(A))
      BY <3>2, <3>6
    <3>10. /\ SumOf(RecipientsOf(A) \cup {r}) = SumOf(RecipientsOf(A)) + SumOf({r})
           /\ Coins(RecipientsOf(A) \cup {r})
      BY <3>8, <3>9, WorthOfUnion
    <3>11. Fine(B)
      BY <3>2, <3>4, <3>5, <3>8, <3>10
    <3> HIDE DEF Fine
    <3> QED
      BY <3>11
  <2> QED
    BY <2>1, <2>2
<1>4. \A B \in SUBSET batch : B \in Good
  <2> HIDE DEF Good
  <2> QED
    BY <1>0, <1>3, SubsetInduction
<1> QED
  BY <1>1, <1>4

(***************************************************************************)
(* A hop that is funded is a transaction with its books in order: each     *)
(* customer of the batch gets what it hands in, and the fee account its    *)
(* own less the fee.                                                       *)
(***************************************************************************)
LEMMA HopInOrder ==
    ASSUME hand \subseteq Input, IsFiniteSet(hand), Txid \ UsedIds # {},
           NEW batch \in SUBSET Customer, batch \subseteq CustomersLeft,
           NEW fee \in 1 .. MaxFee,
           Funded(Handed(batch \cup {FeeAccount}), RecipientsOf(batch), fee)
    PROVE  LET tx == MigrationTx(NewId, FeeAccount, Handed(batch \cup {FeeAccount}),
                                 RecipientsOf(batch), FeeDest(batch), fee)
           IN  tx \in Tx /\ FreshTx(tx)
<1> DEFINE inputs == Handed(batch \cup {FeeAccount})
           recipients == RecipientsOf(batch)
           rest == Rest(inputs, recipients, fee)
           tx == MigrationTx(NewId, FeeAccount, inputs, recipients, FeeDest(batch), fee)
<1>0. fee \in Nat /\ FeeAccount \in Account /\ FeeAccount \notin batch /\ batch \subseteq Account
  BY MigrationAssumption DEF MigrationAssumption
<1>1. inputs \subseteq Input /\ IsFiniteSet(inputs)
  <2>1. inputs \in SUBSET hand
    BY DEF Handed
  <2> QED
    BY <2>1, FS_Subset
<1>2. /\ CoinsOf(inputs) = InHand(batch \cup {FeeAccount})
      /\ CoinsOf(inputs) \subseteq Coin /\ IsFiniteSet(CoinsOf(inputs)) /\ Coins(CoinsOf(inputs))
  BY <1>1, HandedCoins, InputCoins
<1>3. /\ SumOf(recipients) = SumOf(InHand(batch))
      /\ Coins(recipients) /\ Coins(InHand(batch))
  BY RecipientsTotal
<1>4. Coins(InHand({FeeAccount}))
  <2>1. InHand({FeeAccount}) \in SUBSET CoinsOf(inputs)
    BY <1>2 DEF InHand
  <2> QED
    BY <2>1, <1>2, FS_Subset DEF Coins
<1>5. /\ rest = SumOf(InHand({FeeAccount})) - fee
      /\ rest \in Nat \ {0}
  <2>1. /\ rest = SumOf(CoinsOf(inputs)) - SumOf(recipients) - fee /\ rest \in Int
    <3> HIDE DEF inputs, recipients
    <3> QED
      BY <1>0, <1>1, <1>3, RestIs
  <2>2. /\ CoinsOf(inputs) = InHand(batch) \cup InHand({FeeAccount})
        /\ InHand(batch) \cap InHand({FeeAccount}) = {}
    BY <1>0, <1>2 DEF InHand
  <2>3. /\ SumOf(CoinsOf(inputs)) = SumOf(InHand(batch)) + SumOf(InHand({FeeAccount}))
        /\ SumOf(InHand(batch)) \in Int /\ SumOf(InHand({FeeAccount})) \in Int
    BY <1>3, <1>4, <2>2, WorthOfUnion
  <2>4. rest > 0
    BY DEF Funded
  <2> HIDE DEF rest
  <2> QED
    BY <1>0, <1>3, <2>1, <2>3, <2>4
<1>6. FeeDest(batch) \in Script /\ AccountOf(FeeDest(batch)) = FeeAccount
  <2>1. FeeDest(batch) \in Script
    BY AddressIsScript, <1>0 DEF FeeDest, ChangeDest, Version, Keychain
  <2>2. FeeDest(batch) \in {<<FeeAccount, "new", "external", 1>>,
                             <<FeeAccount, "old", "external", 0>>}
    BY DEF FeeDest, ChangeDest, AddressOf
  <2> QED
    BY <2>1, <2>2 DEF AccountOf
<1>7. \A r \in recipients : \E c \in batch : r = RecipientOf(c)
  BY HandedCoins DEF RecipientsOf, RecipientOf
<1>8. ASSUME NEW c \in batch
      PROVE  /\ RecipientOf(c) \in recipients
             /\ RecipientOf(c).script \in Script /\ AccountOf(RecipientOf(c).script) = c
             /\ RecipientOf(c).value = SumOf(InHand({c}))
             /\ RecipientOf(c).value \in Nat \ {0}
  <2>1. RecipientOf(c) \in recipients
    BY HandedCoins DEF RecipientsOf, RecipientOf
  <2>2. AddressOf(<<c, "new">>, "external", 1) \in Script
    BY <1>0, AddressIsScript DEF Version, Keychain
  <2>3. /\ RecipientOf(c).script = AddressOf(<<c, "new">>, "external", 1)
        /\ RecipientOf(c).value = SumOf(InHand({c}))
    BY DEF RecipientOf, Recipient
  <2>4. AccountOf(RecipientOf(c).script) = c
    BY <2>3 DEF AddressOf, AccountOf
  <2>5. InHand({c}) # {}
    BY HandedCoins DEF CustomersLeft, CoinsOf
  <2>6. InHand({c}) \in SUBSET CoinsOf(inputs)
    BY <1>2 DEF InHand
  <2>7. IsFiniteSet(InHand({c})) /\ \A x \in InHand({c}) : x.value \in Nat \ {0}
    BY <2>6, <1>2, FS_Subset DEF Coin
  <2>8. SumOf(InHand({c})) \in Nat \ {0}
    BY <2>5, <2>7, WorthIsPositive
  <2> QED
    BY <2>1, <2>2, <2>3, <2>4, <2>8
<1>9. \A r \in recipients : r.script \in Script /\ r.value \in Nat \ {0}
  BY <1>7, <1>8
<1>10. NewId \in Txid /\ \A t \in Made : t.id # NewId
  BY NewIdIsNew
<1> DEFINE outs == Outputs(NewId, inputs, recipients, FeeDest(batch), fee)
<1>11. outs \subseteq Coin /\ IsFiniteSet(outs) /\ \A c \in outs : c.tx = NewId
  <2>1. IsFiniteSet(recipients)
    BY <1>3 DEF Coins
  <2> HIDE DEF inputs, recipients
  <2> QED
    BY <1>5, <1>6, <1>9, <1>10, <2>1, OutputsAreCoins, OutputsName
<1>12. ASSUME NEW x
       PROVE  x \in outs <=> \/ \E c \in batch : x = Output(NewId, RecipientOf(c).script,
                                                            RecipientOf(c).value)
                             \/ x = Output(NewId, FeeDest(batch), rest)
  <2> HIDE DEF inputs, recipients
  <2>1. x \in outs <=> \/ \E r \in recipients : x = Output(NewId, r.script, r.value)
                       \/ x = Output(NewId, FeeDest(batch), rest)
    BY OutputsAre
  <2> QED
    BY <1>7, <1>8, <2>1
<1>13. \A script, value : /\ Output(NewId, script, value).script = script
                          /\ Output(NewId, script, value).value = value
  BY DEF Output
<1> DEFINE paid(c) == Output(NewId, RecipientOf(c).script, RecipientOf(c).value)
           kept == Output(NewId, FeeDest(batch), rest)
<1>14. ASSUME NEW x \in outs
       PROVE  \/ \E c \in batch : x = paid(c) /\ AccountOf(x.script) = c
              \/ x = kept /\ AccountOf(x.script) = FeeAccount
  <2> HIDE DEF outs, rest
  <2>1. CASE \E c \in batch : x = paid(c)
    <3>1. PICK c \in batch : x = paid(c)
      BY <2>1
    <3>2. x.script = RecipientOf(c).script
      BY <3>1, <1>13
    <3>3. AccountOf(x.script) = c
      BY <3>2, <1>8
    <3> QED
      BY <3>1, <3>3
  <2>2. CASE x = kept
    <3>1. x.script = FeeDest(batch)
      BY <2>2, <1>13
    <3> QED
      BY <2>2, <3>1, <1>6
  <2> QED
    BY <1>12, <2>1, <2>2
<1>15. /\ tx.id = NewId /\ tx.payer = FeeAccount /\ tx.payee = FeeAccount /\ tx.amount = 0
       /\ tx.ins = CoinsOf(inputs) /\ tx.outs = outs /\ tx.fee = fee
  BY DEF MigrationTx
<1>16. tx \in Tx
  <2>1. tx = [id |-> NewId, payer |-> FeeAccount, payee |-> FeeAccount, amount |-> 0,
              ins |-> CoinsOf(inputs), outs |-> outs, fee |-> fee, migrates |-> TRUE]
    BY DEF MigrationTx
  <2>2. CoinsOf(inputs) \in SUBSET Coin /\ outs \in SUBSET Coin /\ 0 \in Nat
    BY <1>2, <1>11
  <2> HIDE DEF outs, tx, inputs
  <2> QED
    BY <1>0, <1>10, <2>1, <2>2 DEF Tx
<1>17. ASSUME NEW a \in Account
       PROVE  BalanceOf(a, outs) = BalanceOf(a, CoinsOf(inputs)) - Gives(a, tx) + Gets(a, tx)
  <2>1. CASE a = FeeAccount
    <3>1. Gives(a, tx) = fee /\ Gets(a, tx) = 0
      BY <1>0, <1>15, <2>1 DEF Gives, Gets
    <3>2. BalanceOf(a, CoinsOf(inputs)) = SumOf(InHand({FeeAccount}))
      <4>1. Own(a, CoinsOf(inputs)) = InHand({FeeAccount})
        BY <1>2, <2>1 DEF Own, InHand
      <4> QED
        BY <4>1, BalanceIsWorth
    <3>3. BalanceOf(a, outs) = rest
      <4> DEFINE c == kept
      <4> HIDE DEF outs, rest
      <4>1. c \in outs /\ AccountOf(c.script) = a /\ c.value = rest
        BY <1>6, <1>12, <1>13, <2>1
      <4>2. \A x \in outs : AccountOf(x.script) = a => x = c
        <5> HIDE DEF kept, paid
        <5> QED
          BY <1>0, <1>14, <2>1
      <4> HIDE DEF c, outs, rest
      <4> QED
        BY <1>5, <4>1, <4>2, OneOutput
    <3>4. SumOf(InHand({FeeAccount})) \in Int
      BY <1>4, WorthIsInt
    <3> HIDE DEF tx, outs, rest, inputs
    <3> QED
      BY <1>0, <1>5, <3>1, <3>2, <3>3, <3>4
  <2>2. CASE a # FeeAccount
    <3>1. Gives(a, tx) = 0 /\ Gets(a, tx) = 0
      BY <1>15, <2>2 DEF Gives, Gets
    <3>2. CASE a \in batch
      <4> DEFINE c == paid(a)
      <4> HIDE DEF outs, rest
      <4>1. c \in outs /\ AccountOf(c.script) = a /\ c.value = SumOf(InHand({a}))
        BY <1>8, <1>12, <1>13, <3>2
      <4>2. \A x \in outs : AccountOf(x.script) = a => x = c
        <5> HIDE DEF kept, paid
        <5> QED
          BY <1>14, <2>2
      <4>3. SumOf(InHand({a})) \in Int
        BY <1>8, <3>2
      <4>4. Own(a, CoinsOf(inputs)) = InHand({a})
        BY <1>2, <3>2 DEF Own, InHand
      <4>5. BalanceOf(a, CoinsOf(inputs)) = SumOf(InHand({a}))
        BY <4>4, BalanceIsWorth
      <4> HIDE DEF c, outs, tx, inputs
      <4>6. BalanceOf(a, outs) = SumOf(InHand({a}))
        BY <4>1, <4>2, <4>3, OneOutput
      <4> QED
        BY <3>1, <4>3, <4>5, <4>6
    <3>3. CASE a \notin batch
      <4>1. \A x \in outs : AccountOf(x.script) # a
        <5> HIDE DEF outs, kept, paid
        <5> QED
          BY <1>14, <2>2, <3>3
      <4>2. \A x \in CoinsOf(inputs) : AccountOf(x.script) # a
        BY <1>2, <2>2, <3>3 DEF InHand
      <4> HIDE DEF outs, tx, inputs
      <4>3. BalanceOf(a, outs) = 0 /\ BalanceOf(a, CoinsOf(inputs)) = 0
        BY <4>1, <4>2, NoBalance
      <4> QED
        BY <3>1, <4>3
    <3> QED
      BY <3>2, <3>3
  <2> QED
    BY <2>1, <2>2
<1>18. FreshTx(tx)
  <2> HIDE DEF tx, outs, inputs
  <2>1. Balanced(tx)
    BY <1>15, <1>17 DEF Balanced
  <2> QED
    BY <2>1, <1>2, <1>10, <1>11, <1>15 DEF FreshTx
<1> QED
  BY <1>16, <1>18

-----------------------------------------------------------------------------
(***************************************************************************)
(* The inputs of an ordinary order are an account's own: all of their      *)
(* worth is its balance.                                                   *)
(***************************************************************************)
LEMMA OwnInputs ==
    ASSUME NEW a, NEW inputs, \A c \in CoinsOf(inputs) : AccountOf(c.script) = a
    PROVE  /\ BalanceOf(a, CoinsOf(inputs)) = SumOf(CoinsOf(inputs))
           /\ \A b : b # a => BalanceOf(b, CoinsOf(inputs)) = 0
<1>1. Own(a, CoinsOf(inputs)) = CoinsOf(inputs)
  BY DEF Own
<1>2. ASSUME NEW b, b # a PROVE BalanceOf(b, CoinsOf(inputs)) = 0
  BY <1>2, NoBalance
<1> QED
  BY <1>1, <1>2, BalanceIsWorth

(***************************************************************************)
(* A sweep gives its account all it takes, less the fee.                   *)
(***************************************************************************)
LEMMA SweepInOrder ==
    ASSUME Txid \ UsedIds # {}, NEW a \in Account, NEW version \in Version, NEW fee \in Nat,
           NEW inputs, inputs \subseteq Input, IsFiniteSet(inputs),
           \A c \in CoinsOf(inputs) : AccountOf(c.script) = a,
           NEW dest \in Script, AccountOf(dest) = a, Funded(inputs, {}, fee)
    PROVE  LET tx == SweepTx(NewId, <<a, version>>, inputs, dest, fee)
           IN  tx \in Tx /\ FreshTx(tx)
<1> DEFINE tx == SweepTx(NewId, <<a, version>>, inputs, dest, fee)
           outs == Outputs(NewId, inputs, {}, dest, fee)
           rest == Rest(inputs, {}, fee)
           kept == Output(NewId, dest, rest)
<1>1. /\ rest = SumOf(CoinsOf(inputs)) - fee /\ rest \in Nat \ {0}
      /\ SumOf(CoinsOf(inputs)) \in Int
  <2>1. Coins({}) /\ SumOf({}) = 0 /\ fee \in Int
    BY WorthOfNone, FS_EmptySet DEF Coins
  <2>2. /\ Rest(inputs, {}, fee) = SumOf(CoinsOf(inputs)) - SumOf({}) - fee
        /\ Rest(inputs, {}, fee) \in Int /\ SumOf(CoinsOf(inputs)) \in Int
    BY <2>1, RestIs
  <2>3. rest > 0
    BY DEF Funded
  <2> HIDE DEF rest
  <2> QED
    BY <2>1, <2>2, <2>3 DEF rest
<1>2. CoinsOf(inputs) \subseteq Coin /\ IsFiniteSet(CoinsOf(inputs))
  BY InputCoins
<1>3. NewId \in Txid /\ \A t \in Made : t.id # NewId
  BY NewIdIsNew
<1>4. outs \subseteq Coin /\ IsFiniteSet(outs) /\ \A c \in outs : c.tx = NewId
  BY <1>1, <1>3, FS_EmptySet, OutputsAreCoins, OutputsName
<1>5. tx = [id |-> NewId, payer |-> a, payee |-> a, amount |-> rest,
            ins |-> CoinsOf(inputs), outs |-> outs, fee |-> fee, migrates |-> FALSE]
  BY DEF SweepTx
<1>6. /\ tx.id = NewId /\ tx.payer = a /\ tx.payee = a /\ tx.amount = rest
      /\ tx.ins = CoinsOf(inputs) /\ tx.outs = outs /\ tx.fee = fee
  BY <1>5
<1>7. tx \in Tx
  <2>1. CoinsOf(inputs) \in SUBSET Coin /\ outs \in SUBSET Coin /\ rest \in Nat
    BY <1>1, <1>2, <1>4
  <2> HIDE DEF outs, tx, rest
  <2> QED
    BY <1>3, <1>5, <2>1 DEF Tx
<1>8. kept \in outs /\ \A x \in outs : x = kept
  <2>1. \A x : x \in outs <=> x = kept
    BY OutputsAre
  <2> QED
    BY <2>1
<1>9. kept.script = dest /\ kept.value = rest
  BY DEF Output
<1>10. ASSUME NEW b \in Account
       PROVE  BalanceOf(b, outs) = BalanceOf(b, CoinsOf(inputs)) - Gives(b, tx) + Gets(b, tx)
  <2> HIDE DEF kept, outs, tx, rest
  <2>1. CASE b = a
    <3>1. Gives(b, tx) = fee + rest /\ Gets(b, tx) = rest
      BY <1>6, <2>1 DEF Gives, Gets
    <3>2. BalanceOf(b, CoinsOf(inputs)) = SumOf(CoinsOf(inputs))
      BY <2>1, OwnInputs
    <3>3. BalanceOf(b, outs) = rest
      BY <1>1, <1>8, <1>9, <2>1, OneOutput
    <3> QED
      BY <1>1, <3>1, <3>2, <3>3
  <2>2. CASE b # a
    <3>1. Gives(b, tx) = 0 /\ Gets(b, tx) = 0
      BY <1>6, <2>2 DEF Gives, Gets
    <3>2. BalanceOf(b, CoinsOf(inputs)) = 0
      BY <2>2, OwnInputs
    <3>3. BalanceOf(b, outs) = 0
      BY <1>8, <1>9, <2>2, NoBalance
    <3> QED
      BY <3>1, <3>2, <3>3
  <2> QED
    BY <2>1, <2>2
<1>11. FreshTx(tx)
  <2> HIDE DEF tx, outs
  <2>1. Balanced(tx)
    BY <1>6, <1>10 DEF Balanced
  <2> QED
    BY <2>1, <1>2, <1>3, <1>4, <1>6 DEF FreshTx
<1> QED
  BY <1>7, <1>11

(***************************************************************************)
(* A payment gives the payee its amount, and its account the change: what  *)
(* it takes, less the amount and the fee.                                  *)
(***************************************************************************)
LEMMA SpendInOrder ==
    ASSUME Txid \ UsedIds # {}, NEW a \in Account, NEW version \in Version, NEW fee \in Nat,
           NEW inputs, inputs \subseteq Input, IsFiniteSet(inputs),
           \A c \in CoinsOf(inputs) : AccountOf(c.script) = a,
           NEW to \in Script, AccountOf(to) # a, NEW n \in Nat \ {0},
           Funded(inputs, {Recipient(to, n)}, fee)
    PROVE  LET tx == SpendTx(NewId, <<a, version>>, inputs, Recipient(to, n), fee)
           IN  tx \in Tx /\ FreshTx(tx)
<1> DEFINE r == Recipient(to, n)
           back == AddressOf(<<a, version>>, "internal", 0)
           tx == SpendTx(NewId, <<a, version>>, inputs, r, fee)
           outs == Outputs(NewId, inputs, {r}, back, fee)
           rest == Rest(inputs, {r}, fee)
           paid == Output(NewId, to, n)
           kept == Output(NewId, back, rest)
<1>0. r.script = to /\ r.value = n
  BY DEF Recipient
<1>1. /\ rest = SumOf(CoinsOf(inputs)) - n - fee /\ rest \in Nat \ {0}
      /\ SumOf(CoinsOf(inputs)) \in Int
  <2> HIDE DEF r
  <2>1. Coins({r}) /\ SumOf({r}) = n /\ fee \in Int
    <3>1. r.value \in Int
      BY <1>0
    <3>2. Coins({r})
      <4>1. IsFiniteSet({r})
        BY FS_Singleton
      <4> QED
        BY <4>1, <3>1 DEF Coins
    <3>3. SumOf({r}) = r.value
      BY <3>1, WorthOfOne
    <3> QED
      BY <1>0, <3>2, <3>3
  <2> DEFINE rs == {r}
  <2>2. /\ Rest(inputs, rs, fee) = SumOf(CoinsOf(inputs)) - SumOf(rs) - fee
        /\ Rest(inputs, rs, fee) \in Int /\ SumOf(CoinsOf(inputs)) \in Int
    <3>1. Coins(rs) /\ fee \in Int
      BY <2>1
    <3> HIDE DEF rs
    <3> QED
      BY <3>1, RestIs
  <2>3. rest > 0
    BY DEF Funded, r
  <2> HIDE DEF rest
  <2> QED
    BY <2>1, <2>2, <2>3 DEF rest
<1>2. CoinsOf(inputs) \subseteq Coin /\ IsFiniteSet(CoinsOf(inputs))
  BY InputCoins
<1>3. NewId \in Txid /\ \A t \in Made : t.id # NewId
  BY NewIdIsNew
<1>4. back \in Script /\ AccountOf(back) = a
  <2>1. back \in Script
    BY AddressIsScript DEF Keychain
  <2>2. back = <<a, version, "internal", 0>>
    BY DEF AddressOf
  <2> QED
    BY <2>1, <2>2 DEF AccountOf
<1>5. outs \subseteq Coin /\ IsFiniteSet(outs) /\ \A c \in outs : c.tx = NewId
  <2>1. IsFiniteSet({r}) /\ \A x \in {r} : x.script \in Script /\ x.value \in Nat \ {0}
    BY <1>0, FS_Singleton
  <2> HIDE DEF r, back
  <2> QED
    BY <1>1, <1>3, <1>4, <2>1, OutputsAreCoins, OutputsName
<1>6. tx = [id |-> NewId, payer |-> a, payee |-> AccountOf(to), amount |-> n,
            ins |-> CoinsOf(inputs), outs |-> outs, fee |-> fee, migrates |-> FALSE]
  BY <1>0 DEF SpendTx
<1>7. /\ tx.id = NewId /\ tx.payer = a /\ tx.payee = AccountOf(to) /\ tx.amount = n
      /\ tx.ins = CoinsOf(inputs) /\ tx.outs = outs /\ tx.fee = fee
  BY <1>6
<1>8. tx \in Tx
  <2>1. CoinsOf(inputs) \in SUBSET Coin /\ outs \in SUBSET Coin /\ AccountOf(to) \in Account
    BY <1>2, <1>5, ScriptParts DEF AccountOf
  <2> HIDE DEF outs, tx
  <2> QED
    BY <1>3, <1>6, <2>1 DEF Tx
<1>9. paid \in outs /\ kept \in outs /\ \A x \in outs : x = paid \/ x = kept
  <2>1. \A x : x \in outs <=> x = paid \/ x = kept
    <3> HIDE DEF r, back
    <3> QED
      BY <1>0, OutputsAre
  <2> QED
    BY <2>1
<1>10. kept.script = back /\ kept.value = rest /\ paid.script = to /\ paid.value = n
  BY DEF Output
<1>11. ASSUME NEW b \in Account
       PROVE  BalanceOf(b, outs) = BalanceOf(b, CoinsOf(inputs)) - Gives(b, tx) + Gets(b, tx)
  <2> HIDE DEF kept, paid, outs, tx, rest, back, r
  <2>1. CASE b = a
    <3>1. Gives(b, tx) = fee + n /\ Gets(b, tx) = 0
      BY <1>7, <2>1 DEF Gives, Gets
    <3>2. BalanceOf(b, CoinsOf(inputs)) = SumOf(CoinsOf(inputs))
      BY <2>1, OwnInputs
    <3>3. BalanceOf(b, outs) = rest
      BY <1>1, <1>4, <1>9, <1>10, <2>1, OneOutput
    <3> QED
      BY <1>1, <3>1, <3>2, <3>3
  <2>2. CASE b # a
    <3>1. Gives(b, tx) = 0 /\ Gets(b, tx) = IF b = AccountOf(to) THEN n ELSE 0
      BY <1>7, <2>2 DEF Gives, Gets
    <3>2. BalanceOf(b, CoinsOf(inputs)) = 0
      BY <2>2, OwnInputs
    <3>3. CASE b = AccountOf(to)
      <4>1. BalanceOf(b, outs) = n
        BY <1>4, <1>9, <1>10, <2>2, <3>3, OneOutput
      <4> QED
        BY <3>1, <3>2, <3>3, <4>1
    <3>4. CASE b # AccountOf(to)
      <4>1. BalanceOf(b, outs) = 0
        BY <1>4, <1>9, <1>10, <2>2, <3>4, NoBalance
      <4> QED
        BY <3>1, <3>2, <3>4, <4>1
    <3> QED
      BY <3>3, <3>4
  <2> QED
    BY <2>1, <2>2
<1>12. FreshTx(tx)
  <2> HIDE DEF tx, outs
  <2>1. Balanced(tx)
    BY <1>7, <1>11 DEF Balanced
  <2> QED
    BY <2>1, <1>2, <1>3, <1>5, <1>7 DEF FreshTx
<1> QED
  BY <1>8, <1>12

-----------------------------------------------------------------------------
(***************************************************************************)
(* What a scan of finitely many transactions leaves in the store: finitely *)
(* many captures.                                                          *)
(***************************************************************************)
LEMMA ViewTyped ==
    ASSUME NEW txs, txs \subseteq Tx, IsFiniteSet(txs), \A tx \in txs : IsFiniteSet(tx.outs)
    PROVE  View(txs) \subseteq Captured /\ IsFiniteSet(View(txs))
<1>1. Unspent(txs) \subseteq Coin
  BY MigrationAssumption DEF Unspent, Tx, MigrationAssumption
<1>2. IsFiniteSet(Unspent(txs))
  <2> DEFINE f == [tx \in txs |-> tx.outs]
             all == {f[tx] : tx \in txs}
  <2>1. {tx.outs : tx \in txs} = all /\ \A S \in all : IsFiniteSet(S)
    OBVIOUS
  <2>2. IsFiniteSet(all)
    <3> HIDE DEF f
    <3> QED
      BY ImageFinite
  <2>3. IsFiniteSet(UNION all)
    <3> HIDE DEF all
    <3> QED
      BY <2>1, <2>2, FS_UNION
  <2>4. IsFiniteSet(Funding \cup UNION all)
    <3> HIDE DEF all
    <3> QED
      BY <2>3, FS_Union, MigrationAssumption DEF MigrationAssumption
  <2>5. Unspent(txs) = (Funding \cup UNION all) \ UNION {tx.ins : tx \in txs}
    BY DEF Unspent
  <2> HIDE DEF all
  <2> QED
    <3>1. IsFiniteSet((Funding \cup UNION all) \ UNION {tx.ins : tx \in txs})
      BY <2>4, FS_Difference
    <3> QED
      BY <2>5, <3>1
<1> DEFINE mine == {x \in Unspent(txs) : AccountOf(x.script) \in Member}
           g == [c \in mine |-> CapturedByScan(c)]
<1>3. View(txs) = {g[c] : c \in mine}
  BY DEF View
<1>4. IsFiniteSet(mine)
  BY <1>2, FS_Subset
<1>5. \A c \in Coin : CapturedByScan(c) \in Captured
  BY ScriptParts DEF CapturedByScan, Captured, Coin
<1>6. View(txs) \subseteq Captured
  BY <1>1, <1>5 DEF View
<1> HIDE DEF g, mine
<1>7. IsFiniteSet({g[c] : c \in mine})
  BY <1>4, ImageFinite
<1> QED
  BY <1>3, <1>6, <1>7

(***************************************************************************)
(* Nothing is made at first.                                               *)
(***************************************************************************)
LEMMA InitBooks == Init => TypeOK /\ BooksInOrder
<1> SUFFICES ASSUME Init PROVE TypeOK /\ BooksInOrder
  OBVIOUS
<1>1. Made = {}
  BY DEF Init, Made
<1>2. IsFiniteSet({}) /\ store \subseteq Captured /\ IsFiniteSet(store)
  BY ViewTyped, FS_EmptySet DEF Init
<1>3. TypeOK
  <2>1. node \subseteq Tx /\ mined \subseteq node /\ hand \subseteq Input
    BY DEF Init
  <2>2. pset \in Tx \cup {NoTx} /\ order \in Tx \cup {NoTx}
    BY DEF Init
  <2>3. misused \in BOOLEAN /\ refused \in BOOLEAN
    BY DEF Init
  <2>4. spends \in 0 .. MaxSpends /\ faults \in 0 .. MaxFaults
    BY MigrationAssumption DEF Init, MigrationAssumption
  <2> QED
    BY <1>2, <2>1, <2>2, <2>3, <2>4 DEF TypeOK
<1>4. BooksInOrder
  BY <1>1, <1>2 DEF BooksInOrder, OwnIds, CoinsNameTheirTx, SpentOnce, SpentAreMade,
                    AllFinite, Init
<1> QED
  BY <1>3, <1>4

(***************************************************************************)
(* Pairing a set of captures gives inputs.                                 *)
(***************************************************************************)
LEMMA PairingTyped ==
    ASSUME NEW S, S \subseteq Captured, IsFiniteSet(S), NEW w,
           \A u \in S : w[u] \in Version
    PROVE  /\ {PairedWith(u, w[u]) : u \in S} \subseteq Input
           /\ IsFiniteSet({PairedWith(u, w[u]) : u \in S})
<1> DEFINE f == [u \in S |-> PairedWith(u, w[u])]
<1>1. {PairedWith(u, w[u]) : u \in S} = {f[u] : u \in S}
  OBVIOUS
<1>2. ASSUME NEW u \in S PROVE PairedWith(u, w[u]) \in Input
  <2>1. AccountOf(u.coin.script) \in Account
    BY ScriptParts DEF Captured, Coin, AccountOf
  <2>2. <<AccountOf(u.coin.script), w[u]>> \in Wollet
    BY <2>1 DEF Wollet
  <2> QED
    BY <2>2 DEF PairedWith, Input
<1> HIDE DEF f
<1>3. IsFiniteSet({f[u] : u \in S})
  BY ImageFinite
<1> QED
  BY <1>1, <1>2, <1>3

(***************************************************************************)
(* Taking coins in hand changes no books.                                  *)
(***************************************************************************)
LEMMA ListBooks ==
    ASSUME TypeOK, BooksInOrder, ListUnspent \/ ListAllAsOld
    PROVE  TypeOK' /\ BooksInOrder'
<1>1. hand' \subseteq Input /\ IsFiniteSet(hand')
  <2>1. CASE ListUnspent
    <3> DEFINE S == {x \in store : ToMove(x)}
               w == [u \in S |-> VersionOf(u.coin.script)]
    <3>1. S \subseteq Captured /\ IsFiniteSet(S)
      BY FS_Subset DEF TypeOK, BooksInOrder, AllFinite
    <3>2. \A u \in S : w[u] \in Version
      BY <3>1, ScriptParts DEF Captured, Coin, VersionOf
    <3>3. hand' = {PairedWith(u, w[u]) : u \in S}
      BY <2>1 DEF ListUnspent
    <3> HIDE DEF S, w
    <3> QED
      BY <3>1, <3>2, <3>3, PairingTyped
  <2>2. CASE ListAllAsOld
    <3> DEFINE w == [u \in store |-> "old"]
    <3>1. store \subseteq Captured /\ IsFiniteSet(store)
      BY DEF TypeOK, BooksInOrder, AllFinite
    <3>2. \A u \in store : w[u] \in Version
      BY DEF Version
    <3>3. hand' = {PairedWith(u, w[u]) : u \in store}
      BY <2>2 DEF ListAllAsOld
    <3> HIDE DEF w
    <3> QED
      BY <3>1, <3>2, <3>3, PairingTyped
  <2> QED
    BY <2>1, <2>2
<1>2. UNCHANGED <<node, mined, store, pset, order, refused, spends>>
      /\ misused' \in {TRUE, misused} /\ faults' \in 0 .. MaxFaults
  BY FaultCounted DEF ListUnspent, ListAllAsOld, TypeOK
<1>3. TypeOK'
  BY <1>1, <1>2 DEF TypeOK
<1>4. Made' \subseteq Made /\ IsFiniteSet(store')
  BY <1>2 DEF Made, BooksInOrder, AllFinite
<1>5. BooksInOrder'
  <2>1. SpentOnce' /\ SpentAreMade' /\ IsFiniteSet(node')
    BY <1>2, SameNode
  <2> QED
    BY <1>1, <1>4, <2>1, BooksUntouched
<1> QED
  BY <1>3, <1>5

(***************************************************************************)
(* A hop that is built has its books in order.                             *)
(***************************************************************************)
LEMMA BuildBooks ==
    ASSUME TypeOK, BooksInOrder, BuildHop
    PROVE  TypeOK' /\ BooksInOrder'
<1>1. PICK batch \in SUBSET Customer, fee \in 1 .. MaxFee :
         batch \subseteq CustomersLeft /\ Build(batch, fee)
  BY DEF BuildHop
<1> DEFINE inputs == Handed(batch \cup {FeeAccount})
           recipients == RecipientsOf(batch)
           tx == MigrationTx(NewId, FeeAccount, inputs, recipients, FeeDest(batch), fee)
<1>2. UNCHANGED <<node, mined, store, order, misused, spends, faults>>
      /\ Txid \ UsedIds # {} /\ pset = NoTx
  BY <1>1 DEF Build
<1>3. \/ Funded(inputs, recipients, fee) /\ pset' = tx /\ UNCHANGED <<hand, refused>>
      \/ hand' = {} /\ pset' = pset /\ refused' \in BOOLEAN
  BY <1>1 DEF Build, TypeOK, Funded
<1>4. SpentOnce' /\ SpentAreMade' /\ IsFiniteSet(node') /\ IsFiniteSet(store')
  BY <1>2, SameNode DEF BooksInOrder, AllFinite
<1>5. CASE Funded(inputs, recipients, fee) /\ pset' = tx /\ UNCHANGED <<hand, refused>>
  <2>1. hand \subseteq Input /\ IsFiniteSet(hand)
    BY DEF TypeOK, BooksInOrder, AllFinite
  <2>2. tx \in Tx /\ FreshTx(tx)
    BY <1>1, <1>2, <1>5, <2>1, HopInOrder
  <2> HIDE DEF tx
  <2>3. TypeOK'
    BY <1>2, <1>5, <2>2 DEF TypeOK
  <2>4. Made' \subseteq Made \cup {tx}
    BY <1>2, <1>5 DEF Made
  <2>5. IsFiniteSet(hand')
    BY <1>5, <2>1
  <2>6. \A t \in {tx} : FreshTx(t)
    BY <2>2
  <2>7. BooksInOrder'
    BY <1>4, <2>4, <2>5, <2>6, BooksKept
  <2> QED
    BY <2>3, <2>7
<1>6. CASE hand' = {} /\ pset' = pset /\ refused' \in BOOLEAN
  <2>1. TypeOK'
    BY <1>2, <1>6 DEF TypeOK
  <2>2. Made' \subseteq Made /\ IsFiniteSet(hand')
    BY <1>2, <1>6, FS_EmptySet DEF Made
  <2>3. BooksInOrder'
    BY <1>4, <2>2, BooksUntouched
  <2> QED
    BY <2>1, <2>3
<1> QED
  BY <1>3, <1>5, <1>6

(***************************************************************************)
(* The node takes a hop: its inputs were unspent.  The change that is      *)
(* captured is a coin of it.                                               *)
(***************************************************************************)
LEMMA ChainBooks ==
    ASSUME TypeOK, BooksInOrder, BroadcastOk \/ BroadcastWrongIndex
    PROVE  TypeOK' /\ BooksInOrder'
<1>1. PICK index \in {0, 1} : Broadcast(index)
  BY DEF BroadcastOk, BroadcastWrongIndex
<1>2. /\ pset # NoTx /\ Accepts(pset) /\ node' = node \cup {pset} /\ pset' = NoTx
      /\ UNCHANGED <<mined, store, order, refused, spends>>
      /\ hand' = Chained(pset, index)
  BY <1>1 DEF Broadcast
<1>3. misused' \in {TRUE, misused} /\ faults' \in 0 .. MaxFaults
  BY FaultCounted DEF BroadcastOk, BroadcastWrongIndex, TypeOK
<1>4. pset \in Tx /\ pset \in Made
  BY <1>2 DEF TypeOK, Made
<1>5. hand' \subseteq Input /\ IsFiniteSet(hand')
  <2> DEFINE left == {i \in hand : i.utxo.coin \notin pset.ins}
             f == [c \in Change(pset) |->
                     [utxo |-> CapturedFromOutput(c, index), owner |-> <<FeeAccount, "old">>]]
  <2>1. hand' = left \cup {f[c] : c \in Change(pset)}
    BY <1>2 DEF Chained
  <2>2. Change(pset) \in SUBSET pset.outs /\ IsFiniteSet(pset.outs) /\ pset.outs \subseteq Coin
    BY <1>4 DEF Change, BooksInOrder, AllFinite, Tx
  <2>3. \A c \in Change(pset) : f[c] \in Input
    <3>1. <<FeeAccount, "old">> \in Wollet
      BY MigrationAssumption DEF Wollet, Version, MigrationAssumption
    <3>2. \A c \in Change(pset) : CapturedFromOutput(c, index) \in Captured
      BY <1>1, <2>2 DEF CapturedFromOutput, Captured, Keychain
    <3> QED
      BY <3>1, <3>2 DEF Input
  <2>4. left \subseteq Input /\ IsFiniteSet(left)
    BY FS_Subset DEF TypeOK, BooksInOrder, AllFinite
  <2>5. IsFiniteSet(Change(pset))
    BY <2>2, FS_Subset
  <2> HIDE DEF f, left
  <2>6. IsFiniteSet({f[c] : c \in Change(pset)})
    BY <2>5, ImageFinite
  <2> QED
    BY <2>1, <2>3, <2>4, <2>6, FS_Union
<1>6. TypeOK'
  BY <1>2, <1>3, <1>4, <1>5 DEF TypeOK
<1>7. Made' \subseteq Made /\ IsFiniteSet(store')
  BY <1>2 DEF Made, BooksInOrder, AllFinite
<1>8. BooksInOrder'
  <2>1. SpentOnce' /\ SpentAreMade' /\ IsFiniteSet(node')
    BY <1>2, NodeTakes
  <2> QED
    BY <1>5, <1>7, <2>1, BooksUntouched
<1> QED
  BY <1>6, <1>8

(***************************************************************************)
(* The hand is emptied: a rejected hop, a lost reply, a restart.           *)
(***************************************************************************)
LEMMA DropBooks ==
    ASSUME TypeOK, BooksInOrder, BroadcastRejected \/ ReplyLost \/ Restart
    PROVE  TypeOK' /\ BooksInOrder'
<1>1. /\ UNCHANGED <<mined, store, misused, refused, spends>>
      /\ hand' = {} /\ pset' = NoTx /\ order' \in {order, NoTx}
      /\ faults' \in 0 .. MaxFaults
  BY FaultCounted DEF BroadcastRejected, ReplyLost, Restart, TypeOK
<1>2. /\ SpentOnce' /\ SpentAreMade' /\ IsFiniteSet(node')
      /\ node' \subseteq Tx /\ node \subseteq node' /\ node' \subseteq node \cup Made
  <2>1. CASE BroadcastRejected \/ Restart
    <3>1. node' = node
      BY <2>1 DEF BroadcastRejected, Restart
    <3> QED
      BY <3>1, SameNode DEF TypeOK
  <2>2. CASE ReplyLost
    <3>1. pset # NoTx /\ Accepts(pset) /\ node' = node \cup {pset}
      BY <2>2 DEF ReplyLost
    <3>2. pset \in Tx /\ pset \in Made
      BY <3>1 DEF TypeOK, Made
    <3> QED
      BY <3>1, <3>2, NodeTakes DEF TypeOK
  <2> QED
    BY <2>1, <2>2
<1>3. TypeOK'
  BY <1>1, <1>2 DEF TypeOK
<1>4. Made' \subseteq Made /\ IsFiniteSet(store') /\ IsFiniteSet(hand')
  BY <1>1, <1>2, FS_EmptySet DEF Made, BooksInOrder, AllFinite
<1>5. BooksInOrder'
  BY <1>2, <1>4, BooksUntouched
<1> QED
  BY <1>3, <1>5

(***************************************************************************)
(* An ordinary order that is built has its books in order.                 *)
(***************************************************************************)
LEMMA OrderBooks ==
    ASSUME TypeOK, BooksInOrder, BuildSome
    PROVE  TypeOK' /\ BooksInOrder'
<1>1. PICK a \in Member, version \in Version, fee \in 1 .. MaxFee :
         \E versions \in {{version}, Version} : BuildOrder(a, version, versions, fee)
  BY DEF BuildSome
<1>2. PICK versions \in {{version}, Version} : BuildOrder(a, version, versions, fee)
  BY <1>1
<1> DEFINE inputs == {[utxo |-> u, owner |-> <<a, version>>] : u \in OwnCoins(a, versions)}
<1>3. /\ UNCHANGED <<node, mined, store, hand, pset, faults>>
      /\ Txid \ UsedIds # {} /\ spends' \in 0 .. MaxSpends
      /\ misused' \in BOOLEAN
  <2>1. spends < MaxSpends /\ spends' = spends + 1 /\ misused' = (misused \/ versions # {version})
    BY <1>2 DEF BuildOrder
  <2>2. spends' \in 0 .. MaxSpends
    BY <2>1, MigrationAssumption DEF TypeOK, MigrationAssumption
  <2>3. misused' \in BOOLEAN
    BY <2>1
  <2> QED
    BY <1>2, <2>2, <2>3 DEF BuildOrder
<1>4. PICK tx \in Orders(<<a, version>>, inputs, fee) :
         \/ order' = tx /\ refused' = refused
         \/ order' = order /\ refused' = TRUE
  BY <1>2 DEF BuildOrder
<1>5. /\ a \in Account /\ Outside \in Account /\ Outside # a /\ fee \in Nat
  BY MigrationAssumption DEF MigrationAssumption, Member
<1>6. /\ inputs \subseteq Input /\ IsFiniteSet(inputs)
      /\ \A c \in CoinsOf(inputs) : AccountOf(c.script) = a
  <2> DEFINE own == OwnCoins(a, versions)
             f == [u \in own |-> [utxo |-> u, owner |-> <<a, version>>]]
  <2>1. own \subseteq Captured /\ IsFiniteSet(own)
    <3>1. own \in SUBSET store
      BY DEF OwnCoins
    <3> QED
      BY <3>1, FS_Subset DEF TypeOK, BooksInOrder, AllFinite
  <2>2. <<a, version>> \in Wollet
    BY <1>5 DEF Wollet
  <2>3. inputs \subseteq Input
    BY <2>1, <2>2 DEF Input
  <2>4. inputs = {f[u] : u \in own}
    OBVIOUS
  <2>5. \A c \in CoinsOf(inputs) : AccountOf(c.script) = a
    BY DEF CoinsOf, OwnCoins
  <2> HIDE DEF f, own, inputs
  <2>6. IsFiniteSet({f[u] : u \in own})
    BY <2>1, ImageFinite
  <2> QED
    BY <2>3, <2>4, <2>5, <2>6
<1>7. tx \in Tx /\ FreshTx(tx)
  <2>1. CASE \E r \in Payments :
                Funded(inputs, {r}, fee) /\ tx = SpendTx(NewId, <<a, version>>, inputs, r, fee)
    <3> DEFINE to == AddressOf(<<Outside, "old">>, "external", 0)
    <3>1. PICK n \in Amounts :
             /\ Funded(inputs, {Recipient(to, n)}, fee)
             /\ tx = SpendTx(NewId, <<a, version>>, inputs, Recipient(to, n), fee)
      BY <2>1 DEF Payments
    <3>2. n \in Nat \ {0}
      BY MigrationAssumption DEF MigrationAssumption
    <3>3. to \in Script /\ AccountOf(to) # a
      <4>1. to \in Script
        BY <1>5, AddressIsScript DEF Version, Keychain
      <4>2. to = <<Outside, "old", "external", 0>>
        BY DEF AddressOf
      <4> QED
        BY <1>5, <4>1, <4>2 DEF AccountOf
    <3> HIDE DEF to, inputs
    <3> QED
      BY <1>3, <1>5, <1>6, <3>1, <3>2, <3>3, SpendInOrder
  <2>2. CASE /\ Funded(inputs, {}, fee)
             /\ tx = SweepTx(NewId, <<a, version>>, inputs,
                             AddressOf(<<a, "new">>, "external", 1), fee)
    <3> DEFINE dest == AddressOf(<<a, "new">>, "external", 1)
    <3>1. dest \in Script /\ AccountOf(dest) = a
      <4>1. dest \in Script
        BY <1>5, AddressIsScript DEF Version, Keychain
      <4>2. dest = <<a, "new", "external", 1>>
        BY DEF AddressOf
      <4> QED
        BY <4>1, <4>2 DEF AccountOf
    <3> HIDE DEF inputs
    <3> QED
      BY <1>3, <1>5, <1>6, <2>2, <3>1, SweepInOrder
  <2> QED
    BY <2>1, <2>2 DEF Orders
<1> HIDE DEF inputs
<1>8. TypeOK'
  <2>1. order' \in Tx \cup {NoTx} /\ refused' \in BOOLEAN
    BY <1>4, <1>7 DEF TypeOK
  <2> QED
    BY <1>3, <2>1 DEF TypeOK
<1>9. Made' \subseteq Made \cup {tx} /\ \A t \in {tx} : FreshTx(t)
  BY <1>3, <1>4, <1>7 DEF Made
<1>10. /\ SpentOnce' /\ SpentAreMade' /\ IsFiniteSet(node')
       /\ IsFiniteSet(store') /\ IsFiniteSet(hand')
  BY <1>3, SameNode DEF BooksInOrder, AllFinite
<1>11. BooksInOrder'
  BY <1>9, <1>10, BooksKept
<1> QED
  BY <1>8, <1>11

(***************************************************************************)
(* The node takes an order whose inputs are unspent, or refuses it.        *)
(***************************************************************************)
LEMMA BroadcastOrderBooks ==
    ASSUME TypeOK, BooksInOrder, BroadcastOrder
    PROVE  TypeOK' /\ BooksInOrder'
<1>1. /\ UNCHANGED <<mined, store, hand, pset, misused, refused, spends, faults>>
      /\ order # NoTx /\ order' = NoTx
      /\ (Accepts(order) /\ node' = node \cup {order}) \/ node' = node
  BY DEF BroadcastOrder
<1>2. order \in Tx /\ order \in Made
  BY <1>1 DEF TypeOK, Made
<1>3. SpentOnce' /\ SpentAreMade' /\ IsFiniteSet(node')
  BY <1>1, NodeTakes, SameNode
<1>4. TypeOK'
  BY <1>1, <1>2 DEF TypeOK
<1>5. Made' \subseteq Made /\ IsFiniteSet(store') /\ IsFiniteSet(hand')
  BY <1>1 DEF Made, BooksInOrder, AllFinite
<1>6. BooksInOrder'
  BY <1>3, <1>5, BooksUntouched
<1> QED
  BY <1>4, <1>6

(***************************************************************************)
(* What the node mines, evicts and returns from its blocks leaves the      *)
(* books of what it has in order.                                          *)
(***************************************************************************)
LEMMA NodeBooks ==
    ASSUME TypeOK, BooksInOrder, MineSome \/ Evict \/ Reorg
    PROVE  TypeOK' /\ BooksInOrder'
<1>1. /\ UNCHANGED <<store, hand, pset, order, misused, refused, spends>>
      /\ faults' \in 0 .. MaxFaults
      /\ mined' \subseteq node' /\ node' \subseteq node
  BY FaultCounted DEF MineSome, Mine, Evict, Reorg, TypeOK
<1>2. SpentOnce' /\ SpentAreMade' /\ IsFiniteSet(node')
  <2>1. CASE MineSome \/ Reorg
    <3>1. node' = node
      BY <2>1 DEF MineSome, Mine, Reorg
    <3> QED
      BY <3>1, SameNode
  <2>2. CASE Evict
    <3>1. PICK gone : ClosedIn(gone, node) /\ node' = node \ gone
      BY <2>2 DEF Evict
    <3> QED
      BY <3>1, NodeDrops
  <2> QED
    BY <2>1, <2>2
<1>3. TypeOK'
  BY <1>1 DEF TypeOK
<1>4. Made' \subseteq Made /\ IsFiniteSet(store') /\ IsFiniteSet(hand')
  BY <1>1 DEF Made, BooksInOrder, AllFinite
<1>5. BooksInOrder'
  BY <1>2, <1>4, BooksUntouched
<1> QED
  BY <1>3, <1>5

(***************************************************************************)
(* A scan stores finitely many captures.                                   *)
(***************************************************************************)
LEMMA ScanBooks ==
    ASSUME TypeOK, BooksInOrder, Scan
    PROVE  TypeOK' /\ BooksInOrder'
<1>1. /\ UNCHANGED <<node, mined, hand, pset, order, misused, refused, spends, faults>>
      /\ store' = View(mined)
  BY DEF Scan
<1>2. store' \subseteq Captured /\ IsFiniteSet(store')
  <2>1. mined \subseteq Tx /\ IsFiniteSet(mined)
    BY FS_Subset DEF TypeOK, BooksInOrder, AllFinite
  <2>2. \A tx \in mined : IsFiniteSet(tx.outs)
    <3>1. NoTx \notin Tx
      BY MigrationAssumption DEF NoTx, Tx, MigrationAssumption
    <3> QED
      BY <3>1 DEF TypeOK, BooksInOrder, AllFinite, Made
  <2> QED
    BY <1>1, <2>1, <2>2, ViewTyped
<1>3. TypeOK'
  BY <1>1, <1>2 DEF TypeOK
<1>4. Made' \subseteq Made /\ IsFiniteSet(hand')
  BY <1>1 DEF Made, BooksInOrder, AllFinite
<1>5. BooksInOrder'
  <2>1. SpentOnce' /\ SpentAreMade' /\ IsFiniteSet(node')
    BY <1>1, SameNode
  <2> QED
    BY <1>2, <1>4, <2>1, BooksUntouched
<1> QED
  BY <1>3, <1>5

-----------------------------------------------------------------------------
(***************************************************************************)
(* Every step keeps the types and the books.                               *)
(***************************************************************************)
LEMMA StepBooks == TypeOK /\ BooksInOrder /\ [Next]_vars => (TypeOK /\ BooksInOrder)'
<1> SUFFICES ASSUME TypeOK, BooksInOrder, [Next]_vars PROVE TypeOK' /\ BooksInOrder'
  OBVIOUS
<1>1. CASE ListUnspent \/ ListAllAsOld
  BY <1>1, ListBooks
<1>2. CASE BuildHop
  BY <1>2, BuildBooks
<1>3. CASE BroadcastOk \/ BroadcastWrongIndex
  BY <1>3, ChainBooks
<1>4. CASE BroadcastRejected \/ ReplyLost \/ Restart
  BY <1>4, DropBooks
<1>5. CASE BuildSome
  BY <1>5, OrderBooks
<1>6. CASE BroadcastOrder
  BY <1>6, BroadcastOrderBooks
<1>7. CASE MineSome \/ Evict \/ Reorg
  BY <1>7, NodeBooks
<1>8. CASE Scan
  BY <1>8, ScanBooks
<1>9. CASE UNCHANGED vars
  <2>1. UNCHANGED <<node, mined, store, hand, pset, order, misused, refused, spends, faults>>
    BY <1>9 DEF vars
  <2>2. TypeOK'
    BY <2>1 DEF TypeOK
  <2>3. Made' \subseteq Made /\ IsFiniteSet(store') /\ IsFiniteSet(hand')
    BY <2>1 DEF Made, BooksInOrder, AllFinite
  <2>4. SpentOnce' /\ SpentAreMade' /\ IsFiniteSet(node')
    BY <2>1, SameNode
  <2> QED
    BY <2>2, <2>3, <2>4, BooksUntouched
<1> QED
  BY <1>1, <1>2, <1>3, <1>4, <1>5, <1>6, <1>7, <1>8, <1>9 DEF Next, MigrationStep

(***************************************************************************)
(* Every variable holds values of its kind, and the books of what the node *)
(* has and of what waits for broadcast are in order, through any number of *)
(* hops, faults and ordinary spends.                                       *)
(***************************************************************************)
THEOREM BooksStayInOrder == Spec => [](TypeOK /\ BooksInOrder)
<1>1. Init => TypeOK /\ BooksInOrder
  BY InitBooks
<1>2. TypeOK /\ BooksInOrder /\ [Next]_vars => (TypeOK /\ BooksInOrder)'
  BY StepBooks
<1> QED
  BY <1>1, <1>2, PTL DEF Spec

(***************************************************************************)
(* Every variable holds values of its kind.                                *)
(***************************************************************************)
THEOREM TypeCorrect == Spec => []TypeOK
BY BooksStayInOrder, PTL

(***************************************************************************)
(* Every account holds what it had, less its own payments and fees, and    *)
(* what it was paid: a migration moves exact amounts at the fee account's  *)
(* cost.                                                                   *)
(***************************************************************************)
THEOREM ExactAmounts == Spec => []Conserved
<1>1. TypeOK /\ BooksInOrder => Conserved
  BY BooksAddUp
<1> QED
  BY <1>1, BooksStayInOrder, PTL
=============================================================================
