---------------------------- MODULE MCBlockScan ----------------------------
(***************************************************************************)
(* An instance of BlockScan for TLC.  Five transactions in eight blocks:   *)
(*   t1 pays o1, t2 spends it to o2, t3 spends that to an output nobody    *)
(*   watches, t4 spends o1 to a watched script under a foreign key, t5     *)
(*   pays o5 above the gap.                                                *)
(* The branches of the node re-mine the same transactions at other         *)
(* heights and in one block, or replace t2 by the conflicting t4.          *)
(***************************************************************************)
EXTENDS BlockScanInvariant

MCOutPoint == {"o1", "o2", "o3", "o4", "o5"}
Pays(from, to) == [ins |-> from, outs |-> to]
t1 == Pays({}, {"o1"})
t2 == Pays({"o1"}, {"o2"})
t3 == Pays({"o2"}, {"o3"})
t4 == Pays({"o1"}, {"o4"})
t5 == Pays({}, {"o5"})

MCTxs == [g  |-> <<t5>>,
          a1 |-> <<t1>>, a2 |-> <<t2>>, a3 |-> <<t3>>,
          b1 |-> << >>,  b2 |-> <<t1, t2>>,
          c2 |-> <<t4>>]
MCBlock == DOMAIN MCTxs

ChainOf(s) == [h \in 0 .. Len(s) - 1 |-> s[h + 1]]
MCChains ==
    UNION {{ChainOf(SubSeq(s, 1, n)) : n \in 1 .. Len(s)} :
              s \in {<<"g", "a1", "a2", "a3">>, <<"g", "b1", "b2">>, <<"g", "a1", "c2">>}}

(***************************************************************************)
(* Wallet W1 has one descriptor, W2 two federation versions of its own.    *)
(***************************************************************************)
MCRegistrations ==
    <<[wallet |-> "W1", descriptor |-> "d1", key |-> "k1", gap |-> 1],
      [wallet |-> "W2", descriptor |-> "d2", key |-> "k2", gap |-> 1],
      [wallet |-> "W2", descriptor |-> "d3", key |-> "k3", gap |-> 2]>>

MCSpkOf == [o1 |-> <<"d1", "external", 0>>,
            o2 |-> <<"d3", "internal", 1>>,
            o3 |-> <<"dx", "external", 0>>,
            o4 |-> <<"d1", "external", 0>>,
            o5 |-> <<"d2", "external", 1>>]
MCBlindedTo == [o1 |-> "k1", o2 |-> "k3", o3 |-> "kx", o4 |-> "kx", o5 |-> "k2"]
=============================================================================
