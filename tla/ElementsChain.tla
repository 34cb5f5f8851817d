--------------------------- MODULE ElementsChain ---------------------------
(***************************************************************************)
(* The Elements node as the scan engine sees it through the trait          *)
(* ElementsChainSource (src/src/sync/mod.rs): an active chain of blocks,   *)
(* read by height.  A block is a value that stands for its hash; what it   *)
(* contains, Txs[b], is a sequence of transactions, each the outpoints it  *)
(* spends and the outpoints it creates.                                    *)
(***************************************************************************)
EXTENDS Integers, Sequences

CONSTANTS
    Block,      \* blocks, identified with their hashes
    NoHash,     \* no block: the hash in an absent SyncedTip
    OutPoint,   \* transaction outputs
    Txs,        \* Txs[b]: the transactions of block b, in order
    Chains      \* the chains a node may have as its active one

Tx == [ins : SUBSET OutPoint, outs : SUBSET OutPoint]

ASSUME BlockAssumption == NoHash \notin Block /\ Txs \in [Block -> Seq(Tx)]

(***************************************************************************)
(* A chain maps the heights 0 .. n to blocks.                              *)
(***************************************************************************)
ASSUME ChainsAssumption ==
    /\ Chains # {}
    /\ \A c \in Chains : \E n \in DOMAIN c : n \in Nat /\ c \in [0 .. n -> Block]

(***************************************************************************)
(* A block hash commits to the header, which holds the height and the hash *)
(* of the previous block: a block is at one height, over one history.  All *)
(* chains of a network start with its genesis block.                       *)
(***************************************************************************)
ASSUME CommitmentAssumption ==
    \A c, d \in Chains :
        /\ c[0] = d[0]
        /\ \A h \in DOMAIN c, k \in DOMAIN d :
              c[h] = d[k] => h = k /\ \A j \in 0 .. h : c[j] = d[j]

(***************************************************************************)
(* tip_height, and the range of heights block_hash answers for.            *)
(***************************************************************************)
TipHeight(c) == CHOOSE n \in DOMAIN c : DOMAIN c = 0 .. n

Creates(b) == UNION {Txs[b][i].outs : i \in DOMAIN Txs[b]}
Spends(b)  == UNION {Txs[b][i].ins  : i \in DOMAIN Txs[b]}

(***************************************************************************)
(* What consensus makes true of every active chain: an output is created   *)
(* once and spent once, and never spent before it exists.                  *)
(***************************************************************************)
ASSUME ConsensusAssumption ==
    \A c \in Chains : \A h, k \in DOMAIN c :
        /\ h # k => Creates(c[h]) \cap Creates(c[k]) = {}
        /\ h # k => Spends(c[h]) \cap Spends(c[k]) = {}
        /\ h < k => Spends(c[h]) \cap Creates(c[k]) = {}

ASSUME BlockOrderAssumption ==
    \A b \in Block : \A i, j \in DOMAIN Txs[b] :
        i <= j => Txs[b][i].ins \cap Txs[b][j].outs = {}

(***************************************************************************)
(* l holds blocks of chain c only, each at its height.                     *)
(***************************************************************************)
OnChain(l, c) == \A h \in DOMAIN l : h \in DOMAIN c /\ c[h] = l[h]

(***************************************************************************)
(* c adds one block to chain d.                                            *)
(***************************************************************************)
ExtendsByOne(c, d) == OnChain(d, c) /\ TipHeight(c) = TipHeight(d) + 1
=============================================================================
