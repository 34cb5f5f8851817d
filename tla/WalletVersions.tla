--------------------------- MODULE WalletVersions ---------------------------
(***************************************************************************)
(* A federated wallet (src/src/federated_wallet.rs) that gains versions    *)
(* while the engines built from it are scanning.                           *)
(*                                                                         *)
(* An engine is a snapshot: it borrows the wollets of the versions the     *)
(* wallet had when it was built, with the gap of that moment, and stays as *)
(* it is for its pass.  Meanwhile the application adds a version or hands  *)
(* out an address, and somebody pays to it.  What a pass has scanned no    *)
(* later pass scans again, so an output missed is missed for good.         *)
(*                                                                         *)
(* Blocks are counted from 1 and hold one output each; reorgs and the      *)
(* writes of a pass are the subject of BlockScan.                          *)
(***************************************************************************)
EXTENDS ScriptIndex

CONSTANTS
    Network,        \* the networks of federations,
    Elements,       \*   and those that is_elements accepts
    Candidates,     \* federations that may be added, with their handles
    WalletId,       \* the id the application registers all versions under
    Lookahead,      \* how far the gap reaches beyond the addresses in use
    MaxVersions, MaxAddresses, MaxBlocks, MaxFailures   \* bounds

Candidate == [network : Network, descriptor : Descriptor, key : Key]

ASSUME VersionsAssumption ==
    /\ Elements \subseteq Network
    /\ Candidates \subseteq Candidate
    /\ WalletId \in Wallet
    /\ Explicit \notin Key
    /\ Lookahead \in Nat /\ MaxFailures \in Nat
    /\ MaxVersions \in Nat /\ MaxAddresses \in Nat /\ MaxBlocks \in Nat

VARIABLES
    network,        \* the federated wallet's network
    versions,       \* and its federation_wallets
    in_use,         \* in_use[v]: how many indices of version v are handed out
    mined,          \* the output of each block of the node
    pc, engine, tip, height,    \* the pass: its engine, tip and block
    cursor,         \* the last block scanned by a complete pass
    store,          \* blocks whose output is in the UTXO store
    raced,          \* blocks mined too early for the engine, see Pay
    failures

wallet == <<network, versions, in_use>>
pass   == <<pc, engine, tip, height>>
vars   == <<wallet, mined, pass, cursor, store, raced, failures>>

Version == [federation : Candidate, index : Nat]
Payment == [version : Nat \ {0}, spk : Script, blinding : Key \cup {Explicit}]

-----------------------------------------------------------------------------
(***************************************************************************)
(* The federated wallet.  new compares the federation's network with no    *)
(* other; the first version has index 0.                                   *)
(***************************************************************************)
Init ==
    /\ network \in Elements
    /\ \E f \in Candidates :
          /\ f.network \in Elements
          /\ versions = <<[federation |-> f, index |-> 0]>>
    /\ in_use = <<0>>
    /\ mined = << >>
    /\ pc = "idle" /\ engine = << >> /\ tip = 0 /\ height = 0
    /\ cursor = 0
    /\ store = {} /\ raced = {}
    /\ failures = 0

(***************************************************************************)
(* Mutant of WithFederation: the network is not compared.                  *)
(***************************************************************************)
WithAnyFederation(f) ==
    /\ f.network \in Elements
    /\ Len(versions) < MaxVersions
    /\ versions' = Append(versions, [federation |-> f, index |-> Len(versions)])
    /\ in_use' = Append(in_use, 0)
    /\ UNCHANGED <<network, mined, pass, cursor, store, raced, failures>>

(***************************************************************************)
(* with_federation; the application replaces its wallet by the result.     *)
(***************************************************************************)
WithFederation(f) ==
    /\ f.network \in Elements /\ f.network = network
    /\ Len(versions) < MaxVersions
    /\ versions' = Append(versions, [federation |-> f, index |-> Len(versions)])
    /\ in_use' = Append(in_use, 0)
    /\ UNCHANGED <<network, mined, pass, cursor, store, raced, failures>>

(***************************************************************************)
(* ElementsWollet::address: the next receiving address of a version is     *)
(* handed out.                                                             *)
(***************************************************************************)
Address(v) ==
    /\ in_use[v] < MaxAddresses
    /\ in_use' = [in_use EXCEPT ![v] = @ + 1]
    /\ UNCHANGED <<network, versions, mined, pass, cursor, store, raced, failures>>

(***************************************************************************)
(* The node mines a payment to an address in use, blinded to its version   *)
(* or explicit.  Between the making of the engine and the reading of the   *)
(* tip it may be to an address that is not among the engine's, and the     *)
(* pass will scan its block.                                               *)
(***************************************************************************)
InEngine(v, i) == v \in DOMAIN engine /\ i < engine[v].gap

Pay(v) ==
    /\ Len(mined) < MaxBlocks
    /\ \E i \in 0 .. in_use[v] - 1, b \in {versions[v].federation.key, Explicit} :
          /\ mined' = Append(mined,
                [version  |-> v,
                 spk      |-> <<versions[v].federation.descriptor, "external", i>>,
                 blinding |-> b])
          /\ raced' = IF pc = "built" /\ ~InEngine(v, i)
                      THEN raced \cup {Len(mined) + 1} ELSE raced
    /\ UNCHANGED <<wallet, pass, cursor, store, failures>>

-----------------------------------------------------------------------------
(***************************************************************************)
(* The engine of a pass: a wollet for each of wallet_handles, registered   *)
(* in their order.  Mutants: a gap that does not follow the addresses in   *)
(* use; an engine of the current version only.                             *)
(***************************************************************************)
FixedGap(v) ==
    [wallet     |-> WalletId,
     descriptor |-> versions[v].federation.descriptor,
     key        |-> versions[v].federation.key,
     gap        |-> Lookahead]

RegistrationOf(v) ==
    [wallet     |-> WalletId,
     descriptor |-> versions[v].federation.descriptor,
     key        |-> versions[v].federation.key,
     gap        |-> in_use[v] + Lookahead]

CurrentOnly ==
    /\ pc = "idle"
    /\ engine' = <<RegistrationOf(Len(versions))>>
    /\ pc' = "built"
    /\ UNCHANGED <<wallet, mined, tip, height, cursor, store, raced, failures>>

BuildEngine ==
    /\ pc = "idle"
    /\ engine' = [v \in 1 .. Len(versions) |-> RegistrationOf(v)]
    /\ pc' = "built"
    /\ UNCHANGED <<wallet, mined, tip, height, cursor, store, raced, failures>>

(***************************************************************************)
(* sync, block by block.  Mutant of ReadTip: the last block is left out.   *)
(***************************************************************************)
ReadTipBelow ==
    /\ pc = "built"
    /\ tip' = IF mined = << >> THEN 0 ELSE Len(mined) - 1
    /\ height' = cursor + 1
    /\ pc' = "scan"
    /\ UNCHANGED <<wallet, mined, engine, cursor, store, raced, failures>>

ReadTip ==
    /\ pc = "built"
    /\ tip' = Len(mined)
    /\ height' = cursor + 1
    /\ pc' = "scan"
    /\ UNCHANGED <<wallet, mined, engine, cursor, store, raced, failures>>

ScanBlock ==
    /\ pc = "scan"
    /\ height <= tip
    /\ store' = IF CapturedBy(engine, mined[height].spk, mined[height].blinding)
                THEN store \cup {height} ELSE store
    /\ height' = height + 1
    /\ UNCHANGED <<wallet, mined, pc, engine, tip, cursor, raced, failures>>

EndPass ==
    /\ pc' = "idle" /\ engine' = << >> /\ tip' = 0 /\ height' = 0

SetCursor ==
    /\ pc = "scan"
    /\ height > tip
    /\ cursor' = tip
    /\ EndPass
    /\ UNCHANGED <<wallet, mined, store, raced, failures>>

(***************************************************************************)
(* The pass ends in an error or with the process: the cursor stays, what   *)
(* was captured too, and blocks that came too early for this engine have   *)
(* a chance with the next.                                                 *)
(***************************************************************************)
Fail ==
    /\ pc # "idle"
    /\ failures < MaxFailures
    /\ failures' = failures + 1
    /\ raced' = {p \in raced : p <= cursor}
    /\ EndPass
    /\ UNCHANGED <<wallet, mined, cursor, store>>

PassStep == BuildEngine \/ ReadTip \/ ScanBlock \/ SetCursor

Next ==
    \/ \E f \in Candidates : WithFederation(f)
    \/ \E v \in DOMAIN versions : Address(v) \/ Pay(v)
    \/ PassStep \/ Fail

Spec == Init /\ [][Next]_vars

(***************************************************************************)
(* The application keeps building engines and calling sync.                *)
(***************************************************************************)
FairSpec == Spec /\ WF_vars(PassStep)

-----------------------------------------------------------------------------
(***************************************************************************)
(* Every variable holds values of its kind; versions are numbered in the   *)
(* order they came, and those that were added are on the wallet's network. *)
(***************************************************************************)
TypeOK ==
    /\ network \in Elements
    /\ versions \in Seq(Version) /\ versions # << >>
    /\ \A v \in DOMAIN versions :
          versions[v].index = v - 1 /\ (v > 1 => versions[v].federation.network = network)
    /\ in_use \in [DOMAIN versions -> Nat]
    /\ mined \in Seq(Payment)
    /\ pc \in {"idle", "built", "scan"}
    /\ engine \in Seq(Registration)
    /\ tip \in Nat /\ height \in Nat /\ cursor \in 0 .. Len(mined)
    /\ store \subseteq DOMAIN mined /\ raced \subseteq DOMAIN mined
    /\ failures \in 0 .. MaxFailures

(***************************************************************************)
(* A later version with the payee's descriptor and another blinding key.   *)
(***************************************************************************)
Shadowed(p) ==
    /\ p.blinding # Explicit
    /\ \E w \in DOMAIN versions :
          /\ w > p.version
          /\ versions[w].federation.descriptor = p.spk[1]
          /\ versions[w].federation.key # p.blinding

(***************************************************************************)
(* A payment to any version, however old, to any address handed out,       *)
(* before, during or after a pass, is in the store once its block was      *)
(* scanned, with two exceptions: its block was mined between the building  *)
(* of the engine and the reading of the tip, to an address handed out in   *)
(* between and beyond the gap; or a later version took over its scripts    *)
(* with another blinding key.                                              *)
(***************************************************************************)
Found(p) == p \in store \/ p \in raced \/ Shadowed(mined[p])

Discovered == \A p \in 1 .. cursor : Found(p)

(***************************************************************************)
(* And every payment is found in the end and stays so, with the same       *)
(* exceptions, if passes go on.                                            *)
(***************************************************************************)
EventuallyFound ==
    \A p \in 1 .. MaxBlocks :
        [](p \in DOMAIN mined => <>[](p \in DOMAIN mined /\ p <= cursor /\ Found(p)))

-----------------------------------------------------------------------------
(***************************************************************************)
(* The inductive invariant behind Discovered.  An engine holds the oldest  *)
(* versions with the keys they still have; payments went to addresses in   *)
(* use; and an engine reaches every payment of the blocks its pass scans,  *)
(* the raced ones apart, up to the tip that ReadTip fixed.                 *)
(***************************************************************************)
EngineOfVersions ==
    /\ pc = "idle" => engine = << >>
    /\ Len(engine) <= Len(versions)
    /\ \A v \in DOMAIN engine :
          /\ engine[v].descriptor = versions[v].federation.descriptor
          /\ engine[v].key = versions[v].federation.key

PaidTo(p, v) ==
    /\ v \in DOMAIN versions
    /\ p.spk[1] = versions[v].federation.descriptor
    /\ p.spk[3] < in_use[v]
    /\ p.blinding \in {versions[v].federation.key, Explicit}

Payments == \A p \in DOMAIN mined : PaidTo(mined[p], mined[p].version)

Reached(p) == p \in raced \/ InEngine(mined[p].version, mined[p].spk[3])

PassProgress ==
    /\ pc = "built" => \A p \in DOMAIN mined : Reached(p)
    /\ pc = "scan" =>
          /\ tip \in cursor .. Len(mined) /\ height \in cursor + 1 .. tip + 1
          /\ \A p \in 1 .. tip : Reached(p)
          /\ \A p \in 1 .. height - 1 : Found(p)

IndInv == TypeOK /\ EngineOfVersions /\ Payments /\ PassProgress /\ Discovered

-----------------------------------------------------------------------------
(***************************************************************************)
(* "[...] which registered wollet owns it (so the right blinding key is    *)
(* used to unblind)" (sync/scan.rs): no version shadows another.           *)
(***************************************************************************)
RightKeyUsed == \A p \in 1 .. cursor : p \in store \/ p \in raced
=============================================================================
