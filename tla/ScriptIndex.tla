---------------------------- MODULE ScriptIndex ----------------------------
(***************************************************************************)
(* The script index of a BlockScanEngine (src/src/sync/scan.rs) and the    *)
(* wollets behind it (src/src/wollet.rs), for any sequence rs of           *)
(* register_wallet calls.  A script is derived from a descriptor, a        *)
(* keychain and an index; the blinding key of a wollet is no part of its   *)
(* scripts, only of its confidential addresses.                            *)
(***************************************************************************)
EXTENDS Integers, Sequences

CONSTANTS
    Wallet,         \* WalletId values
    Descriptor,     \* descriptors without their blinding key
    Key,            \* blinding keys
    Explicit        \* "blinding" of an output with explicit amount and asset

Keychain == {"external", "internal"}
Script   == Descriptor \X Keychain \X Nat

Registration == [wallet : Wallet, descriptor : Descriptor, key : Key, gap : Nat]

(***************************************************************************)
(* watched_scripts(gap) yields indices 0 .. gap - 1 of both keychains.     *)
(***************************************************************************)
Watches(r, spk) == spk[1] = r.descriptor /\ spk[3] < r.gap

(***************************************************************************)
(* HashMap::insert replaces: of the registrations that watch a script, the *)
(* last one owns its entry.                                                *)
(***************************************************************************)
IndexedBy(rs, spk) == \E i \in DOMAIN rs : Watches(rs[i], spk)

EntryIn(rs, spk) ==
    rs[CHOOSE i \in DOMAIN rs :
        /\ Watches(rs[i], spk)
        /\ \A j \in DOMAIN rs : Watches(rs[j], spk) => j <= i]

(***************************************************************************)
(* ElementsWollet::unblind: explicit outputs need no key.                  *)
(***************************************************************************)
Unblinds(key, blinding) == blinding \in {key, Explicit}

(***************************************************************************)
(* The outputs the engine captures: the script is in the index and the     *)
(* wollet of its entry unblinds the output.  Others are skipped.           *)
(***************************************************************************)
CapturedBy(rs, spk, blinding) ==
    IndexedBy(rs, spk) /\ Unblinds(EntryIn(rs, spk).key, blinding)
=============================================================================
