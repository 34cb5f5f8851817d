---------------------------- MODULE SpendBuilder ----------------------------
(***************************************************************************)
(* The builders of src/src/spend.rs as operators on coins.                 *)
(*                                                                         *)
(* A script is the place it is derived at: the account's wallet, the       *)
(* federation version of its descriptor, the keychain and the index.  A    *)
(* coin is a transaction output; every coin is L-BTC.  LWK's TxBuilder is  *)
(* modelled by what the builders rely on: all external UTXOs are inputs,   *)
(* recipients get what they are to get, the fee is at least 1, and change  *)
(* or drain output takes the rest, of which there must be some.            *)
(***************************************************************************)
EXTENDS Integers, FiniteSets, Functions

CONSTANTS
    Account,        \* wallets of the vault, and those outside,
    Txid            \* names for transactions

Version  == {"old", "new"}
Keychain == {"external", "internal"}
Wollet   == Account \X Version
Script   == Account \X Version \X Keychain \X Nat

AccountOf(script) == script[1]
VersionOf(script) == script[2]

Funds == 0      \* the id of what paid the first coins
Coin  == [tx : Txid \cup {Funds}, script : Script, value : Nat \ {0}]

(***************************************************************************)
(* CapturedUtxo: what it says of its script is in the fields chain and     *)
(* index.  It does not say which version of the wallet matched, so an      *)
(* input is paired with a wollet by the caller.                            *)
(***************************************************************************)
Captured == [coin : Coin, chain : Keychain, index : Nat]
Input    == [utxo : Captured, owner : Wollet]

(***************************************************************************)
(* The capture the block scan makes, and the one captured_from_output      *)
(* makes: it takes the chain for granted and believes the caller's index.  *)
(* Mutant: the output is taken for change.                                 *)
(***************************************************************************)
CapturedByScan(coin) ==
    [coin |-> coin, chain |-> coin.script[3], index |-> coin.script[4]]

CapturedAsChange(coin, index) ==
    [coin |-> coin, chain |-> "internal", index |-> index]

CapturedFromOutput(coin, index) ==
    [coin |-> coin, chain |-> "external", index |-> index]

-----------------------------------------------------------------------------
(***************************************************************************)
(* The script of ElementsWollet::address, and that of definite_at: the     *)
(* wollet's own single descriptor of the chain, at the index.  Mutant:     *)
(* every input is taken for a received one.                                *)
(***************************************************************************)
AddressOf(wollet, chain, index) == <<wollet[1], wollet[2], chain, index>>

ExternalAt(wollet, chain, index) == <<wollet[1], wollet[2], "external", index>>

DefiniteAt(wollet, chain, index) == <<wollet[1], wollet[2], chain, index>>

(***************************************************************************)
(* finish_blinded: update_input_with_descriptor refuses a descriptor that  *)
(* does not derive the input's script.  Mutant: an input it refuses is     *)
(* passed over like one that is not in the map.                            *)
(***************************************************************************)
Definite(input) == DefiniteAt(input.owner, input.utxo.chain, input.utxo.index)

EnrichedOrSkipped(inputs) == \A i \in inputs : Definite(i) \in Script

Enriched(inputs) == \A i \in inputs : Definite(i) = i.utxo.coin.script

-----------------------------------------------------------------------------
(***************************************************************************)
(* Coins of a transaction.  A transaction also names the account that      *)
(* ordered it and, for a payment, the payee and the amount.                *)
(***************************************************************************)
SumOf(S) == SumFunctionOnSet([c \in S |-> c.value], S)

CoinsOf(inputs) == {i.utxo.coin : i \in inputs}

Recipient(script, amount) == [script |-> script, value |-> amount]

Paid(tx, recipients) ==
    {[tx |-> tx, script |-> r.script, value |-> r.value] : r \in recipients}

Tx == [id : Txid, payer : Account, payee : Account, amount : Nat,
       ins : SUBSET Coin, outs : SUBSET Coin, fee : Nat, migrates : BOOLEAN]

(***************************************************************************)
(* The result of TxBuilder::finish: recipients, and the rest to one        *)
(* script.  Without a rest it is SpendError::Build.                        *)
(***************************************************************************)
Rest(inputs, recipients, fee) ==
    SumOf(CoinsOf(inputs)) - SumOf(recipients) - fee

Funded(inputs, recipients, fee) == Rest(inputs, recipients, fee) > 0

Outputs(id, inputs, recipients, rest_to, fee) ==
    Paid(id, recipients \cup
             {Recipient(rest_to, Rest(inputs, recipients, fee))})

(***************************************************************************)
(* build_spend_pset: change goes to the wollet's internal chain.  LWK      *)
(* takes the first unused index, and a wollet that was never synchronised  *)
(* knows of no use.                                                        *)
(***************************************************************************)
SpendTx(id, wollet, inputs, recipient, fee) ==
    [id |-> id, payer |-> wollet[1], payee |-> AccountOf(recipient.script),
     amount |-> recipient.value, ins |-> CoinsOf(inputs),
     outs |-> Outputs(id, inputs, {recipient}, AddressOf(wollet, "internal", 0), fee),
     fee |-> fee, migrates |-> FALSE]

(***************************************************************************)
(* build_sweep_pset: everything to one script.                             *)
(***************************************************************************)
SweepTx(id, wollet, inputs, recipient, fee) ==
    [id |-> id, payer |-> wollet[1], payee |-> AccountOf(recipient),
     amount |-> Rest(inputs, {}, fee), ins |-> CoinsOf(inputs),
     outs |-> Outputs(id, inputs, {}, recipient, fee),
     fee |-> fee, migrates |-> FALSE]

(***************************************************************************)
(* build_migration_pset.  Mutant: the fee is taken from a recipient, and   *)
(* the drain output gets the rest without it.                              *)
(***************************************************************************)
FeeFromRecipients(id, payer, inputs, recipients, fee_dest, fee) ==
    LET r == CHOOSE x \in recipients : TRUE
        short == IF recipients = {} THEN {}
                 ELSE (recipients \ {r}) \cup {[r EXCEPT !.value = @ - fee]}
    IN  [id |-> id, payer |-> payer, payee |-> payer, amount |-> 0,
         ins |-> CoinsOf(inputs), outs |-> Outputs(id, inputs, short, fee_dest, fee),
         fee |-> fee, migrates |-> TRUE]

MigrationTx(id, payer, inputs, recipients, fee_dest, fee) ==
    [id |-> id, payer |-> payer, payee |-> payer, amount |-> 0,
     ins |-> CoinsOf(inputs), outs |-> Outputs(id, inputs, recipients, fee_dest, fee),
     fee |-> fee, migrates |-> TRUE]
=============================================================================
