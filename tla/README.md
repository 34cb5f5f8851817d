# Verification of emvault-elements

TLA+ specifications of `src/`, the Elements/Liquid side of a federated multisig vault: a library
that watches a Liquid node's blocks for the outputs of its wallets, and that builds, blinds, signs
and finalizes the transactions (PSETs) that spend them. TLC checks the specifications on small
instances, TLAPS proves the main safety properties for every instance. `PROJECT.json` lists the
runs, the properties with a mutant of the code each of them catches, the source lines behind each
definition, the hazards, and the theorems.

## 1. Inventory

The library is passive: it starts no thread and keeps nothing on disk. The application calls it,
implements the two store traits over its database, and decides when to synchronise. What runs
concurrently is the outside: the node extends and reorganises its chain while a pass asks it
questions, RPC and database calls fail, the process dies, external signers answer late or never.

| Component (src/src/) | State | Operations | Hard behaviour | What makes it correct |
|---|---|---|---|---|
| Block-scan engine, `sync/scan.rs` | script index, list of wollets; locals of a pass | `register_wallet`, `sync`, `find_common_ancestor` | a pass is dozens of separate node and store calls; reorgs, failures and crashes between any two | stored blocks have no gap under the cursor; after a pass the UTXO store is what the scanned blocks say; the cursor catches up |
| Stores and chain source, `sync/mod.rs`, `sync/fakes.rs` | outpoint -> entry; height -> hash; cursor; the node's chain | `upsert_utxos`, `mark_spent`, `unspent_outpoints`, `rollback_above` (two), `store_block`, `set_synced_tip`, reads | idempotence under rescans; two stores rolled back one after the other | rescans converge; a rollback undoes exactly the blocks above its height |
| Client-side wollet, `wollet.rs` | descriptor, blinding key, network | `watched_scripts`, `unblind`, `address` | a script can be watched by several wollets with different blinding keys | foreign-blinded outputs are skipped, not captured |
| PSET pipeline and coordinator, `pset.rs`, `confidential.rs` | the PSET; the set of counted signers | `UnsignedPset::new`, `blind_pset`, `BlindedPset::new`, coordinator `new`, `sign_with`, `receive_signature`, `is_complete`, `finalize` | copies come back late, twice, out of order; a signer fails between two inputs; the coordinator is lost and reopened; completion counts signers, finalization works on inputs | nobody counted without a signature, nothing signed without proofs, no signature lost, exactly m signatures in each witness, sessions end |
| Signers, `signer.rs`, `testkit.rs` | key | `sign_pset` | partial work before an error | signs only inputs that name its key |
| Spend path, `spend.rs` | none | `build_spend_pset`, `build_sweep_pset`, `build_migration_pset`, `captured_from_output` | unconfirmed change chained by hand next to a UTXO list read earlier; replies lost, hops evicted or reorganised away; captures that do not name their version | every account keeps its exact balance, every input gets its own wallet's metadata, all customers are moved in the end |
| Federated wallet, `federated_wallet.rs` | immutable list of (federation, handle) | `new`, `with_federation`, queries | versions and addresses are added while engines built from older ones scan; network checks differ | versions are only appended, indices are positions, payments to every version are found |
| CT descriptor builder, `descriptor.rs` | map signer -> key | `add_signer`, `build` | insertion happens before the duplicate is reported; several processes build the same descriptor | one key per signer, independent of insertion order |
| Daemon RPC, `rpc.rs` | none | one JSON-RPC call per method; `ensure_wallet_loaded` | check-then-act against a shared daemon that restarts | the wallet is loaded when Ok is returned; who loses a race succeeds by trying again |
| Networks, errors, crate root, `network.rs`, `error.rs`, `lib.rs` | none | conversions, declarations | none | - |

How they interact: a federation version is a descriptor (builder) plus a blinding key, kept in the
federated wallet as a handle; a handle becomes a wollet; wollets are registered with the engine,
which indexes their scripts; `sync` reads the chain source, writes both stores, and uses the wollet
of an index entry to unblind. The application reads captured UTXOs from the store, passes them to
the spend path, gives the blinded PSET to a coordinator together with the current federation, and
broadcasts what `finalize` returns.

## 2. Modules

| Module | Models | Extends / composes |
|---|---|---|
| `ElementsChain` | blocks, transactions, the chains a node may have | - |
| `ScriptIndex` | `register_wallet`'s script index for any list of registrations, and `ElementsWollet::unblind` | - |
| `WatchIndex` | the index of the engine whose passes `BlockScan` models | `ElementsChain`, `ScriptIndex` |
| `SyncStores` | each state-changing method of the two stores as an operator | - |
| `WalletView` | what a set of blocks says about the watched outputs | `WatchIndex`, `SyncStores` |
| `UtxoLedger` | abstract specification: a ledger of blocks and the exact view of it | `WalletView` |
| `BlockScan` | `sync` as steps, the node, failures; instantiates `UtxoLedger` under a refinement mapping | `WalletView` |
| `BlockScanInvariant` | the inductive invariant | `BlockScan` |
| `IndexLemmas` | lemmas about the script index that both proofs use | `ScriptIndex` |
| `BlockScanProofs` | theorems about `BlockScan` | `BlockScanInvariant`, `IndexLemmas` |
| `MCBlockScan` | instance for TLC | `BlockScanInvariant` |
| `WalletVersions` | the federated wallet, addresses, and passes of engines built from its versions | `ScriptIndex` |
| `WalletVersionsProofs` | theorems about `WalletVersions` | `WalletVersions`, `IndexLemmas` |
| `MCWalletVersions` | instance for TLC | `WalletVersions` |
| `PsetSigning` | a PSET from wrapping to finalization, coordinator, signers, copies | - |
| `PsetSigningProofs` | theorems about `PsetSigning` | `PsetSigning` |
| `MCPsetSigning` | instance for TLC | `PsetSigning` |
| `SpendBuilder` | the builders of `spend.rs` as operators on coins with values | - |
| `Migration` | a batched migration, ordinary spends, the node and the UTXO store | `SpendBuilder` |
| `MigrationProofs` | theorems about enrichment in `Migration` | `Migration` |
| `SumLemmas` | lemmas about sums over finite sets | - |
| `MigrationBooks` | theorems about the balances in `Migration` | `MigrationProofs`, `SumLemmas` |
| `MCMigration` | instance for TLC | `Migration` |
| `WalletSetup` | descriptor builders and `ensure_wallet_loaded` of several processes on one daemon | - |
| `WalletSetupProofs` | theorems about `WalletSetup` | `WalletSetup` |
| `MCWalletSetup` | instance for TLC | `WalletSetup` |

### Block scan

*State.* `blocks`/`synced_tip` are `MemBlockStore`'s two fields, `utxos` is `MemUtxoStore`'s map
with its `spent_height`; `chain` is the node's active chain; `pc` is the point `sync` has reached
and `tip`, `height`, `spend_index`, `captured`, `spent` are its local variables (`height` is the
loop variable or the height the ancestor search looks at). `tainted` is a history variable, see
below. A block hash determines its transactions and its ancestors, so a chain is a function from
heights to blocks and `Chains` is a set of such functions closed under what `ElementsChain` assumes
(one genesis, a block has one history, an output is created and spent once on a chain).

*Steps.* One action per stretch of `sync` with at most one store write: `StartPass` (tip height),
`CheckCursor`, `FindAncestor` (one iteration), `RollbackBlocks`, `RollbackUtxos`, `LoadSpendIndex`,
`ScanBlock` (fetch, match, store the block), `Upsert`, `MarkSpent`, `SetCursor`. A node read is in
one step with the store write that follows it. Nothing is lost by this: a reorg between the read
and the write has the same effect as one right after the write, and a failure there is `Fail` at
the earlier point. Store methods hold one lock from beginning to end, so each is atomic.
`Fail` ends a pass anywhere, for an error returned by a call and for a crash alike: both lose the
locals and keep what is stored. `PushBlock` and `Reorg` are the node's.

`SyncSummary`'s counters are left out: nothing reads them. `Registrations` is a constant: the
engine's index does not change between the passes of a behaviour; `WalletVersions` is about indices
that do.

*`tainted`* becomes true when the node leaves the blocks a pass in flight (or an unfinished pass's
leftovers) relies on, and when a pass ends between the two rollbacks. In these two situations the
code cannot keep its promise (runs `mid_pass_reorg`, `half_rollback`); `ExactView` is stated for
everything else, which includes reorgs between passes of any depth, reorgs during passes that leave
the relied-on blocks alone, and crashes and errors at every other point.

### Wallet versions

*State.* `versions` is `federation_wallets`, a federation being its network, its descriptor without
the blinding key (from which all scripts derive) and that key; `in_use[v]` counts the addresses the
application has handed out of version `v`. `engine` is the list of registrations of the engine of
the pass in flight, `mined` the output of each block, `cursor` the last block of a complete pass,
`store` the blocks whose output was captured.

*Steps.* `WithFederation` and `Address` are the application's and happen at any point of a pass;
`Pay` mines a payment to an address in use, blinded to its version or explicit. A pass is
`BuildEngine` (a snapshot: wollets are borrowed, and the gap passed to `register_wallet` reaches
`Lookahead` beyond the addresses in use at that moment), `ReadTip`, one `ScanBlock` per block,
`SetCursor`; `Fail` ends it anywhere. Reorgs, spends and the single writes of a pass are left to
`BlockScan`: here the node's chain only grows, and one capture per block is enough to ask whether it
is found. `Init` is `new`, whose federation need not be on the wallet's network;
`WithFederation` compares. Payments go to external addresses; change takes part in the same way,
its keychain being watched to the same gap.

*What can be missed.* Two situations are excepted by `Discovered`, each as narrowly as the code
allows. `raced` holds the blocks that were mined after `BuildEngine` and before `ReadTip` with
a payment to an address that was handed out in between and lies beyond the engine's gap or in a
version it does not have; the pass scans such a block without looking for the address, and no pass
scans it again. `Shadowed` payments are blinded to a version whose scripts a later version has too,
with another blinding key (run `key_rotation`).

### PSET signing

*State.* `stage` is the newtype that holds the PSET: `draft` (raw, from the daemon), `planned` (raw,
from the spend path), `received` (raw, blinded and possibly signed elsewhere), `unsigned`, `blinded`,
`signing` (in a coordinator), `finalized`, and
`rejected` or `failed` after an error. `sigs[i]` are the signers with an entry in `partial_sigs` of
input `i`, `scripts` the inputs with `witness_script` and `bip32_derivation`, `outs` the outputs and
`blinding` the proofs and commitments each has, `witness[i]` the script positions whose signatures
`final_script_witness` holds (the finalizer pushes them in script order, so the set is the stack),
`signed` the coordinator's counted signers, `copies` the PSETs in circulation.

*Steps.* `Wrap`, `WrapBlinded`, `Blind`, `BuildSpend`, `OpenCoordinator`, `SignWith`, `ReceiveSignature`,
`Finalize`/`FinalizeEarly` are the code's operations; `SignWithFails` is `sign_with` whose signer
errs before some input, having signed the ones below it (the error returns before the signer is
counted); `Export`, `ExternalSign` and `Reopen` are the application and external signers. There are
three ways into a coordinator: `Wrap` and `Blind` for the daemon's PSETs, `BuildSpend` for the spend
path's, `WrapBlinded` for those received; `BlindedPset::new` on all three asks for one range proof,
`ValidBlinding` is the coordinator's gate. Any copy
can come back under any federation member's name, any number of times, also one that several
signers have signed, signed in part, or made before the latest signatures. ECDSA and the
cryptography of blinding are the libraries'; a signature is (input, signer), a proof or a commitment
is present or not. Copies are honest: what a copy has from a signer is that signer's valid signature
(section 5).

### Spending and migration

*Builders* (`SpendBuilder`). A script is the place it is derived at: account, federation version,
keychain, index. A coin is a transaction output; its value is a number, its asset L-BTC. A capture
(`Captured`) says chain and index of its script and nothing of the version; an input is a capture
with the wollet its caller pairs it with. `Definite` is what `definite_at` derives from the two and
`Enriched` says that `update_input_with_descriptor` accepts it for each input. `SpendTx`, `SweepTx`
and `MigrationTx` are the results of the three builders; LWK's part is that recipients get their
amounts, a fee of at least one is paid, and a positive rest goes to change or drain output, or
else the build fails (`Funded`).

*State* (`Migration`). `node` holds the transactions the node has, `mined` those in its blocks,
`store` what `list_unspent` returned after the last scan. `hand` holds the inputs the migration has
left to spend, `pset` the hop it is about to broadcast, `order` the same of an ordinary spender.
`misused` and `refused` are history: a caller mixed versions or gave a wrong index; a build ended in
`SpendError::Enrich`.

*Steps.* `ListUnspent` starts a migration from the store. `Build` is one hop: some customers and
all of the fee account's coins in hand, exact amounts to the customers at the new federation, the
rest to `FeeDest`, which is the fee account's old address until nobody is left. `Broadcast` submits
it and captures its change with `captured_from_output`. This is the flow of
`tests::batched_migration_chains_fee_change_offline`, the one place in the repository where the
builders are chained; the order of customers and the size of batches are free. What the application
does when something fails is not in the repository; the model lets it drop what it has in hand and
read the store again, the only thing that survives it. `BuildOrder` is an ordinary spend or sweep of
any member at any time. `Mine`, `Evict` and `Reorg` are the node's, `Scan` is a complete pass.
Faults: `ReplyLost`, `Restart`, `Evict`, `Reorg`; misuse: `ListAllAsOld`, `BroadcastWrongIndex`, and
orders that mix versions. A replacement by fee is an `Evict` and a new order. Signing is left to
`PsetSigning`; nothing here depends on it.

### Wallet setup

*State.* Per process: `pc`, the signers it has given its builder (`calls`), the builder's map
(`entries`), the keys of the descriptor built. The daemon's wallet `exists` on disk and is `loaded`;
`imported` are its descriptors. `careless` and `disturbed` are history: processes that went on after
`DuplicateKey`, and processes a fault has touched since they began `ensure_wallet_loaded`.

*Steps.* `AddSigner` and `AddDuplicate` are `add_signer` (a caller drops the builder on the error or
goes on with it), `Build` is `build`. `ListWallets`, `ListWalletDir`, then `LoadWallet` or
`CreateWallet` are the calls of `ensure_wallet_loaded`, one step each, with those of other processes
in between; `ImportDescriptors` follows. `Retry` begins again at `list_wallets`. Faults: a call that
does not reach the daemon, an answer that is lost, a restart of the daemon, and an answer to
`listwalletdir` of another shape, which `list_wallet_dir` reads as an empty directory.

## 3. Runs

| Run | Config | Question | Result |
|---|---|---|---|
| `scan_safety` | `ScanSafety.cfg` | gapless store, exact view, inductive invariant, does the cursor catch up? all disturbances on | holds |
| `scan_refinement` | `ScanRefinement.cfg` | does the pipeline implement the abstract ledger in a quiet environment? the invariant of that proof | holds |
| `mid_pass_reorg` | `MidPassReorg.cfg` | is the cursor's hash always a scanned block's? | violated |
| `half_rollback` | `HalfRollback.cfg` | are stored captures confirmed where they say? | violated |
| `shorter_node` | `ShorterNode.cfg` | is a node below the cursor followed? | violated |
| `signing` | `Signing.cfg` | counting, blinding gate, witness size, no lost signature, completion | holds |
| `uncommitted` | `Uncommitted.cfg` | do all outputs in a coordinator have commitments? | violated |
| `underfilled` | `Underfilled.cfg` | is every finalized input fully signed? | violated |
| `wallet_versions` | `Versions.cfg` | is every payment to any version found, and in the end? inductive invariant | holds |
| `key_rotation` | `KeyRotation.cfg` | is an output unblinded with the right version's key? | violated |
| `migration` | `Migration.cfg` | exact balances, no coin of the new federation moved, who is to blame for `Enrich`, is every customer moved in the end? both inductive invariants | holds |
| `wallet_setup` | `Setup.cfg` | one descriptor, Ok means loaded, losers of races, does everybody finish? inductive invariant | holds |

*What the passing runs show.* `CursorCovered`: stored heights are `0..n` and the cursor is among
them, whatever the node does and wherever passes are cut. `ExactView`: after an `Ok` the UTXO store
equals `ViewOf(blocks)`, entry for entry: owner, height, spend flag, spend height. `CatchesUp`: the
cursor converges to the node's tip if the tip stops being below the cursor. `ImplementsLedger`:
in a quiet environment each store write is a ledger step or a stutter, so that between any two calls
the store (with the one pending write carried out) is exactly what a prefix of some chain says;
`InStep` is the invariant of the proof: heights stored, cursor and tip fit together at each point. `CountedContributed`, `SignedMeansProven`,
`QuorumFilled`, `SignaturesKept`, `SigningCompletes`: see the comments in `PsetSigning`.
`Discovered` and `EventuallyFound`: a payment to any version, to any address handed out before or
during a pass, is in the store once the cursor has passed its block, and the cursor does pass it,
with the two exceptions above. `Conserved`: at every point of a migration the coins of every account
are worth what they were, less the payments and fees of its own orders and plus what it was paid;
`MigrationTx` orders are the fee account's, so its fees are its own and customers pay nothing.
`NewCoinsStay`: a hop takes no customer's coin that is at the new federation already, even if the
application takes all it finds for old ones; the comparison of scripts in enrichment stops it.
`RefusedOnlyMisuse`: that comparison never stops a caller that pairs coins and indices rightly, over any
number of chained hops. `AllMoved`: what the hops had not moved when a fault cut them short is moved
by the next attempt; a conflict with the attempt before is resolved once its hops are mined and
scanned. `OneDescriptor`, `OkMeansLoaded`, `LoserFindsItLoaded`, `AllSetUp`: the order in which processes
meet the signers does not matter; `ensure_wallet_loaded` is right in every interleaving, as long as the
daemon stays up during the call; the error the loser of a race gets is cured by a retry, as is a restart.

*What the violated ones show.* The six statements are the documentation's, quoted in
`PROJECT.json` under `findings`.
`mid_pass_reorg`: `sync` asks the node again for the hash at the tip after the last block is
scanned; after a reorg in between, the cursor gets a hash that was never scanned, and reorg
detection compares with that hash from then on.
`half_rollback`: the block store is rolled back first and takes the cursor along; if the UTXO
rollback then fails, the next pass sees an agreeing cursor and never repeats it.
`shorter_node`: while the node stays below the cursor, the clamp for a stored tip above the node's is
not reached, since the comparison before it asks for a block the node does not have. The clamp acts
only in a race: the tip was below the cursor when the pass read it, and has grown past it by
the comparison. `scan_safety` (`ShorterTips`) has that race; the cursor moves back over stored blocks and
`CursorCovered` holds.
`uncommitted`: the documentation of the gate names commitments, proofs and blinder indices, the code
looks at proofs and indices only, so a received output with both proofs and no commitment passes.
`underfilled`: two of three signers complete a session in which one input belongs to an older
version of the federation, for which only one of them holds a key.
`key_rotation`: scripts do not depend on the blinding key, so a version that keeps its members and
rotates the key (or a return to earlier members with a new key) takes over the index entries of
the older version, whose outputs then fail to unblind and are skipped.

*Bounds, and why they are enough.* The chain instance has a genesis and three branches: re-mining
the same transactions at other heights and in one block (`b1`, `b2`), replacing a transaction by a
conflicting one (`c2`), and the main branch with capture, spend, and spend of the change (`a1`-`a3`).
One output is blinded to a foreign key and one lies above the gap; two wallets, one with two
federation versions. With up to three reorgs (`MaxReorgs`) and two failed passes (`MaxFailures`)
each at any point of a pass, a pass can be interrupted, its leftovers reorganised, the repair
interrupted as well, and finished. Disturbances are finite because
convergence is only promised once they stop. `scan_refinement` has the environment that
`QuietEnvironment` names: reorgs between passes and up to the search for the ancestor, none to a lower tip, and failures
before the first write and after both rollbacks. Beyond it the refinement does not hold, because a scan
cut short, or overtaken by a reorg, leaves a store that no ledger state describes until a later pass repairs it; a reorg
to a lower tip just before a pass compares its cursor, followed by a new block, makes it scan over a block
that stays stored above. `ExactView` is what remains there.
The signing instance has two inputs: one of the federation (2-of-3), one of an older version with
one signer replaced, so scripts order and hold keys differently. Six PSETs start as drafts or on the
spend path: signed, partly clear, with a bad blinder index, with one or both scripts missing, and a
good one. Four are received blinded, with an output that has no blinder index: signed and complete,
without commitments, signed without a surjection proof, and signed with no proof at all.
Signers `s1`, `s2`, `s4` sign in the process and `s2`, `s3` externally, so one signer does both and
one belongs to the old version only; two copies in circulation (`MaxCopies`) are enough for one to be older than
the other, and both to be merged in either order; two failures (`MaxFailures`) and one restart (`MaxReopens`) let a retry fail
again and a session be reopened on an old copy. `Signing.cfg` does not check deadlock: a finalized,
rejected or failed PSET is the end.
The wallet instance has candidates that replace the members, the key, or both, one on another
Elements network and one that is not Elements. Two versions (`MaxVersions`) are enough for one to shadow the other or
to be missing from an engine, two addresses of each (`MaxAddresses`) with a `Lookahead` of one for
an address within and one beyond the gap of an old engine, two blocks (`MaxBlocks`) for one below and one above
the tip of a pass, one failed pass (`MaxFailures`) for a second look at the same block.
The migration has two customers, one with a received coin and a change coin, and so up to three hops
and a chain of two captures; one ordinary spend (`MaxSpends`) of any member to race with a hop, with
an amount (`Amounts`) that with the fee (`MaxFee`) is exactly what one customer has and less than what the
others have, so that a rest of nothing is refused; a fee account that has enough for all hops, without
which no migration can end; one fault or misuse (`MaxFaults`) at any point, next to the ordinary
spend, for what is left to the second attempt (the safety properties are proved for any number of
them). Eight transaction ids are
more than any state uses at once, so no build waits for one. The run ends where
everything is moved and scanned, so deadlock is not checked.
The setup has two processes, a federation of two and a stray signer with the id of one of them, two wrong
calls of `add_signer` (`MaxMistakes`) and two faults (`MaxFaults`): one process can create what the other is about to
create, lose the answer, and meet a restart before its retry. It ends when both are done.

*Fairness.* The library has no scheduler; fairness is about its caller. `BlockScan!FairSpec`: the
application keeps calling `sync`, and a pass that is not failed proceeds. Nothing is assumed of the
node. `PsetSigning!FairSpec`: the application asks every signer that signs in the process again
while the session is open, and calls `finalize` once `is_complete`, which is how the coordinator's
tests and documentation use it. Nothing is assumed of external signers, nor of copies coming back. `WalletVersions!FairSpec`: as for
the scan, the application keeps building engines and calling `sync`. `Migration!FairSpec`: the
application carries on with a migration that has coins in hand or in the store and keeps scanning,
and the node mines what it has; ordinary spenders need not do anything. `WalletSetup!FairSpec`: no
process stops before it is done; mistakes and faults are not forced.
`SigningCompletes` therefore needs a threshold of in-process signers that find a key of theirs.

## 4. Proofs

Checked by TLAPS for every value of the constants that satisfies the modules' named assumptions
(chains with one genesis and no double spends; registrations and scripts of the right type; scripts
without repeated keys; members with distinct signer ids; a fee account that is no customer; finitely
many customers and coins to begin with, all from one funding transaction; amounts of at least one).
None bounds the number of blocks, wallets, signers, inputs, customers, hops or faults.

`BlockScanProofs`
- `CursorIsCovered`, `TypeCorrect`. Neither is inductive alone: a pass extends `blocks` at
  `height`, so one must know where `height` stands at each point. `Structure` = types,
  `CursorCovered` and `Positions` is inductive, and it holds with every disturbance.
- `IndInvInvariant`, `ViewExactness`. `Undisturbed` strengthens `ExactView` while `tainted` is
  false. *Lineage*: stored blocks lie on one chain, the node's while a pass relies on them.
  *Sound*: every entry, with the pending rollback carried out, is warranted by a stored block.
  *Complete*: what the applied blocks say has an entry and its spend is marked. *Watchful*:
  whatever is unspent in the store is in the spend index or was just found. Each action preserves
  each part (one lemma per action); at `idle` they give both inclusions and, since an output is
  born and spent once on a chain, equality of the entries (`WarrantedIsExact`).
- `LedgerImplemented`, under the constant assumption `QuietEnvironment`: `Spec => ImplementsLedger`.
  `Undisturbed` is not enough for it, since it speaks of what a pass has applied and leaves room
  for blocks above the cursor. `InStep` (theorem `PassInStep`) closes that room: nothing disturbs, the stored
  heights are exactly those the point of the pass implies, cursor and tip are below the node's
  tip, so that no read in a scan fails, and the clamp does nothing. From both, `AppliedView` is the view of `AppliedBlocks` at
  every point (`AppliedViewIsExact`: as stored, with the pending rollback, with the pending
  marks). A step then needs only be looked at for its blocks: `Upsert` is `Extend` with the node's chain as
  witness (`UpsertExtends`), `RollbackBlocks` is `Rollback`, all others leave them (`AppliedUnchanged`).

`PsetSigningProofs`
- `CountedHaveSigned` from the invariant that a counted signer holds a key of a signed input: the
  only hard case is a copy, where the signature must be the named signer's own.
- `SignedAreProven`: a PSET that waits to be blinded has no signatures, the coordinator's gate asks
  for all proofs, and outputs do not change after it. Between `BlindedPset::new` and the gate nothing
  is claimed: a received PSET may be signed and lack proofs there.
- `QuorumIsFilled`: `FirstOf(P, m)` has exactly `m` members when `P` has at least `m` (`FirstOfExact`,
  by mapping each position to its rank, which is injective, so no induction is needed); counted
  signers map injectively to their positions in the script.
- `SignaturesAreKept`: an action property, one case per action.

`WalletVersionsProofs`
- `NothingOverlooked` and `TypeCorrect` from `IndInv`. `Discovered` alone says nothing about a pass
  in flight. The invariant adds that an engine's registrations are the oldest versions with the keys they have
  (`EngineOfVersions`), that payments went to addresses in use (`Payments`), and that the engine
  reaches every payment below the pass's tip that is not `raced`, with those below `height` found
  (`PassProgress`). The step that matters is `ScanBlock` (`ReachedIsFound`): the entry of a reached
  script belongs to the last registration that watches it (`IndexLemmas!EntryIsLast`), which is the
  payee's or a later one, and then its key unblinds or the payment is shadowed.

`MigrationProofs`
- `EnrichBlamesTheCaller`, `NewFederationUntouched` from `IndInv`. Neither is inductive: that a build
  is not refused depends on what is in hand, and this on the store and on every hop before. The
  invariant says that outputs pay to scripts, that the store holds captures of the scan, that a
  customer's coin in hand is paired with an old wollet, and that without misuse capture and owner lead
  to the script (`HandDescribed`). The steps that matter are `BuildStep`, where enrichment turns the owner
  of an input into the version of its script, and `ChainStep`, where the change's script is the one
  `captured_from_output` takes for granted.

`MigrationBooks`, on `SumLemmas`
- `ExactAmounts`: `Spec => []Conserved`. `Conserved` sums over whatever the node has, and is not inductive:
  an evicted transaction takes its descendants along, so the node may go from any closed set of
  transactions to any smaller one. `BooksInOrder` is what survives this: each
  transaction has an id of its own, coins name the transaction they come from, no two spend the same coin,
  what is spent was made by a transaction the node has, each transaction balances for each account,
  and all sets are finite. It needs `TypeOK`, which in turn needs that no sum is negative, so the two are
  proved inductive together (`BooksStayInOrder`, `TypeCorrect`), one lemma per action; the hard one is a hop, where
  `Funded` and the amounts of `RecipientsOf` must give each customer back what its inputs were worth.
- `Conserved` then follows for any node whose books are in order, by induction over subsets of it:
  each transaction adds its outputs, takes its inputs, which are other transactions' outputs, and balances.
- `SumLemmas` is about the community modules' `SumFunctionOnSet`: it is a choice among the functions that satisfy
  a recursion, and the prover has no induction with an operator as a parameter. `SubsetInduction` gets by with a smallest
  counterexample under the well-founded subset ordering; from it follow existence of the sum
  (`SumOfStep`), independence of the order of summation, and its laws for unions and single elements.

`WalletSetupProofs`
- `OneDescriptorImported`: a builder whose caller never went on after `DuplicateKey` maps each id to the
  one member that has it, so at `build` its map is that of the members whatever the order
  (`Maps`, `Built`), and only built descriptors are imported (`Sources`).
- `OkIsLoaded`, `LosersAreServed` from `Races`: an undisturbed call that is about to load has seen the wallet
  on disk; one that is about to create has seen no wallet, so if there is one now it was created,
  and thereby loaded, since. `TypeCorrect`.

Only model-checked: the liveness properties `CatchesUp`, `SigningCompletes`, `EventuallyFound`, `AllMoved` and
`AllSetUp` (fairness and ENABLED are beyond the prover). Every safety property of a passing run is the
statement of a theorem. That `QuietEnvironment` is as weak as the refinement allows is TLC's finding, no theorem
says so: `ScanRefinement.cfg` with one more point in `FailPoints` or `ReorgPoints`, whichever it is, or with lower tips, has a counterexample. No module with a theorem uses recursion.

## 5. Not modelled, and why

- Descriptor text, key derivation, addresses, confidential commitments, ECDSA, weight and fee
  estimation: LWK's, secp256k1's and rust-elements' computations. What the code here
  decides from their results is modelled.
- The RPC methods besides `ensure_wallet_loaded`, the calls it makes, `import_descriptors` and
  `send_raw_transaction`: each binds one call of the daemon and decides nothing. The per-descriptor
  `success` flags of `import_descriptors` are its caller's to read.
- Assets other than L-BTC in the spend path; which index an address has (a payee's next address is
  one place); amounts near the limits of u64, which LWK adds up.
- `network.rs`, `error.rs`, `lib.rs`: conversions and declarations.
- Arguments of `sign_with` that contradict each other (signer of one member, id of another), and
  copies with more inputs than the coordinator's PSET, on which `receive_signature` panics.
- Copies that are not honest: `receive_signature` attributes a signature by the fingerprint in the
  copy's own `bip32_derivation` and verifies no ECDSA signature. In the model what a copy has from a
  signer is valid and its own, so `CountedContributed` is about late, repeated, partial and misnamed
  copies of the exported PSET, not about invalid signatures.
- PSETs that are received with inputs finalized already; whether a proof or a commitment is valid.
- Wallet persistence: the application's. The stores are those of `fakes.rs`, which are the
  reference for the traits.

## 6. Plan

Done, in this order: chain, stores and index; the scan and its invariant; the ledger and the
refinement; proofs of the scan; PSET signing and its proofs; wallet versions and their proofs;
spending and migration, wallet setup, and their proofs; the sums behind the balances of a migration;
the proof of the refinement. Left:

1. Further proofs about the scan with disturbances: what `tainted` gives up, and no more, is lost.
2. Composition of `Migration` with `PsetSigning`: hops that are signed by both an old and a new
   federation's signers while the coordinator counts one federation.
