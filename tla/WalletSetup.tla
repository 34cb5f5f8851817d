---------------------------- MODULE WalletSetup ----------------------------
(***************************************************************************)
(* Processes of an application set up the same federation version at the   *)
(* same time.  Each builds the confidential descriptor from the signers it *)
(* meets, in the order it meets them (CtDescriptorBuilder,                 *)
(* src/src/descriptor.rs), makes sure that the daemon has the wallet       *)
(* loaded (ensure_wallet_loaded, src/src/rpc.rs: three calls, each of      *)
(* which decides on what the one before it answered) and imports the       *)
(* descriptor.  A process that gets an error tries again.                  *)
(*                                                                         *)
(* A descriptor is its list of keys; text, threshold and blinding key are  *)
(* the same everywhere.                                                    *)
(***************************************************************************)
EXTENDS Integers, FiniteSets, Sequences

CONSTANTS
    Process,
    Members,        \* signers of the federation version,
    Signer,         \*   and others that have the id of one of them,
    IdOf,           \*   SignerIds, which are ordered
    MaxMistakes, MaxFaults      \* bounds

ASSUME SetupAssumption ==
    /\ Members \subseteq Signer
    /\ IdOf \in [Signer -> Nat]
    /\ \A s, t \in Members : IdOf[s] = IdOf[t] => s = t
    /\ \A s \in Signer : \E t \in Members : IdOf[s] = IdOf[t]
    /\ MaxMistakes \in Nat /\ MaxFaults \in Nat

VARIABLES
    pc,             \* what each process does next,
    calls,          \*   the signers it gave its builder,
    entries,        \*   the builder's map
    descriptor,     \*   and the descriptor built
    exists, loaded, \* the daemon's wallet: on disk, loaded
    imported,       \*   and the descriptors in it
    careless,       \* history: processes that went on after DuplicateKey
    disturbed,      \* history: processes whose call a fault has touched
    mistakes, faults

building == <<calls, entries, descriptor, careless, mistakes>>
daemon   == <<exists, loaded, imported>>
vars     == <<pc, building, daemon, disturbed, faults>>

Steps == {"collect", "list", "dir", "load", "create", "import", "failed", "done"}
Ensuring == {"list", "dir", "load", "create"}

EmptyMap == [id \in {} |-> 0]

Init ==
    /\ pc = [p \in Process |-> "collect"]
    /\ calls = [p \in Process |-> << >>]
    /\ entries = [p \in Process |-> EmptyMap]
    /\ descriptor = [p \in Process |-> << >>]
    /\ exists = FALSE /\ loaded = FALSE /\ imported = {}
    /\ careless = {} /\ disturbed = {}
    /\ mistakes = 0 /\ faults = 0

ElementsOf(seq) == {seq[i] : i \in DOMAIN seq}

Given(p) == ElementsOf(calls[p])

Goto(p, step) == pc' = [pc EXCEPT ![p] = step]

-----------------------------------------------------------------------------
(***************************************************************************)
(* add_signer: the entry goes into the map before the duplicate is seen.   *)
(* A caller gives each member once, or by mistake one again or a signer    *)
(* that is not a member.  Mutant: the map is made anew.                    *)
(***************************************************************************)
MadeAnew(map, s) == [id \in {IdOf[s]} |-> s]

Inserted(map, s) ==
    [id \in DOMAIN map \cup {IdOf[s]} |-> IF id = IdOf[s] THEN s ELSE map[id]]

Meets(p, s) ==
    /\ pc[p] = "collect"
    /\ \/ s \in Members \ Given(p) /\ UNCHANGED mistakes
       \/ mistakes < MaxMistakes /\ mistakes' = mistakes + 1

AddSigner(p, s) ==
    /\ Meets(p, s)
    /\ IdOf[s] \notin DOMAIN entries[p]
    /\ entries' = [entries EXCEPT ![p] = Inserted(@, s)]
    /\ calls' = [calls EXCEPT ![p] = Append(@, s)]
    /\ UNCHANGED <<pc, descriptor, careless, daemon, disturbed, faults>>

(***************************************************************************)
(* DuplicateKey: the caller drops the builder, or goes on with it.         *)
(***************************************************************************)
AddDuplicate(p, s) ==
    /\ Meets(p, s)
    /\ IdOf[s] \in DOMAIN entries[p]
    /\ \/ /\ entries' = [entries EXCEPT ![p] = EmptyMap]
          /\ calls' = [calls EXCEPT ![p] = << >>]
          /\ careless' = careless \ {p}
       \/ /\ entries' = [entries EXCEPT ![p] = Inserted(@, s)]
          /\ calls' = [calls EXCEPT ![p] = Append(@, s)]
          /\ careless' = careless \cup {p}
    /\ UNCHANGED <<pc, descriptor, daemon, disturbed, faults>>

(***************************************************************************)
(* build: the entries' keys in the order of their ids.  Mutant: in the     *)
(* order in which they were added.                                         *)
(***************************************************************************)
KeysAsAdded(p) == calls[p]

KeysIn(map) ==
    LET ids == DOMAIN map
        Below(id) == {j \in ids : j < id}
    IN  [n \in 1 .. Cardinality(ids) |->
            map[CHOOSE id \in ids : Cardinality(Below(id)) = n - 1]]

KeysOf(p) == KeysIn(entries[p])

Build(p) ==
    /\ pc[p] = "collect" /\ Members \subseteq Given(p)
    /\ entries[p] # EmptyMap
    /\ descriptor' = [descriptor EXCEPT ![p] = KeysOf(p)]
    /\ Goto(p, "list")
    /\ disturbed' = disturbed \ {p}
    /\ UNCHANGED <<calls, entries, careless, mistakes, daemon, faults>>

-----------------------------------------------------------------------------
(***************************************************************************)
(* ensure_wallet_loaded.  The daemon refuses to load a wallet that is      *)
(* loaded and to create one that is on disk.  Mutants: a wallet that is on *)
(* disk is taken for a loaded one; the wallet directory is not asked.      *)
(***************************************************************************)
ListWallets(p) ==
    /\ pc[p] = "list"
    /\ Goto(p, IF loaded THEN "import" ELSE "dir")
    /\ UNCHANGED <<building, daemon, disturbed, faults>>

OnDiskIsLoaded(p) ==
    /\ pc[p] = "dir"
    /\ Goto(p, IF exists THEN "import" ELSE "create")
    /\ UNCHANGED <<building, daemon, disturbed, faults>>

CreateAtOnce(p) ==
    /\ pc[p] = "dir"
    /\ Goto(p, "create")
    /\ UNCHANGED <<building, daemon, disturbed, faults>>

ListWalletDir(p) ==
    /\ pc[p] = "dir"
    /\ Goto(p, IF exists THEN "load" ELSE "create")
    /\ UNCHANGED <<building, daemon, disturbed, faults>>

LoadWallet(p, answered) ==
    /\ pc[p] = "load"
    /\ Goto(p, IF answered /\ exists /\ ~loaded THEN "import" ELSE "failed")
    /\ loaded' = exists
    /\ UNCHANGED <<building, exists, imported>>

CreateWallet(p, answered) ==
    /\ pc[p] = "create"
    /\ Goto(p, IF answered /\ ~exists THEN "import" ELSE "failed")
    /\ exists' = TRUE
    /\ loaded' = (loaded \/ ~exists)
    /\ UNCHANGED <<building, imported>>

(***************************************************************************)
(* import_descriptors; the daemon answers for a loaded wallet only.        *)
(***************************************************************************)
ImportDescriptors(p, answered) ==
    /\ pc[p] = "import"
    /\ Goto(p, IF answered /\ loaded THEN "done" ELSE "failed")
    /\ imported' = IF loaded THEN imported \cup {descriptor[p]} ELSE imported
    /\ UNCHANGED <<building, exists, loaded>>

Effect(p, answered) ==
    LoadWallet(p, answered) \/ CreateWallet(p, answered) \/ ImportDescriptors(p, answered)

Answered(p) == Effect(p, TRUE) /\ UNCHANGED <<disturbed, faults>>

(***************************************************************************)
(* The process tries again from list_wallets on.                           *)
(***************************************************************************)
Retry(p) ==
    /\ pc[p] = "failed"
    /\ Goto(p, "list")
    /\ disturbed' = disturbed \ {p}
    /\ UNCHANGED <<building, daemon, faults>>

(***************************************************************************)
(* A call that does not reach the daemon, one whose answer is lost, and a  *)
(* restart of the daemon, after which no wallet is loaded.  An answer to   *)
(* listwalletdir that has not the shape list_wallet_dir expects is read as *)
(* an empty directory.                                                     *)
(***************************************************************************)
Fault == faults < MaxFaults /\ faults' = faults + 1

CallFails(p) ==
    /\ pc[p] \in Ensuring \cup {"import"} /\ Fault
    /\ Goto(p, "failed")
    /\ disturbed' = disturbed \cup {p}
    /\ UNCHANGED <<building, daemon>>

DirUnreadable(p) ==
    /\ pc[p] = "dir" /\ Fault
    /\ Goto(p, "create")
    /\ disturbed' = disturbed \cup {p}
    /\ UNCHANGED <<building, daemon>>

AnswerLost(p) == Effect(p, FALSE) /\ Fault /\ disturbed' = disturbed \cup {p}

DaemonRestarts ==
    /\ loaded /\ Fault
    /\ loaded' = FALSE
    /\ disturbed' = Process
    /\ UNCHANGED <<pc, building, exists, imported>>

-----------------------------------------------------------------------------
ProcessStep(p) ==
    \/ \E s \in Members \ Given(p) : AddSigner(p, s) \/ AddDuplicate(p, s)
    \/ Build(p) \/ ListWallets(p) \/ ListWalletDir(p) \/ Answered(p) \/ Retry(p)

Next ==
    \/ \E p \in Process :
          \/ ProcessStep(p)
          \/ \E s \in Signer : AddSigner(p, s) \/ AddDuplicate(p, s)
          \/ CallFails(p) \/ DirUnreadable(p) \/ AnswerLost(p)
    \/ DaemonRestarts

Spec == Init /\ [][Next]_vars

(***************************************************************************)
(* No process stops before it is done.                                     *)
(***************************************************************************)
FairSpec == Spec /\ \A p \in Process : WF_vars(ProcessStep(p))

-----------------------------------------------------------------------------
(***************************************************************************)
(* Every variable holds values of its kind.                                *)
(***************************************************************************)
TypeOK ==
    /\ pc \in [Process -> Steps]
    /\ calls \in [Process -> Seq(Signer)]
    /\ DOMAIN entries = Process
    /\ \A p \in Process :
          /\ DOMAIN entries[p] = {IdOf[s] : s \in Given(p)}
          /\ \A id \in DOMAIN entries[p] : entries[p][id] \in Given(p)
    /\ DOMAIN descriptor = Process
    /\ exists \in BOOLEAN /\ loaded \in BOOLEAN
    /\ careless \subseteq Process /\ disturbed \subseteq Process
    /\ mistakes \in 0 .. MaxMistakes /\ faults \in 0 .. MaxFaults

(***************************************************************************)
(* Processes that met the members in different orders import one and the   *)
(* same descriptor, unless one of them went on after DuplicateKey, which   *)
(* has replaced the entry it complains about (src/src/descriptor.rs:83).   *)
(***************************************************************************)
OneDescriptor == careless = {} => \A d, e \in imported : d = e

(***************************************************************************)
(* ensure_wallet_loaded returns Ok only with the wallet loaded, whichever  *)
(* of the other processes loads or creates it between its calls, as long   *)
(* as the daemon does not restart during the call.                         *)
(***************************************************************************)
OkMeansLoaded == \A p \in Process :
    pc[p] = "import" /\ p \notin disturbed => loaded

(***************************************************************************)
(* Who loses the race to load or to create the wallet gets an error, and   *)
(* finds the wallet loaded all the same.                                   *)
(***************************************************************************)
LoserFindsItLoaded == \A p \in Process :
    pc[p] = "failed" /\ p \notin disturbed => loaded

(***************************************************************************)
(* The inductive invariant.  A builder whose caller never went on after    *)
(* DuplicateKey maps each id to the signer that was given, so at build the *)
(* map is that of the members.  What is imported was built by somebody.    *)
(* An undisturbed call is right about the wallet: the one thing that can   *)
(* happen to it unseen is that the wallet comes into being and is loaded.  *)
(***************************************************************************)
MemberMap ==
    [id \in {IdOf[s] : s \in Members} |-> CHOOSE s \in Members : IdOf[s] = id]

Maps == \A p \in Process :
    /\ entries[p] = [id \in DOMAIN entries[p] |-> entries[p][id]]
    /\ p \notin careless => \A s \in Given(p) : entries[p][IdOf[s]] = s

Built == \A p \in Process :
    pc[p] # "collect" /\ p \notin careless => descriptor[p] = KeysIn(MemberMap)

Sources == \A d \in imported : \E p \in Process : pc[p] # "collect" /\ d = descriptor[p]

Races ==
    /\ loaded => exists
    /\ \A p \in Process \ disturbed :
          /\ pc[p] = "load" => exists
          /\ pc[p] = "create" /\ exists => loaded
          /\ pc[p] \in {"import", "failed"} => loaded

IndInv == TypeOK /\ Maps /\ Built /\ Sources /\ Races

(***************************************************************************)
(* Every process gets its descriptor in, whatever lost races, lost answers *)
(* and restarts make it try again.                                         *)
(***************************************************************************)
AllSetUp == <>(\A p \in Process : pc[p] = "done")
=============================================================================
