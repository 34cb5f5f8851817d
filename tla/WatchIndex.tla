----------------------------- MODULE WatchIndex -----------------------------
(***************************************************************************)
(* The script index of the engine whose passes BlockScan models: the       *)
(* registrations that built it, and the outputs of the node's chains that  *)
(* it captures.                                                            *)
(***************************************************************************)
EXTENDS ElementsChain, ScriptIndex

CONSTANTS
    Registrations,  \* the register_wallet calls that built the engine, in order
    SpkOf,          \* SpkOf[op]: script of output op
    BlindedTo       \* BlindedTo[op]: key output op is blinded to, or Explicit

ASSUME RegistrationAssumption == Registrations \in Seq(Registration)
ASSUME OutputAssumption ==
    /\ SpkOf \in [OutPoint -> Script]
    /\ BlindedTo \in [OutPoint -> Key \cup {Explicit}]

Indexed(spk) == IndexedBy(Registrations, spk)

Captures(op) == CapturedBy(Registrations, SpkOf[op], BlindedTo[op])
Owner(op)    == EntryIn(Registrations, SpkOf[op]).wallet
=============================================================================
