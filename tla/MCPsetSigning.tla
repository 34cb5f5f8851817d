--------------------------- MODULE MCPsetSigning ---------------------------
(***************************************************************************)
(* A PSET with two inputs: one of a 2-of-3 federation, one of an older     *)
(* version of it in which s4 held the place of s2.  The drafts are a sound *)
(* one, one that carries a signature already, one with a payment in the    *)
(* clear, one with a blinder index out of range, and two with inputs that  *)
(* lack the multisig metadata.  What is received blinded is signed by s1   *)
(* and complete, lacks commitments, lacks a surjection proof, or is signed *)
(* without any proof; foreign is an output without a blinder index.        *)
(***************************************************************************)
EXTENDS PsetSigning

CONSTANTS s1, s2, s3, s4, pay, clear, misplaced, foreign, fee

MCSigner     == {s1, s2, s3, s4}
MCFederation == {s1, s2, s3}
MCScriptKeys == <<  <<s1, s2, s3>>, <<s3, s4, s1>>  >>
MCRequired   == <<2, 2>>

MCOutput       == {pay, clear, misplaced, foreign, fee}
MCBlindable    == {pay, misplaced}
MCBlinderIndex ==
    [o \in MCOutput |-> CASE o = misplaced -> 3 [] o = foreign -> NoIndex [] OTHER -> 1]

Draft(ss, scs, os) == [sigs |-> ss, scripts |-> scs, outs |-> os]

MCDrafts ==
    {Draft(<<{}, {}>>,   {1, 2}, {pay, fee}),
     Draft(<<{s1}, {}>>, {1, 2}, {pay, clear, fee}),
     Draft(<<{}, {}>>,   {1, 2}, {pay, clear, fee}),
     Draft(<<{}, {}>>,   {1, 2}, {pay, misplaced, fee}),
     Draft(<<{}, {}>>,   {1},    {pay, fee}),
     Draft(<<{}, {}>>,   {},     {pay, fee})}

Arrival(ss, parts) ==
    [sigs |-> ss, scripts |-> {1, 2}, outs |-> {pay, foreign, fee},
     blinding |-> [o \in MCOutput |->
        CASE o = pay -> Proofs \cup Commitments [] o = foreign -> parts [] OTHER -> {}]]

MCReceived ==
    {Arrival(<<{s1}, {s1}>>, Proofs \cup Commitments),
     Arrival(<<{}, {}>>,     Proofs),
     Arrival(<<{s1}, {}>>,   {"range_proof"}),
     [Arrival(<<{s1}, {}>>, {}) EXCEPT !.outs = {foreign, fee}]}
=============================================================================
