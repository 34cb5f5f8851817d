---------------------------- MODULE MCMigration ----------------------------
(***************************************************************************)
(* An instance of Migration for TLC: two customers, one of them with a     *)
(* received coin and a change coin, and a fee account.                     *)
(***************************************************************************)
EXTENDS Migration

First(script, value) == [tx |-> Funds, script |-> script, value |-> value]

MCFunding ==
    {First(<<"f", "old", "external", 0>>, 9),
     First(<<"c1", "old", "external", 1>>, 3),
     First(<<"c1", "old", "internal", 0>>, 2),
     First(<<"c2", "old", "external", 0>>, 4)}
=============================================================================
