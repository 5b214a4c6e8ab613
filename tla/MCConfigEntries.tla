--------------------------- MODULE MCConfigEntries ---------------------------
(***************************************************************************)
(* A small instance of ConfigEntries for TLC: two inverters and one of     *)
(* another make, at three addresses of which two share a connection.       *)
(***************************************************************************)
EXTENDS ConfigEntries, TLC

CONSTANTS e1, e2, f1, f2

SomeInverters ==
    {[serial |-> "A1", supported |-> TRUE],
     [serial |-> "B2", supported |-> TRUE],
     [serial |-> None, supported |-> FALSE]}

SomeAddresses ==
    {[link |-> "shared", unit |-> 1],
     [link |-> "shared", unit |-> 2],
     [link |-> "other", unit |-> 1]}

Symmetry == Permutations({e1, e2}) \cup Permutations({f1, f2})
=============================================================================
