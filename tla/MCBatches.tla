------------------------------ MODULE MCBatches ------------------------------
(* An instance of Batches for TLC: shared and private keys, small and large *)
(* data, groups of exactly the limit, and an instruction that fits nowhere. *)
EXTENDS Batches

CONSTANTS pool, core, asset1, asset2

FiveShapes ==
    {[keys |-> {Payer, pool, core, asset1}, data |-> 2],
     [keys |-> {Payer, pool, core, asset2}, data |-> 2],
     [keys |-> {pool, asset1, asset2}, data |-> 9],
     [keys |-> {pool}, data |-> 22],
     [keys |-> {pool}, data |-> 0]}
=============================================================================
