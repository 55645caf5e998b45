---------------------------- MODULE MCPohService ----------------------------
(* Small instances of PohService for TLC.                                  *)
EXTENDS PohService

\* A transaction of a vanilla scheduler, and a block of two batches.
MCRecords == {[batches |-> 1, harmonic |-> FALSE], [batches |-> 2, harmonic |-> TRUE]}
=============================================================================
