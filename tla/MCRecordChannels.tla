-------------------------- MODULE MCRecordChannels --------------------------
(* Small instances of RecordChannels for TLC.                              *)
EXTENDS RecordChannels

CONSTANTS s1, s2

\* One batch of one transaction, and a block of two batches with three.
MCRecords == {[batches |-> 1, txs |-> 1], [batches |-> 2, txs |-> 3]}
=============================================================================
