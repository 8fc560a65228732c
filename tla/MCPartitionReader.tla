-------------------------- MODULE MCPartitionReader -------------------------
(* Instance of PartitionReader for TLC. *)
EXTENDS PartitionReader

\* From the second block: inside the capacity, through the last block, empty.
MCPartitions == {<<1, 3>>, <<1, 4>>, <<1, 0>>}

\* Within blocks and across them, an empty one; the last reaches past every
\* partition.
MCFiles == <<<<1, 5>>, <<3, 0>>, <<3, 2>>, <<4, 4>>>>
=============================================================================
