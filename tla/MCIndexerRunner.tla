-------------------------- MODULE MCIndexerRunner --------------------------
(* Instances of IndexerRunner: where the logs are.                         *)
EXTENDS IndexerRunner

\* Two logs in the first block, so that one range can stop between them.
MCBlockOf == <<1, 1, 2>>

\* An empty block between the logs, inside a range of two blocks.
SparseBlockOf == <<1, 3>>
=============================================================================
