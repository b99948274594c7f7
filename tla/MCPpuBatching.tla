---------------------------- MODULE MCPpuBatching ----------------------------
(* A five-line frame of eight dots: every line kind, every dot that the code   *)
(* tells apart (0, 1, 2, 3, the skipped one) and batches shorter than a line,  *)
(* longer than a line and longer than half a frame.                            *)
EXTENDS PpuBatching

MCBatches == {1, 2, 3, 7}
=============================================================================
