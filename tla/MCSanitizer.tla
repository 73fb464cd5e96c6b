---------------------------- MODULE MCSanitizer -----------------------------
(***************************************************************************)
(* cli_run and sanitizer_run over ImageErase and ImageVerify, on an image  *)
(* of at most one sector that may grow to two: with blocks of one and of   *)
(* two sectors, whole blocks, a partial last block, several chunks in a    *)
(* pass, a sample that skips a block and a grown tail all occur.  A hard   *)
(* disk stands for every device that is verified and has stubs for the     *)
(* other methods, an SSD being no different.                               *)
(***************************************************************************)
EXTENDS Cli
=============================================================================
