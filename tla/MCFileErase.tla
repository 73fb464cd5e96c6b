---------------------------- MODULE MCFileErase -----------------------------
(***************************************************************************)
(* FileErase on files of at most two sectors, in chunks of two, which the  *)
(* kernel may take in two writes.                                          *)
(***************************************************************************)
EXTENDS FileErase
=============================================================================
