----------------------------- MODULE MCBlockmap -----------------------------
(***************************************************************************)
(* Blockmap for three blocks, the last of them perhaps beyond the image,   *)
(* and one worker beside the engine.  The images have a group of three     *)
(* equal blocks, two groups of which one has a duplicate, and a zero block *)
(* between equals.                                                         *)
(***************************************************************************)
EXTENDS Blockmap

MCImages == {<<"x", "x", "x">>, <<"y", "x", "x">>, <<"x", "zeros", "x">>}
=============================================================================
