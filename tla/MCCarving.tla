------------------------------ MODULE MCCarving -----------------------------
(***************************************************************************)
(* Carving on images of two blocks of eight bytes: magic numbers at their  *)
(* start, one across the boundary, footers at the end and in the middle.   *)
(***************************************************************************)
EXTENDS Carving

Padded(s) == s \o [i \in 1 .. 8 - Len(s) |-> 0]

Magics == {Defaults[i].signatures[1].bytes : i \in 1 .. Len(Defaults)}

MCImages ==
  {Padded(m) \o Padded(<<255, 217>>) : m \in Magics}
    \cup {<<0, 0, 0, 255, 217, 0, 255, 217>> \o Padded(<<80, 75, 3, 4>>),
          <<0, 0, 0, 0, 0, 0, 255, 217>> \o Padded(<<255, 251>>) \o <<255, 216, 255>>,
          <<0, 0, 0, 0, 0, 0, 80, 75>> \o <<3, 4, 0, 0, 0, 0, 0, 255>>}

MCCustomTypes ==
  << [name |-> "JPEG", signatures |-> <<[bytes |-> <<255, 217>>, offset |-> Anywhere,
                                         is_footer |-> TRUE]>>],
     [name |-> "TAR", signatures |-> <<[bytes |-> <<80, 75, 3, 4>>, offset |-> 6,
                                        is_footer |-> TRUE]>>] >>
=============================================================================
