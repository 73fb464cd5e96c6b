------------------------------ MODULE SlotStack -----------------------------
(***************************************************************************)
(* What a block vector promises whoever carves with it: for each candidate *)
(* a stack of blocks, where what is pushed is neither tried nor valid,     *)
(* going back takes the newest blocks away, and a copy is independent of   *)
(* what it was made from.                                                  *)
(***************************************************************************)
EXTENDS Naturals, Sequences

CONSTANTS Vectors, CarveBlocks

VARIABLE stack

Push(v, b) ==
  stack' = [stack EXCEPT ![v] = Append(@, [block |-> b, valid |-> FALSE, tried |-> FALSE])]

Truncate(v, n) == stack' = [stack EXCEPT ![v] = SubSeq(@, 1, n)]

Mark(v, i, flag) == stack' = [stack EXCEPT ![v][i][flag] = TRUE]

Copy(v, w) == stack' = [stack EXCEPT ![w] = stack[v]]

Clear(v) == stack' = [stack EXCEPT ![v] = <<>>]

Init == stack = [v \in Vectors |-> <<>>]

Next ==
  \E v \in Vectors :
    \/ \E b \in CarveBlocks : Push(v, b)
    \/ \E n \in 0 .. Len(stack[v]) - 1 : Truncate(v, n)
    \/ \E i \in 1 .. Len(stack[v]), flag \in {"valid", "tried"} : Mark(v, i, flag)
    \/ \E w \in Vectors : Copy(v, w)
    \/ Clear(v)

Spec == Init /\ [][Next]_stack
=============================================================================
