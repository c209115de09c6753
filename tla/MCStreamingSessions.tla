------------------------- MODULE MCStreamingSessions -------------------------
(* The chunks and tags of the TLC runs of StreamingSessions. *)
EXTENDS StreamingSessions

Item(id, offset, length) == [id |-> id, offset |-> offset, length |-> length]

\* Token 0 stands for a piece of media.
Short == [tokens |-> <<1>>, media |-> <<>>]
One(id) == [tokens |-> <<1, 0>>, media |-> <<Item(id, 1, 1)>>]
Two(id, other) == [tokens |-> <<0, 1, 0, 0>>, media |-> <<Item(id, 0, 1), Item(other, 2, 2)>>]

FirstPrompts == {Short, Two("a", "b")}
\* A chunk of the passing run brings one item at most.
SingleItems == {One("c")}
SeveralItems == {Two("a", "b")}
Symmetry == Permutations(Sessions)
OneTag == {[first |-> "salt", every |-> "lora"]}
=============================================================================
