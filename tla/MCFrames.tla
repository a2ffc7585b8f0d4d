------------------------------ MODULE MCFrames ------------------------------
(* Two cells: tile "w" is the coarse tile over both, "a" and "b" the fine  *)
(* ones.  Shared: a leaf layer that is also the input of an operator       *)
(* layer.  Private: an operator layer over an input that is no layer.      *)
EXTENDS Frames

SharedContents  == {"leaf", "op"}
SharedLayers    == <<"leaf", "op">>
PrivateContents == {"in", "op"}
PrivateLayers   == <<"op">>
SharedInputs    == [c \in SharedContents |-> IF c = "op" THEN <<"leaf">> ELSE <<>>]
LeafContents    == {"leaf"}
LeafLayers      == <<"leaf">>
LeafInputs      == [c \in LeafContents |-> <<>>]
PrivateInputs   == [c \in PrivateContents |-> IF c = "op" THEN <<"in">> ELSE <<>>]

LeafEdits  == {<<"leaf", 1>>}
InputEdits == {<<"in", 1>>}

MCCells    == {1, 2}
MCTiles    == {"w", "a", "b"}
MCCellsOf  == [t \in MCTiles |-> CASE t = "w" -> {1, 2} [] t = "a" -> {1} [] t = "b" -> {2}]
MCCoarser  == [t \in MCTiles |-> IF t = "w" THEN "-" ELSE "w"]
MCViews    == {{"a", "b"}, {"b"}, {"w"}}
=============================================================================
