---------------------------- MODULE MCTileStore ----------------------------
(* Three pixel values, of which two are stored alike, and two documents in *)
(* one directory and a third in another.                                   *)
EXTENDS TileStore

MCPixels  == {"blank", "red", "dark red"}
MCHash    == [p \in MCPixels |-> IF p = "blank" THEN "b" ELSE "r"]
MCDecoded == [h \in {"b", "r"} |-> IF h = "b" THEN "blank" ELSE "red"]

OneLayer  == <<"a">>
TwoLayers == <<"a", "b">>

OneDirectory   == [f \in {"f", "g"} |-> "project"]
TwoDirectories == [f \in {"f", "g", "h"} |-> IF f = "h" THEN "copy" ELSE "project"]
=============================================================================
