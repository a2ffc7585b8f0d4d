------------------------------ MODULE MCLoads ------------------------------
(***************************************************************************)
(* Three small file systems for Loads: two documents that embed each other *)
(* and share an image; a document rejected after it has asked for another; *)
(* a chain longer than the cap.                                            *)
(***************************************************************************)
EXTENDS Loads

CONSTANTS root, docA, docB, docC, image

Cycle == root :> <<docA, image>> @@ docA :> <<docB, image>> @@ docB :> <<docA>> @@ docC :> <<>>
Rejected == root :> <<docA, docB>> @@ docA :> <<docB, Malformed>> @@ docB :> <<image>> @@ docC :> <<>>
Chain == root :> <<docA>> @@ docA :> <<docB>> @@ docB :> <<docC>> @@ docC :> <<>>
SmallWorlds == {Cycle, Rejected, Chain}
Nested == {root :> <<docA>> @@ docA :> <<>> @@ docB :> <<>> @@ docC :> <<>>}
=============================================================================
