--------------------------- MODULE MCPreparedRing ---------------------------
(* The ring of prepared blocks with a playhead on either side of zero.     *)
EXTENDS PreparedRing

AroundZero == {-1, 0}
=============================================================================
