----------------------------- MODULE MCPlayback -----------------------------
(* Audio playback that may be turned backwards.                            *)
EXTENDS Playback

Backwards == {-1}
=============================================================================
