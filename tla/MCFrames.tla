------------------------------ MODULE MCFrames ------------------------------
(* The watch's two slots, its one connection and the broadcast link.          *)
EXTENDS Frames

MCLinks == {"peer", "uud"}
=============================================================================
