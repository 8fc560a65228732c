------------------------------- MODULE MCWebcam ------------------------------
(* Instance of Webcam for TLC. *)
EXTENDS Webcam

\* None; no bandwidth; 2 bytes, 2 bytes twice in a microframe, and 3 bytes
MCEndpointSets == {<<>>, <<0>>, <<2, 2048 + 2, 3>>}

\* Around the ends of 16 and of 32 bits (here 18)
MCSizes == (0 .. 9) \cup (65535 .. 65545) \cup (U32 - 10 .. U32 - 1)
=============================================================================
