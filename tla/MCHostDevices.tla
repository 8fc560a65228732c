---------------------------- MODULE MCHostDevices ---------------------------
(***************************************************************************)
(* Instances of HostDevices for TLC: a stick the allow list accepts and a  *)
(* camera it may refuse.                                                   *)
(***************************************************************************)
EXTENDS HostDevices

CONSTANTS stick, camera, h1, h2

BothDevices == {stick, camera}
JustStick   == {stick}
OneHandle   == {h1}
TwoHandles  == {h1, h2}

=============================================================================
