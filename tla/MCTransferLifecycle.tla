------------------------- MODULE MCTransferLifecycle ------------------------
(***************************************************************************)
(* Instances of TransferLifecycle for TLC.  t1 reads and has a timeout; t2 *)
(* writes and has none, so it ends only when the device or a cancellation  *)
(* ends it.                                                                *)
(***************************************************************************)
EXTENDS TransferLifecycle

CONSTANTS t1, t2

Both      == {t1, t2}
One       == {t2}
JustT1    == {t1}
JustT2    == {t2}
Nothing   == {}
Statuses  == {"COMPLETED", "CANCELLED", "TIMED_OUT", "STALL"}
Endings   == {"COMPLETED", "CANCELLED"}

=============================================================================
