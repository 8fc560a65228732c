----------------------------- MODULE MCBulkOnly -----------------------------
(***************************************************************************)
(* Instances of BulkOnly for TLC: which clients use the stick.             *)
(***************************************************************************)
EXTENDS BulkOnly

BothClients  == BOOLEAN

=============================================================================
