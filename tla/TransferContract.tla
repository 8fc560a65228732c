-------------------------- MODULE TransferContract --------------------------
(***************************************************************************)
(* What the `transfer` resource of wit/transfers.wit promises its guest,   *)
(* without threads, channels, flags or callbacks: a transfer is created,   *)
(* submitted at most once with success, completes at most once, answers    *)
(* its guest with the result it completed with, and its operating-system   *)
(* object is released exactly once, never while the transfer is pending.   *)
(* TransferLifecycle, the model of the code, implements this module.       *)
(***************************************************************************)

CONSTANTS
  Transfer,   \* the transfers a guest creates
  Result,     \* what a transfer can complete with
  None        \* the absence of a result

VARIABLES
  owner,      \* who can still name the transfer
  io,         \* how far its one I/O operation is
  object,     \* its operating-system object: none yet, allocated, freed
  outcome,    \* the result it completed with
  answer      \* the result its guest was given

vars == <<owner, io, object, outcome, answer>>

Init ==
  /\ owner   = [t \in Transfer |-> "unborn"]
  /\ io      = [t \in Transfer |-> "ready"]
  /\ object  = [t \in Transfer |-> "none"]
  /\ outcome = [t \in Transfer |-> None]
  /\ answer  = [t \in Transfer |-> None]

Create(t) ==
  /\ owner[t] = "unborn"
  /\ owner'  = [owner EXCEPT ![t] = "guest"]
  /\ object' = [object EXCEPT ![t] = "allocated"]
  /\ UNCHANGED <<io, outcome, answer>>

\* The device has taken the transfer.
Submit(t) ==
  /\ owner[t] = "guest"
  /\ io[t] = "ready"
  /\ io' = [io EXCEPT ![t] = "pending"]
  /\ UNCHANGED <<owner, object, outcome, answer>>

\* The device refused the transfer: it can only be dropped now.
Spoil(t) ==
  /\ owner[t] = "guest"
  /\ io[t] = "ready"
  /\ io' = [io EXCEPT ![t] = "spoiled"]
  /\ UNCHANGED <<owner, object, outcome, answer>>

\* A transfer completes even when its guest has dropped it meanwhile.
Complete(t) ==
  /\ io[t] = "pending"
  /\ io' = [io EXCEPT ![t] = "done"]
  /\ \E r \in Result : outcome' = [outcome EXCEPT ![t] = r]
  /\ UNCHANGED <<owner, object, answer>>

Answer(t) ==
  /\ owner[t] = "guest"
  /\ io[t] = "done"
  /\ answer[t] = None
  /\ answer' = [answer EXCEPT ![t] = outcome[t]]
  /\ UNCHANGED <<owner, io, object, outcome>>

\* Dropping a transfer no device works for releases it at once; it will never
\* be submitted.
Discard(t) ==
  /\ owner[t] = "guest"
  /\ owner'  = [owner EXCEPT ![t] = "dropped"]
  /\ io'     = [io EXCEPT ![t] = IF @ = "ready" THEN "spoiled" ELSE @]
  /\ object' = [object EXCEPT ![t] = IF io[t] \in {"pending", "done"} THEN @ ELSE "freed"]
  /\ UNCHANGED <<outcome, answer>>

Release(t) ==
  /\ object[t] = "allocated"
  /\ io[t] = "done"
  /\ object' = [object EXCEPT ![t] = "freed"]
  /\ UNCHANGED <<owner, io, outcome, answer>>

Next ==
  \E t \in Transfer :
    \/ Create(t) \/ Submit(t) \/ Spoil(t) \/ Complete(t)
    \/ Answer(t) \/ Discard(t) \/ Release(t)

Spec == Init /\ [][Next]_vars

=============================================================================
