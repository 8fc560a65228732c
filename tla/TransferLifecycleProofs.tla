----------------------- MODULE TransferLifecycleProofs ----------------------
(***************************************************************************)
(* Proofs about TransferLifecycle, for any set of transfers, any guest and *)
(* any device.  None of the safety invariants is inductive: whether drop   *)
(* may free a transfer depends on `completed` and on the receiver, and     *)
(* what these say about libusb depends on where the callback is.  IInv     *)
(* relates the four: a transfer is idle, in flight, reaped or orphaned,    *)
(* and each of these fixes who owns the object, the buffer and the channel.*)
(***************************************************************************)
EXTENDS TransferLifecycle, TLAPS

\* Not, or not yet, handed to libusb.
IdleInv(t) ==
  urb[t] = "idle" =>
    /\ callback[t] = "idle"
    /\ ~completed[t]
    /\ receiver[t] = "none"
    /\ channel[t] = IF host[t] = "submit" THEN "open" ELSE None
    /\ answer[t] = None
    /\ table[t] = "absent" => xfer[t] = "none" /\ buffer[t] = "none" /\ host[t] = "idle"
    /\ table[t] = "owned" => xfer[t] = "allocated" /\ buffer[t] # "none"
    /\ buffer[t] = "transfer" => table[t] = "owned"
    /\ host[t] \in {"idle", "prepare", "submit", "cancel"}
    /\ host[t] = "submit" <=> buffer[t] = "context"
    /\ host[t] # "idle" => table[t] = "owned"

\* libusb has it, or has dropped it without calling back.
FlyingInv(t) ==
  urb[t] \in InFlight \cup {"orphan"} =>
    /\ callback[t] = "idle"
    /\ ~completed[t]
    /\ xfer[t] = "allocated"
    /\ buffer[t] = "context"
    /\ channel[t] = "open"

\* libusb has given it to transfer_callback: what has happened, step by step.
ReapedInv(t) ==
  urb[t] = "reaped" =>
    /\ completed[t] <=> callback[t] # "publish"
    /\ IF callback[t] \in {"free", "idle"} THEN channel[t] \in Result ELSE channel[t] = "open"
    /\ IF callback[t] = "idle"
         THEN xfer[t] = "freed" /\ buffer[t] = "freed"
         ELSE xfer[t] = "allocated" /\ buffer[t] = "context"

\* The receiver is in place from the end of submit_transfer to the await.
ReceiverInv(t) ==
  urb[t] # "idle" =>
    /\ table[t] # "absent"
    /\ host[t] # "submit"
    /\ receiver[t] = "none" <=> host[t] = "store"
    /\ receiver[t] = "taken" /\ host[t] # "await" =>
         channel[t] \in Result /\ answer[t] = channel[t]
    /\ host[t] = "await" => receiver[t] = "taken" /\ answer[t] = None
    /\ receiver[t] # "taken" => answer[t] = None
    /\ host[t] \in {"store", "await"} => table[t] = "owned"

TransferInv(t) == IdleInv(t) /\ FlyingInv(t) /\ ReapedInv(t) /\ ReceiverInv(t)

IInv ==
  /\ TypeOK
  /\ FreedOnce
  /\ \A t \in Transfer : TransferInv(t)
-----------------------------------------------------------------------------

LEMMA InitIInv == Init => IInv
  <1> SUFFICES ASSUME Init PROVE IInv
    OBVIOUS
  <1> USE DEF Init, InFlight, None
  <1>1. TypeOK
    BY DEF TypeOK, HostStep, CallbackStep
  <1>2. FreedOnce
    BY DEF FreedOnce
  <1>3. ASSUME NEW t \in Transfer PROVE TransferInv(t)
    BY DEF TransferInv, IdleInv, FlyingInv, ReapedInv, ReceiverInv
  <1>4. QED
    BY <1>1, <1>2, <1>3 DEF IInv

LEMMA ResultOfIsResult == ASSUME NEW s PROVE ResultOf(s) \in Result
  <1>1. CASE s \notin LibusbStatus
    BY <1>1, Zenon DEF ResultOf, Result, LibusbStatus
  <1>2. CASE s \in LibusbStatus
    BY <1>2 DEF ResultOf, Result, LibusbStatus
  <1>3. QED
    BY <1>1, <1>2

LEMMA TypeStep == TypeOK /\ [Next]_vars => TypeOK'
  <1> SUFFICES ASSUME TypeOK, [Next]_vars PROVE TypeOK'
    OBVIOUS
  <1> USE DEF TypeOK, HostStep, CallbackStep, InFlight, Result, None, Goto, Return,
              guestVars, memVars, signalVars, usbVars, sysVars
  <1>1. ASSUME NEW t \in Transfer, NewTransfer(t) PROVE TypeOK'
    BY <1>1 DEF NewTransfer, Touching, CopyFaults, LibusbCancel, Site, HostFree, Calls
  <1>2. ASSUME NEW t \in Transfer, SubmitCheck(t) PROVE TypeOK'
    BY <1>2 DEF SubmitCheck, Touching, CopyFaults, LibusbCancel, Site, HostFree, Calls
  <1>3. ASSUME NEW t \in Transfer, SubmitRejectLength(t) PROVE TypeOK'
    BY <1>3 DEF SubmitRejectLength, Touching, CopyFaults, LibusbCancel, Site, HostFree, Calls
  <1>4. ASSUME NEW t \in Transfer, SubmitPrepare(t) PROVE TypeOK'
    <2>1. faults' \in SUBSET (Site \X Transfer)
      BY <1>4 DEF SubmitPrepare, Touching, CopyFaults, Site
    <2>2. CASE buffer[t] = "transfer"
      BY <1>4, <2>1, <2>2 DEF SubmitPrepare
    <2>3. CASE buffer[t] # "transfer"
      <3>1. panicked' \in BOOLEAN
        BY <1>4, <2>3 DEF SubmitPrepare
      <3>2. QED
        BY <1>4, <2>1, <2>3, <3>1 DEF SubmitPrepare
    <2>4. QED
      BY <2>2, <2>3
  <1>5. ASSUME NEW t \in Transfer, SubmitAccepted(t) PROVE TypeOK'
    BY <1>5 DEF SubmitAccepted, Touching, CopyFaults, LibusbCancel, Site, HostFree, Calls
  <1>6. ASSUME NEW t \in Transfer, SubmitFailed(t) PROVE TypeOK'
    BY <1>6 DEF SubmitFailed, Touching, CopyFaults, LibusbCancel, Site, HostFree, Calls
  <1>7. ASSUME NEW t \in Transfer, SubmitStore(t) PROVE TypeOK'
    BY <1>7 DEF SubmitStore, Touching, CopyFaults, LibusbCancel, Site, HostFree, Calls
  <1>8. ASSUME NEW t \in Transfer, CancelCheck(t) PROVE TypeOK'
    BY <1>8 DEF CancelCheck, Touching, CopyFaults, LibusbCancel, Site, HostFree, Calls
  <1>9. ASSUME NEW t \in Transfer, CancelCall(t) PROVE TypeOK'
    BY <1>9 DEF CancelCall, Touching, CopyFaults, LibusbCancel, Site, HostFree, Calls
  <1>10. ASSUME NEW t \in Transfer, AwaitBegin(t) PROVE TypeOK'
    BY <1>10 DEF AwaitBegin, Touching, CopyFaults, LibusbCancel, Site, HostFree, Calls
  <1>11. ASSUME NEW t \in Transfer, AwaitReturn(t) PROVE TypeOK'
    BY <1>11 DEF AwaitReturn, Touching, CopyFaults, LibusbCancel, Site, HostFree, Calls
  <1>12. ASSUME NEW t \in Transfer, DropCompleted(t) PROVE TypeOK'
    BY <1>12 DEF DropCompleted, Touching, CopyFaults, LibusbCancel, Site, HostFree, Calls
  <1>13. ASSUME NEW t \in Transfer, DropInFlight(t) PROVE TypeOK'
    BY <1>13 DEF DropInFlight, Touching, CopyFaults, LibusbCancel, Site, HostFree, Calls
  <1>14. ASSUME NEW t \in Transfer, DropCancel(t) PROVE TypeOK'
    BY <1>14 DEF DropCancel, Touching, CopyFaults, LibusbCancel, Site, HostFree, Calls
  <1>15. ASSUME NEW t \in Transfer, DropUnsubmitted(t) PROVE TypeOK'
    BY <1>15 DEF DropUnsubmitted, Touching, CopyFaults, LibusbCancel, Site, HostFree, Calls
  <1>16. ASSUME NEW t \in Transfer, CallbackPublish(t) PROVE TypeOK'
    BY <1>16 DEF CallbackPublish, Touching, CopyFaults, LibusbCancel, Site, HostFree, Calls
  <1>17. ASSUME NEW t \in Transfer, CallbackSend(t) PROVE TypeOK'
    BY <1>17, ResultOfIsResult DEF CallbackSend, Touching, CopyFaults, LibusbCancel, Site, HostFree, Calls
  <1>18. ASSUME NEW t \in Transfer, CallbackRelease(t) PROVE TypeOK'
    BY <1>18 DEF CallbackRelease, Touching, CopyFaults, LibusbCancel, Site, HostFree, Calls
  <1>19. ASSUME NEW t \in Transfer, NEW s \in Status, CallbackEnter(t, s) PROVE TypeOK'
    BY <1>19 DEF CallbackEnter
  <1>20. CASE EventLoopBreak
    BY <1>20 DEF EventLoopBreak
  <1>21. CASE DropHandle
    BY <1>21 DEF DropHandle
  <1>22. CASE UNCHANGED vars
    BY <1>22 DEF vars
  <1>23. QED
    BY <1>1, <1>2, <1>3, <1>4, <1>5, <1>6, <1>7, <1>8, <1>9, <1>10, <1>11, <1>12, <1>13, <1>14, <1>15, <1>16, <1>17, <1>18, <1>19, <1>20, <1>21, <1>22
       DEF Next, GuestCall, HostContinue, Reap, CallbackContinue

\* A step on t leaves what IInv says of t intact; of the other transfers it
\* changes nothing.
LEMMA TransferStep ==
  ASSUME IInv, TypeOK', [Next]_vars, NEW u \in Transfer
  PROVE  TransferInv(u)'
  <1> TransferInv(u)
    BY DEF IInv
  <1> USE DEF TypeOK, TransferInv, IdleInv, FlyingInv, ReapedInv, ReceiverInv, HostStep,
              CallbackStep, InFlight, Result, None, Goto, Return, HostFree, Calls,
              guestVars, memVars, signalVars, usbVars, sysVars
  <1>1. ASSUME NEW t \in Transfer, NewTransfer(t) PROVE TransferInv(u)'
    BY <1>1 DEF IInv, NewTransfer
  <1>2. ASSUME NEW t \in Transfer, SubmitCheck(t) PROVE TransferInv(u)'
    BY <1>2 DEF IInv, SubmitCheck
  <1>3. ASSUME NEW t \in Transfer, SubmitRejectLength(t) PROVE TransferInv(u)'
    BY <1>3 DEF IInv, SubmitRejectLength
  <1>4. ASSUME NEW t \in Transfer, SubmitPrepare(t) PROVE TransferInv(u)'
    BY <1>4 DEF IInv, SubmitPrepare
  <1>5. ASSUME NEW t \in Transfer, SubmitAccepted(t) PROVE TransferInv(u)'
    BY <1>5 DEF IInv, SubmitAccepted
  <1>6. ASSUME NEW t \in Transfer, SubmitFailed(t) PROVE TransferInv(u)'
    BY <1>6 DEF IInv, SubmitFailed
  <1>7. ASSUME NEW t \in Transfer, SubmitStore(t) PROVE TransferInv(u)'
    BY <1>7 DEF IInv, SubmitStore
  <1>8. ASSUME NEW t \in Transfer, CancelCheck(t) PROVE TransferInv(u)'
    BY <1>8 DEF IInv, CancelCheck
  <1>9. ASSUME NEW t \in Transfer, CancelCall(t) PROVE TransferInv(u)'
    BY <1>9 DEF IInv, CancelCall, LibusbCancel
  <1>10. ASSUME NEW t \in Transfer, AwaitBegin(t) PROVE TransferInv(u)'
    BY <1>10 DEF IInv, AwaitBegin
  <1>11. ASSUME NEW t \in Transfer, AwaitReturn(t) PROVE TransferInv(u)'
    <2>1. CASE t = u
      BY <1>11, <2>1 DEF IInv, AwaitReturn
    <2>2. CASE t # u
      BY <1>11, <2>2 DEF IInv, AwaitReturn
    <2>3. QED
      BY <2>1, <2>2
  <1>12. ASSUME NEW t \in Transfer, DropCompleted(t) PROVE TransferInv(u)'
    BY <1>12 DEF IInv, DropCompleted
  <1>13. ASSUME NEW t \in Transfer, DropInFlight(t) PROVE TransferInv(u)'
    BY <1>13 DEF IInv, DropInFlight
  <1>14. ASSUME NEW t \in Transfer, DropCancel(t) PROVE TransferInv(u)'
    BY <1>14 DEF IInv, DropCancel, LibusbCancel
  <1>15. ASSUME NEW t \in Transfer, DropUnsubmitted(t) PROVE TransferInv(u)'
    BY <1>15 DEF IInv, DropUnsubmitted
  <1>16. ASSUME NEW t \in Transfer, CallbackPublish(t) PROVE TransferInv(u)'
    BY <1>16 DEF IInv, CallbackPublish
  <1>17. ASSUME NEW t \in Transfer, CallbackSend(t) PROVE TransferInv(u)'
    BY <1>17, ResultOfIsResult DEF IInv, CallbackSend
  <1>18. ASSUME NEW t \in Transfer, CallbackRelease(t) PROVE TransferInv(u)'
    BY <1>18 DEF IInv, CallbackRelease
  <1>19. ASSUME NEW t \in Transfer, NEW s \in Status, CallbackEnter(t, s)
        PROVE TransferInv(u)'
    BY <1>19 DEF IInv, CallbackEnter
  <1>20. CASE EventLoopBreak
    BY <1>20 DEF IInv, EventLoopBreak
  <1>21. CASE DropHandle
    BY <1>21 DEF IInv, DropHandle
  <1>22. CASE UNCHANGED vars
    BY <1>22 DEF IInv, vars
  <1>23. QED
    BY <1>1, <1>2, <1>3, <1>4, <1>5, <1>6, <1>7, <1>8, <1>9, <1>10, <1>11, <1>12, <1>13, <1>14, <1>15, <1>16, <1>17, <1>18, <1>19, <1>20, <1>21, <1>22
       DEF Next, GuestCall, HostContinue, Reap, CallbackContinue

\* The two functions that free memory free only what is allocated.
LEMMA FreeStep == IInv /\ [Next]_vars => FreedOnce'
  <1> SUFFICES ASSUME IInv, [Next]_vars PROVE FreedOnce'
    OBVIOUS
  <1> FreedOnce
    BY DEF IInv
  <1>1. ASSUME NEW t \in Transfer, DropUnsubmitted(t) PROVE FreedOnce'
    <2>1. xfer[t] # "freed"
      BY <1>1 DEF DropUnsubmitted, Calls, HostFree, IInv, TypeOK, TransferInv, IdleInv,
                  FlyingInv, ReapedInv, ReceiverInv, InFlight, Result
    <2>2. faults' = faults
      BY <1>1, <2>1 DEF DropUnsubmitted, Touching
    <2>3. QED
      BY <2>2 DEF FreedOnce
  <1>2. ASSUME NEW t \in Transfer, CallbackRelease(t) PROVE FreedOnce'
    <2>1. xfer[t] = "allocated" /\ buffer[t] = "context"
      BY <1>2 DEF CallbackRelease, IInv, TypeOK, TransferInv, IdleInv, FlyingInv,
                  ReapedInv, InFlight
    <2>2. faults' = faults
      BY <1>2, <2>1 DEF CallbackRelease, Touching
    <2>3. QED
      BY <2>2 DEF FreedOnce
  <1>3. ASSUME NEW t \in Transfer, SubmitCheck(t) PROVE FreedOnce'
    BY <1>3 DEF FreedOnce, SubmitCheck, Touching
  <1>4. ASSUME NEW t \in Transfer, SubmitRejectLength(t) PROVE FreedOnce'
    BY <1>4 DEF FreedOnce, SubmitRejectLength, Touching
  <1>5. ASSUME NEW t \in Transfer, SubmitPrepare(t) PROVE FreedOnce'
    BY <1>5 DEF FreedOnce, SubmitPrepare, Touching, CopyFaults
  <1>6. ASSUME NEW t \in Transfer, SubmitFailed(t) PROVE FreedOnce'
    BY <1>6 DEF FreedOnce, SubmitFailed, Touching
  <1>7. ASSUME NEW t \in Transfer, CancelCall(t) PROVE FreedOnce'
    BY <1>7 DEF FreedOnce, CancelCall, Touching
  <1>8. ASSUME NEW t \in Transfer, DropCancel(t) PROVE FreedOnce'
    BY <1>8 DEF FreedOnce, DropCancel, Touching
  <1>9. ASSUME NEW t \in Transfer, NewTransfer(t) \/ SubmitAccepted(t) \/ SubmitStore(t) \/ CancelCheck(t)
               \/ AwaitBegin(t) \/ AwaitReturn(t) \/ DropCompleted(t) \/ DropInFlight(t)
               \/ CallbackPublish(t) \/ CallbackSend(t) \/ Reap(t)
        PROVE FreedOnce'
    BY <1>9 DEF FreedOnce, NewTransfer, SubmitAccepted, SubmitStore, CancelCheck, AwaitBegin, AwaitReturn, DropCompleted, DropInFlight, CallbackPublish, CallbackSend, Reap, CallbackEnter
  <1>10. CASE EventLoopBreak \/ DropHandle \/ UNCHANGED vars
    BY <1>10 DEF FreedOnce, EventLoopBreak, DropHandle, vars
  <1>11. QED
    BY <1>1, <1>2, <1>3, <1>4, <1>5, <1>6, <1>7, <1>8, <1>9, <1>10
       DEF Next, GuestCall, HostContinue, CallbackContinue

LEMMA StepIInv == IInv /\ [Next]_vars => IInv'
  BY TypeStep, FreeStep, TransferStep DEF IInv

THEOREM Invariance == Spec => []IInv
  <1>1. QED
    BY InitIInv, StepIInv, PTL DEF Spec

-----------------------------------------------------------------------------

\* Every variable has its type in every behaviour.
THEOREM TypeCorrect == Spec => []TypeOK
  <1>1. IInv => TypeOK
    BY DEF IInv
  <1>2. QED
    BY <1>1, Invariance, PTL

\* drop and transfer_callback never free a transfer or its buffer twice.
THEOREM NeverFreedTwice == Spec => []FreedOnce
  <1>1. IInv => FreedOnce
    BY DEF IInv
  <1>2. QED
    BY <1>1, Invariance, PTL

\* Whatever the guest does, the memory of a transfer in flight stays.
THEOREM KernelMemoryStays == Spec => []KernelPinsBuffer
  <1>1. IInv => KernelPinsBuffer
    BY DEF IInv, KernelPinsBuffer, TransferInv, FlyingInv
  <1>2. QED
    BY <1>1, Invariance, PTL

\* A transfer the guest still owns is freed only once `completed` is set.
THEOREM FlagPrecedesFree == Spec => []PublishedBeforeFreed
  <1>1. IInv => PublishedBeforeFreed
    BY DEF IInv, TypeOK, PublishedBeforeFreed, TransferInv, IdleInv, FlyingInv, ReapedInv
  <1>2. QED
    BY <1>1, Invariance, PTL

\* No interleaving of submit_transfer with the callback loses a completion.
THEOREM CompletionsStay == Spec => []NoCompletionLost
  <1>1. IInv => NoCompletionLost
    BY DEF IInv, TypeOK, NoCompletionLost, TransferInv, IdleInv, ReceiverInv, Result, None
  <1>2. QED
    BY <1>1, Invariance, PTL
-----------------------------------------------------------------------------
(* A guest that submits each transfer once, awaits what it submitted and   *)
(* drops its transfers before their device handle.                         *)

CarefulInv ==
  /\ faults = {}
  /\ \A t \in Transfer :
       /\ host[t] = "prepare" => buffer[t] = "transfer"
       /\ host[t] \notin {"cancel", "dropcancel"}
       /\ handle = "closed" => table[t] # "owned"

LEMMA BufferKept ==
  ASSUME IInv, NEW t \in Transfer, buffer[t] = "transfer"
  PROVE  xfer[t] # "freed"
  BY DEF IInv, TypeOK, TransferInv, IdleInv, FlyingInv, ReapedInv, InFlight

LEMMA CarefulStep ==
  ASSUME ~Resubmits, ~Abandons, Closing # "any",
         IInv, FreedOnce', CarefulInv, [Next]_vars
  PROVE  CarefulInv'
  <1> USE DEF CarefulInv, Goto, Return, Calls, HostFree, guestVars, sysVars, memVars
  <1> TypeOK
    BY DEF IInv
  <1>1. ASSUME NEW t \in Transfer, SubmitCheck(t) PROVE CarefulInv'
    BY <1>1, BufferKept DEF SubmitCheck, Touching, TypeOK
  <1>2. ASSUME NEW t \in Transfer, SubmitRejectLength(t) PROVE CarefulInv'
    BY <1>2, BufferKept DEF SubmitRejectLength, Touching, TypeOK
  <1>3. ASSUME NEW t \in Transfer, SubmitPrepare(t) PROVE CarefulInv'
    BY <1>3, BufferKept DEF SubmitPrepare, Touching, CopyFaults, TypeOK
  <1>4. ASSUME NEW t \in Transfer, SubmitFailed(t) PROVE CarefulInv'
    <2>1. table[t] = "owned"
      BY <1>4 DEF SubmitFailed, IInv, TransferInv, IdleInv, ReceiverInv
    <2>2. QED
      BY <1>4, <2>1 DEF SubmitFailed, TypeOK
  <1>5. ASSUME NEW t \in Transfer, DropInFlight(t) PROVE CarefulInv'
    BY <1>5 DEF DropInFlight, Settled, IInv, TransferInv, IdleInv, ReceiverInv
  <1>6. ASSUME NEW t \in Transfer, DropUnsubmitted(t) PROVE CarefulInv'
    <2>1. faults' = {}
      BY <1>6 DEF DropUnsubmitted, Touching, FreedOnce
    <2>2. QED
      BY <1>6, <2>1 DEF DropUnsubmitted, TypeOK
  <1>7. ASSUME NEW t \in Transfer, CallbackRelease(t) PROVE CarefulInv'
    <2>1. faults' = {}
      BY <1>7 DEF CallbackRelease, Touching, FreedOnce
    <2>2. host[t] = "prepare" => FALSE
      BY <1>7 DEF CallbackRelease, IInv, TypeOK, TransferInv, IdleInv, ReapedInv, FlyingInv,
                  InFlight
    <2>3. QED
      BY <1>7, <2>1, <2>2 DEF CallbackRelease, TypeOK
  <1>8. ASSUME NEW t \in Transfer,
               \/ NewTransfer(t) \/ SubmitAccepted(t) \/ SubmitStore(t) \/ CancelCheck(t)
               \/ CancelCall(t) \/ AwaitBegin(t) \/ AwaitReturn(t) \/ DropCompleted(t)
               \/ DropCancel(t) \/ CallbackPublish(t) \/ CallbackSend(t) \/ Reap(t)
        PROVE CarefulInv'
    BY <1>8 DEF NewTransfer, SubmitAccepted, SubmitStore, CancelCheck, CancelCall, AwaitBegin,
                AwaitReturn, DropCompleted, DropCancel, CallbackPublish, CallbackSend, Reap,
                CallbackEnter, TypeOK
  <1>9. CASE EventLoopBreak
    BY <1>9 DEF EventLoopBreak
  <1>10. CASE DropHandle
    BY <1>10 DEF DropHandle, MayClose
  <1>11. CASE UNCHANGED vars
    BY <1>11 DEF vars
  <1>12. QED
    BY <1>1, <1>2, <1>3, <1>4, <1>5, <1>6, <1>7, <1>8, <1>9, <1>10, <1>11
       DEF Next, GuestCall, HostContinue, CallbackContinue

\* Such a guest makes no part of the host use freed memory.
THEOREM CarefulGuestIsSafe ==
  ASSUME ~Resubmits, ~Abandons, Closing # "any"
  PROVE  Spec => []NoFault
  <1>1. Init => CarefulInv
    BY DEF Init, CarefulInv
  <1>2. IInv /\ IInv' /\ CarefulInv /\ [Next]_vars => CarefulInv'
    BY CarefulStep DEF IInv
  <1>3. CarefulInv => NoFault
    BY DEF CarefulInv, NoFault
  <1>4. QED
    BY <1>1, <1>2, <1>3, Invariance, PTL DEF Spec
-----------------------------------------------------------------------------
(* Refinement of TransferContract.                                         *)

\* What a step leaves unchanged, the contract sees unchanged.
LEMMA ContractStutter ==
  ASSUME \A u \in Transfer : /\ OwnerBar(u)' = OwnerBar(u)
                             /\ IoBar(u)' = IoBar(u)
                             /\ OutcomeBar(u)' = OutcomeBar(u),
         xfer' = xfer, answer' = answer
  PROVE  UNCHANGED Contract!vars
  BY DEF Contract!vars

\* The contract sees the transfers other than t unchanged.
OthersKept(t) ==
  \A u \in Transfer \ {t} :
    /\ OwnerBar(u)' = OwnerBar(u)
    /\ IoBar(u)' = IoBar(u)
    /\ OutcomeBar(u)' = OutcomeBar(u)

LEMMA ContractStep == IInv /\ IInv' /\ [Next]_vars => [Contract!Next]_(Contract!vars)
  <1> SUFFICES ASSUME IInv, IInv', [Next]_vars
               PROVE  Contract!Next \/ UNCHANGED Contract!vars
    BY DEF Contract!Next
  <1> USE DEF Goto, Return, Calls, HostFree, guestVars, memVars, signalVars, usbVars,
              sysVars, InFlight
  <1>0. xfer \in [Transfer -> {"none", "allocated", "freed"}]
    BY DEF IInv, TypeOK
  <1>1. ASSUME NEW t \in Transfer, NewTransfer(t) PROVE Contract!Create(t)
    <2>1. OthersKept(t)
      BY <1>1 DEF NewTransfer, IInv, TypeOK, OthersKept, OwnerBar, IoBar, OutcomeBar
    <2>2. /\ OwnerBar(t) = "unborn" /\ OwnerBar(t)' = "guest"
          /\ IoBar(t)' = IoBar(t)
          /\ OutcomeBar(t)' = OutcomeBar(t)
          /\ xfer' = [xfer EXCEPT ![t] = "allocated"]
          /\ answer' = answer
      BY <1>1 DEF NewTransfer, OwnerBar, IoBar, OutcomeBar, IInv, TypeOK, TransferInv, IdleInv,
         FlyingInv, ReapedInv, ReceiverInv, Result, None
    <2>3. QED
      BY <2>1, <2>2 DEF OthersKept, Contract!Create
  <1>2. ASSUME NEW t \in Transfer, SubmitAccepted(t) PROVE Contract!Submit(t)
    <2>1. OthersKept(t)
      BY <1>2 DEF SubmitAccepted, IInv, TypeOK, OthersKept, OwnerBar, IoBar, OutcomeBar
    <2>2. /\ OwnerBar(t) = "guest" /\ OwnerBar(t)' = OwnerBar(t)
          /\ IoBar(t) = "ready" /\ IoBar(t)' = "pending"
          /\ OutcomeBar(t)' = OutcomeBar(t)
          /\ xfer' = xfer
          /\ answer' = answer
      BY <1>2 DEF SubmitAccepted, OwnerBar, IoBar, OutcomeBar, IInv, TypeOK, TransferInv, IdleInv,
         FlyingInv, ReapedInv, ReceiverInv, Result, None
    <2>3. QED
      BY <2>1, <2>2 DEF OthersKept, Contract!Submit
  <1>3. ASSUME NEW t \in Transfer, SubmitFailed(t) PROVE Contract!Spoil(t)
    <2>1. OthersKept(t)
      BY <1>3 DEF SubmitFailed, IInv, TypeOK, OthersKept, OwnerBar, IoBar, OutcomeBar
    <2>2. /\ OwnerBar(t) = "guest" /\ OwnerBar(t)' = OwnerBar(t)
          /\ IoBar(t) = "ready" /\ IoBar(t)' = "spoiled"
          /\ OutcomeBar(t)' = OutcomeBar(t)
          /\ xfer' = xfer
          /\ answer' = answer
      BY <1>3 DEF SubmitFailed, OwnerBar, IoBar, OutcomeBar, IInv, TypeOK, TransferInv, IdleInv,
         FlyingInv, ReapedInv, ReceiverInv, Result, None
    <2>3. QED
      BY <2>1, <2>2 DEF OthersKept, Contract!Spoil
  <1>4. ASSUME NEW t \in Transfer, CallbackSend(t) PROVE Contract!Complete(t)
    <2>1. OthersKept(t)
      BY <1>4 DEF CallbackSend, IInv, TypeOK, OthersKept, OwnerBar, IoBar, OutcomeBar
    <2>2. /\ OwnerBar(t)' = OwnerBar(t)
          /\ IoBar(t) = "pending" /\ IoBar(t)' = "done"
          /\ OutcomeBar(t)' \in Result
          /\ xfer' = xfer
          /\ answer' = answer
      BY <1>4, ResultOfIsResult DEF CallbackSend, OwnerBar, IoBar, OutcomeBar, IInv, TypeOK, TransferInv, IdleInv,
         FlyingInv, ReapedInv, ReceiverInv, Result, None
    <2>3. QED
      BY <2>1, <2>2 DEF OthersKept, Contract!Complete
  <1>5. ASSUME NEW t \in Transfer, AwaitReturn(t) PROVE Contract!Answer(t)
    <2>1. OthersKept(t)
      BY <1>5 DEF AwaitReturn, IInv, TypeOK, OthersKept, OwnerBar, IoBar, OutcomeBar
    <2>2. /\ OwnerBar(t) = "guest" /\ OwnerBar(t)' = OwnerBar(t)
          /\ IoBar(t) = "done" /\ IoBar(t)' = IoBar(t)
          /\ OutcomeBar(t)' = OutcomeBar(t)
          /\ xfer' = xfer
          /\ answer[t] = None /\ answer' = [answer EXCEPT ![t] = OutcomeBar(t)]
      BY <1>5 DEF AwaitReturn, OwnerBar, IoBar, OutcomeBar, IInv, TypeOK, TransferInv, IdleInv,
         FlyingInv, ReapedInv, ReceiverInv, Result, None
    <2>3. QED
      BY <2>1, <2>2 DEF OthersKept, Contract!Answer
  <1>6. ASSUME NEW t \in Transfer, DropCompleted(t) PROVE Contract!Discard(t)
    <2>1. OthersKept(t)
      BY <1>6 DEF DropCompleted, IInv, TypeOK, OthersKept, OwnerBar, IoBar, OutcomeBar
    <2>2. /\ OwnerBar(t) = "guest" /\ OwnerBar(t)' = "dropped"
          /\ IoBar(t) \in {"pending", "done"} /\ IoBar(t)' = IoBar(t)
          /\ OutcomeBar(t)' = OutcomeBar(t)
          /\ xfer' = xfer
          /\ answer' = answer
      BY <1>6 DEF DropCompleted, OwnerBar, IoBar, OutcomeBar, IInv, TypeOK, TransferInv, IdleInv,
         FlyingInv, ReapedInv, ReceiverInv, Result, None
    <2>3. QED
      BY <1>0, <2>1, <2>2 DEF OthersKept, Contract!Discard
  <1>7. ASSUME NEW t \in Transfer, DropInFlight(t) PROVE Contract!Discard(t)
    <2>1. OthersKept(t)
      BY <1>7 DEF DropInFlight, IInv, TypeOK, OthersKept, OwnerBar, IoBar, OutcomeBar
    <2>2. /\ OwnerBar(t) = "guest" /\ OwnerBar(t)' = "dropped"
          /\ IoBar(t) \in {"pending", "done"} /\ IoBar(t)' = IoBar(t)
          /\ OutcomeBar(t)' = OutcomeBar(t)
          /\ xfer' = xfer
          /\ answer' = answer
      BY <1>7 DEF DropInFlight, OwnerBar, IoBar, OutcomeBar, IInv, TypeOK, TransferInv, IdleInv,
         FlyingInv, ReapedInv, ReceiverInv, Result, None
    <2>3. QED
      BY <1>0, <2>1, <2>2 DEF OthersKept, Contract!Discard
  <1>8. ASSUME NEW t \in Transfer, DropUnsubmitted(t) PROVE Contract!Discard(t)
    <2>1. OthersKept(t)
      BY <1>8 DEF DropUnsubmitted, IInv, TypeOK, OthersKept, OwnerBar, IoBar, OutcomeBar
    <2>2. /\ OwnerBar(t) = "guest" /\ OwnerBar(t)' = "dropped"
          /\ IoBar(t) \in {"ready", "spoiled"} /\ IoBar(t)' = "spoiled"
          /\ OutcomeBar(t)' = OutcomeBar(t)
          /\ xfer' = [xfer EXCEPT ![t] = "freed"]
          /\ answer' = answer
      BY <1>8 DEF DropUnsubmitted, OwnerBar, IoBar, OutcomeBar, IInv, TypeOK, TransferInv, IdleInv,
         FlyingInv, ReapedInv, ReceiverInv, Result, None
    <2>3. QED
      BY <2>1, <2>2 DEF OthersKept, Contract!Discard
  <1>9. ASSUME NEW t \in Transfer, CallbackRelease(t) PROVE Contract!Release(t)
    <2>1. OthersKept(t)
      BY <1>9 DEF CallbackRelease, IInv, TypeOK, OthersKept, OwnerBar, IoBar, OutcomeBar
    <2>2. /\ OwnerBar(t)' = OwnerBar(t)
          /\ IoBar(t) = "done" /\ IoBar(t)' = IoBar(t)
          /\ OutcomeBar(t)' = OutcomeBar(t)
          /\ xfer[t] = "allocated" /\ xfer' = [xfer EXCEPT ![t] = "freed"]
          /\ answer' = answer
      BY <1>9 DEF CallbackRelease, OwnerBar, IoBar, OutcomeBar, IInv, TypeOK, TransferInv, IdleInv,
         FlyingInv, ReapedInv, ReceiverInv, Result, None
    <2>3. QED
      BY <2>1, <2>2 DEF OthersKept, Contract!Release
  <1>10. ASSUME NEW t \in Transfer, SubmitPrepare(t) PROVE UNCHANGED Contract!vars
    BY <1>10, ContractStutter DEF SubmitPrepare, OwnerBar, IoBar, OutcomeBar, IInv, TypeOK, TransferInv, IdleInv, FlyingInv,
       ReapedInv, Result, None
  <1>11. ASSUME NEW t \in Transfer,
                \/ SubmitCheck(t) \/ SubmitRejectLength(t) \/ SubmitStore(t) \/ CancelCheck(t)
                \/ CancelCall(t) \/ AwaitBegin(t) \/ DropCancel(t) \/ CallbackPublish(t)
                \/ Reap(t)
         PROVE UNCHANGED Contract!vars
    BY <1>11, ContractStutter
       DEF SubmitCheck, SubmitRejectLength, SubmitStore, CancelCheck, CancelCall, AwaitBegin,
           DropCancel, CallbackPublish, Reap, CallbackEnter, LibusbCancel, IInv, TypeOK, OwnerBar, IoBar,
           OutcomeBar
  <1>12. CASE EventLoopBreak \/ DropHandle \/ UNCHANGED vars
    BY <1>12, ContractStutter
       DEF EventLoopBreak, DropHandle, vars, IInv, TypeOK, OwnerBar, IoBar, OutcomeBar
  <1>13. QED
    BY <1>1, <1>2, <1>3, <1>4, <1>5, <1>6, <1>7, <1>8, <1>9, <1>10, <1>11, <1>12
       DEF Next, GuestCall, HostContinue, CallbackContinue, Contract!Next

\* The host implements the contract of the transfer resource, for every guest.
THEOREM Refinement == Spec => ContractSpec
  <1>1. Init => Contract!Init
    BY DEF Init, Contract!Init, OwnerBar, IoBar, OutcomeBar, Result, None
  <1>2. QED
    BY <1>1, ContractStep, Invariance, PTL DEF Spec, ContractSpec, Contract!Spec

=============================================================================
