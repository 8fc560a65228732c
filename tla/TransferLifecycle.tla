-------------------------- MODULE TransferLifecycle -------------------------
(***************************************************************************)
(* The life of a USB transfer in usb-wasi-host/src/main.rs, from           *)
(* new_transfer to HostTransfer::drop.                                     *)
(*                                                                         *)
(* Three actors share the state of a transfer:                             *)
(*   - the Tokio main thread, which runs the guest and, for each call of   *)
(*     the guest, one host function at a time (every one takes             *)
(*     &mut MyState).  host[t] is how far the call on t has come;          *)
(*   - the libusb event thread, which runs transfer_callback for one       *)
(*     completed transfer at a time.  callback[t] is how far it has come;  *)
(*   - libusb and the device, external: urb[t].                            *)
(* The functions are cut into steps at the points where the other thread   *)
(* can do something that matters: around the load of `completed`, around   *)
(* each call of libusb, and between the three effects of the callback.     *)
(*                                                                         *)
(* The payload is abstract: a result stands for its data and, for an       *)
(* isochronous transfer, for the packet results too, which travel through  *)
(* a cell written before and read after the channel.                       *)
(***************************************************************************)
EXTENDS FiniteSets

CONSTANTS
  Transfer,       \* the transfers the guest creates
  Out,            \* those whose data goes to the device
  Timed,          \* those with timeout_ms # 0
  Status,         \* the libusb statuses a device can report
  Resubmits,      \* does the guest submit a transfer it has submitted before?
  Abandons,       \* does the guest cancel or drop transfers it has not awaited?
  Closing,        \* when the guest drops the device handle: see MayClose
  LoopBreaks      \* can libusb_handle_events fail?

LibusbStatus ==
  {"COMPLETED", "ERROR", "TIMED_OUT", "CANCELLED", "STALL", "NO_DEVICE", "OVERFLOW"}

ASSUME SubsetAssumption ==
  /\ Out \subseteq Transfer
  /\ Timed \subseteq Transfer
  /\ Status \subseteq LibusbStatus

ASSUME GuestAssumption ==
  /\ Resubmits \in BOOLEAN
  /\ Abandons \in BOOLEAN
  /\ LoopBreaks \in BOOLEAN
  /\ Closing \in {"quiescent", "dropped", "any"}

VARIABLES
  table,      \* the transfer's slot of MyState::table
  xfer,       \* the libusb_transfer object
  buffer,     \* who owns the Box<[u8]> that libusb_transfer.buffer points to
  completed,  \* UsbTransfer::completed, shared with the callback
  receiver,   \* UsbTransfer::receiver
  channel,    \* the oneshot channel: what the callback sent
  urb,        \* libusb's own state of the transfer
  status,     \* the status the device reported
  host,       \* the host function running on the transfer
  callback,   \* transfer_callback running on the transfer
  answer,     \* what await_transfer returned to the guest
  refused,    \* transfers a submit_transfer of which was answered Busy
  handle,     \* the device handle all transfers are made on
  eventLoop,  \* the event thread of LibusbBackend::init
  panicked,   \* did an expect() of the host fail?
  faults      \* uses of freed memory so far, as <<where, transfer>>

guestVars  == <<table, receiver, answer, refused>>
memVars    == <<xfer, buffer>>
signalVars == <<completed, channel>>
usbVars    == <<urb, status>>
sysVars    == <<handle, eventLoop, panicked>>
vars == <<table, xfer, buffer, completed, receiver, channel, urb, status, host,
          callback, answer, refused, handle, eventLoop, panicked, faults>>

None   == "none"
Result == {"Ok", "Io", "Timeout", "Interrupted", "Pipe", "NoDevice", "Overflow", "Other"}

\* libusb still has the transfer in its list of flying transfers.
InFlight == {"flying", "cancelling"}

HostStep     == {"idle", "prepare", "submit", "store", "cancel", "await", "dropcancel"}
CallbackStep == {"idle", "publish", "send", "free"}
Site         == {"submit.type", "submit.copy", "submit.handle", "cancel",
                 "dropcancel", "dropfree", "callback.free", "callback.buffer"}

TypeOK ==
  /\ table     \in [Transfer -> {"absent", "owned", "deleted"}]
  /\ xfer      \in [Transfer -> {"none", "allocated", "freed"}]
  /\ buffer    \in [Transfer -> {"none", "transfer", "context", "freed"}]
  /\ completed \in [Transfer -> BOOLEAN]
  /\ receiver  \in [Transfer -> {"none", "held", "taken"}]
  /\ channel   \in [Transfer -> {None, "open"} \cup Result]
  /\ urb       \in [Transfer -> InFlight \cup {"idle", "reaped", "orphan"}]
  /\ status    \in [Transfer -> Status \cup {None}]
  /\ host      \in [Transfer -> HostStep]
  /\ callback  \in [Transfer -> CallbackStep]
  /\ answer    \in [Transfer -> Result \cup {None}]
  /\ refused   \in SUBSET Transfer
  /\ handle    \in {"open", "closed"}
  /\ eventLoop \in {"running", "stopped"}
  /\ panicked  \in BOOLEAN
  /\ faults    \in SUBSET (Site \X Transfer)

Init ==
  /\ table     = [t \in Transfer |-> "absent"]
  /\ xfer      = [t \in Transfer |-> "none"]
  /\ buffer    = [t \in Transfer |-> "none"]
  /\ completed = [t \in Transfer |-> FALSE]
  /\ receiver  = [t \in Transfer |-> "none"]
  /\ channel   = [t \in Transfer |-> None]
  /\ urb       = [t \in Transfer |-> "idle"]
  /\ status    = [t \in Transfer |-> None]
  /\ host      = [t \in Transfer |-> "idle"]
  /\ callback  = [t \in Transfer |-> "idle"]
  /\ answer    = [t \in Transfer |-> None]
  /\ refused   = {}
  /\ handle    = "open"
  /\ eventLoop = "running"
  /\ panicked  = FALSE
  /\ faults    = {}

-----------------------------------------------------------------------------
(* Helpers *)

\* The code at `site` uses the libusb_transfer of t.
Touching(site, t) ==
  faults \cup (IF xfer[t] = "freed" THEN {<<site, t>>} ELSE {})

\* The guest is not inside a host call, so it can make the next one.
HostFree == ~panicked /\ \A t \in Transfer : host[t] = "idle"

\* The guest calls a method of a transfer it still owns.
Calls(t) == HostFree /\ table[t] = "owned"

\* The event thread is inside no callback.
CallbackFree == \A t \in Transfer : callback[t] = "idle"

Goto(t, step) == host' = [host EXCEPT ![t] = step]
Return(t)     == Goto(t, "idle")

\* The guest knows the transfer is over, or never handed it to the device.
Settled(t) == answer[t] # None \/ receiver[t] = "none"

\* The LibusbError of a status, or Ok.
ResultOf(s) ==
  CASE s = "COMPLETED" -> "Ok"
    [] s = "TIMED_OUT" -> "Timeout"
    [] s = "CANCELLED" -> "Interrupted"
    [] s = "STALL"     -> "Pipe"
    [] s = "NO_DEVICE" -> "NoDevice"
    [] s = "OVERFLOW"  -> "Overflow"
    [] s = "ERROR"     -> "Io"
    [] s \notin LibusbStatus -> "Other"

-----------------------------------------------------------------------------
(* Mutants: steps as a slip in the code would leave them.  The            *)
(* specification uses none of them; each shows that a property can fail.   *)

\* submit_transfer stores the receiver only while nothing has completed.
SubmitStoreTooLate(t) ==
  /\ ~panicked
  /\ host[t] = "store"
  /\ receiver' = [receiver EXCEPT ![t] = IF completed[t] THEN @ ELSE "held"]
  /\ Return(t)
  /\ UNCHANGED <<memVars, signalVars, usbVars, sysVars, table, callback, answer, refused, faults>>

\* await_transfer looks into the channel instead of waiting on it.
AwaitReturnAtOnce(t) ==
  /\ ~panicked
  /\ host[t] = "await"
  /\ answer' = [answer EXCEPT ![t] = channel[t]]
  /\ Return(t)
  /\ UNCHANGED <<memVars, signalVars, usbVars, sysVars, table, receiver, callback, refused, faults>>

\* await_transfer runs a timer of its own.
AwaitReturnOwnTimer(t) ==
  /\ ~panicked
  /\ host[t] = "await"
  /\ channel[t] \in Result \/ t \in Timed
  /\ answer' = [answer EXCEPT ![t] = IF channel[t] \in Result THEN channel[t] ELSE "Timeout"]
  /\ Return(t)
  /\ UNCHANGED <<memVars, signalVars, usbVars, sysVars, table, receiver, callback, refused, faults>>

\* drop cancels a transfer in flight and frees it at once.
DropCancelFrees(t) ==
  /\ ~panicked
  /\ host[t] = "dropcancel"
  /\ xfer' = [xfer EXCEPT ![t] = "freed"]
  /\ urb'  = [urb EXCEPT ![t] = IF @ = "flying" THEN "cancelling" ELSE @]
  /\ Return(t)
  /\ UNCHANGED <<guestVars, signalVars, sysVars, buffer, status, callback, faults>>

\* drop leaves a transfer in flight alone.
DropCancelNothing(t) ==
  /\ ~panicked
  /\ host[t] = "dropcancel"
  /\ Return(t)
  /\ UNCHANGED <<guestVars, memVars, signalVars, usbVars, sysVars, callback, faults>>

\* drop frees what it finds: without its second case, or without its first.
DropFrees(t, fine) ==
  /\ Calls(t)
  /\ Abandons \/ Settled(t)
  /\ fine
  /\ table'  = [table EXCEPT ![t] = "deleted"]
  /\ faults' = Touching("dropfree", t)
  /\ xfer'   = [xfer EXCEPT ![t] = "freed"]
  /\ buffer' = [buffer EXCEPT ![t] = IF @ = "transfer" THEN "freed" ELSE @]
  /\ UNCHANGED <<signalVars, usbVars, sysVars, receiver, host, callback, answer, refused>>
DropFreesSubmitted(t) == DropFrees(t, ~completed[t])
DropFreesCompleted(t) == DropFrees(t, receiver[t] # "held")

\* transfer_callback never raises `completed`.
CallbackPublishNothing(t) ==
  /\ ~panicked
  /\ callback[t] = "publish"
  /\ callback' = [callback EXCEPT ![t] = "send"]
  /\ UNCHANGED <<guestVars, memVars, usbVars, sysVars, signalVars, host, faults>>

\* transfer_callback drops a result nobody holds a receiver for yet.
CallbackSendToHolder(t) ==
  /\ ~panicked
  /\ callback[t] = "send"
  /\ channel'  = [channel EXCEPT ![t] = IF receiver[t] = "none" THEN @ ELSE ResultOf(status[t])]
  /\ callback' = [callback EXCEPT ![t] = "free"]
  /\ UNCHANGED <<guestVars, memVars, usbVars, sysVars, completed, host, faults>>

-----------------------------------------------------------------------------
(* HostDeviceHandle::new_transfer.  A failed libusb_alloc_transfer (NoMem) *)
(* changes nothing.                                                        *)

NewTransfer(t) ==
  /\ HostFree
  /\ handle = "open"
  /\ table[t] = "absent"
  /\ table'  = [table EXCEPT ![t] = "owned"]
  /\ xfer'   = [xfer EXCEPT ![t] = "allocated"]
  /\ buffer' = [buffer EXCEPT ![t] = "transfer"]
  /\ UNCHANGED <<signalVars, usbVars, sysVars, receiver, host, callback, answer, refused, faults>>

-----------------------------------------------------------------------------
(* HostTransfer::submit_transfer *)

\* transfer_type and endpoint are read before `completed` is looked at.
SubmitCheck(t) ==
  /\ Calls(t)
  /\ Resubmits \/ buffer[t] = "transfer"
  /\ faults' = Touching("submit.type", t)
  /\ \/ /\ completed[t]
        /\ refused' = refused \cup {t}
        /\ UNCHANGED host
     \/ /\ ~completed[t]
        /\ Goto(t, "prepare")
        /\ UNCHANGED refused
  /\ UNCHANGED <<memVars, signalVars, usbVars, sysVars, table, receiver, callback, answer>>

\* An OUT transfer whose data has the wrong length: InvalidParam.
SubmitRejectLength(t) ==
  /\ ~panicked
  /\ host[t] = "prepare"
  /\ t \in Out
  /\ faults' = Touching("submit.type", t)
  /\ Return(t)
  /\ UNCHANGED <<guestVars, memVars, signalVars, usbVars, sysVars, callback>>

\* OUT data is copied through libusb_transfer.buffer whoever owns the buffer.
CopyFaults(t) ==
  IF t \in Out /\ buffer[t] # "transfer" THEN {<<"submit.copy", t>>} ELSE {}

\* The buffer moves into the TransferContext; with no buffer left, expect()
\* panics.
SubmitPrepare(t) ==
  /\ ~panicked
  /\ host[t] = "prepare"
  /\ faults' = Touching("submit.type", t) \cup CopyFaults(t)
  /\ \/ /\ buffer[t] = "transfer"
        /\ buffer'  = [buffer EXCEPT ![t] = "context"]
        /\ channel' = [channel EXCEPT ![t] = "open"]
        /\ Goto(t, "submit")
        /\ UNCHANGED panicked
     \/ /\ buffer[t] # "transfer"
        /\ panicked' = TRUE
        /\ UNCHANGED <<buffer, channel, host>>
  /\ UNCHANGED <<guestVars, usbVars, xfer, completed, callback, handle, eventLoop>>

\* libusb_submit_transfer takes the transfer.  libusb_transfer.dev_handle
\* dangles once the guest has dropped the device handle.
SubmitAccepted(t) ==
  /\ ~panicked
  /\ host[t] = "submit"
  /\ handle = "open"
  /\ urb' = [urb EXCEPT ![t] = "flying"]
  /\ Goto(t, "store")
  /\ UNCHANGED <<guestVars, memVars, signalVars, sysVars, status, callback, faults>>

\* libusb_submit_transfer fails: the context is reclaimed, and the buffer and
\* the sender inside it are dropped.
SubmitFailed(t) ==
  /\ ~panicked
  /\ host[t] = "submit"
  /\ buffer'  = [buffer EXCEPT ![t] = "freed"]
  /\ channel' = [channel EXCEPT ![t] = None]
  /\ faults'  = faults \cup (IF handle = "closed" THEN {<<"submit.handle", t>>} ELSE {})
  /\ Return(t)
  /\ UNCHANGED <<guestVars, usbVars, sysVars, xfer, completed, callback>>

\* The receiver is stored after libusb has the transfer, perhaps after the
\* callback has run.
SubmitStore(t) ==
  /\ ~panicked
  /\ host[t] = "store"
  /\ receiver' = [receiver EXCEPT ![t] = "held"]
  /\ Return(t)
  /\ UNCHANGED <<memVars, signalVars, usbVars, sysVars, table, callback, answer, refused, faults>>

-----------------------------------------------------------------------------
(* libusb_cancel_transfer, external: it asks for the cancellation of a     *)
(* transfer in flight and fails for any other.                             *)

LibusbCancel(t) ==
  urb' = [urb EXCEPT ![t] = IF @ = "flying" THEN "cancelling" ELSE @]

(* HostTransfer::cancel_transfer *)

CancelCheck(t) ==
  /\ Abandons
  /\ Calls(t)
  /\ ~completed[t]    \* otherwise it returns Ok and has done nothing
  /\ Goto(t, "cancel")
  /\ UNCHANGED <<guestVars, memVars, signalVars, usbVars, sysVars, callback, faults>>

CancelCall(t) ==
  /\ ~panicked
  /\ host[t] = "cancel"
  /\ faults' = Touching("cancel", t)
  /\ LibusbCancel(t)
  /\ Return(t)
  /\ UNCHANGED <<guestVars, memVars, signalVars, sysVars, status, callback>>

-----------------------------------------------------------------------------
(* transfers::Host::await_transfer.  Without a receiver it returns         *)
(* NotFound and changes nothing.                                           *)

AwaitBegin(t) ==
  /\ Calls(t)
  /\ receiver[t] = "held"
  /\ receiver' = [receiver EXCEPT ![t] = "taken"]
  /\ Goto(t, "await")
  /\ UNCHANGED <<memVars, signalVars, usbVars, sysVars, table, callback, answer, refused, faults>>

AwaitReturn(t) ==
  /\ ~panicked
  /\ host[t] = "await"
  /\ channel[t] \in Result
  /\ answer' = [answer EXCEPT ![t] = channel[t]]
  /\ Return(t)
  /\ UNCHANGED <<memVars, signalVars, usbVars, sysVars, table, receiver, callback, refused, faults>>

-----------------------------------------------------------------------------
(* HostTransfer::drop: table.delete, then one of three cases.              *)

\* (a) the callback has published completion: nothing is left to release.
DropCompleted(t) ==
  /\ Calls(t)
  /\ Abandons \/ Settled(t)
  /\ completed[t]
  /\ table' = [table EXCEPT ![t] = "deleted"]
  /\ UNCHANGED <<memVars, signalVars, usbVars, sysVars, receiver, host, callback, answer, refused, faults>>

\* (b) submitted, not completed when looked at: cancel it, in a second step.
DropInFlight(t) ==
  /\ Calls(t)
  /\ Abandons \/ Settled(t)
  /\ ~completed[t]
  /\ receiver[t] = "held"
  /\ table' = [table EXCEPT ![t] = "deleted"]
  /\ Goto(t, "dropcancel")
  /\ UNCHANGED <<memVars, signalVars, usbVars, sysVars, receiver, callback, answer, refused, faults>>

DropCancel(t) ==
  /\ ~panicked
  /\ host[t] = "dropcancel"
  /\ faults' = Touching("dropcancel", t)
  /\ LibusbCancel(t)
  /\ Return(t)
  /\ UNCHANGED <<guestVars, memVars, signalVars, sysVars, status, callback>>

\* (c) not completed and no receiver: free the libusb_transfer here.
DropUnsubmitted(t) ==
  /\ Calls(t)
  /\ Abandons \/ Settled(t)
  /\ ~completed[t]
  /\ receiver[t] # "held"
  /\ table'  = [table EXCEPT ![t] = "deleted"]
  /\ faults' = Touching("dropfree", t)
  /\ xfer'   = [xfer EXCEPT ![t] = "freed"]
  /\ buffer' = [buffer EXCEPT ![t] = IF @ = "transfer" THEN "freed" ELSE @]
  /\ UNCHANGED <<signalVars, usbVars, sysVars, receiver, host, callback, answer, refused>>

-----------------------------------------------------------------------------
(* The event thread *)

\* libusb_handle_events reaps t with status s, takes it off its list and calls
\* transfer_callback, which computes the result.
CallbackEnter(t, s) ==
  /\ ~panicked
  /\ eventLoop = "running"
  /\ CallbackFree
  /\ urb[t] \in InFlight
  /\ s = "CANCELLED" => urb[t] = "cancelling"
  /\ s = "TIMED_OUT" => t \in Timed
  /\ urb'      = [urb EXCEPT ![t] = "reaped"]
  /\ status'   = [status EXCEPT ![t] = s]
  /\ callback' = [callback EXCEPT ![t] = "publish"]
  /\ UNCHANGED <<guestVars, memVars, signalVars, sysVars, host, faults>>

\* ctx.completed.store(true)
CallbackPublish(t) ==
  /\ ~panicked
  /\ callback[t] = "publish"
  /\ completed' = [completed EXCEPT ![t] = TRUE]
  /\ callback'  = [callback EXCEPT ![t] = "send"]
  /\ UNCHANGED <<guestVars, memVars, usbVars, sysVars, channel, host, faults>>

\* ctx.sender.send(result); a receiver that is gone is ignored.
CallbackSend(t) ==
  /\ ~panicked
  /\ callback[t] = "send"
  /\ channel'  = [channel EXCEPT ![t] = ResultOf(status[t])]
  /\ callback' = [callback EXCEPT ![t] = "free"]
  /\ UNCHANGED <<guestVars, memVars, usbVars, sysVars, completed, host, faults>>

\* libusb_free_transfer, then the context goes out of scope with the buffer.
CallbackRelease(t) ==
  /\ ~panicked
  /\ callback[t] = "free"
  /\ faults'   = Touching("callback.free", t)
                   \cup (IF buffer[t] = "context" THEN {} ELSE {<<"callback.buffer", t>>})
  /\ xfer'     = [xfer EXCEPT ![t] = "freed"]
  /\ buffer'   = [buffer EXCEPT ![t] = "freed"]
  /\ callback' = [callback EXCEPT ![t] = "idle"]
  /\ UNCHANGED <<guestVars, signalVars, usbVars, sysVars, host>>

\* A negative return code ends the loop: no callback runs any more.
EventLoopBreak ==
  /\ LoopBreaks
  /\ ~panicked
  /\ CallbackFree
  /\ eventLoop = "running"
  /\ eventLoop' = "stopped"
  /\ UNCHANGED <<guestVars, memVars, signalVars, usbVars, host, callback, handle, panicked, faults>>

-----------------------------------------------------------------------------
(* HostDeviceHandle::drop.  Nothing ties a transfer to its handle; Closing *)
(* says how careful the guest is: it waits until nothing is in flight,     *)
(* until it has dropped its transfers, or for nothing.                     *)

MayClose ==
  \/ Closing = "any"
  \/ /\ Closing = "dropped"
     /\ \A t \in Transfer : table[t] # "owned"
  \/ /\ Closing = "quiescent"
     /\ \A t \in Transfer : table[t] # "owned" /\ urb[t] \notin InFlight

\* libusb_close, external, waits for the event thread to leave its handler and
\* takes the handle's transfers off the flying list without calling back.
DropHandle ==
  /\ HostFree
  /\ handle = "open"
  /\ MayClose
  /\ CallbackFree
  /\ handle' = "closed"
  /\ urb' = [t \in Transfer |-> IF urb[t] \in InFlight THEN "orphan" ELSE urb[t]]
  /\ UNCHANGED <<guestVars, memVars, signalVars, status, host, callback, eventLoop, panicked, faults>>

-----------------------------------------------------------------------------

GuestCall(t) ==
  \/ NewTransfer(t) \/ SubmitCheck(t) \/ CancelCheck(t) \/ AwaitBegin(t)
  \/ DropCompleted(t) \/ DropInFlight(t) \/ DropUnsubmitted(t)

HostContinue(t) ==
  \/ SubmitRejectLength(t) \/ SubmitPrepare(t) \/ SubmitAccepted(t) \/ SubmitFailed(t)
  \/ SubmitStore(t) \/ CancelCall(t) \/ AwaitReturn(t) \/ DropCancel(t)

Reap(t) == \E s \in Status : CallbackEnter(t, s)

CallbackContinue(t) == CallbackPublish(t) \/ CallbackSend(t) \/ CallbackRelease(t)

Next ==
  \/ \E t \in Transfer :
       GuestCall(t) \/ HostContinue(t) \/ Reap(t) \/ CallbackContinue(t)
  \/ EventLoopBreak
  \/ DropHandle

\* A host call that has started goes on, the event thread goes on, and libusb
\* ends a transfer that has a timeout or was cancelled.  A transfer without a
\* timeout need never end, and the guest need never make another call.
Fairness ==
  \A t \in Transfer :
    /\ WF_vars(HostContinue(t))
    /\ WF_vars(CallbackContinue(t))
    /\ WF_vars((t \in Timed \/ urb[t] = "cancelling") /\ Reap(t))

Spec     == Init /\ [][Next]_vars
FairSpec == Spec /\ Fairness

-----------------------------------------------------------------------------
(* Properties *)

\* The libusb_transfer and its buffer are each freed at most once, although
\* both the callback and HostTransfer::drop free them.
FreedOnce ==
  \A f \in faults : f[1] \notin {"dropfree", "callback.free", "callback.buffer"}

\* While libusb has a transfer, neither the object nor the memory the device
\* reads or writes is freed or handed back, whatever the guest drops meanwhile.
KernelPinsBuffer ==
  \A t \in Transfer :
    urb[t] \in InFlight => xfer[t] = "allocated" /\ buffer[t] = "context"

\* `completed` is raised before the object goes: submit_transfer, cancel_transfer
\* and drop, which look at nothing else, find a freed transfer completed.
PublishedBeforeFreed ==
  \A t \in Transfer : xfer[t] = "freed" /\ table[t] = "owned" => completed[t]

\* A completion the guest has not been told of can still be awaited, also when
\* the callback ran before submit_transfer had stored the receiver.
NoCompletionLost ==
  \A t \in Transfer :
    /\ channel[t] \in Result
    /\ table[t] = "owned"
    /\ host[t] \notin {"store", "await"}
    => receiver[t] = "held" \/ answer[t] = channel[t]

\* No code uses a libusb_transfer, its buffer or its device handle after it is
\* freed.
NoFault == faults = {}

\* await_transfer on a transfer with a timeout returns.
AwaitReturns == \A t \in Timed : host[t] = "await" ~> host[t] = "idle"

\* The object of a dropped transfer is freed in the end.
DroppedIsReleased == \A t \in Transfer : table[t] = "deleted" ~> xfer[t] = "freed"

-----------------------------------------------------------------------------
(* Refinement: what the guest can tell of a transfer is a TransferContract. *)

OwnerBar(t) ==
  IF table[t] = "absent" THEN "unborn"
  ELSE IF table[t] = "owned" THEN "guest" ELSE "dropped"

\* `pending` is what libusb has and has not answered for on the channel.
IoBar(t) ==
  IF channel[t] \in Result THEN "done"
  ELSE IF urb[t] # "idle" THEN "pending"
  ELSE IF buffer[t] = "freed" THEN "spoiled" ELSE "ready"

OutcomeBar(t) == IF channel[t] \in Result THEN channel[t] ELSE None

Contract == INSTANCE TransferContract WITH
  owner   <- [t \in Transfer |-> OwnerBar(t)],
  io      <- [t \in Transfer |-> IoBar(t)],
  object  <- xfer,
  outcome <- [t \in Transfer |-> OutcomeBar(t)],
  answer  <- answer

\* The code implements the contract of the transfer resource: one submission,
\* one completion, the answer is the completion's result, and the object is
\* released once, never while the transfer is pending.
ContractSpec == Contract!Spec

=============================================================================
