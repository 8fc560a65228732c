----------------------------- MODULE HostDevices ----------------------------
(***************************************************************************)
(* How usb-wasi-host hands devices to its guest: list_devices, the hotplug *)
(* callback with its global queue, open, close and the drops of            *)
(* usb-wasi-host/src/usb_backend.rs and src/main.rs.                       *)
(*                                                                         *)
(* A libusb_device is one attachment of one physical device: it arrives at *)
(* most once and leaves at most once.  libusb counts the references to it  *)
(* and frees it at zero; the host must balance libusb_ref_device and       *)
(* libusb_unref_device over three owners: the queue, the resource table    *)
(* and the device handles.                                                 *)
(*                                                                         *)
(* The Tokio main thread runs one host function at a time; hotplug_cb runs *)
(* on libusb's event thread, between any two of its steps.                 *)
(***************************************************************************)
EXTENDS Naturals, Sequences, FiniteSets

CONSTANTS
  Device,       \* libusb_device objects
  Handle,       \* device handles the guest opens
  Allowed,      \* the devices AllowedUSBDevices::is_allowed accepts
  Readable,     \* those whose descriptor libusb can read
  HasHotplug,   \* LIBUSB_CAP_HAS_HOTPLUG
  LoopBreaks,   \* can libusb_handle_events fail?
  MaxSlots      \* bound: table slots ever pushed for one device

None == "none"

ASSUME DeviceAssumption ==
  /\ None \notin Device
  /\ Allowed \subseteq Device
  /\ Readable \subseteq Device
  /\ HasHotplug \in BOOLEAN
  /\ LoopBreaks \in BOOLEAN
  /\ MaxSlots \in Nat

VARIABLES
  context,    \* LibusbBackend::context, and the event thread that comes with it
  port,       \* is the device plugged in?
  refs,       \* libusb's reference count of the device; 0: no object
  messages,   \* libusb's hotplug messages the event thread has yet to process
  enabled,    \* LibusbBackend::hotplug_enabled
  callback,   \* the notification hotplug_cb is about to push, if any
  queue,      \* HOTPLUG_QUEUE
  listing,    \* how far the main thread is in list_devices
  snapshot,   \* the list libusb_get_device_list returned
  kept,       \* the devices list_devices has taken from it
  slots,      \* the slots MyState::table ever gave to the device
  devices,    \* the usb-device resources of it the guest owns
  handle,     \* the device of an open device-handle
  claimed,    \* the handles holding an interface
  closed,     \* the handles the guest has called close on
  reported,   \* all that poll_events has returned
  listed,     \* what the first list_devices after enable_hotplug returned
  watching    \* has there been such a call?

libusbVars == <<context, port, messages>>
listVars   == <<listing, snapshot, kept>>
handleVars == <<handle, claimed, closed>>
hotplugVars == <<enabled, callback, queue>>
guestVars  == <<reported, listed, watching>>
vars == <<context, port, refs, messages, enabled, callback, queue, listing, snapshot,
          kept, slots, devices, handle, claimed, closed, reported, listed,
          watching>>

Event == {"ARRIVED", "LEFT"}
Note  == Event \X Device

\* The devices the host shows its guest.
Visible == Allowed \cap Readable

TypeOK ==
  /\ context  \in {"none", "ready", "stopped"}
  /\ port     \in [Device -> {"never", "plugged", "gone"}]
  /\ refs     \in [Device -> Nat]
  /\ messages \in Seq(Note)
  /\ enabled  \in BOOLEAN
  /\ callback \in Seq(Note) /\ Len(callback) <= 1
  /\ queue    \in Seq(Note)
  /\ listing  \in {"idle", "walk"}
  /\ snapshot \in SUBSET Device
  /\ kept     \in SUBSET Device
  /\ slots    \in [Device -> Nat]
  /\ devices  \in [Device -> Nat]
  /\ handle   \in [Handle -> Device \cup {None}]
  /\ claimed  \in SUBSET Handle
  /\ closed   \in SUBSET Handle
  /\ reported \in Seq(Note)
  /\ listed   \in SUBSET Device
  /\ watching \in BOOLEAN

-----------------------------------------------------------------------------
(* Helpers *)

One(condition) == IF condition THEN 1 ELSE 0

\* libusb_ref_device and libusb_unref_device on every device of S.
Ref(S)   == refs' = [d \in Device |-> refs[d] + One(d \in S)]
Unref(S) == refs' = [d \in Device |-> refs[d] - One(d \in S)]

In(seq, note) == \E i \in DOMAIN seq : seq[i] = note

\* How many of seq's notes are about d: it arrives and leaves once.
Noted(seq, d) == One(In(seq, <<"ARRIVED", d>>)) + One(In(seq, <<"LEFT", d>>))

\* The main thread is inside no host function.
HostFree == listing = "idle"

\* The event thread has a message and no callback to finish.
Processing == context = "ready" /\ callback = <<>> /\ messages # <<>>

\* libusb drops its own reference once the departure is processed.
Processed(note) ==
  /\ messages' = Tail(messages)
  /\ Unref({d \in Device : note = <<"LEFT", d>>})

-----------------------------------------------------------------------------
(* Mutants: steps as a slip in the code would leave them.  The            *)
(* specification uses none of them; each shows that a property can fail.   *)

\* hotplug_cb pushes the device without a reference of its own.
HotplugNoRef ==
  /\ Processing
  /\ enabled
  /\ Head(messages)[2] \in Visible
  /\ callback' = <<Head(messages)>>
  /\ UNCHANGED <<libusbVars, refs, enabled, queue, listVars, slots, devices, handleVars, guestVars>>

\* hotplug_cb does not consult the allow list.
HotplugRefAny ==
  /\ Processing
  /\ enabled
  /\ Head(messages)[2] \in Readable
  /\ Ref({Head(messages)[2]})
  /\ callback' = <<Head(messages)>>
  /\ UNCHANGED <<libusbVars, enabled, queue, listVars, slots, devices, handleVars, guestVars>>

\* hotplug_cb takes a departed device for one whose descriptor it cannot read.
HotplugIgnoreGone ==
  /\ Processing
  /\ ~enabled \/ Head(messages)[2] \notin Visible \/ port[Head(messages)[2]] = "gone"
  /\ Processed(Head(messages))
  /\ UNCHANGED <<context, port, hotplugVars, listVars, slots, devices, handleVars, guestVars>>

\* poll_events pops the queue from the back.
PollEventsFromBack ==
  /\ HostFree
  /\ queue # <<>>
  /\ \A d \in Device : slots[d] + Noted(queue, d) <= MaxSlots
  /\ slots'   = [d \in Device |-> slots[d] + Noted(queue, d)]
  /\ devices' = [d \in Device |-> devices[d] + Noted(queue, d)]
  /\ reported' = reported \o [i \in DOMAIN queue |-> queue[Len(queue) + 1 - i]]
  /\ queue' = <<>>
  /\ UNCHANGED <<libusbVars, refs, enabled, callback, listVars, handleVars, listed, watching>>

\* list_devices takes what is in the queue for older than its list.
ListEndClearsQueue ==
  /\ listing = "walk"
  /\ snapshot \cap Visible = kept
  /\ Unref(snapshot)
  /\ listing'  = "idle"
  /\ snapshot' = {}
  /\ kept'     = {}
  /\ slots'    = [d \in Device |-> slots[d] + One(d \in kept)]
  /\ devices'  = [d \in Device |-> devices[d] + One(d \in kept)]
  /\ listed'   = IF enabled /\ ~watching THEN kept ELSE listed
  /\ watching' = enabled
  /\ queue'    = <<>>
  /\ UNCHANGED <<libusbVars, enabled, callback, handleVars, reported>>

\* close calls libusb_close, and so does the drop that follows.
CloseNow(h) ==
  /\ HostFree
  /\ handle[h] # None
  /\ Unref({handle[h]})
  /\ closed'  = closed \cup {h}
  /\ claimed' = claimed \ {h}
  /\ UNCHANGED <<libusbVars, hotplugVars, listVars, slots, devices, handle, guestVars>>

-----------------------------------------------------------------------------
(* MyState::new calls LibusbBackend::init and only logs its failure.  The  *)
(* devices present then have objects, and no message.                      *)

Init ==
  /\ context \in {"none", "ready"}
  /\ port \in [Device -> {"never", "plugged"}]
  /\ refs     = [d \in Device |-> One(context = "ready" /\ port[d] = "plugged")]
  /\ messages = <<>>
  /\ enabled  = FALSE
  /\ callback = <<>>
  /\ queue    = <<>>
  /\ listing  = "idle"
  /\ snapshot = {}
  /\ kept     = {}
  /\ slots    = [d \in Device |-> 0]
  /\ devices  = [d \in Device |-> 0]
  /\ handle   = [h \in Handle |-> None]
  /\ claimed  = {}
  /\ closed   = {}
  /\ reported = <<>>
  /\ listed   = {}
  /\ watching = FALSE

\* The guest calls init: a no-op when there is a context.
BackendInit ==
  /\ HostFree
  /\ context = "none"
  /\ context' = "ready"
  /\ refs' = [d \in Device |-> One(port[d] = "plugged")]
  /\ UNCHANGED <<port, messages, hotplugVars, listVars, slots, devices, handleVars, guestVars>>

\* libusb_handle_events fails: the thread ends, init does not start another.
EventLoopBreak ==
  /\ LoopBreaks
  /\ context = "ready"
  /\ callback = <<>>
  /\ context' = "stopped"
  /\ UNCHANGED <<port, refs, messages, hotplugVars, listVars, slots, devices, handleVars, guestVars>>

-----------------------------------------------------------------------------
(* The USB bus and libusb's device monitor, external                       *)

Arrive(d) ==
  /\ context # "none"
  /\ port[d] = "never"
  /\ port' = [port EXCEPT ![d] = "plugged"]
  /\ Ref({d})
  /\ messages' = Append(messages, <<"ARRIVED", d>>)
  /\ UNCHANGED <<context, hotplugVars, listVars, slots, devices, handleVars, guestVars>>

Leave(d) ==
  /\ context # "none"
  /\ port[d] = "plugged"
  /\ port' = [port EXCEPT ![d] = "gone"]
  /\ messages' = Append(messages, <<"LEFT", d>>)
  /\ UNCHANGED <<context, refs, hotplugVars, listVars, slots, devices, handleVars, guestVars>>

-----------------------------------------------------------------------------
(* enable_hotplug.  NotSupported, NotFound and a failed registration only  *)
(* leak the allow list.  The registration enumerates nothing               *)
(* (LIBUSB_HOTPLUG_NO_FLAGS): the callback hears of later messages.        *)

EnableHotplug ==
  /\ HostFree
  /\ ~enabled
  /\ HasHotplug
  /\ context # "none"
  /\ enabled' = TRUE
  /\ UNCHANGED <<libusbVars, refs, callback, queue, listVars, slots, devices, handleVars, guestVars>>

\* hotplug_cb returns early, or is not registered.
HotplugIgnore ==
  /\ Processing
  /\ ~enabled \/ Head(messages)[2] \notin Visible
  /\ Processed(Head(messages))
  /\ UNCHANGED <<context, port, hotplugVars, listVars, slots, devices, handleVars, guestVars>>

\* hotplug_cb, up to libusb_ref_device
HotplugRef ==
  /\ Processing
  /\ enabled
  /\ Head(messages)[2] \in Visible
  /\ Ref({Head(messages)[2]})
  /\ callback' = <<Head(messages)>>
  /\ UNCHANGED <<libusbVars, enabled, queue, listVars, slots, devices, handleVars, guestVars>>

\* hotplug_cb, under the lock of the queue; libusb goes on after it.
HotplugPush ==
  /\ callback # <<>>
  /\ queue' = queue \o callback
  /\ Processed(callback[1])
  /\ callback' = <<>>
  /\ UNCHANGED <<context, port, enabled, listVars, slots, devices, handleVars, guestVars>>

\* poll_events drains the queue and pushes every device into the table.
PollEvents ==
  /\ HostFree
  /\ queue # <<>>
  /\ \A d \in Device : slots[d] + Noted(queue, d) <= MaxSlots
  /\ slots'   = [d \in Device |-> slots[d] + Noted(queue, d)]
  /\ devices' = [d \in Device |-> devices[d] + Noted(queue, d)]
  /\ reported' = reported \o queue
  /\ queue' = <<>>
  /\ UNCHANGED <<libusbVars, refs, enabled, callback, listVars, handleVars, listed, watching>>

-----------------------------------------------------------------------------
(* list_devices                                                            *)

\* libusb_get_device_list returns a reference to every device it lists.
ListBegin ==
  /\ HostFree
  /\ context # "none"
  /\ \A d \in Device : slots[d] < MaxSlots
  /\ listing'  = "walk"
  /\ snapshot' = {d \in Device : port[d] = "plugged"}
  /\ Ref(snapshot')
  /\ UNCHANGED <<libusbVars, hotplugVars, kept, slots, devices, handleVars, guestVars>>

ListKeep(d) ==
  /\ listing = "walk"
  /\ d \in (snapshot \cap Visible) \ kept
  /\ Ref({d})
  /\ kept' = kept \cup {d}
  /\ UNCHANGED <<libusbVars, hotplugVars, listing, snapshot, slots, devices, handleVars, guestVars>>

\* libusb_free_device_list, then the host gives each device a table slot.
ListEnd ==
  /\ listing = "walk"
  /\ snapshot \cap Visible = kept
  /\ Unref(snapshot)
  /\ listing'  = "idle"
  /\ snapshot' = {}
  /\ kept'     = {}
  /\ slots'    = [d \in Device |-> slots[d] + One(d \in kept)]
  /\ devices'  = [d \in Device |-> devices[d] + One(d \in kept)]
  /\ listed'   = IF enabled /\ ~watching THEN kept ELSE listed
  /\ watching' = enabled
  /\ UNCHANGED <<libusbVars, hotplugVars, handleVars, reported>>

\* HostUsbDevice::drop: the reference goes, the slot of the table stays.
DropDevice(d) ==
  /\ HostFree
  /\ devices[d] > 0
  /\ devices' = [devices EXCEPT ![d] = @ - 1]
  /\ Unref({d})
  /\ UNCHANGED <<libusbVars, hotplugVars, listVars, slots, handleVars, guestVars>>

-----------------------------------------------------------------------------
(* Device handles.  libusb_open fails for a device that has left.          *)

Open(d, h) ==
  /\ HostFree
  /\ devices[d] > 0
  /\ port[d] = "plugged"
  /\ handle[h] = None
  /\ h \notin closed
  /\ handle' = [handle EXCEPT ![h] = d]
  /\ Ref({d})
  /\ UNCHANGED <<libusbVars, hotplugVars, listVars, slots, devices, claimed, closed, guestVars>>

\* One interface stands for all; the kernel gives it to one handle at a time.
ClaimInterface(h) ==
  /\ HostFree
  /\ handle[h] # None
  /\ \A other \in claimed : handle[other] # handle[h]
  /\ claimed' = claimed \cup {h}
  /\ UNCHANGED <<libusbVars, refs, hotplugVars, listVars, slots, devices, handle, closed, guestVars>>

ReleaseInterface(h) ==
  /\ HostFree
  /\ h \in claimed
  /\ claimed' = claimed \ {h}
  /\ UNCHANGED <<libusbVars, refs, hotplugVars, listVars, slots, devices, handle, closed, guestVars>>

\* HostDeviceHandle::close only logs.
Close(h) ==
  /\ HostFree
  /\ handle[h] # None
  /\ closed' = closed \cup {h}
  /\ UNCHANGED <<libusbVars, refs, hotplugVars, listVars, slots, devices, handle, claimed, guestVars>>

\* libusb_close releases the interfaces and the reference of libusb_open.
DropHandle(h) ==
  /\ HostFree
  /\ handle[h] # None
  /\ Unref({handle[h]})
  /\ handle'  = [handle EXCEPT ![h] = None]
  /\ claimed' = claimed \ {h}
  /\ UNCHANGED <<libusbVars, hotplugVars, listVars, slots, devices, closed, guestVars>>

-----------------------------------------------------------------------------

EventThread == HotplugIgnore \/ HotplugRef \/ HotplugPush

ListContinue == ListEnd \/ \E d \in Device : ListKeep(d)

GuestCall ==
  \/ BackendInit \/ EnableHotplug \/ PollEvents \/ ListBegin
  \/ \E d \in Device : DropDevice(d) \/ \E h \in Handle : Open(d, h)
  \/ \E h \in Handle :
       ClaimInterface(h) \/ ReleaseInterface(h) \/ Close(h) \/ DropHandle(h)

Next ==
  \/ GuestCall
  \/ ListContinue
  \/ EventThread
  \/ EventLoopBreak
  \/ \E d \in Device : Arrive(d) \/ Leave(d)

\* list_devices goes on once called, and so does the event thread.
Fairness == WF_vars(ListContinue) /\ WF_vars(EventThread)

Spec     == Init /\ [][Next]_vars
FairSpec == Spec /\ Fairness

-----------------------------------------------------------------------------
(* Properties *)

\* libusb itself holds a device until it has processed its departure.
Own(d) ==
  One(refs[d] > 0 /\ (port[d] = "plugged" \/ In(messages, <<"LEFT", d>>)))

OpenHandles(d) == Cardinality({h \in Handle : handle[h] = d})

\* Every reference to a device has an owner and every owner has a reference,
\* through callbacks, failed descriptors, polls and drops in any order: no
\* device is freed under its owner, and none is kept by nobody.
RefsAccounted ==
  \A d \in Device :
    refs[d] = Own(d) + One(d \in snapshot) + One(d \in kept)
                + Noted(callback, d) + Noted(queue, d) + devices[d] + OpenHandles(d)

\* The guest is told of a device's departure last, and of nothing twice.
EventsInOrder ==
  \A i, j \in DOMAIN reported :
    i < j /\ reported[i][2] = reported[j][2]
      => reported[i][1] = "ARRIVED" /\ reported[j][1] = "LEFT"

\* A guest that enables hotplug and then lists the devices misses none: one
\* the list does not have is announced, or about to be.
NoneMissed ==
  watching =>
    \A d \in Visible :
      port[d] = "plugged" =>
        \/ d \in listed
        \/ \E seq \in {messages, queue, reported} : In(seq, <<"ARRIVED", d>>)

\* The guest never holds a device the allow list refuses: neither listed nor
\* announced, not even as it leaves.
OnlyAllowed == \A d \in Device : devices[d] > 0 => d \in Allowed

\* A device that leaves after the guest was told of it is announced to leave,
\* as long as the event thread lives.
DepartureAnnounced ==
  \A d \in Device :
    (In(reported, <<"ARRIVED", d>>) /\ port[d] = "gone")
      ~> \/ In(queue \o reported, <<"LEFT", d>>)
         \/ context = "stopped"

=============================================================================
