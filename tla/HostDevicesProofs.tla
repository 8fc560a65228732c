-------------------------- MODULE HostDevicesProofs --------------------------
(***************************************************************************)
(* Proofs about HostDevices, for any set of devices, handles and allowed   *)
(* devices: its five invariants.                                           *)
(*                                                                         *)
(*   BaseInv     the types, and which variables go together;               *)
(*   LogInv      what was reported, what is queued and what libusb has yet *)
(*               to process are one log, in order;                         *)
(*   PortInv     the log agrees with the bus;                              *)
(*   VisibleInv  what is queued or held is visible to the guest;           *)
(*   MissInv     NoneMissed, and the same of a list_devices under way;     *)
(*   RefInv      the reference counts, as a function of their owners.      *)
(*                                                                         *)
(* Each is inductive relative to those above it that its step cites.       *)
(***************************************************************************)
EXTENDS HostDevices, SequenceTheorems, FiniteSetTheorems, TLAPS

(* Notes in sequences: In over Append, \o and Tail. *)

\* In, over the indices that SequenceTheorems speaks of.
LEMMA InIndex ==
  ASSUME NEW s \in Seq(Note), NEW note
  PROVE  In(s, note) <=> \E i \in 1 .. Len(s) : s[i] = note
BY DEF In

\* What Append adds is the one note.
LEMMA InAppend ==
  ASSUME NEW s \in Seq(Note), NEW n \in Note, NEW note
  PROVE  In(Append(s, n), note) <=> In(s, note) \/ n = note
<1>1. Append(s, n) \in Seq(Note) /\ Len(Append(s, n)) = Len(s) + 1 /\ Len(s) \in Nat
  BY AppendProperties
<1>2. \A i \in 1 .. Len(s) + 1 : Append(s, n)[i] = IF i <= Len(s) THEN s[i] ELSE n
  <2>1. \A i \in 1 .. Len(s) : Append(s, n)[i] = s[i]
    BY AppendProperties
  <2>2. Append(s, n)[Len(s) + 1] = n
    BY AppendProperties
  <2> QED
    BY <1>1, <2>1, <2>2
<1>3. In(s, note) => In(Append(s, n), note)
  <2> SUFFICES ASSUME NEW i \in 1 .. Len(s), s[i] = note PROVE In(Append(s, n), note)
    BY InIndex
  <2>1. i \in 1 .. Len(s) + 1 /\ Append(s, n)[i] = note
    BY <1>1, <1>2
  <2> QED
    BY <1>1, <2>1, InIndex
<1>4. n = note => In(Append(s, n), note)
  <2>1. Len(s) + 1 \in 1 .. Len(s) + 1 /\ Append(s, n)[Len(s) + 1] = n
    BY <1>1, <1>2
  <2> QED
    BY <1>1, <2>1, InIndex
<1>5. In(Append(s, n), note) => In(s, note) \/ n = note
  <2> SUFFICES ASSUME NEW i \in 1 .. Len(s) + 1, Append(s, n)[i] = note
               PROVE  In(s, note) \/ n = note
    BY <1>1, InIndex
  <2>1. CASE i <= Len(s)
    BY <1>1, <1>2, <2>1, InIndex
  <2>2. CASE i > Len(s)
    BY <1>1, <1>2, <2>2
  <2> QED
    BY <1>1, <2>1, <2>2
<1> QED
  BY <1>3, <1>4, <1>5

\* A concatenation has the notes of both.
LEMMA InConcat ==
  ASSUME NEW s \in Seq(Note), NEW t \in Seq(Note), NEW note
  PROVE  In(s \o t, note) <=> In(s, note) \/ In(t, note)
<1>1. s \o t \in Seq(Note) /\ Len(s \o t) = Len(s) + Len(t) /\ Len(s) \in Nat /\ Len(t) \in Nat
  BY ConcatProperties
<1>2. \A i \in 1 .. Len(s) + Len(t) : (s \o t)[i] = IF i <= Len(s) THEN s[i] ELSE t[i - Len(s)]
  BY ConcatProperties
<1>3. In(s, note) => In(s \o t, note)
  <2> SUFFICES ASSUME NEW i \in 1 .. Len(s), s[i] = note PROVE In(s \o t, note)
    BY InIndex
  <2>1. i \in 1 .. Len(s) + Len(t) /\ (s \o t)[i] = note
    BY <1>1, <1>2
  <2> QED
    BY <1>1, <2>1, InIndex
<1>4. In(t, note) => In(s \o t, note)
  <2> SUFFICES ASSUME NEW i \in 1 .. Len(t), t[i] = note PROVE In(s \o t, note)
    BY InIndex
  <2>1. i + Len(s) \in 1 .. Len(s) + Len(t) /\ (s \o t)[i + Len(s)] = t[i]
    BY <1>1, <1>2
  <2> QED
    BY <1>1, <2>1, InIndex
<1>5. In(s \o t, note) => In(s, note) \/ In(t, note)
  <2> SUFFICES ASSUME NEW i \in 1 .. Len(s) + Len(t), (s \o t)[i] = note
               PROVE  In(s, note) \/ In(t, note)
    BY <1>1, InIndex
  <2>1. CASE i <= Len(s)
    BY <1>1, <1>2, <2>1, InIndex
  <2>2. CASE i > Len(s)
    <3>1. i - Len(s) \in 1 .. Len(t)
      BY <1>1, <2>2
    <3> QED
      BY <1>1, <1>2, <2>2, <3>1, InIndex
  <2> QED
    BY <1>1, <2>1, <2>2
<1> QED
  BY <1>3, <1>4, <1>5

\* Tail loses the head, or one of its occurrences.
LEMMA InTail ==
  ASSUME NEW s \in Seq(Note), s # <<>>, NEW note
  PROVE  In(s, note) <=> Head(s) = note \/ In(Tail(s), note)
<1>1. Tail(s) \in Seq(Note) /\ Len(Tail(s)) = Len(s) - 1 /\ Len(s) \in Nat \ {0} /\ Head(s) = s[1]
  OBVIOUS
<1>2. \A i \in 1 .. Len(s) - 1 : Tail(s)[i] = s[i + 1]
  OBVIOUS
<1>3. Head(s) = note => In(s, note)
  BY <1>1, InIndex
<1>4. In(Tail(s), note) => In(s, note)
  <2> SUFFICES ASSUME NEW i \in 1 .. Len(s) - 1, Tail(s)[i] = note PROVE In(s, note)
    BY <1>1, InIndex
  <2>1. i + 1 \in 1 .. Len(s) /\ s[i + 1] = note
    BY <1>1, <1>2
  <2> QED
    BY <2>1, InIndex
<1>5. In(s, note) => Head(s) = note \/ In(Tail(s), note)
  <2> SUFFICES ASSUME NEW i \in 1 .. Len(s), s[i] = note, i # 1 PROVE In(Tail(s), note)
    BY <1>1, InIndex
  <2>1. i - 1 \in 1 .. Len(s) - 1 /\ Tail(s)[i - 1] = note
    BY <1>1, <1>2
  <2> QED
    BY <1>1, <2>1, InIndex
<1> QED
  BY <1>3, <1>4, <1>5

-----------------------------------------------------------------------------
(* Ordered sequences of notes                                              *)

\* EventsInOrder of any sequence: a device arrives, then leaves, once each.
Ordered(s) ==
  \A i, j \in 1 .. Len(s) :
    i < j /\ s[i][2] = s[j][2] => s[i][1] = "ARRIVED" /\ s[j][1] = "LEFT"

\* The notes of s precede those of t.
Before(s, t) ==
  \A m, n \in Note : In(s, m) /\ In(t, n) /\ m[2] = n[2] => m[1] = "ARRIVED" /\ n[1] = "LEFT"

\* Ordered sequences concatenate to one when the first precedes the second.
LEMMA OrderedConcat ==
  ASSUME NEW s \in Seq(Note), NEW t \in Seq(Note), Ordered(s), Ordered(t), Before(s, t)
  PROVE  Ordered(s \o t)
<1>1. Len(s \o t) = Len(s) + Len(t) /\ Len(s) \in Nat /\ Len(t) \in Nat
  BY ConcatProperties
<1>2. \A i \in 1 .. Len(s) + Len(t) : (s \o t)[i] = IF i <= Len(s) THEN s[i] ELSE t[i - Len(s)]
  BY ConcatProperties
<1> SUFFICES ASSUME NEW i \in 1 .. Len(s) + Len(t), NEW j \in 1 .. Len(s) + Len(t), i < j,
                    (s \o t)[i][2] = (s \o t)[j][2]
             PROVE  (s \o t)[i][1] = "ARRIVED" /\ (s \o t)[j][1] = "LEFT"
  BY <1>1 DEF Ordered
<1>3. CASE j <= Len(s)
  <2>1. i \in 1 .. Len(s) /\ j \in 1 .. Len(s) /\ (s \o t)[i] = s[i] /\ (s \o t)[j] = s[j]
    BY <1>1, <1>2, <1>3
  <2> QED
    BY <2>1 DEF Ordered
<1>4. CASE i > Len(s)
  <2>1. /\ i - Len(s) \in 1 .. Len(t) /\ j - Len(s) \in 1 .. Len(t) /\ i - Len(s) < j - Len(s)
        /\ (s \o t)[i] = t[i - Len(s)] /\ (s \o t)[j] = t[j - Len(s)]
    BY <1>1, <1>2, <1>4
  <2> QED
    BY <2>1 DEF Ordered
<1>5. CASE i <= Len(s) /\ j > Len(s)
  <2>1. /\ i \in 1 .. Len(s) /\ j - Len(s) \in 1 .. Len(t)
        /\ (s \o t)[i] = s[i] /\ (s \o t)[j] = t[j - Len(s)]
    BY <1>1, <1>2, <1>5
  <2>2. s[i] \in Note /\ t[j - Len(s)] \in Note /\ In(s, s[i]) /\ In(t, t[j - Len(s)])
    BY <2>1, InIndex
  <2> QED
    BY <2>1, <2>2 DEF Before
<1> QED
  BY <1>1, <1>3, <1>4, <1>5

\* What is left is in order, and behind what was taken.
LEMMA OrderedTail ==
  ASSUME NEW s \in Seq(Note), s # <<>>, Ordered(s)
  PROVE  /\ Tail(s) \in Seq(Note) /\ Head(s) \in Note /\ Ordered(Tail(s))
         /\ Before(<<Head(s)>>, Tail(s))
<1>1. Tail(s) \in Seq(Note) /\ Len(Tail(s)) = Len(s) - 1 /\ Len(s) \in Nat \ {0} /\ Head(s) = s[1]
  OBVIOUS
<1>2. \A i \in 1 .. Len(s) - 1 : Tail(s)[i] = s[i + 1] /\ i + 1 \in 1 .. Len(s) /\ 1 < i + 1
  BY <1>1
<1>3. Head(s) \in Note /\ 1 \in 1 .. Len(s)
  BY <1>1
<1>4. Ordered(Tail(s))
  <2> SUFFICES ASSUME NEW i \in 1 .. Len(s) - 1, NEW j \in 1 .. Len(s) - 1, i < j,
                      s[i + 1][2] = s[j + 1][2]
               PROVE  s[i + 1][1] = "ARRIVED" /\ s[j + 1][1] = "LEFT"
    BY <1>1, <1>2 DEF Ordered
  <2> QED
    BY <1>1, <1>2 DEF Ordered
<1>5. Before(<<Head(s)>>, Tail(s))
  <2> SUFFICES ASSUME NEW n \in Note, In(Tail(s), n), Head(s)[2] = n[2]
               PROVE  Head(s)[1] = "ARRIVED" /\ n[1] = "LEFT"
    BY DEF Before, In
  <2>1. PICK i \in 1 .. Len(s) - 1 : Tail(s)[i] = n
    BY <1>1, InIndex
  <2> QED
    BY <1>1, <1>2, <1>3, <2>1 DEF Ordered
<1> QED
  BY <1>1, <1>3, <1>4, <1>5

-----------------------------------------------------------------------------
(* Types, and what goes together: TypeOK without the counts of references, *)
(* which RefInv gives.                                                     *)

Types ==
  /\ context  \in {"none", "ready", "stopped"}
  /\ port     \in [Device -> {"never", "plugged", "gone"}]
  /\ messages \in Seq(Note)
  /\ enabled  \in BOOLEAN
  /\ callback \in Seq(Note)
  /\ queue    \in Seq(Note)
  /\ listing  \in {"idle", "walk"}
  /\ snapshot \in SUBSET Device
  /\ kept     \in SUBSET Device
  /\ slots    \in [Device -> Nat]
  /\ devices  \in [Device -> Nat]
  /\ handle   \in [Handle -> Device \cup {None}]
  /\ claimed  \in SUBSET Handle
  /\ closed   \in SUBSET Handle
  /\ reported \in Seq(Note)
  /\ listed   \in SUBSET Device
  /\ watching \in BOOLEAN

\* The callback works on the first message, for a device the guest may see.
CallbackInv ==
  callback # <<>> =>
    /\ context = "ready"
    /\ messages # <<>>
    /\ callback = <<Head(messages)>>
    /\ Head(messages)[2] \in Visible

\* list_devices keeps visible devices of its list, and ends with neither.
ListInv ==
  /\ kept \subseteq snapshot \cap Visible
  /\ listing = "idle" => snapshot = {} /\ kept = {}

\* Without a context there is nothing.
ContextInv ==
  context = "none" =>
    /\ ~enabled /\ messages = <<>> /\ queue = <<>> /\ listing = "idle"
    /\ \A d \in Device : devices[d] = 0
    /\ \A h \in Handle : handle[h] = None

\* Handles are opened one at a time.
HandlesFinite == IsFiniteSet({h \in Handle : handle[h] # None})

\* The types and what goes together.
BaseInv == Types /\ CallbackInv /\ ListInv /\ ContextInv /\ HandlesFinite

\* BaseInv holds before the first call.
LEMMA BaseInit == Init => BaseInv
<1> SUFFICES ASSUME Init PROVE BaseInv
  OBVIOUS
<1>1. Types
  <2>1. <<>> \in Seq(Note)
    OBVIOUS
  <2> QED
    BY <2>1 DEF Init, Types
<1>2. CallbackInv /\ ListInv /\ ContextInv
  BY DEF Init, CallbackInv, ListInv, ContextInv
<1>3. {h \in Handle : handle[h] # None} = {}
  BY DEF Init
<1> QED
  BY <1>1, <1>2, <1>3, FS_EmptySet DEF BaseInv, HandlesFinite

\* A count of notes is a number.
LEMMA NotedType == \A s, d : Noted(s, d) \in Nat
  BY DEF Noted, One, In

\* No step leaves the types.
LEMMA TypesStep == BaseInv /\ [Next]_vars => Types'
<1> SUFFICES ASSUME BaseInv, [Next]_vars PROVE Types'
  OBVIOUS
<1> USE DEF BaseInv, libusbVars, listVars, handleVars, hotplugVars, guestVars
<1>1. CASE BackendInit \/ EventLoopBreak \/ EnableHotplug
  BY <1>1 DEF BackendInit, EventLoopBreak, EnableHotplug, Types
<1>2. ASSUME NEW d \in Device, Arrive(d) \/ Leave(d) PROVE Types'
  <2>1. <<"ARRIVED", d>> \in Note /\ <<"LEFT", d>> \in Note
    BY DEF Note, Event
  <2>2. messages' \in Seq(Note)
    <3>1. messages \in Seq(Note)
      BY DEF Types
    <3>2. messages' \in {Append(messages, <<"ARRIVED", d>>), Append(messages, <<"LEFT", d>>)}
      BY <1>2 DEF Arrive, Leave
    <3>3. \A n \in Note : Append(messages, n) \in Seq(Note)
      BY <3>1, AppendProperties
    <3> QED
      BY <2>1, <3>2, <3>3
  <2> QED
    BY <1>2, <2>2 DEF Arrive, Leave, Types
<1>3. CASE HotplugIgnore
  <2>1. messages' \in Seq(Note)
    BY <1>3, HeadTailProperties DEF HotplugIgnore, Processing, Processed, Types
  <2> QED
    BY <1>3, <2>1 DEF HotplugIgnore, Types
<1>4. CASE HotplugRef
  <2>1. callback' \in Seq(Note)
    BY <1>4, HeadTailProperties DEF HotplugRef, Processing, Types
  <2> QED
    BY <1>4, <2>1 DEF HotplugRef, Types
<1>5. CASE HotplugPush
  <2>1. messages' \in Seq(Note) /\ queue' \in Seq(Note) /\ callback' \in Seq(Note)
    BY <1>5, HeadTailProperties, ConcatProperties DEF HotplugPush, Processed, Types, CallbackInv
  <2> QED
    BY <1>5, <2>1 DEF HotplugPush, Types
<1>6. CASE PollEvents
  <2>1. reported' \in Seq(Note) /\ queue' \in Seq(Note)
    <3>1. reported' = reported \o queue /\ queue' = <<>>
      BY <1>6 DEF PollEvents
    <3>2. <<>> \in Seq(Note) /\ reported \in Seq(Note) /\ queue \in Seq(Note)
      BY DEF Types
    <3> QED
      BY <3>1, <3>2, ConcatProperties
  <2>2. \A d \in Device : slots[d] + Noted(queue, d) \in Nat /\ devices[d] + Noted(queue, d) \in Nat
    <3> SUFFICES ASSUME NEW d \in Device
                 PROVE  slots[d] + Noted(queue, d) \in Nat /\ devices[d] + Noted(queue, d) \in Nat
      OBVIOUS
    <3>1. slots[d] \in Nat /\ devices[d] \in Nat
      BY DEF Types
    <3>2. Noted(queue, d) \in Nat
      BY NotedType
    <3> HIDE DEF Types
    <3> QED
      BY <3>1, <3>2
  <2> QED
    BY <1>6, <2>1, <2>2 DEF PollEvents, Types
<1>7. CASE ListBegin
  BY <1>7 DEF ListBegin, Types
<1>8. ASSUME NEW d \in Device, ListKeep(d) PROVE Types'
  BY <1>8 DEF ListKeep, Types
<1>9. CASE ListEnd
  <2>1. \A d \in Device : slots[d] + One(d \in kept) \in Nat /\ devices[d] + One(d \in kept) \in Nat
    BY DEF One, Types
  <2> QED
    BY <1>9, <2>1 DEF ListEnd, Types
<1>10. ASSUME NEW d \in Device, DropDevice(d) PROVE Types'
  BY <1>10 DEF DropDevice, Types
<1>11. ASSUME NEW d \in Device, NEW h \in Handle, Open(d, h) PROVE Types'
  BY <1>11 DEF Open, Types
<1>12. ASSUME NEW h \in Handle,
              ClaimInterface(h) \/ ReleaseInterface(h) \/ Close(h) \/ DropHandle(h)
       PROVE  Types'
  BY <1>12 DEF ClaimInterface, ReleaseInterface, Close, DropHandle, Types
<1>13. CASE UNCHANGED vars
  BY <1>13 DEF vars, Types
<1> QED
  BY <1>1, <1>2, <1>3, <1>4, <1>5, <1>6, <1>7, <1>8, <1>9, <1>10, <1>11, <1>12, <1>13
     DEF Next, GuestCall, ListContinue, EventThread

\* Open adds one handle, and only DropHandle takes one.
LEMMA HandlesStep == BaseInv /\ [Next]_vars => HandlesFinite'
<1> SUFFICES ASSUME BaseInv, [Next]_vars PROVE HandlesFinite'
  OBVIOUS
<1> DEFINE open == {h \in Handle : handle[h] # None}
<1>1. IsFiniteSet(open)
  BY DEF BaseInv, HandlesFinite
<1>2. CASE UNCHANGED handle
  BY <1>1, <1>2 DEF HandlesFinite
<1>3. ASSUME NEW d \in Device, NEW h \in Handle, Open(d, h) PROVE HandlesFinite'
  <2>1. open' \subseteq open \cup {h}
    BY <1>3 DEF Open, BaseInv, Types
  <2> QED
    BY <1>1, <2>1, FS_AddElement, FS_Subset DEF HandlesFinite
<1>4. ASSUME NEW h \in Handle, DropHandle(h) PROVE HandlesFinite'
  <2>1. open' \subseteq open
    BY <1>4 DEF DropHandle, BaseInv, Types
  <2> QED
    BY <1>1, <2>1, FS_Subset DEF HandlesFinite
<1> QED
  BY <1>2, <1>3, <1>4 DEF Next, GuestCall, ListContinue, EventThread, vars, handleVars,
     BackendInit, EnableHotplug, PollEvents, ListBegin, DropDevice, ClaimInterface,
     ReleaseInterface, Close, ListEnd, ListKeep, HotplugIgnore, HotplugRef, HotplugPush,
     EventLoopBreak, Arrive, Leave

\* The message that is being processed stays the first as others arrive.
LEMMA HeadOfAppend ==
  ASSUME NEW s \in Seq(Note), s # <<>>, NEW n \in Note
  PROVE  Head(Append(s, n)) = Head(s) /\ Append(s, n) # <<>>
BY HeadTailAppend, AppendProperties

\* No step takes the message from under the callback.
LEMMA CallbackStep == BaseInv /\ [Next]_vars => CallbackInv'
<1> SUFFICES ASSUME BaseInv, [Next]_vars, callback' # <<>> PROVE CallbackInv'
  BY DEF CallbackInv
<1>1. CASE HotplugRef
  BY <1>1 DEF HotplugRef, Processing, CallbackInv, libusbVars
<1>2. CASE HotplugIgnore \/ HotplugPush
  BY <1>2 DEF HotplugIgnore, HotplugPush, Processing, hotplugVars
<1>3. CASE UNCHANGED <<context, messages, callback>>
  BY <1>3 DEF BaseInv, CallbackInv
<1>4. CASE BackendInit \/ EventLoopBreak
  BY <1>4 DEF BackendInit, EventLoopBreak, BaseInv, CallbackInv, hotplugVars
<1>5. ASSUME NEW d \in Device, Arrive(d) \/ Leave(d) PROVE CallbackInv'
  <2>1. callback' = callback /\ context' = context
    BY <1>5 DEF Arrive, Leave, hotplugVars
  <2>2. <<"ARRIVED", d>> \in Note /\ <<"LEFT", d>> \in Note
    BY DEF Note, Event
  <2>3. messages \in Seq(Note) /\ messages # <<>>
    BY <2>1 DEF BaseInv, Types, CallbackInv
  <2>4. Head(messages') = Head(messages) /\ messages' # <<>>
    BY <1>5, <2>2, <2>3, HeadOfAppend DEF Arrive, Leave
  <2> QED
    BY <2>1, <2>4 DEF BaseInv, CallbackInv
<1> QED
  BY <1>1, <1>2, <1>3, <1>4, <1>5 DEF Next, GuestCall, ListContinue, EventThread, vars,
     libusbVars, hotplugVars, EnableHotplug, PollEvents, ListBegin, DropDevice, Open,
     ClaimInterface, ReleaseInterface, Close, DropHandle, ListEnd, ListKeep

\* The devices kept are visible ones of the list libusb returned.
LEMMA ListStep == BaseInv /\ [Next]_vars => ListInv'
<1> SUFFICES ASSUME BaseInv, [Next]_vars PROVE ListInv'
  OBVIOUS
<1>1. CASE ListBegin
  BY <1>1 DEF ListBegin, HostFree, BaseInv, ListInv
<1>2. ASSUME NEW d \in Device, ListKeep(d) PROVE ListInv'
  BY <1>2 DEF ListKeep, BaseInv, ListInv
<1>3. CASE ListEnd
  BY <1>3 DEF ListEnd, ListInv
<1>4. CASE UNCHANGED listVars
  BY <1>4 DEF BaseInv, ListInv, listVars
<1> QED
  BY <1>1, <1>2, <1>3, <1>4 DEF Next, GuestCall, ListContinue, EventThread, vars, listVars,
     BackendInit, EnableHotplug, PollEvents, DropDevice, Open,
     ClaimInterface, ReleaseInterface, Close, DropHandle, HotplugIgnore, HotplugRef,
     HotplugPush, EventLoopBreak, Arrive, Leave

\* No operation but init works without a context.
LEMMA ContextStep == BaseInv /\ [Next]_vars => ContextInv'
<1> SUFFICES ASSUME BaseInv, [Next]_vars, context' = "none" PROVE ContextInv'
  BY DEF ContextInv
<1>1. context = "none"
  BY DEF Next, GuestCall, ListContinue, EventThread, vars, libusbVars,
     BackendInit, EnableHotplug, PollEvents, ListBegin, DropDevice, Open, ClaimInterface,
     ReleaseInterface, Close, DropHandle, ListEnd, ListKeep, HotplugIgnore, HotplugRef,
     HotplugPush, EventLoopBreak, Arrive, Leave
<1>2. /\ ~enabled /\ messages = <<>> /\ queue = <<>> /\ callback = <<>> /\ listing = "idle"
      /\ \A d \in Device : devices[d] = 0
      /\ \A h \in Handle : handle[h] = None
  BY <1>1 DEF BaseInv, ContextInv, CallbackInv
<1>3. /\ ~BackendInit /\ ~EventLoopBreak /\ ~EnableHotplug /\ ~PollEvents /\ ~ListBegin /\ ~ListEnd
      /\ ~HotplugIgnore /\ ~HotplugRef /\ ~HotplugPush
  BY <1>1, <1>2 DEF BackendInit, EventLoopBreak, EnableHotplug, PollEvents, ListBegin, ListEnd,
     HotplugIgnore, HotplugRef, HotplugPush, Processing
<1>4. \A d \in Device : ~Arrive(d) /\ ~Leave(d) /\ ~ListKeep(d) /\ ~DropDevice(d)
        /\ \A h \in Handle : ~Open(d, h)
  BY <1>1, <1>2 DEF Arrive, Leave, ListKeep, DropDevice, Open
<1>5. \A h \in Handle : ~ClaimInterface(h) /\ ~Close(h) /\ ~DropHandle(h)
  BY <1>2 DEF ClaimInterface, Close, DropHandle
<1>6. CASE UNCHANGED <<enabled, messages, queue, listing, devices, handle>>
  BY <1>2, <1>6 DEF ContextInv
<1> QED
  BY <1>3, <1>4, <1>5, <1>6 DEF Next, GuestCall, ListContinue, EventThread, vars,
     ReleaseInterface, libusbVars, hotplugVars, listVars

\* BaseInv is inductive.
LEMMA BaseAlways == Spec => []BaseInv
<1>1. BaseInv /\ [Next]_vars => BaseInv'
  BY TypesStep, CallbackStep, ListStep, ContextStep, HandlesStep DEF BaseInv
<1> QED
  BY <1>1, BaseInit, PTL DEF Spec

-----------------------------------------------------------------------------
(* The order of events: what was reported precedes what is queued, and     *)
(* that what libusb has yet to process.                                    *)

\* The log: what is reported, then what is queued, then libusb's messages.
LogInv ==
  /\ Ordered(reported) /\ Ordered(queue) /\ Ordered(messages)
  /\ Before(reported, queue) /\ Before(reported, messages) /\ Before(queue, messages)

\* A device that was never there is in no note, and one that is there in no
\* note of a departure.
PortInv ==
  \A note \in Note :
    In(reported, note) \/ In(queue, note) \/ In(messages, note) =>
      /\ port[note[2]] # "never"
      /\ note[1] = "LEFT" => port[note[2]] = "gone"

\* The empty sequence is in order and has no note.
LEMMA Nothing ==
  /\ <<>> \in Seq(Note) /\ Ordered(<<>>)
  /\ \A note : ~In(<<>>, note)
BY DEF Ordered, In

\* A sequence of one note is in order and has that note.
LEMMA Single ==
  ASSUME NEW n \in Note
  PROVE  <<n>> \in Seq(Note) /\ Ordered(<<n>>) /\ \A note : In(<<n>>, note) <=> note = n
BY DEF Ordered, In

\* A note that arrives goes behind all others.
LEMMA LogAppend ==
  ASSUME BaseInv, LogInv, NEW n \in Note, messages' = Append(messages, n),
         UNCHANGED <<queue, reported>>,
         \A s \in {reported, queue, messages}, note \in Note :
           In(s, note) /\ note[2] = n[2] => note[1] = "ARRIVED" /\ n[1] = "LEFT"
  PROVE  LogInv'
<1>1. messages \in Seq(Note) /\ messages' = messages \o <<n>>
  BY AppendIsConcat DEF BaseInv, Types
<1>2. Ordered(messages')
  <2>1. Before(messages, <<n>>)
    BY Single DEF Before
  <2>2. <<n>> \in Seq(Note) /\ Ordered(<<n>>) /\ Ordered(messages)
    BY Single DEF LogInv
  <2>3. Ordered(messages \o <<n>>)
    BY <1>1, <2>1, <2>2, OrderedConcat
  <2> QED
    BY <1>1, <2>3
<1>3. \A note : In(messages', note) <=> In(messages, note) \/ note = n
  <2>1. \A note : In(Append(messages, n), note) <=> In(messages, note) \/ n = note
    BY <1>1, InAppend
  <2> QED
    BY <2>1
<1> QED
  BY <1>2, <1>3 DEF LogInv, Before

\* Notes only move from one part of the log to the next one.
LEMMA LogStep == BaseInv /\ LogInv /\ PortInv /\ [Next]_vars => LogInv'
<1> SUFFICES ASSUME BaseInv, LogInv, PortInv, [Next]_vars PROVE LogInv'
  OBVIOUS
<1>1. messages \in Seq(Note) /\ queue \in Seq(Note) /\ reported \in Seq(Note)
  BY DEF BaseInv, Types
<1>2. CASE UNCHANGED <<messages, queue, reported>>
  BY <1>2 DEF LogInv
<1>3. ASSUME NEW d \in Device, Arrive(d) PROVE LogInv'
  <2>1. <<"ARRIVED", d>> \in Note
    BY DEF Note, Event
  <2> QED
    BY <1>3, <2>1, LogAppend DEF Arrive, PortInv, hotplugVars, guestVars
<1>4. ASSUME NEW d \in Device, Leave(d) PROVE LogInv'
  <2>1. <<"LEFT", d>> \in Note
    BY DEF Note, Event
  <2>2. \A note \in Note : note[1] # "LEFT" => note[1] = "ARRIVED"
    BY DEF Note, Event
  <2> QED
    BY <1>4, <2>1, <2>2, LogAppend DEF Leave, PortInv, hotplugVars, guestVars
<1>5. CASE HotplugIgnore
  <2>1. messages' = Tail(messages) /\ messages # <<>> /\ UNCHANGED <<queue, reported>>
    BY <1>5 DEF HotplugIgnore, Processing, Processed, hotplugVars, guestVars
  <2> QED
    BY <1>1, <2>1, InTail, OrderedTail DEF LogInv, Before
<1>6. CASE HotplugPush
  <2>1. /\ messages' = Tail(messages) /\ messages # <<>>
        /\ queue' = queue \o <<Head(messages)>>
        /\ reported' = reported
    BY <1>6 DEF HotplugPush, Processed, guestVars, BaseInv, CallbackInv
  <2> DEFINE n == Head(messages)
  <2>2. n \in Note /\ Ordered(messages') /\ Before(<<n>>, messages')
    BY <1>1, <2>1, OrderedTail DEF LogInv
  <2>3. \A note : In(messages, note) <=> note = n \/ In(messages', note)
    BY <1>1, <2>1, InTail
  <2>4. \A note : In(queue', note) <=> In(queue, note) \/ note = n
    BY <1>1, <2>1, <2>2, Single, InConcat
  <2>5. Before(queue, <<n>>) /\ Before(reported, <<n>>)
    BY <2>3, <2>2, Single DEF LogInv, Before
  <2>6. Ordered(queue')
    BY <1>1, <2>1, <2>2, <2>5, Single, OrderedConcat DEF LogInv
  <2> HIDE DEF n
  <2>7. Before(reported, queue') /\ Before(reported, messages') /\ Before(queue', messages')
    <3>1. \A note : In(<<n>>, note) <=> note = n
      BY <2>2, Single
    <3> QED
      BY <2>2, <2>3, <2>4, <2>5, <3>1 DEF LogInv, Before
  <2> QED
    BY <2>1, <2>2, <2>6, <2>7 DEF LogInv
<1>7. CASE PollEvents
  <2>1. reported' = reported \o queue /\ queue' = <<>> /\ messages' = messages
    BY <1>7 DEF PollEvents, libusbVars
  <2>2. Ordered(reported')
    BY <1>1, <2>1, OrderedConcat DEF LogInv
  <2>3. \A note : In(reported', note) <=> In(reported, note) \/ In(queue, note)
    BY <1>1, <2>1, InConcat
  <2> QED
    BY <2>1, <2>2, <2>3, Nothing DEF LogInv, Before
<1> QED
  BY <1>2, <1>3, <1>4, <1>5, <1>6, <1>7 DEF Next, GuestCall, ListContinue, EventThread, vars,
     libusbVars, hotplugVars, guestVars, BackendInit, EnableHotplug, ListBegin, DropDevice,
     Open, ClaimInterface, ReleaseInterface, Close, DropHandle, ListEnd, ListKeep,
     HotplugRef, EventLoopBreak

\* A note is written when the bus changes, and the bus never goes back.
LEMMA PortStep == BaseInv /\ PortInv /\ [Next]_vars => PortInv'
<1> SUFFICES ASSUME BaseInv, PortInv, [Next]_vars PROVE PortInv'
  OBVIOUS
<1>1. messages \in Seq(Note) /\ queue \in Seq(Note) /\ reported \in Seq(Note)
  BY DEF BaseInv, Types
<1>2. CASE UNCHANGED <<messages, queue, reported, port>>
  BY <1>2 DEF PortInv
<1>3. ASSUME NEW d \in Device, Arrive(d) \/ Leave(d) PROVE PortInv'
  <2>1. <<"ARRIVED", d>> \in Note /\ <<"LEFT", d>> \in Note
    BY DEF Note, Event
  <2>2. \A note : In(messages', note) =>
          \/ In(messages, note)
          \/ Arrive(d) /\ note = <<"ARRIVED", d>>
          \/ Leave(d) /\ note = <<"LEFT", d>>
    BY <1>1, <1>3, <2>1, InAppend DEF Arrive, Leave
  <2>3. \A e \in Device : port'[e] = IF e # d THEN port[e]
                                   ELSE IF Leave(d) THEN "gone" ELSE "plugged"
    BY <1>3 DEF Arrive, Leave, BaseInv, Types
  <2>4. \A note \in Note : note[2] \in Device
    BY DEF Note
  <2>5. UNCHANGED <<queue, reported>>
    BY <1>3 DEF Arrive, Leave, hotplugVars, guestVars
  <2>6. Arrive(d) => port[d] = "never"
    BY DEF Arrive
  <2> QED
    BY <1>3, <2>2, <2>3, <2>4, <2>5, <2>6 DEF PortInv
<1>4. CASE HotplugIgnore
  BY <1>1, <1>4, InTail DEF HotplugIgnore, Processing, Processed, hotplugVars, guestVars, PortInv
<1>5. CASE HotplugPush
  <2>1. /\ messages' = Tail(messages) /\ messages # <<>>
        /\ queue' = queue \o <<Head(messages)>>
        /\ reported' = reported /\ port' = port
    BY <1>5 DEF HotplugPush, Processed, guestVars, BaseInv, CallbackInv
  <2>2. Head(messages) \in Note
    BY <1>1, <2>1, HeadTailProperties
  <2>3. \A note : In(queue', note) <=> In(queue, note) \/ note = Head(messages)
    <3>1. <<Head(messages)>> \in Seq(Note)
      BY <2>2, Single
    <3>2. \A note : In(<<Head(messages)>>, note) <=> note = Head(messages)
      BY <2>2, Single
    <3> QED
      BY <1>1, <2>1, <3>1, <3>2, InConcat
  <2> QED
    BY <1>1, <2>1, <2>3, InTail DEF PortInv
<1>6. CASE PollEvents
  BY <1>1, <1>6, InConcat, Nothing DEF PollEvents, libusbVars, PortInv
<1> QED
  BY <1>2, <1>3, <1>4, <1>5, <1>6 DEF Next, GuestCall, ListContinue, EventThread, vars,
     libusbVars, hotplugVars, guestVars, BackendInit, EnableHotplug, ListBegin, DropDevice,
     Open, ClaimInterface, ReleaseInterface, Close, DropHandle, ListEnd, ListKeep,
     HotplugRef, EventLoopBreak

\* LogInv and PortInv hold together.
LEMMA LogAlways == Spec => [](LogInv /\ PortInv)
<1>1. Init => LogInv /\ PortInv
  BY Nothing DEF Init, LogInv, PortInv, Before
<1> QED
  BY <1>1, LogStep, PortStep, BaseAlways, PTL DEF Spec

\* The guest hears of the arrival of a device and of its departure in this
\* order and once, for any number of devices, whatever it polls and when.
THEOREM OrderCorrect == Spec => []EventsInOrder
<1>1. BaseInv /\ LogInv => EventsInOrder
  <2>1. BaseInv => DOMAIN reported = 1 .. Len(reported)
    BY DEF BaseInv, Types
  <2> QED
    BY <2>1 DEF LogInv, Ordered, EventsInOrder
<1> QED
  BY <1>1, LogAlways, BaseAlways, PTL

-----------------------------------------------------------------------------
(* What the guest holds it may see, and of what it may see it misses none. *)

\* What the guest will hold, and what it holds, is visible.
VisibleInv ==
  /\ \A note \in Note : In(queue, note) => note[2] \in Visible
  /\ \A d \in Device : devices[d] > 0 => d \in Visible

\* hotplug_cb and list_devices let only visible devices through.
LEMMA VisibleStep == BaseInv /\ VisibleInv /\ [Next]_vars => VisibleInv'
<1> SUFFICES ASSUME BaseInv, VisibleInv, [Next]_vars PROVE VisibleInv'
  OBVIOUS
<1>1. /\ messages \in Seq(Note) /\ queue \in Seq(Note)
      /\ devices \in [Device -> Nat] /\ kept \subseteq Visible
  BY DEF BaseInv, Types, ListInv
<1>2. CASE UNCHANGED <<queue, devices>>
  BY <1>2 DEF VisibleInv
<1>3. CASE HotplugPush
  <2>1. /\ queue' = queue \o <<Head(messages)>> /\ messages # <<>>
        /\ Head(messages)[2] \in Visible /\ devices' = devices
    BY <1>3 DEF HotplugPush, BaseInv, CallbackInv
  <2>2. Head(messages) \in Note
    BY <1>1, <2>1, HeadTailProperties
  <2>3. /\ <<Head(messages)>> \in Seq(Note)
        /\ \A note : In(<<Head(messages)>>, note) <=> note = Head(messages)
    BY <2>2, Single
  <2>4. \A note : In(queue', note) <=> In(queue, note) \/ note = Head(messages)
    BY <1>1, <2>1, <2>3, InConcat
  <2> QED
    BY <2>1, <2>4 DEF VisibleInv
<1>4. CASE PollEvents
  <2>1. queue' = <<>> /\ devices' = [d \in Device |-> devices[d] + Noted(queue, d)]
    BY <1>4 DEF PollEvents
  <2>2. ASSUME NEW d \in Device, devices[d] + Noted(queue, d) > 0 PROVE d \in Visible
    <3>1. devices[d] \in Nat /\ Noted(queue, d) \in Nat
      BY <1>1, NotedType
    <3>2. CASE devices[d] > 0
      BY <3>2 DEF VisibleInv
    <3>3. CASE Noted(queue, d) > 0
      <4>1. In(queue, <<"ARRIVED", d>>) \/ In(queue, <<"LEFT", d>>)
        BY <3>3 DEF Noted, One
      <4>2. <<"ARRIVED", d>> \in Note /\ <<"LEFT", d>> \in Note
        BY DEF Note, Event
      <4> QED
        BY <4>1, <4>2 DEF VisibleInv
    <3> QED
      BY <2>2, <3>1, <3>2, <3>3
  <2> QED
    BY <2>1, <2>2, Nothing DEF VisibleInv
<1>5. CASE ListEnd
  BY <1>1, <1>5 DEF ListEnd, hotplugVars, VisibleInv, One
<1>6. ASSUME NEW d \in Device, DropDevice(d) PROVE VisibleInv'
  <2>1. queue' = queue /\ devices[d] > 0 /\ devices' = [devices EXCEPT ![d] = @ - 1]
    BY <1>6 DEF DropDevice, hotplugVars
  <2> QED
    BY <1>1, <2>1 DEF VisibleInv
<1> QED
  BY <1>2, <1>3, <1>4, <1>5, <1>6 DEF Next, GuestCall, ListContinue, EventThread, vars,
     libusbVars, hotplugVars, guestVars, BackendInit, EnableHotplug, ListBegin,
     Open, ClaimInterface, ReleaseInterface, Close, DropHandle, ListKeep, HotplugIgnore,
     HotplugRef, EventLoopBreak, Arrive, Leave

\* VisibleInv is inductive.
LEMMA VisibleAlways == Spec => []VisibleInv
<1>1. Init => VisibleInv
  BY Nothing DEF Init, VisibleInv
<1> QED
  BY <1>1, VisibleStep, BaseAlways, PTL DEF Spec

\* No device the allow list refuses ever reaches the guest.
THEOREM AllowedCorrect == Spec => []OnlyAllowed
<1>1. VisibleInv => OnlyAllowed
  BY DEF VisibleInv, OnlyAllowed, Visible
<1> QED
  BY <1>1, VisibleAlways, PTL

\* The arrival of d is on its way to the guest, or it has been reported.
Told(d) == \E seq \in {messages, queue, reported} : In(seq, <<"ARRIVED", d>>)

\* An arrival stays on its way, and every new device has one.
LEMMA ToldStep ==
  ASSUME BaseInv, [Next]_vars, enabled, NEW d \in Visible
  PROVE  /\ Told(d) => Told(d)'
         /\ port'[d] = "plugged" => port[d] = "plugged" \/ Told(d)'
<1>1. messages \in Seq(Note) /\ queue \in Seq(Note) /\ reported \in Seq(Note) /\ d \in Device
  BY DeviceAssumption DEF BaseInv, Types, Visible
<1> DEFINE n == <<"ARRIVED", d>>
<1>2. Told(d) <=> In(messages, n) \/ In(queue, n) \/ In(reported, n)
  BY DEF Told
<1>3. Told(d)' <=> In(messages', n) \/ In(queue', n) \/ In(reported', n)
  BY DEF Told
<1> HIDE DEF n
<1>4. CASE UNCHANGED <<messages, queue, reported, port>>
  BY <1>2, <1>3, <1>4
<1>5. ASSUME NEW e \in Device, Arrive(e) \/ Leave(e)
      PROVE  /\ Told(d) => Told(d)'
             /\ port'[d] = "plugged" => port[d] = "plugged" \/ Told(d)'
  <2>1. <<"ARRIVED", e>> \in Note /\ <<"LEFT", e>> \in Note
    BY DEF Note, Event
  <2>2. UNCHANGED <<queue, reported>> /\ (In(messages, n) => In(messages', n))
    <3>1. \A m \in Note : In(messages, n) => In(Append(messages, m), n)
      BY <1>1, InAppend
    <3>2. \E m \in Note : messages' = Append(messages, m)
      BY <1>5, <2>1 DEF Arrive, Leave
    <3>3. UNCHANGED <<queue, reported>>
      BY <1>5 DEF Arrive, Leave, hotplugVars, guestVars
    <3> QED
      BY <3>1, <3>2, <3>3
  <2>3. Arrive(e) => In(messages', <<"ARRIVED", e>>)
    BY <1>1, <2>1, InAppend DEF Arrive
  <2>4. port'[d] = "plugged" => port[d] = "plugged" \/ (Arrive(e) /\ e = d)
    BY <1>1, <1>5 DEF Arrive, Leave, BaseInv, Types
  <2> QED
    BY <1>2, <1>3, <2>2, <2>3, <2>4 DEF n
<1>6. CASE HotplugIgnore
  <2>1. /\ messages' = Tail(messages) /\ messages # <<>> /\ Head(messages)[2] # d
        /\ UNCHANGED <<queue, reported, port>>
    BY <1>6 DEF HotplugIgnore, Processing, Processed, hotplugVars, guestVars
  <2>2. In(messages, n) => In(messages', n)
    <3>1. Head(messages) # n
      BY <2>1 DEF n
    <3> QED
      BY <1>1, <2>1, <3>1, InTail
  <2> QED
    BY <1>2, <1>3, <2>1, <2>2
<1>7. CASE HotplugPush
  <2>1. /\ messages' = Tail(messages) /\ messages # <<>>
        /\ queue' = queue \o <<Head(messages)>>
        /\ UNCHANGED <<reported, port>>
    BY <1>7 DEF HotplugPush, Processed, guestVars, BaseInv, CallbackInv
  <2>2. Head(messages) \in Note
    BY <1>1, <2>1, HeadTailProperties
  <2>3. <<Head(messages)>> \in Seq(Note) /\ (In(<<Head(messages)>>, n) <=> n = Head(messages))
    BY <2>2, Single
  <2>4. In(queue', n) <=> In(queue, n) \/ n = Head(messages)
    BY <1>1, <2>1, <2>3, InConcat
  <2>5. In(messages, n) <=> Head(messages) = n \/ In(messages', n)
    BY <1>1, <2>1, InTail
  <2> QED
    BY <1>2, <1>3, <2>1, <2>4, <2>5
<1>8. CASE PollEvents
  <2>1. reported' = reported \o queue /\ UNCHANGED <<messages, port>>
    BY <1>8 DEF PollEvents, libusbVars
  <2>2. In(reported', n) <=> In(reported, n) \/ In(queue, n)
    BY <1>1, <2>1, InConcat
  <2> QED
    BY <1>2, <1>3, <2>1, <2>2
<1> QED
  BY <1>4, <1>5, <1>6, <1>7, <1>8 DEF Next, GuestCall, ListContinue, EventThread, vars,
     libusbVars, hotplugVars, guestVars, BackendInit, EnableHotplug, ListBegin, DropDevice,
     Open, ClaimInterface, ReleaseInterface, Close, DropHandle, ListEnd, ListKeep,
     HotplugRef, EventLoopBreak

\* NoneMissed says nothing of a list_devices that is under way: what it has
\* not got in its snapshot has to be announced as well.
MissInv ==
  /\ watching => enabled
  /\ NoneMissed
  /\ listing = "walk" /\ enabled =>
       \A d \in Visible : port[d] = "plugged" => d \in snapshot \/ Told(d)

\* Neither the end of a list_devices nor a step between two misses a device.
LEMMA MissStep == BaseInv /\ MissInv /\ [Next]_vars => MissInv'
<1> SUFFICES ASSUME BaseInv, MissInv, [Next]_vars PROVE MissInv'
  OBVIOUS
<1> DEFINE Missed(d) == port[d] = "plugged" /\ ~Told(d)
<1>1. ASSUME enabled, NEW d \in Visible, Missed(d)' PROVE Missed(d)
  BY <1>1, ToldStep
<1> HIDE DEF Missed
<1>2. NoneMissed <=> (watching => \A d \in Visible : Missed(d) => d \in listed)
  BY DEF NoneMissed, Missed, Told
<1>3. NoneMissed' <=> (watching' => \A d \in Visible : Missed(d)' => d \in listed')
  BY DEF NoneMissed, Missed, Told
<1> DEFINE Walk == listing = "walk" /\ enabled => \A d \in Visible : Missed(d) => d \in snapshot
<1>4. Walk <=> (listing = "walk" /\ enabled =>
                  \A d \in Visible : port[d] = "plugged" => d \in snapshot \/ Told(d))
  BY DEF Missed
<1>5. Walk' <=> (listing = "walk" /\ enabled =>
                  \A d \in Visible : port[d] = "plugged" => d \in snapshot \/ Told(d))'
  BY DEF Missed
<1>6. MissInv <=> (watching => enabled) /\ NoneMissed /\ Walk
  BY <1>4 DEF MissInv
<1>7. MissInv' <=> (watching' => enabled') /\ NoneMissed' /\ Walk'
  BY <1>5 DEF MissInv
<1>8. (watching => enabled) /\ (watching => \A d \in Visible : Missed(d) => d \in listed) /\ Walk
  BY <1>2, <1>6
<1> SUFFICES /\ watching' => enabled'
             /\ watching' => \A d \in Visible : Missed(d)' => d \in listed'
             /\ Walk'
  BY <1>3, <1>7
<1>9. CASE EnableHotplug
  BY <1>8, <1>9, <1>1 DEF EnableHotplug, HostFree, listVars, guestVars
<1>10. CASE ListBegin
  <2>1. \A d \in Visible : Missed(d)' => d \in snapshot'
    <3>1. \A d \in Visible : d \in Device
      BY DeviceAssumption DEF Visible
    <3> QED
      BY <1>10, <3>1 DEF ListBegin, Missed, libusbVars
  <2> QED
    BY <1>8, <1>10, <1>1, <2>1 DEF ListBegin, hotplugVars, guestVars
<1>11. CASE ListEnd
  <2>1. /\ snapshot \cap Visible = kept /\ listing = "walk" /\ listing' = "idle"
        /\ watching' = enabled /\ enabled' = enabled
        /\ listed' = IF enabled /\ ~watching THEN kept ELSE listed
    BY <1>11 DEF ListEnd, hotplugVars
  <2> QED
    BY <1>8, <1>1, <2>1
<1>12. CASE UNCHANGED <<enabled, listing, snapshot, guestVars>>
  BY <1>8, <1>1, <1>12 DEF guestVars
<1>13. CASE UNCHANGED <<enabled, listing, snapshot, listed, watching>>
  BY <1>8, <1>1, <1>13
<1> QED
  BY <1>9, <1>10, <1>11, <1>12, <1>13 DEF Next, GuestCall, ListContinue, EventThread, vars,
     libusbVars, listVars, hotplugVars, guestVars, BackendInit, PollEvents, DropDevice,
     Open, ClaimInterface, ReleaseInterface, Close, DropHandle, ListKeep, HotplugIgnore,
     HotplugRef, HotplugPush, EventLoopBreak, Arrive, Leave

\* Enabling hotplug and then listing the devices leaves no gap.
THEOREM MissCorrect == Spec => []NoneMissed
<1>1. Init => MissInv
  BY DEF Init, MissInv, NoneMissed
<1>2. MissInv => NoneMissed
  BY DEF MissInv
<1> QED
  BY <1>1, <1>2, MissStep, BaseAlways, PTL DEF Spec

-----------------------------------------------------------------------------
(* The references.  Own speaks of refs itself; Mine says the same of what  *)
(* libusb knows, so that RefInv defines refs from the other variables.     *)

\* libusb's own reference: until it has processed the departure of d.
Mine(d) ==
  One(context # "none" /\ (port[d] = "plugged" \/ In(messages, <<"LEFT", d>>)))

\* The references of d are those of its owners.
RefInv ==
  refs = [d \in Device |->
            Mine(d) + One(d \in snapshot) + One(d \in kept)
              + Noted(callback, d) + Noted(queue, d) + devices[d] + OpenHandles(d)]

\* The open handles of a device are finitely many.
LEMMA OpenType ==
  ASSUME BaseInv, NEW d \in Device
  PROVE  OpenHandles(d) \in Nat
<1>1. {h \in Handle : handle[h] = d} \subseteq {h \in Handle : handle[h] # None}
  BY DeviceAssumption
<1> QED
  BY <1>1, FS_Subset, FS_CardinalityType DEF BaseInv, HandlesFinite, OpenHandles

\* libusb_open adds one to them.
LEMMA OpenOpened ==
  ASSUME BaseInv, NEW d \in Device, NEW h \in Handle, handle[h] = None,
         handle' = [handle EXCEPT ![h] = d], NEW e \in Device
  PROVE  OpenHandles(e)' = OpenHandles(e) + One(e = d)
<1> DEFINE of == {x \in Handle : handle[x] = e}
<1>1. IsFiniteSet(of) /\ h \notin of
  <2>1. of \subseteq {x \in Handle : handle[x] # None} /\ h \notin of
    BY DeviceAssumption
  <2> QED
    BY <2>1, FS_Subset DEF BaseInv, HandlesFinite
<1>2. CASE e = d
  <2>1. of' = of \cup {h}
    BY <1>2 DEF BaseInv, Types
  <2> QED
    BY <1>1, <1>2, <2>1, FS_AddElement DEF OpenHandles, One
<1>3. CASE e # d
  <2>1. of' = of
    BY <1>1, <1>3 DEF BaseInv, Types
  <2>2. Cardinality(of) \in Nat
    BY <1>1, FS_CardinalityType
  <2> QED
    BY <1>3, <2>1, <2>2 DEF OpenHandles, One
<1> QED
  BY <1>2, <1>3

\* libusb_close takes one from them.
LEMMA OpenDropped ==
  ASSUME BaseInv, NEW h \in Handle, handle[h] # None,
         handle' = [handle EXCEPT ![h] = None], NEW e \in Device
  PROVE  OpenHandles(e)' = OpenHandles(e) - One(e = handle[h])
<1> DEFINE of == {x \in Handle : handle[x] = e}
<1>1. IsFiniteSet(of) /\ Cardinality(of) \in Nat
  <2>1. of \subseteq {x \in Handle : handle[x] # None}
    BY DeviceAssumption
  <2> QED
    BY <2>1, FS_Subset, FS_CardinalityType DEF BaseInv, HandlesFinite
<1>2. CASE e = handle[h]
  <2>1. of' = of \ {h} /\ h \in of
    BY <1>2, DeviceAssumption DEF BaseInv, Types
  <2> QED
    BY <1>1, <1>2, <2>1, FS_RemoveElement DEF OpenHandles, One
<1>3. CASE e # handle[h]
  <2>1. of' = of
    BY <1>3, DeviceAssumption DEF BaseInv, Types
  <2> QED
    BY <1>1, <1>3, <2>1 DEF OpenHandles, One
<1> QED
  BY <1>2, <1>3

\* An empty queue notes nothing.
LEMMA NotedNothing == \A d : Noted(<<>>, d) = 0
  BY Nothing DEF Noted, One

\* A note is about one device.
LEMMA NotedSingle ==
  ASSUME NEW n \in Note, NEW d \in Device
  PROVE  Noted(<<n>>, d) = One(d = n[2])
<1>1. n = <<"ARRIVED", n[2]>> \/ n = <<"LEFT", n[2]>>
  BY DEF Note, Event
<1>2. In(<<n>>, <<"ARRIVED", d>>) <=> n = <<"ARRIVED", d>>
  BY Single
<1>3. In(<<n>>, <<"LEFT", d>>) <=> n = <<"LEFT", d>>
  BY Single
<1> QED
  BY <1>1, <1>2, <1>3 DEF Noted, One

\* A device arrives once and leaves once: no note is pushed a second time.
LEMMA NotedPushed ==
  ASSUME BaseInv, LogInv, messages # <<>>, NEW d \in Device
  PROVE  Noted(queue \o <<Head(messages)>>, d) = Noted(queue, d) + One(d = Head(messages)[2])
<1> DEFINE n == Head(messages)
<1>1. queue \in Seq(Note) /\ messages \in Seq(Note)
  BY DEF BaseInv, Types
<1>2. n \in Note /\ In(messages, n)
  BY <1>1, HeadTailProperties, InTail
<1>3. ~In(queue, n)
  BY <1>2 DEF LogInv, Before
<1>4. <<n>> \in Seq(Note) /\ \A note : In(<<n>>, note) <=> note = n
  BY <1>2, Single
<1>5. \A note : In(queue \o <<n>>, note) <=> In(queue, note) \/ note = n
  BY <1>1, <1>4, InConcat
<1>6. n = <<"ARRIVED", n[2]>> \/ n = <<"LEFT", n[2]>>
  BY <1>2 DEF Note, Event
<1> HIDE DEF n
<1>7. Noted(queue \o <<n>>, d) = Noted(queue, d) + One(d = n[2])
  BY <1>3, <1>5, <1>6 DEF Noted, One
<1> QED
  BY <1>7 DEF n

\* libusb's own reference goes with the departure, of which there is one.
LEMMA MineProcessed ==
  ASSUME BaseInv, LogInv, PortInv, context = "ready", messages # <<>>,
         messages' = Tail(messages), UNCHANGED <<context, port>>, NEW d \in Device
  PROVE  Mine(d)' = Mine(d) - One(Head(messages) = <<"LEFT", d>>)
<1> DEFINE left == <<"LEFT", d>>
<1>1. messages \in Seq(Note) /\ left \in Note
  BY DEF BaseInv, Types, Note, Event
<1>2. In(messages, left) <=> Head(messages) = left \/ In(messages', left)
  BY <1>1, InTail
<1>3. Head(messages) = left => ~In(messages', left)
  <2>1. Before(<<Head(messages)>>, Tail(messages)) /\ Head(messages) \in Note
    BY <1>1, OrderedTail DEF LogInv
  <2>2. In(<<Head(messages)>>, Head(messages))
    BY <2>1, Single
  <2> QED
    BY <1>1, <2>1, <2>2 DEF Before
<1>4. Head(messages) = left => port[d] # "plugged"
  BY <1>1, <1>2 DEF PortInv
<1>5. Mine(d) = One(port[d] = "plugged" \/ In(messages, left))
  BY DEF Mine, One
<1>6. Mine(d)' = One(port[d] = "plugged" \/ In(messages', left))
  BY DEF Mine, One
<1> HIDE DEF left
<1>7. CASE Head(messages) = left
  BY <1>2, <1>3, <1>4, <1>5, <1>6, <1>7 DEF One, left
<1>8. CASE Head(messages) # left
  BY <1>2, <1>5, <1>6, <1>8 DEF One, left
<1> QED
  BY <1>7, <1>8

\* The references of d's owners other than libusb.
Lent(d) ==
  One(d \in snapshot) + One(d \in kept) + Noted(callback, d) + Noted(queue, d)
    + devices[d] + OpenHandles(d)

\* RefInv in two parts, and their types.
LEMMA RefIs ==
  ASSUME BaseInv
  PROVE  /\ \A d \in Device :
              /\ Mine(d) \in {0, 1} /\ OpenHandles(d) \in Nat /\ devices[d] \in Nat
              /\ Noted(callback, d) \in Nat /\ Noted(queue, d) \in Nat
              /\ One(d \in snapshot) \in {0, 1} /\ One(d \in kept) \in {0, 1}
              /\ Lent(d) \in Nat
         /\ RefInv <=> refs = [d \in Device |-> Mine(d) + Lent(d)]
<1>1. ASSUME NEW d \in Device
      PROVE  /\ Mine(d) \in {0, 1} /\ OpenHandles(d) \in Nat /\ devices[d] \in Nat
             /\ Noted(callback, d) \in Nat /\ Noted(queue, d) \in Nat
             /\ One(d \in snapshot) \in {0, 1} /\ One(d \in kept) \in {0, 1}
  <2>1. devices[d] \in Nat
    BY DEF BaseInv, Types
  <2>2. Mine(d) \in {0, 1} /\ One(d \in snapshot) \in {0, 1} /\ One(d \in kept) \in {0, 1}
    BY DEF Mine, One
  <2> QED
    BY <2>1, <2>2, OpenType, NotedType
<1>2. \A d \in Device : Lent(d) \in Nat
  BY <1>1 DEF Lent
<1>3. ASSUME NEW d \in Device
      PROVE  Mine(d) + Lent(d) =
               Mine(d) + One(d \in snapshot) + One(d \in kept)
                 + Noted(callback, d) + Noted(queue, d) + devices[d] + OpenHandles(d)
  BY <1>1 DEF Lent
<1> QED
  BY <1>1, <1>2, <1>3 DEF RefInv

\* Each step changes the counts by what it changes of the owners.
LEMMA RefStep == BaseInv /\ LogInv /\ PortInv /\ RefInv /\ [Next]_vars => RefInv'
<1> SUFFICES ASSUME BaseInv, LogInv, PortInv, RefInv, [Next]_vars PROVE RefInv'
  OBVIOUS
<1>1. BaseInv'
  BY TypesStep, CallbackStep, ListStep, ContextStep, HandlesStep DEF BaseInv
<1>2. /\ refs = [d \in Device |-> Mine(d) + Lent(d)]
      /\ RefInv' <=> refs' = [d \in Device |-> Mine(d)' + Lent(d)']
  <2>1. (RefInv <=> refs = [d \in Device |-> Mine(d) + Lent(d)])'
    BY <1>1, RefIs, PTL
  <2> QED
    BY <2>1, RefIs
<1>3. \A d \in Device : Mine(d) \in {0, 1} /\ Lent(d) \in Nat
  BY RefIs
<1>4. \A d \in Device : One(d \in {}) = 0
  BY DEF One
<1>5. UNCHANGED <<snapshot, kept, callback, queue, devices, handle>>
        => \A d \in Device : Lent(d)' = Lent(d)
  BY DEF Lent, Noted, In, OpenHandles
<1>6. UNCHANGED <<context, port, messages>> => \A d \in Device : Mine(d)' = Mine(d)
  BY DEF Mine, In
<1>7. CASE UNCHANGED <<context, port, messages, refs, snapshot, kept, callback, queue,
                       devices, handle>>
  BY <1>2, <1>5, <1>6, <1>7
<1>8. CASE BackendInit
  <2>1. /\ UNCHANGED <<snapshot, kept, callback, queue, devices, handle, messages, port>>
        /\ context = "none" /\ context' = "ready"
        /\ refs' = [d \in Device |-> One(port[d] = "plugged")]
    BY <1>8 DEF BackendInit, hotplugVars, listVars, handleVars
  <2>2. ASSUME NEW d \in Device PROVE Lent(d) = 0 /\ Mine(d)' = One(port[d] = "plugged")
    <3>1. /\ snapshot = {} /\ kept = {} /\ callback = <<>> /\ queue = <<>> /\ messages = <<>>
          /\ devices[d] = 0
      BY <2>1 DEF BaseInv, ListInv, ContextInv, CallbackInv
    <3>2. {h \in Handle : handle[h] = d} = {}
      BY <2>1, DeviceAssumption DEF BaseInv, ContextInv
    <3>3. OpenHandles(d) = 0
      BY <3>2, FS_EmptySet DEF OpenHandles
    <3> QED
      BY <2>1, <3>1, <3>3, NotedNothing, Nothing DEF Lent, Mine, One
  <2>3. \A d \in Device : Lent(d)' = Lent(d)
    BY <1>5, <2>1
  <2>4. \A d \in Device : One(port[d] = "plugged") \in {0, 1}
    BY DEF One
  <2> QED
    BY <1>2, <2>1, <2>2, <2>3, <2>4
<1>9. CASE EventLoopBreak
  <2>1. /\ UNCHANGED <<snapshot, kept, callback, queue, devices, handle, messages, port, refs>>
        /\ context = "ready" /\ context' = "stopped"
    BY <1>9 DEF EventLoopBreak, hotplugVars, listVars, handleVars
  <2>2. \A d \in Device : Mine(d)' = Mine(d)
    BY <2>1 DEF Mine, In
  <2> QED
    BY <1>2, <1>5, <2>1, <2>2
<1>10. ASSUME NEW e \in Device, Arrive(e) PROVE RefInv'
  <2>1. /\ UNCHANGED <<snapshot, kept, callback, queue, devices, handle, context>>
        /\ context # "none" /\ port[e] = "never" /\ port' = [port EXCEPT ![e] = "plugged"]
        /\ messages' = Append(messages, <<"ARRIVED", e>>)
        /\ refs' = [d \in Device |-> refs[d] + One(d \in {e})]
    BY <1>10 DEF Arrive, Ref, hotplugVars, listVars, handleVars
  <2>2. ASSUME NEW d \in Device PROVE Mine(d)' = Mine(d) + One(d \in {e})
    <3>1. messages \in Seq(Note) /\ <<"ARRIVED", e>> \in Note /\ <<"LEFT", d>> \in Note
      BY DEF BaseInv, Types, Note, Event
    <3>2. In(messages', <<"LEFT", d>>) <=> In(messages, <<"LEFT", d>>)
      BY <2>1, <3>1, InAppend
    <3>3. port'[d] = IF d = e THEN "plugged" ELSE port[d]
      BY <2>1 DEF BaseInv, Types
    <3>4. d = e => ~In(messages, <<"LEFT", d>>)
      BY <2>1, <3>1 DEF PortInv
    <3>5. CASE d = e
      BY <2>1, <3>3, <3>4, <3>5 DEF Mine, One
    <3>6. CASE d # e
      BY <2>1, <3>2, <3>3, <3>6 DEF Mine, One
    <3> QED
      BY <3>5, <3>6
  <2>3. \A d \in Device : One(d \in {e}) \in {0, 1}
    BY DEF One
  <2> QED
    BY <1>2, <1>3, <1>5, <2>1, <2>2, <2>3
<1>11. ASSUME NEW e \in Device, Leave(e) PROVE RefInv'
  <2>1. /\ UNCHANGED <<snapshot, kept, callback, queue, devices, handle, context, refs>>
        /\ context # "none" /\ port[e] = "plugged" /\ port' = [port EXCEPT ![e] = "gone"]
        /\ messages' = Append(messages, <<"LEFT", e>>)
    BY <1>11 DEF Leave, hotplugVars, listVars, handleVars
  <2>2. ASSUME NEW d \in Device PROVE Mine(d)' = Mine(d)
    <3>1. messages \in Seq(Note) /\ <<"LEFT", e>> \in Note
      BY DEF BaseInv, Types, Note, Event
    <3>2. In(messages', <<"LEFT", d>>) <=> In(messages, <<"LEFT", d>>) \/ e = d
      BY <2>1, <3>1, InAppend
    <3>3. port'[d] = IF d = e THEN "gone" ELSE port[d]
      BY <2>1 DEF BaseInv, Types
    <3>4. CASE d = e
      BY <2>1, <3>2, <3>4 DEF Mine, One
    <3>5. CASE d # e
      BY <2>1, <3>2, <3>3, <3>5 DEF Mine, One
    <3> QED
      BY <3>4, <3>5
  <2> QED
    BY <1>2, <1>5, <2>1, <2>2
<1>12. CASE HotplugIgnore
  <2>1. /\ UNCHANGED <<snapshot, kept, callback, queue, devices, handle, context, port>>
        /\ context = "ready" /\ messages # <<>> /\ messages' = Tail(messages)
        /\ refs' = [d \in Device |->
                      refs[d] - One(d \in {x \in Device : Head(messages) = <<"LEFT", x>>})]
    BY <1>12 DEF HotplugIgnore, Processing, Processed, Unref, hotplugVars, listVars, handleVars
  <2>2. \A d \in Device : Mine(d)' = Mine(d) - One(Head(messages) = <<"LEFT", d>>)
    BY <2>1, MineProcessed
  <2>3. \A d \in Device : One(d \in {x \in Device : Head(messages) = <<"LEFT", x>>})
                            = One(Head(messages) = <<"LEFT", d>>)
    BY DEF One
  <2>4. \A d \in Device : One(Head(messages) = <<"LEFT", d>>) \in {0, 1}
    BY DEF One
  <2> QED
    BY <1>2, <1>3, <1>5, <2>1, <2>2, <2>3, <2>4
<1>13. CASE HotplugRef
  <2> DEFINE n == Head(messages)
  <2>1. /\ UNCHANGED <<snapshot, kept, queue, devices, handle, context, port, messages>>
        /\ callback = <<>> /\ callback' = <<n>> /\ messages # <<>>
        /\ refs' = [d \in Device |-> refs[d] + One(d \in {n[2]})]
    BY <1>13 DEF HotplugRef, Processing, Ref, libusbVars, listVars, handleVars
  <2>2. n \in Note
    BY <2>1, HeadTailProperties DEF BaseInv, Types
  <2>3. ASSUME NEW d \in Device PROVE Lent(d)' = Lent(d) + One(d \in {n[2]})
    <3>1. Noted(callback, d) = 0
      BY <2>1, NotedNothing
    <3>2. Noted(callback', d) = One(d = n[2])
      BY <2>1, <2>2, NotedSingle
    <3>3. One(d \in {n[2]}) = One(d = n[2]) /\ One(d = n[2]) \in {0, 1}
      BY DEF One
    <3>4. UNCHANGED <<OpenHandles(d), Noted(queue, d)>>
      BY <2>1 DEF OpenHandles, Noted, In
    <3>5. Noted(callback, d)' = Noted(callback', d)
      BY DEF Noted, In
    <3> HIDE DEF n
    <3> QED
      BY <2>1, <3>1, <3>2, <3>3, <3>4, <3>5, RefIs DEF Lent
  <2>4. \A d \in Device : One(d \in {n[2]}) \in {0, 1}
    BY DEF One
  <2> HIDE DEF n
  <2> QED
    BY <1>2, <1>3, <1>6, <2>1, <2>3, <2>4
<1>14. CASE HotplugPush
  <2> DEFINE n == Head(messages)
  <2>1. /\ UNCHANGED <<snapshot, kept, devices, handle, context, port>>
        /\ callback = <<n>> /\ callback' = <<>> /\ context = "ready" /\ messages # <<>>
        /\ messages' = Tail(messages) /\ queue' = queue \o <<n>>
        /\ refs' = [d \in Device |-> refs[d] - One(d \in {x \in Device : n = <<"LEFT", x>>})]
    <3>1. /\ callback = <<n>> /\ context = "ready" /\ messages # <<>>
      BY <1>14 DEF HotplugPush, BaseInv, CallbackInv
    <3>2. callback[1] = n
      BY <3>1
    <3> HIDE DEF n
    <3> QED
      BY <1>14, <3>1, <3>2 DEF HotplugPush, Processed, Unref, listVars, handleVars
  <2>2. n \in Note
    BY <2>1, HeadTailProperties DEF BaseInv, Types
  <2>3. ASSUME NEW d \in Device PROVE Lent(d)' = Lent(d)
    <3>1. Noted(callback, d) = One(d = n[2])
      BY <2>1, <2>2, NotedSingle
    <3>2. Noted(callback', d) = 0
      BY <2>1, NotedNothing
    <3>3. Noted(queue', d) = Noted(queue, d) + One(d = n[2])
      BY <2>1, NotedPushed
    <3>4. One(d = n[2]) \in {0, 1}
      BY DEF One
    <3>5. UNCHANGED OpenHandles(d)
      BY <2>1 DEF OpenHandles
    <3>6. Noted(callback, d)' = Noted(callback', d) /\ Noted(queue, d)' = Noted(queue', d)
      BY DEF Noted, In
    <3> HIDE DEF n
    <3> QED
      BY <2>1, <3>1, <3>2, <3>3, <3>4, <3>5, <3>6, RefIs DEF Lent
  <2>4. \A d \in Device : Mine(d)' = Mine(d) - One(n = <<"LEFT", d>>)
    BY <2>1, MineProcessed
  <2>5. \A d \in Device : One(d \in {x \in Device : n = <<"LEFT", x>>}) = One(n = <<"LEFT", d>>)
    BY DEF One
  <2>6. \A d \in Device : One(n = <<"LEFT", d>>) \in {0, 1}
    BY DEF One
  <2> HIDE DEF n
  <2>7. refs' = [d \in Device |-> refs[d] - One(n = <<"LEFT", d>>)]
    BY <2>1, <2>5
  <2> QED
    BY <1>2, <1>3, <2>3, <2>4, <2>6, <2>7
<1>15. CASE PollEvents
  <2>1. /\ UNCHANGED <<snapshot, kept, callback, handle, context, port, messages, refs>>
        /\ queue' = <<>> /\ devices' = [d \in Device |-> devices[d] + Noted(queue, d)]
    BY <1>15 DEF PollEvents, libusbVars, listVars, handleVars
  <2>2. ASSUME NEW d \in Device PROVE Lent(d)' = Lent(d)
    <3>1. Noted(queue', d) = 0
      BY <2>1, NotedNothing
    <3>2. UNCHANGED <<OpenHandles(d), Noted(callback, d), One(d \in snapshot), One(d \in kept)>>
      BY <2>1 DEF OpenHandles, Noted, In
    <3>3. Noted(queue, d)' = Noted(queue', d)
      BY DEF Noted, In
    <3>4. devices'[d] = devices[d] + Noted(queue, d)
      BY <2>1
    <3> QED
      BY <3>1, <3>2, <3>3, <3>4, RefIs DEF Lent
  <2> QED
    BY <1>2, <1>6, <2>1, <2>2
<1>16. CASE ListBegin
  <2>1. /\ UNCHANGED <<kept, callback, queue, devices, handle, context, port, messages>>
        /\ snapshot = {}
        /\ refs' = [d \in Device |-> refs[d] + One(d \in snapshot')]
    BY <1>16 DEF ListBegin, HostFree, Ref, libusbVars, hotplugVars, handleVars, BaseInv, ListInv
  <2>2. ASSUME NEW d \in Device PROVE Lent(d)' = Lent(d) + One(d \in snapshot')
    <3>1. One(d \in snapshot) = 0 /\ One(d \in snapshot') \in {0, 1}
      BY <2>1 DEF One
    <3>2. UNCHANGED <<OpenHandles(d), Noted(callback, d), Noted(queue, d)>>
      BY <2>1 DEF OpenHandles, Noted, In
    <3>3. One(d \in snapshot)' = One(d \in snapshot')
      OBVIOUS
    <3> QED
      BY <2>1, <3>1, <3>2, <3>3, RefIs DEF Lent
  <2>3. \A d \in Device : One(d \in snapshot') \in {0, 1}
    BY DEF One
  <2> QED
    BY <1>2, <1>3, <1>6, <2>1, <2>2, <2>3
<1>17. ASSUME NEW e \in Device, ListKeep(e) PROVE RefInv'
  <2>1. /\ UNCHANGED <<snapshot, callback, queue, devices, handle, context, port, messages>>
        /\ e \notin kept /\ kept' = kept \cup {e}
        /\ refs' = [d \in Device |-> refs[d] + One(d \in {e})]
    BY <1>17 DEF ListKeep, Ref, libusbVars, hotplugVars, handleVars
  <2>2. ASSUME NEW d \in Device PROVE Lent(d)' = Lent(d) + One(d \in {e})
    <3>1. One(d \in kept)' = One(d \in kept) + One(d \in {e}) /\ One(d \in {e}) \in {0, 1}
      BY <2>1 DEF One
    <3>2. UNCHANGED <<OpenHandles(d), Noted(callback, d), Noted(queue, d), One(d \in snapshot)>>
      BY <2>1 DEF OpenHandles, Noted, In
    <3> QED
      BY <2>1, <3>1, <3>2, RefIs DEF Lent
  <2>3. \A d \in Device : One(d \in {e}) \in {0, 1}
    BY DEF One
  <2> QED
    BY <1>2, <1>3, <1>6, <2>1, <2>2, <2>3
<1>18. CASE ListEnd
  <2>1. /\ UNCHANGED <<callback, queue, handle, context, port, messages>>
        /\ snapshot' = {} /\ kept' = {}
        /\ refs' = [d \in Device |-> refs[d] - One(d \in snapshot)]
        /\ devices' = [d \in Device |-> devices[d] + One(d \in kept)]
    BY <1>18 DEF ListEnd, Unref, libusbVars, hotplugVars, handleVars
  <2>2. ASSUME NEW d \in Device PROVE Lent(d)' = Lent(d) - One(d \in snapshot)
    <3>1. One(d \in snapshot)' = 0 /\ One(d \in kept)' = 0
      BY <2>1 DEF One
    <3>2. UNCHANGED <<OpenHandles(d), Noted(callback, d), Noted(queue, d)>>
      BY <2>1 DEF OpenHandles, Noted, In
    <3>3. devices'[d] = devices[d] + One(d \in kept)
      BY <2>1
    <3> QED
      BY <3>1, <3>2, <3>3, RefIs DEF Lent
  <2>3. \A d \in Device : One(d \in snapshot) \in {0, 1}
    BY DEF One
  <2> QED
    BY <1>2, <1>3, <1>6, <2>1, <2>2, <2>3
<1>19. ASSUME NEW e \in Device, DropDevice(e) PROVE RefInv'
  <2>1. /\ UNCHANGED <<snapshot, kept, callback, queue, handle, context, port, messages>>
        /\ devices' = [devices EXCEPT ![e] = @ - 1]
        /\ refs' = [d \in Device |-> refs[d] - One(d \in {e})]
    BY <1>19 DEF DropDevice, Unref, libusbVars, hotplugVars, listVars, handleVars
  <2>2. ASSUME NEW d \in Device PROVE Lent(d)' = Lent(d) - One(d \in {e})
    <3>1. devices'[d] = devices[d] - One(d \in {e}) /\ One(d \in {e}) \in {0, 1}
      BY <2>1 DEF BaseInv, Types, One
    <3>2. UNCHANGED <<OpenHandles(d), Noted(callback, d), Noted(queue, d), One(d \in snapshot),
                      One(d \in kept)>>
      BY <2>1 DEF OpenHandles, Noted, In
    <3> QED
      BY <3>1, <3>2, RefIs DEF Lent
  <2>3. \A d \in Device : One(d \in {e}) \in {0, 1}
    BY DEF One
  <2> QED
    BY <1>2, <1>3, <1>6, <2>1, <2>2, <2>3
<1>20. ASSUME NEW e \in Device, NEW h \in Handle, Open(e, h) PROVE RefInv'
  <2>1. /\ UNCHANGED <<snapshot, kept, callback, queue, devices, context, port, messages>>
        /\ handle[h] = None /\ handle' = [handle EXCEPT ![h] = e]
        /\ refs' = [d \in Device |-> refs[d] + One(d \in {e})]
    BY <1>20 DEF Open, Ref, libusbVars, hotplugVars, listVars
  <2>2. ASSUME NEW d \in Device PROVE Lent(d)' = Lent(d) + One(d \in {e})
    <3>1. OpenHandles(d)' = OpenHandles(d) + One(d = e)
      BY <2>1, OpenOpened
    <3>2. One(d = e) = One(d \in {e}) /\ One(d \in {e}) \in {0, 1}
      BY DEF One
    <3>3. UNCHANGED <<Noted(callback, d), Noted(queue, d), One(d \in snapshot), One(d \in kept)>>
      BY <2>1 DEF Noted, In
    <3> QED
      BY <2>1, <3>1, <3>2, <3>3, RefIs DEF Lent
  <2>3. \A d \in Device : One(d \in {e}) \in {0, 1}
    BY DEF One
  <2> QED
    BY <1>2, <1>3, <1>6, <2>1, <2>2, <2>3
<1>21. ASSUME NEW h \in Handle, DropHandle(h) PROVE RefInv'
  <2>1. /\ UNCHANGED <<snapshot, kept, callback, queue, devices, context, port, messages>>
        /\ handle[h] # None /\ handle' = [handle EXCEPT ![h] = None]
        /\ refs' = [d \in Device |-> refs[d] - One(d \in {handle[h]})]
    BY <1>21 DEF DropHandle, Unref, libusbVars, hotplugVars, listVars
  <2>2. ASSUME NEW d \in Device PROVE Lent(d)' = Lent(d) - One(d \in {handle[h]})
    <3>1. OpenHandles(d)' = OpenHandles(d) - One(d = handle[h])
      BY <2>1, OpenDropped
    <3>2. One(d = handle[h]) = One(d \in {handle[h]}) /\ One(d \in {handle[h]}) \in {0, 1}
      BY DEF One
    <3>3. UNCHANGED <<Noted(callback, d), Noted(queue, d), One(d \in snapshot), One(d \in kept)>>
      BY <2>1 DEF Noted, In
    <3> QED
      BY <2>1, <3>1, <3>2, <3>3, RefIs DEF Lent
  <2>3. \A d \in Device : One(d \in {handle[h]}) \in {0, 1}
    BY DEF One
  <2> QED
    BY <1>2, <1>3, <1>6, <2>1, <2>2, <2>3
<1> QED
  BY <1>7, <1>8, <1>9, <1>10, <1>11, <1>12, <1>13, <1>14, <1>15, <1>16, <1>17, <1>18, <1>19,
     <1>20, <1>21
     DEF Next, GuestCall, ListContinue, EventThread, vars, EnableHotplug, ClaimInterface,
     ReleaseInterface, Close, libusbVars, hotplugVars, listVars, handleVars

\* The first references are those of libusb.
LEMMA RefInit == Init => RefInv
<1> SUFFICES ASSUME Init PROVE RefInv
  OBVIOUS
<1>1. ASSUME NEW d \in Device
      PROVE  OpenHandles(d) = 0 /\ devices[d] = 0 /\ Noted(callback, d) = 0 /\ Noted(queue, d) = 0
  <2>1. {h \in Handle : handle[h] = d} = {}
    BY DeviceAssumption DEF Init
  <2>2. OpenHandles(d) = 0
    BY <2>1, FS_EmptySet DEF OpenHandles
  <2> QED
    BY <2>2, NotedNothing DEF Init
<1>2. ASSUME NEW d \in Device
      PROVE  /\ One(d \in snapshot) = 0 /\ One(d \in kept) = 0
             /\ Mine(d) = One(context = "ready" /\ port[d] = "plugged") /\ Mine(d) \in {0, 1}
  BY Nothing DEF Init, Mine, One
<1>3. refs = [d \in Device |-> One(context = "ready" /\ port[d] = "plugged")]
  BY DEF Init
<1> QED
  BY <1>1, <1>2, <1>3 DEF RefInv

\* RefInv is inductive.
LEMMA RefAlways == Spec => []RefInv
  BY RefInit, RefStep, BaseAlways, LogAlways, PTL DEF Spec

\* What libusb owns can be read from the count itself, as Own does.
LEMMA RefsSuffice == BaseInv /\ RefInv => RefsAccounted /\ refs \in [Device -> Nat]
<1> SUFFICES ASSUME BaseInv, RefInv PROVE RefsAccounted /\ refs \in [Device -> Nat]
  OBVIOUS
<1>1. refs = [d \in Device |-> Mine(d) + Lent(d)]
  BY RefIs
<1>2. ASSUME NEW d \in Device PROVE Mine(d) = Own(d)
  <2>1. CASE context = "none"
    <3>1. /\ snapshot = {} /\ kept = {} /\ callback = <<>> /\ queue = <<>> /\ devices[d] = 0
      BY <2>1 DEF BaseInv, ListInv, ContextInv, CallbackInv
    <3>2. {h \in Handle : handle[h] = d} = {}
      BY <2>1, DeviceAssumption DEF BaseInv, ContextInv
    <3>3. OpenHandles(d) = 0
      BY <3>2, FS_EmptySet DEF OpenHandles
    <3>4. Mine(d) = 0 /\ Lent(d) = 0
      BY <2>1, <3>1, <3>3, NotedNothing DEF Lent, Mine, One
    <3>5. refs[d] = 0
      BY <1>1, <3>4
    <3> QED
      BY <3>4, <3>5 DEF Own, One
  <2>2. CASE context # "none"
    <3>1. CASE port[d] = "plugged" \/ In(messages, <<"LEFT", d>>)
      <4>1. Mine(d) = 1
        BY <2>2, <3>1 DEF Mine, One
      <4>2. refs[d] > 0
        BY <1>1, <4>1, RefIs
      <4> QED
        BY <3>1, <4>1, <4>2 DEF Own, One
    <3>2. CASE ~(port[d] = "plugged" \/ In(messages, <<"LEFT", d>>))
      BY <3>2 DEF Mine, Own, One
    <3> QED
      BY <3>1, <3>2
  <2> QED
    BY <2>1, <2>2
<1>3. RefsAccounted
  <2> SUFFICES ASSUME NEW d \in Device
               PROVE  refs[d] = Own(d) + One(d \in snapshot) + One(d \in kept)
                        + Noted(callback, d) + Noted(queue, d) + devices[d] + OpenHandles(d)
    BY DEF RefsAccounted
  <2>1. refs[d] = Mine(d) + Lent(d)
    BY <1>1
  <2> QED
    BY <1>2, <2>1, RefIs DEF Lent
<1>4. refs \in [Device -> Nat]
  BY <1>1, RefIs
<1> QED
  BY <1>3, <1>4

\* libusb's count of every device is the number of its owners, whatever the
\* guest, the bus and the callback do and in whatever order.
THEOREM RefsCorrect == Spec => []RefsAccounted
  BY RefAlways, BaseAlways, RefsSuffice, PTL

\* The types, among them that no reference count goes below zero.
THEOREM TypeCorrect == Spec => []TypeOK
<1>1. BaseInv => Len(callback) <= 1
  <2>1. BaseInv => callback = <<>> \/ callback = <<Head(messages)>>
    BY DEF BaseInv, CallbackInv
  <2>2. Len(<<>>) <= 1 /\ Len(<<Head(messages)>>) <= 1
    OBVIOUS
  <2> QED
    BY <2>1, <2>2
<1>2. BaseInv /\ RefInv => TypeOK
  BY <1>1, RefsSuffice DEF BaseInv, Types, TypeOK
<1> QED
  BY <1>2, RefAlways, BaseAlways, PTL
=============================================================================
