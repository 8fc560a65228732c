---------------------------- MODULE WebcamProofs ----------------------------
(***************************************************************************)
(* Proofs about Webcam, for any cameras, frames of any number of parts and *)
(* transfers of any number of packets.  The handshake: what the guest      *)
(* commits is what the camera answered, and the packets it asks for are    *)
(* those of the largest alternate setting.  The capture: the guest finds   *)
(* every packet, and the frame it puts together is in order, and whole     *)
(* when nothing of it or of the next was missed.                           *)
(***************************************************************************)
EXTENDS Webcam, TransferLayoutProofs, SequenceTheorems, WellFoundedInduction, TLAPS

-----------------------------------------------------------------------------
(* The choice of the alternate setting *)

\* A set of numbers has a least one.
LEMMA Least ==
  ASSUME NEW T, T \subseteq Nat, T # {}
  PROVE  \E x \in T : \A y \in T : x <= y
<1>1. PICK x \in T : \A y \in T : ~(<<y, x>> \in OpToRel(<, Nat))
  BY NatLessThanWellFounded, WFMin
<1>2. \A y \in T : ~(y < x)
  BY <1>1 DEF OpToRel
<1> QED
  BY <1>2

\* The most a wMaxPacketSize can say: 2047 bytes four times.
MaxEffective == 8188

\* Two bits multiply eleven.
LEMMA EffectiveType ==
  ASSUME NEW mps \in Nat
  PROVE  Effective(mps) \in Nat /\ Effective(mps) <= MaxEffective
<1> DEFINE base == mps % 2048
           mult == (mps \div 2048) % 4
<1>1. base \in Nat /\ base <= 2047 /\ mult \in 0 .. 3
  OBVIOUS
<1>2. Effective(mps) = base * (1 + mult)
  BY DEF Effective
<1> HIDE DEF base, mult
<1>3. \/ 1 + mult = 1 \/ 1 + mult = 2 \/ 1 + mult = 3 \/ 1 + mult = 4
  BY <1>1
<1> QED
  BY <1>1, <1>2, <1>3 DEF MaxEffective

\* A sequence of bounded numbers has a first largest one.
LEMMA FirstLargest ==
  ASSUME NEW n \in Nat \ {0}, NEW most \in Nat, NEW size \in [1 .. n -> 0 .. most]
  PROVE  \E best \in 1 .. n :
           /\ \A other \in 1 .. n : size[other] <= size[best]
           /\ \A other \in 1 .. best - 1 : size[other] < size[best]
<1> DEFINE Short == {most - size[alt] : alt \in 1 .. n}
           Largest == {alt \in 1 .. n : \A other \in 1 .. n : size[other] <= size[alt]}
<1>1. Short \subseteq Nat /\ most - size[1] \in Short
  OBVIOUS
<1>2. \E least \in Short : \A short \in Short : least <= short
  <2> HIDE DEF Short
  <2> QED
    BY <1>1, Least
<1>3. PICK alt \in 1 .. n : \A other \in 1 .. n : most - size[alt] <= most - size[other]
  BY <1>2
<1>4. alt \in Largest /\ Largest \subseteq Nat
  BY <1>3
<1>5. \E first \in Largest : \A other \in Largest : first <= other
  <2> HIDE DEF Largest
  <2> QED
    BY <1>4, Least
<1>6. PICK first \in Largest : \A other \in Largest : first <= other
  BY <1>5
<1>7. ASSUME NEW other \in 1 .. first - 1 PROVE size[other] < size[first]
  <2>1. other \in 1 .. n /\ other \notin Largest
    BY <1>6, <1>7
  <2>2. PICK more \in 1 .. n : size[more] > size[other]
    BY <2>1
  <2> QED
    BY <1>6, <2>1, <2>2
<1> QED
  BY <1>6, <1>7

\* Best is one of the largest: open_uvc_stream finds the alternate setting.
LEMMA BestIsLargest ==
  ASSUME NEW sizes \in Seq(Nat), sizes # <<>>
  PROVE  /\ Best(sizes) \in DOMAIN sizes
         /\ \A other \in DOMAIN sizes : Effective(sizes[other]) <= Effective(sizes[Best(sizes)])
<1> DEFINE n == Len(sizes)
           size == [alt \in 1 .. n |-> Effective(sizes[alt])]
<1>1. n \in Nat \ {0} /\ DOMAIN sizes = 1 .. n
  OBVIOUS
<1>2. ASSUME NEW alt \in 1 .. n PROVE Effective(sizes[alt]) \in Nat /\ Effective(sizes[alt]) <= MaxEffective
  <2>1. sizes[alt] \in Nat
    BY <1>1
  <2> QED
    BY <2>1, EffectiveType, Zenon
<1>3. MaxEffective \in Nat /\ size \in [1 .. n -> 0 .. MaxEffective]
  <2>1. MaxEffective \in Nat
    BY DEF MaxEffective
  <2>2. \A alt \in 1 .. n : Effective(sizes[alt]) \in 0 .. MaxEffective
    BY <1>2, <2>1
  <2> QED
    BY <2>1, <2>2
<1>4. \E best \in 1 .. n :
        /\ \A other \in 1 .. n : size[other] <= size[best]
        /\ \A other \in 1 .. best - 1 : size[other] < size[best]
  <2> HIDE DEF n, size
  <2> QED
    BY <1>1, <1>3, FirstLargest
<1>5. \E best \in DOMAIN sizes :
        /\ \A other \in DOMAIN sizes : Effective(sizes[other]) <= Effective(sizes[best])
        /\ \A other \in 1 .. best - 1 : Effective(sizes[other]) < Effective(sizes[best])
  <2>1. PICK best \in 1 .. n :
          /\ \A other \in 1 .. n : size[other] <= size[best]
          /\ \A other \in 1 .. best - 1 : size[other] < size[best]
    BY <1>4
  <2>2. \A other \in 1 .. n : size[other] = Effective(sizes[other])
    OBVIOUS
  <2>3. \A other \in 1 .. best - 1 : other \in 1 .. n
    BY <1>1
  <2> QED
    BY <1>1, <2>1, <2>2, <2>3, Zenon
<1> QED
  BY <1>5 DEF Best

-----------------------------------------------------------------------------
(* The handshake *)

\* What a control of the camera may hold.
Controls == {<<>>} \cup ({"other", "mjpeg"} \X BOOLEAN)

\* What each step of open_uvc_stream has achieved.
HandshakeInv ==
  /\ endpoints \in EndpointSets
  /\ camera \in [probe : Controls, commit : Controls, alt : Nat]
  /\ probe \in Controls
  /\ phase \notin {"open", "failed"} =>
       endpoints # <<>> /\ stride = Effective(endpoints[Best(endpoints)])
  /\ phase = "commit" => probe \in {<<>>, camera.probe}
  /\ phase \in {"awb", "alt", "prompt", "capture"} => camera.commit \in {<<>>, camera.probe}
  /\ phase \in {"prompt", "capture"} => camera.alt = Best(endpoints)

\* Nothing has been negotiated yet.
LEMMA HandshakeInit == Init => HandshakeInv
<1> SUFFICES ASSUME Init PROVE HandshakeInv
  OBVIOUS
<1>1. camera \in [probe : Controls, commit : Controls, alt : Nat] /\ probe \in Controls
  BY DEF Init, Controls
<1> QED
  BY <1>1 DEF Init, HandshakeInv

\* Each call of the handshake adds its part, and captures change none.
LEMMA HandshakeStep == HandshakeInv /\ [Next]_vars => HandshakeInv'
<1> SUFFICES ASSUME HandshakeInv, [Next]_vars PROVE HandshakeInv'
  OBVIOUS
<1> USE DEF HandshakeInv, handshakeVars, captureVars
<1>1. CASE Open
  <2>1. UNCHANGED <<endpoints, camera, probe>>
    BY <1>1 DEF Open
  <2>2. phase' \in {"probe", "failed"}
    BY <1>1 DEF Open, Call
  <2>3. phase' = "probe" => endpoints # <<>> /\ stride' = Effective(endpoints[Best(endpoints)])
    BY <1>1 DEF Open
  <2> QED
    BY <2>1, <2>2, <2>3
<1>2. CASE GetProbe
  <2>1. probe' \in Controls
    <3>1. <<"mjpeg", FALSE>> \in {"other", "mjpeg"} \X BOOLEAN
      BY Zenon
    <3> QED
      BY <1>2, <3>1, Zenon DEF GetProbe, Controls
  <2> QED
    BY <1>2, <2>1 DEF GetProbe, Call
<1>3. CASE SetProbe
  <2>1. PICK tuned \in BOOLEAN :
          camera' = [camera EXCEPT !.probe = IF probe = <<>> THEN @ ELSE <<probe[1], tuned>>]
    BY <1>3 DEF SetProbe
  <2>2. camera' \in [probe : Controls, commit : Controls, alt : Nat]
    BY <2>1 DEF Controls
  <2> QED
    BY <1>3, <2>2 DEF SetProbe, Call
<1>4. CASE GetNegotiated
  BY <1>4 DEF GetNegotiated, Call, Negotiated, Controls
<1>5. CASE Commit
  BY <1>5 DEF Commit, Call
<1>6. CASE EnableAwb
  BY <1>6 DEF EnableAwb
<1>7. CASE SetAltsetting
  <2>1. endpoints \in Seq(Nat) /\ endpoints # <<>>
    BY <1>7, WebcamAssumption DEF SetAltsetting, Call
  <2>2. Best(endpoints) \in Nat
    BY <2>1, BestIsLargest
  <2> QED
    BY <1>7, <2>2 DEF SetAltsetting, Call
<1>8. CASE Prompt \/ Miss \/ Transfer \/ TransferFails
  <2>1. /\ UNCHANGED handshakeVars
        /\ phase \in {"prompt", "capture"} /\ phase' \in {"prompt", "capture"}
    BY <1>8 DEF Prompt, Miss, Transfer, TransferFails
  <2> QED
    BY <2>1
<1>9. CASE UNCHANGED vars
  BY <1>9 DEF vars
<1> QED
  BY <1>1, <1>2, <1>3, <1>4, <1>5, <1>6, <1>7, <1>8, <1>9 DEF Next

\* The camera streams as it answered, and the guest asks for packets as large
\* as those of the alternate setting in use, the largest: open_uvc_stream, for
\* every set of alternate settings.
THEOREM CommitCorrect == Spec => []CommitAsNegotiated
<1>1. HandshakeInv => CommitAsNegotiated
  <2> SUFFICES ASSUME HandshakeInv, phase \in {"prompt", "capture"}
               PROVE  /\ camera.commit \in {<<>>, camera.probe}
                      /\ stride = Effective(endpoints[camera.alt])
                      /\ \A alt \in DOMAIN endpoints : Effective(endpoints[alt]) <= stride
    BY DEF CommitAsNegotiated
  <2>1. endpoints \in Seq(Nat) /\ endpoints # <<>>
    BY WebcamAssumption DEF HandshakeInv
  <2> QED
    BY <2>1, BestIsLargest DEF HandshakeInv
<1> QED
  BY <1>1, HandshakeInit, HandshakeStep, PTL DEF Spec

-----------------------------------------------------------------------------
(* Parts of frames *)

\* The parts a buffer is made of, and the parts the camera may be about to send
Items  == [frame : Nat, part : 1 .. Parts, whole : BOOLEAN]
Places == [frame : Nat, part : 1 .. LastPart]

Behind(pos, item) == item.frame < pos.frame \/ (item.frame = pos.frame /\ item.part < pos.part)

\* The first n parts of frame f, as the camera sent them
Exactly(f, n) == [p \in 1 .. n |-> [frame |-> f, part |-> p, whole |-> TRUE]]

\* How many parts of frame f, or of one before it, the camera has sent
Seen(f, pos) == IF pos.frame = f /\ pos.part <= Parts THEN pos.part - 1 ELSE Parts

OneId(data, fid) == \A i \in 1 .. Len(data) : data[i].frame % 2 = fid

Ordered(data) ==
  \A i \in 1 .. Len(data) - 1 :
    \/ data[i + 1].frame = data[i].frame /\ data[i + 1].part > data[i].part
    \/ data[i + 1].frame > data[i].frame

\* What is collected from the first part of a frame on is the frame so far,
\* unless something of it or of the next has been missed: the first packet of
\* the next has another frame id, so it was not taken for one of this.
Gapless(data, pos, lost) ==
  LET f == data[1].frame IN
  data # <<>> /\ data[1].part = 1 /\ f \notin lost /\ f + 1 \notin lost =>
    /\ pos.frame = f \/ (pos.frame = f + 1 /\ pos.part = 1)
    /\ data = Exactly(f, Seen(f, pos))

\* What the reassembly buffer holds when the camera is at pos
Tidy(data, fid, pos, lost) ==
  /\ data \in Seq(Items)
  /\ \A i \in 1 .. Len(data) : Behind(pos, data[i])
  /\ OneId(data, fid) /\ Ordered(data)
  /\ Gapless(data, pos, lost)

States == [buffer : Seq(Items), fid : {0, 1}, started : BOOLEAN]

StateOK(st, pos, lost) ==
  /\ st \in States
  /\ st.buffer # <<>> => st.started
  /\ Tidy(st.buffer, st.fid, pos, lost)

\* A frame that has been captured
Taken(data, lost) ==
  /\ data \in Seq(Items) /\ data # <<>> /\ Ordered(data)
  /\ \E fid \in {0, 1} : OneId(data, fid)
  /\ LET f == data[1].frame IN
     f \notin lost /\ f + 1 \notin lost => data = Exactly(f, Parts)

LEMMA PartsType == Parts \in Nat \ {0} /\ NumPackets \in Nat \ {0} /\ Attempts \in Nat \ {0}
  BY WebcamAssumption

\* Two frames in a row have different ids.
LEMMA Toggles == ASSUME NEW f \in Nat PROVE f % 2 \in {0, 1} /\ f % 2 # (f + 1) % 2
  OBVIOUS

\* The camera goes on to the next part.
LEMMA AfterLater ==
  ASSUME NEW pos \in Places
  PROVE  /\ After(pos) \in Places
         /\ \A item \in Items : Behind(pos, item) => Behind(After(pos), item)
         /\ \A item \in Items : item.frame = pos.frame /\ item.part = pos.part =>
                                  Behind(After(pos), item)
         /\ After(pos).frame \in {pos.frame, pos.frame + 1}
         /\ After(pos).frame = pos.frame => After(pos).part = pos.part + 1
         /\ After(pos).frame # pos.frame => After(pos).part = 1 /\ pos.part = LastPart
<1>1. LastPart \in Nat \ {0}
  BY PartsType DEF LastPart
<1>2. pos.frame \in Nat /\ pos.part \in 1 .. LastPart
  BY DEF Places
<1>3. CASE pos.part = LastPart
  <2>1. After(pos) = [frame |-> pos.frame + 1, part |-> 1]
    BY <1>3 DEF After
  <2> QED
    BY <1>1, <1>2, <1>3, <2>1 DEF Places, Behind, Items
<1>4. CASE pos.part # LastPart
  <2>1. After(pos) = [pos EXCEPT !.part = @ + 1]
    BY <1>4 DEF After
  <2>2. After(pos).frame = pos.frame /\ After(pos).part = pos.part + 1
    BY <2>1 DEF Places
  <2>3. After(pos) \in Places
    BY <1>1, <1>2, <1>4, <2>1 DEF Places
  <2> QED
    BY <1>1, <1>2, <1>4, <2>2, <2>3 DEF Behind, Items
<1> QED
  BY <1>3, <1>4

\* More may be missed.
LEMMA TidyWithMore ==
  ASSUME NEW data, NEW fid, NEW pos, NEW lost, Tidy(data, fid, pos, lost),
         NEW more, lost \subseteq more
  PROVE  Tidy(data, fid, pos, more)
  BY DEF Tidy, Gapless

\* A part of a frame may be missed.
LEMMA TidyMissed ==
  ASSUME NEW data, NEW fid, NEW pos \in Places, NEW lost, Tidy(data, fid, pos, lost),
         NEW more, lost \subseteq more, pos.frame \in more
  PROVE  Tidy(data, fid, After(pos), more)
<1>1. data \in Seq(Items) /\ \A i \in 1 .. Len(data) : data[i] \in Items /\ Behind(pos, data[i])
  BY ElementOfSeq DEF Tidy
<1>2. \A i \in 1 .. Len(data) : Behind(After(pos), data[i])
  BY <1>1, AfterLater
<1>3. Gapless(data, After(pos), more)
  BY DEF Tidy, Gapless
<1> QED
  BY <1>1, <1>2, <1>3 DEF Tidy

LEMMA TakenWithMore ==
  ASSUME NEW data, NEW lost, Taken(data, lost), NEW more, lost \subseteq more
  PROVE  Taken(data, more)
  BY DEF Taken

\* A buffer that has the first part of a frame and ends with the last is whole,
\* if nothing was missed.
LEMMA TidyTaken ==
  ASSUME NEW data, NEW fid \in {0, 1}, NEW pos \in Places, NEW lost,
         Tidy(data, fid, pos, lost), IsCompleteJpeg(data)
  PROVE  Taken(data, lost)
<1> DEFINE f == data[1].frame
           n == Seen(f, pos)
<1>1. data \in Seq(Items) /\ data # <<>> /\ data[1].part = 1 /\ data[Len(data)].part = Parts
  BY HeadTailProperties DEF Tidy, IsCompleteJpeg, Last
<1>2. ASSUME f \notin lost, f + 1 \notin lost PROVE data = Exactly(f, Parts)
  <2>1. data = Exactly(f, n)
    BY <1>1, <1>2 DEF Tidy, Gapless
  <2>2. n \in Nat
    BY PartsType DEF Seen, Places
  <2>3. Len(data) \in Nat \ {0} /\ DOMAIN data = 1 .. Len(data)
    BY <1>1, EmptySeq, LenProperties
  <2> HIDE DEF f, n
  <2>4. DOMAIN data = 1 .. n
    BY <2>1 DEF Exactly
  <2>5. Len(data) = n
    <3>1. \A k, l \in Nat : (1 .. k) = (1 .. l) => k <= l
      <4> SUFFICES ASSUME NEW k \in Nat, NEW l \in Nat, (1 .. k) = (1 .. l), k > l PROVE FALSE
        OBVIOUS
      <4>1. k \in 1 .. k
        OBVIOUS
      <4> QED
        BY <4>1
    <3>2. Len(data) <= n /\ n <= Len(data)
      BY <2>2, <2>3, <2>4, <3>1, Zenon
    <3>3. \A k, l \in Nat : k <= l /\ l <= k => k = l
      OBVIOUS
    <3>4. Len(data) \in Nat
      BY <2>3
    <3> QED
      BY <2>2, <3>2, <3>3, <3>4, Zenon
  <2>6. data[n].part = n
    BY <2>1, <2>2, <2>3, <2>5 DEF Exactly
  <2> QED
    BY <1>1, <2>1, <2>5, <2>6
<1> QED
  BY <1>1, <1>2 DEF Taken, Tidy

\* The part the camera sends at pos
Part(kind, pos) == [frame |-> pos.frame, part |-> pos.part, whole |-> kind = "whole"]

LEMMA Payload ==
  ASSUME NEW pos \in Places, NEW kind \in {"whole", "cut"}
  PROVE  /\ pos.part <= Parts => /\ Packet(kind, pos).payload = <<Part(kind, pos)>>
                                /\ Part(kind, pos) \in Items
         /\ ~(pos.part <= Parts) => Packet(kind, pos).payload = <<>> /\ pos.part = LastPart
<1>1. pos.frame \in Nat /\ pos.part \in 1 .. LastPart
  BY DEF Places
<1>2. pos.part <= Parts => Part(kind, pos) \in Items
  BY <1>1, PartsType DEF Part, Items
<1>3. ~(pos.part <= Parts) => pos.part = LastPart
  BY <1>1, PartsType DEF LastPart
<1> QED
  BY <1>2, <1>3 DEF Packet, Part

\* One more part of the frame has been sent.
LEMMA SeenGrows ==
  ASSUME NEW pos \in Places, pos.part <= Parts
  PROVE  Seen(pos.frame, After(pos)) = pos.part
<1> DEFINE then == After(pos)
<1>1. pos.frame \in Nat /\ pos.part \in 1 .. LastPart /\ Parts \in Nat /\ LastPart \in {Parts, Parts + 1}
  BY PartsType DEF Places, LastPart
<1>2. /\ then.frame \in {pos.frame, pos.frame + 1}
      /\ then.frame = pos.frame => then.part = pos.part + 1
      /\ then.frame # pos.frame => pos.part = LastPart
  BY AfterLater
<1>3. CASE then.frame = pos.frame
  BY <1>1, <1>2, <1>3 DEF Seen
<1>4. CASE then.frame # pos.frame
  BY <1>1, <1>2, <1>4 DEF Seen
<1> QED
  BY <1>3, <1>4

LEMMA ExactlyGrows ==
  ASSUME NEW f, NEW p \in Nat \ {0}
  PROVE  Append(Exactly(f, p - 1), [frame |-> f, part |-> p, whole |-> TRUE]) = Exactly(f, p)
<1> DEFINE Whole(q) == [frame |-> f, part |-> q, whole |-> TRUE]
           S == {Whole(q) : q \in Nat}
           s == [q \in 1 .. p - 1 |-> Whole(q)]
           t == [q \in 1 .. p |-> Whole(q)]
<1>1. Exactly(f, p - 1) = s /\ Exactly(f, p) = t
  BY DEF Exactly
<1>2. s \in Seq(S) /\ Len(s) = p - 1 /\ t \in Seq(S) /\ Len(t) = p
  <2> DEFINE n == p - 1
  <2>1. n \in Nat /\ p \in Nat
    OBVIOUS
  <2>2. \A q \in Nat : Whole(q) \in S
    OBVIOUS
  <2> HIDE DEF Whole, S, n
  <2>3. [q \in 1 .. n |-> Whole(q)] \in Seq(S) /\ [q \in 1 .. p |-> Whole(q)] \in Seq(S)
    BY <2>1, <2>2, IsASeq
  <2>4. Len([q \in 1 .. n |-> Whole(q)]) = n /\ Len([q \in 1 .. p |-> Whole(q)]) = p
    BY <2>1
  <2> QED
    BY <2>3, <2>4 DEF n
<1>3. Whole(p) \in S
  OBVIOUS
<1>4. /\ \A q \in 1 .. p - 1 : s[q] = Whole(q)
      /\ \A q \in 1 .. p : t[q] = Whole(q)
  OBVIOUS
<1> HIDE DEF Whole, S, s, t
<1> DEFINE u == Append(s, Whole(p))
<1>5. /\ u \in Seq(S) /\ Len(u) = Len(s) + 1
      /\ \A q \in 1 .. Len(s) : u[q] = s[q]
      /\ u[Len(s) + 1] = Whole(p)
  BY <1>2, <1>3, AppendProperties
<1> HIDE DEF u
<1>6. Len(u) = p /\ u[p] = Whole(p)
  BY <1>2, <1>5
<1>7. \A q \in 1 .. Len(u) : u[q] = t[q]
  <2> TAKE q \in 1 .. Len(u)
  <2>1. CASE q = p
    BY <1>4, <1>6, <2>1
  <2>2. CASE q # p
    <3>1. q \in 1 .. p - 1 /\ q \in 1 .. p
      BY <1>6, <2>2
    <3> QED
      BY <1>2, <1>4, <1>5, <3>1, Zenon
  <2> QED
    BY <2>1, <2>2
<1>8. u = t
  BY <1>2, <1>5, <1>6, <1>7, SeqEqual
<1> QED
  BY <1>1, <1>8 DEF u, Whole

\* Nothing is in order.
LEMMA TidyEmpty == ASSUME NEW fid, NEW pos, NEW lost PROVE Tidy(<<>>, fid, pos, lost)
  BY EmptySeq DEF Tidy, OneId, Ordered, Gapless

\* A frame begins.
LEMMA TidyFirst ==
  ASSUME NEW pos \in Places, NEW kind \in {"whole", "cut"}, NEW more,
         kind = "cut" => pos.frame \in more, pos.part <= Parts
  PROVE  Tidy(<<Part(kind, pos)>>, pos.frame % 2, After(pos), more)
<1> DEFINE item == Part(kind, pos)
           data == <<item>>
<1>1. item \in Items
  BY Payload
<1>2. item.frame = pos.frame /\ item.part = pos.part
  BY DEF Part
<1>3. data \in Seq(Items) /\ Len(data) = 1 /\ data[1] = item
  <2> HIDE DEF item
  <2> QED
    BY <1>1
<1>4. Behind(After(pos), item)
  BY <1>1, <1>2, AfterLater
<1>5. ASSUME item.part = 1, item.frame \notin more, item.frame + 1 \notin more
      PROVE  /\ After(pos).frame = item.frame \/ (After(pos).frame = item.frame + 1 /\ After(pos).part = 1)
             /\ data = Exactly(item.frame, Seen(item.frame, After(pos)))
  <2>1. Seen(item.frame, After(pos)) = 1
    BY <1>2, <1>5, SeenGrows
  <2>2. kind = "whole" /\ item = [frame |-> pos.frame, part |-> 1, whole |-> TRUE]
    BY <1>2, <1>5 DEF Part
  <2>3. data = Exactly(pos.frame, 1)
    <3>1. \A x : <<x>> = [p \in 1 .. 1 |-> x]
      OBVIOUS
    <3>2. [p \in 1 .. 1 |-> item] = [p \in 1 .. 1 |-> [frame |-> pos.frame, part |-> p, whole |-> TRUE]]
      <4>1. \A p \in 1 .. 1 : item = [frame |-> pos.frame, part |-> p, whole |-> TRUE]
        BY <2>2
      <4> HIDE DEF item
      <4> QED
        BY <4>1
    <3> QED
      BY <3>1, <3>2, Zenon DEF Exactly
  <2> QED
    BY <1>2, <2>1, <2>3, AfterLater
<1> HIDE DEF item, data
<1>6. OneId(data, pos.frame % 2) /\ Ordered(data)
  BY <1>2, <1>3 DEF OneId, Ordered
<1>7. Gapless(data, After(pos), more)
  BY <1>3, <1>5 DEF Gapless
<1> QED
  BY <1>3, <1>4, <1>6, <1>7 DEF Tidy, data, item

\* A part joins those before it.  When the camera has just begun the frame after
\* theirs, the frame id keeps it away.
LEMMA TidyNext ==
  ASSUME NEW data, NEW pos \in Places, NEW lost, Tidy(data, pos.frame % 2, pos, lost),
         data # <<>>, NEW kind \in {"whole", "cut"}, NEW more, lost \subseteq more,
         kind = "cut" => pos.frame \in more, pos.part <= Parts
  PROVE  Tidy(Append(data, Part(kind, pos)), pos.frame % 2, After(pos), more)
<1> DEFINE item == Part(kind, pos)
           grown == Append(data, item)
           n == Len(data)
<1>1. item \in Items /\ data \in Seq(Items)
  BY Payload DEF Tidy
<1>2. item.frame = pos.frame /\ item.part = pos.part
  BY DEF Part
<1>3. n \in Nat \ {0} /\ \A i \in 1 .. n : data[i] \in Items
  BY <1>1, ElementOfSeq, EmptySeq
<1> HIDE DEF item, n
<1>4. /\ grown \in Seq(Items) /\ grown # <<>> /\ Len(grown) = n + 1
      /\ \A i \in 1 .. n : grown[i] = data[i]
      /\ grown[n + 1] = item
  BY <1>1, AppendProperties DEF n
<1>5. /\ \A i \in 1 .. n : Behind(pos, data[i]) /\ data[i].frame % 2 = pos.frame % 2
      /\ Ordered(data) /\ Gapless(data, pos, lost)
  BY DEF Tidy, OneId, n
<1> HIDE DEF grown
<1>6. \A i \in 1 .. n + 1 : i \in 1 .. n \/ i = n + 1
  BY <1>3
<1>7. \A i \in 1 .. n + 1 : Behind(After(pos), grown[i])
  <2>1. \A i \in 1 .. n : Behind(After(pos), data[i])
    BY <1>3, <1>5, AfterLater
  <2>2. Behind(After(pos), item)
    BY <1>1, <1>2, AfterLater
  <2> QED
    BY <1>4, <1>6, <2>1, <2>2, Zenon
<1>8. OneId(grown, pos.frame % 2)
  <2>1. \A i \in 1 .. n + 1 : grown[i].frame % 2 = pos.frame % 2
    <3>1. ASSUME NEW i \in 1 .. n PROVE grown[i].frame % 2 = pos.frame % 2
      BY <1>4, <1>5
    <3>2. grown[n + 1].frame % 2 = pos.frame % 2
      BY <1>2, <1>4
    <3> QED
      BY <1>6, <3>1, <3>2, Zenon
  <2> QED
    BY <1>4, <2>1 DEF OneId
<1>9. Ordered(grown)
  <2> SUFFICES ASSUME NEW i \in 1 .. n
               PROVE  \/ grown[i + 1].frame = grown[i].frame /\ grown[i + 1].part > grown[i].part
                      \/ grown[i + 1].frame > grown[i].frame
    BY <1>3, <1>4 DEF Ordered
  <2>1. CASE i = n
    <3>1. grown[i] = data[n] /\ grown[i + 1] = item /\ n \in 1 .. n
      BY <1>3, <1>4, <2>1
    <3>2. Behind(pos, data[n]) /\ data[n] \in Items
      BY <1>3, <1>5, <3>1
    <3> QED
      BY <1>1, <1>2, <3>1, <3>2 DEF Behind, Items
  <2>2. CASE i # n
    <3>1. i \in 1 .. n - 1 /\ i \in 1 .. n /\ i + 1 \in 1 .. n
      BY <1>3, <2>2
    <3>2. grown[i] = data[i] /\ grown[i + 1] = data[i + 1]
      BY <1>4, <3>1
    <3> QED
      BY <1>5, <3>1, <3>2 DEF Ordered, n
  <2> QED
    BY <2>1, <2>2
<1>10. Gapless(grown, After(pos), more)
  <2> DEFINE f == data[1].frame
  <2>1. 1 \in 1 .. n /\ grown[1] = data[1] /\ f \in Nat
    BY <1>3, <1>4 DEF Items
  <2> SUFFICES ASSUME data[1].part = 1, f \notin more, f + 1 \notin more
               PROVE  /\ After(pos).frame = f \/ (After(pos).frame = f + 1 /\ After(pos).part = 1)
                      /\ grown = Exactly(f, Seen(f, After(pos)))
    BY <2>1 DEF Gapless
  <2>2. /\ pos.frame = f \/ pos.frame = f + 1
        /\ data = Exactly(f, Seen(f, pos))
    BY <1>5 DEF Gapless
  <2>3. f % 2 = pos.frame % 2
    BY <1>5, <2>1
  <2> HIDE DEF f
  <2>4. pos.frame = f
    BY <2>1, <2>2, <2>3, Toggles
  <2>5. Seen(f, pos) = pos.part - 1 /\ Seen(f, After(pos)) = pos.part
    BY <2>4, SeenGrows DEF Seen
  <2>6. kind = "whole" /\ item = [frame |-> f, part |-> pos.part, whole |-> TRUE]
    BY <2>4 DEF item, Part
  <2>7. grown = Exactly(f, pos.part)
    <3>1. pos.part \in Nat \ {0}
      BY DEF Places
    <3> QED
      BY <2>2, <2>5, <2>6, <3>1, ExactlyGrows DEF grown
  <2> QED
    BY <2>4, <2>5, <2>7, AfterLater
<1> QED
  BY <1>4, <1>7, <1>8, <1>9, <1>10 DEF Tidy, grown, item

\* The packet that only marks the end brings nothing.
LEMMA TidyEnd ==
  ASSUME NEW data, NEW pos \in Places, NEW lost, Tidy(data, pos.frame % 2, pos, lost),
         NEW more, lost \subseteq more, ~(pos.part <= Parts)
  PROVE  Tidy(data, pos.frame % 2, After(pos), more)
<1>1. data \in Seq(Items) /\ \A i \in 1 .. Len(data) : data[i] \in Items /\ Behind(pos, data[i])
  BY ElementOfSeq DEF Tidy
<1>2. \A i \in 1 .. Len(data) : Behind(After(pos), data[i])
  BY <1>1, AfterLater
<1>3. Gapless(data, After(pos), more)
  <2> DEFINE f == data[1].frame
  <2> SUFFICES ASSUME data # <<>>, data[1].part = 1, f \notin more, f + 1 \notin more
               PROVE  /\ After(pos).frame = f \/ (After(pos).frame = f + 1 /\ After(pos).part = 1)
                      /\ data = Exactly(f, Seen(f, After(pos)))
    BY DEF Gapless
  <2>1. /\ pos.frame = f \/ pos.frame = f + 1
        /\ data = Exactly(f, Seen(f, pos))
    BY DEF Tidy, Gapless
  <2>2. 1 \in 1 .. Len(data)
    BY <1>1, EmptySeq
  <2>3. f \in Nat /\ f % 2 = pos.frame % 2
    BY <1>1, <2>2 DEF Tidy, OneId, Items
  <2> HIDE DEF f
  <2>4. pos.frame = f
    BY <2>1, <2>3, Toggles
  <2>5. pos.part = LastPart
    BY Payload
  <2>6. After(pos).frame = f + 1 /\ After(pos).part = 1
    BY <2>4, <2>5 DEF After
  <2>7. Seen(f, pos) = Parts /\ Seen(f, After(pos)) = Parts
    BY <2>3, <2>4, <2>6 DEF Seen
  <2> QED
    BY <2>1, <2>6, <2>7
<1> QED
  BY <1>1, <1>2, <1>3 DEF Tidy

\* A valid packet that carries a part, or the end of the frame
LEMMA TidyGrown ==
  ASSUME NEW data, NEW pos \in Places, NEW lost, Tidy(data, pos.frame % 2, pos, lost),
         NEW kind \in {"whole", "cut"}, NEW more, lost \subseteq more,
         kind = "cut" => pos.frame \in more
  PROVE  Tidy(data \o Packet(kind, pos).payload, pos.frame % 2, After(pos), more)
<1>1. data \in Seq(Items)
  BY DEF Tidy
<1>2. CASE ~(pos.part <= Parts)
  <2>1. data \o Packet(kind, pos).payload = data
    BY <1>1, <1>2, Payload, ConcatEmptySeq
  <2> QED
    BY <1>2, <2>1, TidyEnd
<1>3. CASE pos.part <= Parts
  <2>1. Packet(kind, pos).payload = <<Part(kind, pos)>> /\ Part(kind, pos) \in Items
    BY <1>3, Payload
  <2>2. data \o <<Part(kind, pos)>> = Append(data, Part(kind, pos))
    BY <1>1, <2>1, AppendIsConcat
  <2>3. CASE data = <<>>
    <3>1. Append(data, Part(kind, pos)) = <<Part(kind, pos)>>
      BY <2>3
    <3> QED
      BY <1>3, <2>1, <2>2, <3>1, TidyFirst
  <2>4. CASE data # <<>>
    BY <1>3, <2>1, <2>2, <2>4, TidyNext
  <2> QED
    BY <2>3, <2>4
<1> QED
  BY <1>2, <1>3

-----------------------------------------------------------------------------
(* One packet *)

Valid == {"whole", "cut", "header"}

\* Where the camera is after a packet
Later(kind, pos) == IF kind \in {"empty", "header"} THEN pos ELSE After(pos)

LEMMA Grown ==
  ASSUME NEW data, NEW pos \in Places, NEW lost, Tidy(data, pos.frame % 2, pos, lost),
         NEW kind \in Valid, NEW more, lost \subseteq more, kind = "cut" => pos.frame \in more
  PROVE  Tidy(data \o Packet(kind, pos).payload, pos.frame % 2, Later(kind, pos), more)
<1>1. CASE kind = "header"
  <2>1. Packet(kind, pos).payload = <<>>
    BY <1>1 DEF Packet
  <2>2. data \o <<>> = data
    BY ConcatEmptySeq DEF Tidy
  <2> QED
    BY <1>1, <2>1, <2>2, TidyWithMore DEF Later
<1>2. CASE kind # "header"
  BY <1>2, TidyGrown DEF Valid, Later
<1> QED
  BY <1>1, <1>2

\* What a valid packet does to the buffer, and the frame it may complete
LEMMA ReassembleOK ==
  ASSUME NEW st, NEW pos \in Places, NEW lost, StateOK(st, pos, lost),
         NEW kind \in Valid, NEW more, lost \subseteq more, kind = "cut" => pos.frame \in more
  PROVE  LET next == Reassemble(st, Packet(kind, pos)) IN
         /\ StateOK(next[1], Later(kind, pos), more)
         /\ IsCompleteJpeg(next[2]) => Taken(next[2], more)
<1> DEFINE packet  == Packet(kind, pos)
           fid     == pos.frame % 2
           then    == Later(kind, pos)
           brought == packet.payload
           started == st.started \/ brought # <<>>
           grown   == IF started THEN st.buffer \o brought ELSE st.buffer
           next    == Reassemble(st, packet)
<1>1. fid \in {0, 1} /\ packet.fid = fid /\ then \in Places
  BY AfterLater, Toggles DEF Packet, Later, Places
<1>2. /\ st.fid \in {0, 1} /\ st.started \in BOOLEAN /\ st.buffer \in Seq(Items)
      /\ st.buffer # <<>> => st.started
      /\ Tidy(st.buffer, st.fid, pos, lost)
  BY DEF StateOK, States
<1>3. Tidy(<<>> \o brought, fid, then, more) /\ Tidy(brought, fid, then, more) /\ brought \in Seq(Items)
  <2>1. \/ brought = <<>>
        \/ brought = <<Part(kind, pos)>> /\ Part(kind, pos) \in Items
    BY Payload DEF Valid, Packet
  <2>2. brought \in Seq(Items) /\ <<>> \o brought = brought
    <3>1. <<>> \in Seq(Items)
      OBVIOUS
    <3>2. \A item \in Items : <<item>> \in Seq(Items)
      OBVIOUS
    <3>3. brought \in Seq(Items)
      BY <2>1, <3>1, <3>2, Zenon
    <3> HIDE DEF brought
    <3> QED
      BY <3>3, ConcatEmptySeq
  <2>3. Tidy(<<>> \o brought, fid, then, more)
    BY Grown, TidyEmpty
  <2> QED
    BY <2>2, <2>3
<1>4. CASE Toggled(st, packet)
  <2>1. next = <<[buffer |-> brought, fid |-> packet.fid, started |-> TRUE], st.buffer>>
    BY <1>4 DEF Reassemble
  <2>2. StateOK([buffer |-> brought, fid |-> fid, started |-> TRUE], then, more)
    <3> HIDE DEF brought, fid, then
    <3> QED
      BY <1>1, <1>3 DEF StateOK, States
  <2>3. IsCompleteJpeg(st.buffer) => Taken(st.buffer, more)
    BY <1>2, TidyWithMore, TidyTaken
  <2>4. next[1] = [buffer |-> brought, fid |-> fid, started |-> TRUE] /\ next[2] = st.buffer
    BY <1>1, <2>1
  <2> QED
    BY <2>2, <2>3, <2>4
<1>5. CASE ~Toggled(st, packet)
  <2>1. Tidy(st.buffer, fid, pos, lost)
    BY <1>1, <1>2, <1>5, TidyEmpty DEF Toggled
  <2>2. Tidy(st.buffer \o brought, fid, then, more)
    BY <2>1, Grown
  <2>3. grown = st.buffer \o brought /\ (grown # <<>> => started)
    <3>1. CASE started
      BY <3>1
    <3>2. CASE ~started
      <4>1. st.buffer = <<>> /\ brought = <<>>
        BY <1>2, <3>2
      <4>2. st.buffer \o brought = <<>>
        BY <1>2, <4>1, ConcatEmptySeq
      <4> QED
        BY <3>2, <4>1, <4>2
    <3> QED
      BY <3>1, <3>2
  <2>4. Tidy(grown, fid, then, more) /\ started \in BOOLEAN
    BY <1>2, <2>2, <2>3
  <2>5. CASE Ended(started, grown, packet)
    <3>1. next = <<[buffer |-> <<>>, fid |-> packet.fid, started |-> FALSE], grown>>
      BY <1>5, <2>5 DEF Reassemble
    <3>2. StateOK([buffer |-> <<>>, fid |-> fid, started |-> FALSE], then, more)
      <4> HIDE DEF fid, then
      <4> QED
        BY <1>1, TidyEmpty DEF StateOK, States
    <3>3. IsCompleteJpeg(grown) => Taken(grown, more)
      <4> HIDE DEF grown, fid, then
      <4> QED
        BY <1>1, <2>4, TidyTaken
    <3>4. next[1] = [buffer |-> <<>>, fid |-> fid, started |-> FALSE] /\ next[2] = grown
      BY <1>1, <3>1
    <3> QED
      BY <3>2, <3>3, <3>4
  <2>6. CASE ~Ended(started, grown, packet)
    <3>1. next = <<[buffer |-> grown, fid |-> packet.fid, started |-> started], <<>>>>
      BY <1>5, <2>6 DEF Reassemble
    <3>2. StateOK([buffer |-> grown, fid |-> fid, started |-> started], then, more)
      <4> HIDE DEF grown, started, fid, then
      <4> QED
        BY <1>1, <2>3, <2>4 DEF StateOK, States, Tidy
    <3>3. ~IsCompleteJpeg(<<>>)
      BY DEF IsCompleteJpeg
    <3>4. next[1] = [buffer |-> grown, fid |-> fid, started |-> started] /\ next[2] = <<>>
      BY <1>1, <3>1
    <3> QED
      BY <3>2, <3>3, <3>4
  <2> QED
    BY <2>5, <2>6
<1> QED
  BY <1>4, <1>5

-----------------------------------------------------------------------------
(* The recursive functions of a transfer *)

\* What holds of 0, and of each number when it holds of the one before, holds
\* up to n.
LEMMA UpTo ==
  ASSUME NEW n \in Nat, NEW T, 0 \in T, \A i \in 1 .. n : i - 1 \in T => i \in T
  PROVE  \A i \in 0 .. n : i \in T
<1> DEFINE Bad == {i \in 0 .. n : i \notin T}
<1>1. CASE Bad = {}
  BY <1>1
<1>2. CASE Bad # {}
  <2>1. \E least \in Bad : \A bad \in Bad : least <= bad
    <3>1. Bad \subseteq Nat
      OBVIOUS
    <3> HIDE DEF Bad
    <3> QED
      BY <1>2, <3>1, Least
  <2>2. PICK least \in Bad : \A bad \in Bad : least <= bad
    BY <2>1
  <2>3. least \in 1 .. n /\ least \notin T
    BY <2>2
  <2>4. least - 1 \in 0 .. n /\ ~(least <= least - 1)
    BY <2>3
  <2>5. least - 1 \in T
    BY <2>2, <2>4
  <2> QED
    BY <2>3, <2>5
<1> QED
  BY <1>1, <1>2

\* Track is the function its equation says.
LEMMA TrackDef ==
  ASSUME NEW kinds
  PROVE  Track(kinds) = [i \in 0 .. NumPackets |->
           IF i = 0 THEN position
           ELSE IF kinds[i] \in {"empty", "header"} THEN Track(kinds)[i - 1]
                ELSE After(Track(kinds)[i - 1])]
<1> DEFINE Next1(i, pos) == IF kinds[i] \in {"empty", "header"} THEN pos ELSE After(pos)
           Of(n, f) == [i \in 0 .. n |-> IF i = 0 THEN position ELSE Next1(i, f[i - 1])]
           T == {n \in Nat : \E f : f = Of(n, f)}
<1>1. 0 \in T
  <2> DEFINE f == [i \in 0 .. 0 |-> position]
  <2>1. \A i \in 0 .. 0 : i = 0
    OBVIOUS
  <2>2. f = Of(0, f)
    BY <2>1, Zenon
  <2> HIDE DEF f, Of
  <2> QED
    BY <2>2
<1>2. ASSUME NEW n \in 1 .. NumPackets, n - 1 \in T PROVE n \in T
  <2> HIDE DEF Next1
  <2>1. PICK f : f = Of(n - 1, f)
    BY <1>2
  <2> DEFINE g == [i \in 0 .. n |-> IF i = n THEN Next1(n, f[n - 1]) ELSE f[i]]
  <2>2. \A i \in 0 .. n : g[i] = IF i = 0 THEN position ELSE Next1(i, g[i - 1])
    <3> TAKE i \in 0 .. n
    <3>1. CASE i = n
      BY <3>1
    <3>2. CASE i # n /\ i # 0
      <4>1. i \in 0 .. n - 1 /\ i - 1 \in 0 .. n /\ i - 1 # n
        BY <3>2
      <4>2. f[i] = Next1(i, f[i - 1])
        BY <2>1, <3>2, <4>1
      <4> QED
        BY <3>2, <4>1, <4>2
    <3>3. CASE i # n /\ i = 0
      <4>1. 0 \in 0 .. n - 1
        BY <3>3
      <4> QED
        BY <2>1, <3>3, <4>1
    <3> QED
      BY <3>1, <3>2, <3>3
  <2>3. g = Of(n, g) /\ n \in Nat
    BY <2>2
  <2> HIDE DEF g, Of
  <2> QED
    BY <2>3
<1>3. NumPackets \in T
  <2> HIDE DEF T
  <2> QED
    BY <1>1, <1>2, UpTo, PartsType
<1>4. \E f : f = Of(NumPackets, f)
  BY <1>3
<1>5. Track(kinds) = CHOOSE f : f = Of(NumPackets, f)
  BY DEF Track
<1> HIDE DEF Of
<1>6. Track(kinds) = Of(NumPackets, Track(kinds))
  BY <1>4, <1>5
<1> QED
  BY <1>6 DEF Of

\* So is Walk.
LEMMA WalkDef ==
  ASSUME NEW packets
  PROVE  Walk(packets) = [i \in 0 .. NumPackets |->
           IF i = 0
           THEN [state |-> state, offset |-> 0, out |-> {}, left |-> {}, strayed |-> strayed]
           ELSE Visit(packets, i, Walk(packets)[i - 1])]
<1> DEFINE First == [state |-> state, offset |-> 0, out |-> {}, left |-> {}, strayed |-> strayed]
           Next1(i, acc) == Visit(packets, i, acc)
           Of(n, f) == [i \in 0 .. n |-> IF i = 0 THEN First ELSE Next1(i, f[i - 1])]
           T == {n \in Nat : \E f : f = Of(n, f)}
<1>1. 0 \in T
  <2> DEFINE f == [i \in 0 .. 0 |-> First]
  <2>1. \A i \in 0 .. 0 : i = 0
    OBVIOUS
  <2>2. f = Of(0, f)
    BY <2>1, Zenon
  <2> HIDE DEF f, Of
  <2> QED
    BY <2>2
<1>2. ASSUME NEW n \in 1 .. NumPackets, n - 1 \in T PROVE n \in T
  <2> HIDE DEF Next1, First
  <2>1. PICK f : f = Of(n - 1, f)
    BY <1>2
  <2> DEFINE g == [i \in 0 .. n |-> IF i = n THEN Next1(n, f[n - 1]) ELSE f[i]]
  <2>2. \A i \in 0 .. n : g[i] = IF i = 0 THEN First ELSE Next1(i, g[i - 1])
    <3> TAKE i \in 0 .. n
    <3>1. CASE i = n
      BY <3>1
    <3>2. CASE i # n /\ i # 0
      <4>1. i \in 0 .. n - 1 /\ i - 1 \in 0 .. n /\ i - 1 # n
        BY <3>2
      <4>2. f[i] = Next1(i, f[i - 1])
        BY <2>1, <3>2, <4>1
      <4> QED
        BY <3>2, <4>1, <4>2
    <3>3. CASE i # n /\ i = 0
      <4>1. 0 \in 0 .. n - 1
        BY <3>3
      <4> QED
        BY <2>1, <3>3, <4>1
    <3> QED
      BY <3>1, <3>2, <3>3
  <2>3. g = Of(n, g) /\ n \in Nat
    BY <2>2
  <2> HIDE DEF g, Of
  <2> QED
    BY <2>3
<1>3. NumPackets \in T
  <2> HIDE DEF T
  <2> QED
    BY <1>1, <1>2, UpTo, PartsType
<1>4. \E f : f = Of(NumPackets, f)
  BY <1>3
<1>5. Walk(packets) = CHOOSE f : f = Of(NumPackets, f)
  BY DEF Walk
<1> HIDE DEF Of
<1>6. Walk(packets) = Of(NumPackets, Walk(packets))
  BY <1>4, <1>5
<1> QED
  BY <1>6 DEF Of

\* The camera's way through a transfer
LEMMA TrackFacts ==
  ASSUME NEW kinds, position \in Places
  PROVE  /\ Track(kinds)[0] = position
         /\ \A i \in 1 .. NumPackets : Track(kinds)[i] = Later(kinds[i], Track(kinds)[i - 1])
         /\ \A i \in 0 .. NumPackets : Track(kinds)[i] \in Places
<1> DEFINE at == Track(kinds)
           T == {i \in Nat : at[i] \in Places}
<1>1. at = [i \in 0 .. NumPackets |->
              IF i = 0 THEN position
              ELSE IF kinds[i] \in {"empty", "header"} THEN at[i - 1] ELSE After(at[i - 1])]
  BY TrackDef
<1> HIDE DEF at
<1>2. at[0] = position
  <2>1. 0 \in 0 .. NumPackets
    BY PartsType
  <2> QED
    BY <1>1, <2>1, Zenon
<1>3. \A i \in 1 .. NumPackets : at[i] = Later(kinds[i], at[i - 1])
  <2> TAKE i \in 1 .. NumPackets
  <2>1. i \in 0 .. NumPackets /\ i # 0
    BY PartsType
  <2> QED
    BY <1>1, <2>1, Zenon DEF Later
<1>4. 0 \in T
  BY <1>2
<1>5. \A i \in 1 .. NumPackets : i - 1 \in T => i \in T
  <2> SUFFICES ASSUME NEW i \in 1 .. NumPackets, at[i - 1] \in Places PROVE at[i] \in Places /\ i \in Nat
    OBVIOUS
  <2>1. Later(kinds[i], at[i - 1]) \in Places
    BY AfterLater DEF Later
  <2> QED
    BY <1>3, <2>1
<1>6. \A i \in 0 .. NumPackets : i \in T
  <2> HIDE DEF T
  <2> QED
    BY <1>4, <1>5, UpTo, PartsType
<1> QED
  BY <1>2, <1>3, <1>6 DEF at

-----------------------------------------------------------------------------
(* One round of the loop over the packets *)

Accs == [state : States, offset : Nat, out : SUBSET Seq(Items), left : SUBSET Nat, strayed : {FALSE}]

\* What the loop has found when it has visited i packets and the camera has
\* gone on to pos
AccOK(acc, pos, i, lost) ==
  /\ acc \in Accs
  /\ acc.out = {} => acc.offset = i * stride
  /\ StateOK(acc.state, pos, lost \cup acc.left)
  /\ \A data \in acc.out : Taken(data, lost \cup acc.left)

\* A packet the guest does not use leaves the buffer as it is.
LEMMA StateStays ==
  ASSUME NEW st, NEW pos \in Places, NEW lost, StateOK(st, pos, lost),
         NEW kind, NEW more, lost \subseteq more,
         Later(kind, pos) = pos \/ pos.frame \in more
  PROVE  StateOK(st, Later(kind, pos), more)
<1>1. Tidy(st.buffer, st.fid, pos, lost)
  BY DEF StateOK
<1>2. Tidy(st.buffer, st.fid, Later(kind, pos), more)
  <2>1. CASE Later(kind, pos) = pos
    BY <1>1, <2>1, TidyWithMore
  <2>2. CASE Later(kind, pos) # pos
    <3>1. Later(kind, pos) = After(pos)
      BY <2>2 DEF Later
    <3> QED
      BY <1>1, <2>2, <3>1, TidyMissed
  <2> QED
    BY <2>1, <2>2
<1> QED
  BY <1>2 DEF StateOK

\* Where the guest looks for a packet that is not empty lies that packet, and
\* no other: the strides of the loop and the lengths of new_transfer agree.
LEMMA FoundHere ==
  ASSUME stride \in Nat \ {0}, NEW packets, DOMAIN packets = 1 .. NumPackets,
         Len(packets) = NumPackets, NEW i \in 1 .. NumPackets
  PROVE  Found(packets, (i - 1) * stride) = {packets[i]}
<1>1. \A j \in 1 .. NumPackets :
        PacketOffset(NumPackets * stride, NumPackets, j - 1) = (j - 1) * stride
  <2> TAKE j \in 1 .. NumPackets
  <2>1. j - 1 \in 0 .. NumPackets - 1
    BY PartsType
  <2>2. StrideFinds(stride, NumPackets)
    BY PartsType, GuestFindsItsPackets
  <2> QED
    BY <2>1, <2>2 DEF StrideFinds
<1>2. \A j \in 1 .. NumPackets : (j - 1) * stride = (i - 1) * stride <=> j = i
  <2>1. \A a, b, s \in Nat : s > 0 /\ a < b => a * s < b * s
    <3> SUFFICES ASSUME NEW a \in Nat, NEW b \in Nat, NEW s \in Nat, s > 0, a < b
                 PROVE  a * s < b * s
      OBVIOUS
    <3>1. b * s = (a * s) + ((b - a) * s)
      OBVIOUS
    <3>2. (b - a) * s > 0 /\ a * s \in Nat
      OBVIOUS
    <3> QED
      BY <3>1, <3>2
  <2> TAKE j \in 1 .. NumPackets
  <2>2. j - 1 \in Nat /\ i - 1 \in Nat /\ stride \in Nat /\ stride > 0
    BY PartsType
  <2>3. CASE j < i
    <3>1. (j - 1) * stride < (i - 1) * stride
      BY <2>1, <2>2, <2>3
    <3> QED
      BY <2>2, <2>3, <3>1
  <2>4. CASE i < j
    <3>1. (i - 1) * stride < (j - 1) * stride
      BY <2>1, <2>2, <2>4
    <3> QED
      BY <2>2, <2>4, <3>1
  <2>5. CASE i = j
    BY <2>5
  <2> QED
    BY <2>2, <2>3, <2>4, <2>5
<1>3. {j \in DOMAIN packets : PacketOffset(Len(packets) * stride, Len(packets), j - 1) = (i - 1) * stride} = {i}
  BY <1>1, <1>2
<1> QED
  BY <1>3, Zenon DEF Found

\* The assignments of a round: a packet that comes too late, the next offset,
\* the packet put together with the others
Late(acc, left)          == [acc EXCEPT !.left = left]
Moved(acc, offset, left) == [acc EXCEPT !.offset = offset, !.left = left]
Joined(acc, st, out)     == [acc EXCEPT !.state = st, !.out = out]

LEMMA Assignments ==
  /\ \A acc \in Accs, left \in SUBSET Nat :
       /\ Late(acc, left) \in Accs /\ Late(acc, left).left = left
       /\ Late(acc, left).state = acc.state /\ Late(acc, left).offset = acc.offset
       /\ Late(acc, left).out = acc.out
  /\ \A acc \in Accs, offset \in Nat, left \in SUBSET Nat :
       /\ Moved(acc, offset, left) \in Accs
       /\ Moved(acc, offset, left).offset = offset /\ Moved(acc, offset, left).left = left
       /\ Moved(acc, offset, left).state = acc.state /\ Moved(acc, offset, left).out = acc.out
  /\ \A acc \in Accs, st \in States, out \in SUBSET Seq(Items) :
       /\ Joined(acc, st, out) \in Accs
       /\ Joined(acc, st, out).state = st /\ Joined(acc, st, out).out = out
       /\ Joined(acc, st, out).offset = acc.offset /\ Joined(acc, st, out).left = acc.left
<1>1. ASSUME NEW acc \in Accs, NEW left \in SUBSET Nat
      PROVE  /\ Late(acc, left) \in Accs /\ Late(acc, left).left = left
             /\ Late(acc, left).state = acc.state /\ Late(acc, left).offset = acc.offset
             /\ Late(acc, left).out = acc.out
  BY DEF Late, Accs
<1>2. ASSUME NEW acc \in Accs, NEW offset \in Nat, NEW left \in SUBSET Nat
      PROVE  /\ Moved(acc, offset, left) \in Accs
             /\ Moved(acc, offset, left).offset = offset /\ Moved(acc, offset, left).left = left
             /\ Moved(acc, offset, left).state = acc.state /\ Moved(acc, offset, left).out = acc.out
  BY DEF Moved, Accs
<1>3. ASSUME NEW acc \in Accs, NEW st \in States, NEW out \in SUBSET Seq(Items)
      PROVE  /\ Joined(acc, st, out) \in Accs
             /\ Joined(acc, st, out).state = st /\ Joined(acc, st, out).out = out
             /\ Joined(acc, st, out).offset = acc.offset /\ Joined(acc, st, out).left = acc.left
  BY DEF Joined, Accs
<1> QED
  BY <1>1, <1>2, <1>3, Zenon

LEMMA PacketFields ==
  ASSUME NEW pos \in Places, NEW kind
  PROVE  /\ kind = "empty" => Packet(kind, pos).length = 0
         /\ kind # "empty" => Packet(kind, pos).length > 0 /\ Packet(kind, pos).length # 0
         /\ kind \in Valid => Packet(kind, pos).valid
         /\ kind \notin Valid => ~Packet(kind, pos).valid
         /\ kind \in {"cut", "broken"} => Packet(kind, pos).misses
         /\ Packet(kind, pos).frame = pos.frame /\ pos.frame \in Nat
<1>1. Packet(kind, pos).length = IF kind = "empty" THEN 0 ELSE 1
  BY DEF Packet
<1>2. Packet(kind, pos).valid = (kind \in Valid)
  BY DEF Packet, Valid
<1>3. Packet(kind, pos).misses = (kind \in {"cut", "broken"})
  BY DEF Packet
<1>4. Packet(kind, pos).frame = pos.frame /\ pos.frame \in Nat
  BY DEF Packet, Places
<1>5. 1 > 0 /\ 1 # 0
  OBVIOUS
<1> QED
  BY <1>1, <1>2, <1>3, <1>4, <1>5, Zenon

\* A round keeps the loop right, whatever the packet is.
LEMMA VisitOK ==
  ASSUME stride \in Nat, NEW lost, NEW packets, DOMAIN packets = 1 .. NumPackets,
         Len(packets) = NumPackets, NEW i \in 1 .. NumPackets,
         NEW kind \in PacketKinds, NEW pos \in Places, packets[i] = Packet(kind, pos),
         NEW acc, AccOK(acc, pos, i - 1, lost)
  PROVE  AccOK(Visit(packets, i, acc), Later(kind, pos), i, lost)
<1> DEFINE packet == Packet(kind, pos)
           st     == acc.state
           offset == acc.offset
           out    == acc.out
           left   == acc.left
           more   == IF packet.misses THEN left \cup {packet.frame} ELSE left
           all    == left \cup {packet.frame}
           next   == Reassemble(st, packet)
           then   == Later(kind, pos)
           now    == Visit(packets, i, acc)
<1> SUFFICES AccOK(now, then, i, lost)
  OBVIOUS
<1>1. /\ kind = "empty" => packet.length = 0
      /\ kind # "empty" => packet.length > 0 /\ packet.length # 0
      /\ kind \in Valid => packet.valid
      /\ kind \notin Valid => ~packet.valid
      /\ kind \in {"cut", "broken"} => packet.misses
      /\ packet.frame = pos.frame /\ pos.frame \in Nat
  BY PacketFields
<1>2. /\ kind \in {"whole", "cut", "header", "broken", "empty"}
      /\ kind # "empty" => stride # 0
  BY DEF PacketKinds
<1>3. /\ acc \in Accs
      /\ st \in States /\ offset \in Nat /\ out \in SUBSET Seq(Items) /\ left \in SUBSET Nat
      /\ out = {} => offset = (i - 1) * stride
      /\ StateOK(st, pos, lost \cup left)
      /\ \A data \in out : Taken(data, lost \cup left)
  BY DEF AccOK, Accs
<1>4. offset + stride \in Nat /\ (out = {} => offset + stride = i * stride)
  <2>1. \A k \in Nat \ {0}, s \in Nat : ((k - 1) * s) + s = k * s
    OBVIOUS
  <2>2. i \in Nat \ {0}
    BY PartsType
  <2> QED
    BY <1>3, <2>1, <2>2
<1>5. left \subseteq more /\ more \in SUBSET Nat /\ all \in SUBSET Nat /\ left \subseteq all
  BY <1>1, <1>3
<1>6. CASE out # {}
  <2>1. now = Late(acc, all)
    BY <1>6 DEF Visit, Late
  <2>2. StateOK(st, then, lost \cup all)
    BY <1>1, <1>3, StateStays
  <2>3. \A data \in out : Taken(data, lost \cup all)
    BY <1>3, TakenWithMore
  <2>4. /\ now \in Accs /\ now.left = all
        /\ now.state = st /\ now.offset = offset /\ now.out = out
    <3> HIDE DEF all, packet, now
    <3> QED
      BY <1>3, <1>5, <2>1, Assignments
  <2> HIDE DEF st, offset, out, left, all, then, now, packet
  <2> QED
    BY <1>6, <2>2, <2>3, <2>4 DEF AccOK
<1>7. CASE out = {}
  <2> DEFINE moved == Moved(acc, offset + stride, more)
  <2>1. /\ moved \in Accs /\ moved.offset = offset + stride /\ moved.left = more
        /\ moved.state = st /\ moved.out = {}
    <3> DEFINE past == offset + stride
    <3>1. past \in Nat /\ more \in SUBSET Nat
      BY <1>4, <1>5
    <3> HIDE DEF more, packet, past
    <3>2. /\ Moved(acc, past, more) \in Accs
          /\ Moved(acc, past, more).offset = past /\ Moved(acc, past, more).left = more
          /\ Moved(acc, past, more).state = st /\ Moved(acc, past, more).out = out
      BY <1>3, <3>1, Assignments
    <3> QED
      BY <1>7, <3>2 DEF past
  <2>2. CASE kind = "empty" \/ kind \notin Valid
    <3>1. now = moved
      <4>1. CASE kind = "empty"
        BY <1>1, <1>7, <4>1 DEF Visit, Past, Moved
      <4>2. CASE kind # "empty"
        <5>1. kind \notin Valid /\ ~packet.valid /\ packet.length > 0
          BY <1>1, <2>2, <4>2
        <5>2. Found(packets, offset) = {packet}
          BY <1>2, <1>3, <1>7, <4>2, FoundHere
        <5> QED
          BY <1>7, <5>1, <5>2 DEF Visit, Past, Moved
      <4> QED
        BY <4>1, <4>2
    <3>2. then = pos \/ pos.frame \in lost \cup more
      BY <1>1, <1>2, <2>2 DEF Later, Valid
    <3>3. StateOK(st, then, lost \cup more)
      BY <1>3, <1>5, <3>2, StateStays
    <3> HIDE DEF st, offset, out, left, more, then, now, packet, moved
    <3> QED
      BY <1>4, <1>7, <2>1, <3>1, <3>3 DEF AccOK
  <2>3. CASE kind # "empty" /\ kind \in Valid
    <3> DEFINE done == IF IsCompleteJpeg(next[2]) THEN {next[2]} ELSE {}
    <3>1. now = Joined(moved, next[1], done)
      <4>1. packet.valid /\ packet.length > 0 /\ packet.length # 0
        BY <1>1, <2>3
      <4>2. Found(packets, offset) = {packet}
        BY <1>2, <1>3, <1>7, <2>3, FoundHere
      <4> QED
        BY <1>7, <4>1, <4>2 DEF Visit, Past, Moved, Joined
    <3>3. /\ StateOK(next[1], then, lost \cup more)
          /\ IsCompleteJpeg(next[2]) => Taken(next[2], lost \cup more)
      <4>1. kind = "cut" => pos.frame \in lost \cup more
        BY <1>1
      <4> HIDE DEF st, left, more
      <4> QED
        BY <1>3, <1>5, <2>3, <4>1, ReassembleOK
    <3>4. done \in SUBSET Seq(Items) /\ \A data \in done : Taken(data, lost \cup more)
      BY <3>3 DEF Taken
    <3>5. /\ now \in Accs /\ now.state = next[1] /\ now.out = done
          /\ now.offset = offset + stride /\ now.left = more
      <4>1. next[1] \in States
        BY <3>3 DEF StateOK
      <4> HIDE DEF next, done, moved, packet, offset, st, left, more, now
      <4> QED
        BY <2>1, <3>1, <3>4, <4>1, Assignments
    <3> HIDE DEF st, offset, out, left, more, then, now, packet, moved, next, done
    <3> QED
      BY <1>4, <1>7, <3>3, <3>4, <3>5 DEF AccOK
  <2> QED
    BY <2>2, <2>3
<1> QED
  BY <1>6, <1>7

\* The whole loop, over the packets of any transfer
LEMMA WalkOK ==
  ASSUME stride \in Nat, position \in Places, strayed = FALSE, StateOK(state, position, missed),
         NEW kinds \in [1 .. NumPackets -> PacketKinds]
  PROVE  /\ AccOK(Walk(Sent(kinds))[NumPackets], Track(kinds)[NumPackets], NumPackets, missed)
         /\ Track(kinds)[NumPackets] \in Places
<1> DEFINE at      == Track(kinds)
           packets == Sent(kinds)
           round   == Walk(packets)
           First   == [state |-> state, offset |-> 0, out |-> {}, left |-> {}, strayed |-> strayed]
           T       == {i \in Nat : AccOK(round[i], at[i], i, missed)}
<1>1. /\ at[0] = position
      /\ \A i \in 1 .. NumPackets : at[i] = Later(kinds[i], at[i - 1])
      /\ \A i \in 0 .. NumPackets : at[i] \in Places
  BY TrackFacts
<1>2. packets = [i \in 1 .. NumPackets |-> Packet(kinds[i], at[i - 1])]
  BY DEF Sent
<1>3. round = [i \in 0 .. NumPackets |-> IF i = 0 THEN First ELSE Visit(packets, i, round[i - 1])]
  BY WalkDef
<1>4. NumPackets \in Nat \ {0}
  BY PartsType
<1>5. AccOK(First, position, 0, missed)
  <2>1. state \in States
    BY DEF StateOK
  <2>2. First \in Accs /\ First.out = {} /\ First.offset = 0 /\ First.left = {} /\ First.state = state
    BY <2>1 DEF Accs
  <2>3. missed \cup {} = missed /\ 0 * stride = 0
    OBVIOUS
  <2> HIDE DEF First
  <2> QED
    BY <2>2, <2>3 DEF AccOK
<1> HIDE DEF at, packets, round, First
<1>6. round[0] = First
  <2>1. 0 \in 0 .. NumPackets
    BY <1>4
  <2> QED
    BY <1>3, <2>1, Zenon
<1>7. DOMAIN packets = 1 .. NumPackets /\ Len(packets) = NumPackets
  <2>1. DOMAIN packets = 1 .. NumPackets
    BY <1>2
  <2> QED
    BY <1>2, <1>4
<1>8. 0 \in T
  BY <1>1, <1>5, <1>6
<1>9. ASSUME NEW i \in 1 .. NumPackets, i - 1 \in T PROVE i \in T
  <2>1. i \in Nat /\ i \in 0 .. NumPackets /\ i - 1 \in 0 .. NumPackets /\ i # 0
    BY <1>4
  <2>2. round[i] = Visit(packets, i, round[i - 1])
    BY <1>3, <2>1, Zenon
  <2>3. packets[i] = Packet(kinds[i], at[i - 1]) /\ kinds[i] \in PacketKinds /\ at[i - 1] \in Places
    BY <1>1, <1>2, <2>1
  <2>4. AccOK(round[i - 1], at[i - 1], i - 1, missed)
    BY <1>9
  <2>5. AccOK(Visit(packets, i, round[i - 1]), Later(kinds[i], at[i - 1]), i, missed)
    BY <1>7, <2>3, <2>4, VisitOK
  <2>6. AccOK(round[i], at[i], i, missed)
    BY <1>1, <2>2, <2>5, Zenon
  <2> QED
    BY <2>1, <2>6
<1>10. NumPackets \in T
  <2> HIDE DEF T
  <2> QED
    BY <1>4, <1>8, <1>9, UpTo
<1> QED
  BY <1>1, <1>4, <1>10 DEF at, packets, round

-----------------------------------------------------------------------------
(* The capture *)

\* The buffer is in order, and so is the frame that was captured last; the
\* packets fit what a transfer can ask for; and the loop has not gone astray.
CaptureInv ==
  /\ phase \in {"open", "probe", "set", "negotiate", "commit", "awb", "alt",
                "prompt", "capture", "failed"}
  /\ stride \in Nat /\ stride <= MaxEffective
  /\ ending \in {"none", "last", "own"}
  /\ position \in Places
  /\ attempt \in 0 .. Attempts /\ (phase = "capture" => attempt # 0)
  /\ strayed = FALSE
  /\ StateOK(state, position, missed)
  /\ \A data \in frame : Taken(data, missed)

LEMMA CaptureInit == Init => CaptureInv
<1> SUFFICES ASSUME Init PROVE CaptureInv
  OBVIOUS
<1>1. position \in Places
  BY PartsType DEF Init, Places, LastPart
<1>2. StateOK(NoState, position, missed)
  <2>1. Tidy(<<>>, 0, position, missed)
    BY TidyEmpty
  <2>2. NoState \in States /\ NoState.buffer = <<>> /\ NoState.fid = 0
    BY DEF NoState, States
  <2> QED
    BY <2>1, <2>2 DEF StateOK
<1>3. 0 <= MaxEffective /\ 0 \in 0 .. Attempts
  BY PartsType DEF MaxEffective
<1> QED
  BY <1>1, <1>2, <1>3 DEF Init, CaptureInv

\* The handshake leaves the capture alone.
LEMMA CaptureUntouched ==
  ASSUME CaptureInv, UNCHANGED <<ending, captureVars>>, phase # "capture",
         phase' \in {"probe", "set", "negotiate", "commit", "awb", "alt", "prompt", "failed"},
         stride' \in Nat /\ stride' <= MaxEffective
  PROVE  CaptureInv'
<1>1. /\ ending' = ending /\ position' = position /\ state' = state /\ attempt' = attempt
      /\ frame' = frame /\ missed' = missed /\ strayed' = strayed
  BY DEF captureVars
<1>2. Places' = Places
  BY <1>1 DEF Places, LastPart
<1> QED
  BY <1>1, <1>2 DEF CaptureInv

\* Each attempt keeps the buffer in order, and so is what it completes.
LEMMA TransferStep == CaptureInv /\ Transfer => CaptureInv'
<1> SUFFICES ASSUME CaptureInv, Transfer PROVE CaptureInv'
  OBVIOUS
<1>1. PICK kinds \in [1 .. NumPackets -> PacketKinds] :
        LET walk == Walk(Sent(kinds))[NumPackets]
        IN /\ position' = Track(kinds)[NumPackets]
           /\ state' = walk.state
           /\ strayed' = walk.strayed
           /\ missed' = missed \cup walk.left
           /\ frame' = IF walk.out # {} THEN walk.out ELSE frame
           /\ phase' = IF walk.out # {} \/ attempt = Attempts THEN "prompt" ELSE "capture"
  BY DEF Transfer
<1> DEFINE walk == Walk(Sent(kinds))[NumPackets]
           pos  == Track(kinds)[NumPackets]
<1>2. AccOK(walk, pos, NumPackets, missed) /\ pos \in Places
  BY WalkOK DEF CaptureInv
<1> HIDE DEF walk, pos
<1>3. walk.strayed = FALSE /\ StateOK(walk.state, pos, missed \cup walk.left)
  BY <1>2 DEF AccOK, Accs
<1>4. \A data \in walk.out : Taken(data, missed \cup walk.left)
  BY <1>2 DEF AccOK
<1>5. /\ position' = pos /\ state' = walk.state /\ strayed' = walk.strayed
      /\ missed' = missed \cup walk.left
      /\ frame' = IF walk.out # {} THEN walk.out ELSE frame
      /\ phase' = IF walk.out # {} \/ attempt = Attempts THEN "prompt" ELSE "capture"
  BY <1>1 DEF walk, pos
<1>6. stride' = stride /\ ending' = ending
  BY DEF Transfer, handshakeVars
<1>7. Places' = Places
  BY <1>6 DEF Places, LastPart
<1>8. \A data \in frame' : Taken(data, missed')
  <2>1. \A data \in frame : Taken(data, missed \cup walk.left)
    BY TakenWithMore DEF CaptureInv
  <2> QED
    BY <1>4, <1>5, <2>1, Zenon
<1>9. /\ phase' \in {"prompt", "capture"}
      /\ attempt' \in 0 .. Attempts /\ (phase' = "capture" => attempt' # 0)
  <2>1. phase' = "capture" => attempt # Attempts
    BY <1>5
  <2>2. attempt' = IF phase' = "capture" THEN attempt + 1 ELSE 0
    BY DEF Transfer
  <2>3. phase' \in {"prompt", "capture"}
    BY <1>5
  <2> QED
    BY <2>1, <2>2, <2>3, PartsType DEF CaptureInv
<1>10. StateOK(state', position', missed') /\ position' \in Places
  BY <1>2, <1>3, <1>5
<1> QED
  BY <1>3, <1>5, <1>6, <1>7, <1>8, <1>9, <1>10 DEF CaptureInv

\* Every step keeps the capture in order.
LEMMA CaptureStep == HandshakeInv /\ CaptureInv /\ [Next]_vars => CaptureInv'
<1> SUFFICES ASSUME HandshakeInv, CaptureInv, [Next]_vars PROVE CaptureInv'
  OBVIOUS
<1>1. CASE Open
  <2>1. stride' \in Nat /\ stride' <= MaxEffective
    <3>1. CASE endpoints = <<>>
      BY <1>1, <3>1 DEF Open, MaxEffective
    <3>2. CASE endpoints # <<>>
      <4>1. endpoints \in Seq(Nat)
        BY WebcamAssumption DEF HandshakeInv
      <4>2. endpoints[Best(endpoints)] \in Nat
        BY <3>2, <4>1, BestIsLargest
      <4>3. stride' = Effective(endpoints[Best(endpoints)])
        BY <1>1, <3>2 DEF Open
      <4> QED
        BY <4>2, <4>3, EffectiveType
    <3> QED
      BY <3>1, <3>2
  <2> QED
    BY <1>1, <2>1, CaptureUntouched DEF Open, Call
<1>2. CASE GetProbe \/ SetProbe \/ GetNegotiated \/ Commit \/ EnableAwb \/ SetAltsetting
  <2>1. /\ UNCHANGED <<ending, captureVars, stride>> /\ phase # "capture"
        /\ phase' \in {"set", "negotiate", "commit", "awb", "alt", "prompt", "failed"}
    BY <1>2 DEF GetProbe, SetProbe, GetNegotiated, Commit, EnableAwb, SetAltsetting, Call, handshakeVars
  <2>2. stride' \in Nat /\ stride' <= MaxEffective
    BY <2>1 DEF CaptureInv
  <2> QED
    BY <2>1, <2>2, CaptureUntouched
<1>3. CASE Prompt \/ TransferFails
  <2>1. /\ ending' = ending /\ position' = position /\ state' = state /\ stride' = stride
        /\ frame' = frame /\ missed' = missed /\ strayed' = strayed
        /\ phase' \in {"prompt", "capture"}
        /\ attempt' \in {0, 1} /\ (phase' = "capture" => attempt' = 1)
    BY <1>3 DEF Prompt, TransferFails, handshakeVars
  <2>2. Places' = Places /\ attempt' \in 0 .. Attempts
    BY <2>1, PartsType DEF Places, LastPart
  <2> QED
    BY <2>1, <2>2 DEF CaptureInv
<1>4. CASE Miss
  <2>1. /\ ending' = ending /\ state' = state /\ stride' = stride /\ attempt' = attempt
        /\ frame' = frame /\ strayed' = strayed /\ phase' = phase
        /\ position' = After(position) /\ missed' = missed \cup {position.frame}
    BY <1>4 DEF Miss, handshakeVars
  <2>2. Places' = Places
    BY <2>1 DEF Places, LastPart
  <2>3. position \in Places /\ After(position) \in Places
    BY AfterLater DEF CaptureInv
  <2>4. StateOK(state, After(position), missed \cup {position.frame})
    <3>1. StateOK(state, position, missed)
      BY DEF CaptureInv
    <3>2. Tidy(state.buffer, state.fid, After(position), missed \cup {position.frame})
      BY <2>3, <3>1, TidyMissed DEF StateOK
    <3> QED
      BY <3>1, <3>2 DEF StateOK
  <2>5. \A data \in frame : Taken(data, missed \cup {position.frame})
    BY TakenWithMore DEF CaptureInv
  <2> QED
    BY <2>1, <2>2, <2>3, <2>4, <2>5 DEF CaptureInv
<1>5. CASE Transfer
  BY <1>5, TransferStep
<1>6. CASE UNCHANGED vars
  <2>1. UNCHANGED <<phase, ending, position, state, stride, attempt, frame, missed, strayed>>
    BY <1>6 DEF vars, handshakeVars, captureVars
  <2>2. Places' = Places
    BY <2>1 DEF Places, LastPart
  <2> QED
    BY <2>1, <2>2 DEF CaptureInv
<1> QED
  BY <1>1, <1>2, <1>3, <1>4, <1>5, <1>6 DEF Next

\* All of it holds in every state.
THEOREM Inductive == Spec => [](HandshakeInv /\ CaptureInv)
  BY HandshakeInit, HandshakeStep, CaptureInit, CaptureStep, PTL DEF Spec

\* The types of the variables of open_uvc_stream and capture_uvc_frame
THEOREM TypeCorrect == Spec => []TypeOK
<1>1. HandshakeInv /\ CaptureInv => TypeOK
  <2> SUFFICES ASSUME HandshakeInv, CaptureInv PROVE TypeOK
    OBVIOUS
  <2>1. state.fid \in {0, 1} /\ state.started \in BOOLEAN /\ (state.buffer # <<>> => state.started)
    BY DEF CaptureInv, StateOK, States
  <2>2. position.part \in 1 .. LastPart
    BY DEF CaptureInv, Places
  <2> QED
    BY <2>1, <2>2 DEF HandshakeInv, CaptureInv, TypeOK
<1> QED
  BY <1>1, Inductive, PTL

\* The guest's strides take it to every packet that is not empty, however many
\* packets a transfer has and however large they are.
THEOREM PacketsCorrect == Spec => []FindsPackets
<1>1. CaptureInv => FindsPackets
  BY DEF CaptureInv, FindsPackets
<1> QED
  BY <1>1, Inductive, PTL

\* A captured frame is in order, and the frames it may be made of have one
\* frame id: capture_uvc_frame, for frames of any length.
THEOREM NeighboursCorrect == Spec => []NeverMixesNeighbours
<1>1. CaptureInv => NeverMixesNeighbours
  <2> SUFFICES ASSUME CaptureInv, NEW data \in frame, NEW i \in 1 .. Len(data) - 1
               PROVE  \/ data[i + 1].frame = data[i].frame /\ data[i + 1].part > data[i].part
                      \/ /\ data[i + 1].frame > data[i].frame
                         /\ data[i + 1].frame % 2 = data[i].frame % 2
    BY DEF NeverMixesNeighbours
  <2>1. Taken(data, missed)
    BY DEF CaptureInv
  <2>2. PICK fid \in {0, 1} : OneId(data, fid)
    BY <2>1 DEF Taken
  <2>3. i \in 1 .. Len(data) /\ i + 1 \in 1 .. Len(data)
    BY <2>1, LenProperties DEF Taken
  <2>4. data[i + 1].frame % 2 = fid /\ data[i].frame % 2 = fid
    BY <2>2, <2>3 DEF OneId
  <2>5. \/ data[i + 1].frame = data[i].frame /\ data[i + 1].part > data[i].part
        \/ data[i + 1].frame > data[i].frame
    BY <2>1 DEF Taken, Ordered
  <2> QED
    BY <2>4, <2>5, Zenon
<1> QED
  BY <1>1, Inductive, PTL

\* A frame of which, and of whose successor, no part was missed is captured
\* whole: capture_uvc_frame, for frames of any length and any loss elsewhere.
THEOREM WholeCorrect == Spec => []WholeUnlessMissed
<1>1. CaptureInv => WholeUnlessMissed
  <2> SUFFICES ASSUME CaptureInv, NEW data \in frame,
                      {Head(data).frame, Head(data).frame + 1} \cap missed = {}
               PROVE  data = [p \in 1 .. Parts |-> [frame |-> Head(data).frame, part |-> p, whole |-> TRUE]]
    BY DEF WholeUnlessMissed
  <2>1. Taken(data, missed)
    BY DEF CaptureInv
  <2>2. Head(data) = data[1]
    BY DEF Head
  <2>3. data[1].frame \notin missed /\ data[1].frame + 1 \notin missed
    BY <2>2
  <2>4. data = Exactly(data[1].frame, Parts)
    BY <2>1, <2>3 DEF Taken
  <2> QED
    BY <2>2, <2>4 DEF Exactly
<1> QED
  BY <1>1, Inductive, PTL

\* The buffer a capture asks new_transfer for is filled by its packets, and a
\* control transfer of that size would have room for its setup packet.
THEOREM BuffersCorrect == Spec => []BuffersFit
<1>1. CaptureInv => BuffersFit
  <2> SUFFICES ASSUME CaptureInv, NEW size \in Sizes \cup {NumPackets * stride}
               PROVE  ControlFits(size) /\ \A n \in 1 .. NumPackets + 1 : PacketsTile(size, n)
    BY DEF BuffersFit
  <2>1. NumPackets * stride \in Nat /\ NumPackets * stride <= NumPackets * 8188
    <3>1. \A n, s \in Nat : s <= 8188 => n * s \in Nat /\ n * s <= n * 8188
      <4> SUFFICES ASSUME NEW n \in Nat, NEW s \in Nat, s <= 8188
                   PROVE  n * s \in Nat /\ n * s <= n * 8188
        OBVIOUS
      <4>1. n * 8188 = (n * s) + (n * (8188 - s))
        OBVIOUS
      <4>2. n * (8188 - s) \in Nat /\ n * s \in Nat
        OBVIOUS
      <4> QED
        BY <4>1, <4>2
    <3>2. stride \in Nat /\ stride <= 8188 /\ NumPackets \in Nat
      BY PartsType DEF CaptureInv, MaxEffective
    <3> QED
      BY <3>1, <3>2
  <2>2. size \in Size
    BY <2>1, WebcamAssumption, WidthAssumption DEF Size
  <2>3. size \in Nat
    BY <2>2 DEF Size
  <2>4. \A n \in 1 .. NumPackets + 1 : n \in Nat \ {0}
    BY PartsType
  <2> QED
    BY <2>2, <2>3, <2>4, ControlTransfersFit, PacketsFillTheBuffer
<1> QED
  BY <1>1, Inductive, PTL

=============================================================================
