-------------------------------- MODULE Webcam -------------------------------
(***************************************************************************)
(* The webcam guest (usb-wasi-guest/examples/webcam/src/webcam.rs): it     *)
(* opens a UVC camera, negotiates a format, and puts frames together from  *)
(* the packets of isochronous transfers, one transfer at a time.           *)
(*                                                                         *)
(* The camera is external: it sends the parts of frame after frame, a part *)
(* in a packet, and does not wait.  A part is missed when its packet is    *)
(* lost, when no transfer is under way, or when it comes in a transfer     *)
(* the guest no longer looks at.                                           *)
(***************************************************************************)
EXTENDS TransferLayout, Sequences, SequencesExt

CONSTANTS
  EndpointSets, \* what cameras offer: sequences of wMaxPacketSize, one for each
                \* alternate setting from 1 on
  Parts,        \* the packets a frame takes
  NumPackets,   \* num_packets of a transfer
  MaxFrame,     \* bound: the last frame of the camera
  Attempts,     \* the transfers one capture makes
  Sizes         \* sizes for which the layout of a buffer is checked

ASSUME WebcamAssumption ==
  /\ {Parts, NumPackets, Attempts} \subseteq Nat \ {0}
  /\ MaxFrame \in Nat
  /\ NumPackets * 8188 \in Size \* the longest packets: 2047 bytes four times
  /\ Sizes \subseteq Size
  /\ EndpointSets \subseteq Seq(Nat)

VARIABLES
  phase,      \* the next step of open_uvc_stream, or "prompt", "capture", "failed"
  endpoints,  \* the camera's alternate settings
  camera,     \* its probe and commit controls, and the alternate setting in use
  probe,      \* probe_data, then negotiated
  stride,     \* packet_stride
  ending,     \* how the camera marks the end of a frame
  position,   \* the part it sends next
  state,      \* ReassemblyState
  attempt,    \* of the loop of capture_uvc_frame
  frame,      \* the last frame that was captured: a set of at most one
  missed,     \* the frames of which the guest has not seen a part
  strayed     \* has the guest looked for a packet where none is?

handshakeVars == <<endpoints, camera, probe, stride, ending>>
captureVars   == <<position, state, attempt, frame, missed, strayed>>
vars == <<phase, handshakeVars, captureVars>>

-----------------------------------------------------------------------------
(* Mutants: slips that would break a property; the specification uses none *)

\* The offset does not move past an empty packet.
PastOnlyFull(offset, packet) == IF packet.length = 0 THEN offset ELSE offset + stride

\* The frame id is not looked at.
ToggledNever(st, packet) == FALSE

\* A frame that is begun is not marked as started.
ReassembleUnstarted(st, packet) ==
  <<[buffer |-> st.buffer \o packet.payload, fid |-> packet.fid, started |-> FALSE], <<>>>>

\* The probe is committed as it was sent, not as it was answered.
NegotiatedNot(cam, sent) == sent

\* The first endpoint will do.
BestFirst(sizes) == 1

-----------------------------------------------------------------------------
(* open_uvc_stream *)

\* base_mps * mult: eleven bits, and two that multiply
Effective(mps) == (mps % 2048) * (1 + ((mps \div 2048) % 4))

\* The alternate setting with the largest packets, the first of these
Best(sizes) ==
  CHOOSE alt \in DOMAIN sizes :
    /\ \A other \in DOMAIN sizes : Effective(sizes[other]) <= Effective(sizes[alt])
    /\ \A other \in 1 .. alt - 1 : Effective(sizes[other]) < Effective(sizes[alt])

\* What the camera answers to GET_CUR after SET_CUR; a control it holds is
\* <<format, tuned by the camera>>, or <<>> when it answers less than 4 bytes.
Negotiated(cam, sent) == cam.probe

NoState == [buffer |-> <<>>, fid |-> 0, started |-> FALSE]

Init ==
  /\ phase = "open"
  /\ endpoints \in EndpointSets
  /\ camera = [probe |-> <<"other", TRUE>>, commit |-> <<>>, alt |-> 0]
  /\ probe = <<>> /\ stride = 0
  /\ ending \in {"none", "last", "own"}
  /\ position \in {[frame |-> 0, part |-> p] : p \in 1 .. Parts}
  /\ state = NoState
  /\ attempt = 0 /\ frame = {} /\ strayed = FALSE
  /\ missed = {0}

\* The next call of the handshake is made, or it fails: new panics.
Call(from, to) == phase = from /\ phase' \in {to, "failed"}

\* The device is found and opened, the interface claimed.
Open ==
  /\ Call("open", "probe")
  /\ endpoints = <<>> => phase' = "failed"
  /\ stride' = IF endpoints = <<>> THEN 0 ELSE Effective(endpoints[Best(endpoints)])
  /\ UNCHANGED <<endpoints, camera, probe, ending, captureVars>>

\* GET_CUR, and the two bytes that ask for MJPEG when there are any
GetProbe ==
  /\ Call("probe", "set")
  /\ probe' \in {<<>>, <<"mjpeg", FALSE>>}
  /\ UNCHANGED <<endpoints, camera, stride, ending, captureVars>>

SetProbe ==
  /\ Call("set", "negotiate")
  /\ \E tuned \in BOOLEAN :
       camera' = [camera EXCEPT !.probe = IF probe = <<>> THEN @ ELSE <<probe[1], tuned>>]
  /\ UNCHANGED <<endpoints, probe, stride, ending, captureVars>>

\* GET_CUR for as many bytes as before
GetNegotiated ==
  /\ Call("negotiate", "commit")
  /\ probe' = IF probe = <<>> THEN <<>> ELSE Negotiated(camera, probe)
  /\ UNCHANGED <<endpoints, camera, stride, ending, captureVars>>

Commit ==
  /\ Call("commit", "awb")
  /\ camera' = [camera EXCEPT !.commit = probe]
  /\ UNCHANGED <<endpoints, probe, stride, ending, captureVars>>

\* The white balance, whose errors are ignored
EnableAwb ==
  /\ phase = "awb" /\ phase' = "alt"
  /\ UNCHANGED <<handshakeVars, captureVars>>

SetAltsetting ==
  /\ Call("alt", "prompt")
  /\ camera' = [camera EXCEPT !.alt = Best(endpoints)]
  /\ UNCHANGED <<endpoints, probe, stride, ending, captureVars>>

-----------------------------------------------------------------------------
(* What the camera sends, external *)

\* A camera that marks the end in a packet of its own sends one more.
LastPart == IF ending = "own" THEN Parts + 1 ELSE Parts

After(pos) == IF pos.part = LastPart THEN [frame |-> pos.frame + 1, part |-> 1]
              ELSE [pos EXCEPT !.part = @ + 1]

\* A packet that carries a part, whole or cut short (`status` then says so); one
\* with a header only; one whose header is broken; none.
Packet(kind, pos) ==
  [length  |-> IF kind = "empty" THEN 0 ELSE 1,
   valid   |-> kind \in {"whole", "cut", "header"},
   fid     |-> pos.frame % 2,
   eof     |-> kind \in {"whole", "cut"} /\ ending # "none" /\ pos.part = LastPart,
   payload |-> IF kind \in {"whole", "cut"} /\ pos.part <= Parts
               THEN <<[frame |-> pos.frame, part |-> pos.part, whole |-> kind = "whole"]>>
               ELSE <<>>,
   frame   |-> pos.frame,
   misses  |-> kind \in {"cut", "broken"}]

\* No packet is longer than the stride.
PacketKinds == IF stride = 0 THEN {"empty"} ELSE {"whole", "cut", "header", "broken", "empty"}

\* Where the camera is after each packet of a transfer
Track(kinds) ==
  LET at[i \in 0 .. NumPackets] ==
        IF i = 0 THEN position
        ELSE IF kinds[i] \in {"empty", "header"} THEN at[i - 1] ELSE After(at[i - 1])
  IN  at

\* The packets of one transfer
Sent(kinds) ==
  LET at == Track(kinds) IN [i \in 1 .. NumPackets |-> Packet(kinds[i], at[i - 1])]

-----------------------------------------------------------------------------
(* capture_uvc_frame *)

IsCompleteJpeg(data) ==
  /\ data # <<>>
  /\ Head(data).part = 1
  /\ Last(data).part = Parts /\ Last(data).whole

\* offset += stride, before any `continue`
Past(offset, packet) == offset + stride

Toggled(st, packet) == st.buffer # <<>> /\ packet.fid # st.fid

Ended(started, grown, packet) == started /\ packet.eof /\ grown # <<>>

\* What a packet with a valid header does: <<the state after, the frame it
\* completes, if any>>
Reassemble(st, packet) ==
  LET started == st.started \/ packet.payload # <<>>
      grown == IF started THEN st.buffer \o packet.payload ELSE st.buffer
  IN CASE Toggled(st, packet) ->
            <<[buffer |-> packet.payload, fid |-> packet.fid, started |-> TRUE], st.buffer>>
       [] ~Toggled(st, packet) /\ Ended(started, grown, packet) ->
            <<[buffer |-> <<>>, fid |-> packet.fid, started |-> FALSE], grown>>
       [] OTHER -> <<[buffer |-> grown, fid |-> packet.fid, started |-> started], <<>>>>

\* The packet that lies at an offset of the result, if one does
Found(packets, offset) ==
  {packets[i] : i \in {j \in DOMAIN packets :
                         PacketOffset(Len(packets) * stride, Len(packets), j - 1) = offset}}

\* What becomes of `acc` in one round of the loop over the packets of a result;
\* once a frame is complete there are no more.
Visit(packets, i, acc) ==
  LET packet == packets[i]
      moved == [acc EXCEPT !.offset = Past(@, packet),
                           !.left = IF packet.misses THEN @ \cup {packet.frame} ELSE @]
      here == Found(packets, acc.offset)
      next == Reassemble(acc.state, packet)
  IN CASE acc.out # {} -> [acc EXCEPT !.left = @ \cup {packet.frame}]
       [] acc.out = {} /\ packet.length = 0 -> moved
       [] acc.out = {} /\ packet.length > 0 /\ here # {packet} -> [moved EXCEPT !.strayed = TRUE]
       [] acc.out = {} /\ packet.length > 0 /\ here = {packet} /\ ~packet.valid -> moved
       [] OTHER -> [moved EXCEPT !.state = next[1],
                                 !.out = IF IsCompleteJpeg(next[2]) THEN {next[2]} ELSE {}]

\* The loop over the packets of a result: `acc` after each of its rounds
Walk(packets) ==
  LET round[i \in 0 .. NumPackets] ==
        IF i = 0
        THEN [state |-> state, offset |-> 0, out |-> {}, left |-> {}, strayed |-> strayed]
        ELSE Visit(packets, i, round[i - 1])
  IN  round

\* ENTER at the prompt of run_webcam
Prompt ==
  /\ phase = "prompt" /\ position.frame <= MaxFrame
  /\ phase' = "capture"
  /\ attempt' = 1
  /\ UNCHANGED <<handshakeVars, position, state, frame, missed, strayed>>

\* The camera goes on while no transfer is under way.
Miss ==
  /\ phase \in {"prompt", "capture"} /\ position.frame <= MaxFrame
  /\ position' = After(position)
  /\ missed' = missed \cup {position.frame}
  /\ UNCHANGED <<phase, handshakeVars, state, attempt, frame, strayed>>

\* One attempt: a transfer and the walk over its packets
Transfer ==
  /\ phase = "capture" /\ position.frame <= MaxFrame
  /\ \E kinds \in [1 .. NumPackets -> PacketKinds] :
       LET walk == Walk(Sent(kinds))[NumPackets]
       IN /\ position' = Track(kinds)[NumPackets]
          /\ state' = walk.state
          /\ strayed' = walk.strayed
          /\ missed' = missed \cup walk.left
          /\ frame' = IF walk.out # {} THEN walk.out ELSE frame
          /\ phase' = IF walk.out # {} \/ attempt = Attempts THEN "prompt" ELSE "capture"
  /\ attempt' = IF phase' = "capture" THEN attempt + 1 ELSE 0
  /\ UNCHANGED handshakeVars

\* A transfer that fails ends the capture; what is collected stays.
TransferFails ==
  /\ phase = "capture"
  /\ phase' = "prompt" /\ attempt' = 0
  /\ UNCHANGED <<handshakeVars, position, state, frame, missed, strayed>>

Next ==
  \/ Open \/ GetProbe \/ SetProbe \/ GetNegotiated \/ Commit \/ EnableAwb \/ SetAltsetting
  \/ Prompt \/ Miss \/ Transfer \/ TransferFails

Spec == Init /\ [][Next]_vars

-----------------------------------------------------------------------------
(* Properties *)

TypeOK ==
  /\ phase \in {"open", "probe", "set", "negotiate", "commit", "awb", "alt",
                "prompt", "capture", "failed"}
  /\ endpoints \in EndpointSets
  /\ stride \in Nat /\ ending \in {"none", "last", "own"}
  /\ position.part \in 1 .. LastPart
  /\ attempt \in 0 .. Attempts
  /\ state.fid \in {0, 1} /\ state.started \in BOOLEAN
  /\ state.buffer # <<>> => state.started
  /\ strayed \in BOOLEAN

\* The camera streams what it said it would: the commit is its own answer, not
\* the guest's wish, and the packets the guest asks the host for are as large
\* as those of the alternate setting, which is one with the largest.
CommitAsNegotiated ==
  phase \in {"prompt", "capture"} =>
    /\ camera.commit \in {<<>>, camera.probe}
    /\ stride = Effective(endpoints[camera.alt])
    /\ \A alt \in DOMAIN endpoints : Effective(endpoints[alt]) <= stride

\* Host and guest agree on where each packet of a transfer lies, empty ones and
\* broken ones among them.
FindsPackets == ~strayed

\* A captured frame never mixes two that follow one another, and has its parts
\* in order, however many packets were lost; only when an odd number of whole
\* frames is lost, and the one-bit frame id comes round, are two taken for one.
NeverMixesNeighbours ==
  \A data \in frame : \A i \in 1 .. Len(data) - 1 :
    \/ data[i + 1].frame = data[i].frame /\ data[i + 1].part > data[i].part
    \/ data[i + 1].frame > data[i].frame /\ data[i + 1].frame % 2 = data[i].frame % 2

\* A frame of which nothing was missed, nor of the one after it, is captured
\* exactly as the camera sent it.
WholeUnlessMissed ==
  \A data \in frame :
    LET f == Head(data).frame IN
    {f, f + 1} \cap missed = {} =>
      data = [p \in 1 .. Parts |-> [frame |-> f, part |-> p, whole |-> TRUE]]

\* Buffers of control and isochronous transfers are laid out right, the one
\* the capture asks for and those of the sizes tried here (wrapping ones among
\* them); TransferLayoutProofs proves it for all sizes.
BuffersFit ==
  \A size \in Sizes \cup {NumPackets * stride} :
    /\ ControlFits(size)
    /\ \A n \in 1 .. NumPackets + 1 : PacketsTile(size, n)

=============================================================================
