---------------------------- MODULE TransferLayout ---------------------------
(***************************************************************************)
(* Where things lie in the buffer of a transfer: the arithmetic of         *)
(* new_transfer (usb-wasi-host/src/main.rs), of transfer_callback, which   *)
(* reads the buffer, and of a guest that walks over isochronous packets.   *)
(* Offsets and lengths are bytes; packets are numbered from 0.             *)
(***************************************************************************)
EXTENDS Integers

CONSTANT U32  \* 2^32: u32 arithmetic wraps here in a release build

ASSUME WidthAssumption == U32 \in Nat /\ U32 > 2 * 65536

U16 == 65536
SetupSize == 8

Kinds == {"control", "bulk", "interrupt", "isochronous"}
Size  == 0 .. U32 - 1

-----------------------------------------------------------------------------
(* Mutants: slips that would break a property; the specification uses none *)

\* The setup packet is not counted.
TotalLengthBare(kind, buf_size) == buf_size

\* The packets are laid out for one fewer.
PacketLengthFewer(buf_size, n, i) == buf_size \div (IF n > 1 THEN n - 1 ELSE n)

-----------------------------------------------------------------------------

\* total_len, a u32
TotalLength(kind, buf_size) ==
  IF kind # "control" THEN buf_size
  ELSE IF SetupSize + buf_size < U32 THEN SetupSize + buf_size
  ELSE SetupSize + buf_size - U32

\* The eight stores into buffer_vec panic when it is shorter; a debug build
\* has panicked in the sum before.
Panics(kind, buf_size) == kind = "control" /\ TotalLength(kind, buf_size) < SetupSize

\* libusb_transfer.length: the same bits as an i32
TransferLength(kind, buf_size) ==
  LET total == TotalLength(kind, buf_size)
  IN IF total < U32 \div 2 THEN total ELSE total - U32

\* wLength: two bytes of buf_size
SetupLength(buf_size) == buf_size % U16

\* desc.length of packet i of n: the last one takes the remainder
PacketLength(buf_size, n, i) ==
  IF i = n - 1 THEN (buf_size \div n) + (buf_size % n) ELSE buf_size \div n

\* Where libusb and the kernel put packet i: after those before it, which are
\* of equal length.
PacketOffset(buf_size, n, i) == i * PacketLength(buf_size, n, 0)

\* What the callback copies out when the device moved `actual` bytes: <<first,
\* past the last>> in the buffer.  Control transfers to the device return
\* nothing, others to the device that many zeros.
ResultRange(kind, in, buf_size, actual) ==
  CASE kind = "isochronous" -> <<0, TransferLength(kind, buf_size)>>
    [] kind = "control" /\ in -> <<SetupSize, SetupSize + actual>>
    [] kind \in {"bulk", "interrupt"} /\ in -> <<0, actual>>
    [] OTHER -> <<0, 0>>

-----------------------------------------------------------------------------
(* Properties *)

\* However the sum of buf_size and the setup packet wraps: a control transfer
\* that is created has room for the data the guest sends, and for as much as
\* its setup packet lets the device send, which is what the callback copies.
ControlFits(buf_size) ==
  LET total == TotalLength("control", buf_size) IN
  ~Panics("control", buf_size) =>
    /\ SetupSize + buf_size <= total
    /\ ResultRange("control", TRUE, buf_size, SetupLength(buf_size))[2] <= total

\* The packets lie one after the other from the start of the buffer to its
\* end, whatever the division leaves.
PacketsTile(buf_size, n) ==
  \A i \in 0 .. n - 1 :
    PacketOffset(buf_size, n, i) + PacketLength(buf_size, n, i)
      = IF i = n - 1 THEN buf_size ELSE PacketOffset(buf_size, n, i + 1)

\* A guest that asks for n packets of one stride finds packet i at i strides,
\* as the loop of capture_uvc_frame assumes.
StrideFinds(stride, n) ==
  \A i \in 0 .. n - 1 :
    /\ PacketOffset(n * stride, n, i) = i * stride
    /\ PacketLength(n * stride, n, i) = stride

=============================================================================
