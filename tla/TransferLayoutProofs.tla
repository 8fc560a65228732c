------------------------- MODULE TransferLayoutProofs ------------------------
(***************************************************************************)
(* What TransferLayout promises for every size and number of packets.      *)
(***************************************************************************)
EXTENDS TransferLayout, TLAPS

\* A quotient and a remainder make up the number they come from.
LEMMA Division ==
  ASSUME NEW a \in Nat, NEW n \in Nat \ {0}
  PROVE  /\ a \div n \in Nat
         /\ a % n \in 0 .. n - 1
         /\ a = (n * (a \div n)) + (a % n)
<1>1. a \div n \in Nat
  BY SMT
<1>2. a % n \in 0 .. n - 1
  BY SMT
<1>3. a = (n * (a \div n)) + (a % n)
  BY SMT
<1> QED BY <1>1, <1>2, <1>3

\* Every control transfer that new_transfer creates has room for its setup
\* packet, for the data submit_transfer copies in, and for the answer its
\* wLength allows, although 8 + buf_size may wrap and wLength is cut.
THEOREM ControlTransfersFit ==
  ASSUME NEW buf_size \in Size
  PROVE  ControlFits(buf_size)
<1> DEFINE total == TotalLength("control", buf_size)
<1> SUFFICES ASSUME ~Panics("control", buf_size)
             PROVE  /\ SetupSize + buf_size <= total
                    /\ SetupSize + SetupLength(buf_size) <= total
  BY DEF ControlFits, ResultRange
<1>1. buf_size \in Nat /\ buf_size < U32
  BY WidthAssumption DEF Size
<1>2. total = SetupSize + buf_size
  \* were it to wrap, what is left would be shorter than the setup packet
  BY <1>1, WidthAssumption DEF Panics, TotalLength, SetupSize
<1>3. SetupLength(buf_size) <= buf_size
  BY <1>1 DEF SetupLength, U16
<1>4. SetupLength(buf_size) \in Nat
  BY <1>1 DEF SetupLength, U16
<1> QED BY <1>1, <1>2, <1>3, <1>4 DEF SetupSize

\* The packets of an isochronous transfer fill its buffer from end to end.
THEOREM PacketsFillTheBuffer ==
  ASSUME NEW buf_size \in Nat, NEW n \in Nat \ {0}
  PROVE  PacketsTile(buf_size, n)
<1> DEFINE base == buf_size \div n
           rem  == buf_size % n
<1>1. base \in Nat /\ rem \in 0 .. n - 1 /\ buf_size = (n * base) + rem
  BY Division
<1> SUFFICES ASSUME NEW i \in 0 .. n - 1
             PROVE  PacketOffset(buf_size, n, i) + PacketLength(buf_size, n, i)
                      = IF i = n - 1 THEN buf_size ELSE PacketOffset(buf_size, n, i + 1)
  BY DEF PacketsTile
<1>2. CASE n = 1
  <2>1. i = 0 /\ rem = 0 /\ buf_size = base
    BY <1>1, <1>2
  <2>2. PacketOffset(buf_size, n, i) = 0
    BY <2>1, <1>1, <1>2 DEF PacketOffset, PacketLength
  <2>3. PacketLength(buf_size, n, i) = base + rem
    BY <2>1, <1>2 DEF PacketLength
  <2> QED BY <2>1, <2>2, <2>3, <1>1, <1>2
<1>3. CASE n # 1
  <2>1. \A j \in 0 .. n : PacketOffset(buf_size, n, j) = j * base
    BY <1>3 DEF PacketOffset, PacketLength
  <2>2. CASE i = n - 1
    <3>1. PacketLength(buf_size, n, i) = base + rem
      BY <2>2 DEF PacketLength
    <3>2. PacketOffset(buf_size, n, i) = (n - 1) * base
      BY <2>1, <2>2
    <3>3. ((n - 1) * base) + base = n * base
      BY <1>1
    <3> HIDE DEF base, rem
    <3> QED BY <3>1, <3>2, <3>3, <1>1, <2>2
  <2>3. CASE i # n - 1
    <3>1. PacketLength(buf_size, n, i) = base
      BY <2>3 DEF PacketLength
    <3>2. PacketOffset(buf_size, n, i) = i * base /\ PacketOffset(buf_size, n, i + 1) = (i + 1) * base
      BY <2>1, <2>3
    <3>3. (i * base) + base = (i + 1) * base
      BY <1>1
    <3> HIDE DEF base, rem
    <3> QED BY <3>1, <3>2, <3>3, <1>1, <2>3
  <2> QED BY <2>2, <2>3
<1> QED BY <1>2, <1>3

\* The guest's own stride takes it to each packet the host has laid out.
THEOREM GuestFindsItsPackets ==
  ASSUME NEW stride \in Nat, NEW n \in Nat \ {0}
  PROVE  StrideFinds(stride, n)
<1>1. n * stride \in Nat
  BY SMT
<1> DEFINE base == (n * stride) \div n
           rem  == (n * stride) % n
<1>2. base \in Nat /\ rem \in 0 .. n - 1 /\ n * stride = (n * base) + rem
  BY <1>1, Division
<1>3. base = stride /\ rem = 0
  <2>1. n * (stride - base) = rem
    BY <1>2
  <2>2. CASE stride > base
    <3>1. n * (stride - base) >= n
      BY <2>2, <1>2
    <3> QED BY <3>1, <2>1, <1>2
  <2>3. CASE stride < base
    <3>1. n * (stride - base) < 0
      BY <2>3, <1>2
    <3> QED BY <3>1, <2>1, <1>2
  <2>4. CASE stride = base
    BY <2>4, <2>1, <1>2
  <2> QED BY <2>2, <2>3, <2>4, <1>2
<1>4. \A i \in 0 .. n - 1 : PacketLength(n * stride, n, i) = stride
  BY <1>3 DEF PacketLength
<1> QED BY <1>4 DEF StrideFinds, PacketOffset

=============================================================================
