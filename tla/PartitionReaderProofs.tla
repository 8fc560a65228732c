------------------------ MODULE PartitionReaderProofs ------------------------
(***************************************************************************)
(* Proofs about PartitionReader, for any stick, partitions, files, sizes   *)
(* of buffers and number of iterations: what the programs are given is in  *)
(* its place, what they report whole is whole, and they do not fail of     *)
(* their own accord.                                                       *)
(***************************************************************************)
EXTENDS PartitionReader, SequenceTheorems, TLAPS

-----------------------------------------------------------------------------
(* Division: tlapm's SMT translation leaves both operators to these facts. *)

LEMMA Division ==
  ASSUME NEW a \in Nat, NEW b \in Nat \ {0}
  PROVE  /\ a \div b \in Nat /\ a % b \in Nat
         /\ a % b < b
         /\ a = b * (a \div b) + (a % b)
  OBVIOUS

LEMMA Remainder ==
  ASSUME NEW a \in Nat, NEW b \in Nat \ {0}, a < b
  PROVE  a % b = a
  OBVIOUS

LEMMA Monotone ==
  ASSUME NEW b \in Nat \ {0}, NEW k \in Int, NEW l \in Int, b * k < b * l
  PROVE  k < l
  OBVIOUS

\* The blocks from that of the first byte to that of the last cover a read, and
\* CountFits bounds how many they are.
LEMMA BlocksCover ==
  ASSUME NEW b \in Nat \ {0}, NEW from \in Nat, NEW n \in Nat \ {0}
  PROVE  LET first == from \div b
             count == (from + n - 1) \div b - first + 1
         IN  /\ first \in Nat /\ from = first * b + (from % b)
             /\ count \in Nat
             /\ (from % b) + n <= count * b
             /\ count <= (n + b - 2) \div b + 1
<1> DEFINE f == from \div b
           l == (from + n - 1) \div b
           q == (n + b - 2) \div b
           r == from % b
<1>1. f \in Nat /\ r \in Nat /\ r < b /\ from = b * f + r
  BY Division
<1>2. l \in Nat /\ b * l <= from + n - 1 /\ from + n - 1 < b * l + b
  <2>1. from + n - 1 \in Nat
    OBVIOUS
  <2> QED
    BY <2>1, Division
<1>3. q \in Nat /\ b * q <= n + b - 2 /\ n + b - 2 < b * q + b
  <2>1. n + b - 2 \in Nat
    OBVIOUS
  <2> QED
    BY <2>1, Division
<1> HIDE DEF f, l, q, r
<1>4. b * (l + 1) = b * l + b /\ b * (f + q + 1) = b * f + b * q + b
  BY <1>1, <1>2, <1>3
<1>5. f < l + 1
  <2>1. b * f < b * (l + 1)
    BY <1>1, <1>2, <1>4
  <2> QED
    BY <1>1, <1>2, <2>1, Monotone
<1>6. l < f + q + 1
  <2>1. b * l \in Nat /\ b * f \in Nat /\ b * q \in Nat
    BY <1>1, <1>2, <1>3
  <2>2. b * l < b * (f + q + 1)
    BY <1>1, <1>2, <1>3, <1>4, <2>1
  <2> QED
    BY <1>1, <1>2, <1>3, <2>2, Monotone
<1>7. r + n <= (l - f + 1) * b
  <2>1. (l - f + 1) * b = b * l - b * f + b /\ b * l \in Nat /\ b * f \in Nat
    BY <1>1, <1>2
  <2> QED
    BY <1>1, <1>2, <2>1
<1>8. from = f * b + r
  BY <1>1
<1> QED
  BY <1>1, <1>2, <1>3, <1>5, <1>6, <1>7, <1>8 DEF f, l, q, r

-----------------------------------------------------------------------------
(* The invariant *)

\* What the stick may send when t is the largest tag it has seen.
Packets(t) == [csw : BOOLEAN, tag : 0 .. t, passed : BOOLEAN, bytes : Seq(Int)]

Points == {"reset", "test", "capacity", "mbr", "open", "file", "run", "done", "exit", "panic"}

\* A leftover of the first tag is collected by TEST UNIT READY or ends the program.
TypeInv ==
  /\ program \in Programs /\ pc \in Points
  /\ capacity \in {0, LastLba * BlockLength}
  /\ seek \in Nat /\ tag \in Nat /\ turn \in Nat /\ pass \in Nat
  /\ pipe \in Seq(Packets(tag + 1))
  /\ pc \notin {"reset", "test", "exit"} => pipe \in Seq(Packets(tag))
  /\ part \in Partitions /\ position \in Nat \cup {-1}
  /\ ahead \in Seq(Bytes) /\ got \in Seq(Bytes)
  /\ hashes \in Seq(SUBSET Seq(Bytes)) /\ faulty \in BOOLEAN

\* Where each program has got to
StageInv ==
  /\ pc \in {"open", "file", "run"} =>
       capacity = LastLba * BlockLength /\ Start(part) < End(part)
  /\ pc \in {"reset", "test", "capacity", "mbr"} =>
       ahead = <<>> /\ got = <<>> /\ hashes = <<>> /\ turn = 0
  /\ pc = "open" => program \in {"hash", "throughput"} /\ (program = "hash" => hashes = <<>>)
  /\ pc = "file" => program = "hash" /\ got = <<>>
  /\ pc \in {"file", "run"} /\ program \in {"hash", "throughput"} => turn \in DOMAIN Files
  /\ pc \in {"file", "run"} /\ program = "hash" => Len(hashes) = turn - 1
  /\ program # "hash" => hashes = <<>>
  /\ Len(hashes) <= Len(Files)

\* Where what is read begins
Base == IF program = "readlot" THEN Start(part) ELSE FileStart(turn)

\* What BufReader holds follows what the program has, and IoSlice stands behind
\* it; or the seek to the file has failed.
Reading ==
  \/ position = -1 /\ ahead = <<>> /\ got = <<>>
  \/ /\ position \in Nat /\ position <= End(part)
     /\ position = Base + Len(got) + Len(ahead)
     /\ InPlace(ahead, Base + Len(got))

ReadingInv ==
  pc = "run" /\ program # "latency" =>
    /\ Reading
    /\ program = "readlot" => position # -1
    /\ program # "readlot" => Len(got) <= Files[turn][2]

\* The files left out are the empty ones.
LeftOut == \A f \in DOMAIN hashes : hashes[f] = None => NoHandle(f)

\* Without a fault nothing is left to collect, and what was asked for is there.
FaultInv ==
  ~faulty =>
    /\ pc # "reset" => pipe = <<>>
    /\ pc = "mbr" => capacity = LastLba * BlockLength
    /\ Readable /\ pc = "run" => position # -1
    /\ Readable => pc \notin {"exit", "panic"} /\ LeftOut

ReaderInv ==
  /\ TypeInv /\ StageInv /\ ReadingInv
  /\ DeliveredInPlace /\ WholeOrNothing /\ FaultInv

-----------------------------------------------------------------------------
(* Transfers *)

\* A reply has at most two packets: data that is some of what was asked for, if
\* the command went well, then the status.
LEMMA RepliesType ==
  ASSUME NEW t \in Nat, NEW bytes \in Seq(Int), NEW r \in Replies(t, bytes)
  PROVE  /\ r \in Seq(Packets(t))
         /\ \/ r = <<>>
            \/ r = <<Csw(t, FALSE)>>
            \/ \E n \in 0 .. Len(bytes) : r = <<Data(SubSeq(bytes, 1, n)), Csw(t, TRUE)>>
<1>1. \A ok \in BOOLEAN : Csw(t, ok) \in Packets(t)
  <2>1. <<Odd, Odd, Odd>> \in Seq(Int)
    BY DEF Odd
  <2> QED
    BY <2>1 DEF Csw, Packets
<1>2. ASSUME NEW n \in 0 .. Len(bytes) PROVE Data(SubSeq(bytes, 1, n)) \in Packets(t)
  <2>1. SubSeq(bytes, 1, n) \in Seq(Int)
    BY SubSeqProperties
  <2> QED
    BY <2>1 DEF Data, Packets
<1>3. \/ r = <<>>
      \/ r = <<Csw(t, FALSE)>>
      \/ \E n \in 0 .. Len(bytes) : r = <<Data(SubSeq(bytes, 1, n)), Csw(t, TRUE)>>
  BY Zenon DEF Replies
<1>4. r \in Seq(Packets(t))
  <2> DEFINE S == Packets(t)
  <2>1. \A a, b \in S : <<>> \in Seq(S) /\ <<a>> \in Seq(S) /\ <<a, b>> \in Seq(S)
    <3> HIDE DEF S
    <3> QED
      OBVIOUS
  <2> QED
    BY <1>1, <1>2, <1>3, <2>1, Zenon
<1> QED
  BY <1>3, <1>4

\* More tags, more packets
LEMMA PacketsGrow ==
  ASSUME NEW t \in Nat, NEW u \in Nat, t <= u, NEW p \in Seq(Packets(t))
  PROVE  p \in Seq(Packets(u))
<1>1. Packets(t) \subseteq Packets(u)
  BY DEF Packets
<1> QED
  BY <1>1, SeqMonotonic

\* What is left when packets are collected is still packets.
LEMMA UncollectedType ==
  ASSUME NEW S, NEW p \in Seq(S), NEW q \in Uncollected(p)
  PROVE  q \in Seq(S)
  BY HeadTailProperties DEF Uncollected

\* receive_csw
LEMMA StatusesType ==
  ASSUME NEW t \in Nat, NEW p \in Seq(Packets(t)), NEW bytes, NEW x \in Statuses(t, p, bytes)
  PROVE  /\ x.ok \in BOOLEAN /\ x.bytes = bytes /\ x.pipe \in Seq(Packets(t))
         /\ x.ok => p # <<>> /\ Valid(Head(p), t) /\ x.pipe = Tail(p)
<1>1. CASE \E q \in Uncollected(p) : x = [ok |-> FALSE, bytes |-> bytes, pipe |-> q]
  BY <1>1, UncollectedType
<1>2. CASE p # <<>> /\ x = [ok |-> Valid(Head(p), t), bytes |-> bytes, pipe |-> Tail(p)]
  <2>1. Head(p) \in Packets(t) /\ Tail(p) \in Seq(Packets(t))
    BY <1>2, HeadTailProperties
  <2>2. Valid(Head(p), t) \in BOOLEAN
    BY DEF Valid
  <2> QED
    BY <1>2, <2>1, <2>2
<1> QED
  BY <1>1, <1>2 DEF Statuses

\* A CSW with tag t is the one of the command it answers, and anything else is
\* an earlier status or data.
LEMMA ValidIsMine ==
  ASSUME NEW t \in Nat \ {0}, NEW u \in Nat, u < t, NEW packet \in Packets(u)
  PROVE  ~Valid(packet, t)
  BY DEF Valid, Packets

\* What a buffer of m bytes holds after data has been copied into it
LEMMA FilledType ==
  ASSUME NEW data \in Seq(Int), NEW m \in Nat
  PROVE  /\ Filled(data, m) \in Seq(Int) /\ Len(Filled(data, m)) = m
         /\ \A i \in 1 .. m : Filled(data, m)[i] = IF i <= Len(data) THEN data[i] ELSE Zero
<1> DEFINE n == Smaller(Len(data), m)
           some == SubSeq(data, 1, n)
           zeros == Zeros(m - n)
<1>1. n \in 0 .. m /\ n <= Len(data) /\ (n < m => n = Len(data))
  BY DEF Smaller
<1>2. some \in Seq(Int) /\ Len(some) = n /\ \A i \in 1 .. n : some[i] = data[i]
  <2> HIDE DEF n
  <2> QED
    BY <1>1, SubSeqProperties
<1>3. zeros \in Seq(Int) /\ Len(zeros) = m - n /\ \A i \in 1 .. m - n : zeros[i] = Zero
  <2> HIDE DEF n
  <2> QED
    BY <1>1 DEF Zeros, Zero
<1>4. Filled(data, m) = some \o zeros
  BY DEF Filled
<1> HIDE DEF n, some, zeros
<1>5. /\ some \o zeros \in Seq(Int) /\ Len(some \o zeros) = Len(some) + Len(zeros)
      /\ \A i \in 1 .. Len(some) + Len(zeros) :
           (some \o zeros)[i] = IF i <= Len(some) THEN some[i] ELSE zeros[i - Len(some)]
  BY <1>2, <1>3, ConcatProperties
<1>6. ASSUME NEW i \in 1 .. m
      PROVE  (some \o zeros)[i] = IF i <= Len(data) THEN data[i] ELSE Zero
  BY <1>1, <1>2, <1>3, <1>5
<1> QED
  BY <1>1, <1>2, <1>3, <1>4, <1>5, <1>6

\* If the second packet is the status of command t, with data of earlier
\* commands in front, there was nothing in front.
LEMMA SecondIsMine ==
  ASSUME NEW t \in Nat \ {0}, NEW bytes \in Seq(Int), pipe \in Seq(Packets(t - 1)),
         NEW r \in Replies(t, bytes),
         Len(pipe \o r) >= 2, Valid((pipe \o r)[2], t)
  PROVE  /\ pipe = <<>>
         /\ \E n \in 0 .. Len(bytes) : r = <<Data(SubSeq(bytes, 1, n)), Csw(t, TRUE)>>
<1> DEFINE p == pipe \o r
<1>1. pipe \in Seq(Packets(t)) /\ r \in Seq(Packets(t))
  <2>1. t - 1 \in Nat /\ t - 1 <= t
    OBVIOUS
  <2> QED
    BY <2>1, PacketsGrow, RepliesType
<1>2. /\ Len(p) = Len(pipe) + Len(r)
      /\ \A i \in 1 .. Len(pipe) : p[i] = pipe[i]
      /\ \A i \in 1 .. Len(r) : p[Len(pipe) + i] = r[i]
  BY <1>1, ConcatProperties
<1> HIDE DEF p
<1>3. ASSUME NEW i \in 1 .. Len(pipe) PROVE ~Valid(p[i], t)
  <2>1. pipe[i] \in Packets(t - 1)
    BY ElementOfSeq
  <2>2. t - 1 \in Nat /\ t - 1 < t
    OBVIOUS
  <2> QED
    BY <1>2, <2>1, <2>2, ValidIsMine
<1>4. Len(pipe) \in {0, 1} /\ Len(pipe) + Len(r) >= 2 /\ Valid(r[2 - Len(pipe)], t)
  <2>1. Len(p) >= 2 /\ Valid(p[2], t)
    BY DEF p
  <2>2. Len(pipe) \in Nat /\ Len(r) \in Nat
    BY <1>1, LenProperties
  <2>3. ~(2 \in 1 .. Len(pipe))
    BY <1>3, <2>1
  <2>4. Len(pipe) \in {0, 1} /\ 2 - Len(pipe) \in 1 .. Len(r) /\ Len(pipe) + Len(r) >= 2
    <3>1. Len(pipe) + Len(r) >= 2
      BY <1>2, <2>1
    <3>2. Len(pipe) <= 1
      BY <2>2, <2>3
    <3>3. \A k, l \in Nat : k + l >= 2 /\ k <= 1 => k \in {0, 1} /\ 2 - k \in 1 .. l
      OBVIOUS
    <3> QED
      BY <2>2, <3>1, <3>2, <3>3, Zenon
  <2>5. p[Len(pipe) + (2 - Len(pipe))] = r[2 - Len(pipe)] /\ Len(pipe) + (2 - Len(pipe)) = 2
    BY <1>2, <2>4
  <2> QED
    BY <2>1, <2>4, <2>5
<1>5. ~Valid(Csw(t, FALSE), t) /\ \A n \in 0 .. Len(bytes) : ~Valid(Data(SubSeq(bytes, 1, n)), t)
  BY DEF Valid, Csw, Data
<1>6. r # <<>> /\ r # <<Csw(t, FALSE)>>
  <2>1. Len(r) # 0
    BY <1>4
  <2>2. ASSUME r = <<Csw(t, FALSE)>> PROVE FALSE
    <3>1. Len(r) = 1 /\ r[1] = Csw(t, FALSE)
      BY <2>2
    <3>2. Len(pipe) = 1
      BY <1>4, <3>1
    <3>3. Valid(r[1], t)
      BY <1>4, <3>2
    <3> QED
      BY <1>5, <3>1, <3>3, Zenon
  <2>3. Len(<<>>) = 0
    OBVIOUS
  <2> QED
    BY <2>1, <2>2, <2>3, Zenon
<1>7. PICK n \in 0 .. Len(bytes) : r = <<Data(SubSeq(bytes, 1, n)), Csw(t, TRUE)>>
  BY <1>6, RepliesType
<1>8. Len(pipe) = 0
  BY <1>4, <1>5, <1>7
<1> QED
  BY <1>1, <1>7, <1>8, EmptySeq

\* A command whose status is good has collected its own data, from an empty
\* pipe, and leaves nothing: an earlier status or data phase would have stood
\* where the status was looked for.
LEMMA Received ==
  ASSUME NEW t \in Nat \ {0}, NEW bytes \in Seq(Int), pipe \in Seq(Packets(t - 1)),
         NEW x \in ReceiveOverUsb(t, bytes)
  PROVE  /\ x.ok \in BOOLEAN /\ x.pipe \in Seq(Packets(t)) /\ x.bytes \in Seq(Int)
         /\ x.ok => /\ pipe = <<>> /\ x.pipe = <<>>
                    /\ Len(x.bytes) = Len(bytes)
                    /\ \A i \in 1 .. Len(bytes) : x.bytes[i] \in {bytes[i], Zero}
<1>1. PICK r \in Replies(t, bytes) :
        LET p == pipe \o r IN
        \/ \E q \in Uncollected(p) \cup {p} : x = [ok |-> FALSE, bytes |-> <<>>, pipe |-> q]
        \/ p # <<>> /\ x \in Statuses(t, Tail(p), Filled(Head(p).bytes, Len(bytes)))
  BY DEF ReceiveOverUsb
<1> DEFINE p == pipe \o r
           m == Len(bytes)
           filled == Filled(Head(p).bytes, m)
<1>2. pipe \in Seq(Packets(t)) /\ r \in Seq(Packets(t)) /\ m \in Nat
  <2>1. t - 1 \in Nat /\ t - 1 <= t
    OBVIOUS
  <2> QED
    BY <2>1, PacketsGrow, RepliesType, LenProperties
<1>3. p \in Seq(Packets(t))
  BY <1>2, ConcatProperties
<1>4. CASE \E q \in Uncollected(p) \cup {p} : x = [ok |-> FALSE, bytes |-> <<>>, pipe |-> q]
  <2>1. PICK q \in Uncollected(p) \cup {p} : x = [ok |-> FALSE, bytes |-> <<>>, pipe |-> q]
    BY <1>4
  <2>2. q \in Seq(Packets(t))
    BY <1>3, <2>1, UncollectedType
  <2> QED
    BY <2>1, <2>2
<1>5. CASE p # <<>> /\ x \in Statuses(t, Tail(p), filled)
  <2> HIDE DEF p, m
  <2>1. /\ Head(p) \in Packets(t) /\ Tail(p) \in Seq(Packets(t)) /\ Len(Tail(p)) = Len(p) - 1
        /\ \A i \in 1 .. Len(Tail(p)) : Tail(p)[i] = p[i + 1]
    BY <1>3, <1>5, HeadTailProperties
  <2>2. Head(p).bytes \in Seq(Int)
    BY <2>1 DEF Packets
  <2>3. /\ filled \in Seq(Int) /\ Len(filled) = m
        /\ \A i \in 1 .. m : filled[i] = IF i <= Len(Head(p).bytes) THEN Head(p).bytes[i] ELSE Zero
    BY <1>2, <2>2, FilledType
  <2> HIDE DEF filled
  <2>4. /\ x.ok \in BOOLEAN /\ x.bytes = filled /\ x.pipe \in Seq(Packets(t))
        /\ x.ok => Tail(p) # <<>> /\ Valid(Head(Tail(p)), t) /\ x.pipe = Tail(Tail(p))
    BY <1>5, <2>1, StatusesType
  <2>5. CASE x.ok
    <3>1. Len(Tail(p)) \in Nat \ {0} /\ Len(p) \in Nat
      BY <1>3, <2>1, <2>4, <2>5, EmptySeq, LenProperties
    <3>2. Head(Tail(p)) = p[2]
      BY <2>1, <3>1
    <3>3. Len(p) >= 2 /\ Valid(p[2], t)
      BY <2>1, <2>4, <2>5, <3>1, <3>2
    <3>4. pipe = <<>> /\ \E n \in 0 .. m : r = <<Data(SubSeq(bytes, 1, n)), Csw(t, TRUE)>>
      BY <3>3, SecondIsMine DEF p, m
    <3>5. PICK n \in 0 .. m : r = <<Data(SubSeq(bytes, 1, n)), Csw(t, TRUE)>>
      BY <3>4
    <3>6. p = r
      BY <1>2, <3>4, ConcatEmptySeq DEF p
    <3>7. x.pipe = <<>>
      BY <2>4, <2>5, <3>5, <3>6
    <3>8. Head(p).bytes = SubSeq(bytes, 1, n)
      BY <3>5, <3>6 DEF Data
    <3>9. Len(Head(p).bytes) = n /\ \A j \in 1 .. n : Head(p).bytes[j] = bytes[j]
      <4>1. \A j \in 1 .. n : bytes[j] \in Int
        BY <1>2, ElementOfSeq DEF m
      <4> QED
        BY <1>2, <3>8, <4>1, SubSeqProperties
    <3>10. ASSUME NEW i \in 1 .. m PROVE x.bytes[i] \in {bytes[i], Zero}
      <4>1. x.bytes[i] = IF i <= n THEN Head(p).bytes[i] ELSE Zero
        BY <2>3, <2>4, <3>9
      <4>2. i <= n => i \in 1 .. n
        BY <1>2
      <4> QED
        BY <3>9, <4>1, <4>2
    <3> QED
      BY <2>3, <2>4, <3>4, <3>7, <3>10 DEF m
  <2>6. CASE ~x.ok
    BY <2>3, <2>4, <2>6
  <2> QED
    BY <2>4, <2>5, <2>6
<1> QED
  BY <1>1, <1>4, <1>5

-----------------------------------------------------------------------------
(* Reads *)

LEMMA Sizes ==
  /\ BlockLength \in Nat \ {0} /\ LastLba \in Nat \ {0} /\ BufSize \in Nat \ {0}
  /\ ReadSize \in Nat \ {0} /\ CountModulus \in Nat \ {0} /\ Cluster \in Nat \ {0}
  /\ LastLba * BlockLength \in Nat \ {0} /\ BlockLength <= LastLba * BlockLength
<1>1. \A k, l \in Nat \ {0} : k * l \in Nat \ {0} /\ l <= k * l
  OBVIOUS
<1> QED
  BY <1>1, ReaderAssumption

\* The variables of the stack are well typed and nothing is owed but what has
\* been asked for.
Steady ==
  /\ capacity \in Nat /\ seek \in Nat /\ tag \in Nat /\ faulty \in BOOLEAN
  /\ pipe \in Seq(Packets(tag))
  /\ ~faulty => pipe = <<>>

\* How a read of the stack leaves it
Leaves(x) ==
  /\ x.result \in {"ok", "error", "panic"}
  /\ x.tag \in Nat /\ x.seek \in Nat /\ x.faulty \in BOOLEAN
  /\ x.pipe \in Seq(Packets(x.tag))
  /\ ~x.faulty => ~faulty /\ x.pipe = <<>>

Sound(x) ==
  /\ Leaves(x)
  /\ x.bytes \in Seq(Bytes)
  /\ x.result # "ok" => x.bytes = <<>>

\* Without a fault nothing is missing.
Complete(x) == ~x.faulty => ~Contains(x.bytes, Zero)

\* READ(10) gives the blocks asked for, with holes.
LEMMA Read10Correct ==
  ASSUME Steady, NEW first \in Nat, NEW count \in Nat, NEW x \in Read10(tag + 1, first, count)
  PROVE  /\ x.ok \in BOOLEAN /\ x.pipe \in Seq(Packets(tag + 1)) /\ x.bytes \in Seq(Int)
         /\ x.ok => /\ pipe = <<>> /\ x.pipe = <<>>
                    /\ Len(x.bytes) = count * BlockLength
                    /\ InPlace(x.bytes, first * BlockLength)
<1> DEFINE from == first * BlockLength
           n == count * BlockLength
           bytes == Addresses(from, n)
<1>1. from \in Nat /\ n \in Nat
  BY Sizes
<1> HIDE DEF from, n
<1>2. bytes \in Seq(Int) /\ Len(bytes) = n /\ \A i \in 1 .. n : bytes[i] = from + i - 1
  BY <1>1 DEF Addresses
<1>3. x \in ReceiveOverUsb(tag + 1, bytes)
  BY DEF Read10, from, n
<1>4. tag + 1 \in Nat \ {0} /\ pipe \in Seq(Packets((tag + 1) - 1))
  <2>1. tag \in Nat /\ (tag + 1) - 1 = tag
    BY DEF Steady
  <2> QED
    BY <2>1 DEF Steady
<1> HIDE DEF bytes
<1>5. /\ x.ok \in BOOLEAN /\ x.pipe \in Seq(Packets(tag + 1)) /\ x.bytes \in Seq(Int)
      /\ x.ok => /\ pipe = <<>> /\ x.pipe = <<>>
                 /\ Len(x.bytes) = Len(bytes)
                 /\ \A i \in 1 .. Len(bytes) : x.bytes[i] \in {bytes[i], Zero}
  BY <1>2, <1>3, <1>4, Received
<1> QED
  BY <1>2, <1>5 DEF InPlace, from, n

\* Bytes in place, from an address on, are bytes.
LEMMA InPlaceType ==
  ASSUME NEW from \in Nat, NEW bytes \in Seq(Int), InPlace(bytes, from)
  PROVE  bytes \in Seq(Bytes)
<1>1. \A i \in 1 .. Len(bytes) : bytes[i] \in Bytes
  BY LenProperties DEF InPlace, Bytes
<1> QED
  BY <1>1

\* A part of bytes in place is in place.
LEMMA PartInPlace ==
  ASSUME NEW from \in Nat, NEW bytes \in Seq(Int), InPlace(bytes, from),
         NEW i \in Nat \ {0}, NEW j \in Nat, i <= j + 1, j <= Len(bytes)
  PROVE  /\ SubSeq(bytes, i, j) \in Seq(Int)
         /\ Len(SubSeq(bytes, i, j)) = j - i + 1
         /\ InPlace(SubSeq(bytes, i, j), from + i - 1)
<1> DEFINE some == SubSeq(bytes, i, j)
           start == from + i - 1
<1>1. \A k \in i .. j : bytes[k] \in Int /\ bytes[k] \in {from + k - 1, Zero}
  BY LenProperties, ElementOfSeq DEF InPlace
<1>2. /\ some \in Seq(Int)
      /\ Len(some) = IF i <= j THEN j - i + 1 ELSE 0
      /\ \A k \in 1 .. j - i + 1 : some[k] = bytes[i + k - 1]
  BY <1>1, SubSeqProperties
<1> HIDE DEF some
<1>3. ASSUME NEW k \in 1 .. j - i + 1 PROVE some[k] \in {start + k - 1, Zero}
  <2>1. i + k - 1 \in i .. j
    OBVIOUS
  <2>2. bytes[i + k - 1] \in {from + (i + k - 1) - 1, Zero}
    BY <1>1, <2>1
  <2>3. from + (i + k - 1) - 1 = start + k - 1
    OBVIOUS
  <2>4. some[k] = bytes[i + k - 1]
    BY <1>2
  <2> QED
    BY <2>2, <2>3, <2>4, Zenon
<1>4. Len(some) = j - i + 1
  BY <1>2
<1> QED
  BY <1>2, <1>3, <1>4 DEF InPlace, some

\* The bytes of a read among those of its blocks
LEMMA SelectInPlace ==
  ASSUME NEW start \in Nat, NEW bytes \in Seq(Int), InPlace(bytes, start),
         NEW from \in Nat, from = start + (from % BlockLength),
         NEW n \in Nat, (from % BlockLength) + n <= Len(bytes)
  PROVE  /\ Select(bytes, from, n) \in Seq(Int)
         /\ Len(Select(bytes, from, n)) = n
         /\ InPlace(Select(bytes, from, n), from)
         /\ Contains(Select(bytes, from, n), Zero) => Contains(bytes, Zero)
<1> DEFINE skip == from % BlockLength
           i == skip + 1
           j == skip + n
           some == Select(bytes, from, n)
<1>1. skip \in Nat
  BY Division, ReaderAssumption
<1>2. some = SubSeq(bytes, i, j)
  BY DEF Select
<1>3. from = start + skip /\ skip + n <= Len(bytes)
  OBVIOUS
<1> HIDE DEF skip, some
<1>4. /\ i \in Nat \ {0} /\ j \in Nat /\ i <= j + 1 /\ j <= Len(bytes)
      /\ start + i - 1 = from /\ j - i + 1 = n
  BY <1>1, <1>3
<1>5. \A k \in 1 .. n : i + k - 1 \in 1 .. Len(bytes) /\ i + k - 1 \in i .. j
  BY <1>1, <1>3
<1> HIDE DEF i, j
<1>6. /\ SubSeq(bytes, i, j) \in Seq(Int)
      /\ Len(SubSeq(bytes, i, j)) = j - i + 1
      /\ InPlace(SubSeq(bytes, i, j), start + i - 1)
  BY <1>4, PartInPlace
<1>7. some \in Seq(Int) /\ Len(some) = n /\ InPlace(some, from)
  BY <1>2, <1>4, <1>6
<1>8. \A k \in 1 .. n : some[k] = bytes[i + k - 1]
  <2>1. \A k \in i .. j : bytes[k] \in Int
    BY <1>4, ElementOfSeq
  <2>2. \A k \in 1 .. j - i + 1 : SubSeq(bytes, i, j)[k] = bytes[i + k - 1]
    BY <1>4, <2>1, SubSeqProperties
  <2> QED
    BY <1>2, <1>4, <2>2
<1>9. Contains(some, Zero) => Contains(bytes, Zero)
  BY <1>5, <1>7, <1>8 DEF Contains
<1> QED
  BY <1>7, <1>9 DEF some

\* Read for UsbMassStorage gives the bytes asked for, in place, or an error; it
\* fails without a fault only past the capacity or when the count wraps.
LEMMA UsbReadCorrect ==
  ASSUME Steady, NEW from \in Nat, NEW n \in Nat, NEW x \in UsbRead(from, n)
  PROVE  /\ Sound(x) /\ Complete(x)
         /\ x.result = "ok" => Len(x.bytes) = n /\ InPlace(x.bytes, from)
         /\ x.result = "ok" /\ n > 0 => from + n <= capacity
         /\ ~x.faulty /\ from + n <= capacity /\ (n > 0 => CountFits(n)) => x.result = "ok"
<1> USE DEF Steady
<1> DEFINE first == from \div BlockLength
           whole == (from + n - 1) \div BlockLength - first + 1
           count == whole % CountModulus
           skip == from % BlockLength
<1>1. CASE n = 0 \/ from + n > capacity
  <2>1. PICK result \in {"ok", "error"} :
          /\ x = [result |-> result, bytes |-> <<>>, pipe |-> pipe, tag |-> tag, seek |-> from,
                  faulty |-> faulty]
          /\ result = "ok" <=> n = 0
    BY <1>1 DEF UsbRead
  <2>2. Sound(x) /\ Complete(x)
    BY <2>1 DEF Sound, Leaves, Complete, Contains
  <2> QED
    BY <1>1, <2>1, <2>2 DEF InPlace
<1>2. CASE n > 0 /\ from + n <= capacity
  <2>1. PICK y \in Read10(tag + 1, first, count) :
          LET fits == skip + n <= Len(y.bytes)
              good == y.ok /\ fits
          IN  x = [result |-> IF ~y.ok THEN "error" ELSE IF fits THEN "ok" ELSE "panic",
                   bytes  |-> IF good THEN Select(y.bytes, from, n) ELSE <<>>,
                   pipe   |-> y.pipe,
                   tag    |-> tag + 1,
                   seek   |-> IF good THEN from + n ELSE from,
                   faulty |-> faulty \/ ~y.ok \/ Contains(y.bytes, Zero)]
    BY <1>2 DEF UsbRead
  <2>2. /\ first \in Nat /\ skip \in Nat /\ from = first * BlockLength + skip
        /\ whole \in Nat /\ skip + n <= whole * BlockLength
        /\ whole <= (n + BlockLength - 2) \div BlockLength + 1
    <3>1. n \in Nat \ {0} /\ BlockLength \in Nat \ {0}
      BY <1>2, Sizes
    <3> QED
      BY <3>1, BlocksCover, Division
  <2>3. count \in Nat /\ (whole < CountModulus => count = whole)
    <3>1. whole \in Nat /\ CountModulus \in Nat \ {0}
      BY <2>2, Sizes
    <3> HIDE DEF whole
    <3> QED
      BY <3>1, Division, Remainder
  <2>4. CountFits(n) => count = whole
    <3>1. (n + BlockLength - 2) \div BlockLength \in Nat
      BY <1>2, Sizes, Division
    <3> HIDE DEF whole, count
    <3> QED
      BY <2>2, <2>3, <3>1, Sizes DEF CountFits
  <2> HIDE DEF first, skip, whole, count
  <2>5. /\ y.ok \in BOOLEAN /\ y.pipe \in Seq(Packets(tag + 1)) /\ y.bytes \in Seq(Int)
        /\ y.ok => /\ pipe = <<>> /\ y.pipe = <<>>
                   /\ Len(y.bytes) = count * BlockLength
                   /\ InPlace(y.bytes, first * BlockLength)
    BY <2>1, <2>2, <2>3, Read10Correct
  <2>6. CASE y.ok /\ skip + n <= Len(y.bytes)
    <3>1. x.bytes = Select(y.bytes, from, n) /\ x.result = "ok"
      BY <2>1, <2>6
    <3>2. first * BlockLength \in Nat
      BY <2>2, Sizes
    <3>3. /\ x.bytes \in Seq(Int) /\ Len(x.bytes) = n /\ InPlace(x.bytes, from)
          /\ Contains(x.bytes, Zero) => Contains(y.bytes, Zero)
      <4> DEFINE start == first * BlockLength
                 bytes == y.bytes
                 some == Select(bytes, from, n)
      <4>1. /\ start \in Nat /\ bytes \in Seq(Int) /\ InPlace(bytes, start)
            /\ from = start + (from % BlockLength) /\ (from % BlockLength) + n <= Len(bytes)
        BY <2>2, <2>5, <2>6, <3>2 DEF skip
      <4> HIDE DEF start, bytes
      <4>2. /\ some \in Seq(Int) /\ Len(some) = n /\ InPlace(some, from)
            /\ Contains(some, Zero) => Contains(bytes, Zero)
        BY <4>1, SelectInPlace
      <4> HIDE DEF some
      <4>3. x.bytes = some /\ y.bytes = bytes
        BY <3>1 DEF some, bytes
      <4> QED
        BY <4>2, <4>3, Zenon
    <3>4. x.bytes \in Seq(Bytes)
      BY <3>3, InPlaceType
    <3>6. ~x.faulty => ~faulty /\ x.pipe = <<>> /\ ~Contains(x.bytes, Zero)
      BY <2>1, <2>5, <2>6, <3>3
    <3>7. x.tag \in Nat /\ x.seek \in Nat /\ x.faulty \in BOOLEAN /\ x.pipe \in Seq(Packets(x.tag))
      BY <2>1, <2>5 DEF Contains
    <3> QED
      BY <1>2, <3>1, <3>3, <3>4, <3>6, <3>7 DEF Sound, Leaves, Complete
  <2>7. CASE ~(y.ok /\ skip + n <= Len(y.bytes))
    <3>1. x.bytes = <<>> /\ x.result \in {"error", "panic"} /\ (x.result = "error" <=> ~y.ok)
      BY <2>1, <2>7
    <3>2. x.tag \in Nat /\ x.seek \in Nat /\ x.faulty \in BOOLEAN /\ x.pipe \in Seq(Packets(x.tag))
      BY <2>1, <2>5 DEF Contains
    <3>3. ~x.faulty => ~faulty /\ x.pipe = <<>>
      BY <2>1, <2>5
    <3>4. <<>> \in Seq(Bytes) /\ ~Contains(<<>>, Zero)
      BY DEF Contains
    <3>5. ~x.faulty => ~CountFits(n)
      BY <2>1, <2>2, <2>4, <2>5, <2>7, <3>1
    <3> QED
      BY <1>2, <3>1, <3>2, <3>3, <3>4, <3>5 DEF Sound, Leaves, Complete
  <2> QED
    BY <2>6, <2>7
<1>3. capacity \in Nat
  OBVIOUS
<1> QED
  BY <1>1, <1>2, <1>3

LEMMA Ends ==
  ASSUME part \in Partitions
  PROVE  Start(part) \in Nat /\ End(part) \in Nat /\ Start(part) <= End(part)
<1>1. PICK first \in Nat, sectors \in Nat : part = <<first, sectors>>
  BY ReaderAssumption
<1>2. Start(part) = first * BlockLength /\ End(part) = first * BlockLength + sectors * BlockLength
  BY <1>1, Sizes DEF Start, End
<1>3. first * BlockLength \in Nat /\ sectors * BlockLength \in Nat
  BY Sizes
<1> QED
  BY <1>2, <1>3

\* A shorter read takes no more blocks.
LEMMA FewerFit ==
  ASSUME NEW n \in Nat \ {0}, NEW m \in 1 .. n, CountFits(n)
  PROVE  CountFits(m)
<1> DEFINE b == BlockLength
           k == (m + b - 2) \div b
           l == (n + b - 2) \div b
<1>1. b \in Nat \ {0} /\ m + b - 2 \in Nat /\ n + b - 2 \in Nat
  BY Sizes
<1>2. k \in Nat /\ b * k <= m + b - 2
  BY <1>1, Division
<1>3. l \in Nat /\ n + b - 2 < b * l + b
  BY <1>1, Division
<1>4. CountFits(n) <=> l + 1 < CountModulus
  BY DEF CountFits
<1>5. CountFits(m) <=> k + 1 < CountModulus
  BY DEF CountFits
<1> HIDE DEF b, k, l
<1>6. b * (l + 1) = b * l + b
  BY <1>1, <1>3
<1>7. k < l + 1
  <2>1. b * k < b * (l + 1)
    BY <1>1, <1>2, <1>3, <1>6
  <2> QED
    BY <1>1, <1>2, <1>3, <2>1, Monotone
<1> QED
  BY <1>2, <1>3, <1>4, <1>5, <1>7, Sizes

\* IoSlice stays inside the partition, and has something until its end.
LEMMA SliceReadCorrect ==
  ASSUME Steady, part \in Partitions, NEW at \in Nat \cup {-1}, NEW n \in Nat \ {0},
         NEW x \in SliceRead(at, n)
  PROVE  /\ Sound(x) /\ Complete(x)
         /\ at = -1 => x.result = "error"
         /\ x.result = "ok" => at \in Nat /\ InPlace(x.bytes, at) /\ Len(x.bytes) <= n
         /\ at \in Nat /\ at <= End(part) =>
              /\ at + Len(x.bytes) <= End(part)
              /\ x.result = "ok" /\ x.bytes = <<>> => at = End(part)
         /\ ~x.faulty /\ at \in Nat /\ End(part) <= capacity /\ CountFits(n) => x.result = "ok"
<1>1. CASE at = -1 \/ at >= End(part)
  <2>1. x = [result |-> IF at = -1 THEN "error" ELSE "ok", bytes |-> <<>>, pipe |-> pipe,
             tag |-> tag, seek |-> seek, faulty |-> faulty]
    BY <1>1 DEF SliceRead
  <2>2. Sound(x) /\ Complete(x)
    <3>1. <<>> \in Seq(Bytes) /\ \A i \in 1 .. Len(<<>>) : FALSE
      OBVIOUS
    <3> QED
      BY <2>1, <3>1 DEF Steady, Sound, Leaves, Complete, Contains
  <2> QED
    BY <1>1, <2>1, <2>2, Ends DEF InPlace
<1>2. CASE at # -1 /\ ~(at >= End(part))
  <2> DEFINE m == Clip(part, at, n)
  <2>1. x \in UsbRead(at, m)
    BY <1>2 DEF SliceRead
  <2>2. at \in Nat /\ m \in 1 .. n /\ at + m <= End(part)
    BY <1>2, Ends DEF Clip, Smaller
  <2> HIDE DEF m
  <2>3. /\ Sound(x) /\ Complete(x)
        /\ x.result = "ok" => Len(x.bytes) = m /\ InPlace(x.bytes, at)
        /\ ~x.faulty /\ at + m <= capacity /\ (m > 0 => CountFits(m)) => x.result = "ok"
    BY <2>1, <2>2, UsbReadCorrect
  <2>4. CountFits(n) => CountFits(m)
    BY <2>2, FewerFit
  <2>5. x.result # "ok" => Len(x.bytes) = 0
    BY <2>3 DEF Sound, Leaves
  <2>6. x.result = "ok" => x.bytes # <<>>
    BY <2>2, <2>3
  <2> QED
    BY <1>2, <2>2, <2>3, <2>4, <2>5, <2>6, Ends DEF Steady
<1> QED
  BY <1>1, <1>2, Ends

\* Bytes in place that are cut in two are in place.
LEMMA CutInPlace ==
  ASSUME NEW c \in Nat, NEW held \in Seq(Int), InPlace(held, c), NEW k \in Nat, k <= Len(held)
  PROVE  /\ SubSeq(held, 1, k) \in Seq(Bytes) /\ Len(SubSeq(held, 1, k)) = k
         /\ InPlace(SubSeq(held, 1, k), c)
         /\ SubSeq(held, k + 1, Len(held)) \in Seq(Bytes)
         /\ Len(SubSeq(held, k + 1, Len(held))) = Len(held) - k
         /\ InPlace(SubSeq(held, k + 1, Len(held)), c + k)
<1> DEFINE l == Len(held)
           i == k + 1
           given == SubSeq(held, 1, k)
           kept == SubSeq(held, i, l)
<1>1. /\ 1 \in Nat \ {0} /\ 1 <= k + 1 /\ c + 1 - 1 = c /\ k - 1 + 1 = k
      /\ i \in Nat \ {0} /\ l \in Nat /\ i <= l + 1 /\ l <= Len(held) /\ k \in Nat
      /\ c + k = c + i - 1 /\ l - k = l - i + 1 /\ c + k \in Nat
  OBVIOUS
<1> HIDE DEF i, l
<1>2. given \in Seq(Int) /\ Len(given) = k - 1 + 1 /\ InPlace(given, c + 1 - 1)
  BY <1>1, PartInPlace
<1>3. kept \in Seq(Int) /\ Len(kept) = l - i + 1 /\ InPlace(kept, c + i - 1)
  BY <1>1, PartInPlace
<1> HIDE DEF given, kept
<1>4. given \in Seq(Int) /\ Len(given) = k /\ InPlace(given, c)
  BY <1>1, <1>2
<1>5. kept \in Seq(Int) /\ Len(kept) = l - k /\ InPlace(kept, c + k)
  BY <1>1, <1>3
<1>6. given \in Seq(Bytes) /\ kept \in Seq(Bytes)
  BY <1>1, <1>4, <1>5, InPlaceType
<1> QED
  BY <1>4, <1>5, <1>6 DEF given, kept, i, l

\* What BufReader does with what it holds: the first n bytes are given, the
\* others stay.
Given(held, n) == SubSeq(held, 1, Smaller(n, Len(held)))
Kept(held, n)  == SubSeq(held, Smaller(n, Len(held)) + 1, Len(held))

LEMMA SplitInPlace ==
  ASSUME NEW c \in Nat, NEW held \in Seq(Bytes), InPlace(held, c), NEW n \in Nat
  PROVE  /\ Given(held, n) \in Seq(Bytes) /\ InPlace(Given(held, n), c)
         /\ Len(Given(held, n)) <= n
         /\ Kept(held, n) \in Seq(Bytes) /\ InPlace(Kept(held, n), c + Len(Given(held, n)))
         /\ Len(Given(held, n)) + Len(Kept(held, n)) = Len(held)
         /\ n > 0 /\ held # <<>> => Given(held, n) # <<>>
<1> DEFINE k == Smaller(n, Len(held))
           l == Len(held)
           given == Given(held, n)
           kept == Kept(held, n)
<1>1. held \in Seq(Int)
  <2>1. Bytes \subseteq Int
    BY DEF Bytes, Zero
  <2> QED
    BY <2>1, SeqMonotonic
<1>2. l \in Nat /\ k \in Nat /\ k <= l /\ k <= n /\ (n > 0 /\ l > 0 => k > 0)
  BY <1>1, LenProperties DEF Smaller
<1>3. given = SubSeq(held, 1, k) /\ kept = SubSeq(held, k + 1, Len(held))
  BY DEF Given, Kept
<1> HIDE DEF k
<1>4. /\ SubSeq(held, 1, k) \in Seq(Bytes) /\ Len(SubSeq(held, 1, k)) = k
      /\ InPlace(SubSeq(held, 1, k), c)
      /\ SubSeq(held, k + 1, Len(held)) \in Seq(Bytes)
      /\ Len(SubSeq(held, k + 1, Len(held))) = Len(held) - k
      /\ InPlace(SubSeq(held, k + 1, Len(held)), c + k)
  BY <1>1, <1>2, CutInPlace
<1> HIDE DEF given, kept
<1>5. /\ given \in Seq(Bytes) /\ Len(given) = k /\ InPlace(given, c)
      /\ kept \in Seq(Bytes) /\ Len(kept) = Len(held) - k /\ InPlace(kept, c + k)
  BY <1>3, <1>4, Zenon
<1>6. held # <<>> => l > 0
  BY <1>1, <1>2, EmptySeq
<1>7. Len(given) + Len(kept) = l /\ Len(given) <= n
  <2>1. Len(given) = k /\ Len(kept) = l - k
    BY <1>5
  <2> HIDE DEF l
  <2> QED
    BY ONLY <2>1, <1>2
<1>8. n > 0 /\ held # <<>> => given # <<>>
  <2>1. Len(<<>>) = 0
    OBVIOUS
  <2>2. n > 0 /\ held # <<>> => k > 0
    BY <1>2, <1>6
  <2>3. Len(given) = k
    BY <1>5
  <2> HIDE DEF l
  <2> QED
    BY ONLY <1>2, <2>1, <2>2, <2>3
<1>9. InPlace(kept, c + Len(given))
  BY <1>5, Zenon
<1> QED
  BY <1>5, <1>7, <1>8, <1>9, Zenon DEF l, given, kept

\* BufReader, whose next byte is the one at c, gives bytes from there on, and
\* none only at the end of the partition; after an error it is where it was.
LEMMA BufReadCorrect ==
  ASSUME Steady, part \in Partitions, NEW n \in Nat, NEW x \in BufRead(n),
         NEW c \in Nat, ahead \in Seq(Bytes), InPlace(ahead, c),
         position \in Nat, position = c + Len(ahead), position <= End(part)
  PROVE  /\ Sound(x) /\ x.ahead \in Seq(Bytes)
         /\ InPlace(x.bytes, c) /\ Len(x.bytes) <= n
         /\ InPlace(x.ahead, c + Len(x.bytes))
         /\ x.position \in Nat /\ x.position = c + Len(x.bytes) + Len(x.ahead)
         /\ x.position <= End(part)
         /\ x.result = "ok" /\ x.bytes = <<>> /\ n > 0 => c = End(part)
         /\ /\ ~x.faulty /\ End(part) <= capacity
            /\ CountFits(BufSize) /\ (n >= BufSize => CountFits(n))
            => x.result = "ok"
<1>1. CASE ahead # <<>>
  <2>1. /\ x.result = "ok" /\ x.pipe = pipe /\ x.tag = tag /\ x.seek = seek /\ x.faulty = faulty
        /\ x.position = position
        /\ x.bytes = Given(ahead, n) /\ x.ahead = Kept(ahead, n)
    BY <1>1 DEF BufRead, Given, Kept
  <2> DEFINE given == Given(ahead, n)
             kept == Kept(ahead, n)
  <2>2. /\ given \in Seq(Bytes) /\ InPlace(given, c) /\ Len(given) <= n
        /\ kept \in Seq(Bytes) /\ InPlace(kept, c + Len(given))
        /\ Len(given) + Len(kept) = Len(ahead)
        /\ n > 0 => given # <<>>
    BY <1>1, SplitInPlace
  <2> HIDE DEF given, kept
  <2>3. x.bytes = given /\ x.ahead = kept
    BY <2>1 DEF given, kept
  <2>4. Sound(x)
    BY <2>1, <2>2, <2>3 DEF Sound, Leaves, Steady
  <2>5. Len(given) \in Nat /\ Len(kept) \in Nat
    BY <2>2, LenProperties
  <2>6. position = c + Len(given) + Len(kept)
    <3>1. position = c + (Len(given) + Len(kept))
      BY <2>2
    <3> QED
      BY <2>5, <3>1
  <2> QED
    BY <2>1, <2>2, <2>3, <2>4, <2>6, Zenon
<1>2. CASE ahead = <<>>
  <2> DEFINE m == IF n >= BufSize THEN n ELSE BufSize
  <2>1. PICK y \in SliceRead(position, m) :
          /\ x.result = y.result /\ x.pipe = y.pipe /\ x.tag = y.tag /\ x.seek = y.seek
          /\ x.faulty = y.faulty /\ x.position = Advance(position, Len(y.bytes))
          /\ x.bytes = Given(y.bytes, n) /\ x.ahead = Kept(y.bytes, n)
    BY <1>2 DEF BufRead, Given, Kept
  <2>2. m \in Nat \ {0} /\ (n >= BufSize \/ m = BufSize) /\ (n >= BufSize => m = n)
    BY Sizes
  <2> HIDE DEF m
  <2>3. position = c
    BY <1>2
  <2>4. /\ Sound(y)
        /\ y.result = "ok" => InPlace(y.bytes, c)
        /\ position + Len(y.bytes) <= End(part)
        /\ y.result = "ok" /\ y.bytes = <<>> => c = End(part)
        /\ ~y.faulty /\ End(part) <= capacity /\ CountFits(m) => y.result = "ok"
    BY <2>1, <2>2, <2>3, SliceReadCorrect
  <2> DEFINE data == y.bytes
             given == Given(data, n)
             kept == Kept(data, n)
  <2>5. data \in Seq(Bytes) /\ InPlace(data, c)
    <3>1. InPlace(<<>>, c)
      BY DEF InPlace
    <3> QED
      BY <2>4, <3>1 DEF Sound, Leaves
  <2>6. /\ position + Len(data) <= End(part)
        /\ y.result = "ok" /\ data = <<>> => c = End(part)
        /\ y.result # "ok" => data = <<>>
        /\ x.bytes = given /\ x.ahead = kept /\ x.position = position + Len(data)
    BY <2>1, <2>4 DEF Sound, Leaves, Advance
  <2> HIDE DEF data
  <2>7. /\ given \in Seq(Bytes) /\ InPlace(given, c) /\ Len(given) <= n
        /\ kept \in Seq(Bytes) /\ InPlace(kept, c + Len(given))
        /\ Len(given) + Len(kept) = Len(data)
        /\ n > 0 /\ data # <<>> => given # <<>>
    BY <2>5, SplitInPlace
  <2> HIDE DEF given, kept
  <2>8. Len(given) \in Nat /\ Len(kept) \in Nat /\ Len(data) \in Nat
    BY <2>5, <2>7, LenProperties
  <2>9. y.result # "ok" => given = <<>>
    <3>1. Len(<<>>) = 0
      OBVIOUS
    <3>2. y.result # "ok" => Len(given) = 0
      BY <2>6, <2>7, <2>8, <3>1
    <3> QED
      BY <2>7, <3>2, EmptySeq
  <2>10. Sound(x)
    BY <2>1, <2>4, <2>6, <2>7, <2>9 DEF Sound, Leaves
  <2>11. position + Len(data) = c + Len(given) + Len(kept) /\ position + Len(data) \in Nat
    BY <2>3, <2>7, <2>8
  <2>12. x.position \in Nat /\ x.position = c + Len(given) + Len(kept) /\ x.position <= End(part)
    BY <2>6, <2>11, Zenon
  <2>13. x.result = "ok" /\ given = <<>> /\ n > 0 => c = End(part)
    BY <2>1, <2>6, <2>7
  <2>14. /\ ~x.faulty /\ End(part) <= capacity
         /\ CountFits(BufSize) /\ (n >= BufSize => CountFits(n))
         => x.result = "ok"
    BY <2>1, <2>2, <2>4
  <2> QED
    BY <2>6, <2>7, <2>10, <2>12, <2>13, <2>14, Zenon
<1> QED
  BY <1>1, <1>2

\* On a file that could not be found the reader fails, and stays as it is.
LEMMA BufReadLost ==
  ASSUME Steady, part \in Partitions, NEW n \in Nat, NEW x \in BufRead(n),
         ahead = <<>>, position = -1
  PROVE  /\ Sound(x) /\ x.result = "error" /\ x.bytes = <<>>
         /\ x.position = -1 /\ x.ahead = <<>>
<1>1. PICK y \in SliceRead(-1, IF n >= BufSize THEN n ELSE BufSize) :
          /\ x.result = y.result /\ x.pipe = y.pipe /\ x.tag = y.tag /\ x.seek = y.seek
          /\ x.faulty = y.faulty /\ x.position = Advance(-1, Len(y.bytes))
          /\ x.bytes = Given(y.bytes, n) /\ x.ahead = Kept(y.bytes, n)
  BY DEF BufRead, Given, Kept
<1>2. y = [result |-> "error", bytes |-> <<>>, pipe |-> pipe, tag |-> tag, seek |-> seek,
           faulty |-> faulty]
  BY <1>1 DEF SliceRead
<1>3. Given(<<>>, n) = <<>> /\ Kept(<<>>, n) = <<>> /\ Advance(-1, Len(<<>>)) = -1
  <2>1. Len(<<>>) = 0 /\ Smaller(n, 0) = 0
    BY DEF Smaller
  <2> QED
    BY <2>1 DEF Given, Kept, Advance
<1>4. x.bytes = <<>> /\ x.ahead = <<>> /\ x.position = -1
  BY <1>1, <1>2, <1>3
<1>5. <<>> \in Seq(Bytes)
  OBVIOUS
<1> QED
  BY <1>1, <1>2, <1>4, <1>5 DEF Sound, Leaves, Steady

\* The library refuses metadata with holes.
LEMMA MetadataCorrect ==
  ASSUME Steady, part \in Partitions, NEW x \in Metadata
  PROVE  /\ Leaves(x)
         /\ ~x.faulty /\ End(part) <= capacity /\ CountFits(BufSize) => x.result = "ok"
<1>1. PICK y \in SliceRead(Start(part), BufSize) :
        x = [y EXCEPT !.result = IF @ = "ok" /\ Contains(y.bytes, Zero) THEN "error" ELSE @]
  BY DEF Metadata
<1>2. /\ Leaves(y) /\ Complete(y)
      /\ ~y.faulty /\ End(part) <= capacity /\ CountFits(BufSize) => y.result = "ok"
  BY <1>1, SliceReadCorrect, Ends, Sizes DEF Sound
<1>3. /\ x.tag = y.tag /\ x.seek = y.seek /\ x.faulty = y.faulty /\ x.pipe = y.pipe
      /\ x.result = IF y.result = "ok" /\ Contains(y.bytes, Zero) THEN "error" ELSE y.result
  BY <1>1
<1> QED
  BY <1>2, <1>3 DEF Leaves, Complete

-----------------------------------------------------------------------------
(* Steps *)

\* What Keep needs of a read
LEMMA Keeping ==
  ASSUME NEW x, Leaves(x), Keep(x)
  PROVE  /\ seek' \in Nat /\ tag' \in Nat /\ faulty' \in BOOLEAN
         /\ pipe' \in Seq(Packets(tag')) /\ pipe' \in Seq(Packets(tag' + 1))
         /\ ~faulty' => ~faulty /\ ~x.faulty /\ pipe' = <<>>
<1>1. /\ seek' \in Nat /\ tag' \in Nat /\ faulty' \in BOOLEAN /\ pipe' \in Seq(Packets(tag'))
      /\ ~faulty' => ~faulty /\ ~x.faulty /\ pipe' = <<>>
  BY DEF Keep, Leaves
<1>2. tag' + 1 \in Nat /\ tag' <= tag' + 1
  <2>1. \A k \in Nat : k + 1 \in Nat /\ k <= k + 1
    OBVIOUS
  <2> QED
    BY <1>1, <2>1, Zenon
<1> QED
  BY <1>1, <1>2, PacketsGrow

\* Between commands of a device that has been opened
LEMMA NowSteady ==
  ASSUME TypeInv, FaultInv, pc \in {"mbr", "open", "file", "run"}
  PROVE  Steady
<1>1. capacity \in Nat
  <2>1. capacity \in {0, LastLba * BlockLength} /\ 0 \in Nat
    BY DEF TypeInv
  <2> QED
    BY <2>1, Sizes, Zenon
<1> QED
  BY <1>1 DEF TypeInv, FaultInv, Steady

\* Before anything is read there is nothing to be out of place.
LEMMA NothingRead ==
  ASSUME got' = <<>>, hashes' = <<>>, pc' # "done"
  PROVE  DeliveredInPlace' /\ WholeOrNothing' /\ LeftOut'
<1>1. DOMAIN <<>> = {} /\ Len(<<>>) = 0
  OBVIOUS
<1>2. InPlace(got', Start(part'))
  BY <1>1 DEF InPlace
<1>3. DeliveredInPlace'
  BY <1>1, <1>2 DEF DeliveredInPlace
<1>4. WholeOrNothing'
  BY <1>1 DEF WholeOrNothing
<1>5. LeftOut'
  BY <1>1 DEF LeftOut
<1> QED
  BY <1>3, <1>4, <1>5

LEMMA InitCorrect == Init => ReaderInv
<1> SUFFICES ASSUME Init PROVE ReaderInv
  OBVIOUS
<1> USE DEF Init
<1>1. pipe \in Seq(Packets(1))
  <2>1. <<Odd, Odd, Odd>> \in Seq(Int)
    BY DEF Odd
  <2>2. Csw(1, TRUE) \in Packets(1)
    BY <2>1 DEF Csw, Packets
  <2> HIDE DEF Init
  <2>3. pipe \in {<<>>, <<Csw(1, TRUE)>>} /\ tag = 0
    BY DEF Init
  <2>4. \A S : \A a \in S : <<>> \in Seq(S) /\ <<a>> \in Seq(S)
    OBVIOUS
  <2> QED
    BY <2>2, <2>3, <2>4, Zenon
<1>2. DOMAIN <<>> = {} /\ Len(<<>>) = 0 /\ \A S : <<>> \in Seq(S)
  OBVIOUS
<1>3. TypeInv
  <2>1. tag + 1 = 1
    OBVIOUS
  <2> QED
    BY <1>1, <1>2, <2>1 DEF TypeInv, Points
<1>4. StageInv
  BY <1>2, LenProperties, ReaderAssumption DEF StageInv
<1>5. ReadingInv /\ WholeOrNothing
  BY <1>2 DEF ReadingInv, WholeOrNothing
<1>6. DeliveredInPlace
  <2>1. InPlace(got, Start(part))
    BY <1>2 DEF InPlace
  <2> QED
    BY <1>2, <2>1 DEF DeliveredInPlace
<1>7. FaultInv
  BY <1>2 DEF FaultInv, LeftOut
<1> QED
  BY <1>3, <1>4, <1>5, <1>6, <1>7 DEF ReaderInv

LEMMA ResetCorrect == ReaderInv /\ Reset => ReaderInv'
<1> SUFFICES ASSUME ReaderInv, Reset PROVE ReaderInv'
  OBVIOUS
<1> USE DEF ReaderInv, Reset, sliceVars, Go
<1>1. pc' \in {"test", "exit"} /\ pipe' \in {pipe, <<>>} /\ faulty' \in BOOLEAN
      /\ (~faulty' => pipe' = <<>> /\ pc' = "test")
  OBVIOUS
<1>2. TypeInv'
  <2>1. \A S : <<>> \in Seq(S)
    OBVIOUS
  <2>2. pipe' \in Seq(Packets(tag + 1))
    BY <1>1, <2>1, Zenon DEF TypeInv
  <2> QED
    BY <1>1, <2>2 DEF TypeInv, Points
<1>3. StageInv' /\ ReadingInv'
  BY <1>1 DEF StageInv, ReadingInv
<1>4. DeliveredInPlace' /\ WholeOrNothing' /\ LeftOut'
  BY <1>1, NothingRead DEF StageInv
<1>5. FaultInv'
  BY <1>1, <1>4 DEF FaultInv
<1> QED
  BY <1>2, <1>3, <1>4, <1>5

\* A status that may have been left by another process is collected in place of
\* the one it precedes.
LEMMA TestUnitReadyCorrect == ReaderInv /\ TestUnitReady => ReaderInv'
<1> SUFFICES ASSUME ReaderInv, TestUnitReady PROVE ReaderInv'
  OBVIOUS
<1> USE DEF ReaderInv, sliceVars, Go
<1> DEFINE t == tag + 1
<1>1. PICK x \in SendOverUsb(t) :
        pc' = (IF x.ok THEN "capacity" ELSE "exit") /\ pipe' = x.pipe /\ faulty' = (faulty \/ ~x.ok)
  BY DEF TestUnitReady
<1>12. PICK r \in StatusOnly(t) :
        x = [ok |-> FALSE, bytes |-> <<>>, pipe |-> pipe \o r] \/ x \in Statuses(t, pipe \o r, <<>>)
  BY DEF SendOverUsb
<1>2. t \in Nat \ {0} /\ pipe \in Seq(Packets(t)) /\ pc = "test"
  BY DEF TypeInv, TestUnitReady
<1> HIDE DEF t
<1>3. r \in Seq(Packets(t)) /\ (r # <<>> => Len(r) = 1)
  <2>1. <<Odd, Odd, Odd>> \in Seq(Int)
    BY DEF Odd
  <2>2. \A ok \in BOOLEAN : Csw(t, ok) \in Packets(t)
    BY <1>2, <2>1 DEF Csw, Packets
  <2> DEFINE S == Packets(t)
  <2>3. \A a \in S : <<>> \in Seq(S) /\ <<a>> \in Seq(S) /\ Len(<<a>>) = 1
    <3> HIDE DEF S
    <3> QED
      OBVIOUS
  <2>4. r = <<>> \/ \E ok \in BOOLEAN : r = <<Csw(t, ok)>>
    BY DEF StatusOnly
  <2>5. <<>> \in Seq(S)
    OBVIOUS
  <2> QED
    BY <2>2, <2>3, <2>4, <2>5, Zenon
<1>4. pipe \o r \in Seq(Packets(t)) /\ (pipe = <<>> => pipe \o r = r)
  BY <1>2, <1>3, ConcatProperties, ConcatEmptySeq
<1>5. /\ x.ok \in BOOLEAN /\ x.pipe \in Seq(Packets(t))
      /\ x.ok => pipe \o r # <<>> /\ x.pipe = Tail(pipe \o r)
  <2>1. CASE x = [ok |-> FALSE, bytes |-> <<>>, pipe |-> pipe \o r]
    BY <1>4, <2>1
  <2>2. CASE x \in Statuses(t, pipe \o r, <<>>)
    BY <1>2, <1>4, <2>2, StatusesType
  <2> QED
    BY <1>12, <2>1, <2>2
<1>6. x.ok /\ pipe = <<>> => x.pipe = <<>>
  <2> SUFFICES ASSUME x.ok, pipe = <<>> PROVE x.pipe = <<>>
    OBVIOUS
  <2>1. r # <<>> /\ x.pipe = Tail(r)
    BY <1>4, <1>5
  <2>2. Tail(r) \in Seq(Packets(t)) /\ Len(Tail(r)) = 0
    BY <1>3, <2>1, HeadTailProperties
  <2> QED
    BY <2>1, <2>2, EmptySeq
<1>7. t + 1 \in Nat /\ pipe' \in Seq(Packets(t + 1)) /\ pipe' \in Seq(Packets(t)) /\ tag' = t
  BY <1>1, <1>2, <1>5, PacketsGrow DEF TestUnitReady, t
<1>8. TypeInv'
  BY <1>1, <1>2, <1>5, <1>7 DEF TypeInv, Points, TestUnitReady
<1>9. StageInv' /\ ReadingInv'
  BY <1>1, <1>2 DEF StageInv, ReadingInv, TestUnitReady
<1>10. DeliveredInPlace' /\ WholeOrNothing' /\ LeftOut'
  BY <1>1, <1>2, NothingRead DEF StageInv, TestUnitReady
<1>11. FaultInv'
  BY <1>1, <1>2, <1>5, <1>6, <1>10 DEF FaultInv, TestUnitReady
<1> QED
  BY <1>8, <1>9, <1>10, <1>11

LEMMA ReadCapacityCorrect == ReaderInv /\ ReadCapacity => ReaderInv'
<1> SUFFICES ASSUME ReaderInv, ReadCapacity PROVE ReaderInv'
  OBVIOUS
<1> USE DEF ReaderInv, sliceVars, Go
<1>1. PICK x \in ReceiveOverUsb(tag + 1, <<LastLba>>) :
        LET ok == x.ok /\ ~Contains(x.bytes, Odd)
            whole == ok /\ x.bytes = <<LastLba>>
        IN  /\ pc' = (IF ok THEN "mbr" ELSE "exit")
            /\ capacity' = (IF whole THEN Capacity(LastLba, BlockLength) ELSE 0)
            /\ pipe' = x.pipe
            /\ faulty' = (faulty \/ ~whole)
  BY DEF ReadCapacity
<1>2. pc = "capacity" /\ tag \in Nat /\ pipe \in Seq(Packets(tag)) /\ tag' = tag + 1
  BY DEF TypeInv, ReadCapacity
<1>3. x.ok \in BOOLEAN /\ x.pipe \in Seq(Packets(tag + 1)) /\ (x.ok => x.pipe = <<>>)
  <2>1. tag + 1 \in Nat \ {0} /\ (tag + 1) - 1 = tag /\ <<LastLba>> \in Seq(Int)
    BY <1>2, Sizes
  <2>2. pipe \in Seq(Packets((tag + 1) - 1))
    BY <1>2, <2>1
  <2> QED
    BY <2>1, <2>2, Received
<1>4. /\ tag' \in Nat /\ tag' + 1 \in Nat
      /\ pipe' \in Seq(Packets(tag')) /\ pipe' \in Seq(Packets(tag' + 1))
  BY <1>1, <1>2, <1>3, PacketsGrow
<1>5. TypeInv'
  BY <1>1, <1>2, <1>4 DEF TypeInv, Points, ReadCapacity, Capacity
<1>6. StageInv' /\ ReadingInv'
  BY <1>1, <1>2 DEF StageInv, ReadingInv, ReadCapacity
<1>7. DeliveredInPlace' /\ WholeOrNothing' /\ LeftOut'
  BY <1>1, <1>2, NothingRead DEF StageInv, ReadCapacity
<1>8. FaultInv'
  BY <1>1, <1>2, <1>3, <1>7 DEF FaultInv, ReadCapacity, Capacity
<1> QED
  BY <1>5, <1>6, <1>7, <1>8

\* The first command with data the program looks at: what it reads lies below
\* the capacity, so that the capacity is known.
LEMMA ReadMbrCorrect == ReaderInv /\ ReadMbr => ReaderInv'
<1> SUFFICES ASSUME ReaderInv, ReadMbr PROVE ReaderInv'
  OBVIOUS
<1> USE DEF ReaderInv, sliceVars, Go
<1>1. PICK x \in UsbRead(0, BlockLength) :
        /\ Keep(x)
        /\ pc' = IF x.result = "ok" /\ ~Contains(x.bytes, Zero) /\ Start(part) < End(part)
                 THEN IF program \in {"hash", "throughput"} THEN "open" ELSE "run"
                 ELSE "exit"
  BY DEF ReadMbr
<1>2. /\ pc = "mbr" /\ position' = Start(part)
      /\ UNCHANGED <<capacity, part, ahead, program, turn, pass, got, hashes>>
  BY DEF ReadMbr
<1>3. Steady
  BY <1>2, NowSteady
<1>4. /\ Leaves(x) /\ Complete(x)
      /\ x.result = "ok" => BlockLength <= capacity
      /\ ~x.faulty /\ BlockLength <= capacity /\ CountFits(BlockLength) => x.result = "ok"
  <2>1. BlockLength \in Nat /\ BlockLength > 0 /\ 0 + BlockLength = BlockLength
    BY Sizes
  <2> QED
    BY <1>1, <1>3, <2>1, UsbReadCorrect DEF Sound
<1>5. /\ seek' \in Nat /\ tag' \in Nat /\ faulty' \in BOOLEAN
      /\ pipe' \in Seq(Packets(tag')) /\ pipe' \in Seq(Packets(tag' + 1))
      /\ ~faulty' => ~faulty /\ ~x.faulty /\ pipe' = <<>>
  BY <1>1, <1>4, Keeping
<1>6. part \in Partitions /\ Start(part) \in Nat /\ End(part) \in Nat /\ Start(part) <= End(part)
  BY Ends DEF TypeInv
<1>7. ahead = <<>> /\ got = <<>> /\ hashes = <<>> /\ turn = 0
  BY <1>2 DEF StageInv
<1>8. TypeInv'
  BY <1>1, <1>2, <1>5, <1>6 DEF TypeInv, Points
<1>9. StageInv'
  <2>1. pc' # "exit" => capacity = LastLba * BlockLength /\ Start(part) < End(part)
    BY <1>1, <1>4, Sizes DEF TypeInv
  <2>2. Start(part)' = Start(part) /\ End(part)' = End(part)
    BY <1>2 DEF Start, End
  <2>3. pc' \in {"open", "run", "exit"} /\ (pc' = "open" <=> pc' # "exit" /\ program \in {"hash", "throughput"})
    BY <1>1
  <2> QED
    BY <1>2, <1>7, <2>1, <2>2, <2>3 DEF StageInv
<1>10. ReadingInv'
  <2> SUFFICES ASSUME pc' = "run", program # "latency" PROVE Reading' /\ program = "readlot" /\ position' # -1
    BY <1>2 DEF ReadingInv
  <2>1. program = "readlot"
    BY <1>1, ReaderAssumption DEF TypeInv
  <2>2. Base' = Start(part) /\ End(part)' = End(part)
    BY <1>2, <2>1 DEF Base, Start, End
  <2>3. Len(<<>>) = 0 /\ position' = Start(part) /\ got' = <<>> /\ ahead' = <<>>
    BY <1>2, <1>7
  <2>4. InPlace(ahead, Base + Len(got))'
    BY <2>3 DEF InPlace
  <2>5. Reading'
    BY <1>6, <2>2, <2>3, <2>4 DEF Reading
  <2> QED
    BY <1>6, <2>1, <2>3, <2>5
<1>11. DeliveredInPlace' /\ WholeOrNothing' /\ LeftOut'
  BY <1>1, <1>2, <1>7, NothingRead
<1>12. FaultInv'
  <2>1. Readable' => Readable
    BY <1>2 DEF Readable, FileStart, Start, End
  <2>2. Readable => CountFits(BlockLength) /\ Start(part) < End(part)
    <3>1. PICK first \in Nat, sectors \in Nat : part = <<first, sectors>>
      BY <1>6, ReaderAssumption
    <3>2. Start(part) = first * BlockLength /\ End(part) = first * BlockLength + sectors * BlockLength
      BY <3>1, Sizes DEF Start, End
    <3>3. Readable => sectors \in Nat \ {0}
      BY <3>1 DEF Readable
    <3>4. first * BlockLength \in Nat /\ (Readable => sectors * BlockLength \in Nat \ {0})
      BY <3>3, Sizes
    <3>5. Readable => CountFits(BlockLength)
      BY DEF Readable
    <3> QED
      BY <3>2, <3>4, <3>5
  <2>3. ~faulty' /\ Readable => pc' # "exit"
    <3>1. ~faulty => capacity = LastLba * BlockLength
      BY <1>2 DEF FaultInv
    <3> QED
      BY <1>1, <1>4, <1>5, <2>2, <3>1, Sizes DEF Complete
  <2>4. pc' \in {"open", "run", "exit"} /\ position' # -1
    BY <1>1, <1>2, <1>6
  <2> QED
    BY <1>5, <1>11, <2>1, <2>3, <2>4 DEF FaultInv
<1> QED
  BY <1>8, <1>9, <1>10, <1>11, <1>12

\* Two sequences in place, one after the other
LEMMA JoinInPlace ==
  ASSUME NEW c \in Nat, NEW s \in Seq(Bytes), InPlace(s, c), NEW d \in Nat, d = c + Len(s),
         NEW u \in Seq(Bytes), InPlace(u, d)
  PROVE  s \o u \in Seq(Bytes) /\ Len(s \o u) = Len(s) + Len(u) /\ InPlace(s \o u, c)
<1> DEFINE k == Len(s)
           l == Len(u)
           all == s \o u
<1>1. /\ all \in Seq(Bytes) /\ Len(all) = k + l
      /\ \A i \in 1 .. k + l : all[i] = IF i <= k THEN s[i] ELSE u[i - k]
  BY ConcatProperties
<1>2. k \in Nat /\ l \in Nat
  BY LenProperties
<1>3. /\ \A i \in 1 .. k : s[i] \in {c + i - 1, Zero}
      /\ \A i \in 1 .. l : u[i] \in {d + i - 1, Zero}
      /\ d = c + k
  BY DEF InPlace
<1> HIDE DEF all, k, l
<1>4. ASSUME NEW i \in 1 .. k + l PROVE all[i] \in {c + i - 1, Zero}
  <2>1. CASE i <= k
    <3>1. i \in 1 .. k /\ all[i] = s[i]
      BY <1>1, <1>2, <2>1
    <3> QED
      BY <1>3, <3>1
  <2>2. CASE ~(i <= k)
    <3>1. d = c + k
      BY <1>3
    <3>2. i - k \in 1 .. l /\ d + (i - k) - 1 = c + i - 1
      BY <1>2, <2>2, <3>1
    <3>3. all[i] = u[i - k]
      BY <1>1, <2>2
    <3>4. u[i - k] \in {d + (i - k) - 1, Zero}
      BY <1>3, <3>2
    <3> QED
      BY <3>2, <3>3, <3>4, Zenon
  <2> QED
    BY <2>1, <2>2
<1> QED
  BY <1>1, <1>4 DEF InPlace, all, k, l

\* While files or a partition are read the capacity is what Readable speaks of.
LEMMA InReach ==
  ASSUME ReaderInv, pc \in {"open", "file", "run"}, Readable
  PROVE  /\ End(part) <= capacity /\ CountFits(BufSize) /\ CountFits(Cluster) /\ CountFits(ReadSize)
         /\ capacity % ReadSize = 0
  BY DEF ReaderInv, StageInv, Readable

\* io::copy gives what it read to the file; it ends at the end of the partition.
LEMMA CopyCorrect == ReaderInv /\ Copy => ReaderInv'
<1> SUFFICES ASSUME ReaderInv, Copy PROVE ReaderInv'
  OBVIOUS
<1> DEFINE c == Start(part) + Len(got)
<1>1. /\ pc = "run" /\ program = "readlot"
      /\ UNCHANGED <<capacity, part, program, turn, pass, hashes>>
  BY DEF Copy
<1>2. PICK x \in BufRead(BufSize) :
        /\ Keep(x) /\ position' = x.position /\ ahead' = x.ahead
        /\ got' = got \o x.bytes
        /\ pc' = IF x.result # "ok" THEN "panic" ELSE IF x.bytes = <<>> THEN "done" ELSE "run"
  BY DEF Copy
<1>3. Steady
  BY <1>1, NowSteady DEF ReaderInv
<1>4. part \in Partitions /\ Start(part) \in Nat /\ End(part) \in Nat
  BY Ends DEF ReaderInv, TypeInv
<1>5. /\ got \in Seq(Bytes) /\ ahead \in Seq(Bytes) /\ Len(got) \in Nat /\ Len(ahead) \in Nat
      /\ c \in Nat /\ InPlace(got, Start(part)) /\ hashes = <<>>
      /\ position \in Nat /\ position = c + Len(ahead) /\ position <= End(part)
      /\ InPlace(ahead, c)
  <2>1. got \in Seq(Bytes) /\ ahead \in Seq(Bytes) /\ hashes = <<>> /\ InPlace(got, Start(part))
    BY <1>1 DEF ReaderInv, TypeInv, StageInv, DeliveredInPlace
  <2>2. Reading /\ position # -1 /\ Base = Start(part)
    BY <1>1 DEF ReaderInv, ReadingInv, Base
  <2>3. Len(got) \in Nat /\ Len(ahead) \in Nat
    BY <2>1, LenProperties
  <2> QED
    BY <1>4, <2>1, <2>2, <2>3 DEF Reading
<1> DEFINE given == x.bytes
           kept == x.ahead
<1>6. /\ Leaves(x) /\ given \in Seq(Bytes) /\ kept \in Seq(Bytes)
      /\ InPlace(given, c) /\ InPlace(kept, c + Len(given))
      /\ x.position \in Nat /\ x.position = c + Len(given) + Len(kept)
      /\ x.position <= End(part)
      /\ x.result = "ok" /\ given = <<>> => c = End(part)
      /\ ~x.faulty /\ End(part) <= capacity /\ CountFits(BufSize) => x.result = "ok"
  <2>1. BufSize \in Nat /\ BufSize > 0
    BY Sizes
  <2> HIDE DEF c
  <2> QED
    BY <1>2, <1>3, <1>4, <1>5, <2>1, BufReadCorrect DEF Sound
<1>7. got' = got \o given /\ ahead' = kept /\ (pc' = "done" => x.result = "ok" /\ given = <<>>)
  BY <1>2
<1> HIDE DEF given, kept
<1>8. /\ seek' \in Nat /\ tag' \in Nat /\ faulty' \in BOOLEAN
      /\ pipe' \in Seq(Packets(tag')) /\ pipe' \in Seq(Packets(tag' + 1))
      /\ ~faulty' => ~faulty /\ ~x.faulty /\ pipe' = <<>>
  BY <1>2, <1>6, Keeping
<1>9. /\ got' \in Seq(Bytes) /\ Len(got') = Len(got) + Len(given) /\ InPlace(got', Start(part))
  BY <1>4, <1>5, <1>6, <1>7, JoinInPlace
<1>10. Len(given) \in Nat /\ Len(kept) \in Nat /\ Len(<<>>) = 0
  BY <1>6, LenProperties
<1>11. Start(part)' = Start(part) /\ End(part)' = End(part) /\ (Readable' => Readable)
  BY <1>1 DEF Readable, FileStart, Start, End
<1>12. pc' \in {"run", "done", "panic"}
  BY <1>2
<1>13. TypeInv'
  <2>1. pass \in Nat /\ turn \in Nat /\ program \in Programs /\ hashes \in Seq(SUBSET Seq(Bytes))
        /\ capacity \in {0, LastLba * BlockLength}
    BY DEF ReaderInv, TypeInv
  <2> QED
    BY <1>1, <1>2, <1>4, <1>6, <1>7, <1>8, <1>9, <1>12, <2>1 DEF TypeInv, Points
<1>14. StageInv'
  <2>1. capacity = LastLba * BlockLength /\ Start(part) < End(part) /\ Len(hashes) <= Len(Files)
    BY <1>1 DEF ReaderInv, StageInv
  <2> QED
    BY <1>1, <1>5, <1>11, <1>12, <2>1 DEF StageInv
<1>15. ReadingInv'
  <2>1. Base' = Start(part)
    BY <1>1, <1>11 DEF Base
  <2>2. c + Len(given) = Start(part) + Len(got') /\ c + Len(given) = Base' + Len(got')
    BY <1>4, <1>5, <1>9, <1>10, <2>1
  <2>3. InPlace(kept, Base' + Len(got')) /\ position' = Base' + Len(got') + Len(kept)
    <3> HIDE DEF c
    <3> QED
      BY <1>2, <1>6, <2>2, Zenon
  <2>4. InPlace(ahead, Base + Len(got))'
    BY <1>7, <2>3 DEF InPlace
  <2>5. position' \in Nat /\ position' <= End(part)'
    BY <1>2, <1>6, <1>11
  <2>6. Reading'
    BY <1>7, <2>3, <2>4, <2>5 DEF Reading
  <2> QED
    BY <1>1, <2>5, <2>6 DEF ReadingInv
<1>16. DeliveredInPlace'
  <2>1. DOMAIN hashes' = {}
    BY <1>1, <1>5
  <2>2. InPlace(got, Start(part))'
    BY <1>9, <1>11 DEF InPlace
  <2> QED
    BY <1>1, <2>1, <2>2 DEF DeliveredInPlace
<1>17. WholeOrNothing'
  <2>1. DOMAIN hashes' = {}
    BY <1>1, <1>5
  <2>2. pc' = "done" => Len(got') = End(part) - Start(part)
    BY <1>4, <1>5, <1>6, <1>7, <1>9, <1>10
  <2> QED
    BY <1>1, <1>11, <2>1, <2>2 DEF WholeOrNothing
<1>18. FaultInv'
  <2>1. LeftOut'
    BY <1>1, <1>5 DEF LeftOut
  <2>2. ~faulty' /\ Readable => x.result = "ok"
    BY <1>1, <1>6, <1>8, InReach
  <2>3. position' # -1
    BY <1>2, <1>6
  <2> QED
    BY <1>2, <1>8, <1>11, <1>12, <2>1, <2>2, <2>3 DEF FaultInv
<1> QED
  BY <1>13, <1>14, <1>15, <1>16, <1>17, <1>18 DEF ReaderInv

\* A stick of a whole number of buffers holds the whole of each.
LEMMA Aligned ==
  ASSUME NEW r \in Nat \ {0}, NEW size \in Nat \ {0}, size % r = 0, NEW k \in Nat
  PROVE  (k * r) % size \in Nat /\ ((k * r) % size) + r <= size
<1> DEFINE q == size \div r
           d == (k * r) \div size
           p == (k * r) % size
<1>1. q \in Nat /\ size = r * q
  BY Division
<1>2. k * r \in Nat
  OBVIOUS
<1>3. d \in Nat /\ p \in Nat /\ p < size /\ k * r = size * d + p
  BY <1>2, Division
<1> HIDE DEF q, d, p
<1>4. q * d \in Nat /\ size * d = r * (q * d)
  BY <1>1, <1>3
<1>5. p = r * (k - q * d)
  <2>1. r * (k - q * d) = k * r - r * (q * d)
    BY <1>4
  <2>2. k * r \in Nat /\ r * (q * d) \in Nat /\ p = k * r - r * (q * d)
    BY <1>2, <1>3, <1>4
  <2> QED
    BY <2>1, <2>2
<1>6. k - q * d < q
  <2>1. r * (k - q * d) < r * q
    BY <1>1, <1>3, <1>5
  <2> QED
    BY <1>1, <1>4, <2>1, Monotone
<1>7. ~(r * q < r * (k - q * d + 1))
  <2>1. ~(q < k - q * d + 1) /\ k - q * d + 1 \in Int
    BY <1>1, <1>4, <1>6
  <2> QED
    BY <1>1, <2>1, Monotone
<1>8. r * (k - q * d + 1) = p + r
  BY <1>4, <1>5
<1> QED
  BY <1>1, <1>3, <1>7, <1>8 DEF p

\* A buffer of read_latency is that of the read it made; the file is not read.
LEMMA LatencyCorrect == ReaderInv /\ Latency => ReaderInv'
<1> SUFFICES ASSUME ReaderInv, Latency PROVE ReaderInv'
  OBVIOUS
<1> DEFINE p == IF turn = 0 THEN 0 ELSE Position(turn, capacity)
<1>1. /\ pc = "run" /\ program = "latency"
      /\ UNCHANGED <<capacity, part, position, ahead, program, pass, hashes>>
  BY DEF Latency, sliceVars
<1>2. PICK x \in UsbRead(p, ReadSize) :
        /\ Keep(x)
        /\ got' = x.bytes
        /\ pc' = IF x.result # "ok" THEN "panic" ELSE IF turn = Reads THEN "done" ELSE "run"
        /\ turn' = IF pc' = "run" THEN turn + 1 ELSE turn
  BY DEF Latency
<1>3. Steady
  BY <1>1, NowSteady DEF ReaderInv
<1>4. capacity \in Nat \ {0} /\ turn \in Nat
  <2>1. capacity = LastLba * BlockLength
    BY <1>1 DEF ReaderInv, StageInv
  <2> QED
    BY <2>1, Sizes DEF ReaderInv, TypeInv
<1>5. p \in Nat
  <2>1. turn # 0 => (turn - 1) * ReadSize \in Nat
    BY <1>4, Sizes
  <2>2. turn # 0 => ((turn - 1) * ReadSize) % capacity \in Nat
    BY <1>4, <2>1, Division
  <2> QED
    BY <2>2 DEF Position
<1>6. capacity % ReadSize = 0 => p + ReadSize <= capacity
  <2> SUFFICES ASSUME capacity % ReadSize = 0 PROVE p + ReadSize <= capacity
    OBVIOUS
  <2>1. CASE turn = 0
    <3>1. ((0 * ReadSize) % capacity) + ReadSize <= capacity /\ (0 * ReadSize) % capacity \in Nat
      BY <1>4, Sizes, Aligned
    <3> QED
      BY <1>4, <2>1, <3>1, Sizes
  <2>2. CASE turn # 0
    <3>1. turn - 1 \in Nat
      BY <1>4, <2>2
    <3>2. (((turn - 1) * ReadSize) % capacity) + ReadSize <= capacity
      BY <1>4, <3>1, Sizes, Aligned
    <3> QED
      BY <2>2, <3>2 DEF Position
  <2> QED
    BY <2>1, <2>2
<1>7. turn >= 1 => p = Position(turn, capacity)
  BY <1>4
<1> HIDE DEF p
<1>8. /\ Leaves(x) /\ x.bytes \in Seq(Bytes)
      /\ x.result = "ok" => InPlace(x.bytes, p)
      /\ ~x.faulty /\ p + ReadSize <= capacity /\ CountFits(ReadSize) => x.result = "ok"
  BY <1>2, <1>3, <1>5, Sizes, UsbReadCorrect DEF Sound
<1>9. /\ seek' \in Nat /\ tag' \in Nat /\ faulty' \in BOOLEAN
      /\ pipe' \in Seq(Packets(tag')) /\ pipe' \in Seq(Packets(tag' + 1))
      /\ ~faulty' => ~faulty /\ ~x.faulty /\ pipe' = <<>>
  BY <1>2, <1>8, Keeping
<1>10. pc' \in {"run", "done", "panic"} /\ turn' \in Nat
  BY <1>2, <1>4
<1>11. Start(part)' = Start(part) /\ End(part)' = End(part) /\ (Readable' => Readable)
  BY <1>1 DEF Readable, FileStart, Start, End
<1>12. hashes' = <<>>
  BY <1>1 DEF ReaderInv, StageInv
<1>13. TypeInv'
  <2>1. /\ pass \in Nat /\ program \in Programs /\ hashes \in Seq(SUBSET Seq(Bytes))
        /\ capacity \in {0, LastLba * BlockLength} /\ part \in Partitions
        /\ ahead \in Seq(Bytes) /\ position \in Nat \cup {-1}
    BY DEF ReaderInv, TypeInv
  <2> QED
    BY <1>1, <1>2, <1>8, <1>9, <1>10, <2>1 DEF TypeInv, Points
<1>14. StageInv'
  <2>1. capacity = LastLba * BlockLength /\ Start(part) < End(part) /\ Len(hashes) <= Len(Files)
    BY <1>1 DEF ReaderInv, StageInv
  <2> QED
    BY <1>1, <1>10, <1>11, <1>12, <2>1 DEF StageInv
<1>15. ReadingInv'
  BY <1>1 DEF ReadingInv
<1>16. DeliveredInPlace'
  <2>1. DOMAIN hashes' = {}
    BY <1>12
  <2>2. turn' > 1 /\ pc' = "run" => InPlace(got, Position(turn - 1, capacity))'
    <3> SUFFICES ASSUME turn' > 1, pc' = "run" PROVE InPlace(got, Position(turn - 1, capacity))'
      OBVIOUS
    <3>1. x.result = "ok" /\ turn' = turn + 1
      BY <1>2
    <3>2. turn >= 1 /\ turn' - 1 = turn
      BY <1>4, <3>1
    <3>3. got' = x.bytes /\ InPlace(x.bytes, Position(turn, capacity))
      BY <1>2, <1>7, <1>8, <3>1, <3>2
    <3> QED
      BY <1>1, <3>2, <3>3 DEF InPlace, Position
  <2> QED
    BY <1>1, <2>1, <2>2 DEF DeliveredInPlace
<1>17. WholeOrNothing'
  <2>1. DOMAIN hashes' = {}
    BY <1>12
  <2> QED
    BY <1>1, <2>1 DEF WholeOrNothing
<1>18. FaultInv'
  <2>1. LeftOut'
    BY <1>12 DEF LeftOut
  <2>2. ~faulty' /\ Readable => x.result = "ok"
    BY <1>1, <1>6, <1>8, <1>9, InReach
  <2>3. ~faulty /\ Readable => position # -1
    BY <1>1 DEF ReaderInv, FaultInv
  <2> QED
    BY <1>1, <1>2, <1>9, <1>10, <1>11, <2>1, <2>2, <2>3 DEF FaultInv
<1> QED
  BY <1>13, <1>14, <1>15, <1>16, <1>17, <1>18 DEF ReaderInv

\* Where a program looks for a file
LEMMA Seeked ==
  ASSUME part \in Partitions, NEW f \in DOMAIN Files
  PROVE  /\ FileStart(f) \in Nat /\ Files[f][2] \in Nat
         /\ \/ SeekTo(part, Files[f][1]) = -1
            \/ SeekTo(part, Files[f][1]) = FileStart(f) /\ FileStart(f) <= End(part)
         /\ Readable => SeekTo(part, Files[f][1]) # -1
<1>1. Files[f] \in Nat \X Nat
  BY ReaderAssumption
<1>2. Files[f][1] \in Nat /\ Files[f][2] \in Nat
  BY <1>1
<1>3. Start(part) \in Nat /\ End(part) \in Nat /\ FileStart(f) = Start(part) + Files[f][1]
  BY Ends DEF FileStart
<1>4. Readable => FileStart(f) <= End(part)
  BY DEF Readable
<1>5. SeekTo(part, Files[f][1]) = IF FileStart(f) > End(part) THEN -1 ELSE FileStart(f)
  BY <1>3 DEF SeekTo
<1> QED
  BY <1>2, <1>3, <1>4, <1>5

\* At the beginning of a file
LEMMA FreshReader ==
  ASSUME part \in Partitions, part' = part, program' = program, program # "readlot",
         turn' \in DOMAIN Files,
         position' = SeekTo(part, Files[turn'][1]), ahead' = <<>>, got' = <<>>
  PROVE  /\ position' \in Nat \cup {-1} /\ ReadingInv'
         /\ Readable' => position' # -1
         /\ <<>> \in Seq(Bytes)
<1> DEFINE f == turn'
<1>1. /\ FileStart(f) \in Nat /\ Files[f][2] \in Nat
      /\ \/ position' = -1
         \/ position' = FileStart(f) /\ FileStart(f) <= End(part)
      /\ Readable => position' # -1
  BY Seeked
<1>2. Base' = FileStart(f) /\ End(part)' = End(part) /\ (Readable' => Readable)
  BY DEF Base, FileStart, Readable, Start, End
<1>3. Len(<<>>) = 0 /\ <<>> \in Seq(Bytes)
  OBVIOUS
<1>4. InPlace(ahead, Base + Len(got))'
  BY <1>3 DEF InPlace
<1> HIDE DEF f
<1>5. Reading'
  BY <1>1, <1>2, <1>3, <1>4 DEF Reading
<1>6. Len(got') <= Files[turn'][2]
  BY <1>1, <1>3 DEF f
<1>7. ReadingInv'
  BY <1>5, <1>6 DEF ReadingInv
<1> QED
  BY <1>1, <1>2, <1>3, <1>7

\* The stack between two commands
Settled ==
  /\ seek \in Nat /\ tag \in Nat /\ faulty \in BOOLEAN
  /\ pipe \in Seq(Packets(tag)) /\ pipe \in Seq(Packets(tag + 1))
  /\ ~faulty => pipe = <<>>

\* A volume that is opened for the next iteration of read_throughput, or for
\* the first time
LEMMA OpenVolumeCorrect == ReaderInv /\ OpenVolume => ReaderInv'
<1> SUFFICES ASSUME ReaderInv, OpenVolume PROVE ReaderInv'
  OBVIOUS
<1>1. /\ pc = "open" /\ turn' = 1 /\ position' = SeekTo(part, Files[1][1])
      /\ ahead' = <<>> /\ got' = <<>>
      /\ UNCHANGED <<capacity, part, program, pass, hashes>>
  BY DEF OpenVolume
<1>2. PICK x \in Metadata :
        /\ Keep(x)
        /\ pc' = CASE x.result = "panic" -> "panic"
                   [] x.result = "error" -> "exit"
                   [] OTHER -> IF program = "hash" THEN "file" ELSE "run"
  BY DEF OpenVolume
<1>3. Steady
  BY <1>1, NowSteady DEF ReaderInv
<1>4. /\ part \in Partitions /\ program \in {"hash", "throughput"} /\ hashes = <<>>
      /\ capacity = LastLba * BlockLength /\ Start(part) < End(part)
  BY <1>1 DEF ReaderInv, TypeInv, StageInv
<1>5. Leaves(x) /\ (~x.faulty /\ End(part) <= capacity /\ CountFits(BufSize) => x.result = "ok")
  BY <1>2, <1>3, <1>4, MetadataCorrect
<1>6. /\ seek' \in Nat /\ tag' \in Nat /\ faulty' \in BOOLEAN
      /\ pipe' \in Seq(Packets(tag')) /\ pipe' \in Seq(Packets(tag' + 1))
      /\ ~faulty' => ~faulty /\ ~x.faulty /\ pipe' = <<>>
  BY <1>2, <1>5, Keeping
<1>7. 1 \in DOMAIN Files /\ Len(Files) \in Nat \ {0} /\ Len(<<>>) = 0
  BY ReaderAssumption, EmptySeq
<1>8. /\ position' \in Nat \cup {-1} /\ ReadingInv'
      /\ Readable' => position' # -1
      /\ <<>> \in Seq(Bytes)
  BY <1>1, <1>4, <1>7, FreshReader
<1>9. /\ pc' \in {"panic", "exit", "file", "run"}
      /\ pc' = "file" => program = "hash"
      /\ pc' = "run" => program = "throughput"
      /\ x.result = "ok" => pc' \in {"file", "run"}
  BY <1>2, <1>4
<1>10. Start(part)' = Start(part) /\ End(part)' = End(part) /\ (Readable' => Readable)
  BY <1>1 DEF Readable, FileStart, Start, End
<1>11. TypeInv'
  <2>1. pass \in Nat /\ program \in Programs /\ hashes \in Seq(SUBSET Seq(Bytes))
    BY DEF ReaderInv, TypeInv
  <2> QED
    BY <1>1, <1>4, <1>6, <1>8, <1>9, <2>1 DEF TypeInv, Points
<1>12. StageInv'
  BY <1>1, <1>4, <1>7, <1>9, <1>10 DEF StageInv
<1>13. DeliveredInPlace' /\ WholeOrNothing' /\ LeftOut'
  BY <1>1, <1>4, <1>9, NothingRead
<1>14. FaultInv'
  <2>1. ~faulty' /\ Readable => x.result = "ok"
    BY <1>1, <1>5, <1>6, InReach
  <2> QED
    BY <1>6, <1>8, <1>9, <1>10, <1>13, <2>1 DEF FaultInv
<1> QED
  BY <1>8, <1>11, <1>12, <1>13, <1>14 DEF ReaderInv

\* The numbers of the files
LEMMA FileNumbers == DOMAIN Files = 1 .. Len(Files) /\ Len(Files) \in Nat
BY ReaderAssumption

\* The line of a file, when what was hashed is in place, and whole if the file
\* lies in the partition
LEMMA ListedCorrect ==
  ASSUME ReaderInv, program = "hash", pc \in {"file", "run"},
         NEW hash \in SUBSET Seq(Bytes), Listed(hash),
         UNCHANGED <<capacity, part, program, pass>>,
         \A h \in hash : InPlace(h, FileStart(turn)),
         Files[turn][1] + Files[turn][2] <= End(part) - Start(part) =>
           \A h \in hash : Len(h) = Files[turn][2],
         Settled', ~faulty' => ~faulty, ~faulty' /\ Readable => hash # None \/ NoHandle(turn),
         position' \in Nat \cup {-1}, ahead' \in Seq(Bytes)
  PROVE  ReaderInv'
<1>1. /\ hashes' = Append(hashes, hash)
      /\ pc' = IF turn = Len(Files) THEN "done" ELSE "file"
      /\ turn' = IF turn = Len(Files) THEN turn ELSE turn + 1
      /\ got' = <<>>
  BY DEF Listed
<1>2. /\ hashes \in Seq(SUBSET Seq(Bytes)) /\ turn \in DOMAIN Files /\ Len(hashes) = turn - 1
      /\ capacity = LastLba * BlockLength /\ Start(part) < End(part)
  <2>1. TypeInv /\ StageInv
    BY DEF ReaderInv
  <2>2. hashes \in Seq(SUBSET Seq(Bytes))
    BY <2>1 DEF TypeInv
  <2>3. /\ turn \in DOMAIN Files /\ Len(hashes) = turn - 1
        /\ capacity = LastLba * BlockLength /\ Start(part) < End(part)
    BY <2>1 DEF StageInv
  <2> QED
    BY <2>2, <2>3
<1>3. turn \in 1 .. Len(Files) /\ Len(Files) \in Nat
  BY <1>2, FileNumbers, Zenon
<1>4. /\ hashes' \in Seq(SUBSET Seq(Bytes)) /\ Len(hashes') = turn /\ DOMAIN hashes' = 1 .. turn
      /\ DOMAIN hashes = 1 .. turn - 1
      /\ \A f \in 1 .. turn - 1 : hashes'[f] = hashes[f]
      /\ hashes'[turn] = hash
  BY <1>1, <1>2, <1>3, AppendProperties
<1>5. /\ Start(part)' = Start(part) /\ End(part)' = End(part) /\ (Readable' => Readable)
      /\ \A f \in DOMAIN Files : Start(part') + Files[f][1] = FileStart(f)
  BY DEF Readable, FileStart, Start, End
<1>6. pc' \in {"file", "done"} /\ turn' \in Nat /\ (pc' = "file" => turn' = turn + 1 /\ turn' \in DOMAIN Files)
  BY <1>1, <1>3
<1>7. \A f \in DOMAIN hashes' : f \in DOMAIN hashes \/ f = turn
  BY <1>3, <1>4
<1>8. TypeInv'
  <2>1. \A S : <<>> \in Seq(S)
    OBVIOUS
  <2> QED
    BY <1>1, <1>4, <1>6, <2>1 DEF TypeInv, Points, ReaderInv, Settled
<1>9. StageInv'
  <2>1. Len(hashes') = turn /\ (pc' = "file" => turn = turn' - 1) /\ turn <= Len(Files)
    <3>1. \A k, l \in Nat : \A m : k \in 1 .. l => k <= l /\ (m = k + 1 => k = m - 1)
      OBVIOUS
    <3>2. turn \in Nat
      BY <1>3
    <3> QED
      BY <1>3, <1>4, <1>6, <3>1, <3>2, Zenon
  <2> QED
    BY <1>1, <1>2, <1>5, <1>6, <2>1 DEF StageInv
<1>10. ReadingInv'
  BY <1>6 DEF ReadingInv
<1>11. DeliveredInPlace'
  <2>1. ASSUME NEW f \in DOMAIN hashes', NEW h \in hashes'[f]
        PROVE  InPlace(h, Start(part') + Files[f][1])
    <3>1. CASE f \in DOMAIN hashes
      <4>1. h \in hashes[f] /\ f \in DOMAIN Files
        BY <1>3, <1>4, <2>1, <3>1, ReaderAssumption
      <4>2. InPlace(h, FileStart(f))
        BY <3>1, <4>1 DEF ReaderInv, DeliveredInPlace
      <4> QED
        BY <1>5, <4>1, <4>2
    <3>2. CASE f = turn
      <4>1. h \in hash
        BY <1>4, <2>1, <3>2
      <4> QED
        BY <1>2, <1>5, <3>2, <4>1
    <3> QED
      BY <1>7, <3>1, <3>2
  <2>2. \A f \in DOMAIN hashes' : \A h \in hashes'[f] : InPlace(h, Start(part') + Files[f][1])
    BY <2>1
  <2>3. program' = "hash" /\ got' = <<>>
    BY <1>1
  <2> QED
    BY <2>2, <2>3 DEF DeliveredInPlace, FileStart
<1>12. WholeOrNothing'
  <2>1. ASSUME NEW f \in DOMAIN hashes', NEW h \in hashes'[f],
               Files[f][1] + Files[f][2] <= End(part) - Start(part)
        PROVE  Len(h) = Files[f][2]
    <3>1. CASE f \in DOMAIN hashes
      <4>1. h \in hashes[f]
        BY <1>4, <2>1, <3>1
      <4> QED
        BY <2>1, <3>1, <4>1 DEF ReaderInv, WholeOrNothing
    <3>2. CASE f = turn
      <4>1. h \in hash
        BY <1>4, <2>1, <3>2
      <4> QED
        BY <2>1, <3>2, <4>1
    <3> QED
      BY <1>7, <3>1, <3>2
  <2> QED
    BY <1>5, <2>1 DEF WholeOrNothing
<1>13. FaultInv'
  <2>1. ASSUME ~faulty', Readable PROVE LeftOut'
    <3>1. \A f \in DOMAIN hashes : hashes[f] = None => NoHandle(f)
      BY <2>1 DEF ReaderInv, FaultInv, LeftOut
    <3>2. ASSUME NEW f \in DOMAIN hashes', hashes'[f] = None PROVE NoHandle(f)
      BY <1>4, <1>7, <2>1, <3>1, <3>2
    <3> QED
      BY <3>2 DEF LeftOut
  <2> QED
    BY <1>5, <1>6, <2>1 DEF FaultInv, Settled
<1> QED
  BY <1>8, <1>9, <1>10, <1>11, <1>12, <1>13 DEF ReaderInv

\* compute_hash opens the volume again, and begins the file.
LEMMA ComputeHashCorrect == ReaderInv /\ ComputeHash => ReaderInv'
<1> SUFFICES ASSUME ReaderInv, ComputeHash PROVE ReaderInv'
  OBVIOUS
<1>1. /\ pc = "file" /\ position' = SeekTo(part, Files[turn][1]) /\ ahead' = <<>>
      /\ UNCHANGED <<capacity, part, program, pass>>
  BY DEF ComputeHash
<1>2. PICK x \in Metadata :
        /\ Keep(x)
        /\ \/ (x.result = "error" \/ NoHandle(turn)) /\ Listed(None)
           \/ /\ x.result # "error"
              /\ pc' = IF x.result = "ok" THEN "run" ELSE "panic"
              /\ UNCHANGED <<turn, got, hashes>>
  BY DEF ComputeHash
<1>3. Steady
  BY <1>1, NowSteady DEF ReaderInv
<1>4. /\ part \in Partitions /\ program = "hash" /\ got = <<>> /\ turn \in DOMAIN Files
      /\ capacity = LastLba * BlockLength /\ Start(part) < End(part)
      /\ hashes \in Seq(SUBSET Seq(Bytes))
      /\ Len(hashes) <= Len(Files) /\ Len(hashes) = turn - 1
  BY <1>1 DEF ReaderInv, TypeInv, StageInv
<1>5. Leaves(x) /\ (~x.faulty /\ End(part) <= capacity /\ CountFits(BufSize) => x.result = "ok")
  BY <1>2, <1>3, <1>4, MetadataCorrect
<1>6. Settled' /\ (~faulty' => ~faulty /\ ~x.faulty)
  BY <1>2, <1>5, Keeping DEF Settled
<1>7. ~faulty' /\ Readable => x.result = "ok"
  BY <1>1, <1>5, <1>6, InReach
<1>8. position' \in Nat \cup {-1} /\ ahead' \in Seq(Bytes)
  <2>1. <<>> \in Seq(Bytes)
    OBVIOUS
  <2> QED
    BY <1>1, <1>4, <2>1, Seeked
<1>9. CASE (x.result = "error" \/ NoHandle(turn)) /\ Listed(None)
  <2>1. None \in SUBSET Seq(Bytes) /\ \A h \in None : FALSE
    BY DEF None
  <2> QED
    BY <1>1, <1>4, <1>6, <1>7, <1>8, <1>9, <2>1, ListedCorrect
<1>10. CASE /\ x.result # "error"
            /\ pc' = IF x.result = "ok" THEN "run" ELSE "panic"
            /\ UNCHANGED <<turn, got, hashes>>
  <2>1. /\ ReadingInv' /\ (Readable' => position' # -1)
    BY <1>1, <1>4, <1>10, FreshReader
  <2>2. /\ Start(part)' = Start(part) /\ End(part)' = End(part) /\ (Readable' => Readable)
        /\ \A f : Start(part') + Files[f][1] = FileStart(f)
    BY <1>1 DEF Readable, FileStart, Start, End
  <2>3. TypeInv'
    <3>1. pass \in Nat /\ program \in Programs /\ turn \in Nat /\ got \in Seq(Bytes)
      BY DEF ReaderInv, TypeInv
    <3> QED
      BY <1>1, <1>4, <1>6, <1>8, <1>10, <3>1 DEF TypeInv, Points, Settled
  <2>4. StageInv'
    BY <1>1, <1>4, <1>10, <2>2 DEF StageInv
  <2>5. DeliveredInPlace'
    BY <1>1, <1>4, <1>10, <2>2 DEF ReaderInv, DeliveredInPlace, FileStart
  <2>6. WholeOrNothing'
    BY <1>1, <1>4, <1>10, <2>2 DEF ReaderInv, WholeOrNothing
  <2>7. FaultInv'
    <3>1. ~faulty /\ Readable => LeftOut
      BY DEF ReaderInv, FaultInv
    <3> QED
      BY <1>6, <1>7, <1>10, <2>1, <2>2, <3>1 DEF FaultInv, Settled, LeftOut
  <2> QED
    BY <2>1, <2>3, <2>4, <2>5, <2>6, <2>7 DEF ReaderInv
<1> QED
  BY <1>2, <1>9, <1>10

\* A read of the file at hand: what the program has then, and where it stands.
LEMMA ItemRead ==
  ASSUME ReaderInv, pc = "run", program \in {"hash", "throughput"},
         NEW n \in Nat, n <= Files[turn][2] - Len(got),
         n >= BufSize => n = BufSize \/ n <= Cluster,
         NEW x \in BufRead(n), Keep(x), UNCHANGED <<capacity, part, program>>
  PROVE  LET all == got \o x.bytes IN
         /\ Settled' /\ (~faulty' => ~faulty)
         /\ x.result \in {"ok", "error", "panic"} /\ (~faulty' /\ Readable => x.result = "ok")
         /\ x.position \in Nat \cup {-1} /\ x.ahead \in Seq(Bytes)
         /\ all \in Seq(Bytes) /\ InPlace(all, FileStart(turn)) /\ Len(all) <= Files[turn][2]
         /\ x.bytes \in Seq(Bytes) /\ Len(all) = Len(got) + Len(x.bytes)
         /\ x.result = "ok" /\ x.bytes = <<>> /\ n > 0 =>
              Len(all) = End(part) - FileStart(turn)
         /\ \/ x.position = -1 /\ x.ahead = <<>> /\ all = <<>> /\ position = -1
            \/ /\ x.position \in Nat /\ x.position <= End(part)
               /\ x.position = FileStart(turn) + Len(all) + Len(x.ahead)
               /\ InPlace(x.ahead, FileStart(turn) + Len(all))
<1> DEFINE given == x.bytes
           kept == x.ahead
           all == got \o given
           start == FileStart(turn)
           size == Files[turn][2]
           c == start + Len(got)
<1>1. Steady
  BY NowSteady DEF ReaderInv
<1>2. /\ part \in Partitions /\ turn \in DOMAIN Files /\ got \in Seq(Bytes) /\ ahead \in Seq(Bytes)
      /\ Reading /\ Len(got) <= size
  BY ReaderAssumption DEF ReaderInv, TypeInv, StageInv, ReadingInv
<1>3. start \in Nat /\ size \in Nat /\ Len(got) \in Nat /\ End(part) \in Nat /\ Base = start
  BY <1>2, Seeked, LenProperties, Ends DEF Base
<1>4. InPlace(got, start)
  <2>1. got # <<>> => InPlace(got, start)
    BY DEF ReaderInv, DeliveredInPlace
  <2>2. InPlace(<<>>, start)
    BY DEF InPlace
  <2> QED
    BY <2>1, <2>2
<1>5. Readable => /\ End(part) <= capacity /\ CountFits(BufSize)
                  /\ (n >= BufSize => CountFits(n))
  <2> SUFFICES ASSUME Readable
               PROVE  /\ End(part) <= capacity /\ CountFits(BufSize)
                      /\ (n >= BufSize => CountFits(n))
    OBVIOUS
  <2>1. End(part) <= capacity /\ CountFits(BufSize) /\ CountFits(Cluster)
    BY InReach
  <2>2. n >= BufSize /\ n <= Cluster => CountFits(n)
    <3>1. n >= BufSize /\ n <= Cluster => n \in 1 .. Cluster
      BY Sizes
    <3> QED
      BY <2>1, <3>1, Sizes, FewerFit
  <2> QED
    BY <2>1, <2>2
<1>6. ~faulty /\ Readable => position # -1
  BY DEF ReaderInv, FaultInv
<1> HIDE DEF start, size
<1>7. CASE position = -1
  <2>1. ahead = <<>> /\ got = <<>>
    BY <1>2, <1>7 DEF Reading
  <2>2. /\ Sound(x) /\ x.result = "error" /\ given = <<>>
        /\ x.position = -1 /\ kept = <<>>
    BY <1>1, <1>2, <1>7, <2>1, BufReadLost
  <2>3. Settled' /\ (~faulty' => ~faulty /\ ~x.faulty)
    BY <2>2, Keeping DEF Sound, Settled
  <2>4. all = <<>> /\ <<>> \in Seq(Bytes) /\ Len(<<>>) = 0 /\ Len(got) = 0
    BY <2>1, <2>2
  <2> QED
    BY <1>3, <1>4, <1>6, <1>7, <2>1, <2>2, <2>3, <2>4 DEF start, size
<1>8. CASE position # -1
  <2>1. /\ c \in Nat /\ InPlace(ahead, c) /\ position \in Nat
        /\ position = c + Len(ahead) /\ position <= End(part)
    <3>1. Base + Len(got) = c
      BY <1>3
    <3>2. /\ position \in Nat /\ position <= End(part)
          /\ position = Base + Len(got) + Len(ahead)
          /\ InPlace(ahead, Base + Len(got))
      BY <1>2, <1>8 DEF Reading
    <3> HIDE DEF c
    <3>3. InPlace(ahead, c) /\ position = c + Len(ahead)
      BY <3>1, <3>2
    <3> QED
      BY <1>3, <3>2, <3>3 DEF c
  <2> HIDE DEF c
  <2>2. /\ Sound(x) /\ kept \in Seq(Bytes)
        /\ InPlace(given, c) /\ Len(given) <= n
        /\ InPlace(kept, c + Len(given))
        /\ x.position \in Nat /\ x.position = c + Len(given) + Len(kept)
        /\ x.position <= End(part)
        /\ x.result = "ok" /\ given = <<>> /\ n > 0 => c = End(part)
        /\ /\ ~x.faulty /\ End(part) <= capacity
           /\ CountFits(BufSize) /\ (n >= BufSize => CountFits(n))
           => x.result = "ok"
    BY <1>1, <1>2, <2>1, BufReadCorrect
  <2>3. /\ Settled' /\ (~faulty' => ~faulty /\ ~x.faulty)
        /\ given \in Seq(Bytes) /\ x.result \in {"ok", "error", "panic"}
    BY <2>2, Keeping DEF Sound, Settled, Leaves
  <2> HIDE DEF given, kept
  <2>4. all \in Seq(Bytes) /\ Len(all) = Len(got) + Len(given) /\ InPlace(all, start)
    BY <1>2, <1>3, <1>4, <2>1, <2>2, <2>3, JoinInPlace DEF c
  <2> HIDE DEF all
  <2>5. Len(given) \in Nat /\ Len(all) \in Nat /\ Len(<<>>) = 0
    BY <2>3, <2>4, LenProperties
  <2>6. Len(all) <= size
    <3>1. n <= size - Len(got) /\ Len(given) <= n
      BY <2>2 DEF size
    <3> QED
      BY <1>3, <2>4, <2>5, <3>1
  <2>7. c + Len(given) = start + Len(all)
    BY <1>3, <2>4, <2>5 DEF c
  <2>8. x.result = "ok" /\ given = <<>> /\ n > 0 => Len(all) = End(part) - start
    BY <1>3, <2>2, <2>4, <2>5 DEF c
  <2>9. /\ x.position = start + Len(all) + Len(kept)
        /\ InPlace(kept, start + Len(all))
    BY <2>2, <2>7, Zenon
  <2>10. ~faulty' /\ Readable => x.result = "ok"
    BY <1>5, <2>2, <2>3
  <2> QED
    BY <2>2, <2>3, <2>4, <2>6, <2>8, <2>9, <2>10, Zenon DEF given, kept, all, start, size
<1> QED
  BY <1>7, <1>8

\* When the program goes on with the file
LEMMA GoesOn ==
  ASSUME ReaderInv, pc = "run", program \in {"hash", "throughput"},
         NEW all, all \in Seq(Bytes), InPlace(all, FileStart(turn)),
         Len(all) <= Files[turn][2],
         Settled', ~faulty' => ~faulty,
         position' \in Nat \cup {-1}, ahead' \in Seq(Bytes),
         \/ position' = -1 /\ ahead' = <<>> /\ all = <<>> /\ position = -1
         \/ /\ position' \in Nat /\ position' <= End(part)
            /\ position' = FileStart(turn) + Len(all) + Len(ahead')
            /\ InPlace(ahead', FileStart(turn) + Len(all)),
         UNCHANGED <<capacity, part, program, pass, turn, pc, hashes>>, got' = all
  PROVE  ReaderInv'
<1>1. /\ Start(part)' = Start(part) /\ End(part)' = End(part) /\ (Readable' => Readable)
      /\ \A f : Start(part') + Files[f][1] = FileStart(f)
  BY DEF Readable, FileStart, Start, End
<1>2. TypeInv'
  BY DEF TypeInv, ReaderInv, Settled
<1>3. StageInv'
  BY <1>1 DEF StageInv, ReaderInv
<1>4. ReadingInv'
  <2>1. Base' = FileStart(turn)
    BY DEF Base, FileStart, Start
  <2>2. Reading'
    <3>1. CASE position' = -1 /\ ahead' = <<>> /\ all = <<>>
      BY <3>1 DEF Reading
    <3>2. CASE /\ position' \in Nat /\ position' <= End(part)
               /\ position' = FileStart(turn) + Len(all) + Len(ahead')
               /\ InPlace(ahead', FileStart(turn) + Len(all))
      <4>1. InPlace(ahead, Base + Len(got))'
        BY <2>1, <3>2 DEF InPlace
      <4> QED
        BY <1>1, <2>1, <3>2, <4>1 DEF Reading
    <3> QED
      BY <3>1, <3>2
  <2> QED
    BY <2>2 DEF ReadingInv
<1>5. DeliveredInPlace'
  BY <1>1 DEF ReaderInv, DeliveredInPlace, FileStart
<1>6. WholeOrNothing'
  BY <1>1 DEF ReaderInv, WholeOrNothing
<1>7. FaultInv'
  <2>1. ~faulty /\ Readable => position # -1 /\ LeftOut
    BY DEF ReaderInv, FaultInv
  <2> QED
    BY <1>1, <2>1 DEF FaultInv, Settled, LeftOut
<1> QED
  BY <1>2, <1>3, <1>4, <1>5, <1>6, <1>7 DEF ReaderInv

\* What is hashed is the whole file, or all there is of it in the partition.
LEMMA ReadHashedCorrect == ReaderInv /\ ReadHashed => ReaderInv'
<1> SUFFICES ASSUME ReaderInv, ReadHashed PROVE ReaderInv'
  OBVIOUS
<1> DEFINE size == Files[turn][2]
           n == Smaller(Smaller(size - Len(got), BufSize), Cluster)
<1>1. pc = "run" /\ program = "hash" /\ UNCHANGED <<capacity, part, program, pass>>
  BY DEF ReadHashed
<1>2. PICK x \in BufRead(n) :
        /\ Keep(x) /\ position' = x.position /\ ahead' = x.ahead
        /\ LET all == got \o x.bytes IN
           \/ x.result = "error" /\ Listed(None)
           \/ x.result = "panic" /\ pc' = "panic" /\ UNCHANGED <<turn, got, hashes>>
           \/ x.result = "ok" /\ Hashed(size, Len(all), Len(x.bytes)) /\ Listed({all})
           \/ /\ x.result = "ok" /\ ~Hashed(size, Len(all), Len(x.bytes))
              /\ got' = all
              /\ UNCHANGED <<pc, turn, hashes>>
  BY DEF ReadHashed
<1> DEFINE all == got \o x.bytes
           start == FileStart(turn)
<1>3. /\ turn \in DOMAIN Files /\ got \in Seq(Bytes) /\ Len(got) <= size /\ part \in Partitions
  BY <1>1 DEF ReaderInv, TypeInv, StageInv, ReadingInv
<1>4. /\ size \in Nat /\ start \in Nat /\ Len(got) \in Nat /\ End(part) \in Nat
      /\ start = Start(part) + Files[turn][1] /\ Files[turn][1] \in Nat /\ Start(part) \in Nat
  <2>1. Files[turn] \in Nat \X Nat
    BY <1>3, ReaderAssumption
  <2> QED
    BY <1>3, <2>1, Seeked, Ends, LenProperties DEF FileStart
<1> HIDE DEF size
<1>5. /\ n \in Nat /\ n <= size - Len(got) /\ (n >= BufSize => n = BufSize)
      /\ (n = 0 => size - Len(got) = 0)
  BY <1>3, <1>4, Sizes DEF Smaller
<1> HIDE DEF n
<1>6. /\ Settled' /\ (~faulty' => ~faulty)
      /\ x.result \in {"ok", "error", "panic"} /\ (~faulty' /\ Readable => x.result = "ok")
      /\ x.position \in Nat \cup {-1} /\ x.ahead \in Seq(Bytes)
      /\ all \in Seq(Bytes) /\ InPlace(all, start) /\ Len(all) <= size
      /\ x.bytes \in Seq(Bytes) /\ Len(all) = Len(got) + Len(x.bytes)
      /\ x.result = "ok" /\ x.bytes = <<>> /\ n > 0 => Len(all) = End(part) - start
      /\ \/ x.position = -1 /\ x.ahead = <<>> /\ all = <<>> /\ position = -1
         \/ /\ x.position \in Nat /\ x.position <= End(part)
            /\ x.position = start + Len(all) + Len(x.ahead)
            /\ InPlace(x.ahead, start + Len(all))
  BY <1>1, <1>2, <1>5, ItemRead DEF size
<1>7. /\ position' = x.position /\ ahead' = x.ahead
      /\ \/ x.result = "error" /\ Listed(None)
         \/ x.result = "panic" /\ pc' = "panic" /\ UNCHANGED <<turn, got, hashes>>
         \/ x.result = "ok" /\ Hashed(size, Len(all), Len(x.bytes)) /\ Listed({all})
         \/ got' = all /\ UNCHANGED <<pc, turn, hashes>>
  BY <1>2
<1>8. x.bytes \in Seq(Bytes) /\ Len(all) \in Nat /\ Len(all) = Len(got) + Len(x.bytes)
  <2>1. Len(all) \in Nat
    BY <1>6, LenProperties
  <2> QED
    BY <1>6, <2>1
<1> HIDE DEF all, start
<1>9. CASE x.result = "error" /\ Listed(None)
  <2>1. None \in SUBSET Seq(Bytes) /\ \A h \in None : FALSE
    BY DEF None
  <2>2. ~faulty' /\ Readable => FALSE
    BY <1>6, <1>9
  <2> QED
    BY <1>1, <1>6, <1>7, <1>9, <2>1, <2>2, ListedCorrect
<1>10. CASE x.result = "panic" /\ pc' = "panic" /\ UNCHANGED <<turn, got, hashes>>
  <2>1. /\ Start(part)' = Start(part) /\ End(part)' = End(part) /\ (Readable' => Readable)
        /\ \A f : Start(part') + Files[f][1] = FileStart(f)
    BY <1>1 DEF Readable, FileStart, Start, End
  <2>2. TypeInv'
    BY <1>1, <1>6, <1>7, <1>10 DEF ReaderInv, TypeInv, Points, Settled
  <2>3. StageInv' /\ ReadingInv'
    BY <1>1, <1>10 DEF ReaderInv, StageInv, ReadingInv
  <2>4. DeliveredInPlace'
    BY <1>1, <1>10, <2>1 DEF ReaderInv, DeliveredInPlace, FileStart
  <2>5. WholeOrNothing'
    BY <1>1, <1>10, <2>1 DEF ReaderInv, WholeOrNothing
  <2>6. FaultInv'
    BY <1>6, <1>10, <2>1 DEF FaultInv, Settled
  <2> QED
    BY <2>2, <2>3, <2>4, <2>5, <2>6 DEF ReaderInv
<1>11. CASE x.result = "ok" /\ Hashed(size, Len(all), Len(x.bytes)) /\ Listed({all})
  <2>1. Files[turn][1] + size <= End(part) - Start(part) => Len(all) = size
    <3> SUFFICES ASSUME Files[turn][1] + size <= End(part) - Start(part) PROVE Len(all) = size
      OBVIOUS
    <3>1. CASE Len(all) >= size
      <4>1. \A k, l \in Nat : k <= l /\ k >= l => k = l
        OBVIOUS
      <4> QED
        BY <1>4, <1>6, <1>8, <3>1, <4>1, Zenon
    <3>2. CASE Len(x.bytes) = 0
      <4>1. x.bytes = <<>>
        BY <1>8, <3>2, EmptySeq
      <4>2. CASE n > 0
        <5>1. Len(all) = End(part) - (Start(part) + Files[turn][1])
          BY <1>4, <1>6, <1>11, <4>1, <4>2 DEF start
        <5>2. \A b, e, a, k, l \in Nat :
                k <= l /\ a + l <= e - b /\ k = e - (b + a) => k = l
          OBVIOUS
        <5> QED
          BY <1>4, <1>6, <1>8, <5>1, <5>2, Zenon
      <4>3. CASE ~(n > 0)
        BY <1>4, <1>5, <1>8, <3>2, <4>3
      <4> QED
        BY <4>2, <4>3
    <3> QED
      BY <1>11, <3>1, <3>2 DEF Hashed
  <2>2. {all} \in SUBSET Seq(Bytes) /\ {all} # None /\ \A h \in {all} : h = all
    BY <1>6 DEF None
  <2>3. \A h \in {all} : InPlace(h, FileStart(turn))
    BY <1>6, <2>2 DEF start
  <2>4. Files[turn][1] + Files[turn][2] <= End(part) - Start(part) =>
          \A h \in {all} : Len(h) = Files[turn][2]
    BY <2>1, <2>2 DEF size
  <2> QED
    BY <1>1, <1>6, <1>7, <1>11, <2>2, <2>3, <2>4, ListedCorrect
<1>12. CASE got' = all /\ UNCHANGED <<pc, turn, hashes>>
  BY <1>1, <1>6, <1>7, <1>12, GoesOn DEF size, start
<1> QED
  BY <1>7, <1>9, <1>10, <1>11, <1>12

\* The next item of the directory, or the next iteration
LEMMA NextItemCorrect ==
  ASSUME ReaderInv, pc = "run", program = "throughput", NextItem,
         Settled', ~faulty' => ~faulty,
         UNCHANGED <<capacity, part, program, hashes>>
  PROVE  ReaderInv'
<1>1. /\ turn' = IF turn = Len(Files) THEN turn ELSE turn + 1
      /\ pass' = IF turn = Len(Files) /\ pass < Passes THEN pass + 1 ELSE pass
      /\ pc' = IF turn # Len(Files) THEN "run" ELSE IF pass < Passes THEN "open" ELSE "done"
      /\ position' = SeekTo(part, Files[turn'][1])
      /\ ahead' = <<>> /\ got' = <<>>
  BY DEF NextItem
<1>2. /\ part \in Partitions /\ turn \in DOMAIN Files /\ pass \in Nat /\ hashes = <<>>
      /\ capacity = LastLba * BlockLength /\ Start(part) < End(part)
      /\ hashes \in Seq(SUBSET Seq(Bytes)) /\ Len(hashes) <= Len(Files)
  BY DEF ReaderInv, TypeInv, StageInv
<1>3. turn \in 1 .. Len(Files) /\ Len(Files) \in Nat
  BY <1>2, ReaderAssumption
<1>4. turn' \in DOMAIN Files /\ turn' \in Nat /\ pass' \in Nat /\ pc' \in {"run", "open", "done"}
  <2>1. turn' \in 1 .. Len(Files) /\ turn' \in Nat
    BY <1>1, <1>3
  <2>2. pass' \in Nat
    BY <1>1, <1>2
  <2> QED
    BY <1>1, <2>1, <2>2, ReaderAssumption
<1>5. position' \in Nat \cup {-1} /\ ReadingInv' /\ (Readable' => position' # -1) /\ <<>> \in Seq(Bytes)
  BY <1>1, <1>2, <1>4, FreshReader
<1>6. Start(part)' = Start(part) /\ End(part)' = End(part) /\ (Readable' => Readable)
  BY DEF Readable, FileStart, Start, End
<1>7. TypeInv'
  BY <1>1, <1>2, <1>4, <1>5 DEF ReaderInv, TypeInv, Points, Settled
<1>8. StageInv'
  BY <1>1, <1>2, <1>4, <1>6 DEF StageInv
<1>9. LeftOut' /\ DOMAIN hashes' = {}
  BY <1>2 DEF LeftOut
<1>10. DeliveredInPlace'
  BY <1>1, <1>9 DEF DeliveredInPlace
<1>11. WholeOrNothing'
  BY <1>9 DEF WholeOrNothing
<1>12. FaultInv'
  BY <1>4, <1>5, <1>6, <1>9 DEF FaultInv, Settled
<1> QED
  BY <1>5, <1>7, <1>8, <1>10, <1>11, <1>12 DEF ReaderInv

\* A file without a handle is passed over.
LEMMA ReadNothingCorrect == ReaderInv /\ ReadNothing => ReaderInv'
<1> SUFFICES ASSUME ReaderInv, ReadNothing PROVE ReaderInv'
  OBVIOUS
<1>1. Settled' /\ (~faulty' => ~faulty)
  BY DEF ReadNothing, storageVars, ReaderInv, TypeInv, FaultInv, Settled
<1> QED
  BY <1>1, NextItemCorrect DEF ReadNothing, storageVars

\* read_exact of read_throughput
LEMMA ReadExactCorrect == ReaderInv /\ ReadExact => ReaderInv'
<1> SUFFICES ASSUME ReaderInv, ReadExact PROVE ReaderInv'
  OBVIOUS
<1> DEFINE size == Files[turn][2]
           n == Smaller(size - Len(got), Cluster)
<1>1. pc = "run" /\ program = "throughput" /\ UNCHANGED <<capacity, part, program, hashes>>
  BY DEF ReadExact
<1>2. PICK x \in BufRead(n) :
        /\ Keep(x)
        /\ \/ /\ x.result = "panic" /\ pc' = "panic"
              /\ UNCHANGED <<turn, pass, position, ahead, got>>
           \/ x.result # "panic" /\ NextItem
           \/ /\ x.result # "panic"
              /\ got' = got \o x.bytes /\ position' = x.position /\ ahead' = x.ahead
              /\ UNCHANGED <<pc, turn, pass>>
  BY DEF ReadExact
<1> DEFINE all == got \o x.bytes
           start == FileStart(turn)
<1>3. /\ turn \in DOMAIN Files /\ got \in Seq(Bytes) /\ Len(got) <= size /\ part \in Partitions
  BY <1>1 DEF ReaderInv, TypeInv, StageInv, ReadingInv
<1>4. size \in Nat /\ Len(got) \in Nat
  BY <1>3, Seeked, LenProperties
<1> HIDE DEF size
<1>5. n \in Nat /\ n <= size - Len(got) /\ n <= Cluster
  BY <1>3, <1>4, Sizes DEF Smaller
<1> HIDE DEF n
<1>6. /\ Settled' /\ (~faulty' => ~faulty)
      /\ ~faulty' /\ Readable => x.result = "ok"
      /\ x.position \in Nat \cup {-1} /\ x.ahead \in Seq(Bytes)
      /\ all \in Seq(Bytes) /\ InPlace(all, start) /\ Len(all) <= size
      /\ \/ x.position = -1 /\ x.ahead = <<>> /\ all = <<>> /\ position = -1
         \/ /\ x.position \in Nat /\ x.position <= End(part)
            /\ x.position = start + Len(all) + Len(x.ahead)
            /\ InPlace(x.ahead, start + Len(all))
  BY <1>1, <1>2, <1>5, ItemRead DEF size
<1>7. CASE /\ x.result = "panic" /\ pc' = "panic"
           /\ UNCHANGED <<turn, pass, position, ahead, got>>
  <2>1. /\ Start(part)' = Start(part) /\ End(part)' = End(part) /\ (Readable' => Readable)
        /\ \A f : Start(part') + Files[f][1] = FileStart(f)
    BY <1>1 DEF Readable, FileStart, Start, End
  <2>2. TypeInv'
    BY <1>1, <1>6, <1>7 DEF ReaderInv, TypeInv, Points, Settled
  <2>3. StageInv' /\ ReadingInv'
    BY <1>1, <1>7 DEF ReaderInv, StageInv, ReadingInv
  <2>4. DeliveredInPlace'
    BY <1>1, <1>7, <2>1 DEF ReaderInv, DeliveredInPlace, FileStart
  <2>5. WholeOrNothing'
    BY <1>1, <1>7, <2>1 DEF ReaderInv, WholeOrNothing
  <2>6. FaultInv'
    BY <1>6, <1>7, <2>1 DEF FaultInv, Settled
  <2> QED
    BY <2>2, <2>3, <2>4, <2>5, <2>6 DEF ReaderInv
<1>8. CASE NextItem
  BY <1>1, <1>6, <1>8, NextItemCorrect
<1>9. CASE /\ got' = got \o x.bytes /\ position' = x.position /\ ahead' = x.ahead
           /\ UNCHANGED <<pc, turn, pass>>
  <2>1. got' = all
    BY <1>9
  <2> HIDE DEF all
  <2> QED
    BY <1>1, <1>6, <1>9, <2>1, GoesOn DEF size, start
<1> QED
  BY <1>2, <1>7, <1>8, <1>9

LEMMA StutterCorrect == ReaderInv /\ UNCHANGED vars => ReaderInv'
  BY DEF ReaderInv, TypeInv, StageInv, ReadingInv, Reading, Base, DeliveredInPlace,
         WholeOrNothing, FaultInv, LeftOut, Readable, FileStart, Start, End, InPlace, Position, Range,
         vars, storageVars, sliceVars, guestVars

\* Every step keeps the invariant.
THEOREM Inductive == Spec => []ReaderInv
<1>1. ReaderInv /\ [Next]_vars => ReaderInv'
  BY ResetCorrect, TestUnitReadyCorrect, ReadCapacityCorrect, ReadMbrCorrect, CopyCorrect,
     LatencyCorrect, OpenVolumeCorrect, ComputeHashCorrect, ReadHashedCorrect,
     ReadNothingCorrect, ReadExactCorrect, StutterCorrect DEF Next
<1> QED
  BY <1>1, InitCorrect, PTL DEF Spec

\* The variables have their types, the tags of what the stick owes included.
THEOREM TypeCorrect == Spec => []TypeOK
<1>1. ReaderInv => TypeOK
  <2> SUFFICES ASSUME ReaderInv PROVE TypeOK
    OBVIOUS
  <2>1. \A packet \in Range(pipe) : packet.csw \in BOOLEAN /\ packet.tag \in 0 .. tag + 1
    <3>1. ASSUME NEW i \in DOMAIN pipe PROVE pipe[i] \in Packets(tag + 1)
      BY ElementOfSeq DEF ReaderInv, TypeInv
    <3> QED
      BY <3>1 DEF Range, Packets
  <2>2. \A hash \in Range(hashes) : hash \subseteq Seq(Bytes)
    <3>1. ASSUME NEW i \in DOMAIN hashes PROVE hashes[i] \in SUBSET Seq(Bytes)
      BY ElementOfSeq DEF ReaderInv, TypeInv
    <3> QED
      BY <3>1 DEF Range
  <2> QED
    BY <2>1, <2>2 DEF ReaderInv, TypeInv, TypeOK, Points
<1> QED
  BY <1>1, Inductive, PTL

\* Whatever fails, what a program is given is in its place: no byte of an
\* earlier command, nor of a status, is taken for one of the file.
THEOREM PlaceCorrect == Spec => []DeliveredInPlace
<1>1. ReaderInv => DeliveredInPlace
  BY DEF ReaderInv
<1> QED
  BY <1>1, Inductive, PTL

\* What is reported as a file or a partition is the whole of it.
THEOREM WholeCorrect == Spec => []WholeOrNothing
<1>1. ReaderInv => WholeOrNothing
  BY DEF ReaderInv
<1> QED
  BY <1>1, Inductive, PTL

\* A program that has what it asks for, and no transfer failing, does not fail,
\* and of the files it leaves out only the empty ones.
THEOREM FaultCorrect == Spec => []NoErrorWithoutFault
<1>1. ReaderInv => NoErrorWithoutFault
  BY DEF ReaderInv, FaultInv, LeftOut, NoErrorWithoutFault
<1> QED
  BY <1>1, Inductive, PTL

=============================================================================
