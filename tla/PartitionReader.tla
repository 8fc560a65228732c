--------------------------- MODULE PartitionReader --------------------------
(***************************************************************************)
(* The four guests that read a partition of a USB stick with their own     *)
(* copy of the same stack (usb-wasi-guest/examples):                       *)
(*   readlot          copies the partition to a file;                      *)
(*   read_and_hash    prints a hash of every file of the partition;        *)
(*   read_throughput  reads every file, again and again;                   *)
(*   read_latency     reads one small buffer after the other, off the      *)
(*                    whole stick.                                         *)
(* The stack: UsbMassStorage sends READ(10) commands, IoSlice confines     *)
(* seeks and reads to the partition, BufReader reads ahead.                *)
(*                                                                         *)
(* The stick is external.  Every transfer may fail or time out, before or  *)
(* after the stick has done its part, and data may be short; what was not  *)
(* collected stays in its IN pipe.  A byte of data is its own address.     *)
(***************************************************************************)
EXTENDS Integers, Sequences, SequencesExt

CONSTANTS
  Programs,     \* which of the programs run
  BlockLength,  \* bytes of a block
  LastLba,      \* the last block, as READ CAPACITY reports it
  Partitions,   \* the partitions tried: <<starting_lba, sectors>>
  Files,        \* the files of the partition: <<offset, length>>, in directory order
  BufSize,      \* capacity of a BufReader, and of the buffer that is hashed
  ReadSize,     \* the buffer of read_latency
  CountModulus, \* the block count of a READ(10) is a u16; here smaller
  Cluster,      \* what the exFAT library asks of its reader at once
  Passes,       \* bound: iterations of read_throughput
  Reads         \* bound: iterations of read_latency

ASSUME ReaderAssumption ==
  /\ Programs \subseteq {"readlot", "hash", "throughput", "latency"}
  /\ {BlockLength, LastLba, BufSize, ReadSize, CountModulus, Cluster} \subseteq Nat \ {0}
  /\ Partitions \subseteq Nat \X Nat
  /\ Files \in Seq(Nat \X Nat) /\ Files # <<>>

VARIABLES
  program,
  pc,        \* "reset", "test", "capacity", "mbr", "open", "run"; "done", "exit", "panic"
  capacity,  \* DeviceCapacity::size; 0 until it is read
  seek,      \* UsbMassStorage::seek_position
  tag,       \* UsbMassStorage::tag
  pipe,      \* what the stick has to send
  part,      \* the partition: IoSlice::start and end
  position,  \* IoSlice::position
  ahead,     \* what BufReader holds
  turn,      \* which file, or which read of read_latency
  pass,      \* which iteration of read_throughput
  got,       \* what the program has of the file, the partition or the buffer
  hashes,    \* what was hashed of each file done; None where "-" is printed
  faulty     \* has a transfer failed or been short?

storageVars == <<capacity, seek, tag, pipe, faulty>>
sliceVars   == <<part, position, ahead>>
guestVars   == <<program, pc, turn, pass, got, hashes>>
vars == <<storageVars, sliceVars, guestVars>>

None == {}   \* an Option is a set of at most one value
Zero == -1    \* a byte of vec![0u8; n] that no transfer has filled
Odd  == -2    \* a byte of a CSW

Addresses(from, n) == [i \in 1 .. n |-> from + i - 1]
Zeros(n) == [i \in 1 .. n |-> Zero]
Smaller(a, b) == IF a < b THEN a ELSE b

Start(p) == p[1] * BlockLength
End(p)   == (p[1] + p[2]) * BlockLength

-----------------------------------------------------------------------------
(* The stick's side of a command, external *)

Data(bytes) == [csw |-> FALSE, tag |-> 0, passed |-> FALSE, bytes |-> bytes]
Csw(t, ok)  == [csw |-> TRUE, tag |-> t, passed |-> ok, bytes |-> <<Odd, Odd, Odd>>]

\* It answers in full, answers short, fails the command, or never got it.
Replies(t, bytes) ==
  {<<Csw(t, FALSE)>>, <<>>}
    \cup {<<Data(SubSeq(bytes, 1, n)), Csw(t, TRUE)>> : n \in 0 .. Len(bytes)}

StatusOnly(t) == {<<Csw(t, ok)>> : ok \in BOOLEAN} \cup {<<>>}

\* A transfer that fails may still have taken its packet.
Uncollected(p) == {p} \cup (IF p = <<>> THEN {} ELSE {Tail(p)})

-----------------------------------------------------------------------------
(* Mutants: slips that would break a property; the specification uses none *)

\* receive_csw does not look at the signature, nor at the tag.
ValidAnyTag(packet, t) == packet.csw => packet.passed

\* IoSlice::read does not clip at the end of the partition.
ClipNot(p, at, n) == n

\* The capacity is counted up to the last block, not including it.
CapacityShort(block_count, block_length) == (block_count - 1) * block_length

\* read_and_hash stops one buffer early.
HashedEarly(size, total, n) == total + BufSize >= size \/ n = 0

\* read_and_hash does not look for the end of the data.
HashedWhole(size, total, n) == total >= size

-----------------------------------------------------------------------------
(* UsbMassStorage *)

\* receive_csw: length, signature, tag and status
Valid(packet, t) == packet.csw /\ packet.tag = t /\ packet.passed

\* receive_csw, when p is what the stick sends
Statuses(t, p, bytes) ==
  {[ok |-> FALSE, bytes |-> bytes, pipe |-> q] : q \in Uncollected(p)}
    \cup (IF p = <<>> THEN {}
          ELSE {[ok |-> Valid(Head(p), t), bytes |-> bytes, pipe |-> Tail(p)]})

\* send_over_usb without data, as TEST UNIT READY uses it
SendOverUsb(t) ==
  UNION {{[ok |-> FALSE, bytes |-> <<>>, pipe |-> pipe \o r]} \cup Statuses(t, pipe \o r, <<>>)
           : r \in StatusOnly(t)}

\* A buffer of m bytes: short data is copied, the rest stays zero.
Filled(data, m) ==
  LET n == Smaller(Len(data), m) IN SubSeq(data, 1, n) \o Zeros(m - n)

\* receive_over_usb into a buffer as long as `bytes`
ReceiveOverUsb(t, bytes) ==
  LET After(p) == {[ok |-> FALSE, bytes |-> <<>>, pipe |-> q] : q \in Uncollected(p)}
                    \cup (IF p = <<>> THEN {}
                          ELSE Statuses(t, Tail(p), Filled(Head(p).bytes, Len(bytes))))
  IN  UNION {After(pipe \o r) \cup {[ok |-> FALSE, bytes |-> <<>>, pipe |-> pipe \o r]}
               : r \in Replies(t, bytes)}

\* read_10: the buffer is as long as the blocks asked for.
Read10(t, block_address, transfer_length) ==
  ReceiveOverUsb(t, Addresses(block_address * BlockLength, transfer_length * BlockLength))

\* The size read_capacity computes from the last LBA.
Capacity(block_count, block_length) == block_count * block_length

\* data[start_index..end_index] of read
Select(data, from, n) == SubSeq(data, (from % BlockLength) + 1, (from % BlockLength) + n)

\* Read for UsbMassStorage at seek position `from`: an error, a panic (the
\* slice of the data is out of range) or the bytes.
UsbRead(from, n) ==
  LET first == from \div BlockLength
      count == ((from + n - 1) \div BlockLength - first + 1) % CountModulus
      Same(result) == [result |-> result, bytes |-> <<>>, pipe |-> pipe, tag |-> tag,
                       seek |-> from, faulty |-> faulty]
      Outcome(x) ==
        LET fits == (from % BlockLength) + n <= Len(x.bytes)
            good == x.ok /\ fits
        IN [result |-> IF ~x.ok THEN "error" ELSE IF fits THEN "ok" ELSE "panic",
            bytes  |-> IF good THEN Select(x.bytes, from, n) ELSE <<>>,
            pipe   |-> x.pipe,
            tag    |-> tag + 1,
            seek   |-> IF good THEN from + n ELSE from,
            faulty |-> faulty \/ ~x.ok \/ Contains(x.bytes, Zero)]
  IN  IF n = 0 THEN {Same("ok")}
      ELSE IF from + n > capacity THEN {Same("error")}
      ELSE {Outcome(x) : x \in Read10(tag + 1, first, count)}

-----------------------------------------------------------------------------
(* IoSlice and BufReader *)

\* The target of Seek for IoSlice; -1 is an error.
SeekTo(p, offset) == IF Start(p) + offset > End(p) THEN -1 ELSE Start(p) + offset

\* max_bytes of Read for IoSlice
Clip(p, at, n) == Smaller(End(p) - at, n)

Advance(at, n) == at + n

\* Read for IoSlice: Ok(0) at the end, else a seek and a read of what lies inside.
\* At -1 the seek of the library failed.
SliceRead(at, n) ==
  IF at = -1 \/ at >= End(part)
  THEN {[result |-> IF at = -1 THEN "error" ELSE "ok", bytes |-> <<>>, pipe |-> pipe,
         tag |-> tag, seek |-> seek, faulty |-> faulty]}
  ELSE UsbRead(at, Clip(part, at, n))

\* Read for BufReader, external: what it holds, else past it when the request
\* is no smaller than its buffer, else through it.
BufRead(n) ==
  LET Split(x, held, at) ==
        [result |-> x.result, pipe |-> x.pipe, tag |-> x.tag, seek |-> x.seek,
         faulty |-> x.faulty, position |-> at,
         bytes |-> SubSeq(held, 1, Smaller(n, Len(held))),
         ahead |-> SubSeq(held, Smaller(n, Len(held)) + 1, Len(held))]
  IN IF ahead # <<>>
     THEN {Split([result |-> "ok", pipe |-> pipe, tag |-> tag, seek |-> seek,
                  faulty |-> faulty], ahead, position)}
     ELSE {Split(x, x.bytes, Advance(position, Len(x.bytes)))
             : x \in SliceRead(position, IF n >= BufSize THEN n ELSE BufSize)}

-----------------------------------------------------------------------------
(* The programs *)

\* A process that was killed may have left a status to collect.
Init ==
  /\ program \in Programs
  /\ pc = "reset"
  /\ capacity = 0 /\ seek = 0 /\ tag = 0 /\ faulty = FALSE
  /\ pipe \in {<<>>, <<Csw(1, TRUE)>>}
  /\ part \in Partitions
  /\ position = 0 /\ ahead = <<>>
  /\ turn = 0 /\ pass = 1 /\ got = <<>> /\ hashes = <<>>

Keep(x) == pipe' = x.pipe /\ tag' = x.tag /\ seek' = x.seek /\ faulty' = x.faulty
Go(ok, to) == pc' = IF ok THEN to ELSE "exit"

\* UsbMassStorage::new as far as reset: any error ends the program.
Reset ==
  /\ pc = "reset"
  /\ \E ok \in BOOLEAN, p \in {pipe, <<>>} :
       Go(ok, "test") /\ pipe' = p /\ faulty' = (~ok \/ p # <<>>)
  /\ UNCHANGED <<capacity, seek, tag, sliceVars, program, turn, pass, got, hashes>>

TestUnitReady ==
  /\ pc = "test"
  /\ \E x \in SendOverUsb(tag + 1) :
       Go(x.ok, "capacity") /\ pipe' = x.pipe /\ faulty' = (faulty \/ ~x.ok)
  /\ tag' = tag + 1
  /\ UNCHANGED <<capacity, seek, sliceVars, program, turn, pass, got, hashes>>

\* The eight bytes stand for one that holds the last LBA; short, they are
\* zero.  A status in their place is too long for them.
ReadCapacity ==
  /\ pc = "capacity"
  /\ \E x \in ReceiveOverUsb(tag + 1, <<LastLba>>) :
       LET ok == x.ok /\ ~Contains(x.bytes, Odd)
           whole == ok /\ x.bytes = <<LastLba>>
       IN /\ Go(ok, "mbr")
          /\ capacity' = IF whole THEN Capacity(LastLba, BlockLength) ELSE 0
          /\ pipe' = x.pipe
          /\ faulty' = (faulty \/ ~whole)
  /\ tag' = tag + 1
  /\ UNCHANGED <<seek, sliceVars, program, turn, pass, got, hashes>>

\* main: the boot record, its first used partition, IoSlice::new
ReadMbr ==
  /\ pc = "mbr"
  /\ \E x \in UsbRead(0, BlockLength) :
       /\ Keep(x)
       /\ Go(x.result = "ok" /\ ~Contains(x.bytes, Zero) /\ Start(part) < End(part),
             IF program \in {"hash", "throughput"} THEN "open" ELSE "run")
  /\ position' = Start(part)
  /\ UNCHANGED <<capacity, part, ahead, program, turn, pass, got, hashes>>

\* io::copy of readlot
Copy ==
  /\ pc = "run" /\ program = "readlot"
  /\ \E x \in BufRead(BufSize) :
       /\ Keep(x) /\ position' = x.position /\ ahead' = x.ahead
       /\ got' = got \o x.bytes
       /\ pc' = IF x.result # "ok" THEN "panic" ELSE IF x.bytes = <<>> THEN "done" ELSE "run"
  /\ UNCHANGED <<capacity, part, program, turn, pass, hashes>>

\* read_latency: the warm-up at 0, then one buffer after the other
Position(i, size) == ((i - 1) * ReadSize) % size

Latency ==
  /\ pc = "run" /\ program = "latency"
  /\ \E x \in UsbRead(IF turn = 0 THEN 0 ELSE Position(turn, capacity), ReadSize) :
       /\ Keep(x)
       /\ got' = x.bytes
       /\ pc' = IF x.result # "ok" THEN "panic" ELSE IF turn = Reads THEN "done" ELSE "run"
       /\ turn' = IF pc' = "run" THEN turn + 1 ELSE turn
  /\ UNCHANGED <<capacity, sliceVars, program, pass, hashes>>

\* ExFat::open on a fresh slice and BufReader, and the directory: the library
\* refuses metadata that is not there.
Metadata == {[x EXCEPT !.result = IF @ = "ok" /\ Contains(x.bytes, Zero) THEN "error" ELSE @]
               : x \in SliceRead(Start(part), BufSize)}

\* main opens the volume: read_and_hash once, read_throughput every iteration.
OpenVolume ==
  /\ pc = "open"
  /\ \E x \in Metadata :
       /\ Keep(x)
       /\ pc' = CASE x.result = "panic" -> "panic"
                  [] x.result = "error" -> "exit"
                  [] OTHER -> IF program = "hash" THEN "file" ELSE "run"
  /\ turn' = 1 /\ position' = SeekTo(part, Files[1][1])
  /\ ahead' = <<>> /\ got' = <<>>
  /\ UNCHANGED <<capacity, part, program, pass, hashes>>

\* print_directory_listing: the line of this file, then the next
Listed(hash) ==
  /\ hashes' = Append(hashes, hash)
  /\ pc' = IF turn = Len(Files) THEN "done" ELSE "file"
  /\ turn' = IF turn = Len(Files) THEN turn ELSE turn + 1
  /\ got' = <<>>

\* File::open of the library gives no handle for a file without a cluster.
NoHandle(f) == Files[f][2] = 0

\* compute_hash: the volume once more, and the file in it; "-" is printed for
\* one without a handle.
ComputeHash ==
  /\ pc = "file"
  /\ \E x \in Metadata :
       /\ Keep(x)
       /\ LET none == x.result = "error" \/ (x.result = "ok" /\ NoHandle(turn)) IN
          \/ none /\ Listed(None)
          \/ /\ ~none
             /\ pc' = IF x.result = "ok" THEN "run" ELSE "panic"
             /\ UNCHANGED <<turn, got, hashes>>
  /\ position' = SeekTo(part, Files[turn][1])
  /\ ahead' = <<>>
  /\ UNCHANGED <<capacity, part, program, pass>>

\* read_item of read_and_hash: is this the end of the file?  A read of n bytes
\* made it `total`.
Hashed(size, total, n) == total >= size \/ n = 0

ReadHashed ==
  /\ pc = "run" /\ program = "hash"
  /\ LET size == Files[turn][2] IN
     \E x \in BufRead(Smaller(Smaller(size - Len(got), BufSize), Cluster)) :
       /\ Keep(x) /\ position' = x.position /\ ahead' = x.ahead
       /\ LET all == got \o x.bytes IN
          \/ x.result = "error" /\ Listed(None)
          \/ x.result = "panic" /\ pc' = "panic" /\ UNCHANGED <<turn, got, hashes>>
          \/ x.result = "ok" /\ Hashed(size, Len(all), Len(x.bytes)) /\ Listed({all})
          \/ /\ x.result = "ok" /\ ~Hashed(size, Len(all), Len(x.bytes))
             /\ got' = all
             /\ UNCHANGED <<pc, turn, hashes>>
  /\ UNCHANGED <<capacity, part, program, pass>>

\* main of read_throughput: the next item of the directory, whatever became of
\* this one, and the next iteration after the last.
NextItem ==
  LET last == turn = Len(Files) IN
  /\ turn' = IF last THEN turn ELSE turn + 1
  /\ pass' = IF last /\ pass < Passes THEN pass + 1 ELSE pass
  /\ pc' = IF ~last THEN "run" ELSE IF pass < Passes THEN "open" ELSE "done"
  /\ position' = SeekTo(part, Files[turn'][1])
  /\ ahead' = <<>> /\ got' = <<>>

\* read_item of read_throughput: Ok(0) for a file without a handle
ReadNothing ==
  /\ pc = "run" /\ program = "throughput" /\ NoHandle(turn)
  /\ NextItem
  /\ UNCHANGED <<storageVars, part, program, hashes>>

\* Else read_exact; the end of the data is an error.
ReadExact ==
  /\ pc = "run" /\ program = "throughput" /\ ~NoHandle(turn)
  /\ \E x \in BufRead(Smaller(Files[turn][2] - Len(got), Cluster)) :
       /\ Keep(x)
       /\ LET all == got \o x.bytes
              over == x.result = "error" \/ x.bytes = <<>> \/ Len(all) = Files[turn][2]
          IN \/ x.result = "panic" /\ pc' = "panic" /\ UNCHANGED <<turn, pass, position, ahead, got>>
             \/ x.result # "panic" /\ over /\ NextItem
             \/ /\ x.result # "panic" /\ ~over
                /\ got' = all /\ position' = x.position /\ ahead' = x.ahead
                /\ UNCHANGED <<pc, turn, pass>>
  /\ UNCHANGED <<capacity, part, program, hashes>>

Next ==
  \/ Reset \/ TestUnitReady \/ ReadCapacity \/ ReadMbr
  \/ Copy \/ Latency
  \/ OpenVolume \/ ComputeHash \/ ReadHashed \/ ReadNothing \/ ReadExact

\* Every await has a timeout of a second: the program goes on.
Spec == Init /\ [][Next]_vars /\ WF_vars(Next)

-----------------------------------------------------------------------------
(* Properties *)

Bytes == Nat \cup {Zero}

TypeOK ==
  /\ program \in Programs
  /\ pc \in {"reset", "test", "capacity", "mbr", "open", "file", "run", "done", "exit", "panic"}
  /\ capacity \in {0, LastLba * BlockLength}
  /\ {seek, tag, turn, pass} \subseteq Nat
  /\ \A packet \in Range(pipe) : packet.csw \in BOOLEAN /\ packet.tag \in 0 .. tag + 1
  /\ part \in Partitions /\ position \in Nat \cup {-1}
  /\ ahead \in Seq(Bytes) /\ got \in Seq(Bytes)
  /\ \A hash \in Range(hashes) : hash \subseteq Seq(Bytes) /\ faulty \in BOOLEAN

\* Bytes that are those of the stick from `from` on, but for the holes.
InPlace(bytes, from) == \A i \in 1 .. Len(bytes) : bytes[i] \in {from + i - 1, Zero}

FileStart(f) == Start(part) + Files[f][1]

\* Whatever failed before, what a program is given of the file, the partition
\* or the buffer it reads is that, byte by byte; a byte may be zero for one
\* that did not arrive, but it is never one of an earlier command (a data
\* phase that was given up) nor of a status.  (tag and status in receive_csw,
\* the two offsets of IoSlice and of Read for UsbMassStorage, BufReader.)
DeliveredInPlace ==
  /\ \A f \in DOMAIN hashes : \A hash \in hashes[f] : InPlace(hash, FileStart(f))
  /\ CASE program = "readlot" -> InPlace(got, Start(part))
       [] program = "latency" -> turn > 1 /\ pc = "run" /\ got # <<>> =>
                                   InPlace(got, Position(turn - 1, capacity))
       [] OTHER -> got # <<>> => InPlace(got, FileStart(turn))

\* A hash that is printed is of the whole file, and a copy that ends is of the
\* whole partition; read_item of read_and_hash would print the hash of a part
\* just as well, but only of a file that reaches past the partition.
WholeOrNothing ==
  /\ \A f \in DOMAIN hashes :
       Files[f][1] + Files[f][2] <= End(part) - Start(part) =>
         \A hash \in hashes[f] : Len(hash) = Files[f][2]
  /\ program = "readlot" /\ pc = "done" => Len(got) = End(part) - Start(part)

\* The block count of a read of n bytes is a u16.
CountFits(n) == (n + BlockLength - 2) \div BlockLength + 1 < CountModulus

\* What the programs ask for is there: a partition that leaves out the last
\* block, as the capacity (last LBA times block length) does, files that begin
\* in it, and a stick of a whole number of the buffers read_latency reads.
Readable ==
  /\ 0 < part[2] /\ End(part) <= LastLba * BlockLength
  /\ \A f \in DOMAIN Files : FileStart(f) <= End(part)
  /\ (LastLba * BlockLength) % ReadSize = 0
  /\ \A n \in {BlockLength, BufSize, Cluster, ReadSize} : CountFits(n)

\* A program gives up, panics or leaves a file out only when a transfer failed
\* or was short, or what it asks for is not there; but read_and_hash leaves out
\* an empty file too, for which the library has no handle.
NoErrorWithoutFault ==
  ~faulty /\ Readable =>
    /\ pc \notin {"exit", "panic"}
    /\ \A f \in DOMAIN hashes : hashes[f] = None => NoHandle(f)

\* Each program comes to an end: io::copy and the loops of read_item find the
\* end of the partition, and of a file that reaches past it.
Terminates == <>(pc \in {"done", "exit", "panic"})

=============================================================================
