----------------------------- MODULE BlockCache -----------------------------
(***************************************************************************)
(* The block cache of the mass-storage guest: Seek, Read, Write and flush  *)
(* of MassStorageDevice in examples/mass-storage/src/mass_storage.rs.      *)
(*                                                                         *)
(* The code's slices keep their bounds here: a copy_from_slice of slices   *)
(* of different lengths, or a slice out of range, panics and ends the      *)
(* guest.  Every byte of the medium and of a write has a value of its own, *)
(* so that a byte in the wrong place shows.                                *)
(*                                                                         *)
(* A SCSI command may fail, as BulkOnly lets it.  A READ that fails, comes *)
(* short, or gets no status, panics; a WRITE without a status panics too,  *)
(* but one that failed is only printed.  Either has stored some blocks.    *)
(***************************************************************************)
EXTENDS Integers, FiniteSets, SequencesExt

CONSTANTS
  BlockSize,    \* bytes per block: 512
  LastLba,      \* what READ CAPACITY returns: the address of the last block
  CacheSize,    \* CACHE_SIZE: 128
  CountModulus, \* a number of blocks is a u16: 65536
  Release,      \* is the guest built without overflow checks?
  Careful,      \* does the guest keep to CarefulRead and CarefulWrite?
  Lengths,      \* bound: the lengths of buffers
  MaxWrites,    \* bound: writes of the guest
  MaxFaults     \* bound: commands that fail, one in a call

ASSUME CacheAssumption ==
  /\ BlockSize \in Nat \ {0} /\ CacheSize \in Nat \ {0} /\ LastLba \in Nat
  /\ CountModulus \in Nat /\ CountModulus > 2
  /\ Release \in BOOLEAN /\ Careful \in BOOLEAN
  /\ Lengths \subseteq Nat \ {0} /\ {MaxWrites, MaxFaults} \subseteq Nat

VARIABLES
  device,     \* "open", "closed" (dropped) or "panicked"
  medium,     \* the blocks of the device
  cache,      \* the LRUCache, last used first
  cursor,
  disk,       \* the bytes a guest expects to find, by what it wrote
  unsaved,    \* the addresses written since flush_cache
  lost,       \* the blocks of WRITEs that failed
  writes,     \* how many writes there were
  faults,     \* how many commands have failed
  answer      \* what the last read returned: <<address, bytes>>

vars == <<device, medium, cache, cursor, disk, unsaved, lost, writes, faults, answer>>

None == <<>>
Block == 0 .. LastLba

\* MassStorageDeviceProperties::capacity: the last block is left out.
Capacity == LastLba * BlockSize

Original(address) == address + 1
Value(write, address) == write * 1000 + address

\* Hits, misses, evictions and updates in any order leave one entry per block
\* and no more than the cache holds.
OneEntryPerBlock ==
  /\ Len(cache) <= CacheSize
  /\ \A i, j \in DOMAIN cache : cache[i].block = cache[j].block => i = j

\* Every call of read, write, flush and drop keeps the state well formed, and the
\* cache with one entry per block.
TypeOK ==
  /\ device \in {"open", "closed", "panicked"}
  /\ medium \in [Block -> Seq(Nat)]
  /\ \A b \in Block : Len(medium[b]) = BlockSize
  /\ cache \in Seq([block : Block, data : Seq(Nat), dirty : BOOLEAN])
  /\ \A i \in DOMAIN cache : Len(cache[i].data) = BlockSize
  /\ OneEntryPerBlock
  /\ cursor \in 0 .. Capacity
  /\ disk \in [0 .. Capacity - 1 -> Nat]
  /\ unsaved \subseteq DOMAIN disk /\ lost \subseteq Block
  /\ writes \in 0 .. MaxWrites /\ faults \in 0 .. MaxFaults

\* data[from..upto]; a slice out of range is empty, which no copy accepts.
Slice(data, from, upto) ==
  IF from <= upto /\ upto <= Len(data) THEN SubSeq(data, from + 1, upto) ELSE <<>>

-----------------------------------------------------------------------------
(* SCSI commands.  The state s of a call has the fields medium, cache, buf, *)
(* ok (no panic yet), commands (how many it has sent), lost, and fault: the *)
(* command `at` fails, and `ends` the call or not; a WRITE `keeps` blocks.  *)

NoFault == [at |-> 0, ends |-> FALSE, keeps |-> 0]

Fails(s) == s.fault.at = s.commands + 1

\* A number of blocks `as u16`
Counted(blocks) == blocks % CountModulus

\* The data of read_blocks
ReadBlocks(s, address, blocks) ==
  [i \in 1 .. blocks * BlockSize |->
     s.medium[address + (i - 1) \div BlockSize][((i - 1) % BlockSize) + 1]]

\* read_blocks: no status, a bad one and, soon after, short data panic.
SendRead(s) == [s EXCEPT !.commands = @ + 1, !.ok = @ /\ ~Fails(s)]

\* write_blocks: no status panics, a bad one is printed.
WriteBlocks(s, address, blocks, data) ==
  LET stored == IF Fails(s) /\ s.fault.keeps < blocks THEN s.fault.keeps ELSE blocks
  IN [s EXCEPT
        !.commands = @ + 1,
        !.ok = @ /\ ~(Fails(s) /\ s.fault.ends),
        !.lost = IF Fails(s) /\ ~s.fault.ends THEN @ \cup (address .. address + blocks - 1) ELSE @,
        !.medium = [b \in Block |->
          IF b \in address .. address + stored - 1
          THEN Slice(data, (b - address) * BlockSize, (b - address + 1) * BlockSize)
          ELSE @[b]]]

-----------------------------------------------------------------------------
(* uluru::LRUCache.  find moves what it finds to the front; insert on a    *)
(* full cache evicts the last entry.                                       *)

Find(entries, b) == SelectInSeq(entries, LAMBDA e : e.block = b)

Has(entries, b) == Find(entries, b) # 0

\* The state after find has found b
Used(s, b) ==
  LET i == Find(s.cache, b) IN
  [s EXCEPT !.cache = <<@[i]>> \o RemoveAt(@, i)]

Victim(entries) == Len(entries) = CacheSize /\ Last(entries).dirty

\* Mutant, unused: a miss is inserted in front of the entry it evicts, which stays.
InsertBeyond(s, b, data) ==
  [s EXCEPT !.cache = <<[block |-> b, data |-> data, dirty |-> FALSE]>> \o @]

\* An insertion; a dirty entry it evicts is written, to the new entry's block.
Insert(s, b, data) ==
  LET inserted == [s EXCEPT
        !.cache = <<[block |-> b, data |-> data, dirty |-> FALSE]>>
                    \o IF Len(@) = CacheSize THEN Front(@) ELSE @]
  IN IF Victim(s.cache) THEN WriteBlocks(inserted, b, 1, Last(s.cache).data) ELSE inserted

\* "Update the cache": the entry of b, if there is one, is overwritten.
Update(s, b, data, dirty) ==
  IF ~s.ok THEN s
  ELSE IF ~Has(s.cache, b) THEN Insert(s, b, data)
  ELSE IF Len(data) # BlockSize THEN [s EXCEPT !.ok = FALSE]
  ELSE [Used(s, b) EXCEPT !.cache[1].data = data, !.cache[1].dirty = @ \/ dirty]

-----------------------------------------------------------------------------
(* Slices *)

\* buf[from..upto].copy_from_slice(data)
Copy(s, from, upto, data) ==
  IF /\ s.ok
     /\ 0 <= from /\ from < upto /\ upto <= Len(s.buf)
     /\ Len(data) = upto - from
  THEN [s EXCEPT !.buf = SubSeq(@, 1, from) \o data \o SubSeq(@, upto + 1, Len(@))]
  ELSE [s EXCEPT !.ok = FALSE]

\* What read and write compute of a buffer of `length` bytes at the cursor.
Span(length) ==
  LET limit == IF cursor + length < Capacity THEN cursor + length ELSE Capacity
      first == cursor \div BlockSize
      last  == (limit - 1) \div BlockSize
  IN [bytes |-> limit - cursor, start |-> first, end |-> last,
      offset |-> cursor % BlockSize, offsetEnd |-> ((limit - 1) % BlockSize) + 1,
      num |-> last - first + 1]

\* chunks: the first n blocks of data are cached as first, first + 1, ...  What
\* each leaves.
Chunks(s, first, data, n) ==
  LET after[i \in 0 .. n] ==
        IF i = 0 THEN s
        ELSE Update(after[i - 1], first + i - 1,
                    Slice(data, (i - 1) * BlockSize, i * BlockSize), FALSE)
  IN  after

-----------------------------------------------------------------------------
(* Mutants: operators as a slip in the code would leave them; unused.      *)

\* read copies from the start of the first cached block.
HitCopyUnaligned(s, a, b) ==
  Copy(s, 0, Len(s.buf), Slice(s.cache[1].data, 0, a.offsetEnd - a.offset))

\* write patches zeros, not what the block holds.
PresentUnread(s, b) ==
  IF Has(s.cache, b) THEN s.cache[Find(s.cache, b)].data ELSE [i \in 1 .. BlockSize |-> 0]

\* flush_cache writes nothing back.
FlushedNothing(s) == [s EXCEPT !.cache = <<>>]

\* read labels what it has read with the block after.
FillShifted(s, a, range) ==
  LET n == range[2] - range[1]
  IN Chunks(s, range[1] + 1, ReadBlocks(s, a.start, n), n)[n]

-----------------------------------------------------------------------------
(* Read::read, first loop: copy what is cached, collect ranges of the rest. *)

\* u32 and usize wrap in a release build: an index below 0 is out of range.
\* With overflow checks, start_block - block panics.
HitCopy(s, a, b) ==
  LET data  == s.cache[1].data
      head  == BlockSize - a.offset
      index == head + (a.start - b) * BlockSize
  IN CASE b = a.start /\ b = a.end -> Copy(s, 0, Len(s.buf), Slice(data, a.offset, a.offsetEnd))
       [] b = a.start /\ b # a.end -> Copy(s, 0, head, Slice(data, a.offset, BlockSize))
       [] b # a.start /\ b = a.end ->
            Copy(s, head + (a.num - 2) * BlockSize, Len(s.buf), Slice(data, 0, a.offsetEnd))
       [] b # a.start /\ b # a.end ->
            IF Release THEN Copy(s, index, index + BlockSize, data) ELSE [s EXCEPT !.ok = FALSE]

\* The start of a range stays set when the range has ended.
Lookup(s, a, b) ==
  IF ~s.ok THEN s
  ELSE IF ~Has(s.cache, b) THEN [s EXCEPT !.missed = IF @ = None THEN <<b>> ELSE @]
  ELSE LET hit == HitCopy(Used(s, b), a, b)
       IN [hit EXCEPT !.ranges = IF s.missed = None THEN @ ELSE Append(@, <<s.missed[1], b>>)]

\* What the lookup of each block leaves
Lookups(s, a) ==
  LET after[i \in 0 .. a.num] ==
        IF i = 0 THEN s ELSE Lookup(after[i - 1], a, a.start + i - 1)
  IN  after

(* Second loop: read each range into the cache and the buffer.             *)

\* Of data longer than the cache the end is kept, named as if it were the start.
Fill(s, a, range) ==
  LET sent  == Counted(range[2] - range[1])
      data  == ReadBlocks(s, a.start, sent)
      count == IF sent > CacheSize THEN CacheSize ELSE sent
      kept  == Slice(data, Len(data) - count * BlockSize, Len(data))
  IN Chunks(s, range[1], kept, count)[count]

\* The data of every range is read from start_block, not from range[1].  Data of
\* a truncated count is cached, but too short to copy.
ReadRange(s, a, range) ==
  LET data  == ReadBlocks(s, a.start, Counted(range[2] - range[1]))
      head  == BlockSize - a.offset
      whole == (a.num - 1) * BlockSize
      from  == head + (range[1] - a.start - 1) * BlockSize
      upto  == head + (range[2] - a.start - 1) * BlockSize
      to(t, i, j, bytes) == IF t.ok THEN Copy(t, i, j, bytes) ELSE t
      sent == IF s.ok THEN SendRead(s) ELSE s
      filled == IF sent.ok THEN Fill(sent, a, range) ELSE sent
  IN IF range[1] = a.start
     THEN IF range[2] = a.end + 1
          THEN to(filled, 0, Len(s.buf), Slice(data, a.offset, whole + a.offsetEnd))
          ELSE to(filled, 0, upto, Slice(data, a.offset, whole))
     ELSE IF range[2] = a.end + 1
          THEN to(filled, from, Len(s.buf), Slice(data, 0, whole + a.offsetEnd))
          ELSE to(filled, from, upto, data)

\* What the reading of each range leaves
ReadRanges(s, a, ranges) ==
  LET after[i \in 0 .. Len(ranges)] ==
        IF i = 0 THEN s ELSE ReadRange(after[i - 1], a, ranges[i])
  IN  after

\* The whole of read, from s.
ReadInto(s, a) ==
  LET looked == Lookups(s, a)[a.num]
      ranges == IF looked.missed = None THEN looked.ranges
                ELSE Append(looked.ranges, <<looked.missed[1], a.end + 1>>)
  IN ReadRanges(looked, a, ranges)[Len(ranges)]

-----------------------------------------------------------------------------
(* Write::write *)

\* The present contents of block b.
Present(s, b) ==
  IF Has(s.cache, b) THEN s.cache[Find(s.cache, b)].data ELSE ReadBlocks(s, b, 1)

\* Block b is found in the cache, or read.
Fetch(s, b) ==
  IF ~s.ok THEN s ELSE IF Has(s.cache, b) THEN Used(s, b) ELSE SendRead(s)

\* One block: it stays in the cache, dirty if it was there before.
WriteOne(s, a, bytes) ==
  LET patched == Copy([Fetch(s, a.start) EXCEPT !.buf = Present(s, a.start)],
                      a.offset, a.offset + Len(bytes), bytes)
  IN Update(patched, a.start, patched.buf, TRUE)

\* "Update the cache": the entry of a block that was cached is given the data of
\* them all.  What each leaves.
Keeps(s, a, data) ==
  LET Piece(acc, i) == IF Has(acc.cache, a.start + i - 1) THEN data
                       ELSE Slice(data, (i - 1) * BlockSize, i * BlockSize)
      after[i \in 0 .. a.num] ==
        IF i = 0 THEN s
        ELSE Update(after[i - 1], a.start + i - 1, Piece(after[i - 1], i), FALSE)
  IN  after

\* Several: they are written to the device, then cached.
WriteMany(s, a, bytes) ==
  LET zeros == [i \in 1 .. (a.num - 2) * BlockSize |-> 0]
      seen  == Fetch(Fetch(s, a.start), a.end)
      patched == Copy([seen EXCEPT !.buf = Present(s, a.start) \o zeros \o Present(s, a.end)],
                      a.offset, a.offset + Len(bytes), bytes)
      data  == patched.buf
  IN IF patched.ok
     THEN Keeps(WriteBlocks(patched, a.start, a.num, data), a, data)[a.num]
     ELSE patched

\* More than a u16 counts: the bytes do not fit in data of the truncated count.
WriteTooMany(s, a) ==
  LET first == Fetch(s, a.start)
      seen  == IF Counted(a.num) > 1 THEN Fetch(first, a.end) ELSE first
  IN [seen EXCEPT !.ok = FALSE]

\* What write does with the bytes
WriteFrom(s, a, bytes) ==
  IF a.num >= CountModulus THEN WriteTooMany(s, a)
  ELSE IF a.num = 1 THEN WriteOne(s, a, bytes)
  ELSE WriteMany(s, a, bytes)

WriteBack(s, e) == IF s.ok /\ e.dirty THEN WriteBlocks(s, e.block, 1, e.data) ELSE s

\* What the writing of each dirty entry leaves
WritesBack(s) ==
  LET after[i \in 0 .. Len(s.cache)] ==
        IF i = 0 THEN s ELSE WriteBack(after[i - 1], s.cache[i])
  IN  after

\* flush_cache: dirty entries are written, all entries forgotten.
Flushed(s) ==
  LET written == WritesBack(s)[Len(s.cache)]
  IN IF written.ok THEN [written EXCEPT !.cache = <<>>] ELSE written

-----------------------------------------------------------------------------
(* A careful guest: its accesses evict nothing dirty, it writes within a   *)
(* block it has just read or over blocks it has not, and it reads several  *)
(* blocks, at most two and at most the cache, only when nothing is dirty.  *)

NothingDirty == \A i \in DOMAIN cache : ~cache[i].dirty

CarefulRead(a) ==
  IF a.num = 1 THEN Has(cache, a.start) \/ ~Victim(cache)
  ELSE NothingDirty /\ a.num <= 2 /\ a.num <= CacheSize

CarefulWrite(a) ==
  IF a.num = 1 THEN Has(cache, a.start)
  ELSE NothingDirty /\ \A b \in a.start .. a.end : ~Has(cache, b)

-----------------------------------------------------------------------------

Init ==
  /\ device  = "open"
  /\ medium  = [b \in Block |-> [i \in 1 .. BlockSize |-> Original(b * BlockSize + i - 1)]]
  /\ cache   = <<>>
  /\ cursor  = 0
  /\ disk    = [address \in 0 .. Capacity - 1 |-> Original(address)]
  /\ unsaved = {} /\ lost = {}
  /\ writes  = 0 /\ faults = 0
  /\ answer  = None

Seek(position) ==
  /\ device = "open"
  /\ cursor' = position
  /\ answer' = None
  /\ UNCHANGED <<device, medium, cache, disk, unsaved, lost, writes, faults>>

\* A buffer is handed to read with bytes of its own in it.
Stale == 999

Start(length) ==
  [medium |-> medium, cache |-> cache, ok |-> TRUE, missed |-> None, ranges |-> <<>>,
   buf |-> [i \in 1 .. length |-> Stale], commands |-> 0, lost |-> lost, fault |-> NoFault]

\* The states a call leaves: it goes well, or one of its commands fails.
Outcomes(Call(_), s) ==
  LET smooth == Call(s)
      struck == [at : 1 .. smooth.commands, ends : BOOLEAN, keeps : 0 .. Cardinality(Block)]
  IN {smooth} \cup (IF faults < MaxFaults THEN {Call([s EXCEPT !.fault = f]) : f \in struck}
                    ELSE {})

\* What a call leaves behind; a panic leaves its effects up to there.
Leaves(s, state) ==
  /\ cache'  = s.cache
  /\ medium' = s.medium
  /\ lost'   = s.lost
  /\ faults' = IF s.fault = NoFault THEN faults ELSE faults + 1
  /\ device' = IF s.ok THEN state ELSE "panicked"

Read(length) ==
  LET a == Span(length)
      Call(s) == ReadInto(s, a)
  IN /\ device = "open"
     /\ a.bytes > 0
     /\ Careful => CarefulRead(a)
     /\ \E s \in Outcomes(Call, Start(length)) :
          /\ Leaves(s, "open")
          /\ cursor' = IF s.ok THEN cursor + a.bytes ELSE cursor
          /\ answer' = IF s.ok THEN <<cursor, s.buf>> ELSE None
     /\ UNCHANGED <<disk, unsaved, writes>>

Write(length) ==
  LET a == Span(length)
      touched == cursor .. cursor + a.bytes - 1
      bytes == [i \in 1 .. length |-> Value(writes + 1, cursor + i - 1)]
      Call(s) == WriteFrom(s, a, bytes)
  IN /\ device = "open"
     /\ a.bytes > 0
     /\ writes < MaxWrites
     /\ Careful => CarefulWrite(a)
     /\ \E s \in Outcomes(Call, Start(0)) :
          /\ Leaves(s, "open")
          /\ cursor' = IF s.ok THEN cursor + a.bytes ELSE cursor
     /\ disk' = [address \in DOMAIN disk |->
          IF address \in touched THEN Value(writes + 1, address) ELSE disk[address]]
     /\ unsaved' = unsaved \cup touched
     /\ writes' = writes + 1
     /\ answer' = None

\* Write::flush, and MassStorageDevice::drop, which flushes too
FlushTo(state) ==
  /\ device = "open"
  /\ \E s \in Outcomes(Flushed, Start(0)) :
       /\ Leaves(s, state)
       /\ unsaved' = IF s.ok THEN {} ELSE unsaved
  /\ answer' = None
  /\ UNCHANGED <<cursor, disk, writes>>

Flush == FlushTo("open")
DropDevice == FlushTo("closed")

Next ==
  \/ \E position \in 0 .. Capacity : Seek(position)
  \/ \E length \in Lengths : Read(length) \/ Write(length)
  \/ Flush
  \/ DropDevice

Spec == Init /\ [][Next]_vars

-----------------------------------------------------------------------------
(* Properties *)

BlockOf(address) == address \div BlockSize
OnMedium(address) == medium[BlockOf(address)][(address % BlockSize) + 1]

\* A read that returns, returns what was last written at every address, or its
\* block was in a WRITE that failed; other failures of commands panic, so that
\* data which did not arrive is never returned for data.
ReadsAsWritten ==
  answer # None =>
    \A i \in DOMAIN answer[2] :
      LET address == answer[1] + i - 1
      IN BlockOf(address) \in lost \/ answer[2][i] = disk[address]

\* What the cache holds of a block and does not mean to write back is on the
\* medium: evicting it loses nothing.  Not so when a WRITE of the block failed,
\* which write_blocks only prints.
CleanIsOnMedium ==
  device # "panicked" =>
    \A i \in DOMAIN cache :
      cache[i].dirty \/ cache[i].block \in lost \/ medium[cache[i].block] = cache[i].data

\* What was written before a flush, or the drop, is on the medium and stays
\* there, also when the guest panics in a later call: "We don't buffer anything
\* ourselves so we don't need to flush" (flush).  A WRITE that fails takes no
\* other block with it.
FlushedIsOnMedium ==
  \A address \in DOMAIN disk :
    address \in unsaved \/ BlockOf(address) \in lost \/ OnMedium(address) = disk[address]

\* Whatever fails, and wherever the guest panics: each byte of the medium is
\* one that was there at first or was written to its address.
BytesStayInPlace ==
  \A address \in DOMAIN disk :
    OnMedium(address) \in {Original(address)} \cup {Value(w, address) : w \in 1 .. writes}

=============================================================================
