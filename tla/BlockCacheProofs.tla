--------------------------- MODULE BlockCacheProofs --------------------------
(***************************************************************************)
(* Proofs about BlockCache, for blocks, media, caches and buffers of any   *)
(* size: types of every guest, and the promises to a careful one.          *)
(***************************************************************************)
EXTENDS BlockCache, SequenceTheorems, WellFoundedInduction, TLAPS

-----------------------------------------------------------------------------
(* Numbers *)

LEMMA SizesType ==
  /\ BlockSize \in Nat \ {0} /\ CacheSize \in Nat \ {0} /\ LastLba \in Nat
  /\ Lengths \subseteq Nat \ {0} /\ MaxWrites \in Nat /\ MaxFaults \in Nat
  BY CacheAssumption

\* A truncated count is no more than the count; a u16 keeps what fits.
LEMMA CountedType ==
  ASSUME NEW n \in Nat
  PROVE  /\ Counted(n) \in Nat /\ Counted(n) <= n
         /\ n < CountModulus => Counted(n) = n
         /\ n \in {1, 2} => Counted(n) = n
<1>1. CountModulus \in Nat \ {0} /\ CountModulus > 2
  BY CacheAssumption
<1>2. Counted(n) \in 0 .. CountModulus - 1 /\ n \div CountModulus \in Nat
  BY <1>1 DEF Counted
<1>3. n = CountModulus * (n \div CountModulus) + Counted(n)
  BY <1>1 DEF Counted
<1> DEFINE q == n \div CountModulus
           m == CountModulus * q
<1>4. m \in Nat /\ (q = 0 => m = 0) /\ (q # 0 => m >= CountModulus)
  <2>1. \A x, y \in Nat : x * y \in Nat /\ x * 0 = 0 /\ (y # 0 => x * y >= x)
    OBVIOUS
  <2> HIDE DEF q
  <2> QED
    BY <1>1, <1>2, <2>1 DEF q
<1>5. Counted(n) \in Nat /\ n = m + Counted(n) /\ (q = 0 => m = 0) /\ (q # 0 => m >= CountModulus)
  BY <1>1, <1>2, <1>3, <1>4
<1> HIDE DEF q, m
<1>6. Counted(n) <= n
  BY <1>4, <1>5
<1>7. n < CountModulus => Counted(n) = n
  BY <1>1, <1>4, <1>5
<1> QED
  BY <1>1, <1>5, <1>6, <1>7

\* A set of numbers has a least one.
LEMMA Least ==
  ASSUME NEW T, T \subseteq Nat, T # {}
  PROVE  \E x \in T : \A y \in T : x <= y
<1>1. PICK x \in T : \A y \in T : ~(<<y, x>> \in OpToRel(<, Nat))
  BY NatLessThanWellFounded, WFMin
<1>2. \A y \in T : ~(y < x)
  BY <1>1 DEF OpToRel
<1> QED
  BY <1>2

\* What holds of 0, and of each number when it holds of the one before, holds
\* up to n.
LEMMA UpTo ==
  ASSUME NEW n \in Nat, NEW T, 0 \in T, \A i \in 1 .. n : i - 1 \in T => i \in T
  PROVE  \A i \in 0 .. n : i \in T
<1> DEFINE Bad == {i \in 0 .. n : i \notin T}
<1>1. CASE Bad = {}
  BY <1>1
<1>2. CASE Bad # {}
  <2>1. \E least \in Bad : \A bad \in Bad : least <= bad
    <3>1. Bad \subseteq Nat
      OBVIOUS
    <3> HIDE DEF Bad
    <3> QED
      BY <1>2, <3>1, Least
  <2>2. PICK least \in Bad : \A bad \in Bad : least <= bad
    BY <2>1
  <2>3. least \in 1 .. n /\ least \notin T
    BY <2>2
  <2>4. least - 1 \in 0 .. n /\ ~(least <= least - 1)
    BY <2>3
  <2>5. least - 1 \in T
    BY <2>2, <2>4
  <2> QED
    BY <2>3, <2>5
<1> QED
  BY <1>1, <1>2

\* f is what n rounds F leave of s.
Ran(n, S, s, F, f) ==
  /\ f \in [0 .. n -> S] /\ f[0] = s
  /\ \A i \in 1 .. n : f[i] = F[i][f[i - 1]]

\* A loop whose rounds stay in S has run: the recursive function exists.
LEMMA Loop ==
  ASSUME NEW n \in Nat, NEW S, NEW s \in S, NEW F \in [1 .. n -> [S -> S]]
  PROVE  \E f : Ran(n, S, s, F, f)
<1> DEFINE Runs(k, f) == f[0] = s /\ \A i \in 1 .. k : f[i] = F[i][f[i - 1]]
           T == {k \in Nat : \E f \in [0 .. k -> S] : Runs(k, f)}
<1>1. 0 \in T
  <2> DEFINE f == [i \in 0 .. 0 |-> s]
  <2>1. f \in [0 .. 0 -> S] /\ Runs(0, f)
    OBVIOUS
  <2> HIDE DEF f, Runs
  <2> QED
    BY <2>1
<1>2. ASSUME NEW k \in 1 .. n, k - 1 \in T PROVE k \in T
  <2>1. PICK f \in [0 .. k - 1 -> S] : Runs(k - 1, f)
    BY <1>2
  <2> DEFINE g == [i \in 0 .. k |-> IF i = k THEN F[k][f[k - 1]] ELSE f[i]]
  <2>2. F[k][f[k - 1]] \in S
    <3>1. k - 1 \in 0 .. k - 1
      OBVIOUS
    <3> QED
      BY <2>1, <3>1
  <2>3. g \in [0 .. k -> S]
    BY <2>1, <2>2
  <2>4. Runs(k, g)
    <3>1. g[0] = s
      BY <2>1
    <3>2. ASSUME NEW i \in 1 .. k PROVE g[i] = F[i][g[i - 1]]
      <4>1. CASE i = k
        BY <4>1
      <4>2. CASE i # k
        <5>1. i \in 1 .. k - 1 /\ i - 1 \in 0 .. k /\ i - 1 # k
          BY <4>2
        <5> QED
          BY <2>1, <4>2, <5>1
      <4> QED
        BY <4>1, <4>2
    <3> QED
      BY <3>1, <3>2
  <2> HIDE DEF g, Runs
  <2> QED
    BY <2>3, <2>4
<1>3. n \in T
  <2> HIDE DEF T
  <2>1. \A i \in 0 .. n : i \in T
    BY <1>1, <1>2, UpTo
  <2> QED
    BY <2>1
<1> QED
  BY <1>3 DEF Ran

\* Two loops that start alike, and go on alike, are the same.
Alike(n, f, g) == f[0] = g[0] /\ \A i \in 1 .. n : f[i - 1] = g[i - 1] => f[i] = g[i]

LEMMA OneLoop ==
  ASSUME NEW n \in Nat, NEW f, NEW g, Alike(n, f, g)
  PROVE  \A i \in 0 .. n : f[i] = g[i]
<1> DEFINE T == {i \in 0 .. n : f[i] = g[i]}
<1>1. 0 \in T
  BY DEF Alike
<1>2. \A i \in 1 .. n : i - 1 \in T => i \in T
  BY DEF Alike
<1> HIDE DEF T
<1>3. \A i \in 0 .. n : i \in T
  BY <1>1, <1>2, UpTo
<1> QED
  BY <1>3 DEF T

-----------------------------------------------------------------------------
(* Slices *)

\* A block's bytes
Data == {data \in Seq(Nat) : Len(data) = BlockSize}

LEMMA SliceType ==
  ASSUME NEW data \in Seq(Nat), NEW from \in Nat, NEW upto \in Nat
  PROVE  /\ Slice(data, from, upto) \in Seq(Nat)
         /\ from <= upto /\ upto <= Len(data) =>
              /\ Len(Slice(data, from, upto)) = upto - from
              /\ \A i \in 1 .. upto - from : Slice(data, from, upto)[i] = data[from + i]
<1>1. CASE from <= upto /\ upto <= Len(data)
  <2>1. Slice(data, from, upto) = SubSeq(data, from + 1, upto)
    BY <1>1 DEF Slice
  <2>2. \A k \in from + 1 .. upto : data[k] \in Nat
    BY <1>1, ElementOfSeq
  <2>3. /\ SubSeq(data, from + 1, upto) \in Seq(Nat)
        /\ Len(SubSeq(data, from + 1, upto)) =
             IF from + 1 <= upto THEN upto - (from + 1) + 1 ELSE 0
        /\ \A i \in 1 .. upto - (from + 1) + 1 :
             SubSeq(data, from + 1, upto)[i] = data[(from + 1) + i - 1]
    BY <2>2, SubSeqProperties
  <2> DEFINE some == SubSeq(data, from + 1, upto)
  <2> HIDE DEF some
  <2>4. some \in Seq(Nat) /\ Len(some) = upto - from
    BY <1>1, <2>3 DEF some
  <2>5. ASSUME NEW i \in 1 .. upto - from PROVE some[i] = data[from + i]
    <3>1. i \in 1 .. upto - (from + 1) + 1 /\ (from + 1) + i - 1 = from + i
      OBVIOUS
    <3> QED
      BY <2>3, <3>1 DEF some
  <2> QED
    BY <2>1, <2>4, <2>5 DEF some
<1>2. CASE ~(from <= upto /\ upto <= Len(data))
  BY <1>2 DEF Slice
<1> QED
  BY <1>1, <1>2

\* A chunk is a block's bytes.
LEMMA ChunkType ==
  ASSUME NEW data \in Seq(Nat), NEW n \in Nat, Len(data) = n * BlockSize, NEW i \in 1 .. n
  PROVE  /\ Slice(data, (i - 1) * BlockSize, i * BlockSize) \in Data
         /\ \A j \in 1 .. BlockSize :
              Slice(data, (i - 1) * BlockSize, i * BlockSize)[j] = data[((i - 1) * BlockSize) + j]
<1> DEFINE from == (i - 1) * BlockSize
           upto == i * BlockSize
<1>1. from \in Nat /\ upto \in Nat /\ upto - from = BlockSize /\ upto <= n * BlockSize
  <2>1. \A k, b, l \in Nat : k * b \in Nat /\ (l <= k => l * b <= k * b)
    <3> SUFFICES ASSUME NEW k \in Nat, NEW b \in Nat, NEW l \in Nat
                 PROVE  k * b \in Nat /\ (l <= k => l * b <= k * b)
      OBVIOUS
    <3>1. k * b \in Nat /\ l * b \in Nat
      OBVIOUS
    <3>2. CASE l <= k
      <4>1. k * b = (l * b) + ((k - l) * b) /\ (k - l) * b \in Nat
        BY <3>2
      <4> QED
        BY <3>1, <4>1
    <3> QED
      BY <3>1, <3>2
  <2>2. i \in Nat /\ i - 1 \in Nat /\ BlockSize \in Nat /\ i <= n
    BY SizesType
  <2>3. (i * BlockSize) - ((i - 1) * BlockSize) = BlockSize
    BY <2>2
  <2> QED
    BY <2>1, <2>2, <2>3
<1> HIDE DEF from, upto
<1>2. from <= upto /\ upto <= Len(data)
  BY <1>1, SizesType
<1>3. Slice(data, from, upto) \in Seq(Nat) /\ Len(Slice(data, from, upto)) = BlockSize
  BY <1>1, <1>2, SliceType
<1>4. \A j \in 1 .. BlockSize : Slice(data, from, upto)[j] = data[from + j]
  <2>1. \A j \in 1 .. upto - from : Slice(data, from, upto)[j] = data[from + j]
    BY <1>1, <1>2, SliceType
  <2> QED
    BY <1>1, <2>1
<1>5. Slice(data, from, upto) \in Data
  BY <1>3 DEF Data
<1> QED
  BY <1>4, <1>5 DEF from, upto

-----------------------------------------------------------------------------
(* States of a call *)

Entries == [block : Block, data : Data, dirty : BOOLEAN]

Faults == [at : Nat, ends : BOOLEAN, keeps : Nat]

\* OneEntryPerBlock, of any entries
Tidy(entries) ==
  /\ Len(entries) <= CacheSize
  /\ \A i, j \in DOMAIN entries : entries[i].block = entries[j].block => i = j

Caches == {entries \in Seq(Entries) : Tidy(entries)}

\* A call that reads blocks first to last, if it reads.
Calls(first, last, fault) ==
  [medium : [Block -> Data], cache : Caches, ok : BOOLEAN,
   missed : {None} \cup {<<b>> : b \in first .. last},
   ranges : Seq((first .. last) \X (first .. last + 1)),
   buf : Seq(Nat), commands : Nat, lost : SUBSET Block, fault : {fault}]

LEMMA EntriesType ==
  ASSUME NEW entries \in Caches
  PROVE  /\ entries \in Seq(Entries) /\ Tidy(entries)
         /\ \A i \in 1 .. Len(entries) :
              /\ entries[i] \in Entries
              /\ entries[i].block \in Block /\ entries[i].data \in Data
              /\ entries[i].dirty \in BOOLEAN
<1>1. entries \in Seq(Entries) /\ Tidy(entries)
  BY DEF Caches
<1>2. \A i \in 1 .. Len(entries) : entries[i] \in Entries
  BY <1>1, ElementOfSeq
<1>3. \A e \in Entries : e.block \in Block /\ e.data \in Data /\ e.dirty \in BOOLEAN
  BY DEF Entries
<1> QED
  BY <1>1, <1>2, <1>3

\* The fields of a call
LEMMA CallType ==
  ASSUME NEW first \in Int, NEW last \in Int, NEW fault \in Faults,
         NEW s \in Calls(first, last, fault)
  PROVE  /\ s.medium \in [Block -> Data] /\ s.cache \in Caches /\ s.ok \in BOOLEAN
         /\ s.buf \in Seq(Nat) /\ s.commands \in Nat /\ s.lost \subseteq Block
         /\ s.fault = fault
  BY DEF Calls

\* Each field of a call may change alone.
LEMMA Changed ==
  ASSUME NEW first \in Int, NEW last \in Int, NEW fault \in Faults,
         NEW s \in Calls(first, last, fault)
  PROVE  /\ \A entries \in Caches : [s EXCEPT !.cache = entries] \in Calls(first, last, fault)
         /\ \A blocks \in [Block -> Data], ok \in BOOLEAN, commands \in Nat, some \in SUBSET Block :
              [s EXCEPT !.commands = commands, !.ok = ok, !.lost = some, !.medium = blocks]
                \in Calls(first, last, fault)
         /\ \A ok \in BOOLEAN : [s EXCEPT !.ok = ok] \in Calls(first, last, fault)
         /\ \A buf \in Seq(Nat) : [s EXCEPT !.buf = buf] \in Calls(first, last, fault)
         /\ \A commands \in Nat, ok \in BOOLEAN :
              [s EXCEPT !.commands = commands, !.ok = ok] \in Calls(first, last, fault)
  BY DEF Calls

-----------------------------------------------------------------------------
(* SCSI commands *)

\* Blocks and bytes
LEMMA BytesOfBlocks ==
  ASSUME NEW blocks \in Nat, NEW i \in 1 .. blocks * BlockSize
  PROVE  /\ (i - 1) \div BlockSize \in 0 .. blocks - 1
         /\ ((i - 1) % BlockSize) + 1 \in 1 .. BlockSize
  BY SizesType

\* read_blocks returns whole blocks.
LEMMA ReadBlocksType ==
  ASSUME NEW first \in Int, NEW last \in Int, NEW fault \in Faults,
         NEW s \in Calls(first, last, fault),
         NEW address \in Nat, NEW blocks \in Nat, address + blocks <= LastLba + 1
  PROVE  /\ ReadBlocks(s, address, blocks) \in Seq(Nat)
         /\ Len(ReadBlocks(s, address, blocks)) = blocks * BlockSize
<1>1. blocks * BlockSize \in Nat
  BY SizesType
<1>2. ASSUME NEW i \in 1 .. blocks * BlockSize
      PROVE  s.medium[address + (i - 1) \div BlockSize][((i - 1) % BlockSize) + 1] \in Nat
  <2> DEFINE b == (i - 1) \div BlockSize
             k == ((i - 1) % BlockSize) + 1
  <2>1. b \in 0 .. blocks - 1 /\ k \in 1 .. BlockSize
    BY BytesOfBlocks
  <2> HIDE DEF b, k
  <2>2. address + b \in Block
    BY <2>1, SizesType DEF Block
  <2>3. s.medium[address + b] \in Data
    BY <2>2, CallType
  <2>4. s.medium[address + b][k] \in Nat
    BY <2>1, <2>3, ElementOfSeq DEF Data
  <2> QED
    BY <2>4 DEF b, k
<1>3. ReadBlocks(s, address, blocks) \in [1 .. blocks * BlockSize -> Nat]
  BY <1>2 DEF ReadBlocks
<1> QED
  BY <1>1, <1>3

LEMMA SendReadType ==
  ASSUME NEW first \in Int, NEW last \in Int, NEW fault \in Faults,
         NEW s \in Calls(first, last, fault)
  PROVE  SendRead(s) \in Calls(first, last, fault)
<1>1. s.commands + 1 \in Nat /\ (s.ok /\ ~Fails(s)) \in BOOLEAN
  BY CallType
<1> QED
  BY <1>1, Changed DEF SendRead

\* What a WRITE stores is whole blocks.
LEMMA WriteBlocksType ==
  ASSUME NEW first \in Int, NEW last \in Int, NEW fault \in Faults,
         NEW s \in Calls(first, last, fault),
         NEW address \in Nat, NEW blocks \in Nat, address + blocks <= LastLba + 1,
         NEW data \in Seq(Nat), Len(data) = blocks * BlockSize
  PROVE  WriteBlocks(s, address, blocks, data) \in Calls(first, last, fault)
<1> DEFINE stored == IF Fails(s) /\ s.fault.keeps < blocks THEN s.fault.keeps ELSE blocks
           commands == s.commands + 1
           ok == s.ok /\ ~(Fails(s) /\ s.fault.ends)
           lost1 == IF Fails(s) /\ ~s.fault.ends
                    THEN s.lost \cup (address .. address + blocks - 1) ELSE s.lost
           medium1 == [b \in Block |->
             IF b \in address .. address + stored - 1
             THEN Slice(data, (b - address) * BlockSize, (b - address + 1) * BlockSize)
             ELSE s.medium[b]]
<1>1. stored \in 0 .. blocks
  BY CallType DEF Faults
<1>2. commands \in Nat /\ ok \in BOOLEAN
  BY CallType
<1>3. lost1 \subseteq Block
  BY CallType, SizesType DEF Block
<1> HIDE DEF stored
<1>4. medium1 \in [Block -> Data]
  <2>1. ASSUME NEW b \in Block, b \in address .. address + stored - 1
        PROVE  Slice(data, (b - address) * BlockSize, (b - address + 1) * BlockSize) \in Data
    <3>1. b - address + 1 \in 1 .. blocks /\ (b - address + 1) - 1 = b - address
      BY <1>1, <2>1
    <3> DEFINE i == b - address + 1
    <3> HIDE DEF i
    <3>2. Slice(data, (i - 1) * BlockSize, i * BlockSize) \in Data
      BY <3>1, ChunkType DEF i
    <3>3. i - 1 = b - address
      BY <3>1 DEF i
    <3> QED
      BY <3>2, <3>3 DEF i
  <2>2. \A b \in Block : s.medium[b] \in Data
    BY CallType
  <2> QED
    BY <2>1, <2>2
<1>5. WriteBlocks(s, address, blocks, data) =
        [s EXCEPT !.commands = commands, !.ok = ok, !.lost = lost1, !.medium = medium1]
  BY DEF WriteBlocks, stored
<1> HIDE DEF commands, ok, lost1, medium1
<1>6. [s EXCEPT !.commands = commands, !.ok = ok, !.lost = lost1, !.medium = medium1]
        \in Calls(first, last, fault)
  BY <1>2, <1>3, <1>4, Changed
<1> QED
  BY <1>5, <1>6

-----------------------------------------------------------------------------
(* The cache *)

\* find: the first entry of the block.
LEMMA FindType ==
  ASSUME NEW entries \in Caches, NEW b
  PROVE  /\ Has(entries, b) <=> \E i \in 1 .. Len(entries) : entries[i].block = b
         /\ Has(entries, b) => /\ Find(entries, b) \in 1 .. Len(entries)
                               /\ entries[Find(entries, b)].block = b
<1> DEFINE I == {i \in 1 .. Len(entries) : entries[i].block = b}
<1>1. Find(entries, b) = IF I # {} THEN CHOOSE x \in I : \A y \in I : x <= y ELSE 0
  BY DEF Find, SelectInSeq, Min
<1>2. ASSUME I # {} PROVE (CHOOSE x \in I : \A y \in I : x <= y) \in I
  <2>1. I \subseteq Nat
    BY EntriesType
  <2> HIDE DEF I
  <2> QED
    BY <1>2, <2>1, Least
<1>3. 0 \notin I
  BY EntriesType
<1> QED
  BY <1>1, <1>2, <1>3 DEF Has

LEMMA PartType ==
  ASSUME NEW S, NEW all \in Seq(S), NEW m \in 1 .. Len(all) + 1, NEW n \in m - 1 .. Len(all)
  PROVE  /\ SubSeq(all, m, n) \in Seq(S)
         /\ Len(SubSeq(all, m, n)) = n - m + 1
         /\ \A i \in 1 .. n - m + 1 : SubSeq(all, m, n)[i] = all[m + i - 1]
<1>1. Len(all) \in Nat
  BY LenProperties
<1>2. m \in Int /\ n \in Int /\ \A i \in m .. n : i \in 1 .. Len(all)
  BY <1>1
<1>3. \A i \in m .. n : all[i] \in S
  BY <1>2, ElementOfSeq
<1>4. (IF m <= n THEN n - m + 1 ELSE 0) = n - m + 1
  BY <1>1, <1>2
<1> QED
  BY <1>2, <1>3, <1>4, SubSeqProperties

\* Moving an entry to the front: where each entry was before.
LEMMA MovedType ==
  ASSUME NEW entries \in Caches, NEW i \in 1 .. Len(entries)
  PROVE  /\ <<entries[i]>> \o RemoveAt(entries, i) \in Caches
         /\ Len(<<entries[i]>> \o RemoveAt(entries, i)) = Len(entries)
         /\ (<<entries[i]>> \o RemoveAt(entries, i))[1] = entries[i]
         /\ \A k \in 1 .. Len(entries) : \E j \in 1 .. Len(entries) :
              (<<entries[i]>> \o RemoveAt(entries, i))[k] = entries[j]
         /\ \A j \in 1 .. Len(entries) : \E k \in 1 .. Len(entries) :
              (<<entries[i]>> \o RemoveAt(entries, i))[k] = entries[j]
<1> DEFINE n == Len(entries)
           before == SubSeq(entries, 1, i - 1)
           behind == SubSeq(entries, i + 1, n)
           rest == before \o behind
           moved == <<entries[i]>> \o rest
           Old(k) == IF k = 1 THEN i ELSE IF k <= i THEN k - 1 ELSE k
           New(j) == IF j = i THEN 1 ELSE IF j < i THEN j + 1 ELSE j
<1>1. n \in Nat /\ entries \in Seq(Entries)
  BY EntriesType, LenProperties
<1>2. /\ before \in Seq(Entries) /\ Len(before) = i - 1
      /\ \A k \in 1 .. i - 1 : before[k] = entries[k]
  <2>1. 1 \in 1 .. n + 1 /\ i - 1 \in 1 - 1 .. n /\ i - 1 - 1 + 1 = i - 1
    BY <1>1
  <2>2. \A k \in 1 .. i - 1 : 1 + k - 1 = k
    BY <1>1
  <2> QED
    BY <1>1, <2>1, <2>2, PartType
<1>3. /\ behind \in Seq(Entries) /\ Len(behind) = n - i
      /\ \A k \in 1 .. n - i : behind[k] = entries[i + k]
  <2>1. i + 1 \in 1 .. n + 1 /\ n \in (i + 1) - 1 .. n /\ n - (i + 1) + 1 = n - i
    BY <1>1
  <2>2. \A k \in 1 .. n - i : (i + 1) + k - 1 = i + k
    BY <1>1
  <2> HIDE DEF n
  <2>3. /\ behind \in Seq(Entries) /\ Len(behind) = n - (i + 1) + 1
        /\ \A k \in 1 .. n - (i + 1) + 1 : behind[k] = entries[(i + 1) + k - 1]
    BY <1>1, <2>1, PartType DEF n
  <2> QED
    BY <2>1, <2>2, <2>3
<1> HIDE DEF before, behind, n
<1>4. /\ rest \in Seq(Entries) /\ Len(rest) = n - 1
      /\ \A k \in 1 .. n - 1 : rest[k] = IF k < i THEN entries[k] ELSE entries[k + 1]
  <2>1. /\ rest \in Seq(Entries) /\ Len(rest) = Len(before) + Len(behind)
        /\ \A k \in 1 .. Len(before) + Len(behind) :
             rest[k] = IF k <= Len(before) THEN before[k] ELSE behind[k - Len(before)]
    BY <1>2, <1>3, ConcatProperties
  <2>2. i \in 1 .. n
    BY DEF n
  <2>3. Len(before) + Len(behind) = n - 1
    BY <1>1, <1>2, <1>3, <2>2
  <2>4. ASSUME NEW k \in 1 .. n - 1
        PROVE  rest[k] = IF k < i THEN entries[k] ELSE entries[k + 1]
    <3>1. CASE k < i
      <4>1. k \in 1 .. i - 1 /\ k <= Len(before)
        BY <1>1, <1>2, <2>2, <3>1
      <4> QED
        BY <1>2, <2>1, <2>3, <3>1, <4>1
    <3>2. CASE ~(k < i)
      <4>1. k - (i - 1) \in 1 .. n - i /\ ~(k <= Len(before)) /\ i + (k - (i - 1)) = k + 1
        BY <1>1, <1>2, <2>2, <3>2
      <4>2. rest[k] = behind[k - (i - 1)]
        BY <1>2, <2>1, <2>3, <4>1
      <4> QED
        BY <1>3, <3>2, <4>1, <4>2
    <3> QED
      BY <3>1, <3>2
  <2> HIDE DEF rest
  <2> QED
    BY <2>1, <2>3, <2>4
<1> HIDE DEF rest
<1>5. <<entries[i]>> \in Seq(Entries) /\ Len(<<entries[i]>>) = 1 /\ <<entries[i]>>[1] = entries[i]
  BY EntriesType
<1>6. i \in 1 .. n
  BY DEF n
<1>7. /\ moved \in Seq(Entries) /\ Len(moved) = n
      /\ \A k \in 1 .. n : moved[k] = entries[Old(k)]
  <2>1. /\ moved \in Seq(Entries) /\ Len(moved) = 1 + Len(rest)
        /\ \A k \in 1 .. 1 + Len(rest) :
             moved[k] = IF k <= 1 THEN <<entries[i]>>[k] ELSE rest[k - 1]
    BY <1>4, <1>5, ConcatProperties
  <2>2. 1 + Len(rest) = n
    BY <1>1, <1>4
  <2>3. ASSUME NEW k \in 1 .. n PROVE moved[k] = entries[Old(k)]
    <3>1. CASE k = 1
      BY <2>1, <2>2, <1>5, <3>1
    <3>2. CASE k # 1
      <4>1. k - 1 \in 1 .. n - 1 /\ ~(k <= 1) /\ (k - 1 < i <=> k <= i) /\ (k - 1) + 1 = k
        BY <1>1, <1>6, <3>2
      <4>2. moved[k] = rest[k - 1]
        BY <2>1, <2>2, <4>1
      <4> QED
        BY <1>4, <3>2, <4>1, <4>2
    <3> QED
      BY <3>1, <3>2
  <2> HIDE DEF moved
  <2> QED
    BY <2>1, <2>2, <2>3
<1>8. /\ \A k \in 1 .. n : Old(k) \in 1 .. n /\ New(k) \in 1 .. n /\ Old(New(k)) = k
      /\ \A k, l \in 1 .. n : Old(k) = Old(l) => k = l
  BY <1>1, <1>6
<1> HIDE DEF Old, New
<1>9. moved[1] = entries[i]
  <2>1. 1 \in 1 .. n /\ Old(1) = i
    BY <1>1, <1>6 DEF Old
  <2> QED
    BY <1>7, <2>1
<1>10. Tidy(moved)
  <2>1. n <= CacheSize /\ \A k, l \in 1 .. n : entries[k].block = entries[l].block => k = l
    BY EntriesType DEF Tidy, n
  <2>2. DOMAIN moved = 1 .. n
    BY <1>7, LenProperties
  <2> HIDE DEF moved
  <2>3. ASSUME NEW k \in 1 .. n, NEW l \in 1 .. n, moved[k].block = moved[l].block PROVE k = l
    <3>1. Old(k) = Old(l)
      BY <1>7, <1>8, <2>1, <2>3
    <3> QED
      BY <1>8, <3>1
  <2> QED
    BY <1>7, <2>1, <2>2, <2>3 DEF Tidy
<1>11. <<entries[i]>> \o RemoveAt(entries, i) = moved
  BY DEF RemoveAt, rest, before, behind, n
<1> HIDE DEF moved
<1>12. moved \in Caches
  BY <1>7, <1>10 DEF Caches
<1>13. /\ \A k \in 1 .. n : \E j \in 1 .. n : moved[k] = entries[j]
       /\ \A j \in 1 .. n : \E k \in 1 .. n : moved[k] = entries[j]
  <2>1. \A k \in 1 .. n : Old(k) \in 1 .. n /\ moved[k] = entries[Old(k)]
    BY <1>7, <1>8
  <2>2. \A j \in 1 .. n : New(j) \in 1 .. n /\ moved[New(j)] = entries[j]
    BY <1>7, <1>8
  <2>3. ASSUME NEW k \in 1 .. n PROVE \E j \in 1 .. n : moved[k] = entries[j]
    BY <2>1
  <2>4. ASSUME NEW j \in 1 .. n PROVE \E k \in 1 .. n : moved[k] = entries[j]
    BY <2>2
  <2> QED
    BY <2>3, <2>4
<1> QED
  BY <1>7, <1>9, <1>11, <1>12, <1>13 DEF n

\* After find: the entry found is the first; the others are there.
LEMMA UsedType ==
  ASSUME NEW first \in Int, NEW last \in Int, NEW fault \in Faults,
         NEW s \in Calls(first, last, fault), NEW b, Has(s.cache, b)
  PROVE  /\ Used(s, b) \in Calls(first, last, fault)
         /\ Len(Used(s, b).cache) = Len(s.cache) /\ Len(s.cache) \in Nat \ {0}
         /\ Used(s, b).cache[1].block = b
         /\ Used(s, b).cache[1] = s.cache[Find(s.cache, b)]
         /\ \A k \in 1 .. Len(s.cache) : \E j \in 1 .. Len(s.cache) : Used(s, b).cache[k] = s.cache[j]
         /\ \A j \in 1 .. Len(s.cache) : \E k \in 1 .. Len(s.cache) : Used(s, b).cache[k] = s.cache[j]
         /\ \A field \in {"medium", "ok", "missed", "ranges", "buf", "commands", "lost", "fault"} :
              Used(s, b)[field] = s[field]
<1> DEFINE i == Find(s.cache, b)
           moved == <<s.cache[i]>> \o RemoveAt(s.cache, i)
<1>1. s.cache \in Caches
  BY CallType
<1>2. i \in 1 .. Len(s.cache) /\ s.cache[i].block = b
  BY <1>1, FindType
<1>3. Used(s, b) = [s EXCEPT !.cache = moved]
  BY DEF Used
<1> HIDE DEF i
<1>4. /\ moved \in Caches /\ Len(moved) = Len(s.cache) /\ moved[1] = s.cache[i]
      /\ \A k \in 1 .. Len(s.cache) : \E j \in 1 .. Len(s.cache) : moved[k] = s.cache[j]
      /\ \A j \in 1 .. Len(s.cache) : \E k \in 1 .. Len(s.cache) : moved[k] = s.cache[j]
  BY <1>1, <1>2, MovedType
<1>5. Len(s.cache) \in Nat \ {0}
  BY <1>1, <1>2, EntriesType, LenProperties
<1> HIDE DEF moved
<1>6. Used(s, b) \in Calls(first, last, fault)
  <2>1. \A entries \in Caches : [s EXCEPT !.cache = entries] \in Calls(first, last, fault)
    BY Changed
  <2> QED
    BY <1>3, <1>4, <2>1
<1>7. Used(s, b).cache = moved
  BY <1>3 DEF Calls
<1>8. \A field \in {"medium", "ok", "missed", "ranges", "buf", "commands", "lost", "fault"} :
        Used(s, b)[field] = s[field]
  BY <1>3 DEF Calls
<1> QED
  BY <1>2, <1>4, <1>5, <1>6, <1>7, <1>8 DEF i

\* What a new entry leaves of the others
Kept(entries) == IF Len(entries) = CacheSize THEN Front(entries) ELSE entries

LEMMA KeptType ==
  ASSUME NEW entries \in Caches
  PROVE  /\ Kept(entries) \in Seq(Entries)
         /\ Len(Kept(entries)) = IF Len(entries) = CacheSize THEN CacheSize - 1 ELSE Len(entries)
         /\ Len(Kept(entries)) < CacheSize
         /\ \A k \in 1 .. Len(Kept(entries)) : k \in 1 .. Len(entries) /\ Kept(entries)[k] = entries[k]
<1> DEFINE n == Len(entries)
<1>1. n \in Nat /\ entries \in Seq(Entries) /\ n <= CacheSize
  BY EntriesType, LenProperties DEF Tidy
<1>2. CASE n = CacheSize
  <2>1. Kept(entries) = SubSeq(entries, 1, n - 1)
    BY <1>2 DEF Kept, Front
  <2>2. 1 \in 1 .. n + 1 /\ n - 1 \in 1 - 1 .. n /\ n - 1 - 1 + 1 = n - 1
    BY <1>1, <1>2, SizesType
  <2>3. /\ Kept(entries) \in Seq(Entries) /\ Len(Kept(entries)) = n - 1
        /\ \A k \in 1 .. n - 1 : Kept(entries)[k] = entries[1 + k - 1]
    BY <1>1, <2>1, <2>2, PartType
  <2>4. \A k \in 1 .. n - 1 : 1 + k - 1 = k /\ k \in 1 .. n
    BY <1>1
  <2> HIDE DEF n
  <2>5. n - 1 < CacheSize
    BY <1>1, <1>2, SizesType
  <2> QED
    BY <1>2, <2>3, <2>4, <2>5 DEF n
<1>3. CASE n # CacheSize
  <2>1. Kept(entries) = entries
    BY <1>3 DEF Kept
  <2> QED
    BY <1>1, <1>3, <2>1, SizesType
<1> QED
  BY <1>2, <1>3

\* An entry of a new block may go in front of what is kept.
LEMMA InsertedType ==
  ASSUME NEW entries \in Caches, NEW e \in Entries,
         \A i \in 1 .. Len(entries) : entries[i].block # e.block
  PROVE  /\ <<e>> \o Kept(entries) \in Caches
         /\ Len(<<e>> \o Kept(entries)) = Len(Kept(entries)) + 1
         /\ (<<e>> \o Kept(entries))[1] = e
         /\ \A k \in 2 .. Len(Kept(entries)) + 1 :
              /\ k - 1 \in 1 .. Len(entries)
              /\ (<<e>> \o Kept(entries))[k] = entries[k - 1]
<1> DEFINE kept == Kept(entries)
           m == Len(kept)
           new == <<e>> \o kept
<1>1. /\ kept \in Seq(Entries) /\ m < CacheSize
      /\ \A k \in 1 .. m : k \in 1 .. Len(entries) /\ kept[k] = entries[k]
  BY KeptType
<1>2. m \in Nat
  BY <1>1, LenProperties
<1> HIDE DEF kept
<1>3. <<e>> \in Seq(Entries) /\ Len(<<e>>) = 1 /\ <<e>>[1] = e
  OBVIOUS
<1>4. /\ new \in Seq(Entries) /\ Len(new) = 1 + m
      /\ \A k \in 1 .. 1 + m : new[k] = IF k <= 1 THEN <<e>>[k] ELSE kept[k - 1]
  BY <1>1, <1>3, ConcatProperties
<1> HIDE DEF new, m
<1>5. Len(new) = m + 1 /\ new[1] = e
  BY <1>2, <1>3, <1>4
<1>6. ASSUME NEW k \in 2 .. m + 1
      PROVE  k - 1 \in 1 .. Len(entries) /\ new[k] = entries[k - 1]
  <2>1. k \in 1 .. 1 + m /\ ~(k <= 1) /\ k - 1 \in 1 .. m
    BY <1>2
  <2> QED
    BY <1>1, <1>4, <2>1
<1>7. \A i, j \in 1 .. Len(entries) : entries[i].block = entries[j].block => i = j
  BY EntriesType DEF Tidy
<1>8. ASSUME NEW k \in 1 .. m + 1, NEW l \in 1 .. m + 1, new[k].block = new[l].block
      PROVE  k = l
  <2>1. \A i \in 1 .. m + 1 : i = 1 \/ i \in 2 .. m + 1
    BY <1>2
  <2>2. CASE k = 1 /\ l = 1
    BY <2>2
  <2>3. CASE k = 1 /\ l \in 2 .. m + 1
    BY <1>5, <1>6, <1>8, <2>3
  <2>4. CASE k \in 2 .. m + 1 /\ l = 1
    BY <1>5, <1>6, <1>8, <2>4
  <2>5. CASE k \in 2 .. m + 1 /\ l \in 2 .. m + 1
    <3>1. k - 1 = l - 1
      BY <1>6, <1>7, <1>8, <2>5
    <3> QED
      BY <3>1, <2>5, <1>2
  <2> QED
    BY <2>1, <2>2, <2>3, <2>4, <2>5
<1>9. DOMAIN new = 1 .. m + 1
  BY <1>4, <1>5, LenProperties
<1>10. m + 1 <= CacheSize
  BY <1>1, <1>2, SizesType DEF m
<1>11. Tidy(new)
  BY <1>5, <1>8, <1>9, <1>10 DEF Tidy
<1>12. new \in Caches
  BY <1>4, <1>11 DEF Caches
<1> QED
  BY <1>5, <1>6, <1>12 DEF new, m, kept

LEMMA InsertType ==
  ASSUME NEW first \in Int, NEW last \in Int, NEW fault \in Faults,
         NEW s \in Calls(first, last, fault), NEW b \in Block, NEW data \in Data,
         ~Has(s.cache, b)
  PROVE  Insert(s, b, data) \in Calls(first, last, fault)
<1> DEFINE e == [block |-> b, data |-> data, dirty |-> FALSE]
           new == <<e>> \o Kept(s.cache)
           inserted == [s EXCEPT !.cache = new]
<1>1. s.cache \in Caches
  BY CallType
<1>2. e \in Entries /\ e.block = b
  BY DEF Entries
<1>3. \A i \in 1 .. Len(s.cache) : s.cache[i].block # b
  BY <1>1, FindType
<1>4. Insert(s, b, data) =
        IF Victim(s.cache) THEN WriteBlocks(inserted, b, 1, Last(s.cache).data) ELSE inserted
  BY DEF Insert, Kept
<1> HIDE DEF e
<1>5. new \in Caches
  BY <1>1, <1>2, <1>3, InsertedType
<1> HIDE DEF new
<1>6. inserted \in Calls(first, last, fault)
  <2>1. \A entries \in Caches : [s EXCEPT !.cache = entries] \in Calls(first, last, fault)
    BY Changed
  <2> QED
    BY <1>5, <2>1
<1> HIDE DEF inserted
<1>7. ASSUME Victim(s.cache)
      PROVE  WriteBlocks(inserted, b, 1, Last(s.cache).data) \in Calls(first, last, fault)
  <2>1. Len(s.cache) \in 1 .. Len(s.cache)
    BY <1>7, SizesType DEF Victim
  <2>2. Last(s.cache).data \in Data
    BY <1>1, <2>1, EntriesType DEF Last
  <2>3. b \in Nat /\ b + 1 <= LastLba + 1
    BY SizesType DEF Block
  <2>4. Last(s.cache).data \in Seq(Nat) /\ Len(Last(s.cache).data) = 1 * BlockSize
    BY <2>2, SizesType DEF Data
  <2> QED
    BY <1>6, <2>3, <2>4, WriteBlocksType
<1> QED
  BY <1>4, <1>6, <1>7

\* The first entry may be given other data.
Headed(entries, data, dirty) == [entries EXCEPT ![1].data = data, ![1].dirty = dirty]

LEMMA HeadType ==
  ASSUME NEW entries \in Caches, NEW n \in Nat \ {0}, Len(entries) = n, NEW data \in Data,
         NEW dirty \in BOOLEAN
  PROVE  /\ Headed(entries, data, dirty) \in Caches
         /\ Len(Headed(entries, data, dirty)) = n
         /\ Headed(entries, data, dirty)[1].block = entries[1].block
         /\ Headed(entries, data, dirty)[1].data = data
         /\ Headed(entries, data, dirty)[1].dirty = dirty
         /\ \A k \in 2 .. n : Headed(entries, data, dirty)[k] = entries[k]
<1> DEFINE head == [entries[1] EXCEPT !.data = data, !.dirty = dirty]
           new == [entries EXCEPT ![1] = head]
<1>1. /\ entries \in Seq(Entries) /\ DOMAIN entries = 1 .. n
      /\ \A k \in 1 .. n : entries[k] \in Entries /\ entries[k].block \in Block
      /\ 1 \in 1 .. n
  BY EntriesType, LenProperties
<1>2. Headed(entries, data, dirty) = new
  BY <1>1 DEF Headed
<1>3. head \in Entries /\ head.block = entries[1].block /\ head.data = data /\ head.dirty = dirty
  <2>1. \A e \in Entries :
          /\ [e EXCEPT !.data = data, !.dirty = dirty] \in Entries
          /\ [e EXCEPT !.data = data, !.dirty = dirty].block = e.block
          /\ [e EXCEPT !.data = data, !.dirty = dirty].data = data
          /\ [e EXCEPT !.data = data, !.dirty = dirty].dirty = dirty
    BY DEF Entries
  <2> QED
    BY <1>1, <2>1
<1> HIDE DEF head
<1>5. new \in Seq(Entries) /\ Len(new) = n
  BY <1>1, <1>3, ExceptSeq
<1>6. new[1] = head /\ \A k \in 2 .. n : new[k] = entries[k]
  BY <1>1
<1>7. DOMAIN new = 1 .. n
  BY <1>1
<1> HIDE DEF new
<1>8. \A k \in 1 .. n : new[k].block = entries[k].block
  BY <1>3, <1>6
<1>9. n <= CacheSize /\ \A i, j \in 1 .. n : entries[i].block = entries[j].block => i = j
  BY <1>1, EntriesType DEF Tidy
<1>10. Tidy(new)
  BY <1>5, <1>7, <1>8, <1>9 DEF Tidy
<1>11. new \in Caches
  BY <1>5, <1>10 DEF Caches
<1> QED
  BY <1>2, <1>3, <1>5, <1>6, <1>11

\* The state after an update of a block that is in the cache
LEMMA OverwrittenType ==
  ASSUME NEW first \in Int, NEW last \in Int, NEW fault \in Faults,
         NEW s \in Calls(first, last, fault), NEW data \in Data, NEW dirty \in BOOLEAN,
         Len(s.cache) \in Nat \ {0}
  PROVE  [s EXCEPT !.cache[1].data = data, !.cache[1].dirty = @ \/ dirty]
           \in Calls(first, last, fault)
<1> DEFINE dirty1 == s.cache[1].dirty \/ dirty
           new == Headed(s.cache, data, dirty1)
<1>1. s.cache \in Caches
  BY CallType
<1>2. dirty1 \in BOOLEAN
  <2>1. 1 \in 1 .. Len(s.cache)
    OBVIOUS
  <2> QED
    BY <1>1, <2>1, EntriesType
<1>3. [s EXCEPT !.cache[1].data = data, !.cache[1].dirty = @ \/ dirty] = [s EXCEPT !.cache = new]
  BY <1>1, EntriesType DEF Calls, Headed
<1> HIDE DEF dirty1
<1>4. new \in Caches
  BY <1>1, <1>2, HeadType
<1> HIDE DEF new
<1>5. \A entries \in Caches : [s EXCEPT !.cache = entries] \in Calls(first, last, fault)
  BY Changed
<1> QED
  BY <1>3, <1>4, <1>5

LEMMA UpdateType ==
  ASSUME NEW first \in Int, NEW last \in Int, NEW fault \in Faults,
         NEW s \in Calls(first, last, fault), NEW b \in Block, NEW data \in Seq(Nat),
         s.ok /\ ~Has(s.cache, b) => data \in Data, NEW dirty \in BOOLEAN
  PROVE  Update(s, b, data, dirty) \in Calls(first, last, fault)
<1>1. CASE ~s.ok
  BY <1>1 DEF Update
<1>2. CASE s.ok /\ ~Has(s.cache, b)
  BY <1>2, InsertType DEF Update
<1>3. CASE s.ok /\ Has(s.cache, b) /\ Len(data) # BlockSize
  <2>1. Update(s, b, data, dirty) = [s EXCEPT !.ok = FALSE]
    BY <1>3 DEF Update
  <2>2. \A ok \in BOOLEAN : [s EXCEPT !.ok = ok] \in Calls(first, last, fault)
    BY Changed
  <2> QED
    BY <2>1, <2>2
<1>4. CASE s.ok /\ Has(s.cache, b) /\ Len(data) = BlockSize
  <2> DEFINE used == Used(s, b)
  <2>1. Update(s, b, data, dirty) =
          [used EXCEPT !.cache[1].data = data, !.cache[1].dirty = @ \/ dirty]
    BY <1>4 DEF Update
  <2>2. used \in Calls(first, last, fault) /\ Len(used.cache) \in Nat \ {0}
    BY <1>4, UsedType
  <2>3. data \in Data
    BY <1>4 DEF Data
  <2> HIDE DEF used
  <2>4. [used EXCEPT !.cache[1].data = data, !.cache[1].dirty = @ \/ dirty]
          \in Calls(first, last, fault)
    BY <2>2, <2>3, OverwrittenType
  <2> QED
    BY <2>1, <2>4
<1> QED
  BY <1>1, <1>2, <1>3, <1>4

-----------------------------------------------------------------------------
(* Copies *)

\* A copy fits or panics, and changes only what it is for.
LEMMA CopyType ==
  ASSUME NEW first \in Int, NEW last \in Int, NEW fault \in Faults,
         NEW s \in Calls(first, last, fault),
         NEW from \in Int, NEW upto \in Int, NEW data \in Seq(Nat)
  PROVE  /\ Copy(s, from, upto, data) \in Calls(first, last, fault)
         /\ \A field \in {"medium", "cache", "missed", "ranges", "commands", "lost", "fault"} :
              Copy(s, from, upto, data)[field] = s[field]
         /\ Copy(s, from, upto, data).ok =>
              s.ok /\ 0 <= from /\ from < upto /\ upto <= Len(s.buf) /\ Len(data) = upto - from
         /\ Len(Copy(s, from, upto, data).buf) = Len(s.buf)
         /\ Copy(s, from, upto, data).ok =>
              \A k \in 1 .. Len(s.buf) :
                Copy(s, from, upto, data).buf[k] =
                  IF from < k /\ k <= upto THEN data[k - from] ELSE s.buf[k]
<1> DEFINE Fits == /\ s.ok
                   /\ 0 <= from /\ from < upto /\ upto <= Len(s.buf)
                   /\ Len(data) = upto - from
           n == Len(s.buf)
           before == SubSeq(s.buf, 1, from)
           behind == SubSeq(s.buf, upto + 1, n)
           new == before \o data \o behind
<1>1. s.buf \in Seq(Nat) /\ n \in Nat
  BY CallType, LenProperties
<1>2. CASE Fits
  <2>1. Copy(s, from, upto, data) = [s EXCEPT !.buf = new]
    BY <1>2 DEF Copy
  <2>2. /\ before \in Seq(Nat) /\ Len(before) = from
        /\ \A k \in 1 .. from : before[k] = s.buf[k]
    <3>1. 1 \in 1 .. n + 1 /\ from \in 1 - 1 .. n /\ from - 1 + 1 = from
      BY <1>1, <1>2
    <3>2. \A k \in 1 .. from : 1 + k - 1 = k
      OBVIOUS
    <3> QED
      BY <1>1, <3>1, <3>2, PartType
  <2>3. /\ behind \in Seq(Nat) /\ Len(behind) = n - upto
        /\ \A k \in 1 .. n - upto : behind[k] = s.buf[upto + k]
    <3>1. upto + 1 \in 1 .. n + 1 /\ n \in (upto + 1) - 1 .. n /\ n - (upto + 1) + 1 = n - upto
      BY <1>1, <1>2
    <3>2. \A k \in 1 .. n - upto : (upto + 1) + k - 1 = upto + k
      OBVIOUS
    <3>3. /\ behind \in Seq(Nat) /\ Len(behind) = n - (upto + 1) + 1
          /\ \A k \in 1 .. n - (upto + 1) + 1 : behind[k] = s.buf[(upto + 1) + k - 1]
      <4>1. n = Len(s.buf)
        OBVIOUS
      <4> HIDE DEF n
      <4> QED
        BY <1>1, <3>1, <4>1, PartType
    <3> HIDE DEF n, behind
    <3> QED
      BY <3>1, <3>2, <3>3
  <2> HIDE DEF before, behind
  <2> DEFINE joined == before \o data
  <2>4. /\ joined \in Seq(Nat) /\ Len(joined) = upto
        /\ \A k \in 1 .. upto : joined[k] = IF k <= from THEN before[k] ELSE data[k - from]
    <3>1. /\ joined \in Seq(Nat) /\ Len(joined) = Len(before) + Len(data)
          /\ \A k \in 1 .. Len(before) + Len(data) :
               joined[k] = IF k <= Len(before) THEN before[k] ELSE data[k - Len(before)]
      BY <2>2, ConcatProperties
    <3>2. Len(before) + Len(data) = upto
      BY <1>2, <2>2
    <3> HIDE DEF joined
    <3> QED
      BY <2>2, <3>1, <3>2
  <2>5. new = joined \o behind
    OBVIOUS
  <2> HIDE DEF joined, new
  <2>6. /\ new \in Seq(Nat) /\ Len(new) = n
        /\ \A k \in 1 .. n : new[k] = IF k <= upto THEN joined[k] ELSE behind[k - upto]
    <3>1. /\ new \in Seq(Nat) /\ Len(new) = Len(joined) + Len(behind)
          /\ \A k \in 1 .. Len(joined) + Len(behind) :
               new[k] = IF k <= Len(joined) THEN joined[k] ELSE behind[k - Len(joined)]
      BY <2>3, <2>4, <2>5, ConcatProperties
    <3>2. Len(joined) + Len(behind) = n
      BY <1>1, <1>2, <2>3, <2>4
    <3> QED
      BY <2>4, <3>1, <3>2
  <2>7. ASSUME NEW k \in 1 .. n
        PROVE  new[k] = IF from < k /\ k <= upto THEN data[k - from] ELSE s.buf[k]
    <3> HIDE DEF n
    <3>1. CASE k <= from
      <4>1. k \in 1 .. upto /\ k <= upto /\ k \in 1 .. from /\ ~(from < k)
        BY <1>1, <1>2, <3>1
      <4> QED
        BY <2>2, <2>4, <2>6, <3>1, <4>1
    <3>2. CASE from < k /\ k <= upto
      <4>1. k \in 1 .. upto /\ ~(k <= from)
        BY <1>1, <1>2, <3>2
      <4> QED
        BY <2>4, <2>6, <3>2, <4>1
    <3>3. CASE upto < k
      <4>1. k - upto \in 1 .. n - upto /\ ~(k <= upto) /\ upto + (k - upto) = k
        BY <1>1, <1>2, <3>3
      <4>2. new[k] = behind[k - upto]
        BY <2>6, <4>1
      <4>3. behind[k - upto] = s.buf[upto + (k - upto)]
        BY <2>3, <4>1
      <4> QED
        BY <4>1, <4>2, <4>3
    <3>4. k <= from \/ (from < k /\ k <= upto) \/ upto < k
      BY <1>1
    <3> QED
      BY <3>1, <3>2, <3>3, <3>4
  <2>8. \A buf \in Seq(Nat) : [s EXCEPT !.buf = buf] \in Calls(first, last, fault)
    BY Changed
  <2>9. Copy(s, from, upto, data) \in Calls(first, last, fault)
    BY <2>1, <2>6, <2>8
  <2>10. /\ Copy(s, from, upto, data).buf = new
         /\ \A field \in {"medium", "cache", "missed", "ranges", "commands", "lost", "fault"} :
              Copy(s, from, upto, data)[field] = s[field]
    BY <2>1 DEF Calls
  <2> HIDE DEF n
  <2> QED
    BY <1>2, <2>6, <2>7, <2>9, <2>10 DEF n
<1>3. CASE ~Fits
  <2>1. Copy(s, from, upto, data) = [s EXCEPT !.ok = FALSE]
    BY <1>3 DEF Copy
  <2>2. \A ok \in BOOLEAN : [s EXCEPT !.ok = ok] \in Calls(first, last, fault)
    BY Changed
  <2>3. /\ Copy(s, from, upto, data).ok = FALSE /\ Copy(s, from, upto, data).buf = s.buf
        /\ \A field \in {"medium", "cache", "missed", "ranges", "commands", "lost", "fault"} :
             Copy(s, from, upto, data)[field] = s[field]
    BY <2>1 DEF Calls
  <2>4. Copy(s, from, upto, data) \in Calls(first, last, fault)
    BY <2>1, <2>2
  <2> QED
    BY <2>3, <2>4
<1> QED
  BY <1>2, <1>3

-----------------------------------------------------------------------------
(* The loops *)

\* What Span returns: the bytes from the offset into the first block up to the
\* end of the last.
Spans ==
  {a \in [bytes : Nat \ {0}, start : Block, end : Block, offset : 0 .. BlockSize - 1,
          offsetEnd : 1 .. BlockSize, num : Nat \ {0}] :
     /\ a.start <= a.end /\ a.num = a.end - a.start + 1
     /\ a.offset + a.bytes = ((a.num - 1) * BlockSize) + a.offsetEnd}

LEMMA SpansType ==
  ASSUME NEW a \in Spans
  PROVE  /\ a.bytes \in Nat \ {0} /\ a.start \in Block /\ a.end \in Block
         /\ a.start \in Nat /\ a.end \in Nat /\ a.end <= LastLba
         /\ a.offset \in 0 .. BlockSize - 1 /\ a.offsetEnd \in 1 .. BlockSize
         /\ a.num \in Nat \ {0} /\ a.start <= a.end /\ a.num = a.end - a.start + 1
         /\ a.offset + a.bytes = ((a.num - 1) * BlockSize) + a.offsetEnd
<1>1. \A b \in Block : b \in Nat /\ b <= LastLba
  BY SizesType DEF Block
<1> QED
  BY <1>1 DEF Spans

LEMMA CapacityType == Capacity \in Nat
  BY SizesType DEF Capacity

LEMMA Divided ==
  ASSUME NEW n \in Nat
  PROVE  /\ n \div BlockSize \in Nat /\ n % BlockSize \in 0 .. BlockSize - 1
         /\ n = ((n \div BlockSize) * BlockSize) + (n % BlockSize)
  BY SizesType

LEMMA Products ==
  ASSUME NEW k \in Nat, NEW l \in Nat
  PROVE  /\ k * BlockSize \in Nat
         /\ l <= k => /\ l * BlockSize <= k * BlockSize
                      /\ (k - l) * BlockSize = (k * BlockSize) - (l * BlockSize)
<1>1. \A b \in Nat : k * b \in Nat /\ l * b \in Nat
  OBVIOUS
<1>2. ASSUME NEW b \in Nat, l <= k
      PROVE  l * b <= k * b /\ (k - l) * b = (k * b) - (l * b)
  <2>1. k - l \in Nat
    BY <1>2
  <2>2. (k - l) * b \in Nat
    BY <2>1
  <2>3. (k - l) * b = (k * b) - (l * b)
    OBVIOUS
  <2> QED
    BY <1>1, <2>2, <2>3
<1> QED
  BY <1>1, <1>2, SizesType

LEMMA WholeBytes ==
  ASSUME NEW k \in Nat
  PROVE  k * BlockSize \in Nat
<1>1. \A b \in Nat : k * b \in Nat
  OBVIOUS
<1> QED
  BY <1>1, SizesType

\* A number of whole blocks and a part decide each other.
LEMMA Ordered ==
  ASSUME NEW k \in Nat, NEW l \in Nat, NEW i \in 0 .. BlockSize - 1, NEW j \in 0 .. BlockSize - 1,
         (k * BlockSize) + i <= (l * BlockSize) + j
  PROVE  k <= l
<1>1. CASE l < k
  <2>1. l + 1 \in Nat /\ l + 1 <= k /\ (l + 1) - l = 1
    BY <1>1
  <2>2. (l + 1) * BlockSize <= k * BlockSize
    BY <2>1, Products
  <2>3. (l + 1) * BlockSize = (l * BlockSize) + BlockSize
    BY SizesType
  <2> DEFINE lb == l * BlockSize
             kb == k * BlockSize
  <2>4. lb \in Nat /\ kb \in Nat /\ lb + BlockSize <= kb /\ kb + i <= lb + j
    BY <2>2, <2>3, Products
  <2> HIDE DEF lb, kb
  <2> QED
    BY <2>4, SizesType
<1> QED
  BY <1>1

\* Span finds the blocks of the bytes from the cursor.
LEMMA SpanType ==
  ASSUME NEW length \in Nat \ {0}, cursor \in 0 .. Capacity, Span(length).bytes > 0
  PROVE  /\ Span(length) \in Spans
         /\ cursor + Span(length).bytes <= Capacity
         /\ Span(length).bytes <= length
         /\ cursor = (Span(length).start * BlockSize) + Span(length).offset
<1> DEFINE limit == IF cursor + length < Capacity THEN cursor + length ELSE Capacity
           first == cursor \div BlockSize
           last == (limit - 1) \div BlockSize
           offset == cursor % BlockSize
           rest == (limit - 1) % BlockSize
           a == [bytes |-> limit - cursor, start |-> first, end |-> last,
                 offset |-> offset, offsetEnd |-> rest + 1, num |-> last - first + 1]
<1>1. Span(length) = a
  BY DEF Span
<1>2. /\ limit \in Nat /\ limit <= Capacity /\ limit - cursor \in Nat \ {0}
      /\ limit - cursor <= length /\ cursor \in Nat /\ limit - 1 \in Nat /\ cursor <= limit - 1
  <2>1. cursor \in Nat /\ cursor <= Capacity
    BY CapacityType
  <2>2. limit - cursor > 0
    BY <1>1
  <2> QED
    BY <2>1, <2>2, CapacityType
<1> HIDE DEF limit
<1>3. first \in Nat /\ offset \in 0 .. BlockSize - 1 /\ cursor = (first * BlockSize) + offset
  BY <1>2, Divided
<1>4. last \in Nat /\ rest \in 0 .. BlockSize - 1 /\ limit - 1 = (last * BlockSize) + rest
  BY <1>2, Divided
<1> HIDE DEF first, last, offset, rest
<1>5. first <= last
  BY <1>2, <1>3, <1>4, Ordered
<1>6. last <= LastLba
  <2>1. (last * BlockSize) + rest <= (LastLba * BlockSize) + 0
    BY <1>2, <1>4, SizesType, Products DEF Capacity
  <2>2. 0 \in 0 .. BlockSize - 1
    BY SizesType
  <2> QED
    BY <1>4, <2>1, <2>2, SizesType, Ordered
<1>7. first \in Block /\ last \in Block
  BY <1>3, <1>4, <1>5, <1>6, SizesType DEF Block
<1>8. last - first + 1 \in Nat \ {0} /\ (last - first + 1) - 1 = last - first
  BY <1>3, <1>4, <1>5
<1>9. offset + (limit - cursor) = ((last - first) * BlockSize) + (rest + 1)
  <2> DEFINE fb == first * BlockSize
             lb == last * BlockSize
  <2>1. (last - first) * BlockSize = lb - fb /\ fb \in Nat /\ lb \in Nat
    BY <1>3, <1>4, <1>5, Products
  <2>2. cursor = fb + offset /\ limit - 1 = lb + rest
    BY <1>3, <1>4
  <2> HIDE DEF fb, lb
  <2> QED
    BY <1>2, <1>3, <1>4, <2>1, <2>2, SizesType
<1>10. rest + 1 \in 1 .. BlockSize
  BY <1>4, SizesType
<1>11. a \in Spans
  BY <1>2, <1>3, <1>5, <1>7, <1>8, <1>9, <1>10 DEF Spans
<1>12. a.bytes = limit - cursor /\ a.start = first /\ a.offset = offset
  OBVIOUS
<1> HIDE DEF a
<1>13. cursor + (limit - cursor) <= Capacity
  BY <1>2, CapacityType
<1> QED
  BY <1>1, <1>2, <1>3, <1>11, <1>12, <1>13

\* A hit is copied; nothing but the buffer changes.
LEMMA HitCopyType ==
  ASSUME NEW a \in Spans, NEW fault \in Faults, NEW s \in Calls(a.start, a.end, fault),
         Len(s.cache) \in Nat \ {0}, NEW b \in a.start .. a.end
  PROVE  /\ HitCopy(s, a, b) \in Calls(a.start, a.end, fault)
         /\ \A field \in {"medium", "cache", "missed", "ranges", "commands", "lost", "fault"} :
              HitCopy(s, a, b)[field] = s[field]
<1> DEFINE data == s.cache[1].data
           head == BlockSize - a.offset
           index == head + (a.start - b) * BlockSize
           Same(t) == \A field \in {"medium", "cache", "missed", "ranges", "commands", "lost", "fault"} :
                        t[field] = s[field]
<1>1. /\ a.start \in Int /\ a.end \in Int /\ b \in Int
      /\ head \in Int /\ index \in Int /\ index + BlockSize \in Int
      /\ head + (a.num - 2) * BlockSize \in Int /\ a.offset \in Nat /\ a.offsetEnd \in Nat
  <2>1. \A x, y \in Int : x * y \in Int
    OBVIOUS
  <2>2. /\ a.start \in Int /\ a.end \in Int /\ a.num \in Int /\ b \in Int /\ BlockSize \in Int
        /\ a.offset \in Nat /\ a.offsetEnd \in Nat
    BY SpansType, SizesType
  <2>3. (a.start - b) * BlockSize \in Int /\ (a.num - 2) * BlockSize \in Int
    BY <2>1, <2>2
  <2>4. head \in Int
    BY <2>2
  <2> HIDE DEF head
  <2>5. index \in Int /\ head + (a.num - 2) * BlockSize \in Int
    BY <2>3, <2>4
  <2> HIDE DEF index
  <2>6. index + BlockSize \in Int
    BY <2>2, <2>5
  <2> QED
    BY <2>2, <2>4, <2>5, <2>6
<1>2. data \in Seq(Nat)
  <2>1. 1 \in 1 .. Len(s.cache)
    OBVIOUS
  <2> QED
    BY <1>1, <2>1, CallType, EntriesType DEF Data
<1>3. Len(s.buf) \in Int
  BY <1>1, CallType, LenProperties
<1>4. \A from, upto \in Int, some \in Seq(Nat) :
        /\ Copy(s, from, upto, some) \in Calls(a.start, a.end, fault)
        /\ Same(Copy(s, from, upto, some))
  BY <1>1, CopyType
<1> HIDE DEF Same
<1>5. [s EXCEPT !.ok = FALSE] \in Calls(a.start, a.end, fault) /\ Same([s EXCEPT !.ok = FALSE])
  <2>1. \A ok \in BOOLEAN : [s EXCEPT !.ok = ok] \in Calls(a.start, a.end, fault)
    BY <1>1, Changed
  <2> QED
    BY <2>1 DEF Same, Calls
<1>6. \A from, upto \in Nat : Slice(data, from, upto) \in Seq(Nat)
  BY <1>2, SliceType
<1> SUFFICES HitCopy(s, a, b) \in Calls(a.start, a.end, fault) /\ Same(HitCopy(s, a, b))
  BY DEF Same
<1>7. CASE b = a.start /\ b = a.end
  <2>1. HitCopy(s, a, b) = Copy(s, 0, Len(s.buf), Slice(data, a.offset, a.offsetEnd))
    BY <1>7 DEF HitCopy
  <2>2. Slice(data, a.offset, a.offsetEnd) \in Seq(Nat)
    BY <1>1, <1>6
  <2> QED
    BY <1>3, <1>4, <2>1, <2>2
<1>8. CASE b = a.start /\ b # a.end
  <2>1. HitCopy(s, a, b) = Copy(s, 0, head, Slice(data, a.offset, BlockSize))
    BY <1>8 DEF HitCopy
  <2>2. Slice(data, a.offset, BlockSize) \in Seq(Nat)
    BY <1>1, <1>6, SizesType
  <2>3. 0 \in Int /\ head \in Int
    BY <1>1
  <2> HIDE DEF head, data
  <2> QED
    BY <1>4, <2>1, <2>2, <2>3
<1>9. CASE b # a.start /\ b = a.end
  <2>1. HitCopy(s, a, b) =
          Copy(s, head + (a.num - 2) * BlockSize, Len(s.buf), Slice(data, 0, a.offsetEnd))
    BY <1>9 DEF HitCopy
  <2>2. Slice(data, 0, a.offsetEnd) \in Seq(Nat)
    BY <1>1, <1>6
  <2> HIDE DEF head
  <2> QED
    BY <1>1, <1>3, <1>4, <2>1, <2>2
<1>10. CASE b # a.start /\ b # a.end
  <2>1. HitCopy(s, a, b) = IF Release THEN Copy(s, index, index + BlockSize, data)
                           ELSE [s EXCEPT !.ok = FALSE]
    BY <1>10 DEF HitCopy
  <2> HIDE DEF index
  <2> QED
    BY <1>1, <1>2, <1>4, <1>5, <2>1
<1> QED
  BY <1>7, <1>8, <1>9, <1>10

\* What is cached of a read so far was missed before block b.
Behind(s, b) ==
  /\ s.missed = None \/ s.missed[1] < b
  /\ \A i \in 1 .. Len(s.ranges) : s.ranges[i][1] < s.ranges[i][2]

LEMMA LookupType ==
  ASSUME NEW a \in Spans, NEW fault \in Faults, NEW s \in Calls(a.start, a.end, fault),
         NEW b \in a.start .. a.end, Behind(s, b)
  PROVE  Lookup(s, a, b) \in Calls(a.start, a.end, fault) /\ Behind(Lookup(s, a, b), b + 1)
<1>1. a.start \in Int /\ a.end \in Int /\ b \in Int
  BY SpansType
<1>2. s.missed = None \/ \E m \in a.start .. a.end : s.missed = <<m>> /\ s.missed[1] = m
  <2>1. s.missed \in {None} \cup {<<m>> : m \in a.start .. a.end}
    BY DEF Calls
  <2> DEFINE missed == s.missed
  <2> HIDE DEF missed
  <2>2. missed \in {None} \cup {<<m>> : m \in a.start .. a.end}
    BY <2>1 DEF missed
  <2>3. missed = None \/ \E m \in a.start .. a.end : missed = <<m>> /\ missed[1] = m
    BY <2>2
  <2> QED
    BY <2>3 DEF missed
<1>3. Behind(s, b + 1)
  BY <1>1, <1>2 DEF Behind
<1>4. CASE ~s.ok
  BY <1>3, <1>4 DEF Lookup
<1>5. CASE s.ok /\ ~Has(s.cache, b)
  <2> DEFINE missed == IF s.missed = None THEN <<b>> ELSE s.missed
             t == [s EXCEPT !.missed = missed]
  <2>1. Lookup(s, a, b) = t
    BY <1>5 DEF Lookup
  <2>2. missed = None \/ \E m \in a.start .. a.end : missed = <<m>> /\ missed[1] = m
    BY <1>2
  <2>3. missed = None \/ missed[1] < b + 1
    BY <1>1, <1>3 DEF Behind
  <2> HIDE DEF missed
  <2>4. t \in Calls(a.start, a.end, fault)
    BY <2>2 DEF Calls
  <2>5. t.missed = missed /\ t.ranges = s.ranges
    BY DEF Calls
  <2> HIDE DEF t
  <2>6. Behind(t, b + 1)
    BY <1>3, <2>3, <2>5 DEF Behind
  <2> QED
    BY <2>1, <2>4, <2>6
<1>6. CASE s.ok /\ Has(s.cache, b)
  <2> DEFINE used == Used(s, b)
             hit == HitCopy(used, a, b)
             range == <<s.missed[1], b>>
             ranges == IF s.missed = None THEN hit.ranges ELSE Append(hit.ranges, range)
             t == [hit EXCEPT !.ranges = ranges]
             Pairs == (a.start .. a.end) \X (a.start .. a.end + 1)
  <2>1. Lookup(s, a, b) = t
    BY <1>6 DEF Lookup
  <2>2. /\ used \in Calls(a.start, a.end, fault) /\ Len(used.cache) \in Nat \ {0}
        /\ used.missed = s.missed /\ used.ranges = s.ranges
    <3>1. \A field \in {"medium", "ok", "missed", "ranges", "buf", "commands", "lost", "fault"} :
            used[field] = s[field]
      BY <1>1, <1>6, UsedType
    <3>2. used \in Calls(a.start, a.end, fault) /\ Len(used.cache) \in Nat \ {0}
      BY <1>1, <1>6, UsedType
    <3> HIDE DEF used
    <3> QED
      BY <3>1, <3>2
  <2> HIDE DEF used
  <2>3. /\ hit \in Calls(a.start, a.end, fault)
        /\ hit.missed = s.missed /\ hit.ranges = s.ranges
    <3>1. \A field \in {"medium", "cache", "missed", "ranges", "commands", "lost", "fault"} :
            hit[field] = used[field]
      BY <2>2, HitCopyType
    <3>2. hit \in Calls(a.start, a.end, fault)
      BY <2>2, HitCopyType
    <3> HIDE DEF hit
    <3> QED
      BY <2>2, <3>1, <3>2
  <2> HIDE DEF hit
  <2>4. s.ranges \in Seq(Pairs)
    BY DEF Calls
  <2>5. ASSUME s.missed # None PROVE range \in Pairs /\ range[1] < range[2]
    BY <1>1, <1>2, <2>5 DEF Behind
  <2> HIDE DEF range
  <2>6. /\ ranges \in Seq(Pairs)
        /\ \A i \in 1 .. Len(ranges) : ranges[i][1] < ranges[i][2]
    <3>1. CASE s.missed = None
      BY <2>3, <2>4, <3>1 DEF Behind
    <3>2. CASE s.missed # None
      <4>1. ranges = Append(s.ranges, range)
        BY <2>3, <3>2
      <4> HIDE DEF Pairs
      <4>2. range \in Pairs
        BY <2>5, <3>2
      <4>3. /\ Append(s.ranges, range) \in Seq(Pairs)
            /\ Len(Append(s.ranges, range)) = Len(s.ranges) + 1
            /\ \A i \in 1 .. Len(s.ranges) : Append(s.ranges, range)[i] = s.ranges[i]
            /\ Append(s.ranges, range)[Len(s.ranges) + 1] = range
        BY <2>4, <4>2, AppendProperties
      <4>4. Len(s.ranges) \in Nat
        BY <2>4, LenProperties
      <4> HIDE DEF ranges
      <4>5. \A i \in 1 .. Len(s.ranges) + 1 : i \in 1 .. Len(s.ranges) \/ i = Len(s.ranges) + 1
        BY <4>4
      <4> QED
        BY <2>5, <3>2, <4>1, <4>3, <4>5 DEF Behind
    <3> QED
      BY <3>1, <3>2
  <2> HIDE DEF ranges
  <2>7. t \in Calls(a.start, a.end, fault)
    BY <2>3, <2>6 DEF Calls
  <2>8. t.missed = s.missed /\ t.ranges = ranges
    BY <2>3 DEF Calls
  <2> HIDE DEF t
  <2>9. Behind(t, b + 1)
    BY <1>3, <2>6, <2>8 DEF Behind
  <2> QED
    BY <2>1, <2>7, <2>9
<1> QED
  BY <1>4, <1>5, <1>6

\* The first loop of read: what each lookup leaves, and that the last leaves
\* ranges of blocks.
LEMMA LookupsType ==
  ASSUME NEW a \in Spans, NEW fault \in Faults, NEW s \in Calls(a.start, a.end, fault),
         Behind(s, a.start)
  PROVE  /\ \A i \in 0 .. a.num : /\ Lookups(s, a)[i] \in Calls(a.start, a.end, fault)
                                  /\ Behind(Lookups(s, a)[i], a.start + i)
         /\ Lookups(s, a)[0] = s
         /\ \A i \in 1 .. a.num :
              Lookups(s, a)[i] = Lookup(Lookups(s, a)[i - 1], a, a.start + i - 1)
<1> DEFINE n == a.num
           S == Calls(a.start, a.end, fault)
           Step(i, t) == IF Behind(t, a.start + i - 1) THEN Lookup(t, a, a.start + i - 1) ELSE t
           F == [i \in 1 .. n |-> [t \in S |-> Step(i, t)]]
<1>1. n \in Nat /\ a.start \in Nat /\ \A i \in 1 .. n : a.start + i - 1 \in a.start .. a.end
  BY SpansType
<1>2. ASSUME NEW i \in 1 .. n, NEW t \in S PROVE Step(i, t) \in S
  <2> DEFINE b == a.start + i - 1
  <2>1. b \in a.start .. a.end
    BY <1>1
  <2> HIDE DEF b
  <2>2. ASSUME Behind(t, b) PROVE Lookup(t, a, b) \in S
    BY <2>1, <2>2, LookupType
  <2> QED
    BY <2>2 DEF b
<1> HIDE DEF S, Step
<1>3. F \in [1 .. n -> [S -> S]]
  BY <1>2
<1>4. s \in S
  BY DEF S
<1>5. PICK f : Ran(n, S, s, F, f)
  <2> HIDE DEF F, n
  <2> QED
    BY <1>1, <1>3, <1>4, Loop
<1>6. \A i \in 1 .. n : i - 1 \in 0 .. n /\ i \in 0 .. n
  BY <1>1
<1>7. /\ f \in [0 .. n -> S] /\ f[0] = s
      /\ \A i \in 1 .. n : f[i] = Step(i, f[i - 1])
  BY <1>5, <1>6 DEF Ran
<1> DEFINE T == {i \in 0 .. n : Behind(f[i], a.start + i)}
<1>8. \A i \in 0 .. n : i \in T
  <2>1. 0 \in T
    BY <1>1, <1>7
  <2>2. ASSUME NEW i \in 1 .. n, i - 1 \in T PROVE i \in T
    <3> DEFINE b == a.start + i - 1
    <3>1. b \in a.start .. a.end /\ b + 1 = a.start + i /\ a.start + (i - 1) = b
      BY <1>1
    <3> HIDE DEF b
    <3>2. Behind(f[i - 1], b)
      BY <2>2, <3>1
    <3>3. f[i - 1] \in S
      BY <1>6, <1>7
    <3>4. f[i] = Lookup(f[i - 1], a, b)
      BY <1>7, <3>2 DEF Step, b
    <3>5. Behind(f[i], b + 1)
      BY <3>1, <3>2, <3>3, <3>4, LookupType DEF S
    <3> QED
      BY <1>6, <3>1, <3>5
  <2> HIDE DEF T
  <2> QED
    BY <1>1, <2>1, <2>2, UpTo
<1>9. \A i \in 0 .. n : Behind(f[i], a.start + i)
  BY <1>8
<1>10. \A i \in 1 .. n : f[i] = Lookup(f[i - 1], a, a.start + i - 1)
  <2>1. ASSUME NEW i \in 1 .. n PROVE Behind(f[i - 1], a.start + i - 1)
    <3>1. a.start + (i - 1) = a.start + i - 1
      BY <1>1
    <3> QED
      BY <1>6, <1>9, <3>1
  <2> QED
    BY <1>7, <2>1 DEF Step
<1>11. Lookups(s, a) = f
  <2> DEFINE Runs(g) == g = [i \in 0 .. n |-> IF i = 0 THEN s
                               ELSE Lookup(g[i - 1], a, a.start + i - 1)]
  <2>1. Runs(f)
    BY <1>1, <1>7, <1>10
  <2>2. Lookups(s, a) = CHOOSE g : Runs(g)
    BY DEF Lookups
  <2>3. Runs(Lookups(s, a))
    <3> HIDE DEF Runs
    <3> QED
      BY <2>1, <2>2
  <2>4. ASSUME NEW g, Runs(g) PROVE g = f
    <3>1. g[0] = f[0] /\ \A i \in 1 .. n : g[i] = Lookup(g[i - 1], a, a.start + i - 1)
      BY <1>1, <1>6, <1>7, <2>4
    <3>2. Alike(n, g, f)
      BY <1>10, <3>1 DEF Alike
    <3>3. \A i \in 0 .. n : g[i] = f[i]
      BY <1>1, <3>2, OneLoop
    <3>4. g = [i \in 0 .. n |-> g[i]] /\ f = [i \in 0 .. n |-> f[i]]
      BY <1>7, <2>4
    <3> QED
      BY <3>3, <3>4
  <2> HIDE DEF Runs
  <2> QED
    BY <2>3, <2>4
<1> HIDE DEF F
<1> QED
  BY <1>7, <1>9, <1>10, <1>11 DEF S

\* after is what the caching of each of n blocks leaves.
Cached(n, s, at, data, after) ==
  /\ after[0] = s
  /\ \A i \in 1 .. n :
       after[i] = Update(after[i - 1], at + i - 1,
                         Slice(data, (i - 1) * BlockSize, i * BlockSize), FALSE)

\* chunks
LEMMA ChunksType ==
  ASSUME NEW first \in Int, NEW last \in Int, NEW fault \in Faults,
         NEW s \in Calls(first, last, fault), NEW at \in Nat, NEW n \in Nat,
         at + n <= LastLba + 1, NEW data \in Seq(Nat), Len(data) = n * BlockSize
  PROVE  /\ \A i \in 0 .. n : Chunks(s, at, data, n)[i] \in Calls(first, last, fault)
         /\ Cached(n, s, at, data, Chunks(s, at, data, n))
<1> DEFINE S == Calls(first, last, fault)
           Piece(i) == Slice(data, (i - 1) * BlockSize, i * BlockSize)
           Step(i, t) == Update(t, at + i - 1, Piece(i), FALSE)
           F == [i \in 1 .. n |-> [t \in S |-> Step(i, t)]]
           Runs(g) == g = [i \in 0 .. n |-> IF i = 0 THEN s ELSE Step(i, g[i - 1])]
           after == Chunks(s, at, data, n)
<1>1. ASSUME NEW i \in 1 .. n, NEW t \in S PROVE Step(i, t) \in S
  <2>1. at + i - 1 \in Block
    BY SizesType DEF Block
  <2>2. Piece(i) \in Data /\ Piece(i) \in Seq(Nat)
    BY ChunkType DEF Data
  <2> HIDE DEF Piece
  <2> DEFINE b == at + i - 1
  <2> HIDE DEF b
  <2>3. b \in Block
    BY <2>1 DEF b
  <2>4. Update(t, b, Piece(i), FALSE) \in S
    BY <2>2, <2>3, UpdateType
  <2> QED
    BY <2>4 DEF b
<1>2. \A i \in 1 .. n : i - 1 \in 0 .. n /\ i \in 0 .. n /\ i # 0
  OBVIOUS
<1>3. after = CHOOSE g : Runs(g)
  BY DEF Chunks
<1> HIDE DEF Step
<1>4. \E g : Runs(g)
  <2> SUFFICES \E g : Runs(g)
    OBVIOUS
  <2>1. F \in [1 .. n -> [S -> S]] /\ s \in S
    BY <1>1
  <2>2. PICK f : Ran(n, S, s, F, f)
    <3> HIDE DEF F, S
    <3> QED
      BY <2>1, Loop
  <2>3. /\ f \in [0 .. n -> S] /\ f[0] = s
        /\ \A i \in 1 .. n : f[i] = Step(i, f[i - 1])
    BY <1>2, <2>2 DEF Ran
  <2>4. Runs(f)
    BY <1>2, <2>3
  <2> HIDE DEF Runs
  <2> QED
    BY <2>4
<1>5. Runs(after)
  <2> HIDE DEF Runs, after
  <2> QED
    BY <1>3, <1>4
<1> HIDE DEF after
<1>6. after[0] = s /\ \A i \in 1 .. n : after[i] = Step(i, after[i - 1])
  BY <1>2, <1>5
<1> HIDE DEF Runs, F
<1>7. \A i \in 0 .. n : after[i] \in S
  <2> DEFINE T == {i \in 0 .. n : after[i] \in S}
  <2>1. 0 \in T
    BY <1>6
  <2>2. \A i \in 1 .. n : i - 1 \in T => i \in T
    BY <1>1, <1>2, <1>6
  <2>3. \A i \in 0 .. n : i \in T
    <3> HIDE DEF T
    <3> QED
      BY <2>1, <2>2, UpTo
  <2> QED
    BY <2>3
<1> QED
  BY <1>6, <1>7 DEF after, Step, Cached

\* The second loop of read: a range read is cached.
LEMMA FillType ==
  ASSUME NEW a \in Spans, NEW fault \in Faults, NEW s \in Calls(a.start, a.end, fault),
         NEW range \in (a.start .. a.end) \X (a.start .. a.end + 1), range[1] < range[2]
  PROVE  Fill(s, a, range) \in Calls(a.start, a.end, fault)
<1> DEFINE span == range[2] - range[1]
           blocks == Counted(span)
           data == ReadBlocks(s, a.start, blocks)
           count == IF blocks > CacheSize THEN CacheSize ELSE blocks
           kept == Slice(data, Len(data) - count * BlockSize, Len(data))
<1>1. /\ a.start \in Nat /\ a.end \in Nat /\ a.end <= LastLba
      /\ range[1] \in a.start .. a.end /\ range[2] \in a.start .. a.end + 1
  BY SpansType
<1>2. /\ blocks \in Nat /\ a.start + blocks <= LastLba + 1
      /\ count \in Nat /\ count <= blocks /\ range[1] \in Nat /\ range[1] + count <= LastLba + 1
  <2>1. span \in Nat /\ a.start + span <= LastLba + 1 /\ range[1] + span <= LastLba + 1
    BY <1>1, SizesType
  <2> HIDE DEF span
  <2>2. blocks \in Nat /\ blocks <= span
    BY <2>1, CountedType
  <2> HIDE DEF blocks
  <2> QED
    BY <1>1, <2>1, <2>2, SizesType
<1> HIDE DEF blocks
<1>3. data \in Seq(Nat) /\ Len(data) = blocks * BlockSize
  BY <1>1, <1>2, ReadBlocksType
<1> HIDE DEF data, count
<1>4. kept \in Seq(Nat) /\ Len(kept) = count * BlockSize
  <2> DEFINE upto == Len(data)
             bytes == count * BlockSize
             from == upto - bytes
  <2>1. upto \in Nat /\ bytes \in Nat /\ bytes <= upto
    BY <1>2, <1>3, Products
  <2> HIDE DEF upto, bytes
  <2>2. from \in Nat /\ from <= upto /\ upto - from = bytes
    BY <2>1
  <2>3. upto <= Len(data)
    BY <2>1 DEF upto
  <2> HIDE DEF from
  <2>4. Slice(data, from, upto) \in Seq(Nat) /\ Len(Slice(data, from, upto)) = upto - from
    BY <1>3, <2>1, <2>2, <2>3, SliceType
  <2> QED
    BY <2>2, <2>4 DEF from, upto, bytes
<1> HIDE DEF kept
<1>5. Fill(s, a, range) = Chunks(s, range[1], kept, count)[count]
  BY DEF Fill, kept, count, data, blocks, span
<1>6. \A i \in 0 .. count : Chunks(s, range[1], kept, count)[i] \in Calls(a.start, a.end, fault)
  <2>1. a.start \in Int /\ a.end \in Int
    BY <1>1
  <2> QED
    BY <1>2, <1>4, <2>1, ChunksType
<1>7. count \in 0 .. count
  BY <1>2
<1> QED
  BY <1>5, <1>6, <1>7

LEMMA ReadRangeType ==
  ASSUME NEW a \in Spans, NEW fault \in Faults, NEW s \in Calls(a.start, a.end, fault),
         NEW range \in (a.start .. a.end) \X (a.start .. a.end + 1), range[1] < range[2]
  PROVE  ReadRange(s, a, range) \in Calls(a.start, a.end, fault)
<1> DEFINE S == Calls(a.start, a.end, fault)
           data == ReadBlocks(s, a.start, Counted(range[2] - range[1]))
           head == BlockSize - a.offset
           whole == (a.num - 1) * BlockSize
           from == head + (range[1] - a.start - 1) * BlockSize
           upto == head + (range[2] - a.start - 1) * BlockSize
           to(t, i, j, bytes) == IF t.ok THEN Copy(t, i, j, bytes) ELSE t
           sent == IF s.ok THEN SendRead(s) ELSE s
           filled == IF sent.ok THEN Fill(sent, a, range) ELSE sent
           full == Len(s.buf)
           copied == IF range[1] = a.start
                     THEN IF range[2] = a.end + 1
                          THEN to(filled, 0, full, Slice(data, a.offset, whole + a.offsetEnd))
                          ELSE to(filled, 0, upto, Slice(data, a.offset, whole))
                     ELSE IF range[2] = a.end + 1
                          THEN to(filled, from, full, Slice(data, 0, whole + a.offsetEnd))
                          ELSE to(filled, from, upto, data)
<1>1. ReadRange(s, a, range) = copied
  BY DEF ReadRange
<1>2. /\ a.start \in Nat /\ a.end \in Nat /\ a.end <= LastLba /\ a.offset \in Nat
      /\ a.offsetEnd \in Nat /\ a.num - 1 \in Nat
      /\ range[1] \in a.start .. a.end /\ range[2] \in a.start .. a.end + 1
      /\ a.start \in Int /\ a.end \in Int
  BY SpansType
<1>3. data \in Seq(Nat)
  <2> DEFINE span == range[2] - range[1]
             sought == Counted(span)
  <2>1. span \in Nat /\ a.start + span <= LastLba + 1
    BY <1>2, SizesType
  <2> HIDE DEF span
  <2>2. sought \in Nat /\ sought <= span
    BY <2>1, CountedType
  <2> HIDE DEF sought
  <2>3. a.start + sought <= LastLba + 1
    BY <1>2, <2>1, <2>2, SizesType
  <2>4. ReadBlocks(s, a.start, sought) \in Seq(Nat)
    BY <1>2, <2>2, <2>3, ReadBlocksType
  <2> QED
    BY <2>4 DEF sought, span
<1> HIDE DEF data
<1>4. whole \in Nat
  <2>1. \A k \in Nat : k * BlockSize \in Nat
    BY Products
  <2> QED
    BY <1>2, <2>1
<1> HIDE DEF whole
<1>5. from \in Int /\ upto \in Int
  <2>1. \A x, y \in Int : x * y \in Int
    OBVIOUS
  <2> DEFINE p == (range[1] - a.start - 1) * BlockSize
             q == (range[2] - a.start - 1) * BlockSize
  <2>2. p \in Int /\ q \in Int
    BY <1>2, <2>1, SizesType
  <2>3. head \in Int
    BY <1>2, SizesType
  <2> HIDE DEF p, q, head
  <2>4. head + p \in Int /\ head + q \in Int
    BY <2>2, <2>3
  <2> QED
    BY <2>4 DEF p, q
<1> HIDE DEF from, upto
<1>6. filled \in S
  <2>1. sent \in S
    BY <1>2, SendReadType
  <2> HIDE DEF sent
  <2> QED
    BY <2>1, FillType
<1> HIDE DEF filled
<1>7. full \in Nat
  BY <1>2, CallType, LenProperties
<1> HIDE DEF full
<1>8. \A i, j \in Int, bytes \in Seq(Nat) : to(filled, i, j, bytes) \in S
  BY <1>2, <1>6, CopyType
<1> HIDE DEF to
<1>9. /\ Slice(data, a.offset, whole + a.offsetEnd) \in Seq(Nat)
      /\ Slice(data, a.offset, whole) \in Seq(Nat)
      /\ Slice(data, 0, whole + a.offsetEnd) \in Seq(Nat)
  <2>1. whole + a.offsetEnd \in Nat
    BY <1>2, <1>4
  <2> QED
    BY <1>2, <1>3, <1>4, <2>1, SliceType
<1>10. 0 \in Int /\ full \in Int
  BY <1>7
<1> HIDE DEF S
<1>11. copied \in S
  BY <1>3, <1>5, <1>8, <1>9, <1>10
<1> HIDE DEF copied
<1> QED
  BY <1>1, <1>11 DEF S

\* Ranges of a read, none empty
Ranges(a) ==
  {ranges \in Seq((a.start .. a.end) \X (a.start .. a.end + 1)) :
     \A i \in 1 .. Len(ranges) : ranges[i][1] < ranges[i][2]}

LEMMA ReadRangesType ==
  ASSUME NEW a \in Spans, NEW fault \in Faults, NEW s \in Calls(a.start, a.end, fault),
         NEW ranges \in Ranges(a)
  PROVE  /\ \A i \in 0 .. Len(ranges) : ReadRanges(s, a, ranges)[i] \in Calls(a.start, a.end, fault)
         /\ ReadRanges(s, a, ranges)[0] = s
         /\ \A i \in 1 .. Len(ranges) :
              ReadRanges(s, a, ranges)[i] = ReadRange(ReadRanges(s, a, ranges)[i - 1], a, ranges[i])
<1> DEFINE n == Len(ranges)
           S == Calls(a.start, a.end, fault)
           Step(i, t) == ReadRange(t, a, ranges[i])
           F == [i \in 1 .. n |-> [t \in S |-> Step(i, t)]]
           Runs(g) == g = [i \in 0 .. n |-> IF i = 0 THEN s ELSE Step(i, g[i - 1])]
           after == ReadRanges(s, a, ranges)
<1>1. n \in Nat
  BY LenProperties DEF Ranges
<1>2. ASSUME NEW i \in 1 .. n, NEW t \in S PROVE Step(i, t) \in S
  <2>1. ranges[i] \in (a.start .. a.end) \X (a.start .. a.end + 1) /\ ranges[i][1] < ranges[i][2]
    BY ElementOfSeq DEF Ranges
  <2> QED
    BY <2>1, ReadRangeType
<1>3. \A i \in 1 .. n : i - 1 \in 0 .. n /\ i \in 0 .. n /\ i # 0
  BY <1>1
<1>4. after = CHOOSE g : Runs(g)
  BY DEF ReadRanges
<1> HIDE DEF Step, n
<1>5. \E g : Runs(g)
  <2> SUFFICES \E g : Runs(g)
    OBVIOUS
  <2>1. F \in [1 .. n -> [S -> S]] /\ s \in S
    BY <1>2
  <2>2. PICK f : Ran(n, S, s, F, f)
    <3> HIDE DEF F, S
    <3> QED
      BY <1>1, <2>1, Loop
  <2>3. /\ f \in [0 .. n -> S] /\ f[0] = s
        /\ \A i \in 1 .. n : f[i] = Step(i, f[i - 1])
    BY <1>3, <2>2 DEF Ran
  <2>4. Runs(f)
    BY <1>1, <1>3, <2>3
  <2> HIDE DEF Runs
  <2> QED
    BY <2>4
<1>6. Runs(after)
  <2> HIDE DEF Runs, after
  <2> QED
    BY <1>4, <1>5
<1> HIDE DEF after
<1>7. after[0] = s /\ \A i \in 1 .. n : after[i] = Step(i, after[i - 1])
  BY <1>1, <1>3, <1>6
<1> HIDE DEF Runs, F
<1>8. \A i \in 0 .. n : after[i] \in S
  <2> DEFINE T == {i \in 0 .. n : after[i] \in S}
  <2>1. 0 \in T
    BY <1>1, <1>7
  <2>2. \A i \in 1 .. n : i - 1 \in T => i \in T
    BY <1>2, <1>3, <1>7
  <2>3. \A i \in 0 .. n : i \in T
    <3> HIDE DEF T
    <3> QED
      BY <1>1, <2>1, <2>2, UpTo
  <2> QED
    BY <2>3
<1> QED
  BY <1>7, <1>8 DEF after, Step, n

\* read leaves a state of a call.
LEMMA ReadIntoType ==
  ASSUME NEW a \in Spans, NEW fault \in Faults, NEW s \in Calls(a.start, a.end, fault),
         s.missed = None, s.ranges = <<>>
  PROVE  ReadInto(s, a) \in Calls(a.start, a.end, fault)
<1> DEFINE S == Calls(a.start, a.end, fault)
           Pairs == (a.start .. a.end) \X (a.start .. a.end + 1)
           looked == Lookups(s, a)[a.num]
           range == <<looked.missed[1], a.end + 1>>
           ranges == IF looked.missed = None THEN looked.ranges ELSE Append(looked.ranges, range)
           n == Len(ranges)
<1>1. a.start \in Int /\ a.end \in Int /\ a.num \in 0 .. a.num /\ a.start + a.num = a.end + 1
  BY SpansType
<1>2. Behind(s, a.start)
  <2>1. Len(s.ranges) = 0
    BY EmptySeq
  <2> QED
    BY <2>1 DEF Behind
<1>3. looked \in S /\ Behind(looked, a.end + 1)
  <2>1. Behind(looked, a.start + a.num)
    BY <1>1, <1>2, LookupsType
  <2>2. looked \in S
    BY <1>1, <1>2, LookupsType
  <2> HIDE DEF looked
  <2> QED
    BY <1>1, <2>1, <2>2
<1>4. ReadInto(s, a) = ReadRanges(looked, a, ranges)[n]
  BY DEF ReadInto
<1> HIDE DEF looked
<1>5. looked.missed = None \/ \E m \in a.start .. a.end : looked.missed = <<m>> /\ looked.missed[1] = m
  BY <1>3 DEF Calls
<1>6. looked.ranges \in Seq(Pairs)
  BY <1>3 DEF Calls
<1>7. ranges \in Ranges(a)
  <2>1. CASE looked.missed = None
    BY <1>3, <1>6, <2>1 DEF Behind, Ranges
  <2>2. CASE looked.missed # None
    <3>1. range \in Pairs /\ range[1] < range[2]
      BY <1>1, <1>5, <2>2
    <3>2. ranges = Append(looked.ranges, range)
      BY <2>2
    <3> HIDE DEF range, Pairs
    <3>3. /\ Append(looked.ranges, range) \in Seq(Pairs)
          /\ Len(Append(looked.ranges, range)) = Len(looked.ranges) + 1
          /\ \A i \in 1 .. Len(looked.ranges) : Append(looked.ranges, range)[i] = looked.ranges[i]
          /\ Append(looked.ranges, range)[Len(looked.ranges) + 1] = range
      BY <1>6, <3>1, AppendProperties
    <3>4. Len(looked.ranges) \in Nat
      BY <1>6, LenProperties
    <3>5. \A i \in 1 .. Len(looked.ranges) + 1 : i \in 1 .. Len(looked.ranges) \/ i = Len(looked.ranges) + 1
      BY <3>4
    <3> HIDE DEF ranges
    <3>6. \A i \in 1 .. Len(ranges) : ranges[i][1] < ranges[i][2]
      BY <1>3, <3>1, <3>2, <3>3, <3>5 DEF Behind
    <3> QED
      BY <3>2, <3>3, <3>6 DEF Ranges, Pairs
  <2> QED
    BY <2>1, <2>2
<1> HIDE DEF ranges
<1>8. n \in 0 .. n
  BY <1>7, LenProperties DEF Ranges
<1>9. \A i \in 0 .. n : ReadRanges(looked, a, ranges)[i] \in S
  BY <1>3, <1>7, ReadRangesType
<1> QED
  BY <1>4, <1>8, <1>9

-----------------------------------------------------------------------------
(* write and flush *)

LEMMA PresentType ==
  ASSUME NEW first \in Int, NEW last \in Int, NEW fault \in Faults,
         NEW s \in Calls(first, last, fault), NEW b \in Block
  PROVE  Present(s, b) \in Data /\ Fetch(s, b) \in Calls(first, last, fault)
<1>1. CASE Has(s.cache, b)
  <2>1. Find(s.cache, b) \in 1 .. Len(s.cache)
    BY <1>1, CallType, FindType
  <2>2. s.cache[Find(s.cache, b)].data \in Data
    BY <2>1, CallType, EntriesType
  <2>3. Used(s, b) \in Calls(first, last, fault)
    BY <1>1, UsedType
  <2> QED
    BY <1>1, <2>2, <2>3 DEF Present, Fetch
<1>2. CASE ~Has(s.cache, b)
  <2>1. b \in Nat /\ b + 1 <= LastLba + 1 /\ 1 * BlockSize = BlockSize
    BY SizesType DEF Block
  <2>2. ReadBlocks(s, b, 1) \in Seq(Nat) /\ Len(ReadBlocks(s, b, 1)) = 1 * BlockSize
    BY <2>1, ReadBlocksType
  <2>3. SendRead(s) \in Calls(first, last, fault)
    BY SendReadType
  <2> QED
    BY <1>2, <2>1, <2>2, <2>3 DEF Present, Fetch, Data
<1> QED
  BY <1>1, <1>2

\* A write of more blocks than a u16 counts panics, when it has looked at its ends.
LEMMA WriteTooManyType ==
  ASSUME NEW a \in Spans, NEW fault \in Faults, NEW s \in Calls(a.start, a.end, fault)
  PROVE  WriteTooMany(s, a) \in Calls(a.start, a.end, fault)
<1> DEFINE S == Calls(a.start, a.end, fault)
           first == Fetch(s, a.start)
           seen == IF Counted(a.num) > 1 THEN Fetch(first, a.end) ELSE first
<1>1. a.start \in Int /\ a.end \in Int /\ a.start \in Block /\ a.end \in Block
  BY SpansType
<1>2. first \in S
  BY <1>1, PresentType
<1> HIDE DEF first
<1>3. Fetch(first, a.end) \in S
  BY <1>1, <1>2, PresentType
<1>4. seen \in S
  BY <1>2, <1>3
<1>5. WriteTooMany(s, a) = [seen EXCEPT !.ok = FALSE]
  BY DEF WriteTooMany, first
<1> HIDE DEF seen
<1>6. \A ok \in BOOLEAN : [seen EXCEPT !.ok = ok] \in S
  BY <1>1, <1>4, Changed
<1> QED
  BY <1>5, <1>6

LEMMA WriteOneType ==
  ASSUME NEW a \in Spans, NEW fault \in Faults, NEW s \in Calls(a.start, a.end, fault),
         NEW bytes \in Seq(Nat)
  PROVE  WriteOne(s, a, bytes) \in Calls(a.start, a.end, fault)
<1> DEFINE S == Calls(a.start, a.end, fault)
           held == Present(s, a.start)
           seen == Fetch(s, a.start)
           given == [seen EXCEPT !.buf = held]
           patched == Copy(given, a.offset, a.offset + Len(bytes), bytes)
<1>1. a.start \in Int /\ a.end \in Int /\ a.start \in Block /\ a.offset \in Int
  BY SpansType
<1>2. held \in Data /\ seen \in S
  BY <1>1, PresentType
<1>3. WriteOne(s, a, bytes) = Update(patched, a.start, patched.buf, TRUE)
  BY DEF WriteOne
<1> HIDE DEF held, seen
<1>4. given \in S /\ given.buf = held
  <2>1. \A buf \in Seq(Nat) : [seen EXCEPT !.buf = buf] \in S
    BY <1>1, <1>2, Changed
  <2>2. \A buf : [seen EXCEPT !.buf = buf].buf = buf
    BY <1>2 DEF Calls
  <2> QED
    BY <1>2, <2>1, <2>2 DEF Data
<1> HIDE DEF given
<1>5. a.offset + Len(bytes) \in Int
  BY <1>1, LenProperties
<1>6. patched \in S /\ Len(patched.buf) = Len(given.buf)
  BY <1>1, <1>4, <1>5, CopyType
<1> HIDE DEF patched
<1>7. patched.buf \in Data
  BY <1>1, <1>2, <1>4, <1>6, CallType DEF Data
<1>8. patched.buf \in Seq(Nat)
  BY <1>7 DEF Data
<1>9. Update(patched, a.start, patched.buf, TRUE) \in S
  BY <1>1, <1>6, <1>7, <1>8, UpdateType
<1> QED
  BY <1>3, <1>9

\* after is what write leaves as it caches each of the blocks it has written.
Keeping(s, a, data, after) ==
  /\ after[0] = s
  /\ \A i \in 1 .. a.num :
       after[i] = Update(after[i - 1], a.start + i - 1,
                         IF Has(after[i - 1].cache, a.start + i - 1) THEN data
                         ELSE Slice(data, (i - 1) * BlockSize, i * BlockSize), FALSE)

LEMMA KeepsType ==
  ASSUME NEW a \in Spans, NEW fault \in Faults, NEW s \in Calls(a.start, a.end, fault),
         NEW data \in Seq(Nat), Len(data) = a.num * BlockSize
  PROVE  /\ \A i \in 0 .. a.num : Keeps(s, a, data)[i] \in Calls(a.start, a.end, fault)
         /\ Keeping(s, a, data, Keeps(s, a, data))
<1> DEFINE n == a.num
           S == Calls(a.start, a.end, fault)
           Piece(t, i) == IF Has(t.cache, a.start + i - 1) THEN data
                          ELSE Slice(data, (i - 1) * BlockSize, i * BlockSize)
           Step(i, t) == Update(t, a.start + i - 1, Piece(t, i), FALSE)
           F == [i \in 1 .. n |-> [t \in S |-> Step(i, t)]]
           Runs(g) == g = [i \in 0 .. n |-> IF i = 0 THEN s ELSE Step(i, g[i - 1])]
           after == Keeps(s, a, data)
<1>1. /\ n \in Nat /\ a.start \in Nat /\ a.end \in Nat /\ a.end <= LastLba
      /\ a.start + n = a.end + 1 /\ a.start \in Int /\ a.end \in Int
  BY SpansType
<1>2. ASSUME NEW i \in 1 .. n, NEW t \in S PROVE Step(i, t) \in S
  <2> DEFINE b == a.start + i - 1
             some == Slice(data, (i - 1) * BlockSize, i * BlockSize)
  <2>1. b \in Block
    BY <1>1, SizesType DEF Block
  <2>2. some \in Data /\ some \in Seq(Nat)
    BY <1>1, ChunkType DEF Data
  <2> DEFINE piece == IF Has(t.cache, b) THEN data ELSE some
  <2>3. Step(i, t) = Update(t, b, piece, FALSE)
    OBVIOUS
  <2> HIDE DEF b, some
  <2>4. piece \in Seq(Nat) /\ (t.ok /\ ~Has(t.cache, b) => piece \in Data)
    BY <2>2
  <2> HIDE DEF piece
  <2>5. Update(t, b, piece, FALSE) \in S
    BY <1>1, <2>1, <2>4, UpdateType
  <2> QED
    BY <2>3, <2>5
<1>3. \A i \in 1 .. n : i - 1 \in 0 .. n /\ i \in 0 .. n /\ i # 0
  BY <1>1
<1>4. after = CHOOSE g : Runs(g)
  BY DEF Keeps
<1> HIDE DEF Step, n
<1>5. \E g : Runs(g)
  <2> SUFFICES \E g : Runs(g)
    OBVIOUS
  <2>1. F \in [1 .. n -> [S -> S]] /\ s \in S
    BY <1>2
  <2>2. PICK f : Ran(n, S, s, F, f)
    <3> HIDE DEF F, S
    <3> QED
      BY <1>1, <2>1, Loop
  <2>3. /\ f \in [0 .. n -> S] /\ f[0] = s
        /\ \A i \in 1 .. n : f[i] = Step(i, f[i - 1])
    BY <1>3, <2>2 DEF Ran
  <2>4. Runs(f)
    BY <1>1, <1>3, <2>3
  <2> HIDE DEF Runs
  <2> QED
    BY <2>4
<1>6. Runs(after)
  <2> HIDE DEF Runs, after
  <2> QED
    BY <1>4, <1>5
<1> HIDE DEF after
<1>7. after[0] = s /\ \A i \in 1 .. n : after[i] = Step(i, after[i - 1])
  BY <1>1, <1>3, <1>6
<1> HIDE DEF Runs, F
<1>8. \A i \in 0 .. n : after[i] \in S
  <2> DEFINE T == {i \in 0 .. n : after[i] \in S}
  <2>1. 0 \in T
    BY <1>1, <1>7
  <2>2. \A i \in 1 .. n : i - 1 \in T => i \in T
    BY <1>2, <1>3, <1>7
  <2>3. \A i \in 0 .. n : i \in T
    <3> HIDE DEF T
    <3> QED
      BY <1>1, <2>1, <2>2, UpTo
  <2> QED
    BY <2>3
<1>9. Keeping(s, a, data, after)
  BY <1>7 DEF Keeping, Step, n
<1> QED
  BY <1>8, <1>9 DEF after, n

\* The buffer of a write of several blocks
LEMMA BufferType ==
  ASSUME NEW n \in Nat, n >= 2, NEW p \in Data, NEW q \in Data
  PROVE  /\ p \o [i \in 1 .. (n - 2) * BlockSize |-> 0] \o q \in Seq(Nat)
         /\ Len(p \o [i \in 1 .. (n - 2) * BlockSize |-> 0] \o q) = n * BlockSize
<1> DEFINE m == (n - 2) * BlockSize
           zeros == [i \in 1 .. m |-> 0]
           front == p \o zeros
<1>1. m \in Nat /\ m + BlockSize + BlockSize = n * BlockSize
  <2>1. n - 2 \in Nat
    OBVIOUS
  <2>2. \A k \in Nat : k * BlockSize \in Nat
    BY Products
  <2>3. (n - 2) * BlockSize = (n * BlockSize) - (2 * BlockSize)
    BY Products
  <2>4. 2 * BlockSize = BlockSize + BlockSize /\ n * BlockSize \in Nat
    BY <2>2, SizesType
  <2> DEFINE nb == n * BlockSize
  <2>5. m = nb - (BlockSize + BlockSize) /\ m \in Nat /\ nb \in Nat
    BY <2>1, <2>2, <2>3, <2>4
  <2> HIDE DEF nb, m
  <2>6. m + BlockSize + BlockSize = nb
    BY <2>5, SizesType
  <2> QED
    BY <2>5, <2>6 DEF nb
<1> HIDE DEF m
<1>2. zeros \in Seq(Nat) /\ Len(zeros) = m
  BY <1>1
<1> HIDE DEF zeros
<1>3. p \in Seq(Nat) /\ Len(p) = BlockSize /\ q \in Seq(Nat) /\ Len(q) = BlockSize
  BY DEF Data
<1>4. front \in Seq(Nat) /\ Len(front) = BlockSize + m
  BY <1>2, <1>3, ConcatProperties
<1> HIDE DEF front
<1>5. front \o q \in Seq(Nat) /\ Len(front \o q) = (BlockSize + m) + BlockSize
  BY <1>3, <1>4, ConcatProperties
<1>6. (BlockSize + m) + BlockSize = m + BlockSize + BlockSize
  BY <1>1, SizesType
<1> QED
  BY <1>1, <1>5, <1>6 DEF front, zeros, m

LEMMA WriteManyType ==
  ASSUME NEW a \in Spans, NEW fault \in Faults, NEW s \in Calls(a.start, a.end, fault),
         NEW bytes \in Seq(Nat), a.num # 1
  PROVE  WriteMany(s, a, bytes) \in Calls(a.start, a.end, fault)
<1> DEFINE S == Calls(a.start, a.end, fault)
           held == Present(s, a.start) \o [i \in 1 .. (a.num - 2) * BlockSize |-> 0]
                     \o Present(s, a.end)
           once == Fetch(s, a.start)
           seen == Fetch(once, a.end)
           given == [seen EXCEPT !.buf = held]
           patched == Copy(given, a.offset, a.offset + Len(bytes), bytes)
           written == WriteBlocks(patched, a.start, a.num, patched.buf)
<1>1. /\ a.start \in Int /\ a.end \in Int /\ a.start \in Block /\ a.end \in Block
      /\ a.offset \in Int /\ a.num \in Nat /\ a.num >= 2 /\ a.num \in 0 .. a.num
      /\ a.start \in Nat /\ a.start + a.num <= LastLba + 1
  <2>1. /\ a.start \in Block /\ a.end \in Block /\ a.start \in Nat /\ a.end \in Nat
        /\ a.end <= LastLba /\ a.offset \in 0 .. BlockSize - 1 /\ a.num \in Nat \ {0}
        /\ a.num = a.end - a.start + 1
    BY SpansType
  <2>2. a.num >= 2 /\ a.num \in 0 .. a.num /\ a.start + a.num <= LastLba + 1
    BY <2>1, SizesType
  <2> QED
    BY <2>1, <2>2, SizesType
<1>2. held \in Seq(Nat) /\ Len(held) = a.num * BlockSize
  <2>1. Present(s, a.start) \in Data /\ Present(s, a.end) \in Data
    BY <1>1, PresentType
  <2> QED
    BY <1>1, <2>1, BufferType
<1>3. seen \in S
  <2>1. once \in S
    BY <1>1, PresentType
  <2> HIDE DEF once
  <2> QED
    BY <1>1, <2>1, PresentType
<1>4. WriteMany(s, a, bytes) =
        IF patched.ok THEN Keeps(written, a, patched.buf)[a.num] ELSE patched
  BY DEF WriteMany
<1> HIDE DEF held, seen
<1>5. given \in S /\ given.buf = held
  <2>1. \A buf \in Seq(Nat) : [seen EXCEPT !.buf = buf] \in S
    BY <1>1, <1>3, Changed
  <2>2. \A buf : [seen EXCEPT !.buf = buf].buf = buf
    BY <1>3 DEF Calls
  <2> QED
    BY <1>2, <2>1, <2>2
<1> HIDE DEF given
<1>6. a.offset + Len(bytes) \in Int
  BY <1>1, LenProperties
<1>7. patched \in S /\ Len(patched.buf) = Len(given.buf)
  <2>1. \A from, upto \in Int :
          /\ Copy(given, from, upto, bytes) \in S
          /\ Len(Copy(given, from, upto, bytes).buf) = Len(given.buf)
    BY <1>1, <1>5, CopyType
  <2> QED
    BY <1>1, <1>6, <2>1
<1> HIDE DEF patched
<1>8. patched.buf \in Seq(Nat) /\ Len(patched.buf) = a.num * BlockSize
  BY <1>1, <1>2, <1>5, <1>7, CallType
<1>9. written \in S
  BY <1>1, <1>7, <1>8, WriteBlocksType
<1> HIDE DEF written
<1>10. Keeps(written, a, patched.buf)[a.num] \in S
  BY <1>1, <1>8, <1>9, KeepsType
<1> QED
  BY <1>4, <1>7, <1>10

\* flush_cache: what each entry's writing leaves.
LEMMA WritesBackType ==
  ASSUME NEW first \in Int, NEW last \in Int, NEW fault \in Faults,
         NEW s \in Calls(first, last, fault)
  PROVE  /\ \A i \in 0 .. Len(s.cache) : WritesBack(s)[i] \in Calls(first, last, fault)
         /\ WritesBack(s)[0] = s
         /\ \A i \in 1 .. Len(s.cache) :
              WritesBack(s)[i] = WriteBack(WritesBack(s)[i - 1], s.cache[i])
<1> DEFINE n == Len(s.cache)
           S == Calls(first, last, fault)
           Step(i, t) == WriteBack(t, s.cache[i])
           F == [i \in 1 .. n |-> [t \in S |-> Step(i, t)]]
           Runs(g) == g = [i \in 0 .. n |-> IF i = 0 THEN s ELSE Step(i, g[i - 1])]
           after == WritesBack(s)
<1>1. n \in Nat
  BY CallType, EntriesType, LenProperties
<1>2. ASSUME NEW i \in 1 .. n, NEW t \in S PROVE Step(i, t) \in S
  <2> DEFINE e == s.cache[i]
  <2>1. e.block \in Block /\ e.data \in Data
    BY CallType, EntriesType
  <2> HIDE DEF e
  <2>2. e.block \in Nat /\ e.block + 1 <= LastLba + 1
    BY <2>1, SizesType DEF Block
  <2>3. e.data \in Seq(Nat) /\ Len(e.data) = 1 * BlockSize
    BY <2>1, SizesType DEF Data
  <2>4. WriteBlocks(t, e.block, 1, e.data) \in S
    BY <2>2, <2>3, WriteBlocksType
  <2>5. WriteBack(t, e) \in S
    BY <2>4 DEF WriteBack
  <2> QED
    BY <2>5 DEF e
<1>3. \A i \in 1 .. n : i - 1 \in 0 .. n /\ i \in 0 .. n /\ i # 0
  BY <1>1
<1>4. after = CHOOSE g : Runs(g)
  BY DEF WritesBack
<1> HIDE DEF Step, n
<1>5. \E g : Runs(g)
  <2> SUFFICES \E g : Runs(g)
    OBVIOUS
  <2>1. F \in [1 .. n -> [S -> S]] /\ s \in S
    BY <1>2
  <2>2. PICK f : Ran(n, S, s, F, f)
    <3> HIDE DEF F, S
    <3> QED
      BY <1>1, <2>1, Loop
  <2>3. /\ f \in [0 .. n -> S] /\ f[0] = s
        /\ \A i \in 1 .. n : f[i] = Step(i, f[i - 1])
    BY <1>3, <2>2 DEF Ran
  <2>4. Runs(f)
    BY <1>1, <1>3, <2>3
  <2> HIDE DEF Runs
  <2> QED
    BY <2>4
<1>6. Runs(after)
  <2> HIDE DEF Runs, after
  <2> QED
    BY <1>4, <1>5
<1> HIDE DEF after
<1>7. after[0] = s /\ \A i \in 1 .. n : after[i] = Step(i, after[i - 1])
  BY <1>1, <1>3, <1>6
<1> HIDE DEF Runs, F
<1>8. \A i \in 0 .. n : after[i] \in S
  <2> DEFINE T == {i \in 0 .. n : after[i] \in S}
  <2>1. 0 \in T
    BY <1>1, <1>7
  <2>2. \A i \in 1 .. n : i - 1 \in T => i \in T
    BY <1>2, <1>3, <1>7
  <2>3. \A i \in 0 .. n : i \in T
    <3> HIDE DEF T
    <3> QED
      BY <1>1, <2>1, <2>2, UpTo
  <2> QED
    BY <2>3
<1> QED
  BY <1>7, <1>8 DEF after, Step, n

LEMMA FlushedType ==
  ASSUME NEW first \in Int, NEW last \in Int, NEW fault \in Faults,
         NEW s \in Calls(first, last, fault)
  PROVE  Flushed(s) \in Calls(first, last, fault)
<1> DEFINE written == WritesBack(s)[Len(s.cache)]
<1>1. Len(s.cache) \in 0 .. Len(s.cache)
  BY CallType, EntriesType, LenProperties
<1>2. written \in Calls(first, last, fault)
  BY <1>1, WritesBackType
<1>3. Flushed(s) = IF written.ok THEN [written EXCEPT !.cache = <<>>] ELSE written
  BY DEF Flushed
<1> HIDE DEF written
<1>4. <<>> \in Caches
  <2>1. <<>> \in Seq(Entries) /\ Len(<<>>) = 0 /\ DOMAIN <<>> = {}
    OBVIOUS
  <2> QED
    BY <2>1, SizesType DEF Caches, Tidy
<1>5. \A entries \in Caches : [written EXCEPT !.cache = entries] \in Calls(first, last, fault)
  BY <1>2, Changed
<1> QED
  BY <1>2, <1>3, <1>4, <1>5

-----------------------------------------------------------------------------
(* Steps *)

\* A call starts in the guest's state, whatever command is to fail.
LEMMA StartType ==
  ASSUME TypeOK, NEW first \in Int, NEW last \in Int, NEW length \in Nat
  PROVE  /\ Start(length) \in Calls(first, last, NoFault)
         /\ Start(length).missed = None /\ Start(length).ranges = <<>>
         /\ NoFault \in Faults
         /\ \A fault \in Faults :
              /\ [Start(length) EXCEPT !.fault = fault] \in Calls(first, last, fault)
              /\ [Start(length) EXCEPT !.fault = fault].missed = None
              /\ [Start(length) EXCEPT !.fault = fault].ranges = <<>>
<1>1. medium \in [Block -> Data]
  BY DEF TypeOK, Data
<1>2. cache \in Caches
  <2>1. cache \in Seq([block : Block, data : Seq(Nat), dirty : BOOLEAN])
    BY DEF TypeOK
  <2>2. \A i \in 1 .. Len(cache) : cache[i] \in Entries
    <3> SUFFICES ASSUME NEW i \in 1 .. Len(cache) PROVE cache[i] \in Entries
      OBVIOUS
    <3>1. cache[i] \in [block : Block, data : Seq(Nat), dirty : BOOLEAN]
      BY <2>1, ElementOfSeq
    <3>2. Len(cache[i].data) = BlockSize
      BY <2>1, LenProperties DEF TypeOK
    <3>3. cache[i].data \in Data
      BY <3>1, <3>2 DEF Data
    <3> QED
      BY <3>1, <3>3 DEF Entries
  <2>3. cache \in Seq(Entries)
    <3> DEFINE n == Len(cache)
    <3>1. n \in Nat /\ cache \in [1 .. n -> [block : Block, data : Seq(Nat), dirty : BOOLEAN]]
      BY <2>1, LenProperties
    <3> HIDE DEF n
    <3>2. \A i \in 1 .. n : cache[i] \in Entries
      BY <2>2 DEF n
    <3>3. cache \in [1 .. n -> Entries]
      BY <3>1, <3>2
    <3> QED
      BY <3>1, <3>3, SeqDef
  <2>4. Tidy(cache)
    BY DEF TypeOK, OneEntryPerBlock, Tidy
  <2> QED
    BY <2>3, <2>4 DEF Caches
<1>3. lost \subseteq Block
  BY DEF TypeOK
<1>4. NoFault \in Faults
  BY DEF NoFault, Faults
<1>5. [i \in 1 .. length |-> Stale] \in Seq(Nat)
  BY DEF Stale
<1>6. /\ Start(length) \in Calls(first, last, NoFault)
      /\ Start(length).missed = None /\ Start(length).ranges = <<>>
  <2>1. None \in {None} \cup {<<b>> : b \in first .. last}
    OBVIOUS
  <2>2. <<>> \in Seq((first .. last) \X (first .. last + 1))
    OBVIOUS
  <2> QED
    BY <1>1, <1>2, <1>3, <1>5, <2>1, <2>2 DEF Start, Calls
<1> DEFINE start == Start(length)
<1> HIDE DEF start
<1>7. ASSUME NEW fault \in Faults
      PROVE  /\ [start EXCEPT !.fault = fault] \in Calls(first, last, fault)
             /\ [start EXCEPT !.fault = fault].missed = None
             /\ [start EXCEPT !.fault = fault].ranges = <<>>
  <2>1. /\ start \in Calls(first, last, NoFault)
        /\ start.missed = None /\ start.ranges = <<>>
    BY <1>6 DEF start
  <2> QED
    BY <2>1 DEF Calls
<1> QED
  BY <1>4, <1>6, <1>7 DEF start

\* The states a call may start in: no command fails, or one that may
Starts(length) ==
  {Start(length)} \cup
  (IF faults < MaxFaults THEN {[Start(length) EXCEPT !.fault = fault] : fault \in Faults} ELSE {})

LEMMA StartsType ==
  ASSUME TypeOK, NEW first \in Int, NEW last \in Int, NEW length \in Nat,
         NEW s \in Starts(length)
  PROVE  \E fault \in Faults :
           /\ s \in Calls(first, last, fault) /\ s.missed = None /\ s.ranges = <<>>
           /\ fault = NoFault \/ faults < MaxFaults
<1>1. CASE s = Start(length)
  BY <1>1, StartType
<1>2. CASE s # Start(length)
  <2>1. faults < MaxFaults
    BY <1>2 DEF Starts
  <2>2. PICK fault \in Faults : s = [Start(length) EXCEPT !.fault = fault]
    BY <1>2, <2>1 DEF Starts
  <2> QED
    BY <2>1, <2>2, StartType
<1> QED
  BY <1>1, <1>2

LEMMA StruckType ==
  ASSUME NEW commands
  PROVE  [at : 1 .. commands, ends : BOOLEAN, keeps : 0 .. Cardinality(Block)] \subseteq Faults
<1>1. 1 .. commands \subseteq Nat /\ 0 .. Cardinality(Block) \subseteq Nat
  OBVIOUS
<1> QED
  BY <1>1 DEF Faults

\* What a step of read, write or flush leaves
LEMMA ReadLeaves ==
  ASSUME NEW length \in Nat, Read(length)
  PROVE  \E s \in Starts(length) :
           /\ Leaves(ReadInto(s, Span(length)), "open")
           /\ cursor' = IF ReadInto(s, Span(length)).ok THEN cursor + Span(length).bytes ELSE cursor
           /\ answer' = IF ReadInto(s, Span(length)).ok
                        THEN <<cursor, ReadInto(s, Span(length)).buf>> ELSE None
<1> DEFINE a == Span(length)
           start == Start(length)
           smooth == ReadInto(start, a)
           struck == [at : 1 .. smooth.commands, ends : BOOLEAN, keeps : 0 .. Cardinality(Block)]
           outcomes == {smooth} \cup
             (IF faults < MaxFaults
              THEN {ReadInto([start EXCEPT !.fault = f], a) : f \in struck} ELSE {})
<1>1. PICK t \in outcomes :
        /\ Leaves(t, "open")
        /\ cursor' = IF t.ok THEN cursor + a.bytes ELSE cursor
        /\ answer' = IF t.ok THEN <<cursor, t.buf>> ELSE None
  BY DEF Read, Outcomes
<1>2. \E s \in Starts(length) : t = ReadInto(s, a)
  <2>1. struck \subseteq Faults
    BY StruckType
  <2> HIDE DEF a, struck
  <2>2. CASE t = smooth
    BY <2>2 DEF Starts
  <2>3. CASE t # smooth
    <3>1. faults < MaxFaults
      BY <2>3
    <3>2. PICK f \in struck : t = ReadInto([start EXCEPT !.fault = f], a)
      BY <2>3, <3>1
    <3>3. [start EXCEPT !.fault = f] \in Starts(length)
      BY <2>1, <3>1 DEF Starts
    <3> HIDE DEF start
    <3> QED
      BY <3>2, <3>3
  <2> QED
    BY <2>2, <2>3
<1> HIDE DEF outcomes
<1> QED
  BY <1>1, <1>2

\* What write is given
Given(length) == [i \in 1 .. length |-> Value(writes + 1, cursor + i - 1)]

LEMMA WriteLeaves ==
  ASSUME NEW length \in Nat, Write(length)
  PROVE  \E s \in Starts(0) :
           /\ Leaves(WriteFrom(s, Span(length), Given(length)), "open")
           /\ cursor' = IF WriteFrom(s, Span(length), Given(length)).ok
                        THEN cursor + Span(length).bytes ELSE cursor
<1> DEFINE a == Span(length)
           bytes == Given(length)
           start == Start(0)
           smooth == WriteFrom(start, a, bytes)
           struck == [at : 1 .. smooth.commands, ends : BOOLEAN, keeps : 0 .. Cardinality(Block)]
           outcomes == {smooth} \cup
             (IF faults < MaxFaults
              THEN {WriteFrom([start EXCEPT !.fault = f], a, bytes) : f \in struck} ELSE {})
<1>1. PICK t \in outcomes :
        /\ Leaves(t, "open")
        /\ cursor' = IF t.ok THEN cursor + a.bytes ELSE cursor
  BY DEF Write, Outcomes, Given
<1>2. \E s \in Starts(0) : t = WriteFrom(s, a, bytes)
  <2>1. struck \subseteq Faults
    BY StruckType
  <2> HIDE DEF a, bytes, struck
  <2>2. CASE t = smooth
    BY <2>2 DEF Starts
  <2>3. CASE t # smooth
    <3>1. faults < MaxFaults
      BY <2>3
    <3>2. PICK f \in struck : t = WriteFrom([start EXCEPT !.fault = f], a, bytes)
      BY <2>3, <3>1
    <3>3. [start EXCEPT !.fault = f] \in Starts(0)
      BY <2>1, <3>1 DEF Starts
    <3> HIDE DEF start
    <3> QED
      BY <3>2, <3>3
  <2> QED
    BY <2>2, <2>3
<1> HIDE DEF outcomes
<1> QED
  BY <1>1, <1>2

LEMMA FlushLeaves ==
  ASSUME NEW state, FlushTo(state)
  PROVE  \E s \in Starts(0) :
           /\ Leaves(Flushed(s), state)
           /\ unsaved' = IF Flushed(s).ok THEN {} ELSE unsaved
<1> DEFINE start == Start(0)
           smooth == Flushed(start)
           struck == [at : 1 .. smooth.commands, ends : BOOLEAN, keeps : 0 .. Cardinality(Block)]
           outcomes == {smooth} \cup
             (IF faults < MaxFaults
              THEN {Flushed([start EXCEPT !.fault = f]) : f \in struck} ELSE {})
<1>1. PICK t \in outcomes :
        /\ Leaves(t, state)
        /\ unsaved' = IF t.ok THEN {} ELSE unsaved
  BY DEF FlushTo, Outcomes
<1>2. \E s \in Starts(0) : t = Flushed(s)
  <2>1. struck \subseteq Faults
    BY StruckType
  <2> HIDE DEF struck
  <2>2. CASE t = smooth
    BY <2>2 DEF Starts
  <2>3. CASE t # smooth
    <3>1. faults < MaxFaults
      BY <2>3
    <3>2. PICK f \in struck : t = Flushed([start EXCEPT !.fault = f])
      BY <2>3, <3>1
    <3>3. [start EXCEPT !.fault = f] \in Starts(0)
      BY <2>1, <3>1 DEF Starts
    <3> HIDE DEF start
    <3> QED
      BY <3>2, <3>3
  <2> QED
    BY <2>2, <2>3
<1> HIDE DEF outcomes
<1> QED
  BY <1>1, <1>2

\* What a call leaves is well formed.
Formed ==
  /\ device \in {"open", "closed", "panicked"}
  /\ medium \in [Block -> Seq(Nat)]
  /\ \A b \in Block : Len(medium[b]) = BlockSize
  /\ cache \in Seq([block : Block, data : Seq(Nat), dirty : BOOLEAN])
  /\ \A i \in DOMAIN cache : Len(cache[i].data) = BlockSize
  /\ OneEntryPerBlock
  /\ lost \subseteq Block
  /\ faults \in 0 .. MaxFaults

LEMMA LeavesType ==
  ASSUME TypeOK, NEW first \in Int, NEW last \in Int, NEW fault \in Faults,
         NEW s \in Calls(first, last, fault), fault = NoFault \/ faults < MaxFaults,
         NEW state \in {"open", "closed"}, Leaves(s, state)
  PROVE  Formed'
<1>1. /\ s.medium \in [Block -> Data] /\ s.cache \in Caches /\ s.ok \in BOOLEAN
      /\ s.lost \subseteq Block /\ s.fault = fault
  BY CallType
<1>2. device' \in {"open", "closed", "panicked"}
  BY <1>1 DEF Leaves
<1>3. medium' \in [Block -> Seq(Nat)] /\ \A b \in Block : Len(medium'[b]) = BlockSize
  BY <1>1 DEF Leaves, Data
<1>4. cache' \in Caches
  BY <1>1 DEF Leaves
<1>5. \A i \in DOMAIN cache' : /\ cache'[i] \in [block : Block, data : Seq(Nat), dirty : BOOLEAN]
                              /\ Len(cache'[i].data) = BlockSize
  <2>1. DOMAIN cache' = 1 .. Len(cache') /\ \A i \in 1 .. Len(cache') : cache'[i] \in Entries
    BY <1>4, EntriesType, LenProperties
  <2>2. \A e \in Entries : /\ e \in [block : Block, data : Seq(Nat), dirty : BOOLEAN]
                           /\ Len(e.data) = BlockSize
    BY DEF Entries, Data
  <2> QED
    BY <2>1, <2>2
<1>6. cache' \in Seq([block : Block, data : Seq(Nat), dirty : BOOLEAN])
  <2> DEFINE n == Len(cache')
             R == [block : Block, data : Seq(Nat), dirty : BOOLEAN]
  <2>1. n \in Nat /\ cache' \in [1 .. n -> Entries]
    BY <1>4, EntriesType, LenProperties
  <2>2. \A i \in 1 .. n : cache'[i] \in R
    BY <1>5, <2>1
  <2> HIDE DEF n, R
  <2>3. cache' \in [1 .. n -> R]
    BY <2>1, <2>2
  <2>4. cache' \in Seq(R)
    BY <2>1, <2>3, SeqDef
  <2> QED
    BY <2>4 DEF R
<1>7. OneEntryPerBlock'
  BY <1>4 DEF Caches, Tidy, OneEntryPerBlock
<1>8. lost' \subseteq Block
  BY <1>1 DEF Leaves
<1>9. faults' \in 0 .. MaxFaults
  BY <1>1, SizesType DEF Leaves, TypeOK
<1> QED
  BY <1>2, <1>3, <1>5, <1>6, <1>7, <1>8, <1>9 DEF Formed

LEMMA InitType == ASSUME Init PROVE TypeOK
<1>1. \A n \in Nat : Original(n) \in Nat
  BY DEF Original
<1>2. medium \in [Block -> Data]
  <2>1. ASSUME NEW b \in Block
        PROVE  [i \in 1 .. BlockSize |-> Original(b * BlockSize + i - 1)] \in Data
    <3>1. b * BlockSize \in Nat
      BY SizesType DEF Block
    <3> DEFINE bb == b * BlockSize
               some == [i \in 1 .. BlockSize |-> Original(bb + i - 1)]
    <3> HIDE DEF bb
    <3>2. \A i \in 1 .. BlockSize : bb + i - 1 \in Nat
      BY <3>1 DEF bb
    <3>3. some \in [1 .. BlockSize -> Nat]
      BY <1>1, <3>2
    <3> HIDE DEF some
    <3>4. some \in Seq(Nat) /\ Len(some) = BlockSize
      BY <3>3, SizesType
    <3> QED
      BY <3>4 DEF some, bb, Data
  <2> QED
    BY <2>1 DEF Init
<1>3. medium \in [Block -> Seq(Nat)] /\ \A b \in Block : Len(medium[b]) = BlockSize
  BY <1>2 DEF Data
<1>4. disk \in [0 .. Capacity - 1 -> Nat]
  BY <1>1, CapacityType DEF Init
<1>5. cursor \in 0 .. Capacity
  BY CapacityType DEF Init
<1>6. /\ cache = <<>> /\ lost = {} /\ unsaved = {} /\ writes = 0 /\ faults = 0 /\ device = "open"
  BY DEF Init
<1>7. OneEntryPerBlock /\ \A i \in DOMAIN cache : Len(cache[i].data) = BlockSize
  <2>1. Len(cache) = 0 /\ DOMAIN cache = {}
    BY <1>6
  <2> QED
    BY <2>1, SizesType DEF OneEntryPerBlock
<1>8. cache \in Seq([block : Block, data : Seq(Nat), dirty : BOOLEAN])
  BY <1>6
<1> QED
  BY <1>3, <1>4, <1>5, <1>6, <1>7, <1>8, SizesType DEF TypeOK

LEMMA ReadType ==
  ASSUME TypeOK, NEW length \in Lengths, Read(length)
  PROVE  TypeOK'
<1> DEFINE a == Span(length)
<1>1. /\ cursor \in 0 .. Capacity /\ a.bytes > 0 /\ UNCHANGED <<disk, unsaved, writes>>
      /\ length \in Nat \ {0} /\ length \in Nat
  BY SizesType DEF TypeOK, Read
<1>2. a \in Spans /\ cursor + a.bytes <= Capacity
  BY <1>1, SpanType
<1>3. PICK s \in Starts(length) :
        /\ Leaves(ReadInto(s, a), "open")
        /\ cursor' = IF ReadInto(s, a).ok THEN cursor + a.bytes ELSE cursor
  BY <1>1, ReadLeaves
<1> HIDE DEF a
<1>4. a.start \in Int /\ a.end \in Int /\ a.bytes \in Nat
  BY <1>2, SpansType
<1>5. PICK fault \in Faults :
        /\ s \in Calls(a.start, a.end, fault) /\ s.missed = None /\ s.ranges = <<>>
        /\ fault = NoFault \/ faults < MaxFaults
  BY <1>1, <1>4, StartsType
<1>6. ReadInto(s, a) \in Calls(a.start, a.end, fault)
  BY <1>2, <1>5, ReadIntoType
<1>7. Formed'
  BY <1>3, <1>4, <1>5, <1>6, LeavesType
<1>8. cursor' \in 0 .. Capacity
  BY <1>1, <1>2, <1>3, <1>4, CapacityType
<1>9. /\ disk' \in [0 .. Capacity - 1 -> Nat] /\ unsaved' \subseteq DOMAIN disk'
      /\ writes' \in 0 .. MaxWrites
  BY <1>1 DEF TypeOK
<1> QED
  BY <1>7, <1>8, <1>9 DEF TypeOK, Formed

LEMMA WriteType ==
  ASSUME TypeOK, NEW length \in Lengths, Write(length)
  PROVE  TypeOK'
<1> DEFINE a == Span(length)
           bytes == Given(length)
           touched == cursor .. cursor + a.bytes - 1
<1>1. /\ cursor \in 0 .. Capacity /\ a.bytes > 0 /\ writes \in Nat /\ writes < MaxWrites
      /\ length \in Nat \ {0} /\ length \in Nat /\ cursor \in Nat
  BY SizesType, CapacityType DEF TypeOK, Write
<1>2. a \in Spans /\ cursor + a.bytes <= Capacity
  BY <1>1, SpanType
<1>3. PICK s \in Starts(0) :
        /\ Leaves(WriteFrom(s, a, bytes), "open")
        /\ cursor' = IF WriteFrom(s, a, bytes).ok THEN cursor + a.bytes ELSE cursor
  BY <1>1, WriteLeaves
<1>4. /\ disk' = [address \in DOMAIN disk |->
           IF address \in touched THEN Value(writes + 1, address) ELSE disk[address]]
      /\ unsaved' = unsaved \cup touched /\ writes' = writes + 1
  BY DEF Write
<1>5. \A address \in Nat : Value(writes + 1, address) \in Nat
  BY <1>1 DEF Value
<1>6. bytes \in Seq(Nat)
  <2>1. \A i \in 1 .. length : cursor + i - 1 \in Nat
    BY <1>1
  <2>2. bytes \in [1 .. length -> Nat]
    BY <1>5, <2>1 DEF Given
  <2> HIDE DEF bytes
  <2> QED
    BY <1>1, <2>2
<1> HIDE DEF a, bytes
<1>7. a.start \in Int /\ a.end \in Int /\ a.bytes \in Nat
  BY <1>2, SpansType
<1>8. PICK fault \in Faults :
        /\ s \in Calls(a.start, a.end, fault) /\ s.missed = None /\ s.ranges = <<>>
        /\ fault = NoFault \/ faults < MaxFaults
  BY <1>7, StartsType
<1>9. WriteFrom(s, a, bytes) \in Calls(a.start, a.end, fault)
  BY <1>2, <1>6, <1>8, WriteOneType, WriteManyType, WriteTooManyType DEF WriteFrom
<1>10. Formed'
  BY <1>3, <1>7, <1>8, <1>9, LeavesType
<1>11. cursor' \in 0 .. Capacity
  BY <1>1, <1>2, <1>3, <1>7, CapacityType
<1>12. touched \subseteq 0 .. Capacity - 1
  BY <1>1, <1>2, <1>7, CapacityType
<1>13. disk' \in [0 .. Capacity - 1 -> Nat]
  <2>1. disk \in [0 .. Capacity - 1 -> Nat]
    BY DEF TypeOK
  <2>2. \A address \in 0 .. Capacity - 1 : address \in Nat
    OBVIOUS
  <2> HIDE DEF touched
  <2> QED
    BY <1>4, <1>5, <2>1, <2>2
<1>14. unsaved' \subseteq DOMAIN disk'
  <2>1. DOMAIN disk = 0 .. Capacity - 1 /\ DOMAIN disk' = 0 .. Capacity - 1 /\ unsaved \subseteq DOMAIN disk
    BY <1>13 DEF TypeOK
  <2> QED
    BY <1>4, <1>12, <2>1
<1>15. writes' \in 0 .. MaxWrites
  BY <1>1, <1>4, SizesType
<1> QED
  BY <1>10, <1>11, <1>13, <1>14, <1>15 DEF TypeOK, Formed

LEMMA FlushType ==
  ASSUME TypeOK, NEW state \in {"open", "closed"}, FlushTo(state)
  PROVE  TypeOK'
<1>1. UNCHANGED <<cursor, disk, writes>>
  BY DEF FlushTo
<1>2. PICK s \in Starts(0) :
        /\ Leaves(Flushed(s), state)
        /\ unsaved' = IF Flushed(s).ok THEN {} ELSE unsaved
  BY FlushLeaves
<1>3. PICK fault \in Faults : /\ s \in Calls(0, 0, fault)
                              /\ fault = NoFault \/ faults < MaxFaults
  <2>1. 0 \in Int /\ 0 \in Nat
    OBVIOUS
  <2> QED
    BY <2>1, StartsType
<1>4. Flushed(s) \in Calls(0, 0, fault)
  BY <1>3, FlushedType
<1>5. Formed'
  BY <1>2, <1>3, <1>4, LeavesType
<1>6. unsaved' \subseteq DOMAIN disk'
  BY <1>1, <1>2 DEF TypeOK
<1> QED
  BY <1>1, <1>5, <1>6 DEF TypeOK, Formed

\* Whatever is read, written and flushed, and whichever command fails: the cache
\* has one entry for a block and no more than it holds, each a whole block; the
\* medium keeps its blocks whole; and the cursor stays on the device.
THEOREM TypeCorrect == Spec => []TypeOK
<1>1. Init => TypeOK
  BY InitType
<1>2. TypeOK /\ [Next]_vars => TypeOK'
  <2> SUFFICES ASSUME TypeOK, [Next]_vars PROVE TypeOK'
    OBVIOUS
  <2>1. ASSUME NEW position \in 0 .. Capacity, Seek(position) PROVE TypeOK'
    BY <2>1 DEF Seek, TypeOK, OneEntryPerBlock
  <2>2. ASSUME NEW length \in Lengths, Read(length) PROVE TypeOK'
    BY <2>2, ReadType
  <2>3. ASSUME NEW length \in Lengths, Write(length) PROVE TypeOK'
    BY <2>3, WriteType
  <2>4. CASE Flush
    BY <2>4, FlushType DEF Flush
  <2>5. CASE DropDevice
    BY <2>5, FlushType DEF DropDevice
  <2>6. CASE UNCHANGED vars
    BY <2>6 DEF vars, TypeOK, OneEntryPerBlock
  <2> QED
    BY <2>1, <2>2, <2>3, <2>4, <2>5, <2>6 DEF Next
<1> QED
  BY <1>1, <1>2, PTL DEF Spec

-----------------------------------------------------------------------------
(* A careful guest.  For it, a call keeps what is expected of each block of *)
(* the disk: wants[b] is the data the guest has written, or found, there,   *)
(* and may[b] all data that was ever in its place.                          *)

Inside == 0 .. LastLba - 1

\* A cached block holds what is expected, and the medium too unless it is dirty;
\* the blocks in gone were in a WRITE that failed.
EntrySound(e, blocks, gone, wants, may) ==
  /\ e.dirty \/ e.block \in gone \/ blocks[e.block] = e.data
  /\ e.block \in Inside => /\ e.data \in may[e.block]
                           /\ e.block \in gone \/ e.data = wants[e.block]

DirtyIn(entries, b) == \E i \in 1 .. Len(entries) : entries[i].block = b /\ entries[i].dirty

\* The medium holds what is expected of a block, unless it is dirty in the cache.
BlockSound(b, blocks, entries, gone, wants, may) ==
  /\ blocks[b] \in may[b]
  /\ b \in gone \/ blocks[b] = wants[b] \/ DirtyIn(entries, b)

SoundIn(blocks, entries, gone, wants, may) ==
  /\ \A i \in 1 .. Len(entries) : EntrySound(entries[i], blocks, gone, wants, may)
  /\ \A b \in Inside : BlockSound(b, blocks, entries, gone, wants, may)

Sound(s, wants, may) == SoundIn(s.medium, s.cache, s.lost, wants, may)

\* data is expected of block b.
Expected(b, data, gone, wants, may) ==
  b \in Inside => data \in may[b] /\ (b \in gone \/ data = wants[b])

\* Nothing is dirty.
Clean(s) == \A i \in 1 .. Len(s.cache) : ~s.cache[i].dirty

LEMMA InsideType == Inside \subseteq Block /\ Inside \subseteq Nat
  BY SizesType DEF Inside, Block

LEMMA CleanBlock ==
  ASSUME NEW s, NEW wants, NEW may, Sound(s, wants, may), Clean(s), NEW b \in Inside
  PROVE  s.medium[b] \in may[b] /\ (b \in s.lost \/ s.medium[b] = wants[b])
  BY DEF Sound, SoundIn, BlockSound, Clean, DirtyIn

\* Moving an entry to the front changes nothing of this.
LEMMA UsedSound ==
  ASSUME NEW first \in Int, NEW last \in Int, NEW fault \in Faults,
         NEW s \in Calls(first, last, fault), NEW b, Has(s.cache, b),
         NEW wants, NEW may, Sound(s, wants, may)
  PROVE  /\ Sound(Used(s, b), wants, may)
         /\ Clean(s) => Clean(Used(s, b))
         /\ \A c : Has(Used(s, b).cache, c) <=> Has(s.cache, c)
<1> DEFINE t == Used(s, b)
           n == Len(s.cache)
<1>1. /\ t \in Calls(first, last, fault) /\ Len(t.cache) = n
      /\ \A k \in 1 .. n : \E j \in 1 .. n : t.cache[k] = s.cache[j]
      /\ \A j \in 1 .. n : \E k \in 1 .. n : t.cache[k] = s.cache[j]
  BY UsedType
<1>2. t.medium = s.medium /\ t.lost = s.lost
  <2>1. \A field \in {"medium", "ok", "missed", "ranges", "buf", "commands", "lost", "fault"} :
          t[field] = s[field]
    BY UsedType
  <2> HIDE DEF t
  <2> QED
    BY <2>1
<1>3. t.cache \in Caches /\ s.cache \in Caches
  BY <1>1, CallType
<1> HIDE DEF t
<1>4. \A i \in 1 .. Len(t.cache) : EntrySound(t.cache[i], t.medium, t.lost, wants, may)
  BY <1>1, <1>2 DEF Sound, SoundIn
<1>5. \A c : DirtyIn(s.cache, c) => DirtyIn(t.cache, c)
  BY <1>1 DEF DirtyIn
<1>6. \A c \in Inside : BlockSound(c, t.medium, t.cache, t.lost, wants, may)
  BY <1>2, <1>5 DEF Sound, SoundIn, BlockSound
<1>7. Sound(t, wants, may)
  BY <1>4, <1>6 DEF Sound, SoundIn
<1>8. Clean(s) => Clean(t)
  BY <1>1 DEF Clean
<1>9. \A c : Has(t.cache, c) <=> Has(s.cache, c)
  <2>1. \A c : Has(t.cache, c) <=> \E i \in 1 .. Len(t.cache) : t.cache[i].block = c
    BY <1>3, FindType
  <2>2. \A c : Has(s.cache, c) <=> \E i \in 1 .. n : s.cache[i].block = c
    BY <1>3, FindType
  <2> HIDE DEF n
  <2> QED
    BY <1>1, <2>1, <2>2
<1> QED
  BY <1>7, <1>8, <1>9 DEF t

\* A block may be cached clean where no dirty block leaves the cache for it.
LEMMA InsertSound ==
  ASSUME NEW first \in Int, NEW last \in Int, NEW fault \in Faults,
         NEW s \in Calls(first, last, fault), NEW b \in Block, NEW data \in Data,
         ~Has(s.cache, b), ~Victim(s.cache),
         NEW wants, NEW may, Sound(s, wants, may),
         b \in s.lost \/ s.medium[b] = data,
         Expected(b, data, s.lost, wants, may)
  PROVE  /\ Sound(Insert(s, b, data), wants, may)
         /\ Clean(s) => Clean(Insert(s, b, data))
         /\ \A c : Has(Insert(s, b, data).cache, c) => c = b \/ Has(s.cache, c)
<1> DEFINE e == [block |-> b, data |-> data, dirty |-> FALSE]
           new == <<e>> \o Kept(s.cache)
           m == Len(Kept(s.cache))
           t == Insert(s, b, data)
<1>1. s.cache \in Caches
  BY CallType
<1>2. e \in Entries /\ e.block = b /\ e.data = data /\ ~e.dirty
  BY DEF Entries
<1>3. \A i \in 1 .. Len(s.cache) : s.cache[i].block # b
  BY <1>1, FindType
<1>4. t = [s EXCEPT !.cache = new]
  BY DEF Insert, Kept
<1>5. t.cache = new /\ t.medium = s.medium /\ t.lost = s.lost
  BY <1>4 DEF Calls
<1> HIDE DEF t, e
<1>6. /\ new \in Caches /\ Len(new) = m + 1 /\ new[1] = e
      /\ \A k \in 2 .. m + 1 : k - 1 \in 1 .. Len(s.cache) /\ new[k] = s.cache[k - 1]
  BY <1>1, <1>2, <1>3, InsertedType
<1>7. /\ m \in Nat
      /\ m = IF Len(s.cache) = CacheSize THEN CacheSize - 1 ELSE Len(s.cache)
  <2>1. Kept(s.cache) \in Seq(Entries)
    BY <1>1, KeptType
  <2> QED
    BY <1>1, <2>1, KeptType, LenProperties
<1> HIDE DEF new, m
<1>8. \A k \in 1 .. m + 1 : k = 1 \/ k \in 2 .. m + 1
  BY <1>7
<1>9. EntrySound(e, s.medium, s.lost, wants, may)
  BY <1>2 DEF EntrySound, Expected
<1>10. \A k \in 1 .. m + 1 : EntrySound(new[k], s.medium, s.lost, wants, may)
  BY <1>6, <1>8, <1>9 DEF Sound, SoundIn
<1>11. \A c : DirtyIn(s.cache, c) => DirtyIn(new, c)
  <2> SUFFICES ASSUME NEW i \in 1 .. Len(s.cache), s.cache[i].dirty
               PROVE  \E k \in 1 .. Len(new) : new[k] = s.cache[i]
    BY DEF DirtyIn
  <2>1. Len(s.cache) \in Nat /\ i \in Nat
    BY <1>1, EntriesType, LenProperties
  <2>2. i <= m
    <3>1. CASE Len(s.cache) = CacheSize
      <4>1. i # Len(s.cache)
        BY <3>1 DEF Victim, Last
      <4> QED
        BY <1>7, <2>1, <3>1, <4>1
    <3>2. CASE Len(s.cache) # CacheSize
      BY <1>7, <2>1, <3>2
    <3> QED
      BY <3>1, <3>2
  <2>3. i + 1 \in 2 .. m + 1 /\ i + 1 \in 1 .. m + 1 /\ (i + 1) - 1 = i
    BY <1>7, <2>1, <2>2
  <2> QED
    BY <1>6, <2>3
<1>12. \A c \in Inside : BlockSound(c, s.medium, new, s.lost, wants, may)
  BY <1>11 DEF Sound, SoundIn, BlockSound
<1>13. Sound(t, wants, may)
  BY <1>5, <1>6, <1>10, <1>12 DEF Sound, SoundIn
<1>14. ASSUME Clean(s) PROVE Clean(t)
  <2>1. \A k \in 1 .. m + 1 : ~new[k].dirty
    BY <1>2, <1>6, <1>8, <1>14 DEF Clean
  <2> QED
    BY <1>5, <1>6, <2>1 DEF Clean
<1>15. ASSUME NEW c, Has(t.cache, c) PROVE c = b \/ Has(s.cache, c)
  <2>1. \E k \in 1 .. m + 1 : new[k].block = c
    BY <1>5, <1>6, <1>15, FindType
  <2> QED
    BY <1>1, <1>2, <1>6, <1>8, <2>1, FindType
<1> QED
  BY <1>13, <1>14, <1>15 DEF t

\* What is expected of block b, and of no other, is new.
Revised(b, wants, may, wants1, may1) ==
  \A c \in Inside : (c # b => wants1[c] = wants[c]) /\ may[c] \subseteq may1[c]

\* Two states of a call that differ in their caches
Like(t, s) == t.medium = s.medium /\ t.lost = s.lost /\ t.ok = s.ok /\ t.buf = s.buf

\* The entry of b may be given the data that is expected of b now, as long as it
\* is marked dirty or the medium holds that data.
LEMMA OverwriteSound ==
  ASSUME NEW first \in Int, NEW last \in Int, NEW fault \in Faults,
         NEW s \in Calls(first, last, fault), s.ok, NEW b \in Block, NEW data \in Data,
         NEW dirty \in BOOLEAN, Has(s.cache, b),
         NEW wants, NEW may, Sound(s, wants, may), NEW wants1, NEW may1,
         Revised(b, wants, may, wants1, may1), Expected(b, data, s.lost, wants1, may1),
         dirty \/ b \in s.lost \/ s.medium[b] = data
  PROVE  /\ Sound(Update(s, b, data, dirty), wants1, may1)
         /\ Clean(s) /\ ~dirty => Clean(Update(s, b, data, dirty))
         /\ \A c : Has(Update(s, b, data, dirty).cache, c) => Has(s.cache, c)
         /\ Like(Update(s, b, data, dirty), s)
<1> DEFINE used == Used(s, b)
           n == Len(used.cache)
           dirty1 == used.cache[1].dirty \/ dirty
           new == Headed(used.cache, data, dirty1)
           t == Update(s, b, data, dirty)
<1>1. /\ used \in Calls(first, last, fault) /\ n \in Nat \ {0} /\ used.cache[1].block = b
      /\ \A field \in {"medium", "ok", "missed", "ranges", "buf", "commands", "lost", "fault"} :
           used[field] = s[field]
  <2>1. /\ used \in Calls(first, last, fault) /\ Len(used.cache) = Len(s.cache)
        /\ Len(s.cache) \in Nat \ {0} /\ used.cache[1].block = b
    BY UsedType
  <2>2. \A field \in {"medium", "ok", "missed", "ranges", "buf", "commands", "lost", "fault"} :
          used[field] = s[field]
    BY UsedType
  <2> HIDE DEF used
  <2> QED
    BY <2>1, <2>2
<1>2. Sound(used, wants, may) /\ (Clean(s) => Clean(used))
      /\ \A c : Has(used.cache, c) <=> Has(s.cache, c)
  BY UsedSound
<1>3. used.medium = s.medium /\ used.lost = s.lost
  <2> HIDE DEF used
  <2> QED
    BY <1>1
<1>4. Len(data) = BlockSize
  BY DEF Data
<1>5. t = [used EXCEPT !.cache[1].data = data, !.cache[1].dirty = @ \/ dirty]
  BY <1>4 DEF Update
<1> HIDE DEF used, n, t
<1>6. used.cache \in Caches
  BY <1>1, CallType
<1>7. t.cache = new
  BY <1>1, <1>5, <1>6, EntriesType DEF Calls, Headed
<1>8. \A field \in {"medium", "ok", "missed", "ranges", "buf", "commands", "lost", "fault"} :
        t[field] = s[field]
  BY <1>1, <1>5 DEF Calls
<1>9. t.medium = s.medium /\ t.lost = s.lost /\ Like(t, s)
  BY <1>8 DEF Like
<1>10. Len(used.cache) = n /\ 1 \in 1 .. n
  BY <1>1 DEF n
<1>11. dirty1 \in BOOLEAN
  BY <1>6, <1>10, EntriesType
<1> HIDE DEF dirty1
<1>12. /\ new \in Caches /\ Len(new) = n
       /\ new[1].block = b /\ new[1].data = data /\ new[1].dirty = dirty1
       /\ \A k \in 2 .. n : new[k] = used.cache[k]
  BY <1>1, <1>6, <1>10, <1>11, HeadType
<1> HIDE DEF new
<1>13. \A k \in 1 .. n : k = 1 \/ k \in 2 .. n
  BY <1>1
<1>14. \A k \in 2 .. n : k \in 1 .. n /\ used.cache[k].block # b
  <2>1. \A i, j \in 1 .. n : used.cache[i].block = used.cache[j].block => i = j
    BY <1>6, <1>10, EntriesType, LenProperties DEF Tidy
  <2>2. \A k \in 2 .. n : k \in 1 .. n /\ k # 1
    BY <1>1
  <2> QED
    BY <1>1, <1>10, <2>1, <2>2
<1>15. EntrySound(new[1], s.medium, s.lost, wants1, may1)
  BY <1>12 DEF EntrySound, Expected, dirty1
<1>16. ASSUME NEW k \in 2 .. n PROVE EntrySound(new[k], s.medium, s.lost, wants1, may1)
  <2>1. EntrySound(used.cache[k], s.medium, s.lost, wants, may)
    BY <1>2, <1>3, <1>10, <1>14 DEF Sound, SoundIn
  <2> QED
    BY <1>12, <1>14, <2>1 DEF EntrySound, Revised
<1>17. ASSUME NEW c \in Inside, c # b PROVE BlockSound(c, s.medium, new, s.lost, wants1, may1)
  <2>1. BlockSound(c, s.medium, used.cache, s.lost, wants, may)
    BY <1>2, <1>3 DEF Sound, SoundIn
  <2>2. ASSUME DirtyIn(used.cache, c) PROVE DirtyIn(new, c)
    <3>1. PICK i \in 1 .. n : used.cache[i].block = c /\ used.cache[i].dirty
      BY <1>10, <2>2 DEF DirtyIn
    <3>2. i \in 2 .. n
      BY <1>1, <1>13, <1>17, <3>1
    <3> QED
      BY <1>12, <1>14, <3>1, <3>2 DEF DirtyIn
  <2> QED
    BY <1>17, <2>1, <2>2 DEF BlockSound, Revised
<1>18. ASSUME b \in Inside PROVE BlockSound(b, s.medium, new, s.lost, wants1, may1)
  <2>1. s.medium[b] \in may[b]
    BY <1>2, <1>3, <1>18 DEF Sound, SoundIn, BlockSound
  <2>2. dirty => DirtyIn(new, b)
    BY <1>10, <1>12 DEF DirtyIn, dirty1
  <2> QED
    BY <1>18, <2>1, <2>2 DEF BlockSound, Revised, Expected
<1>19. Sound(t, wants1, may1)
  <2>1. \A k \in 1 .. n : EntrySound(new[k], s.medium, s.lost, wants1, may1)
    BY <1>13, <1>15, <1>16
  <2>2. \A c \in Inside : BlockSound(c, s.medium, new, s.lost, wants1, may1)
    BY <1>17, <1>18
  <2> QED
    BY <1>7, <1>9, <1>12, <2>1, <2>2 DEF Sound, SoundIn
<1>20. ASSUME Clean(s), ~dirty PROVE Clean(t)
  <2>1. ~dirty1
    BY <1>2, <1>10, <1>20 DEF Clean, dirty1
  <2>2. \A k \in 2 .. n : ~new[k].dirty
    BY <1>2, <1>10, <1>12, <1>14, <1>20 DEF Clean
  <2> QED
    BY <1>7, <1>12, <1>13, <2>1, <2>2 DEF Clean
<1>21. ASSUME NEW c, Has(t.cache, c) PROVE Has(s.cache, c)
  <2>1. PICK k \in 1 .. n : new[k].block = c
    BY <1>7, <1>12, <1>21, FindType
  <2>2. used.cache[k].block = c
    BY <1>1, <1>12, <1>13, <2>1
  <2> QED
    BY <1>2, <1>6, <1>10, <2>2, FindType
<1> QED
  BY <1>9, <1>19, <1>20, <1>21 DEF t

\* Where no dirty block leaves the cache, nothing is written.
LEMMA UpdateSame ==
  ASSUME NEW first \in Int, NEW last \in Int, NEW fault \in Faults,
         NEW s \in Calls(first, last, fault), ~Victim(s.cache),
         NEW b, NEW data, NEW dirty
  PROVE  /\ \A field \in {"medium", "missed", "ranges", "buf", "commands", "lost", "fault"} :
              Update(s, b, data, dirty)[field] = s[field]
         /\ ~Has(s.cache, b) => Update(s, b, data, dirty).ok = s.ok
<1> DEFINE Same(t) ==
      \A field \in {"medium", "missed", "ranges", "buf", "commands", "lost", "fault"} :
        t[field] = s[field]
<1>1. CASE ~s.ok
  BY <1>1 DEF Update
<1>2. CASE s.ok /\ ~Has(s.cache, b)
  <2>1. Update(s, b, data, dirty) =
          [s EXCEPT !.cache = <<[block |-> b, data |-> data, dirty |-> FALSE]>> \o Kept(s.cache)]
    BY <1>2 DEF Update, Insert, Kept
  <2> QED
    BY <2>1 DEF Calls
<1>3. CASE s.ok /\ Has(s.cache, b) /\ Len(data) # BlockSize
  <2>1. Update(s, b, data, dirty) = [s EXCEPT !.ok = FALSE]
    BY <1>3 DEF Update
  <2> QED
    BY <1>3, <2>1 DEF Calls
<1>4. CASE s.ok /\ Has(s.cache, b) /\ Len(data) = BlockSize
  <2> DEFINE used == Used(s, b)
  <2>1. Update(s, b, data, dirty) =
          [used EXCEPT !.cache[1].data = data, !.cache[1].dirty = @ \/ dirty]
    BY <1>4 DEF Update
  <2>2. used \in Calls(first, last, fault)
    BY <1>4, UsedType
  <2>3. Same(used)
    BY <1>4, UsedType
  <2> HIDE DEF used
  <2> QED
    BY <1>4, <2>1, <2>2, <2>3 DEF Calls
<1> QED
  BY <1>1, <1>2, <1>3, <1>4

\* Caching what the medium holds of a block
Caching(s, b) == Update(s, b, s.medium[b], FALSE)

LEMMA CachedSound ==
  ASSUME NEW first \in Int, NEW last \in Int, NEW fault \in Faults,
         NEW s \in Calls(first, last, fault), s.ok, NEW b \in Block,
         NEW wants, NEW may, Sound(s, wants, may),
         Clean(s) \/ (~Has(s.cache, b) /\ ~Victim(s.cache))
  PROVE  /\ Caching(s, b) \in Calls(first, last, fault)
         /\ Sound(Caching(s, b), wants, may)
         /\ Clean(s) => Clean(Caching(s, b))
         /\ Like(Caching(s, b), s)
<1> DEFINE data == s.medium[b]
<1>1. data \in Data /\ s.cache \in Caches
  BY CallType
<1>2. ~DirtyIn(s.cache, b)
  BY <1>1, FindType DEF DirtyIn, Clean
<1>3. Expected(b, data, s.lost, wants, may)
  BY <1>2 DEF Sound, SoundIn, BlockSound, Expected
<1>4. ~Victim(s.cache)
  <2>1. CASE Clean(s)
    <3>1. Len(s.cache) = CacheSize => Len(s.cache) \in 1 .. Len(s.cache)
      BY SizesType
    <3> QED
      BY <2>1, <3>1 DEF Clean, Victim, Last
  <2> QED
    BY <2>1
<1>5. data = s.medium[b]
  OBVIOUS
<1> HIDE DEF data
<1> DEFINE dirty == FALSE
<1>6. dirty \in BOOLEAN /\ ~dirty
  OBVIOUS
<1> DEFINE t == Update(s, b, data, dirty)
<1>7. Caching(s, b) = t
  BY <1>5 DEF Caching
<1> HIDE DEF dirty
<1>10. t \in Calls(first, last, fault)
  <2>1. data \in Seq(Nat)
    BY <1>1 DEF Data
  <2> QED
    BY <1>1, <1>6, <2>1, UpdateType
<1>8. CASE Has(s.cache, b)
  <2>1. Revised(b, wants, may, wants, may)
    BY DEF Revised
  <2>2. Sound(t, wants, may) /\ (Clean(s) /\ ~dirty => Clean(t)) /\ Like(t, s)
    BY <1>1, <1>3, <1>5, <1>6, <1>8, <2>1, OverwriteSound
  <2> HIDE DEF t
  <2> QED
    BY <1>6, <1>7, <1>10, <2>2 DEF Like
<1>9. CASE ~Has(s.cache, b)
  <2>1. t = Insert(s, b, data)
    BY <1>9 DEF Update
  <2>2. Sound(Insert(s, b, data), wants, may) /\ (Clean(s) => Clean(Insert(s, b, data)))
    BY <1>1, <1>3, <1>4, <1>5, <1>9, InsertSound
  <2>3. \A field \in {"medium", "missed", "ranges", "buf", "commands", "lost", "fault"} :
          t[field] = s[field]
    BY <1>4, UpdateSame
  <2>4. t.ok = s.ok
    BY <1>4, <1>9, UpdateSame
  <2> HIDE DEF t
  <2> QED
    BY <1>7, <1>10, <2>1, <2>2, <2>3, <2>4 DEF Like
<1> QED
  BY <1>8, <1>9

-----------------------------------------------------------------------------
(* What read_blocks returns *)

LEMMA Division ==
  ASSUME NEW q \in Nat, NEW r \in 0 .. BlockSize - 1
  PROVE  ((q * BlockSize) + r) \div BlockSize = q /\ ((q * BlockSize) + r) % BlockSize = r
<1> DEFINE n == (q * BlockSize) + r
           k == n \div BlockSize
           j == n % BlockSize
<1>1. q * BlockSize \in Nat
  BY Products
<1>2. n \in Nat
  BY <1>1
<1>3. k \in Nat /\ j \in 0 .. BlockSize - 1 /\ n = (k * BlockSize) + j
  BY <1>2, Divided
<1>4. n = (q * BlockSize) + r
  OBVIOUS
<1> HIDE DEF k, j
<1>5. k * BlockSize \in Nat
  BY <1>3, Products
<1>6. (k * BlockSize) + j <= (q * BlockSize) + r /\ (q * BlockSize) + r <= (k * BlockSize) + j
  <2> DEFINE kb == k * BlockSize
             qb == q * BlockSize
  <2>1. kb \in Nat /\ qb \in Nat /\ qb + r = kb + j
    BY <1>1, <1>3, <1>5
  <2> HIDE DEF kb, qb, n
  <2>2. kb + j <= qb + r /\ qb + r <= kb + j
    BY <1>3, <2>1, SizesType
  <2> QED
    BY <2>2 DEF kb, qb
<1>7. k <= q /\ q <= k
  BY <1>3, <1>6, Ordered
<1>8. k = q
  BY <1>3, <1>7
<1>9. j = r
  <2> DEFINE qb == q * BlockSize
  <2>1. qb \in Nat /\ qb + r = qb + j
    BY <1>1, <1>3, <1>8
  <2> HIDE DEF qb
  <2> QED
    BY <1>3, <2>1, SizesType
<1> QED
  BY <1>8, <1>9 DEF k, j

\* Byte j of some blocks is byte i of the one that c come before.
ByteOf(j, c, i) == j = (c * BlockSize) + i

\* A byte of the blocks that are read
LEMMA ReadBlocksAt ==
  ASSUME NEW first \in Int, NEW last \in Int, NEW fault \in Faults,
         NEW s \in Calls(first, last, fault), NEW address \in Nat, NEW n \in Nat,
         NEW c \in 0 .. n - 1, NEW i \in 1 .. BlockSize, NEW j \in Nat, ByteOf(j, c, i)
  PROVE  j \in 1 .. n * BlockSize /\ ReadBlocks(s, address, n)[j] = s.medium[address + c][i]
<1> DEFINE cb == c * BlockSize
           nb == n * BlockSize
<1>1. cb \in Nat /\ nb \in Nat /\ cb + BlockSize <= nb
  <2>1. c \in Nat /\ c + 1 \in Nat /\ c + 1 <= n
    OBVIOUS
  <2>2. (c + 1) * BlockSize <= nb
    BY <2>1, Products
  <2>3. (c + 1) * BlockSize = cb + BlockSize
    BY <2>1, SizesType
  <2>4. cb \in Nat /\ nb \in Nat
    BY <2>1, Products
  <2> QED
    BY <2>2, <2>3, <2>4
<1>2. i - 1 \in 0 .. BlockSize - 1 /\ c \in Nat /\ (i - 1) + 1 = i
  BY SizesType
<1>3. (cb + (i - 1)) \div BlockSize = c /\ (cb + (i - 1)) % BlockSize = i - 1
  BY <1>2, Division
<1>4. j \in 1 .. nb /\ j - 1 = cb + (i - 1)
  <2>1. j = cb + i
    BY DEF ByteOf
  <2> HIDE DEF cb, nb
  <2> QED
    BY <1>1, <2>1, SizesType
<1> HIDE DEF cb, nb
<1>5. ReadBlocks(s, address, n)[j] = s.medium[address + (j - 1) \div BlockSize][((j - 1) % BlockSize) + 1]
  BY <1>4 DEF ReadBlocks, nb
<1>6. ReadBlocks(s, address, n)[j] = s.medium[address + c][(i - 1) + 1]
  BY <1>3, <1>4, <1>5
<1> QED
  BY <1>2, <1>4, <1>6 DEF cb, nb

LEMMA DataEqual ==
  ASSUME NEW p \in Data, NEW q \in Data, \A k \in 1 .. BlockSize : p[k] = q[k]
  PROVE  p = q
<1>1. p \in Seq(Nat) /\ q \in Seq(Nat) /\ Len(p) = BlockSize /\ Len(q) = BlockSize
  BY DEF Data
<1> QED
  BY <1>1, SeqEqual

\* A chunk of the blocks that are read is what the medium holds.
LEMMA ReadChunk ==
  ASSUME NEW first \in Int, NEW last \in Int, NEW fault \in Faults,
         NEW s \in Calls(first, last, fault), NEW address \in Nat, NEW n \in Nat,
         address + n <= LastLba + 1, NEW i \in 1 .. n
  PROVE  Slice(ReadBlocks(s, address, n), (i - 1) * BlockSize, i * BlockSize)
           = s.medium[address + i - 1]
<1> DEFINE data == ReadBlocks(s, address, n)
           some == Slice(data, (i - 1) * BlockSize, i * BlockSize)
<1>1. data \in Seq(Nat) /\ Len(data) = n * BlockSize
  BY ReadBlocksType
<1>2. some \in Data /\ \A j \in 1 .. BlockSize : some[j] = data[((i - 1) * BlockSize) + j]
  BY <1>1, ChunkType
<1>3. \A j \in 1 .. BlockSize : data[((i - 1) * BlockSize) + j] = s.medium[address + (i - 1)][j]
  <2> DEFINE c == i - 1
  <2>1. c \in 0 .. n - 1
    OBVIOUS
  <2> HIDE DEF c
  <2>2. ASSUME NEW j \in 1 .. BlockSize
        PROVE  data[(c * BlockSize) + j] = s.medium[address + c][j]
    <3> DEFINE k == (c * BlockSize) + j
    <3>1. k = (c * BlockSize) + j
      OBVIOUS
    <3>2. ByteOf(k, c, j) /\ k \in Nat
      <4>1. c * BlockSize \in Nat
        BY <2>1, WholeBytes
      <4> QED
        BY <4>1 DEF ByteOf
    <3> HIDE DEF k
    <3>3. data[k] = s.medium[address + c][j]
      BY <2>1, <3>2, ReadBlocksAt
    <3> QED
      BY <3>1, <3>3
  <2> QED
    BY <2>2 DEF c
<1>4. address + (i - 1) = address + i - 1 /\ address + i - 1 \in Block
  BY SizesType DEF Block
<1>5. s.medium[address + i - 1] \in Data
  BY <1>4, CallType
<1> HIDE DEF data, some
<1>6. \A j \in 1 .. BlockSize : some[j] = s.medium[address + i - 1][j]
  BY <1>2, <1>3, <1>4
<1>7. some = s.medium[address + i - 1]
  BY <1>2, <1>5, <1>6, DataEqual
<1> QED
  BY <1>7 DEF some, data

-----------------------------------------------------------------------------
(* read, of a careful guest *)

\* Where n blocks from `at` may be cached
Ready(s, at, n) ==
  \/ Clean(s)
  \/ n = 1 /\ ~Has(s.cache, at) /\ ~Victim(s.cache)

\* Caching n blocks as the medium holds them
LEMMA ChunksSound ==
  ASSUME NEW first \in Int, NEW last \in Int, NEW fault \in Faults,
         NEW s \in Calls(first, last, fault), s.ok, NEW at \in Nat, NEW n \in Nat,
         at + n <= LastLba + 1, NEW data \in Seq(Nat), Len(data) = n * BlockSize,
         \A i \in 1 .. n : Slice(data, (i - 1) * BlockSize, i * BlockSize) = s.medium[at + i - 1],
         NEW wants, NEW may, Sound(s, wants, may), Ready(s, at, n)
  PROVE  /\ Chunks(s, at, data, n)[n] \in Calls(first, last, fault)
         /\ Sound(Chunks(s, at, data, n)[n], wants, may)
         /\ Clean(s) => Clean(Chunks(s, at, data, n)[n])
         /\ Like(Chunks(s, at, data, n)[n], s)
<1> DEFINE S == Calls(first, last, fault)
           Piece(i) == Slice(data, (i - 1) * BlockSize, i * BlockSize)
           after == Chunks(s, at, data, n)
<1>1. /\ \A i \in 0 .. n : after[i] \in S
      /\ after[0] = s
      /\ \A i \in 1 .. n : after[i] = Update(after[i - 1], at + i - 1, Piece(i), FALSE)
  <2>1. \A i \in 0 .. n : after[i] \in S
    BY ChunksType
  <2>2. Cached(n, s, at, data, after)
    BY ChunksType
  <2> QED
    BY <2>1, <2>2 DEF Cached
<1>2. \A i \in 1 .. n : Piece(i) = s.medium[at + i - 1]
  OBVIOUS
<1> HIDE DEF after, Piece
<1> DEFINE T == {i \in 0 .. n : /\ Sound(after[i], wants, may)
                                /\ Clean(s) => Clean(after[i])
                                /\ Like(after[i], s)}
<1>3. 0 \in T
  <2>1. after[0] = s /\ Like(s, s) /\ 0 \in 0 .. n
    BY <1>1 DEF Like
  <2> QED
    BY <2>1
<1>4. ASSUME NEW i \in 1 .. n, i - 1 \in T PROVE i \in T
  <2> DEFINE t == after[i - 1]
             u == after[i]
             b == at + i - 1
  <2>1. i - 1 \in 0 .. n /\ i \in 0 .. n /\ b \in Block
    BY SizesType DEF Block
  <2>2. t \in S /\ Sound(t, wants, may) /\ (Clean(s) => Clean(t)) /\ Like(t, s)
    BY <1>1, <1>4, <2>1
  <2>3. Clean(t) \/ (~Has(t.cache, b) /\ ~Victim(t.cache))
    <3>1. CASE Clean(s)
      BY <2>2, <3>1
    <3>2. CASE ~Clean(s)
      <4>1. n = 1 /\ ~Has(s.cache, at) /\ ~Victim(s.cache)
        BY <3>2 DEF Ready
      <4>2. i = 1 /\ b = at
        BY <4>1
      <4>3. t = s
        BY <1>1, <4>2
      <4> QED
        BY <4>1, <4>2, <4>3
    <3> QED
      BY <3>1, <3>2
  <2>4. u = Update(t, b, Piece(i), FALSE)
    BY <1>1
  <2>5. Piece(i) = s.medium[b]
    BY <1>2
  <2>6. t.ok /\ t.medium = s.medium
    BY <2>2 DEF Like
  <2> HIDE DEF t, u, b
  <2>7. u = Caching(t, b)
    BY <2>4, <2>5, <2>6 DEF Caching
  <2>8. /\ Sound(Caching(t, b), wants, may)
        /\ Clean(t) => Clean(Caching(t, b))
        /\ Like(Caching(t, b), t)
    BY <2>1, <2>2, <2>3, <2>6, CachedSound
  <2>12. Sound(u, wants, may) /\ (Clean(s) => Clean(u)) /\ Like(u, s)
    <3>1. Like(u, s)
      BY <2>2, <2>7, <2>8 DEF Like
    <3> QED
      BY <2>2, <2>7, <2>8, <3>1
  <2> QED
    BY <2>1, <2>12 DEF u
<1>5. \A i \in 0 .. n : i \in T
  <2> HIDE DEF T
  <2> QED
    BY <1>3, <1>4, UpTo
<1>6. n \in 0 .. n
  OBVIOUS
<1> QED
  BY <1>1, <1>5, <1>6 DEF after

\* Two states of a call that hold the same of every block
Same(r, s) == r.medium = s.medium /\ r.lost = s.lost /\ r.cache = s.cache

LEMMA SameSound ==
  ASSUME NEW r, NEW s, Same(r, s), NEW wants, NEW may
  PROVE  /\ Sound(s, wants, may) => Sound(r, wants, may)
         /\ Clean(s) => Clean(r)
  BY DEF Same, Sound, Clean

\* data is in buf from `from` to `upto`.
CopiedTo(r, s, from, upto, data) ==
  /\ s.ok /\ 0 <= from /\ from < upto /\ upto <= Len(s.buf) /\ Len(data) = upto - from
  /\ Len(r.buf) = Len(s.buf)
  /\ \A k \in 1 .. Len(s.buf) : r.buf[k] = IF from < k /\ k <= upto THEN data[k - from] ELSE s.buf[k]

LEMMA CopySound ==
  ASSUME NEW first \in Int, NEW last \in Int, NEW fault \in Faults,
         NEW s \in Calls(first, last, fault),
         NEW from \in Int, NEW upto \in Int, NEW data \in Seq(Nat)
  PROVE  /\ Copy(s, from, upto, data) \in Calls(first, last, fault)
         /\ Same(Copy(s, from, upto, data), s)
         /\ Copy(s, from, upto, data).ok => CopiedTo(Copy(s, from, upto, data), s, from, upto, data)
<1> DEFINE r == Copy(s, from, upto, data)
<1>1. r \in Calls(first, last, fault)
  BY CopyType
<1>2. \A field \in {"medium", "cache", "missed", "ranges", "commands", "lost", "fault"} :
        r[field] = s[field]
  BY CopyType
<1>3. r.ok =>
        s.ok /\ 0 <= from /\ from < upto /\ upto <= Len(s.buf) /\ Len(data) = upto - from
  BY CopyType
<1>4. Len(r.buf) = Len(s.buf)
  BY CopyType
<1>5. r.ok => \A k \in 1 .. Len(s.buf) :
                r.buf[k] = IF from < k /\ k <= upto THEN data[k - from] ELSE s.buf[k]
  BY CopyType
<1> HIDE DEF r
<1>6. Same(r, s)
  BY <1>2 DEF Same
<1>7. r.ok => CopiedTo(r, s, from, upto, data)
  BY <1>3, <1>4, <1>5 DEF CopiedTo
<1> QED
  BY <1>1, <1>6, <1>7 DEF r

\* What a buffer holds of block b
Holds(r, a, b, wants) ==
  \A k \in 1 .. a.bytes, i \in 1 .. BlockSize :
    ByteOf(a.offset + k, b - a.start, i) => b \in r.lost \/ r.buf[k] = wants[b][i]

\* A read has filled its buffer.
Filled(r, a, wants) ==
  Len(r.buf) = a.bytes /\ \A b \in a.start .. a.end : Holds(r, a, b, wants)

LEMMA ReadyClean ==
  ASSUME NEW first \in Int, NEW last \in Int, NEW fault \in Faults,
         NEW s \in Calls(first, last, fault), NEW at \in Nat, NEW n \in Nat, Ready(s, at, n)
  PROVE  \A b \in at .. at + n - 1 : ~DirtyIn(s.cache, b)
<1>1. CASE Clean(s)
  BY <1>1 DEF Clean, DirtyIn
<1>2. CASE n = 1 /\ ~Has(s.cache, at)
  <2>1. \A i \in 1 .. Len(s.cache) : s.cache[i].block # at
    BY <1>2, CallType, FindType
  <2> QED
    BY <1>2, <2>1 DEF DirtyIn
<1> QED
  BY <1>1, <1>2 DEF Ready

\* A range that begins with the access is cached as the medium holds it.
LEMMA FillSound ==
  ASSUME NEW a \in Spans, NEW fault \in Faults, NEW s \in Calls(a.start, a.end, fault), s.ok,
         NEW upto \in a.start + 1 .. a.end + 1, upto - a.start <= CacheSize, upto - a.start <= 2,
         NEW wants, NEW may, Sound(s, wants, may), Ready(s, a.start, upto - a.start)
  PROVE  /\ Fill(s, a, <<a.start, upto>>) \in Calls(a.start, a.end, fault)
         /\ Sound(Fill(s, a, <<a.start, upto>>), wants, may)
         /\ Clean(s) => Clean(Fill(s, a, <<a.start, upto>>))
         /\ Like(Fill(s, a, <<a.start, upto>>), s)
<1> DEFINE n == upto - a.start
           data == ReadBlocks(s, a.start, n)
           full == Len(data)
           kept == Slice(data, full - n * BlockSize, full)
           r == Chunks(s, a.start, data, n)[n]
<1>1. /\ a.start \in Nat /\ a.end \in Nat /\ a.end <= LastLba /\ a.start \in Int /\ a.end \in Int
  BY SpansType
<1>2. n \in Nat \ {0} /\ n <= CacheSize /\ a.start + n <= LastLba + 1
  BY <1>1, SizesType
<1>3. Fill(s, a, <<a.start, upto>>) = Chunks(s, a.start, kept, n)[n]
  <2>1. Counted(upto - a.start) = n
    BY <1>2, CountedType
  <2> QED
    BY <1>2, <2>1, SizesType DEF Fill
<1>4. Ready(s, a.start, n)
  OBVIOUS
<1> HIDE DEF n
<1>5. data \in Seq(Nat) /\ full = n * BlockSize
  BY <1>1, <1>2, ReadBlocksType
<1>6. \A i \in 1 .. n : Slice(data, (i - 1) * BlockSize, i * BlockSize) = s.medium[a.start + i - 1]
  BY <1>1, <1>2, ReadChunk
<1> HIDE DEF data
<1>7. kept = data
  <2>1. full \in Nat /\ full - n * BlockSize = 0
    BY <1>2, <1>5, WholeBytes
  <2>2. kept = SubSeq(data, 1, full)
    BY <2>1 DEF Slice
  <2>3. \A i \in 1 .. full : data[i] \in Nat
    BY <1>5, ElementOfSeq
  <2>4. \A i \in 1 .. Len(data) : data[i] = data[i]
    OBVIOUS
  <2>5. 1 \in 1 .. full + 1 /\ full \in 1 - 1 .. full /\ full - 1 + 1 = full
    BY <2>1
  <2>6. /\ SubSeq(data, 1, full) \in Seq(Nat) /\ Len(SubSeq(data, 1, full)) = full
        /\ \A i \in 1 .. full : SubSeq(data, 1, full)[i] = data[i]
    <3> DEFINE some == SubSeq(data, 1, full)
    <3>1. /\ some \in Seq(Nat) /\ Len(some) = full - 1 + 1
          /\ \A i \in 1 .. full - 1 + 1 : some[i] = data[1 + i - 1]
      BY <1>5, <2>5, PartType
    <3>2. \A i \in 1 .. full : 1 + i - 1 = i
      OBVIOUS
    <3> HIDE DEF some
    <3> QED
      BY <2>5, <3>1, <3>2 DEF some
  <2> QED
    BY <1>5, <2>2, <2>6, SeqEqual
<1> HIDE DEF kept, full
<1>8. Len(data) = n * BlockSize
  BY <1>5 DEF full
<1>9. /\ r \in Calls(a.start, a.end, fault) /\ Sound(r, wants, may)
      /\ Clean(s) => Clean(r)
      /\ Like(r, s)
  BY <1>1, <1>2, <1>4, <1>5, <1>6, <1>8, ChunksSound
<1> QED
  BY <1>3, <1>7, <1>9

\* data holds what is expected of n blocks from `at`.
Meant(data, at, n, gone, wants) ==
  \A c \in 0 .. n - 1, i \in 1 .. BlockSize, j \in Nat :
    ByteOf(j, c, i) => at + c \in gone \/ data[j] = wants[at + c][i]

LEMMA ReadMeant ==
  ASSUME NEW first \in Int, NEW last \in Int, NEW fault \in Faults,
         NEW s \in Calls(first, last, fault), NEW at \in Nat, NEW n \in Nat, at + n <= LastLba,
         Ready(s, at, n), NEW wants, NEW may, Sound(s, wants, may)
  PROVE  Meant(ReadBlocks(s, at, n), at, n, s.lost, wants)
<1> DEFINE data == ReadBlocks(s, at, n)
<1>1. SUFFICES ASSUME NEW c \in 0 .. n - 1, NEW i \in 1 .. BlockSize, NEW j \in Nat, ByteOf(j, c, i)
               PROVE  at + c \in s.lost \/ data[j] = wants[at + c][i]
  BY DEF Meant
<1>2. data[j] = s.medium[at + c][i]
  BY <1>1, ReadBlocksAt
<1> HIDE DEF data
<1>3. at + c \in Inside /\ at + c \in at .. at + n - 1
  BY SizesType DEF Inside
<1>4. ~DirtyIn(s.cache, at + c)
  BY <1>3, ReadyClean
<1>5. at + c \in s.lost \/ s.medium[at + c] = wants[at + c]
  BY <1>3, <1>4 DEF Sound, SoundIn, BlockSound
<1> QED
  BY <1>2, <1>5

\* The copy of a whole access fills the buffer.
LEMMA WholeFilled ==
  ASSUME NEW a \in Spans, NEW fault \in Faults, NEW s \in Calls(a.start, a.end, fault),
         NEW data \in Seq(Nat), Len(data) = a.num * BlockSize, NEW wants,
         Meant(data, a.start, a.num, s.lost, wants), NEW top \in Nat, top = a.offset + a.bytes,
         Copy(s, 0, Len(s.buf), Slice(data, a.offset, top)).ok
  PROVE  Filled(Copy(s, 0, Len(s.buf), Slice(data, a.offset, top)), a, wants)
<1> DEFINE full == Len(s.buf)
           some == Slice(data, a.offset, top)
           r == Copy(s, 0, full, some)
<1>1. /\ a.start \in Nat /\ a.end \in Nat /\ a.num = a.end - a.start + 1 /\ a.start <= a.end
      /\ a.offset \in Nat /\ a.bytes \in Nat \ {0} /\ a.start \in Int /\ a.end \in Int
  <2>1. /\ a.start \in Nat /\ a.end \in Nat /\ a.num = a.end - a.start + 1 /\ a.start <= a.end
        /\ a.offset \in 0 .. BlockSize - 1 /\ a.bytes \in Nat \ {0}
    BY SpansType
  <2> QED
    BY <2>1
<1>2. a.offset <= top /\ top <= Len(data) /\ top - a.offset = a.bytes
  <2> DEFINE n == a.num
             whole == (n - 1) * BlockSize
             all == n * BlockSize
  <2>1. a.offset + a.bytes = whole + a.offsetEnd /\ a.offsetEnd \in 1 .. BlockSize /\ n \in Nat \ {0}
    BY SpansType
  <2>2. whole + BlockSize = all /\ whole \in Nat
    <3>1. n \in Nat /\ n - 1 \in Nat /\ 1 \in Nat
      BY <2>1
    <3> HIDE DEF n
    <3>2. whole \in Nat
      BY <3>1, WholeBytes
    <3>3. whole + BlockSize = all
      BY <3>1, SizesType
    <3> QED
      BY <3>2, <3>3
  <2>3. Len(data) = all
    OBVIOUS
  <2> HIDE DEF whole, all
  <2>4. a.offsetEnd \in Nat /\ a.offsetEnd <= BlockSize /\ BlockSize \in Nat
    BY <2>1, SizesType
  <2>5. top = whole + a.offsetEnd
    BY <2>1
  <2>6. top <= all
    BY <2>2, <2>4, <2>5
  <2>7. a.offset <= top /\ top - a.offset = a.bytes
    BY <1>1
  <2> QED
    BY <2>3, <2>6, <2>7
<1>3. some \in Seq(Nat) /\ Len(some) = a.bytes
  BY <1>1, <1>2, SliceType
<1>4. \A k \in 1 .. a.bytes : some[k] = data[a.offset + k]
  <2>1. \A k \in 1 .. top - a.offset : some[k] = data[a.offset + k]
    BY <1>1, <1>2, SliceType
  <2> QED
    BY <1>2, <2>1
<1>5. full \in Nat /\ 0 \in Int /\ full \in Int
  <2>1. s.buf \in Seq(Nat)
    BY <1>1, CallType
  <2> QED
    BY <2>1, LenProperties
<1>6. r.ok
  OBVIOUS
<1> HIDE DEF some
<1>7. Same(r, s) /\ CopiedTo(r, s, 0, full, some)
  BY <1>1, <1>3, <1>5, <1>6, CopySound
<1> HIDE DEF r
<1>8. Len(r.buf) = full /\ full = a.bytes /\ r.lost = s.lost
  BY <1>3, <1>5, <1>7 DEF CopiedTo, Same
<1>9. \A k \in 1 .. a.bytes : r.buf[k] = data[a.offset + k]
  <2>1. \A k \in 1 .. full : r.buf[k] = IF 0 < k /\ k <= full THEN some[k - 0] ELSE s.buf[k]
    BY <1>7 DEF CopiedTo
  <2>2. \A k \in 1 .. full : r.buf[k] = some[k]
    BY <1>5, <2>1
  <2> QED
    BY <1>4, <1>8, <2>2
<1>10. ASSUME NEW b \in a.start .. a.end PROVE Holds(r, a, b, wants)
  <2> SUFFICES ASSUME NEW k \in 1 .. a.bytes, NEW i \in 1 .. BlockSize,
                      ByteOf(a.offset + k, b - a.start, i)
               PROVE  b \in r.lost \/ r.buf[k] = wants[b][i]
    BY DEF Holds
  <2> DEFINE c == b - a.start
             j == a.offset + k
  <2>1. c \in 0 .. a.num - 1 /\ j \in Nat /\ a.start + c = b /\ ByteOf(j, c, i)
    <3>1. c \in 0 .. a.num - 1 /\ a.start + c = b
      BY <1>1
    <3>2. j \in Nat
      BY <1>1
    <3>3. ByteOf(j, c, i)
      OBVIOUS
    <3> QED
      BY <3>1, <3>2, <3>3
  <2> HIDE DEF c
  <2>2. r.buf[k] = data[j]
    BY <1>9
  <2> HIDE DEF j
  <2>3. a.start + c \in s.lost \/ data[j] = wants[a.start + c][i]
    BY <2>1 DEF Meant
  <2> QED
    BY <1>8, <2>1, <2>2, <2>3
<1>11. Filled(r, a, wants)
  BY <1>8, <1>10 DEF Filled
<1> QED
  BY <1>11 DEF r, some

\* The medium is as it was.
Unwritten(r, s) == r.medium = s.medium /\ r.lost = s.lost

\* SendRead reads nothing into a state.
LEMMA SendReadSame ==
  ASSUME NEW first \in Int, NEW last \in Int, NEW fault \in Faults,
         NEW s \in Calls(first, last, fault), NEW at, NEW n
  PROVE  /\ Same(SendRead(s), s) /\ SendRead(s).buf = s.buf
         /\ SendRead(s).ok => s.ok
         /\ Ready(s, at, n) => Ready(SendRead(s), at, n)
<1> DEFINE r == SendRead(s)
<1>1. Same(r, s) /\ r.buf = s.buf /\ (r.ok => s.ok)
  BY DEF SendRead, Calls, Same
<1> HIDE DEF r
<1>2. Ready(s, at, n) => Ready(r, at, n)
  BY <1>1 DEF Same, Ready, Clean
<1> QED
  BY <1>1, <1>2 DEF r

\* A range that begins with the access
LEMMA FirstRange ==
  ASSUME NEW a \in Spans, NEW fault \in Faults, NEW s \in Calls(a.start, a.end, fault), s.ok,
         a.end < LastLba,
         NEW upto \in a.start + 1 .. a.end + 1, upto - a.start <= CacheSize, upto - a.start <= 2,
         NEW wants, NEW may, Sound(s, wants, may), Ready(s, a.start, upto - a.start)
  PROVE  /\ ReadRange(s, a, <<a.start, upto>>) \in Calls(a.start, a.end, fault)
         /\ Unwritten(ReadRange(s, a, <<a.start, upto>>), s)
         /\ ReadRange(s, a, <<a.start, upto>>).ok =>
              /\ Sound(ReadRange(s, a, <<a.start, upto>>), wants, may)
              /\ Clean(s) => Clean(ReadRange(s, a, <<a.start, upto>>))
              /\ upto = a.end + 1 => Filled(ReadRange(s, a, <<a.start, upto>>), a, wants)
<1> DEFINE S == Calls(a.start, a.end, fault)
           range == <<a.start, upto>>
           n == upto - a.start
           data == ReadBlocks(s, a.start, n)
           head == BlockSize - a.offset
           whole == (a.num - 1) * BlockSize
           until == head + (upto - a.start - 1) * BlockSize
           top == whole + a.offsetEnd
           to(t, i, j, bytes) == IF t.ok THEN Copy(t, i, j, bytes) ELSE t
           sent == SendRead(s)
           filled == IF sent.ok THEN Fill(sent, a, range) ELSE sent
           r == IF upto = a.end + 1
                THEN to(filled, 0, Len(s.buf), Slice(data, a.offset, top))
                ELSE to(filled, 0, until, Slice(data, a.offset, whole))
<1>1. ReadRange(s, a, range) = r
  <2>1. n \in {1, 2}
    <3>1. a.start \in Nat /\ a.end \in Nat
      BY SpansType
    <3>2. upto \in Int /\ upto >= a.start + 1 /\ upto - a.start <= 2
      BY <3>1
    <3> QED
      BY <3>1, <3>2
  <2>2. Counted(n) = n
    BY <2>1, CountedType
  <2> QED
    BY <2>2 DEF ReadRange
<1>2. /\ a.start \in Nat /\ a.end \in Nat /\ a.end <= LastLba /\ a.start \in Int /\ a.end \in Int
      /\ a.offset \in Nat /\ a.bytes \in Nat /\ a.offsetEnd \in Nat
      /\ a.num \in Nat /\ a.num - 1 \in Nat /\ a.num = a.end - a.start + 1
      /\ a.offset + a.bytes = whole + a.offsetEnd /\ whole \in Nat
  <2>1. /\ a.start \in Nat /\ a.end \in Nat /\ a.end <= LastLba
        /\ a.offset \in 0 .. BlockSize - 1 /\ a.bytes \in Nat \ {0} /\ a.offsetEnd \in 1 .. BlockSize
        /\ a.num \in Nat \ {0} /\ a.num = a.end - a.start + 1
        /\ a.offset + a.bytes = whole + a.offsetEnd
    BY SpansType
  <2>2. a.num - 1 \in Nat
    BY <2>1
  <2>3. whole \in Nat
    BY <2>2, WholeBytes
  <2> HIDE DEF whole
  <2> QED
    BY <2>1, <2>2, <2>3, SizesType
<1>3. top \in Nat /\ top = a.offset + a.bytes
  BY <1>2
<1>4. n \in Nat \ {0} /\ a.start + n <= LastLba /\ a.start + n <= LastLba + 1
  BY <1>2, SizesType
<1>5. n = upto - a.start
  OBVIOUS
<1> HIDE DEF n, whole, top
<1>6. data \in Seq(Nat) /\ Len(data) = n * BlockSize
  <2> DEFINE at == a.start
  <2>1. at \in Nat /\ n \in Nat /\ at + n <= LastLba + 1
    BY <1>2, <1>4
  <2>2. at = a.start
    OBVIOUS
  <2> HIDE DEF at
  <2>3. a.start \in Int /\ a.end \in Int
    BY <1>2
  <2>4. ReadBlocks(s, at, n) \in Seq(Nat)
    BY <2>1, <2>3, ReadBlocksType
  <2>5. Len(ReadBlocks(s, at, n)) = n * BlockSize
    BY <2>1, <2>3, ReadBlocksType
  <2> QED
    BY <2>2, <2>4, <2>5
<1>7. Meant(data, a.start, n, s.lost, wants)
  BY <1>2, <1>4, <1>5, ReadMeant
<1> HIDE DEF data
<1>8. /\ sent \in S /\ Same(sent, s) /\ sent.buf = s.buf
      /\ Sound(sent, wants, may) /\ Ready(sent, a.start, upto - a.start)
      /\ Clean(s) => Clean(sent)
  <2>1. sent \in S
    BY <1>2, SendReadType
  <2>2. Same(sent, s) /\ sent.buf = s.buf
    BY <1>2, SendReadSame
  <2>3. Ready(sent, a.start, upto - a.start)
    BY <1>2, SendReadSame
  <2> HIDE DEF sent
  <2> QED
    BY <2>1, <2>2, <2>3, SameSound
<1> HIDE DEF sent
<1>9. /\ filled \in S /\ Unwritten(filled, s) /\ Sound(filled, wants, may)
      /\ Clean(s) => Clean(filled)
      /\ filled.buf = s.buf
  <2>1. CASE sent.ok
    <3>1. /\ Fill(sent, a, range) \in S /\ Sound(Fill(sent, a, range), wants, may)
          /\ Clean(sent) => Clean(Fill(sent, a, range))
          /\ Like(Fill(sent, a, range), sent)
      BY <1>8, <2>1, FillSound
    <3> QED
      BY <1>8, <2>1, <3>1 DEF Like, Same, Unwritten
  <2>2. CASE ~sent.ok
    BY <1>8, <2>2 DEF Same, Unwritten
  <2> QED
    BY <2>1, <2>2
<1> HIDE DEF filled
<1>10. CASE ~filled.ok
  <2>1. r = filled
    BY <1>10
  <2> QED
    BY <1>1, <1>9, <1>10, <2>1
<1>11. CASE filled.ok /\ upto = a.end + 1
  <2> DEFINE some == Slice(data, a.offset, top)
             copy == Copy(filled, 0, Len(filled.buf), some)
  <2>1. r = copy
    BY <1>9, <1>11
  <2>2. some \in Seq(Nat)
    BY <1>2, <1>3, <1>6, SliceType
  <2>3. Len(filled.buf) \in Int /\ 0 \in Int
    <3>1. filled.buf \in Seq(Nat)
      BY <1>2, <1>9, CallType
    <3> QED
      BY <3>1, LenProperties
  <2>4. copy \in S /\ Same(copy, filled)
    <3> HIDE DEF some
    <3> QED
      BY <1>2, <1>9, <2>2, <2>3, CopySound
  <2>5. Sound(copy, wants, may) /\ (Clean(s) => Clean(copy)) /\ Unwritten(copy, s)
    <3> HIDE DEF copy
    <3> QED
      BY <1>9, <2>4, SameSound DEF Same, Unwritten
  <2>6. ASSUME copy.ok PROVE Filled(copy, a, wants)
    <3>1. n = a.num
      BY <1>2, <1>5, <1>11
    <3>2. Len(data) = a.num * BlockSize
      BY <1>6, <3>1
    <3>3. Meant(data, a.start, a.num, filled.lost, wants)
      BY <1>7, <1>9, <3>1 DEF Unwritten
    <3> QED
      BY <1>3, <1>6, <1>9, <2>6, <3>2, <3>3, WholeFilled
  <2> HIDE DEF copy
  <2> QED
    BY <1>1, <2>1, <2>4, <2>5, <2>6
<1>12. CASE filled.ok /\ upto # a.end + 1
  <2> DEFINE some == Slice(data, a.offset, whole)
             copy == Copy(filled, 0, until, some)
  <2>1. r = copy
    BY <1>12
  <2>2. some \in Seq(Nat)
    BY <1>2, <1>6, SliceType
  <2>3. until \in Int /\ 0 \in Int
    <3> DEFINE k == upto - a.start - 1
               kb == k * BlockSize
    <3>1. k \in Nat /\ head \in Int
      BY <1>2, SizesType
    <3> HIDE DEF k
    <3>2. kb \in Nat
      BY <3>1, WholeBytes
    <3>3. until = head + kb
      BY DEF k
    <3> HIDE DEF kb, head, until
    <3> QED
      BY <3>1, <3>2, <3>3
  <2>4. copy \in S /\ Same(copy, filled)
    <3> HIDE DEF some, until
    <3> QED
      BY <1>2, <1>9, <2>2, <2>3, CopySound
  <2>5. Sound(copy, wants, may) /\ (Clean(s) => Clean(copy)) /\ Unwritten(copy, s)
    <3> HIDE DEF copy
    <3> QED
      BY <1>9, <2>4, SameSound DEF Same, Unwritten
  <2> HIDE DEF copy
  <2> QED
    BY <1>1, <1>12, <2>1, <2>4, <2>5
<1> HIDE DEF r
<1> QED
  BY <1>10, <1>11, <1>12

\* The bytes of block b in an access are those from `from` to `upto` of its buffer,
\* and those of the block that come after `lo`.
Place(a, b, from, upto, lo) ==
  /\ \A k \in 1 .. a.bytes, i \in 1 .. BlockSize :
       ByteOf(a.offset + k, b - a.start, i) => from < k /\ k <= upto /\ lo + (k - from) = i
  /\ \A c \in a.start .. a.end, k \in 1 .. a.bytes, i \in 1 .. BlockSize :
       c # b /\ ByteOf(a.offset + k, c - a.start, i) => ~(from < k /\ k <= upto)

\* What a hit leaves of the buffer: block b is there, and what was there of others.
Placed(r, s, a, b, wants) ==
  /\ Len(r.buf) = Len(s.buf)
  /\ Holds(r, a, b, wants)
  /\ \A c \in a.start .. a.end : c # b /\ Holds(s, a, c, wants) => Holds(r, a, c, wants)

LEMMA HitPlaced ==
  ASSUME NEW a \in Spans, NEW fault \in Faults, NEW s \in Calls(a.start, a.end, fault),
         NEW b \in a.start .. a.end, a.bytes <= Len(s.buf), NEW data \in Data, NEW wants,
         b \in s.lost \/ data = wants[b],
         NEW from \in Int, NEW upto \in Int, NEW lo \in Nat, NEW hi \in Nat,
         lo <= hi, hi <= BlockSize, Place(a, b, from, upto, lo),
         Copy(s, from, upto, Slice(data, lo, hi)).ok
  PROVE  /\ Placed(Copy(s, from, upto, Slice(data, lo, hi)), s, a, b, wants)
         /\ hi - lo = upto - from
<1> DEFINE some == Slice(data, lo, hi)
           r == Copy(s, from, upto, some)
           n == Len(s.buf)
<1>1. a.start \in Int /\ a.end \in Int /\ a.bytes \in Nat /\ s.buf \in Seq(Nat) /\ n \in Nat
  <2>1. a.start \in Int /\ a.end \in Int /\ a.bytes \in Nat
    BY SpansType
  <2>2. s.buf \in Seq(Nat)
    BY <2>1, CallType
  <2> QED
    BY <2>1, <2>2, LenProperties
<1>2. /\ some \in Seq(Nat) /\ Len(some) = hi - lo
      /\ \A i \in 1 .. hi - lo : some[i] = data[lo + i]
  <2>1. data \in Seq(Nat) /\ hi <= Len(data)
    BY DEF Data
  <2> QED
    BY <2>1, SliceType
<1>3. r.ok
  OBVIOUS
<1> HIDE DEF some
<1>4. Same(r, s) /\ CopiedTo(r, s, from, upto, some)
  BY <1>1, <1>2, <1>3, CopySound
<1> HIDE DEF r
<1>5. /\ Len(r.buf) = n /\ Len(some) = upto - from /\ upto <= n /\ r.lost = s.lost /\ 0 <= from
      /\ \A k \in 1 .. n : r.buf[k] = IF from < k /\ k <= upto THEN some[k - from] ELSE s.buf[k]
  BY <1>4 DEF CopiedTo, Same
<1>6. Holds(r, a, b, wants)
  <2> SUFFICES ASSUME NEW k \in 1 .. a.bytes, NEW i \in 1 .. BlockSize,
                      ByteOf(a.offset + k, b - a.start, i)
               PROVE  b \in r.lost \/ r.buf[k] = wants[b][i]
    BY DEF Holds
  <2>1. from < k /\ k <= upto /\ lo + (k - from) = i
    BY DEF Place
  <2>2. k \in 1 .. n
    BY <1>1
  <2>3. r.buf[k] = some[k - from]
    BY <1>5, <2>1, <2>2
  <2>4. k - from \in 1 .. hi - lo
    BY <1>1, <1>2, <1>5, <2>1
  <2>5. some[k - from] = data[lo + (k - from)]
    BY <1>2, <2>4
  <2> QED
    BY <1>5, <2>1, <2>3, <2>5
<1>7. ASSUME NEW c \in a.start .. a.end, c # b, Holds(s, a, c, wants) PROVE Holds(r, a, c, wants)
  <2> SUFFICES ASSUME NEW k \in 1 .. a.bytes, NEW i \in 1 .. BlockSize,
                      ByteOf(a.offset + k, c - a.start, i)
               PROVE  c \in r.lost \/ r.buf[k] = wants[c][i]
    BY DEF Holds
  <2>1. ~(from < k /\ k <= upto)
    BY <1>7 DEF Place
  <2>2. k \in 1 .. n
    BY <1>1
  <2>3. r.buf[k] = s.buf[k]
    BY <1>5, <2>1, <2>2
  <2>4. c \in s.lost \/ s.buf[k] = wants[c][i]
    BY <1>7 DEF Holds
  <2> QED
    BY <1>5, <2>3, <2>4
<1>8. Placed(r, s, a, b, wants) /\ hi - lo = upto - from
  BY <1>2, <1>5, <1>6, <1>7 DEF Placed
<1> QED
  BY <1>8 DEF r, some

\* An access of one block, or of two
LEMMA OneBlock ==
  ASSUME NEW a \in Spans, a.num = 1
  PROVE  /\ a.end = a.start /\ a.offset + a.bytes = a.offsetEnd
         /\ Place(a, a.start, 0, a.bytes, a.offset)
<1>1. /\ a.start \in Nat /\ a.end \in Nat /\ a.num = a.end - a.start + 1
      /\ a.offset \in 0 .. BlockSize - 1 /\ a.bytes \in Nat
      /\ a.offset + a.bytes = ((a.num - 1) * BlockSize) + a.offsetEnd
      /\ a.offsetEnd \in 1 .. BlockSize
  BY SpansType
<1>2. 0 * BlockSize = 0 /\ BlockSize \in Nat
  BY SizesType
<1>3. a.end = a.start /\ a.offset + a.bytes = a.offsetEnd
  BY <1>1, <1>2
<1>4. a.start - a.start = 0
  BY <1>1
<1>5. ASSUME NEW k \in 1 .. a.bytes, NEW i \in 1 .. BlockSize, ByteOf(a.offset + k, 0, i)
      PROVE  0 < k /\ k <= a.bytes /\ a.offset + (k - 0) = i
  <2>1. a.offset + k = i
    BY <1>2, <1>5 DEF ByteOf
  <2> QED
    BY <1>1, <2>1
<1>6. \A c \in a.start .. a.end : c = a.start
  BY <1>1, <1>3
<1>7. Place(a, a.start, 0, a.bytes, a.offset)
  BY <1>4, <1>5, <1>6 DEF Place
<1> QED
  BY <1>3, <1>7

LEMMA TwoBlocks ==
  ASSUME NEW a \in Spans, a.num = 2
  PROVE  /\ a.end = a.start + 1 /\ a.offset + a.bytes = BlockSize + a.offsetEnd
         /\ Place(a, a.start, 0, BlockSize - a.offset, a.offset)
         /\ Place(a, a.end, BlockSize - a.offset, a.bytes, 0)
<1>1. /\ a.start \in Nat /\ a.end \in Nat /\ a.num = a.end - a.start + 1
      /\ a.offset \in 0 .. BlockSize - 1 /\ a.bytes \in Nat
      /\ a.offset + a.bytes = ((a.num - 1) * BlockSize) + a.offsetEnd
      /\ a.offsetEnd \in 1 .. BlockSize
  BY SpansType
<1>2. 0 * BlockSize = 0 /\ 1 * BlockSize = BlockSize /\ BlockSize \in Nat
  BY SizesType
<1>3. a.end = a.start + 1 /\ a.offset + a.bytes = BlockSize + a.offsetEnd
  BY <1>1, <1>2
<1>4. a.start - a.start = 0 /\ a.end - a.start = 1
  BY <1>1, <1>3
<1>5. ASSUME NEW k \in 1 .. a.bytes, NEW i \in 1 .. BlockSize, ByteOf(a.offset + k, 0, i)
      PROVE  /\ 0 < k /\ k <= BlockSize - a.offset /\ a.offset + (k - 0) = i
             /\ ~(BlockSize - a.offset < k /\ k <= a.bytes)
  <2>1. a.offset + k = i
    BY <1>2, <1>5 DEF ByteOf
  <2> QED
    BY <1>1, <1>2, <2>1
<1>6. ASSUME NEW k \in 1 .. a.bytes, NEW i \in 1 .. BlockSize, ByteOf(a.offset + k, 1, i)
      PROVE  /\ BlockSize - a.offset < k /\ k <= a.bytes /\ 0 + (k - (BlockSize - a.offset)) = i
             /\ ~(0 < k /\ k <= BlockSize - a.offset)
  <2>1. a.offset + k = BlockSize + i
    BY <1>2, <1>6 DEF ByteOf
  <2> QED
    BY <1>1, <1>2, <2>1
<1>7. \A c \in a.start .. a.end : c = a.start \/ c = a.end
  <2> DEFINE b == a.start
  <2>1. b \in Nat /\ \A c \in b .. b + 1 : c = b \/ c = b + 1
    BY <1>1
  <2> QED
    BY <1>3, <2>1
<1>8. Place(a, a.start, 0, BlockSize - a.offset, a.offset)
  <2>1. \A c \in a.start .. a.end : c # a.start => c - a.start = 1
    BY <1>4, <1>7
  <2> QED
    BY <1>4, <1>5, <1>6, <2>1 DEF Place
<1>9. Place(a, a.end, BlockSize - a.offset, a.bytes, 0)
  <2>1. \A c \in a.start .. a.end : c # a.end => c - a.start = 0
    BY <1>4, <1>7
  <2> QED
    BY <1>4, <1>5, <1>6, <2>1 DEF Place
<1> QED
  BY <1>3, <1>8, <1>9

\* A hit of a read of one block or two
LEMMA HitSound ==
  ASSUME NEW a \in Spans, a.num <= 2, a.end < LastLba, NEW fault \in Faults,
         NEW s \in Calls(a.start, a.end, fault), s.ok, NEW b \in a.start .. a.end,
         Has(s.cache, b), a.bytes <= Len(s.buf),
         NEW wants, NEW may, Sound(s, wants, may)
  PROVE  /\ HitCopy(Used(s, b), a, b) \in Calls(a.start, a.end, fault)
         /\ Unwritten(HitCopy(Used(s, b), a, b), s)
         /\ Sound(HitCopy(Used(s, b), a, b), wants, may)
         /\ Clean(s) => Clean(HitCopy(Used(s, b), a, b))
         /\ \A c : Has(HitCopy(Used(s, b), a, b).cache, c) <=> Has(s.cache, c)
         /\ HitCopy(Used(s, b), a, b).ok =>
              /\ Placed(HitCopy(Used(s, b), a, b), s, a, b, wants)
              /\ b = a.end => Len(s.buf) = a.bytes
<1> DEFINE S == Calls(a.start, a.end, fault)
           used == Used(s, b)
           data == used.cache[1].data
           full == Len(used.buf)
           r == HitCopy(used, a, b)
<1>1. /\ a.start \in Nat /\ a.end \in Nat /\ a.start \in Int /\ a.end \in Int
      /\ a.num = a.end - a.start + 1 /\ a.num \in Nat \ {0} /\ a.start <= a.end
      /\ a.offset \in 0 .. BlockSize - 1 /\ a.offsetEnd \in 1 .. BlockSize /\ a.bytes \in Nat
  BY SpansType
<1>2. /\ used \in S /\ Len(used.cache) \in Nat \ {0} /\ used.cache[1].block = b
      /\ Same([used EXCEPT !.cache = s.cache], s) /\ used.buf = s.buf /\ used.ok
      /\ Unwritten(used, s)
  <2>1. used \in S /\ Len(used.cache) = Len(s.cache) /\ Len(s.cache) \in Nat \ {0}
        /\ used.cache[1].block = b
    BY <1>1, UsedType
  <2>2. \A field \in {"medium", "ok", "missed", "ranges", "buf", "commands", "lost", "fault"} :
          used[field] = s[field]
    BY <1>1, UsedType
  <2> HIDE DEF used
  <2>3. used.buf = s.buf /\ used.ok /\ used.medium = s.medium /\ used.lost = s.lost
    BY <2>2
  <2>4. Same([used EXCEPT !.cache = s.cache], s)
    BY <2>1, <2>3 DEF Same, Calls
  <2> QED
    BY <2>1, <2>3, <2>4 DEF Unwritten
<1>3. /\ Sound(used, wants, may)
      /\ Clean(s) => Clean(used)
      /\ \A c : Has(used.cache, c) <=> Has(s.cache, c)
  BY <1>1, UsedSound
<1> HIDE DEF used
<1>4. r \in S /\ Same(r, used)
  <2>1. r \in S
    BY <1>2, HitCopyType
  <2>2. \A field \in {"medium", "cache", "missed", "ranges", "commands", "lost", "fault"} :
          r[field] = used[field]
    BY <1>2, HitCopyType
  <2> HIDE DEF r
  <2> QED
    BY <2>1, <2>2 DEF Same
<1>5. data \in Data /\ (b \in used.lost \/ data = wants[b])
  <2>1. 1 \in 1 .. Len(used.cache)
    BY <1>2
  <2>2. data \in Data
    <3>1. used.cache \in Caches
      BY <1>1, <1>2, CallType
    <3> QED
      BY <2>1, <3>1, EntriesType
  <2>3. EntrySound(used.cache[1], used.medium, used.lost, wants, may)
    BY <1>3, <2>1 DEF Sound, SoundIn
  <2>4. b \in Inside
    BY <1>1, SizesType DEF Inside
  <2> QED
    BY <1>2, <2>2, <2>3, <2>4 DEF EntrySound
<1>6. full \in Nat /\ full \in Int /\ 0 \in Int /\ 0 \in Nat /\ BlockSize \in Nat
  <2>1. used.buf \in Seq(Nat)
    BY <1>1, <1>2, CallType
  <2> QED
    BY <2>1, LenProperties, SizesType
<1>7. a.bytes <= full
  BY <1>2
<1> HIDE DEF data
<1>8. ASSUME r.ok PROVE Placed(r, used, a, b, wants) /\ (b = a.end => full = a.bytes)
  <2>1. CASE a.num = 1
    <3>1. a.end = a.start /\ b = a.start /\ a.offset + a.bytes = a.offsetEnd
      <4>1. a.end = a.start /\ a.offset + a.bytes = a.offsetEnd
        BY <2>1, OneBlock
      <4> QED
        BY <1>1, <4>1
    <3>2. r = Copy(used, 0, full, Slice(data, a.offset, a.offsetEnd))
      BY <3>1 DEF HitCopy, data
    <3>3. full = a.bytes
      <4> DEFINE some == Slice(data, a.offset, a.offsetEnd)
      <4>1. some \in Seq(Nat) /\ Len(some) = a.offsetEnd - a.offset
        <5>1. a.offset \in Nat /\ a.offsetEnd \in Nat /\ a.offset <= a.offsetEnd
              /\ a.offsetEnd <= Len(data) /\ data \in Seq(Nat)
          BY <1>1, <1>5, <1>6, <3>1 DEF Data
        <5> QED
          BY <5>1, SliceType
      <4> DEFINE copy == Copy(used, 0, full, some)
      <4>2. copy.ok
        BY <1>8, <3>2
      <4> HIDE DEF some
      <4>3. Len(some) = full - 0
        <5>1. CopiedTo(copy, used, 0, full, some)
          BY <1>1, <1>2, <1>6, <4>1, <4>2, CopySound
        <5> QED
          BY <5>1 DEF CopiedTo
      <4> QED
        BY <1>1, <1>6, <3>1, <4>1, <4>3
    <3>4. Place(a, b, 0, full, a.offset)
      BY <2>1, <3>1, <3>3, OneBlock
    <3>5. a.offset \in Nat /\ a.offsetEnd \in Nat /\ a.offset <= a.offsetEnd /\ a.offsetEnd <= BlockSize
      BY <1>1, <1>6, <3>1
    <3>6. Copy(used, 0, full, Slice(data, a.offset, a.offsetEnd)).ok
      BY <1>8, <3>2
    <3> HIDE DEF full, r
    <3>7. a.bytes <= Len(used.buf)
      BY <1>7 DEF full
    <3>8. Placed(Copy(used, 0, full, Slice(data, a.offset, a.offsetEnd)), used, a, b, wants)
      BY <1>2, <1>5, <1>6, <3>4, <3>5, <3>6, <3>7, HitPlaced
    <3> QED
      BY <3>2, <3>3, <3>8
  <2>2. CASE a.num = 2 /\ b = a.start
    <3>1. b # a.end
      <4>1. a.end = a.start + 1
        BY <2>2, TwoBlocks
      <4> QED
        BY <1>1, <2>2, <4>1
    <3> DEFINE head == BlockSize - a.offset
    <3>2. r = Copy(used, 0, head, Slice(data, a.offset, BlockSize))
      BY <2>2, <3>1 DEF HitCopy, data
    <3>3. Place(a, b, 0, head, a.offset)
      BY <2>2, TwoBlocks
    <3>4. a.offset \in Nat /\ a.offset <= BlockSize /\ BlockSize <= BlockSize /\ head \in Int
      BY <1>1, <1>6
    <3>5. Copy(used, 0, head, Slice(data, a.offset, BlockSize)).ok
      BY <1>8, <3>2
    <3> HIDE DEF r, head
    <3>6. a.bytes <= Len(used.buf)
      BY <1>7
    <3>7. Placed(Copy(used, 0, head, Slice(data, a.offset, BlockSize)), used, a, b, wants)
      BY <1>2, <1>5, <1>6, <3>3, <3>4, <3>5, <3>6, HitPlaced
    <3> QED
      BY <3>1, <3>2, <3>7
  <2>3. CASE a.num = 2 /\ b # a.start
    <3>1. b = a.end /\ a.offset + a.bytes = BlockSize + a.offsetEnd
      <4>1. a.end = a.start + 1 /\ a.offset + a.bytes = BlockSize + a.offsetEnd
        BY <2>3, TwoBlocks
      <4> QED
        BY <1>1, <2>3, <4>1
    <3> DEFINE head == BlockSize - a.offset
               some == Slice(data, 0, a.offsetEnd)
    <3>2. r = Copy(used, head, full, some)
      <4>1. r = Copy(used, head + (a.num - 2) * BlockSize, full, some)
        BY <2>3, <3>1 DEF HitCopy, data
      <4>2. head + (a.num - 2) * BlockSize = head
        BY <1>1, <1>6, <2>3
      <4> QED
        BY <4>1, <4>2
    <3>3. head \in Int /\ a.offsetEnd \in Nat /\ 0 <= a.offsetEnd /\ a.offsetEnd <= BlockSize
      BY <1>1, <1>6
    <3>4. full = a.bytes
      <4>1. some \in Seq(Nat) /\ Len(some) = a.offsetEnd - 0
        <5>1. 0 \in Nat /\ a.offsetEnd <= Len(data) /\ data \in Seq(Nat)
          BY <1>5, <3>3 DEF Data
        <5> QED
          BY <3>3, <5>1, SliceType
      <4> DEFINE copy == Copy(used, head, full, some)
      <4>2. copy.ok
        BY <1>8, <3>2
      <4> HIDE DEF some, head
      <4>3. Len(some) = full - head
        <5>1. CopiedTo(copy, used, head, full, some)
          BY <1>1, <1>2, <1>6, <3>3, <4>1, <4>2, CopySound
        <5> QED
          BY <5>1 DEF CopiedTo
      <4> HIDE DEF full
      <4>4. full - (BlockSize - a.offset) = a.offsetEnd
        BY <1>1, <4>1, <4>3 DEF head
      <4>5. a.offset \in Nat /\ a.offsetEnd \in Nat
        BY <1>1, <1>6
      <4> QED
        BY <1>1, <1>6, <3>1, <4>4, <4>5
    <3>5. Place(a, b, head, full, 0)
      BY <2>3, <3>1, <3>4, TwoBlocks
    <3>6. Copy(used, head, full, some).ok
      BY <1>8, <3>2
    <3> HIDE DEF r, head, full
    <3>7. a.bytes <= Len(used.buf)
      BY <1>7 DEF full
    <3>8. Placed(Copy(used, head, full, some), used, a, b, wants)
      BY <1>2, <1>5, <1>6, <3>3, <3>5, <3>6, <3>7, HitPlaced
    <3> QED
      BY <3>2, <3>4, <3>8
  <2> QED
    BY <1>1, <2>1, <2>2, <2>3
<1> HIDE DEF r
<1>9. Sound(r, wants, may) /\ (Clean(s) => Clean(r))
  BY <1>3, <1>4, SameSound
<1>10. Unwritten(r, s) /\ \A c : Has(r.cache, c) <=> Has(s.cache, c)
  BY <1>2, <1>3, <1>4 DEF Same, Unwritten
<1>11. r.ok => Placed(r, s, a, b, wants) /\ (b = a.end => Len(s.buf) = a.bytes)
  BY <1>2, <1>8 DEF Placed, Holds, Unwritten
<1> QED
  BY <1>4, <1>9, <1>10, <1>11 DEF r, used

\* The second loop of read
Reading(s, a) ==
  LET ranges == IF s.missed = None THEN s.ranges
                ELSE Append(s.ranges, <<s.missed[1], a.end + 1>>)
  IN ReadRanges(s, a, ranges)[Len(ranges)]

LEMMA ReadingNone ==
  ASSUME NEW a \in Spans, NEW fault \in Faults, NEW s \in Calls(a.start, a.end, fault),
         s.missed = None, s.ranges = <<>>
  PROVE  Reading(s, a) = s
<1> DEFINE ranges == <<>>
<1>1. Reading(s, a) = ReadRanges(s, a, ranges)[Len(ranges)]
  BY DEF Reading
<1>2. ranges \in Ranges(a) /\ Len(ranges) = 0
  BY DEF Ranges
<1> HIDE DEF ranges
<1>3. ReadRanges(s, a, ranges)[0] = s
  BY <1>2, ReadRangesType
<1> QED
  BY <1>1, <1>2, <1>3

LEMMA ReadingOne ==
  ASSUME NEW a \in Spans, NEW fault \in Faults, NEW s \in Calls(a.start, a.end, fault),
         NEW m \in a.start .. a.end, s.missed = <<m>>, s.ranges = <<>>
  PROVE  Reading(s, a) = ReadRange(s, a, <<m, a.end + 1>>)
<1> DEFINE range == <<m, a.end + 1>>
           ranges == <<range>>
<1>1. Reading(s, a) = ReadRanges(s, a, ranges)[Len(ranges)]
  BY DEF Reading, None
<1>2. range \in (a.start .. a.end) \X (a.start .. a.end + 1) /\ range[1] < range[2]
  BY SpansType
<1> HIDE DEF range
<1>3. ranges \in Ranges(a) /\ Len(ranges) = 1 /\ ranges[1] = range
  BY <1>2 DEF Ranges
<1> HIDE DEF ranges
<1>4. ReadRanges(s, a, ranges)[0] = s
  BY <1>3, ReadRangesType
<1>5. \A i \in 1 .. Len(ranges) :
        ReadRanges(s, a, ranges)[i] = ReadRange(ReadRanges(s, a, ranges)[i - 1], a, ranges[i])
  BY <1>3, ReadRangesType
<1>6. 1 \in 1 .. Len(ranges) /\ 1 - 1 = 0
  BY <1>3
<1> QED
  BY <1>1, <1>3, <1>4, <1>5, <1>6 DEF range

LEMMA Appended ==
  ASSUME NEW x, NEW y
  PROVE  Append(<<x>>, y) = <<x, y>>
<1> DEFINE S == {x, y}
           p == Append(<<x>>, y)
           q == <<x, y>>
<1>1. <<x>> \in Seq(S) /\ Len(<<x>>) = 1 /\ y \in S /\ <<x>>[1] = x
  OBVIOUS
<1>2. q \in Seq(S) /\ Len(q) = 2 /\ q[1] = x /\ q[2] = y
  OBVIOUS
<1> HIDE DEF S, q
<1>3. /\ p \in Seq(S) /\ Len(p) = Len(<<x>>) + 1
      /\ \A i \in 1 .. Len(<<x>>) : p[i] = <<x>>[i]
      /\ p[Len(<<x>>) + 1] = y
  BY <1>1, AppendProperties
<1> HIDE DEF p
<1>4. Len(p) = 2 /\ p[1] = x /\ p[2] = y
  BY <1>1, <1>3
<1>5. \A i \in 1 .. 2 : p[i] = q[i]
  BY <1>2, <1>4
<1>6. p = q
  BY <1>2, <1>3, <1>4, <1>5, SeqEqual
<1> QED
  BY <1>6 DEF p, q

LEMMA ReadingTwo ==
  ASSUME NEW a \in Spans, NEW fault \in Faults, NEW s \in Calls(a.start, a.end, fault),
         a.start < a.end, s.missed = <<a.start>>, s.ranges = <<<<a.start, a.end>>>>
  PROVE  Reading(s, a) =
           ReadRange(ReadRange(s, a, <<a.start, a.end>>), a, <<a.start, a.end + 1>>)
<1> DEFINE range == <<a.start, a.end>>
           other == <<a.start, a.end + 1>>
           ranges == <<range, other>>
<1>1. Reading(s, a) = ReadRanges(s, a, ranges)[Len(ranges)]
  <2> DEFINE some == IF s.missed = None THEN s.ranges ELSE Append(s.ranges, <<s.missed[1], a.end + 1>>)
  <2>1. Reading(s, a) = ReadRanges(s, a, some)[Len(some)]
    BY DEF Reading
  <2>2. s.missed # None /\ s.missed[1] = a.start
    BY DEF None
  <2>3. some = Append(<<range>>, other)
    BY <2>2
  <2> HIDE DEF some, range, other
  <2>4. Append(<<range>>, other) = <<range, other>>
    BY Appended
  <2> QED
    BY <2>1, <2>3, <2>4
<1>2. /\ range \in (a.start .. a.end) \X (a.start .. a.end + 1) /\ range[1] < range[2]
      /\ other \in (a.start .. a.end) \X (a.start .. a.end + 1) /\ other[1] < other[2]
  BY SpansType
<1> HIDE DEF range, other
<1>3. ranges \in Ranges(a) /\ Len(ranges) = 2 /\ ranges[1] = range /\ ranges[2] = other
  BY <1>2 DEF Ranges
<1> HIDE DEF ranges
<1>4. ReadRanges(s, a, ranges)[0] = s
  BY <1>3, ReadRangesType
<1>5. \A i \in 1 .. Len(ranges) :
        ReadRanges(s, a, ranges)[i] = ReadRange(ReadRanges(s, a, ranges)[i - 1], a, ranges[i])
  BY <1>3, ReadRangesType
<1>6. 1 \in 1 .. Len(ranges) /\ 1 - 1 = 0 /\ 2 \in 1 .. Len(ranges) /\ 2 - 1 = 1
  BY <1>3
<1> QED
  BY <1>1, <1>3, <1>4, <1>5, <1>6 DEF range, other

\* A call that has panicked reads no more.
LEMMA ReadRangeStopped ==
  ASSUME NEW s, NEW a, NEW range, ~s.ok
  PROVE  ReadRange(s, a, range) = s
  BY DEF ReadRange

\* What a lookup leaves that misses
Miss(t, s, b) ==
  /\ Same(t, s) /\ t.ok /\ t.buf = s.buf
  /\ t.missed = IF s.missed = None THEN <<b>> ELSE s.missed
  /\ t.ranges = s.ranges

LEMMA LookupMiss ==
  ASSUME NEW a \in Spans, NEW fault \in Faults, NEW s \in Calls(a.start, a.end, fault), s.ok,
         NEW b, ~Has(s.cache, b)
  PROVE  Miss(Lookup(s, a, b), s, b)
<1> DEFINE missed == IF s.missed = None THEN <<b>> ELSE s.missed
           t == [s EXCEPT !.missed = missed]
<1>1. Lookup(s, a, b) = t
  BY DEF Lookup
<1> HIDE DEF missed
<1>2. Same(t, s) /\ t.ok /\ t.buf = s.buf /\ t.missed = missed /\ t.ranges = s.ranges
  BY DEF Calls, Same
<1> QED
  BY <1>1, <1>2 DEF missed, Miss

\* What a lookup of a block leaves that hits
Hit(t, s, a, b, wants, may) ==
  /\ Unwritten(t, s)
  /\ Sound(t, wants, may)
  /\ Clean(s) => Clean(t)
  /\ \A c : Has(t.cache, c) <=> Has(s.cache, c)
  /\ t.ok => Placed(t, s, a, b, wants) /\ (b = a.end => Len(s.buf) = a.bytes)
  /\ t.missed = s.missed
  /\ t.ranges = IF s.missed = None THEN s.ranges ELSE Append(s.ranges, <<s.missed[1], b>>)

LEMMA LookupHit ==
  ASSUME NEW a \in Spans, a.num <= 2, a.end < LastLba, NEW fault \in Faults,
         NEW s \in Calls(a.start, a.end, fault), s.ok, NEW b \in a.start .. a.end,
         Has(s.cache, b), a.bytes <= Len(s.buf),
         NEW wants, NEW may, Sound(s, wants, may)
  PROVE  Hit(Lookup(s, a, b), s, a, b, wants, may)
<1> DEFINE used == Used(s, b)
           hit == HitCopy(used, a, b)
           ranges == IF s.missed = None THEN hit.ranges ELSE Append(hit.ranges, <<s.missed[1], b>>)
           t == [hit EXCEPT !.ranges = ranges]
<1>1. Lookup(s, a, b) = t
  BY DEF Lookup
<1>2. /\ hit \in Calls(a.start, a.end, fault)
      /\ Unwritten(hit, s)
      /\ Sound(hit, wants, may)
      /\ Clean(s) => Clean(hit)
      /\ \A c : Has(hit.cache, c) <=> Has(s.cache, c)
      /\ hit.ok => Placed(hit, s, a, b, wants) /\ (b = a.end => Len(s.buf) = a.bytes)
  BY HitSound
<1>3. hit.missed = s.missed /\ hit.ranges = s.ranges
  <2>1. a.start \in Int /\ a.end \in Int
    BY SpansType
  <2>2. /\ used \in Calls(a.start, a.end, fault) /\ Len(used.cache) = Len(s.cache)
        /\ Len(s.cache) \in Nat \ {0}
    BY <2>1, UsedType
  <2>3. \A field \in {"medium", "ok", "missed", "ranges", "buf", "commands", "lost", "fault"} :
          used[field] = s[field]
    BY <2>1, UsedType
  <2> HIDE DEF used
  <2>4. \A field \in {"medium", "cache", "missed", "ranges", "commands", "lost", "fault"} :
          hit[field] = used[field]
    BY <2>2, HitCopyType
  <2> HIDE DEF hit
  <2> QED
    BY <2>3, <2>4
<1> HIDE DEF hit
<1>4. /\ Same(t, hit) /\ t.ok = hit.ok /\ t.buf = hit.buf /\ t.missed = s.missed
      /\ t.ranges = IF s.missed = None THEN s.ranges ELSE Append(s.ranges, <<s.missed[1], b>>)
  <2> HIDE DEF ranges
  <2>1. Same(t, hit) /\ t.ok = hit.ok /\ t.buf = hit.buf /\ t.missed = hit.missed /\ t.ranges = ranges
    BY <1>2 DEF Calls, Same
  <2> QED
    BY <1>3, <2>1 DEF ranges
<1> HIDE DEF t
<1>5. Unwritten(t, s) /\ \A c : Has(t.cache, c) <=> Has(s.cache, c)
  BY <1>2, <1>4 DEF Same, Unwritten
<1>6. Sound(t, wants, may) /\ (Clean(s) => Clean(t))
  BY <1>2, <1>4, SameSound
<1>7. t.ok => Placed(t, s, a, b, wants) /\ (b = a.end => Len(s.buf) = a.bytes)
  BY <1>2, <1>4 DEF Placed, Holds, Same
<1> QED
  BY <1>1, <1>4, <1>5, <1>6, <1>7 DEF Hit

\* A range that begins with the last of two blocks gets the data of the first.
LEMMA SecondRange ==
  ASSUME NEW a \in Spans, a.num = 2, NEW fault \in Faults, NEW s \in Calls(a.start, a.end, fault),
         Clean(s)
  PROVE  /\ Unwritten(ReadRange(s, a, <<a.end, a.end + 1>>), s)
         /\ ~ReadRange(s, a, <<a.end, a.end + 1>>).ok
<1> DEFINE S == Calls(a.start, a.end, fault)
           range == <<a.end, a.end + 1>>
           n == (a.end + 1) - a.end
           data == ReadBlocks(s, a.start, n)
           head == BlockSize - a.offset
           whole == (a.num - 1) * BlockSize
           from == head + (a.end - a.start - 1) * BlockSize
           some == Slice(data, 0, whole + a.offsetEnd)
           to(t, i, j, bytes) == IF t.ok THEN Copy(t, i, j, bytes) ELSE t
           sent == IF s.ok THEN SendRead(s) ELSE s
           filled == IF sent.ok THEN Fill(sent, a, range) ELSE sent
           r == to(filled, from, Len(s.buf), some)
<1>1. /\ a.start \in Nat /\ a.end \in Nat /\ a.end <= LastLba /\ a.start \in Int /\ a.end \in Int
      /\ a.offset \in Nat /\ a.offsetEnd \in Nat /\ a.offsetEnd >= 1 /\ a.end = a.start + 1
      /\ a.num - 1 = 1 /\ BlockSize \in Nat
  <2>1. /\ a.start \in Nat /\ a.end \in Nat /\ a.end <= LastLba
        /\ a.offset \in 0 .. BlockSize - 1 /\ a.offsetEnd \in 1 .. BlockSize
    BY SpansType
  <2> QED
    BY <2>1, TwoBlocks, SizesType
<1>2. ReadRange(s, a, range) = r
  <2>1. Counted(n) = n
    BY <1>1, CountedType
  <2> QED
    BY <1>1, <2>1 DEF ReadRange
<1>3. n = 1
  BY <1>1
<1>4. data \in Seq(Nat) /\ Len(data) = BlockSize
  <2>1. 1 \in Nat /\ a.start + 1 <= LastLba + 1 /\ 1 * BlockSize = BlockSize
    BY <1>1, SizesType
  <2>2. ReadBlocks(s, a.start, 1) \in Seq(Nat) /\ Len(ReadBlocks(s, a.start, 1)) = 1 * BlockSize
    BY <1>1, <2>1, ReadBlocksType
  <2> HIDE DEF n
  <2> QED
    BY <1>3, <2>1, <2>2
<1> HIDE DEF n, data
<1>5. some = <<>>
  <2>1. whole = BlockSize
    BY <1>1
  <2>2. ~(whole + a.offsetEnd <= Len(data))
    <3> HIDE DEF whole
    <3> QED
      BY <1>1, <1>4, <2>1
  <2> HIDE DEF whole
  <2> QED
    BY <2>2 DEF Slice
<1> HIDE DEF some, from
<1>6. sent \in S /\ Same(sent, s) /\ Clean(sent)
  <2>1. SendRead(s) \in S
    BY <1>1, SendReadType
  <2>2. Same(SendRead(s), s)
    BY <1>1, SendReadSame
  <2>3. Same(s, s)
    BY DEF Same
  <2>4. sent \in S /\ Same(sent, s)
    BY <2>1, <2>2, <2>3
  <2> HIDE DEF sent
  <2> QED
    BY <2>4, SameSound
<1> HIDE DEF sent
<1>7. filled \in S /\ Unwritten(filled, s)
  <2> SUFFICES Unwritten(filled, s)
    <3>1. Fill(sent, a, range) \in S
      <4>1. range \in (a.start .. a.end) \X (a.start .. a.end + 1) /\ range[1] < range[2]
        BY <1>1
      <4> HIDE DEF range
      <4> QED
        BY <1>6, <4>1, FillType
    <3> HIDE DEF range
    <3> QED
      BY <1>6, <3>1
  <2>1. CASE ~sent.ok
    BY <1>6, <2>1 DEF Same, Unwritten
  <2>2. CASE sent.ok
    <3> DEFINE kept == Slice(ReadBlocks(sent, a.start, 1),
                             Len(ReadBlocks(sent, a.start, 1)) - 1 * BlockSize,
                             Len(ReadBlocks(sent, a.start, 1)))
    <3>1. Fill(sent, a, range) = Chunks(sent, a.end, kept, 1)[1]
      <4>1. /\ range[1] = a.end /\ range[2] - range[1] = 1 /\ ~(1 > CacheSize)
            /\ Counted(1) = 1
        BY <1>1, SizesType, CountedType
      <4> HIDE DEF range
      <4> QED
        BY <4>1 DEF Fill
    <3>2. kept \in Seq(Nat) /\ Len(kept) = 1 * BlockSize
      <4> DEFINE read == ReadBlocks(sent, a.start, 1)
                 full == Len(read)
      <4>1. 1 \in Nat /\ a.start + 1 <= LastLba + 1 /\ 1 * BlockSize = BlockSize
        BY <1>1, SizesType
      <4>2. read \in Seq(Nat) /\ Len(read) = 1 * BlockSize
        BY <1>1, <1>6, <4>1, ReadBlocksType
      <4> HIDE DEF read
      <4>3. full - 1 * BlockSize = 0 /\ 0 \in Nat /\ full \in Nat /\ 0 <= full /\ full <= Len(read)
        BY <1>1, <4>1, <4>2
      <4> HIDE DEF full
      <4>4. Slice(read, 0, full) \in Seq(Nat) /\ Len(Slice(read, 0, full)) = full - 0
        BY <4>2, <4>3, SliceType
      <4> QED
        BY <1>1, <4>1, <4>2, <4>3, <4>4 DEF read, full
    <3> HIDE DEF kept
    <3>3. Cached(1, sent, a.end, kept, Chunks(sent, a.end, kept, 1))
      <4>1. 1 \in Nat /\ a.end + 1 <= LastLba + 1
        BY <1>1, SizesType
      <4> QED
        BY <1>1, <1>6, <3>2, <4>1, ChunksType
    <3> DEFINE b == a.end + 1 - 1
               piece == Slice(kept, (1 - 1) * BlockSize, 1 * BlockSize)
    <3>4. Chunks(sent, a.end, kept, 1)[1] = Update(sent, b, piece, FALSE)
      <4>1. 1 \in 1 .. 1 /\ 1 - 1 = 0
        OBVIOUS
      <4> QED
        BY <3>3, <4>1 DEF Cached
    <3>5. ~Victim(sent.cache)
      <4>1. Len(sent.cache) = CacheSize => Len(sent.cache) \in 1 .. Len(sent.cache)
        BY SizesType
      <4> QED
        BY <1>6, <4>1 DEF Clean, Victim, Last
    <3> DEFINE dirty == FALSE
    <3>6. Chunks(sent, a.end, kept, 1)[1] = Update(sent, b, piece, dirty)
      BY <3>4
    <3> HIDE DEF b, piece, dirty
    <3>7. \A field \in {"medium", "missed", "ranges", "buf", "commands", "lost", "fault"} :
            Update(sent, b, piece, dirty)[field] = sent[field]
      BY <1>1, <1>6, <3>5, UpdateSame
    <3> DEFINE u == Update(sent, b, piece, dirty)
    <3>8. u.medium = sent.medium /\ u.lost = sent.lost
      BY <3>7
    <3> HIDE DEF u
    <3> QED
      BY <1>6, <2>2, <3>1, <3>6, <3>8 DEF Same, Unwritten, u
  <2> QED
    BY <2>1, <2>2
<1> HIDE DEF filled
<1>8. CASE ~filled.ok
  BY <1>2, <1>7, <1>8
<1>9. CASE filled.ok
  <2> DEFINE full == Len(s.buf)
  <2>1. r = Copy(filled, from, full, some)
    BY <1>9
  <2>2. some # <<>> \/ ~(from < full /\ Len(some) = full - from)
    <3>1. from \in Int /\ full \in Int
      <4>1. head \in Int /\ (a.end - a.start - 1) * BlockSize = 0
        BY <1>1
      <4>2. s.buf \in Seq(Nat)
        BY <1>1, CallType
      <4> HIDE DEF head
      <4> QED
        BY <4>1, <4>2, LenProperties DEF from
    <3> HIDE DEF full
    <3>2. Len(<<>>) = 0
      BY EmptySeq
    <3> QED
      BY <3>1, <3>2
  <2> HIDE DEF full
  <2>3. r = [filled EXCEPT !.ok = FALSE]
    BY <1>5, <2>1, <2>2 DEF Copy
  <2>4. Unwritten(r, filled) /\ ~r.ok
    <3>1. filled \in S
      BY <1>7
    <3> HIDE DEF r
    <3> QED
      BY <2>3, <3>1 DEF Unwritten, Calls
  <2> QED
    BY <1>2, <1>7, <2>4 DEF Unwritten
<1> QED
  BY <1>8, <1>9

\* What CarefulRead says of a call: no more than two blocks, no dirty one evicted.
Gentle(s, a) ==
  \/ a.num = 1 /\ (Has(s.cache, a.start) \/ ~Victim(s.cache))
  \/ a.num = 2 /\ a.num <= CacheSize /\ Clean(s)

\* A range of the whole access, in a state that differs from s in its marks
LEMMA WholeRange ==
  ASSUME NEW a \in Spans, a.end < LastLba, a.num <= CacheSize, a.num <= 2, NEW fault \in Faults,
         NEW s, NEW t \in Calls(a.start, a.end, fault), t.ok, Unwritten(t, s),
         NEW wants, NEW may, Sound(t, wants, may), Ready(t, a.start, a.num)
  PROVE  /\ Unwritten(ReadRange(t, a, <<a.start, a.end + 1>>), s)
         /\ ReadRange(t, a, <<a.start, a.end + 1>>).ok =>
              /\ Sound(ReadRange(t, a, <<a.start, a.end + 1>>), wants, may)
              /\ Filled(ReadRange(t, a, <<a.start, a.end + 1>>), a, wants)
<1> DEFINE upto == a.end + 1
           r == ReadRange(t, a, <<a.start, upto>>)
<1>1. /\ upto \in a.start + 1 .. a.end + 1 /\ upto - a.start = a.num
      /\ upto - a.start <= CacheSize /\ upto - a.start <= 2
  BY SpansType
<1>2. Ready(t, a.start, upto - a.start)
  BY <1>1
<1>3. upto = a.end + 1
  OBVIOUS
<1> HIDE DEF upto
<1>4. /\ Unwritten(r, t)
      /\ r.ok => /\ Sound(r, wants, may)
                 /\ upto = a.end + 1 => Filled(r, a, wants)
  BY <1>1, <1>2, FirstRange
<1> QED
  BY <1>3, <1>4 DEF Unwritten

\* A read of one block
LEMMA ReadOneSound ==
  ASSUME NEW a \in Spans, a.end < LastLba, NEW fault \in Faults,
         NEW s \in Calls(a.start, a.end, fault), s.ok, s.missed = None, s.ranges = <<>>,
         a.bytes <= Len(s.buf), NEW wants, NEW may, Sound(s, wants, may),
         a.num = 1, Has(s.cache, a.start) \/ ~Victim(s.cache)
  PROVE  /\ Unwritten(ReadInto(s, a), s)
         /\ ReadInto(s, a).ok => Sound(ReadInto(s, a), wants, may) /\ Filled(ReadInto(s, a), a, wants)
<1> DEFINE looked == Lookups(s, a)[1]
           b == a.start
<1>1. a.start \in Nat /\ a.end = a.start /\ b \in a.start .. a.end
  BY SpansType, OneBlock
<1>2. Behind(s, a.start)
  <2>1. Len(s.ranges) = 0
    BY EmptySeq
  <2> QED
    BY <2>1 DEF Behind
<1>3. ReadInto(s, a) = Reading(looked, a)
  BY DEF ReadInto, Reading
<1>4. looked = Lookup(s, a, b) /\ looked \in Calls(a.start, a.end, fault)
  <2>1. /\ Lookups(s, a)[0] = s
        /\ \A i \in 1 .. 1 : Lookups(s, a)[i] = Lookup(Lookups(s, a)[i - 1], a, a.start + i - 1)
    BY <1>2, LookupsType
  <2>2. \A i \in 0 .. 1 : Lookups(s, a)[i] \in Calls(a.start, a.end, fault)
    BY <1>2, LookupsType
  <2>3. 1 \in 1 .. 1 /\ 1 \in 0 .. 1 /\ 1 - 1 = 0 /\ a.start + 1 - 1 = a.start
    BY <1>1
  <2> QED
    BY <2>1, <2>2, <2>3
<1> HIDE DEF looked
<1>5. CASE Has(s.cache, b)
  <2>1. /\ Unwritten(looked, s)
        /\ Sound(looked, wants, may)
        /\ looked.ok => Placed(looked, s, a, b, wants) /\ (b = a.end => Len(s.buf) = a.bytes)
        /\ looked.missed = s.missed
        /\ looked.ranges = IF s.missed = None THEN s.ranges ELSE Append(s.ranges, <<s.missed[1], b>>)
    <3>1. a.num <= 2
      OBVIOUS
    <3>2. Hit(looked, s, a, b, wants, may)
      BY <1>1, <1>4, <1>5, <3>1, LookupHit
    <3> QED
      BY <3>2 DEF Hit
  <2>2. ReadInto(s, a) = looked
    BY <1>3, <1>4, <2>1, ReadingNone
  <2>3. looked.ok => Filled(looked, a, wants)
    <3>1. \A c \in a.start .. a.end : c = b
      BY <1>1
    <3> QED
      BY <1>1, <2>1, <3>1 DEF Placed, Filled
  <2> QED
    BY <2>1, <2>2, <2>3
<1>6. CASE ~Has(s.cache, b)
  <2>1. /\ Same(looked, s)
        /\ looked.ok /\ looked.buf = s.buf
        /\ looked.missed = IF s.missed = None THEN <<b>> ELSE s.missed
        /\ looked.ranges = s.ranges
    BY <1>4, <1>6, LookupMiss DEF Miss
  <2>2. ReadInto(s, a) = ReadRange(looked, a, <<b, a.end + 1>>)
    BY <1>1, <1>3, <1>4, <2>1, ReadingOne
  <2>3. Sound(looked, wants, may) /\ Ready(looked, a.start, a.num) /\ Unwritten(looked, s)
    BY <1>6, <2>1, SameSound DEF Same, Unwritten, Ready
  <2>4. a.num <= CacheSize /\ a.num <= 2
    BY SizesType
  <2> QED
    BY <1>4, <2>1, <2>2, <2>3, <2>4, WholeRange
<1> QED
  BY <1>5, <1>6

\* A read of two blocks: both cached, the first, the second, or none.
LEMMA ReadTwoSound ==
  ASSUME NEW a \in Spans, a.end < LastLba, NEW fault \in Faults,
         NEW s \in Calls(a.start, a.end, fault), s.ok, s.missed = None, s.ranges = <<>>,
         a.bytes <= Len(s.buf), NEW wants, NEW may, Sound(s, wants, may),
         a.num = 2, a.num <= CacheSize, Clean(s)
  PROVE  /\ Unwritten(ReadInto(s, a), s)
         /\ ReadInto(s, a).ok => Sound(ReadInto(s, a), wants, may) /\ Filled(ReadInto(s, a), a, wants)
<1> DEFINE S == Calls(a.start, a.end, fault)
           one == Lookups(s, a)[1]
           looked == Lookups(s, a)[2]
           b == a.start
           c == a.end
           r == ReadInto(s, a)
<1>1. /\ a.start \in Nat /\ a.end = a.start + 1 /\ b \in a.start .. a.end /\ c \in a.start .. a.end
      /\ a.num <= 2 /\ b # c
  <2>1. a.start \in Nat /\ a.end = a.start + 1
    BY SpansType, TwoBlocks
  <2> QED
    BY <2>1
<1>2. Behind(s, a.start)
  <2>1. Len(s.ranges) = 0
    BY EmptySeq
  <2> QED
    BY <2>1 DEF Behind
<1>3. r = Reading(looked, a)
  BY DEF ReadInto, Reading
<1>4. /\ one = Lookup(s, a, b) /\ one \in S
      /\ looked = Lookup(one, a, c) /\ looked \in S
  <2>1. /\ Lookups(s, a)[0] = s
        /\ \A i \in 1 .. 2 : Lookups(s, a)[i] = Lookup(Lookups(s, a)[i - 1], a, a.start + i - 1)
    BY <1>2, LookupsType
  <2>2. \A i \in 0 .. 2 : Lookups(s, a)[i] \in S
    BY <1>2, LookupsType
  <2>3. /\ 1 \in 1 .. 2 /\ 1 \in 0 .. 2 /\ 1 - 1 = 0 /\ a.start + 1 - 1 = a.start
        /\ 2 \in 1 .. 2 /\ 2 \in 0 .. 2 /\ 2 - 1 = 1 /\ a.start + 2 - 1 = a.end
    BY <1>1
  <2> QED
    BY <2>1, <2>2, <2>3
<1> HIDE DEF one, looked, r
<1>5. CASE Has(s.cache, b)
  <2>1. Hit(one, s, a, b, wants, may)
    BY <1>1, <1>4, <1>5, LookupHit
  <2>2. Unwritten(one, s) /\ Clean(one) /\ Sound(one, wants, may) /\ one.missed = None /\ one.ranges = <<>>
    BY <2>1 DEF Hit
  <2>3. CASE ~one.ok
    <3>1. looked = one
      BY <1>4, <2>3 DEF Lookup
    <3>2. r = one
      BY <1>3, <1>4, <2>2, <3>1, ReadingNone
    <3> QED
      BY <2>2, <2>3, <3>2 DEF r
  <2>4. CASE one.ok
    <3>1. Placed(one, s, a, b, wants) /\ a.bytes <= Len(one.buf)
      BY <2>1, <2>4 DEF Hit, Placed
    <3>2. CASE Has(one.cache, c)
      <4>1. Hit(looked, one, a, c, wants, may)
        BY <1>1, <1>4, <2>2, <2>4, <3>1, <3>2, LookupHit
      <4>2. looked.missed = None /\ looked.ranges = <<>>
        BY <2>2, <4>1 DEF Hit
      <4>3. r = looked
        BY <1>3, <1>4, <4>2, ReadingNone
      <4>4. Unwritten(looked, s) /\ Sound(looked, wants, may)
        BY <2>2, <4>1 DEF Hit, Unwritten
      <4>5. looked.ok => Filled(looked, a, wants)
        <5> SUFFICES ASSUME looked.ok PROVE Filled(looked, a, wants)
          OBVIOUS
        <5>1. Placed(looked, one, a, c, wants) /\ Len(one.buf) = a.bytes
          BY <4>1 DEF Hit
        <5>2. Holds(looked, a, c, wants) /\ Len(looked.buf) = a.bytes
          BY <5>1 DEF Placed
        <5>3. Holds(looked, a, b, wants)
          BY <1>1, <3>1, <5>1 DEF Placed
        <5>4. \A d \in a.start .. a.end : d = b \/ d = c
          BY <1>1
        <5> QED
          BY <5>2, <5>3, <5>4 DEF Filled
      <4> QED
        BY <4>3, <4>4, <4>5 DEF r
    <3>3. CASE ~Has(one.cache, c)
      <4>1. Miss(looked, one, c)
        BY <1>4, <2>4, <3>3, LookupMiss
      <4>2. looked.missed = <<c>> /\ looked.ranges = <<>> /\ Clean(looked) /\ Unwritten(looked, s)
        BY <2>2, <4>1, SameSound DEF Miss, Same, Unwritten
      <4>3. r = ReadRange(looked, a, <<a.end, a.end + 1>>)
        BY <1>1, <1>3, <1>4, <4>2, ReadingOne
      <4>4. Unwritten(r, looked) /\ ~r.ok
        BY <1>4, <4>2, <4>3, SecondRange
      <4> QED
        BY <4>2, <4>4 DEF Unwritten, r
    <3> QED
      BY <3>2, <3>3
  <2> QED
    BY <2>3, <2>4
<1>6. CASE ~Has(s.cache, b)
  <2>1. Miss(one, s, b)
    BY <1>4, <1>6, LookupMiss
  <2>2. /\ one.ok /\ one.buf = s.buf /\ one.missed = <<b>> /\ one.ranges = <<>>
        /\ Unwritten(one, s) /\ Clean(one) /\ Sound(one, wants, may)
    BY <2>1, SameSound DEF Miss, Same, Unwritten
  <2>3. CASE Has(one.cache, c)
    <3>1. Hit(looked, one, a, c, wants, may)
      BY <1>1, <1>4, <2>2, <2>3, LookupHit
    <3>2. looked.missed = <<b>> /\ looked.ranges = <<<<b, c>>>>
      <4>1. one.missed # None /\ one.missed[1] = b
        BY <2>2 DEF None
      <4>2. looked.missed = <<b>> /\ looked.ranges = Append(<<>>, <<b, c>>)
        BY <2>2, <3>1, <4>1 DEF Hit
      <4>3. Append(<<>>, <<b, c>>) = <<<<b, c>>>>
        OBVIOUS
      <4> QED
        BY <4>2, <4>3
    <3>3. Unwritten(looked, s) /\ Sound(looked, wants, may) /\ Clean(looked)
      BY <2>2, <3>1 DEF Hit, Unwritten
    <3> DEFINE first == ReadRange(looked, a, <<a.start, a.end>>)
    <3>4. r = ReadRange(first, a, <<a.start, a.end + 1>>)
      <4>1. a.start < a.end
        BY <1>1
      <4> QED
        BY <1>3, <1>4, <3>2, <4>1, ReadingTwo
    <3>5. CASE ~looked.ok
      <4>1. first = looked
        BY <3>5, ReadRangeStopped
      <4> HIDE DEF first
      <4>2. r = first
        BY <3>4, <3>5, <4>1, ReadRangeStopped
      <4> QED
        BY <3>3, <3>5, <4>1, <4>2 DEF r
    <3>6. CASE looked.ok
      <4>1. /\ a.end \in a.start + 1 .. a.end + 1
            /\ a.end - a.start <= CacheSize /\ a.end - a.start <= 2
        BY <1>1, SizesType
      <4>2. Ready(looked, a.start, a.end - a.start)
        BY <3>3 DEF Ready
      <4>3. /\ first \in S /\ Unwritten(first, looked)
            /\ first.ok => Sound(first, wants, may) /\ (Clean(looked) => Clean(first))
        BY <1>4, <3>3, <3>6, <4>1, <4>2, FirstRange
      <4> HIDE DEF first
      <4>4. Unwritten(first, s)
        BY <3>3, <4>3 DEF Unwritten
      <4>5. CASE ~first.ok
        <5>1. r = first
          BY <3>4, <4>5, ReadRangeStopped
        <5> QED
          BY <4>4, <4>5, <5>1 DEF r
      <4>6. CASE first.ok
        <5>1. Ready(first, a.start, a.num) /\ Sound(first, wants, may)
          BY <3>3, <4>3, <4>6 DEF Ready
        <5> QED
          BY <3>4, <4>3, <4>4, <4>6, <5>1, WholeRange DEF r
      <4> QED
        BY <4>5, <4>6
    <3> QED
      BY <3>5, <3>6
  <2>4. CASE ~Has(one.cache, c)
    <3>1. Miss(looked, one, c)
      BY <1>4, <2>2, <2>4, LookupMiss
    <3>2. /\ looked.ok /\ looked.missed = <<b>> /\ looked.ranges = <<>>
          /\ Unwritten(looked, s) /\ Clean(looked) /\ Sound(looked, wants, may)
      <4>1. one.missed # None
        BY <2>2 DEF None
      <4> QED
        BY <2>2, <3>1, <4>1, SameSound DEF Miss, Same, Unwritten
    <3>3. r = ReadRange(looked, a, <<a.start, a.end + 1>>)
      BY <1>1, <1>3, <1>4, <3>2, ReadingOne
    <3>4. Ready(looked, a.start, a.num)
      BY <3>2 DEF Ready
    <3>5. a.num <= 2
      OBVIOUS
    <3>6. Unwritten(r, s) /\ (r.ok => Sound(r, wants, may) /\ Filled(r, a, wants))
      <4> HIDE DEF r
      <4> QED
        BY <1>4, <3>2, <3>3, <3>4, <3>5, WholeRange
    <3> QED
      BY <3>6 DEF r
  <2> QED
    BY <2>3, <2>4
<1> QED
  BY <1>5, <1>6

\* A careful read writes nothing; one that returns, returns what is expected.
LEMMA ReadSound ==
  ASSUME NEW a \in Spans, a.end < LastLba, NEW fault \in Faults,
         NEW s \in Calls(a.start, a.end, fault), s.ok, s.missed = None, s.ranges = <<>>,
         a.bytes <= Len(s.buf), NEW wants, NEW may, Sound(s, wants, may), Gentle(s, a)
  PROVE  /\ Unwritten(ReadInto(s, a), s)
         /\ ReadInto(s, a).ok => Sound(ReadInto(s, a), wants, may) /\ Filled(ReadInto(s, a), a, wants)
  BY ReadOneSound, ReadTwoSound DEF Gentle

-----------------------------------------------------------------------------
(* write, of a careful guest *)

\* The bytes of a write do not go beyond its last block.
Fits(a, bytes) == a.offset + Len(bytes) <= a.num * BlockSize

\* data is what block b held, with the bytes of a write where it has them.
Patched(a, b, old, bytes, data) ==
  \A i \in 1 .. BlockSize, k \in Int :
    ByteOf(a.offset + k, b - a.start, i) =>
      data[i] = IF k \in 1 .. Len(bytes) THEN bytes[k] ELSE old[i]

\* What is expected after a write is what was before, patched.
Meets(a, bytes, wants, may, wants1, may1) ==
  /\ \A b \in Inside : /\ may[b] \subseteq may1[b]
                       /\ b \notin a.start .. a.end => wants1[b] = wants[b]
  /\ Fits(a, bytes) =>
       \A b \in a.start .. a.end, old \in Data, data \in Data :
         Patched(a, b, old, bytes, data) /\ old \in may[b] =>
           data \in may1[b] /\ (old = wants[b] => data = wants1[b])

\* The state given the block that a write of one block patches
LEMMA GivenOne ==
  ASSUME NEW first \in Int, NEW last \in Int, NEW fault \in Faults,
         NEW s \in Calls(first, last, fault), NEW buf \in Seq(Nat)
  PROVE  /\ [s EXCEPT !.buf = buf] \in Calls(first, last, fault)
         /\ Same([s EXCEPT !.buf = buf], s)
         /\ [s EXCEPT !.buf = buf].buf = buf
         /\ [s EXCEPT !.buf = buf].ok = s.ok
<1>1. [s EXCEPT !.buf = buf] \in Calls(first, last, fault)
  BY Changed
<1> QED
  BY <1>1 DEF Calls, Same

\* The whole buffer of a write of one block is the block, patched.
LEMMA OnePatched ==
  ASSUME NEW a \in Spans, a.num = 1, NEW r, NEW s, NEW bytes \in Seq(Nat), Len(s.buf) = BlockSize,
         CopiedTo(r, s, a.offset, a.offset + Len(bytes), bytes)
  PROVE  Fits(a, bytes) /\ Patched(a, a.start, s.buf, bytes, r.buf)
<1>1. a.offset \in 0 .. BlockSize - 1 /\ a.start \in Nat /\ Len(bytes) \in Nat
  BY SpansType, LenProperties
<1>2. Fits(a, bytes)
  BY <1>1, SizesType DEF CopiedTo, Fits
<1>3. ASSUME NEW i \in 1 .. BlockSize, NEW k \in Int, ByteOf(a.offset + k, a.start - a.start, i)
      PROVE  r.buf[i] = IF k \in 1 .. Len(bytes) THEN bytes[k] ELSE s.buf[i]
  <2>1. a.start - a.start = 0 /\ 0 * BlockSize = 0
    BY <1>1, SizesType
  <2>2. a.offset + k = (0 * BlockSize) + i
    BY <1>3, <2>1 DEF ByteOf
  <2>3. a.offset + k = i /\ i \in Int /\ k = i - a.offset
    BY <1>1, <2>1, <2>2, SizesType
  <2>4. r.buf[i] = IF a.offset < i /\ i <= a.offset + Len(bytes) THEN bytes[i - a.offset] ELSE s.buf[i]
    BY DEF CopiedTo
  <2>5. a.offset < i /\ i <= a.offset + Len(bytes) <=> k \in 1 .. Len(bytes)
    BY <1>1, <2>3, SizesType
  <2> QED
    BY <2>3, <2>4, <2>5
<1> QED
  BY <1>2, <1>3 DEF Patched

\* A write within a cached block changes the entry and nothing else.
LEMMA WriteOneSound ==
  ASSUME NEW a \in Spans, a.end < LastLba, NEW fault \in Faults,
         NEW s \in Calls(a.start, a.end, fault), s.ok, NEW bytes \in Seq(Nat),
         a.num = 1, Has(s.cache, a.start),
         NEW wants, NEW may, Sound(s, wants, may),
         NEW wants1, NEW may1, Meets(a, bytes, wants, may, wants1, may1)
  PROVE  /\ Unwritten(WriteOne(s, a, bytes), s)
         /\ WriteOne(s, a, bytes).ok => Sound(WriteOne(s, a, bytes), wants1, may1)
<1> DEFINE S == Calls(a.start, a.end, fault)
           b == a.start
           held == Present(s, b)
           seen == Fetch(s, b)
           given == [seen EXCEPT !.buf = held]
           patched == Copy(given, a.offset, a.offset + Len(bytes), bytes)
           data == patched.buf
           dirty == TRUE
           r == Update(patched, b, data, dirty)
<1>1. /\ a.start \in Int /\ a.end \in Int /\ b \in Block /\ a.offset \in Int /\ a.end = b
      /\ b \in Inside /\ a.offset + Len(bytes) \in Int
  <2>1. /\ a.start \in Nat /\ a.end \in Nat /\ a.start \in Block /\ a.offset \in Nat
        /\ a.num = a.end - a.start + 1 /\ Len(bytes) \in Nat
    BY SpansType, LenProperties
  <2> QED
    BY <2>1, SizesType DEF Inside
<1>2. WriteOne(s, a, bytes) = r
  BY DEF WriteOne
<1>3. held \in Data /\ held \in may[b] /\ (b \in s.lost \/ held = wants[b])
  <2>1. Find(s.cache, b) \in 1 .. Len(s.cache) /\ s.cache[Find(s.cache, b)].block = b
    BY <1>1, CallType, FindType
  <2>2. EntrySound(s.cache[Find(s.cache, b)], s.medium, s.lost, wants, may)
    BY <2>1 DEF Sound, SoundIn
  <2>3. held = s.cache[Find(s.cache, b)].data
    BY DEF Present
  <2>4. held \in Data
    BY <1>1, PresentType
  <2> QED
    BY <1>1, <2>1, <2>2, <2>3, <2>4 DEF EntrySound
<1>4. /\ seen \in S /\ Sound(seen, wants, may) /\ Has(seen.cache, b)
      /\ seen.medium = s.medium /\ seen.lost = s.lost
  <2>1. seen = Used(s, b)
    BY DEF Fetch
  <2>2. Sound(Used(s, b), wants, may) /\ \A c : Has(Used(s, b).cache, c) <=> Has(s.cache, c)
    BY <1>1, UsedSound
  <2>3. \A field \in {"medium", "ok", "missed", "ranges", "buf", "commands", "lost", "fault"} :
          Used(s, b)[field] = s[field]
    BY <1>1, UsedType
  <2>4. Used(s, b) \in S
    BY <1>1, UsedType
  <2> HIDE DEF seen
  <2> QED
    BY <2>1, <2>2, <2>3, <2>4
<1> HIDE DEF held, seen
<1>5. given \in S /\ Same(given, seen) /\ given.buf = held
  <2>1. held \in Seq(Nat)
    BY <1>3 DEF Data
  <2> QED
    BY <1>1, <1>4, <2>1, GivenOne
<1> HIDE DEF given
<1>6. /\ patched \in S /\ Same(patched, given) /\ Len(patched.buf) = Len(given.buf)
      /\ patched.ok => CopiedTo(patched, given, a.offset, a.offset + Len(bytes), bytes)
  BY <1>1, <1>5, CopySound, CopyType
<1> HIDE DEF patched
<1>7. data \in Data
  BY <1>1, <1>3, <1>5, <1>6, CallType DEF Data
<1>8. Same(patched, seen)
  BY <1>5, <1>6 DEF Same
<1>9. Sound(patched, wants, may) /\ Has(patched.cache, b) /\ Unwritten(patched, s)
  BY <1>4, <1>8, SameSound DEF Same, Unwritten
<1>10. CASE ~patched.ok
  <2>1. r = patched
    BY <1>10 DEF Update
  <2> QED
    BY <1>2, <1>9, <1>10, <2>1
<1>11. CASE patched.ok
  <2>1. Fits(a, bytes) /\ Patched(a, b, held, bytes, data)
    <3>1. Len(given.buf) = BlockSize
      BY <1>3, <1>5 DEF Data
    <3> QED
      BY <1>5, <1>6, <1>11, <3>1, OnePatched
  <2>2. data \in may1[b] /\ (held = wants[b] => data = wants1[b])
    <3>1. b \in a.start .. a.end
      BY <1>1
    <3> QED
      BY <1>3, <1>7, <2>1, <3>1 DEF Meets
  <2>3. Expected(b, data, patched.lost, wants1, may1)
    BY <1>3, <1>9, <2>2 DEF Expected, Unwritten
  <2>4. Revised(b, wants, may, wants1, may1)
    <3>1. \A c \in Inside : c # b => c \notin a.start .. a.end
      BY <1>1, InsideType
    <3> QED
      BY <3>1 DEF Meets, Revised
  <2>5. dirty \in BOOLEAN /\ dirty
    OBVIOUS
  <2> HIDE DEF data, dirty
  <2>6. Sound(r, wants1, may1) /\ (Clean(patched) /\ ~dirty => Clean(r)) /\ Like(r, patched)
    BY <1>1, <1>6, <1>7, <1>9, <1>11, <2>3, <2>4, <2>5, OverwriteSound
  <2>8. Unwritten(r, s)
    <3> HIDE DEF r
    <3> QED
      BY <1>9, <2>6 DEF Unwritten, Like
  <2> HIDE DEF r
  <2> QED
    BY <1>2, <2>6, <2>8
<1> QED
  BY <1>10, <1>11


\* The buffer of a write of n blocks begins with p and ends with q.
Around(buf, n, p, q) ==
  \A i \in 1 .. BlockSize : buf[i] = p[i] /\ buf[((n - 1) * BlockSize) + i] = q[i]

LEMMA BufferAt ==
  ASSUME NEW n \in Nat, n >= 2, NEW p \in Data, NEW q \in Data
  PROVE  Around(p \o [i \in 1 .. (n - 2) * BlockSize |-> 0] \o q, n, p, q)
<1> DEFINE m == (n - 2) * BlockSize
           zeros == [i \in 1 .. m |-> 0]
           front == p \o zeros
           nb == (n - 1) * BlockSize
<1>1. m \in Nat /\ nb = BlockSize + m /\ nb \in Nat
  <2>1. n - 2 \in Nat /\ n - 1 \in Nat /\ n - 2 <= n - 1 /\ (n - 1) - (n - 2) = 1
    OBVIOUS
  <2>2. m \in Nat /\ nb \in Nat
    BY <2>1, Products
  <2>3. ((n - 1) - (n - 2)) * BlockSize = ((n - 1) * BlockSize) - ((n - 2) * BlockSize)
    BY <2>1, Products
  <2>4. 1 * BlockSize = nb - m
    BY <2>1, <2>3
  <2>5. BlockSize = nb - m
    BY <2>4, SizesType
  <2> HIDE DEF nb, m
  <2> QED
    BY <2>2, <2>5, SizesType
<1> HIDE DEF m, nb
<1>2. zeros \in Seq(Nat) /\ Len(zeros) = m
  BY <1>1
<1> HIDE DEF zeros
<1>3. p \in Seq(Nat) /\ Len(p) = BlockSize /\ q \in Seq(Nat) /\ Len(q) = BlockSize
  BY DEF Data
<1>4. front \in Seq(Nat) /\ Len(front) = BlockSize + m
  BY <1>2, <1>3, ConcatProperties
<1>5. \A i \in 1 .. BlockSize + m : front[i] = IF i <= BlockSize THEN p[i] ELSE zeros[i - BlockSize]
  BY <1>2, <1>3, ConcatProperties
<1> HIDE DEF front
<1>6. \A i \in 1 .. (BlockSize + m) + BlockSize :
        (front \o q)[i] = IF i <= BlockSize + m THEN front[i] ELSE q[i - (BlockSize + m)]
  <2> DEFINE l == BlockSize + m
  <2>1. Len(front) = l /\ l \in Nat
    BY <1>1, <1>4, SizesType
  <2> HIDE DEF l
  <2>3. \A i \in 1 .. Len(front) + Len(q) :
          (front \o q)[i] = IF i <= Len(front) THEN front[i] ELSE q[i - Len(front)]
    BY <1>3, <1>4, ConcatProperties
  <2>2. \A i \in 1 .. l + BlockSize : (front \o q)[i] = IF i <= l THEN front[i] ELSE q[i - l]
    BY <1>3, <2>1, <2>3
  <2> QED
    BY <2>2 DEF l
<1>7. ASSUME NEW i \in 1 .. BlockSize
      PROVE  (front \o q)[i] = p[i] /\ (front \o q)[nb + i] = q[i]
  <2>1. i \in 1 .. BlockSize + m /\ i <= BlockSize /\ i <= BlockSize + m
        /\ i \in 1 .. (BlockSize + m) + BlockSize
    BY <1>1, SizesType
  <2>2. /\ nb + i \in 1 .. (BlockSize + m) + BlockSize /\ ~(nb + i <= BlockSize + m)
        /\ (nb + i) - (BlockSize + m) = i
    BY <1>1, SizesType
  <2> QED
    BY <1>5, <1>6, <2>1, <2>2
<1>8. Around(front \o q, n, p, q)
  BY <1>7 DEF Around, nb
<1> QED
  BY <1>8 DEF front, zeros, m

\* Block c of the buffer of a write
Part(data, c) == Slice(data, c * BlockSize, (c + 1) * BlockSize)

LEMMA PartAt ==
  ASSUME NEW n \in Nat, NEW data \in Seq(Nat), Len(data) = n * BlockSize, NEW c \in 0 .. n - 1
  PROVE  /\ Part(data, c) \in Data
         /\ \A i \in 1 .. BlockSize : Part(data, c)[i] = data[(c * BlockSize) + i]
<1> DEFINE k == c + 1
<1>1. k \in 1 .. n /\ k - 1 = c
  OBVIOUS
<1>2. k = c + 1
  OBVIOUS
<1> HIDE DEF k
<1>3. /\ Slice(data, (k - 1) * BlockSize, k * BlockSize) \in Data
      /\ \A i \in 1 .. BlockSize :
           Slice(data, (k - 1) * BlockSize, k * BlockSize)[i] = data[((k - 1) * BlockSize) + i]
  BY <1>1, ChunkType
<1> QED
  BY <1>1, <1>2, <1>3 DEF Part

\* The buffer of a write of several blocks is its blocks, patched.
LEMMA ManyPatched ==
  ASSUME NEW a \in Spans, a.num >= 2, NEW r, NEW s, NEW bytes \in Seq(Nat),
         a.bytes <= Len(bytes), s.buf \in Seq(Nat), Len(s.buf) = a.num * BlockSize,
         r.buf \in Seq(Nat),
         CopiedTo(r, s, a.offset, a.offset + Len(bytes), bytes),
         NEW blocks \in [Block -> Data],
         Around(s.buf, a.num, blocks[a.start], blocks[a.end])
  PROVE  /\ Fits(a, bytes)
         /\ \A b \in a.start .. a.end : Patched(a, b, blocks[b], bytes, Part(r.buf, b - a.start))
<1> DEFINE n == a.num
           whole == (n - 1) * BlockSize
<1>0. a.start \in Nat /\ a.end \in Nat /\ n \in Nat /\ n = a.end - a.start + 1
  BY SpansType
<1>1. /\ a.offset \in 0 .. BlockSize - 1 /\ Len(bytes) \in Nat
      /\ a.bytes \in Nat /\ a.offsetEnd \in 1 .. BlockSize
      /\ a.offset + a.bytes = whole + a.offsetEnd
  BY SpansType, LenProperties
<1>2. Fits(a, bytes)
  BY DEF CopiedTo, Fits
<1>3. Len(r.buf) = n * BlockSize
  BY DEF CopiedTo
<1>4. whole \in Nat
  <2>1. n - 1 \in Nat
    BY <1>0
  <2> QED
    BY <2>1, WholeBytes
<1> HIDE DEF whole
<1>5. ASSUME NEW b \in a.start .. a.end, NEW i \in 1 .. BlockSize, NEW k \in Int,
             ByteOf(a.offset + k, b - a.start, i)
      PROVE  Part(r.buf, b - a.start)[i] = IF k \in 1 .. Len(bytes) THEN bytes[k] ELSE blocks[b][i]
  <2> DEFINE c == b - a.start
             cb == c * BlockSize
             j == cb + i
             nb == n * BlockSize
  <2>1. c \in 0 .. n - 1 /\ c \in Nat /\ b = a.start + c
    BY <1>0
  <2>2. Part(r.buf, c)[i] = r.buf[j]
    BY <1>0, <1>3, <2>1, PartAt
  <2>3. a.offset + k = j
    BY <1>5 DEF ByteOf
  <2>4. cb \in Nat /\ nb \in Nat /\ cb + BlockSize <= nb
    <3>1. c + 1 \in Nat /\ c + 1 <= n
      BY <1>0, <2>1
    <3>2. (c + 1) * BlockSize <= nb
      BY <1>0, <3>1, Products
    <3>3. (c + 1) * BlockSize = cb + BlockSize
      BY <2>1, SizesType
    <3> QED
      BY <1>0, <2>1, <3>2, <3>3, Products
  <2>5. Len(s.buf) = nb
    OBVIOUS
  <2>7. c # n - 1 => cb + BlockSize <= whole
    <3>1. ASSUME c # n - 1 PROVE cb + BlockSize <= whole
      <4>1. c + 1 \in Nat /\ n - 1 \in Nat /\ c + 1 <= n - 1
        <5>1. \A x, y \in Nat : x \in 0 .. y - 1 /\ x # y - 1 =>
                x + 1 \in Nat /\ y - 1 \in Nat /\ x + 1 <= y - 1
          OBVIOUS
        <5>2. c \in Nat /\ n \in Nat /\ c \in 0 .. n - 1 /\ c # n - 1
          BY <1>0, <2>1, <3>1
        <5> HIDE DEF c, n
        <5> QED
          BY <5>1, <5>2
      <4>2. (c + 1) * BlockSize <= (n - 1) * BlockSize
        BY <4>1, Products
      <4>3. (c + 1) * BlockSize = cb + BlockSize
        BY <2>1, SizesType
      <4> QED
        BY <4>2, <4>3 DEF whole
    <3> QED
      BY <3>1
  <2>8. c # 0 => BlockSize <= cb
    <3>1. ASSUME c # 0 PROVE BlockSize <= cb
      <4>1. 1 \in Nat /\ 1 <= c
        BY <2>1, <3>1
      <4>2. 1 * BlockSize <= c * BlockSize
        BY <2>1, <4>1, Products
      <4> QED
        BY <4>2, SizesType
    <3> QED
      BY <3>1
  <2>9. c = 0 => blocks[b][i] = s.buf[j]
    <3>1. ASSUME c = 0 PROVE blocks[b][i] = s.buf[j]
      <4>1. b = a.start /\ 0 * BlockSize = 0
        BY <1>0, <2>1, <3>1, SizesType
      <4>2. j = i
        BY <3>1, <4>1
      <4> QED
        BY <4>1, <4>2 DEF Around
    <3> QED
      BY <3>1
  <2>10. c = n - 1 => blocks[b][i] = s.buf[j]
    <3>1. ASSUME c = n - 1 PROVE blocks[b][i] = s.buf[j]
      <4>1. b = a.end
        BY <1>0, <2>1, <3>1
      <4> QED
        BY <3>1, <4>1 DEF Around
    <3> QED
      BY <3>1
  <2> HIDE DEF cb, nb
  <2>11. j \in 1 .. Len(s.buf)
    BY <2>4, <2>5, SizesType
  <2>12. r.buf[j] = IF a.offset < j /\ j <= a.offset + Len(bytes) THEN bytes[j - a.offset] ELSE s.buf[j]
    BY <2>11 DEF CopiedTo
  <2>13. j \in Int
    BY <2>4
  <2>14. c # 0 /\ c # n - 1 => a.offset < j /\ j <= a.offset + Len(bytes)
    <3>1. ASSUME c # 0, c # n - 1 PROVE a.offset < j /\ j <= a.offset + Len(bytes)
      <4>1. BlockSize <= cb /\ cb + BlockSize <= whole
        BY <2>7, <2>8, <3>1
      <4>2. cb + i <= whole /\ a.offset < cb + i
        BY <1>1, <1>4, <2>4, <4>1, SizesType
      <4>3. whole <= a.offset + a.bytes /\ a.offset + a.bytes <= a.offset + Len(bytes)
        BY <1>1, <1>4, SizesType
      <4> QED
        BY <1>1, <1>4, <2>4, <4>2, <4>3, SizesType
    <3> QED
      BY <3>1
  <2> HIDE DEF j
  <2>17. /\ j - a.offset = k
         /\ a.offset < j /\ j <= a.offset + Len(bytes) <=> k \in 1 .. Len(bytes)
    <3> DEFINE o == a.offset
               l == Len(bytes)
    <3>1. o \in Int /\ l \in Nat /\ o + k = j
      BY <1>1, <2>3, SizesType
    <3> HIDE DEF o, l
    <3>2. j - o = k /\ (o < j /\ j <= o + l <=> k \in 1 .. l)
      BY <2>13, <3>1
    <3> QED
      BY <3>2 DEF o, l
  <2>15. k \notin 1 .. Len(bytes) => s.buf[j] = blocks[b][i]
    BY <2>9, <2>10, <2>14, <2>17
  <2> HIDE DEF c
  <2>16. Part(r.buf, c)[i] = IF k \in 1 .. Len(bytes) THEN bytes[k] ELSE blocks[b][i]
    BY <2>2, <2>12, <2>17, <2>15
  <2> QED
    BY <2>16 DEF c
<1> QED
  BY <1>2, <1>5 DEF Patched

\* What a WRITE of n blocks leaves: each has its data or what it had; all have
\* their data, or it has failed.
StoredAs(w, s, at, n, data) ==
  /\ w.cache = s.cache /\ s.lost \subseteq w.lost
  /\ \A b \in Block : \/ w.medium[b] = s.medium[b]
                      \/ b \in at .. at + n - 1 /\ w.medium[b] = Part(data, b - at)
  /\ w.ok => /\ s.ok
             /\ \A b \in at .. at + n - 1 : b \in w.lost \/ w.medium[b] = Part(data, b - at)

LEMMA StoredType ==
  ASSUME NEW first \in Int, NEW last \in Int, NEW fault \in Faults,
         NEW s \in Calls(first, last, fault),
         NEW at \in Nat, NEW n \in Nat, at + n <= LastLba + 1, NEW data
  PROVE  StoredAs(WriteBlocks(s, at, n, data), s, at, n, data)
<1> DEFINE stored == IF Fails(s) /\ s.fault.keeps < n THEN s.fault.keeps ELSE n
           lost1 == IF Fails(s) /\ ~s.fault.ends THEN s.lost \cup (at .. at + n - 1) ELSE s.lost
           w == WriteBlocks(s, at, n, data)
<1>1. stored \in Nat /\ stored <= n /\ (~Fails(s) => stored = n)
  BY CallType DEF Faults
<1>2. /\ w.cache = s.cache /\ w.lost = lost1 /\ (w.ok <=> s.ok /\ ~(Fails(s) /\ s.fault.ends))
      /\ \A b \in Block : w.medium[b] = IF b \in at .. at + stored - 1 THEN Part(data, b - at)
                                        ELSE s.medium[b]
  <2>1. w = [s EXCEPT
          !.commands = @ + 1,
          !.ok = @ /\ ~(Fails(s) /\ s.fault.ends),
          !.lost = lost1,
          !.medium = [b \in Block |->
            IF b \in at .. at + stored - 1
            THEN Slice(data, (b - at) * BlockSize, (b - at + 1) * BlockSize)
            ELSE @[b]]]
    BY DEF WriteBlocks
  <2> HIDE DEF stored, lost1, w
  <2>2. /\ w.cache = s.cache /\ w.lost = lost1 /\ w.ok = (s.ok /\ ~(Fails(s) /\ s.fault.ends))
        /\ w.medium = [b \in Block |->
            IF b \in at .. at + stored - 1
            THEN Slice(data, (b - at) * BlockSize, (b - at + 1) * BlockSize)
            ELSE s.medium[b]]
    BY <2>1 DEF Calls
  <2> QED
    BY <2>2 DEF Part
<1> HIDE DEF stored, w
<1>3. \A b \in at .. at + stored - 1 : b \in at .. at + n - 1
  BY <1>1
<1>4. \A b \in Block : \/ w.medium[b] = s.medium[b]
                       \/ b \in at .. at + n - 1 /\ w.medium[b] = Part(data, b - at)
  BY <1>2, <1>3
<1>5. ASSUME w.ok
      PROVE  s.ok /\ \A b \in at .. at + n - 1 : b \in w.lost \/ w.medium[b] = Part(data, b - at)
  <2>1. CASE Fails(s)
    <3>1. lost1 = s.lost \cup (at .. at + n - 1)
      BY <1>2, <1>5, <2>1
    <3> QED
      BY <1>2, <1>5, <3>1
  <2>2. CASE ~Fails(s)
    <3>1. \A b \in at .. at + n - 1 : b \in Block
      BY SizesType DEF Block
    <3> QED
      BY <1>1, <1>2, <1>5, <2>2, <3>1
  <2> QED
    BY <2>1, <2>2
<1>6. s.lost \subseteq lost1
  OBVIOUS
<1>7. StoredAs(w, s, at, n, data)
  <2> HIDE DEF lost1
  <2> QED
    BY <1>2, <1>4, <1>5, <1>6 DEF StoredAs
<1> QED
  BY <1>7 DEF w

\* What a write leaves of the medium: each block as it was, or patched.
Rewritten(r, s, a, bytes) ==
  /\ s.lost \subseteq r.lost
  /\ \A b \in Block : \/ r.medium[b] = s.medium[b]
                      \/ /\ b \in a.start .. a.end /\ Fits(a, bytes)
                         /\ Patched(a, b, s.medium[b], bytes, r.medium[b])

\* The blocks that a write is to store
Patches(a, bytes, s, data) ==
  \A b \in a.start .. a.end : /\ Part(data, b - a.start) \in Data
                              /\ Patched(a, b, s.medium[b], bytes, Part(data, b - a.start))

\* What is known of the blocks of a write when it has been sent
Sent(w, a, data, wants1, may1) ==
  \A b \in a.start .. a.end :
    /\ b \in w.lost \/ w.medium[b] = Part(data, b - a.start)
    /\ Expected(b, Part(data, b - a.start), w.lost, wants1, may1)

LEMMA SentSound ==
  ASSUME NEW a \in Spans, a.end < LastLba, NEW fault \in Faults,
         NEW s \in Calls(a.start, a.end, fault), NEW bytes,
         Clean(s), \A b \in a.start .. a.end : ~Has(s.cache, b),
         NEW wants, NEW may, Sound(s, wants, may),
         NEW wants1, NEW may1, Meets(a, bytes, wants, may, wants1, may1),
         NEW data, Fits(a, bytes), Patches(a, bytes, s, data),
         NEW w, StoredAs(w, s, a.start, a.num, data)
  PROVE  /\ Rewritten(w, s, a, bytes)
         /\ Clean(w)
         /\ w.ok => Sound(w, wants1, may1) /\ Sent(w, a, data, wants1, may1)
<1>1. /\ a.start \in Nat /\ a.end \in Nat /\ a.start + a.num - 1 = a.end
      /\ a.start .. a.end \subseteq Inside /\ Inside \subseteq Block
  <2>1. a.start \in Nat /\ a.end \in Nat /\ a.num = a.end - a.start + 1
    BY SpansType
  <2>2. a.start .. a.end \subseteq Inside
    BY <2>1, SizesType DEF Inside
  <2> QED
    BY <2>1, <2>2, InsideType
<1>2. /\ w.cache = s.cache /\ s.lost \subseteq w.lost
      /\ \A b \in Block : \/ w.medium[b] = s.medium[b]
                          \/ b \in a.start .. a.end /\ w.medium[b] = Part(data, b - a.start)
      /\ w.ok => \A b \in a.start .. a.end : b \in w.lost \/ w.medium[b] = Part(data, b - a.start)
  BY <1>1 DEF StoredAs
<1>3. Rewritten(w, s, a, bytes)
  BY <1>2 DEF Rewritten, Patches
<1>4. Clean(w)
  BY <1>2 DEF Clean
<1>5. \A b \in Inside : s.medium[b] \in Data /\ s.medium[b] \in may[b]
                        /\ (b \in s.lost \/ s.medium[b] = wants[b])
  BY <1>1, CallType, CleanBlock
<1>6. \A b \in a.start .. a.end :
        /\ Part(data, b - a.start) \in may1[b]
        /\ b \in s.lost \/ Part(data, b - a.start) = wants1[b]
  BY <1>1, <1>5 DEF Meets, Patches
<1>7. Sent(w, a, data, wants1, may1) <=>
        \A b \in a.start .. a.end : b \in w.lost \/ w.medium[b] = Part(data, b - a.start)
  BY <1>2, <1>6 DEF Sent, Expected
<1>8. ASSUME w.ok PROVE Sound(w, wants1, may1)
  <2>1. ASSUME NEW i \in 1 .. Len(w.cache)
        PROVE  EntrySound(w.cache[i], w.medium, w.lost, wants1, may1)
    <3> DEFINE e == s.cache[i]
    <3>1. w.cache[i] = e /\ ~e.dirty /\ EntrySound(e, s.medium, s.lost, wants, may)
      BY <1>2 DEF Sound, SoundIn, Clean
    <3>2. e.block \in Block /\ e.block \notin a.start .. a.end
      <4>1. s.cache \in Caches
        BY <1>1, CallType
      <4> QED
        BY <1>2, <4>1, EntriesType, FindType
    <3>3. w.medium[e.block] = s.medium[e.block]
      BY <1>2, <3>2
    <3>4. e.block \in Inside => may[e.block] \subseteq may1[e.block] /\ wants1[e.block] = wants[e.block]
      BY <3>2 DEF Meets
    <3> HIDE DEF e
    <3>5. EntrySound(e, w.medium, w.lost, wants1, may1)
      BY <1>2, <3>1, <3>3, <3>4 DEF EntrySound
    <3> QED
      BY <3>1, <3>5
  <2>2. ASSUME NEW b \in Inside PROVE BlockSound(b, w.medium, w.cache, w.lost, wants1, may1)
    <3>1. may[b] \subseteq may1[b] /\ (b \notin a.start .. a.end => wants1[b] = wants[b])
      BY DEF Meets
    <3>2. CASE b \in a.start .. a.end
      <4>1. w.medium[b] \in may1[b]
        BY <1>1, <1>2, <1>5, <1>6, <3>1
      <4>2. b \in w.lost \/ w.medium[b] = wants1[b]
        BY <1>2, <1>6, <1>8, <3>2
      <4> QED
        BY <4>1, <4>2 DEF BlockSound
    <3>3. CASE b \notin a.start .. a.end
      <4>1. w.medium[b] = s.medium[b]
        BY <1>1, <1>2, <3>3
      <4> QED
        BY <1>2, <1>5, <3>1, <3>3, <4>1 DEF BlockSound
    <3> QED
      BY <3>2, <3>3
  <2> QED
    BY <2>1, <2>2 DEF Sound, SoundIn
<1> QED
  BY <1>2, <1>3, <1>4, <1>7, <1>8

\* Where nothing is dirty, nothing dirty is evicted.
LEMMA CleanVictim ==
  ASSUME NEW s, Clean(s)
  PROVE  ~Victim(s.cache)
<1>1. Len(s.cache) = CacheSize => Len(s.cache) \in 1 .. Len(s.cache)
  BY SizesType
<1> QED
  BY <1>1 DEF Clean, Victim, Last

\* Caching the blocks that were written, none of which was cached before
LEMMA KeepsSound ==
  ASSUME NEW a \in Spans, a.end < LastLba, NEW fault \in Faults,
         NEW s \in Calls(a.start, a.end, fault), s.ok,
         NEW data \in Seq(Nat), Len(data) = a.num * BlockSize,
         Clean(s), \A b \in a.start .. a.end : ~Has(s.cache, b),
         NEW wants, NEW may, Sound(s, wants, may), Sent(s, a, data, wants, may)
  PROVE  /\ Sound(Keeps(s, a, data)[a.num], wants, may)
         /\ Like(Keeps(s, a, data)[a.num], s)
<1> DEFINE n == a.num
           S == Calls(a.start, a.end, fault)
           after == Keeps(s, a, data)
           Piece(t, i) == IF Has(t.cache, a.start + i - 1) THEN data
                          ELSE Slice(data, (i - 1) * BlockSize, i * BlockSize)
<1>1. /\ a.start \in Nat /\ a.end \in Nat /\ a.end <= LastLba /\ n \in Nat
      /\ a.start + n = a.end + 1 /\ a.start \in Int /\ a.end \in Int
  BY SpansType
<1>2. (\A i \in 0 .. n : after[i] \in S) /\ Keeping(s, a, data, after)
  BY KeepsType
<1> HIDE DEF after
<1>3. /\ \A i \in 0 .. n : after[i] \in S
      /\ after[0] = s
      /\ \A i \in 1 .. n : after[i] = Update(after[i - 1], a.start + i - 1, Piece(after[i - 1], i), FALSE)
  BY <1>2 DEF Keeping
<1> HIDE DEF Piece
<1> DEFINE T == {i \in 0 .. n : /\ Sound(after[i], wants, may) /\ Clean(after[i]) /\ Like(after[i], s)
                                /\ \A b \in a.start + i .. a.end : ~Has(after[i].cache, b)}
<1>4. 0 \in T
  <2>1. after[0] = s /\ Like(s, s) /\ 0 \in 0 .. n /\ a.start + 0 = a.start
    BY <1>1, <1>3 DEF Like
  <2> QED
    BY <2>1
<1>5. ASSUME NEW i \in 1 .. n, i - 1 \in T PROVE i \in T
  <2> DEFINE t == after[i - 1]
             u == after[i]
             b == a.start + i - 1
             c == b - a.start
             some == Part(data, c)
  <2>1. i - 1 \in 0 .. n /\ i \in 0 .. n /\ b \in Block /\ b \in a.start .. a.end
        /\ b \in a.start + (i - 1) .. a.end /\ a.start + i = b + 1
    <3> DEFINE x == a.start
               y == a.end
    <3>1. x \in Nat /\ y \in Nat /\ n \in Nat /\ x + n = y + 1 /\ y <= LastLba
      BY <1>1
    <3> HIDE DEF x, y, n
    <3>2. i - 1 \in 0 .. n /\ i \in 0 .. n /\ x + i - 1 \in 0 .. LastLba /\ x + i - 1 \in x .. y
      BY <3>1, SizesType
    <3>3. x + i - 1 \in x + (i - 1) .. y /\ x + i = (x + i - 1) + 1
      BY <3>1
    <3> QED
      BY <3>2, <3>3 DEF x, y, Block
  <2>2. t \in S /\ Sound(t, wants, may) /\ Clean(t) /\ Like(t, s) /\ ~Has(t.cache, b)
        /\ \A d \in b + 1 .. a.end : ~Has(t.cache, d)
    <3>1. /\ t \in S /\ Sound(t, wants, may) /\ Clean(t) /\ Like(t, s)
          /\ \A d \in a.start + (i - 1) .. a.end : ~Has(t.cache, d)
      BY <1>3, <1>5, <2>1
    <3>2. \A d \in b + 1 .. a.end : d \in a.start + (i - 1) .. a.end
      BY <1>1, <2>1
    <3> QED
      BY <2>1, <3>1, <3>2
  <2>3. c = i - 1 /\ c + 1 = i /\ c \in 0 .. n - 1
    BY <1>1, <2>1
  <2>4. u = Update(t, b, Piece(t, i), FALSE)
    BY <1>3
  <2>5. Piece(t, i) = some
    BY <2>2, <2>3 DEF Piece, Part
  <2>6. some \in Data
    BY <1>1, <2>3, PartAt
  <2>7. t.ok /\ t.medium = s.medium /\ t.lost = s.lost
    BY <2>2 DEF Like
  <2> HIDE DEF t, u, b
  <2>8. b \in t.lost \/ t.medium[b] = some
    BY <2>1, <2>7 DEF Sent
  <2>9. Expected(b, some, t.lost, wants, may)
    BY <2>1, <2>7 DEF Sent
  <2>10. ~Victim(t.cache)
    BY <2>2, CleanVictim
  <2> HIDE DEF c, some
  <2>11. u = Insert(t, b, some)
    BY <2>2, <2>4, <2>5, <2>7 DEF Update
  <2>12. /\ Sound(Insert(t, b, some), wants, may)
         /\ Clean(t) => Clean(Insert(t, b, some))
         /\ \A d : Has(Insert(t, b, some).cache, d) => d = b \/ Has(t.cache, d)
    BY <1>1, <2>1, <2>2, <2>6, <2>8, <2>9, <2>10, InsertSound
  <2>13. Like(Insert(t, b, some), t)
    <3>1. Insert(t, b, some) =
            [t EXCEPT !.cache = <<[block |-> b, data |-> some, dirty |-> FALSE]>> \o Kept(t.cache)]
      BY <2>10 DEF Insert, Kept
    <3> QED
      BY <2>2, <3>1 DEF Calls, Like
  <2>14. Like(u, s)
    BY <2>2, <2>11, <2>13 DEF Like
  <2>15. \A d \in b + 1 .. a.end : ~Has(u.cache, d)
    <3>1. \A d \in b + 1 .. a.end : d # b
      BY <1>1, <2>1
    <3> QED
      BY <2>2, <2>11, <2>12, <3>1
  <2> QED
    BY <2>1, <2>2, <2>11, <2>12, <2>14, <2>15 DEF u
<1>6. \A i \in 0 .. n : i \in T
  <2> HIDE DEF T
  <2> QED
    BY <1>1, <1>4, <1>5, UpTo
<1>7. n \in 0 .. n
  BY <1>1
<1> QED
  BY <1>6, <1>7 DEF after

\* A call that has panicked caches nothing more.
LEMMA KeepsStopped ==
  ASSUME NEW a \in Spans, NEW fault \in Faults, NEW s \in Calls(a.start, a.end, fault), ~s.ok,
         NEW data \in Seq(Nat), Len(data) = a.num * BlockSize
  PROVE  Keeps(s, a, data)[a.num] = s
<1> DEFINE n == a.num
           after == Keeps(s, a, data)
<1>1. n \in Nat
  BY SpansType
<1>2. Keeping(s, a, data, after)
  BY KeepsType
<1> HIDE DEF after
<1> DEFINE T == {i \in 0 .. n : after[i] = s}
<1>3. 0 \in T
  BY <1>1, <1>2 DEF Keeping
<1>4. ASSUME NEW i \in 1 .. n, i - 1 \in T PROVE i \in T
  <2>1. after[i - 1] = s /\ i \in 0 .. n
    BY <1>4
  <2>2. after[i] = Update(s, a.start + i - 1,
                          IF Has(s.cache, a.start + i - 1) THEN data
                          ELSE Slice(data, (i - 1) * BlockSize, i * BlockSize), FALSE)
    BY <1>2, <2>1 DEF Keeping
  <2> QED
    BY <2>1, <2>2 DEF Update
<1>5. \A i \in 0 .. n : i \in T
  <2> HIDE DEF T
  <2> QED
    BY <1>1, <1>3, <1>4, UpTo
<1>6. n \in 0 .. n
  BY <1>1
<1> QED
  BY <1>5, <1>6 DEF after

\* A block that is not cached is present as the medium holds it.
LEMMA PresentRead ==
  ASSUME NEW first \in Int, NEW last \in Int, NEW fault \in Faults,
         NEW s \in Calls(first, last, fault), NEW b \in Block, ~Has(s.cache, b)
  PROVE  Present(s, b) = s.medium[b]
<1> DEFINE data == ReadBlocks(s, b, 1)
<1>1. b \in Nat /\ 1 \in Nat /\ b + 1 <= LastLba + 1 /\ 1 \in 1 .. 1 /\ b + 1 - 1 = b
  BY SizesType DEF Block
<1>2. data \in Seq(Nat) /\ Len(data) = 1 * BlockSize
  BY <1>1, ReadBlocksType
<1>3. Slice(data, (1 - 1) * BlockSize, 1 * BlockSize) = s.medium[b]
  <2>1. Slice(data, (1 - 1) * BlockSize, 1 * BlockSize) = s.medium[b + 1 - 1]
    BY <1>1, ReadChunk
  <2> QED
    BY <1>1, <2>1
<1>4. \A i \in 1 .. BlockSize : s.medium[b][i] = data[i]
  <2> DEFINE some == Slice(data, (1 - 1) * BlockSize, 1 * BlockSize)
  <2>1. \A j \in 1 .. BlockSize : some[j] = data[((1 - 1) * BlockSize) + j]
    BY <1>1, <1>2, ChunkType
  <2>2. some = s.medium[b]
    BY <1>3
  <2> HIDE DEF data, some
  <2>3. \A j \in 1 .. BlockSize : ((1 - 1) * BlockSize) + j = j
    BY SizesType
  <2> QED
    BY <2>1, <2>2, <2>3
<1>5. data \in Data /\ s.medium[b] \in Data
  BY <1>2, CallType, SizesType DEF Data
<1> HIDE DEF data
<1>6. s.medium[b] = data
  BY <1>4, <1>5, DataEqual
<1> QED
  BY <1>6 DEF Present, data

\* What write fetches when neither end is cached
LEMMA FetchSame ==
  ASSUME NEW first \in Int, NEW last \in Int, NEW fault \in Faults,
         NEW s \in Calls(first, last, fault), NEW b, ~Has(s.cache, b)
  PROVE  Fetch(s, b) \in Calls(first, last, fault) /\ Same(Fetch(s, b), s)
<1>1. CASE s.ok
  <2>1. Fetch(s, b) = SendRead(s)
    BY <1>1 DEF Fetch
  <2>2. Same(SendRead(s), s)
    BY SendReadSame
  <2> QED
    BY <2>1, <2>2, SendReadType
<1>2. CASE ~s.ok
  BY <1>2 DEF Fetch, Same
<1> QED
  BY <1>1, <1>2

\* A write of more blocks than a u16 counts changes nothing, and does not return.
LEMMA WriteTooManySound ==
  ASSUME NEW a \in Spans, NEW fault \in Faults, NEW s \in Calls(a.start, a.end, fault),
         \A b \in a.start .. a.end : ~Has(s.cache, b)
  PROVE  Same(WriteTooMany(s, a), s) /\ ~WriteTooMany(s, a).ok
<1> DEFINE S == Calls(a.start, a.end, fault)
           first == Fetch(s, a.start)
           seen == IF Counted(a.num) > 1 THEN Fetch(first, a.end) ELSE first
<1>1. /\ a.start \in Int /\ a.end \in Int
      /\ a.start \in a.start .. a.end /\ a.end \in a.start .. a.end
  BY SpansType
<1>2. first \in S /\ Same(first, s)
  BY <1>1, FetchSame
<1> HIDE DEF first
<1>3. ~Has(first.cache, a.end)
  BY <1>1, <1>2 DEF Same
<1>4. Fetch(first, a.end) \in S /\ Same(Fetch(first, a.end), first)
  BY <1>1, <1>2, <1>3, FetchSame
<1>5. seen \in S /\ Same(seen, s)
  BY <1>2, <1>4 DEF Same
<1>6. WriteTooMany(s, a) = [seen EXCEPT !.ok = FALSE]
  BY DEF WriteTooMany, first
<1> HIDE DEF seen
<1> QED
  BY <1>5, <1>6 DEF Calls, Same

\* A write over blocks none of which is cached: each is stored whole, or its WRITE
\* has failed, and the rest of the first and the last is as it was.
LEMMA WriteManySound ==
  ASSUME NEW a \in Spans, a.end < LastLba, NEW fault \in Faults,
         NEW s \in Calls(a.start, a.end, fault), NEW bytes \in Seq(Nat),
         a.num # 1, a.bytes <= Len(bytes),
         Clean(s), \A b \in a.start .. a.end : ~Has(s.cache, b),
         NEW wants, NEW may, Sound(s, wants, may),
         NEW wants1, NEW may1, Meets(a, bytes, wants, may, wants1, may1)
  PROVE  /\ Rewritten(WriteMany(s, a, bytes), s, a, bytes)
         /\ WriteMany(s, a, bytes).ok => Sound(WriteMany(s, a, bytes), wants1, may1)
<1> DEFINE S == Calls(a.start, a.end, fault)
           held == Present(s, a.start) \o [i \in 1 .. (a.num - 2) * BlockSize |-> 0]
                     \o Present(s, a.end)
           once == Fetch(s, a.start)
           seen == Fetch(once, a.end)
           given == [seen EXCEPT !.buf = held]
           patched == Copy(given, a.offset, a.offset + Len(bytes), bytes)
           data == patched.buf
           written == WriteBlocks(patched, a.start, a.num, data)
           r == WriteMany(s, a, bytes)
<1>1. /\ a.start \in Int /\ a.end \in Int /\ a.start \in Block /\ a.end \in Block
      /\ a.num \in Nat /\ a.num >= 2 /\ a.start \in Nat /\ a.start + a.num <= LastLba + 1
      /\ a.start \in a.start .. a.end /\ a.end \in a.start .. a.end
  <2>1. /\ a.start \in Block /\ a.end \in Block /\ a.start \in Nat /\ a.end \in Nat
        /\ a.end <= LastLba /\ a.num \in Nat \ {0} /\ a.num = a.end - a.start + 1
        /\ a.start <= a.end
    BY SpansType
  <2> QED
    BY <2>1, SizesType
<1>2. a.offset \in Int /\ a.offset + Len(bytes) \in Int
  BY SpansType, LenProperties
<1>3. Present(s, a.start) = s.medium[a.start] /\ Present(s, a.end) = s.medium[a.end]
  BY <1>1, PresentRead
<1>4. /\ held \in Seq(Nat) /\ Len(held) = a.num * BlockSize
      /\ Around(held, a.num, s.medium[a.start], s.medium[a.end])
  <2>1. s.medium[a.start] \in Data /\ s.medium[a.end] \in Data
    BY <1>1, CallType
  <2> QED
    BY <1>1, <1>3, <2>1, BufferType, BufferAt
<1>5. seen \in S /\ Same(seen, s)
  <2>1. once \in S /\ Same(once, s)
    BY <1>1, FetchSame
  <2> HIDE DEF once
  <2>2. ~Has(once.cache, a.end)
    BY <1>1, <2>1 DEF Same
  <2>3. seen \in S /\ Same(seen, once)
    BY <1>1, <2>1, <2>2, FetchSame
  <2> HIDE DEF seen
  <2> QED
    BY <2>1, <2>3 DEF Same
<1>6. r = IF patched.ok THEN Keeps(written, a, data)[a.num] ELSE patched
  BY DEF WriteMany
<1> HIDE DEF held, seen, r
<1>7. given \in S /\ Same(given, seen) /\ given.buf = held
  BY <1>1, <1>4, <1>5, GivenOne
<1> HIDE DEF given
<1>8. /\ patched \in S /\ Same(patched, given) /\ Len(patched.buf) = Len(given.buf)
      /\ patched.ok => CopiedTo(patched, given, a.offset, a.offset + Len(bytes), bytes)
  BY <1>1, <1>2, <1>7, CopySound, CopyType
<1> HIDE DEF patched
<1>9. data \in Seq(Nat) /\ Len(data) = a.num * BlockSize
  BY <1>1, <1>4, <1>7, <1>8, CallType
<1>10. Same(patched, s)
  BY <1>5, <1>7, <1>8 DEF Same
<1>11. CASE ~patched.ok
  <2>1. r = patched
    BY <1>6, <1>11
  <2>2. Rewritten(patched, s, a, bytes)
    BY <1>10 DEF Same, Rewritten
  <2> QED
    BY <1>11, <2>1, <2>2 DEF r
<1>12. CASE patched.ok
  <2>1. /\ Fits(a, bytes)
        /\ \A b \in a.start .. a.end : Patched(a, b, s.medium[b], bytes, Part(data, b - a.start))
    <3>1. s.medium \in [Block -> Data]
      BY <1>1, CallType
    <3>2. /\ given.buf \in Seq(Nat) /\ Len(given.buf) = a.num * BlockSize
          /\ Around(given.buf, a.num, s.medium[a.start], s.medium[a.end])
      BY <1>4, <1>7
    <3>3. CopiedTo(patched, given, a.offset, a.offset + Len(bytes), bytes)
      BY <1>8, <1>12
    <3> QED
      BY <1>1, <1>9, <3>1, <3>2, <3>3, ManyPatched
  <2>2. \A b \in a.start .. a.end : Part(data, b - a.start) \in Data
    <3>1. \A b \in a.start .. a.end : b - a.start \in 0 .. a.num - 1
      BY SpansType
    <3> QED
      BY <1>1, <1>9, <3>1, PartAt
  <2>3. Patches(a, bytes, patched, data)
    BY <1>10, <2>1, <2>2 DEF Patches, Same
  <2>4. Clean(patched) /\ Sound(patched, wants, may)
    BY <1>10, SameSound
  <2>5. \A b \in a.start .. a.end : ~Has(patched.cache, b)
    BY <1>10 DEF Same
  <2>6. StoredAs(written, patched, a.start, a.num, data)
    BY <1>1, <1>8, StoredType
  <2>7. written \in S
    BY <1>1, <1>8, <1>9, WriteBlocksType
  <2> HIDE DEF data, written
  <2>8. /\ Rewritten(written, patched, a, bytes)
        /\ Clean(written)
        /\ written.ok => Sound(written, wants1, may1) /\ Sent(written, a, data, wants1, may1)
    BY <1>8, <2>1, <2>3, <2>4, <2>5, <2>6, SentSound
  <2>9. Rewritten(written, s, a, bytes)
    BY <1>10, <2>8 DEF Rewritten, Same
  <2> DEFINE kept == Keeps(written, a, data)[a.num]
  <2>10. r = kept
    BY <1>6, <1>12
  <2>11. CASE written.ok
    <3>1. \A b \in a.start .. a.end : ~Has(written.cache, b)
      BY <2>5, <2>6 DEF StoredAs
    <3>2. Sound(kept, wants1, may1) /\ Like(kept, written)
      BY <1>9, <2>7, <2>8, <2>11, <3>1, KeepsSound
    <3> HIDE DEF kept
    <3>3. Rewritten(kept, s, a, bytes)
      BY <2>9, <3>2 DEF Rewritten, Like
    <3> QED
      BY <2>10, <3>2, <3>3 DEF r
  <2>12. CASE ~written.ok
    <3>1. kept = written
      BY <1>9, <2>7, <2>12, KeepsStopped
    <3> HIDE DEF kept
    <3> QED
      BY <2>9, <2>10, <2>12, <3>1 DEF r
  <2> QED
    BY <2>11, <2>12
<1> QED
  BY <1>11, <1>12

-----------------------------------------------------------------------------
(* flush_cache *)

\* What a WRITE of one block leaves
StoredOne(w, s, b, data) ==
  /\ w.cache = s.cache /\ s.lost \subseteq w.lost
  /\ \A c \in Block : w.medium[c] = s.medium[c] \/ (c = b /\ w.medium[c] = data)
  /\ w.ok => s.ok /\ (b \in w.lost \/ w.medium[b] = data)

LEMMA StoredOneType ==
  ASSUME NEW first \in Int, NEW last \in Int, NEW fault \in Faults,
         NEW s \in Calls(first, last, fault), NEW b \in Block, NEW data \in Data
  PROVE  StoredOne(WriteBlocks(s, b, 1, data), s, b, data)
<1> DEFINE w == WriteBlocks(s, b, 1, data)
<1>1. b \in Nat /\ 1 \in Nat /\ b + 1 <= LastLba + 1
      /\ \A c \in b .. b + 1 - 1 : c = b /\ c - b = 0
      /\ b \in b .. b + 1 - 1 /\ b - b = 0
  BY SizesType DEF Block
<1>2. StoredAs(w, s, b, 1, data)
  BY <1>1, StoredType
<1> HIDE DEF w
<1>3. Part(data, 0) = data
  <2>1. data \in Seq(Nat) /\ Len(data) = 1 * BlockSize /\ 0 \in 0 .. 1 - 1
    BY SizesType DEF Data
  <2>2. Part(data, 0) \in Data /\ \A i \in 1 .. BlockSize : Part(data, 0)[i] = data[(0 * BlockSize) + i]
    BY <2>1, PartAt
  <2>3. \A i \in 1 .. BlockSize : (0 * BlockSize) + i = i
    BY SizesType
  <2> QED
    BY <2>2, <2>3, DataEqual
<1>4. StoredOne(w, s, b, data)
  BY <1>1, <1>2, <1>3 DEF StoredAs, StoredOne
<1> QED
  BY <1>4 DEF w

\* What the writing of the first i entries leaves
BackTo(t, s, i) ==
  /\ t.cache = s.cache /\ s.lost \subseteq t.lost
  /\ \A b \in Block : \/ t.medium[b] = s.medium[b]
                      \/ \E j \in 1 .. i : /\ s.cache[j].block = b
                                           /\ t.medium[b] = s.cache[j].data
  /\ t.ok => \A j \in 1 .. i : s.cache[j].dirty =>
               s.cache[j].block \in t.lost \/ t.medium[s.cache[j].block] = s.cache[j].data

LEMMA WriteBackStep ==
  ASSUME NEW first \in Int, NEW last \in Int, NEW fault \in Faults,
         NEW s \in Calls(first, last, fault), NEW t \in Calls(first, last, fault),
         NEW i \in 1 .. Len(s.cache), BackTo(t, s, i - 1)
  PROVE  BackTo(WriteBack(t, s.cache[i]), s, i)
<1> DEFINE e == s.cache[i]
           n == Len(s.cache)
           u == WriteBack(t, e)
<1>1. /\ e.block \in Block /\ e.data \in Data /\ e.dirty \in BOOLEAN
      /\ \A j \in 1 .. n : s.cache[j].block \in Block
      /\ \A j \in 1 .. n : s.cache[j].block = e.block => j = i
  <2>1. s.cache \in Caches
    BY CallType
  <2>2. \A j, k \in 1 .. n : s.cache[j].block = s.cache[k].block => j = k
    BY <2>1, EntriesType, LenProperties DEF Tidy
  <2> QED
    BY <2>1, <2>2, EntriesType
<1>2. /\ n \in Nat /\ i \in Nat /\ i \in 1 .. i
      /\ \A j \in 1 .. i - 1 : j \in 1 .. n /\ j \in 1 .. i /\ j # i
      /\ \A j \in 1 .. i : j \in 1 .. i - 1 \/ j = i
  BY CallType, EntriesType, LenProperties
<1>3. e = s.cache[i]
  OBVIOUS
<1> HIDE DEF e, n
<1>4. ASSUME t.ok, e.dirty PROVE BackTo(u, s, i)
  <2>1. u = WriteBlocks(t, e.block, 1, e.data)
    BY <1>4 DEF WriteBack
  <2>2. StoredOne(u, t, e.block, e.data)
    BY <1>1, <2>1, StoredOneType
  <2> HIDE DEF u
  <2>3. u.cache = s.cache /\ s.lost \subseteq u.lost
    BY <2>2 DEF BackTo, StoredOne
  <2>4. ASSUME NEW b \in Block
        PROVE  \/ u.medium[b] = s.medium[b]
               \/ \E j \in 1 .. i : s.cache[j].block = b /\ u.medium[b] = s.cache[j].data
    <3>1. CASE b = e.block /\ u.medium[b] = e.data
      BY <1>2, <1>3, <3>1
    <3>2. CASE u.medium[b] = t.medium[b]
      BY <1>2, <3>2 DEF BackTo
    <3> QED
      BY <2>2, <3>1, <3>2 DEF StoredOne
  <2>5. ASSUME u.ok, NEW j \in 1 .. i, s.cache[j].dirty
        PROVE  s.cache[j].block \in u.lost \/ u.medium[s.cache[j].block] = s.cache[j].data
    <3>1. CASE j = i
      BY <1>3, <2>2, <2>5, <3>1 DEF StoredOne
    <3>2. CASE j \in 1 .. i - 1
      <4> DEFINE d == s.cache[j]
      <4>1. d.block \in t.lost \/ t.medium[d.block] = d.data
        BY <1>4, <2>5, <3>2 DEF BackTo
      <4>2. d.block \in Block /\ d.block # e.block
        BY <1>1, <1>2, <3>2
      <4> HIDE DEF d
      <4>3. u.medium[d.block] = t.medium[d.block] /\ t.lost \subseteq u.lost
        BY <2>2, <4>2 DEF StoredOne
      <4> QED
        BY <4>1, <4>3 DEF d
    <3> QED
      BY <1>2, <3>1, <3>2
  <2> QED
    BY <2>3, <2>4, <2>5 DEF BackTo
<1>5. ASSUME ~(t.ok /\ e.dirty) PROVE BackTo(u, s, i)
  <2>1. u = t
    BY <1>5 DEF WriteBack
  <2> HIDE DEF u
  <2>2. \A b \in Block :
          \/ t.medium[b] = s.medium[b]
          \/ \E j \in 1 .. i : s.cache[j].block = b /\ t.medium[b] = s.cache[j].data
    BY <1>2 DEF BackTo
  <2>3. ASSUME t.ok, NEW j \in 1 .. i, s.cache[j].dirty
        PROVE  s.cache[j].block \in t.lost \/ t.medium[s.cache[j].block] = s.cache[j].data
    <3>1. j # i
      BY <1>3, <1>5, <2>3
    <3> QED
      BY <1>2, <2>3, <3>1 DEF BackTo
  <2>4. BackTo(t, s, i)
    BY <2>2, <2>3 DEF BackTo
  <2> QED
    BY <2>1, <2>4
<1>6. BackTo(u, s, i)
  BY <1>1, <1>4, <1>5
<1> QED
  BY <1>3, <1>6 DEF u

LEMMA WritesBackAll ==
  ASSUME NEW first \in Int, NEW last \in Int, NEW fault \in Faults,
         NEW s \in Calls(first, last, fault)
  PROVE  /\ WritesBack(s)[Len(s.cache)] \in Calls(first, last, fault)
         /\ BackTo(WritesBack(s)[Len(s.cache)], s, Len(s.cache))
<1> DEFINE n == Len(s.cache)
           after == WritesBack(s)
<1>1. n \in Nat
  BY CallType, EntriesType, LenProperties
<1>2. /\ \A i \in 0 .. n : after[i] \in Calls(first, last, fault)
      /\ after[0] = s
      /\ \A i \in 1 .. n : after[i] = WriteBack(after[i - 1], s.cache[i])
  BY WritesBackType
<1> HIDE DEF after
<1> DEFINE T == {i \in 0 .. n : BackTo(after[i], s, i)}
<1>3. 0 \in T
  BY <1>1, <1>2 DEF BackTo
<1>4. ASSUME NEW i \in 1 .. n, i - 1 \in T PROVE i \in T
  <2>1. i - 1 \in 0 .. n /\ i \in 0 .. n
    BY <1>1
  <2>2. after[i - 1] \in Calls(first, last, fault) /\ BackTo(after[i - 1], s, i - 1)
    BY <1>2, <1>4, <2>1
  <2>3. BackTo(WriteBack(after[i - 1], s.cache[i]), s, i)
    BY <2>2, WriteBackStep
  <2> QED
    BY <1>2, <2>1, <2>3
<1>5. \A i \in 0 .. n : i \in T
  <2> HIDE DEF T, n
  <2> QED
    BY <1>1, <1>3, <1>4, UpTo
<1>6. n \in 0 .. n
  BY <1>1
<1> QED
  BY <1>2, <1>5, <1>6 DEF after

\* What flush_cache leaves of the medium: each block as it was, or as expected.
Brought(r, s, wants, may) ==
  /\ s.lost \subseteq r.lost
  /\ \A b \in Inside : \/ r.medium[b] = s.medium[b]
                       \/ r.medium[b] \in may[b] /\ (b \in r.lost \/ r.medium[b] = wants[b])

\* flush_cache: what is expected is on the medium, unless a WRITE of it has failed.
LEMMA FlushSound ==
  ASSUME NEW first \in Int, NEW last \in Int, NEW fault \in Faults,
         NEW s \in Calls(first, last, fault), NEW wants, NEW may, Sound(s, wants, may)
  PROVE  /\ Brought(Flushed(s), s, wants, may)
         /\ Flushed(s).ok => Sound(Flushed(s), wants, may) /\ Clean(Flushed(s))
<1> DEFINE n == Len(s.cache)
           w == WritesBack(s)[n]
           r == Flushed(s)
<1>1. w \in Calls(first, last, fault) /\ BackTo(w, s, n)
  BY WritesBackAll
<1>2. r = IF w.ok THEN [w EXCEPT !.cache = <<>>] ELSE w
  BY DEF Flushed
<1> HIDE DEF w, r
<1>3. r.medium = w.medium /\ r.lost = w.lost /\ (r.ok => w.ok /\ r.cache = <<>>)
  BY <1>1, <1>2 DEF Calls
<1>4. ASSUME NEW b \in Inside
      PROVE  \/ w.medium[b] = s.medium[b]
             \/ w.medium[b] \in may[b] /\ (b \in w.lost \/ w.medium[b] = wants[b])
  <2>1. b \in Block
    BY InsideType
  <2>2. ASSUME NEW j \in 1 .. n, s.cache[j].block = b, w.medium[b] = s.cache[j].data
        PROVE  w.medium[b] \in may[b] /\ (b \in w.lost \/ w.medium[b] = wants[b])
    <3>1. EntrySound(s.cache[j], s.medium, s.lost, wants, may)
      BY DEF Sound, SoundIn
    <3> QED
      BY <1>1, <2>2, <3>1 DEF EntrySound, BackTo
  <2> QED
    BY <1>1, <2>1, <2>2 DEF BackTo
<1>5. Brought(r, s, wants, may)
  BY <1>1, <1>3, <1>4 DEF Brought, BackTo
<1>6. ASSUME r.ok PROVE Sound(r, wants, may) /\ Clean(r)
  <2>1. Len(r.cache) = 0
    BY <1>3, <1>6
  <2>2. Clean(r)
    BY <2>1 DEF Clean
  <2>3. ASSUME NEW b \in Inside PROVE BlockSound(b, w.medium, r.cache, w.lost, wants, may)
    <3>1. BlockSound(b, s.medium, s.cache, s.lost, wants, may)
      BY DEF Sound, SoundIn
    <3>2. w.medium[b] \in may[b]
      BY <1>4, <3>1 DEF BlockSound
    <3>3. b \in w.lost \/ w.medium[b] = wants[b]
      <4>1. CASE DirtyIn(s.cache, b)
        <5>1. PICK j \in 1 .. n : s.cache[j].block = b /\ s.cache[j].dirty
          BY <4>1 DEF DirtyIn
        <5>2. b \in w.lost \/ w.medium[b] = s.cache[j].data
          BY <1>1, <1>3, <1>6, <5>1 DEF BackTo
        <5>3. b \in s.lost \/ s.cache[j].data = wants[b]
          BY <5>1 DEF Sound, SoundIn, EntrySound
        <5> QED
          BY <1>1, <5>2, <5>3 DEF BackTo
      <4>2. CASE ~DirtyIn(s.cache, b)
        <5>1. b \in s.lost \/ s.medium[b] = wants[b]
          BY <3>1, <4>2 DEF BlockSound
        <5> QED
          BY <1>1, <1>4, <5>1 DEF BackTo
      <4> QED
        BY <4>1, <4>2
    <3> QED
      BY <3>2, <3>3 DEF BlockSound
  <2>4. \A i \in 1 .. Len(r.cache) : EntrySound(r.cache[i], w.medium, w.lost, wants, may)
    BY <2>1
  <2> QED
    BY <1>3, <2>2, <2>3, <2>4 DEF Sound, SoundIn
<1> QED
  BY <1>5, <1>6 DEF r

-----------------------------------------------------------------------------
(* What is expected of the disk *)

\* The address of byte i of block b
AddressOf(b, i) == ((b * BlockSize) + i) - 1

\* What a byte may be: what was there at first, or was written there.
MayHold(address) == {Original(address)} \cup {Value(w, address) : w \in 1 .. writes}

Expects == [b \in Inside |-> [i \in 1 .. BlockSize |-> disk[AddressOf(b, i)]]]

Possible ==
  [b \in Inside |-> {data \in Data : \A i \in 1 .. BlockSize : data[i] \in MayHold(AddressOf(b, i))}]

LEMMA AddressType ==
  ASSUME NEW b \in Inside, NEW i \in 1 .. BlockSize
  PROVE  /\ AddressOf(b, i) \in 0 .. Capacity - 1
         /\ BlockOf(AddressOf(b, i)) = b
         /\ (AddressOf(b, i) % BlockSize) + 1 = i
<1> DEFINE bb == b * BlockSize
           cc == LastLba * BlockSize
<1>1. b \in Nat /\ b + 1 \in Nat /\ b + 1 <= LastLba /\ LastLba \in Nat
  BY SizesType DEF Inside
<1>2. bb \in Nat /\ cc \in Nat /\ bb + BlockSize <= cc
  <2>1. (b + 1) * BlockSize <= cc
    BY <1>1, Products
  <2>2. (b + 1) * BlockSize = bb + BlockSize
    BY <1>1, SizesType
  <2> QED
    BY <1>1, <2>1, <2>2, Products
<1>3. i - 1 \in 0 .. BlockSize - 1 /\ (i - 1) + 1 = i
  BY SizesType
<1>4. (bb + (i - 1)) \div BlockSize = b /\ (bb + (i - 1)) % BlockSize = i - 1
  BY <1>1, <1>3, Division
<1> HIDE DEF bb, cc
<1>5. AddressOf(b, i) = bb + (i - 1)
  BY <1>2, SizesType DEF AddressOf, bb
<1>6. bb + (i - 1) \in 0 .. cc - 1
  BY <1>2, SizesType
<1> QED
  BY <1>3, <1>4, <1>5, <1>6 DEF BlockOf, Capacity, cc

LEMMA AddressIn ==
  ASSUME NEW address \in 0 .. Capacity - 1
  PROVE  \E b \in Inside, i \in 1 .. BlockSize :
           /\ address = AddressOf(b, i)
           /\ BlockOf(address) = b /\ (address % BlockSize) + 1 = i
<1> DEFINE b == address \div BlockSize
           j == address % BlockSize
           i == j + 1
<1>1. address \in Nat /\ address <= Capacity - 1
  BY CapacityType
<1>2. b \in Nat /\ j \in 0 .. BlockSize - 1 /\ address = (b * BlockSize) + j
  BY <1>1, Divided
<1>3. BlockOf(address) = b /\ (address % BlockSize) + 1 = i
  BY DEF BlockOf
<1> HIDE DEF b, j
<1>4. b < LastLba
  <2> DEFINE bb == b * BlockSize
             cc == LastLba * BlockSize
  <2>1. bb \in Nat /\ cc \in Nat
    BY <1>2, SizesType, WholeBytes
  <2>2. b >= LastLba => cc <= bb
    BY <1>2, SizesType, Products
  <2>3. bb + j <= cc - 1
    BY <1>1, <1>2 DEF Capacity
  <2> HIDE DEF bb, cc
  <2> QED
    BY <1>2, <2>1, <2>2, <2>3, SizesType
<1>5. b \in Inside /\ i \in 1 .. BlockSize
  BY <1>2, <1>4, SizesType DEF Inside
<1>6. address = AddressOf(b, i)
  <2> DEFINE bb == b * BlockSize
  <2>1. bb \in Nat /\ address = bb + j
    BY <1>2, WholeBytes
  <2> HIDE DEF bb
  <2>2. address = (bb + i) - 1
    BY <1>2, <2>1, SizesType
  <2> QED
    BY <2>2 DEF AddressOf, bb
<1> QED
  BY <1>3, <1>5, <1>6

\* The invariants, block by block
FlushedBlocks ==
  \A b \in Inside, i \in 1 .. BlockSize :
    AddressOf(b, i) \in unsaved \/ b \in lost \/ medium[b][i] = Expects[b][i]

LEMMA FlushedAs ==
  ASSUME TypeOK
  PROVE  FlushedIsOnMedium <=> FlushedBlocks
<1>1. DOMAIN disk = 0 .. Capacity - 1
  BY DEF TypeOK
<1>2. ASSUME FlushedIsOnMedium, NEW b \in Inside, NEW i \in 1 .. BlockSize
      PROVE  AddressOf(b, i) \in unsaved \/ b \in lost \/ medium[b][i] = Expects[b][i]
  <2> DEFINE address == AddressOf(b, i)
  <2>1. address \in 0 .. Capacity - 1 /\ BlockOf(address) = b /\ (address % BlockSize) + 1 = i
    BY AddressType
  <2>2. Expects[b][i] = disk[address]
    BY DEF Expects
  <2> HIDE DEF address
  <2>3. address \in unsaved \/ BlockOf(address) \in lost \/ OnMedium(address) = disk[address]
    BY <1>1, <1>2, <2>1 DEF FlushedIsOnMedium
  <2>4. OnMedium(address) = medium[b][i]
    BY <2>1 DEF OnMedium
  <2> QED
    BY <2>1, <2>2, <2>3, <2>4 DEF address
<1>3. ASSUME FlushedBlocks, NEW address \in DOMAIN disk
      PROVE  address \in unsaved \/ BlockOf(address) \in lost \/ OnMedium(address) = disk[address]
  <2>1. PICK b \in Inside, i \in 1 .. BlockSize :
          address = AddressOf(b, i) /\ BlockOf(address) = b /\ (address % BlockSize) + 1 = i
    BY <1>1, AddressIn
  <2>2. Expects[b][i] = disk[address]
    BY <2>1 DEF Expects
  <2>3. OnMedium(address) = medium[b][i]
    BY <2>1 DEF OnMedium
  <2> QED
    BY <1>3, <2>1, <2>2, <2>3 DEF FlushedBlocks
<1> QED
  BY <1>2, <1>3 DEF FlushedBlocks, FlushedIsOnMedium

InPlace == \A b \in Inside : medium[b] \in Possible[b]

LEMMA InPlaceBytes ==
  ASSUME TypeOK, InPlace
  PROVE  BytesStayInPlace
<1>1. DOMAIN disk = 0 .. Capacity - 1
  BY DEF TypeOK
<1>2. ASSUME NEW address \in DOMAIN disk PROVE OnMedium(address) \in MayHold(address)
  <2>1. PICK b \in Inside, i \in 1 .. BlockSize :
          address = AddressOf(b, i) /\ BlockOf(address) = b /\ (address % BlockSize) + 1 = i
    BY <1>1, AddressIn
  <2>2. medium[b][i] \in MayHold(AddressOf(b, i))
    BY DEF InPlace, Possible
  <2> QED
    BY <2>1, <2>2 DEF OnMedium
<1> QED
  BY <1>2 DEF BytesStayInPlace, MayHold

\* The state of a guest that has not panicked
Intact == SoundIn(medium, cache, lost, Expects, Possible)

\* The inductive invariant of a careful guest
CarefulInv ==
  /\ TypeOK
  /\ device # "panicked" => Intact
  /\ InPlace
  /\ FlushedIsOnMedium
  /\ ReadsAsWritten

LEMMA CarefulInit == ASSUME Init PROVE CarefulInv
<1>1. TypeOK
  BY InitType
<1>2. /\ medium = [b \in Block |-> [i \in 1 .. BlockSize |-> Original(b * BlockSize + i - 1)]]
      /\ cache = <<>> /\ answer = None /\ disk = [address \in 0 .. Capacity - 1 |-> Original(address)]
  BY DEF Init
<1>3. ASSUME NEW b \in Inside
      PROVE  /\ medium[b] \in Data /\ Expects[b] = [i \in 1 .. BlockSize |-> disk[AddressOf(b, i)]]
             /\ \A i \in 1 .. BlockSize : /\ medium[b][i] = Original(AddressOf(b, i))
                                          /\ Expects[b][i] = Original(AddressOf(b, i))
  <2>1. b \in Block
    BY InsideType
  <2>2. medium[b] \in Data
    BY <1>1, <2>1 DEF TypeOK, Data
  <2>3. ASSUME NEW i \in 1 .. BlockSize
        PROVE  medium[b][i] = Original(AddressOf(b, i)) /\ Expects[b][i] = Original(AddressOf(b, i))
    <3>1. medium[b][i] = Original(b * BlockSize + i - 1)
      BY <1>2, <2>1
    <3>2. AddressOf(b, i) \in 0 .. Capacity - 1
      BY AddressType
    <3>3. Expects[b][i] = disk[AddressOf(b, i)]
      BY DEF Expects
    <3>4. medium[b][i] = Original(AddressOf(b, i))
      <4> DEFINE bb == b * BlockSize
      <4>1. bb \in Nat
        BY InsideType, WholeBytes
      <4>2. medium[b][i] = Original(bb + i - 1)
        BY <3>1
      <4>3. AddressOf(b, i) = (bb + i) - 1
        BY DEF AddressOf
      <4> HIDE DEF bb
      <4>4. (bb + i) - 1 = bb + i - 1
        BY <4>1
      <4> QED
        BY <4>2, <4>3, <4>4
    <3>5. disk[AddressOf(b, i)] = Original(AddressOf(b, i))
      BY <1>2, <3>2
    <3> QED
      BY <3>3, <3>4, <3>5
  <2> QED
    BY <2>2, <2>3 DEF Expects
<1>4. InPlace
  BY <1>3 DEF InPlace, Possible, MayHold
<1>5. \A b \in Inside : medium[b] = Expects[b]
  <2>1. ASSUME NEW b \in Inside PROVE medium[b] = Expects[b]
    <3>1. medium[b] = [i \in 1 .. BlockSize |-> Original(b * BlockSize + i - 1)]
      BY <1>2, InsideType
    <3>2. \A i \in 1 .. BlockSize : Original(b * BlockSize + i - 1) = disk[AddressOf(b, i)]
      BY <1>3, <3>1
    <3> QED
      BY <1>3, <3>1, <3>2
  <2> QED
    BY <2>1
<1>6. Len(cache) = 0
  BY <1>2
<1>7. Intact
  BY <1>4, <1>5, <1>6 DEF Intact, SoundIn, BlockSound, InPlace
<1>8. FlushedIsOnMedium
  <2>1. FlushedBlocks
    BY <1>5 DEF FlushedBlocks
  <2> QED
    BY <1>1, <2>1, FlushedAs
<1>9. ReadsAsWritten
  BY <1>2 DEF ReadsAsWritten
<1> QED
  BY <1>1, <1>4, <1>7, <1>8, <1>9 DEF CarefulInv

-----------------------------------------------------------------------------
(* Its steps *)

\* An access ends before the last block, which is not part of the disk; one that is
\* cut short ends with a block.
LEMMA SpanEnd ==
  ASSUME NEW length \in Nat \ {0}, cursor \in 0 .. Capacity, Span(length).bytes > 0
  PROVE  /\ Span(length).end < LastLba
         /\ Span(length).offset + length <= Span(length).num * BlockSize => Span(length).bytes = length
<1> DEFINE a == Span(length)
           sb == a.start * BlockSize
           eb == a.end * BlockSize
           cc == LastLba * BlockSize
           nb == a.num * BlockSize
           whole == (a.num - 1) * BlockSize
<1>1. a \in Spans /\ cursor + a.bytes <= cc /\ a.bytes <= length /\ cursor = sb + a.offset
  BY SpanType DEF Capacity
<1>2. a.bytes = length \/ cursor + a.bytes = cc
  <2>1. cursor \in Nat /\ Capacity \in Nat
    BY CapacityType
  <2>2. a.bytes = (IF cursor + length < Capacity THEN cursor + length ELSE Capacity) - cursor
    BY DEF Span
  <2> HIDE DEF a, cc
  <2>3. a.bytes = length \/ cursor + a.bytes = Capacity
    BY <2>1, <2>2
  <2> QED
    BY <2>3 DEF Capacity, cc
<1> HIDE DEF a
<1>3. /\ a.start \in Nat /\ a.end \in Nat /\ a.num \in Nat \ {0} /\ a.start <= a.end
      /\ a.num = a.end - a.start + 1 /\ a.bytes \in Nat /\ a.offset \in Nat
      /\ a.offsetEnd \in 1 .. BlockSize /\ a.offset + a.bytes = whole + a.offsetEnd
  BY <1>1, SpansType
<1>4. /\ sb \in Nat /\ eb \in Nat /\ cc \in Nat /\ nb \in Nat /\ whole \in Nat
      /\ whole = eb - sb /\ nb = whole + BlockSize
  <2>1. a.num - 1 = a.end - a.start /\ a.num - 1 \in Nat /\ a.num \in Nat
    BY <1>3
  <2>2. (a.end - a.start) * BlockSize = eb - sb
    BY <1>3, Products
  <2>3. (a.num - (a.num - 1)) * BlockSize = nb - whole
    <3>1. a.num - 1 <= a.num
      BY <2>1
    <3> QED
      BY <2>1, <3>1, Products
  <2>4. (a.num - (a.num - 1)) * BlockSize = BlockSize
    BY <2>1, SizesType
  <2>5. sb \in Nat /\ eb \in Nat /\ cc \in Nat /\ nb \in Nat /\ whole \in Nat
    BY <1>3, <2>1, SizesType, WholeBytes
  <2>6. whole = eb - sb
    BY <2>1, <2>2
  <2> HIDE DEF sb, eb, cc, nb, whole
  <2> QED
    BY <2>3, <2>4, <2>5, <2>6, SizesType
<1>5. a.end >= LastLba => cc <= eb
  BY <1>3, SizesType, Products
<1>6. LastLba \in Nat /\ BlockSize \in Nat \ {0}
  BY SizesType
<1> HIDE DEF sb, eb, cc, nb, whole
<1>8. eb + a.offsetEnd <= cc
  BY <1>1, <1>3, <1>4
<1>9. a.end < LastLba
  BY <1>3, <1>4, <1>5, <1>6, <1>8
<1>10. cursor + a.bytes = cc => a.offset + a.bytes = nb
  <2> SUFFICES ASSUME cursor + a.bytes = cc PROVE a.offset + a.bytes = nb
    OBVIOUS
  <2> DEFINE lb == LastLba * BlockSize
             mb == (a.end + 1) * BlockSize
  <2>1. mb <= lb /\ mb = eb + BlockSize
    <3>1. a.end + 1 \in Nat /\ a.end + 1 <= LastLba
      BY <1>3, <1>6, <1>9
    <3>2. mb <= lb
      BY <1>6, <3>1, Products
    <3>3. mb = (a.end * BlockSize) + BlockSize
      BY <1>3, SizesType
    <3> QED
      BY <3>2, <3>3 DEF eb
  <2>2. lb = cc
    BY DEF cc
  <2> HIDE DEF lb, mb
  <2> QED
    BY <1>1, <1>3, <1>4, <1>6, <2>1, <2>2
<1>11. a.offset + length <= nb => a.bytes = length
  <2> SUFFICES ASSUME a.offset + length <= nb PROVE a.bytes = length
    OBVIOUS
  <2>1. CASE cursor + a.bytes = cc
    <3> DEFINE o == a.offset
               m == a.bytes
    <3>1. o \in Nat /\ m \in Nat /\ m <= length /\ o + m = nb /\ o + length <= nb
      BY <1>1, <1>3, <1>10, <2>1
    <3> HIDE DEF o, m
    <3>2. m = length
      BY <3>1
    <3> QED
      BY <3>2 DEF m
  <2> QED
    BY <1>2, <2>1
<1> QED
  BY <1>9, <1>11 DEF a, nb

\* A call starts with what the guest has.
StartsAs(s, length) ==
  /\ s.medium = medium /\ s.cache = cache /\ s.lost = lost
  /\ s.ok /\ Len(s.buf) = length

LEMMA StartsHere ==
  ASSUME NEW length \in Nat, NEW s \in Starts(length)
  PROVE  StartsAs(s, length)
<1> DEFINE t == Start(length)
<1>1. StartsAs(t, length)
  BY DEF StartsAs, Start
<1>2. \A fault : StartsAs([t EXCEPT !.fault = fault], length)
  BY DEF StartsAs, Start
<1> QED
  BY <1>1, <1>2 DEF Starts

LEMMA StartsSound ==
  ASSUME NEW length, NEW s, StartsAs(s, length), NEW wants, NEW may
  PROVE  Sound(s, wants, may) <=> SoundIn(medium, cache, lost, wants, may)
BY DEF StartsAs, Sound

\* Byte i of an access is byte l of block b, at its address.
ByteAt(a, i, b, l) ==
  /\ b \in a.start .. a.end /\ b \in Inside /\ l \in 1 .. BlockSize
  /\ ByteOf(a.offset + i, b - a.start, l)
  /\ AddressOf(b, l) = cursor + i - 1

LEMMA ByteIn ==
  ASSUME NEW a \in Spans, a.end < LastLba, cursor = (a.start * BlockSize) + a.offset,
         NEW i \in 1 .. a.bytes
  PROVE  \E b, l : ByteAt(a, i, b, l)
<1>1. /\ a.start \in Nat /\ a.end \in Nat /\ a.offset \in 0 .. BlockSize - 1 /\ a.bytes \in Nat
      /\ a.num \in Nat \ {0} /\ a.num = a.end - a.start + 1 /\ a.offsetEnd \in 1 .. BlockSize
      /\ a.offset + a.bytes = ((a.num - 1) * BlockSize) + a.offsetEnd
  BY SpansType
<1> DEFINE q == a.offset + i - 1
           c == q \div BlockSize
           j == q % BlockSize
           b == a.start + c
<1>2. q \in Nat /\ q = a.offset + i - 1
  BY <1>1, SizesType
<1> HIDE DEF q
<1>3. c \in Nat /\ j \in 0 .. BlockSize - 1 /\ q = (c * BlockSize) + j
  BY <1>2, Divided
<1> HIDE DEF c, j
<1>4. c <= a.num - 1
  <2> DEFINE nb == (a.num - 1) * BlockSize
             k == a.offsetEnd - 1
  <2>1. k \in 0 .. BlockSize - 1 /\ a.num - 1 \in Nat
    BY <1>1, SizesType
  <2>2. nb \in Nat /\ a.offset + a.bytes = nb + (k + 1)
    BY <1>1, <2>1, WholeBytes
  <2> HIDE DEF nb
  <2>3. q <= nb + k
    BY <1>1, <1>2, <2>1, <2>2, SizesType
  <2>4. (c * BlockSize) + j <= ((a.num - 1) * BlockSize) + k
    BY <1>3, <2>3 DEF nb
  <2> HIDE DEF k
  <2> QED
    BY <1>3, <2>1, <2>4, Ordered
<1>5. b \in a.start .. a.end /\ b - a.start = c /\ b \in Inside /\ b \in Nat
  BY <1>1, <1>3, <1>4, SizesType DEF Inside
<1>6. j + 1 \in 1 .. BlockSize
  BY <1>3, SizesType
<1>7. ByteOf(a.offset + i, b - a.start, j + 1)
  <2> DEFINE cb == c * BlockSize
  <2>1. cb \in Nat /\ q = cb + j
    BY <1>3, WholeBytes
  <2> DEFINE o == a.offset
  <2>3. o \in Nat /\ j \in Nat /\ q = o + i - 1 /\ i \in Int
    BY <1>1, <1>2, <1>3, SizesType
  <2> HIDE DEF cb, o
  <2>4. o + i = cb + (j + 1)
    BY <2>1, <2>3
  <2>2. a.offset + i = cb + (j + 1)
    BY <2>4 DEF o
  <2> QED
    BY <1>5, <2>2 DEF ByteOf, cb
<1>8. AddressOf(b, j + 1) = cursor + i - 1
  <2> DEFINE sb == a.start * BlockSize
             cb == c * BlockSize
             bb == b * BlockSize
  <2>1. sb \in Nat /\ cb \in Nat /\ bb \in Nat /\ bb = sb + cb
    <3>1. b * BlockSize = (a.start * BlockSize) + (c * BlockSize)
      BY <1>1, <1>3, SizesType
    <3> QED
      BY <1>1, <1>3, <1>5, <3>1, WholeBytes
  <2>2. cursor = sb + a.offset /\ q = cb + j
    BY <1>3
  <2>3. AddressOf(b, j + 1) = (bb + (j + 1)) - 1
    BY DEF AddressOf
  <2> HIDE DEF sb, cb, bb, b
  <2> QED
    BY <1>1, <1>2, <1>3, <2>1, <2>2, <2>3, SizesType
<1> QED
  BY <1>5, <1>6, <1>7, <1>8 DEF ByteAt

\* Whatever byte of a block is byte i of an access, its address says so.
LEMMA ByteAddress ==
  ASSUME NEW a \in Spans, cursor = (a.start * BlockSize) + a.offset, NEW i \in Int,
         NEW b \in a.start .. a.end, NEW l \in 1 .. BlockSize, ByteOf(a.offset + i, b - a.start, l)
  PROVE  AddressOf(b, l) = cursor + i - 1
<1> DEFINE sb == a.start * BlockSize
           cb == (b - a.start) * BlockSize
           bb == b * BlockSize
           o == a.offset
<1>1. a.start \in Nat /\ b \in Nat /\ a.start <= b /\ o \in Nat
  BY SpansType
<1>2. sb \in Nat /\ bb \in Nat /\ cb = bb - sb
  BY <1>1, Products
<1>3. o + i = cb + l /\ cursor = sb + o /\ AddressOf(b, l) = (bb + l) - 1
  BY DEF ByteOf, AddressOf
<1> HIDE DEF sb, cb, bb, o
<1> QED
  BY <1>1, <1>2, <1>3

\* The byte of an access that byte l of block b would be
LEMMA ByteOfBlock ==
  ASSUME NEW a \in Spans, NEW b \in a.start .. a.end, NEW l \in 1 .. BlockSize
  PROVE  \E i \in Int : ByteOf(a.offset + i, b - a.start, l)
<1> DEFINE cb == (b - a.start) * BlockSize
           o == a.offset
           i == (cb + l) - o
<1>1. b - a.start \in Nat /\ o \in Nat
  BY SpansType
<1>2. cb \in Nat
  BY <1>1, WholeBytes
<1>3. cb = (b - a.start) * BlockSize /\ o = a.offset
  OBVIOUS
<1> HIDE DEF cb, o
<1>4. i \in Int /\ o + i = cb + l
  BY <1>1, <1>2
<1>5. ByteOf(a.offset + i, b - a.start, l)
  BY <1>3, <1>4 DEF ByteOf
<1> QED
  BY <1>4, <1>5

\* What is answered is what is expected.
LEMMA FilledAnswer ==
  ASSUME NEW a \in Spans, a.end < LastLba, cursor = (a.start * BlockSize) + a.offset,
         NEW r, Filled(r, a, Expects), NEW i \in 1 .. a.bytes
  PROVE  BlockOf(cursor + i - 1) \in r.lost \/ r.buf[i] = disk[cursor + i - 1]
<1>1. PICK b, l : ByteAt(a, i, b, l)
  BY ByteIn
<1>2. b \in r.lost \/ r.buf[i] = Expects[b][l]
  BY <1>1 DEF Filled, Holds, ByteAt
<1>3. Expects[b][l] = disk[cursor + i - 1]
  BY <1>1 DEF Expects, ByteAt
<1>4. BlockOf(cursor + i - 1) = b
  BY <1>1, AddressType DEF ByteAt
<1> QED
  BY <1>2, <1>3, <1>4

LEMMA CarefulReadStep ==
  ASSUME Careful, CarefulInv, NEW length \in Lengths, Read(length)
  PROVE  CarefulInv'
<1> DEFINE a == Span(length)
<1>1. /\ cursor \in 0 .. Capacity /\ a.bytes > 0 /\ UNCHANGED <<disk, unsaved, writes>>
      /\ length \in Nat \ {0} /\ length \in Nat /\ device = "open" /\ CarefulRead(a) /\ TypeOK
  BY SizesType DEF TypeOK, Read, CarefulInv
<1>2. TypeOK'
  BY <1>1, ReadType
<1>3. /\ a \in Spans /\ a.bytes <= length /\ cursor = (a.start * BlockSize) + a.offset
      /\ a.end < LastLba
  BY <1>1, SpanType, SpanEnd
<1>4. PICK s \in Starts(length) :
        /\ Leaves(ReadInto(s, a), "open")
        /\ answer' = IF ReadInto(s, a).ok THEN <<cursor, ReadInto(s, a).buf>> ELSE None
  BY <1>1, ReadLeaves
<1> HIDE DEF a
<1>5. a.start \in Int /\ a.end \in Int /\ a.bytes \in Nat /\ a.num \in Nat
  BY <1>3, SpansType
<1>6. PICK fault \in Faults : s \in Calls(a.start, a.end, fault) /\ s.missed = None /\ s.ranges = <<>>
  BY <1>1, <1>5, StartsType
<1>7. StartsAs(s, length)
  BY <1>1, StartsHere
<1>8. Sound(s, Expects, Possible)
  BY <1>1, <1>7, StartsSound DEF CarefulInv, Intact
<1>9. Gentle(s, a)
  <2>1. CASE a.num = 1
    BY <1>1, <1>7, <2>1 DEF CarefulRead, Gentle, StartsAs
  <2>2. CASE a.num # 1
    <3>1. NothingDirty /\ a.num = 2 /\ a.num <= CacheSize
      BY <1>1, <1>3, <2>2, SpansType DEF CarefulRead
    <3>2. \A i \in 1 .. Len(cache) : ~cache[i].dirty
      BY <1>1, <3>1 DEF NothingDirty, TypeOK
    <3>3. Clean(s)
      BY <1>7, <3>2 DEF Clean, StartsAs
    <3> QED
      BY <3>1, <3>3 DEF Gentle
  <2> QED
    BY <2>1, <2>2
<1> DEFINE r == ReadInto(s, a)
<1>10. /\ Unwritten(r, s)
       /\ r.ok => Sound(r, Expects, Possible) /\ Filled(r, a, Expects)
  BY <1>3, <1>6, <1>7, <1>8, <1>9, ReadSound DEF StartsAs
<1>11. r \in Calls(a.start, a.end, fault)
  BY <1>3, <1>6, ReadIntoType
<1>12. /\ cache' = r.cache /\ medium' = r.medium /\ lost' = r.lost
       /\ device' = IF r.ok THEN "open" ELSE "panicked"
       /\ answer' = IF r.ok THEN <<cursor, r.buf>> ELSE None
  BY <1>4 DEF Leaves
<1> HIDE DEF r
<1>13. medium' = medium /\ lost' = lost
  BY <1>7, <1>10, <1>12 DEF Unwritten, StartsAs
<1>14. Expects' = Expects /\ Possible' = Possible
  BY <1>1 DEF Expects, Possible, MayHold
<1>15. device' # "panicked" => Intact'
  BY <1>10, <1>12, <1>14 DEF Intact, Sound
<1>16. InPlace'
  BY <1>13, <1>14 DEF InPlace, CarefulInv
<1>17. FlushedIsOnMedium'
  BY <1>1, <1>13 DEF FlushedIsOnMedium, OnMedium, CarefulInv
<1>18. ReadsAsWritten'
  <2> SUFFICES ASSUME answer' # None, NEW i \in DOMAIN answer'[2]
               PROVE  \/ BlockOf(answer'[1] + i - 1) \in lost'
                      \/ answer'[2][i] = disk'[answer'[1] + i - 1]
    BY DEF ReadsAsWritten
  <2>1. r.ok /\ answer' = <<cursor, r.buf>>
    BY <1>12
  <2>2. i \in 1 .. a.bytes
    <3>1. r.buf \in Seq(Nat) /\ Len(r.buf) = a.bytes
      BY <1>5, <1>10, <1>11, <2>1, CallType DEF Filled
    <3> QED
      BY <2>1, <3>1
  <2>3. BlockOf(cursor + i - 1) \in r.lost \/ r.buf[i] = disk[cursor + i - 1]
    BY <1>3, <1>10, <2>1, <2>2, FilledAnswer
  <2> QED
    BY <1>1, <1>12, <2>1, <2>3
<1> QED
  BY <1>2, <1>15, <1>16, <1>17, <1>18 DEF CarefulInv

LEMMA CarefulFlushStep ==
  ASSUME CarefulInv, NEW state \in {"open", "closed"}, FlushTo(state)
  PROVE  CarefulInv'
<1>1. UNCHANGED <<cursor, disk, writes>> /\ device = "open" /\ answer' = None /\ TypeOK
  BY DEF FlushTo, CarefulInv
<1>2. TypeOK'
  BY <1>1, FlushType
<1>3. PICK s \in Starts(0) :
        /\ Leaves(Flushed(s), state)
        /\ unsaved' = IF Flushed(s).ok THEN {} ELSE unsaved
  BY FlushLeaves
<1>4. PICK fault \in Faults : s \in Calls(0, 0, fault)
  <2>1. 0 \in Int /\ 0 \in Nat
    OBVIOUS
  <2> QED
    BY <1>1, <2>1, StartsType
<1>5. StartsAs(s, 0)
  BY StartsHere
<1>6. Sound(s, Expects, Possible)
  BY <1>1, <1>5, StartsSound DEF CarefulInv, Intact
<1> DEFINE r == Flushed(s)
<1>7. /\ Brought(r, s, Expects, Possible)
      /\ r.ok => Sound(r, Expects, Possible) /\ Clean(r)
  BY <1>4, <1>6, FlushSound
<1>8. /\ cache' = r.cache /\ medium' = r.medium /\ lost' = r.lost
      /\ device' = IF r.ok THEN state ELSE "panicked"
      /\ unsaved' = IF r.ok THEN {} ELSE unsaved
  BY <1>3 DEF Leaves
<1> HIDE DEF r
<1>9. Expects' = Expects /\ Possible' = Possible
  BY <1>1 DEF Expects, Possible, MayHold
<1>10. /\ lost \subseteq lost'
       /\ \A b \in Inside :
            \/ medium'[b] = medium[b]
            \/ medium'[b] \in Possible[b] /\ (b \in lost' \/ medium'[b] = Expects[b])
  BY <1>5, <1>7, <1>8 DEF Brought, StartsAs
<1>11. device' # "panicked" => Intact'
  BY <1>7, <1>8, <1>9 DEF Intact, Sound
<1>12. InPlace'
  BY <1>9, <1>10 DEF InPlace, CarefulInv
<1>13. FlushedIsOnMedium'
  <2> SUFFICES ASSUME NEW address \in DOMAIN disk', address \notin unsaved'
               PROVE  BlockOf(address) \in lost' \/ OnMedium(address)' = disk'[address]
    BY DEF FlushedIsOnMedium
  <2>1. PICK b \in Inside, i \in 1 .. BlockSize :
          address = AddressOf(b, i) /\ BlockOf(address) = b /\ (address % BlockSize) + 1 = i
    <3>1. DOMAIN disk' = 0 .. Capacity - 1
      BY <1>1 DEF TypeOK
    <3> QED
      BY <3>1, AddressIn
  <2>2. OnMedium(address)' = medium'[b][i] /\ OnMedium(address) = medium[b][i]
    BY <2>1 DEF OnMedium
  <2>3. Expects[b][i] = disk[address]
    BY <2>1 DEF Expects
  <2>4. b \in lost' \/ medium'[b] = Expects[b]
        \/ (medium'[b] = medium[b] /\ address \notin unsaved)
    <3>1. CASE r.ok
      BY <1>7, <1>8, <3>1, CleanBlock
    <3>2. CASE ~r.ok
      BY <1>8, <1>10, <3>2
    <3> QED
      BY <3>1, <3>2
  <2>5. address \notin unsaved => b \in lost \/ medium[b][i] = disk[address]
    BY <1>1, <2>1, <2>2 DEF CarefulInv, FlushedIsOnMedium
  <2> QED
    BY <1>1, <1>10, <2>1, <2>2, <2>3, <2>4, <2>5
<1>14. ReadsAsWritten'
  BY <1>1 DEF ReadsAsWritten
<1> QED
  BY <1>2, <1>11, <1>12, <1>13, <1>14 DEF CarefulInv

\* What write changes of what is expected
Writing(a, length) ==
  /\ a \in Spans /\ a.end < LastLba /\ a.bytes <= length
  /\ cursor = (a.start * BlockSize) + a.offset /\ cursor \in Nat
  /\ a.offset + length <= a.num * BlockSize => a.bytes = length
  /\ writes \in Nat /\ writes' = writes + 1
  /\ disk \in [0 .. Capacity - 1 -> Nat]
  /\ disk' = [address \in DOMAIN disk |->
       IF address \in cursor .. cursor + a.bytes - 1 THEN Value(writes + 1, address) ELSE disk[address]]

\* The bytes that are written are expected where they are written, and no others.
LEMMA WritingByte ==
  ASSUME NEW a, NEW length \in Nat \ {0}, Writing(a, length),
         NEW b \in Inside, NEW l \in 1 .. BlockSize
  PROVE  /\ \A i \in 1 .. a.bytes : AddressOf(b, l) = cursor + i - 1 =>
              /\ b \in a.start .. a.end /\ ByteOf(a.offset + i, b - a.start, l)
              /\ Expects'[b][l] = Value(writes + 1, AddressOf(b, l))
         /\ AddressOf(b, l) \notin cursor .. cursor + a.bytes - 1 => Expects'[b][l] = Expects[b][l]
<1>1. a.bytes \in Nat
  BY SpansType DEF Writing
<1>2. Expects'[b][l] = disk'[AddressOf(b, l)] /\ Expects[b][l] = disk[AddressOf(b, l)]
  BY DEF Expects
<1>3. AddressOf(b, l) \in DOMAIN disk
  BY AddressType DEF Writing
<1>4. ASSUME NEW i \in 1 .. a.bytes, AddressOf(b, l) = cursor + i - 1
      PROVE  /\ b \in a.start .. a.end /\ ByteOf(a.offset + i, b - a.start, l)
             /\ Expects'[b][l] = Value(writes + 1, AddressOf(b, l))
  <2>1. PICK c, m : ByteAt(a, i, c, m)
    BY ByteIn DEF Writing
  <2>2. c = b /\ m = l
    <3>1. BlockOf(AddressOf(c, m)) = c /\ (AddressOf(c, m) % BlockSize) + 1 = m
      BY <2>1, AddressType DEF ByteAt
    <3>2. BlockOf(AddressOf(b, l)) = b /\ (AddressOf(b, l) % BlockSize) + 1 = l
      BY AddressType
    <3>3. AddressOf(c, m) = AddressOf(b, l)
      BY <1>4, <2>1 DEF ByteAt
    <3> QED
      BY <3>1, <3>2, <3>3
  <2>3. AddressOf(b, l) \in cursor .. cursor + a.bytes - 1
    BY <1>1, <1>4 DEF Writing
  <2> QED
    BY <1>2, <1>3, <2>1, <2>2, <2>3 DEF ByteAt, Writing
<1>5. AddressOf(b, l) \notin cursor .. cursor + a.bytes - 1 => Expects'[b][l] = Expects[b][l]
  BY <1>2, <1>3 DEF Writing
<1> QED
  BY <1>4, <1>5

LEMMA GivenType ==
  ASSUME NEW length \in Nat \ {0}, cursor \in Nat, writes \in Nat
  PROVE  /\ Given(length) \in Seq(Nat) /\ Len(Given(length)) = length
         /\ \A k \in 1 .. length : Given(length)[k] = Value(writes + 1, cursor + k - 1)
<1> DEFINE bytes == Given(length)
<1>1. \A k \in 1 .. length : Value(writes + 1, cursor + k - 1) \in Nat
  BY DEF Value
<1>2. /\ bytes \in [1 .. length -> Nat]
      /\ \A k \in 1 .. length : bytes[k] = Value(writes + 1, cursor + k - 1)
  BY <1>1 DEF Given
<1> HIDE DEF bytes
<1>3. bytes \in Seq(Nat) /\ Len(bytes) = length
  BY <1>2
<1> QED
  BY <1>2, <1>3 DEF bytes

\* A write is what is expected from then on.
LEMMA WritingMeets ==
  ASSUME NEW a, NEW length \in Nat \ {0}, Writing(a, length)
  PROVE  Meets(a, Given(length), Expects, Possible, Expects', Possible')
<1> DEFINE bytes == Given(length)
<1>1. /\ a.start \in Nat /\ a.end \in Nat /\ a.end < LastLba /\ a.bytes \in Nat /\ a \in Spans
      /\ writes \in Nat /\ writes' = writes + 1 /\ cursor \in Nat
      /\ cursor = (a.start * BlockSize) + a.offset
  BY SpansType DEF Writing
<1>2. /\ Len(bytes) = length
      /\ \A k \in 1 .. length : bytes[k] = Value(writes + 1, cursor + k - 1)
  BY <1>1, GivenType
<1> HIDE DEF bytes
<1>3. \A address : MayHold(address) \subseteq MayHold(address)'
  BY <1>1 DEF MayHold
<1>4. \A b \in Inside : Possible[b] \subseteq Possible'[b]
  BY <1>3 DEF Possible
<1>5. ASSUME NEW b \in Inside, b \notin a.start .. a.end PROVE Expects'[b] = Expects[b]
  <2>1. ASSUME NEW l \in 1 .. BlockSize PROVE Expects'[b][l] = Expects[b][l]
    <3> DEFINE address == AddressOf(b, l)
    <3>1. \A i \in 1 .. a.bytes : address # cursor + i - 1
      BY <1>5, WritingByte
    <3>2. address \in Int
      BY AddressType
    <3>3. address \notin cursor .. cursor + a.bytes - 1
      <4> SUFFICES ASSUME address \in cursor .. cursor + a.bytes - 1 PROVE FALSE
        OBVIOUS
      <4> DEFINE i == address - cursor + 1
      <4> HIDE DEF address
      <4>1. i \in 1 .. a.bytes /\ address = cursor + i - 1
        BY <1>1, <3>2
      <4> QED
        BY <3>1, <4>1
    <3> QED
      BY <3>3, WritingByte
  <2>2. Expects[b] = [l \in 1 .. BlockSize |-> Expects[b][l]]
    BY DEF Expects
  <2>3. Expects'[b] = [l \in 1 .. BlockSize |-> Expects'[b][l]]
    BY DEF Expects
  <2> QED
    BY <2>1, <2>2, <2>3
<1>6. ASSUME Fits(a, bytes), NEW b \in a.start .. a.end, NEW old \in Data, NEW data \in Data,
             Patched(a, b, old, bytes, data), old \in Possible[b]
      PROVE  data \in Possible'[b] /\ (old = Expects[b] => data = Expects'[b])
  <2>1. b \in Inside
    BY <1>1, SizesType DEF Inside
  <2>2. a.bytes = length
    BY <1>2, <1>6 DEF Fits, Writing
  <2>3. ASSUME NEW l \in 1 .. BlockSize
        PROVE  \/ data[l] = Value(writes + 1, AddressOf(b, l)) /\ Expects'[b][l] = data[l]
               \/ data[l] = old[l] /\ Expects'[b][l] = Expects[b][l]
    <3>1. PICK i \in Int : ByteOf(a.offset + i, b - a.start, l)
      BY <1>1, ByteOfBlock
    <3>2. AddressOf(b, l) = cursor + i - 1
      BY <1>1, <3>1, ByteAddress
    <3>3. data[l] = IF i \in 1 .. length THEN bytes[i] ELSE old[l]
      BY <1>2, <1>6, <3>1 DEF Patched
    <3>4. CASE i \in 1 .. length
      <4>1. data[l] = Value(writes + 1, AddressOf(b, l))
        BY <1>2, <3>2, <3>3, <3>4
      <4>2. Expects'[b][l] = Value(writes + 1, AddressOf(b, l))
        BY <2>1, <2>2, <3>2, <3>4, WritingByte
      <4> QED
        BY <4>1, <4>2
    <3>5. CASE i \notin 1 .. length
      <4> DEFINE address == AddressOf(b, l)
      <4>1. address = cursor + i - 1
        BY <3>2
      <4> HIDE DEF address
      <4>2. address \notin cursor .. cursor + a.bytes - 1
        BY <1>1, <2>2, <3>5, <4>1
      <4>3. Expects'[b][l] = Expects[b][l]
        BY <2>1, <4>2, WritingByte DEF address
      <4> QED
        BY <3>3, <3>5, <4>3
    <3> QED
      BY <3>4, <3>5
  <2>4. \A l \in 1 .. BlockSize : data[l] \in MayHold(AddressOf(b, l))'
    <3>1. \A address : Value(writes + 1, address) \in MayHold(address)'
      BY <1>1 DEF MayHold
    <3>2. \A l \in 1 .. BlockSize : old[l] \in MayHold(AddressOf(b, l))
      BY <1>6, <2>1 DEF Possible
    <3> QED
      BY <1>3, <2>3, <3>1, <3>2
  <2>5. data \in Possible'[b]
    BY <2>1, <2>4 DEF Possible
  <2>6. old = Expects[b] => data = Expects'[b]
    <3> SUFFICES ASSUME old = Expects[b] PROVE data = Expects'[b]
      OBVIOUS
    <3>1. \A l \in 1 .. BlockSize : data[l] = Expects'[b][l]
      BY <2>3
    <3>2. Expects'[b] = [l \in 1 .. BlockSize |-> Expects'[b][l]]
      BY <2>1 DEF Expects
    <3>3. data = [l \in 1 .. BlockSize |-> data[l]]
      <4>1. data \in [1 .. BlockSize -> Nat]
        <5>1. data \in Seq(Nat) /\ Len(data) = BlockSize
          BY DEF Data
        <5> QED
          BY <5>1, LenProperties
      <4> QED
        BY <4>1
    <3> QED
      BY <3>1, <3>2, <3>3
  <2> QED
    BY <2>5, <2>6
<1>7. Meets(a, bytes, Expects, Possible, Expects', Possible')
  BY <1>4, <1>5, <1>6 DEF Meets
<1> QED
  BY <1>7 DEF bytes

LEMMA CarefulWriteStep ==
  ASSUME Careful, CarefulInv, NEW length \in Lengths, Write(length)
  PROVE  CarefulInv'
<1> DEFINE a == Span(length)
           bytes == Given(length)
<1>1. /\ cursor \in 0 .. Capacity /\ a.bytes > 0 /\ writes \in Nat /\ cursor \in Nat
      /\ length \in Nat \ {0} /\ length \in Nat /\ device = "open" /\ CarefulWrite(a) /\ TypeOK
  BY SizesType, CapacityType DEF TypeOK, Write, CarefulInv
<1>2. TypeOK'
  BY <1>1, WriteType
<1>3. /\ a \in Spans /\ a.bytes <= length /\ cursor = (a.start * BlockSize) + a.offset
      /\ a.end < LastLba
      /\ a.offset + length <= a.num * BlockSize => a.bytes = length
  BY <1>1, SpanType, SpanEnd
<1>4. PICK s \in Starts(0) : Leaves(WriteFrom(s, a, bytes), "open")
  BY <1>1, WriteLeaves
<1>5. /\ disk' = [address \in DOMAIN disk |->
           IF address \in cursor .. cursor + a.bytes - 1
           THEN Value(writes + 1, address) ELSE disk[address]]
      /\ unsaved' = unsaved \cup (cursor .. cursor + a.bytes - 1)
      /\ writes' = writes + 1 /\ answer' = None
  BY DEF Write
<1>6. bytes \in Seq(Nat) /\ Len(bytes) = length
  BY <1>1, GivenType
<1> HIDE DEF a
<1>7. disk \in [0 .. Capacity - 1 -> Nat]
  BY <1>1 DEF TypeOK
<1>8. Writing(a, length)
  BY <1>1, <1>3, <1>5, <1>7 DEF Writing
<1> DEFINE wants1 == Expects'
           may1 == Possible'
<1>9. Meets(a, bytes, Expects, Possible, wants1, may1)
  BY <1>1, <1>8, WritingMeets
<1> HIDE DEF bytes
<1>10. a.start \in Int /\ a.end \in Int /\ a.bytes \in Nat /\ a.num \in Nat /\ 0 \in Nat
  BY <1>3, SpansType
<1>11. PICK fault \in Faults : s \in Calls(a.start, a.end, fault)
  BY <1>1, <1>10, StartsType
<1>12. StartsAs(s, 0)
  BY <1>10, StartsHere
<1>13. Sound(s, Expects, Possible) /\ s.ok
  BY <1>1, <1>12, StartsSound DEF CarefulInv, Intact, StartsAs
<1> DEFINE r == WriteFrom(s, a, bytes)
<1> HIDE DEF wants1, may1
<1>14. Rewritten(r, s, a, bytes) /\ (r.ok => Sound(r, wants1, may1))
  <2>1. CASE a.num = 1
    <3>1. Has(s.cache, a.start) /\ ~(a.num >= CountModulus)
      BY <1>1, <1>12, <2>1, CacheAssumption DEF CarefulWrite, StartsAs
    <3>2. /\ Unwritten(WriteOne(s, a, bytes), s)
          /\ WriteOne(s, a, bytes).ok => Sound(WriteOne(s, a, bytes), wants1, may1)
      BY <1>3, <1>6, <1>9, <1>11, <1>13, <2>1, <3>1, WriteOneSound
    <3>3. r = WriteOne(s, a, bytes)
      BY <2>1, <3>1 DEF WriteFrom
    <3> HIDE DEF r
    <3> QED
      BY <3>2, <3>3 DEF Unwritten, Rewritten
  <2>2. CASE a.num # 1 /\ ~(a.num >= CountModulus)
    <3>1. NothingDirty /\ \A b \in a.start .. a.end : ~Has(cache, b)
      BY <1>1, <2>2 DEF CarefulWrite
    <3>2. \A i \in 1 .. Len(cache) : ~cache[i].dirty
      BY <1>1, <3>1 DEF NothingDirty, TypeOK
    <3>3. Clean(s) /\ \A b \in a.start .. a.end : ~Has(s.cache, b)
      BY <1>12, <3>1, <3>2 DEF Clean, StartsAs
    <3>4. a.bytes <= Len(bytes)
      BY <1>3, <1>6
    <3>5. /\ Rewritten(WriteMany(s, a, bytes), s, a, bytes)
          /\ WriteMany(s, a, bytes).ok => Sound(WriteMany(s, a, bytes), wants1, may1)
      BY <1>3, <1>6, <1>9, <1>11, <1>13, <2>2, <3>3, <3>4, WriteManySound
    <3>6. r = WriteMany(s, a, bytes)
      BY <2>2 DEF WriteFrom
    <3> QED
      BY <3>5, <3>6
  <2>3. CASE a.num >= CountModulus
    <3>1. \A b \in a.start .. a.end : ~Has(s.cache, b)
      <4>1. a.num # 1
        BY <2>3, CacheAssumption
      <4> QED
        BY <1>1, <1>12, <4>1 DEF CarefulWrite, StartsAs
    <3>2. Same(WriteTooMany(s, a), s) /\ ~WriteTooMany(s, a).ok
      BY <1>3, <1>11, <3>1, WriteTooManySound
    <3>3. r = WriteTooMany(s, a)
      BY <2>3 DEF WriteFrom
    <3> HIDE DEF r
    <3> QED
      BY <3>2, <3>3 DEF Same, Rewritten
  <2> QED
    BY <2>1, <2>2, <2>3
<1>15. /\ cache' = r.cache /\ medium' = r.medium /\ lost' = r.lost
       /\ device' = IF r.ok THEN "open" ELSE "panicked"
  BY <1>4 DEF Leaves
<1> HIDE DEF r
<1>16. /\ lost \subseteq lost'
       /\ \A b \in Inside :
            \/ medium'[b] = medium[b]
            \/ /\ b \in a.start .. a.end /\ Fits(a, bytes)
               /\ Patched(a, b, medium[b], bytes, medium'[b])
  BY <1>12, <1>14, <1>15, InsideType DEF Rewritten, StartsAs
<1>17. device' # "panicked" => Intact'
  BY <1>14, <1>15 DEF Intact, Sound, wants1, may1
<1>18. InPlace'
  <2> SUFFICES ASSUME NEW b \in Inside PROVE medium'[b] \in may1[b]
    BY DEF InPlace, may1
  <2>1. medium[b] \in Possible[b]
    BY DEF CarefulInv, InPlace
  <2>2. medium[b] \in Data /\ medium'[b] \in Data
    BY <1>1, <1>2, InsideType DEF TypeOK, Data
  <2> QED
    BY <1>9, <1>16, <2>1, <2>2 DEF Meets
<1>19. FlushedIsOnMedium'
  <2> SUFFICES ASSUME NEW address \in DOMAIN disk', address \notin unsaved'
               PROVE  BlockOf(address) \in lost' \/ OnMedium(address)' = disk'[address]
    BY DEF FlushedIsOnMedium
  <2>1. PICK b \in Inside, l \in 1 .. BlockSize :
          address = AddressOf(b, l) /\ BlockOf(address) = b /\ (address % BlockSize) + 1 = l
    <3>1. DOMAIN disk' = 0 .. Capacity - 1
      BY <1>5, <1>7
    <3> QED
      BY <3>1, AddressIn
  <2>2. OnMedium(address)' = medium'[b][l] /\ OnMedium(address) = medium[b][l]
    BY <2>1 DEF OnMedium
  <2>3. address \notin unsaved /\ address \notin cursor .. cursor + a.bytes - 1 /\ address \in DOMAIN disk
    BY <1>5
  <2>4. disk'[address] = disk[address]
    BY <1>5, <2>3
  <2>5. b \in lost \/ medium[b][l] = disk[address]
    BY <2>1, <2>2, <2>3 DEF CarefulInv, FlushedIsOnMedium
  <2>6. medium'[b][l] = medium[b][l]
    <3>1. CASE medium'[b] = medium[b]
      BY <3>1
    <3>2. CASE /\ b \in a.start .. a.end /\ Fits(a, bytes)
               /\ Patched(a, b, medium[b], bytes, medium'[b])
      <4>1. PICK i \in Int : ByteOf(a.offset + i, b - a.start, l)
        BY <1>3, <3>2, ByteOfBlock
      <4>2. address = cursor + i - 1
        BY <1>3, <2>1, <3>2, <4>1, ByteAddress
      <4>3. a.bytes = length
        BY <1>3, <1>6, <3>2 DEF Fits
      <4>4. i \notin 1 .. Len(bytes)
        BY <1>1, <1>6, <2>3, <4>2, <4>3
      <4> QED
        BY <3>2, <4>1, <4>4 DEF Patched
    <3> QED
      BY <1>16, <3>1, <3>2
  <2> QED
    BY <1>16, <2>1, <2>2, <2>4, <2>5, <2>6
<1>20. ReadsAsWritten'
  BY <1>5 DEF ReadsAsWritten
<1> QED
  BY <1>2, <1>17, <1>18, <1>19, <1>20 DEF CarefulInv

\* A careful guest keeps all of this, whichever commands of read, write and flush
\* fail.
THEOREM CarefulAlways == ASSUME Careful PROVE Spec => []CarefulInv
<1>1. Init => CarefulInv
  BY CarefulInit
<1>2. CarefulInv /\ [Next]_vars => CarefulInv'
  <2> SUFFICES ASSUME CarefulInv, [Next]_vars PROVE CarefulInv'
    OBVIOUS
  <2>1. ASSUME NEW position \in 0 .. Capacity, Seek(position) PROVE CarefulInv'
    <3>1. TypeOK'
      BY <2>1 DEF CarefulInv, Seek, TypeOK, OneEntryPerBlock
    <3>2. UNCHANGED <<device, medium, cache, disk, unsaved, lost, writes>> /\ answer' = None
      BY <2>1 DEF Seek
    <3>3. Expects' = Expects /\ Possible' = Possible
      BY <3>2 DEF Expects, Possible, MayHold
    <3>4. (device' # "panicked" => Intact') /\ InPlace'
      BY <3>2, <3>3 DEF CarefulInv, Intact, InPlace
    <3>5. FlushedIsOnMedium'
      BY <3>2 DEF CarefulInv, FlushedIsOnMedium, OnMedium
    <3>6. ReadsAsWritten'
      BY <3>2 DEF ReadsAsWritten
    <3> QED
      BY <3>1, <3>4, <3>5, <3>6 DEF CarefulInv
  <2>2. ASSUME NEW length \in Lengths, Read(length) PROVE CarefulInv'
    BY <2>2, CarefulReadStep
  <2>3. ASSUME NEW length \in Lengths, Write(length) PROVE CarefulInv'
    BY <2>3, CarefulWriteStep
  <2>4. CASE Flush
    BY <2>4, CarefulFlushStep DEF Flush
  <2>5. CASE DropDevice
    BY <2>5, CarefulFlushStep DEF DropDevice
  <2>6. CASE UNCHANGED vars
    <3>1. TypeOK'
      BY <2>6 DEF CarefulInv, vars, TypeOK, OneEntryPerBlock
    <3>2. UNCHANGED <<device, medium, cache, disk, unsaved, lost, writes, answer>>
      BY <2>6 DEF vars
    <3>3. Expects' = Expects /\ Possible' = Possible
      BY <3>2 DEF Expects, Possible, MayHold
    <3>4. (device' # "panicked" => Intact') /\ InPlace'
      BY <3>2, <3>3 DEF CarefulInv, Intact, InPlace
    <3>5. FlushedIsOnMedium' /\ ReadsAsWritten'
      BY <3>2 DEF CarefulInv, FlushedIsOnMedium, OnMedium, ReadsAsWritten
    <3> QED
      BY <3>1, <3>4, <3>5 DEF CarefulInv
  <2> QED
    BY <2>1, <2>2, <2>3, <2>4, <2>5, <2>6 DEF Next
<1> QED
  BY <1>1, <1>2, PTL DEF Spec

\* A careful guest: what the cache holds clean of a block is on the medium, so that
\* evicting it loses nothing, unless a WRITE of the block has failed.
THEOREM CleanCorrect == ASSUME Careful PROVE Spec => []CleanIsOnMedium
<1>1. CarefulInv => CleanIsOnMedium
  <2> SUFFICES ASSUME CarefulInv, device # "panicked", NEW i \in DOMAIN cache
               PROVE  cache[i].dirty \/ cache[i].block \in lost \/ medium[cache[i].block] = cache[i].data
    BY DEF CleanIsOnMedium
  <2>1. i \in 1 .. Len(cache)
    BY DEF CarefulInv, TypeOK
  <2> QED
    BY <2>1 DEF CarefulInv, Intact, SoundIn, EntrySound
<1> QED
  BY <1>1, CarefulAlways, PTL

\* A careful guest: what was written before a flush that returned is on the medium
\* and stays there, whatever panics later, unless a WRITE of its block has failed.
THEOREM FlushedCorrect == ASSUME Careful PROVE Spec => []FlushedIsOnMedium
<1>1. CarefulInv => FlushedIsOnMedium
  BY DEF CarefulInv
<1> QED
  BY <1>1, CarefulAlways, PTL

\* A careful guest: each byte of the disk is the original one or one that was
\* written to its address, whatever fails and wherever the guest panics.
THEOREM BytesCorrect == ASSUME Careful PROVE Spec => []BytesStayInPlace
<1>1. CarefulInv => BytesStayInPlace
  BY InPlaceBytes DEF CarefulInv
<1> QED
  BY <1>1, CarefulAlways, PTL

\* A careful guest: a read that returns, returns what was last written at each
\* address, hit or missed, flushed or not, unless a WRITE of its block has failed.
THEOREM ReadsCorrect == ASSUME Careful PROVE Spec => []ReadsAsWritten
<1>1. CarefulInv => ReadsAsWritten
  BY DEF CarefulInv
<1> QED
  BY <1>1, CarefulAlways, PTL

=============================================================================
