---------------------------- MODULE BulkOnlyProofs ---------------------------
(***************************************************************************)
(* Proofs about BulkOnly, for any number of commands and processes, whether *)
(* the reset of open works or not: its types and its three properties.     *)
(*                                                                         *)
(*   TypeInv      TypeOK, and why the stick never has more than three      *)
(*                packets to send;                                         *)
(*   CountInv     which command of its process the client is at;           *)
(*   DialogueInv  what the stick may have to send at each point of the     *)
(*                client's program: answers to this command or to earlier  *)
(*                ones of this process, once the reset worked or the two   *)
(*                commands of the start have gone well.                    *)
(***************************************************************************)
EXTENDS BulkOnly, SequenceTheorems, TLAPS

\* A status ends whatever the stick has to send, and of three packets the
\* second is not one.
Shaped(p) ==
  /\ p # <<>> => p[Len(p)].type = "csw"
  /\ Len(p) = 3 => p[2].type # "csw"

\* Which command it is
CountInv ==
  /\ pc = "ready" =>
       \/ nth = 0
       \/ nth = 1 /\ tag = FirstTag
       \/ nth = 2 /\ tag > FirstTag
  /\ pc \in {"data", "csw"} =>
       \/ nth = 0 /\ kind = "none" /\ tag = FirstTag /\ pc = "csw"
       \/ nth = 1 /\ kind = "in" /\ tag = FirstTag + 1
       \/ nth = 2 /\ kind \in {"in", "out"} /\ tag > FirstTag + 1

\* TypeOK and why: a stick that awaits data has at most a status to send.
TypeInv ==
  /\ TypeOK
  /\ Shaped(pipe)
  /\ stage = "dataOut" => Len(pipe) <= 1 /\ writing[2] >= 2
  /\ tag <= id
  /\ pc \in {"data", "csw"} => id \in Ids
  /\ CountInv

-----------------------------------------------------------------------------
(* Packets *)

\* The status and data of a command are packets.
LEMMA PacketType ==
  ASSUME NEW of \in Ids, NEW t \in Nat, NEW ok \in BOOLEAN
  PROVE  /\ Csw(<<of, t>>, ok) \in Packet
         /\ Sent("data", <<of, t>>) \in Packet /\ Sent("stall", <<of, t>>) \in Packet
BY DEF Csw, Sent, Packet

\* What is read of a sequence of one packet or two.
LEMMA Short ==
  ASSUME NEW S, NEW p \in S, NEW q \in S
  PROVE  /\ <<p>> \in Seq(S) /\ <<p>> # <<>> /\ Len(<<p>>) = 1 /\ <<p>>[1] = p
         /\ <<p, q>> \in Seq(S) /\ <<p, q>> # <<>> /\ Len(<<p, q>>) = 2
         /\ <<p, q>>[1] = p /\ <<p, q>>[2] = q
OBVIOUS

\* What a reply to a command of number `of` and tag t is like
Replied(k, of, t, packets) ==
  /\ packets \in Seq({p \in Packet : p.of = of /\ p.tag = t})
  /\ Len(packets) <= 2 /\ Shaped(packets)
  /\ (k = "out") <=> (packets = <<>>)
  /\ Len(packets) = 2 => packets[1].type # "csw"
  /\ k = "in" /\ packets[1].type = "csw" => ~packets[1].passed
  /\ k = "in" /\ Len(packets) = 2 /\ packets[2].passed => packets[1].type = "data"

\* A reply has at most two packets, and of two the first is no status; a status
\* that passes follows the data.
LEMMA RepliesType ==
  ASSUME NEW k \in {"none", "in", "out"}, NEW of \in Ids, NEW t \in Nat,
         NEW packets \in Replies(k, <<of, t>>)
  PROVE  Replied(k, of, t, packets)
<1> DEFINE S == {p \in Packet : p.of = of /\ p.tag = t}
           yes == Csw(<<of, t>>, TRUE)
           no == Csw(<<of, t>>, FALSE)
           data == Sent("data", <<of, t>>)
           stall == Sent("stall", <<of, t>>)
<1>1. /\ yes \in S /\ yes.type = "csw" /\ yes.passed
      /\ no \in S /\ no.type = "csw" /\ ~no.passed
      /\ data \in S /\ data.type = "data"
      /\ stall \in S /\ stall.type = "stall"
  BY PacketType DEF Csw, Sent
<1>2. <<>> \in Seq(S) /\ Len(<<>>) = 0
  OBVIOUS
<1>3. \/ k = "none" /\ (packets = <<yes>> \/ packets = <<no>>)
      \/ k = "in" /\ (packets = <<data, yes>> \/ packets = <<no>> \/ packets = <<stall, no>>)
      \/ k = "out" /\ packets = <<>>
  BY DEF Replies
<1> HIDE DEF S, yes, no, data, stall
<1>4. CASE packets = <<>>
  BY <1>2, <1>3, <1>4 DEF Replied, Shaped, S
<1>5. ASSUME NEW p \in S, packets = <<p>>, p.type = "csw", ~p.passed \/ k = "none"
      PROVE  Replied(k, of, t, packets)
  BY <1>3, <1>5, Short DEF Replied, Shaped, S
<1>6. ASSUME NEW p \in S, NEW q \in S, packets = <<p, q>>, p.type # "csw", q.type = "csw",
             q.passed => p.type = "data"
      PROVE  Replied(k, of, t, packets)
  BY <1>3, <1>6, Short DEF Replied, Shaped, S
<1> QED
  BY <1>1, <1>3, <1>4, <1>5, <1>6

\* The lengths of a pipe
LEMMA Lengths ==
  /\ \A n \in Nat \ {0} : n <= 3 => n - 1 # 3 /\ n - 1 \in Nat
                             /\ (n - 1 = 2 => n = 3 /\ 1 \in 1 .. n - 1 /\ 1 + 1 = 2)
  /\ \A n \in Nat : n <= 1 /\ n # 0 => n = 1
  /\ \A m, n \in Nat : m <= 1 /\ n <= 2 =>
       m + n <= 3 /\ (m + n = 3 => m = 1 /\ n = 2)
OBVIOUS

\* A packet fewer
LEMMA TailShape ==
  ASSUME NEW p \in Seq(Packet), Shaped(p), Len(p) <= 3, p # <<>>
  PROVE  /\ p[1] \in Packet /\ Len(Tail(p)) = Len(p) - 1 /\ Len(p) \in Nat \ {0}
         /\ Tail(p) \in Seq(Packet) /\ Shaped(Tail(p))
         /\ Tail(p) # <<>> => Len(p) >= 2 /\ Tail(p)[1] = p[2]
         /\ Len(Tail(p)) = 2 => Tail(p)[1].type # "csw"
         /\ \A S : p \in Seq(S) => p[1] \in S /\ Tail(p) \in Seq(S)
<1>1. Len(p) \in Nat \ {0} /\ p[1] \in Packet
  BY EmptySeq, ElementOfSeq
<1>2. /\ Tail(p) \in Seq(Packet) /\ Len(Tail(p)) = Len(p) - 1
      /\ \A i \in 1 .. Len(Tail(p)) : Tail(p)[i] = p[i + 1]
  BY HeadTailProperties
<1>3. Tail(p) # <<>> => Len(Tail(p)) \in Nat \ {0}
  BY <1>2, EmptySeq
<1>4. Shaped(Tail(p))
  <2>1. Tail(p) # <<>> => Tail(p)[Len(Tail(p))] = p[Len(p)]
    BY <1>1, <1>2, <1>3
  <2>2. Len(Tail(p)) # 3
    BY <1>1, <1>2, Lengths, Zenon
  <2> QED
    BY <2>1, <2>2 DEF Shaped
<1>5. Tail(p) # <<>> => Len(p) >= 2 /\ Tail(p)[1] = p[2]
  BY <1>1, <1>2, <1>3
<1>6. Len(Tail(p)) = 2 => Tail(p)[1].type # "csw"
  <2>1. Len(Tail(p)) = 2 => Len(p) = 3 /\ Tail(p)[1] = p[2]
    BY <1>1, <1>2, Lengths, Zenon
  <2> QED
    BY <2>1 DEF Shaped
<1>7. ASSUME NEW S, p \in Seq(S) PROVE p[1] \in S /\ Tail(p) \in Seq(S)
  BY <1>1, <1>7, ElementOfSeq, HeadTailProperties
<1> QED
  BY <1>1, <1>2, <1>4, <1>5, <1>6, <1>7

\* A status more
LEMMA AppendShape ==
  ASSUME NEW p \in Seq(Packet), Len(p) <= 1, NEW csw \in Packet, csw.type = "csw"
  PROVE  /\ Append(p, csw) \in Seq(Packet) /\ Shaped(Append(p, csw))
         /\ Len(Append(p, csw)) = Len(p) + 1 /\ Len(p) \in Nat
         /\ p = <<>> => Append(p, csw) = <<csw>>
         /\ \A S : p \in Seq(S) /\ csw \in S => Append(p, csw) \in Seq(S)
<1>1. Len(p) \in Nat
  BY LenProperties
<1>2. /\ Append(p, csw) \in Seq(Packet) /\ Len(Append(p, csw)) = Len(p) + 1
      /\ Append(p, csw)[Len(p) + 1] = csw
  BY AppendProperties
<1>3. Shaped(Append(p, csw))
  BY <1>1, <1>2 DEF Shaped
<1>4. \A S : p \in Seq(S) /\ csw \in S => Append(p, csw) \in Seq(S)
  BY AppendProperties
<1>5. p = <<>> => Append(p, csw) = <<csw>>
  OBVIOUS
<1> QED
  BY <1>1, <1>2, <1>3, <1>4, <1>5

\* A reply more
LEMMA ReplyShape ==
  ASSUME NEW p \in Seq(Packet), Len(p) <= 1, Shaped(p),
         NEW k \in {"none", "in", "out"}, NEW of \in Ids, NEW t \in Nat,
         NEW packets \in Replies(k, <<of, t>>)
  PROVE  LET q == p \o packets IN
         /\ q \in Seq(Packet) /\ Len(q) <= 3 /\ Shaped(q)
         /\ k = "out" => q = p
         /\ \A S : p \in Seq(S) => q \in Seq(S \cup {x \in Packet : x.of = of /\ x.tag = t})
         /\ k = "in" /\ Len(q) >= 2 /\ q[2].type = "csw" /\ q[2].passed /\ p = <<>> =>
              q[1].type = "data" /\ q[1].of = of
         /\ k = "in" /\ Len(q) >= 2 /\ p # <<>> /\ q[2].type = "csw" => ~q[2].passed
         /\ p = <<>> => q = packets
         /\ p # <<>> => Tail(q) = packets
<1> DEFINE q == p \o packets
           M == {x \in Packet : x.of = of /\ x.tag = t}
<1>1. /\ packets \in Seq(M) /\ Len(packets) <= 2 /\ Shaped(packets)
      /\ (k = "out") <=> (packets = <<>>)
      /\ Len(packets) = 2 => packets[1].type # "csw"
      /\ k = "in" /\ packets[1].type = "csw" => ~packets[1].passed
      /\ k = "in" /\ Len(packets) = 2 /\ packets[2].passed => packets[1].type = "data"
  BY RepliesType DEF Replied
<1>2. packets \in Seq(Packet) /\ Len(packets) \in Nat /\ Len(p) \in Nat
  BY <1>1, SeqMonotonic, LenProperties
<1>3. /\ q \in Seq(Packet) /\ Len(q) = Len(p) + Len(packets)
      /\ \A i \in 1 .. Len(p) + Len(packets) :
           q[i] = IF i <= Len(p) THEN p[i] ELSE packets[i - Len(p)]
  BY <1>2, ConcatProperties
<1>4. (p = <<>> => q = packets) /\ (packets = <<>> => q = p)
  BY <1>2, ConcatEmptySeq
<1>5. /\ p = <<>> <=> Len(p) = 0
      /\ packets = <<>> <=> Len(packets) = 0
  BY <1>2, EmptySeq
<1>6. ASSUME NEW S, p \in Seq(S) PROVE q \in Seq(S \cup M)
  <2>1. p \in Seq(S \cup M) /\ packets \in Seq(S \cup M)
    BY <1>1, <1>6, SeqMonotonic
  <2> QED
    BY <2>1, ConcatProperties
<1> HIDE DEF q
<1>7. Shaped(q)
  <2>1. CASE packets = <<>>
    BY <1>4, <2>1
  <2>2. CASE packets # <<>>
    <3>1. q[Len(q)] = packets[Len(packets)]
      BY <1>2, <1>3, <1>5, <2>2
    <3>2. Len(q) = 3 => q[2] = packets[1] /\ Len(packets) = 2
      <4>1. Len(q) = 3 => Len(p) + Len(packets) = 3
        BY <1>3
      <4>2. Len(q) = 3 => Len(p) = 1 /\ Len(packets) = 2
        BY <1>1, <1>2, <4>1, Lengths, Zenon
      <4>3. 2 \in 1 .. 1 + 2 /\ ~(2 <= 1) /\ 2 - 1 = 1
        OBVIOUS
      <4> QED
        BY <1>3, <4>2, <4>3, Zenon
    <3> QED
      BY <1>1, <2>2, <3>1, <3>2 DEF Shaped
  <2> QED
    BY <2>1, <2>2
<1>8. p # <<>> => Len(p) = 1
  BY <1>2, <1>5, Lengths, Zenon
<1>9. k = "in" /\ p # <<>> => q[2] = packets[1]
  BY <1>1, <1>2, <1>3, <1>5, <1>8
<1>10. k = "in" /\ Len(q) >= 2 /\ p = <<>> => Len(packets) = 2 /\ q[1] \in M
  <2>1. Len(packets) = 2 => packets[1] \in M
    BY <1>1, ElementOfSeq
  <2> QED
    BY <1>1, <1>2, <1>4, <2>1
<1>11. p # <<>> => Tail(q) = packets
  <2> SUFFICES ASSUME p # <<>> PROVE Tail(q) = packets
    OBVIOUS
  <2>1. Len(q) = 1 + Len(packets) /\ q # <<>>
    <3>1. Len(q) = 1 + Len(packets)
      BY <1>3, <1>8, Zenon
    <3>2. 1 + Len(packets) # 0
      BY <1>2
    <3> QED
      BY <3>1, <3>2, EmptySeq
  <2>2. /\ Tail(q) \in Seq(Packet) /\ Len(Tail(q)) = Len(packets)
        /\ \A i \in 1 .. Len(packets) : Tail(q)[i] = q[i + 1]
    BY <1>2, <1>3, <2>1, HeadTailProperties
  <2>3. ASSUME NEW i \in 1 .. Len(packets) PROVE Tail(q)[i] = packets[i]
    <3>1. i + 1 \in 1 .. 1 + Len(packets) /\ ~(i + 1 <= 1) /\ (i + 1) - 1 = i
      BY <1>2
    <3> QED
      BY <1>3, <1>8, <2>2, <3>1, Zenon
  <2> QED
    BY <1>2, <2>2, <2>3, SeqEqual
<1> QED
  BY <1>1, <1>2, <1>3, <1>4, <1>6, <1>7, <1>9, <1>10, <1>11 DEF q
-----------------------------------------------------------------------------
(* Types *)

\* What any step of the stick leaves.
StickOK ==
  /\ halted' \in BOOLEAN
  /\ stage' \in {"cbw", "dataOut"}
  /\ stage' = "dataOut" => writing' \in Ids \X Nat /\ writing'[2] >= 2
  /\ pipe' \in Seq(Packet) /\ Len(pipe') <= 3 /\ Shaped(pipe')
  /\ stage' = "dataOut" => Len(pipe') <= 1
  /\ stored' \in SUBSET (Ids \X (Ids \cup {Odd}))

\* The steps of the stick keep its types.
LEMMA StickType ==
  ASSUME TypeInv
  PROVE  /\ UNCHANGED stickVars => StickOK
         /\ \A payload \in Ids \cup {Odd} : TakesData(payload) => StickOK
         /\ \A k \in {"none", "in", "out"}, of \in Ids, t \in Nat :
              TakesCbw(k, <<of, t>>) /\ (k = "out" => t >= 2) => StickOK
         /\ TakesNonsense => StickOK
         /\ pipe # <<>> /\ SendsHead => StickOK
<1>1. /\ halted \in BOOLEAN /\ stage \in {"cbw", "dataOut"}
      /\ stage = "dataOut" => writing \in Ids \X Nat /\ writing[2] >= 2
      /\ pipe \in Seq(Packet) /\ Len(pipe) <= 3 /\ Shaped(pipe)
      /\ stage = "dataOut" => Len(pipe) <= 1
      /\ stored \in SUBSET (Ids \X (Ids \cup {Odd}))
  BY DEF TypeInv, TypeOK
<1>2. UNCHANGED stickVars => StickOK
  BY <1>1 DEF stickVars, StickOK
<1>3. ASSUME NEW payload \in Ids \cup {Odd}, TakesData(payload) PROVE StickOK
  <2>1. stage = "dataOut" /\ stage' = "cbw" /\ UNCHANGED <<halted, writing>>
    BY <1>3 DEF TakesData
  <2>2. PICK ok \in BOOLEAN : pipe' = Append(pipe, Csw(writing, ok))
    BY <1>3 DEF TakesData
  <2>3. writing = <<writing[1], writing[2]>> /\ writing[1] \in Ids /\ writing[2] \in Nat
    BY <1>1, <2>1
  <2>4. Csw(writing, ok) \in Packet /\ Csw(writing, ok).type = "csw"
    BY <2>3, PacketType DEF Csw
  <2>5. pipe' \in Seq(Packet) /\ Len(pipe') <= 3 /\ Shaped(pipe')
    <3>1. /\ pipe' \in Seq(Packet) /\ Shaped(pipe')
          /\ Len(pipe') = Len(pipe) + 1 /\ Len(pipe) \in Nat
      BY <1>1, <2>1, <2>2, <2>4, AppendShape
    <3> QED
      BY <1>1, <2>1, <3>1
  <2>6. stored' = stored \cup {<<writing[1], payload>>} \/ stored' = stored
    BY <1>3 DEF TakesData
  <2>7. stored' \in SUBSET (Ids \X (Ids \cup {Odd}))
    BY <1>1, <2>3, <2>6
  <2> QED
    BY <1>1, <2>1, <2>5, <2>7 DEF StickOK
<1>4. ASSUME NEW k \in {"none", "in", "out"}, NEW of \in Ids, NEW t \in Nat,
             TakesCbw(k, <<of, t>>), k = "out" => t >= 2
      PROVE  StickOK
  <2>1. /\ Len(pipe) <= 1 /\ UNCHANGED <<halted, stored>>
        /\ stage' = IF k = "out" THEN "dataOut" ELSE "cbw"
        /\ writing' = IF k = "out" THEN <<of, t>> ELSE writing
    BY <1>4 DEF TakesCbw
  <2>2. PICK packets \in Replies(k, <<of, t>>) : pipe' = pipe \o packets
    BY <1>4 DEF TakesCbw
  <2>3. /\ pipe' \in Seq(Packet) /\ Len(pipe') <= 3 /\ Shaped(pipe')
        /\ k = "out" => pipe' = pipe
    BY <1>1, <2>1, <2>2, ReplyShape
  <2> QED
    BY <1>1, <1>4, <2>1, <2>3 DEF StickOK
<1>5. TakesNonsense => StickOK
  BY <1>1 DEF TakesNonsense, StickOK
<1>6. ASSUME pipe # <<>>, SendsHead PROVE StickOK
  <2>1. /\ Tail(pipe) \in Seq(Packet) /\ Len(Tail(pipe)) = Len(pipe) - 1 /\ Len(pipe) \in Nat \ {0}
        /\ Shaped(Tail(pipe))
    BY <1>1, <1>6, TailShape
  <2>2. \A n \in Nat \ {0} : (n <= 3 => n - 1 <= 3) /\ (n <= 1 => n - 1 <= 1)
    OBVIOUS
  <2>3. Len(Tail(pipe)) <= 3 /\ (stage = "dataOut" => Len(Tail(pipe)) <= 1)
    BY <1>1, <2>1, <2>2, Zenon
  <2> QED
    BY <1>1, <1>6, <2>1, <2>3 DEF SendsHead, StickOK
<1> QED
  BY <1>2, <1>3, <1>4, <1>5, <1>6

\* No step loses count.
LEMMA CountStep == TypeInv /\ [Next]_vars => CountInv'
<1> SUFFICES ASSUME TypeInv, [Next]_vars PROVE CountInv'
  OBVIOUS
<1>1. /\ nth \in 0 .. 2 /\ tag \in Nat /\ CountInv
      /\ FirstTag \in Nat /\ (strict' = strict => FirstTag' = FirstTag)
  BY DEF TypeInv, TypeOK, FirstTag
<1>2. CASE Open
  BY <1>2 DEF Open, CountInv
<1>3. CASE Exit
  BY <1>3 DEF Exit, CountInv
<1>4. ASSUME NEW k \in {"none", "in", "out"}, SendCbw(k) PROVE CountInv'
  <2>1. /\ pc = "ready" /\ k \in KindsAt(nth) /\ kind' = k /\ tag' = TagOf(nth)
        /\ strict' = strict
        /\ \/ pc' = (IF k = "none" THEN "csw" ELSE "data") /\ nth' = nth
           \/ strict /\ Fail /\ nth' = 1
    BY <1>1, <1>4 DEF SendCbw, TypeInv, TypeOK
  <2>2. \/ nth = 0 /\ k = "none" /\ tag' = FirstTag
        \/ nth = 1 /\ k = "in" /\ tag' = tag + 1 /\ tag = FirstTag
        \/ nth = 2 /\ k \in {"in", "out"} /\ tag' = tag + 1 /\ tag > FirstTag
    BY <1>1, <2>1 DEF KindsAt, TagOf, CountInv
  <2>3. CASE pc' = (IF k = "none" THEN "csw" ELSE "data") /\ nth' = nth
    BY <1>1, <2>1, <2>2, <2>3 DEF CountInv
  <2>4. CASE strict /\ Fail /\ nth' = 1
    BY <1>1, <2>1, <2>2, <2>4 DEF CountInv, Fail
  <2> QED
    BY <2>1, <2>3, <2>4
<1>5. CASE ReadData
  <2>1. /\ pc = "data" /\ kind = "in" /\ UNCHANGED <<strict, kind, id, tag, nth>>
        /\ pc' \in {"csw", "ready", "closed"} /\ (pc' = "ready" => nth = 0)
    BY <1>5 DEF ReadData, Proceed, Fail
  <2> QED
    BY <1>1, <2>1 DEF CountInv
<1>6. CASE WriteData
  <2>1. /\ pc = "data" /\ kind = "out" /\ UNCHANGED <<strict, kind, id, tag, nth>>
        /\ pc' \in {"csw", "ready", "closed"} /\ (pc' = "ready" => nth = 0)
    BY <1>6 DEF WriteData, Proceed, Fail
  <2> QED
    BY <1>1, <2>1 DEF CountInv
<1>7. CASE ReceiveCsw \/ MissCsw
  <2>1. /\ pc = "csw" /\ UNCHANGED <<strict, kind, id, tag>>
        /\ nth' = IF nth = 2 THEN 2 ELSE nth + 1
        /\ pc' \in {"ready", "closed"}
    BY <1>7 DEF ReceiveCsw, MissCsw, Fail
  <2> QED
    BY <1>1, <2>1 DEF CountInv
<1>8. CASE UNCHANGED vars
  BY <1>1, <1>8 DEF vars, clientVars, CountInv
<1> QED
  BY <1>2, <1>3, <1>4, <1>5, <1>6, <1>7, <1>8 DEF Next

\* No step leaves the types.
LEMMA TypeStep == TypeInv /\ [Next]_vars => TypeInv'
<1> SUFFICES ASSUME TypeInv, [Next]_vars PROVE TypeInv'
  OBVIOUS
<1> DEFINE ClientOK ==
      /\ strict' \in BOOLEAN /\ reset' \in BOOLEAN
      /\ pc' \in {"closed", "ready", "data", "csw"}
      /\ kind' \in {"none", "in", "out"}
      /\ id' \in Ids \cup {None}
      /\ pc' \in {"data", "csw"} => id' \in Ids
      /\ tag' \in Nat /\ tag' <= id'
      /\ nth' \in 0 .. 2
      /\ got' \in Ids \cup {None, Odd}
      /\ result' = <<>> \/ result' \in [id : Ids, kind : {"none", "in", "out"},
                                        data : Ids \cup {None, Odd}, csw : Ids]
<1>1. ClientOK /\ StickOK => TypeInv'
  BY BulkAssumption, CountStep DEF TypeInv, TypeOK, StickOK, Ids, None
<1>2. /\ strict \in BOOLEAN /\ reset \in BOOLEAN
      /\ pc \in {"closed", "ready", "data", "csw"}
      /\ kind \in {"none", "in", "out"}
      /\ id \in Ids \cup {None} /\ id \in Nat
      /\ pc \in {"data", "csw"} => id \in Ids
      /\ tag \in Nat /\ tag <= id
      /\ nth \in 0 .. 2
      /\ got \in Ids \cup {None, Odd}
      /\ result = <<>> \/ result \in [id : Ids, kind : {"none", "in", "out"},
                                      data : Ids \cup {None, Odd}, csw : Ids]
  BY DEF TypeInv, TypeOK, Ids, None
<1>3. \A type : AtHead(type) => pipe # <<>> /\ pipe[1] \in Packet /\ pipe[1].of \in Ids
  <2>1. pipe \in Seq(Packet)
    BY DEF TypeInv, TypeOK
  <2>2. pipe # <<>> => pipe[1] \in Packet
    BY <2>1
  <2>3. \A p \in Packet : p.of \in Ids
    BY DEF Packet
  <2> QED
    BY <2>2, <2>3 DEF AtHead
<1>4. Fail => pc' \in {"ready", "closed"}
  BY DEF Fail
<1>5. \A ok \in BOOLEAN : Proceed(ok, "csw") => pc' \in {"ready", "closed", "csw"}
  BY <1>4 DEF Proceed
<1>6. CASE Open
  <2>1. ClientOK
    <3>1. Reset(strict')
      BY <1>6 DEF Open
    <3>2. reset' \in BOOLEAN
      BY <3>1, Zenon DEF Reset
    <3>3. /\ strict' \in BOOLEAN /\ pc' = "ready" /\ nth' = 0 /\ tag' = 0 /\ result' = <<>>
          /\ got' = None /\ UNCHANGED <<kind, id>>
      BY <1>6, BulkAssumption DEF Open
    <3> QED
      BY <1>2, <3>2, <3>3
  <2>2. StickOK
    <3>1. Reset(strict')
      BY <1>6 DEF Open
    <3>2. \/ UNCHANGED stickVars
          \/ pipe # <<>> /\ SendsHead
          \/ pipe' = <<>> /\ stage' = "cbw" /\ halted' = FALSE /\ UNCHANGED <<writing, stored>>
      BY <3>1 DEF Reset, stickVars, SendsHead
    <3>3. Len(<<>>) = 0 /\ <<>> \in Seq(Packet)
      OBVIOUS
    <3>4. CASE UNCHANGED stickVars
      BY <3>4, StickType
    <3>5. CASE pipe # <<>> /\ SendsHead
      BY <3>5, StickType
    <3>6. CASE pipe' = <<>> /\ stage' = "cbw" /\ halted' = FALSE /\ UNCHANGED <<writing, stored>>
      <4>1. stored' \in SUBSET (Ids \X (Ids \cup {Odd}))
        BY <3>6 DEF TypeInv, TypeOK
      <4>2. Len(pipe') = 0 /\ pipe' \in Seq(Packet)
        BY <3>3, <3>6
      <4>3. Len(pipe') <= 3 /\ Shaped(pipe')
        BY <3>6, <4>2 DEF Shaped
      <4>4. halted' \in BOOLEAN /\ stage' = "cbw"
        BY <3>6
      <4> QED
        BY <4>1, <4>2, <4>3, <4>4 DEF StickOK
    <3> QED
      BY <3>2, <3>4, <3>5, <3>6
  <2> QED
    BY <1>1, <2>1, <2>2
<1>7. CASE Exit
  <2>1. ClientOK
    BY <1>2, <1>7 DEF Exit
  <2>2. UNCHANGED stickVars
    BY <1>7 DEF Exit
  <2>3. StickOK
    BY <2>2, StickType
  <2> QED
    BY <1>1, <2>1, <2>3
<1>8. ASSUME NEW k \in {"none", "in", "out"}, SendCbw(k) PROVE TypeInv'
  <2>1. id' \in Ids /\ id' = id + 1
    <3>1. id < MaxCommands /\ id' = id + 1
      BY <1>8 DEF SendCbw
    <3> QED
      BY <1>2, <3>1, BulkAssumption DEF Ids
  <2>2. tag' \in Nat /\ tag' <= id'
    BY <1>2, <1>8, <2>1 DEF SendCbw, TagOf, FirstTag
  <2>3. PICK ok \in BOOLEAN :
          /\ \/ TakesCbw(k, <<id', tag'>>) \/ TakesData(Odd)
             \/ (ok => nth = 0 /\ stage = "cbw" /\ ~halted) /\ UNCHANGED stickVars
          /\ IF ok \/ ~strict
             THEN /\ pc' = IF k = "none" THEN "csw" ELSE "data"
                  /\ UNCHANGED nth
             ELSE /\ Fail
                  /\ nth' = 1
    BY <1>8 DEF SendCbw
  <2>4. k = "out" => tag' >= 2
    <3>1. k = "out" => nth = 2 /\ pc = "ready" /\ tag' = tag + 1
      BY <1>2, <1>8 DEF SendCbw, KindsAt, TagOf
    <3>2. nth = 2 /\ pc = "ready" => tag > FirstTag
      BY DEF TypeInv, CountInv
    <3> QED
      BY <1>2, <3>1, <3>2 DEF FirstTag
  <2>5. StickOK
    BY <2>1, <2>2, <2>3, <2>4, StickType DEF Odd
  <2>6. ClientOK
    BY <1>2, <1>4, <1>8, <2>1, <2>2, <2>3 DEF SendCbw
  <2> QED
    BY <1>1, <2>5, <2>6
<1>9. CASE ReadData
  <2>1. PICK ok \in BOOLEAN :
          /\ \/ AtHead("data") /\ SendsHead /\ got' = IF ok THEN pipe[1].of ELSE None
             \/ AtHead("csw") /\ SendsHead /\ got' = IF ok THEN Odd ELSE None
             \/ ~ok /\ UNCHANGED <<got, stickVars>>
          /\ Proceed(ok, "csw")
    BY <1>9 DEF ReadData
  <2>2. got' \in Ids \cup {None, Odd}
    BY <1>2, <1>3, <2>1
  <2>3. StickOK
    BY <1>3, <2>1, StickType
  <2>4. ClientOK
    BY <1>2, <1>5, <1>9, <2>1, <2>2 DEF ReadData
  <2> QED
    BY <1>1, <2>3, <2>4
<1>10. CASE WriteData
  <2>1. PICK ok \in BOOLEAN :
          /\ \/ TakesData(id) \/ TakesNonsense
             \/ ~ok /\ UNCHANGED stickVars
          /\ Proceed(ok, "csw")
    BY <1>10 DEF WriteData
  <2>2. pc = "data"
    BY <1>10 DEF WriteData
  <2>3. StickOK
    BY <1>2, <2>1, <2>2, StickType
  <2>4. ClientOK
    BY <1>2, <1>5, <1>10, <2>1 DEF WriteData
  <2> QED
    BY <1>1, <2>3, <2>4
<1>11. CASE ReceiveCsw
  <2>1. /\ pc = "csw" /\ AtHead("csw") /\ SendsHead
        /\ nth' = IF nth = 2 THEN 2 ELSE nth + 1
        /\ UNCHANGED <<strict, reset, kind, id, tag, got>>
    BY <1>11 DEF ReceiveCsw
  <2>2. \/ pc' = "ready" /\ result' = [id |-> id, kind |-> kind, data |-> got, csw |-> pipe[1].of]
        \/ pc' \in {"ready", "closed"} /\ UNCHANGED result
    BY <1>4, <1>11 DEF ReceiveCsw
  <2>3. StickOK
    BY <1>3, <2>1, StickType
  <2>4. nth' \in 0 .. 2
    BY <1>2, <2>1
  <2>5. \/ result' = <<>>
        \/ result' \in [id : Ids, kind : {"none", "in", "out"},
                        data : Ids \cup {None, Odd}, csw : Ids]
    BY <1>2, <1>3, <2>1, <2>2
  <2>6. ClientOK
    BY <1>2, <2>1, <2>2, <2>4, <2>5
  <2> QED
    BY <1>1, <2>3, <2>6
<1>12. CASE MissCsw
  <2>1. /\ Fail /\ nth' = IF nth = 2 THEN 2 ELSE nth + 1
        /\ \/ (AtHead("data") \/ AtHead("csw")) /\ SendsHead
           \/ UNCHANGED stickVars
        /\ UNCHANGED <<strict, reset, kind, id, tag, got, result>>
    BY <1>12 DEF MissCsw
  <2>2. StickOK
    BY <1>3, <2>1, StickType
  <2>3. nth' \in 0 .. 2
    BY <1>2, <2>1
  <2>4. ClientOK
    BY <1>2, <1>4, <2>1, <2>3
  <2> QED
    BY <1>1, <2>2, <2>4
<1>13. CASE UNCHANGED vars
  <2>1. ClientOK
    BY <1>2, <1>13 DEF vars, clientVars
  <2>2. UNCHANGED stickVars
    BY <1>13 DEF vars
  <2>3. StickOK
    BY <2>2, StickType
  <2> QED
    BY <1>1, <2>1, <2>3
<1> QED
  BY <1>6, <1>7, <1>8, <1>9, <1>10, <1>11, <1>12, <1>13 DEF Next

\* The types hold before the first process.
LEMMA TypeInit == Init => TypeInv
<1>1. Len(<<>>) = 0 /\ <<>> \in Seq(Packet)
  OBVIOUS
<1>2. Init => id = 0 /\ tag = 0 /\ nth = 0 /\ pipe = <<>> /\ stage = "cbw" /\ pc = "closed"
  BY DEF Init
<1>3. Init => TypeOK
  <2> SUFFICES ASSUME Init PROVE TypeOK
    OBVIOUS
  <2>1. pipe \in Seq(Packet) /\ Len(pipe) <= 3 /\ tag \in Nat /\ tag <= MaxCommands + 1
    BY <1>1, <1>2, BulkAssumption
  <2>2. strict \in BOOLEAN /\ reset \in BOOLEAN
    BY BulkAssumption DEF Init
  <2>3. /\ pc \in {"closed", "ready", "data", "csw"} /\ kind \in {"none", "in", "out"}
        /\ halted \in BOOLEAN /\ id = None /\ nth \in 0 .. 2 /\ got = None /\ result = <<>>
        /\ stage = "cbw" /\ stored \in SUBSET (Ids \X (Ids \cup {Odd}))
    <3>1. nth \in 0 .. 2
      BY <1>2
    <3> QED
      BY <3>1 DEF Init, None
  <2> QED
    BY <2>1, <2>2, <2>3 DEF TypeOK
<1> QED
  BY <1>1, <1>2, <1>3 DEF TypeInv, Shaped, CountInv

\* Types of the client and the stick, whether the reset works or not.
THEOREM TypeCorrect == Spec => []TypeOK
<1>1. TypeInv => TypeOK
  BY DEF TypeInv
<1> QED
  BY <1>1, TypeInit, TypeStep, PTL DEF Spec

-----------------------------------------------------------------------------
(* The dialogue *)

\* Packets of the commands before number t of the process, and of the command
\* it is at
Before(t) == {p \in Packet : p.tag < t}
Answers   == {p \in Packet : p.of = id /\ p.tag = tag}

\* Is what the stick has to send of this process alone?
Clear == reset \/ nth = 2

Passing(packet) == packet.type = "csw" /\ Passed(packet)

\* Before a CBW the stick awaits one, and what it owes has no later tag.
AtReady == stage = "cbw" /\ pipe \in Seq(Before(TagOf(nth)))

\* Before the data it may owe the reply too, or await the data of this command;
\* a status that passes follows the data.
AtData ==
  \/ /\ kind = "in" /\ stage = "cbw"
     /\ pipe \in Seq(Before(tag) \cup Answers)
     /\ strict /\ Len(pipe) >= 2 /\ Passing(pipe[2]) =>
          pipe[1].type = "data" /\ pipe[1].of = id
  \/ /\ kind = "out" /\ pipe \in Seq(Before(tag))
     /\ stage = "dataOut" => writing = <<id, tag>>

\* What answers the write, if it passes, comes after its data is stored.
Stored == {p \in Answers : p.passed => <<id, id>> \in stored}

\* Before the status: one that passes is there only with its data.
AtCsw ==
  \/ /\ kind \in {"none", "in"} /\ stage = "cbw"
     /\ pipe \in Seq(Before(tag) \cup Answers)
     /\ strict /\ kind = "in" /\ pipe # <<>> /\ Passing(pipe[1]) => got = id
  \/ /\ kind = "out" /\ pipe \in Seq(Before(tag) \cup Stored)
     /\ stage = "dataOut" => writing = <<id, tag>> /\ pipe \in Seq(Before(tag))

\* Where the reset failed: the lenient client's INQUIRY, of tag 1, cannot be
\* answered by another process and leave anything of a later tag behind.
Quiet(p) ==
  p # <<>> /\ p[1].type = "csw" /\ p[1].tag = 1 =>
    stage = "cbw" /\ Tail(p) \in Seq(Before(2))

LenientStart ==
  /\ pc = "ready" => /\ Len(pipe) <= 2 /\ (Len(pipe) = 2 => pipe[1].type # "csw")
                     /\ stage = "dataOut" => pipe = <<>>
  /\ pc = "data"  => Quiet(pipe) /\ (pipe # <<>> => Quiet(Tail(pipe)))
  /\ pc = "csw"   => Quiet(pipe)

\* The strict client's INQUIRY ends with a status that nothing follows.
StrictStart ==
  /\ pc \in {"data", "csw"} => stage = "cbw"
  /\ pc = "csw" /\ pipe # <<>> /\ pipe[1].type = "csw" => Len(pipe) = 1

\* The dialogue at each point of the client's program
DialogueInv ==
  /\ Clear => /\ pc = "ready" => AtReady
              /\ pc = "data"  => AtData
              /\ pc = "csw"   => AtCsw
  /\ ~Clear /\ nth = 1 => IF strict THEN StrictStart ELSE LenientStart

\* A process that is closed has no dialogue.
LEMMA Closed == pc' = "closed" => DialogueInv'
BY DEF DialogueInv, StrictStart, LenientStart

\* The facts about types the steps need
LEMMA Types ==
  ASSUME TypeInv
  PROVE  /\ pipe \in Seq(Packet) /\ Len(pipe) <= 3 /\ Shaped(pipe)
         /\ strict \in BOOLEAN /\ nth \in 0 .. 2 /\ tag \in Nat /\ id \in Nat /\ FirstTag \in Nat
         /\ pc \in {"data", "csw"} => id \in Ids
         /\ stage \in {"cbw", "dataOut"}
         /\ stage = "dataOut" => writing \in Ids \X Nat /\ writing[2] >= 2 /\ Len(pipe) <= 1
BY DEF TypeInv, TypeOK, Ids, None, FirstTag

\* Tags go up.
LEMMA Older ==
  ASSUME NEW t \in Nat
  PROVE  /\ Before(t) \subseteq Packet /\ Before(t) \subseteq Before(t + 1)
         /\ \A of : {p \in Packet : p.of = of /\ p.tag = t} \subseteq Before(t + 1)
         /\ Before(t) \cup Answers \subseteq Packet /\ Stored \subseteq Answers
         /\ t = tag => Answers \subseteq Before(t + 1)
<1>1. \A p \in Packet : p.tag \in Nat
  BY DEF Packet
<1>2. \A m \in Nat : (m < t => m < t + 1) /\ (m = t => m < t + 1)
  OBVIOUS
<1> QED
  BY <1>1, <1>2, Zenon DEF Before, Answers, Stored

\* The CBW of a process the stick is clear about
LEMMA SendClear ==
  ASSUME TypeInv, DialogueInv, Clear, NEW k \in {"none", "in", "out"}, SendCbw(k)
  PROVE  DialogueInv' /\ UNCHANGED stored
<1>1. /\ pc = "ready" /\ AtReady /\ kind' = k /\ k \in KindsAt(nth) /\ tag' = TagOf(nth)
      /\ UNCHANGED <<strict, reset>>
  BY DEF SendCbw, DialogueInv
<1>2. id' \in Ids /\ tag' \in Nat
  <2>1. TypeInv' /\ id \in Nat /\ id' = id + 1
    BY TypeStep, Types DEF Next, SendCbw
  <2> QED
    BY <2>1, BulkAssumption DEF SendCbw, Ids, TypeInv, TypeOK
<1>3. PICK ok \in BOOLEAN :
        /\ \/ TakesCbw(k, <<id', tag'>>) \/ TakesData(Odd)
           \/ (ok => nth = 0 /\ stage = "cbw" /\ ~halted) /\ UNCHANGED stickVars
        /\ IF ok \/ ~strict
           THEN /\ pc' = IF k = "none" THEN "csw" ELSE "data"
                /\ UNCHANGED nth
           ELSE /\ Fail
                /\ nth' = 1
  BY DEF SendCbw
<1>4. stage = "cbw" /\ pipe \in Seq(Before(tag')) /\ pipe \in Seq(Packet) /\ Shaped(pipe)
  BY <1>1, Types DEF AtReady
<1>5. ~TakesData(Odd)
  BY <1>4 DEF TakesData
<1> DEFINE M == {p \in Packet : p.of = id' /\ p.tag = tag'}
<1>6. /\ Before(tag)' = Before(tag') /\ Answers' = M
      /\ Before(tag') \subseteq Before(tag' + 1) /\ M \subseteq Before(tag' + 1)
  BY <1>2, Older DEF Before, Answers
<1> HIDE DEF M
<1>7. /\ UNCHANGED stored
      /\ pipe' \in Seq(Before(tag') \cup M)
      /\ k = "out" => pipe' \in Seq(Before(tag'))
      /\ k # "out" => stage' = "cbw"
      /\ stage' = "dataOut" => writing' = <<id', tag'>>
      /\ k = "in" /\ TakesCbw(k, <<id', tag'>>) /\ Len(pipe') >= 2
           /\ pipe'[2].type = "csw" /\ pipe'[2].passed =>
             pipe'[1].type = "data" /\ pipe'[1].of = id'
  <2>1. CASE TakesCbw(k, <<id', tag'>>)
    <3>1. PICK packets \in Replies(k, <<id', tag'>>) : pipe' = pipe \o packets
      BY <2>1 DEF TakesCbw
    <3>2. /\ UNCHANGED stored /\ Len(pipe) <= 1
          /\ stage' = (IF k = "out" THEN "dataOut" ELSE "cbw")
          /\ k = "out" => writing' = <<id', tag'>>
      BY <2>1 DEF TakesCbw
    <3>3. /\ k = "out" => pipe' = pipe
          /\ \A S : pipe \in Seq(S) =>
               pipe' \in Seq(S \cup {x \in Packet : x.of = id' /\ x.tag = tag'})
          /\ k = "in" /\ Len(pipe') >= 2 /\ pipe'[2].type = "csw" /\ pipe'[2].passed
               /\ pipe = <<>> => pipe'[1].type = "data" /\ pipe'[1].of = id'
          /\ k = "in" /\ Len(pipe') >= 2 /\ pipe # <<>> /\ pipe'[2].type = "csw" => ~pipe'[2].passed
      BY <1>2, <1>4, <3>1, <3>2, ReplyShape
    <3>4. pipe' \in Seq(Before(tag') \cup M)
      BY <1>4, <3>3 DEF M
    <3> QED
      BY <1>4, <3>2, <3>3, <3>4
  <2>2. CASE UNCHANGED stickVars /\ ~TakesCbw(k, <<id', tag'>>)
    <3>1. UNCHANGED <<stage, pipe, stored>>
      BY <2>2 DEF stickVars
    <3>2. pipe \in Seq(Before(tag') \cup M)
      BY <1>4, SeqMonotonic
    <3> QED
      BY <1>4, <2>2, <3>1, <3>2
  <2> QED
    BY <1>3, <1>5, <2>1, <2>2
<1>8. CASE ok \/ ~strict
  <2>1. pc' = (IF k = "none" THEN "csw" ELSE "data") /\ nth' = nth /\ Clear'
    BY <1>1, <1>3, <1>8 DEF Clear
  <2>2. CASE k = "none"
    BY <1>1, <1>6, <1>7, <2>1, <2>2 DEF DialogueInv, AtCsw
  <2>3. CASE k = "in"
    <3>1. nth # 0
      BY <1>1, <2>3 DEF KindsAt
    <3>2. strict /\ Len(pipe') >= 2 /\ Passing(pipe[2])' => pipe'[1].type = "data" /\ pipe'[1].of = id'
      <4>1. strict => TakesCbw(k, <<id', tag'>>)
        BY <1>3, <1>5, <1>8, <3>1
      <4> QED
        BY <1>7, <2>3, <4>1 DEF Passing, Passed
    <3> QED
      BY <1>1, <1>6, <1>7, <2>1, <2>3, <3>2 DEF DialogueInv, AtData
  <2>4. CASE k = "out"
    BY <1>1, <1>6, <1>7, <2>1, <2>4 DEF DialogueInv, AtData
  <2> QED
    BY <1>7, <2>2, <2>3, <2>4
<1>9. CASE ~(ok \/ ~strict)
  <2>1. Fail /\ nth' = 1
    BY <1>3, <1>9
  <2>2. CASE nth # 0
    BY <1>7, <2>1, <2>2, Closed DEF Fail
  <2>3. CASE nth = 0
    <3>1. k = "none" /\ pc' = "ready" /\ strict'
      BY <1>1, <1>9, <2>1, <2>3 DEF KindsAt, Fail
    <3>2. TagOf(nth)' = tag' + 1
      BY <2>1 DEF TagOf
    <3>3. pipe' \in Seq(Before(tag' + 1))
      <4>1. Before(tag') \cup M \subseteq Before(tag' + 1)
        BY <1>6
      <4> QED
        BY <1>7, <4>1, SeqMonotonic
    <3>4. Before(TagOf(nth))' = Before(tag' + 1)
      BY <3>2 DEF Before
    <3>5. AtReady'
      BY <1>7, <3>1, <3>3, <3>4 DEF AtReady
    <3> QED
      BY <1>7, <3>1, <3>5 DEF DialogueInv, StrictStart
  <2> QED
    BY <2>2, <2>3
<1> QED
  BY <1>8, <1>9

\* The CBW of an INQUIRY where the reset failed
LEMMA SendStart ==
  ASSUME TypeInv, DialogueInv, ~Clear, nth = 1, NEW k \in {"none", "in", "out"}, SendCbw(k)
  PROVE  DialogueInv'
<1>1. /\ pc = "ready" /\ kind' = k /\ k = "in" /\ tag' = tag + 1 /\ tag = FirstTag
      /\ UNCHANGED <<strict, reset>>
      /\ IF strict THEN StrictStart ELSE LenientStart
  BY DEF SendCbw, DialogueInv, KindsAt, TagOf, TypeInv, CountInv
<1>2. id' \in Ids /\ tag' \in Nat
  <2>1. TypeInv' /\ id \in Nat /\ id' = id + 1
    BY TypeStep, Types DEF Next, SendCbw
  <2> QED
    BY <2>1, BulkAssumption DEF SendCbw, Ids, TypeInv, TypeOK
<1>3. PICK ok \in BOOLEAN :
        /\ \/ TakesCbw(k, <<id', tag'>>) \/ TakesData(Odd)
           \/ (ok => nth = 0 /\ stage = "cbw" /\ ~halted) /\ UNCHANGED stickVars
        /\ IF ok \/ ~strict
           THEN /\ pc' = IF k = "none" THEN "csw" ELSE "data"
                /\ UNCHANGED nth
           ELSE /\ Fail
                /\ nth' = 1
  BY DEF SendCbw
<1>4. nth' = 1 /\ ~Clear' /\ pc' \in {"data", "closed"}
  BY <1>1, <1>3 DEF Clear, Fail
<1>5. CASE strict
  <2>1. pc' = "data" => stage' = "cbw"
    BY <1>1, <1>3, <1>5 DEF Fail, TakesCbw, TakesData
  <2> QED
    BY <1>1, <1>4, <1>5, <2>1 DEF DialogueInv, StrictStart
<1>6. CASE ~strict
  <2>1. /\ tag' = 1 /\ pc' = "data"
        /\ Len(pipe) <= 2 /\ (Len(pipe) = 2 => pipe[1].type # "csw")
        /\ stage = "dataOut" => pipe = <<>>
        /\ pipe \in Seq(Packet) /\ Shaped(pipe) /\ Len(pipe) <= 3 /\ Len(pipe) \in Nat
    BY <1>1, <1>3, <1>6, Types, LenProperties DEF LenientStart, FirstTag
  <2>2. SUFFICES Quiet(pipe)' /\ (pipe' # <<>> => Quiet(Tail(pipe))')
    BY <1>1, <1>4, <1>6, <2>1 DEF DialogueInv, LenientStart
  <2> DEFINE M == {p \in Packet : p.of = id' /\ p.tag = tag'}
  <2>3. M \subseteq Before(2) /\ <<>> \in Seq(Before(2))
    <3>1. M \subseteq Before(tag' + 1) /\ tag' + 1 = 2
      BY <1>2, <2>1, Older
    <3> QED
      BY <3>1, EmptySeq
  <2>4. CASE TakesCbw(k, <<id', tag'>>)
    <3>1. PICK packets \in Replies(k, <<id', tag'>>) : pipe' = pipe \o packets
      BY <2>4 DEF TakesCbw
    <3>2. Len(pipe) <= 1 /\ stage' = "cbw"
      BY <1>1, <2>4 DEF TakesCbw
    <3>3. packets \in Seq(M) /\ packets # <<>>
      BY <1>1, <1>2, <3>1, RepliesType DEF Replied
    <3> HIDE DEF M
    <3>4. packets \in Seq(Before(2))
      BY <2>3, <3>3, SeqMonotonic
    <3>5. \A p \in Seq(Before(2)) : p # <<>> => Tail(p) \in Seq(Before(2))
      BY HeadTailProperties
    <3>6. (pipe = <<>> => pipe' = packets) /\ (pipe # <<>> => Tail(pipe') = packets)
      BY <1>2, <2>1, <3>1, <3>2, ReplyShape
    <3>7. Tail(packets) \in Seq(Before(2)) /\ (Tail(packets) # <<>> => Tail(Tail(packets)) \in Seq(Before(2)))
      BY <3>3, <3>4, <3>5
    <3> QED
      BY <3>2, <3>4, <3>6, <3>7 DEF Quiet
  <2>5. CASE TakesData(Odd)
    <3>1. PICK ok2 \in BOOLEAN : pipe' = Append(pipe, Csw(writing, ok2))
      BY <2>5 DEF TakesData
    <3>2. pipe = <<>> /\ writing[2] >= 2 /\ writing[2] \in Nat
      BY <2>1, <2>5, Types DEF TakesData
    <3>3. pipe' = <<Csw(writing, ok2)>>
      BY <3>1, <3>2
    <3>4. pipe'[1] = Csw(writing, ok2) /\ Tail(pipe') = <<>>
      BY <3>3
    <3>5. pipe'[1].tag # 1
      BY <3>2, <3>4 DEF Csw
    <3> QED
      BY <3>4, <3>5 DEF Quiet
  <2>6. CASE UNCHANGED stickVars
    <3>1. UNCHANGED <<stage, pipe>>
      BY <2>6 DEF stickVars
    <3>2. CASE pipe = <<>>
      BY <3>1, <3>2 DEF Quiet
    <3>3. CASE pipe # <<>>
      <4>1. stage = "cbw"
        BY <2>1, <3>3, Types
      <4>2. /\ Len(Tail(pipe)) = Len(pipe) - 1 /\ Tail(pipe) \in Seq(Packet)
        BY <2>1, <3>3, TailShape
      <4>3. pipe[1].type = "csw" => Tail(pipe) = <<>>
        <5>1. \A n \in Nat : n <= 2 /\ n # 2 /\ n # 0 => n - 1 = 0
          OBVIOUS
        <5>2. Len(pipe) # 0
          BY <2>1, <3>3, EmptySeq
        <5>3. pipe[1].type = "csw" => Len(Tail(pipe)) = 0
          BY <2>1, <4>2, <5>1, <5>2, Zenon
        <5> QED
          BY <4>2, <5>3, EmptySeq
      <4>4. Tail(pipe) # <<>> => Tail(Tail(pipe)) = <<>>
        <5>1. Tail(pipe) # <<>> => /\ Len(Tail(Tail(pipe))) = Len(Tail(pipe)) - 1
                                   /\ Tail(Tail(pipe)) \in Seq(Packet)
          BY <4>2, HeadTailProperties
        <5>2. Tail(pipe) # <<>> => Len(Tail(pipe)) # 0 /\ Len(Tail(pipe)) \in Nat
          BY <4>2, EmptySeq
        <5>3. \A m, n \in Nat : n <= 2 /\ m = n - 1 /\ m # 0 => m - 1 = 0
          OBVIOUS
        <5>4. Tail(pipe) # <<>> => Len(Tail(Tail(pipe))) = 0
          BY <2>1, <4>2, <5>1, <5>2, <5>3, Zenon
        <5> QED
          BY <5>1, <5>4, EmptySeq
      <4> QED
        BY <2>3, <3>1, <4>1, <4>3, <4>4 DEF Quiet
    <3> QED
      BY <3>2, <3>3
  <2> QED
    BY <1>3, <2>4, <2>5, <2>6
<1> QED
  BY <1>5, <1>6

\* The data phase of a read takes the head, or nothing.
LEMMA ReadTakes ==
  ASSUME TypeInv, ReadData
  PROVE  /\ pc = "data" /\ kind = "in" /\ nth \in {1, 2} /\ pc' \in {"csw", "closed"}
         /\ UNCHANGED <<strict, reset, kind, id, tag, nth, stage, writing, stored, result>>
         /\ pipe' = pipe \/ (pipe # <<>> /\ pipe' = Tail(pipe))
         /\ strict /\ pc' = "csw" =>
              /\ pipe # <<>> /\ pipe' = Tail(pipe)
              /\ pipe[1].type = "data" => got' = pipe[1].of
<1>1. pc = "data" /\ kind = "in" /\ UNCHANGED <<strict, reset, kind, id, tag, nth, result>>
  BY DEF ReadData
<1>2. nth \in {1, 2}
  BY <1>1 DEF TypeInv, CountInv
<1>3. PICK ok \in BOOLEAN :
        /\ \/ AtHead("data") /\ SendsHead /\ got' = IF ok THEN pipe[1].of ELSE None
           \/ AtHead("csw") /\ SendsHead /\ got' = IF ok THEN Odd ELSE None
           \/ ~ok /\ UNCHANGED <<got, stickVars>>
        /\ Proceed(ok, "csw")
  BY DEF ReadData
<1>4. pc' \in {"csw", "closed"} /\ (strict /\ pc' = "csw" => ok)
  BY <1>2, <1>3 DEF Proceed, Fail
<1>5. CASE ~ok /\ UNCHANGED <<got, stickVars>>
  BY <1>1, <1>2, <1>4, <1>5 DEF stickVars
<1>6. CASE AtHead("data") /\ SendsHead /\ got' = IF ok THEN pipe[1].of ELSE None
  BY <1>1, <1>2, <1>4, <1>6 DEF AtHead, SendsHead
<1>7. CASE AtHead("csw") /\ SendsHead
  BY <1>1, <1>2, <1>4, <1>7 DEF AtHead, SendsHead
<1> QED
  BY <1>3, <1>5, <1>6, <1>7

\* What is read is the head; the strict client has the data when the status
\* behind it passes.
LEMMA ReadStep ==
  ASSUME TypeInv, DialogueInv, ReadData
  PROVE  DialogueInv'
<1>1. /\ pc = "data" /\ kind = "in" /\ nth \in {1, 2} /\ pc' \in {"csw", "closed"}
      /\ UNCHANGED <<strict, reset, kind, id, tag, nth, stage, writing, stored, result>>
      /\ pipe' = pipe \/ (pipe # <<>> /\ pipe' = Tail(pipe))
      /\ strict /\ pc' = "csw" =>
           /\ pipe # <<>> /\ pipe' = Tail(pipe)
           /\ pipe[1].type = "data" => got' = pipe[1].of
  BY ReadTakes
<1>2. pipe \in Seq(Packet) /\ Len(pipe) <= 3 /\ Shaped(pipe)
  BY Types
<1>3. (Clear' <=> Clear) /\ Before(tag)' = Before(tag) /\ Answers' = Answers
  BY <1>1 DEF Clear, Before, Answers
<1>4. pipe # <<>> =>
        /\ Len(Tail(pipe)) = Len(pipe) - 1 /\ Len(pipe) \in Nat \ {0}
        /\ Tail(pipe) # <<>> => Len(pipe) >= 2 /\ Tail(pipe)[1] = pipe[2]
        /\ Len(Tail(pipe)) = 2 => Tail(pipe)[1].type # "csw"
        /\ \A S : pipe \in Seq(S) => pipe[1] \in S /\ Tail(pipe) \in Seq(S)
  BY <1>2, TailShape
<1>5. CASE pc' = "closed"
  BY <1>5, Closed
<1>6. CASE pc' = "csw" /\ Clear
  <2>1. AtData
    BY <1>1, <1>6 DEF DialogueInv
  <2>2. /\ stage = "cbw" /\ pipe \in Seq(Before(tag) \cup Answers)
        /\ strict /\ Len(pipe) >= 2 /\ Passing(pipe[2]) => pipe[1].type = "data" /\ pipe[1].of = id
    BY <1>1, <2>1 DEF AtData
  <2>3. pipe' \in Seq(Before(tag) \cup Answers)
    BY <1>1, <1>4, <2>2
  <2>4. strict /\ pipe' # <<>> /\ Passing(pipe[1])' => got' = id
    <3>1. SUFFICES ASSUME strict, pipe' # <<>>, Passing(pipe[1])' PROVE got' = id
      OBVIOUS
    <3>2. pipe'[1] = pipe[2] /\ Len(pipe) >= 2
      BY <1>1, <1>4, <1>6, <3>1
    <3>3. Passing(pipe[2])
      BY <1>1, <3>1, <3>2 DEF Passing, Passed
    <3> QED
      BY <1>1, <1>6, <2>2, <3>1, <3>2, <3>3
  <2>5. AtCsw'
    BY <1>1, <1>3, <2>2, <2>3, <2>4 DEF AtCsw
  <2> QED
    BY <1>3, <1>6, <2>5 DEF DialogueInv
<1>7. CASE pc' = "csw" /\ ~Clear
  <2>1. nth = 1
    BY <1>1, <1>7 DEF Clear
  <2>2. CASE strict
    <3>1. stage' = "cbw"
      BY <1>1, <1>7, <2>1, <2>2 DEF DialogueInv, StrictStart
    <3>2. pipe' # <<>> /\ pipe'[1].type = "csw" => Len(pipe') = 1
      <4>1. pipe' = Tail(pipe) /\ pipe # <<>>
        BY <1>1, <1>7, <2>2
      <4>2. \A n \in Nat \ {0} : n <= 3 /\ n >= 2 /\ n - 1 # 2 => n - 1 = 1
        OBVIOUS
      <4> QED
        BY <1>2, <1>4, <4>1, <4>2, Zenon
    <3> QED
      BY <1>1, <1>3, <1>7, <2>1, <2>2, <3>1, <3>2 DEF DialogueInv, StrictStart
  <2>3. CASE ~strict
    <3>1. Quiet(pipe) /\ (pipe # <<>> => Quiet(Tail(pipe)))
      BY <1>1, <1>7, <2>1, <2>3 DEF DialogueInv, LenientStart
    <3>2. Quiet(pipe)'
      BY <1>1, <3>1 DEF Quiet
    <3> QED
      BY <1>1, <1>3, <1>7, <2>1, <2>3, <3>2 DEF DialogueInv, LenientStart
  <2> QED
    BY <2>2, <2>3
<1> QED
  BY <1>1, <1>5, <1>6, <1>7

\* The data is stored for the command that sent it.
LEMMA WriteStep ==
  ASSUME TypeInv, DialogueInv, WriteData
  PROVE  /\ DialogueInv' /\ stored \subseteq stored'
         /\ \A w \in stored' \ stored : w[1] = w[2]
<1>1. /\ pc = "data" /\ kind = "out" /\ UNCHANGED <<strict, reset, kind, id, tag, nth>>
  BY DEF WriteData
<1>2. nth = 2 /\ Clear /\ Clear'
  BY <1>1 DEF TypeInv, CountInv, Clear
<1>3. pc' \in {"csw", "closed"}
  BY <1>1, <1>2 DEF WriteData, Proceed, Fail
<1>4. pipe \in Seq(Before(tag)) /\ (stage = "dataOut" => writing = <<id, tag>>)
  BY <1>1, <1>2 DEF DialogueInv, AtData
<1>5. Before(tag)' = Before(tag) /\ Stored' = {p \in Answers : p.passed => <<id, id>> \in stored'}
  BY <1>1 DEF Before, Stored, Answers
<1>6. id \in Ids /\ tag \in Nat
  BY <1>1, Types
<1>7. CASE TakesData(id)
  <2>1. stage = "dataOut" /\ stage' = "cbw" /\ writing = <<id, tag>>
    BY <1>4, <1>7 DEF TakesData
  <2>2. PICK ok \in BOOLEAN :
          /\ pipe' = Append(pipe, Csw(<<id, tag>>, ok))
          /\ \/ stored' = stored \cup {<<id, id>>}
             \/ ~ok /\ UNCHANGED stored
    BY <1>7, <2>1 DEF TakesData
  <2>3. Csw(<<id, tag>>, ok) \in Stored'
    <3>1. Csw(<<id, tag>>, ok) \in Answers /\ Csw(<<id, tag>>, ok).passed = ok
      BY <1>6, PacketType DEF Answers, Csw
    <3> QED
      BY <1>5, <2>2, <3>1
  <2>4. pipe' \in Seq(Before(tag) \cup Stored')
    <3>1. pipe \in Seq(Before(tag) \cup Stored')
      BY <1>4, SeqMonotonic
    <3> QED
      BY <2>2, <2>3, <3>1, AppendProperties
  <2>5. AtCsw'
    BY <1>1, <1>5, <2>1, <2>4 DEF AtCsw
  <2> QED
    BY <1>2, <1>3, <2>2, <2>5, Closed DEF DialogueInv
<1>8. CASE TakesNonsense \/ UNCHANGED stickVars
  <2>1. UNCHANGED <<stage, writing, pipe, stored>>
    BY <1>8 DEF TakesNonsense, stickVars
  <2>2. pipe' \in Seq(Before(tag) \cup Stored') /\ pipe' \in Seq(Before(tag))
    BY <1>4, <2>1, SeqMonotonic
  <2>3. AtCsw'
    BY <1>1, <1>4, <1>5, <2>1, <2>2 DEF AtCsw
  <2> QED
    BY <1>2, <1>3, <2>1, <2>3, Closed DEF DialogueInv
<1> QED
  BY <1>7, <1>8 DEF WriteData

\* A status that passes is that of the command, and what is left is older than
\* the next.
LEMMA StatusStep ==
  ASSUME TypeInv, DialogueInv, ReceiveCsw
  PROVE  /\ DialogueInv'
         /\ Clear /\ Passed(pipe[1]) =>
              /\ pipe[1].of = id
              /\ strict /\ kind = "in" => got = id
              /\ kind = "out" => <<id, id>> \in stored
<1>1. /\ pc = "csw" /\ pipe # <<>> /\ pipe[1].type = "csw"
      /\ pipe' = Tail(pipe) /\ UNCHANGED <<stage, writing, stored>>
      /\ nth' = IF nth = 2 THEN 2 ELSE nth + 1
      /\ UNCHANGED <<strict, reset, kind, id, tag, got>>
  BY DEF ReceiveCsw, AtHead, SendsHead
<1>2. \/ Passed(pipe[1]) /\ pc' = "ready"
      \/ ~Passed(pipe[1]) /\ ~strict /\ kind = "out" /\ pipe[1].tag = tag /\ pc' = "ready"
      \/ ~Passed(pipe[1]) /\ Fail
  BY DEF ReceiveCsw
<1>3. /\ pipe \in Seq(Packet) /\ Len(pipe) <= 3 /\ Shaped(pipe)
      /\ strict \in BOOLEAN /\ nth \in 0 .. 2 /\ tag \in Nat /\ stage \in {"cbw", "dataOut"}
      /\ stage = "dataOut" => Len(pipe) <= 1
  BY Types
<1>4. /\ pipe[1] \in Packet /\ Len(Tail(pipe)) = Len(pipe) - 1 /\ Len(pipe) \in Nat \ {0}
      /\ Tail(pipe) \in Seq(Packet)
      /\ Len(Tail(pipe)) = 2 => Tail(pipe)[1].type # "csw"
      /\ \A S : pipe \in Seq(S) => pipe[1] \in S /\ Tail(pipe) \in Seq(S)
  BY <1>1, <1>3, TailShape
<1>5. /\ \/ nth = 0 /\ kind = "none" /\ tag = FirstTag
         \/ nth = 1 /\ kind = "in" /\ tag = FirstTag + 1
         \/ nth = 2 /\ kind \in {"in", "out"}
      /\ nth' # 0
  BY <1>1, <1>3 DEF TypeInv, CountInv
<1>6. TagOf(nth)' = tag + 1 /\ Before(TagOf(nth))' = Before(tag + 1)
  BY <1>1, <1>5 DEF TagOf, Before
<1>7. /\ Before(tag) \subseteq Before(tag + 1) /\ Answers \subseteq Before(tag + 1)
      /\ Stored \subseteq Answers
  BY <1>3, Older
<1>8. pc' \in {"ready", "closed"}
  BY <1>2 DEF Fail
<1>9. CASE Clear
  <2>1. AtCsw /\ Clear'
    BY <1>1, <1>9 DEF DialogueInv, Clear
  <2>2. pipe' \in Seq(Before(tag + 1))
    <3>1. pipe \in Seq(Before(tag + 1))
      <4>1. CASE pipe \in Seq(Before(tag) \cup Answers)
        <5>1. Before(tag) \cup Answers \subseteq Before(tag + 1)
          BY <1>7
        <5> QED
          BY <4>1, <5>1, SeqMonotonic
      <4>2. CASE pipe \in Seq(Before(tag) \cup Stored)
        <5>1. Before(tag) \cup Stored \subseteq Before(tag + 1)
          BY <1>7
        <5> QED
          BY <4>2, <5>1, SeqMonotonic
      <4> QED
        BY <2>1, <4>1, <4>2 DEF AtCsw
    <3> QED
      BY <1>1, <1>4, <3>1
  <2>3. pc' = "ready" => stage = "cbw"
    <3>1. SUFFICES ASSUME pc' = "ready", stage = "dataOut" PROVE FALSE
      BY <1>3
    <3>2. kind = "out" /\ pipe \in Seq(Before(tag)) /\ nth = 2
      BY <1>5, <2>1, <3>1 DEF AtCsw
    <3>3. pipe[1] \in Before(tag)
      BY <1>4, <3>2
    <3>4. pipe[1].tag # tag
      <4>1. pipe[1].tag < tag /\ pipe[1].tag \in Nat
        BY <1>4, <3>3 DEF Before, Packet
      <4> QED
        BY <1>3, <4>1
    <3> QED
      BY <1>2, <3>1, <3>2, <3>4 DEF Passed, Fail
  <2>4. DialogueInv'
    BY <1>1, <1>6, <1>8, <2>1, <2>2, <2>3 DEF DialogueInv, AtReady
  <2>5. ASSUME Passed(pipe[1])
        PROVE  /\ pipe[1].of = id
               /\ strict /\ kind = "in" => got = id
               /\ kind = "out" => <<id, id>> \in stored
    <3>1. pipe[1] \notin Before(tag)
      <4>1. pipe[1].tag = tag
        BY <2>5 DEF Passed
      <4> QED
        BY <1>3, <4>1 DEF Before
    <3>2. pipe[1].passed
      BY <2>5 DEF Passed
    <3>3. CASE kind \in {"none", "in"}
      <4>1. pipe[1] \in Answers
        <5>1. pipe \in Seq(Before(tag) \cup Answers)
          BY <2>1, <3>3 DEF AtCsw
        <5> QED
          BY <1>4, <3>1, <5>1
      <4>2. strict /\ kind = "in" => got = id
        BY <1>1, <2>1, <2>5, <3>3 DEF AtCsw, Passing
      <4> QED
        BY <3>3, <4>1, <4>2 DEF Answers
    <3>4. CASE kind = "out"
      <4>1. pipe[1] \in Stored
        <5>1. pipe \in Seq(Before(tag) \cup Stored)
          BY <2>1, <3>4 DEF AtCsw
        <5> QED
          BY <1>4, <3>1, <5>1
      <4> QED
        BY <3>2, <3>4, <4>1 DEF Stored, Answers
    <3> QED
      BY <1>5, <3>3, <3>4
  <2> QED
    BY <2>4, <2>5
<1>10. CASE ~Clear /\ nth = 0
  <2>1. nth' = 1 /\ ~Clear'
    BY <1>1, <1>10 DEF Clear
  <2>2. CASE strict
    BY <1>1, <1>8, <1>10, <2>1, <2>2 DEF DialogueInv, StrictStart
  <2>3. CASE ~strict
    <3>1. Len(pipe') <= 2
      <4>1. \A n \in Nat \ {0} : n <= 3 => n - 1 <= 2
        OBVIOUS
      <4> QED
        BY <1>1, <1>3, <1>4, <4>1, Zenon
    <3>2. stage' = "dataOut" => pipe' = <<>>
      <4>1. \A n \in Nat \ {0} : n <= 1 => n - 1 = 0
        OBVIOUS
      <4>2. stage = "dataOut" => Len(Tail(pipe)) = 0
        BY <1>3, <1>4, <4>1, Zenon
      <4> QED
        BY <1>1, <1>4, <4>2, EmptySeq
    <3> QED
      BY <1>1, <1>4, <1>8, <1>10, <2>1, <2>3, <3>1, <3>2 DEF DialogueInv, LenientStart
  <2> QED
    BY <2>2, <2>3
<1>11. CASE ~Clear /\ nth = 1
  <2>1. nth' = 2 /\ Clear'
    BY <1>1, <1>11 DEF Clear
  <2>2. CASE ~Passed(pipe[1])
    BY <1>2, <1>5, <1>11, <2>2, Closed DEF Fail
  <2>3. CASE Passed(pipe[1]) /\ strict
    <3>1. stage = "cbw" /\ Len(pipe) = 1
      BY <1>1, <1>11, <2>3 DEF DialogueInv, StrictStart
    <3>2. pipe' = <<>>
      BY <1>1, <1>4, <3>1, EmptySeq
    <3>3. AtReady'
      BY <1>1, <3>1, <3>2, EmptySeq DEF AtReady
    <3> QED
      BY <1>8, <1>11, <2>1, <3>3 DEF DialogueInv
  <2>4. CASE Passed(pipe[1]) /\ ~strict
    <3>1. tag = 1 /\ Quiet(pipe)
      BY <1>1, <1>5, <1>11, <2>4 DEF DialogueInv, LenientStart, FirstTag
    <3>2. stage = "cbw" /\ Tail(pipe) \in Seq(Before(2))
      BY <1>1, <2>4, <3>1 DEF Quiet, Passed
    <3>3. AtReady'
      BY <1>1, <1>6, <3>1, <3>2 DEF AtReady
    <3> QED
      BY <1>8, <1>11, <2>1, <3>3 DEF DialogueInv
  <2> QED
    BY <2>2, <2>3, <2>4
<1> QED
  BY <1>3, <1>5, <1>9, <1>10, <1>11 DEF Clear

\* Without a status only the strict client's first command is survived.
LEMMA MissStep ==
  ASSUME TypeInv, DialogueInv, MissCsw
  PROVE  DialogueInv' /\ UNCHANGED stored
<1>1. /\ pc = "csw" /\ nth' = IF nth = 2 THEN 2 ELSE nth + 1
      /\ UNCHANGED <<strict, reset, kind, id, tag, stage, stored>>
      /\ (pipe # <<>> /\ pipe' = Tail(pipe)) \/ pipe' = pipe
  BY DEF MissCsw, AtHead, SendsHead, stickVars
<1>2. CASE ~(strict /\ nth = 0)
  BY <1>1, <1>2, Closed DEF MissCsw, Fail
<1>3. CASE strict /\ nth = 0
  <2>1. pc' = "ready" /\ nth' = 1 /\ (Clear' => Clear)
    BY <1>1, <1>3 DEF MissCsw, Fail, Clear
  <2>2. CASE ~Clear
    BY <1>1, <1>3, <2>1, <2>2 DEF DialogueInv, StrictStart
  <2>3. CASE Clear
    <3>1. kind = "none" /\ AtCsw
      BY <1>1, <1>3, <2>3 DEF TypeInv, CountInv, DialogueInv
    <3>2. stage = "cbw" /\ pipe \in Seq(Before(tag) \cup Answers)
      BY <3>1 DEF AtCsw
    <3>3. pipe \in Seq(Before(tag + 1)) /\ tag \in Nat
      <4>1. tag \in Nat
        BY Types
      <4>2. Before(tag) \cup Answers \subseteq Before(tag + 1)
        BY <4>1, Older
      <4> QED
        BY <3>2, <4>1, <4>2, SeqMonotonic
    <3>4. pipe' \in Seq(Before(tag + 1))
      BY <1>1, <3>3, HeadTailProperties
    <3>5. TagOf(nth)' = tag + 1 /\ Before(TagOf(nth))' = Before(tag + 1)
      BY <1>1, <2>1 DEF TagOf, Before
    <3>6. AtReady'
      BY <1>1, <3>2, <3>4, <3>5 DEF AtReady
    <3> QED
      BY <1>1, <1>3, <2>1, <3>6 DEF DialogueInv, StrictStart
  <2> QED
    BY <2>2, <2>3
<1> QED
  BY <1>1, <1>2, <1>3

\* The two the runs check as invariants
Promises == OkIsMine /\ WriteConfirmed

\* What a step may store
Proper == \A w \in stored' \ stored : w[1] = w[2] \/ (~reset /\ nth <= 1)

\* No process but one whose reset failed, at its first commands, hears the
\* answer to another's command, or is heard in place of another's data.
LEMMA DialogueStep ==
  TypeInv /\ DialogueInv /\ Promises /\ [Next]_vars => DialogueInv' /\ Promises' /\ Proper
<1> SUFFICES ASSUME TypeInv, DialogueInv, Promises, [Next]_vars
             PROVE  DialogueInv' /\ Promises' /\ Proper
  OBVIOUS
<1> USE DEF Promises
<1>1. stored \subseteq stored' /\ UNCHANGED <<result, strict, reset, tag>> => Promises'
  BY DEF OkIsMine, WriteConfirmed, StartUp, FirstTag
<1>2. UNCHANGED stored => Proper /\ stored \subseteq stored'
  BY DEF Proper
<1>3. result' = <<>> => Promises'
  BY DEF OkIsMine, WriteConfirmed
<1>4. CASE Open
  <2>1. pc' = "ready" /\ nth' = 0 /\ result' = <<>> /\ UNCHANGED stored /\ Reset(strict')
    BY <1>4 DEF Open, Reset
  <2>2. nth' # 2
    BY <2>1
  <2>3. Clear' => stage' = "cbw" /\ pipe' = <<>>
    BY <2>1, <2>2, Zenon DEF Reset, Clear
  <2>4. Clear' => AtReady'
    BY <2>3, EmptySeq DEF AtReady
  <2> QED
    BY <1>2, <1>3, <2>1, <2>4 DEF DialogueInv
<1>5. CASE Exit
  <2>1. pc' = "closed" /\ UNCHANGED <<result, strict, reset, tag, stored>>
    BY <1>5 DEF Exit, stickVars
  <2> QED
    BY <1>1, <1>2, <2>1, Closed
<1>6. ASSUME NEW k \in {"none", "in", "out"}, SendCbw(k) PROVE DialogueInv' /\ Promises' /\ Proper
  <2>1. result' = <<>> /\ UNCHANGED <<reset, strict>>
    BY <1>6 DEF SendCbw
  <2>2. CASE Clear
    BY <1>2, <1>3, <1>6, <2>1, <2>2, SendClear
  <2>3. CASE ~Clear
    <3>1. ~reset /\ nth <= 1 /\ nth \in {0, 1}
      BY <2>3, Types DEF Clear
    <3>2. DialogueInv'
      <4>1. CASE nth = 1
        BY <1>6, <2>3, <4>1, SendStart
      <4>2. CASE nth = 0
        <5>1. nth' = 0 \/ (nth' = 1 /\ strict /\ pc' = "ready")
          BY <1>6, <4>2, Types DEF SendCbw, Fail
        <5> QED
          BY <2>1, <2>3, <5>1 DEF DialogueInv, Clear, StrictStart
      <4> QED
        BY <3>1, <4>1, <4>2
    <3> QED
      BY <1>3, <2>1, <3>1, <3>2 DEF Proper
  <2> QED
    BY <2>2, <2>3
<1>7. CASE ReadData
  BY <1>1, <1>2, <1>7, ReadStep, ReadTakes
<1>8. CASE WriteData
  <2>1. UNCHANGED <<result, strict, reset, tag>>
    BY <1>8 DEF WriteData
  <2> QED
    BY <1>1, <1>8, <2>1, WriteStep DEF Proper
<1>9. CASE ReceiveCsw
  <2>1. /\ pc = "csw" /\ UNCHANGED <<strict, reset, tag, stored>>
        /\ \/ UNCHANGED result
           \/ /\ Passed(pipe[1])
              /\ result' = [id |-> id, kind |-> kind, data |-> got, csw |-> pipe[1].of]
    BY <1>9 DEF ReceiveCsw, SendsHead
  <2>2. CASE UNCHANGED result
    BY <1>1, <1>2, <1>9, <2>1, <2>2, StatusStep
  <2>3. CASE /\ Passed(pipe[1])
             /\ result' = [id |-> id, kind |-> kind, data |-> got, csw |-> pipe[1].of]
    <3>1. (reset \/ ~StartUp) \/ kind = "out" => Clear
      BY <2>1 DEF Clear, StartUp, TypeInv, CountInv, FirstTag, TypeOK
    <3>2. StartUp' <=> StartUp
      BY <2>1 DEF StartUp, FirstTag
    <3>3. Promises'
      BY <1>9, <2>1, <2>3, <3>1, <3>2, StatusStep DEF OkIsMine, WriteConfirmed
    <3> QED
      BY <1>2, <1>9, <2>1, <3>3, StatusStep
  <2> QED
    BY <2>1, <2>2, <2>3
<1>10. CASE MissCsw
  <2>1. UNCHANGED <<result, strict, reset, tag>>
    BY <1>10 DEF MissCsw
  <2> QED
    BY <1>1, <1>2, <1>10, <2>1, MissStep
<1>11. CASE UNCHANGED vars
  <2>1. UNCHANGED <<strict, reset, pc, kind, id, tag, nth, got, result, stage, writing, pipe,
                    stored>>
    BY <1>11 DEF vars, clientVars, stickVars
  <2>2. /\ (Clear' <=> Clear) /\ (AtReady' <=> AtReady)
        /\ (StrictStart' <=> StrictStart) /\ (LenientStart' <=> LenientStart)
    BY <2>1 DEF Clear, AtReady, StrictStart, LenientStart, Quiet, Before, TagOf, FirstTag
  <2>3. /\ Before(tag)' = Before(tag) /\ Answers' = Answers /\ Stored' = Stored
    BY <2>1 DEF Before, Answers, Stored
  <2>4. (AtData' <=> AtData) /\ (AtCsw' <=> AtCsw)
    BY <2>1, <2>3 DEF AtData, AtCsw, Passing, Passed
  <2> QED
    BY <1>1, <1>2, <2>1, <2>2, <2>4 DEF DialogueInv
<1> QED
  BY <1>4, <1>5, <1>6, <1>7, <1>8, <1>9, <1>10, <1>11 DEF Next

\* The dialogue and what it promises hold before the first process.
LEMMA DialogueInit == Init => DialogueInv /\ Promises
BY DEF Init, DialogueInv, Clear, Promises, OkIsMine, WriteConfirmed

\* An Ok is about the command that was sent, whatever failed before it; where
\* the reset failed, from the third command of the process on.
THEOREM OkCorrect == Spec => []OkIsMine
<1>1. Promises => OkIsMine
  BY DEF Promises
<1> QED
  BY <1>1, TypeInit, TypeStep, DialogueInit, DialogueStep, PTL DEF Spec

\* The stick never takes a command of one process for data of another, but for
\* the first two of a process whose reset failed.
THEOREM MediumCorrect == Spec => MediumHoldsOnlyData
<1>1. TypeInv /\ DialogueInv /\ Promises /\ [Next]_vars =>
        [\A w \in stored' \ stored : w[1] = w[2] \/ (~reset /\ nth <= 1)]_vars
  BY DialogueStep DEF Proper
<1> QED
  BY <1>1, TypeInit, TypeStep, DialogueInit, DialogueStep, PTL DEF Spec, MediumHoldsOnlyData

\* A write that is reported to have passed has stored its data, whether or not
\* the reset worked.
THEOREM WriteCorrect == Spec => []WriteConfirmed
<1>1. Promises => WriteConfirmed
  BY DEF Promises
<1> QED
  BY <1>1, TypeInit, TypeStep, DialogueInit, DialogueStep, PTL DEF Spec
=============================================================================
