------------------------------ MODULE BulkOnly ------------------------------
(***************************************************************************)
(* The Bulk-Only Transport clients, and a stick they use one after the     *)
(* other.  A command is up to three transfers: the command block (CBW),    *)
(* data, the status (CSW).  Two clients of the repository differ in what   *)
(* they do about errors:                                                   *)
(*   strict   benchmarks/usb-bench-rs: the first error ends the command    *)
(*            and, except for the first command, the process;              *)
(*   lenient  examples/mass-storage: errors of CBW and data are dropped,   *)
(*            and the status decides.                                      *)
(*                                                                         *)
(* The stick is external.  It takes a CBW while no data of an earlier      *)
(* command is left to read, though a status may be.  It takes anything for *)
(* data while it expects data.  A transfer may fail with or without having *)
(* reached the stick, and a process may be killed between any two.         *)
(***************************************************************************)
EXTENDS Integers, Sequences

CONSTANTS
  Clients,        \* which clients run: TRUE is the strict one, FALSE the lenient
  MaxCommands     \* bound: commands sent, by all processes together

ASSUME BulkAssumption ==
  Clients \subseteq BOOLEAN /\ MaxCommands \in Nat

VARIABLES
  strict,     \* which client runs
  reset,      \* history: did the reset of its open work?
  pc,         \* where it is: "closed", "ready", "data", "csw"
  kind,       \* its command: "none" (no data), "in", "out"
  id,         \* the number of the command, over all processes
  tag,        \* dCBWTag of the command
  nth,        \* commands of this process before it: 0, 1, 2 (or more)
  got,        \* what its data phase returned
  result,     \* the last Ok, until the next command
  stage,      \* the stick: awaits a "cbw" or "dataOut"
  halted,     \* the stick refuses everything: it has seen an invalid CBW
  writing,    \* the write command the stick awaits the data of: <<id, tag>>
  pipe,       \* the packets it has to send
  stored      \* what was written: <<command, command whose data it was>>

stickVars  == <<stage, halted, writing, pipe, stored>>
clientVars == <<strict, reset, pc, kind, id, tag, nth, got, result>>
vars == <<clientVars, stickVars>>

None == 0     \* no data, no command
Odd  == -1    \* bytes that are no data of any command
Ids  == 1 .. MaxCommands

Packet == [type : {"data", "csw", "stall"}, of : Ids, tag : Nat, passed : BOOLEAN]

TypeOK ==
  /\ strict \in BOOLEAN /\ reset \in BOOLEAN /\ halted \in BOOLEAN
  /\ pc \in {"closed", "ready", "data", "csw"}
  /\ kind \in {"none", "in", "out"}
  /\ id \in Ids \cup {None}
  /\ tag \in Nat /\ tag <= MaxCommands + 1
  /\ nth \in 0 .. 2
  /\ got \in Ids \cup {None, Odd}
  /\ result = <<>> \/ result \in [id : Ids, kind : {"none", "in", "out"},
                                  data : Ids \cup {None, Odd}, csw : Ids]
  /\ stage \in {"cbw", "dataOut"}
  /\ stage = "dataOut" => writing \in Ids \X Nat
  /\ pipe \in Seq(Packet) /\ Len(pipe) <= 3
  /\ stored \in SUBSET (Ids \X (Ids \cup {Odd}))

-----------------------------------------------------------------------------
(* The stick, external *)

Csw(command, ok) == [type |-> "csw", of |-> command[1], tag |-> command[2], passed |-> ok]
Sent(type, command) == [type |-> type, of |-> command[1], tag |-> command[2], passed |-> TRUE]

\* What it sends for a command, which it may fail.
Replies(k, command) ==
  CASE k = "none" -> {<<Csw(command, ok)>> : ok \in BOOLEAN}
    [] k = "in"   -> {<<Sent("data", command), Csw(command, TRUE)>>, <<Csw(command, FALSE)>>,
                      <<Sent("stall", command), Csw(command, FALSE)>>}
    [] k = "out"  -> {<<>>}

NoDataLeft == \A i \in DOMAIN pipe : pipe[i].type = "csw"

\* It stores what comes as data, whatever it is, or fails and may not.
TakesData(payload) ==
  /\ ~halted
  /\ stage = "dataOut"
  /\ \E ok \in BOOLEAN :
       /\ pipe' = Append(pipe, Csw(writing, ok))
       /\ \/ stored' = stored \cup {<<writing[1], payload>>}
          \/ ~ok /\ UNCHANGED stored
  /\ stage' = "cbw"
  /\ UNCHANGED <<halted, writing>>

TakesCbw(k, command) ==
  /\ ~halted
  /\ stage = "cbw"
  /\ NoDataLeft /\ Len(pipe) <= 1
  /\ \E packets \in Replies(k, command) : pipe' = pipe \o packets
  /\ stage'   = IF k = "out" THEN "dataOut" ELSE "cbw"
  /\ writing' = IF k = "out" THEN command ELSE writing
  /\ UNCHANGED <<halted, stored>>

\* Data where it expects a CBW halts it until it is reset.
TakesNonsense ==
  /\ ~halted
  /\ stage = "cbw"
  /\ halted' = TRUE
  /\ UNCHANGED <<stage, writing, pipe, stored>>

AtHead(type) == ~halted /\ pipe # <<>> /\ pipe[1].type = type
SendsHead == pipe' = Tail(pipe) /\ UNCHANGED <<stage, halted, writing, stored>>

-----------------------------------------------------------------------------
(* Client helpers *)

\* Mutant, unused: a process survives every Err.
FailAndGoOn == pc' = "ready"

\* The command ends with Err.  Only the strict client's TEST UNIT READY, its
\* first command, may fail; the lenient one unwraps every result.
Fail == pc' = IF strict /\ nth = 0 THEN "ready" ELSE "closed"

\* Mutant, unused: the strict client goes on when a transfer fails.
ProceedAnyway(ok, next) == pc' = next

\* A transfer of the command was reported ok, or not; the lenient client goes
\* on to `next` anyway.
Proceed(ok, next) == IF ok \/ ~strict THEN pc' = next ELSE Fail

\* get_tag and next_tag; the tag of the first command is 1 or 0.
FirstTag == IF strict THEN 1 ELSE 0

\* Mutant, unused: the tag is counted before and after the command.
TagOfTwice(n) == IF n = 0 THEN FirstTag ELSE tag + 2

TagOf(n) == IF n = 0 THEN FirstTag ELSE tag + 1

\* TEST UNIT READY comes first, then INQUIRY and READ CAPACITY, then any.
KindsAt(n) == CASE n = 0 -> {"none"} [] n = 1 -> {"in"} [] n = 2 -> {"in", "out"}

-----------------------------------------------------------------------------
(* Mutants: steps as a slip in the code would leave them; unused.          *)

\* validate_csw does not look at the status.
PassedAnyStatus(csw) == csw.tag = tag

-----------------------------------------------------------------------------

\* validate_csw: signature, tag and status.
Passed(csw) == csw.tag = tag /\ csw.passed

Init ==
  /\ strict \in Clients /\ reset = TRUE
  /\ pc = "closed" /\ kind = "none" /\ id = 0 /\ tag = 0 /\ nth = 0
  /\ got = None
  /\ result = <<>>
  /\ stage = "cbw" /\ halted = FALSE /\ writing = <<0, 0>>
  /\ pipe = <<>>
  /\ stored = {}

\* What the reset and the two clear_halt of open do.  Their errors are ignored,
\* and not every device has the reset: without it, clear_halt may end a stall
\* but not the refusal, nor the wait for data.
Reset(isStrict) ==
  /\ UNCHANGED <<writing, stored>>
  /\ \/ reset' = TRUE /\ stage' = "cbw" /\ halted' = FALSE /\ pipe' = <<>>
     \/ /\ reset' = FALSE /\ UNCHANGED <<stage, halted>>
        /\ \/ UNCHANGED pipe
           \/ isStrict /\ pipe # <<>> /\ pipe[1].type = "stall" /\ pipe' = Tail(pipe)

\* A process starts, with either client.
Open ==
  /\ pc = "closed"
  /\ id < MaxCommands
  /\ strict' \in Clients
  /\ pc' = "ready" /\ nth' = 0 /\ tag' = 0
  /\ result' = <<>>
  /\ got' = None
  /\ Reset(strict')
  /\ UNCHANGED <<kind, id>>

\* A process ends, or is killed wherever it is.
Exit ==
  /\ pc # "closed"
  /\ pc' = "closed"
  /\ UNCHANGED <<strict, reset, kind, id, tag, nth, got, result, stickVars>>

\* The CBW.  A stick may ignore the very first one (comment of ScsiDevice::new).
SendCbw(k) ==
  /\ pc = "ready"
  /\ id < MaxCommands
  /\ k \in KindsAt(nth)
  /\ id'   = id + 1
  /\ kind' = k
  /\ tag'  = TagOf(nth)
  /\ got'  = None
  /\ result' = <<>>
  /\ \E ok \in BOOLEAN :
       /\ \/ TakesCbw(k, <<id', tag'>>) \/ TakesData(Odd)
          \/ (ok => nth = 0 /\ stage = "cbw" /\ ~halted) /\ UNCHANGED stickVars
       /\ IF ok \/ ~strict
          THEN /\ pc' = IF k = "none" THEN "csw" ELSE "data"
               /\ UNCHANGED nth
          ELSE /\ Fail
               /\ nth' = 1
  /\ UNCHANGED <<strict, reset>>

\* The data phase of command_in
ReadData ==
  /\ pc = "data" /\ kind = "in"
  /\ \E ok \in BOOLEAN :
       /\ \/ AtHead("data") /\ SendsHead /\ got' = IF ok THEN pipe[1].of ELSE None
          \/ AtHead("csw") /\ SendsHead /\ got' = IF ok THEN Odd ELSE None
          \/ ~ok /\ UNCHANGED <<got, stickVars>>
       /\ Proceed(ok, "csw")
  /\ UNCHANGED <<strict, reset, kind, id, tag, nth, result>>

\* The data phase of command_out
WriteData ==
  /\ pc = "data" /\ kind = "out"
  /\ \E ok \in BOOLEAN :
       /\ \/ TakesData(id) \/ TakesNonsense
          \/ ~ok /\ UNCHANGED stickVars
       /\ Proceed(ok, "csw")
  /\ UNCHANGED <<strict, reset, kind, id, tag, nth, got, result>>

\* The CSW has 13 bytes, the tag of the command and, for Ok, the status passed.
\* A failed write of the lenient client only has its sense data printed.
ReceiveCsw ==
  /\ pc = "csw"
  /\ AtHead("csw") /\ SendsHead
  /\ nth' = IF nth = 2 THEN 2 ELSE nth + 1
  /\ \/ /\ Passed(pipe[1])
        /\ pc' = "ready"
        /\ result' = [id |-> id, kind |-> kind, data |-> got, csw |-> pipe[1].of]
     \/ /\ ~Passed(pipe[1])
        /\ IF ~strict /\ kind = "out" /\ pipe[1].tag = tag THEN pc' = "ready" ELSE Fail
        /\ UNCHANGED result
  /\ UNCHANGED <<strict, reset, kind, id, tag, got>>

\* No CSW: the transfer fails, is cut short, or returns data.
MissCsw ==
  /\ pc = "csw"
  /\ Fail
  /\ nth' = IF nth = 2 THEN 2 ELSE nth + 1
  /\ \/ (AtHead("data") \/ AtHead("csw")) /\ SendsHead
     \/ UNCHANGED stickVars
  /\ UNCHANGED <<strict, reset, kind, id, tag, got, result>>

Next ==
  \/ Open \/ Exit
  \/ \E k \in {"none", "in", "out"} : SendCbw(k)
  \/ ReadData \/ WriteData \/ ReceiveCsw \/ MissCsw

Spec == Init /\ [][Next]_vars

-----------------------------------------------------------------------------
(* Properties *)

\* The TEST UNIT READY and the INQUIRY a process begins with.
StartUp == tag <= FirstTag + 1

\* An Ok is about the command that was sent: its CSW, and with the strict
\* client its data, are of that command and not of an earlier one whose answer
\* was left unread by a failed command or by another process.  Only where the
\* reset of open failed may the two commands it begins with take such an answer
\* for theirs; what they leave behind never reaches a later command.
OkIsMine ==
  result # <<>> /\ (reset \/ ~StartUp) =>
    /\ result.csw = result.id
    /\ strict /\ result.kind = "in" => result.data = result.id

\* The stick stores only what was sent as data for the command: it may take the
\* CBW of a process that starts after another was killed in the middle of a
\* write only when the reset of open failed, and then only one of the two a
\* process begins with.
MediumHoldsOnlyData ==
  [][\A w \in stored' \ stored : w[1] = w[2] \/ (~reset /\ nth <= 1)]_vars

\* A write that is reported to have passed has stored its data, whether or not
\* the reset worked.
WriteConfirmed ==
  result # <<>> /\ result.kind = "out" => <<result.id, result.id>> \in stored

=============================================================================
