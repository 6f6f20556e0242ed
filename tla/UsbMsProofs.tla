----------------------------- MODULE UsbMsProofs -----------------------------
(***************************************************************************)
(* What holds of the mass storage client for any programs, any number of   *)
(* chunks, any depth of the pipes, and any number of runs and faults.      *)
(*                                                                         *)
(* Tags start over in every run, so a message is known by run and tag, its *)
(* stamp.  The pipes keep the order of the stamps, and the device answers  *)
(* in that order: when the answer to the command just sent is read,        *)
(* everything sent before has been dealt with.                             *)
(***************************************************************************)
EXTENDS UsbMs, SequenceTheorems, TLAPS

-----------------------------------------------------------------------------
(* The invariant.                                                           *)

Stamps == [run : Nat, tag : Nat]
CommandNames ==
  {"inquiry", "capacity", "read", "repartition", "start", "chunk", "end", "finalize", "scsi"}

(* Only a chunk of firmware comes with data for the device.                 *)
CommandBlocks ==
  {c \in [kind : {"cbw"}, of : Stamps, name : CommandNames, dir : {"none", "in", "out"},
          size : Nat, page : Nat] : c.dir = "out" <=> c.name = "chunk"}
Payloads == [kind : {"payload"}, of : Stamps, page : Nat]
Answers ==
  [kind : CommandNames \cup {"csw", "stall"}, of : Stamps, size : Nat, page : Nat,
   full : BOOLEAN, residue : Int, status : {0, 1}]

Typing ==
  /\ pc \in {"idle", "cbw", "data", "status"}
  /\ op \in Nat \ {0} /\ n \in Nat /\ run \in Nat /\ tag \in Nat
  /\ foreign \in Nat /\ cut \in Nat
  /\ out \in Seq(CommandBlocks \cup Payloads) /\ in \in Seq(Answers)
  /\ dev \in {Ready, Halted, Gone} \cup {c \in CommandBlocks : c.dir = "out"}
  /\ image \in Seq(Nat)
  /\ pc # "idle" => result = "running" /\ script \in Scripts /\ op <= Len(script)
  /\ pc = "idle" => result # "running"

Before(a, b) == a.run < b.run \/ (a.run = b.run /\ a.tag < b.tag)
Upto(a, b) == a = b \/ Before(a, b)

(* A command comes after what bears an earlier stamp; the data of a command *)
(* bear its own.                                                            *)
Follows(a, m) == Upto(a, m.of) /\ (m.kind = "cbw" => Before(a, m.of))

(* The pipes and the device have the stamps in order, none later than the   *)
(* last the host has given.                                                 *)
InOrder ==
  /\ \A i, j \in 1 .. Len(out) : i < j => Follows(out[i].of, out[j])
  /\ \A j \in 1 .. Len(out) : Upto(out[j].of, Self)
  /\ \A k \in 1 .. Len(in) : Upto(in[k].of, Self)
  /\ \A k \in 1 .. Len(in), j \in 1 .. Len(out) :
       out[j].kind = "cbw" => Before(in[k].of, out[j].of)
  /\ dev.kind = "cbw" =>
       in = <<>> /\ Upto(dev.of, Self) /\ \A j \in 1 .. Len(out) : Follows(dev.of, out[j])

(* What bears the stamp of the command under way is that command.           *)
Matches(c, s, w) == c.of = s => c.name = w.name /\ c.dir = w.dir /\ c.size = w.size
Matching ==
  pc \in {"data", "status"} =>
    /\ \A j \in 1 .. Len(out) :
         /\ out[j].kind = "cbw" => Matches(out[j], Self, Now)
         /\ out[j].kind = "payload" /\ out[j].of = Self => out[j].page = n
    /\ dev.kind = "cbw" => Matches(dev, Self, Now)
    /\ \A k \in 1 .. Len(in) :
         in[k].kind = "csw" /\ in[k].of = Self => in[k].residue <= Now.size

(* A run on clean pipes meets only messages of its own.                     *)
Mine ==
  /\ \A j \in 1 .. Len(out) : out[j].of.run = run
  /\ \A k \in 1 .. Len(in) : in[k].of.run = run
  /\ dev.kind = "cbw" => dev.of.run = run
Own ==
  /\ cut = 0 => foreign = 0 /\ Mine
  /\ result = "panic" => foreign > 0

(* The firmware as far as command k of an update stores it.                 *)
Stored(k) == [i \in 1 .. (IF k > Chunks THEN Chunks ELSE k) |-> i]

Changes(c) == c.kind = "cbw" /\ c.name \in {"start", "chunk"}
Quiet == ~Changes(dev) /\ \A j \in 1 .. Len(out) : ~Changes(out[j])
OnlyOwn ==
  /\ Changes(dev) => dev.of = Self
  /\ \A j \in 1 .. Len(out) : Changes(out[j]) => out[j].of = Self
Pending ==
  \/ dev.kind = "cbw" /\ dev.of = Self
  \/ \E j \in 1 .. Len(out) : out[j].kind = "cbw" /\ out[j].of = Self
Succeeded ==
  \E k \in 1 .. Len(in) : in[k].kind = "csw" /\ in[k].of = Self /\ in[k].status = 0

(* While a run has believed only its own answers, the device has stored     *)
(* what the host thinks it has, and nothing is on the way to change it but  *)
(* the command just sent.                                                   *)
Updated ==
  pc # "idle" /\ script[op] # "update" /\ (\E j \in 1 .. op - 1 : script[j] = "update")
Progress ==
  foreign = 0 =>
    /\ pc = "cbw" /\ script[op] = "update" /\ n > 0 => Quiet /\ image = Stored(n - 1)
    /\ pc \in {"data", "status"} /\ script[op] = "update" =>
         /\ Succeeded => image = Stored(n)
         /\ n > 0 => OnlyOwn /\ (Pending => image = Stored(n - 1))
    /\ Updated \/ result = "ok" => Quiet /\ image = Stored(Chunks)

UsbMsInv == Typing /\ InOrder /\ Matching /\ Own /\ Progress

-----------------------------------------------------------------------------
(* Sequences, stamps and commands.                                          *)

(* What Tail takes away, element by element. *)
LEMMA AfterTail ==
  ASSUME NEW S, NEW s \in Seq(S), s # <<>>
  PROVE  /\ Len(s) \in Nat \ {0} /\ Head(s) = s[1] /\ Head(s) \in S
         /\ Tail(s) \in Seq(S) /\ Len(Tail(s)) = Len(s) - 1
         /\ \A i \in 1 .. Len(Tail(s)) : i + 1 \in 1 .. Len(s) /\ Tail(s)[i] = s[i + 1]
  OBVIOUS

(* What Append adds, element by element. *)
LEMMA AfterAppend ==
  ASSUME NEW S, NEW s \in Seq(S), NEW e \in S
  PROVE  /\ Append(s, e) \in Seq(S) /\ Len(s) \in Nat /\ Len(Append(s, e)) = Len(s) + 1
         /\ \A i \in 1 .. Len(s) : Append(s, e)[i] = s[i]
         /\ Append(s, e)[Len(s) + 1] = e
  OBVIOUS

(* An element of a sequence is of the sequence's set. *)
LEMMA Element ==
  ASSUME NEW S, NEW s \in Seq(S), NEW i \in 1 .. Len(s)
  PROVE  s[i] \in S
  OBVIOUS

(* Stamps are totally ordered; a run's later tags, and later runs, are later. *)
LEMMA StampOrder ==
  ASSUME NEW a \in Stamps, NEW b \in Stamps, NEW c \in Stamps
  PROVE  /\ ~Before(a, a)
         /\ Before(a, b) => ~Upto(b, a)
         /\ Upto(a, b) /\ Upto(b, c) => Upto(a, c)
         /\ Before(a, b) /\ Upto(b, c) => Before(a, c)
         /\ Upto(a, b) /\ Before(b, c) => Before(a, c)
  BY DEF Stamps, Before, Upto

LEMMA SelfGrows ==
  ASSUME Typing
  PROVE  /\ Self \in Stamps /\ Self.run = run /\ Self.tag = tag
         /\ [run |-> run, tag |-> tag + 1] \in Stamps
         /\ Before(Self, [run |-> run, tag |-> tag + 1])
         /\ [run |-> run + 1, tag |-> 0] \in Stamps
         /\ Before(Self, [run |-> run + 1, tag |-> 0])
  BY DEF Typing, Self, Stamps, Before

(* The operation under way, and its command. *)
LEMMA CommandFacts ==
  ASSUME NEW o \in Operations, NEW k \in Nat
  PROVE  /\ CommandAt(o, k).name \in CommandNames
         /\ CommandAt(o, k).dir \in {"none", "in", "out"} /\ CommandAt(o, k).size \in Nat
         /\ CommandAt(o, k).dir = "out" <=> CommandAt(o, k).name = "chunk"
         /\ o # "update" => CommandAt(o, k).name \notin {"start", "chunk"}
         /\ o = "update" =>
              CommandAt(o, k).name =
                (IF k = 0 THEN "start" ELSE IF k <= Chunks THEN "chunk" ELSE "end")
  BY UsbMsAssumption
     DEF Operations, CommandNames, CommandAt, InquiryVPD, ReadCapacity, ReadBlocks, IPodRepartition,
         IPodUpdateStart, IPodUpdateSendChunk, IPodUpdateEnd, IPodUpdateSendFull, IPodFinalize,
         VerifyVolume, Vendor, Command

LEMMA PageFacts == \A k \in Nat : VPDPage(k) \in Nat
  BY DEF VPDPage

LEMMA NowFacts ==
  ASSUME Typing, pc # "idle"
  PROVE  /\ script \in Seq(Operations) /\ op \in 1 .. Len(script) /\ script[op] \in Operations
         /\ Now.name \in CommandNames /\ Now.dir \in {"none", "in", "out"} /\ Now.size \in Nat
         /\ Now.dir = "out" <=> Now.name = "chunk"
         /\ script[op] # "update" => Now.name \notin {"start", "chunk"}
         /\ script[op] = "update" =>
              Now.name = (IF n = 0 THEN "start" ELSE IF n <= Chunks THEN "chunk" ELSE "end")
  <1>1. script \in Seq(Operations) /\ op \in 1 .. Len(script) /\ n \in Nat
    BY UsbMsAssumption DEF Typing
  <1>2. script[op] \in Operations
    BY <1>1, Element
  <1> QED
    BY <1>1, <1>2, CommandFacts DEF Now

(* What the host writes is a command of the next stamp, or data of this one. *)
LEMMA PacketFacts ==
  ASSUME Typing, pc \in {"cbw", "data"}
  PROVE  /\ Packet \in CommandBlocks \cup Payloads
         /\ pc = "cbw" =>
              /\ Packet \in CommandBlocks /\ Packet.kind = "cbw"
              /\ Packet.of = [run |-> run, tag |-> tag + 1]
              /\ Packet.name = Now.name /\ Packet.dir = Now.dir /\ Packet.size = Now.size
         /\ pc = "data" =>
              /\ Packet \in Payloads /\ Packet.kind = "payload"
              /\ Packet.of = Self /\ Packet.page = n
  <1>1. CASE pc = "cbw"
    BY <1>1, NowFacts, SelfGrows, PageFacts DEF Packet, CommandBlocks, Typing
  <1>2. CASE pc = "data"
    BY <1>2, SelfGrows DEF Packet, Payloads, Typing
  <1> QED
    BY <1>1, <1>2

-----------------------------------------------------------------------------
(* What a step does to the pipes.                                           *)

Push ==
  /\ pc \in {"cbw", "data"} /\ out' = Append(out, Packet) /\ UNCHANGED <<in, dev, run>>
  /\ tag' = IF pc = "cbw" THEN tag + 1 ELSE tag
Pop == in # <<>> /\ in' = Tail(in) /\ UNCHANGED <<out, dev, run, tag>>
Still == UNCHANGED <<out, in, dev>> /\ Upto(Self, Self') /\ Self' \in Stamps
Clear == out' = <<>> /\ in' = <<>> /\ dev' \in {Ready, Gone} /\ UNCHANGED <<run, tag>>

(* The stamps of what is on its way. *)
LEMMA PipeFacts ==
  ASSUME Typing
  PROVE  /\ \A j \in 1 .. Len(out) :
              /\ out[j] \in CommandBlocks \cup Payloads /\ out[j].of \in Stamps
              /\ out[j].kind \in {"cbw", "payload"}
              /\ out[j].kind = "cbw" => out[j] \in CommandBlocks
              /\ out[j].kind = "payload" => out[j] \in Payloads
         /\ \A k \in 1 .. Len(in) : in[k] \in Answers /\ in[k].of \in Stamps
         /\ dev.kind = "cbw" => dev \in CommandBlocks /\ dev.dir = "out" /\ dev.of \in Stamps
         /\ Len(out) \in Nat /\ Len(in) \in Nat
  <1>1. \A j \in 1 .. Len(out) : out[j] \in CommandBlocks \cup Payloads
    BY Element DEF Typing
  <1>2. \A k \in 1 .. Len(in) : in[k] \in Answers
    BY Element DEF Typing
  <1>3. dev.kind = "cbw" => dev \in CommandBlocks /\ dev.dir = "out" /\ dev.of \in Stamps
    BY DEF Typing, Ready, Halted, Gone, CommandBlocks
  <1>4. Len(out) \in Nat /\ Len(in) \in Nat
    BY DEF Typing
  <1>5. \A m \in CommandBlocks \cup Payloads :
          /\ m.of \in Stamps /\ m.kind \in {"cbw", "payload"}
          /\ m.kind = "cbw" => m \in CommandBlocks
          /\ m.kind = "payload" => m \in Payloads
    BY DEF CommandBlocks, Payloads
  <1>6. \A m \in Answers : m.of \in Stamps
    BY DEF Answers
  <1> QED
    BY <1>1, <1>2, <1>3, <1>4, <1>5, <1>6

LEMMA PushTyped ==
  ASSUME Typing, Push
  PROVE  out' \in Seq(CommandBlocks \cup Payloads) /\ in' \in Seq(Answers)
         /\ dev' \in {Ready, Halted, Gone} \cup {c \in CommandBlocks : c.dir = "out"}
  <1>1. out \in Seq(CommandBlocks \cup Payloads) /\ Packet \in CommandBlocks \cup Payloads
    BY PacketFacts DEF Typing, Push
  <1>2. out' \in Seq(CommandBlocks \cup Payloads)
    BY <1>1, AfterAppend DEF Push
  <1> QED
    BY <1>2 DEF Typing, Push

LEMMA PopTyped ==
  ASSUME Typing, Pop
  PROVE  out' \in Seq(CommandBlocks \cup Payloads) /\ in' \in Seq(Answers)
         /\ dev' \in {Ready, Halted, Gone} \cup {c \in CommandBlocks : c.dir = "out"}
  <1>1. in' \in Seq(Answers)
    BY AfterTail DEF Typing, Pop
  <1> QED
    BY <1>1 DEF Typing, Pop

LEMMA PushOrder ==
  ASSUME Typing, InOrder, Push
  PROVE  InOrder'
  <1> DEFINE L == Len(out)
  <1>1. /\ L \in Nat /\ Len(out') = L + 1 /\ out'[L + 1] = Packet
        /\ \A j \in 1 .. L : out'[j] = out[j]
    BY AfterAppend, PacketFacts DEF Typing, Push
  <1>2. /\ Self' \in Stamps /\ Self \in Stamps /\ Upto(Self, Self') /\ Packet.of = Self'
        /\ Packet.kind = "cbw" => Before(Self, Packet.of)
    <2>1. CASE pc = "cbw"
      BY <2>1, SelfGrows, PacketFacts DEF Push, Self, Upto
    <2>2. CASE pc = "data"
      BY <2>2, SelfGrows, PacketFacts DEF Push, Self, Upto
    <2> QED
      BY <2>1, <2>2 DEF Push
  <1>3. \A a \in Stamps : Upto(a, Self) => Upto(a, Self') /\ Follows(a, Packet)
    BY <1>2, StampOrder DEF Follows
  <1>4. \A i, j \in 1 .. L + 1 : i < j => Follows(out'[i].of, out'[j])
    <2> SUFFICES ASSUME NEW i \in 1 .. L + 1, NEW j \in 1 .. L + 1, i < j
                 PROVE  Follows(out'[i].of, out'[j])
      OBVIOUS
    <2>1. i \in 1 .. L /\ out'[i] = out[i] /\ out[i].of \in Stamps
      BY <1>1, PipeFacts
    <2>2. CASE j = L + 1
      BY <1>1, <1>3, <2>1, <2>2 DEF InOrder
    <2>3. CASE j \in 1 .. L
      BY <1>1, <2>1, <2>3 DEF InOrder
    <2> QED
      BY <1>1, <2>2, <2>3
  <1>5. \A j \in 1 .. L + 1 : Upto(out'[j].of, Self')
    BY <1>1, <1>2, <1>3, PipeFacts DEF InOrder, Upto
  <1>6. \A k \in 1 .. Len(in) : Upto(in[k].of, Self')
    BY <1>3, PipeFacts DEF InOrder
  <1>7. \A k \in 1 .. Len(in), j \in 1 .. L + 1 :
          out'[j].kind = "cbw" => Before(in[k].of, out'[j].of)
    <2> SUFFICES ASSUME NEW k \in 1 .. Len(in), NEW j \in 1 .. L + 1, out'[j].kind = "cbw"
                 PROVE  Before(in[k].of, out'[j].of)
      OBVIOUS
    <2>1. CASE j = L + 1
      BY <1>1, <1>3, <2>1, PipeFacts DEF InOrder, Follows
    <2>2. CASE j \in 1 .. L
      BY <1>1, <2>2 DEF InOrder
    <2> QED
      BY <1>1, <2>1, <2>2
  <1>8. dev.kind = "cbw" =>
          in = <<>> /\ Upto(dev.of, Self') /\ \A j \in 1 .. L + 1 : Follows(dev.of, out'[j])
    <2> SUFFICES ASSUME dev.kind = "cbw", NEW j \in 1 .. L + 1
                 PROVE  in = <<>> /\ Upto(dev.of, Self') /\ Follows(dev.of, out'[j])
      BY <1>1
    <2>1. dev.of \in Stamps /\ Upto(dev.of, Self) /\ in = <<>>
      BY PipeFacts DEF InOrder
    <2>2. CASE j = L + 1
      BY <1>1, <1>3, <2>1, <2>2
    <2>3. CASE j \in 1 .. L
      BY <1>1, <1>3, <2>1, <2>3 DEF InOrder
    <2> QED
      BY <1>1, <2>2, <2>3
  <1>9. in' = in /\ dev' = dev
    BY DEF Push
  <1> QED
    BY <1>1, <1>4, <1>5, <1>6, <1>7, <1>8, <1>9 DEF InOrder

LEMMA PopOrder ==
  ASSUME Typing, InOrder, Pop
  PROVE  InOrder'
  <1>1. Len(in') = Len(in) - 1 /\ \A k \in 1 .. Len(in') : k + 1 \in 1 .. Len(in) /\ in'[k] = in[k + 1]
    BY AfterTail DEF Typing, Pop
  <1>2. UNCHANGED <<out, dev>> /\ Self' = Self /\ in # <<>>
    BY DEF Pop, Self
  <1> QED
    BY <1>1, <1>2 DEF InOrder

LEMMA StillOrder ==
  ASSUME Typing, InOrder, Still
  PROVE  InOrder'
  <1>1. \A a \in Stamps : Upto(a, Self) => Upto(a, Self')
    BY SelfGrows, StampOrder DEF Still
  <1>2. UNCHANGED <<out, in, dev>>
    BY DEF Still
  <1> QED
    BY <1>1, <1>2, PipeFacts DEF InOrder

LEMMA ClearOrder ==
  ASSUME Clear
  PROVE  InOrder'
  BY DEF Clear, InOrder, Ready, Gone

-----------------------------------------------------------------------------
(* What the device does.                                                    *)

(* The OUT pipe without its first message. *)
Next1 ==
  /\ Len(out) \in Nat \ {0} /\ out' \in Seq(CommandBlocks \cup Payloads)
  /\ Head(out) = out[1] /\ Len(out') = Len(out) - 1
  /\ \A j \in 1 .. Len(out') : j + 1 \in 1 .. Len(out) /\ out'[j] = out[j + 1]

LEMMA OutTail ==
  ASSUME Typing, out # <<>>, out' = Tail(out)
  PROVE  Next1
  <1> DEFINE S == CommandBlocks \cup Payloads
  <1>1. out \in Seq(S)
    BY DEF Typing
  <1> HIDE DEF S
  <1>2. /\ Len(out) \in Nat \ {0} /\ Head(out) = out[1]
        /\ out' \in Seq(S) /\ Len(out') = Len(out) - 1
        /\ \A i \in 1 .. Len(out') : i + 1 \in 1 .. Len(out) /\ out'[i] = out[i + 1]
    BY <1>1, AfterTail
  <1> QED
    BY <1>2 DEF Next1, S

(* The two messages of an answer. *)
LEMMA StatusFacts ==
  ASSUME NEW c \in CommandBlocks, NEW r \in Int, NEW st \in {0, 1}
  PROVE  /\ CSW(c, r, st) \in Answers /\ CSW(c, r, st).of = c.of /\ CSW(c, r, st).kind = "csw"
         /\ CSW(c, r, st).residue = r /\ CSW(c, r, st).status = st
  <1> DEFINE M == Message("csw", c, 13)
  <1>1. c.of \in Stamps /\ c.page \in Nat
    BY DEF CommandBlocks
  <1>2. M \in Answers /\ M.kind = "csw" /\ M.of = c.of
    BY <1>1 DEF Message, Answers
  <1>3. CSW(c, r, st) = [M EXCEPT !.residue = r, !.status = st]
    BY DEF CSW
  <1> HIDE DEF M
  <1> QED
    BY <1>2, <1>3 DEF Answers

LEMMA MessageFacts ==
  ASSUME NEW c \in CommandBlocks, NEW s \in Nat, NEW f \in BOOLEAN,
         NEW kd \in CommandNames \cup {"stall"}
  PROVE  /\ [Message(kd, c, s) EXCEPT !.full = f] \in Answers
         /\ [Message(kd, c, s) EXCEPT !.full = f].of = c.of
         /\ [Message(kd, c, s) EXCEPT !.full = f].residue = 0
         /\ [Message(kd, c, s) EXCEPT !.full = f].kind = kd
  <1>1. c.of \in Stamps /\ c.page \in Nat
    BY DEF CommandBlocks
  <1>2. [Message(kd, c, s) EXCEPT !.full = f] =
          [kind |-> kd, of |-> c.of, size |-> s, page |-> c.page, full |-> f,
           residue |-> 0, status |-> 0]
    BY DEF Message
  <1> QED
    BY <1>1, <1>2 DEF Answers

LEMMA StallFacts ==
  ASSUME NEW c \in CommandBlocks
  PROVE  Stall(c) \in Answers /\ Stall(c).of = c.of /\ Stall(c).residue = 0 /\ Stall(c).kind = "stall"
  <1>1. c.of \in Stamps /\ c.page \in Nat
    BY DEF CommandBlocks
  <1> QED
    BY <1>1 DEF Stall, Message, Answers

LEMMA OneOrTwo ==
  ASSUME NEW S, NEW a \in S, NEW b \in S, NEW s, s = <<a>> \/ s = <<a, b>>
  PROVE  s \in Seq(S) /\ \A k \in 1 .. Len(s) : s[k] = a \/ s[k] = b
  <1>1. CASE s = <<a>>
    <2>1. s \in Seq(S) /\ Len(s) = 1 /\ s[1] = a
      BY <1>1
    <2> QED
      BY <2>1
  <1>2. CASE s = <<a, b>>
    <2>1. s \in Seq(S) /\ Len(s) = 2 /\ s[1] = a /\ s[2] = b
      BY <1>2
    <2> QED
      BY <2>1
  <1> QED
    BY <1>1, <1>2

(* A command at the head of the OUT pipe is performed, refused, kept until  *)
(* its data come, or no command at all.                                     *)
LEMMA CommandTaken ==
  ASSUME Typing, TakeCommand, NEW c, c = out[1]
  PROVE  /\ Next1 /\ dev = Ready /\ in = <<>> /\ UNCHANGED program
         /\ c \in CommandBlocks \cup Payloads /\ c.of \in Stamps
         /\ in' \in Seq(Answers)
         /\ \A k \in 1 .. Len(in') :
              /\ in'[k].of = c.of /\ in'[k].residue <= c.size
              /\ c.kind = "cbw" /\ c.dir # "out"
         /\ \/ dev' \in {Ready, Halted}
            \/ dev' = c /\ c \in CommandBlocks /\ c.dir = "out" /\ in' = <<>>
         /\ \/ image' = image
            \/ c.kind = "cbw" /\ c.name = "start" /\ image' = <<>>
         /\ \A k \in 1 .. Len(in') : in'[k].kind = "csw" /\ in'[k].status = 0 =>
              image' = (IF c.name = "start" THEN <<>> ELSE image)
  <1>1. Next1 /\ dev = Ready /\ in = <<>> /\ UNCHANGED program
    BY OutTail DEF TakeCommand
  <1>2. Head(out) = c /\ c \in CommandBlocks \cup Payloads /\ c.of \in Stamps
    BY <1>1, PipeFacts DEF Next1
  <1>3. c.kind = "cbw" => c \in CommandBlocks
    BY <1>1, <1>2, PipeFacts DEF Next1
  <1>4. CASE c.kind # "cbw" /\ dev' = Halted /\ UNCHANGED <<in, image, faults>>
    BY <1>1, <1>2, <1>4
  <1>5. CASE c.kind = "cbw" /\ c.dir = "out" /\ dev' = c /\ UNCHANGED <<in, image, faults>>
    BY <1>1, <1>2, <1>3, <1>5
  <1> DEFINE Good == c.kind = "cbw" /\ c.dir # "out"
  <1>6. CASE Good /\ Effect(c) /\ UNCHANGED <<dev, faults>>
             /\ in' = (IF c.dir = "in" THEN Answer(c) ELSE <<CSW(c, 0, 0)>>)
    <2>1. c \in CommandBlocks /\ c.name # "chunk" /\ c.name \in CommandNames /\ c.size \in Nat
      BY <1>3, <1>6 DEF CommandBlocks
    <2>2. image' = (IF c.name = "start" THEN <<>> ELSE image)
      BY <1>6, <2>1 DEF Effect
    <2>3. CASE c.dir = "in"
      <3> DEFINE full == c.name = "inquiry" /\ c.page > 193 /\ c.page <= 193 + FullPages
                 size == IF c.name = "inquiry" /\ ~full THEN 100 ELSE c.size
                 M == [Message(c.name, c, size) EXCEPT !.full = full]
                 W == CSW(c, c.size - size, 0)
      <3>1. in' = <<M, W>>
        BY <1>6, <2>3 DEF Answer
      <3>2. full \in BOOLEAN /\ size \in Nat /\ c.size - size \in Int /\ c.size - size <= c.size
        BY <2>1
      <3> HIDE DEF full, size
      <3>3. /\ M \in Answers /\ M.of = c.of /\ M.residue = 0 /\ M.kind = c.name
            /\ W \in Answers /\ W.of = c.of /\ W.residue = c.size - size
        BY <2>1, <3>2, MessageFacts, StatusFacts
      <3> HIDE DEF M, W
      <3>4. /\ in' \in Seq(Answers)
            /\ \A k \in 1 .. Len(in') : in'[k].of = c.of /\ in'[k].residue <= c.size
        <4>1. in' \in Seq(Answers) /\ \A k \in 1 .. Len(in') : in'[k] = M \/ in'[k] = W
          BY <3>1, <3>3, OneOrTwo
        <4> QED
          BY <4>1, <3>2, <3>3, <2>1
      <3> QED
        BY <1>1, <1>2, <1>6, <2>2, <3>4
    <2>4. CASE c.dir # "in"
      <3> DEFINE W == CSW(c, 0, 0)
      <3>1. W \in Answers /\ W.of = c.of /\ W.residue = 0
        BY <2>1, StatusFacts
      <3>2. in' = <<W>>
        BY <1>6, <2>4
      <3> HIDE DEF W
      <3>3. in' \in Seq(Answers) /\ \A k \in 1 .. Len(in') : in'[k] = W
        BY <3>1, <3>2
      <3>4. \A k \in 1 .. Len(in') : in'[k].of = c.of /\ in'[k].residue <= c.size
        BY <3>1, <3>3, <2>1
      <3> QED
        BY <1>1, <1>2, <1>6, <2>2, <3>3, <3>4
    <2> QED
      BY <2>3, <2>4
  <1>7. CASE Good /\ Fault /\ UNCHANGED <<dev, image>>
             /\ in' = (IF c.dir = "in" THEN <<Stall(c), CSW(c, c.size, 1)>> ELSE <<CSW(c, 0, 1)>>)
    <2>1. c \in CommandBlocks /\ c.size \in Nat
      BY <1>3, <1>7 DEF CommandBlocks
    <2> DEFINE r == IF c.dir = "in" THEN c.size ELSE 0
               W == CSW(c, r, 1)
               M == Stall(c)
    <2>2. /\ M \in Answers /\ M.of = c.of /\ M.residue = 0 /\ M.kind = "stall"
          /\ W \in Answers /\ W.of = c.of /\ W.residue = r /\ W.status = 1 /\ r <= c.size
      BY <2>1, StatusFacts, StallFacts
    <2>3. in' = <<M, W>> \/ in' = <<W>>
      BY <1>7
    <2> HIDE DEF M, W, r
    <2>4. in' \in Seq(Answers) /\ \A k \in 1 .. Len(in') : in'[k] = M \/ in'[k] = W
      <3>1. CASE in' = <<M, W>>
        BY <2>2, <3>1, OneOrTwo
      <3>2. CASE in' = <<W>>
        BY <2>2, <3>2, OneOrTwo
      <3> QED
        BY <2>3, <3>1, <3>2
    <2>5. \A k \in 1 .. Len(in') :
            /\ in'[k].of = c.of /\ in'[k].residue <= c.size
            /\ in'[k].kind # "csw" \/ in'[k].status # 0
      BY <2>1, <2>2, <2>4
    <2> QED
      BY <1>1, <1>2, <1>7, <2>4, <2>5
  <1> QED
    BY <1>2, <1>4, <1>5, <1>6, <1>7 DEF TakeCommand

(* Data, or what comes for them, end the command that waits. *)
LEMMA DataTaken ==
  ASSUME Typing, TakeData
  PROVE  \E m \in Answers :
           /\ Next1 /\ UNCHANGED program /\ dev' = Ready
           /\ dev \in CommandBlocks /\ dev.kind = "cbw" /\ dev.name = "chunk" /\ dev.of \in Stamps
           /\ in' = Append(in, m) /\ m.of = dev.of /\ m.residue <= dev.size
           /\ \/ image' = image
              \/ out[1].kind = "payload" /\ image' = Append(image, out[1].page)
           /\ m.status = 0 =>
                out[1].kind = "payload" /\ image' = Append(image, out[1].page)
  <1>1. Next1 /\ UNCHANGED program /\ dev' = Ready /\ Head(out) = out[1]
    BY OutTail DEF TakeData, Next1
  <1>2. /\ dev \in CommandBlocks /\ dev.kind = "cbw" /\ dev.name = "chunk"
        /\ dev.of \in Stamps /\ dev.size \in Nat
    BY PipeFacts DEF TakeData, CommandBlocks
  <1>3. ASSUME NEW r \in {0, dev.size}, NEW st \in {0, 1}
        PROVE  /\ CSW(dev, r, st) \in Answers /\ CSW(dev, r, st).of = dev.of
               /\ CSW(dev, r, st).residue <= dev.size /\ CSW(dev, r, st).status = st
    BY <1>2, StatusFacts
  <1>4. CASE /\ out[1].kind = "payload" /\ Effect([dev EXCEPT !.page = out[1].page])
             /\ in' = Append(in, CSW(dev, 0, 0))
    <2>1. [dev EXCEPT !.page = out[1].page].name = "chunk"
          /\ [dev EXCEPT !.page = out[1].page].page = out[1].page
      BY <1>2 DEF CommandBlocks
    <2>2. image' = Append(image, out[1].page)
      BY <1>4, <2>1 DEF Effect
    <2> QED
      BY <1>1, <1>2, <1>3, <1>4, <2>2
  <1>5. CASE UNCHANGED image /\ in' = Append(in, CSW(dev, dev.size, 1))
    BY <1>1, <1>2, <1>3, <1>5
  <1>6. CASE UNCHANGED image /\ in' = Append(in, CSW(dev, 0, 1))
    BY <1>1, <1>2, <1>3, <1>6
  <1> QED
    BY <1>1, <1>4, <1>5, <1>6 DEF TakeData

LEMMA ProgramUnchanged ==
  ASSUME UNCHANGED program
  PROVE  /\ UNCHANGED <<pc, script, op, n, run, got, bad, cut, tag, result, foreign>>
         /\ Self' = Self /\ (pc # "idle" => Now' = Now)
  BY DEF program, position, Self, Now

LEMMA TakeCommandOrder ==
  ASSUME Typing, InOrder, TakeCommand
  PROVE  InOrder'
  <1> DEFINE c == out[1]
  <1>1. /\ Next1 /\ in = <<>> /\ Self' = Self
        /\ \A k \in 1 .. Len(in') : in'[k].of = c.of
        /\ dev' \in {Ready, Halted} \/ (dev' = c /\ in' = <<>>)
    BY CommandTaken, ProgramUnchanged
  <1>2. /\ Len(out') = Len(out) - 1 /\ Len(out) \in Nat \ {0}
        /\ \A j \in 1 .. Len(out') : j + 1 \in 1 .. Len(out) /\ out'[j] = out[j + 1]
    BY <1>1 DEF Next1
  <1>3. 1 \in 1 .. Len(out) /\ Upto(c.of, Self)
    BY <1>2 DEF InOrder
  <1>4. \A j \in 1 .. Len(out') : Follows(c.of, out'[j])
    BY <1>2, <1>3 DEF InOrder
  <1> HIDE DEF c
  <1>5. \A i, j \in 1 .. Len(out') : i < j => Follows(out'[i].of, out'[j])
    BY <1>2 DEF InOrder
  <1>6. \A j \in 1 .. Len(out') : Upto(out'[j].of, Self')
    BY <1>1, <1>2 DEF InOrder
  <1>7. \A k \in 1 .. Len(in') : Upto(in'[k].of, Self')
    BY <1>1, <1>3
  <1>8. \A k \in 1 .. Len(in'), j \in 1 .. Len(out') :
          out'[j].kind = "cbw" => Before(in'[k].of, out'[j].of)
    BY <1>1, <1>4 DEF Follows
  <1>9. dev'.kind = "cbw" =>
          in' = <<>> /\ Upto(dev'.of, Self') /\ \A j \in 1 .. Len(out') : Follows(dev'.of, out'[j])
    BY <1>1, <1>3, <1>4 DEF Ready, Halted
  <1> QED
    BY <1>5, <1>6, <1>7, <1>8, <1>9 DEF InOrder

LEMMA TakeDataOrder ==
  ASSUME Typing, InOrder, TakeData
  PROVE  InOrder'
  <1>1. PICK m \in Answers :
          /\ Next1 /\ UNCHANGED program /\ dev' = Ready
          /\ dev.kind = "cbw" /\ in' = Append(in, m) /\ m.of = dev.of
    BY DataTaken
  <1>2. /\ Len(out') = Len(out) - 1 /\ Len(out) \in Nat \ {0}
        /\ \A j \in 1 .. Len(out') : j + 1 \in 1 .. Len(out) /\ out'[j] = out[j + 1]
    BY <1>1 DEF Next1
  <1>3. Self' = Self
    BY <1>1, ProgramUnchanged
  <1>4. in' = <<m>>
    BY <1>1 DEF InOrder
  <1>5. \A k \in 1 .. Len(in') : in'[k] = m
    BY <1>4
  <1>6. Upto(m.of, Self) /\ \A j \in 1 .. Len(out') : Follows(m.of, out'[j])
    BY <1>1, <1>2 DEF InOrder
  <1>7. dev'.kind # "cbw"
    BY <1>1 DEF Ready
  <1>8. \A i, j \in 1 .. Len(out') : i < j => Follows(out'[i].of, out'[j])
    BY <1>2 DEF InOrder
  <1>9. \A j \in 1 .. Len(out') : Upto(out'[j].of, Self')
    BY <1>2, <1>3 DEF InOrder
  <1> QED
    BY <1>3, <1>5, <1>6, <1>7, <1>8, <1>9 DEF InOrder, Follows

-----------------------------------------------------------------------------
(* What the host does.                                                      *)

(* The run ends without success, passes on to a later operation without     *)
(* leaving an update out, or to the next command of the one it is in; or it *)
(* waits for its command's data and answer.                                 *)
Quits == pc' = "idle" /\ result' \in {"error", "panic", "killed"} /\ UNCHANGED <<script, op, n, run, cut>>
Passes ==
  /\ UNCHANGED <<script, run, cut>>
  /\ \/ /\ op' \in op + 1 .. Len(script) /\ n' = 0 /\ pc' = "cbw" /\ UNCHANGED result
        /\ \A i \in op + 1 .. op' - 1 : script[i] # "update"
     \/ op = Len(script) /\ pc' = "idle" /\ result' \in {"ok", "error"} /\ UNCHANGED <<op, n>>
GoesOn == n' = n + 1 /\ pc' = "cbw" /\ UNCHANGED <<script, op, run, result, cut>>
Waits == pc' \in {"data", "status"} /\ UNCHANGED <<script, op, n, run, result, cut>>

LEMMA OperationEnds ==
  ASSUME Typing, pc # "idle", NEW failed, NextOperation(failed) \/ LeavesTable
  PROVE  Passes
  <1>1. op \in Nat /\ Len(script) \in Nat
    BY UsbMsAssumption DEF Typing
  <1>2. CASE NextOperation(failed)
    BY <1>1, <1>2 DEF NextOperation, Passes
  <1>3. CASE LeavesTable
    BY <1>1, <1>3 DEF LeavesTable, Passes
  <1> QED
    BY <1>2, <1>3

LEMMA FailureEnds ==
  ASSUME Typing, pc # "idle", Fails
  PROVE  /\ (Quits /\ result' = "error") \/ (Passes /\ script[op] # "update")
         /\ UNCHANGED <<script, run, cut>>
  BY OperationEnds DEF Fails, Tolerated, Exit, Quits, Passes, position

LEMMA ExitQuits ==
  ASSUME NEW r \in {"error", "panic", "killed"}, Exit(r)
  PROVE  Quits /\ result' = r
  BY DEF Exit, Quits, position

(* Every step of the host is one of these, and moves one message at most.   *)
LEMMA HostMoves ==
  ASSUME Typing, Host \/ Killed
  PROVE  /\ pc # "idle" /\ UNCHANGED image /\ foreign' \in Nat /\ foreign' >= foreign
         /\ Push \/ Pop \/ Still
         /\ \/ /\ Quits \/ (Passes /\ script[op] # "update")
               /\ result' # "panic"
            \/ /\ SendCommand /\ pc = "cbw" /\ Push /\ Waits /\ UNCHANGED foreign
            \/ /\ pc = "data" /\ pc' = "status" /\ Waits /\ UNCHANGED <<tag, foreign>> /\ (Push \/ Pop)
            \/ Status
  <1>1. /\ pc # "idle" /\ pc \in {"cbw", "data", "status"} /\ result = "running"
        /\ foreign \in Nat /\ tag \in Nat /\ run \in Nat
    BY DEF Host, Killed, SendCommand, DataIn, DataOut, Status, TransferFails, Typing
  <1>2. ASSUME UNCHANGED <<out, in, dev, run>>, tag' = tag \/ tag' = tag + 1
        PROVE  Still
    <2>1. Self' = Self \/ Self' = [run |-> run, tag |-> tag + 1]
      BY <1>2 DEF Self
    <2> QED
      BY <1>2, <2>1, SelfGrows DEF Still, Upto
  <1>3. ASSUME Fails
        PROVE  /\ Quits \/ (Passes /\ script[op] # "update")
               /\ result' # "panic" /\ UNCHANGED run
    BY <1>1, <1>3, FailureEnds DEF Passes
  <1>4. CASE SendCommand
    <2>1. UNCHANGED <<in, dev, image, foreign>> /\ pc = "cbw"
      BY <1>4 DEF SendCommand
    <2>2. CASE UNCHANGED <<out, tag>> /\ Fails
      BY <1>1, <1>2, <1>3, <2>1, <2>2
    <2>3. CASE /\ tag' = tag + 1 /\ out' = Append(out, Packet)
               /\ pc' = (IF Now.dir = "none" THEN "status" ELSE "data")
               /\ UNCHANGED <<position, result>>
      <3>1. UNCHANGED <<script, op, n, run, cut, result>> /\ pc' \in {"data", "status"}
        BY <2>3 DEF position
      <3>2. Push /\ Waits
        BY <2>1, <2>3, <3>1 DEF Push, Waits
      <3> QED
        BY <1>1, <1>4, <2>1, <3>2
    <2> QED
      BY <1>4, <2>2, <2>3 DEF SendCommand
  <1>5. CASE DataIn
    <2>1. UNCHANGED <<out, dev, image, tag, foreign>> /\ pc = "data" /\ in # <<>> /\ in' = Tail(in)
      BY <1>5 DEF DataIn
    <2>2. CASE Fails
      <3>1. Pop
        BY <1>3, <2>1, <2>2 DEF Pop
      <3> QED
        BY <1>1, <1>3, <2>1, <2>2, <3>1
    <2>3. CASE pc' = "status" /\ UNCHANGED <<script, op, n, run, bad, cut, result>>
      <3>1. Pop /\ Waits
        BY <2>1, <2>3 DEF Pop, Waits
      <3> QED
        BY <1>1, <2>1, <2>3, <3>1
    <2> QED
      BY <1>5, <2>2, <2>3 DEF DataIn
  <1>6. CASE DataOut
    <2>1. /\ pc = "data" /\ out' = Append(out, Packet) /\ pc' = "status"
          /\ UNCHANGED <<script, op, n, run, cut, tag, result, foreign, in, dev, image>>
      BY <1>6 DEF DataOut, position
    <2>2. Push /\ Waits
      BY <2>1 DEF Push, Waits
    <2> QED
      BY <1>1, <2>1, <2>2
  <1>7. CASE Status
    <2>1. UNCHANGED <<out, dev, image, tag>> /\ in # <<>> /\ in' = Tail(in)
          /\ foreign' = foreign + (IF Accepted /\ Head(in).of # Self THEN 1 ELSE 0)
      BY <1>7 DEF Status
    <2>2. UNCHANGED run
      <3>1. CASE Fails
        BY <1>3, <3>1
      <3>2. CASE Exit("panic")
        BY <3>2, ExitQuits DEF Quits
      <3>3. CASE Advance
        BY <3>3 DEF Advance, NextOperation, LeavesTable
      <3> QED
        BY <1>7, <3>1, <3>2, <3>3 DEF Status
    <2>3. foreign' \in Nat /\ foreign' >= foreign
      BY <1>1, <2>1
    <2>4. Pop
      BY <2>1, <2>2 DEF Pop
    <2> QED
      BY <1>1, <1>7, <2>1, <2>3, <2>4
  <1>8. CASE TransferFails
    <2>1. /\ UNCHANGED <<dev, image, foreign>> /\ Fails
          /\ tag' = (IF pc = "cbw" THEN tag + 1 ELSE tag)
      BY <1>8 DEF TransferFails
    <2>2. CASE UNCHANGED <<out, in>>
      BY <1>1, <1>2, <1>3, <2>1, <2>2
    <2>3. CASE /\ pc = "status" \/ pc = "data"
               /\ in # <<>> /\ in' = Tail(in) /\ UNCHANGED out
      <3>1. Pop
        BY <1>3, <2>1, <2>3 DEF Pop
      <3> QED
        BY <1>1, <1>3, <2>1, <3>1
    <2>4. CASE pc # "status" /\ out' = Append(out, Packet) /\ UNCHANGED in
      <3>1. Push
        BY <1>1, <1>3, <2>1, <2>4 DEF Push
      <3> QED
        BY <1>1, <1>3, <2>1, <3>1
    <2> QED
      BY <1>8, <2>2, <2>3, <2>4 DEF TransferFails
  <1>9. CASE Killed
    <2>1. /\ Quits /\ result' = "killed" /\ UNCHANGED <<out, in, dev, image, tag, foreign, run>>
      BY <1>9, ExitQuits DEF Killed, device, Quits
    <2> QED
      BY <1>1, <1>2, <2>1
  <1> QED
    BY <1>4, <1>5, <1>6, <1>7, <1>8, <1>9 DEF Host

(* An answer is believed if it bears the tag; if it is the command's own,   *)
(* there is no panic, and only one that says so makes the command succeed.  *)
LEMMA AnswerRead ==
  ASSUME Typing, Matching, Status
  PROVE  /\ Pop /\ pc = "status" /\ 1 \in 1 .. Len(in) /\ in[1] = Head(in)
         /\ foreign' = foreign + (IF Accepted /\ in[1].of # Self THEN 1 ELSE 0)
         /\ \/ Quits /\ (result' = "panic" => Accepted /\ in[1].of # Self)
            \/ Passes /\ script[op] # "update"
            \/ /\ Accepted /\ in[1].kind = "csw" /\ in[1].status = 0
               /\ GoesOn \/ (Passes /\ (script[op] = "update" => n = Chunks + 1))
  <1>1. /\ pc = "status" /\ UNCHANGED <<out, dev, tag>> /\ in # <<>> /\ in' = Tail(in)
        /\ foreign' = foreign + (IF Accepted /\ Head(in).of # Self THEN 1 ELSE 0)
    BY DEF Status
  <1>2. 1 \in 1 .. Len(in) /\ in[1] = Head(in)
    BY <1>1, AfterTail DEF Typing
  <1>3. CASE Fails
    <2>1. (Quits /\ result' = "error") \/ (Passes /\ script[op] # "update")
      BY <1>1, <1>3, FailureEnds
    <2>2. Pop
      BY <1>1, <2>1 DEF Quits, Passes, Pop
    <2> QED
      BY <1>1, <1>2, <2>1, <2>2
  <1>4. CASE Accepted /\ Head(in).residue > Now.size /\ Exit("panic")
    <2>1. Quits
      BY <1>4, ExitQuits
    <2>2. in[1].residue \in Int /\ Now.size \in Nat
      BY <1>1, <1>2, PipeFacts, NowFacts DEF Answers
    <2>3. in[1].of # Self
      BY <1>1, <1>2, <1>4, <2>2 DEF Matching, Accepted
    <2>4. Pop
      BY <1>1, <2>1 DEF Quits, Pop
    <2> QED
      BY <1>1, <1>2, <1>4, <2>1, <2>3, <2>4
  <1>5. CASE Accepted /\ Head(in).status = 0 /\ Advance
    <2>1. GoesOn \/ (Passes /\ (script[op] = "update" => n = Chunks + 1))
      <3>1. CASE LastOf(script[op], n) /\ NextOperation(FALSE)
        <4>1. script[op] = "update" => n = Chunks + 1
          BY <3>1 DEF LastOf
        <4> QED
          BY <1>1, <3>1, <4>1, OperationEnds
      <3>2. CASE LeavesTable
        BY <1>1, <3>2, OperationEnds DEF LeavesTable
      <3>3. CASE n' = n + 1 /\ pc' = "cbw" /\ UNCHANGED <<script, op, run, got, bad, result, cut>>
        BY <3>3 DEF GoesOn
      <3> QED
        BY <1>5, <3>1, <3>2, <3>3 DEF Advance
    <2>2. Pop
      BY <1>1, <2>1 DEF GoesOn, Passes, Pop
    <2>3. in[1].kind = "csw"
      BY <1>2, <1>5 DEF Accepted
    <2> QED
      BY <1>1, <1>2, <1>5, <2>1, <2>2, <2>3
  <1> QED
    BY <1>3, <1>4, <1>5 DEF Status

-----------------------------------------------------------------------------
(* The types are kept.                                                      *)

PipesTyped ==
  /\ out \in Seq(CommandBlocks \cup Payloads) /\ in \in Seq(Answers)
  /\ dev \in {Ready, Halted, Gone} \cup {c \in CommandBlocks : c.dir = "out"}

LEMMA MoveTyped ==
  ASSUME Typing, Push \/ Pop \/ Still
  PROVE  PipesTyped' /\ run' \in Nat /\ tag' \in Nat
  <1>1. CASE Push
    BY <1>1, PushTyped DEF PipesTyped, Push, Typing
  <1>2. CASE Pop
    BY <1>2, PopTyped DEF PipesTyped, Pop, Typing
  <1>3. CASE Still
    BY <1>3 DEF PipesTyped, Still, Typing, Stamps, Self
  <1> QED
    BY <1>1, <1>2, <1>3

LEMMA PositionTyped ==
  ASSUME Typing, pc # "idle", Quits \/ Passes \/ GoesOn \/ Waits
  PROVE  /\ pc' \in {"idle", "cbw", "data", "status"}
         /\ op' \in Nat \ {0} /\ n' \in Nat /\ cut' \in Nat
         /\ pc' # "idle" => result' = "running" /\ script' \in Scripts /\ op' <= Len(script')
         /\ pc' = "idle" => result' # "running"
  <1>1. /\ op \in Nat \ {0} /\ n \in Nat /\ cut \in Nat /\ result = "running"
        /\ script \in Scripts /\ op <= Len(script) /\ Len(script) \in Nat
    BY UsbMsAssumption DEF Typing
  <1> QED
    BY <1>1 DEF Quits, Passes, GoesOn, Waits

LEMMA TypingKept ==
  ASSUME Typing, Matching, [Next]_vars
  PROVE  Typing'
  <1>1. CASE Host \/ Killed
    <2>1. PipesTyped' /\ run' \in Nat /\ tag' \in Nat /\ image' = image /\ foreign' \in Nat
      BY <1>1, HostMoves, MoveTyped
    <2>2. pc # "idle" /\ (Quits \/ Passes \/ GoesOn \/ Waits)
      BY <1>1, HostMoves, AnswerRead
    <2> QED
      BY <2>1, <2>2, PositionTyped DEF Typing, PipesTyped
  <1>2. CASE Start
    <2>1. pc' = "cbw" /\ op' = 1 /\ n' = 0 /\ run' = run + 1 /\ result' = "running" /\ tag' = 0
          /\ foreign' = 0 /\ cut' \in {0, cut + 1} /\ script' \in Scripts
          /\ UNCHANGED <<out, in, dev, image>>
      BY <1>2 DEF Start, device
    <2>2. 1 <= Len(script')
      BY <2>1, UsbMsAssumption
    <2> QED
      BY <2>1, <2>2 DEF Typing
  <1>3. CASE TakeCommand
    <2> DEFINE c == out[1]
    <2>1. /\ Next1 /\ UNCHANGED program /\ in' \in Seq(Answers)
          /\ \/ dev' \in {Ready, Halted}
             \/ dev' = c /\ c \in CommandBlocks /\ c.dir = "out"
          /\ image' = image \/ image' = <<>>
      BY <1>3, CommandTaken
    <2> HIDE DEF c
    <2>2. image' \in Seq(Nat) /\ PipesTyped'
      <3>1. image \in Seq(Nat) /\ <<>> \in Seq(Nat)
        BY DEF Typing
      <3>2. image' \in Seq(Nat)
        BY <2>1, <3>1
      <3>3. dev' \in {Ready, Halted, Gone} \cup {x \in CommandBlocks : x.dir = "out"}
        BY <2>1
      <3> QED
        BY <2>1, <3>2, <3>3 DEF Next1, PipesTyped
    <2>3. UNCHANGED <<pc, script, op, n, run, cut, tag, result, foreign>>
      BY <2>1, ProgramUnchanged
    <2> QED
      BY <2>2, <2>3 DEF Typing, PipesTyped
  <1>4. CASE TakeData
    <2>1. PICK m \in Answers :
            /\ Next1 /\ UNCHANGED program /\ dev' = Ready
            /\ in' = Append(in, m)
            /\ \/ image' = image
               \/ out[1].kind = "payload" /\ image' = Append(image, out[1].page)
      BY <1>4, DataTaken
    <2>2. in' \in Seq(Answers)
      BY <2>1, AfterAppend DEF Typing
    <2>3. out[1].kind = "payload" => out[1].page \in Nat
      BY <2>1, PipeFacts DEF Next1, Payloads
    <2>4. image' \in Seq(Nat)
      <3>1. image \in Seq(Nat)
        BY DEF Typing
      <3>2. CASE out[1].kind = "payload" /\ image' = Append(image, out[1].page)
        BY <2>3, <3>1, <3>2, AfterAppend
      <3> QED
        BY <2>1, <3>1, <3>2
    <2> QED
      BY <2>1, <2>2, <2>4, ProgramUnchanged DEF Typing, Next1
  <1>5. CASE Unplug \/ Reset
    <2>1. /\ out' = <<>> /\ in' = <<>> /\ dev' \in {Ready, Gone} /\ UNCHANGED <<program, image>>
      BY <1>5 DEF Unplug, Reset
    <2> QED
      BY <2>1, ProgramUnchanged DEF Typing
  <1>6. CASE UNCHANGED vars
    BY <1>6, ProgramUnchanged DEF vars, device, Typing
  <1> QED
    BY <1>1, <1>2, <1>3, <1>4, <1>5, <1>6 DEF Next, Device

-----------------------------------------------------------------------------
(* The order of the pipes, and the command under way, are kept.             *)

LEMMA OutsideMoves ==
  ASSUME Typing, Start \/ Unplug \/ Reset \/ UNCHANGED vars
  PROVE  Still \/ Clear
  <1>1. CASE Start
    <2>1. UNCHANGED <<out, in, dev>> /\ run' = run + 1 /\ tag' = 0
      BY <1>1 DEF Start, device
    <2>2. Self' = [run |-> run + 1, tag |-> 0]
      BY <2>1 DEF Self
    <2> QED
      BY <2>1, <2>2, SelfGrows DEF Still, Upto
  <1>2. CASE Unplug \/ Reset
    <2>1. out' = <<>> /\ in' = <<>> /\ dev' \in {Ready, Gone} /\ UNCHANGED program
      BY <1>2 DEF Unplug, Reset
    <2> QED
      BY <2>1, ProgramUnchanged DEF Clear
  <1>3. CASE UNCHANGED vars
    <2>1. UNCHANGED <<out, in, dev>> /\ UNCHANGED program
      BY <1>3 DEF vars, device
    <2> QED
      BY <2>1, ProgramUnchanged, SelfGrows DEF Still, Upto
  <1> QED
    BY <1>1, <1>2, <1>3

LEMMA OrderKept ==
  ASSUME Typing, InOrder, [Next]_vars
  PROVE  InOrder'
  <1>1. CASE Host \/ Killed
    BY <1>1, HostMoves, PushOrder, PopOrder, StillOrder
  <1>2. CASE Start \/ Unplug \/ Reset \/ UNCHANGED vars
    BY <1>2, OutsideMoves, StillOrder, ClearOrder
  <1> QED
    BY <1>1, <1>2, TakeCommandOrder, TakeDataOrder DEF Next, Device

(* What is on its way bears stamps already given.                           *)
LEMMA NothingLater ==
  ASSUME Typing, InOrder
  PROVE  /\ \A j \in 1 .. Len(out) : out[j].of # [run |-> run, tag |-> tag + 1]
         /\ \A k \in 1 .. Len(in) : in[k].of # [run |-> run, tag |-> tag + 1]
         /\ dev.kind = "cbw" => dev.of # [run |-> run, tag |-> tag + 1]
  <1>1. ~Upto([run |-> run, tag |-> tag + 1], Self)
    BY SelfGrows, StampOrder
  <1> QED
    BY <1>1 DEF InOrder

(* When the answer to the command under way is there, no other command is.  *)
LEMMA AnsweredLast ==
  ASSUME Typing, InOrder, NEW k \in 1 .. Len(in), in[k].of = Self
  PROVE  dev.kind # "cbw" /\ \A j \in 1 .. Len(out) : out[j].kind # "cbw"
  <1>1. in # <<>>
    OBVIOUS
  <1>2. ASSUME NEW j \in 1 .. Len(out), out[j].kind = "cbw"
        PROVE  FALSE
    <2>1. Before(Self, out[j].of) /\ Upto(out[j].of, Self) /\ out[j].of \in Stamps
      BY <1>2, PipeFacts DEF InOrder
    <2> QED
      BY <2>1, SelfGrows, StampOrder
  <1> QED
    BY <1>1, <1>2 DEF InOrder

LEMMA MatchingSent ==
  ASSUME Typing, InOrder, pc = "cbw", Push, Waits
  PROVE  Matching'
  <1>1. Self' = [run |-> run, tag |-> tag + 1] /\ UNCHANGED <<in, dev>> /\ Now' = Now /\ n' = n
    BY DEF Push, Waits, Self, Now
  <1>2. /\ Len(out) \in Nat /\ Len(out') = Len(out) + 1 /\ out'[Len(out) + 1] = Packet
        /\ \A j \in 1 .. Len(out) : out'[j] = out[j]
    BY AfterAppend, PacketFacts DEF Typing, Push
  <1>3. Packet.kind = "cbw" /\ Packet.name = Now.name /\ Packet.dir = Now.dir /\ Packet.size = Now.size
    BY PacketFacts
  <1>4. \A j \in 1 .. Len(out') : j \in 1 .. Len(out) \/ out'[j] = Packet
    BY <1>2
  <1>5. \A j \in 1 .. Len(out') :
          /\ out'[j].kind = "cbw" => Matches(out'[j], Self', Now')
          /\ out'[j].kind = "payload" /\ out'[j].of = Self' => out'[j].page = n'
    BY <1>1, <1>2, <1>3, <1>4, NothingLater DEF Matches
  <1>6. dev'.kind = "cbw" => Matches(dev', Self', Now')
    BY <1>1, NothingLater DEF Matches
  <1>7. \A k \in 1 .. Len(in') : in'[k].of # Self'
    BY <1>1, NothingLater
  <1> QED
    BY <1>5, <1>6, <1>7 DEF Matching

LEMMA MatchingWaited ==
  ASSUME Typing, Matching, pc = "data", Push \/ Pop, Waits, UNCHANGED tag
  PROVE  Matching'
  <1>1. Self' = Self /\ UNCHANGED dev /\ Now' = Now /\ n' = n
    BY DEF Push, Pop, Waits, Self, Now
  <1>3. CASE Push
    <2>1. /\ Len(out) \in Nat /\ Len(out') = Len(out) + 1 /\ out'[Len(out) + 1] = Packet
          /\ \A j \in 1 .. Len(out) : out'[j] = out[j]
      BY <1>3, AfterAppend, PacketFacts DEF Typing, Push
    <2>2. Packet.kind = "payload" /\ Packet.page = n
      BY PacketFacts
    <2>3. \A j \in 1 .. Len(out') : j \in 1 .. Len(out) \/ out'[j] = Packet
      BY <2>1
    <2>4. \A j \in 1 .. Len(out') :
            /\ out'[j].kind = "cbw" => Matches(out'[j], Self', Now')
            /\ out'[j].kind = "payload" /\ out'[j].of = Self' => out'[j].page = n'
      BY <1>1, <2>1, <2>2, <2>3 DEF Matching, Matches
    <2>5. dev'.kind = "cbw" => Matches(dev', Self', Now')
      BY <1>1 DEF Matching, Matches
    <2>6. \A k \in 1 .. Len(in') :
            in'[k].kind = "csw" /\ in'[k].of = Self' => in'[k].residue <= Now'.size
      BY <1>1, <1>3 DEF Matching, Push
    <2> QED
      BY <2>4, <2>5, <2>6 DEF Matching
  <1>4. CASE Pop
    <2>1. /\ UNCHANGED out
          /\ \A k \in 1 .. Len(in') : k + 1 \in 1 .. Len(in) /\ in'[k] = in[k + 1]
      BY <1>4, AfterTail DEF Typing, Pop
    <2> QED
      BY <1>1, <2>1 DEF Matching, Matches
  <1> QED
    BY <1>3, <1>4

LEMMA MatchingTakeCommand ==
  ASSUME Typing, Matching, TakeCommand
  PROVE  Matching'
  <1> DEFINE c == out[1]
  <1>1. /\ Next1 /\ Self' = Self /\ UNCHANGED <<pc, n>> /\ (pc # "idle" => Now' = Now)
        /\ \A k \in 1 .. Len(in') :
             in'[k].of = c.of /\ in'[k].residue <= c.size /\ c.kind = "cbw"
        /\ dev' \in {Ready, Halted} \/ dev' = c
    BY CommandTaken, ProgramUnchanged
  <1>2. /\ 1 \in 1 .. Len(out)
        /\ \A j \in 1 .. Len(out') : j + 1 \in 1 .. Len(out) /\ out'[j] = out[j + 1]
    BY <1>1 DEF Next1
  <1>3. SUFFICES ASSUME pc \in {"data", "status"}
                 PROVE  Matching'
    BY <1>1 DEF Matching
  <1>4. Now' = Now /\ (c.kind = "cbw" => Matches(c, Self, Now))
    BY <1>1, <1>2, <1>3 DEF Matching
  <1> HIDE DEF c
  <1>5. \A j \in 1 .. Len(out') :
          /\ out'[j].kind = "cbw" => Matches(out'[j], Self', Now')
          /\ out'[j].kind = "payload" /\ out'[j].of = Self' => out'[j].page = n'
    BY <1>1, <1>2, <1>3, <1>4 DEF Matching
  <1>6. dev'.kind = "cbw" => Matches(dev', Self', Now')
    BY <1>1, <1>4 DEF Ready, Halted
  <1>7. \A k \in 1 .. Len(in') :
          in'[k].kind = "csw" /\ in'[k].of = Self' => in'[k].residue <= Now'.size
    BY <1>1, <1>4 DEF Matches
  <1> QED
    BY <1>5, <1>6, <1>7 DEF Matching

LEMMA MatchingTakeData ==
  ASSUME Typing, InOrder, Matching, TakeData
  PROVE  Matching'
  <1>1. PICK m \in Answers :
          /\ Next1 /\ UNCHANGED program /\ dev' = Ready /\ dev.kind = "cbw"
          /\ in' = Append(in, m) /\ m.of = dev.of /\ m.residue <= dev.size
    BY DataTaken
  <1>2. \A j \in 1 .. Len(out') : j + 1 \in 1 .. Len(out) /\ out'[j] = out[j + 1]
    BY <1>1 DEF Next1
  <1>3. Self' = Self /\ UNCHANGED <<pc, n>> /\ (pc # "idle" => Now' = Now)
    BY <1>1, ProgramUnchanged
  <1>4. in' = <<m>>
    BY <1>1 DEF InOrder
  <1>5. \A k \in 1 .. Len(in') : in'[k] = m
    BY <1>4
  <1>6. SUFFICES ASSUME pc \in {"data", "status"}
                 PROVE  Matching'
    BY <1>3 DEF Matching
  <1>7. Now' = Now /\ Matches(dev, Self, Now)
    BY <1>1, <1>3, <1>6 DEF Matching
  <1>8. \A j \in 1 .. Len(out') :
          /\ out'[j].kind = "cbw" => Matches(out'[j], Self', Now')
          /\ out'[j].kind = "payload" /\ out'[j].of = Self' => out'[j].page = n'
    BY <1>2, <1>3, <1>6, <1>7 DEF Matching
  <1>9. \A k \in 1 .. Len(in') : in'[k].of = Self' => in'[k].residue <= Now'.size
    BY <1>1, <1>3, <1>5, <1>7 DEF Matches
  <1>10. dev'.kind # "cbw"
    BY <1>1 DEF Ready
  <1> QED
    BY <1>8, <1>9, <1>10 DEF Matching

LEMMA MatchingKept ==
  ASSUME Typing, InOrder, Matching, [Next]_vars
  PROVE  Matching'
  <1>1. ASSUME pc' \in {"idle", "cbw"}
        PROVE  Matching'
    BY <1>1 DEF Matching
  <1>2. CASE Host \/ Killed
    <2>1. CASE Quits \/ Passes \/ GoesOn
      BY <1>1, <2>1 DEF Quits, Passes, GoesOn
    <2>2. CASE SendCommand /\ pc = "cbw" /\ Push /\ Waits
      BY <2>2, MatchingSent
    <2>3. CASE pc = "data" /\ Waits /\ UNCHANGED tag /\ (Push \/ Pop)
      BY <2>3, MatchingWaited
    <2> QED
      BY <1>2, <2>1, <2>2, <2>3, HostMoves, AnswerRead
  <1>3. CASE Start
    BY <1>1, <1>3 DEF Start
  <1>4. CASE Unplug \/ Reset
    <2>1. out' = <<>> /\ in' = <<>> /\ dev' \in {Ready, Gone}
      BY <1>4 DEF Unplug, Reset
    <2> QED
      BY <2>1 DEF Matching, Ready, Gone
  <1>5. CASE UNCHANGED vars
    BY <1>5, ProgramUnchanged DEF vars, device, Matching
  <1> QED
    BY <1>2, <1>3, <1>4, <1>5, MatchingTakeCommand, MatchingTakeData DEF Next, Device

-----------------------------------------------------------------------------
(* A run on clean pipes meets its own messages only.                        *)

LEMMA MineKept ==
  ASSUME Typing, InOrder, Mine, run' = run,
         Push \/ Pop \/ Still \/ Clear \/ TakeCommand \/ TakeData
  PROVE  Mine'
  <1>1. CASE Push
    <2>1. /\ Len(out) \in Nat /\ Len(out') = Len(out) + 1 /\ out'[Len(out) + 1] = Packet
          /\ \A j \in 1 .. Len(out) : out'[j] = out[j]
      BY <1>1, AfterAppend, PacketFacts DEF Typing, Push
    <2>2. Packet.of.run = run
      BY <1>1, PacketFacts DEF Push, Self
    <2>3. \A j \in 1 .. Len(out') : j \in 1 .. Len(out) \/ out'[j] = Packet
      BY <2>1
    <2> QED
      BY <1>1, <2>1, <2>2, <2>3 DEF Mine, Push
  <1>2. CASE Pop
    <2>1. /\ UNCHANGED <<out, dev>>
          /\ \A k \in 1 .. Len(in') : k + 1 \in 1 .. Len(in) /\ in'[k] = in[k + 1]
      BY <1>2, AfterTail DEF Typing, Pop
    <2> QED
      BY <2>1 DEF Mine
  <1>3. CASE Still
    BY <1>3 DEF Still, Mine
  <1>4. CASE Clear
    BY <1>4 DEF Clear, Mine, Ready, Gone
  <1>5. CASE TakeCommand
    <2>1. /\ Next1
          /\ dev' \in {Ready, Halted} \/ dev' = out[1]
          /\ \A k \in 1 .. Len(in') : in'[k].of = out[1].of
      BY <1>5, CommandTaken
    <2>2. /\ 1 \in 1 .. Len(out)
          /\ \A j \in 1 .. Len(out') : j + 1 \in 1 .. Len(out) /\ out'[j] = out[j + 1]
      BY <2>1, CommandTaken, <1>5 DEF Next1
    <2> QED
      BY <1>5, <2>1, <2>2, CommandTaken DEF Mine, Ready, Halted
  <1>6. CASE TakeData
    <2>1. PICK m \in Answers :
            /\ Next1 /\ dev' = Ready /\ dev.kind = "cbw" /\ in' = Append(in, m) /\ m.of = dev.of
      BY <1>6, DataTaken
    <2>2. \A j \in 1 .. Len(out') : j + 1 \in 1 .. Len(out) /\ out'[j] = out[j + 1]
      BY <2>1 DEF Next1
    <2>3. in' = <<m>>
      BY <2>1 DEF InOrder
    <2>4. \A k \in 1 .. Len(in') : in'[k] = m
      BY <2>3
    <2> QED
      BY <2>1, <2>2, <2>4 DEF Mine, Ready
  <1> QED
    BY <1>1, <1>2, <1>3, <1>4, <1>5, <1>6

LEMMA OwnKept ==
  ASSUME Typing, InOrder, Matching, Own, [Next]_vars
  PROVE  Own'
  <1>1. (cut = 0 => foreign = 0 /\ Mine) /\ (result = "panic" => foreign > 0)
    BY DEF Own
  <1>2. (cut' = 0 => foreign' = 0 /\ Mine') /\ (result' = "panic" => foreign' > 0)
    <2>1. CASE Host \/ Killed
      <3>1. UNCHANGED <<cut, run>> /\ (cut = 0 => Mine') /\ result = "running" /\ foreign \in Nat
        <4>1. UNCHANGED <<cut, run>>
          BY <2>1, HostMoves, AnswerRead DEF Quits, Passes, GoesOn, Waits
        <4>2. cut = 0 => Mine'
          BY <1>1, <2>1, <4>1, HostMoves, MineKept
        <4> QED
          BY <2>1, <4>1, <4>2, HostMoves DEF Typing
      <3>2. CASE Status
        <4>1. /\ 1 \in 1 .. Len(in) /\ in[1] = Head(in)
              /\ foreign' = foreign + (IF Accepted /\ in[1].of # Self THEN 1 ELSE 0)
              /\ result' = "panic" => Accepted /\ in[1].of # Self
          BY <3>1, <3>2, AnswerRead DEF Quits, Passes, GoesOn
        <4>2. cut = 0 /\ Accepted => in[1].of = Self
          BY <1>1, <4>1, PipeFacts DEF Mine, Accepted, Self, Stamps
        <4> QED
          BY <1>1, <3>1, <4>1, <4>2
      <3>3. CASE ~Status
        <4>1. result' # "panic"
          BY <2>1, <3>1, <3>3, HostMoves DEF Waits
        <4>2. foreign' = foreign
          BY <2>1, <3>3 DEF Host, Killed, SendCommand, DataIn, DataOut, TransferFails
        <4> QED
          BY <1>1, <3>1, <4>1, <4>2
      <3> QED
        BY <3>2, <3>3
    <2>2. CASE Start
      <3>1. /\ UNCHANGED <<out, in, dev>> /\ foreign' = 0 /\ result' = "running"
            /\ cut' = (IF Clean THEN 0 ELSE cut + 1) /\ cut \in Nat
        BY <2>2 DEF Start, device, Typing
      <3>2. Clean => Mine'
        BY <3>1 DEF Clean, Mine, Ready
      <3> QED
        BY <3>1, <3>2
    <2>3. CASE Unplug \/ Reset \/ TakeCommand \/ TakeData \/ UNCHANGED vars
      <3>1. UNCHANGED program
        BY <2>3, CommandTaken, DataTaken DEF Unplug, Reset, vars
      <3>2. UNCHANGED <<cut, run, result, foreign>>
        BY <3>1, ProgramUnchanged
      <3>3. cut = 0 => Mine'
        BY <1>1, <2>3, <3>2, OutsideMoves, MineKept
      <3> QED
        BY <1>1, <3>2, <3>3
    <2> QED
      BY <2>1, <2>2, <2>3 DEF Next, Device
  <1> QED
    BY <1>2 DEF Own

-----------------------------------------------------------------------------
(* The device stores what the host thinks it has.                           *)

LEMMA StoredFacts ==
  /\ Stored(0) = <<>> /\ Stored(Chunks + 1) = Stored(Chunks)
  /\ Stored(Chunks) = [i \in 1 .. Chunks |-> i]
  /\ \A k \in Nat : k > Chunks => Stored(k) = Stored(Chunks) /\ Stored(k - 1) = Stored(Chunks)
  /\ \A k \in 1 .. Chunks : Append(Stored(k - 1), k) = Stored(k)
  <1>1. Stored(0) = <<>> /\ Stored(Chunks + 1) = Stored(Chunks) /\ Stored(Chunks) = [i \in 1 .. Chunks |-> i]
    BY UsbMsAssumption DEF Stored
  <1>2. ASSUME NEW k \in Nat, k > Chunks
        PROVE  Stored(k) = Stored(Chunks) /\ Stored(k - 1) = Stored(Chunks)
    <2>1. (IF k > Chunks THEN Chunks ELSE k) = Chunks /\ (IF k - 1 > Chunks THEN Chunks ELSE k - 1) = Chunks
      BY <1>2, UsbMsAssumption
    <2> QED
      BY <2>1, UsbMsAssumption DEF Stored
  <1>3. ASSUME NEW k \in 1 .. Chunks
        PROVE  Append(Stored(k - 1), k) = Stored(k)
    <2> DEFINE s == [i \in 1 .. k - 1 |-> i]
    <2>1. Stored(k - 1) = s /\ Stored(k) = [i \in 1 .. k |-> i]
      BY UsbMsAssumption DEF Stored
    <2>2. s \in Seq(Nat) /\ Len(s) = k - 1
      BY UsbMsAssumption
    <2>3. Append(s, k) = [i \in 1 .. k |-> i]
      <3> DEFINE t == [i \in 1 .. k |-> i]
      <3>1. /\ Append(s, k) \in Seq(Nat) /\ Len(Append(s, k)) = k
            /\ \A i \in 1 .. k : Append(s, k)[i] = i
        BY <2>2, UsbMsAssumption
      <3>2. t \in Seq(Nat) /\ Len(t) = k /\ \A i \in 1 .. k : t[i] = i
        BY UsbMsAssumption
      <3> HIDE DEF s, t
      <3>3. Append(s, k) = t
        BY <3>1, <3>2, SeqEqual
      <3> QED
        BY <3>3 DEF t
    <2> QED
      BY <2>1, <2>3
  <1> QED
    BY <1>1, <1>2, <1>3

(* A step of the host leaves the pipes quiet, unless it sends the firmware. *)
LEMMA QuietKept ==
  ASSUME Typing, Quiet, Push \/ Pop \/ Still, pc = "cbw" => Now.name \notin {"start", "chunk"}
  PROVE  Quiet'
  <1>1. CASE Push
    <2>1. /\ Len(out) \in Nat /\ Len(out') = Len(out) + 1 /\ out'[Len(out) + 1] = Packet
          /\ \A j \in 1 .. Len(out) : out'[j] = out[j]
      BY <1>1, AfterAppend, PacketFacts DEF Typing, Push
    <2>2. ~Changes(Packet)
      BY <1>1, PacketFacts DEF Push, Changes
    <2>3. \A j \in 1 .. Len(out') : j \in 1 .. Len(out) \/ out'[j] = Packet
      BY <2>1
    <2> QED
      BY <1>1, <2>1, <2>2, <2>3 DEF Quiet, Push, Changes
  <1>2. CASE Pop \/ Still
    <2>1. UNCHANGED <<out, dev>>
      BY <1>2 DEF Pop, Still
    <2> QED
      BY <2>1 DEF Quiet, Changes
  <1> QED
    BY <1>1, <1>2

(* Of the operations before the next one, those not passed over lie before  *)
(* the current one.                                                         *)
LEMMA NotPassedOver ==
  ASSUME NEW a \in Nat, NEW b \in Nat, NEW j \in 1 .. b - 1, j \notin a + 1 .. b - 1, j # a
  PROVE  j \in 1 .. a - 1
  OBVIOUS

(* A run that succeeds has performed an update.                             *)
LEMMA PastUpdate ==
  ASSUME Typing, pc # "idle", Passes, script[op] # "update", Updated' \/ result' = "ok"
  PROVE  Updated
  <1>1. /\ script' = script /\ script \in Scripts /\ op \in 1 .. Len(script) /\ result = "running"
        /\ Len(script) \in Nat
    BY UsbMsAssumption DEF Typing, Passes
  <1>2. CASE Updated'
    <2>1. pc' # "idle" /\ \E j \in 1 .. op' - 1 : script[j] = "update"
      BY <1>1, <1>2 DEF Updated
    <2>2. /\ op' \in op + 1 .. Len(script)
          /\ \A i \in op + 1 .. op' - 1 : script[i] # "update"
      BY <2>1 DEF Passes
    <2>3. PICK j \in 1 .. op' - 1 : script[j] = "update"
      BY <1>1, <2>1
    <2>4. j \notin op + 1 .. op' - 1 /\ j # op
      BY <2>2, <2>3
    <2>5. op \in Nat /\ op' \in Nat
      BY <1>1, <2>2
    <2>6. j \in 1 .. op - 1
      BY <2>3, <2>4, <2>5, NotPassedOver
    <2> QED
      BY <2>3, <2>6 DEF Updated
  <1>3. CASE result' = "ok"
    <2>1. op = Len(script)
      BY <1>1, <1>3 DEF Passes
    <2>2. PICK j \in 1 .. Len(script) : script[j] = "update"
      BY <1>1, UpdateAssumption
    <2>3. j \in 1 .. op - 1
      BY <1>1, <2>1, <2>2
    <2> QED
      BY <2>2, <2>3 DEF Updated
  <1> QED
    BY <1>2, <1>3

LEMMA ProgressPassed ==
  ASSUME Typing, Progress, pc # "idle", Passes, script[op] # "update",
         Push \/ Pop \/ Still, image' = image, foreign' \in Nat, foreign' >= foreign
  PROVE  Progress'
  <1>1. SUFFICES ASSUME foreign' = 0, Updated' \/ result' = "ok"
                 PROVE  Quiet' /\ image' = Stored(Chunks)
    <2>1. pc' = "cbw" => n' = 0
      BY DEF Passes
    <2>2. pc' \in {"cbw", "idle"}
      BY DEF Passes
    <2> QED
      BY <2>1, <2>2 DEF Progress
  <1>2. foreign = 0
    BY <1>1 DEF Typing
  <1>3. Quiet /\ image = Stored(Chunks)
    BY <1>1, <1>2, PastUpdate DEF Progress
  <1> QED
    BY <1>3, NowFacts, QuietKept

LEMMA ProgressSent ==
  ASSUME Typing, InOrder, Progress, pc = "cbw", Push, Waits, image' = image, foreign' = foreign
  PROVE  Progress'
  <1>1. /\ Self' = [run |-> run, tag |-> tag + 1] /\ UNCHANGED <<in, dev, script, op, n, result>>
        /\ pc' \in {"data", "status"} /\ result = "running"
    BY DEF Push, Waits, Self, Typing
  <1>2. SUFFICES ASSUME foreign = 0
                 PROVE  /\ script[op] = "update" =>
                             /\ ~Succeeded'
                             /\ n > 0 => OnlyOwn' /\ image = Stored(n - 1)
                        /\ Updated' => Quiet' /\ image = Stored(Chunks)
    BY <1>1 DEF Progress
  <1>3. ~Succeeded'
    BY <1>1, NothingLater DEF Succeeded
  <1>4. ASSUME script[op] = "update", n > 0
        PROVE  OnlyOwn' /\ image = Stored(n - 1)
    <2>1. Quiet /\ image = Stored(n - 1)
      BY <1>2, <1>4 DEF Progress
    <2>2. /\ Len(out) \in Nat /\ Len(out') = Len(out) + 1 /\ out'[Len(out) + 1] = Packet
          /\ \A j \in 1 .. Len(out) : out'[j] = out[j]
      BY AfterAppend, PacketFacts DEF Typing, Push
    <2>3. Packet.of = Self'
      BY <1>1, PacketFacts
    <2>4. \A j \in 1 .. Len(out') : j \in 1 .. Len(out) \/ out'[j] = Packet
      BY <2>2
    <2> QED
      BY <1>1, <2>1, <2>2, <2>3, <2>4 DEF Quiet, OnlyOwn, Changes
  <1>5. ASSUME Updated'
        PROVE  Quiet' /\ image = Stored(Chunks)
    <2>1. Updated
      BY <1>1, <1>5 DEF Updated
    <2>2. Quiet /\ image = Stored(Chunks)
      BY <1>2, <2>1 DEF Progress
    <2>3. Now.name \notin {"start", "chunk"}
      BY <2>1, NowFacts DEF Updated
    <2> QED
      BY <2>2, <2>3, QuietKept
  <1> QED
    BY <1>3, <1>4, <1>5

LEMMA ProgressWaited ==
  ASSUME Typing, Progress, pc = "data", Push \/ Pop, Waits, UNCHANGED <<tag, image, foreign>>
  PROVE  Progress'
  <1>1. /\ Self' = Self /\ UNCHANGED <<dev, script, op, n, result>>
        /\ pc' \in {"data", "status"} /\ result = "running"
    BY DEF Push, Pop, Waits, Self, Typing
  <1>2. Succeeded' => Succeeded
    <2>1. CASE Push
      BY <1>1, <2>1 DEF Push, Succeeded
    <2>2. CASE Pop
      <3>1. \A k \in 1 .. Len(in') : k + 1 \in 1 .. Len(in) /\ in'[k] = in[k + 1]
        BY <2>2, AfterTail DEF Typing, Pop
      <3> QED
        BY <1>1, <3>1 DEF Succeeded
    <2> QED
      BY <2>1, <2>2
  <1>3. \A j \in 1 .. Len(out') :
          (j \in 1 .. Len(out) /\ out'[j] = out[j]) \/ out'[j].kind # "cbw"
    <2>1. CASE Push
      <3>1. /\ Len(out) \in Nat /\ Len(out') = Len(out) + 1 /\ out'[Len(out) + 1] = Packet
            /\ \A j \in 1 .. Len(out) : out'[j] = out[j]
        BY <2>1, AfterAppend, PacketFacts DEF Typing, Push
      <3>2. Packet.kind = "payload"
        BY PacketFacts
      <3> QED
        BY <3>1, <3>2
    <2>2. CASE Pop
      BY <2>2 DEF Pop
    <2> QED
      BY <2>1, <2>2
  <1>4. (OnlyOwn => OnlyOwn') /\ (Pending' => Pending)
    BY <1>1, <1>3 DEF OnlyOwn, Pending, Changes
  <1>5. Updated' => Updated
    BY <1>1 DEF Updated
  <1>6. Quiet => Quiet'
    BY <1>1, <1>3 DEF Quiet, Changes
  <1> QED
    BY <1>1, <1>2, <1>4, <1>5, <1>6 DEF Progress

(* The answer to the command just sent is there, and is its own: everything *)
(* before it has been dealt with.                                           *)
LEMMA ProgressAnswered ==
  ASSUME Typing, InOrder, Progress, pc = "status", Pop, UNCHANGED image,
         1 \in 1 .. Len(in), Accepted, in[1] = Head(in), in[1].kind = "csw", in[1].status = 0,
         foreign' = foreign + (IF Accepted /\ in[1].of # Self THEN 1 ELSE 0),
         script[op] = "update",
         GoesOn \/ (Passes /\ n = Chunks + 1)
  PROVE  Progress'
  <1>1. SUFFICES ASSUME foreign' = 0
                 PROVE  Progress'
    BY DEF Progress
  <1>2. foreign = 0 /\ in[1].of = Self /\ n \in Nat /\ result = "running"
    BY <1>1 DEF Typing
  <1>3. image = Stored(n)
    BY <1>2 DEF Progress, Succeeded
  <1>4. Quiet'
    <2>1. dev.kind # "cbw" /\ \A j \in 1 .. Len(out) : out[j].kind # "cbw"
      BY <1>2, AnsweredLast
    <2> QED
      BY <2>1 DEF Quiet, Changes, Pop
  <1>5. CASE GoesOn
    <2>1. pc' = "cbw" /\ n' - 1 = n /\ UNCHANGED <<script, op, result>>
      BY <1>2, <1>5 DEF GoesOn
    <2>2. ~Updated' /\ result' # "ok"
      BY <1>2, <2>1 DEF Updated
    <2> QED
      BY <1>3, <1>4, <2>1, <2>2 DEF Progress
  <1>6. CASE Passes /\ n = Chunks + 1
    <2>1. image' = Stored(Chunks)
      BY <1>3, <1>6, StoredFacts
    <2>2. pc' \in {"cbw", "idle"} /\ (pc' = "cbw" => n' = 0)
      BY <1>6 DEF Passes
    <2> QED
      BY <1>4, <2>1, <2>2 DEF Progress
  <1> QED
    BY <1>5, <1>6

LEMMA ProgressStatus ==
  ASSUME Typing, InOrder, Matching, Progress, Status
  PROVE  Progress'
  <1>1. /\ Pop /\ pc = "status" /\ 1 \in 1 .. Len(in) /\ in[1] = Head(in)
        /\ foreign' = foreign + (IF Accepted /\ in[1].of # Self THEN 1 ELSE 0)
    BY AnswerRead
  <1>2. /\ UNCHANGED image /\ foreign' \in Nat /\ foreign' >= foreign /\ foreign \in Nat
        /\ result = "running"
    BY <1>1, HostMoves DEF Host, Typing
  <1>3. CASE Quits
    <2>1. pc' = "idle" /\ result' # "ok"
      BY <1>3 DEF Quits
    <2> QED
      BY <2>1 DEF Progress, Updated
  <1>4. CASE Passes /\ script[op] # "update"
    BY <1>1, <1>2, <1>4, ProgressPassed
  <1>5. CASE /\ Accepted /\ in[1].kind = "csw" /\ in[1].status = 0
             /\ GoesOn \/ (Passes /\ n = Chunks + 1)
             /\ script[op] = "update"
    BY <1>1, <1>2, <1>5, ProgressAnswered
  <1>6. CASE GoesOn /\ script[op] # "update"
    <2>1. pc' = "cbw" /\ UNCHANGED <<script, op, result>>
      BY <1>6 DEF GoesOn
    <2>2. Updated' => Updated
      BY <1>1, <2>1 DEF Updated
    <2>3. Quiet => Quiet'
      BY <1>1 DEF Pop, Quiet, Changes
    <2>4. foreign' = 0 => foreign = 0
      BY <1>2
    <2> QED
      BY <1>2, <1>6, <2>1, <2>2, <2>3, <2>4 DEF Progress
  <1> QED
    BY <1>3, <1>4, <1>5, <1>6, AnswerRead

LEMMA ProgressTakeCommand ==
  ASSUME Typing, InOrder, Matching, Progress, TakeCommand
  PROVE  Progress'
  <1> DEFINE c == out[1]
  <1>1. /\ Next1 /\ dev = Ready /\ UNCHANGED program
        /\ c \in CommandBlocks \cup Payloads /\ c.of \in Stamps
        /\ \A k \in 1 .. Len(in') : in'[k].of = c.of /\ c.kind = "cbw"
        /\ dev' \in {Ready, Halted} \/ (dev' = c /\ c.dir = "out")
        /\ image' = image \/ (c.kind = "cbw" /\ c.name = "start" /\ image' = <<>>)
        /\ \A k \in 1 .. Len(in') : in'[k].kind = "csw" /\ in'[k].status = 0 =>
             image' = (IF c.name = "start" THEN <<>> ELSE image)
    BY CommandTaken
  <1>2. /\ Self' = Self /\ UNCHANGED <<pc, script, op, n, result, foreign>>
        /\ (pc # "idle" => Now' = Now) /\ (Updated' <=> Updated)
    BY <1>1, ProgramUnchanged DEF Updated
  <1>3. /\ 1 \in 1 .. Len(out)
        /\ \A j \in 1 .. Len(out') : j + 1 \in 1 .. Len(out) /\ out'[j] = out[j + 1]
    BY <1>1 DEF Next1
  <1>4. /\ c.kind = "cbw" /\ c.of = Self =>
             /\ c.of \in Stamps
             /\ pc \in {"data", "status"} => Matches(c, Self, Now)
             /\ \A j \in 1 .. Len(out') : out'[j].kind = "cbw" => out'[j].of # Self
    <2>1. \A j \in 1 .. Len(out') : out'[j].kind = "cbw" => Before(c.of, out'[j].of)
      BY <1>1, <1>3 DEF InOrder, Follows, Next1
    <2>2. ~Before(Self, Self)
      BY SelfGrows, StampOrder
    <2> QED
      BY <1>1, <1>3, <2>1, <2>2 DEF Matching
  <1>5. SUFFICES ASSUME foreign = 0
                 PROVE  Progress'
    BY <1>2 DEF Progress
  <1> HIDE DEF c
  <1>6. dev'.kind = "cbw" => dev' = c
    BY <1>1 DEF Ready, Halted
  <1>7. ASSUME Quiet
        PROVE  Quiet' /\ image' = image
    <2>1. ~Changes(c) /\ \A j \in 1 .. Len(out') : ~Changes(out'[j])
      BY <1>3, <1>7 DEF Quiet, c
    <2> QED
      BY <1>1, <1>6, <2>1 DEF Quiet, Changes
  <1>8. ASSUME pc \in {"data", "status"}, script[op] = "update", Succeeded'
        PROVE  image' = Stored(n)
    <2>1. PICK k \in 1 .. Len(in') : in'[k].kind = "csw" /\ in'[k].of = Self /\ in'[k].status = 0
      BY <1>2, <1>8 DEF Succeeded
    <2>2. c.of = Self /\ c.kind = "cbw" /\ image' = (IF c.name = "start" THEN <<>> ELSE image)
      BY <1>1, <2>1
    <2>3. c.name = Now.name /\ c.name # "chunk"
      <3>1. c.dir # "out" /\ c \in CommandBlocks
        BY <1>1, <1>3, <2>1, CommandTaken, PipeFacts, <2>2 DEF c
      <3> QED
        BY <1>4, <1>8, <2>2, <3>1 DEF Matches, CommandBlocks
    <2>4. n \in Nat /\ Now.name = (IF n = 0 THEN "start" ELSE IF n <= Chunks THEN "chunk" ELSE "end")
      BY <1>8, NowFacts DEF Typing
    <2>5. CASE n = 0
      BY <2>2, <2>3, <2>4, <2>5, StoredFacts
    <2>6. CASE n > 0
      <3>1. n > Chunks /\ c.name = "end"
        BY <2>3, <2>4, <2>6, UsbMsAssumption
      <3>2. Pending
        BY <1>3, <2>2 DEF Pending, c
      <3>3. image = Stored(n - 1)
        BY <1>5, <1>8, <2>6, <3>2 DEF Progress
      <3> QED
        BY <2>2, <2>4, <3>1, <3>3, StoredFacts
    <2> QED
      BY <2>4, <2>5, <2>6
  <1>9. ASSUME pc \in {"data", "status"}, script[op] = "update", n > 0
        PROVE  OnlyOwn' /\ (Pending' => image' = Stored(n - 1))
    <2>1. OnlyOwn /\ (Pending => image = Stored(n - 1))
      BY <1>5, <1>9 DEF Progress
    <2>2. OnlyOwn'
      BY <1>2, <1>3, <1>6, <2>1 DEF OnlyOwn, Changes, c
    <2>3. Pending' => Pending
      BY <1>2, <1>3, <1>6 DEF Pending, c
    <2>4. image' = image
      <3>1. ASSUME c.kind = "cbw", c.name = "start"
            PROVE  FALSE
        <4>1. c.of = Self
          BY <1>3, <2>1, <3>1 DEF OnlyOwn, Changes, c
        <4>2. Now.name = "start"
          BY <1>4, <1>9, <3>1, <4>1 DEF Matches
        <4> QED
          BY <1>9, <4>2, NowFacts DEF Typing
      <3> QED
        BY <1>1, <3>1
    <2> QED
      BY <2>1, <2>2, <2>3, <2>4
  <1>10. ASSUME pc = "cbw", script[op] = "update", n > 0
         PROVE  Quiet /\ image = Stored(n - 1)
    BY <1>5, <1>10 DEF Progress
  <1>11. ASSUME Updated \/ result = "ok"
         PROVE  Quiet /\ image = Stored(Chunks)
    BY <1>5, <1>11 DEF Progress
  <1> QED
    BY <1>2, <1>7, <1>8, <1>9, <1>10, <1>11 DEF Progress

LEMMA ProgressTakeData ==
  ASSUME Typing, InOrder, Matching, Progress, TakeData
  PROVE  Progress'
  <1>1. PICK m \in Answers :
          /\ Next1 /\ UNCHANGED program /\ dev' = Ready
          /\ dev.kind = "cbw" /\ dev.name = "chunk" /\ dev.of \in Stamps
          /\ in' = Append(in, m) /\ m.of = dev.of
          /\ m.status = 0 =>
               out[1].kind = "payload" /\ image' = Append(image, out[1].page)
    BY DataTaken
  <1>2. /\ Self' = Self /\ UNCHANGED <<pc, script, op, n, result, foreign>>
        /\ (Updated' <=> Updated)
    BY <1>1, ProgramUnchanged DEF Updated
  <1>3. /\ 1 \in 1 .. Len(out)
        /\ \A j \in 1 .. Len(out') : j + 1 \in 1 .. Len(out) /\ out'[j] = out[j + 1]
    BY <1>1 DEF Next1
  <1>4. in' = <<m>>
    BY <1>1 DEF InOrder
  <1>5. \A k \in 1 .. Len(in') : in'[k] = m
    BY <1>4
  <1>6. SUFFICES ASSUME foreign = 0
                 PROVE  Progress'
    BY <1>2 DEF Progress
  <1>7. ~Quiet
    BY <1>1 DEF Quiet, Changes
  <1>8. ASSUME pc \in {"data", "status"}, script[op] = "update", Succeeded'
        PROVE  image' = Stored(n)
    <2>1. dev.of = Self /\ m.status = 0
      BY <1>1, <1>2, <1>5, <1>8 DEF Succeeded
    <2>2. Now.name = "chunk" /\ n \in Nat
      BY <1>1, <1>8, <2>1 DEF Matching, Matches, Typing
    <2>3. n \in 1 .. Chunks
      BY <1>8, <2>2, NowFacts, UsbMsAssumption
    <2>4. image = Stored(n - 1)
      BY <1>1, <1>6, <1>8, <2>1, <2>3 DEF Progress, Pending
    <2>5. out[1].of = Self
      <3>1. Upto(Self, out[1].of) /\ Upto(out[1].of, Self) /\ out[1].of \in Stamps
        BY <1>1, <1>3, <2>1, PipeFacts DEF InOrder, Follows
      <3> QED
        BY <3>1, SelfGrows, StampOrder DEF Upto
    <2>6. out[1].page = n
      BY <1>1, <1>3, <1>8, <2>1, <2>5 DEF Matching
    <2> QED
      BY <1>1, <2>1, <2>3, <2>4, <2>6, StoredFacts
  <1>9. ASSUME pc \in {"data", "status"}, script[op] = "update", n > 0
        PROVE  OnlyOwn' /\ ~Pending'
    <2>1. OnlyOwn
      BY <1>6, <1>9 DEF Progress
    <2>2. dev.of = Self
      BY <1>1, <2>1 DEF OnlyOwn, Changes
    <2>3. \A j \in 1 .. Len(out') : out'[j].kind = "cbw" => out'[j].of # Self
      <3>1. \A j \in 1 .. Len(out') : out'[j].kind = "cbw" => Before(Self, out'[j].of)
        BY <1>1, <1>3, <2>2 DEF InOrder, Follows
      <3> QED
        BY <3>1, SelfGrows, StampOrder
    <2> QED
      BY <1>1, <1>2, <1>3, <2>1, <2>3 DEF OnlyOwn, Pending, Changes, Ready
  <1>10. ~(pc = "cbw" /\ script[op] = "update" /\ n > 0) /\ ~(Updated \/ result = "ok")
    BY <1>6, <1>7 DEF Progress
  <1> QED
    BY <1>2, <1>8, <1>9, <1>10 DEF Progress

LEMMA ProgressOutside ==
  ASSUME Typing, Progress, Start \/ Unplug \/ Reset \/ UNCHANGED vars
  PROVE  Progress'
  <1>1. CASE Start
    <2>1. pc' = "cbw" /\ n' = 0 /\ op' = 1 /\ result' = "running"
      BY <1>1 DEF Start
    <2>2. ~Updated'
      BY <2>1 DEF Updated
    <2> QED
      BY <2>1, <2>2 DEF Progress
  <1>2. CASE Unplug \/ Reset
    <2>1. /\ out' = <<>> /\ in' = <<>> /\ dev' \in {Ready, Gone} /\ UNCHANGED <<program, image>>
      BY <1>2 DEF Unplug, Reset
    <2>2. UNCHANGED <<pc, script, op, n, result, foreign>> /\ (Updated' <=> Updated)
      BY <2>1, ProgramUnchanged DEF Updated
    <2>3. Quiet' /\ OnlyOwn' /\ ~Pending' /\ ~Succeeded'
      BY <2>1 DEF Quiet, OnlyOwn, Pending, Succeeded, Changes, Ready, Gone
    <2> QED
      BY <2>1, <2>2, <2>3 DEF Progress
  <1>3. CASE UNCHANGED vars
    <2>1. UNCHANGED <<pc, script, op, n, result, foreign, out, in, dev, image>> /\ Self' = Self
      BY <1>3, ProgramUnchanged DEF vars, device
    <2> QED
      BY <2>1 DEF Progress, Updated, Quiet, OnlyOwn, Pending, Succeeded, Changes
  <1> QED
    BY <1>1, <1>2, <1>3

LEMMA ProgressKept ==
  ASSUME Typing, InOrder, Matching, Progress, [Next]_vars
  PROVE  Progress'
  <1>1. CASE Status
    BY <1>1, ProgressStatus
  <1>2. CASE (Host \/ Killed) /\ ~Status
    <2>1. /\ pc # "idle" /\ image' = image /\ foreign' \in Nat /\ foreign' >= foreign
          /\ Push \/ Pop \/ Still
      BY <1>2, HostMoves
    <2>2. CASE Quits
      <3>1. pc' = "idle" /\ result' # "ok"
        BY <2>2 DEF Quits
      <3> QED
        BY <3>1 DEF Progress, Updated
    <2>3. CASE Passes /\ script[op] # "update"
      BY <2>1, <2>3, ProgressPassed
    <2>4. CASE SendCommand /\ pc = "cbw" /\ Push /\ Waits /\ UNCHANGED foreign
      BY <2>1, <2>4, ProgressSent
    <2>5. CASE pc = "data" /\ Waits /\ UNCHANGED <<tag, foreign>> /\ (Push \/ Pop)
      BY <2>1, <2>5, ProgressWaited
    <2> QED
      BY <1>2, <2>2, <2>3, <2>4, <2>5, HostMoves
  <1> QED
    BY <1>1, <1>2, ProgressTakeCommand, ProgressTakeData, ProgressOutside DEF Next, Host, Device

-----------------------------------------------------------------------------
(* The theorems.                                                            *)

LEMMA InitInv == Init => UsbMsInv
  <1> SUFFICES ASSUME Init
               PROVE  UsbMsInv
    OBVIOUS
  <1>1. Typing
    BY DEF Init, Typing
  <1>2. InOrder /\ Matching /\ Own
    BY DEF Init, InOrder, Matching, Own, Mine, Ready
  <1>3. Progress
    BY DEF Init, Progress, Updated
  <1> QED
    BY <1>1, <1>2, <1>3 DEF UsbMsInv

(* The order of the stamps in the pipes, and what the device has stored.    *)
THEOREM PipesInOrder == Spec => []UsbMsInv
  <1>1. UsbMsInv /\ [Next]_vars => UsbMsInv'
    BY TypingKept, OrderKept, MatchingKept, OwnKept, ProgressKept DEF UsbMsInv
  <1> QED
    BY <1>1, InitInv, PTL DEF Spec

(* A run on clean pipes believes only the answers to its own commands, and  *)
(* never panics (RawCommand's comparison of tags), for any programs.        *)
THEOREM CleanRunsAreTheirOwn == Spec => []CleanRunBelievesItsOwn
  <1>1. UsbMsInv => CleanRunBelievesItsOwn
    BY DEF UsbMsInv, Own, CleanRunBelievesItsOwn, Typing
  <1> QED
    BY <1>1, PipesInOrder, PTL

(* A run that succeeds on its own answers has left the whole firmware on    *)
(* the device, each chunk once and in order (IPodUpdateSendFull).           *)
THEOREM SuccessMeansStored == Spec => []OkMeansStored
  <1>1. UsbMsInv => OkMeansStored
    BY StoredFacts DEF UsbMsInv, Progress, OkMeansStored
  <1> QED
    BY <1>1, PipesInOrder, PTL
=============================================================================
