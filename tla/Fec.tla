-------------------------------- MODULE Fec --------------------------------
(***************************************************************************)
(* Forward error correction of the audio path: the sending half of a zone  *)
(* (oaat-controller, Zone::send_audio_all with its FecEncoder), the UDP    *)
(* flow to one endpoint, and the receiving half (oaat-endpoint,            *)
(* audio_receive_loop with its FecReceiver).                               *)
(*                                                                         *)
(* A payload is the set of the ghost numbers of the data packets XORed     *)
(* into it, so XOR is symmetric difference: a data payload is {n}, the     *)
(* parity of a group is the set of its members.  An Option of the code is  *)
(* a set with at most one element.                                         *)
(***************************************************************************)
EXTENDS Integers, Sequences, FiniteSets

CONSTANTS
  Starts,      \* values of the sequence counter when the endpoint joins
  SeqMod,      \* 2^16 in the code: sequence numbers are u16 and wrap
  MaxGroup,    \* 16 in the code: packets of the largest group
  GroupSizes,  \* group sizes enable_fec is called with
  MaxPackets,  \* bound: datagrams sent, data and parity together
  MaxToggles,  \* bound: enable_fec and disable_fec calls
  MaxDup,      \* bound: datagrams the network duplicates
  Reorder,     \* the network may reorder
  MayLose,     \* the network may lose
  EndAnywhere  \* a stream may end in the middle of a group

(***************************************************************************)
(* FecEncoder::new asserts 2..=16.   A packet number is never reused within *)
(* the datagrams considered: 65536 of them are minutes of audio.           *)
(***************************************************************************)
ASSUME FecAssumption ==
  /\ SeqMod \in Nat /\ MaxPackets \in Nat /\ MaxPackets < SeqMod
  /\ Starts \subseteq 0 .. SeqMod - 1
  /\ MaxGroup \in Nat /\ 2 <= MaxGroup /\ MaxGroup < SeqMod
  /\ GroupSizes \subseteq 2..MaxGroup
  /\ MaxToggles \in Nat /\ MaxDup \in Nat
  /\ Reorder \in BOOLEAN /\ MayLose \in BOOLEAN /\ EndAnywhere \in BOOLEAN

VARIABLES
  start,     \* ghost: the zone's sequence counter when the endpoint joined
  sequence,  \* Zone::sequence
  enc,       \* Zone::fec_encoder; gs = 0 when there is none
  sent,      \* ghost: datagrams sent so far, the number n of the next one
  offset,    \* pts_ns and sample_offset, in packets of uniform duration
  ended,     \* LAST_PACKET was sent
  toggles,   \* enable_fec and disable_fec calls so far
  net,       \* datagrams in flight
  dups,      \* datagrams duplicated so far
  arrived,   \* ghost: datagrams handed to FecReceiver::feed
  dropped,   \* ghost: datagrams lost by the network
  rx         \* FecReceiver, with the packets it emitted

vars == <<start, sequence, enc, sent, offset, ended, toggles, net, dups,
          arrived, dropped, rx>>

U16 == 0 .. SeqMod - 1

WrappingAdd(a, b) == IF a + b >= SeqMod THEN a + b - SeqMod ELSE a + b

WrappingSub(a, b) == IF a >= b THEN a - b ELSE a - b + SeqMod

Positions == 0 .. MaxGroup - 1

Xor(A, B) == (A \ B) \cup (B \ A)

(***************************************************************************)
(* An audio datagram: the header fields the receiver reads, the payload,   *)
(* and the ghost number n that tells datagrams apart across wraps.         *)
(***************************************************************************)
Packet == [fec : BOOLEAN, seq : U16, gs : 0..MaxGroup, idx : Positions, pts : Int,
           last : BOOLEAN, payload : SUBSET Nat, n : Int]

-----------------------------------------------------------------------------
(* Sending half. *)

NewEncoder(gs) == [gs |-> gs, count |-> 0, parity |-> {}]

(* FecEncoder::feed: what the accumulator holds after one more payload. *)
Accumulate(e, payload) == Xor(IF e.count = 0 THEN {} ELSE e.parity, payload)

(* Faulty variant: the group closes one packet late. *)
GroupFullLate(e) == e.gs > 0 /\ e.count >= e.gs

GroupFull(e) == e.gs > 0 /\ e.count + 1 >= e.gs

DataPacket(last) ==
  [fec |-> FALSE, seq |-> sequence, gs |-> enc.gs, idx |-> enc.count,
   pts |-> offset, last |-> last, payload |-> {sent}, n |-> sent]

ParityPacket ==
  [fec |-> TRUE, seq |-> WrappingAdd(sequence, 1), gs |-> enc.gs, idx |-> 0,
   pts |-> offset, last |-> FALSE, payload |-> Accumulate(enc, {sent}),
   n |-> sent + 1]

(***************************************************************************)
(* send_audio_all: one data packet, followed by the parity packet when it  *)
(* completes the encoder's group.                                          *)
(***************************************************************************)
SendAudio(last) ==
  /\ ~ended
  /\ sent + (IF GroupFull(enc) THEN 2 ELSE 1) <= MaxPackets
  /\ last => EndAnywhere \/ enc.gs = 0 \/ GroupFull(enc)
  /\ IF GroupFull(enc)
       THEN /\ net' = net \cup {DataPacket(last), ParityPacket}
            /\ sent' = sent + 2
            /\ sequence' = WrappingAdd(WrappingAdd(sequence, 1), 1)
            /\ enc' = NewEncoder(enc.gs)
       ELSE /\ net' = net \cup {DataPacket(last)}
            /\ sent' = sent + 1
            /\ sequence' = WrappingAdd(sequence, 1)
            /\ enc' = IF enc.gs = 0 THEN enc
                      ELSE [enc EXCEPT !.count = @ + 1,
                                       !.parity = Accumulate(enc, {sent})]
  /\ offset' = offset + 1
  /\ ended' = last
  /\ UNCHANGED <<start, toggles, dups, arrived, dropped, rx>>

(* enable_fec(gs), or disable_fec for gs = 0: the old encoder is dropped. *)
SetFec(gs) ==
  /\ ~ended
  /\ toggles < MaxToggles
  /\ EndAnywhere \/ enc.count = 0
  /\ enc' = NewEncoder(gs)
  /\ toggles' = toggles + 1
  /\ UNCHANGED <<start, sequence, sent, offset, ended, net, dups, arrived,
                 dropped, rx>>

-----------------------------------------------------------------------------
(* Receiving half: FecReceiver.  out is the history of emitted batches; a  *)
(* batch maps positions of a group to the packet emitted for them, and is  *)
(* emitted in the order of the positions.                                  *)

Batches == [Positions -> SUBSET Packet]

Receiver ==
  [base : SUBSET U16, prev : SUBSET U16, slots : Batches, gs : 0..MaxGroup,
   parity : SUBSET SUBSET Nat, recovered : Nat, lost : Nat, out : Seq(Batches)]

NoSlots == [i \in Positions |-> {}]

NewReceiver == [base |-> {}, prev |-> {}, slots |-> NoSlots, gs |-> 0,
                parity |-> {}, recovered |-> 0, lost |-> 0, out |-> <<>>]

Missing(r) == {i \in 0 .. r.gs - 1 : r.slots[i] = {}}

Emit(r, batch) == [r EXCEPT !.out = Append(@, batch)]

Single(p) == [i \in Positions |-> IF i = p.idx THEN {p} ELSE {}]

TakeGroup(r) ==
  [Emit(r, r.slots) EXCEPT !.prev = r.base, !.base = {}, !.parity = {},
                           !.slots = NoSlots]

(* Faulty variant: what a flush misses is not counted. *)
FlushUncounted(r) == IF r.base = {} THEN r ELSE TakeGroup(r)

Flush(r) ==
  IF r.base = {} THEN r
  ELSE TakeGroup([r EXCEPT !.lost = @ + Cardinality(Missing(r))])

(* Positions of the group that hold a packet, lowest first. *)
Known(r) == {i \in 0 .. r.gs - 1 : r.slots[i] # {}}

First(S) == CHOOSE i \in S : \A j \in S : i <= j

(***************************************************************************)
(* synthesize_header: extrapolated from the two lowest known positions;    *)
(* with a single one its own timestamps are copied.  Flags come out empty. *)
(***************************************************************************)
Synthesize(r, idx, payload) ==
  LET i0 == First(Known(r))
      h0 == CHOOSE p \in r.slots[i0] : TRUE
      i1 == First(Known(r) \ {i0})
      h1 == CHOOSE p \in r.slots[i1] : TRUE
      step == (h1.pts - h0.pts) \div (i1 - i0)
  IN [fec |-> FALSE,
      seq |-> WrappingAdd(CHOOSE b \in r.base : TRUE, idx),
      gs |-> r.gs, idx |-> idx, last |-> FALSE, payload |-> payload,
      pts |-> IF Known(r) = {i0} THEN h0.pts ELSE h0.pts + step * (idx - i0),
      n |-> h0.n + (idx - i0)]

(* The parity payload XORed with every payload the group holds. *)
XorAll(parity, slots) ==
  {x \in parity \cup UNION {p.payload : p \in UNION {slots[i] : i \in Positions}} :
     LET in == {i \in Positions : \E p \in slots[i] : x \in p.payload}
     IN (x \in parity) # (Cardinality(in) % 2 = 1)}

TryComplete(r) ==
  IF Missing(r) = {} THEN TakeGroup(r)
  ELSE IF r.parity # {} /\ Cardinality(Missing(r)) = 1
  THEN LET idx == CHOOSE i \in Missing(r) : TRUE
           parity == CHOOSE s \in r.parity : TRUE
           p == Synthesize(r, idx, XorAll(parity, r.slots))
       IN TakeGroup([r EXCEPT !.slots[idx] = {p}, !.recovered = @ + 1])
  ELSE r

(* Faulty variant: the group in progress is not flushed first. *)
FeedPlainOvertaking(r, p) == Emit(r, Single(p))

(* feed of a packet sent without FEC. *)
FeedPlain(r, p) == Emit(Flush(r), Single(p))

(* Faulty variant: the parity is kept whatever its group. *)
FeedParityAny(r, p) ==
  IF r.base = {} THEN r ELSE TryComplete([r EXCEPT !.parity = {p.payload}])

(* Faulty variant: the parity is stored, completion is not tried. *)
FeedParityStored(r, p) ==
  IF r.base = {WrappingSub(p.seq, p.gs)} THEN [r EXCEPT !.parity = {p.payload}]
  ELSE r

(* feed of a parity packet: kept for the group being assembled only. *)
FeedParity(r, p) ==
  IF r.base = {WrappingSub(p.seq, p.gs)}
    THEN TryComplete([r EXCEPT !.parity = {p.payload}])
    ELSE r

(* Faulty variant: the group in progress is dropped by the switch. *)
StartGroupUnflushed(r, base, gs) ==
  [r EXCEPT !.prev = r.base, !.base = {base}, !.gs = gs, !.parity = {},
            !.slots = NoSlots]

(* The group switch of feed: the group in progress is flushed first. *)
StartGroup(r, base, gs) ==
  [Flush(r) EXCEPT !.base = {base}, !.gs = gs, !.parity = {},
                   !.slots = NoSlots]

Store(r, p) ==
  IF p.idx < r.gs THEN [r EXCEPT !.slots[p.idx] = {p}] ELSE r

(* feed of a data packet of a group. *)
FeedData(r, p) ==
  LET base == WrappingSub(p.seq, p.idx)
  IN IF r.prev = {base} /\ r.base # {base} THEN Emit(r, Single(p))
     ELSE TryComplete(Store(IF r.base = {base} THEN r
                            ELSE StartGroup(r, base, p.gs), p))

Feed(r, p) ==
  IF p.gs = 0 /\ ~p.fec THEN FeedPlain(r, p)
  ELSE IF p.fec THEN FeedParity(r, p) ELSE FeedData(r, p)

(* Faulty variant: LAST_PACKET does not flush. *)
ReceiveUnflushed(r, p) == Feed(r, p)

(***************************************************************************)
(* One turn of audio_receive_loop: feed, and on LAST_PACKET flush so that  *)
(* trailing packets are not held back.                                     *)
(***************************************************************************)
ReceiveOf(r, p) == IF p.last THEN Flush(Feed(r, p)) ELSE Feed(r, p)

Oldest(p) == \A q \in net : p.n <= q.n

Receive(p, keep) ==
  /\ Reorder \/ Oldest(p)
  /\ keep => dups < MaxDup
  /\ rx' = ReceiveOf(rx, p)
  /\ arrived' = arrived \cup {p}
  /\ net' = IF keep THEN net ELSE net \ {p}
  /\ dups' = IF keep THEN dups + 1 ELSE dups
  /\ UNCHANGED <<start, sequence, enc, sent, offset, ended, toggles, dropped>>

Lose(p) ==
  /\ MayLose
  /\ net' = net \ {p}
  /\ dropped' = dropped \cup {p}
  /\ UNCHANGED <<start, sequence, enc, sent, offset, ended, toggles, dups,
                 arrived, rx>>

-----------------------------------------------------------------------------
Init ==
  /\ start \in Starts
  /\ sequence = start
  /\ \E gs \in GroupSizes : enc = NewEncoder(gs)
  /\ sent = 0 /\ offset = 0 /\ ended = FALSE /\ toggles = 0
  /\ net = {} /\ dups = 0 /\ arrived = {} /\ dropped = {}
  /\ rx = NewReceiver

Next ==
  \/ \E last \in BOOLEAN : SendAudio(last)
  \/ \E gs \in GroupSizes \cup {0} : SetFec(gs)
  \/ \E p \in net, keep \in BOOLEAN : Receive(p, keep)
  \/ \E p \in net : Lose(p)

Spec == Init /\ [][Next]_vars

-----------------------------------------------------------------------------
(* Properties. *)

AtMostOne(S) == \A x, y \in S : x = y

(* Every field of sender, network and receiver keeps its type, and what the *)
(* code holds as an Option has at most one value.                           *)
TypeOK ==
  /\ start \in U16 /\ sequence \in U16
  /\ enc \in [gs : 0..MaxGroup, count : Positions, parity : SUBSET Nat]
  /\ sent \in 0..MaxPackets /\ offset \in Nat /\ ended \in BOOLEAN
  /\ toggles \in 0..MaxToggles /\ dups \in 0..MaxDup
  /\ net \subseteq Packet /\ arrived \subseteq Packet /\ dropped \subseteq Packet
  /\ rx \in Receiver
  /\ AtMostOne(rx.base) /\ AtMostOne(rx.prev) /\ AtMostOne(rx.parity)
  /\ \A i \in Positions : AtMostOne(rx.slots[i])

Out(r, p) ==
  \E k \in 1..Len(r.out) : \E i \in Positions : p \in r.out[k][i]

Held(r, p) == \E i \in Positions : p \in r.slots[i]

(* No data packet handed to feed disappears inside the receiver, whatever   *)
(* the order, the losses and the duplicates: it was emitted, or it is held  *)
(* in the group being assembled.                                            *)
NoPacketVanishes ==
  \A p \in arrived : p.fec \/ Out(rx, p) \/ Held(rx, p)

(***************************************************************************)
(* What keeps groups apart.  PacketInv: a datagram is told by its number,  *)
(* its sequence number is that number in u16, parity covers the packets    *)
(* right before it, and one group has one size.  SenderInv: the encoder    *)
(* has accumulated the last count packets sent.  ReceiverInv: the packets  *)
(* and the parity held are those of the group whose base is recorded.      *)
(***************************************************************************)
GroupStart(p) == IF p.fec THEN p.n - p.gs ELSE p.n - p.idx

PacketInv(P, N, s) ==
  \A p \in P :
     /\ p.n \in 0 .. N - 1 /\ p.seq = WrappingAdd(s, p.n)
     /\ ~p.fec => /\ p.payload = {p.n} /\ p.idx <= p.n
                  /\ p.gs = 0 \/ (p.gs >= 2 /\ p.idx < p.gs)
     /\ p.fec => p.gs >= 2 /\ p.gs <= p.n /\ p.payload = p.n - p.gs .. p.n - 1
     /\ \A q \in P : /\ p.n = q.n => p = q
                     /\ p.gs > 0 /\ q.gs > 0 /\ GroupStart(p) = GroupStart(q)
                          => p.gs = q.gs

SenderInv(P) ==
  /\ sequence = WrappingAdd(start, sent)
  /\ enc.gs \in GroupSizes \cup {0} /\ enc.count <= sent
  /\ enc.count = 0 \/ (enc.count < enc.gs /\ enc.parity = sent - enc.count .. sent - 1)
  /\ \A p \in P : /\ p.fec => p.n < sent - enc.count
                  /\ p.gs > 0 /\ GroupStart(p) >= sent - enc.count
                       => p.gs = enc.gs /\ GroupStart(p) = sent - enc.count

ReceiverInv(r, A) ==
  /\ r.base = {} => r.slots = NoSlots /\ r.parity = {}
  /\ r.base # {} => /\ r.gs >= 2
                    /\ \E i \in Positions : r.slots[i] # {}
  /\ \A i \in Positions : \A p \in r.slots[i] :
        /\ p \in A /\ ~p.fec /\ p.idx = i /\ p.gs = r.gs /\ i < r.gs
        /\ r.base = {WrappingSub(p.seq, i)}
  /\ \A x \in r.parity : \E q \in A :
        /\ q.fec /\ q.payload = x
        /\ r.base = {WrappingSub(q.seq, q.gs)}

Datagrams == net \cup arrived \cup dropped

(* Groups are never mixed: the packets and the parity the receiver combines *)
(* belong to one group of the sender, with one size, and a packet is held   *)
(* at its own position.                                                     *)
GroupsApart ==
  /\ PacketInv(Datagrams, sent, start)
  /\ SenderInv(Datagrams)
  /\ ReceiverInv(rx, arrived)

Genuine(r, N, s) ==
  \A k \in 1..Len(r.out) : \A i \in Positions : \A p \in r.out[k][i] :
     /\ ~p.fec /\ p.payload = {p.n}
     /\ p.n \in 0 .. N - 1 /\ p.seq = WrappingAdd(s, p.n)

(* What try_complete rebuilds is the packet that was lost: the payload and  *)
(* the sequence number of every emitted packet are those of one packet      *)
(* sent, also when groups are mixed by late and repeated datagrams.         *)
RecoveredExact == Genuine(rx, sent, start)

OutNumbers ==
  UNION {UNION {{p.n : p \in rx.out[k][i]} : i \in Positions} :
           k \in 1..Len(rx.out)}

Numbers(S) == {p.n : p \in S}

(* A closed group with at most one loss, told by its parity packet q: its   *)
(* parity arrived and at most one data packet of it was lost, or the parity *)
(* was lost and all of its data packets arrived.                            *)
SingleLoss(q) ==
  /\ q.fec /\ q.payload \cap Numbers(net) = {}
  /\ Cardinality(q.payload \cap Numbers(dropped)) <= (IF q \in arrived THEN 1 ELSE 0)

SentTime(p) ==
  \A q \in arrived \cup dropped \cup net : ~q.fec /\ q.n = p.n => p.pts = q.pts

(* On an ordered path one loss per group is repaired: all the packets of    *)
(* such a group have been emitted, unless the stream ended in it.  For      *)
(* groups of three or more packets of uniform duration the interpolated     *)
(* timestamp is the one the packet was sent with.                           *)
SingleLossRepaired ==
  /\ \A q \in arrived \cup dropped :
       /\ SingleLoss(q)
       /\ \A p \in arrived : p.last => p.n \notin q.payload
       => q.payload \subseteq OutNumbers
  /\ \A k \in 1..Len(rx.out) : \A i \in Positions : \A p \in rx.out[k][i] :
       p.gs >= 3 => SentTime(p)

(* What the protocol says of recovery: with exactly one data packet missing *)
(* and the parity received the packet is rebuilt, in every group.           *)
EverySingleLossRepaired ==
  \A q \in arrived \cup dropped : SingleLoss(q) => q.payload \subseteq OutNumbers

(* On an ordered path the audio path sees increasing packet numbers:        *)
(* nothing is emitted twice or out of order, within a group, across groups  *)
(* and across switches of FEC on and off.                                   *)
EmittedInOrder ==
  \A k, l \in 1..Len(rx.out) : \A i \in Positions, j \in Positions :
     k < l \/ (k = l /\ i < j) =>
       \A p \in rx.out[k][i], q \in rx.out[l][j] : p.n < q.n

(* On an ordered path with streams that end at a group boundary, recovered  *)
(* plus lost counts exactly the data packets lost in the groups the         *)
(* receiver saw something of and is done with.                              *)
LinkStatsExact ==
  LET closed(p) == /\ ~p.fec /\ p.gs > 0
                   /\ \E q \in arrived : /\ ~q.fec /\ q.gs > 0
                                          /\ GroupStart(q) = GroupStart(p)
                   /\ rx.base # {WrappingAdd(start, GroupStart(p))}
  IN rx.recovered + rx.lost = Cardinality({p \in dropped : closed(p)})

(* Once the packet flagged LAST_PACKET is in, and nothing is in flight on   *)
(* an ordered path, every data packet received was emitted.                 *)
StreamEndDrained ==
  net = {} /\ (\E p \in arrived : p.last)
    => \A p \in arrived : p.fec \/ Out(rx, p)

(* What the comment of synthesize_header says: exact for every group of     *)
(* packets of uniform duration.                                             *)
UniformTimeExact ==
  \A k \in 1..Len(rx.out) : \A i \in Positions : \A p \in rx.out[k][i] :
     SentTime(p)

(* What the protocol says of the counter of lost packets: nothing is lost   *)
(* beyond recovery when the network lost nothing.                           *)
LosslessMeansNoneLost == dropped = {} => rx.lost = 0

(* What the protocol says of a group: its packets are emitted in order once *)
(* the group completes or recovers, so each of them once when the network   *)
(* duplicates nothing.                                                      *)
EmittedOnce ==
  \A k, l \in 1..Len(rx.out) : \A i \in Positions, j \in Positions :
     (\E p \in rx.out[k][i], q \in rx.out[l][j] : p.n = q.n) => k = l /\ i = j
=============================================================================
