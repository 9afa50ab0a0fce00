----------------------------- MODULE FecLemmas -----------------------------
(***************************************************************************)
(* What the proofs about Fec rest on, for every group size, every start of *)
(* the sequence counter and every order, loss and duplication.             *)
(*                                                                         *)
(* First what the receiver keeps when it takes a datagram, for any set of  *)
(* datagrams that came from one sender: a lemma per case of feed, up to    *)
(* ReceiveInv for the whole of it.  Then the inductive invariant, which    *)
(* adds GroupsApart to the properties: without it the provers could take a *)
(* late datagram of another group for a member of the current one, because *)
(* the receiver tells groups apart by wrapped sequence numbers only.  Last *)
(* the form of the stream a zone sends (StreamInv), what an ordered path   *)
(* leaves of it (Coming), and how the receiver's groups lie in it (Shape,  *)
(* Behind).                                                                *)
(***************************************************************************)
EXTENDS Fec, TLAPS

-----------------------------------------------------------------------------
(* Arithmetic of u16 sequence numbers.                                     *)

(* wrapping_add and wrapping_sub stay in u16.                              *)
LEMMA WrapType ==
  ASSUME NEW a \in U16, NEW b \in U16
  PROVE  WrappingAdd(a, b) \in U16 /\ WrappingSub(a, b) \in U16
BY FecAssumption DEF U16, WrappingAdd, WrappingSub

(* The base computed from a sequence number is that of the group's start.  *)
LEMMA WrapBase ==
  ASSUME NEW s \in U16, NEW n \in U16, NEW i \in Nat, i <= n
  PROVE  WrappingSub(WrappingAdd(s, n), i) = WrappingAdd(s, n - i)
BY FecAssumption DEF U16, WrappingAdd, WrappingSub

(* Fewer than 2^16 datagrams have different sequence numbers.              *)
LEMMA WrapInjective ==
  ASSUME NEW s \in U16, NEW a \in U16, NEW b \in U16,
         WrappingAdd(s, a) = WrappingAdd(s, b)
  PROVE  a = b
BY FecAssumption DEF U16, WrappingAdd

-----------------------------------------------------------------------------
(* What the operations of the receiver keep.                               *)

RxType(r) ==
  /\ r \in Receiver
  /\ AtMostOne(r.base) /\ AtMostOne(r.prev) /\ AtMostOne(r.parity)
  /\ \A i \in Positions : AtMostOne(r.slots[i])

Keeps(r, t) ==
  /\ \A x : Out(r, x) => Out(t, x)
  /\ \A x : Held(r, x) => Held(t, x) \/ Out(t, x)

RxInv(r, A, N, s) == RxType(r) /\ ReceiverInv(r, A) /\ Genuine(r, N, s)

(* What is used of cardinalities and of order: proved at the end, from the  *)
(* library, whose facts would be in the way of the provers before.          *)
Counted(S) ==
  /\ Cardinality(S) \in Nat
  /\ Cardinality(S) = 0 <=> S = {}
  /\ Cardinality(S) = 1 <=> \E x : S = {x}

Intervals == \A a, b \in Int : \A S \in SUBSET (a .. b) : Counted(S)

Alone(x) == Cardinality({x}) = 1

Leasts == \A S \in SUBSET Nat : S # {} => \E x \in S : \A y \in S : x <= y

Counting == Intervals /\ Cardinality({}) = 0 /\ (\A x : Alone(x)) /\ Leasts

(* The datagrams the receiver has been given, as PacketInv describes them. *)
Given(A, N, s) ==
  /\ A \subseteq Packet /\ N \in 0..MaxPackets /\ s \in U16 /\ PacketInv(A, N, s)
  /\ Counting

(* The positions a group misses can be counted.                            *)
LEMMA CountMissing ==
  ASSUME NEW r, r.gs \in Nat, Counting
  PROVE  /\ Cardinality(Missing(r)) \in Nat
         /\ Cardinality(Missing(r)) = 1 <=> \E x : Missing(r) = {x}
<1>1. 0 \in Int /\ r.gs - 1 \in Int BY SMT
<1>2. Missing(r) \in SUBSET (0 .. r.gs - 1) BY Zenon DEF Missing
<1>3. Intervals BY Zenon DEF Counting
<1>4. Counted(Missing(r)) BY ONLY <1>1, <1>2, <1>3, Zenon DEF Intervals
<1> QED BY ONLY <1>4, Zenon DEF Counted

(* Emitting a batch appends it to the history and loses nothing.           *)
LEMMA EmitKeeps ==
  ASSUME NEW r \in Receiver, NEW b \in Batches
  PROVE  /\ Emit(r, b) \in Receiver
         /\ Emit(r, b).out = Append(r.out, b)
         /\ \A x : Out(Emit(r, b), x) <=> Out(r, x) \/ \E i \in Positions : x \in b[i]
         /\ Emit(r, b).slots = r.slots /\ Emit(r, b).base = r.base
         /\ Emit(r, b).prev = r.prev /\ Emit(r, b).parity = r.parity
         /\ Emit(r, b).gs = r.gs
<1> DEFINE e == Emit(r, b)
<1>1. r.out \in Seq(Batches) BY Zenon DEF Receiver
<1>a. Append(r.out, b) \in Seq(Batches) BY <1>1
<1>2. /\ e \in Receiver /\ e.out = Append(r.out, b) /\ e.slots = r.slots
      /\ e.base = r.base /\ e.prev = r.prev /\ e.parity = r.parity /\ e.gs = r.gs
  BY <1>a, Zenon DEF Emit, Receiver
<1>3. /\ Len(e.out) = Len(r.out) + 1 /\ Len(r.out) \in Nat
      /\ e.out[Len(r.out) + 1] = b
      /\ \A k \in 1..Len(r.out) : e.out[k] = r.out[k]
  BY <1>1, <1>2
<1> HIDE DEF e
<1>4. ASSUME NEW x
      PROVE  Out(e, x) <=> Out(r, x) \/ \E i \in Positions : x \in b[i]
  <2>1. CASE Out(e, x)
    <3>1. PICK k \in 1..Len(e.out) : \E i \in Positions : x \in e.out[k][i]
      BY <2>1, Zenon DEF Out
    <3>2. CASE k = Len(r.out) + 1 BY <3>1, <3>2, <1>3, <2>1, Zenon
    <3>3. CASE k # Len(r.out) + 1
      <4>1. k \in 1..Len(r.out) BY <3>3, <1>3
      <4> QED BY <4>1, <3>1, <1>3, <2>1, Zenon DEF Out
    <3> QED BY <3>2, <3>3, Zenon
  <2>2. CASE Out(r, x)
    <3>1. PICK k \in 1..Len(r.out) : \E i \in Positions : x \in r.out[k][i]
      BY <2>2, Zenon DEF Out
    <3>2. k \in 1..Len(e.out) /\ e.out[k] = r.out[k] BY <1>3
    <3> QED BY <3>1, <3>2, <2>2, Zenon DEF Out
  <2>3. CASE \E i \in Positions : x \in b[i]
    <3>1. Len(r.out) + 1 \in 1..Len(e.out) BY <1>3
    <3> QED BY <3>1, <2>3, <1>3, Zenon DEF Out
  <2> QED BY <2>1, <2>2, <2>3, Zenon
<1> QED BY <1>2, <1>4, Zenon DEF e

(* The history stays genuine when what is emitted is.                      *)
LEMMA EmitGenuine ==
  ASSUME NEW r \in Receiver, NEW b \in Batches, NEW N, NEW s, Genuine(r, N, s),
         \A i \in Positions : \A p \in b[i] :
            ~p.fec /\ p.payload = {p.n} /\ p.n \in 0 .. N - 1
            /\ p.seq = WrappingAdd(s, p.n)
  PROVE  Genuine(Emit(r, b), N, s)
<1>1. r.out \in Seq(Batches) /\ Emit(r, b).out = Append(r.out, b)
  BY Zenon DEF Emit, Receiver
<1> QED BY <1>1 DEF Genuine

GenuinePacket(p, N, s) ==
  ~p.fec /\ p.payload = {p.n} /\ p.n \in 0 .. N - 1 /\ p.seq = WrappingAdd(s, p.n)

(* take_group emits everything it held and leaves an empty receiver.       *)
LEMMA TakeGroupInv ==
  ASSUME NEW r, NEW A, NEW N, NEW s, RxType(r), Genuine(r, N, s),
         \A i \in Positions : \A p \in r.slots[i] : GenuinePacket(p, N, s)
  PROVE  RxInv(TakeGroup(r), A, N, s) /\ Keeps(r, TakeGroup(r))
<1> DEFINE e == Emit(r, r.slots)
           t == TakeGroup(r)
<1>1. r \in Receiver /\ r.slots \in Batches BY Zenon DEF RxType, Receiver
<1>2. /\ e \in Receiver /\ e.base = r.base
      /\ \A x : Out(e, x) <=> Out(r, x) \/ \E i \in Positions : x \in r.slots[i]
  BY <1>1, EmitKeeps, Zenon
<1>3. Genuine(e, N, s) BY <1>1, EmitGenuine, Zenon DEF GenuinePacket
<1>4. NoSlots \in Batches BY Zenon DEF NoSlots, Batches
<1> HIDE DEF e
<1>5. /\ t \in Receiver /\ t.out = e.out /\ t.prev = r.base /\ t.base = {}
      /\ t.parity = {} /\ t.slots = NoSlots
  BY <1>1, <1>2, <1>4, Zenon DEF TakeGroup, Receiver, e
<1> HIDE DEF t
<1>6. \A i \in Positions : t.slots[i] = {} BY <1>5, Zenon DEF NoSlots
<1>7. RxType(t) BY <1>5, <1>6, Zenon DEF RxType, AtMostOne
<1>8. ReceiverInv(t, A) BY <1>5, <1>6, Zenon DEF ReceiverInv
<1>9. Genuine(t, N, s) BY <1>3, <1>5 DEF Genuine
<1>10. \A x : Out(t, x) <=> Out(e, x) BY <1>5, Zenon DEF Out
<1>11. Keeps(r, t) BY <1>2, <1>10, Zenon DEF Keeps, Held
<1> QED BY <1>7, <1>8, <1>9, <1>11, Zenon DEF RxInv, t

(* A packet held is one of those received, hence genuine.                  *)
LEMMA HeldGenuine ==
  ASSUME NEW r, NEW A, NEW N, NEW s, Given(A, N, s), ReceiverInv(r, A)
  PROVE  \A i \in Positions : \A p \in r.slots[i] : GenuinePacket(p, N, s)
BY Zenon DEF Given, ReceiverInv, PacketInv, GenuinePacket

(* flush keeps the invariant and loses no packet.                          *)
LEMMA FlushInv ==
  ASSUME NEW r, NEW A, NEW N, NEW s, Given(A, N, s), RxInv(r, A, N, s)
  PROVE  /\ RxInv(Flush(r), A, N, s) /\ Keeps(r, Flush(r))
         /\ Flush(r).base = {}
<1> DEFINE m == [r EXCEPT !.lost = @ + Cardinality(Missing(r))]
<1>1. CASE r.base = {}
  BY <1>1, Zenon DEF Flush, Keeps
<1>2. CASE r.base # {}
  <2>1. Flush(r) = TakeGroup(m) BY <1>2, Zenon DEF Flush
  <2>2. r \in Receiver /\ r.gs \in Nat BY FecAssumption DEF RxInv, RxType, Receiver
  <2>3. Cardinality(Missing(r)) \in Nat BY <2>2, CountMissing, Zenon DEF Given
  <2>4. /\ m \in Receiver /\ m.base = r.base /\ m.prev = r.prev /\ m.out = r.out
        /\ m.parity = r.parity /\ m.slots = r.slots
    BY <2>2, <2>3 DEF Receiver
  <2> HIDE DEF m
  <2>a. RxType(r) BY Zenon DEF RxInv
  <2>5. RxType(m) BY ONLY <2>4, <2>a, Zenon DEF RxType
  <2>b. Genuine(r, N, s) BY Zenon DEF RxInv
  <2>6. Genuine(m, N, s) BY ONLY <2>4, <2>b, Zenon DEF Genuine
  <2>7. \A i \in Positions : \A p \in m.slots[i] : GenuinePacket(p, N, s)
    BY <2>4, HeldGenuine, Zenon DEF RxInv
  <2>8. RxInv(TakeGroup(m), A, N, s) /\ Keeps(m, TakeGroup(m))
    BY <2>5, <2>6, <2>7, TakeGroupInv, Zenon
  <2>9. (\A x : Out(r, x) <=> Out(m, x)) /\ (\A x : Held(r, x) <=> Held(m, x))
    BY <2>4, Zenon DEF Out, Held
  <2>10. Keeps(r, TakeGroup(m)) BY <2>8, <2>9, Zenon DEF Keeps
  <2>11. TakeGroup(m).base = {}
    BY <2>4, <2>5, EmitKeeps, Zenon DEF TakeGroup, Receiver
  <2> QED BY <2>1, <2>8, <2>10, <2>11, Zenon
<1> QED BY <1>1, <1>2, Zenon

(* A nonempty set of positions has a first one.                            *)
LEMMA FirstOf ==
  ASSUME NEW S, S \subseteq Nat, S # {}, Counting
  PROVE  First(S) \in S /\ \A j \in S : First(S) <= j
<1>1. Leasts /\ S \in SUBSET Nat /\ S # {} BY Zenon DEF Counting
<1>2. \E x \in S : \A y \in S : x <= y BY ONLY <1>1, Zenon DEF Leasts
<1> QED BY ONLY <1>2, Zenon DEF First

(* The group of size gs from g on, with position idx the only empty one.   *)
OneMissing(slots, g, gs, idx) ==
  /\ g \in Nat /\ gs \in 2..MaxGroup /\ idx \in 0 .. gs - 1
  /\ \A i \in Positions : \A p \in slots[i] : p.payload = {g + i}
  /\ \A i \in Positions : slots[i] # {} <=> i \in 0 .. gs - 1 /\ i # idx

(* The datagrams of one base belong to one group of the sender.            *)
LEMMA SameGroup ==
  ASSUME NEW A, NEW N, NEW s, Given(A, N, s), NEW p \in A, NEW q \in A,
         p.gs > 0, q.gs > 0,
         WrappingSub(p.seq, IF p.fec THEN p.gs ELSE p.idx) =
           WrappingSub(q.seq, IF q.fec THEN q.gs ELSE q.idx)
  PROVE  /\ GroupStart(p) = GroupStart(q) /\ GroupStart(p) \in Nat /\ p.gs = q.gs
         /\ WrappingSub(p.seq, IF p.fec THEN p.gs ELSE p.idx)
              = WrappingAdd(s, GroupStart(p))
<1> DEFINE back(x) == IF x.fec THEN x.gs ELSE x.idx
<1>1. ASSUME NEW x \in A
      PROVE  /\ x.n \in U16 /\ back(x) \in Nat /\ back(x) <= x.n
             /\ x.n - back(x) \in U16
             /\ GroupStart(x) = x.n - back(x)
             /\ WrappingSub(x.seq, back(x)) = WrappingAdd(s, x.n - back(x))
  <2>1. x \in Packet /\ x.n \in 0 .. N - 1 /\ x.seq = WrappingAdd(s, x.n)
    BY Zenon DEF Given, PacketInv
  <2>2. x.n \in U16 BY <2>1, FecAssumption DEF Given, U16
  <2>3. back(x) \in Nat BY <2>1, FecAssumption DEF Packet, Positions
  <2>4. back(x) <= x.n BY Zenon DEF Given, PacketInv
  <2>5. GroupStart(x) = x.n - back(x) BY Zenon DEF GroupStart
  <2>6. x.n - back(x) \in U16 BY <2>2, <2>3, <2>4, FecAssumption DEF U16
  <2> HIDE DEF back
  <2>7. WrappingSub(x.seq, back(x)) = WrappingAdd(s, x.n - back(x))
    BY <2>1, <2>2, <2>3, <2>4, WrapBase, Zenon DEF Given
  <2> QED BY <2>2, <2>3, <2>4, <2>5, <2>6, <2>7, Zenon
<1>2. WrappingSub(p.seq, back(p)) = WrappingSub(q.seq, back(q)) BY Zenon
<1> HIDE DEF back
<1>3. p.n - back(p) = q.n - back(q)
  BY <1>1, <1>2, WrapInjective, Zenon DEF Given
<1>4. GroupStart(p) = GroupStart(q) BY <1>1, <1>3, Zenon
<1>5. p.gs = q.gs BY <1>4, Zenon DEF Given, PacketInv
<1>6. GroupStart(p) \in Nat BY <1>1, FecAssumption DEF U16
<1>7. WrappingSub(p.seq, back(p)) = WrappingAdd(s, GroupStart(p)) BY <1>1, Zenon
<1> QED BY <1>4, <1>5, <1>6, <1>7, Zenon DEF back

(* What try_complete puts into the empty position is the packet sent.      *)
LEMMA SynthesizeGenuine ==
  \A r, A, N, s, idx : \A x \in r.parity :
    Given(A, N, s) /\ RxInv(r, A, N, s) /\ Missing(r) = {idx} =>
      LET p == Synthesize(r, idx, XorAll(x, r.slots))
      IN p \in Packet /\ GenuinePacket(p, N, s)
(* A group start plus a position is the member's sequence number.          *)
<1>WrapMember.
  ASSUME NEW s \in U16, NEW a \in U16, NEW i \in Nat, a + i < SeqMod
  PROVE  WrappingAdd(WrappingAdd(s, a), i) = WrappingAdd(s, a + i)
  BY <1>WrapMember, FecAssumption DEF U16, WrappingAdd
(* XOR of the parity with every packet received leaves the missing one.    *)
<1>XorRecovers.
  ASSUME NEW slots, NEW g, NEW gs, NEW idx, OneMissing(slots, g, gs, idx), Counting
  PROVE  XorAll(g .. g + gs - 1, slots) = {g + idx}
  <2> USE <1>XorRecovers
  <2> USE DEF OneMissing
  <2> DEFINE in(x) == {i \in Positions : \E p \in slots[i] : x \in p.payload}
             par == g .. g + gs - 1
             all == par \cup UNION {p.payload : p \in UNION {slots[i] : i \in Positions}}
  <2>0. idx \in Positions /\ 0 .. gs - 1 \subseteq Positions
    BY FecAssumption DEF Positions
  <2>1. in(g + idx) = {} BY <2>0 DEF Positions
  <2>2. ASSUME NEW i \in 0 .. gs - 1, i # idx PROVE in(g + i) = {i}
    <3>1. i \in Positions BY <2>0, Zenon
    <3>2. PICK p \in slots[i] : p.payload = {g + i} BY <2>2, <3>1, Zenon
    <3>3. i \in in(g + i) BY <3>1, <3>2, Zenon
    <3>4. ASSUME NEW j \in in(g + i) PROVE j = i BY FecAssumption DEF Positions
    <3> QED BY ZenonT(60), <3>3, <3>4
  <2>3. (Cardinality({}) % 2 = 1) = FALSE /\ \A i : (Cardinality({i}) % 2 = 1) = TRUE
    <3>1. 0 % 2 # 1 /\ 1 % 2 = 1 OBVIOUS
    <3>2. Cardinality({}) = 0 /\ \A i : Cardinality({i}) = 1 BY Zenon DEF Counting, Alone
    <3> QED BY <3>1, <3>2, Zenon
  <2>4. ASSUME NEW x \in all PROVE x \in par
    <3>1. CASE x \in par BY <3>1, Zenon
    <3>2. CASE x \in UNION {p.payload : p \in UNION {slots[i] : i \in Positions}}
      <4>1. PICK i \in Positions : \E p \in slots[i] : x \in p.payload BY <3>2
      <4>2. x = g + i /\ i \in 0 .. gs - 1 BY <4>1, ZenonT(40)
      <4> QED BY <4>2
    <3> QED BY <3>1, <3>2, Zenon
  <2>5. ASSUME NEW x \in par
        PROVE  ((x \in par) # (Cardinality(in(x)) % 2 = 1)) <=> x = g + idx
    <3>1. PICK i \in 0 .. gs - 1 : x = g + i
      <4>1. x - g \in 0 .. gs - 1 /\ x = g + (x - g) OBVIOUS
      <4> QED BY <4>1, Zenon
    <3>2. CASE i = idx BY <2>1, <2>3, <3>1, <3>2, Zenon
    <3>3. CASE i # idx
      <4>1. in(x) = {i} BY <2>2, <3>1, <3>3, Zenon
      <4> HIDE DEF in
      <4>a. Cardinality(in(x)) = 1
        <5>1. Alone(i) BY Zenon DEF Counting
        <5> QED BY ONLY <4>1, <5>1, Zenon DEF Alone
      <4>2. (Cardinality(in(x)) % 2 = 1) = TRUE BY <4>a
      <4>3. x # g + idx BY <3>1, <3>3
      <4> QED BY <4>2, <4>3, Zenon
    <3> QED BY <3>2, <3>3, Zenon
  <2>6. g + idx \in par OBVIOUS
  <2>7. XorAll(par, slots) = {x \in all : (x \in par) # (Cardinality(in(x)) % 2 = 1)}
    BY Zenon DEF XorAll
  <2> HIDE DEF in, par, all
  <2>8. par \subseteq all BY Zenon DEF all
  <2> QED BY <2>4, <2>5, <2>6, <2>7, <2>8 DEF par
(* A group whose only missing packet the parity gives back: what is known  *)
(* of it in terms of the sender's numbers.                                 *)
<1>GroupShape.
  ASSUME NEW r, NEW A, NEW N, NEW s, Given(A, N, s), RxInv(r, A, N, s),
         NEW x \in r.parity
  PROVE  \E g \in Nat :
           /\ r.base = {WrappingAdd(s, g)} /\ g + r.gs < N
           /\ x = g .. g + r.gs - 1
           /\ \A i \in Positions : \A p \in r.slots[i] :
                 p.n = g + i /\ p.payload = {g + i}
  <2> USE <1>GroupShape
  <2>1. PICK q \in A : q.fec /\ q.payload = x /\ r.base = {WrappingSub(q.seq, q.gs)}
    BY Zenon DEF RxInv, ReceiverInv
  <2>a. PICK i \in Positions : r.slots[i] # {}
    BY <2>1, Zenon DEF RxInv, ReceiverInv
  <2>2. PICK p \in r.slots[i] : TRUE BY <2>a, Zenon
  <2>3. /\ p \in A /\ ~p.fec /\ p.gs = r.gs /\ p.idx = i /\ r.gs >= 2
        /\ r.base = {WrappingSub(p.seq, i)}
    BY <2>1, <2>2, Zenon DEF RxInv, ReceiverInv
  <2>4. q.gs >= 2 /\ q.gs <= q.n /\ q.payload = q.n - q.gs .. q.n - 1 /\ q.n \in 0 .. N - 1
    BY <2>1, Zenon DEF Given, PacketInv
  <2>5. q \in Packet /\ p \in Packet BY <2>1, <2>3, Zenon DEF Given
  <2>6. /\ q.gs = r.gs /\ GroupStart(q) \in Nat
        /\ WrappingSub(q.seq, q.gs) = WrappingAdd(s, GroupStart(q))
    <3>1. q.gs > 0 /\ p.gs > 0 BY <2>3, <2>4, <2>5, FecAssumption DEF Packet
    <3>2. WrappingSub(q.seq, q.gs) = WrappingSub(p.seq, p.idx) BY <2>1, <2>3, Zenon
    <3> QED BY <3>1, <3>2, <2>1, <2>3, SameGroup
  <2>7. GroupStart(q) = q.n - q.gs BY <2>1, Zenon DEF GroupStart
  <2>8. ASSUME NEW j \in Positions, NEW h \in r.slots[j]
        PROVE  h.n = GroupStart(q) + j /\ h.payload = {GroupStart(q) + j}
    <3>1. /\ h \in A /\ ~h.fec /\ h.idx = j /\ h.gs = r.gs
          /\ r.base = {WrappingSub(h.seq, j)}
      BY Zenon DEF RxInv, ReceiverInv
    <3>2. WrappingSub(q.seq, q.gs) = WrappingSub(h.seq, h.idx) BY <2>1, <3>1, Zenon
    <3>3. q.gs > 0 /\ h.gs > 0 BY <2>3, <2>4, <3>1, <2>5, FecAssumption DEF Packet
    <3>4. GroupStart(q) = GroupStart(h) BY <3>1, <3>2, <3>3, <2>1, SameGroup
    <3>5. GroupStart(h) = h.n - j BY <3>1, Zenon DEF GroupStart
    <3>6. h.payload = {h.n} /\ h.n \in Int BY <3>1 DEF Given, PacketInv
    <3>7. h.n = GroupStart(q) + j BY <3>4, <3>5, <3>6, FecAssumption DEF Positions
    <3> QED BY <3>6, <3>7, Zenon
  <2>9. /\ GroupStart(q) + r.gs < N
        /\ x = GroupStart(q) .. GroupStart(q) + r.gs - 1
    BY <2>1, <2>4, <2>5, <2>6, <2>7, FecAssumption DEF Packet, Given
  <2> QED BY <2>1, <2>6, <2>8, <2>9, Zenon
<1>SynthesizeGenuine.
  ASSUME NEW r, NEW A, NEW N, NEW s, Given(A, N, s), RxInv(r, A, N, s),
         NEW x \in r.parity, NEW idx, Missing(r) = {idx}
  PROVE  LET p == Synthesize(r, idx, XorAll(x, r.slots))
         IN p \in Packet /\ GenuinePacket(p, N, s)
  <2> USE <1>SynthesizeGenuine
  <2> DEFINE p == Synthesize(r, idx, XorAll(x, r.slots))
             i0 == First(Known(r))
             h0 == CHOOSE h \in r.slots[i0] : TRUE
             i1 == First(Known(r) \ {i0})
             h1 == CHOOSE h \in r.slots[i1] : TRUE
             step == (h1.pts - h0.pts) \div (i1 - i0)
             b == CHOOSE y \in r.base : TRUE
             time == IF Known(r) = {i0} THEN h0.pts ELSE h0.pts + step * (idx - i0)
  <2>1. PICK g \in Nat :
          /\ r.base = {WrappingAdd(s, g)} /\ g + r.gs < N
          /\ x = g .. g + r.gs - 1
          /\ \A i \in Positions : \A h \in r.slots[i] : h.n = g + i /\ h.payload = {g + i}
    BY <1>GroupShape
  <2>2. /\ r \in Receiver /\ r.gs \in 2..MaxGroup /\ N \in 0..MaxPackets /\ s \in U16
        /\ \A i \in Positions : r.slots[i] \subseteq Packet
    <3>1. r \in Receiver BY Zenon DEF RxInv, RxType
    <3>2. r.gs \in 2..MaxGroup BY <3>1, <2>1, FecAssumption DEF RxInv, ReceiverInv, Receiver
    <3>3. \A i \in Positions : r.slots[i] \subseteq Packet BY <3>1, Zenon DEF Receiver, Batches
    <3> QED BY <3>1, <3>2, <3>3, Zenon DEF Given
  <2>3. idx \in 0 .. r.gs - 1 /\ r.slots[idx] = {} BY Zenon DEF Missing
  <2>4. 0 .. r.gs - 1 \subseteq Positions BY <2>2, FecAssumption DEF Positions
  <2>5. \A i \in Positions : r.slots[i] # {} <=> i \in 0 .. r.gs - 1 /\ i # idx
    <3>1. \A i \in Positions : r.slots[i] # {} => i < r.gs
      BY Zenon DEF RxInv, ReceiverInv
    <3>2. ASSUME NEW i \in Positions
          PROVE  r.slots[i] # {} <=> i \in 0 .. r.gs - 1 /\ i # idx
      <4>1. i \in Nat BY FecAssumption DEF Positions
      <4>2. i \in 0 .. r.gs - 1 => (r.slots[i] = {} <=> i = idx) BY Zenon DEF Missing
      <4>3. r.gs \in Nat BY <2>2
      <4>4. r.slots[i] # {} => i < r.gs BY <3>1, Zenon
      <4>5. r.slots[i] # {} => i \in 0 .. r.gs - 1 BY <4>1, <4>3, <4>4
      <4> QED BY <4>2, <4>5, Zenon
    <3> QED BY <3>2, Zenon
  <2>6. XorAll(x, r.slots) = {g + idx}
    <3>1. \A i \in Positions : \A h \in r.slots[i] : h.payload = {g + i} BY <2>1, Zenon
    <3>2. XorAll(g .. g + r.gs - 1, r.slots) = {g + idx}
      <4>1. OneMissing(r.slots, g, r.gs, idx)
        BY <3>1, <2>2, <2>3, <2>5, Zenon DEF OneMissing
      <4>2. Counting BY Zenon DEF Given
      <4> QED BY <4>1, <4>2, <1>XorRecovers
    <3> QED BY <3>2, <2>1, Zenon
  <2>7. Known(r) \subseteq 0 .. r.gs - 1 /\ Known(r) = (0 .. r.gs - 1) \ {idx} /\ Known(r) # {}
    <3>1. Known(r) = (0 .. r.gs - 1) \ {idx} BY <2>4, <2>5, Zenon DEF Known
    <3>2. 0 \in Known(r) \/ 1 \in Known(r) BY <3>1, <2>2
    <3> QED BY <3>1, <3>2, Zenon
  <2>8. i0 \in Known(r) /\ \A j \in Known(r) : i0 <= j
    BY <2>7, FirstOf DEF Given
  <2>9. h0 \in r.slots[i0] /\ h0 \in Packet /\ h0.n = g + i0 /\ i0 \in 0 .. r.gs - 1
    <3>1. r.slots[i0] # {} /\ i0 \in 0 .. r.gs - 1 BY <2>8, Zenon DEF Known
    <3>2. h0 \in r.slots[i0] BY <3>1, Zenon
    <3> HIDE DEF h0
    <3> QED BY <3>1, <3>2, <2>1, <2>2, <2>4, Zenon
  <2>10. time \in Int
    <3>1. CASE Known(r) = {i0} BY <3>1, <2>9, Zenon DEF Packet
    <3>2. CASE Known(r) # {i0}
      <4>1. Known(r) \ {i0} # {} /\ Known(r) \ {i0} \subseteq Nat BY <3>2, <2>8, <2>7
      <4>2. i1 \in Known(r) \ {i0} BY <4>1, FirstOf, Zenon DEF Given
      <4>a. i1 \in Known(r) /\ i1 # i0 /\ i0 \in Nat /\ i0 <= i1 BY <4>2, <2>8, <2>9
      <4>b. r.slots[i1] # {} /\ i1 \in 0 .. r.gs - 1 BY <4>a, Zenon DEF Known
      <4>3. r.slots[i1] # {} /\ i1 \in 0 .. r.gs - 1 /\ i0 < i1
        <5> HIDE DEF i0, i1
        <5> QED BY <4>a, <4>b, <2>2
      <4>4. h1 \in r.slots[i1] BY <4>3, Zenon
      <4> HIDE DEF h1, h0, i0, i1
      <4>5. h1 \in Packet BY <4>3, <4>4, <2>2, <2>4, Zenon
      <4>6. h1.pts - h0.pts \in Int /\ i1 - i0 \in Nat \ {0} /\ h0.pts \in Int
        BY <4>3, <4>5, <2>9 DEF Packet
      <4>7. step \in Int BY <4>6
      <4> HIDE DEF step
      <4>8. step * (idx - i0) \in Int BY <4>7, <2>3, <2>9
      <4> QED BY <3>2, <4>6, <4>8
    <3> QED BY <3>1, <3>2, Zenon
  <2>11. b = WrappingAdd(s, g) BY <2>1, Zenon
  <2>12. /\ g \in U16 /\ g + idx < SeqMod /\ g + idx \in 0 .. N - 1
         /\ WrappingAdd(b, idx) = WrappingAdd(s, g + idx)
         /\ WrappingAdd(s, g + idx) \in U16
    <3>1. g \in U16 /\ g + idx \in U16 /\ g + idx < SeqMod /\ g + idx \in 0 .. N - 1 /\ idx \in Nat
      BY <2>1, <2>2, <2>3, FecAssumption DEF U16
    <3>2. WrappingAdd(WrappingAdd(s, g), idx) = WrappingAdd(s, g + idx)
      BY <3>1, <2>2, <1>WrapMember, Zenon
    <3>3. WrappingAdd(s, g + idx) \in U16 BY <3>1, <2>2, WrapType, Zenon
    <3> HIDE DEF b
    <3> QED BY <3>1, <3>2, <3>3, <2>11, Zenon
  <2>13. p = [fec |-> FALSE, seq |-> WrappingAdd(b, idx), gs |-> r.gs, idx |-> idx,
              last |-> FALSE, payload |-> XorAll(x, r.slots), pts |-> time,
              n |-> h0.n + (idx - i0)]
    BY Zenon DEF Synthesize
  <2> HIDE DEF p, h0, time, b, i0
  <2>14. h0.n + (idx - i0) = g + idx BY <2>9, <2>3
  <2>15. p = [fec |-> FALSE, seq |-> WrappingAdd(s, g + idx), gs |-> r.gs, idx |-> idx,
              last |-> FALSE, payload |-> {g + idx}, pts |-> time, n |-> g + idx]
    BY <2>13, <2>12, <2>14, <2>6, Zenon
  <2>16. p \in Packet
    BY <2>15, <2>12, <2>10, <2>2, <2>3, <2>4, FecAssumption DEF Packet
  <2>17. GenuinePacket(p, N, s) BY <2>15, <2>12, Zenon DEF GenuinePacket
  <2> QED BY <2>16, <2>17, Zenon DEF p
<1> QED BY ONLY <1>SynthesizeGenuine

(* Keeping packets composes.                                               *)
LEMMA KeepsTrans ==
  ASSUME NEW r, NEW t, NEW u, Keeps(r, t), Keeps(t, u)
  PROVE  Keeps(r, u)
BY Zenon DEF Keeps

(* Storing a packet of the group in progress: what it overwrites, if       *)
(* anything, is the same packet received before.                           *)
LEMMA StoreSame ==
  ASSUME NEW r, NEW A, NEW N, NEW s, Given(A, N, s), RxInv(r, A, N, s),
         NEW p \in A, ~p.fec, p.gs > 0, r.base = {WrappingSub(p.seq, p.idx)}
  PROVE  RxInv(Store(r, p), A, N, s) /\ Keeps(r, Store(r, p)) /\ Held(Store(r, p), p)
<1>1. r \in Receiver /\ p \in Packet /\ p.idx \in Positions
  BY Zenon DEF RxInv, RxType, Given, Packet
<1>2. ASSUME NEW i \in Positions, NEW h \in r.slots[i]
      PROVE  h \in A /\ ~h.fec /\ h.idx = i /\ h.gs = r.gs /\ h.gs = p.gs
             /\ GroupStart(h) = GroupStart(p)
  <2>1. /\ h \in A /\ ~h.fec /\ h.idx = i /\ h.gs = r.gs
        /\ r.base = {WrappingSub(h.seq, i)} /\ r.gs >= 2
    <3>1. ReceiverInv(r, A) /\ r.base # {} BY Zenon DEF RxInv
    <3>2. i \in Positions /\ h \in r.slots[i] OBVIOUS
    <3> QED BY ONLY <3>1, <3>2, Zenon DEF ReceiverInv
  <2>2. WrappingSub(h.seq, h.idx) = WrappingSub(p.seq, p.idx) BY <2>1, Zenon
  <2>3. h.gs > 0 BY <2>1, <1>1, FecAssumption DEF Receiver
  <2> QED BY SMTT(60), <2>1, <2>2, <2>3, SameGroup
<1>3. p.gs = r.gs /\ p.idx < r.gs
  <2>1. PICK i \in Positions : r.slots[i] # {} BY Zenon DEF RxInv, ReceiverInv
  <2>2. p.gs = r.gs BY <2>1, <1>2, Zenon
  <2>3. p.idx < p.gs BY <1>1, FecAssumption DEF Given, PacketInv, Packet
  <2> QED BY <2>2, <2>3, Zenon
<1> DEFINE t == [r EXCEPT !.slots[p.idx] = {p}]
<1>4. Store(r, p) = t BY <1>3, Zenon DEF Store
<1>5. /\ t \in Receiver /\ t.base = r.base /\ t.prev = r.prev /\ t.out = r.out
      /\ t.gs = r.gs /\ t.parity = r.parity
      /\ t.slots = [r.slots EXCEPT ![p.idx] = {p}]
  <2>1. [r.slots EXCEPT ![p.idx] = {p}] \in Batches
    BY <1>1, Zenon DEF Receiver, Batches
  <2> QED BY <2>1, <1>1, Zenon DEF Receiver
<1> HIDE DEF t
<1>6. \A i \in Positions : t.slots[i] = IF i = p.idx THEN {p} ELSE r.slots[i]
  BY <1>1, <1>5, Zenon DEF Receiver, Batches
<1>7. RxType(t) BY <1>5, <1>6 DEF RxInv, RxType, AtMostOne
<1>8. ReceiverInv(t, A)
  <2>1. t.base # {} /\ t.gs >= 2 /\ t.slots[p.idx] # {}
    BY <1>1, <1>5, <1>6 DEF RxInv, ReceiverInv
  <2>2. ASSUME NEW i \in Positions, NEW h \in t.slots[i]
        PROVE  /\ h \in A /\ ~h.fec /\ h.idx = i /\ h.gs = t.gs /\ i < t.gs
               /\ t.base = {WrappingSub(h.seq, i)}
    <3>1. CASE i = p.idx
      <4>1. h = p BY <3>1, <1>6, Zenon
      <4>2. p \in A /\ ~p.fec /\ r.base = {WrappingSub(p.seq, p.idx)} OBVIOUS
      <4> QED BY ONLY <1>3, <1>5, <3>1, <4>1, <4>2, Zenon
    <3>2. CASE i # p.idx BY <3>2, <1>5, <1>6 DEF RxInv, ReceiverInv
    <3> QED BY <3>1, <3>2, Zenon
  <2>3. \A x \in t.parity : \E q \in A :
           q.fec /\ q.payload = x /\ t.base = {WrappingSub(q.seq, q.gs)}
    BY <1>5 DEF RxInv, ReceiverInv
  <2> QED BY <2>1, <2>2, <2>3, <1>1, Zenon DEF ReceiverInv
<1>9. Genuine(t, N, s) BY <1>5 DEF RxInv, Genuine
<1>10. ASSUME NEW x, Held(r, x) PROVE Held(t, x)
  <2>1. PICK i \in Positions : x \in r.slots[i] BY <1>10, Zenon DEF Held
  <2>2. CASE i = p.idx
    <3>1. x \in A /\ ~x.fec /\ x.idx = i /\ GroupStart(x) = GroupStart(p) BY <2>1, <1>2, Zenon
    <3>2. x.n \in Int /\ p.n \in Int /\ i \in Int
      BY <3>1, <2>1, FecAssumption DEF Given, PacketInv, Positions
    <3>3. x.n = p.n BY <3>1, <3>2, <2>2 DEF GroupStart
    <3>4. x = p BY <3>1, <3>3, Zenon DEF Given, PacketInv
    <3> QED BY <3>4, <1>1, <1>6, Zenon DEF Held
  <2>3. CASE i # p.idx BY <2>1, <2>3, <1>6, Zenon DEF Held
  <2> QED BY <2>2, <2>3, Zenon
<1>11. Keeps(r, t) BY <1>5, <1>10, Zenon DEF Keeps, Out
<1>12. Held(t, p) BY <1>1, <1>6, Zenon DEF Held
<1> QED BY <1>4, <1>7, <1>8, <1>9, <1>11, <1>12, Zenon DEF RxInv

(* A packet of another group: the group in progress is flushed first.      *)
LEMMA StoreFresh ==
  ASSUME NEW r, NEW A, NEW N, NEW s, Given(A, N, s), RxInv(r, A, N, s),
         NEW p \in A, ~p.fec, p.gs > 0
  PROVE  LET t == Store(StartGroup(r, WrappingSub(p.seq, p.idx), p.gs), p)
         IN RxInv(t, A, N, s) /\ Keeps(r, t) /\ Held(t, p)
<1> DEFINE b == WrappingSub(p.seq, p.idx)
           f == Flush(r)
           u == StartGroup(r, b, p.gs)
           t == [u EXCEPT !.slots[p.idx] = {p}]
<1>1. RxInv(f, A, N, s) /\ Keeps(r, f) /\ f.base = {} BY FlushInv, Zenon
<1> HIDE DEF f
<1>2. f \in Receiver /\ \A x : ~Held(f, x)
  <2>1. f \in Receiver /\ f.slots = NoSlots BY <1>1, Zenon DEF RxInv, RxType, ReceiverInv
  <2> QED BY <2>1, Zenon DEF Held, NoSlots
<1>3. /\ p \in Packet /\ p.idx \in Positions /\ p.gs \in 0..MaxGroup /\ p.seq \in U16
      /\ p.gs >= 2 /\ p.idx < p.gs
  <2>1. p \in Packet BY Zenon DEF Given
  <2>2. p.gs \in Nat BY <2>1, FecAssumption DEF Packet
  <2> QED BY <2>1, <2>2 DEF Given, Packet, PacketInv
<1>4. b \in U16
  <2>1. p.idx \in U16 BY <1>3, FecAssumption DEF Positions, U16
  <2> QED BY <2>1, <1>3, WrapType, Zenon
<1> HIDE DEF b
<1>5. /\ u \in Receiver /\ u.base = {b} /\ u.prev = f.prev /\ u.out = f.out
      /\ u.gs = p.gs /\ u.parity = {} /\ u.slots = NoSlots
  <2>1. NoSlots \in Batches BY Zenon DEF NoSlots, Batches
  <2> QED BY <2>1, <1>2, <1>3, <1>4, Zenon DEF StartGroup, f, Receiver
<1> HIDE DEF u
<1>6. Store(u, p) = t BY <1>3, <1>5, Zenon DEF Store
<1>7. /\ t \in Receiver /\ t.base = {b} /\ t.prev = f.prev /\ t.out = f.out
      /\ t.gs = p.gs /\ t.parity = {}
      /\ t.slots = [NoSlots EXCEPT ![p.idx] = {p}]
  <2>1. [NoSlots EXCEPT ![p.idx] = {p}] \in Batches
    BY <1>3, Zenon DEF NoSlots, Batches
  <2> QED BY <2>1, <1>5, Zenon DEF Receiver
<1> HIDE DEF t
<1>8. \A i \in Positions : t.slots[i] = IF i = p.idx THEN {p} ELSE {}
  BY <1>3, <1>7, Zenon DEF NoSlots
<1>9. RxType(t)
  <2>1. AtMostOne(f.prev) BY <1>1, Zenon DEF RxInv, RxType
  <2> QED BY <2>1, <1>7, <1>8 DEF RxType, AtMostOne
<1>10. ReceiverInv(t, A) BY <1>3, <1>7, <1>8 DEF ReceiverInv, b
<1>11. Genuine(t, N, s) BY <1>1, <1>7 DEF RxInv, Genuine
<1>12. Keeps(f, t) BY <1>2, <1>7, Zenon DEF Keeps, Out
<1>13. Held(t, p) BY <1>3, <1>8, Zenon DEF Held
<1>14. Keeps(r, t) BY <1>1, <1>12, KeepsTrans, Zenon
<1> QED BY <1>6, <1>9, <1>10, <1>11, <1>13, <1>14, Zenon DEF RxInv, u, b

(* One turn of audio_receive_loop.                                         *)
LEMMA ReceiveInv ==
  \A r, A, N, s : \A p \in A :
    Given(A, N, s) /\ RxInv(r, A, N, s) =>
      /\ RxInv(ReceiveOf(r, p), A, N, s) /\ Keeps(r, ReceiveOf(r, p))
      /\ p.fec \/ Out(ReceiveOf(r, p), p) \/ Held(ReceiveOf(r, p), p)
(* try_complete keeps the invariant and loses no packet.                   *)
<1>TryCompleteInv.
  ASSUME NEW r, NEW A, NEW N, NEW s, Given(A, N, s), RxInv(r, A, N, s)
  PROVE  RxInv(TryComplete(r), A, N, s) /\ Keeps(r, TryComplete(r))
  <2> USE <1>TryCompleteInv
  <2>0. /\ RxType(r) /\ Genuine(r, N, s) /\ r \in Receiver
        /\ \A i \in Positions : \A p \in r.slots[i] : GenuinePacket(p, N, s)
    BY HeldGenuine, Zenon DEF RxInv, RxType
  <2>1. CASE Missing(r) = {}
    <3>1. TryComplete(r) = TakeGroup(r) BY <2>1, Zenon DEF TryComplete
    <3> QED BY <2>0, <3>1, TakeGroupInv, Zenon
  <2>2. CASE Missing(r) # {} /\ r.parity # {} /\ Cardinality(Missing(r)) = 1
    <3> DEFINE idx == CHOOSE i \in Missing(r) : TRUE
               x == CHOOSE y \in r.parity : TRUE
               p == Synthesize(r, idx, XorAll(x, r.slots))
               m == [r EXCEPT !.slots[idx] = {p}, !.recovered = @ + 1]
    <3>1. TryComplete(r) = TakeGroup(m) BY <2>2, Zenon DEF TryComplete
    <3>2. r.gs \in Nat /\ r.gs <= MaxGroup BY <2>0, FecAssumption DEF Receiver
    <3>3. Missing(r) = {idx}
      <4>1. \E y : Missing(r) = {y} BY <2>2, <3>2, CountMissing, Zenon DEF Given
      <4> QED BY <4>1, Zenon
    <3>4. x \in r.parity BY <2>2, Zenon
    <3> HIDE DEF idx, x
    <3>5. p \in Packet /\ GenuinePacket(p, N, s)
      BY <3>3, <3>4, SynthesizeGenuine, Zenon
    <3>6. idx \in Positions /\ r.slots[idx] = {}
      BY <3>2, <3>3, FecAssumption DEF Missing, Positions
    <3> HIDE DEF p
    <3>7. /\ m \in Receiver /\ m.base = r.base /\ m.prev = r.prev /\ m.out = r.out
          /\ m.parity = r.parity /\ m.slots = [r.slots EXCEPT ![idx] = {p}]
      <4>1. r.slots \in Batches /\ r.recovered + 1 \in Nat BY <2>0 DEF Receiver
      <4>2. [r.slots EXCEPT ![idx] = {p}] \in Batches
        BY <4>1, <3>5, <3>6, Zenon DEF Batches
      <4> QED BY <2>0, <4>1, <4>2, Zenon DEF Receiver
    <3> HIDE DEF m
    <3>8. \A i \in Positions : m.slots[i] = IF i = idx THEN {p} ELSE r.slots[i]
      BY <2>0, <3>7, Zenon DEF Receiver, Batches
    <3>9. RxType(m) BY <2>0, <3>7, <3>8, ZenonT(40) DEF RxType, AtMostOne
    <3>10. Genuine(m, N, s) BY <2>0, <3>7 DEF Genuine
    <3>11. \A i \in Positions : \A h \in m.slots[i] : GenuinePacket(h, N, s)
      BY <2>0, <3>5, <3>8, Zenon
    <3>12. RxInv(TakeGroup(m), A, N, s) /\ Keeps(m, TakeGroup(m))
      BY <3>9, <3>10, <3>11, TakeGroupInv, Zenon
    <3>13. \A y : Out(r, y) <=> Out(m, y) BY <3>7, Zenon DEF Out
    <3>14. \A y : Held(r, y) => Held(m, y) BY <3>6, <3>8, Zenon DEF Held
    <3>15. Keeps(r, TakeGroup(m)) BY <3>12, <3>13, <3>14, Zenon DEF Keeps
    <3> QED BY <3>1, <3>12, <3>15, Zenon
  <2>3. CASE Missing(r) # {} /\ ~(r.parity # {} /\ Cardinality(Missing(r)) = 1)
    <3>1. TryComplete(r) = r BY <2>3, Zenon DEF TryComplete
    <3> QED BY <3>1, Zenon DEF Keeps
  <2> QED BY <2>1, <2>2, <2>3, Zenon
(* A packet emitted on its own.                                            *)
<1>EmitSingle.
  ASSUME NEW r, NEW A, NEW N, NEW s, Given(A, N, s), RxInv(r, A, N, s),
         NEW p \in A, ~p.fec
  PROVE  /\ RxInv(Emit(r, Single(p)), A, N, s) /\ Keeps(r, Emit(r, Single(p)))
         /\ Out(Emit(r, Single(p)), p)
  <2> USE <1>EmitSingle
  <2> DEFINE e == Emit(r, Single(p))
  <2>1. r \in Receiver /\ p \in Packet /\ p.idx \in Positions
    BY Zenon DEF RxInv, RxType, Given, Packet
  <2>2. /\ Single(p) \in Batches /\ p \in Single(p)[p.idx]
        /\ \A i \in Positions : Single(p)[i] \subseteq {p}
    BY <2>1, Zenon DEF Single, Batches
  <2>3. /\ e \in Receiver /\ e.slots = r.slots /\ e.base = r.base /\ e.prev = r.prev
        /\ e.parity = r.parity /\ e.gs = r.gs
        /\ \A x : Out(e, x) <=> Out(r, x) \/ \E i \in Positions : x \in Single(p)[i]
    BY <2>1, <2>2, EmitKeeps, Zenon
  <2>4. Genuine(e, N, s)
    <3>1. GenuinePacket(p, N, s) BY Zenon DEF Given, PacketInv, GenuinePacket
    <3> QED BY <3>1, <2>1, <2>2, EmitGenuine, Zenon DEF RxInv, GenuinePacket
  <2> HIDE DEF e
  <2>5. RxType(e) BY <2>3, Zenon DEF RxInv, RxType
  <2>6. ReceiverInv(e, A) BY SMTT(60), <2>3 DEF RxInv, ReceiverInv
  <2>7. Keeps(r, e) BY <2>3, Zenon DEF Keeps, Held
  <2>8. Out(e, p) BY <2>1, <2>2, <2>3, Zenon
  <2> QED BY <2>4, <2>5, <2>6, <2>7, <2>8, Zenon DEF RxInv, e
(* A parity packet is kept for its own group only, and loses no packet.    *)
<1>FeedParityInv.
  ASSUME NEW r, NEW A, NEW N, NEW s, Given(A, N, s), RxInv(r, A, N, s),
         NEW p \in A, p.fec
  PROVE  RxInv(FeedParity(r, p), A, N, s) /\ Keeps(r, FeedParity(r, p))
  <2> USE <1>FeedParityInv
  <2> DEFINE m == [r EXCEPT !.parity = {p.payload}]
  <2>1. CASE r.base = {WrappingSub(p.seq, p.gs)}
    <3>1. FeedParity(r, p) = TryComplete(m) BY <2>1, Zenon DEF FeedParity
    <3>2. r \in Receiver /\ p.payload \in SUBSET Nat
      BY Zenon DEF RxInv, RxType, Given, Packet
    <3>3. /\ m \in Receiver /\ m.base = r.base /\ m.prev = r.prev /\ m.out = r.out
          /\ m.slots = r.slots /\ m.gs = r.gs /\ m.parity = {p.payload}
      BY <3>2, Zenon DEF Receiver
    <3> HIDE DEF m
    <3>4. RxType(m) BY <3>3, Zenon DEF RxInv, RxType, AtMostOne
    <3>5. ReceiverInv(m, A) BY SMTT(60), <3>3, <2>1 DEF RxInv, ReceiverInv
    <3>6. Genuine(m, N, s) BY <3>3 DEF RxInv, Genuine
    <3>7. RxInv(TryComplete(m), A, N, s) /\ Keeps(m, TryComplete(m))
      BY <3>4, <3>5, <3>6, <1>TryCompleteInv, Zenon DEF RxInv
    <3>8. Keeps(r, m) BY <3>3, Zenon DEF Keeps, Held, Out
    <3> QED BY <3>1, <3>7, <3>8, KeepsTrans, Zenon
  <2>2. CASE r.base # {WrappingSub(p.seq, p.gs)}
    BY <2>2, Zenon DEF FeedParity, Keeps
  <2> QED BY <2>1, <2>2, Zenon
(* feed keeps the invariant, loses no packet, and a data packet fed is     *)
(* emitted or held.                                                        *)
<1>FeedInv.
  ASSUME NEW r, NEW A, NEW N, NEW s, Given(A, N, s), RxInv(r, A, N, s), NEW p \in A
  PROVE  /\ RxInv(Feed(r, p), A, N, s) /\ Keeps(r, Feed(r, p))
         /\ p.fec \/ Out(Feed(r, p), p) \/ Held(Feed(r, p), p)
  <2> USE <1>FeedInv
  <2>0. p \in Packet /\ p.gs \in Nat /\ p.fec \in BOOLEAN
    BY FecAssumption DEF Given, Packet
  <2>1. CASE p.gs = 0 /\ ~p.fec
    <3>1. Feed(r, p) = Emit(Flush(r), Single(p)) BY <2>1, Zenon DEF Feed, FeedPlain
    <3>2. RxInv(Flush(r), A, N, s) /\ Keeps(r, Flush(r)) BY FlushInv, Zenon
    <3> QED BY <3>1, <3>2, <2>1, <1>EmitSingle, KeepsTrans, Zenon
  <2>2. CASE p.fec
    <3>1. Feed(r, p) = FeedParity(r, p) BY <2>2, Zenon DEF Feed
    <3> QED BY <3>1, <2>2, <1>FeedParityInv, Zenon
  <2>3. CASE p.gs # 0 /\ ~p.fec
    <3> DEFINE b == WrappingSub(p.seq, p.idx)
               t == IF r.base = {b} THEN r ELSE StartGroup(r, b, p.gs)
               u == Store(t, p)
    <3>1. Feed(r, p) = FeedData(r, p) BY <2>3, Zenon DEF Feed
    <3>2. CASE r.prev = {b} /\ r.base # {b}
      <4>1. Feed(r, p) = Emit(r, Single(p)) BY <3>1, <3>2, Zenon DEF FeedData
      <4> QED BY <4>1, <2>3, <1>EmitSingle, Zenon
    <3>3. CASE ~(r.prev = {b} /\ r.base # {b})
      <4>1. Feed(r, p) = TryComplete(u) BY <3>1, <3>3, Zenon DEF FeedData
      <4>2. p.gs > 0 BY <2>0, <2>3
      <4>3. RxInv(u, A, N, s) /\ Keeps(r, u) /\ Held(u, p)
        <5>1. CASE r.base = {b} BY <5>1, <4>2, <2>3, StoreSame, Zenon
        <5>2. CASE r.base # {b} BY <5>2, <4>2, <2>3, StoreFresh, Zenon
        <5> QED BY <5>1, <5>2, Zenon
      <4> HIDE DEF u
      <4>4. RxInv(TryComplete(u), A, N, s) /\ Keeps(u, TryComplete(u))
        BY <4>3, <1>TryCompleteInv, Zenon
      <4>5. Keeps(r, TryComplete(u)) BY <4>3, <4>4, KeepsTrans, Zenon
      <4>6. Out(TryComplete(u), p) \/ Held(TryComplete(u), p)
        BY <4>3, <4>4, Zenon DEF Keeps
      <4> QED BY <4>1, <4>4, <4>5, <4>6, Zenon
    <3> QED BY <3>2, <3>3, Zenon
  <2> QED BY <2>0, <2>1, <2>2, <2>3, Zenon
<1>ReceiveInv.
  ASSUME NEW r, NEW A, NEW N, NEW s, Given(A, N, s), RxInv(r, A, N, s), NEW p \in A
  PROVE  /\ RxInv(ReceiveOf(r, p), A, N, s) /\ Keeps(r, ReceiveOf(r, p))
         /\ p.fec \/ Out(ReceiveOf(r, p), p) \/ Held(ReceiveOf(r, p), p)
  <2> USE <1>ReceiveInv
  <2>1. /\ RxInv(Feed(r, p), A, N, s) /\ Keeps(r, Feed(r, p))
        /\ p.fec \/ Out(Feed(r, p), p) \/ Held(Feed(r, p), p)
    BY <1>FeedInv, Zenon
  <2>2. CASE p.last
    <3>1. ReceiveOf(r, p) = Flush(Feed(r, p)) BY <2>2, Zenon DEF ReceiveOf
    <3>2. RxInv(Flush(Feed(r, p)), A, N, s) /\ Keeps(Feed(r, p), Flush(Feed(r, p)))
      BY <2>1, FlushInv, Zenon
    <3>3. Keeps(r, Flush(Feed(r, p))) BY <2>1, <3>2, KeepsTrans, Zenon
    <3>4. p.fec \/ Out(Flush(Feed(r, p)), p) \/ Held(Flush(Feed(r, p)), p)
      BY <2>1, <3>2, Zenon DEF Keeps
    <3> QED BY <3>1, <3>2, <3>3, <3>4, Zenon
  <2>3. CASE ~p.last BY <2>1, <2>3, Zenon DEF ReceiveOf
  <2> QED BY <2>2, <2>3, Zenon
<1> QED BY ONLY <1>ReceiveInv, ZenonT(40)

-----------------------------------------------------------------------------
(* The inductive invariant. *)

IInv == TypeOK /\ GroupsApart /\ NoPacketVanishes /\ RecoveredExact

-----------------------------------------------------------------------------
(* What the sender keeps.                                                  *)

WellFormed(p) ==
  /\ ~p.fec => /\ p.payload = {p.n} /\ p.idx <= p.n
               /\ p.gs = 0 \/ (p.gs >= 2 /\ p.idx < p.gs)
  /\ p.fec => p.gs >= 2 /\ p.gs <= p.n /\ p.payload = p.n - p.gs .. p.n - 1

(* The initial state satisfies the invariant.                              *)
LEMMA InitInv == Init => IInv
<1> SUFFICES ASSUME Init PROVE IInv BY Zenon
<1> USE FecAssumption DEF Init
<1>1. NoSlots \in Batches /\ \A i \in Positions : NoSlots[i] = {}
  BY Zenon DEF NoSlots, Batches
<1>2. /\ rx \in Receiver /\ rx.base = {} /\ rx.prev = {} /\ rx.parity = {}
      /\ rx.slots = NoSlots /\ rx.out = <<>>
  BY <1>1 DEF NewReceiver, Receiver
<1>3. PICK gs \in GroupSizes : enc = [gs |-> gs, count |-> 0, parity |-> {}]
  BY Zenon DEF NewEncoder
<1>4. TypeOK
  <2>1. enc \in [gs : 0..MaxGroup, count : Positions, parity : SUBSET Nat]
    BY <1>3 DEF Positions
  <2>2. start \in U16 /\ sequence \in U16 BY Zenon DEF U16
  <2>a. ended \in BOOLEAN BY Zenon
  <2>b. 0 \in 0..MaxPackets /\ 0 \in 0..MaxToggles /\ 0 \in 0..MaxDup /\ 0 \in Nat
    <3> HIDE DEF Init
    <3> QED BY FecAssumption
  <2>3. /\ sent \in 0..MaxPackets /\ offset \in Nat /\ ended \in BOOLEAN
        /\ toggles \in 0..MaxToggles /\ dups \in 0..MaxDup
    BY <2>a, <2>b, Zenon
  <2>4. net \subseteq Packet /\ arrived \subseteq Packet /\ dropped \subseteq Packet
    BY Zenon
  <2>5. /\ AtMostOne(rx.base) /\ AtMostOne(rx.prev) /\ AtMostOne(rx.parity)
        /\ \A i \in Positions : AtMostOne(rx.slots[i])
    BY <1>1, <1>2, Zenon DEF AtMostOne
  <2> HIDE DEF Init
  <2> QED BY <1>2, <2>1, <2>2, <2>3, <2>4, <2>5, Zenon DEF TypeOK
<1>5. GroupsApart
  <2>1. PacketInv(Datagrams, sent, start) BY Zenon DEF PacketInv, Datagrams
  <2>2. SenderInv(Datagrams) BY <1>3 DEF SenderInv, WrappingAdd, U16, Datagrams
  <2>3. ReceiverInv(rx, arrived) BY <1>1, <1>2, Zenon DEF ReceiverInv
  <2> QED BY <2>1, <2>2, <2>3, Zenon DEF GroupsApart
<1>6. NoPacketVanishes BY Zenon DEF NoPacketVanishes
<1>7. RecoveredExact BY SMTT(60), <1>2 DEF RecoveredExact, Genuine
<1> QED BY <1>4, <1>5, <1>6, <1>7, Zenon DEF IInv

(* Receive keeps the invariant.                                            *)
LEMMA ReceiveStep ==
  ASSUME Counting, IInv, NEW p \in net, NEW keep \in BOOLEAN, Receive(p, keep)
  PROVE  IInv'
<1> USE DEF IInv
<1> DEFINE A == arrived \cup {p}
           P == Datagrams
<1>0. /\ rx' = ReceiveOf(rx, p) /\ arrived' = A /\ net' \subseteq net
      /\ UNCHANGED <<start, sequence, enc, sent, offset, ended, toggles, dropped>>
      /\ dups' \in 0..MaxDup
  BY SMTT(60), FecAssumption DEF Receive, TypeOK
<1>1. A \subseteq P /\ Datagrams' \subseteq P BY <1>0, Zenon DEF Datagrams
<1>2. Given(A, sent, start)
  BY <1>1, Zenon DEF Given, GroupsApart, PacketInv, TypeOK
<1>3. RxInv(rx, A, sent, start)
  <2>1. RxType(rx) BY Zenon DEF RxType, TypeOK
  <2>2. ReceiverInv(rx, A) BY SMTT(60) DEF GroupsApart, ReceiverInv
  <2> QED BY <2>1, <2>2, Zenon DEF RxInv, RecoveredExact
<1>4. /\ RxInv(rx', A, sent, start) /\ Keeps(rx, rx')
      /\ p.fec \/ Out(rx', p) \/ Held(rx', p)
  BY <1>0, <1>2, <1>3, ReceiveInv, Zenon
<1>5. TypeOK'
  <2>1. RxType(rx') BY <1>4, Zenon DEF RxInv
  <2>2. arrived' \subseteq Packet /\ net' \subseteq Packet BY <1>0, Zenon DEF TypeOK
  <2> QED BY <1>0, <2>1, <2>2, Zenon DEF TypeOK, RxType
<1>6. GroupsApart'
  <2>1. PacketInv(Datagrams', sent, start)
    BY <1>1, Zenon DEF GroupsApart, PacketInv
  <2>2. SenderInv(Datagrams)' 
    <3>1. SenderInv(P) BY Zenon DEF GroupsApart
    <3>2. Datagrams' \subseteq P BY <1>1, Zenon
    <3> HIDE DEF P
    <3> QED BY <1>0, <3>1, <3>2, Zenon DEF SenderInv
  <2>3. ReceiverInv(rx', arrived') BY <1>0, <1>4, Zenon DEF RxInv
  <2>4. PacketInv(Datagrams, sent, start)' BY <1>0, <2>1, Zenon
  <2>5. ReceiverInv(rx, arrived)' BY <2>3, Zenon
  <2> QED BY <2>2, <2>4, <2>5, Zenon DEF GroupsApart
<1>7. NoPacketVanishes' BY <1>0, <1>4, Zenon DEF NoPacketVanishes, Keeps
<1>8. RecoveredExact' BY <1>0, <1>4, Zenon DEF RxInv, RecoveredExact
<1> QED BY <1>5, <1>6, <1>7, <1>8, Zenon

(* A loss only takes a datagram away.                                      *)
LEMMA LoseStep ==
  ASSUME IInv, NEW p \in net, Lose(p)
  PROVE  IInv'
<1> USE DEF IInv
<1> DEFINE P == Datagrams
<1>0. /\ net' \subseteq net /\ dropped' = dropped \cup {p}
      /\ UNCHANGED <<start, sequence, enc, sent, offset, ended, toggles, dups,
                     arrived, rx>>
  BY Zenon DEF Lose
<1>1. Datagrams' \subseteq P BY <1>0, Zenon DEF Datagrams
<1>2. TypeOK' BY <1>0, Zenon DEF TypeOK
<1>3. GroupsApart'
  <2>1. PacketInv(P, sent, start) /\ SenderInv(P) /\ ReceiverInv(rx, arrived)
    BY Zenon DEF GroupsApart
  <2> HIDE DEF P
  <2>2. PacketInv(Datagrams, sent, start)' BY <1>0, <1>1, <2>1, Zenon DEF PacketInv
  <2>3. SenderInv(Datagrams)' BY <1>0, <1>1, <2>1, Zenon DEF SenderInv
  <2>4. ReceiverInv(rx, arrived)' BY <1>0, <2>1, Zenon
  <2> QED BY <2>2, <2>3, <2>4, Zenon DEF GroupsApart
<1>4. NoPacketVanishes' BY <1>0, Zenon DEF NoPacketVanishes
<1>5. RecoveredExact' BY <1>0, Zenon DEF RecoveredExact
<1> QED BY <1>2, <1>3, <1>4, <1>5, Zenon

(* A new encoder starts a new group.                                       *)
LEMMA SetFecStep ==
  ASSUME IInv, NEW gs \in GroupSizes \cup {0}, SetFec(gs)
  PROVE  IInv'
<1> USE DEF IInv
<1> DEFINE P == Datagrams
<1>0. /\ enc' = [gs |-> gs, count |-> 0, parity |-> {}] /\ toggles' \in 0..MaxToggles
      /\ UNCHANGED <<start, sequence, sent, offset, ended, net, dups, arrived,
                     dropped, rx>>
  BY SMTT(60), FecAssumption DEF SetFec, NewEncoder, TypeOK
<1>1. TypeOK'
  <2>1. enc' \in [gs : 0..MaxGroup, count : Positions, parity : SUBSET Nat]
    BY <1>0, FecAssumption DEF Positions
  <2> QED BY <1>0, <2>1, Zenon DEF TypeOK
<1>2. GroupsApart'
  <2>1. PacketInv(P, sent, start) /\ SenderInv(P) /\ ReceiverInv(rx, arrived)
        /\ P \subseteq Packet /\ sent \in Nat
    BY SMTT(60), FecAssumption DEF GroupsApart, TypeOK, Datagrams
  <2>2. Datagrams' = P BY <1>0, Zenon DEF Datagrams
  <2> HIDE DEF P
  <2>3. ASSUME NEW p \in P PROVE p.n < sent /\ GroupStart(p) < sent
    <3>1. p.n \in 0 .. sent - 1 /\ p \in Packet BY <2>1, Zenon DEF PacketInv
    <3>2. p.gs \in Nat /\ p.idx \in Nat BY <3>1, FecAssumption DEF Packet, Positions
    <3> QED BY <3>1, <3>2, <2>1 DEF GroupStart
  <2>5. SenderInv(Datagrams)'
    <3>1. sequence' = WrappingAdd(start', sent') BY <1>0, <2>1, Zenon DEF SenderInv
    <3>2. enc'.gs \in GroupSizes \cup {0} /\ enc'.count = 0 BY <1>0, Zenon
    <3>3. \A p \in P : p.n < sent - 0 /\ ~(GroupStart(p) >= sent - 0)
      <4>1. ASSUME NEW p \in P PROVE GroupStart(p) \in Int /\ p.n \in Int
        <5>1. p.n \in Int /\ p \in Packet BY <2>1 DEF PacketInv
        <5>2. p.gs \in Nat /\ p.idx \in Nat BY <5>1, FecAssumption DEF Packet, Positions
        <5> QED BY <5>1, <5>2 DEF GroupStart
      <4> QED BY <2>1, <2>3, <4>1
    <3>4. \A p \in Datagrams' : p.n < sent' /\ ~(GroupStart(p) >= sent')
      <4>1. sent' = sent /\ sent - 0 = sent BY <1>0, <2>1
      <4> QED BY <2>2, <3>3, <4>1, Zenon
    <3>5. sent' \in Nat /\ sent' - 0 = sent' BY <1>0, <2>1
    <3> QED BY SMTT(60), <3>1, <3>2, <3>4, <3>5 DEF SenderInv
  <2> QED BY <1>0, <2>1, <2>2, <2>5, Zenon DEF GroupsApart
<1>3. NoPacketVanishes' BY <1>0, Zenon DEF NoPacketVanishes
<1>4. RecoveredExact' BY <1>0, Zenon DEF RecoveredExact
<1> QED BY <1>1, <1>2, <1>3, <1>4, Zenon

(* Sending continues the group, and closes it with the parity of exactly   *)
(* its packets.                                                            *)
LEMMA SendAudioStep ==
  \A last \in BOOLEAN : IInv /\ SendAudio(last) => IInv'
(* Adding one more wraps like adding the sum.                              *)
<1>WrapNext.
  ASSUME NEW s \in U16, NEW a \in Nat, a + 1 < SeqMod
  PROVE  WrappingAdd(WrappingAdd(s, a), 1) = WrappingAdd(s, a + 1)
  BY <1>WrapNext, FecAssumption DEF U16, WrappingAdd
(* One more datagram, numbered N, of a group with the size of that group.  *)
<1>AddPacket.
  ASSUME NEW P, NEW N \in Nat, NEW s, PacketInv(P, N, s), NEW p,
         p.n = N, p.seq = WrappingAdd(s, N), WellFormed(p),
         \A q \in P : p.gs > 0 /\ q.gs > 0 /\ GroupStart(p) = GroupStart(q)
                        => p.gs = q.gs
  PROVE  PacketInv(P \cup {p}, N + 1, s)
  <2> USE <1>AddPacket
  <2> SUFFICES ASSUME NEW x \in P \cup {p}
               PROVE  /\ x.n \in 0 .. N + 1 - 1 /\ x.seq = WrappingAdd(s, x.n)
                      /\ WellFormed(x)
                      /\ \A q \in P \cup {p} :
                           /\ x.n = q.n => x = q
                           /\ x.gs > 0 /\ q.gs > 0 /\ GroupStart(x) = GroupStart(q)
                                => x.gs = q.gs
    BY SMTT(60) DEF PacketInv, WellFormed
  <2>1. \A q \in P : q.n \in 0 .. N - 1 BY Zenon DEF PacketInv
  <2>2. CASE x \in P
    <3>1. x.n \in 0 .. N - 1 /\ x.seq = WrappingAdd(s, x.n) /\ WellFormed(x)
      BY <2>2, Zenon DEF PacketInv, WellFormed
    <3>2. ASSUME NEW q \in P
          PROVE  /\ x.n = q.n => x = q
                 /\ x.gs > 0 /\ q.gs > 0 /\ GroupStart(x) = GroupStart(q) => x.gs = q.gs
      BY <2>2, Zenon DEF PacketInv
    <3>3. x.n # p.n BY <3>1
    <3>4. x.gs > 0 /\ p.gs > 0 /\ GroupStart(x) = GroupStart(p) => x.gs = p.gs BY <2>2, Zenon
    <3> QED BY <3>1, <3>2, <3>3, <3>4
  <2>3. CASE x = p
    <3>1. \A q \in P : x.n # q.n BY <2>1, <2>3
    <3> QED BY <2>3, <3>1
  <2> QED BY <2>2, <2>3, Zenon
(* The history stays genuine when more datagrams are sent.                 *)
<1>GenuineMore.
  ASSUME NEW r, NEW N \in Nat, NEW M \in Nat, NEW s, N <= M, Genuine(r, N, s)
  PROVE  Genuine(r, M, s)
  BY <1>GenuineMore DEF Genuine
<1>SendAudioStep.
  ASSUME IInv, NEW last \in BOOLEAN, SendAudio(last)
  PROVE  IInv'
  <2> USE <1>SendAudioStep
  <2> USE DEF IInv
  <2> DEFINE P == Datagrams
             d == DataPacket(last)
             q == ParityPacket
  <2>0. /\ ended' \in BOOLEAN /\ offset' = offset + 1
        /\ UNCHANGED <<start, toggles, dups, arrived, dropped, rx>>
    BY Zenon DEF SendAudio
  <2>1. /\ PacketInv(P, sent, start) /\ SenderInv(P) /\ ReceiverInv(rx, arrived)
        /\ P \subseteq Packet /\ sent \in Nat /\ start \in U16 /\ sequence \in U16
        /\ offset \in Nat /\ sent < SeqMod
        /\ enc.gs \in 0..MaxGroup /\ enc.count \in Positions /\ enc.count \in Nat
        /\ enc.gs \in Nat /\ enc.parity \in SUBSET Nat
        /\ enc \in [gs : 0..MaxGroup, count : Positions, parity : SUBSET Nat]
    BY FecAssumption DEF GroupsApart, TypeOK, Positions, Datagrams
  <2>2. /\ sequence = WrappingAdd(start, sent)
        /\ enc.gs = 0 \/ enc.gs >= 2
        /\ enc.count <= sent
        /\ enc.count = 0 \/ (enc.count < enc.gs /\ enc.parity = sent - enc.count .. sent - 1)
    BY <2>1, FecAssumption DEF SenderInv
  <2>3. ASSUME NEW p \in P
        PROVE  /\ p.n \in Int /\ p.n < sent /\ GroupStart(p) \in Int /\ p.gs \in Nat
               /\ p.fec => p.n < sent - enc.count
               /\ p.gs > 0 /\ GroupStart(p) >= sent - enc.count
                    => p.gs = enc.gs /\ GroupStart(p) = sent - enc.count
    <3>1. p.n \in 0 .. sent - 1 /\ p \in Packet BY <2>1, Zenon DEF PacketInv
    <3>2. p.gs \in Nat /\ p.idx \in Nat BY <3>1, FecAssumption DEF Packet, Positions
    <3> HIDE DEF P
    <3> QED BY <2>1, <3>1, <3>2 DEF GroupStart, SenderInv
  <2>4. d = [fec |-> FALSE, seq |-> sequence, gs |-> enc.gs, idx |-> enc.count,
             pts |-> offset, last |-> last, payload |-> {sent}, n |-> sent]
    BY Zenon DEF DataPacket
  <2> HIDE DEF d
  <2>5. d \in Packet BY <2>1, <2>4 DEF Packet
  <2>6. WellFormed(d) /\ GroupStart(d) = sent - enc.count
    BY SMTT(60), <2>1, <2>2, <2>4 DEF WellFormed, GroupStart
  <2>7. PacketInv(P \cup {d}, sent + 1, start)
    <3>1. d.n = sent /\ d.seq = WrappingAdd(start, sent) /\ d.gs = enc.gs BY <2>2, <2>4, Zenon
    <3>2. \A p \in P : d.gs > 0 /\ p.gs > 0 /\ GroupStart(d) = GroupStart(p)
                         => d.gs = p.gs
      BY <2>1, <2>3, <2>6, <3>1
    <3> HIDE DEF P
    <3> QED BY <2>1, <2>6, <3>1, <3>2, <1>AddPacket, Zenon
  <2>8. Accumulate(enc, {sent}) = sent - enc.count .. sent
    <3>1. CASE enc.count = 0 BY <2>1, <3>1 DEF Accumulate, Xor
    <3>2. CASE enc.count # 0 BY <2>1, <2>2, <3>2 DEF Accumulate, Xor
    <3> QED BY <3>1, <3>2, Zenon
  <2>9. NoPacketVanishes' BY <2>0, Zenon DEF NoPacketVanishes
  <2>10. CASE GroupFull(enc)
    <3>1. /\ net' = net \cup {d, q} /\ sent' = sent + 2 /\ sent + 2 <= MaxPackets
          /\ sequence' = WrappingAdd(WrappingAdd(sequence, 1), 1)
          /\ enc' = [gs |-> enc.gs, count |-> 0, parity |-> {}]
      BY <2>10, Zenon DEF SendAudio, NewEncoder, d
    <3>2. enc.gs >= 2 /\ enc.count + 1 = enc.gs
      BY <2>1, <2>2, <2>10 DEF GroupFull
    <3>3. /\ WrappingAdd(sequence, 1) = WrappingAdd(start, sent + 1)
          /\ sequence' = WrappingAdd(start, sent + 2)
          /\ sequence' \in U16 /\ WrappingAdd(sequence, 1) \in U16
      <4>1. sent + 1 < SeqMod /\ sent + 1 + 1 < SeqMod /\ 1 \in U16 /\ sent + 1 \in Nat
        BY SMTT(60), <2>1, <3>1, FecAssumption DEF U16
      <4>2. WrappingAdd(sequence, 1) = WrappingAdd(start, sent + 1)
        BY <4>1, <2>1, <2>2, <1>WrapNext, Zenon
      <4>3. WrappingAdd(WrappingAdd(start, sent + 1), 1) = WrappingAdd(start, sent + 1 + 1)
        BY <4>1, <2>1, <1>WrapNext, Zenon
      <4>4. sent + 1 + 1 = sent + 2 BY <2>1
      <4>5. WrappingAdd(sequence, 1) \in U16 BY <4>1, <2>1, WrapType, Zenon
      <4>6. WrappingAdd(WrappingAdd(sequence, 1), 1) \in U16 BY <4>1, <4>5, WrapType, Zenon
      <4> QED BY <3>1, <4>2, <4>3, <4>4, <4>5, <4>6, Zenon
    <3>4. q = [fec |-> TRUE, seq |-> WrappingAdd(sequence, 1), gs |-> enc.gs, idx |-> 0,
               pts |-> offset, last |-> FALSE, payload |-> Accumulate(enc, {sent}),
               n |-> sent + 1]
      BY Zenon DEF ParityPacket
    <3> HIDE DEF q
    <3>5. q \in Packet
      <4>1. 0 \in Positions BY FecAssumption DEF Positions
      <4>2. Accumulate(enc, {sent}) \in SUBSET Nat BY <2>1, <2>2, <2>8
      <4>3. sent + 1 \in Int /\ offset \in Int /\ enc.gs \in 0..MaxGroup
            /\ WrappingAdd(sequence, 1) \in U16
        BY <2>1, <3>3
      <4> QED BY <4>1, <4>2, <4>3, <3>4, Zenon DEF Packet
    <3>6. WellFormed(q) /\ GroupStart(q) = sent - enc.count
      <4>1. q.fec /\ q.gs = enc.gs /\ q.n = sent + 1 /\ q.payload = sent - enc.count .. sent
        BY <3>4, <2>8, Zenon
      <4>2. /\ q.gs >= 2 /\ q.gs <= q.n /\ q.n - q.gs = sent - enc.count
            /\ q.n - 1 = sent
        BY SMTT(60), <4>1, <3>2, <2>1, <2>2
      <4> QED BY <4>1, <4>2, Zenon DEF WellFormed, GroupStart
    <3>7. PacketInv((P \cup {d}) \cup {q}, sent + 1 + 1, start)
      <4>1. q.n = sent + 1 /\ q.seq = WrappingAdd(start, sent + 1) /\ q.gs = enc.gs
        BY <3>3, <3>4, Zenon
      <4>2. ASSUME NEW p \in P \cup {d}, q.gs > 0, p.gs > 0, GroupStart(q) = GroupStart(p)
            PROVE  q.gs = p.gs
        <5>1. CASE p = d BY <5>1, <2>4, <4>1, Zenon
        <5>2. CASE p \in P
          <6>1. /\ GroupStart(p) \in Int /\ p.gs > 0 /\ GroupStart(p) = sent - enc.count
                /\ p.gs > 0 /\ GroupStart(p) >= sent - enc.count => p.gs = enc.gs
            BY <5>2, <4>2, <2>3, <3>6, Zenon
          <6>2. GroupStart(p) >= sent - enc.count BY <6>1
          <6> QED BY <4>1, <6>1, <6>2, Zenon
        <5> QED BY <5>1, <5>2, Zenon
      <4>3. sent + 1 \in Nat BY <2>1
      <4> HIDE DEF P
      <4> QED BY <2>7, <3>6, <4>1, <4>2, <4>3, <1>AddPacket, Zenon
    <3>8. Datagrams' = (P \cup {d}) \cup {q} /\ sent + 1 + 1 = sent'
      BY <2>0, <2>1, <3>1 DEF Datagrams
    <3>9. TypeOK'
      <4>1. enc' \in [gs : 0..MaxGroup, count : Positions, parity : SUBSET Nat]
        BY SMTT(60), <2>1, <3>1, FecAssumption DEF Positions
      <4>2. sent' \in 0..MaxPackets /\ offset' \in Nat BY <2>0, <2>1, <3>1, FecAssumption
      <4>3. net' \subseteq Packet BY <2>5, <3>1, <3>5, Zenon DEF TypeOK
      <4> QED BY <2>0, <3>3, <4>1, <4>2, <4>3, Zenon DEF TypeOK
    <3>10. SenderInv(Datagrams)'
      <4>1. ASSUME NEW p \in (P \cup {d}) \cup {q}
            PROVE  p.n < sent + 2 /\ (p.gs > 0 => ~(GroupStart(p) >= sent + 2))
        <5>1. CASE p \in P
          <6>1. /\ p.n \in Int /\ p.n < sent /\ GroupStart(p) \in Int
                /\ p.gs > 0 /\ GroupStart(p) >= sent - enc.count
                    => GroupStart(p) = sent - enc.count
            BY <5>1, <2>3, Zenon
          <6> HIDE DEF P
          <6> QED BY <6>1, <2>1, <2>2
        <5>0. sent \in Nat /\ enc.count \in Nat /\ ~(sent - enc.count >= sent + 2)
          <6>1. sent \in Nat /\ enc.count \in Nat BY <2>1, Zenon
          <6> QED BY <6>1
        <5>2. CASE p = d
          <6>1. p.n = sent /\ GroupStart(p) = sent - enc.count BY <5>2, <2>4, <2>6, Zenon
          <6> QED BY <5>0, <6>1
        <5>3. CASE p = q
          <6>1. p.n = sent + 1 /\ GroupStart(p) = sent - enc.count BY <5>3, <3>4, <3>6, Zenon
          <6> QED BY <5>0, <6>1
        <5> QED BY <5>1, <5>2, <5>3, Zenon
      <4>2. enc'.gs \in GroupSizes \cup {0} /\ enc'.count = 0 BY <3>1, <2>1, Zenon DEF SenderInv
      <4>3. sequence' = WrappingAdd(start', sent') BY <2>0, <3>1, <3>3, Zenon
      <4>4. \A p \in Datagrams' :
               p.n < sent' /\ (p.gs > 0 => ~(GroupStart(p) >= sent'))
        BY <3>8, <3>1, <4>1, Zenon
      <4>5. sent' \in Nat /\ sent' - 0 = sent' BY <2>1, <3>1
      <4> QED BY SMTT(60), <4>2, <4>3, <4>4, <4>5 DEF SenderInv
    <3>11. GroupsApart'
      <4>1. PacketInv(Datagrams, sent, start)' BY <2>0, <3>7, <3>8, Zenon
      <4>2. ReceiverInv(rx, arrived)' BY <2>0, <2>1, Zenon
      <4> QED BY <3>10, <4>1, <4>2, Zenon DEF GroupsApart
    <3>12. RecoveredExact'
      <4>1. sent <= sent' /\ sent' \in Nat BY <2>1, <3>1
      <4>2. Genuine(rx, sent', start) BY <4>1, <2>1, <1>GenuineMore, Zenon DEF RecoveredExact
      <4> QED BY <2>0, <4>2, Zenon DEF RecoveredExact
    <3> QED BY <2>9, <3>9, <3>11, <3>12, Zenon
  <2>11. CASE ~GroupFull(enc)
    <3>1. /\ net' = net \cup {d} /\ sent' = sent + 1 /\ sent + 1 <= MaxPackets
          /\ sequence' = WrappingAdd(sequence, 1)
          /\ enc' = IF enc.gs = 0 THEN enc
                    ELSE [enc EXCEPT !.count = @ + 1, !.parity = Accumulate(enc, {sent})]
      BY <2>11, Zenon DEF SendAudio, d
    <3>2. sequence' = WrappingAdd(start, sent + 1) /\ sequence' \in U16
      <4>1. sent + 1 < SeqMod /\ 1 \in U16 BY <2>1, <3>1, FecAssumption DEF U16
      <4>2. WrappingAdd(sequence, 1) = WrappingAdd(start, sent + 1)
        BY <4>1, <2>1, <2>2, <1>WrapNext, Zenon
      <4>3. WrappingAdd(sequence, 1) \in U16 BY <4>1, <2>1, WrapType, Zenon
      <4> QED BY <3>1, <4>2, <4>3, Zenon
    <3>3. Datagrams' = P \cup {d} BY <2>0, <3>1, Zenon DEF Datagrams
    <3>4. ASSUME enc.gs = 0 PROVE TypeOK' /\ SenderInv(Datagrams)'
      <4>1. enc' = enc /\ enc.count = 0 BY <3>1, <3>4, <2>1, <2>2
      <4>2. TypeOK'
        <5>1. sent' \in 0..MaxPackets /\ offset' \in Nat BY <2>0, <2>1, <3>1, FecAssumption
        <5>2. net' \subseteq Packet BY <2>5, <3>1, Zenon DEF TypeOK
        <5> QED BY <2>0, <2>1, <3>2, <4>1, <5>1, <5>2, Zenon DEF TypeOK
      <4>3. ASSUME NEW p \in P \cup {d}
            PROVE  p.n < sent + 1 /\ (p.gs > 0 => ~(GroupStart(p) >= sent + 1))
        <5>1. CASE p \in P BY <5>1, <2>1, <2>3
        <5>2. CASE p = d
          <6>1. d.n = sent /\ d.gs = enc.gs BY <2>4, Zenon
          <6>2. sent < sent + 1 BY <2>1
          <6> QED BY <5>2, <6>1, <6>2, <3>4
        <5> QED BY <5>1, <5>2, Zenon
      <4>4. SenderInv(Datagrams)'
        <5>1. enc'.gs \in GroupSizes \cup {0} /\ enc'.count = 0 BY <4>1, <3>4, Zenon
        <5>2. sent' \in Nat /\ sent' - 0 = sent' BY <2>1, <3>1
        <5>3. \A p \in Datagrams' :
                 p.n < sent' /\ (p.gs > 0 => ~(GroupStart(p) >= sent'))
          BY <3>1, <3>3, <4>3, Zenon
        <5>4. sequence' = WrappingAdd(start', sent') BY <2>0, <3>1, <3>2, Zenon
        <5> QED BY <5>1, <5>2, <5>3, <5>4 DEF SenderInv
      <4> QED BY <4>2, <4>4, Zenon
    <3>5. ASSUME enc.gs # 0 PROVE TypeOK' /\ SenderInv(Datagrams)'
      <4>1. /\ enc'.gs = enc.gs /\ enc'.count = enc.count + 1
            /\ enc'.parity = sent - enc.count .. sent
            /\ enc' \in [gs : 0..MaxGroup, count : Nat, parity : SUBSET Nat]
        <5>1. sent - enc.count .. sent \in SUBSET Nat BY <2>1, <2>2
        <5>2. enc' = [enc EXCEPT !.count = enc.count + 1,
                                 !.parity = sent - enc.count .. sent]
          BY <3>1, <3>5, <2>8, Zenon
        <5>3. enc.count + 1 \in Nat BY <2>1
        <5> QED BY <5>1, <5>2, <5>3, <2>1, Zenon
      <4>2. enc.count + 1 < enc.gs /\ enc.gs >= 2
        BY <2>1, <2>2, <2>11, <3>5 DEF GroupFull
      <4>3. TypeOK'
        <5>1. sent' \in 0..MaxPackets /\ offset' \in Nat BY <2>0, <2>1, <3>1, FecAssumption
        <5>2. net' \subseteq Packet BY <2>5, <3>1, Zenon DEF TypeOK
        <5>3. enc'.count \in Positions BY <2>1, <4>1, <4>2, FecAssumption DEF Positions
        <5>4. enc' \in [gs : 0..MaxGroup, count : Positions, parity : SUBSET Nat]
          BY <4>1, <5>3, Zenon
        <5> QED BY <2>0, <3>2, <5>1, <5>2, <5>4, Zenon DEF TypeOK
      <4>4. ASSUME NEW p \in P \cup {d}
            PROVE  /\ p.fec => p.n < sent - enc.count
                   /\ p.gs > 0 /\ GroupStart(p) >= sent - enc.count
                        => p.gs = enc.gs /\ GroupStart(p) = sent - enc.count
        <5>1. CASE p \in P BY <5>1, <2>3, Zenon
        <5>2. CASE p = d BY <5>2, <2>4, <2>6, Zenon
        <5> QED BY <5>1, <5>2, Zenon
      <4>5. SenderInv(Datagrams)'
        <5>1. enc'.gs \in GroupSizes \cup {0} BY <4>1, <2>1, Zenon DEF SenderInv
        <5>2. sent' - enc'.count = sent - enc.count /\ enc'.count <= sent' /\ sent' - 1 = sent
          BY <2>1, <2>2, <3>1, <4>1
        <5>3. sequence' = WrappingAdd(start', sent') BY <2>0, <3>1, <3>2, Zenon
        <5>4. enc'.count < enc'.gs /\ enc'.parity = sent' - enc'.count .. sent' - 1
          BY <4>1, <4>2, <5>2, Zenon
        <5>5. \A p \in Datagrams' :
                 /\ p.fec => p.n < sent' - enc'.count
                 /\ p.gs > 0 /\ GroupStart(p) >= sent' - enc'.count
                      => p.gs = enc'.gs /\ GroupStart(p) = sent' - enc'.count
          BY <3>3, <4>1, <4>4, <5>2, Zenon
        <5> QED BY <5>1, <5>2, <5>3, <5>4, <5>5, Zenon DEF SenderInv
      <4> QED BY <4>3, <4>5, Zenon
    <3>6. TypeOK' /\ SenderInv(Datagrams)' BY <3>4, <3>5, Zenon
    <3>7. GroupsApart'
      <4>1. PacketInv(Datagrams, sent, start)' BY <2>0, <2>7, <3>1, <3>3, Zenon
      <4>2. ReceiverInv(rx, arrived)' BY <2>0, <2>1, Zenon
      <4> QED BY <3>6, <4>1, <4>2, Zenon DEF GroupsApart
    <3>8. RecoveredExact'
      <4>1. sent <= sent' /\ sent' \in Nat BY <2>1, <3>1
      <4>2. Genuine(rx, sent', start) BY <4>1, <2>1, <1>GenuineMore, Zenon DEF RecoveredExact
      <4> QED BY <2>0, <4>2, Zenon DEF RecoveredExact
    <3> QED BY <2>9, <3>6, <3>7, <3>8, Zenon
  <2> QED BY <2>10, <2>11, Zenon
<1> QED BY ONLY <1>SendAudioStep, ZenonT(40)

-----------------------------------------------------------------------------
(* The stream of datagrams, in the sender's numbers. *)

(* A data packet of another group comes after the whole of the group before. *)
Runs(P) ==
  /\ \A p, q \in P : ~p.fec /\ ~q.fec /\ p.n < q.n =>
       p.n < GroupStart(q) \/ (p.gs > 0 /\ q.gs > 0 /\ GroupStart(p) = GroupStart(q))
  /\ \A p \in P : ~p.fec /\ p.gs = 0 => p.idx = 0

(* A parity packet follows the packets it covers, and nothing else is there. *)
Covers(P) ==
  \A q \in P : q.fec =>
    /\ \A p \in P : ~p.fec /\ p.n > q.n => GroupStart(p) > q.n
    /\ \A k \in q.payload : \E p \in P :
         ~p.fec /\ p.n = k /\ p.gs > 0 /\ GroupStart(p) = GroupStart(q)

(* The c packets of the group in progress. *)
Current(P, N, c, gs, off) ==
  /\ \A p \in P : p.fec => p.n < N - c
  /\ \A p \in P : ~p.fec /\ p.n >= N - c =>
       p.gs = gs /\ gs > 0 /\ GroupStart(p) = N - c /\ p.pts - p.idx = off - c
  /\ \A k \in N - c .. N - 1 : \E p \in P : ~p.fec /\ p.n = k

(* LAST_PACKET is on the last data packet. *)
Ends(P) == \A p \in P : p.last => ~p.fec /\ \A q \in P : ~q.fec => q.n <= p.n

(* The packets of a group are one duration apart. *)
Timed(P) ==
  \A p, q \in P : ~p.fec /\ ~q.fec /\ p.gs > 0 /\ q.gs > 0 /\ GroupStart(p) = GroupStart(q)
    => p.pts - p.idx = q.pts - q.idx

(* Unless a stream may end or FEC be switched anywhere, groups are whole. *)
Unbroken(P, N, c) ==
  ~EndAnywhere =>
    \A p \in P : ~p.fec /\ p.gs > 0 =>
      \/ p.n >= N - c
      \/ \A k \in 0 .. p.gs - 1 : \E q \in P :
           ~q.fec /\ q.n = GroupStart(p) + k /\ q.gs > 0 /\ GroupStart(q) = GroupStart(p)

(* The stream as a whole.                                                    *)
StreamInv(P, N, c, gs, off) ==
  Runs(P) /\ Covers(P) /\ Current(P, N, c, gs, off) /\ Ends(P) /\ Timed(P) /\ Unbroken(P, N, c)

(* A datagram and the numbers of its group.                                  *)
Solid(p, N) ==
  /\ p.n \in 0 .. N - 1 /\ p.idx \in Nat /\ p.gs \in Nat /\ p.pts \in Int /\ GroupStart(p) \in Nat
  /\ ~p.fec => GroupStart(p) + p.idx = p.n /\ (p.gs = 0 \/ p.idx < p.gs)
  /\ p.fec => GroupStart(p) + p.gs = p.n /\ p.gs >= 2 /\ p.payload = GroupStart(p) .. p.n - 1

Solids(P, N) == \A p \in P : Solid(p, N)

(* PacketInv in the terms of the stream.                                     *)
LEMMA SolidPackets ==
  ASSUME NEW P, P \subseteq Packet, NEW N \in Nat, NEW s, PacketInv(P, N, s)
  PROVE  Solids(P, N)
<1> SUFFICES ASSUME NEW p \in P PROVE Solid(p, N) BY Zenon DEF Solids
<1>1. /\ p.n \in 0 .. N - 1
      /\ ~p.fec => p.idx <= p.n /\ (p.gs = 0 \/ p.idx < p.gs)
      /\ p.fec => p.gs >= 2 /\ p.gs <= p.n /\ p.payload = p.n - p.gs .. p.n - 1
  BY DEF PacketInv
<1>2. p \in Packet BY Zenon
<1>3. p.idx \in Nat /\ p.gs \in Nat /\ p.pts \in Int /\ p.fec \in BOOLEAN
  BY <1>2, FecAssumption, SMT DEF Packet, Positions
<1>4. CASE ~p.fec
  <2>1. GroupStart(p) = p.n - p.idx BY <1>4, Zenon DEF GroupStart
  <2>2. p.idx <= p.n BY <1>1, <1>4, Zenon
  <2>3. GroupStart(p) \in Nat /\ GroupStart(p) + p.idx = p.n BY <1>1, <1>3, <2>1, <2>2, SMT
  <2> QED BY <1>1, <1>3, <1>4, <2>3, Zenon DEF Solid
<1>5. CASE p.fec
  <2>1. GroupStart(p) = p.n - p.gs BY <1>5, Zenon DEF GroupStart
  <2>2. p.gs <= p.n BY <1>1, <1>5, Zenon
  <2>3. GroupStart(p) \in Nat /\ GroupStart(p) + p.gs = p.n BY <1>1, <1>3, <2>1, <2>2, SMT
  <2> QED BY <1>1, <1>3, <1>5, <2>1, <2>3, Zenon DEF Solid
<1> QED BY <1>4, <1>5

(* The next data packet. *)
NextData(d, N, c, gs, off) ==
  /\ Solid(d, N + 1) /\ ~d.fec /\ d.n = N /\ d.gs = gs /\ d.idx = c /\ d.pts = off
  /\ GroupStart(d) = N - c

(* The sender's counters.                                                    *)
Numbers4(N, c, gs, off) ==
  N \in Nat /\ c \in Nat /\ gs \in Nat /\ off \in Int /\ c <= N /\ (gs = 0 => c = 0)

(* The packets in the encoder after one more.                                *)
Grown(c, gs) == IF gs = 0 THEN c ELSE c + 1

(* What the sender has put on the network, whatever becomes of it. *)
Sending ==
  /\ StreamInv(Datagrams, sent, enc.count, enc.gs, offset)
  /\ \A p \in Datagrams : p.last => ended
  /\ ~EndAnywhere /\ ended => enc.count = 0

(* The types of what the sender counts.                                      *)
LEMMA SendingTypes ==
  ASSUME IInv
  PROVE  /\ Numbers4(sent, enc.count, enc.gs, offset) /\ Solids(Datagrams, sent)
         /\ sent \in Nat /\ enc.count \in Nat /\ enc.gs \in Nat /\ offset \in Int
         /\ enc.gs = 0 \/ enc.gs >= 2
         /\ enc.gs > 0 => enc.count < enc.gs
<1>1. /\ sent \in 0..MaxPackets /\ offset \in Nat /\ Datagrams \subseteq Packet
      /\ enc \in [gs : 0..MaxGroup, count : Positions, parity : SUBSET Nat]
  BY Zenon DEF IInv, TypeOK, Datagrams
<1>2. sent \in Nat /\ enc.count \in Nat /\ enc.gs \in Nat /\ offset \in Int
  BY <1>1, FecAssumption, SMT DEF Positions
<1>3. /\ enc.gs \in GroupSizes \cup {0} /\ enc.count <= sent
      /\ enc.count = 0 \/ enc.count < enc.gs
  BY Zenon DEF IInv, GroupsApart, SenderInv
<1>a. GroupSizes \subseteq 2..MaxGroup BY FecAssumption, Zenon
<1>4. enc.gs = 0 \/ enc.gs >= 2 BY <1>2, <1>3, <1>a, SMT
<1>5. enc.gs = 0 => enc.count = 0 BY <1>2, <1>3, SMT
<1>6. Solids(Datagrams, sent)
  BY <1>1, <1>2, SolidPackets, Zenon DEF IInv, GroupsApart
<1>7. enc.gs > 0 => enc.count < enc.gs BY <1>2, <1>3, SMT
<1> QED BY <1>2, <1>3, <1>4, <1>5, <1>6, <1>7, Zenon DEF Numbers4

(* send_audio_all keeps the stream: the next packet continues its group or   *)
(* begins one, and parity closes a whole group.                              *)
LEMMA SendingSend ==
  \A last \in BOOLEAN : IInv /\ Sending /\ SendAudio(last) => Sending'
<1>DataRuns.
  ASSUME NEW P, NEW N, NEW c, NEW gs, NEW off, NEW d, Numbers4(N, c, gs, off), Solids(P, N),
         NextData(d, N, c, gs, off), StreamInv(P, N, c, gs, off)
  PROVE  Runs(P \cup {d}) /\ Covers(P \cup {d}) /\ Timed(P \cup {d})
  <2> USE <1>DataRuns
  <2> USE DEF NextData, Numbers4
  <2>0. \A p \in P : /\ p.n \in Int /\ p.n < N /\ GroupStart(p) \in Int
                     /\ ~p.fec => GroupStart(p) <= p.n
    <3>1. Solids(P, N) /\ N \in Nat OBVIOUS
    <3>2. ASSUME NEW p \in P PROVE Solid(p, N) BY <3>1, Zenon DEF Solids
    <3> QED BY ONLY <3>1, <3>2, SMT DEF Solid
  <2>1. ASSUME NEW p \in P, ~p.fec
        PROVE  p.n < N - c \/ (p.gs > 0 /\ gs > 0 /\ GroupStart(p) = GroupStart(d) /\ p.pts - p.idx = off - c)
    <3>1. CASE p.n < N - c BY <3>1
    <3>2. CASE p.n >= N - c BY <2>1, <3>2, Zenon DEF StreamInv, Current
    <3> QED BY <2>0, <3>1, <3>2, SMT
  <2>2. Runs(P \cup {d})
    <3>1. ASSUME NEW p \in P \cup {d}, NEW q \in P \cup {d}, ~p.fec, ~q.fec, p.n < q.n
          PROVE  p.n < GroupStart(q) \/ (p.gs > 0 /\ q.gs > 0 /\ GroupStart(p) = GroupStart(q))
      <4>1. CASE p \in P /\ q \in P BY <3>1, <4>1, Zenon DEF StreamInv, Runs
      <4>2. CASE p \in P /\ q = d BY <2>1, <3>1, <4>2, Zenon
      <4>3. CASE p = d
        <5>1. q.n <= N BY <2>0, SMT
        <5>2. p.n = N BY <4>3
        <5>3. q.n \in Int BY <2>0, SMT
        <5> QED BY <3>1, <5>1, <5>2, <5>3, SMT
      <4> QED BY <4>1, <4>2, <4>3, Zenon
    <3>2. ASSUME NEW p \in P \cup {d}, ~p.fec, p.gs = 0 PROVE p.idx = 0
      BY <3>2, Zenon DEF StreamInv, Runs
    <3> QED BY <3>1, <3>2, Zenon DEF Runs
  <2>3. Covers(P \cup {d})
    <3> SUFFICES ASSUME NEW q \in P, q.fec
                 PROVE  /\ \A p \in P \cup {d} : ~p.fec /\ p.n > q.n => GroupStart(p) > q.n
                        /\ \A k \in q.payload : \E p \in P \cup {d} :
                             ~p.fec /\ p.n = k /\ p.gs > 0 /\ GroupStart(p) = GroupStart(q)
      BY Zenon DEF Covers
    <3>1. q.n < N - c BY Zenon DEF StreamInv, Current
    <3>2. GroupStart(d) > q.n BY <2>0, <3>1, SMT
    <3> QED BY <3>2, Zenon DEF StreamInv, Covers
  <2>4. Timed(P \cup {d})
    <3>1. ASSUME NEW p \in P, ~p.fec, p.gs > 0, gs > 0, GroupStart(p) = GroupStart(d)
          PROVE  p.pts - p.idx = d.pts - d.idx
      <4>1. ~(p.n < N - c) BY <2>0, <3>1, SMT
      <4>2. p.pts - p.idx = off - c BY <2>1, <3>1, <4>1, Zenon
      <4> QED BY <4>2, Zenon
    <3>2. ASSUME NEW p \in P \cup {d}, NEW q \in P \cup {d}, ~p.fec, ~q.fec, p.gs > 0, q.gs > 0,
                 GroupStart(p) = GroupStart(q)
          PROVE  p.pts - p.idx = q.pts - q.idx
      <4>1. CASE p \in P /\ q \in P BY <3>2, <4>1, Zenon DEF StreamInv, Timed
      <4>2. CASE p \in P /\ q = d BY <3>1, <3>2, <4>2, Zenon
      <4>3. CASE p = d /\ q \in P BY <3>1, <3>2, <4>3, Zenon
      <4>4. CASE p = d /\ q = d BY <4>4
      <4> QED BY <4>1, <4>2, <4>3, <4>4, Zenon
    <3> QED BY <3>2, Zenon DEF Timed
  <2> QED BY <2>2, <2>3, <2>4
<1>DataStream.
  ASSUME NEW P, NEW N, NEW c, NEW gs, NEW off, NEW d, Numbers4(N, c, gs, off), Solids(P, N),
         NextData(d, N, c, gs, off), StreamInv(P, N, c, gs, off), \A p \in P : ~p.last
  PROVE  StreamInv(P \cup {d}, N + 1, Grown(c, gs), gs, off + 1)
  <2> USE <1>DataStream
  <2>0. \A p \in P : p.n \in Int /\ p.n < N
    BY SMT DEF Solids, Solid, Numbers4
  <2> DEFINE e == Grown(c, gs)
  <2>1. /\ (N + 1) - e = (IF gs = 0 THEN N + 1 ELSE N - c) /\ (off + 1) - e = (IF gs = 0 THEN off + 1 ELSE off - c)
        /\ (N + 1) - 1 = N
    BY SMT DEF Grown, Numbers4
  <2> HIDE DEF e
  <2>2. Ends(P \cup {d})
    <3>1. \A q \in P : q.n <= N BY <2>0, SMT DEF Numbers4
    <3>2. d.n = N /\ ~d.fec /\ N <= N BY SMT DEF NextData, Numbers4
    <3> QED BY <3>1, <3>2, Zenon DEF Ends
  <2>3. CASE gs = 0
    <3>1. c = 0 /\ (N + 1) - e = N + 1 /\ N - c = N BY <2>1, <2>3, SMT DEF Numbers4
    <3>2. \A p \in P \cup {d} : p.n < N + 1 /\ ~(p.n >= N + 1) BY <2>0, SMT DEF NextData, Numbers4
    <3>3. N + 1 .. N = {} BY SMT DEF Numbers4
    <3>4. Current(P \cup {d}, N + 1, e, gs, off + 1)
      <4>1. (N + 1) - e .. (N + 1) - 1 = {} BY <2>1, <3>1, <3>3, Zenon
      <4>2. \A p \in P \cup {d} : p.n < (N + 1) - e /\ ~(p.n >= (N + 1) - e) BY <3>1, <3>2, Zenon
      <4> QED BY <4>1, <4>2, Zenon DEF Current
    <3>5. \A p \in P : ~(p.n >= N) BY <2>0, SMT DEF Numbers4
    <3>6. ~(d.gs > 0) BY <2>3, SMT DEF NextData
    <3>7. Unbroken(P \cup {d}, N + 1, e)
      BY <3>1, <3>5, <3>6, Zenon DEF StreamInv, Unbroken
    <3> QED BY <2>2, <3>4, <3>7, <1>DataRuns, Zenon DEF StreamInv, e
  <2>4. CASE gs # 0
    <3>1. (N + 1) - e = N - c /\ (off + 1) - e = off - c /\ gs > 0 /\ N >= N - c
      BY <2>1, <2>4, SMT DEF Numbers4
    <3>2. \A k \in N - c .. N : k = N \/ k \in N - c .. N - 1 BY SMT DEF Numbers4
    <3>3. Current(P \cup {d}, N + 1, e, gs, off + 1)
      <4>1. \A p \in P \cup {d} : p.fec => p.n < N - c BY Zenon DEF StreamInv, Current, NextData
      <4>2. \A p \in P \cup {d} : ~p.fec /\ p.n >= N - c =>
               p.gs = gs /\ gs > 0 /\ GroupStart(p) = N - c /\ p.pts - p.idx = off - c
        <5>1. d.gs = gs /\ GroupStart(d) = N - c /\ d.pts - d.idx = off - c BY Zenon DEF NextData
        <5>2. \A p \in P : ~p.fec /\ p.n >= N - c =>
               p.gs = gs /\ gs > 0 /\ GroupStart(p) = N - c /\ p.pts - p.idx = off - c
          BY Zenon DEF StreamInv, Current
        <5> QED BY <3>1, <5>1, <5>2, Zenon
      <4>3. \A k \in N - c .. N : \E p \in P \cup {d} : ~p.fec /\ p.n = k
        <5>1. d.n = N /\ ~d.fec BY Zenon DEF NextData
        <5>2. \A k \in N - c .. N - 1 : \E p \in P : ~p.fec /\ p.n = k
          BY Zenon DEF StreamInv, Current
        <5> QED BY <3>2, <5>1, <5>2, Zenon
      <4>4. (N + 1) - e .. (N + 1) - 1 = N - c .. N BY <2>1, <3>1, Zenon
      <4> QED BY <3>1, <4>1, <4>2, <4>3, <4>4, Zenon DEF Current
    <3>4. Unbroken(P \cup {d}, N + 1, e)
      <4>1. d.n >= (N + 1) - e BY <3>1, Zenon DEF NextData
      <4>2. ~EndAnywhere => \A p \in P : ~p.fec /\ p.gs > 0 =>
              \/ p.n >= (N + 1) - e
              \/ \A k \in 0 .. p.gs - 1 : \E q \in P :
                   ~q.fec /\ q.n = GroupStart(p) + k /\ q.gs > 0 /\ GroupStart(q) = GroupStart(p)
        BY <3>1, Zenon DEF StreamInv, Unbroken
      <4> QED BY <4>1, <4>2, Zenon DEF Unbroken
    <3> QED BY <2>2, <3>3, <3>4, <1>DataRuns, Zenon DEF StreamInv, e
  <2> QED BY <2>3, <2>4
(* The parity packet that closes a group of c. *)
<1>ParityStream.
  ASSUME NEW P, NEW N, NEW c, NEW off, NEW q, Numbers4(N, c, c, off), Solids(P, N),
         StreamInv(P, N, c, c, off), q.fec, ~q.last, q.n = N, GroupStart(q) = N - c,
         q.payload = N - c .. N - 1
  PROVE  StreamInv(P \cup {q}, N + 1, 0, c, off)
  <2> USE <1>ParityStream
  <2>0. \A p \in P : p.n \in Int /\ p.n < N BY SMT DEF Solids, Solid, Numbers4
  <2>1. Runs(P \cup {q}) /\ Ends(P \cup {q}) /\ Timed(P \cup {q})
    <3>1. Runs(P \cup {q}) BY Zenon DEF StreamInv, Runs
    <3>2. Ends(P \cup {q}) BY Zenon DEF StreamInv, Ends
    <3>3. Timed(P \cup {q}) BY Zenon DEF StreamInv, Timed
    <3> QED BY <3>1, <3>2, <3>3
  <2>2. ASSUME NEW k \in N - c .. N - 1
        PROVE  \E p \in P : ~p.fec /\ p.n = k /\ p.gs > 0 /\ p.gs = c /\ GroupStart(p) = N - c
    <3>1. PICK p \in P : ~p.fec /\ p.n = k BY Zenon DEF StreamInv, Current
    <3>2. k >= N - c BY SMT DEF Numbers4
    <3> QED BY <3>1, <3>2, Zenon DEF StreamInv, Current
  <2>3. Covers(P \cup {q})
    <3>1. \A p \in P : ~(p.n > q.n) BY <2>0, SMT DEF Numbers4
    <3>2. ASSUME NEW x \in P \cup {q}, x.fec
          PROVE  /\ \A p \in P \cup {q} : ~p.fec /\ p.n > x.n => GroupStart(p) > x.n
                 /\ \A k \in x.payload : \E p \in P \cup {q} :
                      ~p.fec /\ p.n = k /\ p.gs > 0 /\ GroupStart(p) = GroupStart(x)
      <4>1. CASE x \in P BY <3>2, <4>1, Zenon DEF StreamInv, Covers
      <4>2. CASE x = q
        <5>1. \A p \in P \cup {q} : ~p.fec /\ p.n > q.n => GroupStart(p) > q.n BY <3>1, Zenon
        <5>2. \A k \in N - c .. N - 1 : \E p \in P \cup {q} :
                      ~p.fec /\ p.n = k /\ p.gs > 0 /\ GroupStart(p) = N - c
          BY <2>2, Zenon
        <5>3. \A k \in q.payload : \E p \in P \cup {q} :
                      ~p.fec /\ p.n = k /\ p.gs > 0 /\ GroupStart(p) = GroupStart(q)
          BY ONLY <5>2, q.payload = N - c .. N - 1, GroupStart(q) = N - c, Zenon
        <5> QED BY ONLY <4>2, <5>1, <5>3, Zenon
      <4> QED BY <4>1, <4>2
    <3> QED BY <3>2, Zenon DEF Covers
  <2>4. Current(P \cup {q}, N + 1, 0, c, off)
    <3>1. \A p \in P \cup {q} : p.n < (N + 1) - 0 /\ ~(p.n >= (N + 1) - 0)
      BY <2>0, SMT DEF Numbers4
    <3>2. (N + 1) - 0 .. (N + 1) - 1 = {} BY SMT DEF Numbers4
    <3> QED BY <3>1, <3>2, Zenon DEF Current
  <2>5. Unbroken(P \cup {q}, N + 1, 0)
    <3>1. ASSUME NEW p \in P, ~p.fec, p.gs > 0, ~EndAnywhere
          PROVE  \A k \in 0 .. p.gs - 1 : \E x \in P :
                    ~x.fec /\ x.n = GroupStart(p) + k /\ x.gs > 0 /\ GroupStart(x) = GroupStart(p)
      <4>1. CASE p.n >= N - c
        <5>1. p.gs = c /\ GroupStart(p) = N - c BY <3>1, <4>1, Zenon DEF StreamInv, Current
        <5>2. \A k \in 0 .. c - 1 : N - c + k \in N - c .. N - 1 BY SMT DEF Numbers4
        <5> QED BY <2>2, <5>1, <5>2, SMT
      <4>2. CASE ~(p.n >= N - c) BY <3>1, <4>2, Zenon DEF StreamInv, Unbroken
      <4> QED BY <4>1, <4>2
    <3> QED BY <3>1, Zenon DEF Unbroken
  <2> QED BY <2>1, <2>3, <2>4, <2>5, Zenon DEF StreamInv
<1>SendingSend.
  ASSUME IInv, Sending, NEW last \in BOOLEAN, SendAudio(last)
  PROVE  Sending'
  <2> USE <1>SendingSend
  <2>0. /\ Numbers4(sent, enc.count, enc.gs, offset) /\ Solids(Datagrams, sent)
        /\ sent \in Nat /\ enc.count \in Nat /\ enc.gs \in Nat /\ offset \in Int
        /\ enc.gs = 0 \/ enc.gs >= 2
        /\ enc.gs > 0 => enc.count < enc.gs
    BY SendingTypes, Zenon
  <2>1. PICK P : P = Datagrams OBVIOUS
  <2>2. PICK d : d = DataPacket(last) OBVIOUS
  <2>3. /\ d.fec = FALSE /\ d.gs = enc.gs /\ d.idx = enc.count /\ d.pts = offset
        /\ d.last = last /\ d.n = sent
    BY <2>2, Zenon DEF DataPacket
  <2>4. /\ offset' = offset + 1 /\ ended' = last /\ arrived' = arrived /\ dropped' = dropped /\ ~ended
        /\ last => EndAnywhere \/ enc.gs = 0 \/ GroupFull(enc)
    BY Zenon DEF SendAudio
  <2>5. StreamInv(P, sent, enc.count, enc.gs, offset) /\ \A p \in P : ~p.last
    BY <2>1, <2>4, Zenon DEF Sending
  <2>6. NextData(d, sent, enc.count, enc.gs, offset)
    <3>1. GroupStart(d) = sent - enc.count BY <2>3, Zenon DEF GroupStart
    <3>2. sent - enc.count \in Nat /\ (sent - enc.count) + enc.count = sent /\ sent \in 0 .. (sent + 1) - 1
      BY <2>0, SMT DEF Numbers4
    <3>3. enc.gs = 0 \/ enc.count < enc.gs BY <2>0, SMT
    <3>4. Solid(d, sent + 1)
      BY <2>0, <2>3, <3>1, <3>2, <3>3, Zenon DEF Solid
    <3> QED BY <2>3, <3>1, <3>4, Zenon DEF NextData
  <2>7. StreamInv(P \cup {d}, sent + 1, Grown(enc.count, enc.gs), enc.gs, offset + 1)
    BY <2>0, <2>1, <2>5, <2>6, <1>DataStream, Zenon
  <2>8. CASE ~GroupFull(enc)
    <3>1. /\ net' = net \cup {d} /\ sent' = sent + 1
          /\ enc' = IF enc.gs = 0 THEN enc
                    ELSE [enc EXCEPT !.count = @ + 1, !.parity = Accumulate(enc, {sent})]
      BY <2>2, <2>8, Zenon DEF SendAudio
    <3>2. enc \in [gs : 0..MaxGroup, count : Positions, parity : SUBSET Nat]
      BY Zenon DEF IInv, TypeOK
    <3>3. enc'.gs = enc.gs /\ enc'.count = Grown(enc.count, enc.gs)
      BY <3>1, <3>2, Zenon DEF Grown
    <3>4. Datagrams' = P \cup {d} BY <2>1, <2>4, <3>1, Zenon DEF Datagrams
    <3>5. StreamInv(Datagrams', sent', enc'.count, enc'.gs, offset')
      BY <2>4, <2>7, <3>1, <3>3, <3>4, Zenon
    <3>6. \A p \in Datagrams' : p.last => ended' BY <2>3, <2>4, <2>5, <3>4, Zenon
    <3>7. ~EndAnywhere /\ ended' => enc'.count = 0
      <4>1. enc.gs = 0 => enc.count = 0 BY <2>0, Zenon DEF Numbers4
      <4> QED BY <2>4, <2>8, <3>3, <4>1, Zenon DEF Grown
    <3> QED BY <3>5, <3>6, <3>7, Zenon DEF Sending
  <2>9. CASE GroupFull(enc)
    <3>0. PICK q : q = ParityPacket OBVIOUS
    <3>a. /\ net' = net \cup {d, q} /\ sent' = sent + 2
          /\ enc' = [gs |-> enc.gs, count |-> 0, parity |-> {}]
      BY <2>2, <2>9, <3>0, Zenon DEF SendAudio, NewEncoder
    <3>1. net' = net \cup {d, q} /\ sent' = sent + 2 /\ enc'.gs = enc.gs /\ enc'.count = 0
      BY <3>a, Zenon
    <3>2. enc.count + 1 = enc.gs /\ enc.gs # 0 BY <2>0, <2>9, SMT DEF GroupFull
    <3>3. Grown(enc.count, enc.gs) = enc.gs BY <3>2, Zenon DEF Grown
    <3>4. StreamInv(P \cup {d}, sent + 1, enc.gs, enc.gs, offset + 1) BY <2>7, <3>3, Zenon
    <3>5. Accumulate(enc, {sent}) = sent - enc.count .. sent
      <4>1. enc.count = 0 \/ enc.parity = sent - enc.count .. sent - 1
        BY Zenon DEF IInv, GroupsApart, SenderInv
      <4>2. CASE enc.count = 0 BY <2>0, <4>2, SMT DEF Accumulate, Xor
      <4>3. CASE enc.count # 0 BY <2>0, <4>1, <4>3, SMT DEF Accumulate, Xor
      <4> QED BY <4>2, <4>3
    <3>6. q.fec = TRUE /\ q.last = FALSE /\ q.gs = enc.gs /\ q.n = sent + 1 /\ q.payload = sent - enc.count .. sent
      BY <3>0, <3>5, Zenon DEF ParityPacket
    <3>7. (sent + 1) - enc.gs = sent - enc.count /\ (sent + 1) - 1 = sent BY <2>0, <3>2, SMT
    <3>8. q.payload = (sent + 1) - enc.gs .. (sent + 1) - 1 BY <3>6, <3>7, Zenon
    <3>9. GroupStart(q) = (sent + 1) - enc.gs BY <3>6, Zenon DEF GroupStart
    <3>10. Numbers4(sent + 1, enc.gs, enc.gs, offset + 1) BY <2>0, <3>2, SMT DEF Numbers4
    <3>11. Solids(P \cup {d}, sent + 1)
      <4>1. 0 .. sent - 1 \subseteq 0 .. (sent + 1) - 1 BY <2>0, SMT
      <4>2. Solids(P, sent + 1) BY <2>0, <2>1, <4>1, Zenon DEF Solids, Solid
      <4> QED BY <4>2, <2>6, Zenon DEF NextData, Solids
    <3>12. StreamInv((P \cup {d}) \cup {q}, (sent + 1) + 1, 0, enc.gs, offset + 1)
      BY <3>4, <3>6, <3>8, <3>9, <3>10, <3>11, <1>ParityStream, Zenon
    <3>13. (sent + 1) + 1 = sent' BY <2>0, <3>1, SMT
    <3>14. Datagrams' = (P \cup {d}) \cup {q} BY <2>1, <2>4, <3>1, Zenon DEF Datagrams
    <3>15. StreamInv(Datagrams', sent', enc'.count, enc'.gs, offset')
      BY <2>4, <3>1, <3>12, <3>13, <3>14, Zenon
    <3>16. \A p \in Datagrams' : p.last => ended' BY <2>3, <2>4, <2>5, <3>6, <3>14, Zenon
    <3> QED BY <3>1, <3>15, <3>16, Zenon DEF Sending
  <2> QED BY <2>8, <2>9
<1> QED BY ONLY <1>SendingSend, ZenonT(40)

(* enable_fec and disable_fec keep the stream.                               *)
LEMMA SendingSet ==
  \A gs \in GroupSizes \cup {0} : IInv /\ Sending /\ SetFec(gs) => Sending'
(* A new encoder; unless it may come anywhere, between two groups. *)
<1>SwitchStream.
  ASSUME NEW P, NEW N, NEW c, NEW gs, NEW off, NEW new, Numbers4(N, c, gs, off), Solids(P, N),
         StreamInv(P, N, c, gs, off), EndAnywhere \/ c = 0
  PROVE  StreamInv(P, N, 0, new, off)
  <2> USE <1>SwitchStream
  <2>1. \A p \in P : p.n < N - 0 /\ ~(p.n >= N - 0) BY SMT DEF Solids, Solid, Numbers4
  <2>2. N - 0 .. N - 1 = {} BY SMT DEF Numbers4
  <2>3. Current(P, N, 0, new, off) BY <2>1, <2>2, Zenon DEF Current
  <2>4. Unbroken(P, N, 0) BY Zenon DEF Unbroken, StreamInv
  <2> QED BY <2>3, <2>4, Zenon DEF StreamInv
<1>SendingSet.
  ASSUME IInv, Sending, NEW gs \in GroupSizes \cup {0}, SetFec(gs)
  PROVE  Sending'
  <2> USE <1>SendingSet
  <2>a. /\ enc' = [gs |-> gs, count |-> 0, parity |-> {}]
        /\ EndAnywhere \/ enc.count = 0
        /\ UNCHANGED <<sent, offset, ended, net, arrived, dropped>>
    BY Zenon DEF SetFec, NewEncoder
  <2>1. /\ enc'.gs = gs /\ enc'.count = 0
        /\ EndAnywhere \/ enc.count = 0
        /\ UNCHANGED <<sent, offset, ended, net, arrived, dropped>>
    BY <2>a, Zenon
  <2>2. Datagrams' = Datagrams BY <2>1, Zenon DEF Datagrams
  <2>3. StreamInv(Datagrams, sent, 0, gs, offset)
    BY <2>1, SendingTypes, <1>SwitchStream, Zenon DEF Sending
  <2> QED BY <2>1, <2>2, <2>3, Zenon DEF Sending
<1> QED BY ONLY <1>SendingSet, ZenonT(40)

(* The path moves datagrams from the network to one of the two other sets. *)
LEMMA SendingMoves ==
  ASSUME Sending, Datagrams' = Datagrams, UNCHANGED <<sent, enc, offset, ended>>
  PROVE  Sending'
BY Zenon DEF Sending

(* Receiving and losing move datagrams; none is added or forgotten.          *)
LEMMA Moves ==
  /\ \A p \in net, keep \in BOOLEAN : Receive(p, keep) => Datagrams' = Datagrams
  /\ \A p \in net : Lose(p) => Datagrams' = Datagrams
<1>1. ASSUME NEW p \in net, NEW keep \in BOOLEAN, Receive(p, keep) PROVE Datagrams' = Datagrams
  BY <1>1, Zenon DEF Receive, Datagrams
<1>2. ASSUME NEW p \in net, Lose(p) PROVE Datagrams' = Datagrams
  BY <1>2, Zenon DEF Lose, Datagrams
<1> QED BY <1>1, <1>2, Zenon

-----------------------------------------------------------------------------
(* An ordered path: no reordering, no duplicates. *)

Ordered == ~Reorder /\ MaxDup = 0

(* What arrived is before what is under way.                                 *)
Front ==
  /\ \A a \in arrived, q \in net : a.n < q.n
  /\ dropped \cap (net \cup arrived) = {}

(* The starts of the groups that packets still to arrive belong to. *)
ToCome ==
  {GroupStart(p) : p \in {q \in net : ~q.fec}} \cup {f \in {sent - enc.count} : ~ended}

(* What arriving in order means for p, after A, with the group starts X to   *)
(* come before it and Y after it.                                            *)
Coming(A, X, Y, p) ==
  /\ \A a \in A : a.n < p.n
  /\ Y \subseteq X /\ X \subseteq Int
  /\ ~p.fec => GroupStart(p) \in X /\ \A f \in X : f = GroupStart(p) \/ p.n < f
  /\ p.fec \/ p.gs = 0 => \A f \in Y : p.n < f
  /\ p.last => Y = {}
  /\ ~p.fec /\ p.gs > 0 =>
       \A f \in Y : \/ p.n < f
                    \/ \E i \in 0 .. p.gs - 1 : \A a \in A \cup {p} : a.n # GroupStart(p) + i

(* Receive on an ordered path: the first datagram under way, once.           *)
LEMMA OrderedReceive ==
  ASSUME Ordered, IInv, NEW p \in net, NEW keep \in BOOLEAN, Receive(p, keep)
  PROVE  /\ net' = net \ {p} /\ arrived' = arrived \cup {p}
         /\ rx' = ReceiveOf(rx, p) /\ \A q \in net : p.n <= q.n
         /\ UNCHANGED <<start, sequence, enc, sent, offset, ended, toggles, dropped>>
<1>1. dups \in 0 .. MaxDup BY Zenon DEF IInv, TypeOK
<1>2. ~(dups < MaxDup) BY <1>1, SMT DEF Ordered
<1> QED BY <1>2, Zenon DEF Receive, Ordered, Oldest

(* Numbers tell datagrams apart. *)
LEMMA Unique ==
  ASSUME IInv
  PROVE  /\ \A p, q \in Datagrams : p.n = q.n => p = q
         /\ \A p \in Datagrams : p.n \in Int /\ p.n < sent /\ p.n \in Nat
<1>1. PacketInv(Datagrams, sent, start) BY Zenon DEF IInv, GroupsApart
<1>2. sent \in Nat BY SendingTypes, Zenon
<1> QED BY <1>1, <1>2, SMT DEF PacketInv

(* Nothing has arrived at the start.                                         *)
LEMMA FrontInit == Init => Front
BY Zenon DEF Init, Front

(* The datagram received was the first under way.                            *)
LEMMA FrontReceive ==
  ASSUME Ordered, IInv, Front, NEW p \in net, NEW keep \in BOOLEAN, Receive(p, keep)
  PROVE  Front'
<1>1. /\ net' = net \ {p} /\ arrived' = arrived \cup {p}
      /\ \A q \in net : p.n <= q.n /\ dropped' = dropped
  BY OrderedReceive, Zenon
<1>2. ASSUME NEW q \in net \ {p} PROVE p.n < q.n
  <2>1. p \in Datagrams /\ q \in Datagrams /\ p # q BY Zenon DEF Datagrams
  <2>2. p.n # q.n /\ p.n \in Int /\ q.n \in Int BY <2>1, Unique, Zenon
  <2>3. p.n <= q.n BY <1>1, Zenon
  <2> QED BY <2>2, <2>3, SMT
<1> QED BY <1>1, <1>2, Zenon DEF Front

(* A datagram lost is neither under way nor received.                        *)
LEMMA FrontLose ==
  ASSUME IInv, Front, NEW p \in net, Lose(p)
  PROVE  Front'
<1>1. net' = net \ {p} /\ arrived' = arrived /\ dropped' = dropped \cup {p}
  BY Zenon DEF Lose
<1>2. p \notin arrived
  <2>1. p \in Datagrams BY Zenon DEF Datagrams
  <2>2. ~(p.n < p.n) BY <2>1, Unique, SMT
  <2> QED BY <2>2, Zenon DEF Front
<1> QED BY <1>1, <1>2, Zenon DEF Front

(* What is sent comes last.                                                  *)
LEMMA FrontSend ==
  ASSUME IInv, Front, NEW last \in BOOLEAN, SendAudio(last)
  PROVE  Front'
<1>1. arrived' = arrived /\ dropped' = dropped BY Zenon DEF SendAudio
<1>2. \A q \in net' : q \in net \/ q.n = sent \/ q.n = sent + 1
  <2>1. DataPacket(last).n = sent /\ ParityPacket.n = sent + 1
    BY Zenon DEF DataPacket, ParityPacket
  <2>2. net' \subseteq net \cup {DataPacket(last), ParityPacket} BY Zenon DEF SendAudio
  <2> QED BY <2>1, <2>2, Zenon
<1>3. ASSUME NEW a \in arrived \cup dropped, NEW q, q.n = sent \/ q.n = sent + 1 PROVE a.n < q.n /\ a # q
  <2>1. a \in Datagrams BY Zenon DEF Datagrams
  <2>2. a.n < sent /\ a.n \in Int BY <2>1, Unique, Zenon
  <2>3. a.n < q.n BY <1>3, <2>2, SendingTypes, SMT
  <2>4. ~(a.n < a.n) BY <2>2, SMT
  <2> QED BY <2>3, <2>4, Zenon
<1>4. \A a \in arrived, q \in net' : a.n < q.n BY <1>2, <1>3, Zenon DEF Front
<1>5. \A a \in dropped : a \notin net' BY <1>2, <1>3, Zenon DEF Front
<1> QED BY <1>1, <1>4, <1>5, Zenon DEF Front

(* In what order the next packet and the groups to come are. *)
LEMMA ReceiveComing ==
  ASSUME Ordered, IInv, Sending, Front, NEW p \in net, NEW keep \in BOOLEAN, Receive(p, keep)
  PROVE  Coming(arrived, ToCome, ToCome', p)
<1>0. /\ net' = net \ {p} /\ \A q \in net : p.n <= q.n
      /\ sent' = sent /\ enc' = enc /\ ended' = ended
  BY OrderedReceive, Zenon
<1>1. /\ Numbers4(sent, enc.count, enc.gs, offset) /\ Solids(Datagrams, sent)
      /\ sent \in Nat /\ enc.count \in Nat /\ enc.gs \in Nat
      /\ enc.gs > 0 => enc.count < enc.gs
  BY SendingTypes, Zenon
<1>2. p \in Datagrams BY Zenon DEF Datagrams
<1>3. \A q \in net \ {p} : p.n < q.n /\ q \in Datagrams
  <2>1. ASSUME NEW q \in net \ {p} PROVE p.n < q.n /\ q \in Datagrams
    <3>1. q \in Datagrams /\ p # q BY Zenon DEF Datagrams
    <3>2. p.n # q.n /\ p.n \in Int /\ q.n \in Int BY <1>2, <3>1, Unique, Zenon
    <3>3. p.n <= q.n BY <1>0, Zenon
    <3> QED BY <3>1, <3>2, <3>3, SMT
  <2> QED BY <2>1
<1>4. ToCome' = {GroupStart(q) : q \in {x \in net \ {p} : ~x.fec}} \cup {f \in {sent - enc.count} : ~ended}
  BY <1>0, Zenon DEF ToCome
<1>5. \A a \in arrived : a.n < p.n BY Zenon DEF Front
<1>6. ToCome' \subseteq ToCome BY <1>4, Zenon DEF ToCome
<1>7. ~p.fec => GroupStart(p) \in ToCome BY Zenon DEF ToCome
<1>8. ASSUME NEW f \in ToCome'
      PROVE  \/ ~ended /\ f = sent - enc.count
             \/ \E q \in Datagrams : ~q.fec /\ f = GroupStart(q) /\ p.n < q.n
  BY <1>3, <1>4, Zenon
<1>9. p.n \in Int /\ GroupStart(p) \in Nat /\ p.gs \in Nat
  BY <1>1, <1>2, SMT DEF Solids, Solid
<1>10. ASSUME NEW f \in ToCome', p.fec PROVE p.n < f
  <2>1. CASE f = sent - enc.count
    BY <1>2, <1>10, <2>1, Zenon DEF Sending, StreamInv, Current
  <2>2. ASSUME NEW q \in Datagrams, ~q.fec, f = GroupStart(q), p.n < q.n PROVE p.n < f
    <3>1. q.n \in Int /\ GroupStart(q) \in Nat BY <1>1, SMT DEF Solids, Solid
    <3>2. q.n > p.n BY <1>9, <2>2, <3>1, SMT
    <3>3. GroupStart(q) > p.n BY <1>2, <1>10, <2>2, <3>2, Zenon DEF Sending, StreamInv, Covers
    <3> QED BY <1>9, <2>2, <3>1, <3>3, SMT
  <2> QED BY <1>8, <2>1, <2>2
<1>11. ASSUME NEW f \in ToCome', ~p.fec
       PROVE  \/ p.n < f
              \/ /\ f = GroupStart(p) /\ p.gs > 0
                 /\ \/ f = sent - enc.count /\ p.gs = enc.gs
                    \/ \E q \in net \ {p} : ~q.fec /\ GroupStart(q) = GroupStart(p) /\ q.gs > 0
  <2>1. CASE f = sent - enc.count
    <3>1. p.n < f \/ p.n >= f BY <1>1, <1>9, <2>1, SMT
    <3>2. CASE p.n >= f
      BY <1>2, <1>11, <2>1, <3>2, Zenon DEF Sending, StreamInv, Current
    <3> QED BY <3>1, <3>2
  <2>2. ASSUME NEW q \in net \ {p}, ~q.fec, f = GroupStart(q)
        PROVE  p.n < f \/ (GroupStart(p) = GroupStart(q) /\ p.gs > 0 /\ q.gs > 0)
    BY <1>2, <1>3, <1>11, <2>2, Zenon DEF Sending, StreamInv, Runs
  <2> QED BY <1>4, <2>1, <2>2, Zenon
<1>12. ASSUME NEW f \in ToCome, ~p.fec PROVE f = GroupStart(p) \/ p.n < f
  <2>1. f \in ToCome' \/ f = GroupStart(p) BY <1>4, Zenon DEF ToCome
  <2> QED BY <1>11, <1>12, <2>1, Zenon
<1>13. ASSUME NEW f \in ToCome', p.fec \/ p.gs = 0 PROVE p.n < f
  <2>1. p.gs = 0 => ~(p.gs > 0) BY <1>9, SMT
  <2> QED BY <1>10, <1>11, <1>13, <2>1, Zenon
<1>14. ASSUME p.last PROVE ToCome' = {}
  <2>1. ended /\ ~p.fec /\ \A q \in Datagrams : ~q.fec => q.n <= p.n
    BY <1>2, <1>14, Zenon DEF Sending, StreamInv, Ends
  <2>2. \A q \in net \ {p} : ~(q.n <= p.n)
    <3>1. \A q \in Datagrams : q.n \in Int BY Unique, Zenon
    <3> QED BY <1>2, <1>3, <3>1, SMT
  <2> QED BY <1>3, <1>4, <2>1, <2>2, Zenon
<1>15. ASSUME NEW f \in ToCome', ~p.fec, p.gs > 0
       PROVE  \/ p.n < f
              \/ \E i \in 0 .. p.gs - 1 : \A a \in arrived \cup {p} : a.n # GroupStart(p) + i
  <2>1. CASE f = GroupStart(p) /\ f = sent - enc.count /\ p.gs = enc.gs
    <3>1. p.gs - 1 \in 0 .. p.gs - 1 /\ GroupStart(p) + (p.gs - 1) >= sent
      BY <1>1, <1>9, <1>15, <2>1, SMT
    <3>2. \A a \in arrived \cup {p} : a.n \in Int /\ a.n < sent
      BY <1>2, Unique, Zenon DEF Datagrams
    <3>3. \A a \in arrived \cup {p} : a.n # GroupStart(p) + (p.gs - 1)
      BY <1>1, <1>9, <3>1, <3>2, SMT
    <3> QED BY <3>1, <3>3, Zenon
  <2>2. ASSUME NEW q \in net \ {p}, ~q.fec, GroupStart(q) = GroupStart(p), q.gs > 0
        PROVE  \E i \in 0 .. p.gs - 1 : \A a \in arrived \cup {p} : a.n # GroupStart(p) + i
    <3>1. q \in Datagrams /\ p.n < q.n BY <1>3, Zenon
    <3>2. q.gs = p.gs BY <1>2, <1>15, <2>2, <3>1, Zenon DEF IInv, GroupsApart, PacketInv
    <3>3. q.idx \in 0 .. p.gs - 1 /\ GroupStart(p) + q.idx = q.n
      BY <1>1, <2>2, <3>1, <3>2, SMT DEF Solids, Solid
    <3>4. \A a \in arrived \cup {p} : a.n < q.n BY <3>1, Zenon DEF Front
    <3>5. ~(q.n < q.n) BY <3>1, Unique, SMT
    <3> QED BY <3>3, <3>4, <3>5, Zenon
  <2> QED BY <1>11, <1>15, <2>1, <2>2, Zenon
<1>16. ToCome \subseteq Int
  <2>1. sent - enc.count \in Int BY <1>1, SMT
  <2>2. \A q \in net : GroupStart(q) \in Int
    <3>1. net \subseteq Datagrams BY Zenon DEF Datagrams
    <3> QED BY <1>1, <3>1, SMT DEF Solids, Solid
  <2> QED BY <2>1, <2>2, Zenon DEF ToCome
<1> QED BY <1>5, <1>6, <1>7, <1>16, <1>12, <1>13, <1>14, <1>15, Zenon DEF Coming

-----------------------------------------------------------------------------
(* The receiver, in the sender's numbers. *)

(* The receiver r was given A, of the datagrams P.                           *)
Ctx(r, A, P, N, s) ==
  RxInv(r, A, N, s) /\ Given(P, N, s) /\ A \subseteq P /\ Solids(P, N)

(* The group being assembled is the one that starts at g. *)
Shape(r, A, g, s) ==
  /\ r.base = {WrappingAdd(s, g)} /\ g \in Nat /\ g \in U16
  /\ r.gs \in Nat /\ r.gs >= 2 /\ r.gs <= MaxGroup
  /\ \E i \in Positions : r.slots[i] # {}
  /\ \A i \in Positions : \A h \in r.slots[i] :
       /\ h \in A /\ ~h.fec /\ h.idx = i /\ h.gs = r.gs /\ h.gs > 0 /\ i < r.gs
       /\ GroupStart(h) = g /\ h.n = g + i

(* How far a datagram is from the start of its group.                        *)
Back(p) == IF p.fec THEN p.gs ELSE p.idx

(* The base feed computes from a datagram is the wrapped start of its group. *)
LEMMA GroupBase ==
  ASSUME NEW P, NEW N, NEW s, Given(P, N, s), Solids(P, N), NEW p \in P, p.gs > 0
  PROVE  /\ WrappingSub(p.seq, Back(p)) = WrappingAdd(s, GroupStart(p))
         /\ GroupStart(p) \in U16 /\ GroupStart(p) \in Nat
<1>1. WrappingSub(p.seq, Back(p)) = WrappingAdd(s, GroupStart(p)) BY SameGroup, Zenon DEF Back
<1>2. N \in 0 .. MaxPackets BY Zenon DEF Given
<1>3. /\ p.n \in 0 .. N - 1 /\ p.idx \in Nat /\ p.gs \in Nat /\ GroupStart(p) \in Nat
      /\ ~p.fec => GroupStart(p) + p.idx = p.n
      /\ p.fec => GroupStart(p) + p.gs = p.n
  BY Zenon DEF Solids, Solid
<1>a. MaxPackets \in Nat /\ SeqMod \in Nat /\ MaxPackets < SeqMod BY FecAssumption, Zenon
<1>4. CASE ~p.fec
  <2>1. GroupStart(p) + p.idx = p.n BY <1>3, <1>4, Zenon
  <2> QED BY <1>1, <1>2, <1>3, <1>a, <2>1, SMT DEF U16
<1>5. CASE p.fec
  <2>1. GroupStart(p) + p.gs = p.n BY <1>3, <1>5, Zenon
  <2> QED BY <1>1, <1>2, <1>3, <1>a, <2>1, SMT DEF U16
<1> QED BY <1>4, <1>5

(* A receiver that assembles a group holds packets of one group only, each at *)
(* its place.                                                                *)
LEMMA BaseShape ==
  ASSUME NEW r, NEW A, NEW P, NEW N, NEW s, Ctx(r, A, P, N, s), r.base # {}
  PROVE  \E g \in Nat : Shape(r, A, g, s)
<1>1. PICK i0 \in Positions : r.slots[i0] # {} BY Zenon DEF Ctx, RxInv, ReceiverInv
<1>2. PICK h0 \in r.slots[i0] : TRUE BY <1>1, Zenon
<1>3. r.gs \in Nat /\ r.gs >= 2 /\ r.gs <= MaxGroup
  <2>1. r.gs \in 0 .. MaxGroup BY Zenon DEF Ctx, RxInv, RxType, Receiver
  <2>2. r.gs >= 2 BY Zenon DEF Ctx, RxInv, ReceiverInv
  <2> QED BY <2>1, <2>2, FecAssumption, SMT
<1>4. ASSUME NEW i \in Positions, NEW h \in r.slots[i]
      PROVE  /\ h \in A /\ ~h.fec /\ h.idx = i /\ h.gs = r.gs /\ h.gs > 0 /\ i < r.gs
             /\ r.base = {WrappingAdd(s, GroupStart(h))} /\ GroupStart(h) \in U16
             /\ GroupStart(h) \in Nat /\ h.n = GroupStart(h) + i
  <2>1. /\ h \in A /\ ~h.fec /\ h.idx = i /\ h.gs = r.gs /\ i < r.gs
        /\ r.base = {WrappingSub(h.seq, i)}
    BY Zenon DEF Ctx, RxInv, ReceiverInv
  <2>2. h.gs > 0 BY <1>3, <2>1, SMT
  <2>3. /\ WrappingSub(h.seq, Back(h)) = WrappingAdd(s, GroupStart(h))
        /\ GroupStart(h) \in U16 /\ GroupStart(h) \in Nat
    BY <2>1, <2>2, GroupBase, Zenon DEF Ctx
  <2>4. Back(h) = i BY <2>1, Zenon DEF Back
  <2>5. h.n = GroupStart(h) + i BY <2>1, Zenon DEF Ctx, Solids, Solid
  <2> QED BY <2>1, <2>2, <2>3, <2>4, <2>5, Zenon
<1>a. PICK g : g = GroupStart(h0) OBVIOUS
<1>6. g \in Nat /\ g \in U16 /\ r.base = {WrappingAdd(s, g)} BY <1>2, <1>4, <1>a, Zenon
<1>5. ASSUME NEW i \in Positions, NEW h \in r.slots[i] PROVE GroupStart(h) = g
  <2>0. r.base = {WrappingAdd(s, GroupStart(h))} /\ GroupStart(h) \in U16 BY <1>4, Zenon
  <2>1. WrappingAdd(s, GroupStart(h)) = WrappingAdd(s, g) BY ONLY <1>6, <2>0, Zenon
  <2>2. s \in U16 BY Zenon DEF Ctx, Given
  <2> QED BY <1>6, <2>0, <2>1, <2>2, WrapInjective, Zenon
<1>b. \A i \in Positions : \A h \in r.slots[i] :
       /\ h \in A /\ ~h.fec /\ h.idx = i /\ h.gs = r.gs /\ h.gs > 0 /\ i < r.gs
       /\ GroupStart(h) = g /\ h.n = g + i
  <2>1. ASSUME NEW i \in Positions, NEW h \in r.slots[i]
        PROVE  /\ h \in A /\ ~h.fec /\ h.idx = i /\ h.gs = r.gs /\ h.gs > 0 /\ i < r.gs
               /\ GroupStart(h) = g /\ h.n = g + i
    <3>1. GroupStart(h) = g BY <1>5, Zenon
    <3>2. /\ h \in A /\ ~h.fec /\ h.idx = i /\ h.gs = r.gs /\ h.gs > 0 /\ i < r.gs
          /\ h.n = GroupStart(h) + i
      BY <1>4, Zenon
    <3> QED BY <3>1, <3>2, Zenon
  <2> QED BY <2>1, Zenon
<1>7. Shape(r, A, g, s) BY <1>1, <1>3, <1>6, <1>b, Zenon DEF Shape
<1> QED BY <1>6, <1>7, Zenon

(* The datagram p is of the group being assembled.                           *)
OfGroup(r, p) == r.base = {WrappingSub(p.seq, Back(p))}

(* A packet whose base is the receiver's belongs to that group. *)
LEMMA SameStart ==
  ASSUME NEW r, NEW A, NEW P, NEW N, NEW s, Ctx(r, A, P, N, s), NEW g, Shape(r, A, g, s),
         NEW p \in P, p.gs > 0
  PROVE  OfGroup(r, p) <=> GroupStart(p) = g
<1> USE DEF OfGroup
<1>1. /\ WrappingSub(p.seq, Back(p)) = WrappingAdd(s, GroupStart(p)) /\ GroupStart(p) \in U16
  BY GroupBase, Zenon DEF Ctx
<1>2. r.base = {WrappingAdd(s, g)} /\ g \in U16 /\ s \in U16 BY Zenon DEF Shape, Ctx, Given
<1>3. ASSUME r.base = {WrappingSub(p.seq, Back(p))} PROVE GroupStart(p) = g
  <2>1. WrappingAdd(s, GroupStart(p)) = WrappingAdd(s, g) BY <1>1, <1>2, <1>3, Zenon
  <2> QED BY <1>1, <1>2, <2>1, WrapInjective, Zenon
<1> QED BY <1>1, <1>2, <1>3, Zenon

-----------------------------------------------------------------------------
(* Emission in order. *)

(* Emitted in the order of the numbers.                                      *)
InOrder(r) ==
  \A k, l \in 1..Len(r.out) : \A i \in Positions, j \in Positions :
     k < l \/ (k = l /\ i < j) =>
       \A p \in r.out[k][i], q \in r.out[l][j] : p.n < q.n

(* What was emitted is behind what is held and what is to come. *)
Behind(r, X, s) ==
  /\ InOrder(r)
  /\ \A x : Out(r, x) => x.n \in Int /\ \A f \in X : x.n < f
  /\ \A x, h : Out(r, x) /\ Held(r, h) => x.n < GroupStart(h)
  /\ \A b \in r.prev : \E x, g : Out(r, x) /\ g \in 0 .. x.n /\ b = WrappingAdd(s, g)

(* A batch in the order of its numbers, after everything emitted before. *)
Emits(r, t, b) == \A x : Out(t, x) <=> Out(r, x) \/ \E i \in Positions : x \in b[i]

(* The batch b, of the group at g, comes next.                               *)
NextBatch(r, t, b, g) ==
  /\ r \in Receiver /\ b \in Batches /\ t.out = Append(r.out, b) /\ InOrder(r) /\ g \in Int
  /\ \A i \in Positions : \A x \in b[i] : x.n = g + i
  /\ \A x, y : Out(r, x) /\ (\E i \in Positions : y \in b[i]) => x.n < y.n

(* A next batch keeps the order, and adds its packets to what was emitted.   *)
LEMMA EmitInOrder ==
  ASSUME NEW r, NEW t, NEW b, NEW g, NextBatch(r, t, b, g)
  PROVE  InOrder(t) /\ Emits(r, t, b)
<1> USE DEF NextBatch
<1>1. r.out \in Seq(Batches) BY Zenon DEF Receiver
<1>2. /\ Len(t.out) = Len(r.out) + 1 /\ Len(r.out) \in Nat
      /\ t.out[Len(r.out) + 1] = b
      /\ \A k \in 1..Len(r.out) : t.out[k] = r.out[k]
  <2>1. t.out = Append(r.out, b) /\ b \in Batches BY Zenon
  <2> QED BY ONLY <1>1, <2>1, SMT
<1>3. \A k \in 1 .. Len(t.out) : k \in 1 .. Len(r.out) \/ k = Len(r.out) + 1
  BY ONLY <1>2, SMT
<1>4. /\ Len(r.out) + 1 \in 1 .. Len(t.out)
      /\ \A k \in 1 .. Len(r.out) : k \in 1 .. Len(t.out)
  BY ONLY <1>2, SMT
<1>5. \A x : Out(t, x) <=> Out(r, x) \/ \E i \in Positions : x \in b[i]
  BY <1>2, <1>3, <1>4, Zenon DEF Out
<1>6. ASSUME NEW k \in 1..Len(t.out), NEW l \in 1..Len(t.out), NEW i \in Positions, NEW j \in Positions,
             k < l \/ (k = l /\ i < j), NEW x \in t.out[k][i], NEW y \in t.out[l][j]
      PROVE  x.n < y.n
  <2>1. CASE k \in 1 .. Len(r.out) /\ l \in 1 .. Len(r.out)
    BY <1>2, <1>6, <2>1, Zenon DEF InOrder
  <2>2. CASE k \in 1 .. Len(r.out) /\ l = Len(r.out) + 1
    <3>1. Out(r, x) BY <1>2, <2>2, Zenon DEF Out
    <3>2. y \in b[j] BY <1>2, <2>2, Zenon
    <3> QED BY <3>1, <3>2, Zenon
  <2>3. CASE k = Len(r.out) + 1
    <3>1. l = Len(r.out) + 1 /\ i < j BY <1>2, <1>3, <1>6, <2>3, SMT
    <3>2. x.n = g + i /\ y.n = g + j BY <1>2, <2>3, <3>1, Zenon
    <3>3. i \in Int /\ j \in Int BY FecAssumption, SMT DEF Positions
    <3> QED BY <3>1, <3>2, <3>3, SMT
  <2> QED BY <1>3, <2>1, <2>2, <2>3, Zenon
<1> QED BY <1>5, <1>6, Zenon DEF InOrder, Emits

(* t is r with the group closed by emitting the batch b. *)
Closes(r, t, b) ==
  /\ t.base = {} /\ t.prev = r.base /\ t.parity = {} /\ t.slots = NoSlots
  /\ t.out = Append(r.out, b)

(* The batch is of the group at g. *)
Batch(b, g, Y) ==
  /\ b \in Batches /\ \E i \in Positions : b[i] # {}
  /\ \A i \in Positions : \A x \in b[i] : x.n = g + i /\ \A f \in Y : x.n < f

(* The group at g closes in order.                                           *)
Closing(r, X, Y, s, t, b, g) ==
  /\ r \in Receiver /\ Behind(r, X, s) /\ Y \subseteq X /\ Closes(r, t, b)
  /\ g \in Nat /\ r.base = {WrappingAdd(s, g)} /\ Batch(b, g, Y)
  /\ \A x : Out(r, x) => x.n < g

(* Closing a group leaves what was emitted behind what is to come.           *)
LEMMA CloseBehind ==
  ASSUME NEW r, NEW X, NEW Y, NEW s, NEW t, NEW b, NEW g, Closing(r, X, Y, s, t, b, g)
  PROVE  Behind(t, Y, s) /\ Emits(r, t, b)
<1> USE DEF Closing
<1>0. Positions \subseteq Nat BY FecAssumption, SMT DEF Positions
<1>1. ASSUME NEW x, NEW y, Out(r, x), NEW i \in Positions, y \in b[i] PROVE x.n < y.n
  <2>1. x.n < g /\ x.n \in Int /\ y.n = g + i /\ i \in Nat BY <1>0, <1>1, Zenon DEF Behind, Batch
  <2> QED BY <2>1, SMT
<1>2. g \in Int BY SMT
<1>a. InOrder(t) /\ Emits(r, t, b)
  <2>1. \A x, y : Out(r, x) /\ (\E i \in Positions : y \in b[i]) => x.n < y.n BY <1>1, Zenon
  <2>2. \A i \in Positions : \A x \in b[i] : x.n = g + i BY Zenon DEF Batch
  <2>3. b \in Batches /\ t.out = Append(r.out, b) /\ InOrder(r) BY Zenon DEF Batch, Closes, Behind
  <2>4. NextBatch(r, t, b, g) BY <1>2, <2>1, <2>2, <2>3, Zenon DEF NextBatch
  <2> QED BY <2>4, EmitInOrder, Zenon
<1>3. \A x : Out(t, x) <=> Out(r, x) \/ \E i \in Positions : x \in b[i] BY <1>a, Zenon DEF Emits
<1>4. ASSUME NEW x, Out(t, x) PROVE x.n \in Int /\ \A f \in Y : x.n < f
  <2>1. CASE Out(r, x) BY <2>1, Zenon DEF Behind
  <2>2. CASE \E i \in Positions : x \in b[i]
    <3>1. PICK i \in Positions : x \in b[i] BY <2>2
    <3>2. x.n = g + i /\ i \in Nat /\ \A f \in Y : x.n < f BY <1>0, <3>1, Zenon DEF Batch
    <3>3. x.n \in Int BY <3>2, SMT
    <3> QED BY <3>2, <3>3
  <2> QED BY <1>3, <1>4, <2>1, <2>2, Zenon
<1>5. \A h : ~Held(t, h) BY Zenon DEF Closes, Held, NoSlots
<1>6. ASSUME NEW y \in t.prev PROVE \E x, k : Out(t, x) /\ k \in 0 .. x.n /\ y = WrappingAdd(s, k)
  <2>1. y = WrappingAdd(s, g) BY Zenon DEF Closes
  <2>2. PICK i \in Positions : \E x \in b[i] : TRUE BY Zenon DEF Batch
  <2>3. PICK x \in b[i] : x.n = g + i BY <2>2, Zenon DEF Batch
  <2>4. g \in 0 .. x.n BY <1>0, <2>3, SMT
  <2> QED BY <1>3, <2>1, <2>3, <2>4, Zenon
<1> QED BY <1>a, <1>4, <1>5, <1>6, Zenon DEF Behind

(* take_group closes. *)
LEMMA TakeCloses ==
  ASSUME NEW r \in Receiver, NEW m \in Receiver, m.base = r.base, m.out = r.out
  PROVE  Closes(r, TakeGroup(m), m.slots)
<1>1. m.slots \in Batches BY Zenon DEF Receiver
<1> DEFINE e == Emit(m, m.slots)
<1>2. e \in Receiver /\ e.out = Append(m.out, m.slots) BY <1>1, EmitKeeps, Zenon
<1>3. TakeGroup(m) = [e EXCEPT !.prev = m.base, !.base = {}, !.parity = {}, !.slots = NoSlots]
  BY Zenon DEF TakeGroup
<1> HIDE DEF e
<1>4. /\ TakeGroup(m).base = {} /\ TakeGroup(m).prev = m.base /\ TakeGroup(m).parity = {}
      /\ TakeGroup(m).slots = NoSlots /\ TakeGroup(m).out = e.out
  BY <1>2, <1>3, Zenon DEF Receiver
<1> QED BY <1>2, <1>4, Zenon DEF Closes

(* flush: nothing, or the group closes with what it holds. *)
LEMMA FlushCloses ==
  ASSUME NEW r \in Receiver, Counting
  PROVE  /\ r.base = {} => Flush(r) = r
         /\ r.base # {} => Closes(r, Flush(r), r.slots)
<1> DEFINE m == [r EXCEPT !.lost = @ + Cardinality(Missing(r))]
<1>1. CASE r.base = {} BY <1>1, Zenon DEF Flush
<1>2. CASE r.base # {}
  <2>1. Flush(r) = TakeGroup(m) BY <1>2, Zenon DEF Flush
  <2>2. r.gs \in Nat BY FecAssumption, SMT DEF Receiver
  <2>3. Cardinality(Missing(r)) \in Nat BY <2>2, CountMissing, Zenon
  <2>4. m \in Receiver /\ m.base = r.base /\ m.out = r.out /\ m.slots = r.slots
    BY <2>2, <2>3 DEF Receiver
  <2> HIDE DEF m
  <2>5. Closes(r, TakeGroup(m), m.slots) BY <2>4, TakeCloses, Zenon
  <2> QED BY <1>2, <2>1, <2>4, <2>5, Zenon
<1> QED BY <1>1, <1>2

(* flush emits what is held, in order, before the groups to come.            *)
LEMMA FlushBehind ==
  ASSUME NEW r, NEW A, NEW P, NEW N, NEW s, Ctx(r, A, P, N, s), NEW X, NEW Y, Behind(r, X, s), Y \subseteq X,
         \A h : Held(r, h) => \A f \in Y : h.n < f
  PROVE  /\ Behind(Flush(r), Y, s)
         /\ \A x : Out(Flush(r), x) <=> Out(r, x) \/ Held(r, x)
         /\ Flush(r).base = {}
<1>1. r \in Receiver BY Zenon DEF Ctx, RxInv, RxType
<1>2. CASE r.base = {}
  <2>1. Flush(r) = r BY <1>1, <1>2, FlushCloses, Zenon DEF Ctx, Given
  <2>2. \A h : ~Held(r, h) BY <1>2, Zenon DEF Ctx, RxInv, ReceiverInv, Held, NoSlots
  <2>3. Behind(r, Y, s) BY Zenon DEF Behind
  <2> QED BY <1>2, <2>1, <2>2, <2>3, Zenon
<1>3. CASE r.base # {}
  <2>1. PICK g \in Nat : Shape(r, A, g, s) BY <1>3, BaseShape, Zenon
  <2>2. Closes(r, Flush(r), r.slots) BY <1>1, <1>3, FlushCloses, Zenon DEF Ctx, Given
  <2>3. r.slots \in Batches BY <1>1, Zenon DEF Receiver
  <2>4. Batch(r.slots, g, Y) BY <2>1, <2>3, Zenon DEF Batch, Shape, Held
  <2>5. ASSUME NEW x, Out(r, x) PROVE x.n < g
    <3>1. PICK i \in Positions : \E h \in r.slots[i] : TRUE BY <2>1, Zenon DEF Shape
    <3>2. PICK h \in r.slots[i] : GroupStart(h) = g BY <2>1, <3>1, Zenon DEF Shape
    <3>3. Held(r, h) BY <3>2, Zenon DEF Held
    <3> QED BY <2>5, <3>2, <3>3, Zenon DEF Behind
  <2>6. r.base = {WrappingAdd(s, g)} BY <2>1, Zenon DEF Shape
  <2>7. Behind(Flush(r), Y, s) /\ Emits(r, Flush(r), r.slots)
    <3>1. \A x : Out(r, x) => x.n < g BY <2>5, Zenon
    <3>2. Closing(r, X, Y, s, Flush(r), r.slots, g)
      BY <1>1, <2>1, <2>2, <2>4, <2>6, <3>1, Zenon DEF Closing
    <3> QED BY ONLY <3>2, CloseBehind, Zenon
  <2> QED BY <2>2, <2>7, Zenon DEF Held, Closes, Emits
<1> QED BY <1>2, <1>3
=============================================================================
