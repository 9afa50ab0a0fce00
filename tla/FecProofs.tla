----------------------------- MODULE FecProofs ------------------------------
(***************************************************************************)
(* The theorems about Fec.                                                 *)
(*                                                                         *)
(* On any network: the invariant of FecLemmas, with the properties that    *)
(* are its conjuncts.  On a path that neither reorders nor duplicates: a   *)
(* turn of audio_receive_loop has one of seven outcomes (Outcome), each of *)
(* which keeps the receiver in line with what is to come (OrderInv), lets  *)
(* a packet go out only with its whole group or when a later packet leaves *)
(* that group behind (Fates), mends every group that lost one datagram     *)
(* (Mended) and gives recovered packets their timestamp (InTime).          *)
(***************************************************************************)
EXTENDS FecLemmas

-----------------------------------------------------------------------------
(* One turn of audio_receive_loop on an ordered path. *)

(* A group in progress misses a packet, and two once its parity is in. *)
Tight(r) ==
  r.base # {} => /\ Missing(r) # {}
                 /\ r.parity # {} => \E i, j \in Missing(r) : i # j

(* The parity of the group in progress is kept once it arrived. *)
Kept(r, A) == \A q \in A : q.fec /\ r.base = {WrappingSub(q.seq, q.gs)} => r.parity # {}

(* Nothing is held once LAST_PACKET arrived. *)
Drained(r, A) == (\E p \in A : p.last) => r.base = {}

(* The datagram p is next, after A, and the receiver is in order. *)
Turn(r, A, P, N, s, X, Y, p) ==
  /\ Ctx(r, A, P, N, s) /\ p \in P /\ Coming(A, X, Y, p) /\ Runs(P) /\ Covers(P) /\ Ends(P)
  /\ Behind(r, X, s) /\ Tight(r) /\ Kept(r, A)

(* What is held when a packet of another group comes is before that group.   *)
LEMMA HeldBefore ==
  ASSUME NEW r, NEW A, NEW P, NEW N, NEW s, NEW X, NEW Y, NEW p, Turn(r, A, P, N, s, X, Y, p),
         ~p.fec, p.gs = 0 \/ r.base # {WrappingSub(p.seq, p.idx)}, NEW h, Held(r, h)
  PROVE  h.n < GroupStart(p) /\ \A f \in X : h.n < f
<1>1. PICK i \in Positions : h \in r.slots[i] BY Zenon DEF Held
<1>2. r.base # {} BY <1>1, Zenon DEF Turn, Ctx, RxInv, ReceiverInv, NoSlots
<1>3. PICK g \in Nat : Shape(r, A, g, s) BY <1>2, BaseShape, Zenon DEF Turn
<1>4. h \in A /\ ~h.fec /\ GroupStart(h) = g BY <1>1, <1>3, Zenon DEF Shape
<1>5. h.n < p.n /\ h \in P /\ p \in P BY <1>4, Zenon DEF Turn, Coming, Ctx
<1>6. h.n < GroupStart(p) \/ (p.gs > 0 /\ GroupStart(h) = GroupStart(p))
  BY <1>4, <1>5, Zenon DEF Turn, Runs
<1>7. ~(p.gs > 0 /\ GroupStart(h) = GroupStart(p))
  <2>1. ASSUME p.gs > 0, GroupStart(h) = GroupStart(p) PROVE FALSE
    <3>1. p.gs # 0 BY <2>1, SMT
    <3>2. Back(p) = p.idx BY Zenon DEF Back
    <3>a. GroupStart(p) = g BY <1>4, <2>1, Zenon
    <3>b. Ctx(r, A, P, N, s) BY Zenon DEF Turn
    <3>3. OfGroup(r, p) BY <1>3, <1>5, <2>1, <3>a, <3>b, SameStart, Zenon
    <3> QED BY <3>1, <3>2, <3>3, Zenon DEF OfGroup
  <2> QED BY <2>1, Zenon
<1>8. h.n < GroupStart(p) BY <1>6, <1>7, Zenon
<1>9. h.n \in Int /\ p.n \in Int BY <1>5, SMT DEF Turn, Ctx, Solids, Solid
<1>10. X \subseteq Int /\ \A f \in X : f = GroupStart(p) \/ p.n < f BY Zenon DEF Turn, Coming
<1>11. ASSUME NEW f \in X PROVE h.n < f
  <2>1. CASE f = GroupStart(p) BY <1>8, <2>1, Zenon
  <2>2. CASE p.n < f
    <3>1. f \in Int BY <1>10, Zenon
    <3> QED BY <1>5, <1>9, <2>2, <3>1, SMT
  <2> QED BY <1>10, <2>1, <2>2, Zenon
<1> QED BY <1>8, <1>11, Zenon

(* flush in a turn: what is held goes out, in order.                         *)
LEMMA FlushTurn ==
  ASSUME NEW r, NEW A, NEW P, NEW N, NEW s, NEW X, NEW Y, NEW p, Turn(r, A, P, N, s, X, Y, p),
         ~p.fec, p.gs = 0 \/ r.base # {WrappingSub(p.seq, p.idx)}
  PROVE  /\ Behind(Flush(r), X, s) /\ RxInv(Flush(r), A, N, s)
         /\ \A x : Out(Flush(r), x) <=> Out(r, x) \/ Held(r, x)
         /\ Flush(r).base = {} /\ \A x : ~Held(Flush(r), x)
<1>1. \A h : Held(r, h) => \A f \in X : h.n < f BY HeldBefore, Zenon
<1>2. Ctx(r, A, P, N, s) /\ Behind(r, X, s) BY Zenon DEF Turn
<1>3. /\ Behind(Flush(r), X, s) /\ Flush(r).base = {}
      /\ \A x : Out(Flush(r), x) <=> Out(r, x) \/ Held(r, x)
  BY <1>1, <1>2, FlushBehind, Zenon
<1>4. Given(A, N, s) BY <1>2, Zenon DEF Ctx, Given, PacketInv
<1>5. RxInv(Flush(r), A, N, s) BY <1>2, <1>4, FlushInv, Zenon DEF Ctx
<1>6. \A x : ~Held(Flush(r), x) BY <1>3, <1>5, Zenon DEF RxInv, ReceiverInv, Held, NoSlots
<1> QED BY <1>3, <1>5, <1>6, Zenon

(* A packet sent without FEC: what is held goes first. *)
LEMMA PlainTurn ==
  ASSUME NEW r, NEW A, NEW P, NEW N, NEW s, NEW X, NEW Y, NEW p, Turn(r, A, P, N, s, X, Y, p),
         ~p.fec, p.gs = 0
  PROVE  LET t == Emit(Flush(r), Single(p))
         IN /\ Behind(t, Y, s) /\ t.base = {}
            /\ \A x : Out(t, x) <=> Out(r, x) \/ Held(r, x) \/ x = p
<1> DEFINE f == Flush(r)
           t == Emit(f, Single(p))
<1>1. /\ Behind(f, X, s) /\ RxInv(f, A, N, s) /\ f.base = {}
      /\ \A x : Out(f, x) <=> Out(r, x) \/ Held(r, x)
      /\ \A x : ~Held(f, x)
  BY FlushTurn, Zenon
<1> HIDE DEF f
<1>2. f \in Receiver BY <1>1, Zenon DEF RxInv, RxType
<1>3. p \in P /\ p \in Packet BY Zenon DEF Turn, Ctx, Given
<1>4. p.idx \in Positions BY <1>3, Zenon DEF Packet
<1>5. /\ Single(p) \in Batches
      /\ \A x : (\E i \in Positions : x \in Single(p)[i]) <=> x = p
      /\ \A i \in Positions : \A x \in Single(p)[i] : x = p /\ i = p.idx
  BY <1>3, <1>4, Zenon DEF Single, Batches
<1>6. /\ t \in Receiver /\ t.out = Append(f.out, Single(p)) /\ t.slots = f.slots
      /\ t.base = f.base /\ t.prev = f.prev
  BY <1>2, <1>5, EmitKeeps, Zenon
<1> HIDE DEF t
<1>7. p.n \in Int /\ GroupStart(p) \in Int /\ p.n = GroupStart(p) + p.idx /\ GroupStart(p) <= p.n
  BY <1>3, SMT DEF Turn, Ctx, Solids, Solid
<1>8. \A i \in Positions : \A x \in Single(p)[i] : x.n = GroupStart(p) + i
  BY <1>5, <1>7, Zenon
<1>9. ASSUME NEW x, Out(f, x) PROVE x.n < p.n /\ x.n \in Int
  <2>1. x.n < GroupStart(p) /\ x.n \in Int BY <1>1, <1>9, Zenon DEF Behind, Turn, Coming
  <2> QED BY <1>7, <2>1, SMT
<1>10. InOrder(t) /\ Emits(f, t, Single(p))
  <2>1. \A x, y : Out(f, x) /\ (\E i \in Positions : y \in Single(p)[i]) => x.n < y.n
    BY <1>5, <1>9, Zenon
  <2>2. InOrder(f) BY <1>1, Zenon DEF Behind
  <2>3. NextBatch(f, t, Single(p), GroupStart(p))
    BY <1>2, <1>5, <1>6, <1>7, <1>8, <2>1, <2>2, Zenon DEF NextBatch
  <2> QED BY <2>3, EmitInOrder, Zenon
<1>11. \A x : Out(t, x) <=> Out(f, x) \/ x = p BY <1>5, <1>10, Zenon DEF Emits
<1>12. Y \subseteq X /\ \A y \in Y : p.n < y BY Zenon DEF Turn, Coming
<1>13. \A x : ~Held(t, x) BY <1>1, <1>6, Zenon DEF Held
<1>14. Behind(t, Y, s)
  <2>1. \A x : Out(t, x) => x.n \in Int /\ \A y \in Y : x.n < y
    BY <1>1, <1>7, <1>11, <1>12, Zenon DEF Behind
  <2>2. \A b \in t.prev : \E x, g : Out(t, x) /\ g \in 0 .. x.n /\ b = WrappingAdd(s, g)
    BY <1>1, <1>6, <1>11, Zenon DEF Behind
  <2> QED BY <1>10, <1>13, <2>1, <2>2, Zenon DEF Behind
<1> QED BY <1>1, <1>6, <1>11, <1>14, Zenon DEF t, f

(* feed of a data packet: what is left of the group before, and the packet  *)
(* stored in its own.                                                       *)
Left(r, p) == IF r.base = {WrappingSub(p.seq, p.idx)} THEN r ELSE Flush(r)

Taken(r, p) ==
  Store(IF r.base = {WrappingSub(p.seq, p.idx)} THEN r
        ELSE StartGroup(r, WrappingSub(p.seq, p.idx), p.gs), p)

(* u is f with the packet p in its group.                                    *)
Stored(f, u, p) ==
  /\ u.out = f.out /\ u.prev = f.prev /\ u.recovered = f.recovered /\ u.lost = f.lost
  /\ u.base = {WrappingSub(p.seq, p.idx)} /\ u.gs = p.gs /\ u.parity = {}
  /\ \A i \in Positions : u.slots[i] = IF i = p.idx THEN {p} ELSE f.slots[i]

(* No parity of the group of p came before p. *)
LEMMA ParityAfter ==
  ASSUME NEW r, NEW A, NEW P, NEW N, NEW s, NEW X, NEW Y, NEW p, Turn(r, A, P, N, s, X, Y, p),
         ~p.fec, p.gs > 0, NEW q \in A, q.fec
  PROVE  WrappingSub(q.seq, q.gs) # WrappingSub(p.seq, p.idx)
<1> SUFFICES ASSUME WrappingSub(q.seq, q.gs) = WrappingSub(p.seq, p.idx) PROVE FALSE OBVIOUS
<1>1. q \in P /\ p \in P /\ q.n < p.n /\ Given(P, N, s) BY Zenon DEF Turn, Ctx, Coming
<1>2. /\ q.n \in Nat /\ GroupStart(q) \in Nat /\ q.gs >= 2 /\ q.gs \in Nat /\ GroupStart(q) + q.gs = q.n
      /\ p.n \in Nat
  BY <1>1, SMT DEF Turn, Ctx, Solids, Solid
<1>3. q.gs > 0 /\ p.n > q.n BY <1>1, <1>2, SMT
<1>4. GroupStart(p) = GroupStart(q) BY <1>1, <1>3, SameGroup, Zenon
<1>5. GroupStart(p) > q.n BY <1>1, <1>3, Zenon DEF Turn, Covers
<1> QED BY <1>2, <1>4, <1>5, SMT

(* A further arrival takes nothing from the receiver's invariant.            *)
LEMMA MoreArrived ==
  ASSUME NEW r, NEW A, NEW N, NEW s, NEW p, RxInv(r, A, N, s)
  PROVE  RxInv(r, A \cup {p}, N, s)
BY SMTT(60) DEF RxInv, ReceiverInv

(* feed of a data packet stores it in its group.                             *)
LEMMA DataTaken ==
  ASSUME NEW r, NEW A, NEW P, NEW N, NEW s, NEW X, NEW Y, NEW p, Turn(r, A, P, N, s, X, Y, p),
         ~p.fec, p.gs > 0
  PROVE  /\ Stored(Left(r, p), Taken(r, p), p)
         /\ Ctx(Taken(r, p), A \cup {p}, P, N, s)
         /\ Behind(Left(r, p), X, s) /\ RxInv(Left(r, p), A, N, s)
<1> DEFINE b == WrappingSub(p.seq, p.idx)
           u == Taken(r, p)
<1>1. p \in P /\ p \in Packet /\ p.idx \in Positions /\ p.gs \in 0 .. MaxGroup
  BY Zenon DEF Turn, Ctx, Given, Packet
<1>2. RxInv(r, A, N, s) /\ Given(P, N, s) /\ A \subseteq P /\ Solids(P, N) /\ Behind(r, X, s)
  BY Zenon DEF Turn, Ctx
<1>3. Given(A \cup {p}, N, s) /\ p \in A \cup {p} BY <1>1, <1>2, Zenon DEF Given, PacketInv
<1>4. RxInv(r, A \cup {p}, N, s) BY <1>2, MoreArrived, Zenon
<1>5. r \in Receiver /\ r.slots \in Batches BY <1>2, Zenon DEF RxInv, RxType, Receiver
<1>6. p.idx < p.gs
  <2>1. p.gs # 0 BY SMT
  <2> QED BY <1>1, <1>2, <2>1, Zenon DEF Solids, Solid
<1>7. CASE r.base = {b}
  <2>1. Left(r, p) = r /\ u = Store(r, p) BY <1>7, Zenon DEF Left, Taken
  <2>2. RxInv(u, A \cup {p}, N, s) BY <1>3, <1>4, <1>7, <2>1, StoreSame, Zenon
  <2>3. r.parity = {}
    <3>1. ASSUME NEW x \in r.parity PROVE FALSE
      <4>1. PICK q \in A : q.fec /\ r.base = {WrappingSub(q.seq, q.gs)}
        BY <1>2, Zenon DEF RxInv, ReceiverInv
      <4>2. WrappingSub(q.seq, q.gs) # b BY <4>1, ParityAfter, Zenon
      <4> QED BY <1>7, <4>1, <4>2, Zenon
    <3> QED BY <3>1, Zenon
  <2>4. p.gs = r.gs
    <3>1. r.base # {} BY <1>7, Zenon
    <3>2. PICK i \in Positions : \E h \in r.slots[i] : TRUE
      BY <1>2, <3>1, Zenon DEF RxInv, ReceiverInv
    <3>3. PICK h \in r.slots[i] : TRUE BY <3>2
    <3>4. /\ h \in A /\ ~h.fec /\ h.idx = i /\ h.gs = r.gs /\ r.base = {WrappingSub(h.seq, i)} /\ r.gs >= 2
      BY <1>2, <3>1, <3>3, Zenon DEF RxInv, ReceiverInv
    <3>5. WrappingSub(p.seq, p.idx) = WrappingSub(h.seq, h.idx) BY <1>7, <3>4, Zenon
    <3>6. r.gs \in Nat BY <1>5, FecAssumption, SMT DEF Receiver
    <3>7. h.gs > 0 BY <3>4, <3>6, SMT
    <3>8. h \in P BY <1>2, <3>4, Zenon
    <3>9. p.gs = h.gs BY <1>1, <1>2, <3>4, <3>5, <3>7, <3>8, SameGroup, SMT
    <3> QED BY <3>4, <3>9, Zenon
  <2>5. Store(r, p) = [r EXCEPT !.slots[p.idx] = {p}] BY <1>6, <2>4, Zenon DEF Store
  <2>6. /\ u.out = r.out /\ u.prev = r.prev /\ u.recovered = r.recovered /\ u.lost = r.lost
        /\ u.base = r.base /\ u.gs = r.gs /\ u.parity = r.parity
        /\ u.slots = [r.slots EXCEPT ![p.idx] = {p}]
    BY <1>5, <2>1, <2>5, Zenon DEF Receiver
  <2>7. \A i \in Positions : u.slots[i] = IF i = p.idx THEN {p} ELSE r.slots[i]
    BY <1>1, <1>5, <2>6, Zenon DEF Batches
  <2> HIDE DEF u
  <2>8. Stored(r, u, p) BY <1>7, <2>3, <2>4, <2>6, <2>7, Zenon DEF Stored
  <2>9. Ctx(u, A \cup {p}, P, N, s) BY <1>1, <1>2, <2>2, Zenon DEF Ctx
  <2> QED BY <1>2, <2>1, <2>8, <2>9, Zenon DEF u
<1>8. CASE r.base # {b}
  <2> DEFINE f == Flush(r)
             w == StartGroup(r, b, p.gs)
  <2>1. Left(r, p) = f /\ u = Store(w, p) BY <1>8, Zenon DEF Left, Taken
  <2>2. RxInv(u, A \cup {p}, N, s) BY <1>3, <1>4, <1>8, <2>1, StoreFresh, Zenon
  <2>3. Behind(f, X, s) /\ RxInv(f, A, N, s) /\ f.base = {} BY <1>8, FlushTurn, Zenon
  <2>4. w = [f EXCEPT !.base = {b}, !.gs = p.gs, !.parity = {}, !.slots = NoSlots]
    BY Zenon DEF StartGroup
  <2> HIDE DEF f
  <2>5. f \in Receiver /\ f.slots = NoSlots BY <2>3, Zenon DEF RxInv, RxType, ReceiverInv
  <2> HIDE DEF w
  <2>6. /\ w.out = f.out /\ w.prev = f.prev /\ w.recovered = f.recovered /\ w.lost = f.lost
        /\ w.base = {b} /\ w.gs = p.gs /\ w.parity = {} /\ w.slots = NoSlots
        /\ w = [base |-> {b}, prev |-> f.prev, slots |-> NoSlots, gs |-> p.gs, parity |-> {},
                recovered |-> f.recovered, lost |-> f.lost, out |-> f.out]
    BY <2>4, <2>5, Zenon DEF Receiver
  <2>7. Store(w, p) = [w EXCEPT !.slots[p.idx] = {p}] BY <1>6, <2>6, Zenon DEF Store
  <2>8. /\ u.out = f.out /\ u.prev = f.prev /\ u.recovered = f.recovered /\ u.lost = f.lost
        /\ u.base = {b} /\ u.gs = p.gs /\ u.parity = {}
        /\ u.slots = [NoSlots EXCEPT ![p.idx] = {p}]
    BY <2>1, <2>6, <2>7, Zenon
  <2>9. \A i \in Positions : u.slots[i] = IF i = p.idx THEN {p} ELSE f.slots[i]
    BY <1>1, <2>5, <2>8, Zenon DEF NoSlots
  <2> HIDE DEF u
  <2>10. Stored(f, u, p) BY <2>8, <2>9, Zenon DEF Stored
  <2>11. Ctx(u, A \cup {p}, P, N, s) BY <1>1, <1>2, <2>2, Zenon DEF Ctx
  <2> QED BY <2>1, <2>3, <2>10, <2>11, Zenon DEF u
<1> QED BY <1>7, <1>8, Zenon

(* Storing a packet emits nothing but the group before.                      *)
LEMMA DataBehind ==
  ASSUME NEW r, NEW A, NEW P, NEW N, NEW s, NEW X, NEW Y, NEW p, Turn(r, A, P, N, s, X, Y, p),
         ~p.fec, p.gs > 0
  PROVE  /\ Behind(Taken(r, p), X, s) /\ Kept(Taken(r, p), A \cup {p})
         /\ \A x : Out(Taken(r, p), x) <=> Out(Left(r, p), x)
         /\ \A x : Held(Taken(r, p), x) => x = p \/ Held(Left(r, p), x)
         /\ Held(Taken(r, p), p)
<1>1. PICK f : f = Left(r, p) OBVIOUS
<1>2. PICK u : u = Taken(r, p) OBVIOUS
<1>3. Stored(f, u, p) /\ Behind(f, X, s) BY <1>1, <1>2, DataTaken, Zenon
<1>4. \A x : Out(u, x) <=> Out(f, x) BY <1>3, Zenon DEF Stored, Out
<1>5. \A x : Held(u, x) => x = p \/ Held(f, x) BY <1>3, Zenon DEF Stored, Held
<1>6. p.idx \in Positions BY Zenon DEF Turn, Ctx, Given, Packet
<1>7. Held(u, p) BY <1>3, <1>6, Zenon DEF Stored, Held
<1>8. GroupStart(p) \in X BY Zenon DEF Turn, Coming
<1>9. InOrder(u) BY <1>3, Zenon DEF Behind, Stored, InOrder
<1>10. Behind(u, X, s)
  <2>1. \A x, h : Out(u, x) /\ Held(u, h) => x.n < GroupStart(h)
    BY <1>3, <1>4, <1>5, <1>8, Zenon DEF Behind
  <2>2. \A b \in u.prev : \E x, g : Out(u, x) /\ g \in 0 .. x.n /\ b = WrappingAdd(s, g)
    <3>1. u.prev = f.prev BY <1>3, Zenon DEF Stored
    <3>2. \A b \in f.prev : \E x, g : Out(f, x) /\ g \in 0 .. x.n /\ b = WrappingAdd(s, g)
      BY <1>3, Zenon DEF Behind
    <3> QED BY ONLY <1>4, <3>1, <3>2, Zenon
  <2>3. \A x : Out(u, x) => x.n \in Int /\ \A y \in X : x.n < y
    BY <1>3, <1>4, Zenon DEF Behind
  <2> QED BY <1>9, <2>1, <2>2, <2>3, Zenon DEF Behind
<1>11. Kept(u, A \cup {p})
  <2>1. ASSUME NEW q \in A, q.fec PROVE u.base # {WrappingSub(q.seq, q.gs)}
    <3>1. WrappingSub(q.seq, q.gs) # WrappingSub(p.seq, p.idx) BY <2>1, ParityAfter, Zenon
    <3>2. u.base = {WrappingSub(p.seq, p.idx)} BY <1>3, Zenon DEF Stored
    <3> QED BY <3>1, <3>2, Zenon
  <2> QED BY <2>1, Zenon DEF Kept
<1> QED BY <1>1, <1>2, <1>4, <1>5, <1>7, <1>10, <1>11, Zenon

(* p is the last packet held.                                                *)
HeldUpTo(u, A, p) == \A h : Held(u, h) => h \in A \cup {p} /\ h.n \in Int /\ h.n <= p.n

(* The group of p once p is stored. *)
LEMMA DataShape ==
  ASSUME NEW r, NEW A, NEW P, NEW N, NEW s, NEW X, NEW Y, NEW p, Turn(r, A, P, N, s, X, Y, p),
         ~p.fec, p.gs > 0
  PROVE  /\ Shape(Taken(r, p), A \cup {p}, GroupStart(p), s) /\ Taken(r, p).gs = p.gs
         /\ HeldUpTo(Taken(r, p), A, p)
<1>1. PICK u : u = Taken(r, p) OBVIOUS
<1>2. Stored(Left(r, p), u, p) /\ Ctx(u, A \cup {p}, P, N, s) BY <1>1, DataTaken, Zenon
<1>3. u.base = {WrappingSub(p.seq, p.idx)} /\ u.gs = p.gs BY <1>2, Zenon DEF Stored
<1>4. PICK g \in Nat : Shape(u, A \cup {p}, g, s)
  <2>1. u.base # {} BY <1>3, Zenon
  <2> QED BY <1>2, <2>1, BaseShape, Zenon
<1>5. Held(u, p) BY <1>1, DataBehind, Zenon
<1>6. GroupStart(p) = g BY <1>4, <1>5, Zenon DEF Shape, Held
<1>7. ASSUME NEW h, Held(u, h) PROVE h \in A \cup {p} /\ h.n \in Int /\ h.n <= p.n
  <2>1. h \in A \cup {p} BY <1>4, <1>7, Zenon DEF Shape, Held
  <2>2. \A x \in P : x.n \in Int BY SMT DEF Turn, Ctx, Solids, Solid
  <2>3. h = p \/ h.n < p.n BY <2>1, Zenon DEF Turn, Coming
  <2>4. h \in P /\ p \in P BY <2>1, Zenon DEF Turn, Ctx
  <2> QED BY <2>1, <2>2, <2>3, <2>4, SMT
<1>8. HeldUpTo(u, A, p) BY <1>7, Zenon DEF HeldUpTo
<1> QED BY <1>1, <1>3, <1>4, <1>6, <1>8, Zenon

(* What was emitted is before the group being assembled.                     *)
LEMMA AheadOfGroup ==
  ASSUME NEW r, NEW X, NEW s, Behind(r, X, s), NEW A, NEW g, Shape(r, A, g, s)
  PROVE  \A x : Out(r, x) => x.n < g
<1>1. PICK i \in Positions : \E h \in r.slots[i] : TRUE BY Zenon DEF Shape
<1>2. PICK h \in r.slots[i] : GroupStart(h) = g BY <1>1, Zenon DEF Shape
<1>3. Held(r, h) BY <1>2, Zenon DEF Held
<1> QED BY <1>2, <1>3, Zenon DEF Behind

(* A group all of whose packets are in is emitted in order. *)
LEMMA CompleteTurn ==
  ASSUME NEW r, NEW A, NEW P, NEW N, NEW s, NEW X, NEW Y, NEW p, Turn(r, A, P, N, s, X, Y, p),
         ~p.fec, p.gs > 0, Missing(Taken(r, p)) = {}
  PROVE  /\ Behind(TakeGroup(Taken(r, p)), Y, s) /\ TakeGroup(Taken(r, p)).base = {}
         /\ Emits(Taken(r, p), TakeGroup(Taken(r, p)), Taken(r, p).slots)
<1>1. PICK u : u = Taken(r, p) OBVIOUS
<1>2. PICK g : g = GroupStart(p) OBVIOUS
<1>3. /\ Shape(u, A \cup {p}, g, s) /\ u.gs = p.gs
      /\ HeldUpTo(u, A, p)
  <2>1. /\ Shape(Taken(r, p), A \cup {p}, GroupStart(p), s) /\ Taken(r, p).gs = p.gs
        /\ HeldUpTo(Taken(r, p), A, p)
    BY ONLY Turn(r, A, P, N, s, X, Y, p), ~p.fec, p.gs > 0, DataShape, Zenon
  <2> QED BY ONLY <1>1, <1>2, <2>1, Zenon
<1>4. Behind(u, X, s) BY <1>1, DataBehind, Zenon
<1>5. RxInv(u, A \cup {p}, N, s) BY <1>1, DataTaken, Zenon DEF Ctx
<1>6. u \in Receiver /\ u.slots \in Batches BY <1>5, Zenon DEF RxInv, RxType, Receiver
<1>7. ASSUME NEW i \in 0 .. p.gs - 1 PROVE \E a \in A \cup {p} : a.n = g + i
  <2>1. i \in Positions
    <3>1. u.gs \in Nat /\ u.gs <= MaxGroup BY <1>3, Zenon DEF Shape
    <3> QED BY <1>3, <3>1, FecAssumption, SMT DEF Positions
  <2>2. u.slots[i] # {} BY <1>1, <1>3, Zenon DEF Missing
  <2>3. PICK h \in u.slots[i] : TRUE BY <2>2, Zenon
  <2> QED BY <1>3, <2>1, <2>3, Zenon DEF Shape
<1>8. Y \subseteq X /\ X \subseteq Int BY Zenon DEF Turn, Coming
<1>9. ASSUME NEW f \in Y PROVE p.n < f
  <2>1. \/ p.n < f
        \/ \E i \in 0 .. p.gs - 1 : \A a \in A \cup {p} : a.n # g + i
    BY <1>2, Zenon DEF Turn, Coming
  <2> QED BY <1>7, <2>1, Zenon
<1>10. ASSUME NEW h, Held(u, h), NEW f \in Y PROVE h.n < f
  <2>1. p.n < f /\ f \in Int /\ h.n \in Int /\ h.n <= p.n
    BY <1>3, <1>8, <1>9, <1>10, Zenon DEF HeldUpTo
  <2>2. p.n \in Int BY SMT DEF Turn, Ctx, Solids, Solid
  <2> QED BY <2>1, <2>2, SMT
<1>11. Batch(u.slots, g, Y) BY <1>3, <1>6, <1>10, Zenon DEF Batch, Shape, Held
<1>12. Closes(u, TakeGroup(u), u.slots) BY <1>6, TakeCloses, Zenon
<1>13. \A x : Out(u, x) => x.n < g BY <1>3, <1>4, AheadOfGroup, Zenon
<1>14. g \in Nat /\ u.base = {WrappingAdd(s, g)} BY <1>3, Zenon DEF Shape
<1>15. Closing(u, X, Y, s, TakeGroup(u), u.slots, g)
  BY <1>4, <1>6, <1>8, <1>11, <1>12, <1>13, <1>14, Zenon DEF Closing
<1>16. Behind(TakeGroup(u), Y, s) /\ Emits(u, TakeGroup(u), u.slots)
  BY ONLY <1>15, CloseBehind, Zenon
<1> QED BY <1>1, <1>12, <1>16, Zenon DEF Closes

(* On LAST_PACKET the group is emitted with what there is of it. *)
LEMMA LastTurn ==
  ASSUME NEW r, NEW A, NEW P, NEW N, NEW s, NEW X, NEW Y, NEW p, Turn(r, A, P, N, s, X, Y, p),
         ~p.fec, p.gs > 0, p.last
  PROVE  /\ Behind(Flush(Taken(r, p)), Y, s) /\ Flush(Taken(r, p)).base = {}
         /\ \A x : Out(Flush(Taken(r, p)), x) <=> Out(Taken(r, p), x) \/ Held(Taken(r, p), x)
<1>1. PICK u : u = Taken(r, p) OBVIOUS
<1>2. Behind(u, X, s) BY <1>1, DataBehind, Zenon
<1>3. Ctx(u, A \cup {p}, P, N, s) BY <1>1, DataTaken, Zenon
<1>4. Y = {} /\ Y \subseteq X BY Zenon DEF Turn, Coming
<1>5. \A h : Held(u, h) => \A f \in Y : h.n < f BY <1>4, Zenon
<1>6. /\ Behind(Flush(u), Y, s) /\ Flush(u).base = {}
      /\ \A x : Out(Flush(u), x) <=> Out(u, x) \/ Held(u, x)
  BY <1>2, <1>3, <1>4, <1>5, FlushBehind, Zenon
<1> QED BY <1>1, <1>6, Zenon

-----------------------------------------------------------------------------
(* The parity packet. *)

(* try_complete: the parity is noted, and the packet missing rebuilt.        *)
WithParity(r, p) == [r EXCEPT !.parity = {p.payload}]

Rebuilt(r, p, idx) == Synthesize(WithParity(r, p), idx, XorAll(p.payload, r.slots))

Repaired(r, p, idx) ==
  [WithParity(r, p) EXCEPT !.slots[idx] = {Rebuilt(r, p, idx)}, !.recovered = @ + 1]

(* synthesize_header gives the missing packet its number.                    *)
LEMMA SynthesizeNumber ==
  ASSUME NEW r, NEW A, NEW g, NEW s, Shape(r, A, g, s), NEW idx \in Int, NEW payload,
         Counting
  PROVE  LET y == Synthesize(r, idx, payload)
         IN y.n = g + idx /\ y.idx = idx /\ y.gs = r.gs /\ ~y.fec /\ ~y.last
<1> DEFINE i0 == First(Known(r))
           h0 == CHOOSE h \in r.slots[i0] : TRUE
           y == Synthesize(r, idx, payload)
<1>1. PICK i \in Positions : r.slots[i] # {} BY Zenon DEF Shape
<1>2. i < r.gs /\ r.gs \in Nat BY <1>1, Zenon DEF Shape
<1>3. i \in 0 .. r.gs - 1 BY <1>2, FecAssumption, SMT DEF Positions
<1>4. i \in Known(r) BY <1>1, <1>3, Zenon DEF Known
<1>5. Known(r) \subseteq 0 .. r.gs - 1 BY Zenon DEF Known
<1>6. Known(r) \subseteq Nat /\ Known(r) \subseteq Positions
  <2>1. r.gs <= MaxGroup BY Zenon DEF Shape
  <2> QED BY <1>2, <1>5, <2>1, FecAssumption, SMT DEF Positions
<1>7. i0 \in Known(r) BY <1>4, <1>6, FirstOf, Zenon
<1>8. h0 \in r.slots[i0] BY <1>7, Zenon DEF Known
<1>9. y.n = h0.n + (idx - i0) /\ y.idx = idx /\ y.gs = r.gs /\ y.fec = FALSE /\ y.last = FALSE
  BY Zenon DEF Synthesize
<1> HIDE DEF i0, h0, y
<1>10. h0.n = g + i0 /\ g \in Nat /\ i0 \in Nat BY <1>6, <1>7, <1>8, Zenon DEF Shape
<1>11. y.n = g + idx BY <1>9, <1>10, SMT
<1> QED BY <1>9, <1>11, Zenon DEF y

(* The receiver with the parity of its group. *)
LEMMA ParityKept ==
  ASSUME NEW r, NEW A, NEW P, NEW N, NEW s, NEW X, NEW Y, NEW p, Turn(r, A, P, N, s, X, Y, p),
         p.fec, OfGroup(r, p)
  PROVE  LET m == WithParity(r, p)
         IN /\ m \in Receiver /\ m.base = r.base /\ m.prev = r.prev /\ m.out = r.out /\ m.gs = r.gs
            /\ m.slots = r.slots /\ m.parity = {p.payload} /\ m.recovered = r.recovered
            /\ m.lost = r.lost /\ RxInv(m, A \cup {p}, N, s) /\ Ctx(m, A \cup {p}, P, N, s)
            /\ Missing(m) = Missing(r) /\ Behind(m, X, s)
            /\ Shape(m, A \cup {p}, GroupStart(p), s) /\ Shape(r, A, GroupStart(p), s)
<1> DEFINE m == WithParity(r, p)
<1>a. r.base = {WrappingSub(p.seq, p.gs)} BY Zenon DEF OfGroup, Back
<1>0. p \in P /\ Ctx(r, A, P, N, s) /\ RxInv(r, A, N, s) /\ Given(P, N, s) /\ A \subseteq P /\ Solids(P, N)
  BY Zenon DEF Turn, Ctx
<1>1. r \in Receiver /\ p.payload \in SUBSET Nat BY <1>0, Zenon DEF RxInv, RxType, Given, Packet
<1>2. /\ m \in Receiver /\ m.base = r.base /\ m.prev = r.prev /\ m.out = r.out /\ m.gs = r.gs
      /\ m.slots = r.slots /\ m.parity = {p.payload} /\ m.recovered = r.recovered
      /\ m.lost = r.lost
  BY <1>1, Zenon DEF WithParity, Receiver
<1> HIDE DEF m
<1>3. RxInv(r, A \cup {p}, N, s) BY <1>0, MoreArrived, Zenon
<1>4. RxInv(m, A \cup {p}, N, s)
  <2>1. RxType(m) BY <1>2, <1>3, Zenon DEF RxInv, RxType, AtMostOne
  <2>2. ReceiverInv(m, A \cup {p})
    <3>1. m.base # {} /\ r.base # {} BY <1>2, <1>a, Zenon
    <3>2. \A x \in m.parity : \E q \in A \cup {p} :
             q.fec /\ q.payload = x /\ m.base = {WrappingSub(q.seq, q.gs)}
      BY <1>2, <1>a, Zenon
    <3>3. /\ m.gs >= 2
          /\ \E i \in Positions : m.slots[i] # {}
          /\ \A i \in Positions : \A h \in m.slots[i] :
               /\ h \in A \cup {p} /\ ~h.fec /\ h.idx = i /\ h.gs = m.gs /\ i < m.gs
               /\ m.base = {WrappingSub(h.seq, i)}
      BY <1>2, <1>3, <3>1, SMT DEF RxInv, ReceiverInv
    <3> QED BY <3>1, <3>2, <3>3, Zenon DEF ReceiverInv
  <2>3. Genuine(m, N, s) BY <1>2, <1>3, SMT DEF RxInv, Genuine
  <2> QED BY <2>1, <2>2, <2>3, Zenon DEF RxInv
<1>5. Ctx(m, A \cup {p}, P, N, s) BY <1>0, <1>4, Zenon DEF Ctx
<1>6. Missing(m) = Missing(r) BY <1>2, Zenon DEF Missing
<1>7. Behind(m, X, s)
  <2>1. Behind(r, X, s) BY Zenon DEF Turn
  <2>2. \A x : Out(m, x) <=> Out(r, x) BY <1>2, Zenon DEF Out
  <2>3. \A x : Held(m, x) <=> Held(r, x) BY <1>2, Zenon DEF Held
  <2>4. InOrder(m) BY <1>2, <2>1, Zenon DEF InOrder, Behind
  <2> QED BY <1>2, <2>1, <2>2, <2>3, <2>4, Zenon DEF Behind
<1>8. PICK g \in Nat : Shape(r, A, g, s)
  <2>1. r.base # {} BY <1>a, Zenon
  <2> QED BY <1>0, <2>1, BaseShape, Zenon
<1>9. GroupStart(p) = g
  <2>1. p.gs > 0
    <3>1. p.gs \in Nat /\ p.gs >= 2 BY <1>0, Zenon DEF Solids, Solid
    <3> QED BY <3>1, SMT
  <2>3. OfGroup(r, p) <=> GroupStart(p) = g 
    <3>1. p \in P /\ Ctx(r, A, P, N, s) BY <1>0
    <3> QED BY ONLY <1>8, <2>1, <3>1, SameStart, SMT
  <2> QED BY <2>3, Zenon
<1>10. Shape(m, A \cup {p}, g, s) BY <1>2, <1>8, SMT DEF Shape
<1> QED BY <1>2, <1>4, <1>5, <1>6, <1>7, <1>8, <1>9, <1>10, Zenon DEF m

(* One packet is missing.                                                    *)
OnlyMissing(r, idx) == Missing(r) = {idx}

(* m has the group of r mended, and t is m closed.                           *)
Mended1(r, m, t, p, idx) ==
  /\ m \in Receiver /\ m.base = r.base /\ m.out = r.out /\ m.gs = r.gs
  /\ m.recovered = r.recovered + 1 /\ m.lost = r.lost
  /\ t.recovered = m.recovered /\ t.lost = m.lost
  /\ m.slots = [r.slots EXCEPT ![idx] = {Rebuilt(r, p, idx)}]
  /\ \A i \in Positions : m.slots[i] = IF i = idx THEN {Rebuilt(r, p, idx)} ELSE r.slots[i]
  /\ idx \in Positions /\ idx \in 0 .. r.gs - 1

MendFacts(r, p, idx, m, t, y) ==
  /\ Emits(r, t, m.slots) /\ Mended1(r, m, t, p, idx)
  /\ y.n = GroupStart(p) + idx /\ y.gs = r.gs /\ y \in Packet

(* The parity and the receiver agree on the size of the group.               *)
LEMMA SizeOfGroup ==
  ASSUME NEW r, NEW A, NEW P, NEW N, NEW s, NEW X, NEW Y, NEW p, Turn(r, A, P, N, s, X, Y, p),
         p.fec, OfGroup(r, p)
  PROVE  /\ r.gs = p.gs /\ GroupStart(p) + r.gs = p.n /\ p.payload = GroupStart(p) .. p.n - 1
         /\ GroupStart(p) \in Nat /\ r.gs \in Nat /\ r.gs >= 2 /\ r.gs <= MaxGroup /\ p.n \in Nat
<1>1. Shape(r, A, GroupStart(p), s) BY ParityKept, Zenon
<1>2. PICK i \in Positions : \E h \in r.slots[i] : TRUE BY <1>1, Zenon DEF Shape
<1>3. PICK h \in r.slots[i] : h \in A /\ h.gs = r.gs /\ h.gs > 0 /\ GroupStart(h) = GroupStart(p)
  BY <1>1, <1>2, Zenon DEF Shape
<1>4. p \in P /\ h \in P BY <1>3, Zenon DEF Turn, Ctx
<1>5. /\ p.gs \in Nat /\ p.gs >= 2 /\ GroupStart(p) + p.gs = p.n /\ p.payload = GroupStart(p) .. p.n - 1
      /\ p.n \in 0 .. N - 1 /\ GroupStart(p) \in Nat
  BY <1>4, Zenon DEF Turn, Ctx, Solids, Solid
<1>6. p.gs > 0 /\ p.n \in Nat BY <1>5, SMT
<1>7. p.gs = h.gs BY <1>3, <1>4, <1>6, Zenon DEF Turn, Ctx, Given, PacketInv
<1> QED BY <1>1, <1>3, <1>5, <1>6, <1>7, Zenon DEF Shape

(* A lost packet rebuilt from the parity goes out with its group. *)
LEMMA RepairTurn ==
  ASSUME NEW r, NEW A, NEW P, NEW N, NEW s, NEW X, NEW Y, NEW p, Turn(r, A, P, N, s, X, Y, p),
         p.fec, OfGroup(r, p), NEW idx, OnlyMissing(r, idx)
  PROVE  LET m == Repaired(r, p, idx)
             t == TakeGroup(m)
         IN /\ Behind(t, Y, s) /\ t.base = {}
            /\ MendFacts(r, p, idx, m, t, Rebuilt(r, p, idx))
<1>1. PICK w : w = WithParity(r, p) OBVIOUS
<1>2. PICK g : g = GroupStart(p) OBVIOUS
<1>3. PICK y : y = Rebuilt(r, p, idx) OBVIOUS
<1>4. PICK m : m = Repaired(r, p, idx) OBVIOUS
<1>5. /\ w \in Receiver /\ w.base = r.base /\ w.out = r.out /\ w.gs = r.gs
      /\ w.slots = r.slots /\ w.parity = {p.payload} /\ w.recovered = r.recovered /\ w.lost = r.lost
      /\ RxInv(w, A \cup {p}, N, s) /\ Missing(w) = Missing(r)
      /\ Shape(w, A \cup {p}, g, s) /\ Shape(r, A, g, s)
  <2>1. LET v == WithParity(r, p)
        IN /\ v \in Receiver /\ v.base = r.base /\ v.prev = r.prev /\ v.out = r.out /\ v.gs = r.gs
           /\ v.slots = r.slots /\ v.parity = {p.payload} /\ v.recovered = r.recovered
           /\ v.lost = r.lost /\ RxInv(v, A \cup {p}, N, s) /\ Ctx(v, A \cup {p}, P, N, s)
           /\ Missing(v) = Missing(r) /\ Behind(v, X, s)
           /\ Shape(v, A \cup {p}, GroupStart(p), s) /\ Shape(r, A, GroupStart(p), s)
    BY ONLY Turn(r, A, P, N, s, X, Y, p), p.fec, OfGroup(r, p), ParityKept, Zenon
  <2> QED BY ONLY <1>1, <1>2, <2>1, SMT
<1>6. /\ r.gs = p.gs /\ g + r.gs = p.n /\ g \in Nat /\ r.gs \in Nat /\ r.gs <= MaxGroup /\ p.n \in Nat
  <2>1. /\ r.gs = p.gs /\ GroupStart(p) + r.gs = p.n /\ p.payload = GroupStart(p) .. p.n - 1
        /\ GroupStart(p) \in Nat /\ r.gs \in Nat /\ r.gs >= 2 /\ r.gs <= MaxGroup /\ p.n \in Nat
    BY ONLY Turn(r, A, P, N, s, X, Y, p), p.fec, OfGroup(r, p), SizeOfGroup, Zenon
  <2> QED BY ONLY <1>2, <2>1, SMT
<1>7. idx \in 0 .. r.gs - 1 BY Zenon DEF Missing, OnlyMissing
<1>8. idx \in Positions /\ idx \in Int /\ Positions \subseteq Nat
  BY <1>6, <1>7, FecAssumption, SMT DEF Positions
<1>9. y = Synthesize(w, idx, XorAll(p.payload, w.slots)) BY <1>1, <1>3, <1>5, Zenon DEF Rebuilt
<1>10. y.n = g + idx /\ y.gs = r.gs
  <2>1. LET v == Synthesize(w, idx, XorAll(p.payload, w.slots))
        IN v.n = g + idx /\ v.idx = idx /\ v.gs = w.gs /\ ~v.fec /\ ~v.last
    <3>1. Shape(w, A \cup {p}, g, s) BY <1>5
    <3>2. idx \in Int BY <1>8
    <3>3. Counting BY Zenon DEF Turn, Ctx, Given
    <3> QED BY ONLY <3>1, <3>2, <3>3, SynthesizeNumber, Zenon
  <2> QED BY ONLY <1>5, <1>9, <2>1, SMT
<1>11. y \in Packet
  <2>1. Given(A \cup {p}, N, s) BY Zenon DEF Turn, Ctx, Given, PacketInv
  <2>2. p.payload \in w.parity /\ Missing(w) = {idx} BY <1>5, Zenon DEF OnlyMissing
  <2> QED BY <1>5, <1>9, <2>1, <2>2, SynthesizeGenuine, Zenon
<1>12. m = [w EXCEPT !.slots[idx] = {y}, !.recovered = @ + 1]
  BY <1>1, <1>3, <1>4, Zenon DEF Repaired
<1>13. /\ m \in Receiver /\ m.base = r.base /\ m.out = r.out /\ m.gs = r.gs
       /\ m.recovered = r.recovered + 1 /\ m.lost = r.lost
       /\ m.slots = [r.slots EXCEPT ![idx] = {y}]
  <2>1. w.slots \in Batches /\ w.recovered + 1 \in Nat
    <3>1. w.slots \in Batches /\ w.recovered \in Nat BY <1>5, Zenon DEF Receiver
    <3> QED BY <3>1, SMT
  <2>2. [w.slots EXCEPT ![idx] = {y}] \in Batches
    BY <2>1, <1>8, <1>11, Zenon DEF Batches
  <2>3. /\ m \in Receiver /\ m.base = w.base /\ m.out = w.out /\ m.gs = w.gs
        /\ m.recovered = w.recovered + 1 /\ m.lost = w.lost
        /\ m.slots = [w.slots EXCEPT ![idx] = {y}]
    BY <1>5, <1>12, <2>1, <2>2, Zenon DEF Receiver
  <2> QED BY <1>5, <2>3, Zenon
<1>14. r \in Receiver /\ r.slots \in Batches BY Zenon DEF Turn, Ctx, RxInv, RxType, Receiver
<1>15. \A i \in Positions : m.slots[i] = IF i = idx THEN {y} ELSE r.slots[i]
  BY <1>8, <1>13, <1>14, Zenon DEF Batches
<1>16. PICK t : t = TakeGroup(m) OBVIOUS
<1>17. Closes(r, t, m.slots) BY <1>13, <1>14, <1>16, TakeCloses, Zenon
<1>18. t.recovered = m.recovered /\ t.lost = m.lost
  <2>1. PICK e : e = Emit(m, m.slots) OBVIOUS
  <2>2. e = [m EXCEPT !.out = Append(m.out, m.slots)] BY <2>1, Zenon DEF Emit
  <2>3. t = [e EXCEPT !.prev = m.base, !.base = {}, !.parity = {}, !.slots = NoSlots]
    BY <1>16, <2>1, Zenon DEF TakeGroup
  <2>4. e.recovered = m.recovered /\ e.lost = m.lost
    BY <1>13, <2>2, Zenon DEF Receiver
  <2>5. DOMAIN e = DOMAIN m BY <2>2, Zenon
  <2> QED BY <1>13, <2>2, <2>3, <2>4, Zenon DEF Receiver
<1>19. Y \subseteq X /\ X \subseteq Int /\ \A f \in Y : p.n < f BY Zenon DEF Turn, Coming
<1>20. ASSUME NEW i \in Positions, NEW x \in m.slots[i] PROVE x.n = g + i /\ i < r.gs
  <2>1. CASE i = idx
    <3>1. x = y BY <1>15, <2>1, Zenon
    <3>2. idx < r.gs BY <1>6, <1>7, SMT
    <3> QED BY <1>10, <2>1, <3>1, <3>2, Zenon
  <2>2. CASE i # idx
    <3>1. x \in r.slots[i] BY <1>15, <2>2, Zenon
    <3>2. Shape(r, A, g, s) BY <1>5
    <3>3. \A j \in Positions : \A h \in r.slots[j] : j < r.gs /\ h.n = g + j
      BY ONLY <3>2, Zenon DEF Shape
    <3> QED BY <3>1, <3>3, Zenon
  <2> QED BY <2>1, <2>2
<1>21. ASSUME NEW i \in Positions, NEW x \in m.slots[i], NEW f \in Y PROVE x.n < f
  <2>1. p.n < f /\ f \in Int /\ x.n = g + i /\ i < r.gs /\ i \in Nat BY <1>8, <1>19, <1>20, Zenon
  <2> QED BY <1>6, <2>1, SMT
<1>22. Batch(m.slots, g, Y)
  <2>1. m.slots \in Batches BY <1>13, Zenon DEF Receiver
  <2>2. m.slots[idx] # {} BY <1>8, <1>15, Zenon
  <2> QED BY <1>8, <1>20, <1>21, <2>1, <2>2, Zenon DEF Batch
<1>23. Behind(r, X, s) BY Zenon DEF Turn
<1>24. \A x : Out(r, x) => x.n < g BY <1>5, <1>23, AheadOfGroup, Zenon
<1>25. r.base = {WrappingAdd(s, g)} BY <1>5, Zenon DEF Shape
<1>26. Closing(r, X, Y, s, t, m.slots, g)
  BY <1>6, <1>14, <1>17, <1>19, <1>22, <1>23, <1>24, <1>25, Zenon DEF Closing
<1>27. Behind(t, Y, s) /\ Emits(r, t, m.slots) BY ONLY <1>26, CloseBehind, Zenon
<1>28. Mended1(r, m, t, p, idx) BY <1>3, <1>7, <1>8, <1>13, <1>15, <1>18, Zenon DEF Mended1
<1>29. t.base = {} BY <1>17, Zenon DEF Closes
<1>30. MendFacts(r, p, idx, m, t, y) BY ONLY <1>2, <1>10, <1>11, <1>27, <1>28, Zenon DEF MendFacts
<1> QED BY ONLY <1>3, <1>4, <1>16, <1>27, <1>29, <1>30, Zenon

(* What a turn does, on an ordered path: a packet without FEC is emitted;  *)
(* a parity packet is of no use, is noted or mends its group; a data packet *)
(* of a group is held, ends the stream in its group or makes the group     *)
(* whole.                                                                  *)
AsPlain(r, p, t) == ~p.fec /\ p.gs = 0 /\ t = Emit(Flush(r), Single(p))

AsForeign(r, p, t) == p.fec /\ ~OfGroup(r, p) /\ t = r

AsNoted(r, p, t) ==
  p.fec /\ OfGroup(r, p) /\ (\E i, j \in Missing(r) : i # j) /\ t = WithParity(r, p)

AsMended(r, p, t) ==
  p.fec /\ OfGroup(r, p) /\ \E idx : OnlyMissing(r, idx) /\ t = TakeGroup(Repaired(r, p, idx))

AsHeld(r, p, t) ==
  ~p.fec /\ p.gs > 0 /\ Missing(Taken(r, p)) # {} /\ ~p.last /\ t = Taken(r, p)

AsCut(r, p, t) ==
  ~p.fec /\ p.gs > 0 /\ Missing(Taken(r, p)) # {} /\ p.last /\ t = Flush(Taken(r, p))

AsWhole(r, p, t) ==
  ~p.fec /\ p.gs > 0 /\ Missing(Taken(r, p)) = {} /\ t = TakeGroup(Taken(r, p))

Outcome(r, p, t) ==
  \/ AsPlain(r, p, t) \/ AsForeign(r, p, t) \/ AsNoted(r, p, t) \/ AsMended(r, p, t)
  \/ AsHeld(r, p, t) \/ AsCut(r, p, t) \/ AsWhole(r, p, t)

(* A turn of audio_receive_loop on an ordered path has one of these outcomes. *)
LEMMA ReceiveOutcome ==
  \A r, A, P, N, s, X, Y, p :
    Turn(r, A, P, N, s, X, Y, p) => Outcome(r, p, ReceiveOf(r, p))
<1>OneOrTwoMissing.
  ASSUME NEW r, r.gs \in Nat, Missing(r) # {}, Counting
  PROVE  /\ Cardinality(Missing(r)) = 1 => \E idx : OnlyMissing(r, idx)
         /\ Cardinality(Missing(r)) # 1 => \E i, j \in Missing(r) : i # j
  <2> USE <1>OneOrTwoMissing
  <2>5. Cardinality(Missing(r)) = 1 <=> \E x : Missing(r) = {x} BY CountMissing, Zenon
  <2>6. ASSUME ~\E i, j \in Missing(r) : i # j PROVE \E x : Missing(r) = {x}
    <3>1. PICK x : x \in Missing(r) BY Zenon
    <3>2. \A y : y \in Missing(r) <=> y \in {x} BY <2>6, <3>1, Zenon
    <3>3. Missing(r) = {x} BY <3>2, Zenon
    <3> QED BY <3>3, Zenon
  <2> QED BY <2>5, <2>6, Zenon DEF OnlyMissing
<1>ParityOutcome.
  ASSUME NEW r, NEW A, NEW P, NEW N, NEW s, NEW X, NEW Y, NEW p, Turn(r, A, P, N, s, X, Y, p),
         p.fec
  PROVE  Outcome(r, p, ReceiveOf(r, p))
  <2> USE <1>ParityOutcome
  <2>1. ~p.last BY Zenon DEF Turn, Ends
  <2>2. ReceiveOf(r, p) = FeedParity(r, p) BY <2>1, Zenon DEF ReceiveOf, Feed
  <2>3. CASE ~OfGroup(r, p)
    <3>1. r.base # {WrappingSub(p.seq, p.gs)} BY <2>3, Zenon DEF OfGroup, Back
    <3>2. FeedParity(r, p) = r BY <3>1, Zenon DEF FeedParity
    <3> QED BY <2>2, <2>3, <3>2, Zenon DEF Outcome, AsForeign
  <2>4. CASE OfGroup(r, p)
    <3>1. r.base = {WrappingSub(p.seq, p.gs)} BY <2>4, Zenon DEF OfGroup, Back
    <3>2. PICK w : w = WithParity(r, p) OBVIOUS
    <3>3. FeedParity(r, p) = TryComplete(w) BY <3>1, <3>2, Zenon DEF FeedParity, WithParity
    <3>4. w.parity = {p.payload} /\ w.slots = r.slots /\ Missing(w) = Missing(r)
      <4>1. LET v == WithParity(r, p)
            IN /\ v \in Receiver /\ v.base = r.base /\ v.prev = r.prev /\ v.out = r.out /\ v.gs = r.gs
               /\ v.slots = r.slots /\ v.parity = {p.payload} /\ v.recovered = r.recovered
               /\ v.lost = r.lost /\ RxInv(v, A \cup {p}, N, s) /\ Ctx(v, A \cup {p}, P, N, s)
               /\ Missing(v) = Missing(r) /\ Behind(v, X, s)
               /\ Shape(v, A \cup {p}, GroupStart(p), s) /\ Shape(r, A, GroupStart(p), s)
        BY ONLY Turn(r, A, P, N, s, X, Y, p), p.fec, <2>4, ParityKept, Zenon
      <4> QED BY ONLY <3>2, <4>1, SMT
    <3>5. r.gs \in Nat BY <2>4, SizeOfGroup, Zenon
    <3>6. Missing(r) # {} BY <3>1, Zenon DEF Turn, Tight
    <3>7. CASE Cardinality(Missing(r)) = 1
      <4>1. PICK idx : OnlyMissing(r, idx)
        BY <3>5, <3>6, <3>7, <1>OneOrTwoMissing, Zenon DEF Turn, Ctx, Given
      <4>2. (CHOOSE i \in Missing(w) : TRUE) = idx 
        <5>1. Missing(w) = {idx} BY <3>4, <4>1, Zenon DEF OnlyMissing
        <5> QED BY ONLY <5>1, Zenon
      <4>3. (CHOOSE x \in w.parity : TRUE) = p.payload BY <3>4, Zenon
      <4>4. TryComplete(w) =
              TakeGroup([w EXCEPT !.slots[idx] = {Synthesize(w, idx, XorAll(p.payload, w.slots))},
                                  !.recovered = @ + 1])
        <5>1. Missing(w) # {} /\ w.parity # {} /\ Cardinality(Missing(w)) = 1
          BY <3>4, <3>6, <3>7, Zenon
        <5> QED BY ONLY <4>2, <4>3, <5>1, Zenon DEF TryComplete
      <4>5. Synthesize(w, idx, XorAll(p.payload, w.slots)) = Rebuilt(r, p, idx)
        BY ONLY <3>2, <3>4, Zenon DEF Rebuilt
      <4>6. TryComplete(w) = TakeGroup(Repaired(r, p, idx))
        BY ONLY <3>2, <4>4, <4>5, Zenon DEF Repaired
      <4> QED BY <2>2, <2>4, <3>3, <4>1, <4>6, Zenon DEF Outcome, AsMended
    <3>8. CASE Cardinality(Missing(r)) # 1
      <4>1. \E i, j \in Missing(r) : i # j
        BY <3>5, <3>6, <3>8, <1>OneOrTwoMissing, Zenon DEF Turn, Ctx, Given
      <4>2. TryComplete(w) = w BY <3>4, <3>6, <3>8, Zenon DEF TryComplete
      <4> QED BY <2>2, <2>4, <3>2, <3>3, <4>1, <4>2, Zenon DEF Outcome, AsNoted
    <3> QED BY <3>7, <3>8, Zenon
  <2> QED BY <2>3, <2>4, Zenon
<1>PlainOutcome.
  ASSUME NEW r, NEW A, NEW P, NEW N, NEW s, NEW X, NEW Y, NEW p, Turn(r, A, P, N, s, X, Y, p),
         ~p.fec, p.gs = 0
  PROVE  Outcome(r, p, ReceiveOf(r, p))
  <2> USE <1>PlainOutcome
  <2>1. PICK t : t = Emit(Flush(r), Single(p)) OBVIOUS
  <2>2. Feed(r, p) = t BY <2>1, Zenon DEF Feed, FeedPlain
  <2>3. t.base = {} BY <2>1, PlainTurn, Zenon
  <2>4. Flush(t) = t BY <2>3, Zenon DEF Flush
  <2>5. ReceiveOf(r, p) = t BY <2>2, <2>4, Zenon DEF ReceiveOf
  <2> QED BY <2>1, <2>5, Zenon DEF Outcome, AsPlain
(* On an ordered path no packet comes after its group was closed. *)
<1>NotLate.
  ASSUME NEW r, NEW A, NEW P, NEW N, NEW s, NEW X, NEW Y, NEW p, Turn(r, A, P, N, s, X, Y, p),
         ~p.fec, p.gs > 0
  PROVE  r.prev # {WrappingSub(p.seq, p.idx)}
  <2> USE <1>NotLate
  <2> SUFFICES ASSUME r.prev = {WrappingSub(p.seq, p.idx)} PROVE FALSE OBVIOUS
  <2>1. /\ WrappingSub(p.seq, Back(p)) = WrappingAdd(s, GroupStart(p)) /\ GroupStart(p) \in U16
        /\ GroupStart(p) \in Nat
    BY GroupBase, ZenonT(40) DEF Turn, Ctx
  <2>2. Back(p) = p.idx BY Zenon DEF Back
  <2>3. PICK x, g : Out(r, x) /\ g \in 0 .. x.n /\ WrappingSub(p.seq, p.idx) = WrappingAdd(s, g)
    BY Zenon DEF Turn, Behind
  <2>4. x.n < GroupStart(p) /\ x.n \in Int BY <2>3, Zenon DEF Turn, Behind, Coming
  <2>5. g \in U16 /\ g < GroupStart(p)
    <3>1. SeqMod \in Nat BY FecAssumption, Zenon
    <3> QED BY <2>1, <2>3, <2>4, <3>1, SMT DEF U16
  <2>6. s \in U16 BY Zenon DEF Turn, Ctx, Given
  <2>7. g = GroupStart(p) BY <2>1, <2>2, <2>3, <2>5, <2>6, WrapInjective, Zenon
  <2> QED BY <2>1, <2>5, <2>7, SMT
<1>DataOutcome.
  ASSUME NEW r, NEW A, NEW P, NEW N, NEW s, NEW X, NEW Y, NEW p, Turn(r, A, P, N, s, X, Y, p),
         ~p.fec, p.gs > 0
  PROVE  Outcome(r, p, ReceiveOf(r, p))
  <2> USE <1>DataOutcome
  <2>1. PICK u : u = Taken(r, p) OBVIOUS
  <2>2. Stored(Left(r, p), Taken(r, p), p)
    BY ONLY Turn(r, A, P, N, s, X, Y, p), ~p.fec, p.gs > 0, DataTaken, Zenon
  <2>3. u.parity = {} BY ONLY <2>1, <2>2, Zenon DEF Stored
  <2>4. r.prev # {WrappingSub(p.seq, p.idx)} BY <1>NotLate, Zenon
  <2>5. p.gs # 0
    <3>1. p.gs \in Nat BY Zenon DEF Turn, Ctx, Solids, Solid
    <3> QED BY <3>1, SMT
  <2>6. FeedData(r, p) = TryComplete(u) BY ONLY <2>1, <2>4, Zenon DEF FeedData, Taken
  <2>7. Feed(r, p) = TryComplete(u) BY <2>5, <2>6, Zenon DEF Feed
  <2>8. CASE Missing(u) = {}
    <3>1. PICK t : t = TakeGroup(u) OBVIOUS
    <3>2. TryComplete(u) = t BY <2>8, <3>1, Zenon DEF TryComplete
    <3>3. TakeGroup(Taken(r, p)).base = {}
      <4>1. Missing(Taken(r, p)) = {} BY <2>1, <2>8
      <4> QED BY <4>1, CompleteTurn, Zenon
    <3>4. Flush(t) = t BY <2>1, <3>1, <3>3, Zenon DEF Flush
    <3>5. ReceiveOf(r, p) = t BY ONLY <2>7, <3>2, <3>4, Zenon DEF ReceiveOf
    <3> QED BY <2>1, <2>8, <3>1, <3>5, Zenon DEF Outcome, AsWhole
  <2>9. CASE Missing(u) # {}
    <3>1. TryComplete(u) = u BY ONLY <2>3, <2>9, Zenon DEF TryComplete
    <3>2. ReceiveOf(r, p) = IF p.last THEN Flush(u) ELSE u BY ONLY <2>7, <3>1, Zenon DEF ReceiveOf
    <3>3. CASE p.last
      <4>1. ReceiveOf(r, p) = Flush(u) BY <3>2, <3>3, Zenon
      <4> QED BY <2>1, <2>9, <3>3, <4>1, Zenon DEF Outcome, AsCut
    <3>4. CASE ~p.last
      <4>1. ReceiveOf(r, p) = u BY <3>2, <3>4, Zenon
      <4> QED BY <2>1, <2>9, <3>4, <4>1, Zenon DEF Outcome, AsHeld
    <3> QED BY <3>3, <3>4, Zenon
  <2> QED BY <2>8, <2>9, Zenon
<1>ReceiveOutcome.
  ASSUME NEW r, NEW A, NEW P, NEW N, NEW s, NEW X, NEW Y, NEW p, Turn(r, A, P, N, s, X, Y, p)
  PROVE  Outcome(r, p, ReceiveOf(r, p))
  <2> USE <1>ReceiveOutcome
  <2>1. p.gs = 0 \/ p.gs > 0
    <3>1. p.gs \in Nat BY Zenon DEF Turn, Ctx, Solids, Solid
    <3> QED BY <3>1, SMT
  <2> QED BY <2>1, <1>ParityOutcome, <1>PlainOutcome, <1>DataOutcome, Zenon
<1> QED BY ONLY <1>ReceiveOutcome, ZenonT(40)

(* The receiver on an ordered path.                                          *)
InLine(r, A, X, s) == Behind(r, X, s) /\ Tight(r) /\ Kept(r, A) /\ Drained(r, A)

(* With fewer groups to come what was emitted is still behind them.          *)
LEMMA BehindLess ==
  ASSUME NEW r, NEW X, NEW Y, NEW s, Behind(r, X, s), Y \subseteq X
  PROVE  Behind(r, Y, s)
BY Zenon DEF Behind

(* A receiver without a group is in line.                                    *)
LEMMA NothingHeld ==
  ASSUME NEW r, NEW A, NEW X, NEW s, Behind(r, X, s), r.base = {}
  PROVE  InLine(r, A, X, s)
<1>1. \A b : r.base # {b} BY Zenon
<1> QED BY <1>1, Zenon DEF InLine, Tight, Kept, Drained

(* A turn keeps the receiver in order. *)
LEMMA ReceiveInLine ==
  \A r, A, P, N, s, X, Y, p, t :
    Turn(r, A, P, N, s, X, Y, p) /\ Drained(r, A) /\ Outcome(r, p, t) => InLine(t, A \cup {p}, Y, s)
<1>HeldInLine.
  ASSUME NEW r, NEW A, NEW P, NEW N, NEW s, NEW X, NEW Y, NEW p, Turn(r, A, P, N, s, X, Y, p),
         NEW t, AsHeld(r, p, t)
  PROVE  InLine(t, A \cup {p}, Y, s)
  <2> USE <1>HeldInLine
  <2>1. ~p.fec /\ p.gs > 0 /\ Missing(t) # {} /\ ~p.last /\ t = Taken(r, p) BY Zenon DEF AsHeld
  <2>2. Behind(t, X, s) /\ Kept(t, A \cup {p})
    <3>1. Behind(Taken(r, p), X, s) /\ Kept(Taken(r, p), A \cup {p})
      BY ONLY Turn(r, A, P, N, s, X, Y, p), <2>1, DataBehind, Zenon
    <3> QED BY ONLY <2>1, <3>1, Zenon
  <2>3. t.parity = {}
    <3>1. Stored(Left(r, p), Taken(r, p), p)
      BY ONLY Turn(r, A, P, N, s, X, Y, p), <2>1, DataTaken, Zenon
    <3> QED BY ONLY <2>1, <3>1, Zenon DEF Stored
  <2>4. Tight(t) BY <2>1, <2>3, Zenon DEF Tight
  <2>5. ASSUME NEW a \in A, a.last PROVE FALSE
    <3>1. p \in P /\ a \in P /\ p.n <= a.n /\ a.n < p.n
      BY <2>1, <2>5, Zenon DEF Turn, Ctx, Ends, Coming
    <3>2. p.n \in Int /\ a.n \in Int
      <4>1. p.n \in 0 .. N - 1 /\ a.n \in 0 .. N - 1 BY <3>1, Zenon DEF Turn, Ctx, Solids, Solid
      <4> QED BY <4>1, SMT
    <3> QED BY <3>1, <3>2, SMT
  <2>6. Drained(t, A \cup {p}) BY <2>1, <2>5, Zenon DEF Drained
  <2>7. Y \subseteq X BY Zenon DEF Turn, Coming
  <2>8. Behind(t, Y, s) BY <2>2, <2>7, BehindLess, Zenon
  <2> QED BY <2>2, <2>4, <2>6, <2>8, Zenon DEF InLine
<1>NotedInLine.
  ASSUME NEW r, NEW A, NEW P, NEW N, NEW s, NEW X, NEW Y, NEW p, Turn(r, A, P, N, s, X, Y, p),
         Drained(r, A), NEW t, AsNoted(r, p, t)
  PROVE  InLine(t, A \cup {p}, Y, s)
  <2> USE <1>NotedInLine
  <2>1. p.fec /\ OfGroup(r, p) /\ (\E i, j \in Missing(r) : i # j) /\ t = WithParity(r, p)
    BY Zenon DEF AsNoted
  <2>2. t.parity # {} /\ Missing(t) = Missing(r) /\ Behind(t, X, s) /\ t.base = r.base
    <3>1. LET v == WithParity(r, p)
          IN /\ v \in Receiver /\ v.base = r.base /\ v.prev = r.prev /\ v.out = r.out /\ v.gs = r.gs
             /\ v.slots = r.slots /\ v.parity = {p.payload} /\ v.recovered = r.recovered
             /\ v.lost = r.lost /\ RxInv(v, A \cup {p}, N, s) /\ Ctx(v, A \cup {p}, P, N, s)
             /\ Missing(v) = Missing(r) /\ Behind(v, X, s)
             /\ Shape(v, A \cup {p}, GroupStart(p), s) /\ Shape(r, A, GroupStart(p), s)
      BY ONLY Turn(r, A, P, N, s, X, Y, p), <2>1, ParityKept, Zenon
    <3> QED BY ONLY <2>1, <3>1, SMT
  <2>3. Tight(t) /\ Kept(t, A \cup {p})
    <3>1. \E i, j \in Missing(t) : i # j BY ONLY <2>1, <2>2, Zenon
    <3> QED BY ONLY <2>2, <3>1, Zenon DEF Tight, Kept
  <2>4. ~p.last BY <2>1, Zenon DEF Turn, Ends
  <2>5. Drained(t, A \cup {p}) BY <2>2, <2>4, Zenon DEF Drained
  <2>6. Y \subseteq X BY Zenon DEF Turn, Coming
  <2>7. Behind(t, Y, s) BY <2>2, <2>6, BehindLess, Zenon
  <2> QED BY <2>3, <2>5, <2>7, Zenon DEF InLine
<1>ForeignInLine.
  ASSUME NEW r, NEW A, NEW P, NEW N, NEW s, NEW X, NEW Y, NEW p, Turn(r, A, P, N, s, X, Y, p),
         Drained(r, A), NEW t, AsForeign(r, p, t)
  PROVE  InLine(t, A \cup {p}, Y, s)
  <2> USE <1>ForeignInLine
  <2>1. p.fec /\ r.base # {WrappingSub(p.seq, p.gs)} /\ t = r
    BY Zenon DEF AsForeign, OfGroup, Back
  <2>2. ~p.last BY <2>1, Zenon DEF Turn, Ends
  <2>3. Drained(t, A \cup {p}) BY <2>1, <2>2, Zenon DEF Drained
  <2>4. Kept(t, A \cup {p}) /\ Tight(t) BY <2>1, Zenon DEF Turn, Kept
  <2>5. Behind(t, Y, s)
    <3>1. Y \subseteq X /\ Behind(r, X, s) BY Zenon DEF Turn, Coming
    <3> QED BY <2>1, <3>1, BehindLess, Zenon
  <2> QED BY <2>3, <2>4, <2>5, Zenon DEF InLine
<1>ReceiveInLine.
  ASSUME NEW r, NEW A, NEW P, NEW N, NEW s, NEW X, NEW Y, NEW p, Turn(r, A, P, N, s, X, Y, p),
         Drained(r, A), NEW t, Outcome(r, p, t)
  PROVE  InLine(t, A \cup {p}, Y, s)
  <2> USE <1>ReceiveInLine
  <2>1. CASE AsPlain(r, p, t)
    <3>1. ~p.fec /\ p.gs = 0 /\ t = Emit(Flush(r), Single(p)) BY <2>1, Zenon DEF AsPlain
    <3>2. Behind(t, Y, s) /\ t.base = {}
      <4>1. LET v == Emit(Flush(r), Single(p)) IN Behind(v, Y, s) /\ v.base = {}
        BY ONLY Turn(r, A, P, N, s, X, Y, p), <3>1, PlainTurn, Zenon
      <4> QED BY ONLY <3>1, <4>1, Zenon
    <3> QED BY <3>2, NothingHeld, Zenon
  <2>2. CASE AsMended(r, p, t)
    <3>1. PICK idx : p.fec /\ OfGroup(r, p) /\ OnlyMissing(r, idx) /\ t = TakeGroup(Repaired(r, p, idx))
      BY <2>2, Zenon DEF AsMended
    <3>2. Behind(t, Y, s) /\ t.base = {}
      <4>1. LET v == TakeGroup(Repaired(r, p, idx)) IN Behind(v, Y, s) /\ v.base = {}
        BY ONLY Turn(r, A, P, N, s, X, Y, p), <3>1, RepairTurn, Zenon
      <4> QED BY ONLY <3>1, <4>1, Zenon
    <3> QED BY <3>2, NothingHeld, Zenon
  <2>3. CASE AsCut(r, p, t)
    <3>1. ~p.fec /\ p.gs > 0 /\ p.last /\ t = Flush(Taken(r, p)) BY <2>3, Zenon DEF AsCut
    <3>2. Behind(t, Y, s) /\ t.base = {}
      <4>1. Behind(Flush(Taken(r, p)), Y, s) /\ Flush(Taken(r, p)).base = {}
        BY ONLY Turn(r, A, P, N, s, X, Y, p), <3>1, LastTurn, Zenon
      <4> QED BY ONLY <3>1, <4>1, Zenon
    <3> QED BY <3>2, NothingHeld, Zenon
  <2>4. CASE AsWhole(r, p, t)
    <3>1. ~p.fec /\ p.gs > 0 /\ Missing(Taken(r, p)) = {} /\ t = TakeGroup(Taken(r, p))
      BY <2>4, Zenon DEF AsWhole
    <3>2. Behind(t, Y, s) /\ t.base = {}
      <4>1. Behind(TakeGroup(Taken(r, p)), Y, s) /\ TakeGroup(Taken(r, p)).base = {}
        BY ONLY Turn(r, A, P, N, s, X, Y, p), <3>1, CompleteTurn, Zenon
      <4> QED BY ONLY <3>1, <4>1, Zenon
    <3> QED BY <3>2, NothingHeld, Zenon
  <2> QED
    BY <2>1, <2>2, <2>3, <2>4, <1>HeldInLine, <1>NotedInLine, <1>ForeignInLine, Zenon DEF Outcome
<1> TAKE r, A, P, N, s, X, Y, p, t
<1> HAVE Turn(r, A, P, N, s, X, Y, p) /\ Drained(r, A) /\ Outcome(r, p, t)
<1> QED BY <1>ReceiveInLine, Zenon

(* The invariant of an ordered path.                                         *)
OrderInv == Sending /\ Front /\ InLine(rx, arrived, ToCome, start)

(* The order holds at the start.                                             *)
LEMMA OrderInit == Init => OrderInv
<1> SUFFICES ASSUME Init PROVE OrderInv OBVIOUS
<1>1. /\ net = {} /\ arrived = {} /\ dropped = {} /\ sent = 0 /\ offset = 0 /\ ended = FALSE
      /\ rx = NewReceiver
  BY Zenon DEF Init
<1>2. PICK gs \in GroupSizes : enc = [gs |-> gs, count |-> 0, parity |-> {}]
  BY Zenon DEF Init, NewEncoder
<1>3. enc.gs = gs /\ enc.count = 0 BY <1>2, Zenon
<1>4. Datagrams = {} BY <1>1, Zenon DEF Datagrams
<1>5. StreamInv({}, 0, 0, gs, 0)
  <2>1. \A k \in 0 - 0 .. 0 - 1 : FALSE BY SMT
  <2>2. Current({}, 0, 0, gs, 0) BY <2>1, Zenon DEF Current
  <2> QED BY <2>2, Zenon DEF StreamInv, Runs, Covers, Ends, Timed, Unbroken
<1>6. Sending BY <1>1, <1>3, <1>4, <1>5, Zenon DEF Sending
<1>7. rx.base = {} /\ rx.prev = {} /\ rx.out = <<>> BY <1>1, Zenon DEF NewReceiver
<1>8. Len(rx.out) = 0 /\ \A k \in 1..0 : FALSE BY <1>7, SMT
<1>9. Behind(rx, ToCome, start)
  <2>1. InOrder(rx) BY <1>8, Zenon DEF InOrder
  <2>2. \A x : ~Out(rx, x) BY <1>8, Zenon DEF Out
  <2> QED BY <1>7, <2>1, <2>2, Zenon DEF Behind
<1>10. InLine(rx, arrived, ToCome, start) BY <1>7, <1>9, NothingHeld, Zenon
<1> QED BY <1>6, <1>10, FrontInit, Zenon DEF OrderInv

(* The groups to come may also be later ones.                                *)
LEMMA BehindLater ==
  ASSUME NEW r, NEW X, NEW Y, NEW s, Behind(r, X, s),
         \A f \in Y : f \in X \/ \E g \in X : g \in Int /\ f \in Int /\ g <= f
  PROVE  Behind(r, Y, s)
<1>1. ASSUME NEW x, Out(r, x), NEW f \in Y PROVE x.n < f
  <2>1. CASE f \in X BY <1>1, <2>1, Zenon DEF Behind
  <2>2. CASE \E g \in X : g \in Int /\ f \in Int /\ g <= f
    <3>1. PICK g \in X : g \in Int /\ f \in Int /\ g <= f BY <2>2
    <3>2. x.n \in Int /\ x.n < g BY <1>1, <3>1, Zenon DEF Behind
    <3> QED BY <3>1, <3>2, SMT
  <2> QED BY <2>1, <2>2, Zenon
<1> QED BY <1>1, Zenon DEF Behind

(* What the sender adds is in its group in progress or after it. *)
LEMMA ToComeSend ==
  ASSUME IInv, NEW last \in BOOLEAN, SendAudio(last)
  PROVE  \A f \in ToCome' : f \in ToCome \/ \E g \in ToCome : g \in Int /\ f \in Int /\ g <= f
<1>0. /\ sent \in Nat /\ enc.count \in Nat /\ enc.gs \in Nat
      /\ enc.gs = 0 => enc.count = 0
  BY SendingTypes, Zenon DEF Numbers4
<1>1. PICK e : e = sent - enc.count OBVIOUS
<1>2. PICK d : d = DataPacket(last) OBVIOUS
<1>3. d.fec = FALSE /\ GroupStart(d) = e
  <2>1. d.fec = FALSE /\ d.idx = enc.count /\ d.n = sent BY <1>2, Zenon DEF DataPacket
  <2> QED BY <1>1, <2>1, Zenon DEF GroupStart
<1>4. e \in ToCome /\ e \in Int
  <2>1. ~ended BY Zenon DEF SendAudio
  <2>2. e \in Int BY <1>0, <1>1, SMT
  <2> QED BY <1>1, <2>1, <2>2, Zenon DEF ToCome
<1>5. \A p \in net' : p \in net \/ p = d \/ p.fec
  <2>1. ParityPacket.fec = TRUE BY Zenon DEF ParityPacket
  <2>2. net' \subseteq net \cup {d, ParityPacket} BY <1>2, Zenon DEF SendAudio
  <2> QED BY <2>1, <2>2, Zenon
<1>6. sent' - enc'.count \in Int /\ e <= sent' - enc'.count
  <2>1. CASE GroupFull(enc)
    <3>1. sent' = sent + 2 /\ enc' = [gs |-> enc.gs, count |-> 0, parity |-> {}]
      BY <2>1, Zenon DEF SendAudio, NewEncoder
    <3>2. enc'.count = 0 BY <3>1, Zenon
    <3>3. sent' = sent + 2 BY <3>1
    <3> QED BY <1>0, <1>1, <3>2, <3>3, SMT
  <2>2. CASE ~GroupFull(enc)
    <3>1. /\ sent' = sent + 1
          /\ enc' = IF enc.gs = 0 THEN enc
                    ELSE [enc EXCEPT !.count = @ + 1, !.parity = Accumulate(enc, {sent})]
      BY <2>2, Zenon DEF SendAudio
    <3>2. enc \in [gs : 0..MaxGroup, count : Positions, parity : SUBSET Nat]
      BY Zenon DEF IInv, TypeOK
    <3>3. enc'.count = enc.count \/ enc'.count = enc.count + 1 BY <3>1, <3>2, Zenon
    <3>4. sent' = sent + 1 BY <3>1
    <3> QED BY <1>0, <1>1, <3>3, <3>4, SMT
  <2> QED BY <2>1, <2>2, Zenon
<1> QED BY <1>3, <1>4, <1>5, <1>6, Zenon DEF ToCome

(* A new encoder starts after what was sent.                                 *)
LEMMA ToComeSet ==
  ASSUME IInv, NEW gs \in GroupSizes \cup {0}, SetFec(gs)
  PROVE  \A f \in ToCome' : f \in ToCome \/ \E g \in ToCome : g \in Int /\ f \in Int /\ g <= f
<1>0. sent \in Nat /\ enc.count \in Nat BY SendingTypes, Zenon
<1>1. enc' = [gs |-> gs, count |-> 0, parity |-> {}] /\ ~ended /\ UNCHANGED <<sent, net, ended>>
  BY Zenon DEF SetFec, NewEncoder
<1>2. enc'.count = 0 BY <1>1, Zenon
<1>3. /\ sent - enc.count \in Int /\ sent' - enc'.count \in Int
      /\ sent - enc.count <= sent' - enc'.count
  <2>1. sent' = sent BY <1>1
  <2> QED BY <1>0, <1>2, <2>1, SMT
<1> QED BY <1>1, <1>3, Zenon DEF ToCome

(* A loss adds no group to come.                                             *)
LEMMA ToComeLose ==
  ASSUME NEW p \in net, Lose(p)
  PROVE  ToCome' \subseteq ToCome
<1>1. net' = net \ {p} /\ UNCHANGED <<sent, enc, ended>> BY Zenon DEF Lose
<1>2. sent' = sent /\ enc' = enc /\ ended' = ended /\ net' \subseteq net BY <1>1, Zenon
<1> QED BY ONLY <1>2, Zenon DEF ToCome

(* Receive is a turn in the sense above.                                     *)
LEMMA StateTurn ==
  ASSUME Counting, Ordered, IInv, OrderInv, NEW p \in net, NEW keep \in BOOLEAN,
         Receive(p, keep)
  PROVE  Turn(rx, arrived, Datagrams, sent, start, ToCome, ToCome', p)
<1>1. Coming(arrived, ToCome, ToCome', p) BY ReceiveComing, Zenon DEF OrderInv
<1>2. RxInv(rx, arrived, sent, start)
  BY Zenon DEF IInv, TypeOK, GroupsApart, RecoveredExact, RxInv, RxType
<1>3. Given(Datagrams, sent, start)
  BY Zenon DEF IInv, TypeOK, GroupsApart, Given, Datagrams
<1>4. Solids(Datagrams, sent) BY SendingTypes, Zenon
<1>5. Ctx(rx, arrived, Datagrams, sent, start) BY <1>2, <1>3, <1>4, Zenon DEF Ctx, Datagrams
<1>6. Runs(Datagrams) /\ Covers(Datagrams) /\ Ends(Datagrams)
  BY Zenon DEF OrderInv, Sending, StreamInv
<1>7. p \in Datagrams BY Zenon DEF Datagrams
<1> QED BY <1>1, <1>5, <1>6, <1>7, Zenon DEF Turn, OrderInv, InLine

(* Every step keeps the order.                                               *)
LEMMA OrderStep ==
  ASSUME Counting, Ordered, IInv, OrderInv, [Next]_vars
  PROVE  OrderInv'
<1>0. Sending /\ Front /\ InLine(rx, arrived, ToCome, start) BY Zenon DEF OrderInv
<1>1. ASSUME NEW last \in BOOLEAN, SendAudio(last) PROVE OrderInv'
  <2>1. Sending' /\ Front' BY <1>0, <1>1, SendingSend, FrontSend, Zenon
  <2>2. rx' = rx /\ arrived' = arrived /\ start' = start BY <1>1, Zenon DEF SendAudio
  <2>3. Behind(rx, ToCome', start) BY <1>0, <1>1, ToComeSend, BehindLater, Zenon DEF InLine
  <2> QED BY <1>0, <2>1, <2>2, <2>3, Zenon DEF OrderInv, InLine
<1>2. ASSUME NEW gs \in GroupSizes \cup {0}, SetFec(gs) PROVE OrderInv'
  <2>1. Sending' BY <1>0, <1>2, SendingSet, Zenon
  <2>2. UNCHANGED <<rx, arrived, start, net, dropped>> BY <1>2, Zenon DEF SetFec
  <2>3. Behind(rx, ToCome', start) BY <1>0, <1>2, ToComeSet, BehindLater, Zenon DEF InLine
  <2>4. Front' BY <1>0, <2>2, Zenon DEF Front
  <2> QED BY <1>0, <2>1, <2>2, <2>3, <2>4, Zenon DEF OrderInv, InLine
<1>3. ASSUME NEW p \in net, NEW keep \in BOOLEAN, Receive(p, keep) PROVE OrderInv'
  <2>1. /\ arrived' = arrived \cup {p} /\ rx' = ReceiveOf(rx, p)
        /\ UNCHANGED <<start, enc, sent, offset, ended>>
    BY <1>3, OrderedReceive, Zenon
  <2>2. Sending' BY <1>0, <1>3, <2>1, Moves, SendingMoves, Zenon
  <2>3. Front' BY <1>0, <1>3, FrontReceive, Zenon
  <2>4. Turn(rx, arrived, Datagrams, sent, start, ToCome, ToCome', p)
    BY <1>3, StateTurn, Zenon
  <2>5. Outcome(rx, p, ReceiveOf(rx, p)) BY ONLY <2>4, ReceiveOutcome, Zenon
  <2>6. Drained(rx, arrived) BY <1>0, Zenon DEF InLine
  <2>7. InLine(ReceiveOf(rx, p), arrived \cup {p}, ToCome', start)
    BY ONLY <2>4, <2>5, <2>6, ReceiveInLine, Zenon
  <2>8. start' = start /\ arrived' = arrived \cup {p} /\ rx' = ReceiveOf(rx, p) BY <2>1
  <2>9. InLine(rx', arrived', ToCome', start') BY ONLY <2>7, <2>8, Zenon
  <2> QED BY <2>2, <2>3, <2>9, Zenon DEF OrderInv
<1>4. ASSUME NEW p \in net, Lose(p) PROVE OrderInv'
  <2>1. UNCHANGED <<start, enc, sent, offset, ended, rx, arrived>> BY <1>4, Zenon DEF Lose
  <2>2. Sending' BY <1>0, <1>4, <2>1, Moves, SendingMoves, Zenon
  <2>3. Front' BY <1>0, <1>4, FrontLose, Zenon
  <2>4. Behind(rx, ToCome', start) BY <1>0, <1>4, ToComeLose, BehindLess, Zenon DEF InLine
  <2> QED BY <1>0, <2>1, <2>2, <2>3, <2>4, Zenon DEF OrderInv, InLine
<1>5. CASE UNCHANGED vars
  <2>1. UNCHANGED <<start, enc, sent, offset, ended, rx, arrived, net, dropped>>
    BY <1>5, Zenon DEF vars
  <2>2. Datagrams' = Datagrams /\ ToCome' = ToCome BY <2>1, Zenon DEF Datagrams, ToCome
  <2>3. Sending' BY <1>0, <2>1, <2>2, SendingMoves, Zenon
  <2> QED BY <1>0, <2>1, <2>2, <2>3, Zenon DEF OrderInv, Front, InLine
<1> QED BY <1>1, <1>2, <1>3, <1>4, <1>5, Zenon DEF Next

(* Repair of a single loss. *)

(* The number k was emitted; all numbers of a group were.                    *)
Numbered(r, k) == \E x : Out(r, x) /\ x.n = k

WholeOut(r, g, size) == \A i \in 0 .. size - 1 : Numbered(r, g + i)

(* What has become of a packet of a group that was emitted: its group is out *)
(* as a whole, or a later group or the end of the stream closed it.          *)
Fate(r, A, a) ==
  \/ WholeOut(r, GroupStart(a), a.gs)
  \/ \E b \in A : ~b.fec /\ a.n < GroupStart(b)
  \/ \E b \in A : b.last /\ GroupStart(b) = GroupStart(a)

(* So for every packet that was emitted.                                     *)
Fates(r, A) == \A a \in A : ~a.fec /\ a.gs > 0 /\ Out(r, a) => Fate(r, A, a)

(* The facts about the turn that the cases below share. *)
DataFacts(u, A, p, s) == Shape(u, A \cup {p}, GroupStart(p), s) /\ u.gs = p.gs

ParityFacts(r, A, p, s) ==
  /\ Shape(r, A, GroupStart(p), s) /\ r.gs = p.gs /\ WithParity(r, p).out = r.out
  /\ GroupStart(p) + r.gs = p.n /\ p.payload = GroupStart(p) .. p.n - 1

(* The group of a parity packet that the receiver can use.                   *)
LEMMA ParityGroup ==
  ASSUME NEW r, NEW A, NEW P, NEW N, NEW s, NEW X, NEW Y, NEW p, Turn(r, A, P, N, s, X, Y, p),
         p.fec, OfGroup(r, p)
  PROVE  ParityFacts(r, A, p, s)
<1>1. LET v == WithParity(r, p)
      IN /\ v \in Receiver /\ v.base = r.base /\ v.prev = r.prev /\ v.out = r.out /\ v.gs = r.gs
         /\ v.slots = r.slots /\ v.parity = {p.payload} /\ v.recovered = r.recovered
         /\ v.lost = r.lost /\ RxInv(v, A \cup {p}, N, s) /\ Ctx(v, A \cup {p}, P, N, s)
         /\ Missing(v) = Missing(r) /\ Behind(v, X, s)
         /\ Shape(v, A \cup {p}, GroupStart(p), s) /\ Shape(r, A, GroupStart(p), s)
  BY ONLY Turn(r, A, P, N, s, X, Y, p), p.fec, OfGroup(r, p), ParityKept, Zenon
<1>2. /\ r.gs = p.gs /\ GroupStart(p) + r.gs = p.n /\ p.payload = GroupStart(p) .. p.n - 1
      /\ GroupStart(p) \in Nat /\ r.gs \in Nat /\ r.gs >= 2 /\ r.gs <= MaxGroup /\ p.n \in Nat
  BY ONLY Turn(r, A, P, N, s, X, Y, p), p.fec, OfGroup(r, p), SizeOfGroup, Zenon
<1>3. WithParity(r, p).out = r.out /\ Shape(r, A, GroupStart(p), s) BY ONLY <1>1, SMT
<1> QED BY ONLY <1>2, <1>3, Zenon DEF ParityFacts

(* A mended group is out as a whole.                                         *)
LEMMA MendedNumbered ==
  ASSUME NEW r, NEW A, NEW P, NEW N, NEW s, NEW X, NEW Y, NEW p, Turn(r, A, P, N, s, X, Y, p),
         NEW t, AsMended(r, p, t)
  PROVE  WholeOut(t, GroupStart(p), p.gs)
<1>1. PICK idx : p.fec /\ OfGroup(r, p) /\ OnlyMissing(r, idx) /\ t = TakeGroup(Repaired(r, p, idx))
  BY Zenon DEF AsMended
<1>2. PICK m : m = Repaired(r, p, idx) OBVIOUS
<1>3. PICK y : y = Rebuilt(r, p, idx) OBVIOUS
<1>4. Emits(r, t, m.slots) /\ Mended1(r, m, t, p, idx) /\ y.n = GroupStart(p) + idx
  <2>1. MendFacts(r, p, idx, Repaired(r, p, idx), TakeGroup(Repaired(r, p, idx)), Rebuilt(r, p, idx))
    BY ONLY Turn(r, A, P, N, s, X, Y, p), <1>1, RepairTurn, Zenon
  <2>2. MendFacts(r, p, idx, m, t, y) BY ONLY <1>1, <1>2, <1>3, <2>1, Zenon
  <2> QED BY ONLY <2>2, Zenon DEF MendFacts
<1>5. ParityFacts(r, A, p, s)
  BY ONLY Turn(r, A, P, N, s, X, Y, p), <1>1, ParityGroup, Zenon
<1>6. r.gs = p.gs /\ Shape(r, A, GroupStart(p), s) BY ONLY <1>5, Zenon DEF ParityFacts
<1>7. ASSUME NEW i \in 0 .. p.gs - 1 PROVE Numbered(t, GroupStart(p) + i)
  <2>1. i \in Positions
    <3>1. r.gs \in Nat /\ r.gs <= MaxGroup BY <1>6, Zenon DEF Shape
    <3> QED BY <1>6, <3>1, FecAssumption, SMT DEF Positions
  <2>2. m.slots[i] = IF i = idx THEN {y} ELSE r.slots[i]
    BY <1>3, <1>4, <2>1, Zenon DEF Mended1
  <2>3. CASE i = idx
    <3>1. y \in m.slots[i] BY <2>2, <2>3, Zenon
    <3>2. Out(t, y) BY <1>4, <2>1, <3>1, Zenon DEF Emits
    <3> QED BY <1>4, <2>3, <3>2, Zenon DEF Numbered
  <2>4. CASE i # idx
    <3>1. r.slots[i] # {}
      <4>1. i \notin Missing(r) BY ONLY <1>1, <2>4, Zenon DEF OnlyMissing
      <4>2. i \in 0 .. r.gs - 1 BY <1>6
      <4> QED BY ONLY <4>1, <4>2, Zenon DEF Missing
    <3>2. PICK h : h \in r.slots[i] BY <3>1, Zenon
    <3>3. h \in m.slots[i] BY <2>2, <2>4, <3>2, Zenon
    <3>4. Out(t, h) BY <1>4, <2>1, <3>3, Zenon DEF Emits
    <3>5. h.n = GroupStart(p) + i BY ONLY <1>6, <2>1, <3>2, Zenon DEF Shape
    <3> QED BY <3>4, <3>5, Zenon DEF Numbered
  <2> QED BY <2>3, <2>4, Zenon
<1> QED BY <1>7, Zenon DEF WholeOut

(* A group left behind by a data packet is before it. *)
LEMMA LeftOut ==
  ASSUME NEW r, NEW A, NEW P, NEW N, NEW s, NEW X, NEW Y, NEW p, Turn(r, A, P, N, s, X, Y, p),
         ~p.fec, p.gs > 0, NEW x, Out(Taken(r, p), x)
  PROVE  Out(r, x) \/ (Held(r, x) /\ x.n < GroupStart(p))
<1>1. Out(Left(r, p), x)
  <2>1. \A z : Out(Taken(r, p), z) <=> Out(Left(r, p), z)
    BY ONLY Turn(r, A, P, N, s, X, Y, p), ~p.fec, p.gs > 0, DataBehind, Zenon
  <2> QED BY <2>1, Zenon
<1>2. CASE r.base = {WrappingSub(p.seq, p.idx)} BY <1>1, <1>2, Zenon DEF Left
<1>3. CASE r.base # {WrappingSub(p.seq, p.idx)}
  <2>1. Out(Flush(r), x) BY <1>1, <1>3, Zenon DEF Left
  <2>2. Out(r, x) \/ Held(r, x)
    <3>1. \A z : Out(Flush(r), z) <=> Out(r, z) \/ Held(r, z)
      BY ONLY Turn(r, A, P, N, s, X, Y, p), ~p.fec, <1>3, FlushTurn, Zenon
    <3> QED BY <2>1, <3>1, Zenon
  <2>3. ASSUME Held(r, x) PROVE x.n < GroupStart(p)
    BY ONLY Turn(r, A, P, N, s, X, Y, p), ~p.fec, <1>3, <2>3, HeldBefore, Zenon
  <2> QED BY <2>2, <2>3, Zenon
<1> QED BY <1>2, <1>3, Zenon

(* A packet is first emitted when its group is whole, is left or is cut. *)
NewlyOut(t, p, a) ==
  \/ WholeOut(t, GroupStart(a), a.gs)
  \/ ~p.fec /\ a.n < GroupStart(p)
  \/ p.last /\ GroupStart(p) = GroupStart(a)

(* A turn keeps Fates.                                                       *)
LEMMA FatesTurn ==
  \A r, A, P, N, s, X, Y, p, t :
    /\ Turn(r, A, P, N, s, X, Y, p) /\ Outcome(r, p, t) /\ \A x : Out(r, x) => Out(t, x)
    /\ \A a \in A : a.fec \/ Out(r, a) \/ Held(r, a)
    /\ Fates(r, A)
    => Fates(t, A \cup {p})
<1>DataGroup.
  ASSUME NEW r, NEW A, NEW P, NEW N, NEW s, NEW X, NEW Y, NEW p, Turn(r, A, P, N, s, X, Y, p),
         ~p.fec, p.gs > 0
  PROVE  DataFacts(Taken(r, p), A, p, s)
  <2> USE <1>DataGroup
  <2>1. /\ Shape(Taken(r, p), A \cup {p}, GroupStart(p), s) /\ Taken(r, p).gs = p.gs
        /\ HeldUpTo(Taken(r, p), A, p)
    BY ONLY Turn(r, A, P, N, s, X, Y, p), ~p.fec, p.gs > 0, DataShape, Zenon
  <2> QED BY ONLY <2>1, Zenon DEF DataFacts
<1>WholeNumbered.
  ASSUME NEW r, NEW A, NEW P, NEW N, NEW s, NEW X, NEW Y, NEW p, Turn(r, A, P, N, s, X, Y, p),
         NEW t, AsWhole(r, p, t)
  PROVE  WholeOut(t, GroupStart(p), p.gs)
  <2> USE <1>WholeNumbered
  <2>1. ~p.fec /\ p.gs > 0 /\ Missing(Taken(r, p)) = {} /\ t = TakeGroup(Taken(r, p))
    BY Zenon DEF AsWhole
  <2>2. PICK u : u = Taken(r, p) OBVIOUS
  <2>3. Shape(u, A \cup {p}, GroupStart(p), s) /\ u.gs = p.gs
    <3>1. DataFacts(Taken(r, p), A, p, s)
      BY ONLY Turn(r, A, P, N, s, X, Y, p), <2>1, <1>DataGroup, Zenon
    <3> QED BY ONLY <2>2, <3>1, Zenon DEF DataFacts
  <2>4. Emits(u, t, u.slots)
    <3>1. Emits(Taken(r, p), TakeGroup(Taken(r, p)), Taken(r, p).slots)
      BY ONLY Turn(r, A, P, N, s, X, Y, p), <2>1, CompleteTurn, Zenon
    <3> QED BY ONLY <2>1, <2>2, <3>1, Zenon
  <2>5. ASSUME NEW i \in 0 .. p.gs - 1 PROVE Numbered(t, GroupStart(p) + i)
    <3>1. i \in Positions
      <4>1. u.gs \in Nat /\ u.gs <= MaxGroup BY <2>3, Zenon DEF Shape
      <4> QED BY <2>3, <4>1, FecAssumption, SMT DEF Positions
    <3>2. u.slots[i] # {} BY <2>1, <2>2, <2>3, Zenon DEF Missing
    <3>3. PICK h : h \in u.slots[i] BY <3>2, Zenon
    <3>4. h.n = GroupStart(p) + i BY <2>3, <3>1, <3>3, Zenon DEF Shape
    <3>5. Out(t, h) BY <2>4, <3>1, <3>3, Zenon DEF Emits
    <3> QED BY <3>4, <3>5, Zenon DEF Numbered
  <2> QED BY <2>5, Zenon DEF WholeOut
<1>NewFate.
  ASSUME NEW r, NEW A, NEW P, NEW N, NEW s, NEW X, NEW Y, NEW p, Turn(r, A, P, N, s, X, Y, p),
         NEW t, Outcome(r, p, t), NEW a, a = p \/ Held(r, a), ~a.fec, a.gs > 0,
         Out(t, a), ~Out(r, a)
  PROVE  NewlyOut(t, p, a)
  <2> USE <1>NewFate
  <2> USE DEF NewlyOut
  <2>1. CASE AsPlain(r, p, t)
    <3>1. ~p.fec /\ p.gs = 0 /\ t = Emit(Flush(r), Single(p)) BY <2>1, Zenon DEF AsPlain
    <3>2. a # p
      <4>1. ~(p.gs > 0) BY <3>1, SMT
      <4> QED BY <4>1, Zenon
    <3>3. Held(r, a) BY <3>2, Zenon
    <3> QED BY ONLY Turn(r, A, P, N, s, X, Y, p), <3>1, <3>3, HeldBefore, Zenon
  <2>2. CASE AsForeign(r, p, t) BY <2>2, Zenon DEF AsForeign
  <2>3. CASE AsNoted(r, p, t)
    <3>1. p.fec /\ OfGroup(r, p) /\ t = WithParity(r, p) BY <2>3, Zenon DEF AsNoted
    <3>2. ParityFacts(r, A, p, s)
      BY ONLY Turn(r, A, P, N, s, X, Y, p), <3>1, ParityGroup, Zenon
    <3>3. t.out = r.out BY ONLY <3>1, <3>2, Zenon DEF ParityFacts
    <3> QED BY <3>3, Zenon DEF Out
  <2>4. CASE AsMended(r, p, t)
    <3>1. p.fec /\ OfGroup(r, p) BY <2>4, Zenon DEF AsMended
    <3>2. Held(r, a) BY <3>1, Zenon
    <3>3. ParityFacts(r, A, p, s)
      BY ONLY Turn(r, A, P, N, s, X, Y, p), <3>1, ParityGroup, Zenon
    <3>4. r.gs = p.gs /\ Shape(r, A, GroupStart(p), s) BY ONLY <3>3, Zenon DEF ParityFacts
    <3>5. GroupStart(a) = GroupStart(p) /\ a.gs = r.gs BY ONLY <3>2, <3>4, Zenon DEF Shape, Held
    <3>6. WholeOut(t, GroupStart(p), p.gs)
      BY ONLY Turn(r, A, P, N, s, X, Y, p), <2>4, MendedNumbered, Zenon
    <3> QED BY ONLY <3>4, <3>5, <3>6, Zenon
  <2>5. ASSUME ~p.fec, p.gs > 0, Out(Taken(r, p), a) PROVE a.n < GroupStart(p)
    BY <2>5, LeftOut, Zenon
  <2>6. ASSUME ~p.fec, p.gs > 0, Held(Taken(r, p), a)
        PROVE  GroupStart(a) = GroupStart(p) /\ a.gs = p.gs
    <3>1. DataFacts(Taken(r, p), A, p, s)
      BY ONLY Turn(r, A, P, N, s, X, Y, p), <2>6, <1>DataGroup, Zenon
    <3> QED BY ONLY <2>6, <3>1, Zenon DEF DataFacts, Shape, Held
  <2>7. CASE AsHeld(r, p, t)
    <3>1. ~p.fec /\ p.gs > 0 /\ t = Taken(r, p) BY <2>7, Zenon DEF AsHeld
    <3> QED BY <2>5, <3>1, Zenon
  <2>8. CASE AsCut(r, p, t)
    <3>1. ~p.fec /\ p.gs > 0 /\ p.last /\ t = Flush(Taken(r, p)) BY <2>8, Zenon DEF AsCut
    <3>2. \A x : Out(Flush(Taken(r, p)), x) <=> Out(Taken(r, p), x) \/ Held(Taken(r, p), x)
      BY ONLY Turn(r, A, P, N, s, X, Y, p), <3>1, LastTurn, Zenon
    <3> QED BY <2>5, <2>6, <3>1, <3>2, Zenon
  <2>9. CASE AsWhole(r, p, t)
    <3>1. ~p.fec /\ p.gs > 0 /\ Missing(Taken(r, p)) = {} /\ t = TakeGroup(Taken(r, p))
      BY <2>9, Zenon DEF AsWhole
    <3>2. Emits(Taken(r, p), t, Taken(r, p).slots)
      <4>1. Emits(Taken(r, p), TakeGroup(Taken(r, p)), Taken(r, p).slots)
        BY ONLY Turn(r, A, P, N, s, X, Y, p), <3>1, CompleteTurn, Zenon
      <4> QED BY ONLY <3>1, <4>1, Zenon
    <3>3. Out(Taken(r, p), a) \/ Held(Taken(r, p), a)
      BY ONLY <3>2, Out(t, a), Zenon DEF Emits, Held
    <3>4. WholeOut(t, GroupStart(p), p.gs)
      BY ONLY Turn(r, A, P, N, s, X, Y, p), <2>9, <1>WholeNumbered, Zenon
    <3> QED BY <2>5, <2>6, <3>1, <3>3, <3>4, Zenon
  <2> QED BY <2>1, <2>2, <2>3, <2>4, <2>7, <2>8, <2>9, Zenon DEF Outcome
<1>FatesTurn.
  ASSUME NEW r, NEW A, NEW P, NEW N, NEW s, NEW X, NEW Y, NEW p, Turn(r, A, P, N, s, X, Y, p),
         NEW t, Outcome(r, p, t), \A x : Out(r, x) => Out(t, x),
         \A a \in A : a.fec \/ Out(r, a) \/ Held(r, a), Fates(r, A)
  PROVE  Fates(t, A \cup {p})
  <2> USE <1>FatesTurn
  <2>1. ASSUME NEW a \in A \cup {p}, ~a.fec, a.gs > 0, Out(t, a) PROVE Fate(t, A \cup {p}, a)
    <3>1. CASE a \in A /\ Out(r, a)
      <4>1. Fate(r, A, a) BY <2>1, <3>1, Zenon DEF Fates
      <4>2. \A k : Numbered(r, k) => Numbered(t, k) BY Zenon DEF Numbered
      <4> QED BY <4>1, <4>2, Zenon DEF Fate, WholeOut
    <3>2. CASE ~Out(r, a)
      <4>1. a = p \/ Held(r, a) BY <2>1, <3>2, Zenon
      <4>2. NewlyOut(t, p, a) BY <2>1, <3>2, <4>1, <1>NewFate, Zenon
      <4> QED BY ONLY <4>2, Zenon DEF Fate, NewlyOut
    <3>3. CASE a = p /\ Out(r, a)
      <4>1. GroupStart(p) \in X BY <2>1, <3>3, Zenon DEF Turn, Coming
      <4>2. p.n < GroupStart(p) BY <3>3, <4>1, Zenon DEF Turn, Behind
      <4>3. GroupStart(p) + p.idx = p.n /\ p.idx \in Nat /\ GroupStart(p) \in Nat
        BY <2>1, <3>3, Zenon DEF Turn, Ctx, Solids, Solid
      <4> QED BY <4>2, <4>3, SMT
    <3> QED BY <3>1, <3>2, <3>3, Zenon
  <2> QED BY <2>1, Zenon DEF Fates
<1> TAKE r, A, P, N, s, X, Y, p, t
<1> HAVE /\ Turn(r, A, P, N, s, X, Y, p) /\ Outcome(r, p, t) /\ \A x : Out(r, x) => Out(t, x)
         /\ \A a \in A : a.fec \/ Out(r, a) \/ Held(r, a)
         /\ Fates(r, A)
<1> QED BY <1>FatesTurn, Zenon

(* What was sent before p arrived before it or is lost. *)
Passed(A, D, P, p) == \A x \in P : x.n < p.n => x \in A \/ x \in D

(* What arrived is out or held.                                              *)
NoneGone(r, A) == \A a \in A : a.fec \/ Out(r, a) \/ Held(r, a)

(* At most one packet of the group of the parity q is lost, and the stream *)
(* does not end in it.                                                     *)
Repairable(q, A, D) ==
  /\ \A x, y \in D : x.n \in q.payload /\ y.n \in q.payload => x.n = y.n
  /\ \A a \in A : a.last => a.n \notin q.payload

(* Groups that can be repaired are out as a whole.                           *)
Mended(r, A, D) ==
  \A q \in A : q.fec /\ Repairable(q, A, D) => WholeOut(r, GroupStart(q), q.gs)

(* The i-th packet of the group that starts at g. *)
Member(x, P, g, i) == x \in P /\ ~x.fec /\ x.n = g + i /\ x.gs > 0 /\ GroupStart(x) = g

(* A packet missing in the group being assembled has not arrived.            *)
LEMMA MissingLost ==
  ASSUME NEW r, NEW A, NEW P, NEW s, NEW X, Behind(r, X, s), NoneGone(r, A), NEW g,
         Shape(r, A, g, s), NEW i \in Missing(r), NEW x, Member(x, P, g, i)
  PROVE  x \notin A
<1>1. r.gs \in Nat /\ r.gs <= MaxGroup /\ g \in Nat BY Zenon DEF Shape
<1>2. i \in 0 .. r.gs - 1 /\ r.slots[i] = {} BY Zenon DEF Missing
<1>3. i \in Nat /\ Positions \subseteq Nat BY <1>1, <1>2, FecAssumption, SMT DEF Positions
<1>4. x.n = g + i /\ ~x.fec BY Zenon DEF Member
<1>5. ~Out(r, x)
  <2>1. Out(r, x) => x.n < g BY AheadOfGroup, Zenon
  <2>2. ~(x.n < g) BY <1>1, <1>3, <1>4, SMT
  <2> QED BY <2>1, <2>2, Zenon
<1>6. ~Held(r, x)
  <2> SUFFICES ASSUME Held(r, x) PROVE FALSE OBVIOUS
  <2>1. PICK k \in Positions : x \in r.slots[k] BY Zenon DEF Held
  <2>2. x.n = g + k BY <2>1, Zenon DEF Shape
  <2>3. k \in Nat BY <1>3, <2>1
  <2>4. k = i BY <1>1, <1>3, <1>4, <2>2, <2>3, SMT
  <2> QED BY <1>2, <2>1, <2>4, Zenon
<1> QED BY <1>4, <1>5, <1>6, Zenon DEF NoneGone

(* A turn keeps Mended: the parity comes with one packet missing and mends the *)
(* group, or the group was out before.                                       *)
LEMMA MendedTurn ==
  \A r, A, P, N, s, X, Y, p, t, D :
    /\ Turn(r, A, P, N, s, X, Y, p) /\ Outcome(r, p, t) /\ \A x : Out(r, x) => Out(t, x)
    /\ Passed(A, D, P, p) /\ NoneGone(r, A) /\ Fates(r, A) /\ Mended(r, A, D)
    => Mended(t, A \cup {p}, D)
<1>ParityMembers.
  ASSUME NEW r, NEW A, NEW P, NEW N, NEW s, NEW X, NEW Y, NEW p, Turn(r, A, P, N, s, X, Y, p),
         p.fec, NEW D, Passed(A, D, P, p)
  PROVE  /\ GroupStart(p) \in Nat /\ p.gs \in Nat /\ p.gs >= 2 /\ p.n = GroupStart(p) + p.gs
         /\ p.payload = GroupStart(p) .. p.n - 1
         /\ \A i \in 0 .. p.gs - 1 : \E x : Member(x, P, GroupStart(p), i) /\ (x \in A \/ x \in D)
  <2> USE <1>ParityMembers
  <2>1. /\ GroupStart(p) \in Nat /\ p.gs \in Nat /\ p.gs >= 2 /\ GroupStart(p) + p.gs = p.n
        /\ p.payload = GroupStart(p) .. p.n - 1
    BY Zenon DEF Turn, Ctx, Solids, Solid
  <2>2. ASSUME NEW i \in 0 .. p.gs - 1
        PROVE \E x : Member(x, P, GroupStart(p), i) /\ (x \in A \/ x \in D)
    <3>1. GroupStart(p) + i \in GroupStart(p) .. p.n - 1 /\ GroupStart(p) + i < p.n BY <2>1, SMT
    <3>2. GroupStart(p) + i \in p.payload BY ONLY <2>1, <3>1, Zenon
    <3>3. PICK x \in P : ~x.fec /\ x.n = GroupStart(p) + i /\ x.gs > 0 /\ GroupStart(x) = GroupStart(p)
      BY <3>2, Zenon DEF Turn, Covers
    <3>4. x.n < p.n BY <3>1, <3>3, Zenon
    <3>5. x \in A \/ x \in D BY ONLY <3>3, <3>4, Passed(A, D, P, p), Zenon DEF Passed
    <3>6. Member(x, P, GroupStart(p), i) BY ONLY <3>3, Zenon DEF Member
    <3> QED BY ONLY <3>5, <3>6, Zenon
  <2> QED BY ONLY <2>1, <2>2, Zenon
<1>NotedNotRepairable.
  ASSUME NEW r, NEW A, NEW P, NEW N, NEW s, NEW X, NEW Y, NEW p, Turn(r, A, P, N, s, X, Y, p),
         NEW D, Passed(A, D, P, p), NoneGone(r, A), NEW t, AsNoted(r, p, t)
  PROVE  ~Repairable(p, A \cup {p}, D)
  <2> USE <1>NotedNotRepairable
  <2>1. PICK i \in Missing(r), j \in Missing(r) : p.fec /\ OfGroup(r, p) /\ i # j
    BY Zenon DEF AsNoted
  <2>2. PICK g : g = GroupStart(p) OBVIOUS
  <2>3. ParityFacts(r, A, p, s)
    BY ONLY Turn(r, A, P, N, s, X, Y, p), <2>1, ParityGroup, Zenon
  <2>4. r.gs = p.gs /\ Shape(r, A, g, s) BY ONLY <2>2, <2>3, Zenon DEF ParityFacts
  <2>5. /\ g \in Nat /\ p.gs \in Nat /\ p.gs >= 2 /\ p.n = g + p.gs
        /\ p.payload = g .. p.n - 1
        /\ \A k \in 0 .. p.gs - 1 : \E x : Member(x, P, g, k) /\ (x \in A \/ x \in D)
    <3>1. /\ GroupStart(p) \in Nat /\ p.gs \in Nat /\ p.gs >= 2 /\ p.n = GroupStart(p) + p.gs
          /\ p.payload = GroupStart(p) .. p.n - 1
          /\ \A k \in 0 .. p.gs - 1 : \E x : Member(x, P, GroupStart(p), k) /\ (x \in A \/ x \in D)
      BY ONLY Turn(r, A, P, N, s, X, Y, p), <2>1, Passed(A, D, P, p), <1>ParityMembers, Zenon
    <3> QED BY ONLY <2>2, <3>1, SMT
  <2>6. i \in 0 .. p.gs - 1 /\ j \in 0 .. p.gs - 1
    <3>1. Missing(r) \subseteq 0 .. r.gs - 1 BY Zenon DEF Missing
    <3> QED BY ONLY <2>1, <2>4, <3>1, Zenon
  <2>7. PICK x : Member(x, P, g, i) /\ (x \in A \/ x \in D) BY ONLY <2>5, <2>6, Zenon
  <2>8. PICK y : Member(y, P, g, j) /\ (y \in A \/ y \in D) BY ONLY <2>5, <2>6, Zenon
  <2>9. Behind(r, X, s) BY Zenon DEF Turn
  <2>10. x \in D BY ONLY <2>1, <2>4, <2>7, <2>9, NoneGone(r, A), MissingLost, Zenon
  <2>11. y \in D BY ONLY <2>1, <2>4, <2>8, <2>9, NoneGone(r, A), MissingLost, Zenon
  <2>12. x.n = g + i /\ y.n = g + j BY ONLY <2>7, <2>8, Zenon DEF Member
  <2>13. g + i \in g .. p.n - 1 /\ g + j \in g .. p.n - 1 /\ g + i # g + j
    BY <2>1, <2>5, <2>6, SMT
  <2> QED BY ONLY <2>5, <2>10, <2>11, <2>12, <2>13, Zenon DEF Repairable
<1>ForeignFate.
  ASSUME NEW r, NEW A, NEW P, NEW N, NEW s, NEW X, NEW Y, NEW p, Turn(r, A, P, N, s, X, Y, p),
         p.fec, NEW D, Repairable(p, A \cup {p}, D), NEW g, g = GroupStart(p), NEW i,
         NEW h \in A, Member(h, P, g, i), Fate(r, A, h)
  PROVE  WholeOut(r, g, p.gs)
  <2> USE <1>ForeignFate
  <2>1. /\ g \in Nat /\ p.gs \in Nat /\ p.gs >= 2 /\ g + p.gs = p.n /\ p.payload = g .. p.n - 1
        /\ p \in P /\ h \in P
    BY Zenon DEF Turn, Ctx, Solids, Solid, Member
  <2>2. ~h.fec /\ h.gs > 0 /\ GroupStart(h) = g BY Zenon DEF Member
  <2>3. h.n \in Nat /\ g <= h.n
    <3>1. GroupStart(h) + h.idx = h.n /\ h.idx \in Nat
      BY <2>1, <2>2, Zenon DEF Turn, Ctx, Solids, Solid
    <3> QED BY <2>1, <2>2, <3>1, SMT
  <2>4. h.gs = p.gs
    <3>1. p.gs > 0 BY <2>1, SMT
    <3> QED BY <2>1, <2>2, <3>1, ZenonT(40) DEF Turn, Ctx, Given, PacketInv
  <2>5. ASSUME NEW b \in A
        PROVE  /\ b \in P /\ b.n < p.n /\ b.n \in Nat /\ GroupStart(b) \in Nat
               /\ ~b.fec => GroupStart(b) <= b.n
    <3>1. b \in P /\ b.n < p.n BY Zenon DEF Turn, Ctx, Coming
    <3>2. /\ b.n \in 0 .. N - 1 /\ GroupStart(b) \in Nat /\ b.idx \in Nat
          /\ ~b.fec => GroupStart(b) + b.idx = b.n
      BY <3>1, Zenon DEF Turn, Ctx, Solids, Solid
    <3>3. b.n \in Nat BY <3>2, SMT
    <3>4. ~b.fec => GroupStart(b) <= b.n BY <3>2, <3>3, SMT
    <3> QED BY <3>1, <3>2, <3>3, <3>4, Zenon
  <2>6. ASSUME NEW b \in A, ~b.fec, h.n < GroupStart(b) PROVE FALSE
    <3>1. b \in P /\ b.n < p.n /\ b.n \in Nat /\ GroupStart(b) \in Nat /\ GroupStart(b) <= b.n
      BY <2>5, <2>6, Zenon
    <3>2. b.n \in g .. p.n - 1 BY <2>1, <2>3, <2>6, <3>1, SMT
    <3>3. PICK x \in P : ~x.fec /\ x.n = b.n /\ GroupStart(x) = g
      BY <2>1, <3>2, Zenon DEF Turn, Covers
    <3>4. x = b BY <3>1, <3>3, Zenon DEF Turn, Ctx, Given, PacketInv
    <3>5. GroupStart(b) = g BY <3>3, <3>4, Zenon
    <3> QED BY <2>1, <2>3, <2>6, <3>5, SMT
  <2>7. ASSUME NEW b \in A, b.last, GroupStart(b) = GroupStart(h) PROVE FALSE
    <3>1. b \in P /\ b.n < p.n /\ b.n \in Nat BY <2>5, Zenon
    <3>2. ~b.fec BY <2>7, <3>1, Zenon DEF Turn, Ends
    <3>3. GroupStart(b) <= b.n /\ GroupStart(b) = g BY <2>2, <2>5, <2>7, <3>2, Zenon
    <3>4. b.n \in g .. p.n - 1 BY <2>1, <3>1, <3>3, SMT
    <3>5. b.n \in p.payload BY ONLY <2>1, <3>4, Zenon
    <3> QED BY <2>7, <3>5, Zenon DEF Repairable
  <2>8. WholeOut(r, GroupStart(h), h.gs) BY ONLY <2>6, <2>7, Fate(r, A, h), Zenon DEF Fate
  <2> QED BY ONLY <2>2, <2>4, <2>8, Zenon
<1>ParityMends.
  ASSUME NEW r, NEW A, NEW P, NEW N, NEW s, NEW X, NEW Y, NEW p, Turn(r, A, P, N, s, X, Y, p),
         p.fec, NEW t, Outcome(r, p, t), NEW D, Passed(A, D, P, p), NoneGone(r, A), Fates(r, A),
         Repairable(p, A \cup {p}, D)
  PROVE  WholeOut(t, GroupStart(p), p.gs)
  <2> USE <1>ParityMends
  <2>1. CASE AsMended(r, p, t)
    BY ONLY Turn(r, A, P, N, s, X, Y, p), <2>1, MendedNumbered, Zenon
  <2>2. CASE AsNoted(r, p, t) BY <2>2, <1>NotedNotRepairable, Zenon
  <2>3. CASE AsForeign(r, p, t)
    <3>1. ~OfGroup(r, p) /\ t = r BY <2>3, Zenon DEF AsForeign
    <3>2. PICK g : g = GroupStart(p) OBVIOUS
    <3>3. /\ g \in Nat /\ p.gs \in Nat /\ p.gs >= 2 /\ p.n = g + p.gs
          /\ p.payload = g .. p.n - 1
          /\ \A k \in 0 .. p.gs - 1 : \E x : Member(x, P, g, k) /\ (x \in A \/ x \in D)
      <4>1. /\ GroupStart(p) \in Nat /\ p.gs \in Nat /\ p.gs >= 2 /\ p.n = GroupStart(p) + p.gs
            /\ p.payload = GroupStart(p) .. p.n - 1
            /\ \A k \in 0 .. p.gs - 1 : \E x : Member(x, P, GroupStart(p), k) /\ (x \in A \/ x \in D)
        BY ONLY Turn(r, A, P, N, s, X, Y, p), p.fec, Passed(A, D, P, p), <1>ParityMembers, Zenon
      <4> QED BY ONLY <3>2, <4>1, SMT
    <3>4. PICK i, h : h \in A /\ Member(h, P, g, i)
      <4>1. 0 \in 0 .. p.gs - 1 /\ 1 \in 0 .. p.gs - 1 BY <3>3, SMT
      <4>2. PICK x : Member(x, P, g, 0) /\ (x \in A \/ x \in D) BY ONLY <3>3, <4>1, Zenon
      <4>3. PICK y : Member(y, P, g, 1) /\ (y \in A \/ y \in D) BY ONLY <3>3, <4>1, Zenon
      <4>4. x.n = g + 0 /\ y.n = g + 1 BY ONLY <4>2, <4>3, Zenon DEF Member
      <4>5. g + 0 # g + 1 /\ g + 0 \in g .. p.n - 1 /\ g + 1 \in g .. p.n - 1 BY <3>3, SMT
      <4>6. x \notin D \/ y \notin D
        BY ONLY <3>3, <4>4, <4>5, Repairable(p, A \cup {p}, D), Zenon DEF Repairable
      <4> QED BY ONLY <4>2, <4>3, <4>6, Zenon
    <3>5. ~h.fec /\ h.gs > 0 /\ GroupStart(h) = g BY ONLY <3>4, Zenon DEF Member
    <3>6. ~Held(r, h)
      <4> SUFFICES ASSUME Held(r, h) PROVE FALSE OBVIOUS
      <4>1. r.base # {}
        <5>1. r.base = {} => r.slots = NoSlots BY Zenon DEF Turn, Ctx, RxInv, ReceiverInv
        <5> QED BY ONLY Held(r, h), <5>1, Zenon DEF Held, NoSlots
      <4>2. Ctx(r, A, P, N, s) /\ p \in P BY Zenon DEF Turn
      <4>3. PICK k \in Nat : Shape(r, A, k, s) BY ONLY <4>1, <4>2, BaseShape, Zenon
      <4>4. k = g BY ONLY <3>5, <4>3, Held(r, h), Zenon DEF Shape, Held
      <4>5. p.gs > 0 BY <3>3, SMT
      <4>6. OfGroup(r, p) <=> GroupStart(p) = k BY ONLY <4>2, <4>3, <4>5, SameStart, SMT
      <4> QED BY ONLY <3>1, <3>2, <4>4, <4>6, Zenon
    <3>7. Out(r, h) BY <3>4, <3>5, <3>6, Zenon DEF NoneGone
    <3>8. Fate(r, A, h) BY <3>4, <3>5, <3>7, Zenon DEF Fates
    <3>9. WholeOut(r, g, p.gs) BY <3>2, <3>4, <3>8, <1>ForeignFate, Zenon
    <3> QED BY ONLY <3>1, <3>2, <3>9, Zenon
  <2> QED
    BY <2>1, <2>2, <2>3, Zenon DEF Outcome, AsPlain, AsHeld, AsCut, AsWhole
<1>MendedTurn.
  ASSUME NEW r, NEW A, NEW P, NEW N, NEW s, NEW X, NEW Y, NEW p, Turn(r, A, P, N, s, X, Y, p),
         NEW t, Outcome(r, p, t), NEW D, Passed(A, D, P, p), NoneGone(r, A), Fates(r, A),
         \A x : Out(r, x) => Out(t, x), Mended(r, A, D)
  PROVE  Mended(t, A \cup {p}, D)
  <2> USE <1>MendedTurn
  <2>1. ASSUME NEW q \in A \cup {p}, q.fec, Repairable(q, A \cup {p}, D)
        PROVE  WholeOut(t, GroupStart(q), q.gs)
    <3>1. CASE q = p BY <2>1, <3>1, <1>ParityMends, Zenon
    <3>2. CASE q \in A
      <4>1. Repairable(q, A, D) BY <2>1, Zenon DEF Repairable
      <4>2. WholeOut(r, GroupStart(q), q.gs) BY <2>1, <3>2, <4>1, Zenon DEF Mended
      <4>3. \A k : Numbered(r, k) => Numbered(t, k) BY Zenon DEF Numbered
      <4> QED BY <4>2, <4>3, Zenon DEF WholeOut
    <3> QED BY <3>1, <3>2, Zenon
  <2> QED BY <2>1, Zenon DEF Mended
<1> TAKE r, A, P, N, s, X, Y, p, t, D
<1> HAVE /\ Turn(r, A, P, N, s, X, Y, p) /\ Outcome(r, p, t) /\ \A x : Out(r, x) => Out(t, x)
         /\ Passed(A, D, P, p) /\ NoneGone(r, A) /\ Fates(r, A) /\ Mended(r, A, D)
<1> QED BY <1>MendedTurn, Zenon

(* Interpolated timestamps. *)

(* Equal timestamps.                                                         *)
SameTime(x, q) == x.pts = q.pts

(* Where a packet that a turn emits comes from. *)
Origin(r, p, x) ==
  \/ Out(r, x) \/ Held(r, x) \/ (x = p /\ ~p.fec)
  \/ \E idx : p.fec /\ OfGroup(r, p) /\ OnlyMissing(r, idx) /\ x = Rebuilt(r, p, idx)

(* An emitted packet of a group of three or more has the time it was sent with. *)
InTime(r, P) ==
  \A x : Out(r, x) /\ x.gs >= 3 => \A q \in P : ~q.fec /\ q.n = x.n => x.pts = q.pts

(* A turn keeps InTime: the timestamps synthesize_header interpolates are those *)
(* of the packets lost.                                                      *)
LEMMA TimeTurn ==
  \A r, A, P, N, s, X, Y, p, t :
    Turn(r, A, P, N, s, X, Y, p) /\ Timed(P) /\ Outcome(r, p, t) /\ InTime(r, P) => InTime(t, P)
<1>SynthesizeTime.
  ASSUME NEW r, NEW A, NEW P, NEW N, NEW g, NEW s, Shape(r, A, g, s), A \subseteq P, Solids(P, N),
         Timed(P), NEW idx, OnlyMissing(r, idx), r.gs >= 3, NEW payload,
         NEW q, Member(q, P, g, idx), Counting
  PROVE  SameTime(Synthesize(r, idx, payload), q)
  <2> USE <1>SynthesizeTime
  <2>0. r.gs \in Nat /\ r.gs <= MaxGroup /\ g \in Nat BY Zenon DEF Shape
  <2>1. PICK K : K = Known(r) OBVIOUS
  <2>2. K \subseteq 0 .. r.gs - 1 BY <2>1, Zenon DEF Known
  <2>3. idx \in 0 .. r.gs - 1 BY Zenon DEF OnlyMissing, Missing
  <2>4. \A i \in 0 .. r.gs - 1 : i # idx => i \in K
    <3>1. \A i \in 0 .. r.gs - 1 : i # idx => i \notin Missing(r)
      BY ONLY OnlyMissing(r, idx), Zenon DEF OnlyMissing
    <3> QED BY <2>1, <3>1, Zenon DEF Known, Missing
  <2>5. \E i, j \in K : i # j
    <3>1. 0 \in 0 .. r.gs - 1 /\ 1 \in 0 .. r.gs - 1 /\ 2 \in 0 .. r.gs - 1 BY <2>0, SMT
    <3>2. idx # 0 \/ idx = 0 OBVIOUS
    <3>3. CASE idx = 0
      <4>1. 1 \in K /\ 2 \in K BY <2>4, <3>1, <3>3, SMT
      <4> QED BY <4>1, SMT
    <3>4. CASE idx = 1
      <4>1. 0 \in K /\ 2 \in K BY <2>4, <3>1, <3>4, SMT
      <4> QED BY <4>1, SMT
    <3>5. CASE idx # 0 /\ idx # 1
      <4>1. 0 \in K /\ 1 \in K BY <2>4, <3>1, <3>5, SMT
      <4> QED BY <4>1, SMT
    <3> QED BY <3>3, <3>4, <3>5, Zenon
  <2>6. K \subseteq Nat /\ K \subseteq Positions BY <2>0, <2>2, FecAssumption, SMT DEF Positions
  <2>7. PICK i0 : i0 = First(K) OBVIOUS
  <2>8. i0 \in K /\ \A j \in K : i0 <= j
    <3>1. K # {} /\ K \subseteq Nat BY <2>5, <2>6, Zenon
    <3>2. First(K) \in K /\ \A j \in K : First(K) <= j BY <3>1, FirstOf, Zenon
    <3> QED BY <2>7, <3>2, Zenon
  <2>9. PICK i1 : i1 = First(K \ {i0}) OBVIOUS
  <2>10. i1 \in K /\ i1 # i0
    <3>0. PICK j \in K : j # i0 BY ONLY <2>5, Zenon
    <3>1. K \ {i0} \subseteq Nat /\ K \ {i0} # {} BY <2>6, <3>0, Zenon
    <3>2. First(K \ {i0}) \in K \ {i0} BY <3>1, FirstOf, Zenon
    <3> QED BY <2>9, <3>2, Zenon
  <2>11. K # {i0} BY <2>10, Zenon
  <2>12. PICK h0 : h0 = CHOOSE h \in r.slots[i0] : TRUE OBVIOUS
  <2>13. PICK h1 : h1 = CHOOSE h \in r.slots[i1] : TRUE OBVIOUS
  <2>14. h0 \in r.slots[i0] /\ h1 \in r.slots[i1]
    <3>1. r.slots[i0] # {} /\ r.slots[i1] # {} BY <2>1, <2>8, <2>10, Zenon DEF Known
    <3> QED BY <2>12, <2>13, <3>1, Zenon
  <2>15. \A i \in Positions : \A h \in r.slots[i] : h \in P /\ ~h.fec /\ h.idx = i /\ h.gs > 0 /\ GroupStart(h) = g
    BY Zenon DEF Shape
  <2>16. i0 \in Positions /\ i1 \in Positions /\ i0 \in Nat /\ i1 \in Nat
    BY <2>6, <2>8, <2>10, Zenon
  <2>17. /\ h0 \in P /\ ~h0.fec /\ h0.idx = i0 /\ h0.gs > 0 /\ GroupStart(h0) = g
         /\ h1 \in P /\ ~h1.fec /\ h1.idx = i1 /\ h1.gs > 0 /\ GroupStart(h1) = g
    BY ONLY <2>14, <2>15, <2>16, Zenon
  <2>18. q \in P /\ ~q.fec /\ q.n = g + idx /\ q.gs > 0 /\ GroupStart(q) = g BY Zenon DEF Member
  <2>19. h0.pts \in Int /\ h1.pts \in Int /\ q.pts \in Int /\ q.idx \in Nat /\ GroupStart(q) + q.idx = q.n
    BY <2>17, <2>18, Zenon DEF Solids, Solid
  <2>20. q.idx = idx BY <2>0, <2>3, <2>18, <2>19, SMT
  <2>21. h0.pts - h0.idx = h1.pts - h1.idx /\ h0.pts - h0.idx = q.pts - q.idx
    BY <2>17, <2>18, Zenon DEF Timed
  <2>22. i0 < i1 BY <2>8, <2>10, <2>16, SMT
  <2>23. PICK step : step = (h1.pts - h0.pts) \div (i1 - i0) OBVIOUS
  <2>24. step = 1
    <3>1. PICK d : d = i1 - i0 OBVIOUS
    <3>2. d \in Nat /\ d > 0 /\ h1.pts - h0.pts = d
      BY <2>16, <2>17, <2>19, <2>21, <2>22, <3>1, SMT
    <3>3. step = d \div d BY <2>23, <3>1, <3>2, Zenon
    <3> QED BY ONLY <3>2, <3>3, SMT
  <2>25. Synthesize(r, idx, payload).pts = h0.pts + step * (idx - i0)
    BY ONLY <2>1, <2>7, <2>9, <2>11, <2>12, <2>13, <2>23, Zenon DEF Synthesize
  <2>26. h0.pts + step * (idx - i0) = q.pts
    BY <2>0, <2>3, <2>16, <2>17, <2>19, <2>20, <2>21, <2>24, SMT
  <2> QED BY ONLY <2>25, <2>26, Zenon DEF SameTime
<1>OutNew.
  ASSUME NEW r, NEW A, NEW P, NEW N, NEW s, NEW X, NEW Y, NEW p, Turn(r, A, P, N, s, X, Y, p),
         NEW t, Outcome(r, p, t), NEW x, Out(t, x)
  PROVE  Origin(r, p, x)
  <2> USE <1>OutNew
  <2> USE DEF Origin
  <2>1. CASE AsPlain(r, p, t)
    <3>1. ~p.fec /\ p.gs = 0 /\ t = Emit(Flush(r), Single(p)) BY <2>1, Zenon DEF AsPlain
    <3>2. \A z : Out(Emit(Flush(r), Single(p)), z) <=> Out(r, z) \/ Held(r, z) \/ z = p
      BY ONLY Turn(r, A, P, N, s, X, Y, p), <3>1, PlainTurn, Zenon
    <3> QED BY <3>1, <3>2, Zenon
  <2>2. CASE AsForeign(r, p, t) BY <2>2, Zenon DEF AsForeign
  <2>3. CASE AsNoted(r, p, t)
    <3>1. p.fec /\ OfGroup(r, p) /\ t = WithParity(r, p) BY <2>3, Zenon DEF AsNoted
    <3>2. ParityFacts(r, A, p, s)
      BY ONLY Turn(r, A, P, N, s, X, Y, p), <3>1, ParityGroup, Zenon
    <3>3. t.out = r.out BY ONLY <3>1, <3>2, Zenon DEF ParityFacts
    <3> QED BY <3>3, Zenon DEF Out
  <2>4. CASE AsMended(r, p, t)
    <3>1. PICK idx : p.fec /\ OfGroup(r, p) /\ OnlyMissing(r, idx) /\ t = TakeGroup(Repaired(r, p, idx))
      BY <2>4, Zenon DEF AsMended
    <3>2. PICK m : m = Repaired(r, p, idx) OBVIOUS
    <3>3. PICK y : y = Rebuilt(r, p, idx) OBVIOUS
    <3>4. MendFacts(r, p, idx, Repaired(r, p, idx), TakeGroup(Repaired(r, p, idx)), Rebuilt(r, p, idx))
      BY ONLY Turn(r, A, P, N, s, X, Y, p), <3>1, RepairTurn, Zenon
    <3>5. MendFacts(r, p, idx, m, t, y) BY ONLY <3>1, <3>2, <3>3, <3>4, Zenon
    <3>6. Out(r, x) \/ \E i \in Positions : x \in m.slots[i]
      BY ONLY <3>5, Out(t, x), Zenon DEF MendFacts, Emits
    <3>7. \A i \in Positions : m.slots[i] = IF i = idx THEN {y} ELSE r.slots[i]
      BY ONLY <3>3, <3>5, Zenon DEF MendFacts, Mended1
    <3>8. Out(r, x) \/ Held(r, x) \/ x = y BY ONLY <3>6, <3>7, Zenon DEF Held
    <3> QED BY ONLY <3>1, <3>3, <3>8, Zenon DEF Origin
  <2>5. ASSUME ~p.fec, p.gs > 0, Out(Taken(r, p), x) PROVE Out(r, x) \/ Held(r, x)
    BY ONLY Turn(r, A, P, N, s, X, Y, p), <2>5, LeftOut, Zenon
  <2>6. ASSUME ~p.fec, p.gs > 0, Held(Taken(r, p), x) PROVE Held(r, x) \/ x = p
    <3>1. x = p \/ Held(Left(r, p), x)
      <4>1. \A z : Held(Taken(r, p), z) => z = p \/ Held(Left(r, p), z)
        BY ONLY Turn(r, A, P, N, s, X, Y, p), <2>6, DataBehind, Zenon
      <4> QED BY <2>6, <4>1, Zenon
    <3>2. ASSUME r.base # {WrappingSub(p.seq, p.idx)} PROVE ~Held(Flush(r), x)
      <4>1. \A z : ~Held(Flush(r), z)
        BY ONLY Turn(r, A, P, N, s, X, Y, p), <2>6, <3>2, FlushTurn, Zenon
      <4> QED BY <4>1, Zenon
    <3> QED BY ONLY <3>1, <3>2, Zenon DEF Left
  <2>7. CASE AsHeld(r, p, t)
    <3>1. ~p.fec /\ p.gs > 0 /\ t = Taken(r, p) BY <2>7, Zenon DEF AsHeld
    <3> QED BY <2>5, <3>1, Zenon
  <2>8. CASE AsCut(r, p, t)
    <3>1. ~p.fec /\ p.gs > 0 /\ p.last /\ t = Flush(Taken(r, p)) BY <2>8, Zenon DEF AsCut
    <3>2. \A z : Out(Flush(Taken(r, p)), z) <=> Out(Taken(r, p), z) \/ Held(Taken(r, p), z)
      BY ONLY Turn(r, A, P, N, s, X, Y, p), <3>1, LastTurn, Zenon
    <3> QED BY <2>5, <2>6, <3>1, <3>2, Zenon
  <2>9. CASE AsWhole(r, p, t)
    <3>1. ~p.fec /\ p.gs > 0 /\ Missing(Taken(r, p)) = {} /\ t = TakeGroup(Taken(r, p))
      BY <2>9, Zenon DEF AsWhole
    <3>2. Emits(Taken(r, p), t, Taken(r, p).slots)
      <4>1. Emits(Taken(r, p), TakeGroup(Taken(r, p)), Taken(r, p).slots)
        BY ONLY Turn(r, A, P, N, s, X, Y, p), <3>1, CompleteTurn, Zenon
      <4> QED BY ONLY <3>1, <4>1, Zenon
    <3>3. Out(Taken(r, p), x) \/ Held(Taken(r, p), x)
      BY ONLY <3>2, Out(t, x), Zenon DEF Emits, Held
    <3> QED BY <2>5, <2>6, <3>1, <3>3, Zenon
  <2> QED BY <2>1, <2>2, <2>3, <2>4, <2>7, <2>8, <2>9, Zenon DEF Outcome
<1>RebuiltTime.
  ASSUME NEW r, NEW A, NEW P, NEW N, NEW s, NEW X, NEW Y, NEW p, Turn(r, A, P, N, s, X, Y, p),
         Timed(P), p.fec, OfGroup(r, p), NEW idx, OnlyMissing(r, idx), NEW y, y = Rebuilt(r, p, idx),
         y.gs >= 3, NEW q \in P, q.n = y.n
  PROVE  SameTime(y, q)
  <2> USE <1>RebuiltTime
  <2>1. PICK g : g = GroupStart(p) OBVIOUS
  <2>2. PICK w : w = WithParity(r, p) OBVIOUS
  <2>3. MendFacts(r, p, idx, Repaired(r, p, idx), TakeGroup(Repaired(r, p, idx)), Rebuilt(r, p, idx))
   
      BY ONLY Turn(r, A, P, N, s, X, Y, p), p.fec, OfGroup(r, p), OnlyMissing(r, idx), RepairTurn, Zenon
  <2>4. y.n = g + idx /\ y.gs = r.gs
    <3>1. Rebuilt(r, p, idx).n = GroupStart(p) + idx /\ Rebuilt(r, p, idx).gs = r.gs
      BY ONLY <2>3, Zenon DEF MendFacts
    <3> QED BY <2>1, <3>1, SMT
  <2>5. /\ w.gs = r.gs /\ w.slots = r.slots /\ Missing(w) = Missing(r)
        /\ Shape(w, A \cup {p}, g, s)
    <3>1. LET v == WithParity(r, p)
          IN /\ v \in Receiver /\ v.base = r.base /\ v.prev = r.prev /\ v.out = r.out /\ v.gs = r.gs
             /\ v.slots = r.slots /\ v.parity = {p.payload} /\ v.recovered = r.recovered
             /\ v.lost = r.lost /\ RxInv(v, A \cup {p}, N, s) /\ Ctx(v, A \cup {p}, P, N, s)
             /\ Missing(v) = Missing(r) /\ Behind(v, X, s)
             /\ Shape(v, A \cup {p}, GroupStart(p), s) /\ Shape(r, A, GroupStart(p), s)
      BY ONLY Turn(r, A, P, N, s, X, Y, p), p.fec, OfGroup(r, p), ParityKept, Zenon
    <3> QED BY ONLY <2>1, <2>2, <3>1, ZenonT(40)
  <2>6. ParityFacts(r, A, p, s)
    BY ONLY Turn(r, A, P, N, s, X, Y, p), p.fec, OfGroup(r, p), ParityGroup, Zenon
  <2>7. r.gs = p.gs /\ g + r.gs = p.n /\ p.payload = g .. p.n - 1 /\ r.gs \in Nat /\ g \in Nat
    BY ONLY <2>1, <2>6, Zenon DEF ParityFacts, Shape
  <2>8. idx \in 0 .. r.gs - 1 BY Zenon DEF OnlyMissing, Missing
  <2>9. g + idx \in g .. p.n - 1 BY ONLY <2>7, <2>8, SMT
  <2>10. g + idx \in p.payload BY ONLY <2>7, <2>9, Zenon
  <2>11. PICK x \in P : ~x.fec /\ x.n = g + idx /\ x.gs > 0 /\ GroupStart(x) = g
    BY <2>1, <2>10, Zenon DEF Turn, Covers
  <2>12. x = q
    <3>1. x.n = q.n BY <2>4, <2>11, Zenon
    <3> QED BY <2>11, <3>1, Zenon DEF Turn, Ctx, Given, PacketInv
  <2>13. Member(q, P, g, idx) BY ONLY <2>11, <2>12, Zenon DEF Member
  <2>14. A \cup {p} \subseteq P /\ Solids(P, N) /\ Counting BY Zenon DEF Turn, Ctx, Given
  <2>15. OnlyMissing(w, idx) BY ONLY <2>5, OnlyMissing(r, idx), Zenon DEF OnlyMissing
  <2>16. w.gs >= 3 BY <2>4, <2>5
  <2>17. SameTime(Synthesize(w, idx, XorAll(p.payload, r.slots)), q)
    BY ONLY Timed(P), <2>5, <2>13, <2>14, <2>15, <2>16, <1>SynthesizeTime, Zenon
  <2> QED BY ONLY <2>2, <2>17, y = Rebuilt(r, p, idx), Zenon DEF Rebuilt
<1>TimeTurn.
  ASSUME NEW r, NEW A, NEW P, NEW N, NEW s, NEW X, NEW Y, NEW p, Turn(r, A, P, N, s, X, Y, p),
         Timed(P), NEW t, Outcome(r, p, t), InTime(r, P)
  PROVE  InTime(t, P)
  <2> USE <1>TimeTurn
  <2>1. ASSUME NEW x, Out(t, x), x.gs >= 3, NEW q \in P, ~q.fec, q.n = x.n PROVE x.pts = q.pts
    <3>1. Origin(r, p, x) BY <2>1, <1>OutNew, Zenon
    <3>2. CASE Out(r, x) BY <2>1, <3>2, Zenon DEF InTime
    <3>3. CASE x \in P
      <4>1. x = q BY <2>1, <3>3, Zenon DEF Turn, Ctx, Given, PacketInv
      <4> QED BY <4>1
    <3>4. CASE Held(r, x) \/ (x = p /\ ~p.fec)
      <4>1. x \in P BY <3>4, Zenon DEF Turn, Ctx, RxInv, ReceiverInv, Held
      <4> QED BY <3>3, <4>1, Zenon
    <3>5. CASE \E idx : p.fec /\ OfGroup(r, p) /\ OnlyMissing(r, idx) /\ x = Rebuilt(r, p, idx)
      <4>1. PICK idx : p.fec /\ OfGroup(r, p) /\ OnlyMissing(r, idx) /\ x = Rebuilt(r, p, idx)
        BY <3>5
      <4>2. SameTime(x, q)
        BY ONLY Turn(r, A, P, N, s, X, Y, p), Timed(P), <2>1, <4>1, <1>RebuiltTime, Zenon
      <4> QED BY <4>2, Zenon DEF SameTime
    <3> QED BY <3>1, <3>2, <3>4, <3>5, Zenon DEF Origin
  <2> QED BY <2>1, Zenon DEF InTime
<1> TAKE r, A, P, N, s, X, Y, p, t
<1> HAVE Turn(r, A, P, N, s, X, Y, p) /\ Timed(P) /\ Outcome(r, p, t) /\ InTime(r, P)
<1> QED BY <1>TimeTurn, Zenon

(* The invariant behind the repair of a loss.                                *)
LossInv == Fates(rx, arrived) /\ Mended(rx, arrived, dropped) /\ InTime(rx, Datagrams)

(* Nothing was lost at the start.                                            *)
LEMMA LossInit == Init => LossInv
<1> SUFFICES ASSUME Init PROVE LossInv OBVIOUS
<1>1. arrived = {} /\ rx = NewReceiver BY Zenon DEF Init
<1>2. rx.out = <<>> BY <1>1, Zenon DEF NewReceiver
<1>3. Len(rx.out) = 0 /\ \A k \in 1..0 : FALSE BY <1>2, SMT
<1>4. \A x : ~Out(rx, x) BY <1>3, Zenon DEF Out
<1> QED BY <1>1, <1>4, Zenon DEF LossInv, Fates, Mended, InTime

(* What is sent has not arrived yet.                                         *)
LEMMA LossSend ==
  ASSUME IInv, LossInv, NEW last \in BOOLEAN, SendAudio(last)
  PROVE  LossInv'
<1>1. rx' = rx /\ arrived' = arrived /\ dropped' = dropped BY Zenon DEF SendAudio
<1>2. \A q \in Datagrams' : q \in Datagrams \/ q.n = sent \/ q.n = sent + 1
  <2>1. DataPacket(last).n = sent /\ ParityPacket.n = sent + 1
    BY Zenon DEF DataPacket, ParityPacket
  <2>2. net' \subseteq net \cup {DataPacket(last), ParityPacket} BY Zenon DEF SendAudio
  <2> QED BY <1>1, <2>1, <2>2, Zenon DEF Datagrams
<1>3. sent \in Nat BY SendingTypes, Zenon
<1>4. ASSUME NEW x, Out(rx, x) PROVE x.n # sent /\ x.n # sent + 1
  <2>1. x.n \in 0 .. sent - 1 BY <1>4, Zenon DEF IInv, RecoveredExact, Genuine, Out
  <2> QED BY <1>3, <2>1, SMT
<1>5. InTime(rx, Datagrams') BY <1>2, <1>4, Zenon DEF LossInv, InTime
<1> QED BY <1>1, <1>5, Zenon DEF LossInv

(* A loss makes fewer groups repairable.                                     *)
LEMMA LossLose ==
  ASSUME LossInv, NEW p \in net, Lose(p)
  PROVE  LossInv'
<1>1. rx' = rx /\ arrived' = arrived /\ dropped \subseteq dropped' BY Zenon DEF Lose
<1>2. Datagrams' = Datagrams BY Moves, Zenon
<1>3. \A q : Repairable(q, arrived, dropped') => Repairable(q, arrived, dropped)
  BY <1>1, Zenon DEF Repairable
<1>4. Mended(rx, arrived, dropped') BY <1>3, Zenon DEF LossInv, Mended
<1> QED BY <1>1, <1>2, <1>4, Zenon DEF LossInv

(* A turn keeps the three.                                                   *)
LEMMA LossReceive ==
  ASSUME Counting, Ordered, IInv, OrderInv, LossInv, NEW p \in net, NEW keep \in BOOLEAN,
         Receive(p, keep)
  PROVE  LossInv'
<1>1. /\ arrived' = arrived \cup {p} /\ rx' = ReceiveOf(rx, p) /\ dropped' = dropped
      /\ \A q \in net : p.n <= q.n
  BY OrderedReceive, Zenon
<1>2. PICK t : t = ReceiveOf(rx, p) OBVIOUS
<1>3. Turn(rx, arrived, Datagrams, sent, start, ToCome, ToCome', p) BY StateTurn, Zenon
<1>4. Outcome(rx, p, t)
  <2>1. Outcome(rx, p, ReceiveOf(rx, p)) BY ONLY <1>3, ReceiveOutcome, Zenon
  <2> QED BY ONLY <1>2, <2>1, Zenon
<1>5. p \in Datagrams BY Zenon DEF Datagrams
<1>6. \A x : Out(rx, x) => Out(t, x)
  <2>1. Given(Datagrams, sent, start) BY <1>3, Zenon DEF Turn, Ctx
  <2>2. RxInv(rx, Datagrams, sent, start)
    <3>1. RxInv(rx, arrived, sent, start) /\ arrived \subseteq Datagrams
      BY <1>3, Zenon DEF Turn, Ctx
    <3> QED BY ONLY <3>1, SMTT(60) DEF RxInv, ReceiverInv
  <2>3. Keeps(rx, ReceiveOf(rx, p)) BY ONLY <1>5, <2>1, <2>2, ReceiveInv, Zenon
  <2> QED BY ONLY <1>2, <2>3, Zenon DEF Keeps
<1>7. NoneGone(rx, arrived) BY Zenon DEF IInv, NoPacketVanishes, NoneGone
<1>8. Passed(arrived, dropped, Datagrams, p)
  <2>1. ASSUME NEW x \in net, x.n < p.n PROVE FALSE
    <3>1. x.n \in Int /\ p.n \in Int /\ p.n <= x.n BY <1>1, <1>5, Unique, Zenon DEF Datagrams
    <3> QED BY <2>1, <3>1, SMT
  <2> QED BY <2>1, Zenon DEF Passed, Datagrams
<1>9. Fates(rx, arrived) /\ Mended(rx, arrived, dropped) /\ InTime(rx, Datagrams)
  BY Zenon DEF LossInv
<1>10. Fates(t, arrived \cup {p})
  <2>1. \A a \in arrived : a.fec \/ Out(rx, a) \/ Held(rx, a) BY <1>7, Zenon DEF NoneGone
  <2> QED BY ONLY <1>3, <1>4, <1>6, <1>9, <2>1, FatesTurn, Zenon
<1>11. Mended(t, arrived \cup {p}, dropped)
  BY ONLY <1>3, <1>4, <1>6, <1>7, <1>8, <1>9, MendedTurn, Zenon
<1>12. Timed(Datagrams) BY Zenon DEF OrderInv, Sending, StreamInv
<1>13. InTime(t, Datagrams) BY ONLY <1>3, <1>4, <1>9, <1>12, TimeTurn, Zenon
<1>14. Datagrams' = Datagrams BY Moves, Zenon
<1> QED BY <1>1, <1>2, <1>10, <1>11, <1>13, <1>14, Zenon DEF LossInv

(* Every step keeps them.                                                    *)
LEMMA LossStep ==
  ASSUME Counting, Ordered, IInv, OrderInv, LossInv, [Next]_vars
  PROVE  LossInv'
<1>1. ASSUME NEW gs \in GroupSizes \cup {0}, SetFec(gs) PROVE LossInv'
  <2>1. UNCHANGED <<rx, arrived, net, dropped>> BY <1>1, Zenon DEF SetFec
  <2> QED BY <2>1, Zenon DEF LossInv, Datagrams
<1>2. CASE UNCHANGED vars
  <2>1. UNCHANGED <<rx, arrived, net, dropped>> BY <1>2, Zenon DEF vars
  <2> QED BY <2>1, Zenon DEF LossInv, Datagrams
<1> QED BY <1>1, <1>2, LossSend, LossLose, LossReceive, Zenon DEF Next

(* What the cardinality of SingleLoss says. *)
LEMMA AtMostOneLost ==
  ASSUME NEW S, NEW a \in Int, NEW b \in Int, S \subseteq a .. b, NEW x \in S, NEW y \in S,
         x # y, Counting
  PROVE  Cardinality(S) \in Nat /\ Cardinality(S) >= 2
<1>1. /\ Cardinality(S) \in Nat
      /\ Cardinality(S) = 0 <=> S = {}
      /\ Cardinality(S) = 1 <=> \E z : S = {z}
  <2>1. Intervals BY Zenon DEF Counting
  <2>2. Counted(S) BY <2>1, Zenon DEF Intervals
  <2> QED BY ONLY <2>2, Zenon DEF Counted
<1>2. S # {} /\ ~\E z : S = {z}
  <2>1. x \in S /\ y \in S /\ x # y OBVIOUS
  <2> QED BY ONLY <2>1
<1>3. Cardinality(S) # 0 /\ Cardinality(S) # 1 BY ONLY <1>1, <1>2, Zenon
<1> QED BY ONLY <1>1, <1>3, SMT

(* A set within an interval that counts none is empty.                       *)
LEMMA NoneLost ==
  ASSUME NEW S, NEW a \in Int, NEW b \in Int, S \subseteq a .. b, Cardinality(S) <= 0, Counting
  PROVE  S = {}
<1>1. Cardinality(S) \in Nat /\ (Cardinality(S) = 0 <=> S = {})
  <2>1. Intervals BY Zenon DEF Counting
  <2>2. Counted(S) BY <2>1, Zenon DEF Intervals
  <2> QED BY ONLY <2>2, Zenon DEF Counted
<1>2. Cardinality(S) = 0 BY <1>1, SMT
<1> QED BY ONLY <1>1, <1>2, Zenon

(* Numbered in the words of the property.                                    *)
LEMMA Emitted ==
  ASSUME NEW k, Numbered(rx, k)
  PROVE  k \in OutNumbers
<1>1. PICK x : Out(rx, x) /\ x.n = k BY Zenon DEF Numbered
<1>2. PICK l \in 1..Len(rx.out), i \in Positions : x \in rx.out[l][i] BY <1>1, Zenon DEF Out
<1>3. x.n \in {p.n : p \in rx.out[l][i]} BY <1>2, Zenon
<1> DEFINE S(m) == UNION {{p.n : p \in rx.out[m][j]} : j \in Positions}
<1>4. x.n \in S(l) BY <1>2, <1>3, Zenon
<1>5. OutNumbers = UNION {S(m) : m \in 1..Len(rx.out)} BY Zenon DEF OutNumbers
<1> HIDE DEF S
<1>6. x.n \in UNION {S(m) : m \in 1..Len(rx.out)} BY <1>2, <1>4, Zenon
<1> QED BY ONLY <1>1, <1>5, <1>6, Zenon

(* A group with one loss whose parity arrived is out as a whole.             *)
LEMMA LossRepairedArrived ==
  ASSUME Counting, IInv, OrderInv, LossInv, NEW q \in arrived, SingleLoss(q),
         \A p \in arrived : p.last => p.n \notin q.payload
  PROVE  q.payload \subseteq OutNumbers
<1>1. q.fec /\ Cardinality(q.payload \cap Numbers(dropped)) <= 1 BY Zenon DEF SingleLoss
<1>2. PICK g : g = GroupStart(q) OBVIOUS
<1>3. g \in Nat /\ q.gs \in Nat /\ g + q.gs = q.n /\ q.payload = g .. q.n - 1
  BY <1>1, <1>2, SendingTypes, Zenon DEF Datagrams, Solids, Solid
<1>4. ASSUME NEW x \in dropped, NEW y \in dropped, x.n \in q.payload, y.n \in q.payload, x.n # y.n
      PROVE  FALSE
  <2>1. x.n \in q.payload \cap Numbers(dropped) /\ y.n \in q.payload \cap Numbers(dropped)
    BY <1>4, Zenon DEF Numbers
  <2>2. q.payload \cap Numbers(dropped) \subseteq g .. q.n - 1 BY ONLY <1>3, Zenon
  <2>3. g \in Int /\ q.n - 1 \in Int BY <1>3, SMT
  <2>4. /\ Cardinality(q.payload \cap Numbers(dropped)) \in Nat
        /\ Cardinality(q.payload \cap Numbers(dropped)) >= 2
    BY ONLY Counting, <1>4, <2>1, <2>2, <2>3, AtMostOneLost, Zenon
  <2> QED BY <1>1, <2>4, SMT
<1>5. Repairable(q, arrived, dropped) BY <1>4, Zenon DEF Repairable
<1>6. WholeOut(rx, g, q.gs) BY <1>1, <1>2, <1>5, Zenon DEF LossInv, Mended
<1>7. ASSUME NEW k \in g .. q.n - 1 PROVE k \in OutNumbers
  <2>1. PICK i : i = k - g OBVIOUS
  <2>2. i \in 0 .. q.gs - 1 /\ g + i = k BY <1>3, <2>1, SMT
  <2>3. Numbered(rx, k) BY ONLY <1>6, <2>2, Zenon DEF WholeOut
  <2> QED BY <2>3, Emitted, Zenon
<1> QED BY ONLY <1>3, <1>7, Zenon

(* When the parity is the datagram lost, all packets of the group arrived, and *)
(* are out or make the group whole.                                          *)
LEMMA LossRepairedDropped ==
  ASSUME Counting, IInv, OrderInv, LossInv, NEW q \in dropped, q \notin arrived, SingleLoss(q)
  PROVE  q.payload \subseteq OutNumbers
<1>1. /\ q.fec /\ q.payload \cap Numbers(net) = {}
      /\ Cardinality(q.payload \cap Numbers(dropped)) <= 0
  BY Zenon DEF SingleLoss
<1>2. PICK g : g = GroupStart(q) OBVIOUS
<1>3. g \in Nat /\ q.gs \in Nat /\ q.gs >= 2 /\ g + q.gs = q.n /\ q.payload = g .. q.n - 1
  BY <1>1, <1>2, SendingTypes, Zenon DEF Datagrams, Solids, Solid
<1>4. q.payload \cap Numbers(dropped) = {}
  <2>1. q.payload \cap Numbers(dropped) \subseteq g .. q.n - 1 BY ONLY <1>3, Zenon
  <2>2. g \in Int /\ q.n - 1 \in Int BY <1>3, SMT
  <2> QED BY ONLY Counting, <1>1, <2>1, <2>2, NoneLost, Zenon
<1>5. \A x : x \in net \/ x \in dropped => x.n \notin q.payload
  BY ONLY <1>1, <1>4, Zenon DEF Numbers
<1>6. q \in Datagrams BY Zenon DEF Datagrams
<1>7. ASSUME NEW i \in 0 .. q.gs - 1 PROVE \E x \in arrived : Member(x, Datagrams, g, i)
  <2>1. g + i \in g .. q.n - 1 BY <1>3, SMT
  <2>2. g + i \in q.payload BY ONLY <1>3, <2>1, Zenon
  <2>3. Covers(Datagrams) BY Zenon DEF OrderInv, Sending, StreamInv
  <2>4. PICK x \in Datagrams : ~x.fec /\ x.n = g + i /\ x.gs > 0 /\ GroupStart(x) = g
    BY ONLY <1>1, <1>2, <1>6, <2>2, <2>3, Zenon DEF Covers
  <2>5. x \in arrived BY ONLY <1>5, <2>2, <2>4, Zenon DEF Datagrams
  <2>6. Member(x, Datagrams, g, i) BY ONLY <2>4, Zenon DEF Member
  <2> QED BY <2>5, <2>6, Zenon
<1>8. Ctx(rx, arrived, Datagrams, sent, start)
  <2>1. RxInv(rx, arrived, sent, start)
    BY Zenon DEF IInv, TypeOK, GroupsApart, RecoveredExact, RxInv, RxType
  <2>2. Given(Datagrams, sent, start)
    BY Zenon DEF IInv, TypeOK, GroupsApart, Given, Datagrams
  <2>3. Solids(Datagrams, sent) BY SendingTypes, Zenon
  <2> QED BY <2>1, <2>2, <2>3, Zenon DEF Ctx, Datagrams
<1>9. NoneGone(rx, arrived) BY Zenon DEF IInv, NoPacketVanishes, NoneGone
<1>10. ASSUME NEW x \in arrived, NEW i, Member(x, Datagrams, g, i), Held(rx, x) PROVE FALSE
  <2>1. rx.base # {}
    <3>1. rx.base = {} => rx.slots = NoSlots BY <1>8, Zenon DEF Ctx, RxInv, ReceiverInv
    <3> QED BY ONLY <1>10, <3>1, Zenon DEF Held, NoSlots
  <2>2. PICK k \in Nat : Shape(rx, arrived, k, start) BY ONLY <1>8, <2>1, BaseShape, Zenon
  <2>3. k = g /\ x.gs = rx.gs /\ x.gs > 0
    <3>1. GroupStart(x) = k /\ x.gs = rx.gs /\ x.gs > 0 BY ONLY <1>10, <2>2, Zenon DEF Shape, Held
    <3>2. GroupStart(x) = g BY ONLY <1>10, Zenon DEF Member
    <3> QED BY ONLY <3>1, <3>2, Zenon
  <2>4. rx.gs = q.gs
    <3>1. q.gs > 0 BY <1>3, SMT
    <3>2. GroupStart(x) = GroupStart(q) /\ x \in Datagrams BY ONLY <1>2, <1>10, Zenon DEF Member
    <3>3. PacketInv(Datagrams, sent, start) BY Zenon DEF IInv, GroupsApart
    <3>4. x.gs = q.gs BY ONLY <1>6, <2>3, <3>1, <3>2, <3>3, Zenon DEF PacketInv
    <3> QED BY ONLY <2>3, <3>4, Zenon
  <2>5. PICK j : j \in Missing(rx) BY <2>1, Zenon DEF OrderInv, InLine, Tight
  <2>6. j \in 0 .. q.gs - 1
    <3>1. j \in 0 .. rx.gs - 1 BY <2>5, Zenon DEF Missing
    <3> QED BY ONLY <2>4, <3>1, Zenon
  <2>7. PICK y \in arrived : Member(y, Datagrams, g, j) BY <1>7, <2>6, Zenon
  <2>8. Behind(rx, ToCome, start) BY Zenon DEF OrderInv, InLine
  <2>9. Shape(rx, arrived, g, start) BY ONLY <2>2, <2>3, Zenon
  <2>10. y \notin arrived BY ONLY <1>9, <2>5, <2>7, <2>8, <2>9, MissingLost, Zenon
  <2> QED BY <2>7, <2>10
<1>11. ASSUME NEW k \in g .. q.n - 1 PROVE k \in OutNumbers
  <2>1. PICK i : i = k - g OBVIOUS
  <2>2. i \in 0 .. q.gs - 1 /\ g + i = k BY <1>3, <2>1, SMT
  <2>3. PICK x \in arrived : Member(x, Datagrams, g, i) BY <1>7, <2>2, Zenon
  <2>4. ~x.fec /\ x.n = k BY ONLY <2>2, <2>3, Zenon DEF Member
  <2>5. ~Held(rx, x) BY <1>10, <2>3, Zenon
  <2>6. Out(rx, x) BY ONLY <1>9, <2>3, <2>4, <2>5, Zenon DEF NoneGone
  <2>7. Numbered(rx, k) BY ONLY <2>4, <2>6, Zenon DEF Numbered
  <2> QED BY <2>7, Emitted, Zenon
<1> QED BY ONLY <1>3, <1>11, Zenon

-----------------------------------------------------------------------------
(* The theorems.                                                           *)

INSTANCE FiniteSetTheorems

(* Intervals are finite, and sets of naturals have a least element.        *)
LEMMA CountingHolds == Counting
<1>1. ASSUME NEW a \in Int, NEW b \in Int, NEW S \in SUBSET (a .. b)
      PROVE  Counted(S)
  <2>1. IsFiniteSet(a .. b) BY FS_Interval
  <2>2. IsFiniteSet(S) BY <2>1, FS_Subset, Zenon
  <2> QED BY <2>2, FS_CardinalityType, FS_EmptySet, FS_Singleton, Zenon DEF Counted
<1>2. Cardinality({}) = 0 /\ \A x : Alone(x)
  BY FS_EmptySet, FS_Singleton, Zenon DEF Alone
<1>3. ASSUME NEW S \in SUBSET Nat, S # {} PROVE \E x \in S : \A y \in S : x <= y
  <2>1. PICK x \in S : \A y \in S : ~(<<y, x>> \in OpToRel(<, Nat))
    BY <1>3, NatLessThanWellFounded, WFMin, Zenon
  <2>2. ASSUME NEW y \in S PROVE x <= y
    <3>1. x \in Nat /\ y \in Nat BY Zenon
    <3>2. <<y, x>> \in {ss \in Nat \X Nat : ss[1] < ss[2]} <=> y < x BY <3>1, Zenon
    <3>3. <<y, x>> \in OpToRel(<, Nat) <=> y < x BY <3>2, Zenon DEF OpToRel
    <3>4. ~(y < x) BY <3>3, <2>1, Zenon
    <3> QED BY ONLY <3>1, <3>4, SMT
  <2> QED BY <2>2, Zenon
<1> QED BY <1>1, <1>2, <1>3, Zenon DEF Counting, Intervals, Leasts

(* The invariant holds in every reachable state.                           *)
THEOREM Invariance == Spec => []IInv
<1>1. ASSUME IInv, [Next]_vars PROVE IInv'
  <2>1. CASE \E last \in BOOLEAN : SendAudio(last) BY <1>1, <2>1, SendAudioStep, Zenon
  <2>2. CASE \E gs \in GroupSizes \cup {0} : SetFec(gs) BY <1>1, <2>2, SetFecStep, Zenon
  <2>3. CASE \E p \in net, keep \in BOOLEAN : Receive(p, keep)
    BY <1>1, <2>3, CountingHolds, ReceiveStep, Zenon
  <2>4. CASE \E p \in net : Lose(p) BY <1>1, <2>4, LoseStep, Zenon
  <2>5. CASE UNCHANGED vars
    BY <1>1, <2>5, Zenon DEF vars, IInv, TypeOK, GroupsApart, Datagrams, SenderInv,
                             NoPacketVanishes, RecoveredExact
  <2> QED BY <1>1, <2>1, <2>2, <2>3, <2>4, <2>5, Zenon DEF Next
<1> QED BY <1>1, InitInv, PTL DEF Spec

(* Type correctness of sender, network and receiver.                       *)
THEOREM TypeCorrect == Spec => []TypeOK
BY Invariance, PTL DEF IInv

(* No data packet handed to FecReceiver::feed disappears inside it,        *)
(* whatever the network does.                                              *)
THEOREM NothingVanishes == Spec => []NoPacketVanishes
BY Invariance, PTL DEF IInv

(* What FecReceiver emits, recovered packets included, is what the zone    *)
(* sent under that sequence number.                                        *)
THEOREM RecoveryExact == Spec => []RecoveredExact
BY Invariance, PTL DEF IInv

(* Datagrams of different groups are never combined.                       *)
THEOREM GroupsStayApart == Spec => []GroupsApart
BY Invariance, PTL DEF IInv

(* On a path that neither reorders nor duplicates, the sender keeps to the form of *)
(* the stream, arrivals are in order and the receiver is in line.            *)
THEOREM OrderedInvariance ==
  ASSUME Ordered
  PROVE  Spec => []OrderInv
<1>1. IInv /\ OrderInv /\ [Next]_vars => OrderInv' BY CountingHolds, OrderStep, Zenon
<1> QED BY <1>1, OrderInit, Invariance, PTL DEF Spec

(* EmittedInOrder: on a path that neither reorders nor duplicates,           *)
(* FecReceiver emits packets in the order in which the zone sent them, whatever is *)
(* lost and recovered and wherever FEC is switched.                          *)
THEOREM OrderedOut ==
  ASSUME ~Reorder, MaxDup = 0
  PROVE  Spec => []EmittedInOrder
<1>1. Ordered BY DEF Ordered
<1>2. OrderInv => EmittedInOrder
  BY Zenon DEF OrderInv, InLine, Behind, InOrder, EmittedInOrder
<1>3. Spec => []OrderInv BY <1>1, OrderedInvariance, Zenon
<1> QED BY <1>2, <1>3, PTL

(* StreamEndDrained: on a path that neither reorders nor duplicates, once    *)
(* audio_receive_loop has seen LAST_PACKET, everything that arrived has been *)
(* emitted.                                                                  *)
THEOREM StreamDrained ==
  ASSUME ~Reorder, MaxDup = 0
  PROVE  Spec => []StreamEndDrained
<1>1. Ordered BY DEF Ordered
<1>2. IInv /\ OrderInv => StreamEndDrained
  <2> SUFFICES ASSUME IInv, OrderInv, NEW a \in arrived, a.last, NEW p \in arrived
               PROVE  p.fec \/ Out(rx, p)
    BY Zenon DEF StreamEndDrained
  <2>1. rx.base = {} BY Zenon DEF OrderInv, InLine, Drained
  <2>2. rx.slots = NoSlots BY <2>1, Zenon DEF IInv, GroupsApart, ReceiverInv
  <2>3. ~Held(rx, p) BY <2>2, Zenon DEF Held, NoSlots
  <2> QED BY <2>3, Zenon DEF IInv, NoPacketVanishes
<1>3. Spec => []OrderInv BY <1>1, OrderedInvariance, Zenon
<1> QED BY <1>2, <1>3, Invariance, PTL

(* SingleLossRepaired: on a path that neither reorders nor duplicates, a group that *)
(* lost one datagram is emitted as a whole, unless LAST_PACKET closed it before *)
(* its parity; in groups of three or more the recovered packet has the timestamp *)
(* it was sent with (try_complete, synthesize_header).                       *)
THEOREM LossRepaired ==
  ASSUME ~Reorder, MaxDup = 0
  PROVE  Spec => []SingleLossRepaired
<1>1. Ordered BY DEF Ordered
<1>2. IInv /\ OrderInv /\ LossInv => SingleLossRepaired
  <2> SUFFICES ASSUME IInv, OrderInv, LossInv PROVE SingleLossRepaired OBVIOUS
  <2>1. ASSUME NEW q \in arrived \cup dropped, SingleLoss(q),
               \A p \in arrived : p.last => p.n \notin q.payload
        PROVE  q.payload \subseteq OutNumbers
    BY <2>1, CountingHolds, LossRepairedArrived, LossRepairedDropped, Zenon
  <2>2. ASSUME NEW k \in 1..Len(rx.out), NEW i \in Positions, NEW p \in rx.out[k][i], p.gs >= 3
        PROVE  SentTime(p)
    <3>1. Out(rx, p) BY Zenon DEF Out
    <3> QED BY <2>2, <3>1, Zenon DEF LossInv, InTime, SentTime, Datagrams
  <2> QED BY <2>1, <2>2, Zenon DEF SingleLossRepaired
<1>3. IInv /\ OrderInv /\ LossInv /\ [Next]_vars => LossInv'
  BY <1>1, CountingHolds, LossStep, Zenon
<1>4. Spec => []OrderInv BY <1>1, OrderedInvariance, Zenon
<1> QED BY <1>2, <1>3, <1>4, LossInit, Invariance, PTL DEF Spec
=============================================================================
