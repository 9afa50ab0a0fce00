--------------------------- MODULE ExchangeProofs ---------------------------
(***************************************************************************)
(* What comes back from an endpoint, in two parts.  Its answers, as the    *)
(* controller's reader tasks pass them on: each arrives once and in order, *)
(* for any endpoints and channels of any size.  Its clock: OffsetAccurate, *)
(* GateReopens and SpikesIgnored for every set of offsets, window,         *)
(* threshold, floor and number of datagrams under way.  For the first, the *)
(* controller's exchange needs a socket that holds no late response; the   *)
(* endpoint's needs nothing, and neither does the gate.                    *)
(***************************************************************************)
EXTENDS Link, Clock, FiniteSetTheorems, TLAPS

-----------------------------------------------------------------------------
(* The reader tasks (module Link). *)

Letters == [kind : {"response", "release"}, n : Nat] \cup {Eof}
Hands == [kind : {"response"}, n : Nat] \cup {Reading, Done}

LinkTypes ==
  /\ wire \in [Endpoints -> Seq(Letters)]
  /\ sent \in [Endpoints -> [response : Nat, release : Nat]]
  /\ reader \in [Endpoints -> Hands]
  /\ responses \in [Endpoints -> Seq(Nat)]
  /\ taken \in [Endpoints -> Nat]

(* The answers on the wire w are those after number o up to n, in order.   *)
Places(w) == {i \in 1..Len(w) : w[i].kind = "response"}
Rising(w) == \A i, j \in Places(w) : i < j => w[i].n < w[j].n
Line(w, o, n) ==
  /\ \A i \in Places(w) : w[i].n \in o + 1 .. n
  /\ \A k \in o + 1 .. n : \E i \in Places(w) : w[i].n = k
  /\ Rising(w)

(* The answers in the channel follow those taken.                          *)
Queued(q, t) == \A i \in 1..Len(q) : q[i] = t + i

Complete(e) ==
  /\ Queued(responses[e], taken[e])
  /\ reader[e].kind = "response" => reader[e].n = Off(e)
  /\ Off(e) <= sent[e].response /\ Line(wire[e], Off(e), sent[e].response)

LinkInv == LinkTypes /\ \A e \in Endpoints : Complete(e)

(* What is written behind an answer comes after it. *)
LEMMA WriteAnswer ==
  ASSUME NEW w \in Seq(Letters), NEW o \in Nat, NEW n \in Nat, o <= n, Line(w, o, n)
  PROVE  Line(Append(w, Message("response", n + 1)), o, n + 1)
<1>1. PICK m : m = Message("response", n + 1) OBVIOUS
<1>2. m.kind = "response" /\ m.n = n + 1 BY <1>1 DEF Message
<1>3. PICK v : v = Append(w, m) OBVIOUS
<1>4. /\ Len(w) \in Nat /\ Len(v) = Len(w) + 1 /\ v[Len(v)] = m
      /\ \A i \in 1..Len(w) : v[i] = w[i]
  BY <1>3
<1>5. Len(v) \in Places(v) /\ \A i : i \in Places(v) <=> i \in Places(w) \/ i = Len(v)
  BY ONLY <1>2, <1>4 DEF Places
<1>6. \A i \in Places(w) : i \in 1..Len(w) /\ v[i] = w[i] BY <1>4 DEF Places
<1>7. ASSUME NEW i \in Places(v) PROVE v[i].n \in o + 1 .. n + 1
  <2>1. CASE i \in Places(w) BY <1>6, <2>1 DEF Line
  <2>2. CASE i = Len(v) BY <1>2, <1>4, <2>2
  <2> QED BY <1>5, <2>1, <2>2
<1>8. ASSUME NEW k \in o + 1 .. n + 1 PROVE \E i \in Places(v) : v[i].n = k
  <2>1. CASE k = n + 1 BY <1>2, <1>4, <1>5, <2>1
  <2>2. CASE k # n + 1
    <3>1. k \in o + 1 .. n BY <2>2
    <3> QED BY <1>5, <1>6, <3>1 DEF Line
  <2> QED BY <2>1, <2>2
<1>9. Rising(v)
  <2> SUFFICES ASSUME NEW i \in Places(v), NEW j \in Places(v), i < j PROVE v[i].n < v[j].n
    BY DEF Rising
  <2>1. CASE j \in Places(w)
    <3>1. i \in Places(w) BY <1>4, <1>5, <1>6, <2>1
    <3> QED BY <1>6, <2>1, <3>1 DEF Line, Rising
  <2>2. CASE j = Len(v)
    <3>1. i \in Places(w) BY <1>5, <2>2, <1>4
    <3>2. w[i].n \in o + 1 .. n BY <3>1 DEF Line
    <3> QED BY <1>2, <1>4, <1>6, <2>2, <3>1, <3>2
  <2> QED BY <1>5, <2>1, <2>2
<1> QED BY <1>1, <1>3, <1>7, <1>8, <1>9 DEF Line

LEMMA WriteOther ==
  ASSUME NEW w \in Seq(Letters), NEW o \in Nat, NEW n \in Nat, Line(w, o, n),
         NEW m, m.kind # "response"
  PROVE  Line(Append(w, m), o, n)
<1>1. PICK v : v = Append(w, m) OBVIOUS
<1>2. /\ Len(w) \in Nat /\ Len(v) = Len(w) + 1 /\ v[Len(v)] = m
      /\ \A i \in 1..Len(w) : v[i] = w[i]
  BY <1>1
<1>3. Places(v) = Places(w) /\ \A i \in Places(w) : v[i] = w[i] BY <1>2 DEF Places
<1> QED BY <1>1, <1>3 DEF Line, Rising

(* The reader takes the first letter. *)
LEMMA ReadAnswer ==
  ASSUME NEW w \in Seq(Letters), NEW o \in Nat, NEW n \in Nat, Line(w, o, n),
         w # <<>>, Head(w).kind = "response"
  PROVE  Head(w).n = o + 1 /\ o + 1 <= n /\ Line(Tail(w), o + 1, n)
<1>1. PICK v : v = Tail(w) OBVIOUS
<1>2. /\ Len(w) \in Nat /\ Len(w) > 0 /\ Len(v) = Len(w) - 1 /\ Head(w) = w[1]
      /\ \A i \in 1..Len(v) : v[i] = w[i + 1]
  BY <1>1
<1>3. 1 \in Places(w) BY <1>2 DEF Places
<1>4. w[1].n \in o + 1 .. n BY <1>3 DEF Line
<1>5. w[1].n = o + 1
  <2>1. PICK i \in Places(w) : w[i].n = o + 1 BY <1>4 DEF Line
  <2>2. i \in Nat /\ i >= 1 BY <2>1 DEF Places
  <2>3. CASE i = 1 BY <2>1, <2>3
  <2>4. CASE 1 < i BY <1>3, <1>4, <2>1, <2>4 DEF Line, Rising
  <2> QED BY <2>2, <2>3, <2>4
<1>6. \A i : i \in Places(v) <=> i \in Nat /\ i >= 1 /\ i + 1 \in Places(w) BY <1>2 DEF Places
<1>7. \A i \in Places(v) : i \in Nat /\ i >= 1 /\ v[i] = w[i + 1] BY <1>2 DEF Places
<1>8. ASSUME NEW i \in Places(v) PROVE v[i].n \in o + 2 .. n
  <2>1. i + 1 \in Places(w) /\ 1 < i + 1 BY <1>6
  <2>2. w[1].n < w[i + 1].n BY <1>3, <2>1 DEF Line, Rising
  <2>3. w[i + 1].n \in o + 1 .. n BY <2>1 DEF Line
  <2> QED BY <1>5, <1>7, <2>2, <2>3
<1>9. ASSUME NEW k \in o + 2 .. n PROVE \E i \in Places(v) : v[i].n = k
  <2>1. k \in o + 1 .. n /\ k # o + 1 OBVIOUS
  <2>2. PICK j \in Places(w) : w[j].n = k BY <2>1 DEF Line
  <2>3. j \in Nat /\ j >= 1 /\ j # 1 BY <1>5, <2>1, <2>2 DEF Places
  <2>4. j - 1 \in Nat /\ j - 1 >= 1 /\ (j - 1) + 1 = j BY <2>3
  <2>5. j - 1 \in Places(v) BY <1>6, <2>4
  <2> QED BY <1>7, <2>2, <2>4, <2>5
<1>10. Rising(v)
  <2> SUFFICES ASSUME NEW i \in Places(v), NEW j \in Places(v), i < j PROVE v[i].n < v[j].n
    BY DEF Rising
  <2>1. i + 1 \in Places(w) /\ j + 1 \in Places(w) /\ i + 1 < j + 1 BY <1>6
  <2> QED BY <1>7, <2>1 DEF Line, Rising
<1>11. (o + 1) + 1 = o + 2 OBVIOUS
<1>12. Line(v, o + 1, n) BY ONLY <1>8, <1>9, <1>10, <1>11 DEF Line
<1> QED BY <1>1, <1>2, <1>4, <1>5, <1>12

LEMMA ReadOther ==
  ASSUME NEW w \in Seq(Letters), NEW o \in Nat, NEW n \in Nat, Line(w, o, n),
         w # <<>>, Head(w).kind # "response"
  PROVE  Line(Tail(w), o, n)
<1>1. PICK v : v = Tail(w) OBVIOUS
<1>2. /\ Len(w) \in Nat /\ Len(w) > 0 /\ Len(v) = Len(w) - 1 /\ Head(w) = w[1]
      /\ \A i \in 1..Len(v) : v[i] = w[i + 1]
  BY <1>1
<1>3. 1 \notin Places(w) BY <1>2 DEF Places
<1>6. \A i : i \in Places(v) <=> i \in Nat /\ i >= 1 /\ i + 1 \in Places(w) BY <1>2 DEF Places
<1>7. \A i \in Places(v) : i \in Nat /\ i >= 1 /\ v[i] = w[i + 1] BY <1>2 DEF Places
<1>8. ASSUME NEW i \in Places(v) PROVE v[i].n \in o + 1 .. n
  BY <1>6, <1>7 DEF Line
<1>9. ASSUME NEW k \in o + 1 .. n PROVE \E i \in Places(v) : v[i].n = k
  <2>2. PICK j \in Places(w) : w[j].n = k BY DEF Line
  <2>3. j \in Nat /\ j >= 1 /\ j # 1 BY <1>3, <2>2 DEF Places
  <2>4. j - 1 \in Nat /\ j - 1 >= 1 /\ (j - 1) + 1 = j BY <2>3
  <2>5. j - 1 \in Places(v) BY <1>6, <2>4
  <2> QED BY <1>7, <2>2, <2>4, <2>5
<1>10. Rising(v)
  <2> SUFFICES ASSUME NEW i \in Places(v), NEW j \in Places(v), i < j PROVE v[i].n < v[j].n
    BY DEF Rising
  <2>1. i + 1 \in Places(w) /\ j + 1 \in Places(w) /\ i + 1 < j + 1 BY <1>6
  <2> QED BY <1>7, <2>1 DEF Line, Rising
<1> QED BY <1>1, <1>8, <1>9, <1>10 DEF Line
(* What an action does to one endpoint leaves the others as they were.     *)
Untouched(e) ==
  /\ wire'[e] = wire[e] /\ sent'[e].response = sent[e].response /\ reader'[e] = reader[e]
  /\ responses'[e] = responses[e] /\ taken'[e] = taken[e]

LEMMA UntouchedComplete ==
  ASSUME NEW e \in Endpoints, Complete(e), Untouched(e)
  PROVE  Complete(e)'
<1>1. Off(e)' = Off(e) BY DEF Untouched, Off
<1> QED BY <1>1 DEF Untouched, Complete

LEMMA OffNat ==
  ASSUME LinkTypes, NEW e \in Endpoints
  PROVE  Off(e) \in Nat
BY DEF LinkTypes, Off

LEMMA LinkStart == LinkInit => LinkInv
<1> SUFFICES ASSUME LinkInit PROVE LinkInv OBVIOUS
<1>1. LinkTypes BY DEF LinkInit, LinkTypes, Hands
<1>2. ASSUME NEW e \in Endpoints PROVE Complete(e)
  <2>1. /\ wire[e] = <<>> /\ responses[e] = <<>> /\ reader[e] = Reading /\ taken[e] = 0
        /\ sent[e].response = 0
    BY DEF LinkInit
  <2>2. Off(e) = 0 BY <2>1 DEF Off, Reading
  <2>3. Queued(<<>>, 0) /\ Line(<<>>, 0, 0) BY DEF Queued, Line, Rising, Places
  <2> QED BY <2>1, <2>2, <2>3 DEF Complete, Reading
<1> QED BY <1>1, <1>2 DEF LinkInv

LEMMA LinkStep == LinkInv /\ [LinkNext]_linkVars => LinkInv'
<1> SUFFICES ASSUME LinkInv, [LinkNext]_linkVars PROVE LinkInv' OBVIOUS
<1> USE DEF LinkInv
<1>1. ASSUME \A e \in Endpoints : Untouched(e), LinkTypes' PROVE LinkInv'
  BY <1>1, UntouchedComplete
<1>2. ASSUME NEW e \in Endpoints, LinkTypes', Complete(e)',
             \A d \in Endpoints \ {e} : Untouched(d)
      PROVE  LinkInv'
  <2>1. ASSUME NEW d \in Endpoints PROVE Complete(d)'
    BY <1>2, UntouchedComplete
  <2> QED BY <1>2, <2>1
<1>3. CASE UNCHANGED linkVars
  <2>1. LinkTypes' BY <1>3 DEF LinkTypes, linkVars
  <2>2. \A e \in Endpoints : Untouched(e) BY <1>3 DEF Untouched, linkVars
  <2> QED BY <1>1, <2>1, <2>2
<1>4. CASE TakeRelease
  <2>1. LinkTypes' BY <1>4 DEF LinkTypes, TakeRelease
  <2>2. \A e \in Endpoints : Untouched(e) BY <1>4 DEF Untouched, TakeRelease
  <2> QED BY <1>1, <2>1, <2>2
<1>5. ASSUME NEW e \in Endpoints, Forward(e) PROVE LinkInv'
  <2>1. LinkTypes' BY <1>5 DEF LinkTypes, Forward
  <2>2. \A d \in Endpoints : Untouched(d) BY <1>5 DEF Untouched, Forward
  <2> QED BY <1>1, <2>1, <2>2
<1>6. ASSUME NEW e \in Endpoints, Responds(e) PROVE LinkInv'
  <2> USE <1>6
  <2>1. Message("response", sent[e].response + 1) \in Letters
    BY DEF LinkTypes, Message, Letters
  <2>2. LinkTypes'
    <3>1. wire[e] \in Seq(Letters) /\ sent[e] \in [response : Nat, release : Nat] BY DEF LinkTypes
    <3>2. Append(wire[e], Message("response", sent[e].response + 1)) \in Seq(Letters)
      BY ONLY <2>1, <3>1
    <3>3. wire' \in [Endpoints -> Seq(Letters)] BY <3>2 DEF LinkTypes, Responds
    <3>4. [sent[e] EXCEPT !.response = @ + 1] \in [response : Nat, release : Nat] BY ONLY <3>1
    <3>5. sent' \in [Endpoints -> [response : Nat, release : Nat]] BY <3>4 DEF LinkTypes, Responds
    <3> QED BY <3>3, <3>5 DEF LinkTypes, Responds
  <2>3. \A d \in Endpoints \ {e} : Untouched(d) BY DEF LinkTypes, Untouched, Responds
  <2>4. /\ wire'[e] = Append(wire[e], Message("response", sent[e].response + 1))
        /\ sent'[e].response = sent[e].response + 1 /\ reader'[e] = reader[e]
        /\ responses'[e] = responses[e] /\ taken'[e] = taken[e]
    BY DEF LinkTypes, Responds
  <2>5. Off(e)' = Off(e) BY <2>4 DEF Off
  <2>6. Line(wire'[e], Off(e), sent'[e].response)
    BY <2>4, OffNat, WriteAnswer DEF LinkTypes, Complete
  <2>7. Off(e) <= sent'[e].response BY <2>4, OffNat DEF LinkTypes, Complete
  <2>8. Complete(e)' BY <2>4, <2>5, <2>6, <2>7 DEF Complete
  <2> QED BY <1>2, <2>2, <2>3, <2>8
<1>7. ASSUME NEW e \in Endpoints, Releases(e) \/ Closes(e) PROVE LinkInv'
  <2>1. PICK m \in Letters : wire' = [wire EXCEPT ![e] = Append(@, m)] /\ m.kind # "response"
    BY <1>7 DEF LinkTypes, Releases, Closes, Message, Letters, Eof
  <2>2. LinkTypes'
    <3>1. wire[e] \in Seq(Letters) /\ sent[e] \in [response : Nat, release : Nat] BY DEF LinkTypes
    <3>2. Append(wire[e], m) \in Seq(Letters) BY ONLY <2>1, <3>1
    <3>3. wire' \in [Endpoints -> Seq(Letters)] BY <2>1, <3>2 DEF LinkTypes
    <3>4. [sent[e] EXCEPT !.release = @ + 1] \in [response : Nat, release : Nat] BY ONLY <3>1
    <3>5. sent' \in [Endpoints -> [response : Nat, release : Nat]]
      BY <1>7, <3>4 DEF LinkTypes, Releases, Closes
    <3> QED BY <1>7, <3>3, <3>5 DEF LinkTypes, Releases, Closes
  <2>3. \A d \in Endpoints \ {e} : Untouched(d)
    BY <1>7, <2>1 DEF LinkTypes, Untouched, Releases, Closes
  <2>4. /\ wire'[e] = Append(wire[e], m)
        /\ sent'[e].response = sent[e].response /\ reader'[e] = reader[e]
        /\ responses'[e] = responses[e] /\ taken'[e] = taken[e]
    BY <1>7, <2>1 DEF LinkTypes, Releases, Closes
  <2>5. Off(e)' = Off(e) BY <2>4 DEF Off
  <2>6. Line(wire'[e], Off(e), sent[e].response)
    BY <2>1, <2>4, OffNat, WriteOther DEF LinkTypes, Complete
  <2>8. Complete(e)' BY <2>4, <2>5, <2>6 DEF Complete
  <2> QED BY <1>2, <2>2, <2>3, <2>8
<1>8. ASSUME NEW e \in Endpoints, ReadResponse(e) PROVE LinkInv'
  <2> USE <1>8
  <2>1. wire[e] # <<>> /\ Head(wire[e]).kind = "response" /\ reader[e] = Reading
    BY DEF ReadResponse, Upcoming
  <2>2. wire[e] \in Seq(Letters) /\ Head(wire[e]) \in Letters BY <2>1 DEF LinkTypes
  <2>3. Head(wire[e]) \in Hands BY <2>1, <2>2 DEF Letters, Hands, Eof
  <2>4. LinkTypes' BY <2>1, <2>2, <2>3 DEF LinkTypes, ReadResponse
  <2>5. \A d \in Endpoints \ {e} : Untouched(d) BY DEF LinkTypes, Untouched, ReadResponse
  <2>6. /\ wire'[e] = Tail(wire[e]) /\ sent' = sent /\ reader'[e] = Head(wire[e])
        /\ responses'[e] = responses[e] /\ taken'[e] = taken[e]
    BY DEF LinkTypes, ReadResponse
  <2>7. Off(e)' = Off(e) + 1 BY <2>1, <2>6 DEF Off, Reading, LinkTypes
  <2>8. /\ Head(wire[e]).n = Off(e) + 1 /\ Off(e) + 1 <= sent[e].response
        /\ Line(Tail(wire[e]), Off(e) + 1, sent[e].response)
    BY <2>1, <2>2, OffNat, ReadAnswer DEF LinkTypes, Complete
  <2>9. Complete(e)' BY <2>6, <2>7, <2>8 DEF Complete
  <2> QED BY <1>2, <2>4, <2>5, <2>9
<1>9. ASSUME NEW e \in Endpoints, ReadRelease(e) PROVE LinkInv'
  <2> USE <1>9
  <2>1. wire[e] # <<>> /\ Head(wire[e]).kind # "response" BY DEF ReadRelease, Upcoming
  <2>2. wire[e] \in Seq(Letters) BY DEF LinkTypes
  <2>4. LinkTypes' BY <2>1, <2>2 DEF LinkTypes, ReadRelease
  <2>5. \A d \in Endpoints \ {e} : Untouched(d) BY DEF LinkTypes, Untouched, ReadRelease
  <2>6. /\ wire'[e] = Tail(wire[e]) /\ sent' = sent /\ reader'[e] = reader[e]
        /\ responses'[e] = responses[e] /\ taken'[e] = taken[e]
    BY DEF LinkTypes, ReadRelease
  <2>7. Off(e)' = Off(e) BY <2>6 DEF Off
  <2>8. Line(Tail(wire[e]), Off(e), sent[e].response)
    BY <2>1, <2>2, OffNat, ReadOther DEF LinkTypes, Complete
  <2>9. Complete(e)' BY <2>6, <2>7, <2>8 DEF Complete
  <2> QED BY <1>2, <2>4, <2>5, <2>9
<1>10. ASSUME NEW e \in Endpoints, ReadEof(e) PROVE LinkInv'
  <2> USE <1>10
  <2>4. LinkTypes' BY DEF LinkTypes, ReadEof, Hands
  <2>5. \A d \in Endpoints \ {e} : Untouched(d) BY DEF LinkTypes, Untouched, ReadEof
  <2>6. /\ wire'[e] = wire[e] /\ sent' = sent /\ reader'[e] = Done /\ reader[e] = Reading
        /\ responses'[e] = responses[e] /\ taken'[e] = taken[e]
    BY DEF LinkTypes, ReadEof
  <2>7. Off(e)' = Off(e) BY <2>6 DEF Off, Done, Reading
  <2>9. Complete(e)' BY <2>6, <2>7 DEF Complete, Done
  <2> QED BY <1>2, <2>4, <2>5, <2>9
<1>11. ASSUME NEW e \in Endpoints, HandOver(e) PROVE LinkInv'
  <2> USE <1>11
  <2>1. reader[e].kind = "response" BY DEF HandOver
  <2>2. reader[e].n \in Nat /\ reader[e].n = Off(e) /\ responses[e] \in Seq(Nat)
    BY <2>1, OffNat DEF Complete, LinkTypes
  <2>4. LinkTypes' BY <2>2 DEF LinkTypes, HandOver, Hands
  <2>5. \A d \in Endpoints \ {e} : Untouched(d) BY DEF LinkTypes, Untouched, HandOver
  <2>6. /\ wire'[e] = wire[e] /\ sent' = sent /\ reader'[e] = Reading
        /\ responses'[e] = Append(responses[e], reader[e].n) /\ taken'[e] = taken[e]
    BY DEF LinkTypes, HandOver
  <2>7. Off(e)' = Off(e) BY <2>1, <2>2, <2>6 DEF Off, Reading, LinkTypes
  <2>8. Queued(responses'[e], taken'[e])
    <3>1. Off(e) = taken[e] + Len(responses[e]) + 1 BY <2>1 DEF Off
    <3>2. Queued(responses[e], taken[e]) /\ taken[e] \in Nat BY DEF Complete, LinkTypes
    <3>3. PICK q, t, k : q = responses[e] /\ t = taken[e] /\ k = reader[e].n OBVIOUS
    <3>4. q \in Seq(Nat) /\ t \in Nat /\ k \in Nat /\ k = t + Len(q) + 1 /\ Queued(q, t)
      BY ONLY <2>2, <3>1, <3>2, <3>3
    <3>5. Queued(Append(q, k), t) BY ONLY <3>4 DEF Queued
    <3> QED BY ONLY <2>6, <3>3, <3>5
  <2>9. Complete(e)' BY <2>6, <2>7, <2>8 DEF Complete, Reading
  <2> QED BY <1>2, <2>4, <2>5, <2>9
<1>12. ASSUME NEW e \in Endpoints, TakeResponse(e) PROVE LinkInv'
  <2> USE <1>12
  <2>1. responses[e] # <<>> /\ responses[e] \in Seq(Nat) /\ taken[e] \in Nat
    BY DEF LinkTypes, TakeResponse
  <2>4. LinkTypes' BY <2>1 DEF LinkTypes, TakeResponse
  <2>5. \A d \in Endpoints \ {e} : Untouched(d) BY DEF LinkTypes, Untouched, TakeResponse
  <2>6. /\ wire'[e] = wire[e] /\ sent' = sent /\ reader'[e] = reader[e]
        /\ responses'[e] = Tail(responses[e]) /\ taken'[e] = taken[e] + 1
    BY DEF LinkTypes, TakeResponse
  <2>7. Off(e)' = Off(e) BY <2>1, <2>6 DEF Off
  <2>8. Queued(responses'[e], taken'[e])
    <3>1. Queued(responses[e], taken[e]) BY DEF Complete
    <3> QED BY ONLY <2>1, <2>6, <3>1 DEF Queued
  <2>9. Complete(e)' BY <2>6, <2>7, <2>8 DEF Complete
  <2> QED BY <1>2, <2>4, <2>5, <2>9
<1> QED
  BY <1>3, <1>4, <1>5, <1>6, <1>7, <1>8, <1>9, <1>10, <1>11, <1>12 DEF LinkNext

(***************************************************************************)
(* ResponsesComplete, for any endpoints and channel capacities: the reader *)
(* task of handshake_and_spawn gives every answer of an endpoint to the    *)
(* host once and in the order written, however full its channel is.        *)
(***************************************************************************)
THEOREM EveryAnswerArrives == LinkSpec => []ResponsesComplete
<1>1. LinkInv => ResponsesComplete
  <2> SUFFICES ASSUME LinkInv, NEW e \in Endpoints
      PROVE /\ \A i \in 1..Len(responses[e]) : responses[e][i] = taken[e] + i
            /\ reader[e].kind = "response" => reader[e].n = Off(e)
            /\ Off(e) <= sent[e].response
            /\ {wire[e][i].n : i \in Answers(e)} = Off(e) + 1 .. sent[e].response
            /\ \A i, j \in Answers(e) : i < j => wire[e][i].n < wire[e][j].n
    BY DEF ResponsesComplete
  <2>1. Complete(e) BY DEF LinkInv
  <2>2. Answers(e) = Places(wire[e]) BY DEF Answers, Places
  <2>3. {wire[e][i].n : i \in Answers(e)} = Off(e) + 1 .. sent[e].response
    BY <2>1, <2>2 DEF Complete, Line
  <2> QED BY <2>1, <2>2, <2>3 DEF Complete, Queued, Line, Rising
<1> QED BY <1>1, LinkStart, LinkStep, PTL DEF LinkSpec

-----------------------------------------------------------------------------
(* The clocks (module Clock). *)

Datagram ==
  [kind : {"request", "response"}, age : 0..Old, t2 : Int, t3 : Int, of : Int]

ClockState == [samples : Nat, low2 : Int, high2 : Int, window : Seq(Nat)]

(* What the variables range over. *)
Typed ==
  /\ side \in Sides /\ peer \in seen /\ seen \subseteq Int
  /\ waiting \in BOOLEAN /\ last \in 0..Old
  /\ net \subseteq Datagram
  /\ clock \in ClockState /\ worst \in Nat

(* A response was stamped by a peer that is known, not before it was asked. *)
Stamped ==
  \A p \in net : p.of \in seen /\ (p.kind = "response" => p.of <= p.t2 /\ p.t2 <= p.t3)

(* The controller has one exchange under way, the one it sent last. *)
OneExchange ==
  side = "controller" =>
    /\ ~waiting => net = {}
    /\ \A p \in net : p.age = last
    /\ \A p, q \in net : p = q

IInv == Typed /\ Stamped /\ OneExchange /\ OffsetAccurate

(* An offset measured within the longest round trip of a peer's clock. *)
Sampled(offset2, rtt, o) == 2 * o - rtt <= offset2 /\ offset2 <= 2 * o + rtt

-----------------------------------------------------------------------------

(* The bounds are numbers.                                                    *)
LEMMA Bounds ==
  /\ Window \in Nat \ {0} /\ Bootstrap \in Nat /\ StaleAfter \in Nat
  /\ Old \in Nat /\ Old = StaleAfter + 1
<1>1. Window \in Nat \ {0} /\ Bootstrap \in Nat /\ StaleAfter \in Nat
  BY ClockAssumption
<1> QED BY <1>1 DEF Old

(* Push keeps a window of numbers.                                            *)
LEMMA PushType ==
  ASSUME NEW w \in Seq(Nat), NEW rtt \in Nat
  PROVE  Push(w, rtt) \in Seq(Nat)
<1>1. CASE Len(w) = Window
  <2>1. w # <<>>
    BY <1>1, Bounds
  <2>2. Tail(w) \in Seq(Nat)
    BY <2>1
  <2> QED BY <1>1, <2>2 DEF Push
<1>2. CASE Len(w) # Window
  BY <1>2 DEF Push
<1> QED BY <1>1, <1>2

(* The four time stamps of an exchange give the peer's offset to within half  *)
(* the round trip: what clock_offset_from_exchange relies on.                 *)
LEMMA ExchangeBound ==
  ASSUME NEW t2 \in Int, NEW t3 \in Int, NEW age \in Int, NEW o \in Int,
         o <= t2, t2 <= t3, t3 <= age + o
  PROVE  /\ Max2(0, (age - 0) - (t3 - t2)) \in Nat
         /\ (t2 - 0) + (t3 - age) \in Int
         /\ Sampled((t2 - 0) + (t3 - age), Max2(0, (age - 0) - (t3 - t2)), o)
BY DEF Max2, Sampled

(* The lower end of the interval moves to the new sample or stays.            *)
LEMMA WidenedLow ==
  ASSUME NEW v \in Int, NEW s \in Int, NEW a \in Int, NEW b \in Int,
         NEW w \in Nat, NEW u \in Nat, w <= u, 2 * a - w <= v, 2 * b - u <= s
  PROVE  2 * a - u <= Min2(v, s) \/ 2 * b - u <= Min2(v, s)
BY DEF Min2

(* So does the upper end.                                                     *)
LEMMA WidenedHigh ==
  ASSUME NEW v \in Int, NEW s \in Int, NEW a \in Int, NEW b \in Int,
         NEW w \in Nat, NEW u \in Nat, w <= u, v <= 2 * a + w, s <= 2 * b + u
  PROVE  Max2(v, s) <= 2 * a + u \/ Max2(v, s) <= 2 * b + u
BY DEF Max2

(* The filter stays within the interval of its samples: a sample that is       *)
(* accepted widens it by no more than its own round trip.                     *)
LEMMA AcceptedAccurate ==
  ASSUME Typed, OffsetAccurate, seen' = seen,
         NEW offset2 \in Int, NEW rtt \in Nat, NEW o \in seen, Sampled(offset2, rtt, o),
         clock' = [Averaged(clock, offset2) EXCEPT
                     !.samples = Min2(@ + 1, Bootstrap), !.window = Push(@, rtt)],
         worst' = Max2(worst, rtt)
  PROVE  clock' \in ClockState /\ worst' \in Nat /\ OffsetAccurate'
<1>1. /\ clock.samples \in Nat /\ clock.low2 \in Int /\ clock.high2 \in Int
      /\ clock.window \in Seq(Nat) /\ o \in Int /\ worst \in Nat
  BY DEF Typed, ClockState
<1>2. Push(clock.window, rtt) \in Seq(Nat) /\ Min2(clock.samples + 1, Bootstrap) \in Nat
  <2>1. Push(clock.window, rtt) \in Seq(Nat)
    BY <1>1, PushType
  <2>2. Min2(clock.samples + 1, Bootstrap) \in Nat
    BY <1>1, Bounds DEF Min2
  <2> QED BY <2>1, <2>2
<1>3. worst' \in Nat /\ worst <= worst' /\ rtt <= worst'
  <2>1. worst \in Nat /\ worst' = Max2(worst, rtt) BY <1>1
  <2> QED BY ONLY <2>1, rtt \in Nat DEF Max2
<1>4. 2 * o - worst' <= offset2 /\ offset2 <= 2 * o + worst'
  BY <1>1, <1>3 DEF Sampled
<1>5. CASE clock.samples = 0
  <2>1. clock' \in ClockState /\ clock'.low2 = offset2 /\ clock'.high2 = offset2
    BY <1>2, <1>5 DEF Typed, ClockState, Averaged
  <2> QED BY <1>3, <1>4, <2>1 DEF OffsetAccurate
<1>6. CASE clock.samples # 0
  <2>1. /\ clock'.low2 = Min2(clock.low2, offset2)
        /\ clock'.high2 = Max2(clock.high2, offset2)
    BY <1>6 DEF Typed, ClockState, Averaged
  <2>2. Min2(clock.low2, offset2) \in Int /\ Max2(clock.high2, offset2) \in Int
    BY <1>1 DEF Min2, Max2
  <2>3. clock' \in ClockState
    BY <1>2, <1>6, <2>2 DEF Typed, ClockState, Averaged
  <2>4. PICK x \in seen : 2 * x - worst <= clock.low2
    BY <1>1, <1>6 DEF OffsetAccurate
  <2>5. PICK y \in seen : clock.high2 <= 2 * y + worst
    BY <1>1, <1>6 DEF OffsetAccurate
  <2>6. x \in Int /\ y \in Int
    BY DEF Typed
  <2>7. 2 * x - worst' <= clock'.low2 \/ 2 * o - worst' <= clock'.low2
    <3>1. \/ 2 * x - worst' <= Min2(clock.low2, offset2)
          \/ 2 * o - worst' <= Min2(clock.low2, offset2)
      BY <1>1, <1>3, <1>4, <2>4, <2>6, WidenedLow
    <3> QED BY <2>1, <3>1
  <2>8. clock'.high2 <= 2 * y + worst' \/ clock'.high2 <= 2 * o + worst'
    <3>1. \/ Max2(clock.high2, offset2) <= 2 * y + worst'
          \/ Max2(clock.high2, offset2) <= 2 * o + worst'
      BY <1>1, <1>3, <1>4, <2>5, <2>6, WidenedHigh
    <3> QED BY <2>1, <3>1
  <2> QED BY <1>3, <2>3, <2>7, <2>8 DEF OffsetAccurate
<1> QED BY <1>5, <1>6

(* Whether it accepts the sample or rejects it, the filter stays accurate:    *)
(* one that is rejected changes the window only.                              *)
LEMMA UpdateAccurate ==
  ASSUME Typed, OffsetAccurate, NEW t2 \in Int, NEW t3 \in Int, NEW age \in Int,
         NEW o \in seen, o <= t2, t2 <= t3, t3 <= age + o,
         Update(clock, 0, t2, t3, age), seen' = seen
  PROVE  clock' \in ClockState /\ worst' \in Nat /\ OffsetAccurate'
<1>1. PICK offset2 \in Int, rtt \in Nat :
        /\ offset2 = (t2 - 0) + (t3 - age) /\ rtt = Max2(0, (age - 0) - (t3 - t2))
        /\ Sampled(offset2, rtt, o)
  BY ExchangeBound DEF Typed
<1>2. CASE clock' = Rejected(clock, rtt) /\ worst' = worst
  <2>1. Push(clock.window, rtt) \in Seq(Nat)
    BY PushType DEF Typed, ClockState
  <2>2. /\ clock' \in ClockState
        /\ clock'.samples = clock.samples /\ clock'.low2 = clock.low2
        /\ clock'.high2 = clock.high2
    BY <1>2, <2>1 DEF Typed, ClockState, Rejected
  <2> QED BY <1>2, <2>2 DEF Typed, OffsetAccurate
<1>3. CASE /\ clock' = [Averaged(clock, offset2) EXCEPT
                          !.samples = Min2(@ + 1, Bootstrap), !.window = Push(@, rtt)]
           /\ worst' = Max2(worst, rtt)
  BY <1>1, <1>3, AcceptedAccurate
<1> QED BY <1>1, <1>2, <1>3 DEF Update

-----------------------------------------------------------------------------

(* The initial states satisfy the invariant.                                  *)
LEMMA InitIInv == Init => IInv
<1> SUFFICES ASSUME Init PROVE IInv
  OBVIOUS
<1>1. clock \in ClockState /\ clock.samples = 0
  BY DEF Init, NewClock, ClockState
<1>2. Typed
  <2>1. Old \in 0..Old /\ peer \in Int
    BY Bounds, ClockAssumption DEF Init
  <2> QED BY <1>1, <2>1 DEF Init, Typed
<1> QED BY <1>1, <1>2 DEF Init, IInv, Stamped, OneExchange, OffsetAccurate

(* Time passes for all datagrams alike.                                       *)
LEMMA TickIInv == IInv /\ Tick => IInv'
<1> SUFFICES ASSUME IInv, Tick PROVE IInv'
  OBVIOUS
<1> USE DEF IInv, Typed
<1>1. \A n \in 0..Old : Older(n) \in 0..Old
  BY Bounds DEF Older, Min2
<1>2. \A q \in net' : \E p \in net :
        /\ q \in Datagram /\ q.kind = p.kind /\ q.age = Older(p.age)
        /\ q.t2 = p.t2 /\ q.t3 = p.t3 /\ q.of = p.of
        /\ q = [p EXCEPT !.age = Older(@)]
  BY <1>1 DEF Tick, Datagram
<1>3. Typed'
  BY <1>1, <1>2 DEF Tick, session, filter
<1>4. Stamped'
  BY <1>2 DEF Tick, session, Stamped
<1>5. OneExchange'
  <2>1. net = {} => net' = {}
    BY <1>2
  <2>2. side = "controller" => \A p, q \in net' : p.age = last' /\ p = q
    BY <1>2 DEF OneExchange, Tick
  <2> QED BY <2>1, <2>2 DEF OneExchange, Tick, session
<1>6. OffsetAccurate'
  BY DEF Tick, session, filter, OffsetAccurate
<1> QED BY <1>3, <1>4, <1>5, <1>6

(* Another controller adds a clock to those that are known.                   *)
LEMMA NewSessionIInv == IInv /\ NewSession => IInv'
<1> SUFFICES ASSUME IInv, NewSession PROVE IInv'
  OBVIOUS
<1>1. seen \subseteq seen' /\ peer' \in seen' /\ seen' \subseteq Int /\ side = "endpoint"
  BY ClockAssumption DEF NewSession, IInv, Typed
<1>2. Typed' /\ OneExchange'
  BY <1>1 DEF NewSession, filter, IInv, Typed, OneExchange
<1>3. Stamped'
  BY <1>1 DEF NewSession, IInv, Stamped
<1>4. OffsetAccurate'
  BY <1>1 DEF NewSession, filter, IInv, OffsetAccurate
<1> QED BY <1>2, <1>3, <1>4 DEF IInv

(* A request that either side sends; the controller's is the only one.        *)
LEMMA SendsIInv == IInv /\ (SendRequest \/ ClockSyncOnce) => IInv'
<1> SUFFICES ASSUME IInv, SendRequest \/ ClockSyncOnce PROVE IInv'
  OBVIOUS
<1> DEFINE q == [kind |-> "request", age |-> 0, t2 |-> 0, t3 |-> 0, of |-> peer]
<1>1. /\ net' = net \cup {q} /\ last' = 0
      /\ side' = side /\ peer' = peer /\ seen' = seen
      /\ clock' = clock /\ worst' = worst
  BY DEF SendRequest, ClockSyncOnce, Sends, session, filter
<1>2. q \in Datagram /\ 0 \in 0..Old
  BY Bounds DEF IInv, Typed, Datagram
<1>3. Typed'
  BY <1>1, <1>2 DEF SendRequest, ClockSyncOnce, IInv, Typed
<1>4. Stamped'
  BY <1>1 DEF IInv, Typed, Stamped
<1>5. OneExchange'
  <2>1. side = "controller" => ~waiting /\ waiting'
    BY DEF SendRequest, ClockSyncOnce
  <2> QED BY <1>1, <2>1 DEF IInv, OneExchange
<1>6. OffsetAccurate'
  BY <1>1 DEF IInv, OffsetAccurate
<1> QED BY <1>3, <1>4, <1>5, <1>6 DEF IInv

(* The peer stamps a request; its clock only goes forward.                    *)
LEMMA RespondIInv ==
  ASSUME IInv, NEW p \in net, Respond(p)
  PROVE  IInv'
<1>1. PICK hold \in 0..1 :
        net' = (net \ {p}) \cup {[p EXCEPT !.kind = "response", !.t2 = p.age + p.of,
                                           !.t3 = p.age + p.of + hold]}
  BY DEF Respond
<1> DEFINE q == [p EXCEPT !.kind = "response", !.t2 = p.age + p.of,
                          !.t3 = p.age + p.of + hold]
<1>2. p \in Datagram /\ p.age \in Nat /\ p.of \in Int
  BY Bounds DEF IInv, Typed, Datagram
<1>3. /\ q \in Datagram /\ q.age = p.age /\ q.of = p.of
      /\ q.of <= q.t2 /\ q.t2 <= q.t3
  <2>1. p.age + p.of \in Int /\ p.age + p.of + hold \in Int
    BY <1>2
  <2>2. /\ q \in Datagram /\ q.age = p.age /\ q.of = p.of
        /\ q.t2 = p.age + p.of /\ q.t3 = p.age + p.of + hold
    BY <1>2, <2>1 DEF Datagram
  <2> QED BY <1>2, <2>1, <2>2
<1>4. /\ side' = side /\ peer' = peer /\ seen' = seen /\ waiting' = waiting
      /\ last' = last /\ clock' = clock /\ worst' = worst
  BY DEF Respond, session, filter
<1>5. Typed'
  BY <1>1, <1>3, <1>4 DEF IInv, Typed
<1>6. Stamped'
  BY <1>1, <1>3, <1>4 DEF IInv, Stamped
<1>7. OneExchange'
  BY <1>1, <1>3, <1>4 DEF IInv, OneExchange
<1>8. OffsetAccurate'
  BY <1>4 DEF IInv, OffsetAccurate
<1> QED BY <1>5, <1>6, <1>7, <1>8 DEF IInv

(* A response is measured against the request it answers.                     *)
LEMMA ReceivedIInv ==
  ASSUME IInv, Orderly \/ "controller" \notin Sides, NEW p \in net,
         ReceiveResponse(p) \/ SyncResponse(p)
  PROVE  IInv'
<1>1. /\ p \in Datagram /\ p.of \in seen /\ p.of <= p.t2 /\ p.t2 <= p.t3
      /\ p.t3 <= p.age + p.of
  BY DEF IInv, Typed, Stamped, ReceiveResponse, SyncResponse, Arrives
<1>2. p.age \in Int /\ p.t2 \in Int /\ p.t3 \in Int /\ p.of \in Int
  BY <1>1 DEF Datagram
<1>3. T1(p) = 0
  <2>1. side = "endpoint" \/ p.age = last
    BY DEF IInv, OneExchange, ReceiveResponse, SyncResponse
  <2> QED BY <1>2, <2>1 DEF T1
<1>4. /\ side' = side /\ peer' = peer /\ seen' = seen /\ last' = last
      /\ net' \subseteq net
  BY DEF ReceiveResponse, SyncResponse, session
<1>5. Update(clock, 0, p.t2, p.t3, p.age)
  BY <1>3 DEF ReceiveResponse, SyncResponse
<1>6. clock' \in ClockState /\ worst' \in Nat /\ OffsetAccurate'
  BY <1>1, <1>2, <1>4, <1>5, UpdateAccurate DEF IInv
<1>7. waiting' \in BOOLEAN
  BY DEF ReceiveResponse, SyncResponse, IInv, Typed
<1>8. Typed'
  BY <1>4, <1>6, <1>7 DEF IInv, Typed
<1>9. Stamped'
  BY <1>4 DEF IInv, Stamped
<1>10. OneExchange'
  <2>1. side = "controller" => Orderly
    BY DEF IInv, Typed
  <2>2. side = "controller" => net' = {}
    BY <2>1 DEF IInv, OneExchange, ReceiveResponse, SyncResponse
  <2> QED BY <1>4, <2>2 DEF OneExchange
<1> QED BY <1>6, <1>8, <1>9, <1>10 DEF IInv

(* Datagrams that are ignored, and requests that are given up.                *)
LEMMA DroppedIInv ==
  ASSUME IInv, Orderly \/ "controller" \notin Sides,
         SyncTimeout \/ \E p \in net : IgnoreStale(p)
  PROVE  IInv'
<1>1. /\ side' = side /\ peer' = peer /\ seen' = seen /\ last' = last
      /\ clock' = clock /\ worst' = worst /\ net' \subseteq net /\ waiting' \in BOOLEAN
  BY DEF SyncTimeout, IgnoreStale, session, filter, IInv, Typed
<1>2. side = "controller" => net' = {}
  BY DEF SyncTimeout, IgnoreStale, IInv, Typed
<1>3. Typed' /\ OneExchange'
  BY <1>1, <1>2 DEF IInv, Typed, OneExchange
<1>4. Stamped' /\ OffsetAccurate'
  BY <1>1 DEF IInv, Stamped, OffsetAccurate
<1> QED BY <1>3, <1>4 DEF IInv

(* The estimate of either side lies within half of the longest round trip     *)
(* accepted of the clocks it was measured against, for every peer, delay and  *)
(* order of arrival, as long as the controller's socket holds no response of  *)
(* an exchange it has given up.                                               *)
THEOREM Accurate ==
  ASSUME Orderly \/ "controller" \notin Sides
  PROVE  Spec => []OffsetAccurate
<1>1. Init => IInv
  BY InitIInv
<1>2. IInv /\ [Next]_vars => IInv'
  <2> SUFFICES ASSUME IInv, [Next]_vars PROVE IInv'
    OBVIOUS
  <2>1. CASE Tick
    BY <2>1, TickIInv
  <2>2. CASE NewSession
    BY <2>2, NewSessionIInv
  <2>3. CASE SendRequest \/ ClockSyncOnce
    BY <2>3, SendsIInv
  <2>4. CASE SyncTimeout \/ \E p \in net : IgnoreStale(p)
    BY <2>4, DroppedIInv
  <2>5. CASE \E p \in net : Respond(p)
    BY <2>5, RespondIInv
  <2>6. CASE \E p \in net : ReceiveResponse(p) \/ SyncResponse(p)
    BY <2>6, ReceivedIInv
  <2>7. CASE UNCHANGED vars
    BY <2>7 DEF vars, IInv, Typed, Stamped, OneExchange, OffsetAccurate
  <2> QED BY <2>1, <2>2, <2>3, <2>4, <2>5, <2>6, <2>7 DEF Next
<1>3. IInv => OffsetAccurate
  BY DEF IInv
<1> QED BY <1>1, <1>2, <1>3, PTL DEF Spec

-----------------------------------------------------------------------------
(* Medians. *)

(* An entry of a window is a round trip. *)
LEMMA EntryType ==
  ASSUME NEW s \in Seq(Nat), NEW i \in 1..Len(s)
  PROVE  s[i] \in Nat
OBVIOUS

(* A set of numbers has a least one. *)
LEMMA Least ==
  ASSUME NEW T \in SUBSET Nat, T # {}
  PROVE  \E x \in T : \A y \in T : x <= y
<1> DEFINE R == OpToRel(<, Nat)
<1>1. IsWellFoundedOn(R, Nat) BY NatLessThanWellFounded, Zenon
<1>2. \A y, x \in Nat : y < x => <<y, x>> \in R BY DEF OpToRel
<1> HIDE DEF R
<1>3. PICK x \in T : \A y \in T : ~(<<y, x>> \in R) BY <1>1, WFMin
<1>4. ASSUME NEW y \in T PROVE x <= y
  <2>1. x \in Nat /\ y \in Nat OBVIOUS
  <2>2. ~(<<y, x>> \in R) BY <1>3, Zenon
  <2>3. ~(y < x) BY <1>2, <2>1, <2>2, Zenon
  <2> QED BY <2>1, <2>3
<1> QED BY <1>4, Zenon

AtMost(s, x) == {i \in 1..Len(s) : s[i] <= x}
AtLeast(s, x) == {i \in 1..Len(s) : s[i] >= x}
Shorter(s, x) == {i \in 1..Len(s) : s[i] < x}

LEMMA AllPositions == ASSUME NEW n \in Nat PROVE IsFiniteSet(1..n) /\ Cardinality(1..n) = n
BY FS_Interval

(* The sizes of sets of positions. *)
LEMMA Positions ==
  ASSUME NEW n \in Nat, NEW S \in SUBSET (1..n)
  PROVE  /\ IsFiniteSet(S) /\ Cardinality(S) \in Nat /\ Cardinality(S) <= n
         /\ S # {} => Cardinality(S) > 0
         /\ \A T \in SUBSET S : Cardinality(T) <= Cardinality(S) /\ Cardinality(T) \in Nat
<1>1. IsFiniteSet(1..n) /\ Cardinality(1..n) = n BY AllPositions
<1>2. IsFiniteSet(S) /\ Cardinality(S) <= n BY <1>1, FS_Subset
<1>3. Cardinality(S) \in Nat BY <1>2, FS_CardinalityType
<1>4. S # {} => Cardinality(S) > 0 BY <1>2, <1>3, FS_EmptySet
<1>5. ASSUME NEW T \in SUBSET S PROVE Cardinality(T) <= Cardinality(S) /\ Cardinality(T) \in Nat
  BY <1>2, FS_Subset, FS_CardinalityType
<1> QED BY <1>2, <1>3, <1>4, <1>5

(* Two sets of positions that have none in common. *)
LEMMA ApartPositions ==
  ASSUME NEW n \in Nat, NEW S \in SUBSET (1..n), NEW T \in SUBSET (1..n), S \cap T = {}
  PROVE  Cardinality(S) + Cardinality(T) <= n
<1>1. IsFiniteSet(1..n) /\ Cardinality(1..n) = n BY AllPositions
<1>2. Cardinality(S) \in Nat /\ Cardinality(T) \in Nat BY Positions
<1>3. ~(Cardinality(S) + Cardinality(T) > n) BY <1>1, FS_MajoritiesIntersect
<1> QED BY <1>2, <1>3

(* A sequence of numbers has an upper bound: no prefix is the first without. *)
Below(s, n, b) == \A i \in 1..n : s[i] <= b
Unbounded(s) == {n \in Nat : n <= Len(s) /\ \A b \in Nat : ~Below(s, n, b)}

LEMMA Bounded ==
  ASSUME NEW s \in Seq(Nat)
  PROVE  \E b \in Nat : Below(s, Len(s), b)
<1>1. Unbounded(s) \in SUBSET Nat /\ Len(s) \in Nat BY DEF Unbounded
<1>2. ASSUME Unbounded(s) # {} PROVE FALSE
  <2>1. PICK n \in Unbounded(s) : \A m \in Unbounded(s) : n <= m BY <1>1, <1>2, Least
  <2>2. n \in Nat /\ n <= Len(s) /\ \A b \in Nat : ~Below(s, n, b) BY <2>1 DEF Unbounded
  <2>3. n # 0
    <3>1. Below(s, 0, 0) BY DEF Below
    <3> QED BY <2>2, <3>1
  <2>4. n - 1 \in Nat /\ n - 1 <= Len(s) /\ n - 1 \notin Unbounded(s) BY <1>1, <2>1, <2>2, <2>3
  <2>5. PICK b \in Nat : Below(s, n - 1, b) BY <2>4 DEF Unbounded
  <2>6. n \in 1..Len(s) /\ s[n] \in Nat BY <1>1, <2>2, <2>3
  <2>7. ASSUME NEW i \in 1..n PROVE s[i] <= b + s[n]
    <3>1. s[i] \in Nat BY <1>1, <2>2
    <3>2. CASE i = n BY <2>6, <3>2
    <3>3. CASE i # n
      <4>1. i \in 1..(n - 1) BY <2>2, <3>3
      <4>2. s[i] <= b BY <2>5, <4>1 DEF Below
      <4> QED BY <2>6, <3>1, <4>2
    <3> QED BY <3>2, <3>3
  <2>8. b + s[n] \in Nat /\ Below(s, n, b + s[n]) BY <2>6, <2>7 DEF Below
  <2> QED BY <2>2, <2>8
<1>3. Len(s) \notin Unbounded(s) BY <1>2
<1> QED BY <1>1, <1>3 DEF Unbounded

(* The k-th smallest value of a sequence exists. *)
LEMMA SmallestIs ==
  ASSUME NEW s \in Seq(Nat), NEW k \in 1..Len(s)
  PROVE  /\ Smallest(s, k) \in Nat
         /\ Cardinality(Shorter(s, Smallest(s, k))) < k
         /\ Cardinality(AtMost(s, Smallest(s, k))) >= k
<1>1. Len(s) \in Nat /\ DOMAIN s = 1..Len(s) /\ \A i \in 1..Len(s) : s[i] \in Nat OBVIOUS
<1> DEFINE T == {b \in Nat : Cardinality(AtMost(s, b)) >= k}
<1>2. T # {}
  <2>1. PICK b \in Nat : Below(s, Len(s), b) BY Bounded
  <2>2. AtMost(s, b) = 1..Len(s) BY <2>1 DEF AtMost, Below
  <2>3. Cardinality(1..Len(s)) = Len(s) BY <1>1, AllPositions, Zenon
  <2>4. Cardinality(AtMost(s, b)) >= k BY <1>1, <2>2, <2>3
  <2> QED BY <2>4
<1>3. PICK x \in T : \A y \in T : x <= y BY <1>2, Least
<1>4. x \in Nat /\ Cardinality(AtMost(s, x)) >= k BY <1>3
<1>5. Cardinality(Shorter(s, x)) < k
  <2>1. CASE x = 0
    <3>1. Shorter(s, x) = {} BY <1>1, <2>1 DEF Shorter
    <3> QED BY <3>1, FS_EmptySet
  <2>2. CASE x # 0
    <3>1. x - 1 \in Nat /\ x - 1 \notin T BY <1>3, <1>4, <2>2
    <3>2. Shorter(s, x) = AtMost(s, x - 1) BY <1>1, <1>4 DEF Shorter, AtMost
    <3>3. Cardinality(AtMost(s, x - 1)) \in Nat
      <4>1. AtMost(s, x - 1) \in SUBSET (1..Len(s)) BY DEF AtMost
      <4> QED BY <1>1, <4>1, Positions
    <3> QED BY <3>1, <3>2, <3>3
  <2> QED BY <2>1, <2>2
<1>6. \E i \in 1..Len(s) : s[i] = x
  <2> SUFFICES ASSUME \A i \in 1..Len(s) : s[i] # x PROVE FALSE OBVIOUS
  <2>1. Shorter(s, x) = AtMost(s, x) BY <1>1, <1>4 DEF Shorter, AtMost
  <2>2. Cardinality(AtMost(s, x)) \in Nat
    <3>1. AtMost(s, x) \in SUBSET (1..Len(s)) BY DEF AtMost
    <3> QED BY <1>1, <3>1, Positions
  <2> QED BY <1>4, <1>5, <2>1, <2>2
<1> HIDE DEF T
<1> DEFINE V == {s[i] : i \in DOMAIN s}
           Fits(v) == /\ Cardinality({i \in DOMAIN s : s[i] < v}) < k
                      /\ Cardinality({i \in DOMAIN s : s[i] <= v}) >= k
           y == CHOOSE v \in V : Fits(v)
<1>7. \E v \in V : Fits(v)
  <2>1. x \in V BY <1>1, <1>6
  <2>2. Fits(x) BY <1>1, <1>4, <1>5 DEF Shorter, AtMost
  <2> QED BY <2>1, <2>2
<1>8. y \in V /\ Fits(y) BY <1>7
<1>9. Smallest(s, k) = y BY DEF Smallest
<1>10. y \in Nat BY <1>1, <1>8
<1> QED BY <1>1, <1>8, <1>9, <1>10 DEF Shorter, AtMost

(* Twice the median of numbers most of which are at most x, or at least x. *)
LEMMA MedianBounds ==
  ASSUME NEW s \in Seq(Nat), s # <<>>
  PROVE  /\ DoubleMedian(s) \in Nat
         /\ \A x \in Nat : 2 * Cardinality(AtMost(s, x)) > Len(s) => DoubleMedian(s) <= 2 * x
         /\ \A x \in Nat : 2 * Cardinality(AtLeast(s, x)) > Len(s) => DoubleMedian(s) >= 2 * x
<1> DEFINE n == Len(s)
<1>1. n \in Nat /\ n # 0 /\ \A i \in 1..n : s[i] \in Nat OBVIOUS
<1>2. ASSUME NEW k \in 1..n, NEW x \in Nat, 2 * k >= n, 2 * k <= n + 2
      PROVE  /\ Smallest(s, k) \in Nat
             /\ 2 * Cardinality(AtMost(s, x)) > n => Smallest(s, k) <= x
             /\ 2 * Cardinality(AtLeast(s, x)) > n => Smallest(s, k) >= x
  <2> DEFINE v == Smallest(s, k)
  <2>1. v \in Nat /\ Cardinality(Shorter(s, v)) < k /\ Cardinality(AtMost(s, v)) >= k
    BY SmallestIs
  <2> HIDE DEF v
  <2>2. /\ AtMost(s, x) \in SUBSET (1..n) /\ AtLeast(s, x) \in SUBSET (1..n)
        /\ Shorter(s, v) \in SUBSET (1..n) /\ AtMost(s, v) \in SUBSET (1..n)
    BY DEF AtMost, AtLeast, Shorter
  <2>3. /\ Cardinality(AtMost(s, x)) \in Nat /\ Cardinality(AtLeast(s, x)) \in Nat
        /\ Cardinality(Shorter(s, v)) \in Nat /\ Cardinality(AtMost(s, v)) \in Nat
    BY <1>1, <2>2, Positions
  <2>4. ASSUME v > x PROVE 2 * Cardinality(AtMost(s, x)) <= n
    <3>1. AtMost(s, x) \subseteq Shorter(s, v) BY <1>1, <2>1, <2>4 DEF AtMost, Shorter
    <3>2. Cardinality(AtMost(s, x)) <= Cardinality(Shorter(s, v)) BY <1>1, <2>2, <3>1, Positions
    <3> QED BY <1>1, <1>2, <2>1, <2>3, <3>2
  <2>5. ASSUME v < x PROVE 2 * Cardinality(AtLeast(s, x)) <= n
    <3>1. AtMost(s, v) \cap AtLeast(s, x) = {} BY <1>1, <2>1, <2>5 DEF AtMost, AtLeast
    <3>2. Cardinality(AtMost(s, v)) + Cardinality(AtLeast(s, x)) <= n
      BY <1>1, <2>2, <3>1, ApartPositions
    <3> QED BY <1>1, <1>2, <2>1, <2>3, <3>2
  <2>6. v <= x \/ v > x BY <2>1
  <2>7. v >= x \/ v < x BY <2>1
  <2> QED BY <1>1, <2>1, <2>3, <2>4, <2>5, <2>6, <2>7 DEF v
<1> DEFINE h == n \div 2
<1>3. CASE n % 2 = 1
  <2>1. h + 1 \in 1..n /\ 2 * (h + 1) >= n /\ 2 * (h + 1) <= n + 2 BY <1>1, <1>3
  <2>2. DoubleMedian(s) = 2 * Smallest(s, h + 1) BY <1>3 DEF DoubleMedian
  <2> HIDE DEF h, n
  <2>3. \A x \in Nat :
          /\ Smallest(s, h + 1) \in Nat
          /\ 2 * Cardinality(AtMost(s, x)) > n => Smallest(s, h + 1) <= x
          /\ 2 * Cardinality(AtLeast(s, x)) > n => Smallest(s, h + 1) >= x
    BY <1>2, <2>1
  <2>4. Smallest(s, h + 1) \in Nat BY <2>3
  <2> QED BY <2>2, <2>3, <2>4 DEF n
<1>4. CASE n % 2 # 1
  <2>1. h \in 1..n /\ 2 * h >= n /\ 2 * h <= n + 2 /\ h + 1 \in 1..n /\ 2 * (h + 1) >= n /\ 2 * (h + 1) <= n + 2
    BY <1>1, <1>4
  <2>2. DoubleMedian(s) = Smallest(s, h) + Smallest(s, h + 1) BY <1>4 DEF DoubleMedian
  <2> HIDE DEF h, n
  <2>3. \A x \in Nat :
          /\ Smallest(s, h + 1) \in Nat
          /\ 2 * Cardinality(AtMost(s, x)) > n => Smallest(s, h + 1) <= x
          /\ 2 * Cardinality(AtLeast(s, x)) > n => Smallest(s, h + 1) >= x
    BY <1>2, <2>1
  <2>4. \A x \in Nat :
          /\ Smallest(s, h) \in Nat
          /\ 2 * Cardinality(AtMost(s, x)) > n => Smallest(s, h) <= x
          /\ 2 * Cardinality(AtLeast(s, x)) > n => Smallest(s, h) >= x
    BY <1>2, <2>1
  <2>5. Smallest(s, h) \in Nat /\ Smallest(s, h + 1) \in Nat BY <2>3, <2>4
  <2> QED BY <2>2, <2>3, <2>4, <2>5 DEF n
<1> QED BY <1>3, <1>4

(* A round trip is an outlier only if half of the window is shorter, and none *)
(* if it is within the margin of a majority.                                  *)
LEMMA Outlier ==
  ASSUME NEW c, c.window \in Seq(Nat), c.window # <<>>, NEW rtt \in Nat
  PROVE  /\ IsRttOutlier(c, rtt) => 2 * Cardinality(AtLeast(c.window, rtt)) <= Len(c.window)
         /\ ~IsRttOutlier(c, rtt) =>
              \A r \in Nat : 2 * Cardinality(AtMost(c.window, r)) > Len(c.window) =>
                InMargin(rtt, r)
<1> DEFINE w == c.window
           m2 == DoubleMedian(w)
           d == [i \in DOMAIN w |-> Abs(2 * w[i] - m2)]
           mad4 == DoubleMedian(d)
<1>1. w \in Seq(Nat) /\ w # <<>> /\ Len(w) \in Nat /\ DOMAIN w = 1..Len(w) /\ Floor \in Nat
  BY ClockAssumption
<1>2. IsRttOutlier(c, rtt) <=> 4000 * rtt > 2000 * m2 + Max2(7413 * mad4, 4000 * Floor)
  BY <1>1 DEF IsRttOutlier
<1> HIDE DEF w
<1>3. /\ m2 \in Nat
      /\ \A x \in Nat : 2 * Cardinality(AtMost(w, x)) > Len(w) => m2 <= 2 * x
      /\ \A x \in Nat : 2 * Cardinality(AtLeast(w, x)) > Len(w) => m2 >= 2 * x
  BY <1>1, MedianBounds
<1> HIDE DEF m2
<1>4. d \in Seq(Nat) /\ Len(d) = Len(w) /\ d # <<>> /\ \A i \in 1..Len(w) : d[i] = Abs(2 * w[i] - m2)
  <2>1. \A i \in 1..Len(w) : w[i] \in Nat BY <1>1
  <2>2. \A i \in 1..Len(w) : Abs(2 * w[i] - m2) \in Nat BY <1>3, <2>1 DEF Abs
  <2>3. d = [i \in 1..Len(w) |-> Abs(2 * w[i] - m2)] BY <1>1
  <2> HIDE DEF d
  <2>4. d \in Seq(Nat) /\ Len(d) = Len(w) BY <1>1, <2>2, <2>3
  <2>5. Len(w) # 0 BY <1>1
  <2>6. d # <<>> BY <2>4, <2>5
  <2> QED BY <2>3, <2>4, <2>6
<1> HIDE DEF d
<1>5. mad4 \in Nat /\ \A x \in Nat : 2 * Cardinality(AtMost(d, x)) > Len(w) => mad4 <= 2 * x
  BY <1>4, MedianBounds
<1> HIDE DEF mad4
<1>6. ASSUME IsRttOutlier(c, rtt), 2 * Cardinality(AtLeast(w, rtt)) > Len(w) PROVE FALSE
  <2>1. m2 >= 2 * rtt BY <1>3, <1>6
  <2> QED BY <1>1, <1>2, <1>3, <1>5, <1>6, <2>1 DEF Max2
<1>7. ASSUME ~IsRttOutlier(c, rtt), NEW r \in Nat, 2 * Cardinality(AtMost(w, r)) > Len(w)
      PROVE  InMargin(rtt, r)
  <2>1. m2 <= 2 * r BY <1>3, <1>7
  <2>2. AtMost(w, r) \subseteq AtMost(d, 2 * r)
    <3> SUFFICES ASSUME NEW i \in 1..Len(w), w[i] <= r PROVE d[i] <= 2 * r BY <1>4 DEF AtMost
    <3>1. w[i] \in Nat BY <1>1
    <3>2. d[i] = Abs(2 * w[i] - m2) BY <1>4, Zenon
    <3>3. m2 \in Nat BY <1>3, Zenon
    <3>4. Abs(2 * w[i] - m2) <= 2 * r BY ONLY <2>1, <3>1, <3>3, w[i] <= r, r \in Nat DEF Abs
    <3> QED BY <3>2, <3>4, Zenon
  <2>3. AtMost(d, 2 * r) \in SUBSET (1..Len(w)) BY <1>4 DEF AtMost
  <2>4. Cardinality(AtMost(w, r)) <= Cardinality(AtMost(d, 2 * r)) BY <1>1, <2>2, <2>3, Positions
  <2>5. Cardinality(AtMost(w, r)) \in Nat /\ Cardinality(AtMost(d, 2 * r)) \in Nat
    BY <1>1, <2>2, <2>3, Positions
  <2>6. mad4 <= 4 * r BY <1>1, <1>5, <1>7, <2>4, <2>5
  <2> QED BY <1>1, <1>2, <1>3, <1>5, <1>7, <2>1, <2>6 DEF Max2, InMargin
<1>8. Cardinality(AtLeast(w, rtt)) \in Nat
  <2>1. AtLeast(w, rtt) \in SUBSET (1..Len(w)) BY DEF AtLeast
  <2> QED BY <1>1, <2>1, Positions
<1> QED BY <1>1, <1>6, <1>7, <1>8 DEF w

-----------------------------------------------------------------------------
(* The gate. *)

(* The window ends with the samples that were rejected last. *)
Matches(w, t) ==
  \A j \in 0 .. Majority - 1 :
    j < Len(t) => j < Len(w) /\ w[Len(w) - j] = t[Len(t) - j]

Trail(w, t) ==
  /\ w \in Seq(Nat) /\ Len(w) <= Window
  /\ t \in Seq(Nat) /\ Len(t) <= Majority + 1
  /\ Matches(w, t)

GateInv ==
  /\ net \subseteq Datagram /\ last \in 0..Old /\ peer \in Int
  /\ clock \in ClockState /\ Trail(clock.window, rejected)
  /\ GateReopens

(* A sequence that gets an element, and may lose its first. *)
Kept(t, q) == q = t \/ (t # <<>> /\ q = Tail(t))

Slid(t, q, r, u) ==
  /\ u \in Seq(Nat) /\ Len(u) = Len(q) + 1 /\ Len(q) \in Nat /\ u[Len(u)] = r
  /\ \A j \in 1..Len(q) : u[Len(u) - j] = t[Len(t) - (j - 1)]

LEMMA Slide ==
  ASSUME NEW t \in Seq(Nat), NEW r \in Nat, NEW q, Kept(t, q), NEW u, u = Append(q, r)
  PROVE  Slid(t, q, r, u)
<1> USE DEF Kept, Slid
<1>1. q \in Seq(Nat) /\ Len(q) \in Nat /\ Len(t) \in Nat OBVIOUS
<1>2. u \in Seq(Nat) /\ Len(u) = Len(q) + 1 /\ u[Len(u)] = r BY <1>1
<1>3. \A i \in 1..Len(q) : u[i] = q[i] BY <1>1
<1>4. \A j \in 1..Len(q) : Len(u) - j \in 1..Len(q) BY <1>1, <1>2
<1>5. CASE q = t
  <2>1. \A j \in 1..Len(q) : Len(u) - j = Len(t) - (j - 1) BY <1>1, <1>2, <1>5
  <2> QED BY <1>1, <1>2, <1>3, <1>4, <1>5, <2>1
<1>6. CASE t # <<>> /\ q = Tail(t)
  <2>1. Len(t) = Len(q) + 1 /\ \A i \in 1..Len(q) : q[i] = t[i + 1] BY <1>6
  <2>2. \A j \in 1..Len(q) : (Len(u) - j) + 1 = Len(t) - (j - 1) BY <1>1, <1>2, <2>1
  <2>3. ASSUME NEW j \in 1..Len(q) PROVE u[Len(u) - j] = t[Len(t) - (j - 1)]
    <3>1. u[Len(u) - j] = q[Len(u) - j] BY <1>3, <1>4, Zenon
    <3>2. q[Len(u) - j] = t[(Len(u) - j) + 1] BY <1>4, <2>1, Zenon
    <3> QED BY <2>2, <3>1, <3>2, Zenon
  <2> QED BY <1>1, <1>2, <2>3, Zenon
<1> QED BY <1>5, <1>6

LEMMA MajorityIs ==
  Majority \in Nat /\ 1 <= Majority /\ Majority <= Window /\ 2 * Majority > Window
BY Bounds DEF Majority

(* What entered the window since the last sample was accepted fills more     *)
(* than half of it when it does not reopen.                                  *)
LEMMA RejectedTrail ==
  ASSUME NEW c, NEW t, Trail(c.window, t), NEW r \in Nat, IsRttOutlier(c, r),
         NEW u, u = Append(IF Len(t) > Majority THEN Tail(t) ELSE t, r)
  PROVE  /\ Trail(Push(c.window, r), u)
         /\ Len(u) > Majority => \E i \in 1 .. Len(u) - 1 : u[i] < u[Len(u)]
<1> DEFINE w == c.window
           w2 == Push(w, r)
           q == IF Len(t) > Majority THEN Tail(t) ELSE t
           p == IF Len(w) = Window THEN Tail(w) ELSE w
<1>1. /\ w \in Seq(Nat) /\ Len(w) \in Nat /\ Len(w) <= Window
      /\ t \in Seq(Nat) /\ Len(t) \in Nat /\ Len(t) <= Majority + 1
      /\ Window \in Nat \ {0}
  BY Bounds DEF Trail
<1>2. Kept(t, q) BY <1>1, MajorityIs DEF Kept
<1>3. Kept(w, p) BY <1>1 DEF Kept
<1>4. Len(q) <= Majority /\ Len(q) <= Len(t) /\ (Len(t) <= Majority => q = t) BY <1>1, MajorityIs
<1>5. Len(p) <= Window - 1 /\ (Len(w) = Window => Len(p) = Window - 1) /\ (Len(w) # Window => p = w)
  BY <1>1
<1>6. w2 = Append(p, r) BY DEF Push
<1>7. u = Append(q, r) OBVIOUS
<1> HIDE DEF q, p, w2, w
<1>8. /\ u \in Seq(Nat) /\ Len(u) = Len(q) + 1 /\ Len(q) \in Nat /\ u[Len(u)] = r
      /\ \A j \in 1..Len(q) : u[Len(u) - j] = t[Len(t) - (j - 1)]
  <2>1. Slid(t, q, r, u) BY <1>1, <1>2, <1>7, Slide, Zenon
  <2> QED BY <2>1 DEF Slid
<1>9. /\ w2 \in Seq(Nat) /\ Len(w2) = Len(p) + 1 /\ Len(p) \in Nat /\ w2[Len(w2)] = r
      /\ \A j \in 1..Len(p) : w2[Len(w2) - j] = w[Len(w) - (j - 1)]
  <2>1. Slid(w, p, r, w2) BY <1>1, <1>3, <1>6, Slide, Zenon
  <2> QED BY <2>1 DEF Slid
<1>10. \A j \in 0 .. Majority - 1 : j < Len(t) => j < Len(w) /\ w[Len(w) - j] = t[Len(t) - j]
  BY DEF Trail, Matches, w
<1>11. Matches(w2, u)
  <2> SUFFICES ASSUME NEW j \in 0 .. Majority - 1, j < Len(u)
               PROVE  j < Len(w2) /\ w2[Len(w2) - j] = u[Len(u) - j]
    BY DEF Matches
  <2>1. CASE j = 0 BY <1>8, <1>9, <2>1
  <2>2. CASE j # 0
    <3>1. j - 1 \in 0 .. Majority - 1 /\ j - 1 < Len(t) /\ j \in 1..Len(q)
      <4>1. j \in Nat /\ j > 0 /\ j < Majority /\ j < Len(q) + 1 /\ Len(q) \in Nat
        BY <1>8, <2>2, MajorityIs
      <4>2. Len(q) <= Len(t) /\ Len(t) \in Nat /\ Majority \in Nat BY <1>1, <1>4, MajorityIs
      <4> QED BY ONLY <4>1, <4>2
    <3>2. j - 1 < Len(w) /\ w[Len(w) - (j - 1)] = t[Len(t) - (j - 1)] BY <1>10, <3>1
    <3>3. j \in 1..Len(p)
      <4>1. j \in Nat /\ j > 0 /\ j <= Majority - 1 /\ j - 1 < Len(w) BY <3>1, <3>2, MajorityIs
      <4>2. /\ Len(w) \in Nat /\ Window \in Nat /\ Majority \in Nat /\ Majority <= Window
            /\ Len(p) \in Nat
        BY <1>1, <1>9, MajorityIs
      <4>3. Len(p) = Window - 1 \/ Len(p) = Len(w) BY <1>5
      <4> QED BY ONLY <4>1, <4>2, <4>3
    <3>4. w2[Len(w2) - j] = u[Len(u) - j] BY <1>8, <1>9, <3>1, <3>2, <3>3
    <3> QED BY <1>9, <3>3, <3>4
  <2> QED BY <2>1, <2>2
<1>12. Trail(w2, u) BY <1>1, <1>4, <1>5, <1>8, <1>9, <1>11, MajorityIs DEF Trail
<1>13. ASSUME Len(u) > Majority, \A i \in 1 .. Len(u) - 1 : ~(u[i] < u[Len(u)]) PROVE FALSE
  <2>1. Len(q) = Majority /\ Majority <= Len(t) BY <1>1, <1>4, <1>8, <1>13, MajorityIs
  <2>2. Majority <= Len(w)
    <3>1. Majority - 1 \in 0 .. Majority - 1 /\ Majority - 1 < Len(t) BY <1>1, <2>1, MajorityIs
    <3>2. Majority - 1 < Len(w) BY <1>10, <3>1
    <3> QED BY <1>1, <3>2, MajorityIs
  <2> DEFINE T == Len(w) - Majority + 1 .. Len(w)
  <2>3. ASSUME NEW i \in T PROVE i \in AtLeast(w, r)
    <3> DEFINE j == Len(w) - i + 1
    <3>1. j \in 1..Majority /\ j - 1 \in 0 .. Majority - 1 /\ Len(w) - (j - 1) = i /\ i \in 1..Len(w)
      BY <1>1, <2>2, <2>3, MajorityIs
    <3> HIDE DEF j
    <3>2. j \in 1..Len(q) /\ j - 1 < Len(t) /\ Len(u) - j \in 1 .. Len(u) - 1
      <4>1. j \in 1..Majority /\ Majority \in Nat /\ Len(q) = Majority /\ Len(u) = Majority + 1
        BY <1>8, <2>1, <3>1, MajorityIs
      <4>2. Majority <= Len(t) /\ Len(t) \in Nat BY <1>1, <2>1
      <4> QED BY ONLY <4>1, <4>2
    <3>3. u[Len(u) - j] = t[Len(t) - (j - 1)] BY <1>8, <3>2
    <3>4. w[i] = t[Len(t) - (j - 1)]
      <4>1. w[Len(w) - (j - 1)] = t[Len(t) - (j - 1)] BY <1>10, <3>1, <3>2, Zenon
      <4> QED BY <3>1, <4>1, Zenon
    <3>5. ~(u[Len(u) - j] < r)
      <4>1. u[Len(u)] = r BY <1>8, Zenon
      <4>2. ~(u[Len(u) - j] < u[Len(u)]) BY <1>13, <3>2, Zenon
      <4> QED BY <4>1, <4>2, Zenon
    <3>6. w[i] \in Nat BY <1>1, <3>1, EntryType, Zenon
    <3>7. ~(w[i] < r) BY <3>3, <3>4, <3>5, Zenon
    <3>8. w[i] >= r BY ONLY <3>6, <3>7, r \in Nat
    <3> QED BY <3>1, <3>8 DEF AtLeast
  <2>4. Cardinality(T) = Majority /\ IsFiniteSet(T) BY <1>1, <2>2, MajorityIs, FS_Interval
  <2> HIDE DEF T
  <2>5. T \subseteq AtLeast(w, r) /\ AtLeast(w, r) \in SUBSET (1..Len(w)) BY <2>3 DEF AtLeast
  <2>6. Cardinality(T) <= Cardinality(AtLeast(w, r)) /\ Cardinality(AtLeast(w, r)) \in Nat
    BY <1>1, <2>5, Positions
  <2>7. w # <<>> BY <1>1, <2>2, MajorityIs
  <2>8. 2 * Cardinality(AtLeast(w, r)) <= Len(w) BY <1>1, <2>7, Outlier DEF w
  <2> QED BY <1>1, <2>4, <2>6, <2>8, MajorityIs
<1> QED BY <1>12, <1>13 DEF w2, w

(* An accepted sample enters the window too, and the trail starts again.      *)
LEMMA AcceptedTrail ==
  ASSUME NEW w, NEW t, Trail(w, t), NEW r \in Nat
  PROVE  /\ Trail(Push(w, r), <<>>)
         /\ Push(w, r) # <<>> /\ Push(w, r)[Len(Push(w, r))] = r
<1> DEFINE p == IF Len(w) = Window THEN Tail(w) ELSE w
           w2 == Push(w, r)
<1>1. w \in Seq(Nat) /\ Len(w) \in Nat /\ Len(w) <= Window /\ Window \in Nat \ {0}
  BY Bounds DEF Trail
<1>2. Kept(w, p) /\ Len(p) <= Window - 1 BY <1>1 DEF Kept
<1>3. w2 = Append(p, r) BY DEF Push
<1> HIDE DEF p, w2
<1>4. Slid(w, p, r, w2) BY <1>1, <1>2, <1>3, Slide, Zenon
<1>5. /\ w2 \in Seq(Nat) /\ Len(w2) = Len(p) + 1 /\ Len(p) \in Nat /\ w2[Len(w2)] = r
  BY <1>4 DEF Slid
<1>6. Len(w2) <= Window /\ w2 # <<>> BY <1>1, <1>2, <1>5
<1>7. Matches(w2, <<>>) BY DEF Matches
<1>8. <<>> \in Seq(Nat) /\ Len(<<>>) <= Majority + 1 BY MajorityIs
<1> QED BY <1>5, <1>6, <1>7, <1>8 DEF Trail, w2

(* What a step may do to the filter. *)
Filtered == clock' \in ClockState /\ Trail(clock'.window, rejected') /\ GateReopens' /\ WithinMargin

(* Whatever the exchange measured, one update keeps the gate.                 *)
LEMMA UpdateFiltered ==
  ASSUME clock \in ClockState, Trail(clock.window, rejected),
         NEW t1 \in Int, NEW t2 \in Int, NEW t3 \in Int, NEW t4 \in Int,
         Update(clock, t1, t2, t3, t4)
  PROVE  Filtered
<1> DEFINE offset2 == (t2 - t1) + (t3 - t4)
           rtt == Max2(0, (t4 - t1) - (t3 - t2))
           w == clock.window
           u == Append(IF Len(rejected) > Majority THEN Tail(rejected) ELSE rejected, rtt)
<1>1. offset2 \in Int /\ rtt \in Nat BY DEF Max2
<1>2. \/ /\ IsBootstrapped(clock) /\ IsRttOutlier(clock, rtt)
         /\ clock' = Rejected(clock, rtt) /\ rejected' = u
      \/ /\ ~(IsBootstrapped(clock) /\ IsRttOutlier(clock, rtt))
         /\ clock' = [Averaged(clock, offset2) EXCEPT
                        !.samples = Min2(@ + 1, Bootstrap), !.window = Push(@, rtt)]
         /\ rejected' = <<>>
  BY Zenon DEF Update
<1>3. /\ clock.samples \in Nat /\ clock.low2 \in Int /\ clock.high2 \in Int /\ w \in Seq(Nat)
      /\ Trail(w, rejected)
  BY DEF ClockState
<1> HIDE DEF offset2, rtt, u, w
<1>4. Push(w, rtt) \in Seq(Nat) BY <1>1, <1>3, PushType
<1>5. CASE /\ IsBootstrapped(clock) /\ IsRttOutlier(clock, rtt)
           /\ clock' = Rejected(clock, rtt) /\ rejected' = u
  <2>1. clock' \in ClockState /\ clock'.window = Push(w, rtt)
    BY <1>4, <1>5 DEF Rejected, ClockState, w
  <2>2. /\ Trail(Push(w, rtt), u)
        /\ Len(u) > Majority => \E i \in 1 .. Len(u) - 1 : u[i] < u[Len(u)]
    BY <1>1, <1>3, <1>5, RejectedTrail, Zenon DEF u, w
  <2>3. GateReopens' BY <1>5, <2>2, Zenon DEF GateReopens
  <2>4. u # <<>>
    <3> DEFINE q == IF Len(rejected) > Majority THEN Tail(rejected) ELSE rejected
    <3>1. q \in Seq(Nat) BY <1>3, MajorityIs DEF Trail
    <3>2. u = Append(q, rtt) BY Zenon DEF u
    <3> HIDE DEF q
    <3>3. Len(u) = Len(q) + 1 /\ Len(q) \in Nat BY <1>1, <3>1, <3>2
    <3> QED BY <3>3
  <2>5. WithinMargin BY <1>5, <2>4, Zenon DEF WithinMargin
  <2> QED BY <1>5, <2>1, <2>2, <2>3, <2>5, Zenon DEF Filtered
<1>6. CASE /\ ~(IsBootstrapped(clock) /\ IsRttOutlier(clock, rtt))
           /\ clock' = [Averaged(clock, offset2) EXCEPT
                          !.samples = Min2(@ + 1, Bootstrap), !.window = Push(@, rtt)]
           /\ rejected' = <<>>
  <2>1. clock' \in ClockState /\ clock'.window = Push(w, rtt)
    <3>1. /\ Averaged(clock, offset2) \in ClockState
          /\ Averaged(clock, offset2).window = w /\ Averaged(clock, offset2).samples = clock.samples
      BY <1>1, <1>3 DEF Averaged, Min2, Max2, ClockState, w
    <3>2. Min2(clock.samples + 1, Bootstrap) \in Nat BY <1>3, Bounds DEF Min2
    <3> QED BY <1>4, <1>6, <3>1, <3>2 DEF ClockState
  <2>2. Trail(Push(w, rtt), <<>>) /\ Push(w, rtt)[Len(Push(w, rtt))] = rtt
    BY <1>1, <1>3, AcceptedTrail, Zenon
  <2>3. GateReopens' BY <1>6, MajorityIs DEF GateReopens
  <2>4. ASSUME IsBootstrapped(clock), NEW r \in 0..StaleAfter,
               2 * Cardinality({i \in DOMAIN w : w[i] <= r}) > Len(w)
        PROVE  InMargin(rtt, r)
    <3>1. {i \in DOMAIN w : w[i] <= r} = AtMost(w, r) BY <1>3 DEF AtMost
    <3>2. w # <<>>
      <4> SUFFICES ASSUME w = <<>> PROVE FALSE OBVIOUS
      <4>1. {i \in DOMAIN w : w[i] <= r} = {} /\ Len(w) = 0 OBVIOUS
      <4>2. Cardinality({}) = 0 BY FS_EmptySet
      <4>3. 2 * Cardinality({i \in DOMAIN w : w[i] <= r}) > Len(w) BY <2>4
      <4> QED BY <4>1, <4>2, <4>3
    <3>3. r \in Nat BY Bounds
    <3>4. ~IsRttOutlier(clock, rtt) BY <1>6, <2>4
    <3>5. 2 * Cardinality(AtMost(w, r)) > Len(w) BY <2>4, <3>1, Zenon
    <3> QED BY <1>1, <1>3, <3>2, <3>3, <3>4, <3>5, Outlier, Zenon DEF w
  <2>5. WithinMargin BY <2>1, <2>2, <2>4, Zenon DEF WithinMargin, w
  <2> QED BY <1>6, <2>1, <2>2, <2>3, <2>5, Zenon DEF Filtered
<1> QED BY <1>2, <1>5, <1>6

(* The initial states satisfy the invariant.                                  *)
LEMMA InitGate == Init => GateInv
<1> SUFFICES ASSUME Init PROVE GateInv OBVIOUS
<1>1. clock \in ClockState /\ clock.window = <<>> /\ rejected = <<>>
  BY DEF Init, NewClock, ClockState
<1>2. Trail(<<>>, <<>>) BY Bounds, MajorityIs DEF Trail, Matches
<1>3. Old \in 0..Old /\ peer \in Int BY Bounds, ClockAssumption DEF Init
<1>4. GateReopens BY <1>1, MajorityIs DEF GateReopens
<1> QED BY <1>1, <1>2, <1>3, <1>4 DEF Init, GateInv

(* A step leaves the filter alone or is one of its updates.                   *)
LEMMA StepFiltered ==
  ASSUME GateInv, [Next]_vars
  PROVE  Filtered
<1>1. clock \in ClockState /\ Trail(clock.window, rejected) /\ GateReopens BY DEF GateInv
<1>2. CASE clock' = clock /\ rejected' = rejected
  <2>1. GateReopens' BY <1>1, <1>2 DEF GateReopens
  <2>2. WithinMargin BY <1>2, Zenon DEF WithinMargin
  <2> QED BY <1>1, <1>2, <2>1, <2>2, Zenon DEF Filtered
<1>3. ASSUME NEW p \in net, ReceiveResponse(p) \/ SyncResponse(p) PROVE Filtered
  <2>1. p.age \in Int /\ p.t2 \in Int /\ p.t3 \in Int /\ last \in Int
    BY Bounds DEF GateInv, Datagram
  <2>2. T1(p) \in Int BY <2>1 DEF T1
  <2>3. Update(clock, T1(p), p.t2, p.t3, p.age) BY <1>3, Zenon DEF ReceiveResponse, SyncResponse
  <2> QED BY <1>1, <2>1, <2>2, <2>3, UpdateFiltered, Zenon
<1>4. \/ clock' = clock /\ rejected' = rejected
      \/ \E p \in net : ReceiveResponse(p) \/ SyncResponse(p)
  BY DEF Next, Tick, NewSession, SendRequest, ClockSyncOnce, SyncTimeout, Respond, IgnoreStale,
         filter, vars
<1> QED BY <1>2, <1>3, <1>4

(* Datagrams stay datagrams, whatever either side does.                       *)
LEMMA StepDatagrams ==
  ASSUME GateInv, [Next]_vars
  PROVE  net' \subseteq Datagram /\ last' \in 0..Old /\ peer' \in Int
<1>1. net \subseteq Datagram /\ last \in 0..Old /\ peer \in Int /\ 0 \in 0..Old
  BY Bounds DEF GateInv
<1>2. CASE Tick
  <2>1. \A n \in 0..Old : Older(n) \in 0..Old BY Bounds DEF Older, Min2
  <2>2. \A p \in Datagram : [p EXCEPT !.age = Older(@)] \in Datagram BY <2>1 DEF Datagram
  <2> QED BY <1>1, <1>2, <2>1, <2>2 DEF Tick, session
<1>3. CASE NewSession BY <1>1, <1>3, ClockAssumption DEF NewSession
<1>4. CASE SendRequest \/ ClockSyncOnce
  <2>1. [kind |-> "request", age |-> 0, t2 |-> 0, t3 |-> 0, of |-> peer] \in Datagram
    BY <1>1 DEF Datagram
  <2> QED BY <1>1, <1>4, <2>1 DEF SendRequest, ClockSyncOnce, Sends, session
<1>5. ASSUME NEW p \in net, Respond(p) PROVE net' \subseteq Datagram /\ last' \in 0..Old /\ peer' \in Int
  <2>1. PICK hold \in 0..1 :
          net' = (net \ {p}) \cup {[p EXCEPT !.kind = "response", !.t2 = p.age + p.of,
                                             !.t3 = p.age + p.of + hold]}
    BY <1>5 DEF Respond
  <2>2. p \in Datagram /\ p.age + p.of \in Int /\ p.age + p.of + hold \in Int
    BY <1>1, Bounds DEF Datagram
  <2>3. [p EXCEPT !.kind = "response", !.t2 = p.age + p.of, !.t3 = p.age + p.of + hold] \in Datagram
    BY <2>2 DEF Datagram
  <2> QED BY <1>1, <1>5, <2>1, <2>3 DEF Respond, session
<1>6. ASSUME \/ SyncTimeout \/ UNCHANGED vars
             \/ \E p \in net : ReceiveResponse(p) \/ IgnoreStale(p) \/ SyncResponse(p)
      PROVE  net' \subseteq Datagram /\ last' \in 0..Old /\ peer' \in Int
  <2>1. net' \subseteq net /\ last' = last /\ peer' = peer
    BY <1>6 DEF SyncTimeout, ReceiveResponse, IgnoreStale, SyncResponse, session, vars
  <2> QED BY <1>1, <2>1
<1> QED BY <1>2, <1>3, <1>4, <1>5, <1>6 DEF Next

(* The invariant holds of every behaviour of either side.                     *)
LEMMA GateHolds == Spec => []GateInv
<1>1. Init => GateInv BY InitGate
<1>2. GateInv /\ [Next]_vars => GateInv'
  <2> SUFFICES ASSUME GateInv, [Next]_vars PROVE GateInv' OBVIOUS
  <2>1. net' \subseteq Datagram /\ last' \in 0..Old /\ peer' \in Int BY StepDatagrams
  <2>2. Filtered BY StepFiltered
  <2> QED BY <2>1, <2>2 DEF Filtered, GateInv
<1> QED BY <1>1, <1>2, PTL DEF Spec

(* The gate never locks itself out, for every window, threshold and floor,    *)
(* and also when the responses are late, doubled or another exchange's.       *)
THEOREM GateOpensAgain == Spec => []GateReopens
<1>1. GateInv => GateReopens BY DEF GateInv
<1> QED BY <1>1, GateHolds, PTL

(* No accepted sample exceeds the margin that a majority of the window        *)
(* allows, so spikes that fill less than half of it never open the gate.      *)
THEOREM SpikesStayOut == Spec => SpikesIgnored
<1>1. GateInv /\ [Next]_vars => [WithinMargin]_vars
  <2> SUFFICES ASSUME GateInv, [Next]_vars PROVE WithinMargin OBVIOUS
  <2> QED BY StepFiltered DEF Filtered
<1> QED BY <1>1, GateHolds, PTL DEF Spec, SpikesIgnored
=============================================================================
