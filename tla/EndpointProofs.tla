--------------------------- MODULE EndpointProofs ---------------------------
(***************************************************************************)
(* The answers of an endpoint to the proposals of its controllers, for     *)
(* channels of any size and any number of proposals, commands, releases    *)
(* and sessions, when every proposal has a stream id of its own.           *)
(*                                                                         *)
(* A proposal the endpoint can play splits in two in the transport task:   *)
(* the event that makes the application set the device up and confirm, and *)
(* the negotiation that is held.  Both halves keep the order in which the  *)
(* proposals were sent, each through its own queues.                       *)
(***************************************************************************)
EXTENDS Endpoint, TLAPS

-----------------------------------------------------------------------------
(* Numbers in queues. *)

Msgs == [type : {"propose", "play", "stop", "reformat", "eof", "connected", "disconnected",
                 "close", "accepted", "rejected", "hold"},
         n : Nat, verdict : Verdicts \cup {"accept"}]

(* The numbers of the messages of type t in s. *)
Nums(s, t) == {n \in Nat : \E i \in 1..Len(s) : s[i].type = t /\ s[i].n = n}

Rising(s, t) ==
  \A i, j \in 1..Len(s) : i < j /\ s[i].type = t /\ s[j].type = t => s[i].n < s[j].n

Before(S, T) == \A x \in S, y \in T : x < y

LEMMA NumsEmpty ==
  ASSUME NEW t
  PROVE  <<>> \in Seq(Msgs) /\ Nums(<<>>, t) = {} /\ Rising(<<>>, t)
BY DEF Nums, Rising

(* A message that enters a queue comes last. *)
LEMMA NumsAppend ==
  ASSUME NEW s \in Seq(Msgs), NEW m \in Msgs, NEW t, Rising(s, t),
         m.type = t => Before(Nums(s, t), {m.n})
  PROVE  /\ Append(s, m) \in Seq(Msgs) /\ Rising(Append(s, m), t)
         /\ Nums(Append(s, m), t) = Nums(s, t) \cup (IF m.type = t THEN {m.n} ELSE {})
<1> DEFINE q == Append(s, m)
<1>1. q \in Seq(Msgs) /\ Len(q) = Len(s) + 1 /\ q[Len(q)] = m /\ Len(s) \in Nat OBVIOUS
<1>2. \A i \in 1..Len(s) : q[i] = s[i] OBVIOUS
<1> HIDE DEF q
<1>3. 1..Len(q) = (1..Len(s)) \cup {Len(q)} /\ Len(q) \notin 1..Len(s) BY <1>1
<1>4. m.n \in Nat BY DEF Msgs
<1>5. Nums(q, t) = Nums(s, t) \cup (IF m.type = t THEN {m.n} ELSE {})
  BY <1>1, <1>2, <1>3, <1>4 DEF Nums
<1>6. ASSUME NEW i \in 1..Len(q), NEW j \in 1..Len(q), i < j, q[i].type = t, q[j].type = t
      PROVE  q[i].n < q[j].n
  <2>1. i \in 1..Len(s) BY <1>1, <1>6
  <2>2. CASE j \in 1..Len(s) BY <1>2, <1>6, <2>1, <2>2 DEF Rising
  <2>3. CASE j = Len(q)
    <3>1. s[i] \in Msgs BY <2>1
    <3>2. s[i].n \in Nums(s, t) BY <1>2, <1>6, <2>1, <3>1 DEF Nums, Msgs
    <3> QED BY <1>1, <1>2, <1>6, <2>1, <2>3, <3>2 DEF Before
  <2> QED BY <1>3, <2>2, <2>3
<1>7. Rising(q, t) BY <1>6 DEF Rising
<1> QED BY <1>1, <1>5, <1>7 DEF q

(* The message that leaves a queue came first. *)
LEMMA NumsTail ==
  ASSUME NEW s \in Seq(Msgs), s # <<>>, NEW t, Rising(s, t)
  PROVE  /\ Head(s) \in Msgs /\ Tail(s) \in Seq(Msgs) /\ Rising(Tail(s), t)
         /\ Head(s).type # t => Nums(Tail(s), t) = Nums(s, t)
         /\ Head(s).type = t => /\ Head(s).n \in Nums(s, t)
                                /\ Nums(Tail(s), t) = Nums(s, t) \ {Head(s).n}
                                /\ Before({Head(s).n}, Nums(Tail(s), t))
<1> DEFINE q == Tail(s)
<1>1. Len(s) \in Nat \ {0} /\ Len(q) = Len(s) - 1 /\ q \in Seq(Msgs) OBVIOUS
<1>2. \A i \in 1..Len(q) : q[i] = s[i + 1] OBVIOUS
<1>3. Head(s) = s[1] /\ Head(s) \in Msgs OBVIOUS
<1> HIDE DEF q
<1>4. \A i \in 1..Len(s) : i = 1 \/ (i - 1 \in 1..Len(q) /\ (i - 1) + 1 = i) BY <1>1
<1>5. 1 \in 1..Len(s) /\ \A i \in 1..Len(q) : i + 1 \in 1..Len(s) /\ 1 < i + 1 BY <1>1
<1>6. Rising(q, t)
  <2>1. \A i, j \in 1..Len(q) : i < j => i + 1 < j + 1 BY <1>1
  <2> QED BY <2>1, <1>2, <1>5 DEF Rising
<1>7. \A i \in 1..Len(s) : i # 1 => \E k \in 1..Len(q) : q[k] = s[i] BY <1>2, <1>4
<1>8. Nums(q, t) = {n \in Nat : \E i \in 1..Len(s) : i # 1 /\ s[i].type = t /\ s[i].n = n}
  <2>1. \A k \in 1..Len(q) : k + 1 # 1 BY <1>1
  <2>2. \A k \in 1..Len(q) : \E i \in 1..Len(s) : i # 1 /\ s[i] = q[k] BY <1>2, <1>5, <2>1
  <2>3. \A n \in Nat : (\E k \in 1..Len(q) : q[k].type = t /\ q[k].n = n) <=>
                       (\E i \in 1..Len(s) : i # 1 /\ s[i].type = t /\ s[i].n = n)
    <3> SUFFICES ASSUME NEW n \in Nat
                 PROVE  (\E k \in 1..Len(q) : q[k].type = t /\ q[k].n = n) <=>
                        (\E i \in 1..Len(s) : i # 1 /\ s[i].type = t /\ s[i].n = n)
      OBVIOUS
    <3>1. ASSUME NEW k \in 1..Len(q), q[k].type = t, q[k].n = n
          PROVE  \E i \in 1..Len(s) : i # 1 /\ s[i].type = t /\ s[i].n = n
      <4>1. PICK i \in 1..Len(s) : i # 1 /\ s[i] = q[k] BY <2>2
      <4> QED BY <3>1, <4>1
    <3>2. ASSUME NEW i \in 1..Len(s), i # 1, s[i].type = t, s[i].n = n
          PROVE  \E k \in 1..Len(q) : q[k].type = t /\ q[k].n = n
      <4>1. PICK k \in 1..Len(q) : q[k] = s[i] BY <1>7, <3>2
      <4> QED BY <3>2, <4>1
    <3> QED BY <3>1, <3>2
  <2> QED BY <2>3 DEF Nums
<1>9. Head(s).type # t => Nums(q, t) = Nums(s, t) BY <1>3, <1>8 DEF Nums
<1>10. ASSUME Head(s).type = t
       PROVE  /\ Head(s).n \in Nums(s, t) /\ Nums(q, t) = Nums(s, t) \ {Head(s).n}
              /\ Before({Head(s).n}, Nums(q, t))
  <2>1. s[1].n \in Nat BY <1>3 DEF Msgs
  <2>2. \A i \in 1..Len(s) : i # 1 /\ s[i].type = t => s[1].n < s[i].n
    <3>1. \A i \in 1..Len(s) : i # 1 => 1 < i BY <1>1
    <3> QED BY <3>1, <1>3, <1>5, <1>10 DEF Rising
  <2>3. Before({s[1].n}, Nums(q, t)) BY <1>8, <2>2 DEF Before
  <2>4. s[1].n \in Nums(s, t) BY <1>3, <1>5, <1>10, <2>1 DEF Nums
  <2>5. Nums(s, t) = Nums(q, t) \cup {s[1].n} BY <1>3, <1>8, <1>10, <2>1, <2>4 DEF Nums
  <2>6. s[1].n \notin Nums(q, t) BY <2>1, <2>3 DEF Before, Nums
  <2> QED BY <1>3, <2>3, <2>4, <2>5, <2>6
<1> QED BY <1>1, <1>3, <1>6, <1>9, <1>10 DEF q

(* A read takes the first messages of the stream. *)
LEMMA NumsSplit ==
  ASSUME NEW s \in Seq(Msgs), NEW k \in 1..Len(s), NEW t, Rising(s, t)
  PROVE  /\ SubSeq(s, 1, k) \in Seq(Msgs) /\ SubSeq(s, k + 1, Len(s)) \in Seq(Msgs)
         /\ Rising(SubSeq(s, 1, k), t) /\ Rising(SubSeq(s, k + 1, Len(s)), t)
         /\ Nums(SubSeq(s, 1, k), t) \subseteq Nums(s, t)
         /\ Nums(SubSeq(s, k + 1, Len(s)), t) \subseteq Nums(s, t)
         /\ Before(Nums(SubSeq(s, 1, k), t), Nums(SubSeq(s, k + 1, Len(s)), t))
<1> DEFINE p == SubSeq(s, 1, k)
           q == SubSeq(s, k + 1, Len(s))
<1>1. Len(s) \in Nat /\ k \in Nat /\ k <= Len(s) /\ 1 <= k OBVIOUS
<1>2. p \in Seq(Msgs) /\ Len(p) = k /\ \A i \in 1..k : p[i] = s[i] BY <1>1
<1>3. q \in Seq(Msgs) /\ Len(q) = Len(s) - k /\ \A i \in 1..Len(q) : q[i] = s[i + k]
  <2>1. q \in Seq(Msgs) BY <1>1
  <2>2. Len(q) = Len(s) - k BY <1>1
  <2>3. \A i \in 1..(Len(s) - k) : q[i] = s[i + k] BY <1>1
  <2> QED BY <2>1, <2>2, <2>3
<1> HIDE DEF p, q
<1>4. \A i \in 1..Len(p) : i \in 1..Len(s) BY <1>1, <1>2
<1>5. \A i \in 1..Len(q) : i + k \in 1..Len(s) BY <1>1, <1>3
<1>6. Rising(p, t) BY <1>2, <1>4 DEF Rising
<1>7. Rising(q, t)
  <2>1. \A i, j \in 1..Len(q) : i < j => i + k < j + k BY <1>1, <1>3
  <2> QED BY <2>1, <1>3, <1>5 DEF Rising
<1>8. Nums(p, t) \subseteq Nums(s, t) BY <1>2, <1>4 DEF Nums
<1>9. Nums(q, t) \subseteq Nums(s, t) BY <1>3, <1>5 DEF Nums
<1>10. Before(Nums(p, t), Nums(q, t))
  <2>1. \A i \in 1..Len(p), j \in 1..Len(q) : i < j + k BY <1>1, <1>2, <1>3
  <2>2. \A i \in 1..Len(p), j \in 1..Len(q) : p[i].type = t /\ q[j].type = t => p[i].n < q[j].n
    BY <2>1, <1>2, <1>3, <1>4, <1>5 DEF Rising
  <2> QED BY <2>2 DEF Before, Nums
<1> QED BY <1>2, <1>3, <1>6, <1>7, <1>8, <1>9, <1>10 DEF p, q

-----------------------------------------------------------------------------
(* What the application says. *)

Confirmations == {"accept", "reject"}
Mails == [type : {"none", "accept", "reject", "release", "stats"}, stream : Nat]

AppShape(a) ==
  /\ {"mail", "stream", "connected", "released"} \subseteq DOMAIN a
  /\ a.stream \in Nat /\ a.mail \in Mails

LEMMA NewAppShape ==
  ASSUME NEW kind PROVE AppShape(NewApp(kind)) /\ NewApp(kind).mail = NoMail
BY DEF AppShape, NewApp, Mails, NoMail, NoStream

LEMMA NoMailFields == NoMail \in Mails /\ NoMail.type = "none"
BY DEF NoMail, NoStream, Mails

(* Only a proposal, a release and the servo tick leave a message. *)
LEMMA QuietArms ==
  ASSUME NEW a, AppShape(a), NEW ok \in BOOLEAN,
         NEW b \in {OnConnected(a), OnPlay(a, ok), OnStop(a), OnReformat(a, ok), OnDisconnected(a), a}
  PROVE  AppShape(b) /\ b.mail = a.mail
<1>1. CASE b = OnConnected(a) BY <1>1 DEF AppShape, OnConnected
<1>2. CASE b = OnPlay(a, ok) BY <1>2 DEF AppShape, OnPlay
<1>3. CASE b = OnStop(a) BY <1>3 DEF AppShape, OnStop, Unscheduled
<1>4. CASE b = OnReformat(a, ok) BY <1>4 DEF AppShape, OnReformat
<1>5. CASE b = OnDisconnected(a) BY <1>5 DEF AppShape, OnDisconnected
<1> QED BY <1>1, <1>2, <1>3, <1>4, <1>5

LEMMA ProposedArm ==
  ASSUME NEW a, AppShape(a), NEW s \in Nat, NEW ok \in BOOLEAN
  PROVE  /\ AppShape(OnFormatProposed(a, s, ok))
         /\ OnFormatProposed(a, s, ok).mail.type \in Confirmations
         /\ OnFormatProposed(a, s, ok).mail.stream = s
<1> DEFINE m == [type |-> IF ok THEN "accept" ELSE "reject", stream |-> s]
           b == OnFormatProposed(a, s, ok)
<1>1. m \in Mails /\ m.type \in Confirmations /\ m.stream = s BY DEF Mails, Confirmations
<1>2. b.mail = m /\ b.stream = s /\ DOMAIN b = DOMAIN a
  BY DEF AppShape, OnFormatProposed, Unscheduled
<1> HIDE DEF m, b
<1>3. AppShape(b) BY <1>1, <1>2 DEF AppShape
<1> QED BY <1>1, <1>2, <1>3 DEF b

LEMMA OtherArms ==
  ASSUME NEW a, AppShape(a), NEW b \in {OnRelease(a), OnServoTick(a)}
  PROVE  AppShape(b) /\ b.mail.type \notin Confirmations
<1>1. \A t \in {"release", "stats"} : [type |-> t, stream |-> a.stream] \in Mails
  BY DEF AppShape, Mails
<1>2. CASE b = OnRelease(a)
  <2>1. b.mail \in {[type |-> "release", stream |-> a.stream], NoMail} /\ b.stream = a.stream
        /\ DOMAIN b = DOMAIN a
    BY <1>2 DEF AppShape, OnRelease, Unscheduled
  <2> QED BY <1>1, <2>1, NoMailFields DEF AppShape, Confirmations
<1>3. CASE b = OnServoTick(a)
  <2>1. b.mail \in {[type |-> "stats", stream |-> a.stream], NoMail} /\ b.stream = a.stream
        /\ DOMAIN b = DOMAIN a
    BY <1>3 DEF AppShape, OnServoTick
  <2> QED BY <1>1, <2>1, NoMailFields DEF AppShape, Confirmations
<1> QED BY <1>2, <1>3

(* Handling an event leaves a confirmation exactly for a proposal. *)
LEMMA HandlesShape ==
  ASSUME AppShape(app), app.mail = NoMail, NEW e \in Msgs, NEW ok \in BOOLEAN
  PROVE  LET b == ApplicationHandles(e, ok) IN
           /\ AppShape(b)
           /\ e.type = "propose" => b.mail.type \in Confirmations /\ b.mail.stream = Id(e.n)
           /\ e.type # "propose" => b.mail = NoMail
<1>1. CASE e.type = "propose"
  <2>1. Id(e.n) \in Nat BY DEF Id, Msgs
  <2>2. ApplicationHandles(e, ok) = OnFormatProposed(app, Id(e.n), ok)
    BY <1>1 DEF ApplicationHandles
  <2> QED BY <1>1, <2>1, <2>2, ProposedArm
<1>2. CASE e.type # "propose"
  <2>1. ApplicationHandles(e, ok) \in {OnConnected(app), OnPlay(app, ok), OnStop(app),
                                       OnReformat(app, ok), OnDisconnected(app), app}
    BY <1>2 DEF ApplicationHandles
  <2> QED BY <1>2, <2>1, QuietArms
<1> QED BY <1>1, <1>2

-----------------------------------------------------------------------------
(* A confirmation names the proposal it was made for. *)

Ctrls == [type : {"none", "accept", "reject", "release", "stats"}, stream : Nat, by : Nat]
Replies == [to : Nat, kind : {"accept", "reject", "counter"}, by : Nat,
            via : {"auto", "failopen", "resolve", "forward"}, conn : Nat]

Types ==
  /\ AppShape(app)
  /\ tcp \in Seq(Msgs) /\ batch \in Seq(Msgs) /\ todo \in Seq(Msgs) /\ events \in Seq(Msgs)
  /\ ctrl \in Seq(Ctrls) /\ answers \in Seq(Replies)
  /\ proposals \in Nat /\ conf \in Nat /\ conn \in Nat /\ pending \in SUBSET Nat

OwnReplies(s) == \A i \in 1..Len(s) : s[i].via = "resolve" => s[i].by = s[i].to

(***************************************************************************)
(* AcceptMeansReady is about what was written; what is still under way has *)
(* to be right as well, in the control channel and in the application,     *)
(* which may be waiting for room in it.                                    *)
(***************************************************************************)
OwnInv ==
  /\ Types
  /\ app.mail.type \in Confirmations => app.mail.stream = Id(conf)
  /\ \A i \in 1..Len(ctrl) : ctrl[i].type \in Confirmations => ctrl[i].stream = Id(ctrl[i].by)
  /\ OwnReplies(answers)

LEMMA PlainMsgs ==
  /\ \A t \in {"play", "stop", "reformat", "eof", "connected", "disconnected", "close",
               "accepted", "rejected"} :
       Plain(t) \in Msgs /\ Plain(t).type = t
  /\ \A n \in Nat, v \in Verdicts \cup {"accept"} :
       /\ Msg("propose", n, v) \in Msgs /\ Msg("hold", n, v) \in Msgs
       /\ Msg("propose", n, v).type = "propose" /\ Msg("hold", n, v).type = "hold"
       /\ Msg("propose", n, v).n = n /\ Msg("hold", n, v).n = n
       /\ Msg("propose", n, v).verdict = v
BY DEF Plain, Msg, Msgs

LEMMA OwnInit == EndpointInit => OwnInv
<1> SUFFICES ASSUME EndpointInit PROVE OwnInv OBVIOUS
<1>1. PICK kind \in Kinds : app = NewApp(kind) BY DEF EndpointInit
<1>2. AppShape(app) /\ app.mail.type \notin Confirmations
  BY <1>1, NewAppShape, NoMailFields DEF Confirmations
<1>3. /\ tcp = <<>> /\ batch = <<>> /\ todo = <<>> /\ events = <<>> /\ ctrl = <<>>
      /\ answers = <<>> /\ proposals = 0 /\ conf = 0 /\ conn = 0 /\ pending = {}
  BY DEF EndpointInit
<1>4. Types BY <1>2, <1>3 DEF Types
<1> QED BY <1>2, <1>3, <1>4 DEF OwnInv, OwnReplies

LEMMA SendsOwn ==
  ASSUME OwnInv, ControllerProposes \/ ControllerCommands \/ ControllerCloses
  PROVE  OwnInv'
<1>1. /\ UNCHANGED <<app, batch, todo, events, ctrl, answers, conf, conn, pending>>
      /\ proposals' \in {proposals, proposals + 1}
  BY DEF ControllerProposes, ControllerCommands, ControllerCloses, session, ghosts
<1>2. PICK m \in Msgs : tcp' = Append(tcp, m)
  <2>1. CASE ControllerProposes
    BY <2>1, PlainMsgs DEF ControllerProposes, Sends, OwnInv, Types
  <2>2. CASE ControllerCommands
    BY <2>2, PlainMsgs, EndpointAssumption DEF ControllerCommands, Sends
  <2>3. CASE ControllerCloses
    BY <2>3, PlainMsgs DEF ControllerCloses, Sends
  <2> QED BY <2>1, <2>2, <2>3
<1>3. tcp' \in Seq(Msgs) /\ proposals' \in Nat BY <1>1, <1>2 DEF OwnInv, Types
<1>4. Types' BY <1>1, <1>3 DEF OwnInv, Types
<1> QED BY <1>1, <1>4 DEF OwnInv

LEMMA AcceptsOwn ==
  ASSUME OwnInv, AcceptSession \/ AcceptAborted
  PROVE  OwnInv'
<1>1. /\ UNCHANGED <<app, batch, events, ctrl, answers, proposals, conf, pending>>
      /\ conn' = conn + 1
      /\ \/ todo' = <<Plain("connected")>> /\ tcp' = <<>>
         \/ todo' = <<Plain("disconnected"), Plain("close")>> /\ tcp' = <<Plain("eof")>>
  BY DEF AcceptSession, AcceptAborted, ghosts
<1>a. {Plain("connected"), Plain("disconnected"), Plain("close"), Plain("eof")} \subseteq Msgs
  BY PlainMsgs
<1>2. todo' \in Seq(Msgs) /\ tcp' \in Seq(Msgs)
  <2>1. CASE todo' = <<Plain("connected")>> /\ tcp' = <<>> BY <1>a, <2>1
  <2>2. CASE todo' = <<Plain("disconnected"), Plain("close")>> /\ tcp' = <<Plain("eof")>>
    BY <1>a, <2>2
  <2> QED BY <1>1, <2>1, <2>2
<1>3. conn' \in Nat BY <1>1 DEF OwnInv, Types
<1>4. Types' BY <1>1, <1>2, <1>3 DEF OwnInv, Types
<1> QED BY <1>1, <1>4 DEF OwnInv

LEMMA ReadOwn ==
  ASSUME OwnInv, Read
  PROVE  OwnInv'
<1>1. /\ UNCHANGED <<app, events, ctrl, answers, proposals, conf, conn, pending>>
  BY DEF Read, ghosts
<1>2. tcp \in Seq(Msgs) /\ batch \in Seq(Msgs) /\ todo \in Seq(Msgs) BY DEF OwnInv, Types
<1>3. tcp' \in Seq(Msgs) /\ batch' \in Seq(Msgs) /\ todo' \in Seq(Msgs)
  <2>1. CASE UNCHANGED <<tcp, batch>> /\ todo' = <<Plain("disconnected"), Plain("close")>>
    BY <1>2, <2>1, PlainMsgs
  <2>2. ASSUME NEW k \in 1..Len(tcp), batch' = SubSeq(tcp, 1, k),
               tcp' = SubSeq(tcp, k + 1, Len(tcp)), todo' = todo
        PROVE  tcp' \in Seq(Msgs) /\ batch' \in Seq(Msgs) /\ todo' \in Seq(Msgs)
    <3>1. k \in Nat /\ 1 <= k /\ k <= Len(tcp) /\ Len(tcp) \in Nat BY <1>2
    <3>2. SubSeq(tcp, 1, k) \in Seq(Msgs) BY <1>2, <3>1
    <3>3. SubSeq(tcp, k + 1, Len(tcp)) \in Seq(Msgs) BY <1>2, <3>1
    <3> QED BY <2>2, <3>2, <3>3, <1>2
  <2>3. \/ UNCHANGED <<tcp, batch>> /\ todo' = <<Plain("disconnected"), Plain("close")>>
        \/ \E k \in 1..Len(tcp) : /\ batch' = SubSeq(tcp, 1, k)
                                  /\ tcp' = SubSeq(tcp, k + 1, Len(tcp)) /\ todo' = todo
    <3>1. Len(tcp) \in Nat /\ MaxBatch \in Nat BY <1>2, EndpointAssumption
    <3>2. \A k \in 1..MaxBatch : k <= Len(tcp) => k \in 1..Len(tcp) BY <3>1
    <3> QED BY <3>2 DEF Read
  <2> QED BY <2>1, <2>2, <2>3
<1>4. Types' BY <1>1, <1>3 DEF OwnInv, Types
<1> QED BY <1>1, <1>4 DEF OwnInv

(* The todo list of a message. *)
LEMMA TodoOfTypes ==
  ASSUME NEW m \in Msgs
  PROVE  TodoOf(m) \in Seq(Msgs)
<1>1. Plain("accepted") \in Msgs /\ Plain("rejected") \in Msgs /\ Msg("hold", m.n, m.verdict) \in Msgs
  BY PlainMsgs DEF Msgs
<1> QED BY <1>1 DEF TodoOf

LEMMA ReplyTypes ==
  ASSUME Types, NEW n \in Nat, NEW by \in Nat, NEW kind \in {"accept", "reject", "counter"},
         NEW via \in {"auto", "failopen", "resolve", "forward"}
  PROVE  /\ Answer(n, kind, by, via) \in Replies /\ Answer(n, kind, by, via).to = n
         /\ Answer(n, kind, by, via).by = by /\ Answer(n, kind, by, via).via = via
BY DEF Types, Answer, Replies

(* An answer more: the others stay. *)
LEMMA MoreReplies ==
  ASSUME NEW s \in Seq(Replies), NEW r \in Replies
  PROVE  /\ Append(s, r) \in Seq(Replies)
         /\ \A i \in 1..Len(Append(s, r)) :
              \/ i \in 1..Len(s) /\ Append(s, r)[i] = s[i]
              \/ i = Len(s) + 1 /\ Append(s, r)[i] = r
         /\ \A i \in 1..Len(s) : i \in 1..Len(Append(s, r)) /\ Append(s, r)[i] = s[i]
         /\ Len(s) + 1 \in 1..Len(Append(s, r)) /\ Append(s, r)[Len(s) + 1] = r
<1>1. Len(s) \in Nat /\ Len(Append(s, r)) = Len(s) + 1 OBVIOUS
<1>2. \A i \in 1..(Len(s) + 1) : i \in 1..Len(s) \/ i = Len(s) + 1 BY <1>1
<1>3. \A i \in 1..Len(s) : Append(s, r)[i] = s[i] OBVIOUS
<1>4. Append(s, r)[Len(s) + 1] = r OBVIOUS
<1>5. Append(s, r) \in Seq(Replies) OBVIOUS
<1>6. Len(s) + 1 \in 1..(Len(s) + 1) /\ \A i \in 1..Len(s) : i \in 1..(Len(s) + 1) BY <1>1
<1> QED BY <1>1, <1>2, <1>3, <1>4, <1>5, <1>6

LEMMA OneMoreOwn ==
  ASSUME NEW s \in Seq(Replies), NEW r \in Replies, OwnReplies(s), r.via = "resolve" => r.by = r.to
  PROVE  Append(s, r) \in Seq(Replies) /\ OwnReplies(Append(s, r))
<1>1. Append(s, r) \in Seq(Replies) BY MoreReplies
<1>2. ASSUME NEW i \in 1..Len(Append(s, r))
      PROVE  Append(s, r)[i].via = "resolve" => Append(s, r)[i].by = Append(s, r)[i].to
  <2>1. CASE i \in 1..Len(s) /\ Append(s, r)[i] = s[i] BY <2>1 DEF OwnReplies
  <2>2. CASE Append(s, r)[i] = r BY <2>2
  <2> QED BY <1>2, <2>1, <2>2, MoreReplies
<1> QED BY <1>1, <1>2 DEF OwnReplies

LEMMA HandleOwn ==
  ASSUME OwnInv, HandleMessage
  PROVE  OwnInv'
<1> DEFINE m == Head(batch)
           r == Answer(m.n, m.verdict, 0, "auto")
<1>1. /\ UNCHANGED <<app, tcp, events, ctrl, proposals, conf, conn, pending>>
      /\ batch # <<>> /\ todo' = TodoOf(m) /\ batch' = Tail(batch)
      /\ answers' \in {answers, Append(answers, r)}
  BY DEF HandleMessage, network
<1>2. batch \in Seq(Msgs) /\ answers \in Seq(Replies) BY DEF OwnInv, Types
<1>3. m \in Msgs /\ batch' \in Seq(Msgs) BY <1>1, <1>2
<1>4. todo' \in Seq(Msgs) BY <1>1, <1>3, TodoOfTypes
<1>5. r \in Replies /\ r.via = "auto"
  <2>1. m.n \in Nat /\ m.verdict \in {"accept", "reject", "counter"}
    BY <1>3, EndpointAssumption DEF Msgs
  <2> QED BY <2>1, ReplyTypes DEF OwnInv
<1> HIDE DEF m, r
<1>6. answers' \in Seq(Replies) /\ OwnReplies(answers')
  <2>1. CASE answers' = answers BY <1>2, <2>1 DEF OwnInv
  <2>2. CASE answers' = Append(answers, r) BY <1>2, <1>5, <2>2, OneMoreOwn DEF OwnInv
  <2> QED BY <1>1, <2>1, <2>2
<1>7. Types' BY <1>1, <1>3, <1>4, <1>6 DEF OwnInv, Types
<1> QED BY <1>1, <1>6, <1>7 DEF OwnInv

LEMMA TodoOwn ==
  ASSUME OwnInv, SendEvent \/ HoldAccept \/ EndSession \/ BreakSession
  PROVE  OwnInv'
<1>1. /\ UNCHANGED <<app, batch, ctrl, answers, proposals, conf, conn>>
      /\ \/ tcp' = tcp
         \/ tcp' = <<>>
  BY DEF SendEvent, HoldAccept, EndSession, BreakSession, network, ghosts
<1>2. \/ todo' \in {todo, <<>>} /\ events' = events /\ pending' = {}
      \/ todo # <<>> /\ todo' = Tail(todo) /\ events' = Append(events, Head(todo)) /\ pending' = pending
      \/ todo # <<>> /\ todo' = Tail(todo) /\ events' = events /\ pending' = {Head(todo).n}
  BY DEF SendEvent, HoldAccept, EndSession, BreakSession
<1>3. todo \in Seq(Msgs) /\ events \in Seq(Msgs) /\ tcp \in Seq(Msgs) BY DEF OwnInv, Types
<1>4. todo # <<>> => Head(todo) \in Msgs /\ Tail(todo) \in Seq(Msgs) BY <1>3
<1>5. todo # <<>> => Head(todo).n \in Nat BY <1>4 DEF Msgs
<1>e. <<>> \in Seq(Msgs) OBVIOUS
<1>6. todo' \in Seq(Msgs) /\ events' \in Seq(Msgs)
  <2>1. CASE todo' \in {todo, <<>>} /\ events' = events BY <1>3, <1>e, <2>1
  <2>2. CASE todo # <<>> /\ todo' = Tail(todo) /\ events' = Append(events, Head(todo))
    BY <1>3, <1>4, <2>2
  <2>3. CASE todo # <<>> /\ todo' = Tail(todo) /\ events' = events BY <1>3, <1>4, <2>3
  <2> QED BY <1>2, <2>1, <2>2, <2>3
<1>7. pending' \in SUBSET Nat
  <2>1. pending \in SUBSET Nat BY DEF OwnInv, Types
  <2>2. pending' \in {{}, pending} \/ (todo # <<>> /\ pending' = {Head(todo).n}) BY <1>2
  <2> QED BY <1>5, <2>1, <2>2
<1>8. tcp' \in Seq(Msgs) BY <1>1, <1>3, <1>e
<1>9. Types' BY <1>1, <1>6, <1>7, <1>8 DEF OwnInv, Types
<1> QED BY <1>1, <1>9 DEF OwnInv

LEMMA FailOpenOwn ==
  ASSUME OwnInv, FailOpen
  PROVE  OwnInv'
<1>1. PICK n \in pending : answers' = Append(answers, Answer(n, "accept", 0, "failopen"))
  BY DEF FailOpen
<1>2. /\ UNCHANGED <<app, tcp, batch, todo, events, ctrl, proposals, conf, conn>> /\ pending' = {}
  BY DEF FailOpen, network
<1> DEFINE r == Answer(n, "accept", 0, "failopen")
<1>3. answers \in Seq(Replies) /\ n \in Nat BY DEF OwnInv, Types
<1>4. r \in Replies /\ r.via = "failopen" BY <1>3, ReplyTypes DEF OwnInv
<1> HIDE DEF r
<1>5. answers' = Append(answers, r) BY <1>1 DEF r
<1>6. answers' \in Seq(Replies) /\ OwnReplies(answers')
  BY <1>3, <1>4, <1>5, OneMoreOwn DEF OwnInv
<1>7. Types' BY <1>2, <1>6 DEF OwnInv, Types
<1> QED BY <1>2, <1>6, <1>7 DEF OwnInv
(* What the transport does with a message of the application. *)
LEMMA ControlCases ==
  ASSUME OwnInv, ReceiveControl
  PROVE  LET m == Head(ctrl) IN
           /\ ctrl # <<>> /\ m \in Ctrls /\ ctrl' = Tail(ctrl) /\ todo = <<>> /\ batch = <<>>
           /\ UNCHANGED <<app, tcp, batch, todo, events, proposals, conf, conn>>
           /\ m.type \in Confirmations => m.stream = Id(m.by)
           /\ pending' \subseteq pending
           /\ \/ answers' = answers
              \/ \E n \in pending :
                   /\ m.type \in Confirmations /\ m.stream = Id(n) /\ pending' = pending \ Resolves(m)
                   /\ answers' = Append(answers, Answer(n, m.type, m.by, "resolve"))
              \/ /\ m.type \in Confirmations /\ pending = {}
                 /\ answers' = Append(answers, Answer(m.by, m.type, m.by, "forward"))
<1> DEFINE m == Head(ctrl)
<1>1. /\ ctrl # <<>> /\ ctrl' = Tail(ctrl) /\ todo = <<>> /\ batch = <<>> /\ TakeControl(m)
      /\ UNCHANGED <<app, tcp, batch, todo, events, proposals, conf, conn>>
  BY DEF ReceiveControl, Selecting, network
<1>2. ctrl \in Seq(Ctrls) BY DEF OwnInv, Types
<1>3. m \in Ctrls /\ m = ctrl[1] /\ 1 \in 1..Len(ctrl) BY <1>1, <1>2
<1>4. m.type \in Confirmations => m.stream = Id(m.by) BY <1>3 DEF OwnInv
<1> HIDE DEF m
<1>5. CASE m.type = "release" /\ pending' = {} /\ answers' = answers
  BY <1>1, <1>3, <1>4, <1>5 DEF m
<1>6. CASE m.type # "release" /\ pending' = pending \ Resolves(m)
           /\ \E n \in Resolves(m) : answers' = Append(answers, Answer(n, m.type, m.by, "resolve"))
  <2>1. PICK n \in Resolves(m) : answers' = Append(answers, Answer(n, m.type, m.by, "resolve"))
    BY <1>6
  <2>2. n \in pending /\ m.type \in Confirmations /\ m.stream = Id(n)
    BY DEF Resolves, Confirmations
  <2> QED BY <1>1, <1>3, <1>4, <1>6, <2>1, <2>2 DEF m
<1>7. CASE m.type \in Confirmations /\ pending = {} /\ pending' = pending \ Resolves(m)
           /\ answers' = Append(answers, Answer(m.by, m.type, m.by, "forward"))
  BY <1>1, <1>3, <1>4, <1>7 DEF m
<1>8. CASE pending' = pending \ Resolves(m) /\ answers' = answers
  BY <1>1, <1>3, <1>4, <1>8 DEF m
<1> QED BY <1>1, <1>5, <1>6, <1>7, <1>8 DEF TakeControl, Confirmations

LEMMA ControlOwn ==
  ASSUME ~ReuseIds, OwnInv, ReceiveControl
  PROVE  OwnInv'
<1> DEFINE m == Head(ctrl)
<1>1. /\ ctrl # <<>> /\ m \in Ctrls /\ ctrl' = Tail(ctrl)
      /\ UNCHANGED <<app, tcp, batch, todo, events, proposals, conf, conn>>
      /\ m.type \in Confirmations => m.stream = Id(m.by)
      /\ pending' \subseteq pending
  BY ControlCases
<1>2. ctrl \in Seq(Ctrls) /\ answers \in Seq(Replies) /\ pending \in SUBSET Nat
  BY DEF OwnInv, Types
<1>t. Types BY DEF OwnInv
<1>3. ctrl' \in Seq(Ctrls) BY <1>1, <1>2
<1>4. \A i \in 1..Len(ctrl') : ctrl'[i].type \in Confirmations => ctrl'[i].stream = Id(ctrl'[i].by)
  <2>1. Len(ctrl) \in Nat \ {0} /\ Len(ctrl') = Len(ctrl) - 1 BY <1>1, <1>2
  <2>2. \A i \in 1..Len(ctrl') : i + 1 \in 1..Len(ctrl) BY <2>1
  <2>3. \A i \in 1..Len(ctrl') : ctrl'[i] = ctrl[i + 1] BY <1>1, <1>2
  <2> QED BY <2>2, <2>3 DEF OwnInv
<1>5. m.by \in Nat /\ (m.type \in Confirmations => m.type \in {"accept", "reject", "counter"})
  BY <1>1 DEF Ctrls, Confirmations
<1> HIDE DEF m
<1>6. answers' \in Seq(Replies) /\ OwnReplies(answers')
  <2>1. CASE answers' = answers BY <1>2, <2>1 DEF OwnInv
  <2>2. ASSUME NEW n \in pending, m.type \in Confirmations, m.stream = Id(n),
               answers' = Append(answers, Answer(n, m.type, m.by, "resolve"))
        PROVE  answers' \in Seq(Replies) /\ OwnReplies(answers')
    <3> DEFINE r == Answer(n, m.type, m.by, "resolve")
    <3>1. n = m.by BY <1>1, <2>2 DEF Id
    <3>a. n \in Nat /\ m.type \in {"accept", "reject", "counter"} BY <1>2, <1>5, <2>2
    <3>2. r \in Replies /\ r.to = n /\ r.by = m.by BY <1>t, <1>5, <3>a, ReplyTypes
    <3> HIDE DEF r
    <3>3. answers' = Append(answers, r) BY <2>2 DEF r
    <3> QED BY <1>2, <3>1, <3>2, <3>3, OneMoreOwn DEF OwnInv
  <2>3. ASSUME m.type \in Confirmations,
               answers' = Append(answers, Answer(m.by, m.type, m.by, "forward"))
        PROVE  answers' \in Seq(Replies) /\ OwnReplies(answers')
    <3> DEFINE r == Answer(m.by, m.type, m.by, "forward")
    <3>a. m.type \in {"accept", "reject", "counter"} BY <1>5, <2>3
    <3>2. r \in Replies /\ r.to = m.by /\ r.by = m.by BY <1>t, <1>5, <3>a, ReplyTypes
    <3> HIDE DEF r
    <3>3. answers' = Append(answers, r) BY <2>3 DEF r
    <3> QED BY <1>2, <3>2, <3>3, OneMoreOwn DEF OwnInv
  <2> QED BY <2>1, <2>2, <2>3, ControlCases DEF m
<1>p. pending' \in SUBSET Nat BY <1>1, <1>2
<1>7. Types' BY <1>1, <1>t, <1>p, <1>3, <1>6 DEF Types
<1> QED BY <1>1, <1>4, <1>6, <1>7 DEF OwnInv

LEMMA TakeOwn ==
  ASSUME OwnInv, TakeEvent
  PROVE  /\ OwnInv' /\ app.mail = NoMail
         /\ Head(events).type = "propose" => app'.mail.type \in Confirmations
         /\ Head(events).type # "propose" => app'.mail = NoMail
<1> DEFINE e == Head(events)
<1>1. PICK ok \in BOOLEAN : app' = ApplicationHandles(e, ok) BY DEF TakeEvent
<1>2. /\ events # <<>> /\ events' = Tail(events) /\ app.mail = NoMail
      /\ conf' = IF e.type = "propose" THEN e.n ELSE conf
      /\ UNCHANGED <<tcp, batch, todo, ctrl, answers, proposals, conn, pending>>
  BY DEF TakeEvent, Free, session, network, ghosts
<1>3. events \in Seq(Msgs) /\ AppShape(app) /\ conf \in Nat BY DEF OwnInv, Types
<1>4. e \in Msgs /\ events' \in Seq(Msgs) BY <1>2, <1>3
<1> HIDE DEF e
<1>5. /\ AppShape(app')
      /\ e.type = "propose" => app'.mail.type \in Confirmations /\ app'.mail.stream = Id(e.n)
      /\ e.type # "propose" => app'.mail = NoMail
  BY <1>1, <1>2, <1>3, <1>4, HandlesShape
<1>6. conf' \in Nat BY <1>2, <1>3, <1>4 DEF Msgs
<1>7. app'.mail.type \in Confirmations => app'.mail.stream = Id(conf')
  BY <1>2, <1>5, NoMailFields DEF Confirmations
<1>8. Types' BY <1>2, <1>4, <1>5, <1>6 DEF OwnInv, Types
<1> QED BY <1>2, <1>5, <1>7, <1>8 DEF OwnInv, e

LEMMA SendOwn ==
  ASSUME OwnInv, SendControl
  PROVE  OwnInv' /\ app'.mail = NoMail
<1> DEFINE m == [type |-> app.mail.type, stream |-> app.mail.stream, by |-> conf]
<1>1. /\ ctrl' = Append(ctrl, m) /\ app' = [app EXCEPT !.mail = NoMail]
      /\ UNCHANGED <<tcp, batch, todo, events, answers, proposals, conf, conn, pending>>
  BY DEF SendControl, session, network, ghosts
<1>2. AppShape(app) /\ conf \in Nat /\ ctrl \in Seq(Ctrls) BY DEF OwnInv, Types
<1>3. m \in Ctrls /\ m.type = app.mail.type /\ m.stream = app.mail.stream /\ m.by = conf
  BY <1>2 DEF AppShape, Mails, Ctrls
<1>4. app'.mail = NoMail /\ AppShape(app')
  BY <1>1, <1>2, NoMailFields DEF AppShape
<1> HIDE DEF m
<1>5. ctrl' \in Seq(Ctrls) BY <1>1, <1>2, <1>3
<1>6. \A i \in 1..Len(ctrl') : ctrl'[i].type \in Confirmations => ctrl'[i].stream = Id(ctrl'[i].by)
  <2>1. Len(ctrl) \in Nat /\ Len(ctrl') = Len(ctrl) + 1 BY <1>1, <1>2
  <2>2. \A i \in 1..Len(ctrl') : i \in 1..Len(ctrl) \/ i = Len(ctrl) + 1 BY <2>1
  <2>3. \A i \in 1..Len(ctrl) : ctrl'[i] = ctrl[i] BY <1>1, <1>2
  <2>4. ctrl'[Len(ctrl) + 1] = m BY <1>1, <1>2
  <2> QED BY <1>3, <2>2, <2>3, <2>4 DEF OwnInv
<1>7. Types' BY <1>1, <1>4, <1>5 DEF OwnInv, Types
<1> QED BY <1>1, <1>4, <1>6, <1>7, NoMailFields DEF OwnInv, Confirmations

LEMMA HostOwn ==
  ASSUME OwnInv, HostReleases \/ HostTerminates \/ TakeRelease \/ Tick \/ Terminate \/ UNCHANGED vars
  PROVE  /\ OwnInv'
         /\ UNCHANGED <<tcp, batch, todo, events, ctrl, answers, proposals, conf, conn, pending>>
         /\ app'.mail = app.mail \/ app'.mail.type \notin Confirmations
<1>1. UNCHANGED <<tcp, batch, todo, events, ctrl, answers, proposals, conf, conn, pending>>
  BY DEF HostReleases, HostTerminates, TakeRelease, Tick, Terminate, vars, session, network, ghosts
<1>2. AppShape(app) BY DEF OwnInv, Types
<1>3. AppShape(app') /\ (app'.mail = app.mail \/ app'.mail.type \notin Confirmations)
  <2>1. CASE app' = app BY <1>2, <2>1
  <2>2. CASE app' \in {OnRelease(app), OnServoTick(app)} BY <1>2, <2>2, OtherArms
  <2>3. CASE app' = [app EXCEPT !.out = Stopped(@)] BY <1>2, <2>3 DEF AppShape
  <2> QED BY <2>1, <2>2, <2>3 DEF HostReleases, HostTerminates, TakeRelease, Tick, Terminate, vars
<1>4. Types' BY <1>1, <1>3 DEF OwnInv, Types
<1> QED BY <1>1, <1>3, <1>4 DEF OwnInv

LEMMA OwnNext ==
  ASSUME ~ReuseIds, OwnInv, [EndpointNext]_vars
  PROVE  OwnInv'
BY SendsOwn, AcceptsOwn, ReadOwn, HandleOwn, TodoOwn, FailOpenOwn, ControlOwn, TakeOwn, SendOwn,
   HostOwn DEF EndpointNext, Transport

LEMMA SafetyPart == EndpointSpec => EndpointInit /\ [][EndpointNext]_vars
BY PTL DEF EndpointSpec

LEMMA OwnAlways ==
  ASSUME ~ReuseIds
  PROVE  EndpointSpec => []OwnInv
<1>1. OwnInv /\ [EndpointNext]_vars => OwnInv' BY OwnNext
<1> QED BY <1>1, OwnInit, SafetyPart, PTL

(* A confirmation that ends a negotiation was made for that very proposal,   *)
(* whatever confirmations of earlier proposals and sessions the control      *)
(* channel still holds (resolves_pending): provided every proposal has a     *)
(* stream id of its own.                                                     *)
THEOREM ConfirmedByItsOwn ==
  ASSUME ~ReuseIds
  PROVE  EndpointSpec => []AcceptMeansReady
<1>1. OwnInv => AcceptMeansReady
  <2> SUFFICES ASSUME OwnInv, NEW i \in DOMAIN answers, answers[i].via = "resolve"
               PROVE  answers[i].by = answers[i].to
    BY DEF AcceptMeansReady, Resolved
  <2>1. DOMAIN answers = 1..Len(answers) BY DEF OwnInv, Types
  <2> QED BY <2>1 DEF OwnInv, OwnReplies
<1> QED BY <1>1, OwnAlways, PTL

-----------------------------------------------------------------------------
(* The two lines a proposal stands in. *)

AsMsg(m) ==
  [type |-> IF m.type \in Confirmations THEN "propose" ELSE "close", n |-> m.by, verdict |-> "accept"]
AsMsgs(c) == [i \in 1..Len(c) |-> AsMsg(c[i])]

Spoken(s) == {n \in Nat : \E i \in 1..Len(s) : s[i].to = n /\ s[i].via # "failopen"}
Opened(s) == {n \in Nat : \E i \in 1..Len(s) : s[i].to = n /\ s[i].via = "failopen"}
Once(s) ==
  \A i, j \in 1..Len(s) :
    i < j /\ s[i].to = s[j].to => s[i].via = "failopen" /\ s[j].via # "failopen"
Confirmed == Nums(AsMsgs(ctrl), "propose")
Mailed == IF app.mail.type \in Confirmations THEN {conf} ELSE {}
Announced == Nums(events, "propose")
Announcing == Nums(todo, "propose")
Holding == Nums(todo, "hold")
Decoded == Nums(batch, "propose")
Unread == Nums(tcp, "propose")
Unsent == {proposals + 1}

Line(a, c, m, e, t, b, w, u) ==
  /\ Before(a, c \cup m \cup e \cup t \cup b \cup w \cup u)
  /\ Before(c, m \cup e \cup t \cup b \cup w \cup u)
  /\ Before(m, e \cup t \cup b \cup w \cup u)
  /\ Before(e, t \cup b \cup w \cup u)
  /\ Before(t, b \cup w \cup u)
  /\ Before(b, w \cup u) /\ Before(w, u)

Hold(f, p, h, b, w, u) ==
  /\ Before(f, p \cup h \cup b \cup w \cup u)
  /\ Before(p, h \cup b \cup w \cup u)
  /\ Before(h, b \cup w \cup u)

(***************************************************************************)
(* Every proposal is at one place of each line, and the places are in the  *)
(* order of the numbers: read, decoded, announced to the application,      *)
(* confirmed, answered; and read, decoded, held, answered by the           *)
(* fail-open.  One that was answered by a confirmation is not held any     *)
(* more.                                                                   *)
(***************************************************************************)
LineInv ==
  /\ Rising(AsMsgs(ctrl), "propose") /\ Rising(events, "propose") /\ Rising(todo, "propose")
  /\ Rising(todo, "hold") /\ Rising(batch, "propose") /\ Rising(tcp, "propose")
  /\ Line(Spoken(answers), Confirmed, Mailed, Announced, Announcing, Decoded, Unread, Unsent)
  /\ Hold(Opened(answers), pending, Holding, Decoded, Unread, Unsent)
  /\ Spoken(answers) \cap (pending \cup Holding) = {}
  /\ \A x, y \in pending : x = y
  /\ Nums(tcp, "hold") = {} /\ Nums(batch, "hold") = {}
  /\ Once(answers)

LEMMA SameSeq ==
  ASSUME NEW S, NEW s \in Seq(S), NEW t \in Seq(S), NEW k \in Nat, Len(s) = k, Len(t) = k,
         \A i \in 1..k : s[i] = t[i]
  PROVE  s = t
<1>1. s \in [1..k -> S] /\ t \in [1..k -> S] OBVIOUS
<1> QED BY <1>1

(* The control channel as a queue of numbers. *)
LEMMA AsMsgsTypes ==
  ASSUME NEW c \in Seq(Ctrls)
  PROVE  /\ AsMsgs(c) \in Seq(Msgs)
         /\ \A m \in Ctrls : AsMsg(m) \in Msgs /\ AsMsgs(Append(c, m)) = Append(AsMsgs(c), AsMsg(m))
         /\ c # <<>> => /\ AsMsgs(c) # <<>> /\ Head(AsMsgs(c)) = AsMsg(Head(c))
                        /\ AsMsgs(Tail(c)) = Tail(AsMsgs(c))
<1>1. \A m \in Ctrls : AsMsg(m) \in Msgs BY DEF Ctrls, AsMsg, Msgs
<1>0. ASSUME NEW d \in Seq(Ctrls)
      PROVE  /\ AsMsgs(d) \in Seq(Msgs) /\ Len(AsMsgs(d)) = Len(d)
             /\ \A i \in 1..Len(d) : AsMsgs(d)[i] = AsMsg(d[i])
  <2>1. \A i \in 1..Len(d) : AsMsg(d[i]) \in Msgs BY <1>1
  <2>2. Len(d) \in Nat OBVIOUS
  <2> QED BY <2>1, <2>2 DEF AsMsgs
<1>2. /\ AsMsgs(c) \in Seq(Msgs) /\ Len(AsMsgs(c)) = Len(c)
      /\ \A i \in 1..Len(c) : AsMsgs(c)[i] = AsMsg(c[i])
  BY <1>0
<1>3. ASSUME NEW m \in Ctrls
      PROVE  AsMsgs(Append(c, m)) = Append(AsMsgs(c), AsMsg(m))
  <2> DEFINE d == Append(c, m)
  <2>1. Len(d) = Len(c) + 1 /\ d[Len(c) + 1] = m /\ Len(c) \in Nat OBVIOUS
  <2>2. \A i \in 1..Len(c) : d[i] = c[i] OBVIOUS
  <2> HIDE DEF d
  <2>3. d \in Seq(Ctrls) BY DEF d
  <2>4. /\ AsMsgs(d) \in Seq(Msgs) /\ Len(AsMsgs(d)) = Len(d)
        /\ \A i \in 1..Len(d) : AsMsgs(d)[i] = AsMsg(d[i])
    BY <2>3, <1>0
  <2> DEFINE x == AsMsgs(c)
             y == AsMsg(m)
  <2>5. x \in Seq(Msgs) /\ Len(x) = Len(c) /\ y \in Msgs /\ \A i \in 1..Len(c) : x[i] = AsMsg(c[i])
    BY <1>1, <1>2
  <2> HIDE DEF x
  <2>6. /\ Append(x, y) \in Seq(Msgs) /\ Len(Append(x, y)) = Len(c) + 1
        /\ \A i \in 1..Len(c) : Append(x, y)[i] = x[i]
        /\ Append(x, y)[Len(c) + 1] = y
    <3> HIDE DEF y
    <3> QED BY <2>5
  <2>7. \A i \in 1..(Len(c) + 1) : i \in 1..Len(c) \/ i = Len(c) + 1 BY <2>1
  <2>8. \A i \in 1..(Len(c) + 1) : AsMsgs(d)[i] = Append(x, y)[i]
    BY <2>1, <2>2, <2>4, <2>5, <2>6, <2>7
  <2> HIDE DEF y
  <2>9. AsMsgs(d) = Append(x, y) BY <2>1, <2>4, <2>6, <2>8, SameSeq
  <2> QED BY <2>9 DEF d, x, y
<1>4. ASSUME c # <<>>
      PROVE  /\ AsMsgs(c) # <<>> /\ Head(AsMsgs(c)) = AsMsg(Head(c))
             /\ AsMsgs(Tail(c)) = Tail(AsMsgs(c))
  <2> DEFINE x == AsMsgs(c)
             d == Tail(c)
  <2>1. Len(c) \in Nat \ {0} /\ Len(d) = Len(c) - 1 /\ Head(c) = c[1] BY <1>4
  <2>2. \A i \in 1..(Len(c) - 1) : d[i] = c[i + 1] BY <1>4
  <2>3. 1 \in 1..Len(c) /\ \A i \in 1..(Len(c) - 1) : i + 1 \in 1..Len(c) BY <2>1
  <2>4. x \in Seq(Msgs) /\ Len(x) = Len(c) /\ \A i \in 1..Len(c) : x[i] = AsMsg(c[i]) BY <1>2
  <2>5. /\ AsMsgs(d) \in Seq(Msgs) /\ Len(AsMsgs(d)) = Len(d)
        /\ \A i \in 1..Len(d) : AsMsgs(d)[i] = AsMsg(d[i])
    <3>1. d \in Seq(Ctrls) BY <1>4
    <3> QED BY <3>1, <1>0
  <2> HIDE DEF x, d
  <2>6. x # <<>> /\ Head(x) = x[1] BY <2>1, <2>4
  <2>7. /\ Tail(x) \in Seq(Msgs) /\ Len(Tail(x)) = Len(c) - 1
        /\ \A i \in 1..(Len(c) - 1) : Tail(x)[i] = x[i + 1]
    BY <2>1, <2>4, <2>6
  <2>8. \A i \in 1..(Len(c) - 1) : AsMsgs(d)[i] = Tail(x)[i] BY <2>1, <2>2, <2>3, <2>4, <2>5, <2>7
  <2>9. AsMsgs(d) = Tail(x) BY <2>1, <2>5, <2>7, <2>8, SameSeq
  <2> QED BY <2>1, <2>3, <2>4, <2>6, <2>9 DEF x, d
<1> QED BY <1>1, <1>2, <1>3, <1>4

(* One answer more. *)
LEMMA SpokenMore ==
  ASSUME NEW s \in Seq(Replies), NEW r \in Replies
  PROVE  /\ r.via # "failopen" => /\ Spoken(Append(s, r)) = Spoken(s) \cup {r.to}
                                  /\ Opened(Append(s, r)) = Opened(s)
         /\ r.via = "failopen" => /\ Spoken(Append(s, r)) = Spoken(s)
                                  /\ Opened(Append(s, r)) = Opened(s) \cup {r.to}
<1> DEFINE q == Append(s, r)
<1>1. /\ \A i \in 1..Len(q) : (i \in 1..Len(s) /\ q[i] = s[i]) \/ (i = Len(s) + 1 /\ q[i] = r)
      /\ \A i \in 1..Len(s) : i \in 1..Len(q) /\ q[i] = s[i]
      /\ Len(s) + 1 \in 1..Len(q) /\ q[Len(s) + 1] = r
  BY MoreReplies
<1>2. r.to \in Nat BY DEF Replies
<1> HIDE DEF q
<1>3. ASSUME NEW n \in Nat
      PROVE  /\ n \in Spoken(q) <=> n \in Spoken(s) \/ (n = r.to /\ r.via # "failopen")
             /\ n \in Opened(q) <=> n \in Opened(s) \/ (n = r.to /\ r.via = "failopen")
  BY <1>1 DEF Spoken, Opened
<1>4. Spoken(q) \subseteq Nat /\ Spoken(s) \subseteq Nat /\ Opened(q) \subseteq Nat /\ Opened(s) \subseteq Nat
  BY DEF Spoken, Opened
<1> QED BY <1>2, <1>3, <1>4 DEF q

LEMMA OnceMore ==
  ASSUME NEW s \in Seq(Replies), NEW r \in Replies, Once(s), r.to \notin Spoken(s),
         r.via = "failopen" => r.to \notin Opened(s)
  PROVE  Once(Append(s, r))
<1> DEFINE q == Append(s, r)
<1>1. /\ \A i \in 1..Len(q) : (i \in 1..Len(s) /\ q[i] = s[i]) \/ (i = Len(s) + 1 /\ q[i] = r)
  BY MoreReplies
<1>2. r.to \in Nat BY DEF Replies
<1> HIDE DEF q
<1>3. ASSUME NEW i \in 1..Len(q), NEW j \in 1..Len(q), i < j, q[i].to = q[j].to
      PROVE  q[i].via = "failopen" /\ q[j].via # "failopen"
  <2>1. i \in 1..Len(s) /\ q[i] = s[i]
    <3>1. ~(i = Len(s) + 1)
      <4>1. Len(s) \in Nat /\ Len(q) = Len(s) + 1 BY DEF q
      <4> QED BY <4>1, <1>3
    <3> QED BY <1>1, <3>1
  <2>2. CASE j \in 1..Len(s) /\ q[j] = s[j] BY <1>3, <2>1, <2>2 DEF Once
  <2>3. CASE q[j] = r
    <3>1. s[i].to = r.to BY <1>3, <2>1, <2>3
    <3>2. s[i].via = "failopen" BY <1>2, <2>1, <3>1 DEF Spoken
    <3>3. r.to \in Opened(s) BY <1>2, <2>1, <3>1, <3>2 DEF Opened
    <3> QED BY <2>1, <2>3, <3>2, <3>3
  <2> QED BY <1>1, <2>2, <2>3
<1> QED BY <1>3 DEF Once, q

LEMMA NoNums ==
  ASSUME NEW s \in Seq(Msgs), NEW t, Nums(s, t) = {}
  PROVE  Rising(s, t) /\ \A i \in 1..Len(s) : s[i].type # t
<1>1. ASSUME NEW i \in 1..Len(s), s[i].type = t PROVE FALSE
  <2>1. s[i] \in Msgs OBVIOUS
  <2>2. s[i].n \in Nat BY <2>1 DEF Msgs
  <2> QED BY <1>1, <2>2 DEF Nums
<1> QED BY <1>1 DEF Rising

-----------------------------------------------------------------------------
(* What the moves do to the lines. *)

LEMMA LineAntitone ==
  ASSUME NEW a, NEW c, NEW m, NEW e, NEW t, NEW b, NEW w, NEW u, Line(a, c, m, e, t, b, w, u),
         NEW c2 \in SUBSET c, NEW m2 \in SUBSET m, NEW e2 \in SUBSET e, NEW t2 \in SUBSET t,
         NEW b2 \in SUBSET b, NEW w2 \in SUBSET w
  PROVE  Line(a, c2, m2, e2, t2, b2, w2, u)
BY DEF Line, Before

LEMMA HoldAntitone ==
  ASSUME NEW f, NEW p, NEW h, NEW b, NEW w, NEW u, Hold(f, p, h, b, w, u),
         NEW p2 \in SUBSET p, NEW h2 \in SUBSET h, NEW b2 \in SUBSET b, NEW w2 \in SUBSET w
  PROVE  Hold(f, p2, h2, b2, w2, u)
BY DEF Hold, Before

LEMMA LineMoves ==
  ASSUME NEW a, NEW c, NEW m, NEW e, NEW t, NEW b, NEW w, NEW u, Line(a, c, m, e, t, b, w, u),
         NEW x
  PROVE  /\ x \in c /\ Before({x}, c \ {x}) => Line(a \cup {x}, c \ {x}, m, e, t, b, w, u)
         /\ m = {x} => Line(a, c \cup {x}, {}, e, t, b, w, u)
         /\ x \in e /\ Before({x}, e \ {x}) /\ m = {} => Line(a, c, {x}, e \ {x}, t, b, w, u)
         /\ x \in t /\ Before({x}, t \ {x}) => Line(a, c, m, e \cup {x}, t \ {x}, b, w, u)
         /\ x \in b /\ Before({x}, b \ {x}) /\ t = {} => Line(a, c, m, e, {x}, b \ {x}, w, u)
<1>1. x \in c /\ Before({x}, c \ {x}) => Line(a \cup {x}, c \ {x}, m, e, t, b, w, u)
  BY DEF Line, Before
<1>2. m = {x} => Line(a, c \cup {x}, {}, e, t, b, w, u)
  BY DEF Line, Before
<1>3. x \in e /\ Before({x}, e \ {x}) /\ m = {} => Line(a, c, {x}, e \ {x}, t, b, w, u)
  BY DEF Line, Before
<1>4. x \in t /\ Before({x}, t \ {x}) => Line(a, c, m, e \cup {x}, t \ {x}, b, w, u)
  BY DEF Line, Before
<1>5. x \in b /\ Before({x}, b \ {x}) /\ t = {} => Line(a, c, m, e, {x}, b \ {x}, w, u)
  BY DEF Line, Before
<1> QED BY <1>1, <1>2, <1>3, <1>4, <1>5

LEMMA HoldMoves ==
  ASSUME NEW f, NEW p, NEW h, NEW b, NEW w, NEW u, Hold(f, p, h, b, w, u), NEW x
  PROVE  /\ p = {x} => Hold(f \cup {x}, {}, h, b, w, u)
         /\ x \in h /\ Before({x}, h \ {x}) => Hold(f, {x}, h \ {x}, b, w, u)
         /\ x \in b /\ Before({x}, b \ {x}) /\ Before(b, w \cup u) /\ h = {} =>
              Hold(f, p, {x}, b \ {x}, w, u)
<1>1. p = {x} => Hold(f \cup {x}, {}, h, b, w, u)
  BY DEF Hold, Before
<1>2. x \in h /\ Before({x}, h \ {x}) => Hold(f, {x}, h \ {x}, b, w, u)
  BY DEF Hold, Before
<1>3. x \in b /\ Before({x}, b \ {x}) /\ Before(b, w \cup u) /\ h = {} =>
        Hold(f, p, {x}, b \ {x}, w, u)
  BY DEF Hold, Before
<1> QED BY <1>1, <1>2, <1>3
(* A number more is on the way: it is after all the others. *)
LEMMA LineSent ==
  ASSUME NEW a \in SUBSET Nat, NEW c \in SUBSET Nat, NEW m \in SUBSET Nat, NEW e \in SUBSET Nat,
         NEW t \in SUBSET Nat, NEW b \in SUBSET Nat, NEW w \in SUBSET Nat, NEW x \in Nat,
         NEW f \in SUBSET Nat, NEW p \in SUBSET Nat, NEW h \in SUBSET Nat,
         Line(a, c, m, e, t, b, w, {x}), Hold(f, p, h, b, w, {x})
  PROVE  Line(a, c, m, e, t, b, w \cup {x}, {x + 1}) /\ Hold(f, p, h, b, w \cup {x}, {x + 1})
<1>1. \A y \in Nat : y < x => y < x + 1 OBVIOUS
<1>2. x < x + 1 OBVIOUS
<1> DEFINE z == x + 1
<1>3. \A y \in Nat : y < x => y < z BY <1>1
<1>4. x < z BY <1>2
<1> HIDE DEF z
<1>5. Line(a, c, m, e, t, b, w \cup {x}, {z}) BY <1>3, <1>4 DEF Line, Before
<1>6. Hold(f, p, h, b, w \cup {x}, {z}) BY <1>3, <1>4 DEF Hold, Before
<1> QED BY <1>5, <1>6 DEF z

LEMMA NumsNat == \A s, t : Nums(s, t) \in SUBSET Nat /\ Spoken(s) \in SUBSET Nat /\ Opened(s) \in SUBSET Nat
BY DEF Nums, Spoken, Opened

LEMMA NumsOther ==
  ASSUME NEW s \in Seq(Msgs), NEW m \in Msgs, NEW t, Rising(s, t), m.type # t
  PROVE  Rising(Append(s, m), t) /\ Nums(Append(s, m), t) = Nums(s, t)
<1>1. /\ Rising(Append(s, m), t)
      /\ Nums(Append(s, m), t) = Nums(s, t) \cup (IF m.type = t THEN {m.n} ELSE {})
  BY NumsAppend, Zenon
<1> QED BY <1>1

LEMMA NumsSame ==
  ASSUME NEW s \in Seq(Msgs), NEW m \in Msgs, NEW t, Rising(s, t), m.type = t,
         Before(Nums(s, t), {m.n})
  PROVE  Rising(Append(s, m), t) /\ Nums(Append(s, m), t) = Nums(s, t) \cup {m.n}
<1>1. /\ Rising(Append(s, m), t)
      /\ Nums(Append(s, m), t) = Nums(s, t) \cup (IF m.type = t THEN {m.n} ELSE {})
  BY NumsAppend, Zenon
<1> QED BY <1>1

LEMMA LineInit == EndpointInit => LineInv
<1> SUFFICES ASSUME EndpointInit PROVE LineInv OBVIOUS
<1>1. PICK kind \in Kinds : app = NewApp(kind) BY DEF EndpointInit
<1>2. app.mail.type \notin Confirmations
  BY <1>1, NewAppShape, NoMailFields DEF Confirmations
<1>3. /\ tcp = <<>> /\ batch = <<>> /\ todo = <<>> /\ events = <<>> /\ ctrl = <<>>
      /\ answers = <<>> /\ proposals = 0 /\ conf = 0 /\ conn = 0 /\ pending = {}
  BY DEF EndpointInit
<1>4. Nums(AsMsgs(<<>>), "propose") = {} /\ Rising(AsMsgs(<<>>), "propose")
  BY DEF AsMsgs, Nums, Rising
<1>5. Spoken(<<>>) = {} /\ Opened(<<>>) = {} /\ Once(<<>>) BY DEF Spoken, Opened, Once
<1>6. /\ Confirmed = {} /\ Mailed = {} /\ Announced = {} /\ Announcing = {} /\ Holding = {}
      /\ Decoded = {} /\ Unread = {} /\ Spoken(answers) = {} /\ Opened(answers) = {}
  BY <1>2, <1>3, <1>4, <1>5, NumsEmpty
     DEF Confirmed, Mailed, Announced, Announcing, Holding, Decoded, Unread
<1>7. Line({}, {}, {}, {}, {}, {}, {}, Unsent) /\ Hold({}, {}, {}, {}, {}, Unsent)
  BY DEF Line, Hold, Before
<1> QED BY <1>3, <1>4, <1>5, <1>6, <1>7, NumsEmpty DEF LineInv

LEMMA ProposesLine ==
  ASSUME OwnInv, LineInv, ControllerProposes
  PROVE  LineInv'
<1>1. PICK v \in Verdicts : tcp' = Append(tcp, Msg("propose", proposals + 1, v))
  BY DEF ControllerProposes, Sends
<1>2. /\ UNCHANGED <<app, batch, todo, events, ctrl, answers, conf, conn, pending>>
      /\ proposals' = proposals + 1
  BY DEF ControllerProposes, session, ghosts
<1>3. tcp \in Seq(Msgs) /\ proposals \in Nat /\ conf \in Nat /\ pending \in SUBSET Nat
  BY Zenon DEF OwnInv, Types
<1> DEFINE m == Msg("propose", proposals + 1, v)
           x == proposals + 1
<1>4. x \in Nat /\ m \in Msgs /\ m.type = "propose" /\ m.n = x BY <1>3, PlainMsgs
<1> HIDE DEF m, x
<1>5. tcp' = Append(tcp, m) /\ Unsent = {x} /\ Unsent' = {x + 1}
  BY <1>1, <1>2 DEF m, x, Unsent
<1>6. Rising(tcp, "propose") /\ Before(Unread, {x}) BY <1>5 DEF LineInv, Line
<1>7. Rising(tcp', "propose") /\ Unread' = Unread \cup {x}
  <2>1. Before(Nums(tcp, "propose"), {m.n}) BY <1>4, <1>6 DEF Unread
  <2> QED BY <1>3, <1>4, <1>5, <1>6, <2>1, NumsSame DEF Unread
<1>8. Nums(tcp', "hold") = {}
  <2>1. Nums(tcp, "hold") = {} BY Zenon DEF LineInv
  <2>2. Rising(tcp, "hold") BY <1>3, <2>1, NoNums
  <2> QED BY <1>3, <1>4, <1>5, <2>1, <2>2, NumsOther
<1>9. Line(Spoken(answers), Confirmed, Mailed, Announced, Announcing, Decoded, Unread \cup {x}, {x + 1})
      /\ Hold(Opened(answers), pending, Holding, Decoded, Unread \cup {x}, {x + 1})
  <2>1. Mailed \in SUBSET Nat BY <1>3 DEF Mailed
  <2>2. /\ Confirmed \in SUBSET Nat /\ Announced \in SUBSET Nat /\ Announcing \in SUBSET Nat
        /\ Decoded \in SUBSET Nat /\ Unread \in SUBSET Nat /\ Holding \in SUBSET Nat
        /\ Spoken(answers) \in SUBSET Nat /\ Opened(answers) \in SUBSET Nat
    BY NumsNat DEF Confirmed, Announced, Announcing, Decoded, Unread, Holding
  <2>3. Line(Spoken(answers), Confirmed, Mailed, Announced, Announcing, Decoded, Unread, {x})
        /\ Hold(Opened(answers), pending, Holding, Decoded, Unread, {x})
    BY <1>5, Zenon DEF LineInv
  <2> QED BY <1>3, <1>4, <2>1, <2>2, <2>3, LineSent
<1>10. /\ Confirmed' = Confirmed /\ Mailed' = Mailed /\ Announced' = Announced
       /\ Announcing' = Announcing /\ Decoded' = Decoded /\ Holding' = Holding
  BY <1>2, Zenon DEF Confirmed, Mailed, Announced, Announcing, Decoded, Holding
<1> QED BY <1>2, <1>5, <1>7, <1>8, <1>9, <1>10, Zenon DEF LineInv

LEMMA CommandsLine ==
  ASSUME OwnInv, LineInv, ControllerCommands \/ ControllerCloses
  PROVE  LineInv'
<1>1. /\ UNCHANGED <<app, batch, todo, events, ctrl, answers, conf, conn, pending, proposals>>
  BY DEF ControllerCommands, ControllerCloses, session, ghosts
<1>2. PICK m \in Msgs : tcp' = Append(tcp, m) /\ m.type \notin {"propose", "hold"}
  <2>1. CASE ControllerCommands
    <3>1. PICK c \in Commands : tcp' = Append(tcp, Plain(c)) BY <2>1 DEF ControllerCommands, Sends
    <3>2. c \in {"play", "stop", "reformat"} BY EndpointAssumption
    <3>3. Plain(c) \in Msgs /\ Plain(c).type = c BY <3>2, PlainMsgs
    <3> QED BY <3>1, <3>2, <3>3
  <2>2. CASE ControllerCloses
    <3>1. tcp' = Append(tcp, Plain("eof")) BY <2>2 DEF ControllerCloses, Sends
    <3> QED BY <3>1, PlainMsgs
  <2> QED BY <2>1, <2>2
<1>3. tcp \in Seq(Msgs) BY Zenon DEF OwnInv, Types
<1>4. Rising(tcp', "propose") /\ Unread' = Unread
  <2>1. Rising(tcp, "propose") BY Zenon DEF LineInv
  <2> QED BY <1>2, <1>3, <2>1, NumsOther DEF Unread
<1>5. Nums(tcp', "hold") = {}
  <2>1. Nums(tcp, "hold") = {} BY Zenon DEF LineInv
  <2>2. Rising(tcp, "hold") BY <1>3, <2>1, NoNums
  <2> QED BY <1>2, <1>3, <2>1, <2>2, NumsOther
<1>6. /\ Confirmed' = Confirmed /\ Mailed' = Mailed /\ Announced' = Announced
      /\ Announcing' = Announcing /\ Decoded' = Decoded /\ Holding' = Holding /\ Unsent' = Unsent
  BY <1>1, Zenon DEF Confirmed, Mailed, Announced, Announcing, Decoded, Holding, Unsent
<1> QED BY <1>1, <1>4, <1>5, <1>6, Zenon DEF LineInv

(* A handful of messages without a number. *)
LEMMA NumsPlain ==
  ASSUME NEW s, NEW t \in {"propose", "hold"},
         s \in {<<>>, <<Plain("connected")>>, <<Plain("eof")>>, <<Plain("disconnected"), Plain("close")>>}
  PROVE  Nums(s, t) = {} /\ Rising(s, t)
<1>1. \A i \in 1..Len(s) : s[i].type # t
  <2>1. CASE s = <<>> BY <2>1
  <2>2. CASE s = <<Plain("connected")>> BY <2>2, PlainMsgs
  <2>3. CASE s = <<Plain("eof")>> BY <2>3, PlainMsgs
  <2>4. CASE s = <<Plain("disconnected"), Plain("close")>>
    <3>1. Len(s) = 2 /\ s[1] = Plain("disconnected") /\ s[2] = Plain("close") BY <2>4
    <3>2. \A i \in 1..2 : i = 1 \/ i = 2 OBVIOUS
    <3> QED BY <3>1, <3>2, PlainMsgs
  <2> QED BY <2>1, <2>2, <2>3, <2>4
<1> QED BY <1>1 DEF Nums, Rising

LEMMA AcceptsLine ==
  ASSUME OwnInv, LineInv, AcceptSession \/ AcceptAborted
  PROVE  LineInv'
<1>1. /\ UNCHANGED <<app, batch, events, ctrl, answers, proposals, conf, pending>>
      /\ \/ todo' = <<Plain("connected")>> /\ tcp' = <<>>
         \/ todo' = <<Plain("disconnected"), Plain("close")>> /\ tcp' = <<Plain("eof")>>
  BY DEF AcceptSession, AcceptAborted, ghosts
<1>2. \A t \in {"propose", "hold"} : /\ Nums(todo', t) = {} /\ Rising(todo', t)
                                      /\ Nums(tcp', t) = {} /\ Rising(tcp', t)
  BY <1>1, NumsPlain
<1>3. Announcing' = {} /\ Holding' = {} /\ Unread' = {} BY <1>2 DEF Announcing, Holding, Unread
<1>4. /\ Confirmed' = Confirmed /\ Mailed' = Mailed /\ Announced' = Announced
      /\ Decoded' = Decoded /\ Unsent' = Unsent
  BY <1>1, Zenon DEF Confirmed, Mailed, Announced, Decoded, Unsent
<1>5. Line(Spoken(answers), Confirmed, Mailed, Announced, {}, Decoded, {}, Unsent)
  BY LineAntitone DEF LineInv
<1>6. Hold(Opened(answers), pending, {}, Decoded, {}, Unsent)
  BY HoldAntitone DEF LineInv
<1> QED BY <1>1, <1>2, <1>3, <1>4, <1>5, <1>6, Zenon DEF LineInv
LEMMA ReadLine ==
  ASSUME OwnInv, LineInv, Read
  PROVE  LineInv'
<1>1. /\ UNCHANGED <<app, events, ctrl, answers, proposals, conf, pending>>
      /\ batch = <<>> /\ todo = <<>>
  BY DEF Read, ghosts, Selecting
<1>2. tcp \in Seq(Msgs) BY Zenon DEF OwnInv, Types
<1>3. /\ Confirmed' = Confirmed /\ Mailed' = Mailed /\ Announced' = Announced /\ Unsent' = Unsent
  BY <1>1, Zenon DEF Confirmed, Mailed, Announced, Unsent
<1>4. CASE UNCHANGED <<tcp, batch>> /\ todo' = <<Plain("disconnected"), Plain("close")>>
  <2>1. Announcing' = {} /\ Holding' = {} /\ Rising(todo', "propose") /\ Rising(todo', "hold")
    BY <1>4, NumsPlain DEF Announcing, Holding
  <2>2. Announcing = {} /\ Holding = {} BY <1>1, NumsEmpty DEF Announcing, Holding
  <2>3. Unread' = Unread /\ Decoded' = Decoded BY <1>4, Zenon DEF Unread, Decoded
  <2> QED BY <1>1, <1>3, <1>4, <2>1, <2>2, <2>3, Zenon DEF LineInv
<1>5. ASSUME NEW k \in 1..Len(tcp), batch' = SubSeq(tcp, 1, k),
             tcp' = SubSeq(tcp, k + 1, Len(tcp)), todo' = todo
      PROVE  LineInv'
  <2>1. Rising(tcp, "propose") /\ Rising(tcp, "hold") /\ Nums(tcp, "hold") = {}
    BY <1>2, NoNums DEF LineInv
  <2>2. /\ Rising(batch', "propose") /\ Rising(tcp', "propose")
        /\ Decoded' \subseteq Unread /\ Unread' \subseteq Unread /\ Before(Decoded', Unread')
    BY <1>2, <1>5, <2>1, NumsSplit DEF Decoded, Unread
  <2>3. Nums(batch', "hold") = {} /\ Nums(tcp', "hold") = {}
    BY <1>2, <1>5, <2>1, NumsSplit
  <2>4. Announcing' = Announcing /\ Holding' = Holding BY <1>5, Zenon DEF Announcing, Holding
  <2>5. Line(Spoken(answers), Confirmed, Mailed, Announced, Announcing, Decoded', Unread', Unsent)
    BY <2>2 DEF LineInv, Line, Before
  <2>6. Hold(Opened(answers), pending, Holding, Decoded', Unread', Unsent)
    BY <2>2 DEF LineInv, Hold, Before
  <2> QED BY <1>1, <1>3, <1>5, <2>2, <2>3, <2>4, <2>5, <2>6, Zenon DEF LineInv
<1>6. \/ UNCHANGED <<tcp, batch>> /\ todo' = <<Plain("disconnected"), Plain("close")>>
      \/ \E k \in 1..Len(tcp) : /\ batch' = SubSeq(tcp, 1, k)
                                /\ tcp' = SubSeq(tcp, k + 1, Len(tcp)) /\ todo' = todo
  <2>1. Len(tcp) \in Nat /\ MaxBatch \in Nat BY <1>2, EndpointAssumption
  <2>2. \A k \in 1..MaxBatch : k <= Len(tcp) => k \in 1..Len(tcp) BY <2>1
  <2> QED BY <2>2 DEF Read
<1> QED BY <1>4, <1>5, <1>6

(* What a decoded message puts in the handler's list. *)
LEMMA TodoLine ==
  ASSUME Verdicts \subseteq {"accept"}, NEW m \in Msgs, m.type # "hold"
  PROVE  LET s == TodoOf(m) IN
           /\ Rising(s, "propose") /\ Rising(s, "hold")
           /\ m.type = "propose" => Nums(s, "propose") = {m.n} /\ Nums(s, "hold") = {m.n}
           /\ m.type # "propose" => Nums(s, "propose") = {} /\ Nums(s, "hold") = {}
<1>1. m.n \in Nat /\ m.verdict = "accept" BY DEF Msgs
<1>2. CASE m.type = "propose"
  <2> DEFINE h == Msg("hold", m.n, m.verdict)
             s == TodoOf(m)
  <2>1. h.type = "hold" /\ h.n = m.n BY DEF Msg
  <2>2. Plain("accepted").type = "accepted" BY PlainMsgs
  <2>3. s = <<Plain("accepted"), m, h>> BY <1>1, <1>2 DEF TodoOf
  <2> HIDE DEF h, s
  <2>4. Len(s) = 3 /\ s[1] = Plain("accepted") /\ s[2] = m /\ s[3] = h BY <2>3
  <2>5. \A i \in 1..3 : i = 1 \/ i = 2 \/ i = 3 OBVIOUS
  <2>6. \A i \in 1..Len(s) : /\ s[i].type = "propose" <=> i = 2
                             /\ s[i].type = "hold" <=> i = 3
    BY <1>2, <2>1, <2>2, <2>4, <2>5
  <2>7. Rising(s, "propose") /\ Rising(s, "hold") BY <2>6 DEF Rising
  <2>8. Nums(s, "propose") = {m.n} /\ Nums(s, "hold") = {m.n}
    BY <1>1, <2>1, <2>4, <2>6 DEF Nums
  <2> QED BY <1>2, <2>7, <2>8 DEF s
<1>3. CASE m.type # "propose"
  <2> DEFINE s == TodoOf(m)
  <2>1. s = <<m>> BY <1>3 DEF TodoOf
  <2> HIDE DEF s
  <2>2. \A i \in 1..Len(s) : s[i] = m BY <2>1
  <2>3. Rising(s, "propose") /\ Rising(s, "hold") /\ Nums(s, "propose") = {} /\ Nums(s, "hold") = {}
    BY <1>3, <2>2 DEF Rising, Nums
  <2> QED BY <1>3, <2>3 DEF s
<1> QED BY <1>2, <1>3

LEMMA HandleLine ==
  ASSUME Verdicts \subseteq {"accept"}, OwnInv, LineInv, HandleMessage
  PROVE  LineInv'
<1> DEFINE m == Head(batch)
<1>1. /\ UNCHANGED <<app, tcp, events, ctrl, proposals, conf, conn, pending>>
      /\ batch # <<>> /\ todo = <<>> /\ todo' = TodoOf(m) /\ batch' = Tail(batch)
      /\ m.verdict = "accept" => answers' = answers
  BY DEF HandleMessage, network
<1>2. batch \in Seq(Msgs) BY Zenon DEF OwnInv, Types
<1>3. Rising(batch, "propose") /\ Rising(batch, "hold") /\ Nums(batch, "hold") = {}
      /\ \A i \in 1..Len(batch) : batch[i].type # "hold"
  BY <1>2, NoNums DEF LineInv
<1>4. m \in Msgs /\ m.type # "hold" /\ m.verdict = "accept"
  <2>1. m = batch[1] /\ 1 \in 1..Len(batch) /\ m \in Msgs BY <1>1, <1>2
  <2> QED BY <1>3, <2>1 DEF Msgs
<1>5. /\ Rising(batch', "propose")
      /\ m.type # "propose" => Decoded' = Decoded
      /\ m.type = "propose" => /\ m.n \in Decoded /\ Decoded' = Decoded \ {m.n}
                               /\ Before({m.n}, Decoded')
  BY <1>1, <1>2, <1>3, NumsTail DEF Decoded
<1>6. Nums(batch', "hold") = {} BY <1>1, <1>2, <1>3, NumsTail
<1> HIDE DEF m
<1>7. /\ Rising(todo', "propose") /\ Rising(todo', "hold")
      /\ m.type = "propose" => Announcing' = {m.n} /\ Holding' = {m.n}
      /\ m.type # "propose" => Announcing' = {} /\ Holding' = {}
  BY <1>1, <1>4, TodoLine, Zenon DEF Announcing, Holding
<1>8. Announcing = {} /\ Holding = {} BY <1>1, NumsEmpty DEF Announcing, Holding
<1>9. /\ Confirmed' = Confirmed /\ Mailed' = Mailed /\ Announced' = Announced
      /\ Unread' = Unread /\ Unsent' = Unsent
  BY <1>1, Zenon DEF Confirmed, Mailed, Announced, Unread, Unsent
<1>10. /\ Line(Spoken(answers), Confirmed, Mailed, Announced, Announcing, Decoded, Unread, Unsent)
       /\ Hold(Opened(answers), pending, Holding, Decoded, Unread, Unsent)
  BY Zenon DEF LineInv
<1>11. CASE m.type = "propose"
  <2>1. Line(Spoken(answers), Confirmed, Mailed, Announced, Announcing', Decoded', Unread, Unsent)
    <3>1. Line(Spoken(answers), Confirmed, Mailed, Announced, {m.n}, Decoded \ {m.n}, Unread, Unsent)
      BY <1>5, <1>8, <1>10, <1>11, LineMoves, Zenon
    <3> QED BY <1>5, <1>7, <1>11, <3>1
  <2>2. Before(Decoded, Unread \cup Unsent) BY <1>10 DEF Line
  <2>3. Hold(Opened(answers), pending, Holding', Decoded', Unread, Unsent)
    <3>1. Hold(Opened(answers), pending, {m.n}, Decoded \ {m.n}, Unread, Unsent)
      BY <1>5, <1>8, <1>10, <1>11, <2>2, HoldMoves, Zenon
    <3> QED BY <1>5, <1>7, <1>11, <3>1
  <2>4. m.n \notin Spoken(answers)
    <3>1. m.n \in Nat BY <1>4 DEF Msgs
    <3>2. ~(m.n < m.n) BY <3>1
    <3> QED BY <1>5, <1>10, <1>11, <3>2 DEF Line, Before
  <2>5. Spoken(answers) \cap (pending \cup Holding') = {}
    BY <1>7, <1>11, <2>4, Zenon DEF LineInv
  <2> QED BY <1>1, <1>4, <1>5, <1>6, <1>7, <1>9, <2>1, <2>3, <2>5, Zenon DEF LineInv
<1>12. CASE m.type # "propose"
  BY <1>1, <1>4, <1>5, <1>6, <1>7, <1>8, <1>9, <1>12, Zenon DEF LineInv
<1> QED BY <1>11, <1>12
LEMMA SendEventLine ==
  ASSUME OwnInv, LineInv, SendEvent
  PROVE  LineInv'
<1> DEFINE m == Head(todo)
<1>1. /\ UNCHANGED <<app, batch, tcp, ctrl, answers, proposals, conf, conn, pending>>
      /\ todo # <<>> /\ m.type # "hold" /\ events' = Append(events, m) /\ todo' = Tail(todo)
  BY DEF SendEvent, network, ghosts
<1>2. todo \in Seq(Msgs) /\ events \in Seq(Msgs) BY Zenon DEF OwnInv, Types
<1>3. Rising(todo, "propose") /\ Rising(todo, "hold") /\ Rising(events, "propose") BY Zenon DEF LineInv
<1>4. /\ m \in Msgs /\ Rising(todo', "propose")
      /\ m.type # "propose" => Announcing' = Announcing
      /\ m.type = "propose" => /\ m.n \in Announcing /\ Announcing' = Announcing \ {m.n}
                               /\ Before({m.n}, Announcing')
  BY <1>1, <1>2, <1>3, NumsTail DEF Announcing
<1>5. Rising(todo', "hold") /\ Holding' = Holding
  BY <1>1, <1>2, <1>3, NumsTail DEF Holding
<1> HIDE DEF m
<1>6. /\ Confirmed' = Confirmed /\ Mailed' = Mailed /\ Decoded' = Decoded
      /\ Unread' = Unread /\ Unsent' = Unsent
  BY <1>1, Zenon DEF Confirmed, Mailed, Decoded, Unread, Unsent
<1>7. Line(Spoken(answers), Confirmed, Mailed, Announced, Announcing, Decoded, Unread, Unsent)
  BY Zenon DEF LineInv
<1>8. CASE m.type = "propose"
  <2>1. Before(Announced, {m.n}) BY <1>4, <1>7, <1>8 DEF Line, Before
  <2>2. Rising(events', "propose") /\ Announced' = Announced \cup {m.n}
    BY <1>1, <1>2, <1>3, <1>4, <1>8, <2>1, NumsSame DEF Announced
  <2>3. Line(Spoken(answers), Confirmed, Mailed, Announced \cup {m.n}, Announcing \ {m.n}, Decoded,
             Unread, Unsent)
    BY <1>4, <1>7, <1>8, LineMoves, Zenon
  <2> QED BY <1>1, <1>4, <1>5, <1>6, <1>8, <2>2, <2>3, Zenon DEF LineInv
<1>9. CASE m.type # "propose"
  <2>1. Rising(events', "propose") /\ Announced' = Announced
    BY <1>1, <1>2, <1>3, <1>4, <1>9, NumsOther DEF Announced
  <2> QED BY <1>1, <1>4, <1>5, <1>6, <1>9, <2>1, Zenon DEF LineInv
<1> QED BY <1>8, <1>9

LEMMA HoldAcceptLine ==
  ASSUME OwnInv, LineInv, HoldAccept
  PROVE  LineInv'
<1> DEFINE m == Head(todo)
<1>1. /\ UNCHANGED <<app, batch, tcp, events, ctrl, answers, proposals, conf, conn>>
      /\ todo # <<>> /\ m.type = "hold" /\ pending' = {m.n} /\ todo' = Tail(todo)
  BY DEF HoldAccept, network, ghosts
<1>2. todo \in Seq(Msgs) BY Zenon DEF OwnInv, Types
<1>3. Rising(todo, "propose") /\ Rising(todo, "hold") BY Zenon DEF LineInv
<1>4. /\ Rising(todo', "hold") /\ m.n \in Holding /\ Holding' = Holding \ {m.n}
      /\ Before({m.n}, Holding')
  BY <1>1, <1>2, <1>3, NumsTail DEF Holding
<1>5. Rising(todo', "propose") /\ Announcing' = Announcing
  BY <1>1, <1>2, <1>3, NumsTail DEF Announcing
<1> HIDE DEF m
<1>6. /\ Confirmed' = Confirmed /\ Mailed' = Mailed /\ Announced' = Announced
      /\ Decoded' = Decoded /\ Unread' = Unread /\ Unsent' = Unsent
  BY <1>1, Zenon DEF Confirmed, Mailed, Announced, Decoded, Unread, Unsent
<1>7. Hold(Opened(answers), pending, Holding, Decoded, Unread, Unsent) BY Zenon DEF LineInv
<1>8. Hold(Opened(answers), {m.n}, Holding \ {m.n}, Decoded, Unread, Unsent)
  BY <1>4, <1>7, HoldMoves, Zenon
<1>9. Spoken(answers) \cap (pending' \cup Holding') = {}
  BY <1>1, <1>4, Zenon DEF LineInv
<1> QED BY <1>1, <1>4, <1>5, <1>6, <1>8, <1>9, Zenon DEF LineInv

LEMMA SessionOverLine ==
  ASSUME OwnInv, LineInv, EndSession \/ BreakSession
  PROVE  LineInv'
<1>1. /\ UNCHANGED <<app, batch, events, ctrl, answers, proposals, conf, conn>>
      /\ pending' = {} /\ todo' = <<>> /\ (tcp' = tcp \/ tcp' = <<>>)
  BY DEF EndSession, BreakSession, Selecting, network, ghosts
<1>2. Announcing' = {} /\ Holding' = {} /\ Rising(todo', "propose") /\ Rising(todo', "hold")
  BY <1>1, NumsEmpty DEF Announcing, Holding
<1>3. Unread' \subseteq Unread /\ Rising(tcp', "propose") /\ Nums(tcp', "hold") = {}
  <2>1. CASE tcp' = tcp BY <2>1 DEF Unread, LineInv
  <2>2. CASE tcp' = <<>> BY <2>2, NumsEmpty DEF Unread
  <2> QED BY <1>1, <2>1, <2>2
<1>4. /\ Confirmed' = Confirmed /\ Mailed' = Mailed /\ Announced' = Announced
      /\ Decoded' = Decoded /\ Unsent' = Unsent
  BY <1>1, Zenon DEF Confirmed, Mailed, Announced, Decoded, Unsent
<1>5. Line(Spoken(answers), Confirmed, Mailed, Announced, {}, Decoded, Unread', Unsent)
  BY <1>3, LineAntitone DEF LineInv
<1>6. Hold(Opened(answers), {}, {}, Decoded, Unread', Unsent)
  BY <1>3, HoldAntitone DEF LineInv
<1> QED BY <1>1, <1>2, <1>3, <1>4, <1>5, <1>6, Zenon DEF LineInv

LEMMA FailOpenLine ==
  ASSUME OwnInv, LineInv, FailOpen
  PROVE  LineInv'
<1>1. PICK n \in pending : answers' = Append(answers, Answer(n, "accept", 0, "failopen"))
  BY DEF FailOpen
<1>2. /\ UNCHANGED <<app, tcp, batch, todo, events, ctrl, proposals, conf, conn>> /\ pending' = {}
  BY DEF FailOpen, network
<1> DEFINE r == Answer(n, "accept", 0, "failopen")
<1>3. answers \in Seq(Replies) /\ n \in Nat BY Zenon DEF OwnInv, Types
<1>t. Types BY DEF OwnInv
<1>4. r \in Replies /\ r.via = "failopen" /\ r.to = n BY <1>t, <1>3, ReplyTypes
<1> HIDE DEF r
<1>5. answers' = Append(answers, r) BY <1>1 DEF r
<1>6. pending = {n} BY Zenon DEF LineInv
<1>7. Hold(Opened(answers), pending, Holding, Decoded, Unread, Unsent) BY Zenon DEF LineInv
<1>8. n \notin Spoken(answers) /\ n \notin Opened(answers)
  <2>1. ~(n < n) BY <1>3
  <2> QED BY <1>7, <2>1 DEF LineInv, Hold, Before
<1>9. Spoken(answers') = Spoken(answers) /\ Opened(answers') = Opened(answers) \cup {n}
  BY <1>3, <1>4, <1>5, SpokenMore
<1>10. Once(answers') BY <1>3, <1>4, <1>5, <1>8, OnceMore DEF LineInv
<1>11. Hold(Opened(answers) \cup {n}, {}, Holding, Decoded, Unread, Unsent)
  BY <1>6, <1>7, HoldMoves, Zenon
<1>12. /\ Confirmed' = Confirmed /\ Mailed' = Mailed /\ Announced' = Announced
       /\ Announcing' = Announcing /\ Holding' = Holding
       /\ Decoded' = Decoded /\ Unread' = Unread /\ Unsent' = Unsent
  BY <1>2, Zenon DEF Confirmed, Mailed, Announced, Announcing, Holding, Decoded, Unread, Unsent
<1> QED BY <1>2, <1>9, <1>10, <1>11, <1>12, Zenon DEF LineInv

(* An answer to the proposal the oldest confirmation was made for. *)
LEMMA ConfirmLine ==
  ASSUME OwnInv, LineInv, NEW x \in Confirmed, Before({x}, Confirmed \ {x}),
         NEW r \in Replies, r.to = x, r.via # "failopen", answers' = Append(answers, r)
  PROVE  /\ Spoken(answers') = Spoken(answers) \cup {x} /\ Opened(answers') = Opened(answers)
         /\ Once(answers')
         /\ Line(Spoken(answers'), Confirmed \ {x}, Mailed, Announced, Announcing, Decoded, Unread, Unsent)
<1>1. answers \in Seq(Replies) BY Zenon DEF OwnInv, Types
<1>2. Line(Spoken(answers), Confirmed, Mailed, Announced, Announcing, Decoded, Unread, Unsent)
  BY Zenon DEF LineInv
<1>3. x \notin Spoken(answers)
  <2>1. x \in Nat BY NumsNat DEF Confirmed
  <2>2. ~(x < x) BY <2>1
  <2> QED BY <1>2, <2>2 DEF Line, Before
<1>4. Spoken(answers') = Spoken(answers) \cup {x} /\ Opened(answers') = Opened(answers)
  BY <1>1, SpokenMore
<1>5. Once(answers') BY <1>1, <1>3, OnceMore DEF LineInv
<1>6. Line(Spoken(answers) \cup {x}, Confirmed \ {x}, Mailed, Announced, Announcing, Decoded, Unread, Unsent)
  BY <1>2, LineMoves, Zenon
<1> QED BY <1>4, <1>5, <1>6
LEMMA ControlLine ==
  ASSUME ~ReuseIds, OwnInv, LineInv, ReceiveControl
  PROVE  LineInv'
<1> DEFINE m == Head(ctrl)
<1>1. /\ ctrl # <<>> /\ m \in Ctrls /\ ctrl' = Tail(ctrl) /\ todo = <<>> /\ batch = <<>>
      /\ UNCHANGED <<app, tcp, batch, todo, events, proposals, conf, conn>>
      /\ m.type \in Confirmations => m.stream = Id(m.by)
      /\ pending' \subseteq pending
  BY ControlCases
<1>2. ctrl \in Seq(Ctrls) /\ answers \in Seq(Replies) /\ pending \in SUBSET Nat
  BY Zenon DEF OwnInv, Types
<1>t. Types BY DEF OwnInv
<1>3. /\ AsMsgs(ctrl) \in Seq(Msgs) /\ AsMsgs(ctrl) # <<>> /\ Head(AsMsgs(ctrl)) = AsMsg(m)
      /\ AsMsgs(ctrl') = Tail(AsMsgs(ctrl))
  BY <1>1, <1>2, AsMsgsTypes
<1>4. /\ m.type \in Confirmations => AsMsg(m).type = "propose"
      /\ m.type \notin Confirmations => AsMsg(m).type = "close"
      /\ AsMsg(m).n = m.by
  BY DEF AsMsg
<1>5. m.by \in Nat /\ (m.type \in Confirmations => m.type \in {"accept", "reject", "counter"})
  BY <1>1 DEF Ctrls, Confirmations
<1> HIDE DEF m
<1>6. Rising(AsMsgs(ctrl), "propose") BY Zenon DEF LineInv
<1>7. /\ Rising(AsMsgs(ctrl'), "propose") /\ Confirmed' \subseteq Confirmed
      /\ m.type \in Confirmations => /\ m.by \in Confirmed /\ Confirmed' = Confirmed \ {m.by}
                                     /\ Before({m.by}, Confirmed')
  <2> DEFINE s == AsMsgs(ctrl)
             g == AsMsg(m)
  <2>1. s \in Seq(Msgs) /\ s # <<>> /\ Head(s) = g /\ Rising(s, "propose") BY <1>3, <1>6
  <2> HIDE DEF s, g
  <2>2. /\ Rising(Tail(s), "propose")
        /\ g.type # "propose" => Nums(Tail(s), "propose") = Nums(s, "propose")
        /\ g.type = "propose" => /\ g.n \in Nums(s, "propose")
                                 /\ Nums(Tail(s), "propose") = Nums(s, "propose") \ {g.n}
                                 /\ Before({g.n}, Nums(Tail(s), "propose"))
    BY <2>1, NumsTail
  <2>3. Confirmed = Nums(s, "propose") /\ Confirmed' = Nums(Tail(s), "propose")
        /\ AsMsgs(ctrl') = Tail(s)
    BY <1>3 DEF s, Confirmed
  <2>4. /\ m.type \in Confirmations => g.type = "propose"
        /\ m.type \notin Confirmations => g.type # "propose"
        /\ g.n = m.by
    BY <1>4 DEF g
  <2> QED BY <2>2, <2>3, <2>4
<1>8. /\ Mailed' = Mailed /\ Announced' = Announced /\ Announcing' = Announcing
      /\ Holding' = Holding /\ Decoded' = Decoded /\ Unread' = Unread /\ Unsent' = Unsent
  BY <1>1, Zenon DEF Mailed, Announced, Announcing, Holding, Decoded, Unread, Unsent
<1>9. Hold(Opened(answers), pending', Holding, Decoded, Unread, Unsent)
  BY <1>1, HoldAntitone DEF LineInv
<1>10. Holding = {} BY <1>1, NumsEmpty DEF Holding
<1>11. CASE answers' = answers
  <2>1. Line(Spoken(answers), Confirmed', Mailed, Announced, Announcing, Decoded, Unread, Unsent)
    <3>1. Line(Spoken(answers), Confirmed, Mailed, Announced, Announcing, Decoded, Unread, Unsent)
      BY Zenon DEF LineInv
    <3> QED BY <1>7, <3>1, LineAntitone
  <2> QED BY <1>1, <1>7, <1>8, <1>9, <1>11, <2>1, Zenon DEF LineInv
<1>12. ASSUME m.type \in Confirmations, NEW r \in Replies, r.to = m.by, r.via # "failopen",
              answers' = Append(answers, r), pending' = {}
       PROVE  LineInv'
  <2>1. /\ Opened(answers') = Opened(answers) /\ Once(answers')
        /\ Line(Spoken(answers'), Confirmed', Mailed, Announced, Announcing, Decoded, Unread, Unsent)
    BY <1>7, <1>12, ConfirmLine
  <2> QED BY <1>1, <1>7, <1>8, <1>9, <1>10, <1>12, <2>1, Zenon DEF LineInv
<1>13. ASSUME NEW n \in pending, m.type \in Confirmations, m.stream = Id(n),
              pending' = pending \ Resolves(m),
              answers' = Append(answers, Answer(n, m.type, m.by, "resolve"))
       PROVE  LineInv'
  <2> DEFINE r == Answer(n, m.type, m.by, "resolve")
  <2>1. n = m.by BY <1>1, <1>13 DEF Id
  <2>a. n \in Nat /\ m.type \in {"accept", "reject", "counter"} BY <1>2, <1>5, <1>13
  <2>2. r \in Replies /\ r.to = n /\ r.via = "resolve" BY <1>t, <1>5, <2>a, ReplyTypes
  <2>3. n \in Resolves(m) BY <1>13 DEF Resolves, Confirmations
  <2>4. pending' = {} BY <1>13, <2>3, Zenon DEF LineInv
  <2> HIDE DEF r
  <2>5. answers' = Append(answers, r) BY <1>13 DEF r
  <2> QED BY <1>12, <1>13, <2>1, <2>2, <2>4, <2>5
<1>14. ASSUME m.type \in Confirmations, pending = {},
              answers' = Append(answers, Answer(m.by, m.type, m.by, "forward"))
       PROVE  LineInv'
  <2> DEFINE r == Answer(m.by, m.type, m.by, "forward")
  <2>a. m.type \in {"accept", "reject", "counter"} BY <1>5, <1>14
  <2>2. r \in Replies /\ r.to = m.by /\ r.via = "forward" BY <1>t, <1>5, <2>a, ReplyTypes
  <2>3. pending' = {} BY <1>1, <1>14
  <2> HIDE DEF r
  <2>4. answers' = Append(answers, r) BY <1>14 DEF r
  <2> QED BY <1>12, <1>14, <2>2, <2>3, <2>4
<1> QED BY <1>11, <1>13, <1>14, ControlCases DEF m

LEMMA TakeLine ==
  ASSUME OwnInv, LineInv, TakeEvent
  PROVE  LineInv'
<1> DEFINE e == Head(events)
<1>1. /\ events # <<>> /\ events' = Tail(events)
      /\ conf' = IF e.type = "propose" THEN e.n ELSE conf
      /\ UNCHANGED <<tcp, batch, todo, ctrl, answers, proposals, conn, pending>>
  BY DEF TakeEvent, session, network, ghosts
<1>2. /\ app.mail = NoMail
      /\ e.type = "propose" => app'.mail.type \in Confirmations
      /\ e.type # "propose" => app'.mail = NoMail
  BY TakeOwn
<1>3. events \in Seq(Msgs) /\ Rising(events, "propose") BY Zenon DEF OwnInv, Types, LineInv
<1>4. /\ Rising(events', "propose")
      /\ e.type # "propose" => Announced' = Announced
      /\ e.type = "propose" => /\ e.n \in Announced /\ Announced' = Announced \ {e.n}
                               /\ Before({e.n}, Announced')
  BY <1>1, <1>3, NumsTail DEF Announced
<1> HIDE DEF e
<1>5. Mailed = {} BY <1>2, NoMailFields DEF Mailed, Confirmations
<1>6. Line(Spoken(answers), Confirmed, Mailed, Announced, Announcing, Decoded, Unread, Unsent)
  BY Zenon DEF LineInv
<1>7. /\ Confirmed' = Confirmed /\ Announcing' = Announcing /\ Holding' = Holding
      /\ Decoded' = Decoded /\ Unread' = Unread /\ Unsent' = Unsent
  BY <1>1, Zenon DEF Confirmed, Announcing, Holding, Decoded, Unread, Unsent
<1>8. CASE e.type = "propose"
  <2>1. Mailed' = {e.n} BY <1>1, <1>2, <1>8 DEF Mailed
  <2>2. Line(Spoken(answers), Confirmed, {e.n}, Announced \ {e.n}, Announcing, Decoded, Unread, Unsent)
    BY <1>4, <1>5, <1>6, <1>8, LineMoves, Zenon
  <2> QED BY <1>1, <1>4, <1>7, <1>8, <2>1, <2>2, Zenon DEF LineInv
<1>9. CASE e.type # "propose"
  <2>1. Mailed' = {} BY <1>2, <1>9, NoMailFields DEF Mailed, Confirmations
  <2> QED BY <1>1, <1>4, <1>5, <1>7, <1>9, <2>1, Zenon DEF LineInv
<1> QED BY <1>8, <1>9

LEMMA SendLine ==
  ASSUME OwnInv, LineInv, SendControl
  PROVE  LineInv'
<1> DEFINE m == [type |-> app.mail.type, stream |-> app.mail.stream, by |-> conf]
<1>1. /\ ctrl' = Append(ctrl, m)
      /\ UNCHANGED <<tcp, batch, todo, events, answers, proposals, conf, conn, pending>>
  BY DEF SendControl, session, network, ghosts
<1>2. AppShape(app) /\ conf \in Nat /\ ctrl \in Seq(Ctrls) BY Zenon DEF OwnInv, Types
<1>3. m \in Ctrls /\ m.type = app.mail.type /\ m.by = conf
  BY <1>2 DEF AppShape, Mails, Ctrls
<1>4. Mailed' = {} BY SendOwn, NoMailFields DEF Mailed, Confirmations
<1> HIDE DEF m
<1> DEFINE s == AsMsgs(ctrl)
           g == AsMsg(m)
<1>5. s \in Seq(Msgs) /\ g \in Msgs /\ AsMsgs(ctrl') = Append(s, g)
  BY <1>1, <1>2, <1>3, AsMsgsTypes
<1>6. /\ app.mail.type \in Confirmations => g.type = "propose"
      /\ app.mail.type \notin Confirmations => g.type # "propose"
      /\ g.n = conf
  BY <1>3 DEF AsMsg
<1>7. Rising(s, "propose") /\ Confirmed = Nums(s, "propose") BY DEF LineInv, Confirmed
<1> HIDE DEF s, g
<1>8. Line(Spoken(answers), Confirmed, Mailed, Announced, Announcing, Decoded, Unread, Unsent)
  BY Zenon DEF LineInv
<1>9. /\ Announced' = Announced /\ Announcing' = Announcing /\ Holding' = Holding
      /\ Decoded' = Decoded /\ Unread' = Unread /\ Unsent' = Unsent
  BY <1>1, Zenon DEF Announced, Announcing, Holding, Decoded, Unread, Unsent
<1>10. CASE app.mail.type \in Confirmations
  <2>1. Mailed = {conf} BY <1>10 DEF Mailed
  <2>2. Before(Nums(s, "propose"), {g.n}) BY <1>6, <1>7, <1>8, <2>1 DEF Line, Before
  <2>3. Rising(AsMsgs(ctrl'), "propose") /\ Confirmed' = Confirmed \cup {conf}
    BY <1>5, <1>6, <1>7, <1>10, <2>2, NumsSame DEF Confirmed
  <2>4. Line(Spoken(answers), Confirmed \cup {conf}, {}, Announced, Announcing, Decoded, Unread, Unsent)
    BY <1>8, <2>1, LineMoves, Zenon
  <2> QED BY <1>1, <1>4, <1>9, <2>3, <2>4, Zenon DEF LineInv
<1>11. CASE app.mail.type \notin Confirmations
  <2>1. Mailed = {} BY <1>11 DEF Mailed
  <2>2. Rising(AsMsgs(ctrl'), "propose") /\ Confirmed' = Confirmed
    BY <1>5, <1>6, <1>7, <1>11, NumsOther DEF Confirmed
  <2> QED BY <1>1, <1>4, <1>9, <2>1, <2>2, Zenon DEF LineInv
<1> QED BY <1>10, <1>11

LEMMA HostLine ==
  ASSUME OwnInv, LineInv,
         HostReleases \/ HostTerminates \/ TakeRelease \/ Tick \/ Terminate \/ UNCHANGED vars
  PROVE  LineInv'
<1>1. /\ UNCHANGED <<tcp, batch, todo, events, ctrl, answers, proposals, conf, conn, pending>>
      /\ app'.mail = app.mail \/ app'.mail.type \notin Confirmations
  BY HostOwn
<1>2. Mailed' \subseteq Mailed BY <1>1 DEF Mailed
<1>3. /\ Confirmed' = Confirmed /\ Announced' = Announced /\ Announcing' = Announcing
      /\ Holding' = Holding /\ Decoded' = Decoded /\ Unread' = Unread /\ Unsent' = Unsent
  BY <1>1, Zenon DEF Confirmed, Announced, Announcing, Holding, Decoded, Unread, Unsent
<1>4. Line(Spoken(answers), Confirmed, Mailed', Announced, Announcing, Decoded, Unread, Unsent)
  BY <1>2, LineAntitone DEF LineInv
<1> QED BY <1>1, <1>3, <1>4, Zenon DEF LineInv

LEMMA LineNext ==
  ASSUME ~ReuseIds, Verdicts \subseteq {"accept"}, OwnInv, LineInv, [EndpointNext]_vars
  PROVE  LineInv'
BY ProposesLine, CommandsLine, AcceptsLine, ReadLine, HandleLine, SendEventLine, HoldAcceptLine,
   SessionOverLine, FailOpenLine, ControlLine, TakeLine, SendLine, HostLine DEF EndpointNext, Transport

(* A proposal the endpoint can play is answered once, but for the late       *)
(* verdict after a fail-open accept, however confirmations, sessions,        *)
(* releases and further proposals cross each other in the two channels       *)
(* (EndpointSession::run): provided every proposal has a stream id of its    *)
(* own and negotiate_format accepts.                                         *)
THEOREM EachAnsweredOnce ==
  ASSUME ~ReuseIds, Verdicts \subseteq {"accept"}
  PROVE  EndpointSpec => []AnsweredOnce
<1>1. OwnInv /\ LineInv /\ [EndpointNext]_vars => LineInv' BY LineNext
<1>2. OwnInv /\ LineInv => AnsweredOnce
  <2> SUFFICES ASSUME OwnInv, LineInv PROVE AnsweredOnce OBVIOUS
  <2>a. answers \in Seq(Replies) BY Zenon DEF OwnInv, Types
  <2>1. DOMAIN answers = 1..Len(answers) BY <2>a
  <2>2. Once(answers) BY Zenon DEF LineInv
  <2> QED BY <2>1, <2>2 DEF AnsweredOnce, Once
<1> QED BY <1>1, <1>2, OwnAlways, LineInit, SafetyPart, PTL
=============================================================================
