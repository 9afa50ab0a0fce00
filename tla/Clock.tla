------------------------------- MODULE Clock --------------------------------
(***************************************************************************)
(* Clock synchronisation: the filter ClockState of oaat-core and the two   *)
(* exchanges that feed it.  The endpoint's (clock_sync_loop of             *)
(* oaat-endpoint, transport.rs) sends requests at its interval and takes   *)
(* t1 from the response; it feeds one SharedClock through all sessions,    *)
(* also with another controller.  The controller's (clock_sync_once and    *)
(* spawn_endpoint_clock_sync) sends one request at a time and takes        *)
(* whatever arrives for its response.                                      *)
(*                                                                         *)
(* Time is discrete and relative: a datagram carries its age, the ticks    *)
(* since t1, and t2 and t3 as differences to t1; the peer's clock is ahead *)
(* by an offset.  Datagrams are delayed, duplicated and reordered; one     *)
(* that is lost never arrives.  Offsets are kept doubled, as the sum of    *)
(* the two differences the code halves.  The filter's weighted average is  *)
(* known by the interval of the samples averaged.                          *)
(***************************************************************************)
EXTENDS Integers, Sequences, FiniteSets

CONSTANTS
  Offsets,        \* the peers' clocks minus the own one
  Sides,          \* who measures: "endpoint", "controller"
  MaxSessions,    \* bound: sessions
  Orderly,        \* the controller's socket holds no late or second response
  StaleAfter,     \* 1 s in the code
  Window,         \* RTT_WINDOW, 16 in the code
  Bootstrap,      \* bootstrap_count, 10 in the code
  Floor,          \* RTT_OUTLIER_FLOOR_NS, 1 ms in the code
  MaxFlight       \* bound: datagrams under way

ASSUME ClockAssumption ==
  /\ Offsets \subseteq Int /\ Sides \subseteq {"endpoint", "controller"}
  /\ {StaleAfter, Window, Bootstrap, MaxSessions} \subseteq Nat \ {0}
  /\ Orderly \in BOOLEAN
  /\ {Floor, MaxFlight} \subseteq Nat

VARIABLES
  side,       \* who measures
  peer,       \* the offset of the peer's clock
  sessions,   \* sessions so far
  waiting,    \* the controller waits for a response
  net,        \* datagrams under way
  last,       \* ticks since the last request
  clock,      \* ClockState
  seen,       \* ghost: the peers measured
  worst,      \* ghost: the longest round trip accepted
  rejected    \* ghost: the last round trips rejected since one was accepted

filter == <<clock, worst, rejected>>
session == <<side, peer, sessions, seen>>
vars == <<side, peer, sessions, waiting, net, last, clock, seen, worst, rejected>>

Max2(a, b) == IF a > b THEN a ELSE b
Min2(a, b) == IF a < b THEN a ELSE b
Abs(x) == IF x < 0 THEN -x ELSE x

-----------------------------------------------------------------------------
(* ClockState. *)

NewClock == [samples |-> 0, low2 |-> 0, high2 |-> 0, window |-> <<>>]

IsBootstrapped(c) == c.samples >= Bootstrap

(* The k-th smallest value of a sequence. *)
Smallest(s, k) ==
  CHOOSE x \in {s[i] : i \in DOMAIN s} :
    /\ Cardinality({i \in DOMAIN s : s[i] < x}) < k
    /\ Cardinality({i \in DOMAIN s : s[i] <= x}) >= k

(* Faulty variant: the longest round trip stands for the usual one. *)
DoubleMedianHigh(s) == 2 * Smallest(s, Len(s))

(* Twice the median of a sequence that is not empty. *)
DoubleMedian(s) ==
  LET n == Len(s) IN
    IF n % 2 = 1 THEN 2 * Smallest(s, n \div 2 + 1)
    ELSE Smallest(s, n \div 2) + Smallest(s, n \div 2 + 1)

(***************************************************************************)
(* is_rtt_outlier: rtt > median + max(5 * 1.4826 * MAD, floor), with both  *)
(* sides multiplied by 4000: the median comes doubled, the MAD fourfold.   *)
(***************************************************************************)
IsRttOutlier(c, rtt) ==
  LET m2 == DoubleMedian(c.window)
      mad4 == DoubleMedian([i \in DOMAIN c.window |-> Abs(2 * c.window[i] - m2)])
  IN c.window # <<>> /\ 4000 * rtt > 2000 * m2 + Max2(7413 * mad4, 4000 * Floor)

Push(w, rtt) == Append(IF Len(w) = Window THEN Tail(w) ELSE w, rtt)

(* Faulty variant: the window learns from accepted samples only. *)
RejectedForgotten(c, rtt) == c

(* A rejected sample enters the window and changes nothing else. *)
Rejected(c, rtt) == [c EXCEPT !.window = Push(@, rtt)]

(* Faulty variant: the first sample is averaged with the initial zero. *)
AveragedFromZero(c, offset2) ==
  [c EXCEPT !.low2 = Min2(@, offset2), !.high2 = Max2(@, offset2)]

(* The first sample is taken as it is, the others are averaged in. *)
Averaged(c, offset2) ==
  IF c.samples = 0 THEN [c EXCEPT !.low2 = offset2, !.high2 = offset2]
  ELSE [c EXCEPT !.low2 = Min2(@, offset2), !.high2 = Max2(@, offset2)]

(* Of a full window. *)
Majority == Window \div 2 + 1

Update(c, t1, t2, t3, t4) ==
  LET offset2 == (t2 - t1) + (t3 - t4)
      rtt == Max2(0, (t4 - t1) - (t3 - t2))
  IN IF IsBootstrapped(c) /\ IsRttOutlier(c, rtt)
     THEN /\ clock' = Rejected(c, rtt)
          /\ rejected' = Append(IF Len(rejected) > Majority THEN Tail(rejected) ELSE rejected, rtt)
          /\ worst' = worst
     ELSE /\ clock' = [Averaged(c, offset2) EXCEPT !.samples = Min2(@ + 1, Bootstrap),
                                                   !.window = Push(@, rtt)]
          /\ rejected' = <<>> /\ worst' = Max2(worst, rtt)

-----------------------------------------------------------------------------
(* The exchange. *)

Old == StaleAfter + 1
Older(n) == Min2(n + 1, Old)

Init ==
  /\ side \in Sides /\ peer \in Offsets /\ sessions = 1 /\ seen = {peer}
  /\ waiting = FALSE /\ net = {} /\ last = Old
  /\ clock = NewClock /\ worst = 0 /\ rejected = <<>>

(* Ages beyond StaleAfter are not told apart. *)
Tick ==
  /\ net' = {[p EXCEPT !.age = Older(@)] : p \in net}
  /\ last' = Older(last)
  /\ UNCHANGED <<session, waiting, filter>>

(* A session of the endpoint follows: the filter and the socket stay. *)
NewSession ==
  /\ side = "endpoint" /\ sessions < MaxSessions
  /\ sessions' = sessions + 1
  /\ peer' \in Offsets /\ seen' = seen \cup {peer'}
  /\ UNCHANGED <<side, waiting, net, last, filter>>

Sends ==
  /\ Cardinality(net) < MaxFlight
  /\ net' = net \cup {[kind |-> "request", age |-> 0, t2 |-> 0, t3 |-> 0, of |-> peer]}
  /\ last' = 0

(* The endpoint's sender task, at its interval. *)
SendRequest ==
  /\ side = "endpoint" /\ Sends
  /\ UNCHANGED <<session, waiting, filter>>

(* The controller sends a request and waits. *)
ClockSyncOnce ==
  /\ side = "controller" /\ ~waiting /\ Sends
  /\ waiting' = TRUE
  /\ UNCHANGED <<session, filter>>

(* The peer's responder; it reads its clock twice. *)
Respond(p) ==
  /\ p.kind = "request"
  /\ \E hold \in 0..1 :
       net' = (net \ {p}) \cup {[p EXCEPT !.kind = "response", !.t2 = p.age + p.of,
                                          !.t3 = p.age + p.of + hold]}
  /\ UNCHANGED <<session, waiting, last, filter>>

(* Faulty variant: t1 is the time of the last request on both sides. *)
T1OfLast(p) == p.age - last

(* The endpoint takes t1 from the response, the controller its own. *)
T1(p) == IF side = "endpoint" THEN 0 ELSE p.age - last

(* Not before it was sent. *)
Arrives(p) == p.kind = "response" /\ p.t3 <= p.age + p.of

(* The network may keep a copy. *)
ReceiveResponse(p) ==
  /\ side = "endpoint" /\ Arrives(p) /\ p.age <= StaleAfter
  /\ net' \in {net, net \ {p}}
  /\ Update(clock, T1(p), p.t2, p.t3, p.age)
  /\ UNCHANGED <<session, waiting, last>>

(* An exchange of more than a second is ignored. *)
IgnoreStale(p) ==
  /\ side = "endpoint" /\ Arrives(p) /\ p.age > StaleAfter
  /\ net' \in {net, net \ {p}}
  /\ UNCHANGED <<session, waiting, last, filter>>

(* Whatever the socket holds is the response. *)
SyncResponse(p) ==
  /\ side = "controller" /\ waiting /\ last <= StaleAfter /\ Arrives(p)
  /\ net' = net \ {p} \/ (~Orderly /\ net' = net)
  /\ Update(clock, T1(p), p.t2, p.t3, p.age)
  /\ waiting' = FALSE
  /\ UNCHANGED <<session, last>>

(* Faulty variant: the next request goes out before the timeout. *)
SyncTimeoutEarly ==
  /\ side = "controller" /\ waiting
  /\ waiting' = FALSE
  /\ UNCHANGED <<session, net, last, filter>>

(* One second without a response. *)
SyncTimeout ==
  /\ side = "controller" /\ waiting /\ last > StaleAfter
  /\ waiting' = FALSE
  /\ net' = IF Orderly THEN {} ELSE net
  /\ UNCHANGED <<session, last, filter>>

Next ==
  \/ Tick \/ NewSession \/ SendRequest \/ ClockSyncOnce \/ SyncTimeout
  \/ \E p \in net : Respond(p) \/ ReceiveResponse(p) \/ IgnoreStale(p) \/ SyncResponse(p)

Spec == Init /\ [][Next]_vars

-----------------------------------------------------------------------------
(* Properties. *)

(* The estimate is never further from the clocks it was measured against     *)
(* than half of the longest round trip it was built from, however datagrams  *)
(* are delayed, duplicated and reordered and whatever sessions follow        *)
(* (RTT_OUTLIER_FLOOR_NS: "worst-case offset error is RTT/2").               *)
OffsetAccurate ==
  clock.samples > 0 =>
    /\ \E o \in seen : 2 * o - worst <= clock.low2
    /\ \E o \in seen : clock.high2 <= 2 * o + worst

(* The gate does not lock itself out: after a lasting change of the round    *)
(* trip it accepts again within RTT_WINDOW / 2 + 1 exchanges.  A sample is   *)
(* not rejected when the last RTT_WINDOW / 2 + 1 were rejected too and were  *)
(* all at least as long.                                                     *)
GateReopens ==
  LET n == Len(rejected)
  IN n > Majority => \E i \in 1 .. n - 1 : rejected[i] < rejected[n]

(* What is_rtt_outlier lets pass when the median and the median deviation    *)
(* of the window are r, the most they can be when most of it is at most r.   *)
InMargin(rtt, r) == 1000 * rtt <= 1000 * r + Max2(7413 * r, 1000 * Floor)

(* An accepted sample is within the margin that the round trips of any       *)
(* majority of the window allow.                                             *)
WithinMargin ==
  LET w == clock.window
      new == clock'.window[Len(clock'.window)]
  IN clock' # clock /\ IsBootstrapped(clock) /\ rejected' = <<>> =>
       \A r \in 0..StaleAfter :
         2 * Cardinality({i \in DOMAIN w : w[i] <= r}) > Len(w) =>
           InMargin(new, r)

(* A minority of spikes in the window does not open the gate (is_rtt_outlier *)
(* with its median and its median deviation).                                *)
SpikesIgnored == [][WithinMargin]_vars
=============================================================================
