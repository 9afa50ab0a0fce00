----------------------------- MODULE ZoneProofs -----------------------------
(***************************************************************************)
(* The zones of a controller, for any zones, endpoints, levels and offsets *)
(* and any number of connections and calls: a connection has one owner,    *)
(* the members of a zone know each other and play what the zone plays.     *)
(*                                                                         *)
(* All of it rests on the numbers of connections: a connection is made for *)
(* one endpoint, so a session that has the number of an entry is one of    *)
(* the endpoint of that entry (Owned).  A message to the members of a zone *)
(* then reaches sessions that belong to no other zone.                     *)
(***************************************************************************)
EXTENDS Zone, TLAPS

Zn == [live : BOOLEAN, entry : [Endpoints -> [conn : Nat, state : States]], master : 0..100,
       offset : [Endpoints -> Int], active : BOOLEAN, playing : BOOLEAN]
Sess == [conn : Nat, peers : SUBSET Endpoints, vol : Int, audio : {"idle", "format", "playing"},
         joined : BOOLEAN]
Busy == [kind : {"add", "join", "add sync", "join sync", "hung"}, zone : ZoneIds, ep : Endpoints,
         conn : Nat]

(* What of the state decides who owns a connection; no call is number 0. *)
Places(zs) == [z \in ZoneIds |-> [e \in Endpoints |-> zs[z].entry[e].conn]]
Numbers(ss) == [e \in Endpoints |-> ss[e].conn]
CallConn(c) == IF c = NoCall THEN 0 ELSE c.conn
Asked(c) == IF c.kind \in {"add", "join"} THEN c.conn ELSE 0

PlacesType == [ZoneIds -> [Endpoints -> Nat]]
NumbersType == [Endpoints -> Nat]

(***************************************************************************)
(* The connections P of the entries, S of the sessions, R of the tasks and *)
(* k of the call, which is for endpoint ke and waits for its answer if k   *)
(* is q, when n connections were made: a connection has one place, and the *)
(* session that has it is the one of its endpoint.                         *)
(***************************************************************************)
Own(P, S, R, k, ke, q, n) ==
  /\ P \in PlacesType /\ S \in NumbersType /\ R \in SUBSET Nat /\ k \in Nat /\ n \in Nat
  /\ \A z \in ZoneIds, e \in Endpoints : P[z][e] <= n
  /\ \A e \in Endpoints : S[e] <= n
  /\ \A c \in R : c # 0 /\ c <= n
  /\ k <= n /\ k \notin R
  /\ \A z, y \in ZoneIds, e, d \in Endpoints : P[z][e] # 0 /\ P[y][d] = P[z][e] => z = y /\ e = d
  /\ \A z \in ZoneIds, e \in Endpoints : P[z][e] # 0 => P[z][e] \notin R /\ P[z][e] # k
  /\ \A e, d \in Endpoints : S[e] # 0 /\ S[d] = S[e] => d = e
  /\ \A z \in ZoneIds, e, d \in Endpoints : P[z][e] # 0 /\ S[d] = P[z][e] => d = e
  /\ k # 0 => \A d \in Endpoints : S[d] = k => d = ke /\ k # q

(* Nothing gets a new place. *)
Fewer(P, P2) ==
  /\ P2 \in PlacesType
  /\ \A z \in ZoneIds, e \in Endpoints : P2[z][e] = 0 \/ P2[z][e] = P[z][e]

Ended(S, S2) == S2 \in NumbersType /\ \A e \in Endpoints : S2[e] = 0 \/ S2[e] = S[e]

GoesOn(k, ke, q, k2, ke2, q2) == k2 = 0 \/ (k2 = k /\ ke2 = ke /\ (q2 = k => q = k))

(* Entry (x, u) gets connection k, and the rest stays. *)
Set(P, P2, x, u, k) ==
  /\ P2 \in PlacesType /\ P2[x][u] = k
  /\ \A z \in ZoneIds, e \in Endpoints : z # x \/ e # u => P2[z][e] = P[z][e]

(* The connection of entry (x, u) goes to a task. *)
Freed(P, x, u, R, R2) == P[x][u] # 0 /\ R2 = R \cup {P[x][u]}

(* Endpoint u has a session on connection k. *)
Answered(S, S2, u, k) ==
  /\ S2 \in NumbersType /\ S2[u] = k
  /\ \A d \in Endpoints : d # u => S2[d] = S[d]

(* The connections of O have a place. *)
Placed(O, P, R, k) ==
  \A c \in O : c # 0 /\ (c = k \/ c \in R \/ \E z \in ZoneIds, e \in Endpoints : P[z][e] = c)

Types ==
  /\ zones \in [ZoneIds -> Zn] /\ session \in [Endpoints -> Sess]
  /\ conns \in Nat /\ open \in SUBSET Nat /\ releasing \in SUBSET Nat
  /\ call = NoCall \/ call \in Busy
  /\ call # NoCall => call.conn # 0

Owned ==
  /\ Own(Places(zones), Numbers(session), releasing, CallConn(call), call.ep, Asked(call), conns)
  /\ Placed(open, Places(zones), releasing, CallConn(call))

(* A member that a message reaches has been told all it has to know. *)
Told(zn, e, s) ==
  /\ Members(zn) \subseteq s.peers
  /\ s.vol # Unset => s.vol = Effective(zn, e)
  /\ s.audio = "playing" => zn.entry[e].state \in {"streaming", "degraded"}
  /\ zn.entry[e].state = "streaming" \/ s.audio # "idle" => zn.active
  /\ zn.playing /\ s.joined => s.audio = "playing"

Fresh(s) == s.vol = Unset /\ s.audio = "idle" /\ ~s.joined

(* The connection c of an entry of e is up, when its session is ss[e]. *)
UpFor(c, O, s) == c # 0 /\ c \in O /\ s.conn = c

AllTold ==
  /\ \A z \in ZoneIds, e \in Endpoints :
       UpFor(zones[z].entry[e].conn, open, session[e]) => Told(zones[z], e, session[e])
  /\ \A z \in ZoneIds : zones[z].playing => zones[z].active
  /\ call # NoCall /\ session[call.ep].conn = call.conn => Fresh(session[call.ep])

ZoneInv == Types /\ Owned /\ AllTold

-----------------------------------------------------------------------------
(* Connections change places. *)

LEMMA OwnShrinks ==
  ASSUME NEW P, NEW S, NEW R, NEW k, NEW ke, NEW q, NEW n, Own(P, S, R, k, ke, q, n),
         NEW P2, NEW S2, NEW R2, NEW k2, NEW ke2, NEW q2,
         Fewer(P, P2), Ended(S, S2), R2 \subseteq R, GoesOn(k, ke, q, k2, ke2, q2)
  PROVE  Own(P2, S2, R2, k2, ke2, q2, n)
<1>1. \A z \in ZoneIds, e \in Endpoints : P2[z][e] # 0 => P2[z][e] = P[z][e] BY DEF Fewer
<1>2. \A e \in Endpoints : S2[e] # 0 => S2[e] = S[e] BY DEF Ended
<1>3. n \in Nat /\ P2 \in PlacesType /\ S2 \in NumbersType /\ k \in Nat BY DEF Own, Fewer, Ended
<1>4. \A z \in ZoneIds, e \in Endpoints : P2[z][e] <= n BY <1>1, <1>3 DEF Own, PlacesType
<1>5. \A e \in Endpoints : S2[e] <= n BY <1>2, <1>3 DEF Own, NumbersType
<1>6. k2 <= n /\ k2 \notin R2 /\ R2 \in SUBSET Nat /\ k2 \in Nat /\ \A c \in R2 : c # 0 /\ c <= n
  <2>1. R2 \in SUBSET Nat /\ \A c \in R2 : c # 0 /\ c <= n BY DEF Own
  <2>2. k <= n /\ k \notin R2 BY DEF Own
  <2> QED BY <1>3, <2>1, <2>2 DEF GoesOn
<1>7. \A z, y \in ZoneIds, e, d \in Endpoints :
        P2[z][e] # 0 /\ P2[y][d] = P2[z][e] => z = y /\ e = d
  BY <1>1 DEF Own
<1>8. \A z \in ZoneIds, e \in Endpoints : P2[z][e] # 0 => P2[z][e] \notin R2 /\ P2[z][e] # k2
  <2>1. \A z \in ZoneIds, e \in Endpoints : P[z][e] # 0 => P[z][e] \notin R /\ P[z][e] # k
    BY DEF Own
  <2> QED BY <1>1, <2>1 DEF GoesOn
<1>9. \A e, d \in Endpoints : S2[e] # 0 /\ S2[d] = S2[e] => d = e
  BY <1>2 DEF Own
<1>10. \A z \in ZoneIds, e, d \in Endpoints : P2[z][e] # 0 /\ S2[d] = P2[z][e] => d = e
  BY <1>1, <1>2 DEF Own
<1>11. k2 # 0 => \A d \in Endpoints : S2[d] = k2 => d = ke2 /\ k2 # q2
  BY <1>2 DEF Own, GoesOn
<1> QED BY <1>3, <1>4, <1>5, <1>6, <1>7, <1>8, <1>9, <1>10, <1>11 DEF Own

(* A call starts with a new connection. *)
LEMMA OwnStarts ==
  ASSUME NEW P, NEW S, NEW R, NEW ke, NEW q, NEW n, Own(P, S, R, 0, ke, q, n), NEW ke2, NEW q2
  PROVE  Own(P, S, R, n + 1, ke2, q2, n + 1)
<1>0. n \in Nat /\ P \in PlacesType /\ S \in NumbersType /\ R \in SUBSET Nat BY DEF Own
<1>1. \A x \in Nat : x <= n => x <= n + 1 /\ x # n + 1 BY <1>0
<1>2. n + 1 # 0 /\ n + 1 <= n + 1 /\ n + 1 \in Nat BY <1>0
<1>3. \A z \in ZoneIds, e \in Endpoints : P[z][e] <= n + 1 /\ P[z][e] # n + 1
  BY <1>0, <1>1 DEF Own, PlacesType
<1>4. \A e \in Endpoints : S[e] <= n + 1 /\ S[e] # n + 1
  BY <1>0, <1>1 DEF Own, NumbersType
<1>5. \A c \in R : c # 0 /\ c <= n + 1 /\ c # n + 1 BY <1>0, <1>1 DEF Own
<1> DEFINE m == n + 1
<1> HIDE DEF m
<1>6. Own(P, S, R, m, ke2, q2, m)
  BY <1>0, <1>2, <1>3, <1>4, <1>5 DEF Own, m
<1> QED BY <1>6 DEF m

(* The endpoint answers the call. *)
LEMMA OwnAnswers ==
  ASSUME NEW P, NEW S, NEW R, NEW k, NEW ke \in Endpoints, NEW n, Own(P, S, R, k, ke, k, n), k # 0,
         NEW S2, Answered(S, S2, ke, k)
  PROVE  Own(P, S2, R, k, ke, 0, n)
<1>1. \A d \in Endpoints : S[d] # k BY DEF Own
<1>2. \A z \in ZoneIds, e \in Endpoints : P[z][e] # k BY DEF Own
<1>3. \A e \in Endpoints : S2[e] <= n BY DEF Own, Answered
<1>4. \A e, d \in Endpoints : S2[e] # 0 /\ S2[d] = S2[e] => d = e BY <1>1 DEF Own, Answered
<1>5. \A z \in ZoneIds, e, d \in Endpoints : P[z][e] # 0 /\ S2[d] = P[z][e] => d = e
  BY <1>2 DEF Own, Answered
<1>6. \A d \in Endpoints : S2[d] = k => d = ke BY <1>1, Zenon DEF Answered
<1> QED BY <1>3, <1>4, <1>5, <1>6 DEF Own, Answered

(* The connection of the call becomes the one of an entry. *)
LEMMA OwnEnters ==
  ASSUME NEW P, NEW S, NEW R, NEW k, NEW ke \in Endpoints, NEW q, NEW n, Own(P, S, R, k, ke, q, n), k # 0,
         NEW x \in ZoneIds, NEW P2, Set(P, P2, x, ke, k), NEW ke2, NEW q2
  PROVE  Own(P2, S, R, 0, ke2, q2, n)
<1>1. \A z \in ZoneIds, e \in Endpoints : P[z][e] # k BY DEF Own
<1>2. \A z \in ZoneIds, e \in Endpoints : P2[z][e] <= n BY DEF Own, Set
<1>3. \A z, y \in ZoneIds, e, d \in Endpoints :
        P2[z][e] # 0 /\ P2[y][d] = P2[z][e] => z = y /\ e = d
  BY <1>1 DEF Own, Set
<1>4. \A z \in ZoneIds, e \in Endpoints : P2[z][e] # 0 => P2[z][e] \notin R
  BY DEF Own, Set
<1>5. \A z \in ZoneIds, e, d \in Endpoints : P2[z][e] # 0 /\ S[d] = P2[z][e] => d = e
  BY DEF Own, Set
<1>6. 0 <= n /\ 0 \notin R BY DEF Own
<1> QED BY <1>2, <1>3, <1>4, <1>5, <1>6 DEF Own, Set

(* An entry leaves its connection to a task. *)
LEMMA OwnLeaves ==
  ASSUME NEW P, NEW S, NEW R, NEW ke, NEW q, NEW n, Own(P, S, R, 0, ke, q, n),
         NEW x \in ZoneIds, NEW u \in Endpoints, NEW P2, Set(P, P2, x, u, 0),
         NEW R2, Freed(P, x, u, R, R2)
  PROVE  Own(P2, S, R2, 0, ke, q, n)
<1>0. P[x][u] # 0 /\ R2 = R \cup {P[x][u]} BY Zenon DEF Freed
<1>1. \A z \in ZoneIds, e \in Endpoints : P2[z][e] # 0 => P2[z][e] = P[z][e] /\ P[z][e] # P[x][u]
  BY <1>0 DEF Own, Set
<1>2. \A z \in ZoneIds, e \in Endpoints : P2[z][e] <= n BY DEF Own, Set
<1>3. R2 \in SUBSET Nat /\ \A c \in R2 : c # 0 /\ c <= n
  <2>1. P[x][u] \in Nat /\ P[x][u] <= n BY DEF Own, PlacesType
  <2>2. R \in SUBSET Nat /\ \A c \in R : c # 0 /\ c <= n BY DEF Own
  <2> QED BY <1>0, <2>1, <2>2, Zenon
<1>4. \A z, y \in ZoneIds, e, d \in Endpoints :
        P2[z][e] # 0 /\ P2[y][d] = P2[z][e] => z = y /\ e = d
  BY <1>1 DEF Own
<1>5. \A z \in ZoneIds, e, d \in Endpoints : P2[z][e] # 0 /\ S[d] = P2[z][e] => d = e
  BY <1>1 DEF Own
<1>6. \A z \in ZoneIds, e \in Endpoints : P2[z][e] # 0 => P2[z][e] \notin R2
  BY <1>0, <1>1 DEF Own
<1>7. 0 <= n /\ 0 \notin R2 BY <1>0 DEF Own
<1> QED BY <1>1, <1>2, <1>3, <1>4, <1>5, <1>6, <1>7 DEF Own, Set

-----------------------------------------------------------------------------
(* The state. *)

LEMMA PlacesFacts ==
  ASSUME NEW zs \in [ZoneIds -> Zn], NEW ss \in [Endpoints -> Sess]
  PROVE  /\ Places(zs) \in PlacesType /\ Numbers(ss) \in NumbersType
         /\ \A z \in ZoneIds, e \in Endpoints : /\ Places(zs)[z][e] = zs[z].entry[e].conn
                                                /\ zs[z].entry[e].conn \in Nat
         /\ \A e \in Endpoints : Numbers(ss)[e] = ss[e].conn
<1>1. \A z \in ZoneIds, e \in Endpoints : zs[z].entry[e].conn \in Nat BY DEF Zn
<1>2. \A e \in Endpoints : ss[e].conn \in Nat BY DEF Sess
<1> QED BY <1>1, <1>2 DEF Places, Numbers, PlacesType, NumbersType

LEMMA CallFacts ==
  ASSUME Types
  PROVE  CallConn(call) \in Nat /\ (call # NoCall <=> CallConn(call) # 0)
         /\ (call # NoCall => call \in Busy /\ CallConn(call) = call.conn)
BY DEF Types, CallConn, Busy

(* Nothing gets a new place. *)
LEMMA OwnedShrinks ==
  ASSUME Types, Types', Owned, conns' = conns, releasing' \subseteq releasing,
         \A z \in ZoneIds, e \in Endpoints :
           zones'[z].entry[e].conn = 0 \/ zones'[z].entry[e].conn = zones[z].entry[e].conn,
         \A e \in Endpoints : session'[e].conn = 0 \/ session'[e].conn = session[e].conn,
         \/ call' = NoCall
         \/ /\ call # NoCall /\ call' # NoCall /\ call'.conn = call.conn /\ call'.ep = call.ep
            /\ Asked(call') = call.conn => Asked(call) = call.conn,
         \A c \in open' :
           /\ c \in open /\ (c = CallConn(call) => c = CallConn(call'))
           /\ c \in releasing => c \in releasing'
           /\ \A z \in ZoneIds, e \in Endpoints :
                zones[z].entry[e].conn = c => zones'[z].entry[e].conn = c
  PROVE  Owned'
<1> DEFINE P == Places(zones)
           P2 == Places(zones')
           S == Numbers(session)
           S2 == Numbers(session')
           k == CallConn(call)
           k2 == CallConn(call')
           a == Asked(call)
           a2 == Asked(call')
           u == call.ep
           u2 == call'.ep
<1>1. zones \in [ZoneIds -> Zn] /\ session \in [Endpoints -> Sess] /\ conns \in Nat
  BY DEF Types
<1>2. zones' \in [ZoneIds -> Zn] /\ session' \in [Endpoints -> Sess] BY Zenon DEF Types
<1>3. /\ P \in PlacesType /\ S \in NumbersType /\ P2 \in PlacesType /\ S2 \in NumbersType
      /\ \A z \in ZoneIds, e \in Endpoints : P[z][e] = zones[z].entry[e].conn
      /\ \A z \in ZoneIds, e \in Endpoints : P2[z][e] = zones'[z].entry[e].conn
      /\ \A e \in Endpoints : S[e] = session[e].conn
      /\ \A e \in Endpoints : S2[e] = session'[e].conn
  BY <1>1, <1>2, PlacesFacts
<1>4. k \in Nat BY CallFacts
<1>5. k2 = 0 \/ (k2 = k /\ u2 = u /\ (a2 = k => a = k))
  <2>1. CASE call' = NoCall BY <2>1 DEF CallConn
  <2>2. CASE call' # NoCall
    <3>1. call # NoCall /\ call'.conn = call.conn /\ call'.ep = call.ep
          /\ (a2 = call.conn => a = call.conn)
      BY <2>2
    <3>2. k2 = call'.conn BY <2>2 DEF CallConn
    <3>3. k = call.conn BY <3>1, Zenon DEF CallConn
    <3> QED BY <3>1, <3>2, <3>3
  <2> QED BY <2>1, <2>2
<1>6. Own(P, S, releasing, k, u, a, conns) /\ Placed(open, P, releasing, k)
  BY DEF Owned
<1> HIDE DEF P, P2, S, S2, k, k2, a, a2, u, u2
<1>7. Fewer(P, P2) /\ Ended(S, S2) BY <1>3 DEF Fewer, Ended
<1>8. GoesOn(k, u, a, k2, u2, a2) BY <1>5, Zenon DEF GoesOn
<1>9. Own(P2, S2, releasing', k2, u2, a2, conns)
  BY <1>6, <1>7, <1>8, OwnShrinks
<1>10. Placed(open', P2, releasing', k2)
  <2> SUFFICES ASSUME NEW c \in open'
               PROVE  c # 0 /\ (c = k2 \/ c \in releasing'
                                 \/ \E z \in ZoneIds, e \in Endpoints : P2[z][e] = c)
    BY DEF Placed
  <2>1. c \in open /\ (c = k => c = k2) BY Zenon DEF k, k2
  <2>2. c # 0 /\ (c = k \/ c \in releasing \/ \E z \in ZoneIds, e \in Endpoints : P[z][e] = c)
    BY <1>6, <2>1 DEF Placed
  <2>3. \A z \in ZoneIds, e \in Endpoints : P[z][e] = c => P2[z][e] = c BY <1>3
  <2> QED BY <2>1, <2>2, <2>3
<1> QED BY <1>9, <1>10 DEF Owned, P2, S2, k2, a2, u2

(* Who hears a message to the members of a zone. *)
LEMMA ReachedIs ==
  ASSUME NEW zn, \A e, d \in Endpoints : zn.entry[e].conn # 0 /\ session[d].conn = zn.entry[e].conn => d = e
  PROVE  \A e \in Endpoints : e \in Reached(zn) <=> UpFor(zn.entry[e].conn, open, session[e])
BY DEF Reached, Members, Up, UpFor

LEMMA NumbersBounded ==
  ASSUME Types, Owned
  PROVE  \A z \in ZoneIds, e \in Endpoints :
           zones[z].entry[e].conn # conns + 1 /\ session[e].conn # conns + 1
<1>1. zones \in [ZoneIds -> Zn] /\ session \in [Endpoints -> Sess] /\ conns \in Nat BY DEF Types
<1>2. /\ \A z \in ZoneIds, e \in Endpoints : /\ Places(zones)[z][e] = zones[z].entry[e].conn
                                              /\ zones[z].entry[e].conn \in Nat
      /\ \A e \in Endpoints : Numbers(session)[e] = session[e].conn
  BY <1>1, PlacesFacts
<1>3. \A e \in Endpoints : session[e].conn \in Nat BY <1>1 DEF Sess
<1>4. Own(Places(zones), Numbers(session), releasing, CallConn(call), call.ep, Asked(call), conns)
  BY DEF Owned
<1>5. /\ \A z \in ZoneIds, e \in Endpoints : zones[z].entry[e].conn <= conns
      /\ \A e \in Endpoints : session[e].conn <= conns
  BY <1>2, <1>4, Zenon DEF Own
<1> QED BY <1>1, <1>2, <1>3, <1>5

LEMMA OwnedFacts ==
  ASSUME Types, Owned
  PROVE  /\ \A z, y \in ZoneIds, e, d \in Endpoints :
              zones[z].entry[e].conn # 0 /\ zones[y].entry[d].conn = zones[z].entry[e].conn => z = y /\ e = d
         /\ \A z \in ZoneIds, e, d \in Endpoints :
              zones[z].entry[e].conn # 0 /\ session[d].conn = zones[z].entry[e].conn => d = e
         /\ \A z \in ZoneIds, e \in Endpoints :
              zones[z].entry[e].conn # 0 =>
                /\ zones[z].entry[e].conn \notin releasing
                /\ call # NoCall => call.conn # zones[z].entry[e].conn
         /\ call # NoCall => /\ call.conn \notin releasing
                             /\ \A d \in Endpoints : session[d].conn = call.conn => d = call.ep /\ call.conn # Asked(call)
<1>1. zones \in [ZoneIds -> Zn] /\ session \in [Endpoints -> Sess] BY DEF Types
<1>2. /\ \A z \in ZoneIds, e \in Endpoints : Places(zones)[z][e] = zones[z].entry[e].conn
      /\ \A e \in Endpoints : Numbers(session)[e] = session[e].conn
  BY <1>1, PlacesFacts
<1>3. Own(Places(zones), Numbers(session), releasing, CallConn(call), call.ep, Asked(call), conns)
  BY DEF Owned
<1>4. (call # NoCall <=> CallConn(call) # 0) /\ (call # NoCall => CallConn(call) = call.conn)
  BY CallFacts
<1> QED BY <1>2, <1>3, <1>4 DEF Own

-----------------------------------------------------------------------------
(* Types. *)

Entry == [conn : Nat, state : States]

LEMMA ZnParts ==
  ASSUME NEW zn \in Zn
  PROVE  /\ zn.live \in BOOLEAN /\ zn.entry \in [Endpoints -> Entry] /\ zn.master \in 0..100
         /\ zn.offset \in [Endpoints -> Int] /\ zn.active \in BOOLEAN /\ zn.playing \in BOOLEAN
         /\ \A f \in [Endpoints -> Entry] : [zn EXCEPT !.entry = f] \in Zn
         /\ \A e \in Endpoints, x \in Entry : [zn EXCEPT !.entry[e] = x] \in Zn
         /\ \A e \in Endpoints, n \in Int : [zn EXCEPT !.offset[e] = n] \in Zn
         /\ \A n \in 0..100 : [zn EXCEPT !.master = n] \in Zn
         /\ \A a, p \in BOOLEAN : [zn EXCEPT !.active = a, !.playing = p] \in Zn
         /\ \A e \in Endpoints : Without(zn, e) \in Zn
<1>1. /\ zn.live \in BOOLEAN /\ zn.entry \in [Endpoints -> Entry] /\ zn.master \in 0..100
      /\ zn.offset \in [Endpoints -> Int] /\ zn.active \in BOOLEAN /\ zn.playing \in BOOLEAN
  BY DEF Zn, Entry
<1>2. \A f \in [Endpoints -> Entry] : [zn EXCEPT !.entry = f] \in Zn BY DEF Zn, Entry
<1>3. ASSUME NEW e \in Endpoints, NEW x \in Entry PROVE [zn EXCEPT !.entry[e] = x] \in Zn
  <2>1. [zn.entry EXCEPT ![e] = x] \in [Endpoints -> Entry] BY <1>1
  <2>2. [zn EXCEPT !.entry[e] = x] = [zn EXCEPT !.entry = [zn.entry EXCEPT ![e] = x]] BY DEF Zn
  <2> QED BY <1>2, <2>1, <2>2, Zenon
<1>4. ASSUME NEW e \in Endpoints, NEW n \in Int PROVE [zn EXCEPT !.offset[e] = n] \in Zn
  <2>1. [zn.offset EXCEPT ![e] = n] \in [Endpoints -> Int] BY <1>1
  <2> QED BY <2>1, Zenon DEF Zn
<1>5. \A n \in 0..100 : [zn EXCEPT !.master = n] \in Zn BY DEF Zn
<1>6. \A a, p \in BOOLEAN : [zn EXCEPT !.active = a, !.playing = p] \in Zn BY Zenon DEF Zn
<1>7. ASSUME NEW e \in Endpoints PROVE Without(zn, e) \in Zn
  <2>1. NoEntry \in Entry BY DEF NoEntry, Entry, States
  <2>2. [zn.entry EXCEPT ![e] = NoEntry] \in [Endpoints -> Entry] BY <1>1, <2>1
  <2>3. [zn.offset EXCEPT ![e] = 0] \in [Endpoints -> Int] BY <1>1
  <2>4. Without(zn, e) = [zn EXCEPT !.entry = [zn.entry EXCEPT ![e] = NoEntry],
                                    !.offset = [zn.offset EXCEPT ![e] = 0]]
    BY DEF Without, Zn
  <2> QED BY <2>2, <2>3, <2>4, Zenon DEF Zn, Entry
<1> QED BY <1>1, <1>2, <1>3, <1>4, <1>5, <1>6, <1>7, Zenon

LEMMA EffectiveType ==
  ASSUME NEW zn \in Zn, NEW e \in Endpoints
  PROVE  Effective(zn, e) \in Int
<1>1. zn.master \in 0..100 /\ zn.offset \in [Endpoints -> Int] BY DEF Zn
<1> QED BY <1>1 DEF Effective, Clamp

LEMMA SessParts ==
  ASSUME NEW s \in Sess
  PROVE  /\ \A m \in SUBSET Endpoints : [s EXCEPT !.peers = m] \in Sess
         /\ \A v \in Int : [s EXCEPT !.vol = v] \in Sess
         /\ \A a \in {"idle", "format", "playing"} : [s EXCEPT !.audio = a] \in Sess
         /\ \A zn \in Zn, e \in Endpoints : CaughtUp(s, zn, e) \in Sess
<1>1. \A m \in SUBSET Endpoints : [s EXCEPT !.peers = m] \in Sess BY DEF Sess
<1>2. \A v \in Int : [s EXCEPT !.vol = v] \in Sess BY DEF Sess
<1>3. \A a \in {"idle", "format", "playing"} : [s EXCEPT !.audio = a] \in Sess BY DEF Sess
<1>4. ASSUME NEW a \in {"idle", "format", "playing"}, NEW v \in Int
      PROVE  [s EXCEPT !.joined = TRUE, !.audio = a, !.vol = v] \in Sess
  BY DEF Sess
<1>5. ASSUME NEW zn \in Zn, NEW e \in Endpoints PROVE CaughtUp(s, zn, e) \in Sess
  <2> DEFINE a == IF ~zn.active THEN s.audio ELSE IF zn.playing THEN "playing" ELSE "format"
             v == IF zn.active THEN Effective(zn, e) ELSE s.vol
  <2>1. a \in {"idle", "format", "playing"} BY DEF Sess
  <2>2. v \in Int BY EffectiveType DEF Sess
  <2>3. CaughtUp(s, zn, e) = [s EXCEPT !.joined = TRUE, !.audio = a, !.vol = v] BY DEF CaughtUp, Sess
  <2> HIDE DEF a, v
  <2> QED BY <1>4, <2>1, <2>2, <2>3, Zenon
<1> QED BY <1>1, <1>2, <1>3, <1>5

LEMMA NewTypes ==
  /\ NewZone \in Zn /\ NoZone \in Zn /\ NoEntry \in Entry
  /\ \A c \in Nat : NewSession(c) \in Sess
  /\ NoSession \in Sess
<1>1. NoEntry \in Entry BY Zenon DEF NoEntry, Entry, States
<1>2. NewZone \in Zn BY <1>1 DEF NewZone, Zn, Entry
<1>3. NoZone \in Zn BY <1>2, Zenon DEF NoZone, Zn
<1>4. \A c \in Nat : NewSession(c) \in Sess BY DEF NewSession, Sess, Unset
<1>5. NoSession \in Sess BY <1>4 DEF NoSession
<1> QED BY <1>1, <1>2, <1>3, <1>4, <1>5

LEMMA BroadcastType ==
  ASSUME NEW ss \in [Endpoints -> Sess], NEW zn
  PROVE  Broadcast(ss, zn) \in [Endpoints -> Sess]
BY SessParts DEF Broadcast, Members

LEMMA SpreadType ==
  ASSUME session \in [Endpoints -> Sess], NEW zn \in Zn
  PROVE  /\ \A what \in {"idle", "format", "playing"} :
              Audio(zn, what) => session' \in [Endpoints -> Sess]
         /\ \A who : Volume(zn, who) => session' \in [Endpoints -> Sess]
<1>1. ASSUME NEW what \in {"idle", "format", "playing"}, Audio(zn, what)
      PROVE  session' \in [Endpoints -> Sess]
  <2>1. \A e \in Endpoints : [session[e] EXCEPT !.audio = what] \in Sess BY SessParts, Zenon
  <2> QED BY <1>1, <2>1 DEF Audio
<1>2. ASSUME NEW who, Volume(zn, who) PROVE session' \in [Endpoints -> Sess]
  <2>1. \A e \in Endpoints : [session[e] EXCEPT !.vol = Effective(zn, e)] \in Sess
    BY SessParts, EffectiveType, Zenon
  <2> QED BY <1>2, <2>1 DEF Volume
<1> QED BY <1>1, <1>2

-----------------------------------------------------------------------------
(* Steps that tell no endpoint anything. *)

(* What a member that is up was told stays true. *)
Stays(zn, zn2, e) ==
  /\ Members(zn2) \subseteq Members(zn)
  /\ zn2.master = zn.master /\ zn2.offset[e] = zn.offset[e]
  /\ zn2.active = zn.active /\ zn2.playing = zn.playing
  /\ zn2.entry[e].state = zn.entry[e].state \/ zn2.entry[e].state = "degraded"

LEMMA ToldStays ==
  ASSUME NEW zn, NEW zn2, NEW e, NEW s, Told(zn, e, s), Stays(zn, zn2, e)
  PROVE  Told(zn2, e, s)
<1>1. Members(zn2) \subseteq s.peers BY DEF Told, Stays
<1>2. Effective(zn2, e) = Effective(zn, e) BY Zenon DEF Stays, Effective
<1> QED BY <1>1, <1>2 DEF Told, Stays

(* Whether a call goes on as the same call. *)
CallStays ==
  \/ call' = NoCall
  \/ /\ call # NoCall /\ call' # NoCall /\ call'.conn = call.conn /\ call'.ep = call.ep
     /\ Asked(call') = call.conn => Asked(call) = call.conn

OpenStays ==
  \A c \in open' :
    /\ c \in open /\ (c = CallConn(call) => c = CallConn(call'))
    /\ c \in releasing => c \in releasing'
    /\ \A z \in ZoneIds, e \in Endpoints :
         zones[z].entry[e].conn = c => zones'[z].entry[e].conn = c

LEMMA QuietStep ==
  ASSUME ZoneInv, Types', conns' = conns, releasing' \subseteq releasing, CallStays, OpenStays,
         \A e \in Endpoints : session'[e] = session[e] \/ session'[e].conn = 0,
         \A z \in ZoneIds, e \in Endpoints :
           \/ zones'[z].entry[e].conn = 0
           \/ /\ zones'[z].entry[e].conn = zones[z].entry[e].conn
              /\ UpFor(zones[z].entry[e].conn, open, session[e]) => Stays(zones[z], zones'[z], e),
         \A z \in ZoneIds : zones'[z].playing => zones'[z].active
  PROVE  ZoneInv'
<1>1. Owned'
  <2>1. Types /\ Owned BY Zenon DEF ZoneInv
  <2>2. \A z \in ZoneIds, e \in Endpoints :
          zones'[z].entry[e].conn = 0 \/ zones'[z].entry[e].conn = zones[z].entry[e].conn
    BY Zenon
  <2>3. \A e \in Endpoints : session'[e].conn = 0 \/ session'[e].conn = session[e].conn BY Zenon
  <2> QED BY <2>1, <2>2, <2>3, OwnedShrinks, Zenon DEF CallStays, OpenStays
<1>2. ASSUME NEW z \in ZoneIds, NEW e \in Endpoints, UpFor(zones'[z].entry[e].conn, open', session'[e])
      PROVE  Told(zones'[z], e, session'[e])
  <2>1. zones'[z].entry[e].conn # 0 /\ zones'[z].entry[e].conn \in open' /\ session'[e].conn # 0
    BY <1>2, Zenon DEF UpFor
  <2>2. session'[e] = session[e] /\ zones'[z].entry[e].conn = zones[z].entry[e].conn BY <2>1, Zenon
  <2>3. UpFor(zones[z].entry[e].conn, open, session[e]) BY <1>2, <2>1, <2>2, Zenon DEF UpFor, OpenStays
  <2>4. Told(zones[z], e, session[e]) /\ Stays(zones[z], zones'[z], e)
    BY <2>1, <2>2, <2>3, Zenon DEF ZoneInv, AllTold
  <2> QED BY <2>2, <2>4, ToldStays, Zenon
<1>3. ASSUME call' # NoCall, session'[call'.ep].conn = call'.conn
      PROVE  Fresh(session'[call'.ep])
  <2>1. call # NoCall /\ call'.conn = call.conn /\ call'.ep = call.ep BY <1>3 DEF CallStays
  <2>2. call.conn # 0 /\ call.ep \in Endpoints BY <2>1, Zenon DEF ZoneInv, Types, Busy
  <2>3. session'[call.ep] = session[call.ep] BY <1>3, <2>1, <2>2, Zenon
  <2> QED BY <1>3, <2>1, <2>3, Zenon DEF ZoneInv, AllTold
<1> QED BY <1>1, <1>2, <1>3, Zenon DEF ZoneInv, AllTold

(* A zone is created anew or dissolved: it has no entry. *)
LEMMA EmptiesZone ==
  ASSUME ZoneInv, NEW x \in ZoneIds, NEW zn \in Zn, ~zn.playing,
         \A e \in Endpoints : zn.entry[e].conn = 0,
         zones' = [zones EXCEPT ![x] = zn],
         open' = open \ {zones[x].entry[e].conn : e \in Endpoints},
         UNCHANGED <<conns, session, releasing, call>>
  PROVE  ZoneInv'
<1>1. zones'[x] = zn /\ \A z \in ZoneIds \ {x} : zones'[z] = zones[z] BY DEF ZoneInv, Types
<1>2. Types' BY Zenon DEF ZoneInv, Types
<1>3. CallStays BY DEF CallStays
<1>4. OpenStays BY <1>1 DEF OpenStays
<1>5. \A z \in ZoneIds, e \in Endpoints : zones'[z].entry[e].conn = 0 \/ zones'[z] = zones[z]
  BY <1>1
<1>6. \A z \in ZoneIds, e \in Endpoints : Stays(zones[z], zones[z], e) BY Zenon DEF Stays
<1>7. \A z \in ZoneIds : zones'[z].playing => zones'[z].active BY <1>1, Zenon DEF ZoneInv, AllTold
<1> QED BY <1>2, <1>3, <1>4, <1>5, <1>6, <1>7, QuietStep

LEMMA CreateStep == ASSUME ZoneInv, NEW z \in ZoneIds, CreateZone(z) PROVE ZoneInv'
<1>1. ~NewZone.playing /\ \A e \in Endpoints : NewZone.entry[e].conn = 0 BY Zenon DEF NewZone, NoEntry
<1> QED BY <1>1, NewTypes, EmptiesZone, Zenon DEF CreateZone

LEMMA DissolveStep == ASSUME ZoneInv, NEW z \in ZoneIds, DissolveZone(z) PROVE ZoneInv'
<1>1. ~NoZone.playing /\ \A e \in Endpoints : NoZone.entry[e].conn = 0
  BY DEF NoZone, NewZone, NoEntry
<1> QED BY <1>1, NewTypes, EmptiesZone DEF DissolveZone
LEMMA PruneStep == ASSUME ZoneInv, NEW x \in ZoneIds, PruneDisconnected(x) PROVE ZoneInv'
<1> DEFINE gone == Dead(zones[x])
           zn == [zones[x] EXCEPT
                    !.entry = [e \in Endpoints |-> IF e \in gone THEN NoEntry ELSE zones[x].entry[e]],
                    !.offset = [e \in Endpoints |-> IF e \in gone THEN 0 ELSE zones[x].offset[e]]]
<1>1. zones \in [ZoneIds -> Zn] /\ zones[x] \in Zn BY DEF ZoneInv, Types
<1>2. /\ zones' = [zones EXCEPT
           ![x].entry = [e \in Endpoints |-> IF e \in gone THEN NoEntry ELSE @[e]],
           ![x].offset = [e \in Endpoints |-> IF e \in gone THEN 0 ELSE @[e]]]
      /\ open' = open \ {zones[x].entry[e].conn : e \in gone}
      /\ UNCHANGED <<conns, session, releasing, call>>
  BY DEF PruneDisconnected
<1>3. zones' = [zones EXCEPT ![x] = zn] BY <1>1, <1>2 DEF Zn
<1>4. zn \in Zn
  <2>1. /\ zones[x].entry \in [Endpoints -> Entry] /\ zones[x].offset \in [Endpoints -> Int]
    BY <1>1, ZnParts, Zenon
  <2>2. NoEntry \in Entry BY NewTypes
  <2>3. [e \in Endpoints |-> IF e \in gone THEN NoEntry ELSE zones[x].entry[e]] \in [Endpoints -> Entry]
    BY <2>1, <2>2
  <2>4. [e \in Endpoints |-> IF e \in gone THEN 0 ELSE zones[x].offset[e]] \in [Endpoints -> Int]
    BY <2>1
  <2> QED BY <1>1, <2>3, <2>4, Zenon DEF Zn, Entry
<1>5. /\ \A e \in Endpoints : e \in gone => zn.entry[e].conn = 0
      /\ \A e \in Endpoints : e \notin gone => zn.entry[e] = zones[x].entry[e] /\ zn.offset[e] = zones[x].offset[e]
      /\ zn.master = zones[x].master /\ zn.active = zones[x].active /\ zn.playing = zones[x].playing
  BY <1>1, Zenon DEF Zn, NoEntry
<1> HIDE DEF zn, gone
<1>6. \A e \in Endpoints : e \notin gone => Stays(zones[x], zn, e)
  BY <1>5 DEF Stays, Members
<1>7. zones'[x] = zn /\ \A z \in ZoneIds \ {x} : zones'[z] = zones[z] BY <1>1, <1>3
<1>8. Types' BY <1>1, <1>2, <1>3, <1>4, Zenon DEF ZoneInv, Types
<1>9. CallStays BY <1>2 DEF CallStays
<1>10. OpenStays
  <2>1. ASSUME NEW c \in open', NEW e \in Endpoints, zones[x].entry[e].conn = c
        PROVE  zones'[x].entry[e].conn = c
    <3>1. e \notin gone BY <1>2, <2>1, Zenon
    <3> QED BY <1>5, <1>7, <2>1, <3>1
  <2>2. \A c \in open', z \in ZoneIds, e \in Endpoints :
          zones[z].entry[e].conn = c => zones'[z].entry[e].conn = c
    BY <1>7, <2>1
  <2> QED BY <1>2, <2>2, Zenon DEF OpenStays
<1>11. \A z \in ZoneIds, e \in Endpoints : Stays(zones[z], zones[z], e) BY Zenon DEF Stays
<1>12. \A z \in ZoneIds, e \in Endpoints :
         \/ zones'[z].entry[e].conn = 0
         \/ zones'[z].entry[e].conn = zones[z].entry[e].conn /\ Stays(zones[z], zones'[z], e)
  BY <1>5, <1>6, <1>7, <1>11
<1>13. \A z \in ZoneIds : zones'[z].playing => zones'[z].active BY <1>5, <1>7, Zenon DEF ZoneInv, AllTold
<1> QED BY <1>2, <1>8, <1>9, <1>10, <1>12, <1>13, QuietStep, Zenon

(* Steps that leave the zones alone. *)
LEMMA ZonesStay ==
  ASSUME ZoneInv, Types', UNCHANGED <<zones, conns>>, releasing' \subseteq releasing, CallStays,
         \A c \in open' : /\ c \in open /\ (c = CallConn(call) => c = CallConn(call'))
                          /\ c \in releasing => c \in releasing',
         \A e \in Endpoints : session'[e] = session[e] \/ session'[e].conn = 0
  PROVE  ZoneInv'
<1>1. OpenStays BY DEF OpenStays
<1>2. \A z \in ZoneIds, e \in Endpoints : Stays(zones[z], zones'[z], e) BY Zenon DEF Stays
<1>3. \A z \in ZoneIds : zones'[z].playing => zones'[z].active BY DEF ZoneInv, AllTold
<1> QED BY <1>1, <1>2, <1>3, QuietStep

LEMMA AddingIsCall ==
  ASSUME Types, call.kind # "none"
  PROVE  call # NoCall /\ call \in Busy /\ call.conn # 0 /\ call.ep \in Endpoints /\ call.zone \in ZoneIds
         /\ CallConn(call) = call.conn
<1>1. call # NoCall BY DEF NoCall
<1> QED BY <1>1 DEF Types, Busy, CallConn

LEMMA ConnectFailsStep == ASSUME ZoneInv, ConnectFails PROVE ZoneInv'
<1>1. Types' BY DEF ZoneInv, Types, ConnectFails
<1>2. call.kind # "none" BY DEF ConnectFails, Adding
<1>3. CallConn(call) = call.conn BY <1>2, AddingIsCall DEF ZoneInv
<1>4. CallStays BY DEF ConnectFails, CallStays
<1> QED BY <1>1, <1>3, <1>4, ZonesStay DEF ConnectFails

LEMMA SyncHangsStep == ASSUME ZoneInv, SyncHangs PROVE ZoneInv'
<1>1. call.kind # "none" BY DEF SyncHangs
<1>2. call # NoCall /\ call \in Busy /\ call.conn # 0 BY <1>1, AddingIsCall DEF ZoneInv
<1>3. call' \in Busy /\ call'.conn = call.conn /\ call'.ep = call.ep /\ call'.kind = "hung"
  BY <1>2 DEF SyncHangs, Busy
<1>4. call' # NoCall /\ Asked(call') = 0 BY <1>3 DEF NoCall, Asked
<1>5. Types' BY <1>2, <1>3, Zenon DEF ZoneInv, Types, SyncHangs
<1>6. CallStays BY <1>2, <1>3, <1>4 DEF CallStays
<1>7. CallConn(call') = CallConn(call) BY <1>2, <1>3, <1>4 DEF CallConn
<1> QED BY <1>5, <1>6, <1>7, ZonesStay DEF SyncHangs

LEMMA SameCall == call' = call => CallStays
BY Zenon DEF CallStays

LEMMA ReleaseStep == ASSUME ZoneInv, NEW c \in releasing, Release(c) PROVE ZoneInv'
<1>1. Types' BY DEF ZoneInv, Types, Release
<1>2. CallStays BY SameCall DEF Release
<1> QED BY <1>1, <1>2, ZonesStay DEF Release

LEMMA SessionEnds ==
  ASSUME ZoneInv, NEW e \in Endpoints, SeesDropped(e) \/ SessionDies(e)
  PROVE  ZoneInv'
<1>1. session' = [session EXCEPT ![e] = NoSession] /\ UNCHANGED <<zones, conns, open, releasing, call>>
  BY Zenon DEF SeesDropped, SessionDies
<1>2. Types' BY <1>1, NewTypes DEF ZoneInv, Types
<1>3. CallStays BY <1>1, SameCall, Zenon
<1>4. \A d \in Endpoints : session'[d] = session[d] \/ session'[d].conn = 0
  BY <1>1, Zenon DEF ZoneInv, Types, NoSession, NewSession
<1> QED BY <1>1, <1>2, <1>3, <1>4, ZonesStay

(* The state of one entry changes, which is not up or becomes degraded. *)
LEMMA StateChanges ==
  ASSUME ZoneInv, NEW x \in ZoneIds, NEW u \in Endpoints, NEW st \in States,
         zones' = [zones EXCEPT ![x].entry[u].state = st],
         st = "degraded" \/ ~UpFor(zones[x].entry[u].conn, open, session[u]),
         UNCHANGED <<conns, open, session, releasing, call>>
  PROVE  ZoneInv'
<1> DEFINE zn == [zones[x] EXCEPT !.entry = [zones[x].entry EXCEPT ![u] = [zones[x].entry[u] EXCEPT !.state = st]]]
<1>1. zones \in [ZoneIds -> Zn] /\ zones[x] \in Zn BY DEF ZoneInv, Types
<1>2. zones[x].entry \in [Endpoints -> Entry] BY <1>1, ZnParts, Zenon
<1>3. [zones[x].entry[u] EXCEPT !.state = st] \in Entry BY <1>2 DEF Entry
<1>4. [zones[x].entry EXCEPT ![u] = [zones[x].entry[u] EXCEPT !.state = st]] \in [Endpoints -> Entry]
  BY <1>2, <1>3
<1>5. zn \in Zn BY <1>1, <1>4, ZnParts, Zenon
<1>6. zones' = [zones EXCEPT ![x] = zn] BY <1>1, <1>2, Zenon DEF Zn
<1>7. /\ \A e \in Endpoints : zn.entry[e].conn = zones[x].entry[e].conn
      /\ \A e \in Endpoints : e # u => zn.entry[e] = zones[x].entry[e]
      /\ zn.entry[u].state = st
      /\ zn.master = zones[x].master /\ zn.active = zones[x].active /\ zn.playing = zones[x].playing
      /\ zn.offset = zones[x].offset
  BY <1>1, <1>2 DEF Zn, Entry
<1> HIDE DEF zn
<1>8. \A e \in Endpoints : UpFor(zones[x].entry[e].conn, open, session[e]) => Stays(zones[x], zn, e)
  BY <1>7 DEF Stays, Members
<1>9. zones'[x] = zn /\ \A z \in ZoneIds \ {x} : zones'[z] = zones[z] BY <1>1, <1>6
<1>10. Types' BY <1>1, <1>5, <1>6 DEF ZoneInv, Types
<1>11. CallStays BY SameCall, Zenon
<1>12. OpenStays BY <1>7, <1>9 DEF OpenStays
<1>13. \A z \in ZoneIds, e \in Endpoints : Stays(zones[z], zones[z], e) BY Zenon DEF Stays
<1>14. \A z \in ZoneIds, e \in Endpoints :
         /\ zones'[z].entry[e].conn = zones[z].entry[e].conn
         /\ UpFor(zones[z].entry[e].conn, open, session[e]) => Stays(zones[z], zones'[z], e)
  BY <1>7, <1>8, <1>9, <1>13
<1>15. \A z \in ZoneIds : zones'[z].playing => zones'[z].active BY <1>7, <1>9 DEF ZoneInv, AllTold
<1> QED BY <1>10, <1>11, <1>12, <1>14, <1>15, QuietStep

LEMMA MarkSteps ==
  ASSUME ZoneInv, NEW z \in ZoneIds, NEW e \in Endpoints, MarkDisconnected(z, e) \/ MarkDegraded(z, e)
  PROVE  ZoneInv'
<1>1. CASE MarkDisconnected(z, e)
  <2>1. ~UpFor(zones[z].entry[e].conn, open, session[e])
    BY <1>1, Zenon DEF MarkDisconnected, Reached, Members, Up, UpFor
  <2>2. "disconnected" \in States BY DEF States
  <2> QED BY <1>1, <2>1, <2>2, StateChanges, Zenon DEF MarkDisconnected
<1>2. CASE MarkDegraded(z, e)
  <2>1. "degraded" \in States BY DEF States
  <2> QED BY <1>2, <2>1, StateChanges, Zenon DEF MarkDegraded
<1> QED BY <1>1, <1>2, Zenon

-----------------------------------------------------------------------------
(* Calls begin, and endpoints leave. *)

(* A call begins on connection n + 1. *)
LEMMA CallStarts ==
  ASSUME NEW P, NEW S, NEW R, NEW u, NEW q, Own(P, S, R, 0, u, q, conns), Placed(open, P, R, 0),
         call' # NoCall, call'.conn = conns + 1, conns' = conns + 1, open' = open \cup {conns + 1}
  PROVE  Own(P, S, R, CallConn(call'), call'.ep, Asked(call'), conns') /\ Placed(open', P, R, CallConn(call'))
<1> DEFINE k == CallConn(call')
           ke == call'.ep
           a == Asked(call')
<1>1. k = conns + 1 BY DEF CallConn
<1>2. conns \in Nat BY Zenon DEF Own
<1> HIDE DEF k, ke, a
<1>3. Own(P, S, R, conns + 1, ke, a, conns + 1) BY OwnStarts
<1>4. Own(P, S, R, k, ke, a, conns') BY <1>1, <1>3
<1>5. Placed(open', P, R, k) BY <1>1, <1>2 DEF Placed
<1> QED BY <1>4, <1>5 DEF k, ke, a

(* What all three ways to remove an endpoint have in common. *)
Leaves(x, u) ==
  /\ zones' \in [ZoneIds -> Zn]
  /\ zones[x].entry[u].conn # 0 /\ zones'[x].entry[u].conn = 0
  /\ zones[x].entry[u].conn \in Nat
  /\ \A z \in ZoneIds, e \in Endpoints :
       z # x \/ e # u => /\ zones'[z].entry[e].conn = zones[z].entry[e].conn
                        /\ Stays(zones[z], zones'[z], e)
  /\ \A z \in ZoneIds : zones'[z].playing => zones'[z].active

(* Endpoint u leaves zone x, and its connection goes to a task. *)
LEMMA EntryLeaves ==
  ASSUME Types, Types', Owned, call = NoCall, NEW x \in ZoneIds, NEW u \in Endpoints,
         Leaves(x, u), \A e \in Endpoints : session'[e].conn = session[e].conn,
         releasing' = releasing \cup {zones[x].entry[u].conn}
  PROVE  /\ Own(Places(zones'), Numbers(session'), releasing', 0, call.ep, Asked(call), conns)
         /\ Placed(open, Places(zones'), releasing', 0)
<1> DEFINE P == Places(zones)
           P2 == Places(zones')
           S == Numbers(session)
           S2 == Numbers(session')
           ke == call.ep
           a == Asked(call)
<1>1. zones \in [ZoneIds -> Zn] /\ session \in [Endpoints -> Sess] BY Zenon DEF Types
<1>2. zones' \in [ZoneIds -> Zn] /\ session' \in [Endpoints -> Sess] BY Zenon DEF Types
<1>3. /\ P2 \in PlacesType
      /\ \A z \in ZoneIds, e \in Endpoints : P[z][e] = zones[z].entry[e].conn
      /\ \A z \in ZoneIds, e \in Endpoints : P2[z][e] = zones'[z].entry[e].conn
  BY <1>1, <1>2, PlacesFacts, Zenon
<1>4. S2 = S BY Zenon DEF Numbers
<1>5. CallConn(call) = 0 BY Zenon DEF CallConn
<1>6. Own(P, S, releasing, 0, ke, a, conns) /\ Placed(open, P, releasing, 0)
  BY <1>5, Zenon DEF Owned
<1> HIDE DEF P, P2, S, S2, ke, a
<1>7. P[x][u] = zones[x].entry[u].conn /\ P[x][u] # 0 BY <1>3, Zenon DEF Leaves
<1>8. Set(P, P2, x, u, 0)
  <2>1. zones'[x].entry[u].conn = 0 BY Zenon DEF Leaves
  <2>2. \A z \in ZoneIds, e \in Endpoints :
          z # x \/ e # u => zones'[z].entry[e].conn = zones[z].entry[e].conn
    BY Zenon DEF Leaves
  <2>3. P2[x][u] = 0 BY <1>3, <2>1, Zenon
  <2>4. ASSUME NEW z \in ZoneIds, NEW e \in Endpoints, z # x \/ e # u PROVE P2[z][e] = P[z][e]
    <3>1. zones'[z].entry[e].conn = zones[z].entry[e].conn BY <2>2, <2>4, Zenon
    <3>2. P[z][e] = zones[z].entry[e].conn /\ P2[z][e] = zones'[z].entry[e].conn BY <1>3, Zenon
    <3> QED BY <3>1, <3>2, Zenon
  <2> QED BY <1>3, <2>3, <2>4, Zenon DEF Set
<1>9. Own(P2, S, releasing', 0, ke, a, conns)
  <2>1. Freed(P, x, u, releasing, releasing') BY <1>7, Zenon DEF Freed
  <2>2. Own(P, S, releasing, 0, ke, a, conns) BY <1>6, Zenon
  <2> QED BY <1>8, <2>1, <2>2, OwnLeaves, Zenon
<1>10. Placed(open, P2, releasing', 0)
  <2> SUFFICES ASSUME NEW c \in open
               PROVE  c # 0 /\ (c \in releasing' \/ \E z \in ZoneIds, e \in Endpoints : P2[z][e] = c)
    BY Zenon DEF Placed
  <2>1. c # 0 /\ (c \in releasing \/ \E z \in ZoneIds, e \in Endpoints : P[z][e] = c)
    BY <1>6, Zenon DEF Placed
  <2>2. CASE c \in releasing BY <2>1, <2>2, Zenon
  <2>3. ASSUME NEW z \in ZoneIds, NEW e \in Endpoints, P[z][e] = c
        PROVE  c \in releasing' \/ P2[z][e] = c
    BY <1>7, <1>8, <2>3 DEF Set
  <2> QED BY <2>1, <2>2, <2>3, Zenon
<1> QED BY <1>4, <1>9, <1>10, Zenon DEF P2, S2, ke, a

LEMMA AddStartStep ==
  ASSUME ZoneInv, NEW z \in ZoneIds, NEW e \in Endpoints, NEW kind \in {"add", "join"}, AddStart(z, e, kind)
  PROVE  ZoneInv'
<1>1. call = NoCall /\ UNCHANGED <<zones, session, releasing>> BY DEF AddStart, Calling
<1>2. call' = [kind |-> kind, zone |-> z, ep |-> e, conn |-> conns + 1] BY DEF AddStart
<1>3. conns \in Nat /\ conns' = conns + 1 /\ open' = open \cup {conns + 1}
  BY DEF AddStart, ZoneInv, Types
<1>4. call' \in Busy /\ call' # NoCall /\ call'.conn = conns + 1 /\ call'.ep = e
  <2>1. call'.kind # "none" /\ call'.conn = conns + 1 /\ call'.ep = e BY <1>2
  <2>2. call' # NoCall BY <2>1 DEF NoCall
  <2>3. call' \in Busy
    <3>1. conns + 1 \in Nat BY <1>3
    <3>2. CASE kind = "add" BY <1>2, <3>1, <3>2 DEF Busy
    <3>3. CASE kind = "join" BY <1>2, <3>1, <3>3 DEF Busy
    <3> QED BY <3>2, <3>3
  <2> QED BY <2>1, <2>2, <2>3
<1>5. Types' BY <1>1, <1>3, <1>4 DEF ZoneInv, Types
<1>6. Owned'
  <2>1. CallConn(call) = 0 BY <1>1 DEF CallConn
  <2>2. /\ Own(Places(zones), Numbers(session), releasing, 0, call.ep, Asked(call), conns)
        /\ Placed(open, Places(zones), releasing, 0)
    BY <2>1, Zenon DEF ZoneInv, Owned
  <2>3. /\ Own(Places(zones), Numbers(session), releasing, CallConn(call'), call'.ep, Asked(call'), conns')
        /\ Placed(open', Places(zones), releasing, CallConn(call'))
    BY <1>3, <1>4, <2>2, CallStarts, Zenon
  <2> QED BY <1>1, <2>3 DEF Owned
<1>7. AllTold'
  <2>1. \A y \in ZoneIds, d \in Endpoints : zones[y].entry[d].conn # conns + 1 /\ session[d].conn # conns + 1
    BY <1>3, NumbersBounded, Zenon DEF ZoneInv
  <2>2. \A y \in ZoneIds, d \in Endpoints :
          UpFor(zones[y].entry[d].conn, open', session[d]) => UpFor(zones[y].entry[d].conn, open, session[d])
    BY <1>3, <2>1 DEF UpFor
  <2>3. session'[call'.ep].conn # call'.conn BY <1>1, <1>4, <2>1
  <2> QED BY <1>1, <2>2, <2>3, Zenon DEF AllTold, ZoneInv
<1> QED BY <1>5, <1>6, <1>7 DEF ZoneInv
LEMMA WithoutIs ==
  ASSUME NEW zn \in Zn, NEW u \in Endpoints
  PROVE  /\ Without(zn, u).entry[u].conn = 0
         /\ \A e \in Endpoints : e # u => /\ Without(zn, u).entry[e] = zn.entry[e]
                                          /\ Without(zn, u).offset[e] = zn.offset[e]
         /\ Without(zn, u).master = zn.master /\ Without(zn, u).active = zn.active
         /\ Without(zn, u).playing = zn.playing
<1>1. zn.entry \in [Endpoints -> Entry] /\ zn.offset \in [Endpoints -> Int] BY ZnParts, Zenon
<1> QED BY <1>1 DEF Without, Zn, NoEntry

LEMMA Removed ==
  ASSUME ZoneInv, NEW x \in ZoneIds, NEW u \in Endpoints, u \in Members(zones[x]),
         zones' = [zones EXCEPT ![x] = Without(zones[x], u)]
  PROVE  Leaves(x, u)
<1>1. zones \in [ZoneIds -> Zn] /\ zones[x] \in Zn BY DEF ZoneInv, Types
<1>2. Without(zones[x], u) \in Zn BY <1>1, ZnParts, Zenon
<1>3. zones' \in [ZoneIds -> Zn] /\ zones'[x] = Without(zones[x], u) BY <1>1, <1>2
<1>4. \A z \in ZoneIds : z # x => zones'[z] = zones[z] BY <1>1
<1>5. zones[x].entry[u].conn # 0 BY DEF Members
<1>6. zones[x].entry[u].conn \in Nat BY <1>1, Zenon DEF Zn
<1>7. /\ zones'[x].entry[u].conn = 0
      /\ \A e \in Endpoints : e # u => /\ zones'[x].entry[e] = zones[x].entry[e]
                                       /\ zones'[x].offset[e] = zones[x].offset[e]
      /\ zones'[x].master = zones[x].master /\ zones'[x].active = zones[x].active
      /\ zones'[x].playing = zones[x].playing
  BY <1>1, <1>3, WithoutIs
<1>8. Members(zones'[x]) \subseteq Members(zones[x]) BY <1>7, Zenon DEF Members
<1>9. \A e \in Endpoints : e # u => Stays(zones[x], zones'[x], e) BY <1>7, <1>8, Zenon DEF Stays
<1>10. \A z \in ZoneIds, e \in Endpoints : Stays(zones[z], zones[z], e) BY Zenon DEF Stays
<1>11. \A z \in ZoneIds, e \in Endpoints :
         z # x \/ e # u => /\ zones'[z].entry[e].conn = zones[z].entry[e].conn
                          /\ Stays(zones[z], zones'[z], e)
  BY <1>4, <1>7, <1>9, <1>10, Zenon
<1>12. \A z \in ZoneIds : zones'[z].playing => zones'[z].active
  BY <1>4, <1>7 DEF ZoneInv, AllTold
<1> QED BY <1>3, <1>5, <1>6, <1>7, <1>11, <1>12 DEF Leaves

LEMMA RemoveStep ==
  ASSUME ZoneInv, NEW x \in ZoneIds, NEW u \in Endpoints, RemoveEndpoint(x, u)
  PROVE  ZoneInv'
<1>1. /\ call = NoCall /\ u \in Members(zones[x])
      /\ zones' = [zones EXCEPT ![x] = Without(zones[x], u)]
      /\ releasing' = releasing \cup {zones[x].entry[u].conn}
      /\ UNCHANGED <<conns, open, session, call>>
  BY DEF RemoveEndpoint, Calling
<1>0. Leaves(x, u) BY <1>1, Removed, Zenon
<1>2. Types' BY <1>0, <1>1, Zenon DEF ZoneInv, Types, Leaves
<1>3. Owned'
  <2>1. CallConn(call') = 0 BY <1>1 DEF CallConn
  <2>2. /\ Own(Places(zones'), Numbers(session'), releasing', 0, call.ep, Asked(call), conns)
        /\ Placed(open, Places(zones'), releasing', 0)
    BY <1>0, <1>1, <1>2, EntryLeaves, Zenon DEF ZoneInv
  <2> QED BY <1>1, <2>1, <2>2, Zenon DEF Owned
<1>4. AllTold'
  <2>1. ASSUME NEW z \in ZoneIds, NEW e \in Endpoints, UpFor(zones'[z].entry[e].conn, open', session'[e])
        PROVE  Told(zones'[z], e, session'[e])
    <3>1. z # x \/ e # u BY <1>0, <2>1, Zenon DEF UpFor, Leaves
    <3>2. zones'[z].entry[e].conn = zones[z].entry[e].conn /\ Stays(zones[z], zones'[z], e)
      BY <1>0, <3>1, Zenon DEF Leaves
    <3>3. Told(zones[z], e, session[e]) BY <1>1, <2>1, <3>2, Zenon DEF ZoneInv, AllTold
    <3> QED BY <1>1, <3>2, <3>3, ToldStays
  <2>2. \A z \in ZoneIds : zones'[z].playing => zones'[z].active BY <1>0 DEF Leaves
  <2> QED BY <1>1, <2>1, <2>2, Zenon DEF AllTold
<1> QED BY <1>2, <1>3, <1>4 DEF ZoneInv

LEMMA MoveStep ==
  ASSUME ZoneInv, NEW x \in ZoneIds, NEW u \in Endpoints, NEW to \in ZoneIds, MoveEndpoint(x, u, to)
  PROVE  ZoneInv'
<1>1. CASE ~zones[to].live
  <2>1. RemoveEndpoint(x, u) BY <1>1 DEF MoveEndpoint, RemoveEndpoint
  <2> QED BY <2>1, RemoveStep, Zenon
<1>2. CASE zones[to].live
  <2>1. /\ call = NoCall /\ u \in Members(zones[x])
        /\ zones' = [zones EXCEPT ![x] = Without(zones[x], u)]
        /\ releasing' = releasing \cup {zones[x].entry[u].conn}
        /\ call' = [kind |-> "add", zone |-> to, ep |-> u, conn |-> conns + 1]
        /\ conns' = conns + 1 /\ open' = open \cup {conns + 1}
        /\ session' = session
    BY <1>2 DEF MoveEndpoint, Calling
  <2>2. conns \in Nat BY DEF ZoneInv, Types
  <2>3. call' \in Busy /\ call' # NoCall /\ call'.conn = conns + 1 /\ call'.ep = u
    <3>1. call'.kind = "add" /\ call'.conn = conns + 1 /\ call'.ep = u BY <2>1, Zenon
    <3>2. call' # NoCall BY <3>1 DEF NoCall
    <3>3. call' \in Busy BY <2>1, <2>2 DEF Busy
    <3> QED BY <3>1, <3>2, <3>3, Zenon
  <2>0. Leaves(x, u) BY <2>1, Removed, Zenon
  <2>4. Types'
    <3>1. zones' \in [ZoneIds -> Zn] /\ zones[x].entry[u].conn \in Nat BY <2>0, Zenon DEF Leaves
    <3>2. releasing' \in SUBSET Nat /\ open' \in SUBSET Nat /\ session' \in [Endpoints -> Sess]
      <4>1. releasing \in SUBSET Nat /\ open \in SUBSET Nat /\ session \in [Endpoints -> Sess]
        BY DEF ZoneInv, Types
      <4>2. conns + 1 \in Nat BY <2>2
      <4> QED BY <2>1, <3>1, <4>1, <4>2
    <3>3. conns' \in Nat /\ call'.conn # 0 BY <2>1, <2>2, <2>3
    <3> QED BY <2>3, <3>1, <3>2, <3>3, Zenon DEF Types
  <2>5. Owned'
    <3>1. /\ Own(Places(zones'), Numbers(session'), releasing', 0, call.ep, Asked(call), conns)
          /\ Placed(open, Places(zones'), releasing', 0)
      BY <2>0, <2>1, <2>4, EntryLeaves, Zenon DEF ZoneInv
    <3>2. /\ Own(Places(zones'), Numbers(session'), releasing', CallConn(call'), call'.ep, Asked(call'), conns')
          /\ Placed(open', Places(zones'), releasing', CallConn(call'))
      BY <2>1, <2>3, <3>1, CallStarts, Zenon
    <3> QED BY <3>2 DEF Owned
  <2>6. AllTold'
    <3>1. \A y \in ZoneIds, d \in Endpoints :
            zones[y].entry[d].conn # conns + 1 /\ session[d].conn # conns + 1
      BY NumbersBounded DEF ZoneInv
    <3>2. ASSUME NEW z \in ZoneIds, NEW e \in Endpoints, UpFor(zones'[z].entry[e].conn, open', session'[e])
          PROVE  Told(zones'[z], e, session'[e])
      <4>1. z # x \/ e # u BY <2>0, <3>2, Zenon DEF UpFor, Leaves
      <4>2. zones'[z].entry[e].conn = zones[z].entry[e].conn /\ Stays(zones[z], zones'[z], e)
        BY <2>0, <4>1 DEF Leaves
      <4>3. UpFor(zones[z].entry[e].conn, open, session[e])
        <5>1. UpFor(zones[z].entry[e].conn, open', session[e]) BY <2>1, <3>2, <4>2, Zenon
        <5>2. zones[z].entry[e].conn # conns + 1 /\ open' = open \cup {conns + 1} BY <2>1, <3>1, Zenon
        <5> QED BY <5>1, <5>2, Zenon DEF UpFor
      <4>4. Told(zones[z], e, session[e]) BY <4>3, Zenon DEF ZoneInv, AllTold
      <4> QED BY <2>1, <4>2, <4>4, ToldStays, Zenon
    <3>3. \A z \in ZoneIds : zones'[z].playing => zones'[z].active BY <2>0, Zenon DEF Leaves
    <3>4. session'[call'.ep].conn # call'.conn BY <2>1, <2>3, <3>1
    <3> QED BY <3>2, <3>3, <3>4, Zenon DEF AllTold
  <2> QED BY <2>4, <2>5, <2>6, Zenon DEF ZoneInv
<1> QED BY <1>1, <1>2

LEMMA HandshakeStep == ASSUME ZoneInv, Handshake PROVE ZoneInv'
<1> DEFINE u == call.ep
           k == call.conn
<1>1. /\ call.kind \in {"add", "join"} /\ session' = [session EXCEPT ![u] = NewSession(k)]
      /\ call' = [call EXCEPT !.kind = IF @ = "add" THEN "add sync" ELSE "join sync"]
      /\ UNCHANGED <<zones, conns, open, releasing>>
  BY DEF Handshake, Adding
<1>2. /\ call # NoCall /\ call \in Busy /\ k # 0 /\ u \in Endpoints /\ CallConn(call) = k
  BY <1>1, AddingIsCall DEF ZoneInv
<1>3. k \in Nat BY <1>2 DEF Busy
<1>4. call' \in Busy /\ call'.conn = k /\ call'.ep = u /\ call'.kind \in {"add sync", "join sync"}
  BY <1>1, <1>2 DEF Busy
<1>5. call' # NoCall /\ Asked(call') = 0 /\ CallConn(call') = k
  <2>0. call'.kind # "none" BY <1>4, Zenon
  <2>1. call' # NoCall BY <2>0 DEF NoCall
  <2> QED BY <1>4, <2>1 DEF Asked, CallConn
<1>6. session \in [Endpoints -> Sess] BY DEF ZoneInv, Types
<1>7. session' \in [Endpoints -> Sess] BY <1>1, <1>3, <1>6, NewTypes
<1>8. Types' BY <1>1, <1>2, <1>4, <1>7 DEF ZoneInv, Types
<1>9. session'[u] = NewSession(k) /\ \A e \in Endpoints : e # u => session'[e] = session[e]
  BY <1>1, <1>2, <1>6, Zenon
<1>10. session'[u].conn = k /\ Fresh(session'[u]) BY <1>9 DEF NewSession, Fresh
<1> HIDE DEF u, k
<1>11. Owned'
  <2> DEFINE P == Places(zones)
             S == Numbers(session)
             S2 == Numbers(session')
  <2>1. zones \in [ZoneIds -> Zn] BY Zenon DEF ZoneInv, Types
  <2>2. /\ \A e \in Endpoints : S[e] = session[e].conn
        /\ \A e \in Endpoints : S2[e] = session'[e].conn
        /\ S2 \in NumbersType
    BY <1>6, <1>7, <2>1, PlacesFacts
  <2>3. Asked(call) = k BY <1>1, Zenon DEF Asked, k
  <2>4. Own(P, S, releasing, k, u, k, conns) /\ Placed(open, P, releasing, k)
    BY <1>2, <2>3, Zenon DEF ZoneInv, Owned, u
  <2> HIDE DEF P, S, S2
  <2>5. Answered(S, S2, u, k) BY <1>2, <1>9, <1>10, <2>2 DEF Answered
  <2>6. Own(P, S2, releasing, k, u, 0, conns) BY <1>2, <2>4, <2>5, OwnAnswers
  <2> QED BY <1>1, <1>4, <1>5, <2>4, <2>6 DEF Owned, P, S2
<1>12. AllTold'
  <2>1. \A z \in ZoneIds, e \in Endpoints : zones[z].entry[e].conn # 0 => zones[z].entry[e].conn # k
    BY <1>2, OwnedFacts, Zenon DEF ZoneInv, k
  <2>2. \A z \in ZoneIds, e \in Endpoints :
          UpFor(zones[z].entry[e].conn, open, session'[e]) =>
            UpFor(zones[z].entry[e].conn, open, session[e]) /\ session'[e] = session[e]
    BY <1>9, <1>10, <2>1, Zenon DEF UpFor
  <2> QED BY <1>1, <1>4, <1>10, <2>2, Zenon DEF ZoneInv, AllTold
<1> QED BY <1>8, <1>11, <1>12 DEF ZoneInv

-----------------------------------------------------------------------------
(* Steps that tell the members of a zone something. *)

(* Only sessions that belong to no other zone than x change. *)
Apart(x) ==
  \A e \in Endpoints :
    \/ session'[e] = session[e]
    \/ /\ session'[e].conn = session[e].conn
       /\ \A z \in ZoneIds : z # x => ~UpFor(zones[z].entry[e].conn, open, session[e])

LEMMA ReachedAlone ==
  ASSUME Types, Owned, NEW x \in ZoneIds
  PROVE  /\ \A e \in Endpoints : e \in Reached(zones[x]) <=> UpFor(zones[x].entry[e].conn, open, session[e])
         /\ \A e \in Endpoints, z \in ZoneIds :
              e \in Reached(zones[x]) /\ z # x => ~UpFor(zones[z].entry[e].conn, open, session[e])
<1>1. \A e, d \in Endpoints : zones[x].entry[e].conn # 0 /\ session[d].conn = zones[x].entry[e].conn => d = e
  BY OwnedFacts, Zenon
<1>2. \A e \in Endpoints : e \in Reached(zones[x]) <=> UpFor(zones[x].entry[e].conn, open, session[e])
  BY <1>1, ReachedIs, Zenon
<1>3. \A z, y \in ZoneIds, e, d \in Endpoints :
        zones[z].entry[e].conn # 0 /\ zones[y].entry[d].conn = zones[z].entry[e].conn => z = y /\ e = d
  BY OwnedFacts, Zenon
<1>4. ASSUME NEW e \in Endpoints, NEW z \in ZoneIds, e \in Reached(zones[x]), z # x,
             UpFor(zones[z].entry[e].conn, open, session[e])
      PROVE  FALSE
  <2>1. UpFor(zones[x].entry[e].conn, open, session[e]) BY <1>2, <1>4, Zenon
  <2>2. zones[x].entry[e].conn # 0 /\ zones[z].entry[e].conn = zones[x].entry[e].conn
    BY <1>4, <2>1, Zenon DEF UpFor
  <2> QED BY <1>3, <1>4, <2>2, Zenon
<1> QED BY <1>2, <1>4, Zenon

(* Zone x becomes zn, and what its members hear is right for it. *)
LEMMA ZoneTold ==
  ASSUME ZoneInv, NEW x \in ZoneIds, NEW zn, zones' = [zones EXCEPT ![x] = zn],
         zn.playing => zn.active, open' \subseteq open, Apart(x), call' = NoCall,
         \A e \in Endpoints : UpFor(zn.entry[e].conn, open', session'[e]) => Told(zn, e, session'[e])
  PROVE  AllTold'
<1>1. zones'[x] = zn /\ \A z \in ZoneIds : z # x => zones'[z] = zones[z] BY Zenon DEF ZoneInv, Types
<1>2. ASSUME NEW z \in ZoneIds, NEW e \in Endpoints, UpFor(zones'[z].entry[e].conn, open', session'[e])
      PROVE  Told(zones'[z], e, session'[e])
  <2>1. CASE z = x BY <1>1, <1>2, <2>1, Zenon
  <2>2. CASE z # x
    <3>1. zones'[z] = zones[z] BY <1>1, <2>2, Zenon
    <3>2. session'[e].conn = session[e].conn BY Zenon DEF Apart
    <3>3. UpFor(zones[z].entry[e].conn, open, session[e]) BY <1>2, <3>1, <3>2, Zenon DEF UpFor
    <3>4. session'[e] = session[e] BY <2>2, <3>3, Zenon DEF Apart
    <3> QED BY <3>1, <3>3, <3>4, Zenon DEF ZoneInv, AllTold
  <2> QED BY <2>1, <2>2, Zenon
<1>3. \A z \in ZoneIds : zones'[z].playing => zones'[z].active BY <1>1, Zenon DEF ZoneInv, AllTold
<1> QED BY <1>2, <1>3, Zenon DEF AllTold

(* The same entries, and the same sessions. *)
LEMMA PlacesStay ==
  ASSUME ZoneInv, UNCHANGED <<conns, open, releasing, call>>,
         \A z \in ZoneIds, e \in Endpoints : zones'[z].entry[e].conn = zones[z].entry[e].conn,
         \A e \in Endpoints : session'[e].conn = session[e].conn
  PROVE  Owned'
<1>1. Places(zones') = Places(zones) BY Zenon DEF Places
<1>2. Numbers(session') = Numbers(session) BY Zenon DEF Numbers
<1> QED BY <1>1, <1>2, Zenon DEF ZoneInv, Owned

(* A call of the host that keeps the members of zone x, and tells them. *)
LEMMA HostStep ==
  ASSUME ZoneInv, NEW x \in ZoneIds, NEW zn \in Zn, zones' = [zones EXCEPT ![x] = zn],
         \A e \in Endpoints : zn.entry[e].conn = zones[x].entry[e].conn,
         zn.playing => zn.active, session' \in [Endpoints -> Sess],
         \A e \in Endpoints : session'[e].conn = session[e].conn,
         \A e \in Endpoints : e \notin Reached(zones[x]) => session'[e] = session[e],
         \A e \in Reached(zones[x]) : Told(zones[x], e, session[e]) => Told(zn, e, session'[e]),
         call = NoCall, UNCHANGED <<conns, open, releasing, call>>
  PROVE  ZoneInv'
<1>1. zones \in [ZoneIds -> Zn] /\ Types /\ Owned BY Zenon DEF ZoneInv, Types
<1>2. zones'[x] = zn /\ \A z \in ZoneIds : z # x => zones'[z] = zones[z] BY <1>1, Zenon
<1>3. Types' BY <1>1, Zenon DEF Types
<1>4. \A z \in ZoneIds, e \in Endpoints : zones'[z].entry[e].conn = zones[z].entry[e].conn BY <1>2
<1>5. Owned' BY <1>4, PlacesStay, Zenon
<1>6. Apart(x) BY <1>1, ReachedAlone, Zenon DEF Apart
<1>7. ASSUME NEW e \in Endpoints, UpFor(zn.entry[e].conn, open', session'[e])
      PROVE  Told(zn, e, session'[e])
  <2>1. UpFor(zones[x].entry[e].conn, open, session[e]) BY <1>7, Zenon DEF UpFor
  <2>2. e \in Reached(zones[x]) BY <1>1, <2>1, ReachedAlone, Zenon
  <2>3. Told(zones[x], e, session[e]) BY <2>1, Zenon DEF ZoneInv, AllTold
  <2> QED BY <2>2, <2>3, Zenon
<1>8. AllTold' BY <1>6, <1>7, ZoneTold, Zenon
<1> QED BY <1>3, <1>5, <1>8, Zenon DEF ZoneInv
LEMMA AudioIs ==
  ASSUME session \in [Endpoints -> Sess], NEW zn, NEW what, Audio(zn, what)
  PROVE  /\ \A e \in Endpoints : e \notin Reached(zn) => session'[e] = session[e]
         /\ \A e \in Endpoints : session'[e].conn = session[e].conn
         /\ \A e \in Reached(zn) :
              /\ session'[e].audio = what /\ session'[e].peers = session[e].peers
              /\ session'[e].vol = session[e].vol /\ session'[e].joined = session[e].joined
<1>1. \A e \in Reached(zn) : e \in Endpoints BY DEF Reached, Members
<1>2. \A e \in Endpoints : session'[e] = IF e \in Reached(zn) THEN [session[e] EXCEPT !.audio = what] ELSE session[e]
  BY Zenon DEF Audio
<1> QED BY <1>1, <1>2, Zenon DEF Sess

LEMMA VolumeIs ==
  ASSUME session \in [Endpoints -> Sess], NEW zn, NEW who, Volume(zn, who)
  PROVE  /\ \A e \in Endpoints : e \notin who \cap Reached(zn) => session'[e] = session[e]
         /\ \A e \in Endpoints : session'[e].conn = session[e].conn
         /\ \A e \in who \cap Reached(zn) :
              /\ session'[e].vol = Effective(zn, e) /\ session'[e].peers = session[e].peers
              /\ session'[e].audio = session[e].audio /\ session'[e].joined = session[e].joined
<1>1. \A e \in Reached(zn) : e \in Endpoints BY DEF Reached, Members
<1>2. \A e \in Endpoints : session'[e] = IF e \in who \cap Reached(zn)
                                         THEN [session[e] EXCEPT !.vol = Effective(zn, e)] ELSE session[e]
  BY DEF Volume
<1>3. \A e \in Endpoints : session[e] \in Sess OBVIOUS
<1>4. ASSUME NEW e \in who \cap Reached(zn)
      PROVE  /\ session'[e].vol = Effective(zn, e) /\ session'[e].peers = session[e].peers
             /\ session'[e].audio = session[e].audio /\ session'[e].joined = session[e].joined
             /\ session'[e].conn = session[e].conn
  <2>1. e \in Endpoints /\ session[e] \in Sess BY <1>1, <1>3
  <2>2. session'[e] = [session[e] EXCEPT !.vol = Effective(zn, e)] BY <1>2, <2>1
  <2> QED BY <2>1, <2>2 DEF Sess
<1>5. \A e \in Endpoints : e \notin who \cap Reached(zn) => session'[e] = session[e] BY <1>2, Zenon
<1> QED BY <1>4, <1>5

LEMMA ProposeStep == ASSUME ZoneInv, NEW x \in ZoneIds, ProposeFormatAll(x) PROVE ZoneInv'
<1> DEFINE zn == [zones[x] EXCEPT !.active = TRUE, !.playing = FALSE]
<1>1. zones \in [ZoneIds -> Zn] /\ zones[x] \in Zn /\ session \in [Endpoints -> Sess]
  BY DEF ZoneInv, Types
<1>2. zones' = [zones EXCEPT ![x] = zn] BY <1>1, Zenon DEF ProposeFormatAll, Zn
<1>3. zn \in Zn BY <1>1, ZnParts, Zenon
<1>4. /\ zn.entry = zones[x].entry /\ zn.master = zones[x].master /\ zn.offset = zones[x].offset
      /\ zn.active /\ ~zn.playing
  BY <1>1 DEF Zn
<1>5. Audio(zones[x], "format") /\ call = NoCall /\ UNCHANGED <<conns, open, releasing, call>>
  BY Zenon DEF ProposeFormatAll, Calling
<1>6. session' \in [Endpoints -> Sess] BY <1>1, <1>5, SpreadType, Zenon
<1> HIDE DEF zn
<1>7. \A e \in Endpoints : session'[e].conn = session[e].conn BY <1>1, <1>5, AudioIs, Zenon
<1>8. \A e \in Endpoints : e \notin Reached(zones[x]) => session'[e] = session[e] BY <1>1, <1>5, AudioIs, Zenon
<1>9. ASSUME NEW e \in Reached(zones[x]), Told(zones[x], e, session[e]) PROVE Told(zn, e, session'[e])
  <2>1. /\ session'[e].audio = "format" /\ session'[e].peers = session[e].peers
        /\ session'[e].vol = session[e].vol
    BY <1>1, <1>5, AudioIs
  <2>2. Members(zn) = Members(zones[x]) /\ Effective(zn, e) = Effective(zones[x], e)
    BY <1>4, Zenon DEF Members, Effective
  <2> QED BY <1>4, <1>9, <2>1, <2>2, Zenon DEF Told
<1> QED BY <1>2, <1>3, <1>4, <1>5, <1>6, <1>7, <1>8, <1>9, HostStep, Zenon

(* play_all and stop_all: the members written to are shown in another state. *)
LEMMA EntriesIs ==
  ASSUME NEW zn \in Zn, NEW oks \in Written(zn), NEW st \in States
  PROVE  /\ Entries(zn, oks, st) \in [Endpoints -> Entry]
         /\ \A e \in Endpoints : Entries(zn, oks, st)[e].conn = zn.entry[e].conn
         /\ \A e \in Reached(zn) : Entries(zn, oks, st)[e].state = st
<1>1. zn.entry \in [Endpoints -> Entry] BY ZnParts, Zenon
<1>2. \A e \in Endpoints : [zn.entry[e] EXCEPT !.state = st] \in Entry BY <1>1 DEF Entry
<1>3. Entries(zn, oks, st) \in [Endpoints -> Entry] BY <1>1, <1>2 DEF Entries
<1>4. \A e \in Endpoints : Entries(zn, oks, st)[e].conn = zn.entry[e].conn BY <1>1 DEF Entries, Entry
<1>5. \A e \in Reached(zn) : Entries(zn, oks, st)[e].state = st
  BY <1>1, Zenon DEF Entries, Entry, Written, Reached, Members
<1> QED BY <1>3, <1>4, <1>5

LEMMA PlayStep == ASSUME ZoneInv, NEW x \in ZoneIds, PlayAll(x) PROVE ZoneInv'
<1>1. zones \in [ZoneIds -> Zn] /\ zones[x] \in Zn /\ session \in [Endpoints -> Sess]
  BY DEF ZoneInv, Types
<1>2. PICK oks \in Written(zones[x]) :
        zones' = [zones EXCEPT ![x].playing = TRUE, ![x].entry = Entries(zones[x], oks, "streaming")]
  BY Zenon DEF PlayAll
<1> DEFINE zn == [zones[x] EXCEPT !.active = TRUE, !.playing = TRUE,
                                  !.entry = Entries(zones[x], oks, "streaming")]
<1>3. zones[x].active = TRUE BY <1>1 DEF PlayAll, Zn
<1>4. zones' = [zones EXCEPT ![x] = zn] BY <1>1, <1>2, <1>3, Zenon DEF Zn
<1>5. /\ zn \in Zn /\ zn.active = TRUE /\ zn.playing = TRUE
      /\ zn.master = zones[x].master /\ zn.offset = zones[x].offset
      /\ \A e \in Endpoints : zn.entry[e].conn = zones[x].entry[e].conn
      /\ \A e \in Reached(zones[x]) : zn.entry[e].state = "streaming"
  <2>1. "streaming" \in States BY DEF States
  <2> DEFINE f == Entries(zones[x], oks, "streaming")
  <2>2. /\ f \in [Endpoints -> Entry] /\ \A e \in Endpoints : f[e].conn = zones[x].entry[e].conn
        /\ \A e \in Reached(zones[x]) : f[e].state = "streaming"
    <3>1. f \in [Endpoints -> Entry] BY <1>1, <2>1, EntriesIs, Zenon
    <3>2. \A e \in Endpoints : f[e].conn = zones[x].entry[e].conn BY <1>1, <2>1, EntriesIs, Zenon
    <3>3. \A e \in Reached(zones[x]) : f[e].state = "streaming" BY <1>1, <2>1, EntriesIs
    <3> QED BY <3>1, <3>2, <3>3, Zenon
  <2> HIDE DEF f
  <2>3. zn \in Zn BY <1>1, <2>2, Zenon DEF Zn, Entry, f
  <2>4. /\ zn.entry = f /\ zn.active = TRUE /\ zn.playing = TRUE
        /\ zn.master = zones[x].master /\ zn.offset = zones[x].offset
    BY <1>1 DEF Zn, f
  <2> QED BY <2>2, <2>3, <2>4
<1>6. Audio(zones[x], "playing") /\ call = NoCall /\ UNCHANGED <<conns, open, releasing, call>>
  BY DEF PlayAll, Calling
<1>7. session' \in [Endpoints -> Sess] BY <1>1, <1>6, SpreadType, Zenon
<1> HIDE DEF zn
<1>8. \A e \in Endpoints : session'[e].conn = session[e].conn BY <1>1, <1>6, AudioIs, Zenon
<1>9. \A e \in Endpoints : e \notin Reached(zones[x]) => session'[e] = session[e] BY <1>1, <1>6, AudioIs, Zenon
<1>10. ASSUME NEW e \in Reached(zones[x]), Told(zones[x], e, session[e]) PROVE Told(zn, e, session'[e])
  <2>1. /\ session'[e].audio = "playing" /\ session'[e].peers = session[e].peers
        /\ session'[e].vol = session[e].vol
    BY <1>1, <1>6, AudioIs
  <2>2. Members(zn) = Members(zones[x]) /\ Effective(zn, e) = Effective(zones[x], e)
    BY <1>5, Zenon DEF Members, Effective
  <2>3. zn.entry[e].state = "streaming" BY <1>5
  <2> QED BY <1>5, <1>10, <2>1, <2>2, <2>3, Zenon DEF Told
<1> QED BY <1>4, <1>5, <1>6, <1>7, <1>8, <1>9, <1>10, HostStep, Zenon

LEMMA StopStep == ASSUME ZoneInv, NEW x \in ZoneIds, StopAll(x) PROVE ZoneInv'
<1>1. zones \in [ZoneIds -> Zn] /\ zones[x] \in Zn /\ session \in [Endpoints -> Sess]
  BY DEF ZoneInv, Types
<1>2. PICK oks \in Written(zones[x]) :
        zones' = [zones EXCEPT ![x].active = FALSE, ![x].playing = FALSE,
                               ![x].entry = Entries(zones[x], oks, "ready")]
  BY Zenon DEF StopAll
<1> DEFINE zn == [zones[x] EXCEPT !.active = FALSE, !.playing = FALSE,
                                  !.entry = Entries(zones[x], oks, "ready")]
<1>4. zones' = [zones EXCEPT ![x] = zn] BY <1>1, <1>2 DEF Zn
<1>5. /\ zn \in Zn /\ zn.active = FALSE /\ zn.playing = FALSE
      /\ zn.master = zones[x].master /\ zn.offset = zones[x].offset
      /\ \A e \in Endpoints : zn.entry[e].conn = zones[x].entry[e].conn
      /\ \A e \in Reached(zones[x]) : zn.entry[e].state = "ready"
  <2>1. "ready" \in States BY Zenon DEF States
  <2> DEFINE f == Entries(zones[x], oks, "ready")
  <2>2. /\ f \in [Endpoints -> Entry] /\ \A e \in Endpoints : f[e].conn = zones[x].entry[e].conn
        /\ \A e \in Reached(zones[x]) : f[e].state = "ready"
    <3>1. f \in [Endpoints -> Entry] BY <1>1, <2>1, EntriesIs, Zenon
    <3>2. \A e \in Endpoints : f[e].conn = zones[x].entry[e].conn BY <1>1, <2>1, EntriesIs, Zenon
    <3>3. \A e \in Reached(zones[x]) : f[e].state = "ready" BY <1>1, <2>1, EntriesIs
    <3> QED BY <3>1, <3>2, <3>3, Zenon
  <2> HIDE DEF f
  <2>3. zn \in Zn BY <1>1, <2>2, Zenon DEF Zn, Entry, f
  <2>4. /\ zn.entry = f /\ zn.active = FALSE /\ zn.playing = FALSE
        /\ zn.master = zones[x].master /\ zn.offset = zones[x].offset
    BY <1>1 DEF Zn, f
  <2> QED BY <2>2, <2>3, <2>4
<1>6. Audio(zones[x], "idle") /\ call = NoCall /\ UNCHANGED <<conns, open, releasing, call>>
  BY DEF StopAll, Calling
<1>7. session' \in [Endpoints -> Sess] BY <1>1, <1>6, SpreadType, Zenon
<1> HIDE DEF zn
<1>8. \A e \in Endpoints : session'[e].conn = session[e].conn BY <1>1, <1>6, AudioIs
<1>9. \A e \in Endpoints : e \notin Reached(zones[x]) => session'[e] = session[e] BY <1>1, <1>6, AudioIs
<1>10. ASSUME NEW e \in Reached(zones[x]), Told(zones[x], e, session[e]) PROVE Told(zn, e, session'[e])
  <2>1. /\ session'[e].audio = "idle" /\ session'[e].peers = session[e].peers
        /\ session'[e].vol = session[e].vol
    BY <1>1, <1>6, AudioIs
  <2>2. Members(zn) = Members(zones[x]) /\ Effective(zn, e) = Effective(zones[x], e)
    BY <1>5, Zenon DEF Members, Effective
  <2>3. zn.entry[e].state = "ready" BY <1>5, Zenon
  <2> QED BY <1>5, <1>10, <2>1, <2>2, <2>3, Zenon DEF Told
<1> QED BY <1>4, <1>5, <1>6, <1>7, <1>8, <1>9, <1>10, HostStep, Zenon

(* The members of zn are those of zones[x]. *)
LEMMA SameReached ==
  ASSUME NEW zn, NEW zn2, zn2.entry = zn.entry
  PROVE  Reached(zn2) = Reached(zn) /\ Members(zn2) = Members(zn)
BY DEF Reached, Members

(* A volume call: those that hear it hear the level of the new map. *)
Levelled(x, zn, who) ==
  /\ zn \in Zn
  /\ zn.entry = zones[x].entry /\ zn.active = zones[x].active /\ zn.playing = zones[x].playing
  /\ \A e \in Endpoints : e \in who \/ Effective(zn, e) = Effective(zones[x], e)

LEMMA VolumeStep ==
  ASSUME ZoneInv, NEW x \in ZoneIds, NEW zn, NEW who, Levelled(x, zn, who), Volume(zn, who),
         zones' = [zones EXCEPT ![x] = zn], call = NoCall, UNCHANGED <<conns, open, releasing, call>>
  PROVE  ZoneInv'
<1>0. /\ zn \in Zn
      /\ zn.entry = zones[x].entry /\ zn.active = zones[x].active /\ zn.playing = zones[x].playing
      /\ \A e \in Endpoints : e \in who \/ Effective(zn, e) = Effective(zones[x], e)
  BY Zenon DEF Levelled
<1>1. session \in [Endpoints -> Sess] BY Zenon DEF ZoneInv, Types
<1>2. Reached(zn) = Reached(zones[x]) /\ Members(zn) = Members(zones[x]) BY <1>0, SameReached, Zenon
<1>3. session' \in [Endpoints -> Sess] BY <1>0, <1>1, SpreadType, Zenon
<1>4. /\ \A e \in Endpoints : e \notin who \cap Reached(zones[x]) => session'[e] = session[e]
      /\ \A e \in Endpoints : session'[e].conn = session[e].conn
      /\ \A e \in who \cap Reached(zones[x]) :
           /\ session'[e].vol = Effective(zn, e) /\ session'[e].peers = session[e].peers
           /\ session'[e].audio = session[e].audio /\ session'[e].joined = session[e].joined
  BY <1>1, <1>2, VolumeIs
<1>5. ASSUME NEW e \in Reached(zones[x]), Told(zones[x], e, session[e]) PROVE Told(zn, e, session'[e])
  <2>1. e \in Endpoints BY DEF Reached, Members
  <2>2. CASE e \in who BY <1>0, <1>2, <1>4, <1>5, <2>2, Zenon DEF Told
  <2>3. CASE e \notin who BY <1>0, <1>2, <1>4, <1>5, <2>1, <2>3, Zenon DEF Told
  <2> QED BY <2>2, <2>3, Zenon
<1>6. zn.playing => zn.active BY <1>0, Zenon DEF ZoneInv, AllTold
<1> QED BY <1>0, <1>3, <1>4, <1>5, <1>6, HostStep, Zenon

LEMMA SetVolumeAllStep == ASSUME ZoneInv, NEW x \in ZoneIds, SetVolumeAll(x) PROVE ZoneInv'
<1>1. zones[x] \in Zn BY DEF ZoneInv, Types
<1>2. PICK level \in Levels : LET zn == [zones[x] EXCEPT !.master = level] IN
        zones' = [zones EXCEPT ![x] = zn] /\ Volume(zn, Endpoints)
  BY DEF SetVolumeAll
<1> DEFINE zn == [zones[x] EXCEPT !.master = level]
<1>3. zn \in Zn BY <1>1, ZnParts, ZoneAssumption, Zenon
<1>4. /\ zn.entry = zones[x].entry /\ zn.active = zones[x].active /\ zn.playing = zones[x].playing
  BY <1>1 DEF Zn
<1>5. call = NoCall /\ UNCHANGED <<conns, open, releasing, call>> BY DEF SetVolumeAll, Calling
<1>6. zones' = [zones EXCEPT ![x] = zn] /\ Volume(zn, Endpoints) BY <1>2, Zenon
<1> HIDE DEF zn
<1>7. Levelled(x, zn, Endpoints) BY <1>3, <1>4, Zenon DEF Levelled
<1> QED BY <1>5, <1>6, <1>7, VolumeStep, Zenon

LEMMA SetVolumeOffsetStep ==
  ASSUME ZoneInv, NEW x \in ZoneIds, NEW u \in Endpoints, SetVolumeOffset(x, u)
  PROVE  ZoneInv'
<1>1. zones[x] \in Zn BY DEF ZoneInv, Types
<1>2. PICK offset \in Offsets : LET zn == [zones[x] EXCEPT !.offset[u] = offset] IN
        zones' = [zones EXCEPT ![x] = zn] /\ Volume(zn, {u})
  BY DEF SetVolumeOffset
<1> DEFINE zn == [zones[x] EXCEPT !.offset[u] = offset]
<1>3. zn \in Zn
  <2>1. offset \in Int BY ZoneAssumption
  <2> QED BY <1>1, <2>1, ZnParts, Zenon
<1>4. /\ zn.entry = zones[x].entry /\ zn.active = zones[x].active /\ zn.playing = zones[x].playing
      /\ zn.master = zones[x].master /\ \A e \in Endpoints : e # u => zn.offset[e] = zones[x].offset[e]
  BY <1>1 DEF Zn
<1>5. call = NoCall /\ UNCHANGED <<conns, open, releasing, call>> BY DEF SetVolumeOffset, Calling
<1>6. zones' = [zones EXCEPT ![x] = zn] /\ Volume(zn, {u}) BY <1>2, Zenon
<1> HIDE DEF zn
<1>7. Levelled(x, zn, {u}) BY <1>3, <1>4, Zenon DEF Levelled, Effective
<1> QED BY <1>5, <1>6, <1>7, VolumeStep, Zenon

(* Levels and masters are 0 to 100, so the offset fits the i8 it is cast to. *)
LEMMA LevelFits ==
  ASSUME NEW level \in 0..100, NEW m \in 0..100
  PROVE  AsI8(level - m) \in Int /\ Clamp(m + AsI8(level - m)) = level
<1>1. (level - m) + 128 \in 0..255 BY SMT
<1>2. ((level - m) + 128) % 256 = (level - m) + 128 BY <1>1
<1>3. AsI8(level - m) = level - m BY <1>2 DEF AsI8
<1> QED BY <1>3 DEF Clamp

LEMMA SetVolumeEndpointStep ==
  ASSUME ZoneInv, NEW x \in ZoneIds, NEW u \in Endpoints, SetVolumeEndpoint(x, u)
  PROVE  ZoneInv'
<1>1. zones[x] \in Zn /\ session \in [Endpoints -> Sess] BY Zenon DEF ZoneInv, Types
<1>2. PICK level \in Levels :
        LET zn == [zones[x] EXCEPT !.offset[u] = AsI8(level - zones[x].master)] IN
          /\ zones' = [zones EXCEPT ![x] = zn]
          /\ session' = IF u \in Reached(zn) THEN [session EXCEPT ![u].vol = level] ELSE session
  BY DEF SetVolumeEndpoint
<1> DEFINE n == AsI8(level - zones[x].master)
           zn == [zones[x] EXCEPT !.offset[u] = n]
<1>3. level \in 0..100 /\ zones[x].master \in 0..100 BY <1>1, ZoneAssumption, Zenon DEF Zn
<1>4. n \in Int /\ Clamp(zones[x].master + n) = level BY <1>3, LevelFits, Zenon
<1>5. /\ zones' = [zones EXCEPT ![x] = zn]
      /\ session' = IF u \in Reached(zn) THEN [session EXCEPT ![u].vol = level] ELSE session
  BY <1>2
<1> HIDE DEF n
<1>6. zn \in Zn BY <1>1, <1>4, ZnParts, Zenon
<1>7. /\ zn.entry = zones[x].entry /\ zn.active = zones[x].active /\ zn.playing = zones[x].playing
      /\ zn.master = zones[x].master /\ zn.offset[u] = n
      /\ \A e \in Endpoints : e # u => zn.offset[e] = zones[x].offset[e]
  BY <1>1 DEF Zn
<1>8. call = NoCall /\ UNCHANGED <<conns, open, releasing, call>> BY Zenon DEF SetVolumeEndpoint, Calling
<1> HIDE DEF zn
<1>9. Effective(zn, u) = level BY <1>4, <1>7 DEF Effective
<1>10. Volume(zn, {u}) BY <1>1, <1>5, <1>9, Zenon DEF Volume
<1>11. Levelled(x, zn, {u}) BY <1>6, <1>7, Zenon DEF Levelled, Effective
<1>12. zones' = [zones EXCEPT ![x] = zn] BY <1>5
<1> QED BY <1>8, <1>10, <1>11, <1>12, VolumeStep, Zenon

-----------------------------------------------------------------------------
(* Steps that tell the members of a zone who they are. *)

LEMMA BroadcastIs ==
  ASSUME session \in [Endpoints -> Sess], NEW zn, NEW ss, ss = Broadcast(session, zn)
  PROVE  /\ ss \in [Endpoints -> Sess]
         /\ \A e \in Endpoints : e \notin Reached(zn) => ss[e] = session[e]
         /\ \A e \in Endpoints : ss[e].conn = session[e].conn
         /\ \A e \in Reached(zn) :
              /\ ss[e].peers = Members(zn) /\ ss[e].vol = session[e].vol
              /\ ss[e].audio = session[e].audio /\ ss[e].joined = session[e].joined
<1>1. \A e \in Reached(zn) : e \in Endpoints BY DEF Reached, Members
<1>2. \A e \in Endpoints : ss[e] = IF e \in Reached(zn)
                                   THEN [session[e] EXCEPT !.peers = Members(zn)] ELSE session[e]
  BY DEF Broadcast
<1>3. ss \in [Endpoints -> Sess] BY BroadcastType
<1>4. ASSUME NEW e \in Reached(zn)
      PROVE  /\ ss[e].peers = Members(zn) /\ ss[e].vol = session[e].vol
             /\ ss[e].audio = session[e].audio /\ ss[e].joined = session[e].joined
             /\ ss[e].conn = session[e].conn
  <2>1. e \in Endpoints /\ session[e] \in Sess BY <1>1
  <2>2. ss[e] = [session[e] EXCEPT !.peers = Members(zn)] BY <1>2, <2>1
  <2> QED BY <2>1, <2>2, Zenon DEF Sess
<1>5. \A e \in Endpoints : e \notin Reached(zn) => ss[e] = session[e] BY <1>2, Zenon
<1> QED BY <1>3, <1>4, <1>5, Zenon

(* The list makes the first part of Told true, and leaves the others. *)
Else(zn, e, s) ==
  /\ s.vol # Unset => s.vol = Effective(zn, e)
  /\ s.audio = "playing" => zn.entry[e].state \in {"streaming", "degraded"}
  /\ zn.entry[e].state = "streaming" \/ s.audio # "idle" => zn.active
  /\ zn.playing /\ s.joined => s.audio = "playing"

LEMMA ListTold ==
  ASSUME session \in [Endpoints -> Sess], NEW zn, NEW ss, ss = Broadcast(session, zn),
         NEW e \in Reached(zn), NEW zn2, Members(zn2) \subseteq Members(zn), Else(zn2, e, session[e])
  PROVE  Told(zn2, e, ss[e])
<1>1. /\ ss[e].peers = Members(zn) /\ ss[e].vol = session[e].vol
      /\ ss[e].audio = session[e].audio /\ ss[e].joined = session[e].joined
  BY BroadcastIs
<1> QED BY <1>1, Zenon DEF Told, Else

LEMMA NotifyStep ==
  ASSUME ZoneInv, NEW x \in ZoneIds, NEW u \in Endpoints, RemoveEndpointAndNotify(x, u)
  PROVE  ZoneInv'
<1> DEFINE zn == Without(zones[x], u)
<1>1. /\ call = NoCall /\ u \in Members(zones[x]) /\ zones' = [zones EXCEPT ![x] = zn]
      /\ releasing' = releasing \cup {zones[x].entry[u].conn}
      /\ session' = Broadcast(session, zn) /\ UNCHANGED <<conns, open, call>>
  BY Zenon DEF RemoveEndpointAndNotify, Calling
<1>2. Types /\ Owned /\ session \in [Endpoints -> Sess] /\ zones \in [ZoneIds -> Zn] BY Zenon DEF ZoneInv, Types
<1>3. Leaves(x, u) BY <1>1, Removed, Zenon
<1> HIDE DEF zn
<1>4. zones'[x] = zn BY <1>1, <1>2, Zenon
<1>5. session' \in [Endpoints -> Sess] /\ \A e \in Endpoints : session'[e].conn = session[e].conn
  BY <1>1, <1>2, BroadcastIs
<1>6. Types'
  <2>1. zones' \in [ZoneIds -> Zn] /\ zones[x].entry[u].conn \in Nat BY <1>3, Zenon DEF Leaves
  <2> QED BY <1>1, <1>2, <1>5, <2>1, Zenon DEF Types
<1>7. Owned'
  <2>1. CallConn(call') = 0 BY <1>1, Zenon DEF CallConn
  <2>2. /\ Own(Places(zones'), Numbers(session'), releasing', 0, call.ep, Asked(call), conns)
        /\ Placed(open, Places(zones'), releasing', 0)
    BY <1>1, <1>2, <1>3, <1>5, <1>6, EntryLeaves, Zenon
  <2> QED BY <1>1, <2>1, <2>2 DEF Owned
<1>8. /\ zn.entry[u].conn = 0
      /\ \A e \in Endpoints : e # u => zn.entry[e].conn = zones[x].entry[e].conn /\ Stays(zones[x], zn, e)
  BY <1>3, <1>4 DEF Leaves
<1>9. \A e \in Endpoints : e \in Reached(zn) => e \in Reached(zones[x])
  BY <1>8, Zenon DEF Reached, Members
<1>10. Apart(x)
  <2>1. \A e \in Endpoints : e \notin Reached(zn) => session'[e] = session[e] BY <1>1, <1>2, BroadcastIs
  <2> QED BY <1>2, <1>5, <1>9, <2>1, ReachedAlone, Zenon DEF Apart
<1>11. ASSUME NEW e \in Endpoints, UpFor(zn.entry[e].conn, open', session'[e])
       PROVE  Told(zn, e, session'[e])
  <2>1. e # u /\ UpFor(zones[x].entry[e].conn, open, session[e]) BY <1>1, <1>5, <1>8, <1>11 DEF UpFor
  <2>2. e \in Reached(zn) BY <1>8, <2>1, Zenon DEF Reached, Members, Up, UpFor
  <2>3. Told(zones[x], e, session[e]) BY <2>1, Zenon DEF ZoneInv, AllTold
  <2>4. Told(zn, e, session[e]) BY <1>8, <2>1, <2>3, ToldStays, Zenon
  <2>5. Else(zn, e, session[e]) BY <2>4, Zenon DEF Told, Else
  <2> QED BY <1>1, <1>2, <2>2, <2>5, ListTold, Zenon
<1>12. zn.playing => zn.active BY <1>3, <1>4, Zenon DEF Leaves
<1>13. AllTold' BY <1>1, <1>10, <1>11, <1>12, ZoneTold, Zenon
<1> QED BY <1>6, <1>7, <1>13 DEF ZoneInv

-----------------------------------------------------------------------------
(* Calls end. *)

(* Zone zn becomes zn2, in which endpoint u has connection k. *)
Filled(zn, zn2, u, k, st) ==
  /\ zn2 \in Zn /\ zn2.entry[u].conn = k /\ zn2.entry[u].state = st
  /\ \A e \in Endpoints : e # u => zn2.entry[e] = zn.entry[e]
  /\ zn2.master = zn.master /\ zn2.offset = zn.offset
  /\ zn2.active = zn.active /\ zn2.playing = zn.playing

LEMMA InsertedIs ==
  ASSUME NEW zn \in Zn, NEW u \in Endpoints, NEW k \in Nat, NEW st \in States
  PROVE  Filled(zn, Inserted(zn, u, k, st), u, k, st)
<1>1. zn.entry \in [Endpoints -> Entry] BY ZnParts, Zenon
<1>2. [conn |-> k, state |-> st] \in Entry BY DEF Entry
<1> DEFINE zn2 == Inserted(zn, u, k, st)
<1>3. zn2 \in Zn BY <1>2, ZnParts, Zenon DEF Inserted
<1>4. /\ zn2.entry[u].conn = k /\ zn2.entry[u].state = st
      /\ \A e \in Endpoints : e # u => zn2.entry[e] = zn.entry[e]
      /\ zn2.master = zn.master /\ zn2.offset = zn.offset
      /\ zn2.active = zn.active /\ zn2.playing = zn.playing
  BY <1>1, Zenon DEF Inserted, Zn
<1> QED BY <1>3, <1>4 DEF Filled

Enters(x, zn, st) == Filled(zones[x], zn, call.ep, call.conn, st)

LEMMA EnteringReached ==
  ASSUME ZoneInv, call # NoCall, NEW x \in ZoneIds, NEW zn, NEW st, Enters(x, zn, st)
  PROVE  /\ \A e \in Endpoints : e \in Reached(zn) <=> UpFor(zn.entry[e].conn, open, session[e])
         /\ \A e \in Endpoints, z \in ZoneIds :
              e \in Reached(zn) /\ z # x => ~UpFor(zones[z].entry[e].conn, open, session[e])
<1>1. /\ \A z, y \in ZoneIds, e, d \in Endpoints :
            zones[z].entry[e].conn # 0 /\ zones[y].entry[d].conn = zones[z].entry[e].conn => z = y /\ e = d
      /\ \A z \in ZoneIds, e, d \in Endpoints :
            zones[z].entry[e].conn # 0 /\ session[d].conn = zones[z].entry[e].conn => d = e
      /\ \A z \in ZoneIds, e \in Endpoints : zones[z].entry[e].conn # 0 => call.conn # zones[z].entry[e].conn
      /\ \A d \in Endpoints : session[d].conn = call.conn => d = call.ep
  BY OwnedFacts, Zenon DEF ZoneInv
<1>2. /\ zn.entry[call.ep].conn = call.conn
      /\ \A e \in Endpoints : e # call.ep => zn.entry[e] = zones[x].entry[e]
  BY Zenon DEF Enters, Filled
<1>3. ASSUME NEW e \in Endpoints, NEW d \in Endpoints,
             zn.entry[e].conn # 0, session[d].conn = zn.entry[e].conn
      PROVE  d = e
  <2>1. CASE e = call.ep
    <3>1. session[d].conn = call.conn BY <1>2, <1>3, <2>1, Zenon
    <3> QED BY <1>1, <2>1, <3>1, Zenon
  <2>2. CASE e # call.ep
    <3>1. zones[x].entry[e].conn # 0 /\ session[d].conn = zones[x].entry[e].conn
      BY <1>2, <1>3, <2>2, Zenon
    <3> QED BY <1>1, <3>1, Zenon
  <2> QED BY <2>1, <2>2, Zenon
<1>4. \A e \in Endpoints : e \in Reached(zn) <=> UpFor(zn.entry[e].conn, open, session[e])
  BY <1>3, ReachedIs, Zenon
<1>5. ASSUME NEW e \in Endpoints, NEW z \in ZoneIds, z # x, UpFor(zn.entry[e].conn, open, session[e]),
             UpFor(zones[z].entry[e].conn, open, session[e])
      PROVE  FALSE
  <2>1. zones[z].entry[e].conn # 0 /\ zones[z].entry[e].conn = zn.entry[e].conn BY <1>5, Zenon DEF UpFor
  <2>2. CASE e = call.ep
    <3>1. zones[z].entry[e].conn = call.conn /\ zones[z].entry[e].conn # 0 BY <1>2, <2>1, <2>2, Zenon
    <3> QED BY <1>1, <3>1, Zenon
  <2>3. CASE e # call.ep
    <3>1. zones[x].entry[e].conn = zones[z].entry[e].conn BY <1>2, <2>1, <2>3, Zenon
    <3>2. zones[z].entry[e].conn # 0 BY <2>1, Zenon
    <3> QED BY <1>1, <1>5, <3>1, <3>2, Zenon
  <2> QED BY <2>2, <2>3, Zenon
<1> QED BY <1>4, <1>5

LEMMA EntryEnters ==
  ASSUME ZoneInv, Types', call # NoCall, call' = NoCall, NEW x \in ZoneIds, NEW zn, NEW st, Enters(x, zn, st),
         zones' = [zones EXCEPT ![x] = zn], UNCHANGED <<conns, releasing>>,
         \A e \in Endpoints : session'[e].conn = session[e].conn,
         open' = open \ ({zones[x].entry[call.ep].conn} \ {call.conn})
  PROVE  Owned'
<1> DEFINE P == Places(zones)
           P2 == Places(zones')
           S == Numbers(session)
           S2 == Numbers(session')
           u == call.ep
           k == call.conn
           a == Asked(call)
           u2 == call'.ep
           a2 == Asked(call')
<1>1. zones \in [ZoneIds -> Zn] /\ session \in [Endpoints -> Sess] BY Zenon DEF ZoneInv, Types
<1>2. zones' \in [ZoneIds -> Zn] /\ session' \in [Endpoints -> Sess] BY Zenon DEF Types
<1>3. /\ P2 \in PlacesType
      /\ \A z \in ZoneIds, e \in Endpoints : P[z][e] = zones[z].entry[e].conn
      /\ \A z \in ZoneIds, e \in Endpoints : P2[z][e] = zones'[z].entry[e].conn
  <2>1. \A z \in ZoneIds, e \in Endpoints : P[z][e] = zones[z].entry[e].conn BY <1>1, PlacesFacts, Zenon
  <2>2. P2 \in PlacesType /\ \A z \in ZoneIds, e \in Endpoints : P2[z][e] = zones'[z].entry[e].conn
    BY <1>2, PlacesFacts, Zenon
  <2> QED BY <2>1, <2>2, Zenon
<1>4. S2 = S BY Zenon DEF Numbers
<1>5. CallConn(call) = k /\ CallConn(call') = 0 BY DEF CallConn
<1>6. k # 0 /\ u \in Endpoints BY Zenon DEF ZoneInv, Types, Busy
<1>7. Own(P, S, releasing, k, u, a, conns) /\ Placed(open, P, releasing, k)
  BY <1>5, Zenon DEF ZoneInv, Owned
<1>8. zones'[x] = zn /\ \A z \in ZoneIds : z # x => zones'[z] = zones[z] BY <1>1, Zenon
<1>9. zn.entry[u].conn = k /\ \A e \in Endpoints : e # u => zn.entry[e] = zones[x].entry[e] BY Zenon DEF Enters, Filled
<1>10. open' = open \ ({zones[x].entry[u].conn} \ {k}) BY Zenon
<1> HIDE DEF P, P2, S, S2, u, k, a, u2, a2
<1>11. Set(P, P2, x, u, k)
  <2>1. P2[x][u] = k
    <3>1. P2[x][u] = zones'[x].entry[u].conn BY <1>3, <1>6, Zenon
    <3>2. zones'[x].entry[u].conn = zn.entry[u].conn BY <1>8, Zenon
    <3> QED BY <1>9, <3>1, <3>2, Zenon
  <2>2. ASSUME NEW z \in ZoneIds, NEW e \in Endpoints, z # x \/ e # u PROVE P2[z][e] = P[z][e]
    <3>1. zones'[z].entry[e].conn = zones[z].entry[e].conn
      <4>1. CASE z # x BY <1>8, <4>1, Zenon
      <4>2. CASE z = x /\ e # u
        <5>1. zones'[z].entry[e].conn = zn.entry[e].conn BY <1>8, <4>2, Zenon
        <5>2. zn.entry[e] = zones[z].entry[e] BY <1>9, <4>2, Zenon
        <5> QED BY <5>1, <5>2, Zenon
      <4> QED BY <2>2, <4>1, <4>2, Zenon
    <3> QED BY <1>3, <3>1, Zenon
  <2> QED BY <1>3, <2>1, <2>2, Zenon DEF Set
<1>12. Own(P2, S, releasing, 0, u2, a2, conns) BY <1>6, <1>7, <1>11, OwnEnters, Zenon
<1>13. Placed(open', P2, releasing, 0)
  <2> SUFFICES ASSUME NEW c \in open'
               PROVE  c # 0 /\ (c \in releasing \/ \E z \in ZoneIds, e \in Endpoints : P2[z][e] = c)
    BY Zenon DEF Placed
  <2>1. c # 0 /\ (c = k \/ c \in releasing \/ \E z \in ZoneIds, e \in Endpoints : P[z][e] = c)
    BY <1>7, <1>10, Zenon DEF Placed
  <2>2. P2[x][u] = k BY <1>11, Zenon DEF Set
  <2>3. ASSUME NEW z \in ZoneIds, NEW e \in Endpoints, P[z][e] = c
        PROVE  c = k \/ P2[z][e] = c
    <3>1. CASE z = x /\ e = u BY <1>3, <1>10, <2>3, <3>1, Zenon
    <3>2. CASE z # x \/ e # u BY <1>11, <2>3, <3>2, Zenon DEF Set
    <3> QED BY <3>1, <3>2, Zenon
  <2> QED BY <1>6, <2>1, <2>2, <2>3, Zenon
<1> QED BY <1>4, <1>5, <1>12, <1>13, Zenon DEF Owned, P2, S2, u2, a2
(* What the steps that end a call have in common. *)
LEMMA Ending ==
  ASSUME ZoneInv, call.kind \in {"add sync", "join sync"}
  PROVE  /\ call # NoCall /\ call.zone \in ZoneIds /\ call.ep \in Endpoints /\ call.conn \in Nat
         /\ call.conn # 0 /\ CallConn(call) = call.conn
         /\ zones \in [ZoneIds -> Zn] /\ zones[call.zone] \in Zn /\ session \in [Endpoints -> Sess]
         /\ Types /\ Owned
<1>1. call.kind # "none" OBVIOUS
<1>2. Types /\ Owned BY DEF ZoneInv
<1>3. /\ call # NoCall /\ call \in Busy /\ call.conn # 0 /\ call.ep \in Endpoints /\ call.zone \in ZoneIds
      /\ CallConn(call) = call.conn
  BY <1>1, <1>2, AddingIsCall, Zenon
<1>4. call.conn \in Nat BY <1>3, Zenon DEF Busy
<1>5. zones \in [ZoneIds -> Zn] /\ session \in [Endpoints -> Sess] BY <1>2, Zenon DEF Types
<1> QED BY <1>2, <1>3, <1>4, <1>5, Zenon

LEMMA InsertedEnters ==
  ASSUME ZoneInv, call.kind \in {"add sync", "join sync"}, NEW st \in States
  PROVE  Enters(call.zone, Inserted(zones[call.zone], call.ep, call.conn, st), st)
<1>1. zones[call.zone] \in Zn /\ call.ep \in Endpoints /\ call.conn \in Nat BY Ending, Zenon
<1> QED BY <1>1, InsertedIs, Zenon DEF Enters

(* A member that was there before the endpoint of the call. *)
LEMMA OldMember ==
  ASSUME ZoneInv, call # NoCall, NEW x \in ZoneIds, NEW zn, NEW st, Enters(x, zn, st),
         NEW e \in Endpoints, e # call.ep, UpFor(zn.entry[e].conn, open, session[e])
  PROVE  Else(zn, e, session[e])
<1>1. zn.entry[e] = zones[x].entry[e] BY DEF Enters, Filled
<1>2. Told(zones[x], e, session[e]) BY <1>1, Zenon DEF ZoneInv, AllTold
<1>3. Effective(zn, e) = Effective(zones[x], e) BY DEF Enters, Filled, Effective
<1> QED BY <1>1, <1>2, <1>3, Zenon DEF Enters, Filled, Told, Else

LEMMA AddStep == ASSUME ZoneInv, AddEndpoint PROVE ZoneInv'
<1> DEFINE x == call.zone
           u == call.ep
           zn == Inserted(zones[x], u, call.conn, "ready")
<1>1. /\ call.kind = "add sync" /\ zones' = [zones EXCEPT ![x] = zn]
      /\ open' = open \ ({zones[x].entry[u].conn} \ {call.conn})
      /\ session' = Broadcast(session, zn) /\ call' = NoCall /\ UNCHANGED <<conns, releasing>>
  BY Zenon DEF AddEndpoint
<1>2. /\ call # NoCall /\ x \in ZoneIds /\ u \in Endpoints
      /\ zones \in [ZoneIds -> Zn] /\ session \in [Endpoints -> Sess] /\ Types
  BY <1>1, Ending, Zenon
<1>3. Enters(x, zn, "ready")
  <2>1. "ready" \in States BY Zenon DEF States
  <2> QED BY <1>1, <2>1, InsertedEnters, Zenon
<1> HIDE DEF x, zn
<1>4. zn \in Zn /\ zn.entry[u].state = "ready" /\ zn.playing = zones[x].playing /\ zn.active = zones[x].active
  BY <1>3, Zenon DEF Enters, Filled
<1>5. /\ session' \in [Endpoints -> Sess] /\ \A e \in Endpoints : session'[e].conn = session[e].conn
      /\ \A e \in Endpoints : e \notin Reached(zn) => session'[e] = session[e]
  <2>1. session \in [Endpoints -> Sess] /\ session' = Broadcast(session, zn) BY <1>1, <1>2, Zenon
  <2> QED BY <2>1, BroadcastIs
<1>6. Types' BY <1>1, <1>2, <1>4, <1>5, Zenon DEF Types
<1>7. Owned' BY <1>1, <1>2, <1>3, <1>5, <1>6, EntryEnters, Zenon
<1>8. Apart(x) BY <1>2, <1>3, <1>5, EnteringReached, Zenon DEF Apart
<1>9. ASSUME NEW e \in Endpoints, UpFor(zn.entry[e].conn, open', session'[e])
      PROVE  Told(zn, e, session'[e])
  <2>1. UpFor(zn.entry[e].conn, open, session[e]) BY <1>1, <1>5, <1>9, Zenon DEF UpFor
  <2>2. e \in Reached(zn) BY <1>2, <1>3, <2>1, EnteringReached, Zenon
  <2>3. Else(zn, e, session[e])
    <3>1. CASE e # u BY <1>2, <1>3, <2>1, <3>1, OldMember, Zenon
    <3>2. CASE e = u
      <4>1. session[u].conn = call.conn BY <1>3, <2>1, <3>2, Zenon DEF UpFor, Enters, Filled
      <4>2. Fresh(session[u]) BY <1>2, <4>1, Zenon DEF ZoneInv, AllTold
      <4> QED BY <1>4, <3>2, <4>2, Zenon DEF Fresh, Else
    <3> QED BY <3>1, <3>2, Zenon
  <2> QED BY <1>1, <1>2, <2>2, <2>3, ListTold, Zenon
<1>10. zn.playing => zn.active BY <1>2, <1>4 DEF ZoneInv, AllTold
<1>11. AllTold'
  <2>1. open' \subseteq open BY <1>1, Zenon
  <2> QED BY <1>1, <1>2, <1>8, <1>9, <1>10, <2>1, ZoneTold, Zenon
<1> QED BY <1>6, <1>7, <1>11 DEF ZoneInv

LEMMA CaughtUpIs ==
  ASSUME NEW s \in Sess, NEW zn, NEW e
  PROVE  /\ CaughtUp(s, zn, e).conn = s.conn /\ CaughtUp(s, zn, e).peers = s.peers
         /\ CaughtUp(s, zn, e).audio =
              IF ~zn.active THEN s.audio ELSE IF zn.playing THEN "playing" ELSE "format"
         /\ CaughtUp(s, zn, e).vol = IF zn.active THEN Effective(zn, e) ELSE s.vol
BY DEF CaughtUp, Sess

LEMMA JoinStep == ASSUME ZoneInv, JoinActive PROVE ZoneInv'
<1> DEFINE x == call.zone
           u == call.ep
           st == IF zones[x].playing THEN "streaming" ELSE "ready"
           zn == Inserted(zones[x], u, call.conn, st)
           ss == Broadcast(session, zn)
<1>1. /\ call.kind = "join sync" /\ zones' = [zones EXCEPT ![x] = zn]
      /\ open' = open \ ({zones[x].entry[u].conn} \ {call.conn})
      /\ session' = IF Up(call.conn) THEN [ss EXCEPT ![u] = CaughtUp(ss[u], zn, u)] ELSE ss
      /\ call' = NoCall /\ UNCHANGED <<conns, releasing>>
  BY Zenon DEF JoinActive
<1>2. /\ call # NoCall /\ x \in ZoneIds /\ u \in Endpoints
      /\ zones \in [ZoneIds -> Zn] /\ session \in [Endpoints -> Sess] /\ Types
  BY <1>1, Ending, Zenon
<1>3. Enters(x, zn, st)
  <2>1. st \in States BY DEF States
  <2> HIDE DEF st
  <2> QED BY <1>1, <2>1, InsertedEnters, Zenon
<1>4. /\ zn \in Zn /\ zn.playing = zones[x].playing /\ zn.active = zones[x].active
      /\ zn.entry[u].state = IF zn.playing THEN "streaming" ELSE "ready"
  BY <1>3, Zenon DEF Enters, Filled
<1>5. session \in [Endpoints -> Sess] /\ ss = Broadcast(session, zn) BY <1>2, Zenon
<1> HIDE DEF x, st, zn, ss
<1>6. /\ ss \in [Endpoints -> Sess] /\ \A e \in Endpoints : ss[e].conn = session[e].conn
      /\ \A e \in Endpoints : e \notin Reached(zn) => ss[e] = session[e]
  BY <1>5, BroadcastIs
<1>7. CaughtUp(ss[u], zn, u) \in Sess /\ CaughtUp(ss[u], zn, u).conn = session[u].conn
  <2>1. ss[u] \in Sess /\ ss[u].conn = session[u].conn BY <1>2, <1>6
  <2>2. CaughtUp(ss[u], zn, u) \in Sess BY <1>2, <1>4, <2>1, SessParts, Zenon
  <2>3. CaughtUp(ss[u], zn, u).conn = ss[u].conn BY <2>1, CaughtUpIs
  <2> QED BY <2>1, <2>2, <2>3, Zenon
<1>8. \A e \in Endpoints : e # u => session'[e] = ss[e] BY <1>1, <1>2, <1>6, Zenon
<1>9. session'[u] = IF Up(call.conn) THEN CaughtUp(ss[u], zn, u) ELSE ss[u] BY <1>1, <1>2, <1>6, Zenon
<1>10. session' \in [Endpoints -> Sess] BY <1>1, <1>2, <1>6, <1>7, Zenon
<1>11. \A e \in Endpoints : session'[e].conn = session[e].conn BY <1>6, <1>7, <1>8, <1>9
<1>12. Types' BY <1>1, <1>2, <1>4, <1>10, Zenon DEF Types
<1>13. Owned' BY <1>1, <1>2, <1>3, <1>11, <1>12, EntryEnters, Zenon
<1>14. u \notin Reached(zn) => ~Up(call.conn)
  <2>1. zn.entry[u].conn = call.conn /\ call.conn # 0 BY <1>1, <1>3, Ending, Zenon DEF Enters, Filled
  <2> QED BY <1>2, <2>1 DEF Reached, Members
<1>15. \A e \in Endpoints : e \notin Reached(zn) => session'[e] = session[e]
  BY <1>6, <1>8, <1>9, <1>14
<1>16. Apart(x) BY <1>2, <1>3, <1>11, <1>15, EnteringReached, Zenon DEF Apart
<1>17. zn.playing => zn.active BY <1>2, <1>4, Zenon DEF ZoneInv, AllTold
<1>18. ASSUME NEW e \in Endpoints, UpFor(zn.entry[e].conn, open', session'[e])
       PROVE  Told(zn, e, session'[e])
  <2>1. UpFor(zn.entry[e].conn, open, session[e]) BY <1>1, <1>11, <1>18, Zenon DEF UpFor
  <2>2. e \in Reached(zn) BY <1>2, <1>3, <2>1, EnteringReached, Zenon
  <2>3. CASE e # u
    <3>1. Else(zn, e, session[e]) BY <1>2, <1>3, <2>1, <2>3, OldMember, Zenon
    <3>2. Told(zn, e, ss[e]) BY <1>2, <1>5, <2>2, <3>1, ListTold, Zenon
    <3> QED BY <1>8, <2>3, <3>2, Zenon
  <2>4. CASE e = u
    <3>1. session[u].conn = call.conn /\ Up(call.conn)
      BY <1>2, <1>3, <2>1, <2>4, Zenon DEF UpFor, Enters, Filled, Up
    <3>2. Fresh(session[u]) BY <1>2, <3>1, Zenon DEF ZoneInv, AllTold
    <3>3. ss[u].peers = Members(zn) /\ ss[u].vol = session[u].vol /\ ss[u].audio = session[u].audio
      BY <1>2, <1>5, <2>2, <2>4, BroadcastIs
    <3>4. ss[u].vol = Unset /\ ss[u].audio = "idle" BY <3>2, <3>3 DEF Fresh
    <3> DEFINE s == CaughtUp(ss[u], zn, u)
    <3>5. /\ s.peers = Members(zn)
          /\ s.audio = IF ~zn.active THEN "idle" ELSE IF zn.playing THEN "playing" ELSE "format"
          /\ s.vol = IF zn.active THEN Effective(zn, u) ELSE Unset
      <4>1. ss[u] \in Sess BY <1>2, <1>6, Zenon
      <4>2. /\ s.peers = ss[u].peers
            /\ s.audio = IF ~zn.active THEN ss[u].audio ELSE IF zn.playing THEN "playing" ELSE "format"
            /\ s.vol = IF zn.active THEN Effective(zn, u) ELSE ss[u].vol
        <5> DEFINE s0 == ss[u]
        <5>1. s0 \in Sess BY <4>1
        <5>2. s = CaughtUp(s0, zn, u) BY Zenon
        <5> HIDE DEF s0, s
        <5>3. /\ s.peers = s0.peers
              /\ s.audio = IF ~zn.active THEN s0.audio ELSE IF zn.playing THEN "playing" ELSE "format"
              /\ s.vol = IF zn.active THEN Effective(zn, u) ELSE s0.vol
          BY <5>1, <5>2, CaughtUpIs
        <5> QED BY <5>3 DEF s0
      <4> QED BY <3>3, <3>4, <4>2, Zenon
    <3>6. session'[u] = s BY <1>9, <3>1, Zenon
    <3> HIDE DEF s
    <3>7. Told(zn, u, s) BY <1>4, <1>17, <3>5, Zenon DEF Told
    <3> QED BY <2>4, <3>6, <3>7, Zenon
  <2> QED BY <2>3, <2>4, Zenon
<1>19. AllTold'
  <2>1. open' \subseteq open BY <1>1, Zenon
  <2> QED BY <1>1, <1>2, <1>16, <1>17, <1>18, <2>1, ZoneTold, Zenon
<1> QED BY <1>12, <1>13, <1>19 DEF ZoneInv

LEMMA JoinFailsStep == ASSUME ZoneInv, JoinFails PROVE ZoneInv'
<1> DEFINE x == call.zone
           u == call.ep
           zn == Inserted(zones[x], u, call.conn, "ready")
           zn2 == [zones[x] EXCEPT !.entry[u] = NoEntry]
<1>1. /\ call.kind = "join sync" /\ zones' = [zones EXCEPT ![x].entry[u] = NoEntry]
      /\ open' = open \ {zones[x].entry[u].conn, call.conn}
      /\ session' = Broadcast(session, zn) /\ call' = NoCall /\ UNCHANGED <<conns, releasing>>
  BY Zenon DEF JoinFails
<1>2. /\ call # NoCall /\ x \in ZoneIds /\ u \in Endpoints /\ zones[x] \in Zn /\ CallConn(call) = call.conn
      /\ zones \in [ZoneIds -> Zn] /\ session \in [Endpoints -> Sess] /\ Types /\ Owned
  BY <1>1, Ending, Zenon
<1>3. Enters(x, zn, "ready")
  <2>1. "ready" \in States BY DEF States
  <2> QED BY <1>1, <2>1, InsertedEnters, Zenon
<1>4. zn2 \in Zn BY <1>2, NewTypes, ZnParts, Zenon
<1>5. zones[x].entry \in [Endpoints -> Entry] BY <1>2, ZnParts, Zenon
<1>6. /\ zn2.entry[u].conn = 0 /\ \A e \in Endpoints : e # u => zn2.entry[e] = zones[x].entry[e]
      /\ zn2.master = zones[x].master /\ zn2.offset = zones[x].offset
      /\ zn2.active = zones[x].active /\ zn2.playing = zones[x].playing
  BY <1>2, <1>5 DEF Zn, NoEntry
<1>7. zones' = [zones EXCEPT ![x] = zn2] BY <1>1, <1>2, Zenon DEF Zn
<1> HIDE DEF x, u, zn, zn2
<1>8. /\ session' \in [Endpoints -> Sess] /\ \A e \in Endpoints : session'[e].conn = session[e].conn
      /\ \A e \in Endpoints : e \notin Reached(zn) => session'[e] = session[e]
  <2>1. session \in [Endpoints -> Sess] /\ session' = Broadcast(session, zn) BY <1>1, <1>2
  <2> QED BY <2>1, BroadcastIs
<1>9. Types' BY <1>1, <1>2, <1>4, <1>7, <1>8, Zenon DEF Types
<1>10. zones'[x] = zn2 /\ \A z \in ZoneIds : z # x => zones'[z] = zones[z] BY <1>2, <1>7
<1>11. Owned'
  <2>1. \A z \in ZoneIds, e \in Endpoints :
          zones'[z].entry[e].conn = 0 \/ zones'[z].entry[e].conn = zones[z].entry[e].conn
    BY <1>6, <1>10
  <2>2. \A c \in open' :
          /\ c \in open /\ (c = CallConn(call) => c = CallConn(call'))
          /\ c \in releasing => c \in releasing'
          /\ \A z \in ZoneIds, e \in Endpoints :
               zones[z].entry[e].conn = c => zones'[z].entry[e].conn = c
    <3>1. \A c \in open' : c \in open /\ c # call.conn /\ c # zones[x].entry[u].conn BY <1>1, Zenon DEF u, x
    <3>2. ASSUME NEW c \in open', NEW z \in ZoneIds, NEW e \in Endpoints, zones[z].entry[e].conn = c
          PROVE  zones'[z].entry[e].conn = c
      <4>1. z # x \/ e # u BY <3>1, <3>2, Zenon
      <4> QED BY <1>6, <1>10, <3>2, <4>1, Zenon
    <3> QED BY <1>1, <1>2, <3>1, <3>2, Zenon
  <2> QED BY <1>1, <1>2, <1>8, <1>9, <2>1, <2>2, OwnedShrinks, Zenon
<1>12. Apart(x) BY <1>2, <1>3, <1>8, EnteringReached, Zenon DEF Apart
<1>13. /\ \A e \in Endpoints : e # u => zn.entry[e] = zones[x].entry[e]
       /\ zn.master = zones[x].master /\ zn.offset = zones[x].offset
       /\ zn.active = zones[x].active /\ zn.playing = zones[x].playing
  BY <1>3 DEF Enters, Filled, u
<1>14. ASSUME NEW e \in Endpoints, UpFor(zn2.entry[e].conn, open', session'[e])
       PROVE  Told(zn2, e, session'[e])
  <2>1. e # u /\ zn2.entry[e] = zn.entry[e] BY <1>6, <1>13, <1>14 DEF UpFor
  <2>2. UpFor(zn.entry[e].conn, open, session[e]) BY <1>1, <1>8, <1>14, <2>1, Zenon DEF UpFor
  <2>3. e \in Reached(zn) BY <1>2, <1>3, <2>2, EnteringReached
  <2>4. Else(zn, e, session[e]) BY <1>2, <1>3, <2>1, <2>2, OldMember, Zenon DEF u
  <2>5. Effective(zn2, e) = Effective(zn, e) BY <1>6, <1>13, Zenon DEF Effective
  <2>6. Else(zn2, e, session[e]) BY <1>6, <1>13, <2>1, <2>4, <2>5, Zenon DEF Else
  <2>7. Members(zn2) \subseteq Members(zn) BY <1>6, <1>13, Zenon DEF Members
  <2> QED BY <1>1, <1>2, <2>3, <2>6, <2>7, ListTold, Zenon
<1>15. zn2.playing => zn2.active BY <1>2, <1>6 DEF ZoneInv, AllTold
<1>16. AllTold'
  <2>1. open' \subseteq open BY <1>1
  <2> QED BY <1>1, <1>2, <1>7, <1>12, <1>14, <1>15, <2>1, ZoneTold
<1> QED BY <1>9, <1>11, <1>16 DEF ZoneInv

-----------------------------------------------------------------------------
(* The theorems. *)

LEMMA Starts == Init => ZoneInv
<1> SUFFICES ASSUME Init PROVE ZoneInv BY Zenon
<1>1. /\ zones = [z \in ZoneIds |-> NoZone] /\ session = [e \in Endpoints |-> NoSession]
      /\ conns = 0 /\ open = {} /\ releasing = {} /\ call = NoCall
  BY Zenon DEF Init
<1>2. Types BY <1>1, NewTypes DEF Types
<1>3. \A e \in Endpoints : NoZone.entry[e].conn = 0 /\ ~NoZone.playing BY Zenon DEF NoZone, NewZone, NoEntry
<1>4. NoSession.conn = 0 BY Zenon DEF NoSession, NewSession
<1> DEFINE P == Places(zones)
           S == Numbers(session)
           u == call.ep
           a == Asked(call)
<1>5. /\ P \in PlacesType /\ S \in NumbersType
      /\ \A z \in ZoneIds, e \in Endpoints : P[z][e] = 0
      /\ \A e \in Endpoints : S[e] = 0
  <2>1. zones \in [ZoneIds -> Zn] /\ session \in [Endpoints -> Sess] BY <1>2, Zenon DEF Types
  <2>2. /\ \A z \in ZoneIds, e \in Endpoints : zones[z].entry[e].conn = 0
        /\ \A e \in Endpoints : session[e].conn = 0
    BY <1>1, <1>3, <1>4
  <2>3. P \in PlacesType /\ \A z \in ZoneIds, e \in Endpoints : P[z][e] = zones[z].entry[e].conn
    BY <2>1, PlacesFacts, Zenon
  <2>4. S \in NumbersType /\ \A e \in Endpoints : S[e] = session[e].conn BY <2>1, PlacesFacts, Zenon
  <2> HIDE DEF P, S
  <2>5. \A z \in ZoneIds, e \in Endpoints : P[z][e] = 0 BY <2>2, <2>3, Zenon
  <2>6. \A e \in Endpoints : S[e] = 0 BY <2>2, <2>4, Zenon
  <2> QED BY <2>3, <2>4, <2>5, <2>6, Zenon
<1>6. CallConn(call) = 0 BY <1>1, Zenon DEF CallConn
<1> HIDE DEF P, S, u, a
<1>7. Own(P, S, releasing, 0, u, a, conns) BY <1>1, <1>5 DEF Own
<1>8. Placed(open, P, releasing, 0) BY <1>1, Zenon DEF Placed
<1>9. Owned BY <1>6, <1>7, <1>8, Zenon DEF Owned, P, S, u, a
<1>10. AllTold
  <2>1. \A z \in ZoneIds : ~zones[z].playing BY <1>1 DEF NoZone, NewZone
  <2> QED BY <1>1, <2>1, Zenon DEF AllTold, UpFor
<1> QED BY <1>2, <1>9, <1>10 DEF ZoneInv

LEMMA Stutters == ZoneInv /\ UNCHANGED vars => ZoneInv'
BY Zenon DEF vars, ZoneInv, Types, Owned, AllTold

LEMMA Keeps == ZoneInv /\ Next => ZoneInv'
<1> SUFFICES ASSUME ZoneInv, Next PROVE ZoneInv' BY Zenon
<1>1. \A z \in Used : z \in ZoneIds BY ZoneAssumption
<1>2. CASE Handshake BY <1>2, HandshakeStep
<1>3. CASE ConnectFails BY <1>3, ConnectFailsStep
<1>4. CASE SyncHangs BY <1>4, SyncHangsStep
<1>5. CASE AddEndpoint BY <1>5, AddStep
<1>6. CASE JoinActive BY <1>6, JoinStep
<1>7. CASE JoinFails BY <1>7, JoinFailsStep
<1>8. CASE \E c \in releasing : Release(c) BY <1>8, ReleaseStep
<1>9. CASE \E e \in Endpoints : SeesDropped(e) \/ SessionDies(e) BY <1>9, SessionEnds, Zenon
<1>10. ASSUME NEW z \in ZoneIds, CreateZone(z) \/ DissolveZone(z) \/ PruneDisconnected(z) PROVE ZoneInv'
  BY <1>10, CreateStep, DissolveStep, PruneStep, Zenon
<1>11. ASSUME NEW z \in ZoneIds, NEW e \in Endpoints,
              \/ AddStart(z, e, "add") \/ AddStart(z, e, "join")
              \/ RemoveEndpoint(z, e) \/ RemoveEndpointAndNotify(z, e)
              \/ MarkDisconnected(z, e)
              \/ \E to \in ZoneIds : MoveEndpoint(z, e, to)
       PROVE  ZoneInv'
  <2>1. CASE AddStart(z, e, "add") \/ AddStart(z, e, "join") BY <2>1, AddStartStep, Zenon
  <2>2. CASE RemoveEndpoint(z, e) BY <2>2, RemoveStep
  <2>3. CASE RemoveEndpointAndNotify(z, e) BY <2>3, NotifyStep, Zenon
  <2>4. CASE MarkDisconnected(z, e) BY <2>4, MarkSteps
  <2>5. CASE \E to \in ZoneIds : MoveEndpoint(z, e, to) BY <2>5, MoveStep, Zenon
  <2> QED BY <1>11, <2>1, <2>2, <2>3, <2>4, <2>5, Zenon
<1>12. ASSUME NEW z \in Used, ProposeFormatAll(z) \/ PlayAll(z) \/ StopAll(z) \/ SetVolumeAll(z)
       PROVE  ZoneInv'
  BY <1>1, <1>12, ProposeStep, PlayStep, StopStep, SetVolumeAllStep, Zenon
<1>13. ASSUME NEW z \in Used, NEW e \in Endpoints,
              MarkDegraded(z, e) \/ SetVolumeEndpoint(z, e) \/ SetVolumeOffset(z, e)
       PROVE  ZoneInv'
  BY <1>1, <1>13, MarkSteps, SetVolumeEndpointStep, SetVolumeOffsetStep
<1> QED BY <1>2, <1>3, <1>4, <1>5, <1>6, <1>7, <1>8, <1>9, <1>10, <1>11, <1>12, <1>13 DEF Next

LEMMA SafetyPart == Spec => Init /\ [][Next]_vars
BY PTL DEF Spec

(***************************************************************************)
(* Every call of the zones, at every await where it can stop, and every    *)
(* end of a connection leave each connection with one place, in a session  *)
(* of its own endpoint, and each member that can be reached told all that  *)
(* its zone says.                                                          *)
(***************************************************************************)
THEOREM ZoneInvariant == Spec => []ZoneInv
<1>1. ZoneInv /\ [Next]_vars => ZoneInv' BY Keeps, Stutters, Zenon
<1> QED BY <1>1, Starts, SafetyPart, PTL

LEMMA ReachedIsTold ==
  ASSUME ZoneInv, NEW z \in ZoneIds, NEW e \in Reached(zones[z])
  PROVE  Told(zones[z], e, session[e])
<1>1. e \in Endpoints BY Zenon DEF Reached, Members
<1>2. UpFor(zones[z].entry[e].conn, open, session[e]) BY <1>1, ReachedAlone, Zenon DEF ZoneInv
<1> QED BY <1>1, <1>2, Zenon DEF ZoneInv, AllTold

LEMMA HolderIsOne ==
  ASSUME ZoneInv, NEW c \in open
  PROVE  \E h \in Holders(c) : Holders(c) = {h}
<1>1. Types /\ Owned BY DEF ZoneInv
<1>2. /\ \A z, y \in ZoneIds, e, d \in Endpoints :
            zones[z].entry[e].conn # 0 /\ zones[y].entry[d].conn = zones[z].entry[e].conn => z = y /\ e = d
      /\ \A z \in ZoneIds, e \in Endpoints :
            zones[z].entry[e].conn # 0 =>
              /\ zones[z].entry[e].conn \notin releasing
              /\ call # NoCall => call.conn # zones[z].entry[e].conn
      /\ call # NoCall => call.conn \notin releasing
  BY <1>1, OwnedFacts
<1>3. c # 0 /\ (c = CallConn(call) \/ c \in releasing
                 \/ \E z \in ZoneIds, e \in Endpoints : zones[z].entry[e].conn = c)
  <2>1. zones \in [ZoneIds -> Zn] /\ session \in [Endpoints -> Sess] BY <1>1, Zenon DEF Types
  <2>2. \A z \in ZoneIds, e \in Endpoints : Places(zones)[z][e] = zones[z].entry[e].conn BY <2>1, PlacesFacts, Zenon
  <2>3. Placed(open, Places(zones), releasing, CallConn(call)) BY <1>1 DEF Owned
  <2> QED BY <2>2, <2>3 DEF Placed
<1>4. CASE c \in releasing
  <2>1. \A z \in ZoneIds, e \in Endpoints : zones[z].entry[e].conn # c BY <1>2, <1>3, <1>4, Zenon
  <2>2. ~(call # NoCall /\ call.conn = c) BY <1>2, <1>4, Zenon
  <2>3. Holders(c) = {<<"task", c>>} BY <1>4, <2>1, <2>2 DEF Holders
  <2> QED BY <2>3, Zenon
<1>5. CASE c = CallConn(call)
  <2>1. call # NoCall /\ call.conn = c BY <1>3, <1>5, Zenon DEF CallConn
  <2>2. \A z \in ZoneIds, e \in Endpoints : zones[z].entry[e].conn # c BY <1>2, <1>3, <2>1
  <2>3. c \notin releasing BY <1>2, <2>1, Zenon
  <2>4. Holders(c) = {<<"call", c>>} BY <2>1, <2>2, <2>3 DEF Holders
  <2> QED BY <2>4, Zenon
<1>6. ASSUME NEW z \in ZoneIds, NEW e \in Endpoints, zones[z].entry[e].conn = c
      PROVE  \E h \in Holders(c) : Holders(c) = {h}
  <2>1. ASSUME NEW y \in ZoneIds, NEW d \in Endpoints, zones[y].entry[d].conn = c PROVE y = z /\ d = e
    <3>1. zones[z].entry[e].conn # 0 /\ zones[y].entry[d].conn = zones[z].entry[e].conn
      BY <1>3, <1>6, <2>1, Zenon
    <3>2. \A w, v \in ZoneIds, f, g \in Endpoints :
            zones[w].entry[f].conn # 0 /\ zones[v].entry[g].conn = zones[w].entry[f].conn => w = v /\ f = g
      BY <1>2, Zenon
    <3> QED BY <3>1, <3>2
  <2>2. c \notin releasing /\ ~(call # NoCall /\ call.conn = c) BY <1>2, <1>3, <1>6, Zenon
  <2>3. Holders(c) = {<<z, e>>} BY <1>6, <2>1, <2>2 DEF Holders
  <2> QED BY <2>3, Zenon
<1> QED BY <1>3, <1>4, <1>5, <1>6, Zenon

(***************************************************************************)
(* A connection that the controller has not dropped belongs to one entry,  *)
(* to the call that makes it or to the task of a removed endpoint.         *)
(***************************************************************************)
THEOREM ConnectionHasOneOwner == Spec => []OneOwner
<1>1. ZoneInv => OneOwner BY HolderIsOne DEF OneOwner
<1> QED BY <1>1, ZoneInvariant, PTL

(***************************************************************************)
(* A member that a message reaches knows all members of its zone: every    *)
(* call that adds one says so to all (broadcast_zone_update), and those    *)
(* that remove one tell nobody or all.                                     *)
(***************************************************************************)
THEOREM MembersKnowEachOther == Spec => []PeersKnown
<1>1. ZoneInv => PeersKnown BY ReachedIsTold DEF PeersKnown, Told
<1> QED BY <1>1, ZoneInvariant, PTL

(***************************************************************************)
(* A member plays at the level of the volume map, is shown as streaming or *)
(* degraded when it was told to play, plays nothing in a zone without a    *)
(* stream, and plays with the zone if it came with join_active.            *)
(***************************************************************************)
THEOREM MembersStayInStep == Spec => []MembersInStep
<1>1. ZoneInv => MembersInStep BY ReachedIsTold, Zenon DEF MembersInStep, Told
<1> QED BY <1>1, ZoneInvariant, PTL
=============================================================================
