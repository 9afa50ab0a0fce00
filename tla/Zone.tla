-------------------------------- MODULE Zone --------------------------------
(***************************************************************************)
(* The controller's zones: Zone and ZoneManager of oaat-controller, and    *)
(* what the endpoints they hold have been told.                            *)
(*                                                                         *)
(* The host calls one method at a time (they take &mut self); meanwhile    *)
(* connections die, tasks spawned by remove_endpoint run and endpoints     *)
(* notice that they were dropped.  An endpoint serves one connection at a  *)
(* time and takes the next one when the session is over.  A message on a   *)
(* connection that is up is delivered, on one that died it is lost,        *)
(* whether the write reports an error or not.                              *)
(***************************************************************************)
EXTENDS Integers

CONSTANTS
  ZoneIds, Endpoints,
  Used,       \* bound: the zones in which the host streams and sets volumes
  Levels,     \* volume levels the host sets, in 0..100
  Offsets,    \* volume offsets the host sets, in -100..100
  MaxConns,   \* bound: connections made
  MaxCalls,   \* bound: calls other than adding and removing endpoints
  Careful     \* the host adds no endpoint that a zone already holds

ASSUME ZoneAssumption ==
  /\ Used \subseteq ZoneIds
  /\ Levels \subseteq 0..100 /\ Offsets \subseteq -100..100
  /\ MaxConns \in Nat /\ MaxCalls \in Nat
  /\ Careful \in BOOLEAN

VARIABLES
  zones,      \* the manager's zones
  conns,      \* connections made so far, numbered from 1
  open,       \* connections the controller has not dropped
  session,    \* the session of every endpoint, and what it was told in it
  releasing,  \* ZoneRelease tasks spawned and not run yet
  call,       \* the call that adds an endpoint, while it is in progress
  calls       \* other calls so far

vars == <<zones, conns, open, session, releasing, call, calls>>

Unset == -1
States == {"ready", "streaming", "degraded", "disconnected"}
NoEntry == [conn |-> 0, state |-> "ready"]
NoCall == [kind |-> "none"]

(***************************************************************************)
(* A zone that does not exist is kept as an empty one with live = FALSE.   *)
(* An endpoint without an offset has offset 0, as VolumeMap::offset says.  *)
(***************************************************************************)
NewZone ==
  [live |-> TRUE, entry |-> [e \in Endpoints |-> NoEntry], master |-> 100,
   offset |-> [e \in Endpoints |-> 0], active |-> FALSE, playing |-> FALSE]

NoZone == [NewZone EXCEPT !.live = FALSE]

(* audio: what the endpoint was last told: nothing, a format, or to play. *)
NewSession(c) ==
  [conn |-> c, peers |-> {}, vol |-> Unset, audio |-> "idle", joined |-> FALSE]

NoSession == NewSession(0)

Init ==
  /\ zones = [z \in ZoneIds |-> NoZone]
  /\ conns = 0 /\ open = {}
  /\ session = [e \in Endpoints |-> NoSession]
  /\ releasing = {} /\ call = NoCall /\ calls = 0

-----------------------------------------------------------------------------
(* Helpers. *)

Members(zn) == {e \in Endpoints : zn.entry[e].conn # 0}

Up(c) == c \in open /\ \E e \in Endpoints : session[e].conn = c

(* Members a message reaches. *)
Reached(zn) == {e \in Members(zn) : Up(zn.entry[e].conn)}

Clamp(x) == IF x < 0 THEN 0 ELSE IF x > 100 THEN 100 ELSE x
AsI8(x) == ((x + 128) % 256) - 128

Effective(zn, e) == Clamp(zn.master + zn.offset[e])

(* Faulty variant: the list of an endpoint added goes to that endpoint only. *)
BroadcastToOne(ss, zn) ==
  [e \in Endpoints |-> IF e \in Reached(zn) /\ ss[e].peers = {}
                       THEN [ss[e] EXCEPT !.peers = Members(zn)] ELSE ss[e]]

(* broadcast_zone_update: the list of members, to every member. *)
Broadcast(ss, zn) ==
  [e \in Endpoints |-> IF e \in Reached(zn)
                       THEN [ss[e] EXCEPT !.peers = Members(zn)] ELSE ss[e]]

(* The host calls only zones that exist, and nothing while a call is on. *)
Calling(z) == call = NoCall /\ zones[z].live

(* A call that is counted against the bound. *)
Counted == calls < MaxCalls /\ calls' = calls + 1

-----------------------------------------------------------------------------
(* Zones. *)

(* create_zone: a zone of that name that exists is dropped with all it has. *)
CreateZone(z) ==
  /\ call = NoCall /\ IF zones[z].live THEN Counted ELSE UNCHANGED calls
  /\ zones' = [zones EXCEPT ![z] = NewZone]
  /\ open' = open \ {zones[z].entry[e].conn : e \in Endpoints}
  /\ UNCHANGED <<conns, session, releasing, call>>

DissolveZone(z) ==
  /\ Calling(z) /\ Counted
  /\ zones' = [zones EXCEPT ![z] = NoZone]
  /\ open' = open \ {zones[z].entry[e].conn : e \in Endpoints}
  /\ UNCHANGED <<conns, session, releasing, call>>

-----------------------------------------------------------------------------
(* Adding endpoints. *)

Held(e) ==
  \E z \in ZoneIds : zones[z].entry[e].conn # 0 /\ Up(zones[z].entry[e].conn)

(* add_endpoint or join_active begins with a connection. *)
AddStart(z, e, kind) ==
  /\ Calling(z) /\ conns < MaxConns
  /\ Careful => ~Held(e)
  /\ call' = [kind |-> kind, zone |-> z, ep |-> e, conn |-> conns + 1]
  /\ conns' = conns + 1 /\ open' = open \cup {conns + 1}
  /\ UNCHANGED <<zones, session, releasing, calls>>

Adding == call.kind \in {"add", "join"}

(* The endpoint answers the Hello when it has no other session. *)
Handshake ==
  /\ Adding /\ session[call.ep].conn = 0
  /\ session' = [session EXCEPT ![call.ep] = NewSession(call.conn)]
  /\ call' = [call EXCEPT !.kind = IF @ = "add" THEN "add sync" ELSE "join sync"]
  /\ UNCHANGED <<zones, conns, open, releasing, calls>>

(* The connection is refused, or closed during the handshake. *)
ConnectFails ==
  /\ Adding
  /\ call' = NoCall /\ open' = open \ {call.conn}
  /\ UNCHANGED <<zones, conns, session, releasing, calls>>

(* A datagram of the ten exchanges is lost: recv has no timeout and waits. *)
SyncHangs ==
  /\ call.kind \in {"add sync", "join sync"}
  /\ call' = [call EXCEPT !.kind = "hung"]
  /\ UNCHANGED <<zones, conns, open, session, releasing, calls>>

(* The zone with the new entry; an entry replaced is dropped. *)
Inserted(zn, e, c, st) == [zn EXCEPT !.entry[e] = [conn |-> c, state |-> st]]

(* Faulty variant: the connection of the entry replaced is kept. *)
AddEndpointKeepingOld ==
  /\ call.kind = "add sync"
  /\ LET zn == Inserted(zones[call.zone], call.ep, call.conn, "ready")
     IN /\ zones' = [zones EXCEPT ![call.zone] = zn]
        /\ session' = Broadcast(session, zn)
  /\ call' = NoCall
  /\ UNCHANGED <<open, conns, releasing, calls>>

(* The clock is synchronised: the endpoint enters the zone. *)
AddEndpoint ==
  /\ call.kind = "add sync"
  /\ LET z == call.zone e == call.ep
         zn == Inserted(zones[z], e, call.conn, "ready")
     IN /\ zones' = [zones EXCEPT ![z] = zn]
        /\ open' = open \ ({zones[z].entry[e].conn} \ {call.conn})
        /\ session' = Broadcast(session, zn)
  /\ call' = NoCall
  /\ UNCHANGED <<conns, releasing, calls>>

(* Format, volume and play of the active stream. *)
CaughtUp(s, zn, e) ==
  [s EXCEPT !.joined = TRUE,
            !.audio = IF ~zn.active THEN @ ELSE IF zn.playing THEN "playing" ELSE "format",
            !.vol = IF zn.active THEN Effective(zn, e) ELSE @]

JoinActive ==
  /\ call.kind = "join sync"
  /\ LET z == call.zone e == call.ep
         zn == Inserted(zones[z], e, call.conn,
                        IF zones[z].playing THEN "streaming" ELSE "ready")
         ss == Broadcast(session, zn)
     IN /\ zones' = [zones EXCEPT ![z] = zn]
        /\ open' = open \ ({zones[z].entry[e].conn} \ {call.conn})
        /\ session' = IF Up(call.conn) THEN [ss EXCEPT ![e] = CaughtUp(@, zn, e)] ELSE ss
  /\ call' = NoCall
  /\ UNCHANGED <<conns, releasing, calls>>

(***************************************************************************)
(* join_active when the format proposal cannot be written: the endpoint is *)
(* removed again.  The others were told of it and are not told again; its  *)
(* volume offset stays.                                                    *)
(***************************************************************************)
JoinFails ==
  /\ call.kind = "join sync" /\ zones[call.zone].active /\ ~Up(call.conn)
  /\ LET z == call.zone e == call.ep
         zn == Inserted(zones[z], e, call.conn, "ready")
     IN /\ zones' = [zones EXCEPT ![z].entry[e] = NoEntry]
        /\ open' = open \ {zones[z].entry[e].conn, call.conn}
        /\ session' = Broadcast(session, zn)
  /\ call' = NoCall
  /\ UNCHANGED <<conns, releasing, calls>>

-----------------------------------------------------------------------------
(* Removing endpoints. *)

Without(zn, e) == [zn EXCEPT !.entry[e] = NoEntry, !.offset[e] = 0]

(* remove_endpoint spawns a task that says so and drops the connection. *)
RemoveEndpoint(z, e) ==
  /\ Calling(z) /\ e \in Members(zones[z])
  /\ zones' = [zones EXCEPT ![z] = Without(@, e)]
  /\ releasing' = releasing \cup {zones[z].entry[e].conn}
  /\ UNCHANGED <<conns, open, session, call, calls>>

RemoveEndpointAndNotify(z, e) ==
  /\ Calling(z) /\ e \in Members(zones[z])
  /\ zones' = [zones EXCEPT ![z] = Without(@, e)]
  /\ releasing' = releasing \cup {zones[z].entry[e].conn}
  /\ session' = Broadcast(session, Without(zones[z], e))
  /\ UNCHANGED <<conns, open, call, calls>>

(* move_endpoint: removed from one zone, then added to the other. *)
MoveEndpoint(z, e, to) ==
  /\ Calling(z) /\ e \in Members(zones[z]) /\ conns < MaxConns
  /\ zones' = [zones EXCEPT ![z] = Without(@, e)]
  /\ releasing' = releasing \cup {zones[z].entry[e].conn}
  /\ IF zones[to].live
     THEN /\ call' = [kind |-> "add", zone |-> to, ep |-> e, conn |-> conns + 1]
          /\ conns' = conns + 1 /\ open' = open \cup {conns + 1}
     ELSE UNCHANGED <<call, conns, open>>
  /\ UNCHANGED <<session, calls>>

(* Faulty variant: the task waits for the endpoint to close first. *)
ReleaseWaiting(c) ==
  /\ ~Up(c)
  /\ releasing' = releasing \ {c}
  /\ open' = open \ {c}
  /\ UNCHANGED <<zones, conns, session, call, calls>>

(* The spawned task: ZoneRelease, then the connection is dropped. *)
Release(c) ==
  /\ releasing' = releasing \ {c}
  /\ open' = open \ {c}
  /\ UNCHANGED <<zones, conns, session, call, calls>>

(* check_health and mark_disconnected: the connection of the entry died. *)
MarkDisconnected(z, e) ==
  /\ Calling(z) /\ e \in Members(zones[z]) \ Reached(zones[z])
  /\ zones[z].entry[e].state # "disconnected"
  /\ zones' = [zones EXCEPT ![z].entry[e].state = "disconnected"]
  /\ UNCHANGED <<conns, open, session, releasing, call, calls>>

MarkDegraded(z, e) ==
  /\ Calling(z) /\ Counted /\ e \in Members(zones[z])
  /\ zones' = [zones EXCEPT ![z].entry[e].state = "degraded"]
  /\ UNCHANGED <<conns, open, session, releasing, call>>

Dead(zn) == {e \in Members(zn) : zn.entry[e].state = "disconnected"}

(* prune_disconnected: no task, no message. *)
PruneDisconnected(z) ==
  /\ Calling(z) /\ Dead(zones[z]) # {}
  /\ LET zn == zones[z] gone == Dead(zn) IN
       /\ zones' = [zones EXCEPT
            ![z].entry = [e \in Endpoints |-> IF e \in gone THEN NoEntry ELSE @[e]],
            ![z].offset = [e \in Endpoints |-> IF e \in gone THEN 0 ELSE @[e]]]
       /\ open' = open \ {zn.entry[e].conn : e \in gone}
  /\ UNCHANGED <<conns, session, releasing, call, calls>>

-----------------------------------------------------------------------------
(* The stream and the volume. *)

Audio(zn, what) ==
  session' = [e \in Endpoints |-> IF e \in Reached(zn)
                                  THEN [session[e] EXCEPT !.audio = what] ELSE session[e]]

(* The write to a member whose connection died may succeed or fail. *)
Entries(zn, oks, st) ==
  [e \in Endpoints |-> IF e \in oks THEN [zn.entry[e] EXCEPT !.state = st] ELSE zn.entry[e]]

Written(zn) == {oks \in SUBSET Members(zn) : Reached(zn) \subseteq oks}

ProposeFormatAll(z) ==
  /\ Calling(z) /\ Counted
  /\ zones' = [zones EXCEPT ![z].active = TRUE, ![z].playing = FALSE]
  /\ Audio(zones[z], "format")
  /\ UNCHANGED <<conns, open, releasing, call>>

(* Hosts propose a format before they play. *)
PlayAll(z) ==
  /\ Calling(z) /\ Counted /\ zones[z].active
  /\ \E oks \in Written(zones[z]) :
       zones' = [zones EXCEPT ![z].playing = TRUE,
                              ![z].entry = Entries(zones[z], oks, "streaming")]
  /\ Audio(zones[z], "playing")
  /\ UNCHANGED <<conns, open, releasing, call>>

(* Faulty variant: only the members in state Streaming are stopped. *)
StopAllStreaming(z) ==
  /\ Calling(z) /\ Counted
  /\ LET zn == zones[z]
         on == {e \in Reached(zn) : zn.entry[e].state = "streaming"} IN
       /\ zones' = [zones EXCEPT ![z].active = FALSE, ![z].playing = FALSE,
                                 ![z].entry = Entries(zn, on, "ready")]
       /\ session' = [e \in Endpoints |->
                        IF e \in on THEN [session[e] EXCEPT !.audio = "idle"] ELSE session[e]]
  /\ UNCHANGED <<conns, open, releasing, call>>

StopAll(z) ==
  /\ Calling(z) /\ Counted
  /\ \E oks \in Written(zones[z]) :
       zones' = [zones EXCEPT ![z].active = FALSE, ![z].playing = FALSE,
                              ![z].entry = Entries(zones[z], oks, "ready")]
  /\ Audio(zones[z], "idle")
  /\ UNCHANGED <<conns, open, releasing, call>>

(* Every member in who that the message reaches hears its effective level. *)
Volume(zn, who) ==
  session' = [e \in Endpoints |->
                IF e \in who \cap Reached(zn)
                THEN [session[e] EXCEPT !.vol = Effective(zn, e)] ELSE session[e]]

SetVolumeAll(z) ==
  /\ Calling(z) /\ Counted
  /\ \E level \in Levels :
       LET zn == [zones[z] EXCEPT !.master = level] IN
         zones' = [zones EXCEPT ![z] = zn] /\ Volume(zn, Endpoints)
  /\ UNCHANGED <<conns, open, releasing, call>>

(* The offset is taken from the level, and the level itself is sent. *)
SetVolumeEndpoint(z, e) ==
  /\ Calling(z) /\ Counted
  /\ \E level \in Levels :
       LET zn == [zones[z] EXCEPT !.offset[e] = AsI8(level - zones[z].master)] IN
         /\ zones' = [zones EXCEPT ![z] = zn]
         /\ session' = IF e \in Reached(zn)
                       THEN [session EXCEPT ![e].vol = level] ELSE session
  /\ UNCHANGED <<conns, open, releasing, call>>

SetVolumeOffset(z, e) ==
  /\ Calling(z) /\ Counted
  /\ \E offset \in Offsets :
       LET zn == [zones[z] EXCEPT !.offset[e] = offset] IN
         zones' = [zones EXCEPT ![z] = zn] /\ Volume(zn, {e})
  /\ UNCHANGED <<conns, open, releasing, call>>

-----------------------------------------------------------------------------
(* Endpoints. *)

(* A session ends because the controller dropped the connection. *)
SeesDropped(e) ==
  /\ session[e].conn # 0 /\ session[e].conn \notin open
  /\ session' = [session EXCEPT ![e] = NoSession]
  /\ UNCHANGED <<zones, conns, open, releasing, call, calls>>

(* A session ends because the endpoint or the network failed. *)
SessionDies(e) ==
  /\ session[e].conn \in open
  /\ session' = [session EXCEPT ![e] = NoSession]
  /\ UNCHANGED <<zones, conns, open, releasing, call, calls>>

Next ==
  \/ Handshake \/ ConnectFails \/ SyncHangs \/ AddEndpoint \/ JoinActive \/ JoinFails
  \/ \E c \in releasing : Release(c)
  \/ \E e \in Endpoints : SeesDropped(e) \/ SessionDies(e)
  \/ \E z \in ZoneIds :
       \/ CreateZone(z) \/ DissolveZone(z) \/ PruneDisconnected(z)
       \/ \E e \in Endpoints :
            \/ AddStart(z, e, "add") \/ AddStart(z, e, "join")
            \/ RemoveEndpoint(z, e) \/ RemoveEndpointAndNotify(z, e)
            \/ MarkDisconnected(z, e)
            \/ \E to \in ZoneIds : MoveEndpoint(z, e, to)
  \/ \E z \in Used :
       \/ ProposeFormatAll(z) \/ PlayAll(z) \/ StopAll(z) \/ SetVolumeAll(z)
       \/ \E e \in Endpoints :
            MarkDegraded(z, e) \/ SetVolumeEndpoint(z, e) \/ SetVolumeOffset(z, e)

(* Tasks run, endpoints notice what happened and answer when they are free. *)
Spec ==
  /\ Init /\ [][Next]_vars
  /\ WF_vars(Handshake) /\ WF_vars(AddEndpoint) /\ WF_vars(JoinActive \/ JoinFails)
  /\ \A c \in 1..MaxConns : WF_vars(c \in releasing /\ Release(c))
  /\ \A e \in Endpoints : WF_vars(SeesDropped(e))

-----------------------------------------------------------------------------
(* Properties. *)

(* Every zone, session and call has its type.                                *)
TypeOK ==
  /\ \A z \in ZoneIds :
       /\ zones[z].entry \in [Endpoints -> [conn : 0..MaxConns, state : States]]
       /\ zones[z].master \in 0..100
       /\ zones[z].offset \in [Endpoints -> -128..127]
       /\ {zones[z].live, zones[z].active, zones[z].playing} \subseteq BOOLEAN
  /\ conns \in 0..MaxConns /\ open \subseteq 1..conns /\ releasing \subseteq 1..conns
  /\ \A e \in Endpoints :
       /\ session[e].conn \in 0..conns /\ session[e].peers \subseteq Endpoints
       /\ session[e].vol \in 0..100 \cup {Unset}
       /\ session[e].audio \in {"idle", "format", "playing"}
  /\ call.kind \in {"none", "add", "join", "add sync", "join sync", "hung"}

Holders(c) ==
  {p \in ZoneIds \X Endpoints : zones[p[1]].entry[p[2]].conn = c}
    \cup {<<"call", c>> : x \in {y \in {call} : y # NoCall /\ y.conn = c}}
    \cup {<<"task", c>> : x \in {y \in releasing : y = c}}

(* A connection has one owner, a zone, the call that makes it or the task    *)
(* that takes leave: none outlives its entry, whichever way an endpoint left *)
(* or was replaced.  An endpoint has one session, so it is live in one zone. *)
OneOwner == \A c \in open : \E h \in Holders(c) : Holders(c) = {h}

(* Zone and members agree on what is played, after any mix of joins,         *)
(* departures, volume changes and stops.  An endpoint plays at the level the *)
(* volume map computes.  One that was told to play is shown as streaming or  *)
(* degraded, and one shown as streaming, or told of a stream, is in a zone   *)
(* that has one: no member plays on after a stop.  One that joined with      *)
(* join_active plays when the zone does, whether the stream began before or  *)
(* after it came.                                                            *)
MembersInStep ==
  \A z \in ZoneIds : \A e \in Reached(zones[z]) :
    LET s == session[e]
        state == zones[z].entry[e].state
    IN /\ s.vol # Unset => s.vol = Effective(zones[z], e)
       /\ s.audio = "playing" => state \in {"streaming", "degraded"}
       /\ state = "streaming" \/ s.audio # "idle" => zones[z].active
       /\ zones[z].playing /\ s.joined => s.audio = "playing"

(* Every member knows every other one (zone_update).                         *)
PeersKnown ==
  \A z \in ZoneIds : \A e \in Reached(zones[z]) :
    Members(zones[z]) \subseteq session[e].peers

(* Adding, joining and moving come to an end, unless the clock bootstrap     *)
(* loses a datagram: the endpoint a zone let go becomes free for the next.   *)
AddReturns == (call # NoCall) ~> (call = NoCall \/ call.kind = "hung")

(* A failed clock bootstrap does not keep the endpoint out (add_endpoint:    *)
(* "clock sync failed for endpoint, continuing").                            *)
BootstrapReturns == (call # NoCall) ~> (call = NoCall)

(* Every member knows exactly the members (RFC 7.5.2).                       *)
PeersExact ==
  \A z \in ZoneIds : \A e \in Reached(zones[z]) : session[e].peers = Members(zones[z])

(* Every member of a zone that plays was told to play (RFC 2.2: zone.add     *)
(* supports late-join during playback).                                      *)
MembersPlay ==
  \A z \in ZoneIds : \A e \in Reached(zones[z]) :
    zones[z].playing => session[e].audio = "playing"
=============================================================================
