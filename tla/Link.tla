-------------------------------- MODULE Link --------------------------------
(***************************************************************************)
(* The controller's end of the control connections: the reader task that   *)
(* handshake_and_spawn starts for every endpoint, its two bounded channels *)
(* for responses and releases, the forwarding task of a zone and the       *)
(* zone's own release channel, shared by all its endpoints.                *)
(*                                                                         *)
(* Responses (format answers, gapless answers, stream_stats) and releases  *)
(* of an endpoint are numbered in the order they are written.              *)
(***************************************************************************)
EXTENDS Naturals, Sequences

CONSTANTS
  Endpoints,
  Talkers,        \* bound: the endpoints that write responses
  ResponseCap,    \* 32 in the code
  ReleaseCap,     \* 4 in the code
  ZoneCap,        \* 16 in the code
  MaxResponses,   \* bound: responses an endpoint writes
  MaxReleases,    \* bound: releases an endpoint writes
  ReadsResponses  \* the host takes responses (a zone gives it no way to)

ASSUME LinkAssumption ==
  /\ Talkers \subseteq Endpoints
  /\ {ResponseCap, ReleaseCap, ZoneCap} \subseteq Nat \ {0}
  /\ {MaxResponses, MaxReleases} \subseteq Nat
  /\ ReadsResponses \in BOOLEAN

VARIABLES
  wire,       \* bytes the endpoint wrote and the reader has not read
  sent,       \* responses and releases written
  reader,     \* the task: "reading", a response it waits to hand over, "done"
  responses,  \* response_rx
  taken,      \* responses the host took
  releaseq,   \* release_rx
  zoneq,      \* the zone's release channel
  listens,    \* the host took the zone's release channel
  passed,     \* ghost: releases the reader is done with, that no later
              \* release taken by the host speaks for
  unseen      \* ghost: releases written and not seen in that sense

linkVars == <<wire, sent, reader, responses, taken, releaseq, zoneq, listens, passed, unseen>>

Reading == [kind |-> "reading"]
Done == [kind |-> "done"]
Eof == [kind |-> "eof"]
Message(kind, n) == [kind |-> kind, n |-> n]

LinkInit ==
  /\ wire = [e \in Endpoints |-> <<>>]
  /\ sent = [e \in Endpoints |-> [response |-> 0, release |-> 0]]
  /\ reader = [e \in Endpoints |-> Reading]
  /\ responses = [e \in Endpoints |-> <<>>]
  /\ taken = [e \in Endpoints |-> 0]
  /\ releaseq = [e \in Endpoints |-> <<>>]
  /\ zoneq = <<>>
  /\ listens \in BOOLEAN
  /\ passed = [e \in Endpoints |-> {}] /\ unseen = [e \in Endpoints |-> {}]

-----------------------------------------------------------------------------
(* The endpoints. *)

Connected(e) == \A i \in 1..Len(wire[e]) : wire[e][i] # Eof

Responds(e) ==
  /\ Connected(e) /\ e \in Talkers /\ sent[e].response < MaxResponses
  /\ wire' = [wire EXCEPT ![e] = Append(@, Message("response", sent[e].response + 1))]
  /\ sent' = [sent EXCEPT ![e].response = @ + 1]
  /\ UNCHANGED <<reader, responses, taken, releaseq, zoneq, listens, passed, unseen>>

Releases(e) ==
  /\ Connected(e) /\ sent[e].release < MaxReleases
  /\ wire' = [wire EXCEPT ![e] = Append(@, Message("release", sent[e].release + 1))]
  /\ sent' = [sent EXCEPT ![e].release = @ + 1]
  /\ unseen' = [unseen EXCEPT ![e] = @ \cup {sent[e].release + 1}]
  /\ UNCHANGED <<reader, responses, taken, releaseq, zoneq, listens, passed>>

Closes(e) ==
  /\ Connected(e)
  /\ wire' = [wire EXCEPT ![e] = Append(@, Eof)]
  /\ UNCHANGED <<sent, reader, responses, taken, releaseq, zoneq, listens, passed, unseen>>

-----------------------------------------------------------------------------
(* The reader task. *)

Upcoming(e, kind) == reader[e] = Reading /\ wire[e] # <<>> /\ Head(wire[e]).kind = kind

(* Faulty variant: a response that finds the channel full is thrown away. *)
ReadResponseDropping(e) ==
  /\ Upcoming(e, "response")
  /\ reader' = reader
  /\ responses' = [responses EXCEPT ![e] = IF Len(@) < ResponseCap
                                           THEN Append(@, Head(wire[e]).n) ELSE @]
  /\ wire' = [wire EXCEPT ![e] = Tail(@)]
  /\ UNCHANGED <<sent, taken, releaseq, zoneq, listens, passed, unseen>>

ReadResponse(e) ==
  /\ Upcoming(e, "response")
  /\ reader' = [reader EXCEPT ![e] = Head(wire[e])]
  /\ wire' = [wire EXCEPT ![e] = Tail(@)]
  /\ UNCHANGED <<sent, responses, taken, releaseq, zoneq, listens, passed, unseen>>

(* response_tx.send waits for room. *)
HandOver(e) ==
  /\ reader[e].kind = "response" /\ Len(responses[e]) < ResponseCap
  /\ responses' = [responses EXCEPT ![e] = Append(@, reader[e].n)]
  /\ reader' = [reader EXCEPT ![e] = Reading]
  /\ UNCHANGED <<wire, sent, taken, releaseq, zoneq, listens, passed, unseen>>

(* Faulty variant: the reader waits for room in the release channel. *)
ReadReleaseWaiting(e) ==
  /\ Upcoming(e, "release") /\ Len(releaseq[e]) < ReleaseCap
  /\ releaseq' = [releaseq EXCEPT ![e] = Append(@, Head(wire[e]).n)]
  /\ passed' = [passed EXCEPT ![e] = @ \cup {Head(wire[e]).n}]
  /\ wire' = [wire EXCEPT ![e] = Tail(@)]
  /\ UNCHANGED <<sent, reader, responses, taken, zoneq, listens, unseen>>

(* release_tx.try_send never waits: a release that finds no room is dropped. *)
ReadRelease(e) ==
  /\ Upcoming(e, "release")
  /\ releaseq' = [releaseq EXCEPT ![e] = IF Len(@) < ReleaseCap
                                         THEN Append(@, Head(wire[e]).n) ELSE @]
  /\ passed' = [passed EXCEPT ![e] = @ \cup {Head(wire[e]).n}]
  /\ wire' = [wire EXCEPT ![e] = Tail(@)]
  /\ UNCHANGED <<sent, reader, responses, taken, zoneq, listens, unseen>>

ReadEof(e) ==
  /\ reader[e] = Reading /\ wire[e] # <<>> /\ Head(wire[e]) = Eof
  /\ reader' = [reader EXCEPT ![e] = Done]
  /\ UNCHANGED <<wire, sent, responses, taken, releaseq, zoneq, listens, passed, unseen>>

-----------------------------------------------------------------------------
(* The zone and the host. *)

(* Faulty variant: a release that finds the zone's channel full is dropped. *)
ForwardDropping(e) ==
  /\ releaseq[e] # <<>>
  /\ zoneq' = IF Len(zoneq) < ZoneCap
              THEN Append(zoneq, [ep |-> e, n |-> Head(releaseq[e])]) ELSE zoneq
  /\ releaseq' = [releaseq EXCEPT ![e] = Tail(@)]
  /\ UNCHANGED <<wire, sent, reader, responses, taken, listens, passed, unseen>>

(***************************************************************************)
(* spawn_release_forward.  The message the task holds while it waits for   *)
(* room in the zone's channel is counted as still in its own.              *)
(***************************************************************************)
Forward(e) ==
  /\ releaseq[e] # <<>> /\ Len(zoneq) < ZoneCap
  /\ zoneq' = Append(zoneq, [ep |-> e, n |-> Head(releaseq[e])])
  /\ releaseq' = [releaseq EXCEPT ![e] = Tail(@)]
  /\ UNCHANGED <<wire, sent, reader, responses, taken, listens, passed, unseen>>

(* The host takes a release: all that the reader met so far are accounted for. *)
TakeRelease ==
  /\ listens /\ zoneq # <<>>
  /\ LET e == Head(zoneq).ep IN
       /\ unseen' = [unseen EXCEPT ![e] = @ \ passed[e]]
       /\ passed' = [passed EXCEPT ![e] = {}]
  /\ zoneq' = Tail(zoneq)
  /\ UNCHANGED <<wire, sent, reader, responses, taken, releaseq, listens>>

TakeResponse(e) ==
  /\ ReadsResponses /\ responses[e] # <<>>
  /\ taken' = [taken EXCEPT ![e] = @ + 1]
  /\ responses' = [responses EXCEPT ![e] = Tail(@)]
  /\ UNCHANGED <<wire, sent, reader, releaseq, zoneq, listens, passed, unseen>>

LinkNext ==
  \/ TakeRelease
  \/ \E e \in Endpoints :
       \/ Responds(e) \/ Releases(e) \/ Closes(e)
       \/ ReadResponse(e) \/ HandOver(e) \/ ReadRelease(e) \/ ReadEof(e)
       \/ Forward(e) \/ TakeResponse(e)

(* Tasks run; the host reads the channels it took. *)
LinkSpec ==
  /\ LinkInit /\ [][LinkNext]_linkVars
  /\ WF_linkVars(TakeRelease)
  /\ \A e \in Endpoints :
       /\ WF_linkVars(ReadResponse(e)) /\ WF_linkVars(HandOver(e))
       /\ WF_linkVars(ReadRelease(e)) /\ WF_linkVars(ReadEof(e))
       /\ SF_linkVars(Forward(e)) /\ WF_linkVars(TakeResponse(e))

-----------------------------------------------------------------------------
(* Properties. *)

(* The channels keep their bounds and everything its type.                   *)
TypeOK ==
  /\ \A e \in Endpoints :
       /\ sent[e] \in [response : 0..MaxResponses, release : 0..MaxReleases]
       /\ reader[e].kind \in {"reading", "response", "done"}
       /\ Len(responses[e]) <= ResponseCap /\ Len(releaseq[e]) <= ReleaseCap
       /\ taken[e] \in 0..MaxResponses
       /\ passed[e] \subseteq unseen[e] /\ unseen[e] \subseteq 1..MaxReleases
  /\ Len(zoneq) <= ZoneCap /\ listens \in BOOLEAN

(* The places of the answers on the wire, and the number of the last one off it. *)
Answers(e) == {i \in 1..Len(wire[e]) : wire[e][i].kind = "response"}
Off(e) == taken[e] + Len(responses[e]) + (IF reader[e].kind = "response" THEN 1 ELSE 0)

(* Every answer of an endpoint reaches the host once and in order, however   *)
(* full the channels are: those taken, queued, in the reader's hand and on   *)
(* the wire are the answers written, in the order they were written.         *)
ResponsesComplete ==
  \A e \in Endpoints :
    /\ \A i \in 1..Len(responses[e]) : responses[e][i] = taken[e] + i
    /\ reader[e].kind = "response" => reader[e].n = Off(e)
    /\ Off(e) <= sent[e].response
    /\ {wire[e][i].n : i \in Answers(e)} = Off(e) + 1 .. sent[e].response
    /\ \A i, j \in Answers(e) : i < j => wire[e][i].n < wire[e][j].n

(* A host that listens learns of every release: it takes that release, or    *)
(* one that was still queued when it came (handshake_and_spawn: "an unread   *)
(* release only needs to be seen once").                                     *)
ReleaseSeen ==
  \A e \in Endpoints, n \in 1..MaxReleases :
    listens /\ n \in unseen[e] ~> n \notin unseen[e]

(* The end of a connection is noticed (is_reader_alive: "Returns false once  *)
(* the endpoint has disconnected"), also when nobody takes the releases.     *)
DropNoticed == \A e \in Endpoints : ~Connected(e) ~> reader[e] = Done
=============================================================================
