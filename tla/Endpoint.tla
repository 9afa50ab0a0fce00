------------------------------ MODULE Endpoint ------------------------------
(***************************************************************************)
(* An endpoint process: the transport task (EndpointTransport and          *)
(* EndpointSession::run of oaat-endpoint) and the application task (module *)
(* Playback), joined by the two bounded channels of run_endpoint: events   *)
(* from the transport, control messages from the application.  Sessions    *)
(* come one after the other and share both channels.                       *)
(*                                                                         *)
(* A proposal is identified by a ghost number; two proposals may carry the *)
(* same stream id.                                                         *)
(***************************************************************************)
EXTENDS Playback, Sequences, FiniteSets

CONSTANTS
  EventCap,      \* 256 in the code
  CtrlCap,       \* 32 in the code
  MaxBatch,      \* bound: messages decoded from one read of 8192 bytes
  MaxProposals,  \* bound: proposals sent
  MaxCommands,   \* bound: other messages sent
  Commands,      \* the other messages considered: "play", "stop", "reformat"
  MaxConns,      \* bound: connections
  MaxReleases,   \* bound: release requests of the host
  Verdicts,      \* answers of negotiate_format considered
  ReuseIds,      \* the controllers use one stream id for all they propose
  Breaks,        \* a connection may fail instead of being closed
  Ticks          \* the servo runs

ASSUME EndpointAssumption ==
  /\ {EventCap, CtrlCap, MaxBatch, MaxConns} \subseteq Nat \ {0}
  /\ {MaxProposals, MaxCommands, MaxReleases} \subseteq Nat
  /\ Verdicts \subseteq {"accept", "counter", "reject"}
  /\ Commands \subseteq {"play", "stop", "reformat"}
  /\ {ReuseIds, Breaks, Ticks} \subseteq BOOLEAN

VARIABLES
  phase,      \* "accept": waiting for a controller; "run": a session
  conn,       \* number of the connection
  tcp,        \* messages of the controller not read yet
  commands,   \* commands sent so far
  proposals,  \* proposals sent so far
  batch,      \* messages decoded and not handled yet
  todo,       \* what the handler in progress still has to do
  pending,    \* pending_accept: a set with at most one proposal
  events,     \* the event channel
  ctrl,       \* the control channel
  conf,       \* ghost: the proposal the application configured last
  answers,    \* ghost: answers to proposals written to the controller
  ended,      \* ghost: proposals a release ended
  releases,   \* release requests waiting
  asked,      \* release requests so far
  term        \* SIGTERM: "no", "asked", "done"

session == <<phase, conn, batch, todo, pending>>
network == <<tcp, commands, proposals>>
ghosts == <<answers, ended>>
host == <<releases, asked, term>>
vars == <<app, phase, conn, tcp, commands, proposals, batch, todo, pending,
          events, ctrl, conf, answers, ended, releases, asked, term>>

Id(n) == IF ReuseIds THEN 1 ELSE n

Msg(type, n, verdict) == [type |-> type, n |-> n, verdict |-> verdict]
Plain(type) == Msg(type, 0, "accept")

EndpointInit ==
  /\ \E kind \in Kinds : app = NewApp(kind)
  /\ phase = "accept" /\ conn = 0
  /\ tcp = <<>> /\ commands = 0 /\ proposals = 0
  /\ batch = <<>> /\ todo = <<>> /\ pending = {}
  /\ events = <<>> /\ ctrl = <<>>
  /\ conf = 0 /\ answers = <<>> /\ ended = {}
  /\ releases = 0 /\ asked = 0 /\ term = "no"

-----------------------------------------------------------------------------
(* The controller and the host. *)

Sends(m) ==
  /\ phase = "run" /\ term # "done"
  /\ \A i \in 1..Len(tcp) : tcp[i].type # "eof"
  /\ tcp' = Append(tcp, m)

ControllerProposes ==
  /\ proposals < MaxProposals
  /\ \E v \in Verdicts : Sends(Msg("propose", proposals + 1, v))
  /\ proposals' = proposals + 1
  /\ UNCHANGED <<app, session, commands, events, ctrl, conf, ghosts, host>>

ControllerCommands ==
  /\ commands < MaxCommands
  /\ \E c \in Commands : Sends(Plain(c))
  /\ commands' = commands + 1
  /\ UNCHANGED <<app, session, proposals, events, ctrl, conf, ghosts, host>>

ControllerCloses ==
  /\ Sends(Plain("eof"))
  /\ UNCHANGED <<app, session, commands, proposals, events, ctrl, conf, ghosts, host>>

(* POST /api/release. *)
HostReleases ==
  /\ asked < MaxReleases
  /\ asked' = asked + 1 /\ releases' = releases + 1
  /\ UNCHANGED <<app, session, network, events, ctrl, conf, ghosts, term>>

HostTerminates ==
  /\ term = "no"
  /\ term' = "asked"
  /\ UNCHANGED <<app, session, network, events, ctrl, conf, ghosts, releases, asked>>

-----------------------------------------------------------------------------
(* The transport task. *)

Alive == term # "done"

(* The accept loop takes the next controller; its Hello is announced. *)
AcceptSession ==
  /\ Alive /\ phase = "accept" /\ conn < MaxConns
  /\ phase' = "run" /\ conn' = conn + 1
  /\ todo' = <<Plain("connected")>>
  /\ tcp' = <<>>
  /\ UNCHANGED <<app, batch, pending, commands, proposals, events, ctrl, conf, ghosts, host>>

(* A controller that closes before its Hello. *)
AcceptAborted ==
  /\ Alive /\ phase = "accept" /\ conn < MaxConns
  /\ phase' = "run" /\ conn' = conn + 1
  /\ todo' = <<Plain("disconnected"), Plain("close")>>
  /\ tcp' = <<Plain("eof")>>
  /\ UNCHANGED <<app, batch, pending, commands, proposals, events, ctrl, conf, ghosts, host>>

(* In the select, between two iterations of the loop. *)
Selecting == Alive /\ phase = "run" /\ batch = <<>> /\ todo = <<>>

Read ==
  /\ Selecting /\ tcp # <<>>
  /\ \/ /\ Head(tcp).type = "eof"
        /\ todo' = <<Plain("disconnected"), Plain("close")>>
        /\ UNCHANGED <<tcp, batch>>
     \/ \E k \in 1 .. MaxBatch :
          /\ k <= Len(tcp)
          /\ \A i \in 1..k : tcp[i].type # "eof"
          /\ batch' = SubSeq(tcp, 1, k)
          /\ tcp' = SubSeq(tcp, k + 1, Len(tcp)) /\ todo' = todo
  /\ UNCHANGED <<app, phase, conn, commands, proposals, pending, events, ctrl, conf,
                 ghosts, host>>

(* An answer on the wire; by: the proposal that was set up for it, if any. *)
Answer(n, kind, by, via) ==
  [to |-> n, kind |-> kind, by |-> by, via |-> via, conn |-> conn]

(***************************************************************************)
(* What a message leaves to do: events to send and, last, the negotiation  *)
(* to hold.  FormatProposed is sent whatever the verdict.                  *)
(***************************************************************************)
TodoOf(m) ==
  CASE m.type = "propose" /\ m.verdict = "accept" ->
         <<Plain("accepted"), m, Msg("hold", m.n, m.verdict)>>
    [] m.type = "propose" /\ m.verdict = "reject" -> <<Plain("rejected"), m>>
    [] OTHER -> <<m>>

(* Only a counter or a reject is written here, an accept is deferred. *)
HandleMessage ==
  /\ Alive /\ phase = "run" /\ batch # <<>> /\ todo = <<>>
  /\ LET m == Head(batch) IN
       /\ todo' = TodoOf(m)
       /\ answers' = IF m.type = "propose" /\ m.verdict # "accept"
                     THEN Append(answers, Answer(m.n, m.verdict, 0, "auto")) ELSE answers
  /\ batch' = Tail(batch)
  /\ UNCHANGED <<app, phase, conn, network, pending, events, ctrl, conf, ended, host>>

(* event_tx.send blocks while the channel is full. *)
SendEvent ==
  /\ Alive /\ phase = "run" /\ todo # <<>> /\ Head(todo).type \notin {"hold", "close"}
  /\ Len(events) < EventCap
  /\ events' = Append(events, Head(todo))
  /\ todo' = Tail(todo)
  /\ UNCHANGED <<app, phase, conn, batch, pending, network, ctrl, conf, ghosts, host>>

HoldAccept ==
  /\ Alive /\ phase = "run" /\ todo # <<>> /\ Head(todo).type = "hold"
  /\ pending' = {Head(todo).n}
  /\ todo' = Tail(todo)
  /\ UNCHANGED <<app, phase, conn, batch, network, events, ctrl, conf, ghosts, host>>

EndSession ==
  /\ Alive /\ phase = "run" /\ todo # <<>> /\ Head(todo).type = "close"
  /\ phase' = "accept" /\ todo' = <<>> /\ pending' = {}
  /\ UNCHANGED <<app, conn, batch, network, events, ctrl, conf, ghosts, host>>

(* A read or write error returns from the session without an event. *)
BreakSession ==
  /\ Breaks /\ Selecting
  /\ phase' = "accept" /\ tcp' = <<>> /\ pending' = {}
  /\ UNCHANGED <<app, conn, commands, proposals, batch, todo, events, ctrl, conf,
                 ghosts, host>>

(* Nobody confirmed within 5 s: the accept held back is sent. *)
FailOpen ==
  /\ Selecting
  /\ \E n \in pending : answers' = Append(answers, Answer(n, "accept", 0, "failopen"))
  /\ pending' = {}
  /\ UNCHANGED <<app, phase, conn, batch, todo, network, events, ctrl, conf, ended, host>>

(* Faulty variant: any confirmation resolves the negotiation. *)
ResolvesAny(m) == {n \in pending : m.type \in {"accept", "reject"}}

(* The negotiation a message of the application answers. *)
Resolves(m) == {n \in pending : m.type \in {"accept", "reject"} /\ m.stream = Id(n)}

(* Faulty variant: a stale confirmation ends the wait. *)
TakeControlDroppingWait(m) ==
  /\ pending' = {} /\ ended' = ended
  /\ answers' = answers \o [i \in 1..Cardinality(Resolves(m)) |->
                              Answer(m.by, m.type, m.by, "resolve")]

(* Faulty variant: the negotiation stays open after its confirmation. *)
TakeControlKeepingWait(m) ==
  /\ UNCHANGED <<pending, ended>>
  /\ answers' = answers \o [i \in 1..Cardinality(Resolves(m)) |->
                              Answer(m.by, m.type, m.by, "resolve")]

(***************************************************************************)
(* A message of the application.  A release ends the negotiation; a        *)
(* confirmation resolves the one it names, is dropped while another one is *)
(* pending, and is forwarded like any other message when none is.          *)
(***************************************************************************)
TakeControl(m) ==
  \/ /\ m.type = "release"
     /\ pending' = {} /\ ended' = ended \cup pending /\ answers' = answers
  \/ /\ m.type # "release" /\ ended' = ended
     /\ pending' = pending \ Resolves(m)
     /\ \/ \E n \in Resolves(m) : answers' = Append(answers, Answer(n, m.type, m.by, "resolve"))
        \/ /\ pending = {} /\ m.type \in {"accept", "reject"}
           /\ answers' = Append(answers, Answer(m.by, m.type, m.by, "forward"))
        \/ /\ Resolves(m) = {} /\ (pending # {} \/ m.type = "stats")
           /\ answers' = answers

ReceiveControl ==
  /\ Selecting /\ ctrl # <<>>
  /\ TakeControl(Head(ctrl))
  /\ ctrl' = Tail(ctrl)
  /\ UNCHANGED <<app, phase, conn, batch, todo, network, events, conf, host>>

-----------------------------------------------------------------------------
(* The application task. *)

(* Not waiting for room in the control channel. *)
Free == Alive /\ app.mail = NoMail

ApplicationHandles(e, ok) ==
  CASE e.type = "connected" -> OnConnected(app)
    [] e.type = "propose" -> OnFormatProposed(app, Id(e.n), ok)
    [] e.type = "play" -> OnPlay(app, ok)
    [] e.type = "stop" -> OnStop(app)
    [] e.type = "reformat" -> OnReformat(app, ok)
    [] e.type = "disconnected" -> OnDisconnected(app)
    [] OTHER -> app

TakeEvent ==
  /\ Free /\ events # <<>>
  /\ \E ok \in BOOLEAN : app' = ApplicationHandles(Head(events), ok)
  /\ conf' = IF Head(events).type = "propose" THEN Head(events).n ELSE conf
  /\ events' = Tail(events)
  /\ UNCHANGED <<session, network, ctrl, ghosts, host>>

(* ctrl_tx.send blocks while the channel is full. *)
SendControl ==
  /\ Alive /\ app.mail # NoMail /\ Len(ctrl) < CtrlCap
  /\ ctrl' = Append(ctrl, [type |-> app.mail.type, stream |-> app.mail.stream, by |-> conf])
  /\ app' = [app EXCEPT !.mail = NoMail]
  /\ UNCHANGED <<session, network, events, conf, ghosts, host>>

(* Faulty variant: a request is only taken during a session. *)
TakeReleaseConnected ==
  /\ Free /\ events = <<>> /\ releases > 0 /\ app.connected
  /\ app' = OnRelease(app)
  /\ releases' = releases - 1
  /\ UNCHANGED <<session, network, events, ctrl, conf, ghosts, asked, term>>

(* The select is biased: events go first. *)
TakeRelease ==
  /\ Free /\ events = <<>> /\ releases > 0
  /\ app' = OnRelease(app)
  /\ releases' = releases - 1
  /\ UNCHANGED <<session, network, events, ctrl, conf, ghosts, asked, term>>

Tick ==
  /\ Ticks /\ Free
  /\ app' = OnServoTick(app)
  /\ UNCHANGED <<session, network, events, ctrl, conf, ghosts, host>>

Terminate ==
  /\ Free /\ events = <<>> /\ term = "asked"
  /\ app' = [app EXCEPT !.out = Stopped(@)]
  /\ term' = "done"
  /\ UNCHANGED <<session, network, events, ctrl, conf, ghosts, releases, asked>>

Transport ==
  \/ Read \/ HandleMessage \/ SendEvent \/ HoldAccept \/ EndSession \/ FailOpen
  \/ ReceiveControl

EndpointNext ==
  \/ ControllerProposes \/ ControllerCommands \/ ControllerCloses
  \/ HostReleases \/ HostTerminates
  \/ AcceptSession \/ AcceptAborted \/ BreakSession \/ Transport
  \/ TakeEvent \/ SendControl \/ TakeRelease \/ Tick \/ Terminate

(***************************************************************************)
(* Both tasks run on; the fail-open is a timer.  Nothing is assumed of the *)
(* controller, the host or the network.                                    *)
(***************************************************************************)
EndpointSpec ==
  /\ EndpointInit /\ [][EndpointNext]_vars
  /\ WF_vars(Read) /\ WF_vars(HandleMessage) /\ WF_vars(SendEvent) /\ WF_vars(HoldAccept)
  /\ WF_vars(EndSession) /\ WF_vars(FailOpen) /\ SF_vars(ReceiveControl)
  /\ WF_vars(TakeEvent) /\ WF_vars(SendControl) /\ SF_vars(TakeRelease)
  /\ WF_vars(Tick) /\ SF_vars(Terminate)

-----------------------------------------------------------------------------
(* Properties. *)

(* The channels keep their bounds and every part its type.                   *)
EndpointTypeOK ==
  /\ app \in App
  /\ phase \in {"accept", "run"} /\ conn \in 0..MaxConns
  /\ Len(events) <= EventCap /\ Len(ctrl) <= CtrlCap
  /\ pending \subseteq 1..MaxProposals /\ Cardinality(pending) <= 1
  /\ conf \in 0..MaxProposals /\ ended \subseteq 1..MaxProposals

Resolved == {i \in DOMAIN answers : answers[i].via = "resolve"}

(* A confirmation that ends a negotiation comes from the device set-up made   *)
(* for that very proposal, not from one of an earlier proposal or session     *)
(* that was still in the control channel (transport.rs, resolves_pending).    *)
AcceptMeansReady == \A i \in Resolved : answers[i].by = answers[i].to

(* A proposal the endpoint can play is answered once, whatever is in the two  *)
(* channels when sessions, releases and proposals follow each other: only the *)
(* fail-open accept may be followed by a second answer, the late verdict.     *)
AnsweredOnce ==
  \A i, j \in DOMAIN answers :
    i < j /\ answers[i].to = answers[j].to =>
      answers[i].via = "failopen" /\ answers[j].via # "failopen"

(* A proposal held for the device is answered, unless another one replaces it, *)
(* a release ends it or the session is over: the controller does not wait for *)
(* ever.                                                                      *)
HeldIsAnswered ==
  \A n \in 1..MaxProposals :
    n \in pending ~> \/ \E i \in DOMAIN answers : answers[i].to = n
                     \/ n \in ended \/ \E later \in pending : later > n
                     \/ phase = "accept" \/ ~Alive

(* A release request of the host is carried out, however busy both channels   *)
(* are (main.rs, the release arm).                                            *)
ReleaseServed == (releases > 0) ~> (releases = 0 \/ term = "done")

(* SIGTERM shuts the endpoint down (main.rs: "Graceful shutdown").            *)
ShutdownServed == (term = "asked") ~> (term = "done")

(* A proposal gets one answer (RFC 5.3: "responds with one of").              *)
OneAnswer ==
  \A i, j \in DOMAIN answers :
    i # j /\ answers[i].conn = answers[j].conn => answers[i].to # answers[j].to

(* A release ends any negotiation in progress: the endpoint does not accept   *)
(* it afterwards.                                                             *)
ReleaseEndsNegotiation ==
  \A i \in DOMAIN answers : answers[i].kind = "accept" => answers[i].to \notin ended
=============================================================================
