-------------------------------- MODULE Ffi ---------------------------------
(***************************************************************************)
(* The C interface of the endpoint (oaat-ffi) on top of its transport: a   *)
(* session task and an audio task fill one bounded event channel, a thread *)
(* of the host polls it, another one registers the audio callback and sets *)
(* the volume.  The status and the callback's format change only when the  *)
(* host polls.                                                             *)
(*                                                                         *)
(* The accept of a format is not deferred here (defer_format_accept is     *)
(* FALSE), so the session waits for nothing but room in the channel.       *)
(***************************************************************************)
EXTENDS Naturals, Sequences

CONSTANTS
  EventCap,     \* 256 in the code
  CtrlCap,      \* 64 in the code
  Callbacks,    \* the callbacks the host registers, numbers from 1
  Kinds,        \* the messages of the controller considered
  MaxMessages,  \* bound: messages sent
  MaxConns      \* bound: connections

ASSUME FfiAssumption ==
  /\ {EventCap, CtrlCap} \subseteq Nat \ {0} /\ Callbacks \subseteq Nat \ {0}
  /\ {MaxMessages, MaxConns} \subseteq Nat
  /\ Kinds \subseteq {"accepted", "rejected", "countered", "play", "pause", "stop", "seek", "other"}

VARIABLES
  phase,    \* "accept": waiting for a controller; "run": a session
  conns,    \* connections so far
  tcp,      \* messages of the controller not read yet
  messages, \* messages sent so far
  todo,     \* events the session task still has to send, "close" at its end
  packet,   \* the audio task has a packet to send
  events,   \* the event channel
  ctrl,     \* volume reports in the control channel
  poll,     \* the polling thread: where it is, and the callback it runs
  setter,   \* the other thread: a set with the callback it is registering
  callback, \* the field callback, 0 for NULL
  lock,     \* the mutex audio_cb is held, and by whom
  format,   \* the callback's sample_rate and channels, as a proposal's number
  status,   \* the field status
  said,     \* ghost: the status that follows from what happened to the session
  broken    \* ghost: the last session ended with an error

session == <<phase, conns, tcp, messages, todo, said, broken>>
host == <<poll, setter, callback, lock, format, status>>
ffiVars == <<phase, conns, tcp, messages, todo, packet, events, ctrl, poll,
             setter, callback, lock, format, status, said, broken>>

Waiting == [at |-> "idle", runs |-> 0]

(* oaat_endpoint_new *)
FfiInit ==
  /\ phase = "accept" /\ conns = 0 /\ tcp = <<>> /\ messages = 0 /\ todo = <<>>
  /\ packet = FALSE /\ events = <<>>
  /\ ctrl = 0
  /\ poll = Waiting /\ setter = {} /\ callback = 0 /\ lock = "free" /\ format = 0
  /\ status = "Idle" /\ said = "Idle" /\ broken = FALSE

-----------------------------------------------------------------------------
(* The controller and the session task. *)

ControllerSends ==
  /\ phase = "run" /\ messages < MaxMessages
  /\ \A i \in DOMAIN tcp : tcp[i].type # "eof"
  /\ \E k \in Kinds : tcp' = Append(tcp, [type |-> k, n |-> messages + 1])
  /\ messages' = messages + 1
  /\ UNCHANGED <<phase, conns, todo, said, broken, packet, events, ctrl, host>>

Event(type) == [type |-> type, n |-> 0]

ControllerCloses ==
  /\ phase = "run"
  /\ \A i \in DOMAIN tcp : tcp[i].type # "eof"
  /\ tcp' = Append(tcp, Event("eof"))
  /\ UNCHANGED <<phase, conns, messages, todo, said, broken, packet, events, ctrl, host>>

AcceptSession ==
  /\ phase = "accept" /\ conns < MaxConns
  /\ phase' = "run" /\ conns' = conns + 1 /\ tcp' = <<>>
  /\ todo' = <<Event("connected")>> /\ said' = "Connected" /\ broken' = FALSE
  /\ UNCHANGED <<messages, packet, events, ctrl, host>>

(* A proposal is answered, then announced; whatever the verdict the format *)
(* is announced as proposed.                                               *)
EventsOf(m) ==
  CASE m.type \in {"accepted", "rejected"} -> <<Event(m.type), [m EXCEPT !.type = "proposed"]>>
    [] m.type = "countered" -> <<[m EXCEPT !.type = "proposed"]>>
    [] m.type = "eof" -> <<Event("disconnected"), Event("close")>>
    [] OTHER -> <<Event(m.type)>>

(* What the host is to be told when it has caught up. *)
Meaning(m, now) ==
  CASE m.type \in {"accepted", "play"} -> "Streaming"
    [] m.type = "pause" -> "Paused"
    [] m.type = "stop" -> "Connected"
    [] m.type = "eof" -> "Idle"
    [] OTHER -> now

Selecting == phase = "run" /\ todo = <<>>

Read ==
  /\ Selecting /\ tcp # <<>>
  /\ todo' = EventsOf(Head(tcp)) /\ said' = Meaning(Head(tcp), said)
  /\ tcp' = Tail(tcp)
  /\ UNCHANGED <<phase, conns, messages, broken, packet, events, ctrl, host>>

(* Faulty variant: what does not fit is dropped. *)
SendEventDropping ==
  /\ todo # <<>> /\ Head(todo).type # "close"
  /\ events' = IF Len(events) < EventCap THEN Append(events, Head(todo)) ELSE events
  /\ todo' = Tail(todo)
  /\ UNCHANGED <<phase, conns, tcp, messages, said, broken, packet, ctrl, host>>

(* event_tx.send waits for room. *)
SendEvent ==
  /\ todo # <<>> /\ Head(todo).type # "close" /\ Len(events) < EventCap
  /\ events' = Append(events, Head(todo))
  /\ todo' = Tail(todo)
  /\ UNCHANGED <<phase, conns, tcp, messages, said, broken, packet, ctrl, host>>

(* The audio task ends with the session, and its packet with it. *)
EndSession ==
  /\ todo # <<>> /\ Head(todo).type = "close"
  /\ phase' = "accept" /\ todo' = <<>> /\ packet' = FALSE
  /\ UNCHANGED <<conns, tcp, messages, said, broken, events, ctrl, host>>

(* A read or write error: no event. *)
BreakSession ==
  /\ Selecting
  /\ phase' = "accept" /\ tcp' = <<>> /\ packet' = FALSE
  /\ said' = "Idle" /\ broken' = TRUE
  /\ UNCHANGED <<conns, messages, todo, events, ctrl, host>>

(* A message of the host is forwarded. *)
ReceiveControl ==
  /\ Selecting /\ ctrl > 0
  /\ ctrl' = ctrl - 1
  /\ UNCHANGED <<session, packet, events, host>>

-----------------------------------------------------------------------------
(* The audio task. *)

AudioArrives ==
  /\ phase = "run" /\ ~packet
  /\ packet' = TRUE
  /\ UNCHANGED <<session, events, ctrl, host>>

SendAudio ==
  /\ packet /\ Len(events) < EventCap
  /\ events' = Append(events, Event("audio"))
  /\ packet' = FALSE
  /\ UNCHANGED <<session, ctrl, host>>

-----------------------------------------------------------------------------
(* The polling thread. *)

Aside == UNCHANGED <<session, packet, ctrl, setter>>

(* convert_event: the status an event leaves. *)
StatusOf(e) ==
  CASE e.type = "connected" -> "Connected"
    [] e.type \in {"accepted", "play"} -> "Streaming"
    [] e.type = "pause" -> "Paused"
    [] e.type = "stop" -> "Connected"
    [] e.type = "disconnected" -> "Idle"
    [] OTHER -> status

(* oaat_endpoint_poll_event takes an event; for a format or for audio the *)
(* callback's mutex is needed next.                                       *)
Poll ==
  /\ poll = Waiting /\ events # <<>>
  /\ events' = Tail(events)
  /\ status' = StatusOf(Head(events))
  /\ poll' = CASE Head(events).type = "audio" -> [Waiting EXCEPT !.at = "audio"]
               [] Head(events).type = "proposed" ->
                    [Waiting EXCEPT !.at = "format", !.runs = Head(events).n]
               [] OTHER -> Waiting
  /\ UNCHANGED <<callback, lock, format>> /\ Aside

(* FormatProposed: the callback's format, also when it was not accepted. *)
PollFormat ==
  /\ poll.at = "format" /\ lock = "free"
  /\ format' = poll.runs
  /\ poll' = Waiting
  /\ UNCHANGED <<events, callback, lock, status>> /\ Aside

(* Faulty variant: the mutex is left before the callback runs. *)
PollAudioUnlocked ==
  /\ poll.at = "audio" /\ lock = "free"
  /\ poll' = IF callback = 0 THEN Waiting ELSE [at |-> "calling", runs |-> callback]
  /\ UNCHANGED <<events, callback, lock, format, status>> /\ Aside

(* The callback runs with the mutex held. *)
PollAudio ==
  /\ poll.at = "audio" /\ lock = "free"
  /\ \/ callback = 0 /\ poll' = Waiting /\ lock' = lock
     \/ callback # 0 /\ poll' = [at |-> "calling", runs |-> callback] /\ lock' = "poll"
  /\ UNCHANGED <<events, callback, format, status>> /\ Aside

(* Faulty variant: the mutex is not given back. *)
CallbackReturnsLocked ==
  /\ poll.at = "calling"
  /\ poll' = Waiting
  /\ UNCHANGED <<events, callback, lock, format, status>> /\ Aside

CallbackReturns ==
  /\ poll.at = "calling"
  /\ poll' = Waiting /\ lock' = "free"
  /\ UNCHANGED <<events, callback, format, status>> /\ Aside

-----------------------------------------------------------------------------
(* The other thread. *)

SetAudioCallback(c) ==
  /\ setter = {} /\ c # callback
  /\ setter' = {c}
  /\ UNCHANGED <<session, packet, events, ctrl, poll, callback, lock, format, status>>

SetAudioCallbackReturns ==
  /\ setter # {} /\ lock = "free"
  /\ \E c \in setter : callback' = c
  /\ setter' = {}
  /\ UNCHANGED <<session, packet, events, ctrl, poll, lock, format, status>>

(* try_send: a report that does not fit is dropped. *)
SetVolume ==
  /\ setter = {}
  /\ ctrl' = IF ctrl < CtrlCap THEN ctrl + 1 ELSE ctrl
  /\ UNCHANGED <<session, packet, events, host>>

-----------------------------------------------------------------------------
FfiNext ==
  \/ ControllerSends \/ ControllerCloses \/ AcceptSession
  \/ Read \/ SendEvent \/ EndSession \/ BreakSession \/ ReceiveControl
  \/ AudioArrives \/ SendAudio
  \/ Poll \/ PollFormat \/ PollAudio \/ CallbackReturns
  \/ \E c \in Callbacks \cup {0} : SetAudioCallback(c)
  \/ SetAudioCallbackReturns \/ SetVolume

(***************************************************************************)
(* The tasks run and the host polls on; a sender that waits for room gets  *)
(* its turn (the channel's waiters queue up).  Audio may come for ever.    *)
(***************************************************************************)
FfiSpec ==
  /\ FfiInit /\ [][FfiNext]_ffiVars
  /\ SF_ffiVars(Read) /\ SF_ffiVars(SendEvent) /\ WF_ffiVars(EndSession)
  /\ WF_ffiVars(Poll) /\ SF_ffiVars(PollFormat) /\ SF_ffiVars(PollAudio)
  /\ WF_ffiVars(CallbackReturns)

-----------------------------------------------------------------------------
(* Properties. *)

CaughtUp == todo = <<>> /\ poll = Waiting /\ \A i \in DOMAIN events : events[i].type = "audio"

(* oaat_endpoint_get_status is what the controller asked for last, once the  *)
(* host has polled what was sent, whatever audio comes between; the host is  *)
(* not told of a connection that broke.                                      *)
StatusHonest == CaughtUp /\ ~broken => status = said

(* When set_audio_callback has returned the callback it replaced does not    *)
(* run any more, so that the host may free its user_data.                    *)
ReplacedIsSilent == poll.at = "calling" => poll.runs = callback

(* A host that polls keeps the session going: no amount of audio keeps a     *)
(* message of the controller from being handled.                             *)
PollServes == (tcp # <<>>) ~> (tcp = <<>> \/ phase = "accept")
=============================================================================
