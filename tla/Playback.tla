------------------------------ MODULE Playback ------------------------------
(***************************************************************************)
(* The endpoint application: the select loop of run_endpoint (oaat-cli,    *)
(* main.rs) and the audio output it drives (CpalOutput or                  *)
(* AlsaDirectOutput of oaat-endpoint).                                     *)
(*                                                                         *)
(* The application is one task, so its state is one record and each arm of *)
(* the loop an operator from a record to the next one.  Times are left     *)
(* out: a start is scheduled or immediate, whichever the clock says.  A    *)
(* message for the transport is left in the field mail; module Endpoint    *)
(* puts it in the bounded channel the code uses.                           *)
(***************************************************************************)
EXTENDS Naturals

CONSTANTS
  Kinds,       \* outputs considered, of "alsa" and "cpal"
  Streams,     \* stream ids, positive numbers
  StatsEvery,  \* 5 in the code: servo ticks between two reports
  Late,        \* a seek or a reformat may find the output not in use
  Overtake     \* pause or the end of the session may overtake a deferred start

ASSUME PlaybackAssumption ==
  /\ Kinds \subseteq {"alsa", "cpal"}
  /\ Streams \subseteq Nat \ {0}
  /\ StatsEvery \in Nat \ {0}
  /\ Late \in BOOLEAN /\ Overtake \in BOOLEAN

VARIABLE app

NoStream == 0
NoMail == [type |-> "none", stream |-> NoStream]

Mail == [type : {"none", "accept", "reject", "release", "stats"},
         stream : Streams \cup {NoStream}]

(***************************************************************************)
(* The output.  writer: the writer thread (ALSA) or the stream (cpal)      *)
(* exists; open: the device is open; known: a format was configured once;  *)
(* heard (ghost, below): the last thing the output was told to do.         *)
(***************************************************************************)
Output == [kind : {"alsa", "cpal"}, known : BOOLEAN, writer : BOOLEAN,
           open : BOOLEAN, playing : BOOLEAN]

NewOutput(kind) ==
  [kind |-> kind, known |-> FALSE, writer |-> FALSE, open |-> FALSE, playing |-> FALSE]

Stopped(o) == [o EXCEPT !.writer = FALSE, !.open = FALSE, !.playing = FALSE]

(* configure_with_device: whatever the result, the old stream is gone. *)
Configured(o, ok) ==
  [Stopped(o) EXCEPT !.known = TRUE, !.writer = ok, !.open = ok]

(* cpal ignores play() without a stream, AlsaDirectOutput does not look. *)
Started(o) == [o EXCEPT !.playing = @ \/ o.kind = "alsa" \/ o.writer]

Paused(o) == [o EXCEPT !.playing = FALSE]

(* flush: configures again with the format it had, then plays. *)
Flushed(o, ok) == Started(Configured(o, ok))

(***************************************************************************)
(* write_audio: the ALSA writer thread reopens an idle or lost device on   *)
(* the next payload (reopen: the device answers).                          *)
(***************************************************************************)
Written(o, reopen) ==
  [o EXCEPT !.open = @ \/ (reopen /\ o.kind = "alsa" /\ o.writer /\ o.playing)]

(* Outputs with a position buffer while stopped: the start is deferred. *)
Positioned(o) == o.kind = "cpal" /\ o.known

-----------------------------------------------------------------------------
(* The application's state. *)

App == [out : Output, armed : BOOLEAN, started : BOOLEAN, deadline : BOOLEAN,
        tracker : {"none", "controller", "local"}, stream : Streams \cup {NoStream},
        released : BOOLEAN, lastFormat : BOOLEAN, connected : BOOLEAN,
        inUse : BOOLEAN, idle : 0..1, tick : 0 .. StatsEvery - 1, mail : Mail,
        heard : {"nothing", "propose", "play", "pause", "stop", "seek",
                 "reformat", "release", "disconnect"}]

NewApp(kind) ==
  [out |-> NewOutput(kind), armed |-> FALSE, started |-> FALSE, deadline |-> FALSE,
   tracker |-> "none", stream |-> NoStream, released |-> FALSE, lastFormat |-> FALSE,
   connected |-> FALSE, inUse |-> FALSE, idle |-> 0, tick |-> 0, mail |-> NoMail,
   heard |-> "nothing"]

(* What FormatProposed, Stop and a release reset. *)
Unscheduled(a) ==
  [a EXCEPT !.armed = FALSE, !.started = FALSE, !.deadline = FALSE, !.tracker = "none"]

OnConnected(a) == [a EXCEPT !.connected = TRUE]

OnFormatProposed(a, s, ok) ==
  [Unscheduled(a) EXCEPT
     !.out = Configured(@, ok), !.stream = s, !.released = FALSE, !.lastFormat = TRUE,
     !.mail = [type |-> IF ok THEN "accept" ELSE "reject", stream |-> s],
     !.heard = "propose"]

(***************************************************************************)
(* AudioPacket.  lead: "scheduled" when the clock is synchronised and the  *)
(* presentation time lies less than 5 s ahead, otherwise the domain in     *)
(* which an immediate start is tracked.                                    *)
(***************************************************************************)
OnAudioPacket(a, lead, reopen) ==
  LET w == IF a.released THEN a ELSE [a EXCEPT !.out = Written(@, reopen)]
      deferred == a.armed /\ ~a.started
  IN CASE ~deferred -> w
       [] deferred /\ lead = "scheduled" ->
            [w EXCEPT !.armed = FALSE, !.deadline = TRUE, !.tracker = "controller"]
       [] OTHER ->
            [w EXCEPT !.armed = FALSE, !.started = TRUE, !.tracker = lead,
                      !.out = Started(@)]

(* Play; after a release it configures again with the last format. *)
OnPlay(a, ok) ==
  LET r == IF a.released /\ a.lastFormat THEN Configured(a.out, ok) ELSE a.out
      b == [a EXCEPT !.released = FALSE, !.inUse = TRUE, !.heard = "play", !.out = r]
  IN IF ~a.started /\ Positioned(r)
     THEN [b EXCEPT !.armed = TRUE]
     ELSE [b EXCEPT !.started = TRUE, !.out = Started(r)]

OnPause(a) ==
  [a EXCEPT !.out = Paused(@), !.tracker = "none", !.heard = "pause"]

OnStop(a) ==
  [Unscheduled(a) EXCEPT !.out = Stopped(@), !.inUse = FALSE, !.heard = "stop"]

OnSeek(a, ok) ==
  [a EXCEPT !.out = Flushed(@, ok), !.tracker = "none", !.heard = "seek"]

(* NextTrackReformat: configures, and leaves the schedule as it is. *)
OnReformat(a, ok) ==
  IF a.released THEN a
  ELSE [a EXCEPT !.out = Configured(@, ok), !.heard = "reformat"]

(* Faulty variant: the session ends, the output goes on. *)
OnDisconnectedPlayingOn(a) ==
  [a EXCEPT !.connected = FALSE, !.released = FALSE, !.inUse = FALSE, !.heard = "disconnect"]

OnDisconnected(a) ==
  [a EXCEPT !.out = Stopped(@), !.connected = FALSE, !.released = FALSE,
            !.inUse = FALSE, !.heard = "disconnect"]

OnRelease(a) ==
  [Unscheduled(a) EXCEPT
     !.out = Stopped(@), !.released = TRUE, !.inUse = FALSE, !.heard = "release",
     !.mail = IF a.connected THEN [type |-> "release", stream |-> a.stream] ELSE NoMail]

(* Faulty variant: the output is not told. *)
OnDeadlineSilent(a) == [a EXCEPT !.deadline = FALSE, !.started = TRUE]

(* The scheduled start fires. *)
OnDeadline(a) ==
  [a EXCEPT !.deadline = FALSE, !.started = TRUE, !.out = Started(@)]

(* Faulty variant: only one tick is ever counted. *)
OnServoTickForgetful(a) == [a EXCEPT !.idle = 0]

(***************************************************************************)
(* The servo tick: notices an output that was closed after a pause, and    *)
(* reports every StatsEvery ticks.  Module Servo adds drift correction.    *)
(***************************************************************************)
OnServoTick(a) ==
  LET unused == a.inUse /\ ~a.out.playing /\ ~a.out.open
      due == a.started /\ a.tick + 1 = StatsEvery /\ a.stream # NoStream
  IN [a EXCEPT !.inUse = @ /\ ~(unused /\ a.idle = 1),
               !.idle = IF unused /\ a.idle = 0 THEN 1 ELSE 0,
               !.tick = (@ + 1) % StatsEvery,
               !.mail = IF due THEN [type |-> "stats", stream |-> a.stream] ELSE NoMail]

-----------------------------------------------------------------------------
(* The events of the loop; module Servo adds the audio and the time. *)

Init == \E kind \in Kinds : app = NewApp(kind)

(* The transport takes a message as soon as it is sent. *)
Handle(a) == app' = [a EXCEPT !.mail = NoMail]

Deferred(a) == a.armed \/ a.deadline

Connected == ~app.connected /\ Handle(OnConnected(app))

FormatProposed ==
  app.connected /\ \E s \in Streams, ok \in BOOLEAN : Handle(OnFormatProposed(app, s, ok))

Play == app.connected /\ \E ok \in BOOLEAN : Handle(OnPlay(app, ok))

Pause ==
  /\ app.connected
  /\ Deferred(app) => Overtake
  /\ Handle(OnPause(app))

Stop == app.connected /\ Handle(OnStop(app))

Seek ==
  /\ app.connected
  /\ Late \/ app.inUse
  /\ \E ok \in BOOLEAN : Handle(OnSeek(app, ok))

Reformat ==
  /\ app.connected
  /\ Late \/ app.inUse \/ app.released
  /\ \E ok \in BOOLEAN : Handle(OnReformat(app, ok))

Disconnected ==
  /\ app.connected
  /\ Deferred(app) => Overtake
  /\ Handle(OnDisconnected(app))

Release == Handle(OnRelease(app))

Deadline == app.deadline /\ Handle(OnDeadline(app))

ServoTick == Handle(OnServoTick(app))

(* The ALSA device is closed after IDLE_CLOSE without audio, or is lost. *)
DeviceAway ==
  /\ app.out.kind = "alsa" /\ app.out.open
  /\ app' = [app EXCEPT !.out.open = FALSE]

-----------------------------------------------------------------------------
(* Properties. *)

(* The fields of the application and of its output keep their types. *)
TypeOK == app \in App

(* The output does what it was last told.  Pause, stop, release, a new        *)
(* negotiation and the end of the session silence it, and nothing left over    *)
(* from before (an armed start, a deadline, an idle device) starts it again.   *)
(* While it sounds the hooks have told the host that it is in use.  After an   *)
(* endpoint_release the device stays closed, whatever packets and reformats    *)
(* are still under way, until a negotiation, play or a new session.            *)
OutputObeys ==
  /\ app.out.playing => app.heard \in {"play", "seek", "reformat"} /\ app.inUse
  /\ app.released => ~app.out.open /\ ~app.out.playing

(* A start that was deferred is made: once play is the last command, an       *)
(* output whose device is open plays.                                         *)
PlayStarts ==
  (app.heard = "play" /\ app.out.writer) ~> (app.out.playing \/ app.heard # "play")

(* An output that is closed after a pause is reported to the hooks as no      *)
(* longer in use.                                                             *)
ClosedIsReported ==
  [](app.inUse /\ ~app.out.playing /\ ~app.out.open
     => <>(~app.inUse \/ app.out.playing \/ app.out.open))

(* When the session is over the application is idle: no start is armed or     *)
(* scheduled and nothing counts as started (RFC 2.4).                         *)
IdleWhenDisconnected ==
  app.heard = "disconnect" => ~app.armed /\ ~app.deadline /\ ~app.started

(* A configure tears down the stream, and the scheduling state with it.       *)
ConfigureResets ==
  app.heard \in {"propose", "reformat"} =>
    ~app.started /\ ~app.deadline /\ app.tracker = "none"
=============================================================================
