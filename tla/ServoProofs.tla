----------------------------- MODULE ServoProofs -----------------------------
(***************************************************************************)
(* The endpoint application obeys, reports an honest position and corrects *)
(* only a drift that is there, for any size of packets, ring, thresholds   *)
(* and any sequence of events.                                             *)
(*                                                                         *)
(* The position needs no assumption.  Obedience needs that no command      *)
(* overtakes a deferred start and none comes when nothing is in use; the   *)
(* bound on a correction, that a reformat keeps the sample rate.           *)
(*                                                                         *)
(* First what every arm of the application's loop keeps true, for any      *)
(* output, streams and result of a configure; then the arms together with  *)
(* the ring and the servo.                                                 *)
(***************************************************************************)
EXTENDS Servo, TLAPS

(***************************************************************************)
(* What the application keeps true of its output: a deferred start is one  *)
(* of a cpal output, told by the last command, and in use if it has a      *)
(* stream; a released output is closed and has nothing scheduled.          *)
(***************************************************************************)
AppInv(a) ==
  /\ a.out.kind = "cpal" => (a.out.open <=> a.out.writer)
  /\ a.armed \/ a.deadline =>
       /\ a.out.kind = "cpal" /\ a.heard \in {"play", "seek", "reformat"}
       /\ a.out.writer => a.inUse
  /\ a.out.playing => a.heard \in {"play", "seek", "reformat"} /\ a.inUse
  /\ a.released => /\ ~a.out.open /\ ~a.out.playing /\ ~a.out.writer
                   /\ ~a.inUse /\ ~a.armed /\ ~a.deadline

-----------------------------------------------------------------------------
(* The output. *)

(* stop() and release() leave no stream.                                      *)
LEMMA StoppedOut ==
  ASSUME NEW o \in Output
  PROVE  /\ Stopped(o) \in Output /\ Stopped(o).kind = o.kind /\ Stopped(o).known = o.known
         /\ ~Stopped(o).writer /\ ~Stopped(o).open /\ ~Stopped(o).playing
BY DEF Output, Stopped

(* configure() replaces the stream, or leaves none.                           *)
LEMMA ConfiguredOut ==
  ASSUME NEW o \in Output, NEW ok \in BOOLEAN
  PROVE  /\ Configured(o, ok) \in Output /\ Configured(o, ok).kind = o.kind
         /\ Configured(o, ok).known /\ Configured(o, ok).writer = ok
         /\ Configured(o, ok).open = ok /\ ~Configured(o, ok).playing
BY DEF Output, Stopped, Configured

(* play() starts what can be started.                                         *)
LEMMA StartedOut ==
  ASSUME NEW o \in Output
  PROVE  /\ Started(o) \in Output /\ Started(o).kind = o.kind /\ Started(o).known = o.known
         /\ Started(o).writer = o.writer /\ Started(o).open = o.open
         /\ Started(o).playing <=> o.playing \/ o.kind = "alsa" \/ o.writer
BY DEF Output, Started

(* pause() silences, and keeps the stream.                                    *)
LEMMA PausedOut ==
  ASSUME NEW o \in Output
  PROVE  /\ Paused(o) \in Output /\ Paused(o).kind = o.kind /\ Paused(o).known = o.known
         /\ Paused(o).writer = o.writer /\ Paused(o).open = o.open /\ ~Paused(o).playing
BY DEF Output, Paused

(* write_audio() opens at most the device of an ALSA output.                  *)
LEMMA WrittenOut ==
  ASSUME NEW o \in Output, NEW ok \in BOOLEAN
  PROVE  /\ Written(o, ok) \in Output /\ Written(o, ok).kind = o.kind
         /\ Written(o, ok).known = o.known /\ Written(o, ok).writer = o.writer
         /\ Written(o, ok).playing = o.playing
         /\ o.kind = "cpal" => (Written(o, ok).open <=> o.open)
BY DEF Output, Written

(* A start that is made or armed keeps the types.                             *)
LEMMA StartTypes ==
  ASSUME NEW a \in App, NEW o \in Output, NEW t \in {"none", "controller", "local"}
  PROVE  /\ [a EXCEPT !.armed = TRUE] \in App
         /\ [a EXCEPT !.started = TRUE, !.out = o] \in App
         /\ [a EXCEPT !.armed = FALSE, !.started = TRUE, !.tracker = t, !.out = o] \in App
<1>1. [a EXCEPT !.armed = TRUE] \in App
  BY DEF App
<1>2. [a EXCEPT !.started = TRUE, !.out = o] \in App
  BY DEF App
<1>3. [a EXCEPT !.armed = FALSE, !.started = TRUE, !.tracker = t, !.out = o] \in App
  BY DEF App
<1> QED BY <1>1, <1>2, <1>3

(* The message that is handed over is all that Handle changes.                *)
LEMMA Handled ==
  ASSUME NEW a \in App, Handle(a)
  PROVE  /\ app' \in App /\ app'.out = a.out /\ app'.armed = a.armed
         /\ app'.started = a.started /\ app'.deadline = a.deadline
         /\ app'.tracker = a.tracker /\ app'.released = a.released
         /\ app'.inUse = a.inUse /\ app'.heard = a.heard
BY DEF Handle, App, NoMail, Mail

-----------------------------------------------------------------------------
(* The arms of the loop. *)

(* A release leaves no start armed. *)
Calm(a) == a.released => ~a.armed

(* The stream and its tracker are what they were, or the start was made.      *)
Kept(a, b) ==
  /\ b.out.kind = a.out.kind /\ b.out.known = a.out.known /\ b.out.writer = a.out.writer
  /\ b.tracker = a.tracker /\ (a.started => b.started)

(* A session begins: nothing else is changed.                                 *)
LEMMA ConnectedArm ==
  ASSUME app \in App, Connected
  PROVE  /\ app' \in App /\ (Calm(app) => Calm(app'))
         /\ Kept(app, app') /\ (AppInv(app) => AppInv(app'))
<1> DEFINE b == OnConnected(app)
<1>1. /\ b \in App /\ b.out = app.out /\ b.armed = app.armed /\ b.started = app.started
      /\ b.deadline = app.deadline /\ b.tracker = app.tracker
      /\ b.released = app.released /\ b.inUse = app.inUse /\ b.heard = app.heard
  BY DEF App, OnConnected
<1>2. Handle(b)
  BY DEF Connected
<1> HIDE DEF b
<1> QED BY <1>1, <1>2, Handled DEF AppInv, Calm, Kept

(* What FormatProposed, Stop and a release reset.                             *)
LEMMA UnscheduledArm ==
  ASSUME NEW a \in App
  PROVE  LET b == Unscheduled(a) IN
           /\ b \in App /\ b.out = a.out /\ ~b.armed /\ ~b.started /\ ~b.deadline
           /\ b.tracker = "none" /\ b.released = a.released
           /\ b.inUse = a.inUse /\ b.heard = a.heard
BY DEF App, Unscheduled

(* A negotiation configures the output and schedules nothing.                 *)
LEMMA FormatProposedArm ==
  ASSUME app \in App, FormatProposed
  PROVE  /\ app' \in App /\ (Calm(app) => Calm(app'))
         /\ app'.tracker = "none" /\ AppInv(app')
<1>1. PICK s \in Streams, ok \in BOOLEAN : Handle(OnFormatProposed(app, s, ok))
  BY DEF FormatProposed
<1> DEFINE u == Unscheduled(app)
           m == [type |-> IF ok THEN "accept" ELSE "reject", stream |-> s]
           b == [u EXCEPT !.out = Configured(@, ok), !.stream = s, !.released = FALSE,
                          !.lastFormat = TRUE, !.mail = m, !.heard = "propose"]
<1>2. /\ u \in App /\ u.out = app.out /\ ~u.armed /\ ~u.deadline /\ u.tracker = "none"
  BY UnscheduledArm
<1>3. app.out \in Output /\ m \in Mail
  BY DEF App, Mail
<1> HIDE DEF u, m
<1>4. /\ b \in App /\ b.out = Configured(app.out, ok) /\ ~b.armed /\ ~b.deadline
      /\ b.tracker = "none" /\ ~b.released
  BY <1>2, <1>3, ConfiguredOut DEF App
<1>5. Handle(b)
  BY <1>1 DEF OnFormatProposed, u, m
<1> HIDE DEF b
<1> QED BY <1>3, <1>4, <1>5, Handled, ConfiguredOut DEF AppInv, Calm

(* The output that play finds: after a release it is configured again.        *)
Found(a, ok) == IF a.released /\ a.lastFormat THEN Configured(a.out, ok) ELSE a.out

Later(a, ok) == ~a.started /\ Positioned(Found(a, ok))

(* Play defers the start of a cpal output and makes that of an ALSA one.      *)
LEMMA PlayArm ==
  ASSUME NEW a \in App, NEW ok \in BOOLEAN, NEW b, b = OnPlay(a, ok)
  PROVE  /\ b \in App /\ Found(a, ok) \in Output /\ Found(a, ok).kind = a.out.kind
         /\ b.out = IF Later(a, ok) THEN Found(a, ok) ELSE Started(Found(a, ok))
         /\ b.armed <=> a.armed \/ Later(a, ok)
         /\ b.started <=> a.started \/ ~Later(a, ok)
         /\ b.deadline = a.deadline /\ b.tracker = a.tracker
         /\ ~b.released /\ b.inUse /\ b.heard = "play"
<1>1. a.out \in Output
  BY DEF App
<1>2. PICK r \in Output : r = Found(a, ok) /\ r.kind = a.out.kind /\ Started(r) \in Output
  BY <1>1, ConfiguredOut, StartedOut DEF Found
<1> DEFINE c == [a EXCEPT !.released = FALSE, !.inUse = TRUE, !.heard = "play", !.out = r]
<1>3. /\ c \in App /\ c.out = r /\ c.armed = a.armed /\ c.started = a.started
      /\ c.deadline = a.deadline /\ c.tracker = a.tracker
      /\ ~c.released /\ c.inUse /\ c.heard = "play"
  BY DEF App
<1>4. CASE Later(a, ok)
  <2>1. b = [c EXCEPT !.armed = TRUE]
    BY <1>2, <1>4 DEF OnPlay, Later, Found
  <2> HIDE DEF c
  <2>2. b \in App
    BY <1>2, <1>3, <2>1, StartTypes
  <2>3. /\ b.armed /\ b.out = r /\ b.started = a.started
        /\ b.deadline = a.deadline /\ b.tracker = a.tracker
        /\ ~b.released /\ b.inUse /\ b.heard = "play"
    BY <1>3, <2>1 DEF App
  <2>4. ~a.started
    BY <1>4 DEF Later
  <2> QED BY <1>2, <1>4, <2>2, <2>3, <2>4
<1>5. CASE ~Later(a, ok)
  <2>1. b = [c EXCEPT !.started = TRUE, !.out = Started(r)]
    BY <1>2, <1>5 DEF OnPlay, Later, Found
  <2> HIDE DEF c
  <2>2. b \in App
    BY <1>2, <1>3, <2>1, StartTypes
  <2>3. /\ b.armed = a.armed /\ b.out = Started(r) /\ b.started
        /\ b.deadline = a.deadline /\ b.tracker = a.tracker
        /\ ~b.released /\ b.inUse /\ b.heard = "play"
    BY <1>3, <2>1 DEF App
  <2> QED BY <1>2, <1>5, <2>2, <2>3
<1> QED BY <1>4, <1>5

(* Play puts the output in use and leaves the tracker alone.                  *)
LEMMA PlayEvent ==
  ASSUME app \in App, Play
  PROVE  /\ app' \in App /\ (Calm(app) => Calm(app')) /\ (AppInv(app) => AppInv(app'))
         /\ Kept(app, app') \/ (app.released /\ app.lastFormat)
<1>1. PICK ok \in BOOLEAN : Handle(OnPlay(app, ok))
  BY DEF Play
<1> DEFINE b == OnPlay(app, ok)
           r == Found(app, ok)
<1>2. /\ b \in App /\ r \in Output /\ r.kind = app.out.kind
      /\ b.out = IF Later(app, ok) THEN r ELSE Started(r)
      /\ b.armed <=> app.armed \/ Later(app, ok)
      /\ b.started <=> app.started \/ ~Later(app, ok)
      /\ b.deadline = app.deadline /\ b.tracker = app.tracker
      /\ ~b.released /\ b.inUse /\ b.heard = "play"
  BY PlayArm
<1>3. app.out \in Output
  BY DEF App
<1>4. /\ AppInv(app) /\ r.kind = "cpal" => (r.open <=> r.writer)
      /\ r = app.out \/ (app.released /\ app.lastFormat)
      /\ Later(app, ok) => r.kind = "cpal"
  BY <1>3, ConfiguredOut DEF Found, AppInv, Later, Positioned
<1> HIDE DEF b, r
<1>5. /\ b.out.kind = r.kind /\ b.out.open = r.open /\ b.out.writer = r.writer
      /\ b.out.known = r.known
  BY <1>2, StartedOut
<1>6. AppInv(app) => AppInv(b)
  BY <1>2, <1>4, <1>5, StartedOut DEF AppInv
<1>7. Kept(app, b) \/ (app.released /\ app.lastFormat)
  BY <1>2, <1>4, <1>5 DEF Kept
<1>8. Handle(b)
  BY <1>1 DEF b
<1> QED BY <1>2, <1>6, <1>7, <1>8, Handled DEF AppInv, Calm, Kept

(* A pause silences the output.                                               *)
LEMMA PauseArm ==
  ASSUME app \in App, Pause
  PROVE  /\ app' \in App /\ (Calm(app) => Calm(app')) /\ app'.tracker = "none"
         /\ AppInv(app) /\ ~Overtake => AppInv(app')
<1> DEFINE b == OnPause(app)
<1>1. app.out \in Output /\ Paused(app.out) \in Output
  BY PausedOut DEF App
<1>2. /\ b \in App /\ b.out = Paused(app.out) /\ b.armed = app.armed
      /\ b.deadline = app.deadline /\ b.tracker = "none"
      /\ b.released = app.released /\ b.inUse = app.inUse /\ b.heard = "pause"
  BY <1>1 DEF App, OnPause
<1>3. Handle(b) /\ (~Overtake => ~app.armed /\ ~app.deadline)
  BY DEF Pause, Deferred
<1> HIDE DEF b
<1> QED BY <1>1, <1>2, <1>3, Handled, PausedOut DEF AppInv, Calm

(* Stop leaves no stream.                                                     *)
LEMMA StopArm ==
  ASSUME app \in App, Stop
  PROVE  /\ app' \in App /\ (Calm(app) => Calm(app'))
         /\ ~app'.out.writer /\ (AppInv(app) => AppInv(app'))
<1> DEFINE u == Unscheduled(app)
           b == [u EXCEPT !.out = Stopped(@), !.inUse = FALSE, !.heard = "stop"]
<1>1. /\ u \in App /\ u.out = app.out /\ ~u.armed /\ ~u.deadline
      /\ u.released = app.released
  BY UnscheduledArm
<1>2. app.out \in Output /\ Stopped(app.out) \in Output
  BY StoppedOut DEF App
<1> HIDE DEF u
<1>3. /\ b \in App /\ b.out = Stopped(app.out) /\ ~b.armed /\ ~b.deadline
      /\ b.released = app.released /\ ~b.inUse
  BY <1>1, <1>2 DEF App
<1>4. Handle(b)
  BY DEF Stop, OnStop, u
<1> HIDE DEF b
<1> QED BY <1>2, <1>3, <1>4, Handled, StoppedOut DEF AppInv, Calm

(* A seek drops what is buffered and plays on.                                *)
LEMMA SeekArm ==
  ASSUME app \in App, Seek
  PROVE  /\ app' \in App /\ (Calm(app) => Calm(app')) /\ app'.tracker = "none"
         /\ AppInv(app) /\ ~Late => AppInv(app')
<1>1. PICK ok \in BOOLEAN : Handle(OnSeek(app, ok))
  BY DEF Seek
<1> DEFINE o == Configured(app.out, ok)
           b == OnSeek(app, ok)
<1>2. /\ o \in Output /\ o.kind = app.out.kind /\ o.writer = ok /\ o.open = ok
      /\ Started(o) \in Output /\ Started(o).kind = app.out.kind
      /\ Started(o).writer = ok /\ Started(o).open = ok
  <2>1. app.out \in Output
    BY DEF App
  <2>2. o \in Output /\ o.kind = app.out.kind /\ o.writer = ok /\ o.open = ok
    BY <2>1, ConfiguredOut
  <2> HIDE DEF o
  <2> QED BY <2>2, StartedOut
<1> HIDE DEF o
<1>3. /\ b \in App /\ b.out = Started(o) /\ b.armed = app.armed
      /\ b.deadline = app.deadline /\ b.tracker = "none"
      /\ b.released = app.released /\ b.inUse = app.inUse /\ b.heard = "seek"
  <2>1. b = [app EXCEPT !.out = Started(o), !.tracker = "none", !.heard = "seek"]
    BY DEF OnSeek, Flushed, o, App
  <2> HIDE DEF b
  <2> QED BY <1>2, <2>1 DEF App
<1>4. Handle(b) /\ (~Late => app.inUse)
  BY <1>1 DEF Seek
<1> HIDE DEF b
<1> QED BY <1>2, <1>3, <1>4, Handled DEF AppInv, Calm

(* A reformat replaces the stream and leaves what is scheduled.               *)
LEMMA ReformatArm ==
  ASSUME app \in App, Reformat
  PROVE  /\ app' \in App /\ (Calm(app) => Calm(app'))
         /\ app.released => Kept(app, app')
         /\ AppInv(app) /\ ~Late => AppInv(app')
<1>1. PICK ok \in BOOLEAN : Handle(OnReformat(app, ok))
  BY DEF Reformat
<1>2. CASE app.released
  <2>1. Handle(app)
    BY <1>1, <1>2 DEF OnReformat
  <2> QED BY <1>2, <2>1, Handled DEF AppInv, Calm, Kept
<1>3. CASE ~app.released
  <2> DEFINE o == Configured(app.out, ok)
             b == [app EXCEPT !.out = o, !.heard = "reformat"]
  <2>1. /\ o \in Output /\ o.kind = app.out.kind /\ o.writer = ok /\ o.open = ok
        /\ ~o.playing
    BY ConfiguredOut DEF App
  <2> HIDE DEF o
  <2>2. /\ b \in App /\ b.out = o /\ b.armed = app.armed /\ b.deadline = app.deadline
        /\ b.released = app.released /\ b.inUse = app.inUse /\ b.heard = "reformat"
    BY <2>1 DEF App
  <2>3. Handle(b) /\ (~Late => app.inUse)
    BY <1>1, <1>3 DEF OnReformat, Reformat, o, App
  <2> HIDE DEF b
  <2> QED BY <1>3, <2>1, <2>2, <2>3, Handled DEF AppInv, Calm
<1> QED BY <1>2, <1>3

(* The end of a session leaves no stream.                                     *)
LEMMA DisconnectedArm ==
  ASSUME app \in App, Disconnected
  PROVE  /\ app' \in App /\ (Calm(app) => Calm(app')) /\ ~app'.out.writer
         /\ AppInv(app) /\ ~Overtake => AppInv(app')
<1> DEFINE b == OnDisconnected(app)
<1>1. app.out \in Output /\ Stopped(app.out) \in Output
  BY StoppedOut DEF App
<1>2. /\ b \in App /\ b.out = Stopped(app.out) /\ b.armed = app.armed
      /\ b.deadline = app.deadline /\ ~b.released /\ ~b.inUse
  BY <1>1 DEF App, OnDisconnected
<1>3. Handle(b) /\ (~Overtake => ~app.armed /\ ~app.deadline)
  BY DEF Disconnected, Deferred
<1> HIDE DEF b
<1> QED BY <1>1, <1>2, <1>3, Handled, StoppedOut DEF AppInv, Calm

(* A release leaves no stream and nothing scheduled.                          *)
LEMMA ReleaseArm ==
  ASSUME app \in App, Release
  PROVE  /\ app' \in App /\ (Calm(app) => Calm(app'))
         /\ ~app'.out.writer /\ AppInv(app')
<1> DEFINE u == Unscheduled(app)
           m == IF app.connected THEN [type |-> "release", stream |-> app.stream] ELSE NoMail
           b == [u EXCEPT !.out = Stopped(@), !.released = TRUE, !.inUse = FALSE,
                          !.heard = "release", !.mail = m]
<1>1. u \in App /\ u.out = app.out /\ ~u.armed /\ ~u.deadline
  BY UnscheduledArm
<1>2. app.out \in Output /\ Stopped(app.out) \in Output /\ m \in Mail
  BY StoppedOut DEF App, Mail, NoMail
<1> HIDE DEF u, m
<1>3. /\ b \in App /\ b.out = Stopped(app.out) /\ ~b.armed /\ ~b.deadline /\ ~b.inUse
  BY <1>1, <1>2 DEF App
<1>4. Handle(b)
  BY DEF Release, OnRelease, u, m
<1> HIDE DEF b
<1> QED BY <1>2, <1>3, <1>4, Handled, StoppedOut DEF AppInv, Calm

(* A scheduled start is made.                                                 *)
LEMMA DeadlineArm ==
  ASSUME app \in App, Deadline
  PROVE  /\ app' \in App /\ (Calm(app) => Calm(app'))
         /\ Kept(app, app') /\ (AppInv(app) => AppInv(app'))
<1> DEFINE b == OnDeadline(app)
<1>1. app.out \in Output /\ Started(app.out) \in Output
  BY StartedOut DEF App
<1>2. /\ b \in App /\ b.out = Started(app.out) /\ b.armed = app.armed /\ ~b.deadline
      /\ b.started /\ b.tracker = app.tracker
      /\ b.released = app.released /\ b.inUse = app.inUse /\ b.heard = app.heard
  BY <1>1 DEF App, OnDeadline
<1>3. Handle(b) /\ app.deadline
  BY DEF Deadline
<1> HIDE DEF b
<1> QED BY <1>1, <1>2, <1>3, Handled, StartedOut DEF AppInv, Calm, Kept

(* The servo tick only lets go of an output that is closed.                   *)
LEMMA ServoTickArm ==
  ASSUME app \in App, ServoTick
  PROVE  /\ app' \in App /\ (Calm(app) => Calm(app'))
         /\ Kept(app, app') /\ (AppInv(app) => AppInv(app'))
<1> DEFINE b == OnServoTick(app)
<1>1. /\ b \in App /\ b.out = app.out /\ b.armed = app.armed /\ b.deadline = app.deadline
      /\ b.started = app.started /\ b.tracker = app.tracker
      /\ b.released = app.released /\ b.heard = app.heard
      /\ b.inUse => app.inUse
      /\ app.out.playing \/ app.out.open => b.inUse = app.inUse
  <2> DEFINE unused == app.inUse /\ ~app.out.playing /\ ~app.out.open
             due == app.started /\ app.tick + 1 = StatsEvery /\ app.stream # NoStream
             use == app.inUse /\ ~(unused /\ app.idle = 1)
             id == IF unused /\ app.idle = 0 THEN 1 ELSE 0
             tk == (app.tick + 1) % StatsEvery
             m == IF due THEN [type |-> "stats", stream |-> app.stream] ELSE NoMail
  <2>1. use \in BOOLEAN /\ id \in 0..1
    OBVIOUS
  <2>2. tk \in 0 .. StatsEvery - 1
    <3>1. app.tick \in Nat /\ StatsEvery \in Nat \ {0}
      BY PlaybackAssumption DEF App
    <3> QED BY <3>1
  <2>3. m \in Mail
    BY DEF App, Mail, NoMail
  <2>4. /\ use => app.inUse
        /\ app.out.playing \/ app.out.open => use = app.inUse
    BY DEF App
  <2>5. b = [app EXCEPT !.inUse = use, !.idle = id, !.tick = tk, !.mail = m]
    BY DEF OnServoTick
  <2> HIDE DEF use, id, tk, m, b
  <2> QED BY <2>1, <2>2, <2>3, <2>4, <2>5 DEF App
<1>2. Handle(b)
  BY DEF ServoTick
<1> HIDE DEF b
<1> QED BY <1>1, <1>2, Handled DEF AppInv, Calm, Kept

(* An ALSA device that is away is not one of a deferred start.                *)
LEMMA DeviceAwayArm ==
  ASSUME app \in App, DeviceAway
  PROVE  /\ app' \in App /\ (Calm(app) => Calm(app'))
         /\ Kept(app, app') /\ (AppInv(app) => AppInv(app'))
<1>1. app.out \in Output /\ [app.out EXCEPT !.open = FALSE] \in Output
  BY DEF App, Output
<1>2. /\ app' \in App /\ app'.out = [app.out EXCEPT !.open = FALSE]
      /\ app'.armed = app.armed /\ app'.deadline = app.deadline
      /\ app'.started = app.started /\ app'.tracker = app.tracker
      /\ app'.released = app.released /\ app'.heard = app.heard /\ app'.inUse = app.inUse
  BY <1>1 DEF App, DeviceAway
<1>3. /\ app'.out.kind = app.out.kind /\ app'.out.known = app.out.known
      /\ app'.out.writer = app.out.writer /\ ~app'.out.open
      /\ app'.out.playing = app.out.playing /\ app.out.kind = "alsa"
  BY <1>1, <1>2 DEF Output, DeviceAway
<1> QED BY <1>2, <1>3 DEF AppInv, Calm, Kept

(* A packet makes or schedules the start that was armed.                      *)
LEMMA PacketArm ==
  ASSUME app \in App, NEW lead \in {"scheduled", "controller", "local"},
         NEW reopen \in BOOLEAN, Handle(OnAudioPacket(app, lead, reopen))
  PROVE  /\ app' \in App /\ (Calm(app) => Calm(app')) /\ (AppInv(app) => AppInv(app'))
         /\ IF app.armed /\ ~app.started
            THEN /\ app'.tracker # "none" /\ app'.out.kind = app.out.kind
                 /\ app'.out.known = app.out.known /\ app'.out.writer = app.out.writer
            ELSE Kept(app, app')
<1> DEFINE o == IF app.released THEN app.out ELSE Written(app.out, reopen)
           w == [app EXCEPT !.out = o]
           b == OnAudioPacket(app, lead, reopen)
<1>1. app.out \in Output
  BY DEF App
<1>2. /\ o \in Output /\ o.kind = app.out.kind /\ o.known = app.out.known
      /\ o.writer = app.out.writer /\ o.playing = app.out.playing
      /\ app.released \/ app.out.kind = "cpal" => (o.open <=> app.out.open)
      /\ Started(o) \in Output
  BY <1>1, WrittenOut, StartedOut DEF Output
<1> HIDE DEF o
<1>3. /\ w \in App /\ w.out = o /\ w.armed = app.armed /\ w.deadline = app.deadline
      /\ w.started = app.started /\ w.tracker = app.tracker
      /\ w.released = app.released /\ w.heard = app.heard /\ w.inUse = app.inUse
  BY <1>2 DEF App
<1>4. w = IF app.released THEN app ELSE [app EXCEPT !.out = Written(@, reopen)]
  BY DEF o, App
<1> HIDE DEF w
<1>5. CASE ~(app.armed /\ ~app.started)
  <2>1. b = w
    BY <1>4, <1>5 DEF OnAudioPacket
  <2> QED BY <1>2, <1>3, <1>5, <2>1, Handled DEF AppInv, Calm, Kept
<1>6. CASE app.armed /\ ~app.started /\ lead = "scheduled"
  <2>1. b = [w EXCEPT !.armed = FALSE, !.deadline = TRUE, !.tracker = "controller"]
    BY <1>4, <1>6 DEF OnAudioPacket
  <2> HIDE DEF b
  <2>2. /\ b \in App /\ b.out = o /\ b.tracker = "controller"
        /\ b.released = app.released /\ b.heard = app.heard /\ b.inUse = app.inUse
    BY <1>3, <2>1 DEF App
  <2> QED BY <1>2, <1>6, <2>2, Handled DEF AppInv, Calm, b
<1>7. CASE app.armed /\ ~app.started /\ lead # "scheduled"
  <2>1. b = [w EXCEPT !.armed = FALSE, !.started = TRUE, !.tracker = lead, !.out = Started(o)]
    BY <1>3, <1>4, <1>7 DEF OnAudioPacket
  <2> HIDE DEF b
  <2>2. lead \in {"none", "controller", "local"}
    BY <1>7
  <2>3. b \in App
    BY <1>2, <1>3, <2>1, <2>2, StartTypes
  <2>4. /\ b.out = Started(o) /\ b.tracker = lead /\ ~b.armed /\ b.deadline = app.deadline
        /\ b.released = app.released /\ b.heard = app.heard /\ b.inUse = app.inUse
    BY <1>3, <2>1 DEF App
  <2>5. Handle(b)
    BY DEF b
  <2> QED BY <1>2, <1>7, <2>3, <2>4, <2>5, Handled, StartedOut DEF AppInv, Calm
<1> QED BY <1>5, <1>6, <1>7

-----------------------------------------------------------------------------
(* The ring and the servo. *)

RingType ==
  [level : Int, drift : Int, correction : Int, last : Int, muted : BOOLEAN,
   pace : Nat, ahead : Int, holed : BOOLEAN]

Typed == app \in App /\ Calm(app) /\ ring \in RingType /\ phase \in Nat

(* The position of the content, for an output a whose stream is followed. *)
Honest(a, r) ==
  a.out.kind = "cpal" /\ a.out.known /\ a.tracker # "none" /\ a.out.writer /\ ~r.holed =>
    r.ahead = r.level - r.drift

(* A correction is ordered by the servo, which needs a start and a tracker. *)
Ordered(a, r) ==
  a.out.writer /\ r.correction # 0 =>
    a.out.kind = "cpal" /\ a.out.known /\ a.tracker # "none" /\ a.started

(* What is to be skipped; the DAC's own error counts once in an interval. *)
Bounded(a, r, p) ==
  /\ r.pace = 0
  /\ a.out.writer /\ r.correction > 0 =>
       r.correction <= r.drift + (IF p = 0 THEN 0 ELSE Skew)

RingInv ==
  /\ Typed /\ Honest(app, ring) /\ Ordered(app, ring)
  /\ Paces \subseteq {0} => Bounded(app, ring, phase)

-----------------------------------------------------------------------------

(* The sizes are numbers.                                                     *)
LEMMA Sizes ==
  /\ PacketFrames \in Nat /\ PerWrite \in Nat /\ RingFrames \in Nat /\ TickPackets \in Nat
  /\ PacketFrames > 0 /\ PerWrite > 0 /\ TickPackets > 0
  /\ Deadband \in Nat /\ Jump \in Nat /\ Skew \in Nat /\ Rate \in Nat
  /\ StallAt \in Nat /\ Progress \in Nat
<1>1. /\ PacketFrames \in Nat \ {0} /\ PerWrite \in Nat \ {0} /\ RingFrames \in Nat \ {0}
      /\ TickPackets \in Nat \ {0}
      /\ Deadband \in Nat /\ Jump \in Nat /\ Skew \in Nat /\ StallAt \in Nat
      /\ Progress \in Nat
  BY ServoAssumption
<1>2. PacketFrames * TickPackets \in Nat
  BY <1>1
<1> QED BY <1>1, <1>2 DEF Rate

(* A stream that is reset has nothing to correct.                             *)
LEMMA ResetRing ==
  ASSUME NEW r \in RingType, NEW s, s = Reset(r)
  PROVE  /\ s \in RingType /\ s.level = 0 /\ s.drift = 0 /\ s.correction = 0
         /\ s.ahead = 0 /\ s.pace = r.pace
<1>1. s \in RingType
  <2>1. PICK zero \in Int : zero = 0
    OBVIOUS
  <2>2. PICK no \in BOOLEAN : no = FALSE
    OBVIOUS
  <2>3. s = [r EXCEPT !.level = zero, !.drift = zero, !.correction = zero, !.ahead = zero,
                      !.holed = no]
    BY <2>1, <2>2 DEF Reset
  <2> QED BY <2>3 DEF RingType
<1>2. s.level = 0 /\ s.drift = 0 /\ s.correction = 0 /\ s.ahead = 0 /\ s.pace = r.pace
  BY DEF RingType, Reset
<1> QED BY <1>1, <1>2

(* What the output makes of a packet: frames skipped or repeated are credited *)
(* to the position, those that find no room leave a hole.                     *)
LEMMA WriteRing ==
  ASSUME NEW r \in RingType, NEW s, s = Write(r)
  PROVE  /\ s \in RingType /\ s.pace = r.pace
         /\ \E credit \in Int, pushed \in Int :
              /\ s.level = r.level + pushed /\ s.drift = r.drift - credit
              /\ s.correction = r.correction - credit
              /\ s.ahead = r.ahead + PacketFrames + r.pace
              /\ ~s.holed => ~r.holed /\ pushed = PacketFrames + r.pace - credit
              /\ r.correction = 0 => credit = 0
              /\ r.correction <= 0 => s.correction <= 0
<1>1. PICK n \in Int : n = PacketFrames + r.pace
  BY Sizes DEF RingType
<1> DEFINE c == r.correction
           credit == IF c > Jump THEN Least(c, n)
                     ELSE IF c > 0 THEN Least(c, Least(PerWrite, n - 1))
                     ELSE -Least(-c, PerWrite)
<1>2. c \in Int /\ r.level \in Int /\ r.drift \in Int /\ r.ahead \in Int /\ r.pace \in Int
  BY DEF RingType
<1>3. credit \in Int /\ (c = 0 => credit = 0) /\ (c <= 0 => c - credit <= 0)
  BY <1>2, Sizes DEF Least
<1>4. PICK k \in Int : k = credit
  BY <1>3
<1>5. PICK pushed \in Int :
        pushed = Least(n - k, RingFrames - r.level) /\ pushed <= n - k
  BY <1>2, Sizes DEF Least
<1>6. PICK hole \in BOOLEAN : hole = (r.holed \/ pushed < n - k)
  BY DEF RingType
<1>7. s = [r EXCEPT !.level = r.level + pushed, !.correction = r.correction - k,
                    !.drift = r.drift - k, !.ahead = r.ahead + n, !.holed = hole]
  BY <1>1, <1>4, <1>5, <1>6 DEF Write, RingType
<1> HIDE DEF credit
<1>8. /\ r.level + pushed \in Int /\ r.correction - k \in Int
      /\ r.drift - k \in Int /\ r.ahead + n \in Int
  BY <1>2
<1>9. s \in RingType
  BY <1>7, <1>8 DEF RingType
<1>10. /\ s.level = r.level + pushed /\ s.drift = r.drift - k
       /\ s.correction = r.correction - k
       /\ s.ahead = r.ahead + n /\ s.pace = r.pace /\ s.holed = hole
  BY <1>7 DEF RingType
<1>11. /\ s.ahead = r.ahead + PacketFrames + r.pace
       /\ ~s.holed => ~r.holed /\ pushed = PacketFrames + r.pace - k
       /\ r.correction = 0 => k = 0
       /\ r.correction <= 0 => s.correction <= 0
  <2>1. r.ahead + n = r.ahead + PacketFrames + r.pace
    BY <1>1, <1>2, Sizes
  <2>2. ~(pushed < n - k) => pushed = PacketFrames + r.pace - k
    BY <1>1, <1>2, <1>5, Sizes
  <2>3. ~hole => ~r.holed /\ ~(pushed < n - k)
    BY <1>6, Zenon
  <2>4. ~s.holed => ~r.holed /\ ~(pushed < n - k)
    BY <1>10, <2>3, Zenon
  <2>5. (r.correction = 0 => k = 0) /\ (r.correction <= 0 => s.correction <= 0)
    BY <1>3, <1>4, <1>10
  <2>6. s.ahead = r.ahead + PacketFrames + r.pace
    BY <1>10, <2>1
  <2> QED BY <2>2, <2>4, <2>5, <2>6
<1> QED BY <1>9, <1>10, <1>11

(* The decision of the servo: no more is skipped than the drift it sees.      *)
LEMMA ServoRing ==
  ASSUME NEW r \in RingType, NEW s, s = Servo(r)
  PROVE  /\ s \in RingType /\ s.pace = r.pace /\ s.level = r.level /\ s.holed = r.holed
         /\ r.holed \/ s.ahead + s.drift = r.ahead + r.drift
         /\ s.correction > 0 => s.correction <= s.drift
<1> DEFINE stalled == r.drift > StallAt /\ r.last # 0 /\ r.last - r.drift < Progress
           capped == IF r.drift > Rate THEN Rate ELSE IF r.drift < -Rate THEN -Rate ELSE r.drift
<1>1. r.drift \in Int /\ r.last \in Int /\ r.ahead \in Int /\ r.correction \in Int
  BY DEF RingType
<1>2. capped \in Int /\ (capped > 0 => capped <= r.drift)
  BY <1>1, Sizes
<1>3. CASE stalled
  <2>1. s = [r EXCEPT !.correction = 0, !.last = 0, !.drift = 0,
                      !.ahead = IF r.holed THEN 0 ELSE r.ahead + r.drift]
    BY <1>3 DEF Servo, SetCorrection, RingType
  <2>2. (IF r.holed THEN 0 ELSE r.ahead + r.drift) \in Int
    BY <1>1
  <2>3. s \in RingType
    <3>1. PICK zero \in Int, next \in Int :
            zero = 0 /\ next = IF r.holed THEN 0 ELSE r.ahead + r.drift
      BY <2>2
    <3>2. s = [r EXCEPT !.correction = zero, !.last = zero, !.drift = zero, !.ahead = next]
      BY <2>1, <3>1
    <3> QED BY <3>2 DEF RingType
  <2>4. /\ s.pace = r.pace /\ s.level = r.level /\ s.holed = r.holed
        /\ s.ahead = IF r.holed THEN 0 ELSE r.ahead + r.drift
        /\ s.drift = 0 /\ s.correction = 0
    BY <2>1 DEF RingType
  <2> QED BY <1>1, <2>3, <2>4
<1>4. CASE ~stalled /\ Abs(r.drift) > Deadband
  <2>1. s = [r EXCEPT !.correction = capped, !.last = r.drift]
    BY <1>4 DEF Servo, SetCorrection, RingType
  <2> HIDE DEF capped
  <2>2. s \in RingType
    BY <1>1, <1>2, <2>1 DEF RingType
  <2>3. /\ s.pace = r.pace /\ s.level = r.level /\ s.holed = r.holed
        /\ s.ahead = r.ahead /\ s.drift = r.drift /\ s.correction = capped
    BY <2>1 DEF RingType
  <2> QED BY <1>2, <2>2, <2>3
<1>5. CASE ~stalled /\ ~(Abs(r.drift) > Deadband)
  <2>1. s = [r EXCEPT !.correction = 0, !.last = r.drift]
    BY <1>5 DEF Servo, SetCorrection, RingType
  <2>2. s \in RingType
    <3>1. PICK zero \in Int : zero = 0
      OBVIOUS
    <3>2. s = [r EXCEPT !.correction = zero, !.last = r.drift]
      BY <2>1, <3>1
    <3> QED BY <1>1, <3>2 DEF RingType
  <2>3. /\ s.pace = r.pace /\ s.level = r.level /\ s.holed = r.holed
        /\ s.ahead = r.ahead /\ s.drift = r.drift /\ s.correction = 0
    BY <2>1 DEF RingType
  <2> QED BY <2>2, <2>3
<1> QED BY <1>3, <1>4, <1>5
-----------------------------------------------------------------------------
(* The steps. *)

(* A step that keeps the stream, its tracker and the ring.                    *)
LEMMA KeptInv ==
  ASSUME RingInv, app' \in App, Calm(app'), Kept(app, app'), ring' = ring, phase' = phase
  PROVE  RingInv'
<1>1. Typed'
  BY DEF RingInv, Typed
<1>2. Honest(app', ring')
  BY DEF RingInv, Honest, Kept
<1>3. Ordered(app', ring')
  BY DEF RingInv, Ordered, Kept
<1>4. Paces \subseteq {0} => Bounded(app', ring', phase')
  BY DEF RingInv, Bounded, Kept
<1> QED BY <1>1, <1>2, <1>3, <1>4 DEF RingInv

(* A step that ends the stream, or its tracker, or begins a stream anew.      *)
LEMMA FreshInv ==
  ASSUME RingInv, app' \in App, Calm(app'), ring' \in RingType, phase' = phase,
         Paces \subseteq {0} => ring'.pace = 0,
         \/ ~app'.out.writer
         \/ /\ ring'.correction = 0
            /\ app'.tracker = "none" \/ ring'.ahead = ring'.level - ring'.drift
  PROVE  RingInv'
<1>1. Typed'
  BY DEF RingInv, Typed
<1>2. Honest(app', ring')
  BY DEF Honest
<1>3. Ordered(app', ring')
  BY DEF Ordered
<1>4. Paces \subseteq {0} => Bounded(app', ring', phase')
  BY DEF Bounded
<1> QED BY <1>1, <1>2, <1>3, <1>4 DEF RingInv

(* The pace is that of the configuration.                                     *)
LEMMA PaceKept == ASSUME RingInv PROVE Paces \subseteq {0} => ring.pace = 0
BY DEF RingInv, Bounded

(* What stop() and the loss of the tracker leave of the ring.                 *)
LEMMA Dropped ==
  ASSUME NEW r \in RingType
  PROVE  /\ Emptied(r) \in RingType /\ Emptied(r).pace = r.pace
         /\ Untracked(r) \in RingType /\ Untracked(r).pace = r.pace
         /\ [Untracked(Emptied(r)) EXCEPT !.last = 0] \in RingType
         /\ [Untracked(Emptied(r)) EXCEPT !.last = 0].pace = r.pace
         /\ SetCorrection(r, 0) \in RingType /\ SetCorrection(r, 0).pace = r.pace
         /\ SetCorrection(r, 0).correction = 0
<1>1. PICK zero \in Int : zero = 0
  OBVIOUS
<1>2. PICK yes \in BOOLEAN : yes = TRUE
  OBVIOUS
<1>3. Emptied(r) \in RingType /\ Emptied(r).pace = r.pace
  <2>1. Emptied(r) = [r EXCEPT !.level = zero, !.ahead = zero, !.holed = yes]
    BY <1>1, <1>2 DEF Emptied
  <2> QED BY <2>1 DEF RingType
<1>4. Untracked(r) \in RingType /\ Untracked(r).pace = r.pace
  <2>1. Untracked(r) = [r EXCEPT !.drift = zero, !.ahead = zero]
    BY <1>1 DEF Untracked
  <2> QED BY <2>1 DEF RingType
<1>5. /\ [Untracked(Emptied(r)) EXCEPT !.last = 0] \in RingType
      /\ [Untracked(Emptied(r)) EXCEPT !.last = 0].pace = r.pace
  <2>1. [Untracked(Emptied(r)) EXCEPT !.last = 0] =
          [r EXCEPT !.level = zero, !.ahead = zero, !.holed = yes, !.drift = zero,
                    !.last = zero]
    BY <1>1, <1>2 DEF Emptied, Untracked, RingType
  <2>2. /\ [r EXCEPT !.level = zero, !.ahead = zero, !.holed = yes, !.drift = zero,
                      !.last = zero] \in RingType
        /\ [r EXCEPT !.level = zero, !.ahead = zero, !.holed = yes, !.drift = zero,
                      !.last = zero].pace = r.pace
    BY DEF RingType
  <2> QED BY <2>1, <2>2
<1>6. /\ SetCorrection(r, 0) \in RingType /\ SetCorrection(r, 0).pace = r.pace
      /\ SetCorrection(r, 0).correction = 0
  <2>1. SetCorrection(r, 0) = [r EXCEPT !.correction = zero]
    BY <1>1 DEF SetCorrection
  <2> QED BY <1>1, <2>1 DEF RingType
<1> QED BY <1>3, <1>4, <1>5, <1>6

(* Commands that end a stream or its tracker.                                 *)
LEMMA EndInv ==
  ASSUME RingInv,
         ServoPause \/ ServoStop \/ ServoSeek \/ ServoDisconnected \/ ServoRelease
  PROVE  RingInv'
<1>1. app \in App /\ Calm(app) /\ ring \in RingType
  BY DEF RingInv, Typed
<1>2. CASE ServoPause
  <2>1. ring' = SetCorrection(Untracked(ring), 0) /\ phase' = phase /\ Pause
    BY <1>2 DEF ServoPause, Still
  <2>2. ring' \in RingType /\ ring'.pace = ring.pace /\ ring'.correction = 0
    BY <1>1, <2>1, Dropped
  <2> QED BY <1>1, <2>1, <2>2, PauseArm, PaceKept, FreshInv
<1>3. CASE ServoStop
  <2>1. ring' = [Untracked(Emptied(ring)) EXCEPT !.last = 0] /\ phase' = phase /\ Stop
    BY <1>3 DEF ServoStop, Still
  <2>2. ring' \in RingType /\ ring'.pace = ring.pace
    BY <1>1, <2>1, Dropped
  <2> QED BY <1>1, <2>1, <2>2, StopArm, PaceKept, FreshInv
<1>4. CASE ServoSeek
  <2>1. ring' = SetCorrection(Untracked(Reset(ring)), 0) /\ phase' = phase /\ Seek
    BY <1>4 DEF ServoSeek, Still
  <2>2. Reset(ring) \in RingType /\ Reset(ring).pace = ring.pace
    BY <1>1, ResetRing
  <2>3. /\ ring' \in RingType /\ ring'.pace = ring.pace /\ ring'.correction = 0
    BY <2>1, <2>2, Dropped
  <2> QED BY <1>1, <2>1, <2>3, SeekArm, PaceKept, FreshInv
<1>5. CASE ServoDisconnected
  <2>1. ring' = Emptied(ring) /\ phase' = phase /\ Disconnected
    BY <1>5 DEF ServoDisconnected, Still
  <2>2. ring' \in RingType /\ ring'.pace = ring.pace
    BY <1>1, <2>1, Dropped
  <2> QED BY <1>1, <2>1, <2>2, DisconnectedArm, PaceKept, FreshInv
<1>6. CASE ServoRelease
  <2>1. ring' = [Untracked(Emptied(ring)) EXCEPT !.last = 0] /\ phase' = phase /\ Release
    BY <1>6 DEF ServoRelease, Still
  <2>2. ring' \in RingType /\ ring'.pace = ring.pace
    BY <1>1, <2>1, Dropped
  <2> QED BY <1>1, <2>1, <2>2, ReleaseArm, PaceKept, FreshInv
<1> QED BY <1>2, <1>3, <1>4, <1>5, <1>6

(* Commands that begin a stream.                                              *)
LEMMA BeginInv ==
  ASSUME RingInv, ServoFormatProposed \/ ServoPlay \/ ServoReformat
  PROVE  RingInv'
<1>1. app \in App /\ Calm(app) /\ ring \in RingType
  BY DEF RingInv, Typed
<1>2. PICK fresh \in RingType :
        /\ fresh = Reset(ring) /\ fresh.level = 0 /\ fresh.drift = 0
        /\ fresh.correction = 0 /\ fresh.ahead = 0 /\ fresh.pace = ring.pace
  BY <1>1, ResetRing
<1>3. PICK zero \in Nat : zero = 0
  OBVIOUS
<1>4. CASE ServoFormatProposed
  <2>1. /\ ring' = [fresh EXCEPT !.last = zero, !.pace = zero] /\ phase' = phase
        /\ FormatProposed
    BY <1>2, <1>3, <1>4 DEF ServoFormatProposed, Still
  <2>2. ring' \in RingType /\ ring'.pace = 0 /\ ring'.correction = 0
    BY <1>2, <1>3, <2>1 DEF RingType
  <2> QED BY <1>1, <2>1, <2>2, FormatProposedArm, FreshInv
<1>5. CASE ServoPlay
  <2>1. /\ ring' = IF app.released /\ app.lastFormat THEN fresh ELSE ring
        /\ phase' = phase /\ Play
    BY <1>2, <1>5 DEF ServoPlay, Still
  <2>2. CASE app.released /\ app.lastFormat
    BY <1>1, <1>2, <2>1, <2>2, PlayEvent, PaceKept, FreshInv
  <2>3. CASE ~(app.released /\ app.lastFormat)
    BY <1>1, <2>1, <2>3, PlayEvent, KeptInv
  <2> QED BY <2>2, <2>3
<1>6. CASE ServoReformat
  <2>1. Reformat /\ phase' = phase
    BY <1>6 DEF ServoReformat, Still
  <2>2. CASE app.released
    <3>1. ring' = ring
      BY <1>6, <2>2 DEF ServoReformat
    <3> QED BY <1>1, <2>1, <2>2, <3>1, ReformatArm, KeptInv
  <2>3. CASE ~app.released
    <3>1. PICK e \in IF Tracked THEN Elapsed ELSE {0}, pace \in Paces :
            ring' = [fresh EXCEPT !.drift = e, !.ahead = -e, !.pace = pace]
      BY <1>2, <1>6, <2>3 DEF ServoReformat
    <3>2. pace \in Nat /\ e \in Int /\ -e \in Int /\ (Paces \subseteq {0} => pace = 0)
      BY ServoAssumption
    <3>3. /\ ring' \in RingType /\ ring'.pace = pace /\ ring'.correction = 0
          /\ ring'.level = 0 /\ ring'.drift = e /\ ring'.ahead = -e
      BY <1>2, <3>1, <3>2 DEF RingType
    <3>4. ring'.ahead = ring'.level - ring'.drift
      BY <3>2, <3>3
    <3> QED BY <1>1, <2>1, <3>2, <3>3, <3>4, ReformatArm, FreshInv
  <2> QED BY <2>2, <2>3
<1> QED BY <1>4, <1>5, <1>6

(* A packet that is written moves position and content alike; one that meets  *)
(* an armed start finds nothing to correct.                                   *)
LEMMA DeliverInv ==
  ASSUME RingInv, Deliver
  PROVE  RingInv'
<1>1. /\ app \in App /\ Calm(app) /\ ring \in RingType
      /\ phase' = phase /\ phase \in Nat
      /\ Honest(app, ring) /\ Ordered(app, ring)
      /\ Paces \subseteq {0} => Bounded(app, ring, phase)
  BY DEF RingInv, Typed, Deliver
<1> DEFINE written == app.out.kind = "cpal" /\ app.out.writer /\ ~app.released
           armed == app.armed /\ ~app.started
           w == IF written THEN Write(ring) ELSE ring
<1>2. PICK lead \in {"scheduled", "controller", "local"}, reopen \in BOOLEAN, late \in Int :
        /\ Handle(OnAudioPacket(app, lead, reopen))
        /\ ring' = Settled(IF armed
                           THEN [w EXCEPT !.drift = late,
                                   !.ahead = ring.level + PacketFrames + ring.pace - late,
                                   !.holed = @ \/ app.out.playing]
                           ELSE w)
  <2>1. PICK lead \in {"scheduled", "controller", "local"}, reopen \in BOOLEAN, age \in Ages :
        /\ Handle(OnAudioPacket(app, lead, reopen))
        /\ ring' = Settled(IF armed
                           THEN [w EXCEPT !.drift = IF lead = "controller" THEN age ELSE 0,
                                   !.ahead = ring.level + PacketFrames + ring.pace
                                               - (IF lead = "controller" THEN age ELSE 0),
                                   !.holed = @ \/ app.out.playing]
                           ELSE w)
    BY DEF Deliver
  <2>2. PICK late \in Int : late = IF lead = "controller" THEN age ELSE 0
    BY ServoAssumption
  <2> QED BY <2>1, <2>2
<1>3. /\ app' \in App /\ Calm(app') /\ app'.out.kind = app.out.kind /\ app'.out.known = app.out.known
      /\ app'.out.writer = app.out.writer
      /\ IF armed THEN app'.tracker # "none" ELSE Kept(app, app')
  BY <1>1, <1>2, PacketArm DEF Kept
<1>4. PICK credit \in Int, pushed \in Int :
        /\ w \in RingType /\ w.pace = ring.pace
        /\ w.level = ring.level + pushed /\ w.drift = ring.drift - credit
        /\ w.correction = ring.correction - credit
        /\ written /\ ~w.holed =>
             /\ ~ring.holed /\ pushed = PacketFrames + ring.pace - credit
             /\ w.ahead = ring.ahead + PacketFrames + ring.pace
        /\ ring.correction = 0 => credit = 0
        /\ ring.correction <= 0 => w.correction <= 0
        /\ ~written => w = ring
  <2>1. CASE written
    <3>1. w = Write(ring)
      BY <2>1
    <3> HIDE DEF w
    <3>2. /\ w \in RingType /\ w.pace = ring.pace
          /\ \E credit \in Int, pushed \in Int :
               /\ w.level = ring.level + pushed /\ w.drift = ring.drift - credit
               /\ w.correction = ring.correction - credit
               /\ w.ahead = ring.ahead + PacketFrames + ring.pace
               /\ ~w.holed => ~ring.holed /\ pushed = PacketFrames + ring.pace - credit
               /\ ring.correction = 0 => credit = 0
               /\ ring.correction <= 0 => w.correction <= 0
      BY <1>1, <3>1, WriteRing
    <3> QED BY <2>1, <3>2
  <2>2. CASE ~written
    <3>1. /\ ring.level = ring.level + 0 /\ ring.drift = ring.drift - 0
          /\ ring.correction = ring.correction - 0
      BY <1>1 DEF RingType
    <3>2. w = ring
      BY <2>2
    <3> HIDE DEF w
    <3> QED BY <1>1, <2>2, <3>1, <3>2
  <2> QED BY <2>1, <2>2
<1> HIDE DEF w
<1>5. /\ ring.level \in Int /\ ring.drift \in Int /\ ring.ahead \in Int
      /\ ring.correction \in Int /\ ring.pace \in Nat
  BY <1>1 DEF RingType
<1>6. CASE ~armed
  <2> DEFINE next == IF w.holed \/ app'.tracker = "none" THEN 0 ELSE w.ahead
  <2>1. ring' = [w EXCEPT !.ahead = next]
    BY <1>2, <1>6 DEF Settled
  <2>2. PICK ahead \in Int : ahead = next
    BY <1>4 DEF RingType
  <2>3. ring' \in RingType
    BY <1>4, <2>1, <2>2 DEF RingType
  <2>4. /\ ring'.level = w.level /\ ring'.drift = w.drift /\ ring'.pace = w.pace
        /\ ring'.correction = w.correction /\ ring'.holed = w.holed /\ ring'.ahead = next
    BY <1>4, <2>1 DEF RingType
  <2>5. Kept(app, app')
    BY <1>3, <1>6
  <2>6. Honest(app', ring')
    <3> SUFFICES ASSUME app'.out.kind = "cpal", app'.out.known, app'.tracker # "none",
                        app'.out.writer, ~ring'.holed
                 PROVE  ring'.ahead = ring'.level - ring'.drift
      BY DEF Honest
    <3>1. ring'.ahead = w.ahead /\ ~w.holed
      BY <2>4
    <3>2. CASE written
      <4>1. ring.ahead = ring.level - ring.drift
        BY <1>1, <1>4, <2>5, <3>1, <3>2 DEF Honest, Kept
      <4>2. /\ w.ahead = ring.ahead + PacketFrames + ring.pace
            /\ pushed = PacketFrames + ring.pace - credit
        BY <1>4, <3>1, <3>2
      <4> QED BY <1>4, <1>5, <2>4, <3>1, <4>1, <4>2, Sizes
    <3>3. CASE ~written
      BY <1>1, <1>4, <2>4, <2>5, <3>1, <3>3 DEF Honest, Kept
    <3> QED BY <3>2, <3>3
  <2>7. Ordered(app', ring')
    <3>1. ring'.correction # 0 => ring.correction # 0
      BY <1>4, <1>5, <2>4
    <3>2. Ordered(app, ring)
      BY <1>1
    <3> QED BY <2>5, <3>1, <3>2 DEF Ordered, Kept
  <2>8. Paces \subseteq {0} => Bounded(app', ring', phase')
    <3> SUFFICES ASSUME Paces \subseteq {0}
                 PROVE  Bounded(app', ring', phase')
      OBVIOUS
    <3>1. PICK slack \in Int : slack = IF phase = 0 THEN 0 ELSE Skew
      BY Sizes
    <3>2. ring.pace = 0 /\ (app.out.writer /\ ring.correction > 0
                              => ring.correction <= ring.drift + slack)
      BY <1>1, <3>1 DEF Bounded
    <3>3. app.out.writer /\ w.correction > 0 => w.correction <= w.drift + slack
      BY <1>4, <1>5, <3>2
    <3> QED BY <1>1, <1>4, <2>4, <2>5, <3>1, <3>2, <3>3 DEF Bounded, Kept
  <2> QED BY <1>1, <1>3, <2>3, <2>6, <2>7, <2>8 DEF RingInv, Typed
<1>7. CASE armed
  <2>1. PICK ahead \in Int, base \in Int, hole \in BOOLEAN :
          /\ base = ring.level + PacketFrames + ring.pace - late
          /\ hole = (w.holed \/ app.out.playing)
          /\ ahead = IF hole \/ app'.tracker = "none" THEN 0 ELSE base
    <3>1. PICK base \in Int : base = ring.level + PacketFrames + ring.pace - late
      BY <1>5, Sizes
    <3>2. PICK hole \in BOOLEAN : hole = (w.holed \/ app.out.playing)
      OBVIOUS
    <3>3. PICK ahead \in Int : ahead = IF hole \/ app'.tracker = "none" THEN 0 ELSE base
      OBVIOUS
    <3> QED BY <3>1, <3>2, <3>3
  <2>2. ring' = [w EXCEPT !.drift = late, !.ahead = ahead, !.holed = hole]
    BY <1>2, <1>4, <1>7, <2>1 DEF Settled, RingType
  <2>3. ring' \in RingType
    BY <1>4, <2>2 DEF RingType
  <2>4. /\ ring'.level = w.level /\ ring'.drift = late /\ ring'.pace = w.pace
        /\ ring'.correction = w.correction /\ ring'.holed = hole /\ ring'.ahead = ahead
    BY <1>4, <2>2 DEF RingType
  <2>5. app'.out.writer => ring.correction = 0 /\ w.correction = 0 /\ credit = 0
    <3>1. app'.out.writer => ring.correction = 0
      BY <1>1, <1>3, <1>7 DEF Ordered
    <3> QED BY <1>4, <1>5, <3>1
  <2>6. app'.out.writer /\ app'.out.kind = "cpal" => written
    BY <1>1, <1>3, <1>7 DEF Calm
  <2>7. Honest(app', ring')
    <3> SUFFICES ASSUME app'.out.kind = "cpal", app'.out.writer, ~ring'.holed
                 PROVE  ring'.ahead = ring'.level - ring'.drift
      BY DEF Honest
    <3>1. ~hole /\ ~w.holed /\ ahead = base
      BY <1>3, <1>7, <2>1, <2>4
    <3> QED BY <1>4, <1>5, <2>1, <2>4, <2>5, <2>6, <3>1, Sizes
  <2>8. Ordered(app', ring')
    BY <2>4, <2>5 DEF Ordered
  <2>9. Paces \subseteq {0} => Bounded(app', ring', phase')
    BY <1>1, <1>4, <2>4, <2>5 DEF Bounded
  <2> QED BY <1>1, <1>3, <2>3, <2>7, <2>8, <2>9 DEF RingInv, Typed
<1> QED BY <1>6, <1>7

(* Time passes: what the DAC takes leaves the ring and moves the position.    *)
LEMMA ElapseInv ==
  ASSUME RingInv, Elapse
  PROVE  RingInv'
<1>1. /\ app \in App /\ Calm(app) /\ ring \in RingType /\ phase \in Nat
      /\ app' = app /\ phase' = phase + 1
      /\ Honest(app, ring) /\ Ordered(app, ring)
      /\ Paces \subseteq {0} => Bounded(app, ring, phase)
  BY DEF RingInv, Typed, Elapse
<1>2. /\ ring.level \in Int /\ ring.drift \in Int /\ ring.ahead \in Int
      /\ ring.correction \in Int /\ ring.pace \in Nat
  BY <1>1 DEF RingType
<1>3. PICK used \in Int, due \in Int :
        /\ ring' = IF Tracked
                   THEN Settled([ring EXCEPT !.level = @ - used, !.drift = @ + due - used,
                                             !.ahead = @ - due])
                   ELSE [ring EXCEPT !.level = @ - used]
        /\ app.started => due = PacketFrames
        /\ used <= PacketFrames + ring.pace + (IF phase = 0 THEN Skew ELSE 0)
  <2> DEFINE sounding == app.out.kind = "cpal" /\ app.out.playing /\ ~ring.muted
             want == PacketFrames + ring.pace + (IF phase = 0 THEN Skew ELSE 0)
             used == IF sounding THEN Least(ring.level, want) ELSE 0
             due == IF app.started THEN PacketFrames ELSE 0
  <2>1. want \in Nat
    BY <1>2, Sizes
  <2>2. used \in Int /\ used <= want /\ due \in Int
    BY <1>2, <2>1, Sizes DEF Least
  <2>3. ring' = IF Tracked
                THEN Settled([ring EXCEPT !.level = @ - used, !.drift = @ + due - used,
                                          !.ahead = @ - due])
                ELSE [ring EXCEPT !.level = @ - used]
    BY DEF Elapse
  <2>4. app.started => due = PacketFrames
    OBVIOUS
  <2> QED BY <2>2, <2>3, <2>4
<1>4. ring.level - used \in Int /\ ring.drift + due - used \in Int /\ ring.ahead - due \in Int
  BY <1>2
<1>5. CASE ~Tracked
  <2>1. ring' = [ring EXCEPT !.level = ring.level - used]
    BY <1>1, <1>3, <1>5 DEF RingType
  <2>2. ring' \in RingType
    BY <1>1, <1>4, <2>1 DEF RingType
  <2>3. ring'.correction = ring.correction /\ ring'.pace = ring.pace
    BY <1>1, <2>1 DEF RingType
  <2>4. ~(app.out.kind = "cpal" /\ app.out.known /\ app.tracker # "none")
    BY <1>5 DEF Tracked, Positioned
  <2>5. Honest(app', ring') /\ Ordered(app', ring')
    BY <1>1, <2>3, <2>4 DEF Honest, Ordered
  <2>6. Paces \subseteq {0} => Bounded(app', ring', phase')
    BY <1>1, <2>3, <2>4 DEF Bounded, Ordered
  <2> QED BY <1>1, <2>2, <2>5, <2>6 DEF RingInv, Typed
<1>6. CASE Tracked
  <2>1. PICK ahead \in Int :
          ahead = IF ring.holed \/ app'.tracker = "none" THEN 0 ELSE ring.ahead - due
    BY <1>4
  <2>2. ring' = [ring EXCEPT !.level = ring.level - used, !.drift = ring.drift + due - used,
                             !.ahead = ahead]
    BY <1>1, <1>3, <1>6, <2>1 DEF Settled, RingType
  <2>3. ring' \in RingType
    BY <1>1, <1>4, <2>2 DEF RingType
  <2>4. /\ ring'.level = ring.level - used /\ ring'.drift = ring.drift + due - used
        /\ ring'.ahead = ahead /\ ring'.holed = ring.holed
        /\ ring'.correction = ring.correction /\ ring'.pace = ring.pace
    BY <1>1, <2>2 DEF RingType
  <2>5. Honest(app', ring')
    <3> SUFFICES ASSUME app.out.kind = "cpal", app.out.known, app.tracker # "none",
                        app.out.writer, ~ring.holed
                 PROVE  ring'.ahead = ring'.level - ring'.drift
      BY <1>1, <2>4 DEF Honest
    <3>1. ring.ahead = ring.level - ring.drift /\ ahead = ring.ahead - due
      BY <1>1, <2>1 DEF Honest
    <3> QED BY <1>2, <2>4, <3>1
  <2>6. Ordered(app', ring')
    BY <1>1, <2>4 DEF Ordered
  <2>7. Paces \subseteq {0} => Bounded(app', ring', phase')
    <3> SUFFICES ASSUME Paces \subseteq {0}, app.out.writer, ring.correction > 0
                 PROVE  ring.correction <= ring'.drift + Skew
      BY <1>1, <2>4 DEF Bounded
    <3>1. /\ ring.correction <= ring.drift + (IF phase = 0 THEN 0 ELSE Skew)
          /\ ring.pace = 0 /\ app.started
      BY <1>1, <1>2 DEF Bounded, Ordered
    <3>2. due = PacketFrames /\ used <= PacketFrames + (IF phase = 0 THEN Skew ELSE 0)
      BY <1>3, <3>1, Sizes
    <3> QED BY <1>2, <2>4, <3>1, <3>2, Sizes
  <2> QED BY <1>1, <2>3, <2>5, <2>6, <2>7 DEF RingInv, Typed
<1> QED BY <1>5, <1>6

(* The servo orders a correction of the drift it sees.                        *)
LEMMA ServoServoTickInv ==
  ASSUME RingInv, ServoServoTick
  PROVE  RingInv'
<1>1. /\ app \in App /\ Calm(app) /\ ring \in RingType /\ ServoTick /\ phase' = 0
      /\ Honest(app, ring) /\ Ordered(app, ring)
      /\ Paces \subseteq {0} => Bounded(app, ring, phase)
  BY DEF RingInv, Typed, ServoServoTick
<1>2. app' \in App /\ Calm(app') /\ Kept(app, app')
  BY <1>1, ServoTickArm
<1>3. CASE app.started /\ Tracked
  <2>1. ring' = Servo(ring)
    BY <1>3 DEF ServoServoTick
  <2>2. /\ ring' \in RingType /\ ring'.pace = ring.pace /\ ring'.level = ring.level
        /\ ring'.holed = ring.holed
        /\ ring.holed \/ ring'.ahead + ring'.drift = ring.ahead + ring.drift
        /\ ring'.correction > 0 => ring'.correction <= ring'.drift
    BY <1>1, <2>1, ServoRing
  <2>3. /\ ring.level \in Int /\ ring.drift \in Int /\ ring.ahead \in Int
        /\ ring'.drift \in Int /\ ring'.ahead \in Int /\ ring'.correction \in Int
    BY <1>1, <2>2 DEF RingType
  <2>4. Honest(app', ring')
    <3> SUFFICES ASSUME app'.out.kind = "cpal", app'.out.known, app'.tracker # "none",
                        app'.out.writer, ~ring'.holed
                 PROVE  ring'.ahead = ring'.level - ring'.drift
      BY DEF Honest
    <3>1. Honest(app, ring) /\ ~ring.holed
      BY <1>1, <2>2
    <3>2. ring.ahead = ring.level - ring.drift
      BY <1>2, <3>1 DEF Honest, Kept
    <3> QED BY <2>2, <2>3, <3>1, <3>2
  <2>5. Ordered(app', ring')
    BY <1>2, <1>3 DEF Ordered, Kept, Tracked, Positioned
  <2>6. Paces \subseteq {0} => Bounded(app', ring', phase')
    BY <1>1, <2>2, <2>3 DEF Bounded
  <2> QED BY <1>1, <1>2, <2>2, <2>4, <2>5, <2>6 DEF RingInv, Typed
<1>4. CASE ~(app.started /\ Tracked)
  <2>1. ring' = ring
    BY <1>4 DEF ServoServoTick
  <2>2. ~(app.out.writer /\ ring.correction # 0)
    BY <1>1, <1>4 DEF Ordered, Tracked, Positioned
  <2>3. Honest(app', ring') /\ Ordered(app', ring')
    BY <1>1, <1>2, <2>1, <2>2 DEF Honest, Ordered, Kept
  <2>4. Paces \subseteq {0} => Bounded(app', ring', phase')
    BY <1>1, <1>2, <2>1, <2>2 DEF Bounded, Kept
  <2> QED BY <1>1, <1>2, <2>1, <2>3, <2>4 DEF RingInv, Typed
<1> QED BY <1>3, <1>4

(* A lost packet leaves a hole; muting leaves the position as it is.          *)
LEMMA LoseInv ==
  ASSUME RingInv, Lose \/ SetMute
  PROVE  RingInv'
<1>1. /\ app \in App /\ Calm(app) /\ ring \in RingType /\ phase \in Nat
      /\ app' = app /\ phase' = phase
  BY DEF RingInv, Typed, Lose, SetMute, Still
<1>2. PICK zero \in Int : zero = 0
  OBVIOUS
<1>3. /\ ring' \in RingType
      /\ ring'.correction = ring.correction /\ ring'.drift = ring.drift
      /\ ring'.pace = ring.pace
      /\ ring'.holed \/ (/\ ring'.ahead = ring.ahead /\ ring'.level = ring.level
                         /\ ring'.holed = ring.holed)
  <2>1. CASE Lose
    <3>1. ring' = [ring EXCEPT !.holed = TRUE, !.ahead = zero]
      BY <1>2, <2>1 DEF Lose
    <3> QED BY <1>1, <3>1 DEF RingType
  <2>2. CASE SetMute
    <3>1. ring' = [ring EXCEPT !.muted = ~ring.muted] /\ (~ring.muted) \in BOOLEAN
      BY <1>1, <2>2 DEF SetMute, RingType
    <3> QED BY <1>1, <3>1 DEF RingType
  <2> QED BY <2>1, <2>2
<1>4. Honest(app', ring') /\ Ordered(app', ring')
  BY <1>1, <1>3 DEF RingInv, Honest, Ordered
<1>5. Paces \subseteq {0} => Bounded(app', ring', phase')
  BY <1>1, <1>3 DEF RingInv, Bounded
<1> QED BY <1>1, <1>3, <1>4, <1>5 DEF RingInv, Typed

(* The initial state.                                                         *)
LEMMA InitRing == ServoInit => RingInv /\ AppInv(app)
<1> SUFFICES ASSUME ServoInit PROVE RingInv /\ AppInv(app)
  OBVIOUS
<1>1. PICK kind \in Kinds : app = NewApp(kind)
  BY DEF ServoInit, Init
<1>2. ring = NewRing /\ phase = 0
  BY DEF ServoInit
<1>3. app \in App /\ Calm(app) /\ AppInv(app) /\ ~app.out.writer
  <2> DEFINE o == NewOutput(kind)
  <2>1. o \in Output /\ ~o.writer /\ ~o.open /\ ~o.playing
    BY PlaybackAssumption DEF NewOutput, Output
  <2> HIDE DEF o
  <2>2. NoMail \in Mail /\ NoStream \in Streams \cup {NoStream} /\ 0 \in 0 .. StatsEvery - 1
    BY PlaybackAssumption DEF Mail, NoMail
  <2>a. app.out = o
    BY <1>1 DEF NewApp, o
  <2>b. app \in App
    BY <1>1, <2>1, <2>2 DEF NewApp, App, o
  <2>3. ~app.armed /\ ~app.deadline /\ ~app.inUse
    BY <1>1 DEF NewApp
  <2> QED BY <2>1, <2>a, <2>b, <2>3 DEF Calm, AppInv
<1>4. ring \in RingType /\ ring.pace = 0
  BY <1>2 DEF NewRing, RingType
<1> QED BY <1>2, <1>3, <1>4 DEF RingInv, Typed, Honest, Ordered, Bounded

(* Every step keeps the position honest and the corrections justified.        *)
LEMMA StepRing == RingInv /\ [ServoNext]_servoVars => RingInv'
<1> SUFFICES ASSUME RingInv, [ServoNext]_servoVars PROVE RingInv'
  OBVIOUS
<1>1. app \in App /\ Calm(app)
  BY DEF RingInv, Typed
<1>2. CASE ServoConnected
  BY <1>1, <1>2, ConnectedArm, KeptInv DEF ServoConnected, Still
<1>3. CASE ServoDeadline
  BY <1>1, <1>3, DeadlineArm, KeptInv DEF ServoDeadline, Still
<1>4. CASE ServoDeviceAway
  BY <1>1, <1>4, DeviceAwayArm, KeptInv DEF ServoDeviceAway, Still
<1>5. CASE UNCHANGED servoVars
  BY <1>5 DEF servoVars, RingInv, Typed, Calm, Honest, Ordered, Bounded
<1> QED BY <1>2, <1>3, <1>4, <1>5, BeginInv, EndInv, DeliverInv, LoseInv, ElapseInv,
           ServoServoTickInv DEF ServoNext

(* Every step keeps what the application knows of its output.                 *)
LEMMA StepApp ==
  ASSUME ~Late, ~Overtake
  PROVE  RingInv /\ AppInv(app) /\ [ServoNext]_servoVars => AppInv(app')
<1> SUFFICES ASSUME RingInv, AppInv(app), [ServoNext]_servoVars PROVE AppInv(app')
  OBVIOUS
<1>1. app \in App
  BY DEF RingInv, Typed
<1>2. CASE Deliver
  BY <1>1, <1>2, PacketArm DEF Deliver
<1>3. CASE app' = app
  BY <1>3
<1>4. CASE ServoConnected \/ ServoDeadline \/ ServoDeviceAway \/ ServoServoTick
  BY <1>1, <1>4, ConnectedArm, DeadlineArm, DeviceAwayArm, ServoTickArm
     DEF ServoConnected, ServoDeadline, ServoDeviceAway, ServoServoTick
<1>5. CASE ServoFormatProposed \/ ServoPlay \/ ServoReformat
  BY <1>1, <1>5, FormatProposedArm, PlayEvent, ReformatArm
     DEF ServoFormatProposed, ServoPlay, ServoReformat
<1>6. CASE ServoPause \/ ServoStop \/ ServoSeek \/ ServoDisconnected \/ ServoRelease
  BY <1>1, <1>6, PauseArm, StopArm, SeekArm, DisconnectedArm, ReleaseArm
     DEF ServoPause, ServoStop, ServoSeek, ServoDisconnected, ServoRelease
<1> QED BY <1>2, <1>3, <1>4, <1>5, <1>6
        DEF ServoNext, SetMute, Lose, Elapse, servoVars

-----------------------------------------------------------------------------

(* The position that content_position() reports is that of the content, after *)
(* any corrections, commands, reformats and rebases of the tracker.           *)
THEOREM PositionSafe == ServoSpec => []PositionHonest
<1>1. RingInv => PositionHonest
  BY DEF RingInv, Honest, PositionHonest, Tracked, Positioned
<1> QED BY <1>1, InitRing, StepRing, PTL DEF ServoSpec

(* No correction is carried out that no drift justifies, as long as a         *)
(* reformat keeps the sample rate.                                            *)
THEOREM CorrectionsSafe ==
  ASSUME Paces \subseteq {0}
  PROVE  ServoSpec => []CorrectionsJustified
<1>1. RingInv => CorrectionsJustified
  <2> SUFFICES ASSUME RingInv, app.out.writer, ring.correction # 0
               PROVE  /\ Tracked
                      /\ ring.correction > 0 => ring.correction <= ring.drift + Skew
    BY DEF CorrectionsJustified
  <2>1. Tracked
    BY DEF RingInv, Ordered, Tracked, Positioned
  <2>2. ring.drift \in Int /\ ring.correction \in Int
    BY DEF RingInv, Typed, RingType
  <2>3. ring.correction > 0 => ring.correction <= ring.drift + Skew
    BY <2>2, Sizes DEF RingInv, Bounded
  <2> QED BY <2>1, <2>3
<1> QED BY <1>1, InitRing, StepRing, PTL DEF ServoSpec

(* The output does what it was last told and stays closed after a release, as *)
(* long as no command overtakes a deferred start and none addresses an output *)
(* that is not in use.                                                        *)
THEOREM OutputSafe ==
  ASSUME ~Late, ~Overtake
  PROVE  ServoSpec => []OutputObeys
<1>1. AppInv(app) => OutputObeys
  BY DEF AppInv, OutputObeys
<1>2. AppInv(app)' <=> AppInv(app')
  BY DEF AppInv
<1>3. RingInv /\ AppInv(app) /\ [ServoNext]_servoVars => (RingInv /\ AppInv(app))'
  BY <1>2, StepRing, StepApp
<1> QED BY <1>1, <1>3, InitRing, PTL DEF ServoSpec
=============================================================================
