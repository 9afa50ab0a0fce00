-------------------------------- MODULE Servo --------------------------------
(***************************************************************************)
(* The drift servo: the endpoint application of module Playback together   *)
(* with the ring buffer of CpalOutput (audio_output.rs), the position it   *)
(* reports, the PtsTracker (sync.rs) and the correction that the servo     *)
(* tick of run_endpoint orders and write_audio carries out.                *)
(*                                                                         *)
(* Positions are kept as differences, in frames:                           *)
(*   drift   what drift_frames would return now: the position the clock    *)
(*           asks for minus content_position();                            *)
(*   ahead   (ghost) the stream index of the next frame to be written      *)
(*           minus the position the clock asks for.                        *)
(* The controller sends one packet per packet time.  AlsaDirectOutput      *)
(* reports no position, so only the events of Playback matter for it.      *)
(***************************************************************************)
EXTENDS Playback, Integers

CONSTANTS
  PacketFrames,  \* frames in one audio packet
  TickPackets,   \* packet times in one servo interval (1 s)
  RingFrames,    \* capacity of the ring (1 s)
  Deadband,      \* rate / 2000, at least 4
  Jump,          \* JUMP_THRESHOLD_FRAMES
  PerWrite,      \* MAX_CORRECTION_FRAMES_PER_WRITE
  StallAt,       \* rate / 2
  Progress,      \* rate / 10
  Skew,          \* frames per interval by which the DAC runs fast
  Ages,          \* how late an immediate start may be, in frames
  Elapsed,       \* how far a stream may have come before a reformat
  Paces,         \* frames per packet time by which a reformat may raise the rate
  MaxLead,       \* how far an output that is already running gets before a scheduled start
  MaxFlight,     \* packets the network may delay
  Mutes          \* the volume commands mute the output

ASSUME ServoAssumption ==
  /\ {PacketFrames, TickPackets, RingFrames, PerWrite, MaxFlight} \subseteq Nat \ {0}
  /\ {Deadband, Jump, StallAt, Progress, Skew, MaxLead} \subseteq Nat
  /\ Ages \subseteq Nat /\ Elapsed \subseteq Nat /\ Paces \subseteq Nat
  /\ Mutes \in BOOLEAN

Rate == PacketFrames * TickPackets

VARIABLES
  ring,    \* the output's ring and position, and the servo's memory
  phase,   \* packet times since the last servo tick
  flight   \* packets sent and not yet received

servoVars == <<app, ring, phase, flight>>

Least(a, b) == IF a < b THEN a ELSE b
Abs(x) == IF x < 0 THEN -x ELSE x

(***************************************************************************)
(* level: frames in the ring; correction: frames still to be dropped       *)
(* (positive) or duplicated; last: last_drift; pace: what the stream's     *)
(* rate exceeds stream_sample_rate by; holed (ghost): frames were lost     *)
(* since the stream was configured, or it was already running when the     *)
(* tracker was set up, so its position says nothing.                       *)
(***************************************************************************)
NewRing ==
  [level |-> 0, drift |-> 0, correction |-> 0, last |-> 0, muted |-> FALSE,
   pace |-> 0, ahead |-> 0, holed |-> FALSE]

(* The part of configure_with_device that starts a new stream at frame 0. *)
Reset(r) ==
  [r EXCEPT !.level = 0, !.drift = 0, !.correction = 0, !.ahead = 0, !.holed = FALSE]

(* stop() lets go of the ring, not of the pending correction. *)
Emptied(r) == [r EXCEPT !.level = 0, !.ahead = 0, !.holed = TRUE]

(* The ghost is followed while it says something. *)
Settled(r) == [r EXCEPT !.ahead = IF r.holed \/ app'.tracker = "none" THEN 0 ELSE @]

(* tracker = None: there is no drift to speak of. *)
Untracked(r) == [r EXCEPT !.drift = 0, !.ahead = 0]

(* set_correction replaces what is pending. *)
SetCorrection(r, frames) == [r EXCEPT !.correction = frames]

(* Faulty variant: skipped frames are not credited to the position. *)
WriteUncredited(r) ==
  LET credit == IF r.correction > Jump THEN Least(r.correction, PacketFrames) ELSE 0
      pushed == Least(PacketFrames - credit, RingFrames - r.level)
  IN [r EXCEPT !.level = @ + pushed, !.correction = @ - credit, !.ahead = @ + PacketFrames,
               !.holed = @ \/ pushed < PacketFrames - credit]

(* Faulty variant: only large corrections are carried out. *)
WriteCoarse(r) ==
  LET credit == IF r.correction > Jump THEN Least(r.correction, PacketFrames) ELSE 0
      pushed == Least(PacketFrames - credit, RingFrames - r.level)
  IN [r EXCEPT !.level = @ + pushed, !.correction = @ - credit, !.drift = @ - credit,
               !.ahead = @ + PacketFrames, !.holed = @ \/ pushed < PacketFrames - credit]

(***************************************************************************)
(* write_audio for one packet.  Far behind, whole packets are dropped;     *)
(* otherwise at most PerWrite frames are dropped or repeated.  What does   *)
(* not fit into the ring is lost.  credit is what net_adjust counts.       *)
(***************************************************************************)
Write(r) ==
  LET n == PacketFrames + r.pace
      c == r.correction
      credit == IF c > Jump THEN Least(c, n)
                ELSE IF c > 0 THEN Least(c, Least(PerWrite, n - 1))
                ELSE -Least(-c, PerWrite)
      pushed == Least(n - credit, RingFrames - r.level)
  IN [r EXCEPT !.level = @ + pushed, !.correction = @ - credit, !.drift = @ - credit,
               !.ahead = @ + n, !.holed = @ \/ pushed < n - credit]

(***************************************************************************)
(* The servo's decision.  A stalled catch-up moves the tracker's start to  *)
(* the present position.                                                   *)
(***************************************************************************)
Servo(r) ==
  LET stalled == r.drift > StallAt /\ r.last # 0 /\ r.last - r.drift < Progress
      capped == IF r.drift > Rate THEN Rate ELSE IF r.drift < -Rate THEN -Rate ELSE r.drift
  IN CASE stalled ->
            [SetCorrection(r, 0) EXCEPT !.last = 0, !.drift = 0,
                                    !.ahead = IF r.holed THEN 0 ELSE @ + r.drift]
       [] ~stalled /\ Abs(r.drift) > Deadband ->
            [SetCorrection(r, capped) EXCEPT !.last = r.drift]
       [] OTHER -> [SetCorrection(r, 0) EXCEPT !.last = r.drift]

Tracked == Positioned(app.out) /\ app.tracker # "none"

-----------------------------------------------------------------------------
(* The arms of the loop, each with what it does to the ring. *)

ServoInit ==
  /\ Init
  /\ ring = NewRing
  /\ phase = 0 /\ flight = 0

Still == UNCHANGED <<phase, flight>>

ServoConnected == Connected /\ UNCHANGED ring /\ Still

(* A configure that fails leaves no stream; its position is not followed. *)
ServoFormatProposed ==
  FormatProposed /\ ring' = [Reset(ring) EXCEPT !.last = 0, !.pace = 0] /\ Still

(* After a release play configures again. *)
ServoPlay ==
  /\ Play
  /\ ring' = IF app.released /\ app.lastFormat THEN Reset(ring) ELSE ring
  /\ Still

(* Faulty variant: the pending correction outlives the tracker. *)
ServoPauseCorrecting == Pause /\ ring' = Untracked(ring) /\ Still

ServoPause == Pause /\ ring' = SetCorrection(Untracked(ring), 0) /\ Still

ServoStop == Stop /\ ring' = [Untracked(Emptied(ring)) EXCEPT !.last = 0] /\ Still

ServoSeek == Seek /\ ring' = SetCorrection(Untracked(Reset(ring)), 0) /\ Still

(***************************************************************************)
(* The position restarts at 0, and the tracker goes on from the old start  *)
(* with the old rate.                                                      *)
(***************************************************************************)
ServoReformat ==
  /\ Reformat
  /\ IF app.released THEN UNCHANGED ring
     ELSE \E e \in IF Tracked THEN Elapsed ELSE {0}, pace \in Paces :
            ring' = [Reset(ring) EXCEPT !.drift = e, !.ahead = -e, !.pace = pace]
  /\ Still

ServoDisconnected == Disconnected /\ ring' = Emptied(ring) /\ Still

ServoRelease == Release /\ ring' = [Untracked(Emptied(ring)) EXCEPT !.last = 0] /\ Still

ServoDeadline == Deadline /\ UNCHANGED ring /\ Still

ServoDeviceAway == DeviceAway /\ UNCHANGED ring /\ Still

SetMute ==
  /\ Mutes /\ app.connected /\ app.out.kind = "cpal"
  /\ ring' = [ring EXCEPT !.muted = ~@]
  /\ UNCHANGED app /\ Still

(***************************************************************************)
(* A packet reaches the application.  The packet that meets an armed start *)
(* sets up the tracker: its presentation time less what was buffered       *)
(* before it is the time of the ring's head.                               *)
(***************************************************************************)
Deliver ==
  /\ flight > 0 /\ flight' = flight - 1
  /\ \E lead \in {"scheduled", "controller", "local"}, reopen \in BOOLEAN, age \in Ages :
       LET w == IF app.out.kind = "cpal" /\ app.out.writer /\ ~app.released
                THEN Write(ring) ELSE ring
           late == IF lead = "controller" THEN age ELSE 0
       IN /\ Handle(OnAudioPacket(app, lead, reopen))
          /\ ring' = Settled(IF app.armed /\ ~app.started
                             THEN [w EXCEPT !.drift = late,
                                            !.ahead = ring.level + PacketFrames + ring.pace - late,
                                            !.holed = @ \/ app.out.playing]
                             ELSE w)
  /\ UNCHANGED phase

(* The network loses a packet; one for each stream is considered. *)
Lose ==
  /\ ~ring.holed
  /\ flight > 0 /\ flight' = flight - 1
  /\ ring' = [ring EXCEPT !.holed = TRUE, !.ahead = 0]
  /\ UNCHANGED <<app, phase>>

(***************************************************************************)
(* One packet time: the controller sends, the DAC plays what there is, and *)
(* the clock asks for as much, once the start has come.                    *)
(***************************************************************************)
Elapse ==
  /\ UNCHANGED app
  /\ phase < TickPackets /\ phase' = phase + 1
  /\ app.connected => flight < MaxFlight
  /\ flight' = IF app.connected THEN flight + 1 ELSE flight
  /\ LET sounding == app.out.kind = "cpal" /\ app.out.playing /\ ~ring.muted
         want == PacketFrames + ring.pace + (IF phase = 0 THEN Skew ELSE 0)
         used == IF sounding THEN Least(ring.level, want) ELSE 0
         due == IF app.started THEN PacketFrames ELSE 0
     IN /\ app.deadline => ring.drift - used >= -MaxLead
        /\ ring' = IF Tracked
                   THEN Settled([ring EXCEPT !.level = @ - used, !.drift = @ + due - used,
                                             !.ahead = @ - due])
                   ELSE [ring EXCEPT !.level = @ - used]

ServoServoTick ==
  /\ phase = TickPackets /\ phase' = 0
  /\ ServoTick
  /\ ring' = IF app.started /\ Tracked THEN Servo(ring) ELSE ring
  /\ UNCHANGED flight

ServoNext ==
  \/ ServoConnected \/ ServoFormatProposed \/ ServoPlay \/ ServoPause \/ ServoStop
  \/ ServoSeek \/ ServoReformat \/ ServoDisconnected \/ ServoRelease \/ ServoDeadline
  \/ ServoDeviceAway \/ SetMute \/ Deliver \/ Lose \/ Elapse \/ ServoServoTick

ServoSpec ==
  /\ ServoInit /\ [][ServoNext]_servoVars
  /\ WF_servoVars(Elapse) /\ WF_servoVars(Deliver)
  /\ WF_servoVars(ServoServoTick) /\ WF_servoVars(ServoDeadline)

-----------------------------------------------------------------------------
(* Properties. *)

(* The position the output reports is the position of the content: skipped    *)
(* and repeated frames are credited, so as long as nothing was lost the frame *)
(* written next is the one that follows the reported position by what the     *)
(* ring holds.                                                                *)
PositionHonest ==
  Tracked /\ app.out.writer /\ ~ring.holed => ring.ahead = ring.level - ring.drift

(* Frames are only skipped or repeated for a drift that is there: a tracker   *)
(* measures it, so no correction ordered before a pause, a seek or a new      *)
(* stream is carried out after it, and what is still to be skipped never      *)
(* exceeds it by more than the DAC's own error in one interval.               *)
CorrectionsJustified ==
  app.out.writer /\ ring.correction # 0 =>
    /\ Tracked
    /\ ring.correction > 0 => ring.correction <= ring.drift + Skew

(* Everything in the ring is already late: the stream is not sent far enough   *)
(* ahead for the drift to be made up.                                         *)
Starved == ring.level < ring.drift

(* Playback that is tracked returns to within the deadband of the clock, or   *)
(* of the timeline a stalled catch-up settled for, unless the stream itself   *)
(* comes too late.                                                            *)
Realigns ==
  [](Tracked /\ app.out.playing =>
       <>(Abs(ring.drift) <= Deadband \/ ~Tracked \/ ~app.out.playing \/ Starved))
=============================================================================
