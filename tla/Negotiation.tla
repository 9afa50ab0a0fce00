---------------------------- MODULE Negotiation ----------------------------
(***************************************************************************)
(* What an endpoint says it can play, and what it then agrees to play: the *)
(* DSD probe and the capabilities built at startup (run_endpoint), their   *)
(* announcement over mDNS and its reading by a controller, the proposals   *)
(* of a session with the device they open, and the preparation of the next *)
(* track.  One exchange ends before the next begins; exchanges that        *)
(* overlap, and releases, are in the modules Endpoint and Playback.        *)
(*                                                                         *)
(* An Option is a set with at most one element.                            *)
(***************************************************************************)
EXTENDS Integers, Sequences, FiniteSets, FiniteSetsExt

CONSTANTS
  MaxRates,    \* configured pcm_max_rate
  MaxBits,     \* configured pcm_max_bits
  DsdRates,    \* sets of DSD_U32_BE rates a device may accept
  Names,       \* kinds of configured device name
  Formats,     \* formats proposed
  Rates,       \* PCM sample rates proposed
  Depths,      \* bits per sample proposed
  Channels     \* channels proposed

Pcm == {"S16LE", "S24LE", "S24LE4", "S32LE", "F32LE"}
Dsd == {"DSD_U8", "DSD_U16LE", "DSD_U32LE"}
Compressed == {"FLAC", "OPUS"}
Bitstream == {"TRUEHD", "EAC3"}
AudioFormat == Pcm \cup Dsd \cup Compressed \cup Bitstream

ASSUME NegotiationAssumption ==
  /\ MaxRates \cup MaxBits \cup Rates \cup Depths \cup Channels \subseteq Nat \ {0}
  /\ \A r \in MaxRates : r >= 48000
  /\ Formats \subseteq AudioFormat
  /\ Names \subseteq {"none", "hw", "plughw", "sysdefault", "default", "aplay", "other"}

VARIABLES
  cfg,      \* CapabilitiesSection, with the dsd switch
  dac,      \* the device: its configured name, its DSD rates, whether it is there
  caps,     \* EndpointCapabilities: an Option, None before startup
  seen,     \* what a controller discovered: an Option
  current,  \* current_format and current_sample_rate: an Option
  running,  \* what the output is configured with: an Option
  offer,    \* the last proposal: an Option
  counter,  \* the counter-proposal made to it: an Option
  answers,  \* what was written to the controller about the last message
  step,     \* ghost: the last message
  failed    \* ghost: a reconfiguration failed since the last proposal

vars == <<cfg, dac, caps, seen, current, running, offer, counter, answers, step, failed>>

-----------------------------------------------------------------------------
(* Startup: the device's name, the DSD probe, the announcement. *)

ResolveDeviceName(name) ==
  CASE name \in {"hw", "plughw", "sysdefault", "default"} -> name
    [] name = "aplay" -> "plughw"
    [] name \in {"none", "other"} -> "default"

DsdHwDevice(device) == IF device = "default" THEN device ELSE "hw"

DSD_MULTIPLIERS == <<64, 128, 256, 512>>

DsdU32Rate(m) == (m * 44100) \div 32

(* None: the device opens but refuses DSD, or does not open. *)
ProbeDsdRates(rates) ==
  IF dac.present /\ dac.dsd # {} THEN {rates \cap dac.dsd} ELSE {}

(* Faulty variant: the highest rate accepted, whatever the lower ones. *)
AnnouncedDsdMaxHighest(name) ==
  LET Accepts(m) == \E acc \in ProbeDsdRates({DsdU32Rate(k) : k \in Range(DSD_MULTIPLIERS)}) : DsdU32Rate(m) \in acc
      ok == {m \in Range(DSD_MULTIPLIERS) : Accepts(m)}
  IN  IF DsdHwDevice(ResolveDeviceName(name)) # "hw" \/ ok = {} THEN {} ELSE {Max(ok)}

AnnouncedDsdMax(name) ==
  LET device == DsdHwDevice(ResolveDeviceName(name))
      rates == {DsdU32Rate(m) : m \in Range(DSD_MULTIPLIERS)}
      Taken(i) == \E acc \in ProbeDsdRates(rates) :
                    \A j \in 1..i : DsdU32Rate(DSD_MULTIPLIERS[j]) \in acc
      last == {i \in 1..4 : Taken(i)}
  IN  IF device # "hw" \/ last = {} THEN {} ELSE {DSD_MULTIPLIERS[Max(last)]}

EndpointCapabilities(dsdMax) ==
  [pcm_max_rate |-> cfg.pcm_max_rate,
   pcm_max_bits |-> cfg.pcm_max_bits,
   dsd_max_rate |-> dsdMax,
   channels_max |-> cfg.channels_max,
   formats |-> {"S16LE", "S24LE", "S32LE"}
               \cup (IF cfg.flac THEN {"FLAC"} ELSE {})
               \cup (IF dsdMax # {} THEN Dsd ELSE {})]

Flags == {"flac", "opus", "truehd", "eac3"}

(* The caps string, as the sequence of its comma-separated parts. *)
Display(c) ==
  LET Flag(f) == IF f \in c.flags THEN << <<f>> >> ELSE <<>>
  IN  << <<"pcm", c.khz, c.bits>> >>
      \o (IF c.dsd = {} THEN <<>> ELSE << <<"dsd", Max(c.dsd)>> >>)
      \o Flag("flac") \o Flag("opus") \o Flag("truehd") \o Flag("eac3")

(* The last part of a kind counts, unknown ones are skipped; a rate is needed. *)
Parse(txt) ==
  LET Of(kind) == {i \in DOMAIN txt : txt[i][1] = kind}
      Last(kind) == {i \in Of(kind) : \A j \in Of(kind) : j <= i}
  IN  {[khz |-> txt[i][2], bits |-> txt[i][3],
        dsd |-> {txt[d][2] : d \in Last("dsd")},
        flags |-> {f \in Flags : Of(f) # {}}] : i \in {i \in Last("pcm") : txt[i][2] # 0}}

MdnsCaps(c) ==
  [khz |-> c.pcm_max_rate \div 1000, bits |-> c.pcm_max_bits, dsd |-> c.dsd_max_rate,
   flags |-> IF cfg.flac THEN {"flac"} ELSE {}]

Init ==
  /\ cfg \in [pcm_max_rate : MaxRates, pcm_max_bits : MaxBits, channels_max : {2},
              dsd : BOOLEAN, flac : BOOLEAN]
  /\ dac \in [name : Names, dsd : DsdRates, present : BOOLEAN]
  /\ caps = {} /\ seen = {} /\ current = {} /\ running = {} /\ offer = {} /\ counter = {}
  /\ answers = <<>> /\ step = "none" /\ failed = FALSE

Startup ==
  /\ caps = {}
  /\ caps' = {EndpointCapabilities(IF cfg.dsd THEN AnnouncedDsdMax(dac.name) ELSE {})}
  /\ UNCHANGED <<cfg, dac, seen, current, running, offer, counter, answers, step, failed>>

(* The TXT record the endpoint registers. *)
Announcement(c) == [caps |-> Display(MdnsCaps(c)), ch |-> c.channels_max]

(* An endpoint whose caps do not parse is found without them. *)
ParseEndpoint(txt) == [caps |-> Parse(txt.caps), ch |-> txt.ch]

Discover ==
  /\ seen = {}
  /\ \E c \in caps : seen' = {ParseEndpoint(Announcement(c))}
  /\ UNCHANGED <<cfg, dac, caps, current, running, offer, counter, answers, step, failed>>

(* The device is unplugged, plugged in, taken or freed. *)
PlugOrUnplug ==
  /\ dac' = [dac EXCEPT !.present = ~@]
  /\ UNCHANGED <<cfg, caps, seen, current, running, offer, counter, answers, step, failed>>

-----------------------------------------------------------------------------
(* A proposal. *)

Families == {{44100, 88200, 176400, 352800, 705600}, {48000, 96000, 192000, 384000, 768000}}
SampleRateFamily(rate) == {f \in Families : rate \in f}

BestRateInFamily(proposed, max) ==
  IF SampleRateFamily(proposed) = {} THEN max
  ELSE LET rates == UNION SampleRateFamily(proposed)
           fits == {r \in rates : r <= max}
       IN  IF fits = {} THEN Min(rates) ELSE Max(fits)

Verdict(type, fp) == [type |-> type, fp |-> fp]

(* Faulty variant: the depth is countered only when the rate is fine. *)
NegotiateFormatOneAtATime(c, fp) ==
  LET rateOk == fp.rate <= c.pcm_max_rate
      bitsOk == fp.bits <= c.pcm_max_bits
      dsdRate == IF fp.dsd = {} THEN 64 ELSE Max(fp.dsd)
  IN  CASE fp.format \notin c.formats -> Verdict("reject", fp)
        [] fp.format \in c.formats \cap Pcm ->
             IF rateOk /\ bitsOk THEN Verdict("accept", fp)
             ELSE Verdict("counter",
                    [fp EXCEPT !.rate = IF rateOk THEN @ ELSE BestRateInFamily(@, c.pcm_max_rate),
                               !.bits = IF bitsOk \/ ~rateOk THEN @ ELSE c.pcm_max_bits])
        [] fp.format \in c.formats \cap Dsd ->
             Verdict(IF \E m \in c.dsd_max_rate : dsdRate <= m THEN "accept" ELSE "reject", fp)
        [] OTHER -> Verdict("accept", fp)

NegotiateFormat(c, fp) ==
  LET rateOk == fp.rate <= c.pcm_max_rate
      bitsOk == fp.bits <= c.pcm_max_bits
      dsdRate == IF fp.dsd = {} THEN 64 ELSE Max(fp.dsd)
  IN  CASE fp.format \notin c.formats -> Verdict("reject", fp)
        [] fp.format \in c.formats \cap Pcm ->
             IF rateOk /\ bitsOk THEN Verdict("accept", fp)
             ELSE Verdict("counter",
                    [fp EXCEPT !.rate = IF rateOk THEN @ ELSE BestRateInFamily(@, c.pcm_max_rate),
                               !.bits = IF bitsOk THEN @ ELSE c.pcm_max_bits])
        [] fp.format \in c.formats \cap Dsd ->
             Verdict(IF \E m \in c.dsd_max_rate : dsdRate <= m THEN "accept" ELSE "reject", fp)
        [] OTHER -> Verdict("accept", fp)

(* The rate the device is opened with: an Option. *)
AlsaRate(format, rate) ==
  CASE format \in Pcm \cup {"FLAC"} -> {rate}
    [] format = "DSD_U8" -> {rate \div 32}
    [] format = "DSD_U16LE" -> {rate \div 16}
    [] format = "DSD_U32LE" -> {rate}
    [] OTHER -> {}

(* The output opens the device when it is configured: PCM through any name, *)
(* DSD only through a hw: one and at a rate the device accepts.             *)
Opens(format, rate) ==
  /\ dac.present
  /\ \E r \in AlsaRate(format, rate) :
       format \in Dsd => DsdHwDevice(ResolveDeviceName(dac.name)) = "hw" /\ r \in dac.dsd

Stream(format, rate, channels) == [format |-> format, rate |-> rate, channels |-> channels]

(* configure_with_device: the old stream is stopped first. *)
Configured(format, rate, channels) ==
  IF Opens(format, rate) THEN {Stream(format, rate, channels)} ELSE {}

(* The transport answers a counter or a reject at once and holds an accept  *)
(* for the application, which sets the device up whatever the verdict and   *)
(* posts its own answer.                                                    *)
HandlePropose(c, fp) ==
  LET v == NegotiateFormat(c, fp)
      device == IF Opens(fp.format, fp.rate) THEN "accept" ELSE "reject"
  IN  /\ offer' = {fp}
      /\ counter' = IF v.type = "counter" THEN {v.fp} ELSE {}
      /\ answers' = IF v.type = "accept" THEN <<device>> ELSE <<v.type, device>>
      /\ current' = IF v.type = "accept" THEN {<<fp.format, fp.rate>>} ELSE current
      /\ running' = Configured(fp.format, fp.rate, fp.channels)
      /\ failed' = FALSE
      /\ UNCHANGED <<cfg, dac, caps, seen>>

(* PCM and compressed streams carry no dsd_rate; a DSD stream is proposed   *)
(* with its multiplier and its bit rate.                                    *)
DsdProposal(format, m, ch) ==
  [format |-> format, rate |-> m * 44100, bits |-> 1, channels |-> ch, dsd |-> {m}]
Proposals ==
  [format : Formats \ Dsd, rate : Rates, bits : Depths, channels : Channels, dsd : {{}}]
  \cup {DsdProposal(f, m, ch) : f \in Formats \cap Dsd, m \in Range(DSD_MULTIPLIERS), ch \in Channels}

Propose ==
  /\ \E c \in caps, fp \in Proposals : HandlePropose(c, fp)
  /\ step' = "propose"

(* The controller proposes what the endpoint countered with. *)
TakeUpCounter ==
  /\ \E c \in caps, fp \in counter : HandlePropose(c, fp)
  /\ step' = "takeup"

-----------------------------------------------------------------------------
(* The next track.  The controller prepares one only behind a stream the    *)
(* endpoint agreed to.                                                      *)

Agreed == answers \in {<<"accept">>, <<"ready">>, <<"reformat">>}

(* Faulty variant: the sample rate is not compared. *)
SameFormatAnyRate(format, rate) == \E s \in current : s[1] = format

SameFormat(format, rate) == current = {<<format, rate>>}

PrepareNext ==
  /\ Agreed
  /\ \E fp \in Proposals :
       /\ offer' = {fp}
       /\ IF SameFormat(fp.format, fp.rate)
          THEN /\ answers' = <<"ready">>
               /\ UNCHANGED <<current, running, failed>>
          ELSE /\ answers' = <<"reformat">>
               /\ current' = {<<fp.format, fp.rate>>}
               /\ running' = Configured(fp.format, fp.rate, 2)
               /\ failed' = ~Opens(fp.format, fp.rate)
  /\ counter' = {} /\ step' = "next"
  /\ UNCHANGED <<cfg, dac, caps, seen>>

Next == Startup \/ Discover \/ PlugOrUnplug \/ Propose \/ TakeUpCounter \/ PrepareNext

Spec == Init /\ [][Next]_vars

-----------------------------------------------------------------------------
(* Properties. *)

(* Negotiation settles in one round: the endpoint does not counter its own   *)
(* counter-proposal, and refuses it only for a device that does not open     *)
(* (negotiate_format, best_rate_in_family).  And it loses as little as       *)
(* possible: the counter-proposal stays in the family of the proposed rate,  *)
(* and any rate of that family between the two is above what the endpoint    *)
(* can do.                                                                   *)
CounterSettles ==
  /\ step = "takeup" => answers = IF running # {} THEN <<"accept">> ELSE <<"reject">>
  /\ \A fp \in counter, old \in offer, c \in caps :
       LET family == UNION SampleRateFamily(old.rate)
       IN /\ family # {} => fp.rate \in family
          /\ \A r \in family : r <= c.pcm_max_rate /\ r <= old.rate => r <= fp.rate

(* A controller can rely on what it discovered.  Everything the mDNS text    *)
(* covers, as Capabilities::parse reads it, is within what negotiate_format  *)
(* accepts; and a DSD_U8 stream up to the announced multiplier opens on the  *)
(* device that was probed at startup, as long as it is there.                *)
AnnouncedPlays ==
  \A s \in seen, c \in caps :
    /\ s.caps # {}
    /\ \A k \in s.caps :
         /\ \A fp \in Proposals : fp.format \in {"S16LE", "S24LE", "S32LE"}
                                  /\ fp.rate <= 1000 * k.khz /\ fp.bits <= k.bits
              => NegotiateFormat(c, fp).type = "accept"
         /\ "flac" \in k.flags => "FLAC" \in c.formats
         /\ \A m \in Range(DSD_MULTIPLIERS), top \in k.dsd :
              m <= top => /\ NegotiateFormat(c, DsdProposal("DSD_U8", m, 2)).type = "accept"
                          /\ dac.present => Opens("DSD_U8", 44100 * m)

(* NextTrackReady is only said of a track that continues what the output is  *)
(* running: after any sequence of proposals, counter-proposals and reformats *)
(* behind which the controller was told of success, the device is open with  *)
(* the next track's format and rate.  A reformat that failed is left out,    *)
(* since the transport does not learn of it.                                 *)
ReadyIsGapless ==
  answers = <<"ready">> /\ ~failed =>
    \E s \in running, fp \in offer : s.format = fp.format /\ s.rate = fp.rate
=============================================================================
