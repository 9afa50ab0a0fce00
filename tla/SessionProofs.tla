---------------------------- MODULE SessionProofs ----------------------------
(***************************************************************************)
(* The control session, in two parts.  The negotiation of a format:        *)
(* CounterSettles, AnnouncedPlays and ReadyIsGapless for every maximum     *)
(* rate from 48 kHz, every depth, every set of DSD rates a device accepts  *)
(* and every sequence of proposals.  The C interface: the status a host    *)
(* reads is honest and a replaced callback is silent, for channels of any  *)
(* size and any number of sessions, messages and callbacks.                *)
(***************************************************************************)
EXTENDS Negotiation, Ffi, TLAPS

-----------------------------------------------------------------------------
(* The negotiation (module Negotiation). *)

Multipliers == {64, 128, 256, 512}

(* What was probed at startup: up to the multiplier announced the device     *)
(* accepts every rate.                                                       *)
Probed(d) ==
  /\ d \subseteq Multipliers /\ \A x, y \in d : x = y
  /\ d # {} => DsdHwDevice(ResolveDeviceName(dac.name)) = "hw"
  /\ \A top \in d : \A m \in Multipliers : m <= top => DsdU32Rate(m) \in dac.dsd

Started ==
  /\ cfg.pcm_max_rate \in MaxRates /\ cfg.pcm_max_bits \in MaxBits
  /\ dac \in [name : Names, dsd : DsdRates, present : BOOLEAN]
  /\ \A c \in caps : \E d \in SUBSET Multipliers : Probed(d) /\ c = EndpointCapabilities(d)
  /\ \A c1, c2 \in caps : c1 = c2
  /\ \A s \in seen : \E c \in caps : s = ParseEndpoint(Announcement(c))

Proposed(fp) ==
  /\ fp \in [format : AudioFormat, rate : Nat, bits : Nat, channels : Nat, dsd : SUBSET Nat]
  /\ fp.dsd = {} \/ \E m \in Nat : fp.dsd = {m}

(* The counter-proposal is what the proposal became. *)
Countered ==
  /\ counter # {} => offer # {} /\ caps # {}
  /\ \A fp \in counter, old \in offer, c \in caps :
       NegotiateFormat(c, old) = Verdict("counter", fp) /\ Proposed(old)

(* What was answered when it was taken up. *)
Settled ==
  step = "takeup" => answers = IF running # {} THEN <<"accept">> ELSE <<"reject">>

(* What was agreed is what the output runs. *)
Running ==
  Agreed /\ ~failed => \E s \in running : current = {<<s.format, s.rate>>}

(* What was said to continue is what was agreed. *)
Continues ==
  answers = <<"ready">> => \E fp \in offer : current = {<<fp.format, fp.rate>>}

NInv == Started /\ Countered /\ Settled /\ Running /\ Continues

-----------------------------------------------------------------------------
(* The operators. *)

(* The largest and the smallest of a set of numbers that has one.            *)
LEMMA MaxIs ==
  ASSUME NEW S \in SUBSET Int, NEW m \in S, \A x \in S : x <= m
  PROVE  Max(S) = m
<1>1. \A x \in S : m >= x OBVIOUS
<1>2. Max(S) \in S /\ \A y \in S : Max(S) >= y BY <1>1, Zenon DEF Max
<1>3. Max(S) >= m /\ m >= Max(S) BY <1>1, <1>2, Zenon
<1>4. Max(S) \in Int BY <1>2
<1> QED BY ONLY <1>3, <1>4, m \in Int

Ascending(a, b, c, d, e) ==
  /\ a \in Int /\ b \in Int /\ c \in Int /\ d \in Int /\ e \in Int
  /\ a < b /\ b < c /\ c < d /\ d < e

LEMMA MaxOfFive ==
  ASSUME NEW a, NEW b, NEW c, NEW d, NEW e, Ascending(a, b, c, d, e), NEW S \in SUBSET {a, b, c, d, e}, S # {}
  PROVE  Max(S) \in S /\ \A x \in S : x <= Max(S)
<1>1. \E m \in S : \A x \in S : x <= m
  <2> USE DEF Ascending
  <2>1. CASE e \in S BY <2>1
  <2>2. CASE e \notin S /\ d \in S BY <2>2
  <2>3. CASE e \notin S /\ d \notin S /\ c \in S BY <2>3
  <2>4. CASE e \notin S /\ d \notin S /\ c \notin S /\ b \in S BY <2>4
  <2>5. CASE e \notin S /\ d \notin S /\ c \notin S /\ b \notin S
    <3>1. a \in S BY <2>5
    <3> QED BY <2>5, <3>1
  <2> QED BY <2>1, <2>2, <2>3, <2>4, <2>5
<1>2. S \in SUBSET Int BY DEF Ascending
<1> QED BY <1>1, <1>2, MaxIs, Zenon

LEMMA MaxOfFour ==
  ASSUME NEW S \in SUBSET (1..4), S # {}
  PROVE  Max(S) \in S
<1>1. \E a, b, c, d, e \in Int : Ascending(a, b, c, d, e) /\ S \in SUBSET {a, b, c, d, e}
  <2>1. S \in SUBSET {1, 2, 3, 4, 5} /\ Ascending(1, 2, 3, 4, 5) BY SMT DEF Ascending
  <2> QED BY <2>1, SMT
<1>2. PICK a, b, c, d, e \in Int : Ascending(a, b, c, d, e) /\ S \in SUBSET {a, b, c, d, e} BY <1>1, Zenon
<1> QED BY <1>2, MaxOfFive, Zenon

LEMMA MultipliersAre ==
  /\ DSD_MULTIPLIERS \in [1..4 -> Multipliers] /\ Range(DSD_MULTIPLIERS) = Multipliers
  /\ DSD_MULTIPLIERS[1] = 64 /\ DSD_MULTIPLIERS[2] = 128
  /\ DSD_MULTIPLIERS[3] = 256 /\ DSD_MULTIPLIERS[4] = 512
<1>1. /\ DSD_MULTIPLIERS[1] = 64 /\ DSD_MULTIPLIERS[2] = 128
      /\ DSD_MULTIPLIERS[3] = 256 /\ DSD_MULTIPLIERS[4] = 512
  BY DEF DSD_MULTIPLIERS
<1>2. DOMAIN DSD_MULTIPLIERS = 1..4 BY DEF DSD_MULTIPLIERS
<1>3. \A i \in 1..4 : i = 1 \/ i = 2 \/ i = 3 \/ i = 4 OBVIOUS
<1>4. \A i \in 1..4 : DSD_MULTIPLIERS[i] \in Multipliers BY <1>1, <1>3 DEF Multipliers
<1>5. DSD_MULTIPLIERS \in [1..4 -> Multipliers]
  <2>1. DSD_MULTIPLIERS \in Seq(Int) BY DEF DSD_MULTIPLIERS
  <2>2. DSD_MULTIPLIERS = [i \in 1..4 |-> DSD_MULTIPLIERS[i]] BY <1>2, <2>1
  <2> QED BY <1>2, <1>4, <2>2
<1>6. Range(DSD_MULTIPLIERS) = Multipliers
  <2>1. 64 \in Range(DSD_MULTIPLIERS) /\ 128 \in Range(DSD_MULTIPLIERS)
        /\ 256 \in Range(DSD_MULTIPLIERS) /\ 512 \in Range(DSD_MULTIPLIERS)
    BY <1>1, <1>2 DEF Range
  <2> QED BY <1>2, <1>4, <2>1 DEF Range, Multipliers
<1> QED BY <1>1, <1>5, <1>6

(* The probe announces a multiplier only when all up to it were accepted.    *)
LEMMA ProbeIsHonest == Probed(AnnouncedDsdMax(dac.name)) /\ Probed({})
<1> DEFINE device == DsdHwDevice(ResolveDeviceName(dac.name))
           rates == {DsdU32Rate(m) : m \in Range(DSD_MULTIPLIERS)}
           Taken(i) == \E acc \in ProbeDsdRates(rates) :
                         \A j \in 1..i : DsdU32Rate(DSD_MULTIPLIERS[j]) \in acc
           last == {i \in 1..4 : Taken(i)}
           d == AnnouncedDsdMax(dac.name)
<1>1. d = IF device # "hw" \/ last = {} THEN {} ELSE {DSD_MULTIPLIERS[Max(last)]}
  BY DEF AnnouncedDsdMax
<1>2. Probed({}) BY DEF Probed
<1>3. ASSUME device = "hw", last # {} PROVE Probed(d)
  <2>1. last \in SUBSET (1..4) BY Zenon
  <2> HIDE DEF last, device
  <2>2. Max(last) \in last BY <1>3, <2>1, MaxOfFour, Zenon
  <2> DEFINE k == Max(last)
             top == DSD_MULTIPLIERS[k]
  <2>3. k \in 1..4 /\ Taken(k) BY <2>2 DEF last
  <2> HIDE DEF k
  <2>4. \A j \in 1..k : DsdU32Rate(DSD_MULTIPLIERS[j]) \in dac.dsd
    BY <2>3 DEF ProbeDsdRates
  <2>5. \A m \in Multipliers : m <= top => \E j \in 1..k : DSD_MULTIPLIERS[j] = m
    <3>1. k = 1 \/ k = 2 \/ k = 3 \/ k = 4 BY <2>3
    <3>2. ASSUME NEW m \in Multipliers, m <= top PROVE \E j \in 1..k : DSD_MULTIPLIERS[j] = m
      <4>1. CASE m = 64
        <5>1. 1 \in 1..k BY <3>1
        <5> QED BY <4>1, <5>1, MultipliersAre
      <4>2. CASE m = 128
        <5>1. 2 \in 1..k BY <3>1, <3>2, <4>2, MultipliersAre
        <5> QED BY <4>2, <5>1, MultipliersAre
      <4>3. CASE m = 256
        <5>1. 3 \in 1..k BY <3>1, <3>2, <4>3, MultipliersAre
        <5> QED BY <4>3, <5>1, MultipliersAre
      <4>4. CASE m = 512
        <5>1. 4 \in 1..k BY <3>1, <3>2, <4>4, MultipliersAre
        <5> QED BY <4>4, <5>1, MultipliersAre
      <4> QED BY <3>2, <4>1, <4>2, <4>3, <4>4 DEF Multipliers
    <3> QED BY <3>2
  <2>6. d = {top} BY <1>1, <1>3 DEF k
  <2>7. top \in Multipliers BY <2>3, MultipliersAre
  <2> HIDE DEF top, d
  <2>8. \A m \in Multipliers : m <= top => DsdU32Rate(m) \in dac.dsd BY <2>4, <2>5
  <2> QED BY <1>3, <2>6, <2>7, <2>8 DEF Probed, device
<1> HIDE DEF device, last
<1>4. CASE device # "hw" \/ last = {} BY <1>1, <1>2, <1>4
<1> QED BY <1>2, <1>3, <1>4

(* The rates of a family: the lowest is 48 kHz at most.                      *)
Lowest == 48000

Ladder(F) ==
  \E a, b, c, d, e \in Nat : /\ a < b /\ b < c /\ c < d /\ d < e /\ a <= Lowest
                             /\ F = {a, b, c, d, e}

FamilyA == {44100, 88200, 176400, 352800, 705600}
FamilyB == {48000, 96000, 192000, 384000, 768000}

LEMMA FamiliesAre ==
  /\ Families = {FamilyA, FamilyB} /\ FamilyA \cap FamilyB = {}
  /\ Ladder(FamilyA) /\ Ladder(FamilyB)
<1>1. Families = {FamilyA, FamilyB} BY SMT DEF Families, FamilyA, FamilyB
<1>2. FamilyA \cap FamilyB = {} BY SMT DEF FamilyA, FamilyB
<1>3. Ladder(FamilyA)
  <2>1. 44100 \in Nat /\ 88200 \in Nat /\ 176400 \in Nat /\ 352800 \in Nat /\ 705600 \in Nat
        /\ 44100 < 88200 /\ 88200 < 176400 /\ 176400 < 352800 /\ 352800 < 705600 /\ 44100 <= 48000
    BY SMT
  <2> QED BY <2>1, SMT DEF Ladder, FamilyA, Lowest
<1>4. Ladder(FamilyB)
  <2>1. 48000 \in Nat /\ 96000 \in Nat /\ 192000 \in Nat /\ 384000 \in Nat /\ 768000 \in Nat
        /\ 48000 < 96000 /\ 96000 < 192000 /\ 192000 < 384000 /\ 384000 < 768000 /\ 48000 <= 48000
    BY SMT
  <2> QED BY <2>1, SMT DEF Ladder, FamilyB, Lowest
<1> QED BY <1>1, <1>2, <1>3, <1>4

(* The best rate of a family under a maximum that one of them fits.          *)
LEMMA BestOfLadder ==
  ASSUME NEW F, Ladder(F), NEW max \in Nat, max >= Lowest
  PROVE  LET fits == {r \in F : r <= max}
         IN /\ F \subseteq Nat /\ fits # {} /\ Max(fits) \in fits
            /\ \A x \in fits : x <= Max(fits)
<1>1. PICK a \in Nat, b \in Nat, c \in Nat, d \in Nat, e \in Nat :
        /\ a < b /\ b < c /\ c < d /\ d < e /\ a <= Lowest
        /\ F = {a, b, c, d, e}
  BY DEF Ladder
<1> DEFINE fits == {r \in F : r <= max}
<1>2. a <= max
  <2>1. Lowest \in Nat BY SMT DEF Lowest
  <2> QED BY <1>1, <2>1, SMT
<1>3. fits \in SUBSET {a, b, c, d, e} /\ a \in fits BY <1>1, <1>2
<1> HIDE DEF fits
<1>4. Max(fits) \in fits /\ \A x \in fits : x <= Max(fits) 
  <2>1. Ascending(a, b, c, d, e) BY <1>1 DEF Ascending
  <2>2. fits # {} BY <1>3
  <2> QED BY <1>3, <2>1, <2>2, MaxOfFive, Zenon
<1>5. F \subseteq Nat BY <1>1
<1> QED BY <1>3, <1>4, <1>5 DEF fits

Best(old, max) ==
  LET family == UNION SampleRateFamily(old)
      best == BestRateInFamily(old, max)
  IN /\ best \in Nat /\ best <= max
     /\ family # {} => best \in family /\ old \in family
     /\ \A r \in family : r <= max => r <= best

LEMMA BestInFamily ==
  ASSUME NEW old \in Nat, NEW max \in Nat, max >= Lowest, NEW F, Ladder(F),
         SampleRateFamily(old) = {F}, old \in F
  PROVE  Best(old, max)
<1> DEFINE fits == {r \in F : r <= max}
<1>1. /\ F \subseteq Nat /\ fits # {} /\ Max(fits) \in fits
      /\ \A x \in fits : x <= Max(fits)
  BY BestOfLadder, Zenon
<1>2. UNION SampleRateFamily(old) = F /\ SampleRateFamily(old) # {} OBVIOUS
<1>3. BestRateInFamily(old, max) = Max(fits) BY <1>1, <1>2, Zenon DEF BestRateInFamily
<1>4. Max(fits) \in F /\ Max(fits) <= max BY <1>1, Zenon
<1>5. \A r \in F : r <= max => r <= Max(fits) BY <1>1, Zenon
<1> HIDE DEF fits
<1> QED BY <1>1, <1>2, <1>3, <1>4, <1>5 DEF Best

(* The counter-proposal's rate fits, and is the best that does.              *)
LEMMA BestRate ==
  ASSUME NEW old \in Nat, NEW max \in Nat, max >= Lowest
  PROVE  Best(old, max)
<1>1. CASE old \in FamilyA
  <2>1. SampleRateFamily(old) = {FamilyA} BY <1>1, FamiliesAre, Zenon DEF SampleRateFamily
  <2> QED BY <1>1, <2>1, FamiliesAre, BestInFamily
<1>2. CASE old \in FamilyB
  <2>1. SampleRateFamily(old) = {FamilyB} BY <1>2, FamiliesAre, Zenon DEF SampleRateFamily
  <2> QED BY <1>2, <2>1, FamiliesAre, BestInFamily
<1>3. CASE old \notin FamilyA /\ old \notin FamilyB
  <2>1. SampleRateFamily(old) = {} BY <1>3, FamiliesAre, Zenon DEF SampleRateFamily
  <2>2. BestRateInFamily(old, max) = max BY <2>1 DEF BestRateInFamily
  <2>3. UNION SampleRateFamily(old) = {} BY <2>1
  <2> QED BY <2>2, <2>3 DEF Best
<1> QED BY <1>1, <1>2, <1>3

-----------------------------------------------------------------------------
(* negotiate_format. *)

Able(c) ==
  /\ c.pcm_max_rate \in Nat /\ c.pcm_max_rate >= Lowest /\ c.pcm_max_bits \in Nat

LEMMA FormatsApart == Pcm \cap Dsd = {}
BY DEF Pcm, Dsd

LEMMA PcmVerdict ==
  ASSUME NEW c, NEW fp, fp.format \in c.formats, fp.format \in Pcm
  PROVE  NegotiateFormat(c, fp) =
           IF fp.rate <= c.pcm_max_rate /\ fp.bits <= c.pcm_max_bits THEN Verdict("accept", fp)
           ELSE Verdict("counter",
                  [fp EXCEPT !.rate = IF fp.rate <= c.pcm_max_rate THEN @
                                      ELSE BestRateInFamily(@, c.pcm_max_rate),
                             !.bits = IF fp.bits <= c.pcm_max_bits THEN @ ELSE c.pcm_max_bits])
BY FormatsApart DEF NegotiateFormat

LEMMA DsdVerdict ==
  ASSUME NEW c, NEW fp, fp.format \in c.formats, fp.format \in Dsd, NEW m \in Nat, fp.dsd = {m}
  PROVE  NegotiateFormat(c, fp) =
           Verdict(IF \E k \in c.dsd_max_rate : m <= k THEN "accept" ELSE "reject", fp)
<1>1. Max({m}) = m BY MaxIs
<1>2. fp.dsd # {} BY Zenon
<1> QED BY <1>1, <1>2, FormatsApart DEF NegotiateFormat

(* Only PCM is countered. *)
LEMMA CounteredIsPcm ==
  ASSUME NEW c, NEW fp, NegotiateFormat(c, fp).type = "counter"
  PROVE  fp.format \in c.formats /\ fp.format \in Pcm
BY DEF NegotiateFormat, Verdict

LEMMA VerdictIs ==
  ASSUME NEW c, NEW fp, NEW v, v = NegotiateFormat(c, fp)
  PROVE  v.type \in {"accept", "counter", "reject"} /\ v = Verdict(v.type, v.fp)
BY DEF NegotiateFormat, Verdict

-----------------------------------------------------------------------------
(* The caps string. *)

Part ==
  {<<"pcm", k, b>> : k \in Nat, b \in Nat} \cup {<<"dsd", m>> : m \in Nat} \cup {<<f>> : f \in Flags}

(* A text of at most n parts, which are those of S. *)
Text(s, n, S) ==
  /\ s \in Seq(Part) /\ Len(s) <= n
  /\ \A i \in 1..Len(s) : s[i] \in S
  /\ \A p \in S : \E i \in 1..Len(s) : s[i] = p

LEMMA TextEmpty == Text(<<>>, 1, {})
BY DEF Text

LEMMA TextOne ==
  ASSUME NEW p \in Part
  PROVE  Text(<<p>>, 1, {p})
BY DEF Text

LEMMA TextConcat ==
  ASSUME NEW s, NEW t, NEW n \in Nat, NEW m \in Nat, NEW S, NEW T, Text(s, n, S), Text(t, m, T)
  PROVE  Text(s \o t, n + m, S \cup T)
<1>1. /\ s \in Seq(Part) /\ t \in Seq(Part) /\ Len(s) \in Nat /\ Len(t) \in Nat
      /\ Len(s) <= n /\ Len(t) <= m
  BY DEF Text
<1> DEFINE u == s \o t
<1>2. u \in Seq(Part) /\ Len(u) = Len(s) + Len(t) BY <1>1
<1>3. \A i \in 1..Len(s) : i \in 1..Len(u) /\ u[i] = s[i] BY <1>1
<1>4. \A i \in 1..Len(t) : Len(s) + i \in 1..Len(u) /\ u[Len(s) + i] = t[i] BY <1>1
<1>5. ASSUME NEW i \in 1..Len(u) PROVE u[i] \in S \cup T
  <2>1. CASE i <= Len(s)
    <3>1. i \in 1..Len(s) BY <1>1, <1>2, <2>1
    <3> QED BY <1>3, <3>1 DEF Text
  <2>2. CASE i > Len(s)
    <3>1. i - Len(s) \in 1..Len(t) /\ Len(s) + (i - Len(s)) = i BY <1>1, <1>2, <2>2
    <3>2. u[i] = t[i - Len(s)] BY <1>4, <3>1
    <3> QED BY <3>1, <3>2 DEF Text
  <2> QED BY <1>1, <1>2, <2>1, <2>2
<1>6. ASSUME NEW p \in S \cup T PROVE \E i \in 1..Len(u) : u[i] = p
  BY <1>3, <1>4 DEF Text
<1>7. Len(u) <= n + m BY <1>1, <1>2
<1> HIDE DEF u
<1> QED BY <1>2, <1>5, <1>6, <1>7 DEF Text, u

(* One of a few positions is the last. *)
LEMMA LastOfSix ==
  ASSUME NEW S \in SUBSET (1..6), S # {}
  PROVE  \E m \in S : \A x \in S : x <= m
<1>1. CASE 6 \in S BY <1>1
<1>2. CASE 6 \notin S /\ 5 \in S BY <1>2
<1>3. CASE 6 \notin S /\ 5 \notin S /\ 4 \in S BY <1>3
<1>4. CASE 6 \notin S /\ 5 \notin S /\ 4 \notin S /\ 3 \in S BY <1>4
<1>5. CASE 6 \notin S /\ 5 \notin S /\ 4 \notin S /\ 3 \notin S /\ 2 \in S BY <1>5
<1>6. CASE 6 \notin S /\ 5 \notin S /\ 4 \notin S /\ 3 \notin S /\ 2 \notin S
  <2>1. \A x \in S : x = 1 BY <1>6
  <2>2. 1 \in S BY <2>1, Zenon
  <2>3. \A x \in S : x <= 1 BY <2>1
  <2> QED BY <2>2, <2>3, Zenon
<1> QED BY <1>1, <1>2, <1>3, <1>4, <1>5, <1>6

Capability ==
  {c \in [khz : Nat \ {0}, bits : Nat, dsd : SUBSET Nat, flags : SUBSET Flags] :
     c.dsd = {} \/ \E m \in Nat : c.dsd = {m}}

PartsOf(c) ==
  {<<"pcm", c.khz, c.bits>>} \cup {<<"dsd", m>> : m \in c.dsd} \cup {<<f>> : f \in c.flags}

(* A part is told by its kind. *)
LEMMA PartKinds ==
  ASSUME NEW c \in Capability, NEW p \in PartsOf(c)
  PROVE  /\ p[1] = "pcm" => p = <<"pcm", c.khz, c.bits>>
         /\ p[1] = "dsd" => \E m \in c.dsd : p = <<"dsd", m>>
         /\ \A f \in Flags : p[1] = f => f \in c.flags
<1>1. "pcm" \notin Flags /\ "dsd" \notin Flags /\ c.flags \subseteq Flags BY DEF Flags, Capability
<1>2. CASE p = <<"pcm", c.khz, c.bits>>
  <2>1. p[1] = "pcm" BY <1>2
  <2>2. "pcm" # "dsd" OBVIOUS
  <2> QED BY <1>1, <1>2, <2>1, <2>2, Zenon
<1>3. CASE \E m \in c.dsd : p = <<"dsd", m>>
  <2>1. p[1] = "dsd" BY <1>3
  <2>2. "pcm" # "dsd" OBVIOUS
  <2> QED BY <1>1, <1>3, <2>1, <2>2, Zenon
<1>4. CASE \E f \in c.flags : p = <<f>>
  <2>1. p[1] \in c.flags BY <1>4
  <2> QED BY <1>1, <2>1, Zenon
<1>5. p \in {<<"pcm", c.khz, c.bits>>} \/ p \in {<<"dsd", m>> : m \in c.dsd} \/ p \in {<<f>> : f \in c.flags}
  BY Zenon DEF PartsOf
<1> QED BY <1>2, <1>3, <1>4, <1>5

(* What is written. *)
LEMMA DisplayIs ==
  ASSUME NEW c \in Capability
  PROVE  Text(Display(c), 6, PartsOf(c))
<1> DEFINE Flag(f) == IF f \in c.flags THEN << <<f>> >> ELSE <<>>
           has(f) == IF f \in c.flags THEN {<<f>>} ELSE {}
           P == << <<"pcm", c.khz, c.bits>> >>
           D == IF c.dsd = {} THEN <<>> ELSE << <<"dsd", Max(c.dsd)>> >>
           dsd == {<<"dsd", m>> : m \in c.dsd}
           pcm == {<<"pcm", c.khz, c.bits>>}
<1>1. Text(P, 1, pcm)
  <2>1. <<"pcm", c.khz, c.bits>> \in Part BY DEF Part, Capability
  <2> QED BY <2>1, TextOne, Zenon
<1>2. Text(D, 1, dsd)
  <2>1. CASE c.dsd = {}
    <3>1. dsd = {} /\ D = <<>> BY <2>1, Zenon
    <3> QED BY <3>1, TextEmpty, Zenon
  <2>2. CASE c.dsd # {}
    <3>1. PICK m \in Nat : c.dsd = {m} BY <2>2 DEF Capability
    <3>2. Max(c.dsd) = m BY <3>1, MaxIs
    <3>3. D = << <<"dsd", m>> >> /\ dsd = {<<"dsd", m>>} BY <2>2, <3>1, <3>2
    <3>4. <<"dsd", m>> \in Part BY DEF Part
    <3> QED BY <3>3, <3>4, TextOne, Zenon
  <2> QED BY <2>1, <2>2
<1>3. \A f \in Flags : Text(Flag(f), 1, has(f))
  <2> SUFFICES ASSUME NEW f \in Flags PROVE Text(Flag(f), 1, has(f)) BY Zenon
  <2>1. <<f>> \in Part BY DEF Part
  <2>2. CASE f \in c.flags
    <3>1. Flag(f) = << <<f>> >> /\ has(f) = {<<f>>} BY <2>2
    <3> QED BY <2>1, <3>1, TextOne, Zenon
  <2>3. CASE f \notin c.flags
    <3>1. Flag(f) = <<>> /\ has(f) = {} BY <2>3
    <3> QED BY <3>1, TextEmpty, Zenon
  <2> QED BY <2>2, <2>3
<1>4. "flac" \in Flags /\ "opus" \in Flags /\ "truehd" \in Flags /\ "eac3" \in Flags BY DEF Flags
<1>5. Display(c) = P \o D \o Flag("flac") \o Flag("opus") \o Flag("truehd") \o Flag("eac3")
  BY Zenon DEF Display
<1>6. pcm \cup dsd \cup has("flac") \cup has("opus") \cup has("truehd") \cup has("eac3") = PartsOf(c)
  <2>1. has("flac") \cup has("opus") \cup has("truehd") \cup has("eac3") = {<<f>> : f \in c.flags}
    BY DEF Capability, Flags
  <2> HIDE DEF has
  <2> QED BY <2>1 DEF PartsOf
<1> HIDE DEF Flag, has, P, D, dsd, pcm
<1>7. Text(P \o D, 2, pcm \cup dsd)
  <2>1. Text(P \o D, 1 + 1, pcm \cup dsd) BY <1>1, <1>2, TextConcat
  <2> QED BY <2>1
<1>8. Text(P \o D \o Flag("flac"), 3, pcm \cup dsd \cup has("flac"))
  <2>1. Text(P \o D \o Flag("flac"), 2 + 1, pcm \cup dsd \cup has("flac")) BY <1>3, <1>4, <1>7, TextConcat
  <2> QED BY <2>1
<1>9. Text(P \o D \o Flag("flac") \o Flag("opus"), 4, pcm \cup dsd \cup has("flac") \cup has("opus"))
  <2>1. Text(P \o D \o Flag("flac") \o Flag("opus"), 3 + 1, pcm \cup dsd \cup has("flac") \cup has("opus"))
    BY <1>3, <1>4, <1>8, TextConcat
  <2> QED BY <2>1
<1>10. Text(P \o D \o Flag("flac") \o Flag("opus") \o Flag("truehd"), 5,
            pcm \cup dsd \cup has("flac") \cup has("opus") \cup has("truehd"))
  <2>1. Text(P \o D \o Flag("flac") \o Flag("opus") \o Flag("truehd"), 4 + 1,
            pcm \cup dsd \cup has("flac") \cup has("opus") \cup has("truehd"))
    BY <1>3, <1>4, <1>9, TextConcat
  <2> QED BY <2>1
<1>11. Text(P \o D \o Flag("flac") \o Flag("opus") \o Flag("truehd") \o Flag("eac3"), 6,
            pcm \cup dsd \cup has("flac") \cup has("opus") \cup has("truehd") \cup has("eac3"))
  <2>1. Text(P \o D \o Flag("flac") \o Flag("opus") \o Flag("truehd") \o Flag("eac3"), 5 + 1,
            pcm \cup dsd \cup has("flac") \cup has("opus") \cup has("truehd") \cup has("eac3"))
    BY <1>3, <1>4, <1>10, TextConcat
  <2> QED BY <2>1
<1> QED BY <1>5, <1>6, <1>11, Zenon

(* Capabilities::parse reads back what Display wrote, whatever the           *)
(* capabilities announced.                                                   *)
THEOREM CapsRoundTrip ==
  ASSUME NEW c \in Capability
  PROVE  Parse(Display(c)) = {c}
<1> DEFINE txt == Display(c)
           Of(kind) == {i \in DOMAIN txt : txt[i][1] = kind}
           Last(kind) == {i \in Of(kind) : \A j \in Of(kind) : j <= i}
           pcm == <<"pcm", c.khz, c.bits>>
           read(i) == [khz |-> txt[i][2], bits |-> txt[i][3],
                       dsd |-> {txt[d][2] : d \in Last("dsd")},
                       flags |-> {f \in Flags : Of(f) # {}}]
<1>1. Parse(txt) = {read(i) : i \in {i \in Last("pcm") : txt[i][2] # 0}}
  BY Zenon DEF Parse
<1> HIDE DEF txt
<1>2. /\ DOMAIN txt = 1..Len(txt) /\ 1..Len(txt) \subseteq 1..6
      /\ \A i \in DOMAIN txt : txt[i] \in PartsOf(c)
      /\ \A p \in PartsOf(c) : \E i \in DOMAIN txt : txt[i] = p
  BY DisplayIs DEF Text, txt
<1>3. \A i \in Of("pcm") : txt[i] = pcm BY <1>2, PartKinds, Zenon
<1>4. \A i \in Of("dsd") : \E m \in c.dsd : txt[i] = <<"dsd", m>> BY <1>2, PartKinds, Zenon
<1>5. \A f \in Flags : Of(f) # {} <=> f \in c.flags
  <2> TAKE f \in Flags
  <2>1. ASSUME NEW i \in Of(f) PROVE f \in c.flags
    BY <1>2, <2>1, PartKinds, Zenon
  <2>2. ASSUME f \in c.flags PROVE Of(f) # {}
    <3>1. <<f>> \in PartsOf(c) BY <2>2 DEF PartsOf
    <3>2. PICK i \in DOMAIN txt : txt[i] = <<f>> BY <1>2, <3>1
    <3> QED BY <3>2
  <2> QED BY <2>1, <2>2
<1>6. \A kind : Of(kind) # {} => Last(kind) # {}
  <2> SUFFICES ASSUME NEW kind, Of(kind) # {} PROVE Last(kind) # {}
    OBVIOUS
  <2>1. Of(kind) \in SUBSET (1..6) BY <1>2
  <2> HIDE DEF Of
  <2>2. \E m \in Of(kind) : \A x \in Of(kind) : x <= m BY <2>1, LastOfSix
  <2> QED BY <2>2
<1>7. Of("pcm") # {}
  <2>1. pcm \in PartsOf(c) BY DEF PartsOf
  <2>2. PICK i \in DOMAIN txt : txt[i] = pcm BY <1>2, <2>1
  <2> QED BY <2>2
<1>8. {txt[d][2] : d \in Last("dsd")} = c.dsd
  <2>1. CASE c.dsd = {} BY <1>4, <2>1
  <2>2. CASE c.dsd # {}
    <3>1. PICK m \in Nat : c.dsd = {m} BY <2>2 DEF Capability
    <3>2. <<"dsd", m>> \in PartsOf(c) BY <3>1 DEF PartsOf
    <3>3. PICK i \in DOMAIN txt : txt[i] = <<"dsd", m>> BY <1>2, <3>2
    <3>4. Last("dsd") # {}
      <4>1. Of("dsd") # {} BY <3>3
      <4> QED BY <1>6, <4>1
    <3>5. \A d \in Last("dsd") : txt[d][2] = m BY <1>4, <3>1
    <3> HIDE DEF Last
    <3> QED BY <3>1, <3>4, <3>5
  <2> QED BY <2>1, <2>2
<1>9. {f \in Flags : Of(f) # {}} = c.flags
  <2> HIDE DEF Of
  <2> QED BY <1>5 DEF Capability
<1>10. Last("pcm") # {} BY <1>6, <1>7, Zenon
<1>11. \A i \in Last("pcm") : txt[i][2] = c.khz /\ txt[i][3] = c.bits BY <1>3
<1>12. c = [khz |-> c.khz, bits |-> c.bits, dsd |-> c.dsd, flags |-> c.flags] /\ c.khz # 0
  BY DEF Capability
<1> HIDE DEF Of, Last
<1>13. \A i \in Last("pcm") : read(i) = c /\ txt[i][2] # 0
  BY <1>8, <1>9, <1>11, <1>12
<1> HIDE DEF read
<1>14. {read(i) : i \in {i \in Last("pcm") : txt[i][2] # 0}} = {c}
  BY <1>10, <1>13, Zenon
<1> QED BY <1>1, <1>14, Zenon DEF txt

-----------------------------------------------------------------------------
(* What the endpoint has and what it is offered. *)

LEMMA CapsAre ==
  ASSUME Started, NEW c \in caps
  PROVE  /\ Able(c) /\ c.pcm_max_rate = cfg.pcm_max_rate /\ c.pcm_max_bits = cfg.pcm_max_bits
         /\ {"S16LE", "S24LE", "S32LE"} \subseteq c.formats
         /\ cfg.flac => "FLAC" \in c.formats
         /\ Probed(c.dsd_max_rate)
         /\ c.dsd_max_rate # {} => Dsd \subseteq c.formats
<1>1. PICK d \in SUBSET Multipliers : Probed(d) /\ c = EndpointCapabilities(d)
  BY Zenon DEF Started
<1>2. /\ c.pcm_max_rate = cfg.pcm_max_rate /\ c.pcm_max_bits = cfg.pcm_max_bits
      /\ c.dsd_max_rate = d
      /\ c.formats = {"S16LE", "S24LE", "S32LE"}
                     \cup (IF cfg.flac THEN {"FLAC"} ELSE {})
                     \cup (IF d # {} THEN Dsd ELSE {})
  BY <1>1 DEF EndpointCapabilities
<1>3. cfg.pcm_max_rate \in MaxRates /\ cfg.pcm_max_bits \in MaxBits BY Zenon DEF Started
<1>4. Able(c) BY <1>2, <1>3, NegotiationAssumption, SMT DEF Able, Lowest
<1> QED BY <1>1, <1>2, <1>4, Zenon

LEMMA DsdProposalIs ==
  ASSUME NEW f \in AudioFormat, NEW m \in Nat, NEW ch \in Nat
  PROVE  Proposed(DsdProposal(f, m, ch))
BY SMT DEF DsdProposal, Proposed

LEMMA ConstantsAre ==
  /\ Rates \subseteq Nat /\ Depths \subseteq Nat /\ Channels \subseteq Nat
  /\ Formats \subseteq AudioFormat
BY NegotiationAssumption, SMT

LEMMA ProposalsAre ==
  ASSUME NEW fp \in Proposals
  PROVE  Proposed(fp)
<1>1. CASE fp \in [format : Formats \ Dsd, rate : Rates, bits : Depths, channels : Channels, dsd : {{}}]
  <2>1. /\ Formats \ Dsd \subseteq AudioFormat /\ Rates \subseteq Nat /\ Depths \subseteq Nat
        /\ Channels \subseteq Nat
    BY ConstantsAre, Zenon
  <2> QED BY <1>1, <2>1 DEF Proposed
<1>2. CASE fp \in {DsdProposal(f, m, ch) : f \in Formats \cap Dsd, m \in Range(DSD_MULTIPLIERS), ch \in Channels}
  <2>1. PICK f \in Formats \cap Dsd, m \in Range(DSD_MULTIPLIERS), ch \in Channels : fp = DsdProposal(f, m, ch)
    BY <1>2
  <2>2. f \in AudioFormat /\ ch \in Nat BY ConstantsAre, Zenon
  <2>3. m \in Nat BY MultipliersAre DEF Multipliers
  <2> QED BY <2>1, <2>2, <2>3, DsdProposalIs, Zenon
<1> QED BY <1>1, <1>2, SMT DEF Proposals

CounterTo(c, old, fp) ==
  /\ fp.format \in c.formats /\ fp.format \in Pcm
  /\ fp.rate = IF old.rate <= c.pcm_max_rate THEN old.rate
               ELSE BestRateInFamily(old.rate, c.pcm_max_rate)
  /\ fp.bits = IF old.bits <= c.pcm_max_bits THEN old.bits ELSE c.pcm_max_bits

(* A counter-proposal is acceptable to the endpoint that makes it. *)
LEMMA CounterAcceptable ==
  ASSUME NEW c, NEW old, NEW fp, Able(c), Proposed(old),
         NegotiateFormat(c, old) = Verdict("counter", fp)
  PROVE  CounterTo(c, old, fp) /\ NegotiateFormat(c, fp) = Verdict("accept", fp)
<1>1. old.format \in c.formats /\ old.format \in Pcm BY CounteredIsPcm DEF Verdict
<1> DEFINE new == [old EXCEPT !.rate = IF old.rate <= c.pcm_max_rate THEN @
                                       ELSE BestRateInFamily(@, c.pcm_max_rate),
                              !.bits = IF old.bits <= c.pcm_max_bits THEN @ ELSE c.pcm_max_bits]
<1>2. fp = new
  <2>1. NegotiateFormat(c, old) = IF old.rate <= c.pcm_max_rate /\ old.bits <= c.pcm_max_bits
                                  THEN Verdict("accept", old) ELSE Verdict("counter", new)
    BY <1>1, PcmVerdict, Zenon
  <2> HIDE DEF new
  <2> QED BY <2>1 DEF Verdict
<1>3. CounterTo(c, old, fp)
  <2>1. old \in [format : AudioFormat, rate : Nat, bits : Nat, channels : Nat, dsd : SUBSET Nat]
    BY Zenon DEF Proposed
  <2> QED BY <1>1, <1>2, <2>1 DEF CounterTo
<1>4. fp.rate <= c.pcm_max_rate /\ fp.bits <= c.pcm_max_bits
  <2>1. old.rate \in Nat /\ old.bits \in Nat BY DEF Proposed
  <2>2. Best(old.rate, c.pcm_max_rate) BY <2>1, BestRate, Zenon DEF Able
  <2>3. BestRateInFamily(old.rate, c.pcm_max_rate) <= c.pcm_max_rate BY <2>2, Zenon DEF Best
  <2> QED BY <1>3, <2>1, <2>3 DEF CounterTo, Able
<1>5. NegotiateFormat(c, fp) = Verdict("accept", fp)
  BY <1>3, <1>4, PcmVerdict, Zenon DEF CounterTo
<1> QED BY <1>3, <1>5

-----------------------------------------------------------------------------
(* The steps. *)

LEMMA StartedInit == Init => Started
BY Zenon DEF Init, Started

(* Nothing that was started with changes. *)
LEMMA StartedStays ==
  ASSUME Started, UNCHANGED <<cfg, caps, seen>>, dac'.name = dac.name, dac'.dsd = dac.dsd,
         dac' \in [name : Names, dsd : DsdRates, present : BOOLEAN]
  PROVE  Started'
<1>1. \A d \in SUBSET Multipliers : Probed(d) => Probed(d)' BY DEF Probed
<1>2. \A d \in SUBSET Multipliers : EndpointCapabilities(d)' = EndpointCapabilities(d)
  BY Zenon DEF EndpointCapabilities
<1>3. ASSUME NEW c \in caps PROVE Announcement(c)' = Announcement(c)
  BY SMT DEF Announcement, MdnsCaps
<1>4. \A c \in caps' : \E d \in SUBSET Multipliers : Probed(d)' /\ c = EndpointCapabilities(d)'
  BY <1>1, <1>2, Zenon DEF Started
<1>5. \A s \in seen' : \E c \in caps' : s = ParseEndpoint(Announcement(c)')
  BY <1>3, Zenon DEF Started
<1>6. /\ cfg'.pcm_max_rate \in MaxRates /\ cfg'.pcm_max_bits \in MaxBits
      /\ \A c1, c2 \in caps' : c1 = c2
  BY Zenon DEF Started
<1> QED BY <1>4, <1>5, <1>6, Zenon DEF Started

LEMMA StartedStep ==
  ASSUME NInv, [Next]_vars
  PROVE  Started'
<1>1. /\ Started /\ dac \in [name : Names, dsd : DsdRates, present : BOOLEAN]
  BY Zenon DEF NInv, Started
<1>2. CASE Startup
  <2>1. caps = {} /\ UNCHANGED <<cfg, dac, seen>> BY <1>2, Zenon DEF Startup
  <2>2. PICK d : Probed(d) /\ caps' = {EndpointCapabilities(d)}
    BY <1>2, ProbeIsHonest, Zenon DEF Startup
  <2>3. seen' = {} BY <1>1, <2>1, Zenon DEF Started
  <2>4. d \in SUBSET Multipliers BY <2>2, Zenon DEF Probed
  <2>5. Probed(d)' BY <2>1, <2>2, Zenon DEF Probed
  <2>6. EndpointCapabilities(d)' = EndpointCapabilities(d) BY <2>1, Zenon DEF EndpointCapabilities
  <2> QED BY <1>1, <2>1, <2>2, <2>3, <2>4, <2>5, <2>6, Zenon DEF Started
<1>3. CASE Discover
  <2>1. PICK c \in caps : seen' = {ParseEndpoint(Announcement(c))} BY <1>3, Zenon DEF Discover
  <2>2. UNCHANGED <<cfg, dac, caps>> BY <1>3, Zenon DEF Discover
  <2>3. \A d \in SUBSET Multipliers : Probed(d) => Probed(d)' BY <2>2, Zenon DEF Probed
  <2>4. \A d \in SUBSET Multipliers : EndpointCapabilities(d)' = EndpointCapabilities(d)
    BY <2>2, Zenon DEF EndpointCapabilities
  <2>5. Announcement(c)' = Announcement(c) BY <2>2, SMT DEF Announcement, MdnsCaps
  <2> QED BY <1>1, <2>1, <2>2, <2>3, <2>4, <2>5, Zenon DEF Started
<1>4. CASE PlugOrUnplug
  <2>1. /\ dac'.name = dac.name /\ dac'.dsd = dac.dsd
        /\ dac' \in [name : Names, dsd : DsdRates, present : BOOLEAN]
    BY <1>1, <1>4 DEF PlugOrUnplug
  <2>2. UNCHANGED <<cfg, caps, seen>> BY <1>4, Zenon DEF PlugOrUnplug
  <2> QED BY <1>1, <2>1, <2>2, StartedStays, Zenon
<1>5. CASE UNCHANGED <<cfg, dac, caps, seen>> BY <1>1, <1>5, StartedStays, Zenon
<1>6. Propose \/ TakeUpCounter \/ PrepareNext \/ UNCHANGED vars => UNCHANGED <<cfg, dac, caps, seen>>
  BY Zenon DEF Propose, TakeUpCounter, PrepareNext, HandlePropose, vars
<1> QED BY <1>2, <1>3, <1>4, <1>5, <1>6, Zenon DEF Next

LEMMA CounteredStep ==
  ASSUME NInv, [Next]_vars
  PROVE  Countered'
<1>1. Started /\ Countered BY Zenon DEF NInv
<1>2. CASE Startup
  <2>1. counter = {} BY <1>1, <1>2, Zenon DEF Countered, Startup
  <2>2. counter' = {} BY <1>2, <2>1, Zenon DEF Startup
  <2> QED BY <2>2, Zenon DEF Countered
<1>3. CASE UNCHANGED <<caps, offer, counter>> BY <1>1, <1>3, Zenon DEF Countered
<1>4. Discover \/ PlugOrUnplug \/ UNCHANGED vars => UNCHANGED <<caps, offer, counter>>
  BY Zenon DEF Discover, PlugOrUnplug, vars
<1>5. CASE Propose
  <2>1. PICK c \in caps, fp \in Proposals : HandlePropose(c, fp) BY <1>5, Zenon DEF Propose
  <2> DEFINE v == NegotiateFormat(c, fp)
  <2>2. /\ offer' = {fp} /\ counter' = IF v.type = "counter" THEN {v.fp} ELSE {}
        /\ caps' = caps
    BY <2>1, Zenon DEF HandlePropose
  <2>3. Proposed(fp) BY ProposalsAre, Zenon
  <2>4. \A d \in caps : d = c BY <1>1, Zenon DEF Started
  <2>5. v = Verdict(v.type, v.fp) BY VerdictIs, Zenon
  <2> HIDE DEF v
  <2>6. CASE v.type = "counter"
    <3>1. counter' = {v.fp} /\ v = Verdict("counter", v.fp) BY <2>2, <2>5, <2>6, Zenon
    <3> QED BY <2>2, <2>3, <2>4, <3>1, Zenon DEF Countered, v
  <2>7. CASE v.type # "counter"
    <3>1. counter' = {} BY <2>2, <2>7, Zenon
    <3> QED BY <3>1, Zenon DEF Countered
  <2> QED BY <2>6, <2>7
<1>6. CASE TakeUpCounter
  <2>1. PICK c \in caps, fp \in counter : HandlePropose(c, fp) BY <1>6, Zenon DEF TakeUpCounter
  <2>2. NegotiateFormat(c, fp) = Verdict("accept", fp)
    <3>1. PICK old \in offer : NegotiateFormat(c, old) = Verdict("counter", fp) /\ Proposed(old)
      BY <1>1, Zenon DEF Countered
    <3>2. Able(c) BY <1>1, CapsAre, Zenon
    <3> QED BY <3>1, <3>2, CounterAcceptable, Zenon
  <2>3. NegotiateFormat(c, fp).type # "counter" BY <2>2 DEF Verdict
  <2>4. counter' = {} BY <2>1, <2>3, Zenon DEF HandlePropose
  <2> QED BY <2>4, Zenon DEF Countered
<1>7. CASE PrepareNext
  <2>1. counter' = {} BY <1>7, Zenon DEF PrepareNext
  <2> QED BY <2>1, Zenon DEF Countered
<1> QED BY <1>2, <1>3, <1>4, <1>5, <1>6, <1>7, Zenon DEF Next

(* What a proposal leaves behind. *)
Handled(fp) ==
  LET open == Opens(fp.format, fp.rate)
      stream == Stream(fp.format, fp.rate, fp.channels)
  IN  /\ running' = IF open THEN {stream} ELSE {}
      /\ answers' # <<"ready">> /\ answers' # <<"reformat">>
      /\ answers' = <<"accept">> => open /\ current' = {<<fp.format, fp.rate>>}

LEMMA HandledIs ==
  ASSUME NEW c, NEW fp, HandlePropose(c, fp)
  PROVE  /\ Handled(fp)
         /\ NegotiateFormat(c, fp).type = "accept" =>
              answers' = IF running' # {} THEN <<"accept">> ELSE <<"reject">>
<1> DEFINE v == NegotiateFormat(c, fp)
           open == Opens(fp.format, fp.rate)
           device == IF open THEN "accept" ELSE "reject"
           stream == Stream(fp.format, fp.rate, fp.channels)
<1>1. /\ answers' = IF v.type = "accept" THEN <<device>> ELSE <<v.type, device>>
      /\ current' = IF v.type = "accept" THEN {<<fp.format, fp.rate>>} ELSE current
      /\ running' = IF open THEN {stream} ELSE {}
  BY Zenon DEF HandlePropose, Configured
<1> HIDE DEF v, open, stream
<1>2. CASE v.type = "accept"
  <2>1. answers' = <<device>> /\ current' = {<<fp.format, fp.rate>>} BY <1>1, <1>2, Zenon
  <2>2. CASE open
    <3>1. answers' = <<"accept">> /\ running' = {stream} BY <1>1, <2>1, <2>2, Zenon
    <3>2. running' # {} BY <3>1, Zenon
    <3>3. <<"accept">> # <<"ready">> /\ <<"accept">> # <<"reformat">> OBVIOUS
    <3> QED BY <1>1, <2>1, <2>2, <3>1, <3>2, <3>3, Zenon DEF Handled, open, stream
  <2>3. CASE ~open
    <3>1. answers' = <<"reject">> /\ running' = {} BY <1>1, <2>1, <2>3, Zenon
    <3>2. <<"reject">> # <<"ready">> /\ <<"reject">> # <<"reformat">> /\ <<"reject">> # <<"accept">> OBVIOUS
    <3> QED BY <1>1, <3>1, <3>2, Zenon DEF Handled, open, stream
  <2> QED BY <2>2, <2>3
<1>3. CASE v.type # "accept"
  <2>1. answers' = <<v.type, device>> BY <1>1, <1>3, Zenon
  <2>2. answers' # <<"ready">> /\ answers' # <<"reformat">> /\ answers' # <<"accept">> BY <2>1
  <2> QED BY <1>1, <1>3, <2>2, Zenon DEF Handled, open, stream, v
<1> QED BY <1>2, <1>3

LEMMA SettledStep ==
  ASSUME NInv, [Next]_vars
  PROVE  Settled'
<1>1. Started /\ Countered /\ Settled BY Zenon DEF NInv
<1>2. CASE TakeUpCounter
  <2>1. PICK c \in caps, fp \in counter : HandlePropose(c, fp) BY <1>2, Zenon DEF TakeUpCounter
  <2>2. NegotiateFormat(c, fp) = Verdict("accept", fp)
    <3>1. PICK old \in offer : NegotiateFormat(c, old) = Verdict("counter", fp) /\ Proposed(old)
      BY <1>1, Zenon DEF Countered
    <3>2. Able(c) BY <1>1, CapsAre, Zenon
    <3> QED BY <3>1, <3>2, CounterAcceptable, Zenon
  <2>3. NegotiateFormat(c, fp).type = "accept" BY <2>2 DEF Verdict
  <2> QED BY <2>1, <2>3, HandledIs, Zenon DEF Settled
<1>3. CASE UNCHANGED <<step, answers, running>> BY <1>1, <1>3, Zenon DEF Settled
<1>4. Startup \/ Discover \/ PlugOrUnplug \/ UNCHANGED vars => UNCHANGED <<step, answers, running>>
  BY Zenon DEF Startup, Discover, PlugOrUnplug, vars
<1>5. Propose \/ PrepareNext => step' # "takeup" BY DEF Propose, PrepareNext
<1> QED BY <1>2, <1>3, <1>4, <1>5, Zenon DEF Next, Settled

LEMMA StreamIs ==
  ASSUME NEW f, NEW r, NEW ch
  PROVE  Stream(f, r, ch).format = f /\ Stream(f, r, ch).rate = r
BY DEF Stream

LEMMA RunningStep ==
  ASSUME NInv, [Next]_vars
  PROVE  Running' /\ Continues'
<1>1. Running /\ Continues BY Zenon DEF NInv
<1>2. ASSUME NEW c, NEW fp, HandlePropose(c, fp)
      PROVE  Running' /\ Continues'
  <2>1. Handled(fp) BY <1>2, HandledIs, Zenon
  <2>2. ASSUME Agreed' PROVE \E s \in running' : current' = {<<s.format, s.rate>>}
    <3>1. answers' = <<"accept">> BY <2>1, <2>2, Zenon DEF Handled, Agreed
    <3>2. /\ running' = {Stream(fp.format, fp.rate, fp.channels)}
          /\ current' = {<<fp.format, fp.rate>>}
      BY <2>1, <3>1, Zenon DEF Handled
    <3> QED BY <3>2, StreamIs
  <2> QED BY <2>1, <2>2, Zenon DEF Handled, Running, Continues
<1>3. CASE Propose BY <1>2, <1>3, Zenon DEF Propose
<1>4. CASE TakeUpCounter BY <1>2, <1>4, Zenon DEF TakeUpCounter
<1>5. CASE PrepareNext
  <2>1. PICK fp \in Proposals :
          /\ offer' = {fp}
          /\ IF SameFormat(fp.format, fp.rate)
             THEN /\ answers' = <<"ready">>
                  /\ UNCHANGED <<current, running, failed>>
             ELSE /\ answers' = <<"reformat">>
                  /\ current' = {<<fp.format, fp.rate>>}
                  /\ running' = Configured(fp.format, fp.rate, 2)
                  /\ failed' = ~Opens(fp.format, fp.rate)
    BY <1>5, Zenon DEF PrepareNext
  <2>2. Agreed BY <1>5, Zenon DEF PrepareNext
  <2>3. CASE SameFormat(fp.format, fp.rate)
    <3>1. answers' = <<"ready">> /\ UNCHANGED <<current, running, failed>> BY <2>1, <2>3, Zenon
    <3>2. current = {<<fp.format, fp.rate>>} BY <2>3, Zenon DEF SameFormat
    <3>3. Running' BY <1>1, <2>2, <3>1, Zenon DEF Running
    <3> QED BY <2>1, <3>1, <3>2, <3>3, Zenon DEF Continues
  <2>4. CASE ~SameFormat(fp.format, fp.rate)
    <3>1. /\ answers' = <<"reformat">> /\ current' = {<<fp.format, fp.rate>>}
          /\ running' = Configured(fp.format, fp.rate, 2)
          /\ failed' = ~Opens(fp.format, fp.rate)
      BY <2>1, <2>4, Zenon
    <3>2. Continues' BY <3>1 DEF Continues
    <3>3. ASSUME ~failed' PROVE \E s \in running' : current' = {<<s.format, s.rate>>}
      <4>1. running' = {Stream(fp.format, fp.rate, 2)} BY <3>1, <3>3, Zenon DEF Configured
      <4> QED BY <3>1, <4>1, StreamIs
    <3> QED BY <3>2, <3>3, Zenon DEF Running
  <2> QED BY <2>3, <2>4
<1>6. CASE UNCHANGED <<answers, failed, running, current, offer>>
  BY <1>1, <1>6, Zenon DEF Running, Continues, Agreed
<1>7. Startup \/ Discover \/ PlugOrUnplug \/ UNCHANGED vars
        => UNCHANGED <<answers, failed, running, current, offer>>
  BY Zenon DEF Startup, Discover, PlugOrUnplug, vars
<1> QED BY <1>3, <1>4, <1>5, <1>6, <1>7, Zenon DEF Next

(* The invariant behind the three properties. *)
THEOREM NegotiationHolds == Spec => []NInv
<1>1. Init => NInv
  <2> SUFFICES ASSUME Init PROVE NInv OBVIOUS
  <2>1. Started BY StartedInit
  <2>2. Countered BY Zenon DEF Init, Countered
  <2>3. Settled BY DEF Init, Settled
  <2>4. Running /\ Continues BY DEF Init, Running, Continues, Agreed
  <2> QED BY <2>1, <2>2, <2>3, <2>4, Zenon DEF NInv
<1>2. NInv /\ [Next]_vars => NInv'
  BY StartedStep, CounteredStep, SettledStep, RunningStep, Zenon DEF NInv
<1> QED BY <1>1, <1>2, PTL DEF Spec

-----------------------------------------------------------------------------
(* The properties. *)

(* Negotiation settles in one round and loses as little as possible: the     *)
(* endpoint accepts its own counter-proposal unless the device does not      *)
(* open, and the rate it counters with is the best of the family it can do   *)
(* (negotiate_format, best_rate_in_family).                                  *)
THEOREM CounterAlwaysSettles == Spec => []CounterSettles
<1>1. NInv => CounterSettles
  <2> SUFFICES ASSUME NInv PROVE CounterSettles OBVIOUS
  <2>1. Started /\ Countered /\ Settled BY Zenon DEF NInv
  <2>2. ASSUME NEW fp \in counter, NEW old \in offer, NEW c \in caps
        PROVE  LET family == UNION SampleRateFamily(old.rate)
               IN /\ family # {} => fp.rate \in family
                  /\ \A r \in family : r <= c.pcm_max_rate /\ r <= old.rate => r <= fp.rate
    <3>1. Able(c) BY <2>1, CapsAre, Zenon
    <3>2. Proposed(old) /\ NegotiateFormat(c, old) = Verdict("counter", fp) BY <2>1, Zenon DEF Countered
    <3>3. CounterTo(c, old, fp) BY <3>1, <3>2, CounterAcceptable, Zenon
    <3>4. old.rate \in Nat BY <3>2 DEF Proposed
    <3>5. Best(old.rate, c.pcm_max_rate) BY <3>1, <3>4, BestRate, Zenon DEF Able
    <3>6. CASE old.rate <= c.pcm_max_rate
      <4>1. fp.rate = old.rate BY <3>3, <3>6, Zenon DEF CounterTo
      <4> QED BY <3>5, <4>1, Zenon DEF Best
    <3>7. CASE ~(old.rate <= c.pcm_max_rate)
      <4>1. fp.rate = BestRateInFamily(old.rate, c.pcm_max_rate) BY <3>3, <3>7, Zenon DEF CounterTo
      <4> QED BY <3>5, <4>1, Zenon DEF Best
    <3> QED BY <3>6, <3>7
  <2> QED BY <2>1, <2>2, Zenon DEF CounterSettles, Settled
<1> QED BY <1>1, NegotiationHolds, PTL

(* NextTrackReady is only said of a track that continues what the output     *)
(* runs, after any sequence of proposals, counter-proposals and reformats    *)
(* (the NextTrackPrepare handling of the session and of the endpoint).       *)
THEOREM GaplessIsHonest == Spec => []ReadyIsGapless
<1>1. NInv => ReadyIsGapless
  <2> SUFFICES ASSUME NInv, answers = <<"ready">>, ~failed
               PROVE  \E s \in running, fp \in offer : s.format = fp.format /\ s.rate = fp.rate
    BY Zenon DEF ReadyIsGapless
  <2>1. PICK fp \in offer : current = {<<fp.format, fp.rate>>} BY Zenon DEF NInv, Continues
  <2>2. Agreed BY Zenon DEF Agreed
  <2>3. PICK s \in running : current = {<<s.format, s.rate>>} BY <2>2, Zenon DEF NInv, Running
  <2>4. <<fp.format, fp.rate>> = <<s.format, s.rate>> BY <2>1, <2>3
  <2> QED BY <2>4
<1> QED BY <1>1, NegotiationHolds, PTL

LEMMA KilohertzFit ==
  ASSUME NEW max \in Nat, max >= Lowest
  PROVE  /\ max \div 1000 \in Nat \ {0}
         /\ \A r \in Nat : r <= 1000 * (max \div 1000) => r <= max
BY SMT DEF Lowest

LEMMA OneMultiplier ==
  ASSUME NEW d, d \subseteq Multipliers, \A x, y \in d : x = y
  PROVE  d \in SUBSET Nat /\ (d = {} \/ \E m \in Nat : d = {m})
<1>1. Multipliers \subseteq Nat BY DEF Multipliers
<1> QED BY <1>1, Zenon

(* What is announced is read back. *)
LEMMA AnnouncedIs ==
  ASSUME Started, NEW c \in caps, NEW s \in seen
  PROVE  s.caps = {MdnsCaps(c)}
<1>1. PICK b \in caps : s = ParseEndpoint(Announcement(b)) BY Zenon DEF Started
<1>2. b = c BY Zenon DEF Started
<1>3. s.caps = Parse(Display(MdnsCaps(c))) BY <1>1, <1>2, SMT DEF ParseEndpoint, Announcement
<1>4. c.pcm_max_rate \div 1000 \in Nat \ {0} /\ c.pcm_max_bits \in Nat
  BY CapsAre, KilohertzFit, SMT DEF Able
<1>5. c.dsd_max_rate \in SUBSET Nat /\ (c.dsd_max_rate = {} \/ \E m \in Nat : c.dsd_max_rate = {m})
  BY CapsAre, OneMultiplier, Zenon DEF Probed
<1>6. (IF cfg.flac THEN {"flac"} ELSE {}) \in SUBSET Flags BY DEF Flags
<1>7. MdnsCaps(c) \in Capability BY <1>4, <1>5, <1>6, SMT DEF MdnsCaps, Capability
<1> QED BY <1>3, <1>7, CapsRoundTrip, Zenon

LEMMA DsdU8Opens ==
  ASSUME NEW m \in Nat, dac.present, DsdHwDevice(ResolveDeviceName(dac.name)) = "hw",
         DsdU32Rate(m) \in dac.dsd
  PROVE  Opens("DSD_U8", 44100 * m)
<1>1. AlsaRate("DSD_U8", 44100 * m) = {(44100 * m) \div 32} BY SMT DEF AlsaRate, Pcm
<1>2. (44100 * m) \div 32 = DsdU32Rate(m) BY SMT DEF DsdU32Rate
<1> QED BY <1>1, <1>2, SMT DEF Opens

LEMMA DsdU8Accepted ==
  ASSUME NEW c, NEW m \in Nat, Dsd \subseteq c.formats, NEW top \in c.dsd_max_rate, m <= top
  PROVE  NegotiateFormat(c, DsdProposal("DSD_U8", m, 2)).type = "accept"
<1> DEFINE fp == DsdProposal("DSD_U8", m, 2)
<1>1. fp.format = "DSD_U8" /\ fp.dsd = {m} BY SMT DEF DsdProposal
<1>2. "DSD_U8" \in Dsd BY DEF Dsd
<1> HIDE DEF fp
<1>3. NegotiateFormat(c, fp) = Verdict("accept", fp) BY <1>1, <1>2, DsdVerdict, Zenon
<1> QED BY <1>3 DEF fp, Verdict

(* A controller can rely on what it discovered: everything the mDNS text     *)
(* covers, as Capabilities::parse reads it, is within what negotiate_format  *)
(* accepts, and a DSD_U8 stream up to the announced multiplier opens on the  *)
(* device that announced_dsd_max probed, as long as it is there.             *)
THEOREM AnnouncementHolds == Spec => []AnnouncedPlays
<1>1. NInv => AnnouncedPlays
  <2> SUFFICES ASSUME NInv PROVE AnnouncedPlays OBVIOUS
  <2>1. Started BY Zenon DEF NInv
  <2> SUFFICES ASSUME NEW s \in seen, NEW c \in caps, NEW k \in s.caps
               PROVE  /\ \A fp \in Proposals : fp.format \in {"S16LE", "S24LE", "S32LE"}
                                  /\ fp.rate <= 1000 * k.khz /\ fp.bits <= k.bits
                           => NegotiateFormat(c, fp).type = "accept"
                      /\ "flac" \in k.flags => "FLAC" \in c.formats
                      /\ \A m \in Range(DSD_MULTIPLIERS), top \in k.dsd :
                           m <= top => /\ NegotiateFormat(c, DsdProposal("DSD_U8", m, 2)).type = "accept"
                                       /\ dac.present => Opens("DSD_U8", 44100 * m)
    <3>1. ASSUME NEW s \in seen, NEW c \in caps PROVE s.caps # {}
      BY <2>1, AnnouncedIs, SMT
    <3> QED BY <3>1, SMT DEF AnnouncedPlays
  <2>2. k = MdnsCaps(c) BY <2>1, AnnouncedIs, Zenon
  <2>3. /\ k.khz = c.pcm_max_rate \div 1000 /\ k.bits = c.pcm_max_bits /\ k.dsd = c.dsd_max_rate
        /\ "flac" \in k.flags => cfg.flac
    BY <2>2, SMT DEF MdnsCaps
  <2>4. /\ Able(c) /\ {"S16LE", "S24LE", "S32LE"} \subseteq c.formats
        /\ cfg.flac => "FLAC" \in c.formats
        /\ Probed(c.dsd_max_rate)
        /\ c.dsd_max_rate # {} => Dsd \subseteq c.formats
    BY <2>1, CapsAre, Zenon
  <2>5. ASSUME NEW fp \in Proposals, fp.format \in {"S16LE", "S24LE", "S32LE"},
               fp.rate <= 1000 * k.khz, fp.bits <= k.bits
        PROVE  NegotiateFormat(c, fp).type = "accept"
    <3>1. fp.rate \in Nat BY ProposalsAre DEF Proposed
    <3>2. fp.rate <= c.pcm_max_rate
      BY <2>3, <2>4, <2>5, <3>1, KilohertzFit, SMT DEF Able
    <3>3. fp.bits <= c.pcm_max_bits BY <2>3, <2>5, SMT
    <3>4. fp.format \in c.formats /\ fp.format \in Pcm BY <2>4, <2>5 DEF Pcm
    <3>5. NegotiateFormat(c, fp) = Verdict("accept", fp)
      BY <3>2, <3>3, <3>4, PcmVerdict, Zenon
    <3> QED BY <3>5 DEF Verdict
  <2>6. ASSUME NEW m \in Range(DSD_MULTIPLIERS), NEW top \in k.dsd, m <= top
        PROVE  /\ NegotiateFormat(c, DsdProposal("DSD_U8", m, 2)).type = "accept"
               /\ dac.present => Opens("DSD_U8", 44100 * m)
    <3>1. m \in Multipliers BY MultipliersAre, SMT
    <3>2. m \in Nat BY <3>1, SMT DEF Multipliers
    <3>3. top \in c.dsd_max_rate BY <2>3, SMT
    <3>4. NegotiateFormat(c, DsdProposal("DSD_U8", m, 2)).type = "accept"
      BY <2>4, <2>6, <3>2, <3>3, DsdU8Accepted, SMT
    <3>5. DsdHwDevice(ResolveDeviceName(dac.name)) = "hw" /\ DsdU32Rate(m) \in dac.dsd
      BY <2>4, <2>6, <3>1, <3>3, SMT DEF Probed
    <3> QED BY <3>2, <3>4, <3>5, DsdU8Opens, SMT
  <2> QED BY <2>3, <2>4, <2>5, <2>6, SMT
<1> QED BY <1>1, NegotiationHolds, PTL

-----------------------------------------------------------------------------
(* The C interface (module Ffi). *)

(* What a queue of events will make of the status. *)

EventTypes ==
  {"connected", "accepted", "rejected", "proposed", "play", "pause", "stop", "seek", "other",
   "disconnected", "close", "audio"}
Events == [type : EventTypes, n : Nat]
Messages == [type : Kinds \cup {"eof"}, n : Nat]

(* An event that sets the status, and the status it sets. *)
Tells(e) == e.type \in {"connected", "accepted", "play", "pause", "stop", "disconnected"}

Word(e) ==
  CASE e.type = "connected" -> "Connected"
    [] e.type \in {"accepted", "play"} -> "Streaming"
    [] e.type = "pause" -> "Paused"
    [] e.type = "stop" -> "Connected"
    [] OTHER -> "Idle"

Told(s) == \E i \in 1..Len(s) : Tells(s[i])

(* The last event of s that sets the status sets it to w. *)
LastWord(s, w) ==
  \E i \in 1..Len(s) : /\ Tells(s[i]) /\ Word(s[i]) = w
                       /\ \A j \in 1..Len(s) : j > i => ~Tells(s[j])

(* The host that polls q, then t, ends with the status w. *)
Settles(t, q, now, w) ==
  IF Told(t) THEN LastWord(t, w) ELSE IF Told(q) THEN LastWord(q, w) ELSE now = w

(* An event appended to a queue: it speaks last, or changes nothing. *)
LEMMA AppendTells ==
  ASSUME NEW s \in Seq(Events), NEW e \in Events, Tells(e)
  PROVE  Told(Append(s, e)) /\ LastWord(Append(s, e), Word(e))
<1> DEFINE t == Append(s, e)
<1>1. Len(t) = Len(s) + 1 /\ t[Len(t)] = e /\ Len(s) \in Nat OBVIOUS
<1> HIDE DEF t
<1>2. Len(t) \in 1..Len(t) /\ \A j \in 1..Len(t) : ~(j > Len(t)) BY <1>1
<1>3. Told(t) BY <1>1, <1>2 DEF Told
<1>4. LastWord(t, Word(e)) BY <1>1, <1>2 DEF LastWord
<1> QED BY <1>3, <1>4 DEF t

LEMMA AppendSilent ==
  ASSUME NEW s \in Seq(Events), NEW e \in Events, ~Tells(e), NEW w
  PROVE  /\ Told(Append(s, e)) <=> Told(s)
         /\ LastWord(s, w) => LastWord(Append(s, e), w)
<1> DEFINE t == Append(s, e)
<1>1. Len(t) = Len(s) + 1 /\ t[Len(t)] = e /\ Len(s) \in Nat OBVIOUS
<1>2. \A i \in 1..Len(s) : t[i] = s[i] OBVIOUS
<1> HIDE DEF t
<1>3. 1..Len(t) = (1..Len(s)) \cup {Len(t)} /\ Len(t) \notin 1..Len(s) BY <1>1
<1>4. Told(t) <=> Told(s) BY <1>1, <1>2, <1>3 DEF Told
<1>5. ASSUME LastWord(s, w) PROVE LastWord(t, w)
  <2>1. PICK i \in 1..Len(s) : /\ Tells(s[i]) /\ Word(s[i]) = w
                               /\ \A j \in 1..Len(s) : j > i => ~Tells(s[j])
    BY <1>5 DEF LastWord
  <2>2. \A j \in 1..Len(t) : j > i => ~Tells(t[j]) BY <2>1, <1>1, <1>2, <1>3
  <2> QED BY <2>1, <2>2, <1>2, <1>3 DEF LastWord
<1> QED BY <1>4, <1>5 DEF t

(* The first event of a queue is taken: what is left speaks, or it did. *)
LEMMA TakeFirst ==
  ASSUME NEW s \in Seq(Events), s # <<>>, NEW w
  PROVE  /\ Told(s) <=> Tells(Head(s)) \/ Told(Tail(s))
         /\ LastWord(s, w) /\ Told(Tail(s)) => LastWord(Tail(s), w)
         /\ LastWord(s, w) /\ ~Told(Tail(s)) => Tells(Head(s)) /\ Word(Head(s)) = w
<1> DEFINE t == Tail(s)
<1>1. Len(s) \in Nat \ {0} /\ Len(t) = Len(s) - 1 OBVIOUS
<1>2. \A i \in 1..Len(t) : t[i] = s[i + 1] OBVIOUS
<1>3. Head(s) = s[1] OBVIOUS
<1> HIDE DEF t
<1>4. \A i \in 1..Len(s) : i = 1 \/ (i - 1 \in 1..Len(t) /\ t[i - 1] = s[i])
  <2> SUFFICES ASSUME NEW i \in 1..Len(s), i # 1
               PROVE  i - 1 \in 1..Len(t) /\ t[i - 1] = s[i]
    OBVIOUS
  <2>1. i - 1 \in 1..Len(t) /\ (i - 1) + 1 = i BY <1>1
  <2> QED BY <2>1, <1>2
<1>5. 1 \in 1..Len(s) /\ \A i \in 1..Len(t) : i + 1 \in 1..Len(s) BY <1>1
<1>6. Told(s) <=> Tells(Head(s)) \/ Told(t) BY <1>2, <1>3, <1>4, <1>5 DEF Told
<1>7. ASSUME LastWord(s, w) PROVE IF Told(t) THEN LastWord(t, w)
                                  ELSE Tells(Head(s)) /\ Word(Head(s)) = w
  <2>1. PICK i \in 1..Len(s) : /\ Tells(s[i]) /\ Word(s[i]) = w
                               /\ \A j \in 1..Len(s) : j > i => ~Tells(s[j])
    BY <1>7 DEF LastWord
  <2>2. CASE i = 1
    <3>1. \A j \in 1..Len(t) : j + 1 > i /\ j + 1 \in 1..Len(s) BY <2>2, <1>5, <1>1
    <3>2. ~Told(t) BY <3>1, <2>1, <1>2 DEF Told
    <3> QED BY <3>2, <2>1, <2>2, <1>3
  <2>3. CASE i # 1
    <3>1. i - 1 \in 1..Len(t) /\ t[i - 1] = s[i] BY <1>4, <2>3
    <3>2. \A j \in 1..Len(t) : j > i - 1 => j + 1 > i BY <1>1
    <3>3. \A j \in 1..Len(t) : j > i - 1 => ~Tells(t[j]) BY <3>2, <2>1, <1>2, <1>5
    <3> QED BY <3>1, <3>3, <2>1 DEF LastWord, Told
  <2> QED BY <2>2, <2>3
<1> QED BY <1>6, <1>7 DEF t

-----------------------------------------------------------------------------
(* The events a message leaves to send. *)

CloseLast(t) == \A i \in 1..Len(t) : t[i].type = "close" => i = Len(t)

(* Two events of which the second is silent. *)
LEMMA PairWord ==
  ASSUME NEW a \in Events, NEW b \in Events, ~Tells(b), a.type # "close"
  PROVE  /\ <<a, b>> \in Seq(Events) /\ CloseLast(<<a, b>>)
         /\ Told(<<a, b>>) <=> Tells(a)
         /\ Tells(a) => LastWord(<<a, b>>, Word(a))
<1> DEFINE t == <<a, b>>
<1>1. t \in Seq(Events) /\ Len(t) = 2 /\ t[1] = a /\ t[2] = b OBVIOUS
<1> HIDE DEF t
<1>2. 1..Len(t) = {1, 2} BY <1>1
<1>3. CloseLast(t) BY <1>1, <1>2 DEF CloseLast
<1>4. Told(t) <=> Tells(a) BY <1>1, <1>2 DEF Told
<1>5. Tells(a) => LastWord(t, Word(a)) BY <1>1, <1>2 DEF LastWord
<1> QED BY <1>1, <1>3, <1>4, <1>5 DEF t

LEMMA OneWord ==
  ASSUME NEW a \in Events
  PROVE  /\ <<a>> \in Seq(Events) /\ CloseLast(<<a>>)
         /\ Told(<<a>>) <=> Tells(a)
         /\ Tells(a) => LastWord(<<a>>, Word(a))
<1> DEFINE t == <<a>>
<1>1. t \in Seq(Events) /\ Len(t) = 1 /\ t[1] = a OBVIOUS
<1> HIDE DEF t
<1>2. 1..Len(t) = {1} BY <1>1
<1>3. CloseLast(t) BY <1>1, <1>2 DEF CloseLast
<1>4. Told(t) <=> Tells(a) BY <1>1, <1>2 DEF Told
<1>5. Tells(a) => LastWord(t, Word(a)) BY <1>1, <1>2 DEF LastWord
<1> QED BY <1>1, <1>3, <1>4, <1>5 DEF t

(* What is sent for a message leaves the status the message asks for. *)
LEMMA EventsOfMeaning ==
  ASSUME NEW m \in Messages, NEW now
  PROVE  /\ EventsOf(m) \in Seq(Events) /\ CloseLast(EventsOf(m))
         /\ IF Told(EventsOf(m)) THEN LastWord(EventsOf(m), Meaning(m, now))
            ELSE Meaning(m, now) = now
<1> DEFINE p == [m EXCEPT !.type = "proposed"]
<1>1. m.type \in {"accepted", "rejected", "countered", "play", "pause", "stop", "seek", "other", "eof"}
      /\ m.n \in Nat
  BY FfiAssumption DEF Messages
<1>2. p \in Events /\ p.type = "proposed" BY <1>1 DEF Messages, Events, EventTypes
<1>3. \A x \in EventTypes : Event(x) \in Events /\ Event(x).type = x
  BY DEF Event, Events
<1> HIDE DEF p
<1>4. ~Tells(p) /\ ~Tells(Event("close")) BY <1>2, <1>3 DEF Tells, EventTypes
<1>5. CASE m.type \in {"accepted", "rejected"}
  <2>1. EventsOf(m) = <<Event(m.type), p>> BY <1>5 DEF EventsOf, p
  <2>2. Event(m.type) \in Events /\ Event(m.type).type = m.type BY <1>3, <1>5 DEF EventTypes
  <2>3. m.type = "accepted" => Tells(Event(m.type)) /\ Word(Event(m.type)) = Meaning(m, now)
    BY <2>2 DEF Tells, Word, Meaning
  <2>4. m.type = "rejected" => ~Tells(Event(m.type)) /\ Meaning(m, now) = now
    BY <2>2 DEF Tells, Meaning
  <2> QED BY <2>1, <2>2, <2>3, <2>4, <1>2, <1>4, <1>5, PairWord
<1>6. CASE m.type = "countered"
  <2>1. EventsOf(m) = <<p>> /\ Meaning(m, now) = now BY <1>6 DEF EventsOf, Meaning, p
  <2> QED BY <2>1, <1>2, <1>4, OneWord
<1>7. CASE m.type = "eof"
  <2>1. EventsOf(m) = <<Event("disconnected"), Event("close")>> /\ Meaning(m, now) = "Idle"
    BY <1>7 DEF EventsOf, Meaning
  <2>2. /\ Event("disconnected") \in Events /\ Event("close") \in Events
        /\ Event("disconnected").type = "disconnected"
    BY <1>3 DEF EventTypes
  <2>3. Tells(Event("disconnected")) /\ Word(Event("disconnected")) = "Idle"
    BY <2>2 DEF Tells, Word
  <2> QED BY <2>1, <2>2, <2>3, <1>4, PairWord
<1>8. CASE m.type \in {"play", "pause", "stop", "seek", "other"}
  <2>1. EventsOf(m) = <<Event(m.type)>> BY <1>8 DEF EventsOf
  <2>2. Event(m.type) \in Events /\ Event(m.type).type = m.type BY <1>3, <1>8 DEF EventTypes
  <2>3. IF Tells(Event(m.type)) THEN Word(Event(m.type)) = Meaning(m, now)
        ELSE Meaning(m, now) = now
    BY <2>2, <1>8 DEF Tells, Word, Meaning
  <2> QED BY <2>1, <2>2, <2>3, OneWord
<1> QED BY <1>1, <1>5, <1>6, <1>7, <1>8

-----------------------------------------------------------------------------
(* The status. *)

FfiTypes ==
  /\ tcp \in Seq(Messages) /\ todo \in Seq(Events) /\ events \in Seq(Events)
  /\ messages \in Nat

(***************************************************************************)
(* StatusHonest speaks of a host that has caught up; in every other state  *)
(* the status that is due is in the last event on its way that sets one.   *)
(***************************************************************************)
StatusInv ==
  /\ FfiTypes
  /\ CloseLast(todo)
  /\ ~broken => Settles(todo, events, status, said)

(* convert_event, without the state it is evaluated in. *)
LEMMA StatusOfWord ==
  ASSUME NEW e
  PROVE  StatusOf(e) = IF Tells(e) THEN Word(e) ELSE status
BY DEF StatusOf, Tells, Word

LEMMA StatusInit == FfiInit => StatusInv
<1> SUFFICES ASSUME FfiInit PROVE StatusInv OBVIOUS
<1>1. tcp = <<>> /\ todo = <<>> /\ events = <<>> /\ messages = 0 /\ status = said
  BY DEF FfiInit
<1>2. ~Told(<<>>) /\ CloseLast(<<>>) BY DEF Told, CloseLast
<1> QED BY <1>1, <1>2 DEF StatusInv, FfiTypes, Settles

LEMMA SendsStatus ==
  ASSUME StatusInv, ControllerSends \/ ControllerCloses
  PROVE  StatusInv'
<1>1. UNCHANGED <<todo, events, status, said, broken>>
  BY DEF ControllerSends, ControllerCloses, host
<1>2. tcp \in Seq(Messages) /\ messages \in Nat BY DEF StatusInv, FfiTypes
<1>3. CASE ControllerSends
  <2>1. PICK k \in Kinds : tcp' = Append(tcp, [type |-> k, n |-> messages + 1])
    BY <1>3 DEF ControllerSends
  <2>2. messages' \in Nat BY <1>2, <1>3 DEF ControllerSends
  <2>3. [type |-> k, n |-> messages + 1] \in Messages BY <1>2 DEF Messages
  <2>4. tcp' \in Seq(Messages) BY <1>2, <2>1, <2>3
  <2> QED BY <1>1, <2>2, <2>4 DEF StatusInv, FfiTypes
<1>4. CASE ControllerCloses
  <2>1. tcp' = Append(tcp, Event("eof")) /\ messages' = messages BY <1>4 DEF ControllerCloses
  <2>2. Event("eof") \in Messages BY DEF Event, Messages
  <2>3. tcp' \in Seq(Messages) BY <1>2, <2>1, <2>2
  <2> QED BY <1>1, <1>2, <2>1, <2>3 DEF StatusInv, FfiTypes
<1> QED BY <1>3, <1>4

LEMMA AcceptStatus ==
  ASSUME StatusInv, AcceptSession
  PROVE  StatusInv'
<1>1. /\ tcp' = <<>> /\ todo' = <<Event("connected")>> /\ said' = "Connected"
      /\ UNCHANGED <<messages, events>>
  BY DEF AcceptSession
<1>2. Event("connected") \in Events /\ Event("connected").type = "connected"
  BY DEF Event, Events, EventTypes
<1>3. Tells(Event("connected")) /\ Word(Event("connected")) = "Connected"
  BY <1>2 DEF Tells, Word
<1>4. todo' \in Seq(Events) /\ CloseLast(todo') /\ Told(todo') /\ LastWord(todo', said')
  BY <1>1, <1>2, <1>3, OneWord
<1>5. FfiTypes' BY <1>1, <1>4 DEF StatusInv, FfiTypes
<1> QED BY <1>4, <1>5 DEF StatusInv, Settles

LEMMA ReadStatus ==
  ASSUME StatusInv, Read
  PROVE  StatusInv'
<1>1. /\ todo = <<>> /\ tcp # <<>> /\ todo' = EventsOf(Head(tcp))
      /\ said' = Meaning(Head(tcp), said) /\ tcp' = Tail(tcp)
      /\ UNCHANGED <<messages, events, status, broken>>
  BY DEF Read, Selecting, host
<1>2. tcp \in Seq(Messages) BY DEF StatusInv, FfiTypes
<1>3. Head(tcp) \in Messages /\ tcp' \in Seq(Messages) BY <1>1, <1>2
<1>4. /\ todo' \in Seq(Events) /\ CloseLast(todo')
      /\ IF Told(todo') THEN LastWord(todo', said') ELSE said' = said
  BY <1>1, <1>3, EventsOfMeaning
<1>5. ~Told(todo) BY <1>1 DEF Told
<1>6. FfiTypes' BY <1>1, <1>3, <1>4 DEF StatusInv, FfiTypes
<1>7. ~broken => Settles(todo', events, status, said')
  BY <1>4, <1>5 DEF StatusInv, Settles
<1> QED BY <1>1, <1>4, <1>6, <1>7 DEF StatusInv

LEMMA SendStatus ==
  ASSUME StatusInv, SendEvent
  PROVE  StatusInv'
<1> DEFINE h == Head(todo)
<1>1. /\ todo # <<>> /\ events' = Append(events, h) /\ todo' = Tail(todo)
      /\ UNCHANGED <<tcp, messages, said, broken, status>>
  BY DEF SendEvent, host
<1>2. todo \in Seq(Events) /\ events \in Seq(Events) BY DEF StatusInv, FfiTypes
<1>3. h \in Events /\ todo' \in Seq(Events) /\ events' \in Seq(Events) BY <1>1, <1>2
<1>4. CloseLast(todo')
  <2>1. /\ Len(todo) \in Nat \ {0} /\ Len(todo') = Len(todo) - 1
        /\ \A i \in 1..Len(todo') : todo'[i] = todo[i + 1]
    BY <1>1, <1>2
  <2>2. \A i \in 1..Len(todo') : i + 1 \in 1..Len(todo) /\ (i + 1 = Len(todo) => i = Len(todo'))
    BY <2>1
  <2> QED BY <2>1, <2>2 DEF StatusInv, CloseLast
<1>5. FfiTypes' BY <1>1, <1>3 DEF StatusInv, FfiTypes
<1>6. ASSUME ~broken PROVE Settles(todo', events', status, said)
  <2>1. Settles(todo, events, status, said) BY <1>6 DEF StatusInv
  <2> HIDE DEF h
  <2>2. /\ Told(todo) <=> Tells(h) \/ Told(todo')
        /\ LastWord(todo, said) /\ Told(todo') => LastWord(todo', said)
        /\ LastWord(todo, said) /\ ~Told(todo') => Tells(h) /\ Word(h) = said
    BY <1>1, <1>2, TakeFirst DEF h
  <2>3. CASE Tells(h)
    <3>1. Told(events') /\ LastWord(events', Word(h)) BY <1>1, <1>2, <1>3, <2>3, AppendTells
    <3> QED BY <2>1, <2>2, <2>3, <3>1 DEF Settles
  <2>4. CASE ~Tells(h)
    <3>1. (Told(events') <=> Told(events)) /\ (LastWord(events, said) => LastWord(events', said))
      BY <1>1, <1>2, <1>3, <2>4, AppendSilent
    <3> QED BY <2>1, <2>2, <2>4, <3>1 DEF Settles
  <2> QED BY <2>3, <2>4
<1> QED BY <1>1, <1>4, <1>5, <1>6 DEF StatusInv

(* The close ends what there is to send, so that nothing is lost with it. *)
LEMMA EndStatus ==
  ASSUME StatusInv, EndSession
  PROVE  StatusInv'
<1>1. /\ todo # <<>> /\ Head(todo).type = "close" /\ todo' = <<>>
      /\ UNCHANGED <<tcp, messages, said, broken, events, status>>
  BY DEF EndSession, host
<1>2. todo \in Seq(Events) /\ CloseLast(todo) BY DEF StatusInv, FfiTypes
<1>3. Len(todo) \in Nat \ {0} /\ todo[1] = Head(todo) BY <1>1, <1>2
<1>4. 1 \in 1..Len(todo) BY <1>3
<1>5. Len(todo) = 1 BY <1>1, <1>2, <1>3, <1>4 DEF CloseLast
<1>6. \A i \in 1..Len(todo) : i = 1 BY <1>5
<1>7. ~Tells(todo[1]) BY <1>1, <1>3 DEF Tells
<1>8. ~Told(todo) BY <1>6, <1>7 DEF Told
<1>9. ~Told(todo') /\ CloseLast(todo') /\ todo' \in Seq(Events) BY <1>1 DEF Told, CloseLast
<1> QED BY <1>1, <1>8, <1>9 DEF StatusInv, FfiTypes, Settles

LEMMA BreakStatus ==
  ASSUME StatusInv, BreakSession
  PROVE  StatusInv'
<1>1. /\ tcp' = <<>> /\ broken' /\ UNCHANGED <<messages, todo, events>> BY DEF BreakSession
<1>2. tcp' \in Seq(Messages) BY <1>1
<1> QED BY <1>1, <1>2 DEF StatusInv, FfiTypes

LEMMA AudioStatus ==
  ASSUME StatusInv, SendAudio
  PROVE  StatusInv'
<1>1. /\ events' = Append(events, Event("audio"))
      /\ UNCHANGED <<tcp, messages, todo, said, broken, status>>
  BY DEF SendAudio, session, host
<1>2. Event("audio") \in Events /\ ~Tells(Event("audio"))
  BY DEF Event, Events, EventTypes, Tells
<1>3. events \in Seq(Events) BY DEF StatusInv, FfiTypes
<1>4. (Told(events') <=> Told(events)) /\ (LastWord(events, said) => LastWord(events', said))
  BY <1>1, <1>2, <1>3, AppendSilent
<1>5. events' \in Seq(Events) BY <1>1, <1>2, <1>3
<1> QED BY <1>1, <1>4, <1>5 DEF StatusInv, FfiTypes, Settles

LEMMA PollStatus ==
  ASSUME StatusInv, Poll
  PROVE  StatusInv'
<1> DEFINE h == Head(events)
<1>1. /\ events # <<>> /\ events' = Tail(events) /\ status' = StatusOf(h)
      /\ UNCHANGED <<tcp, messages, todo, said, broken>>
  BY DEF Poll, Aside, session
<1>2. events \in Seq(Events) BY DEF StatusInv, FfiTypes
<1>3. events' \in Seq(Events) BY <1>1, <1>2
<1>4. /\ Told(events) <=> Tells(h) \/ Told(events')
      /\ LastWord(events, said) /\ Told(events') => LastWord(events', said)
      /\ LastWord(events, said) /\ ~Told(events') => Tells(h) /\ Word(h) = said
  BY <1>1, <1>2, TakeFirst
<1>5. status' = IF Tells(h) THEN Word(h) ELSE status BY <1>1, StatusOfWord
<1> HIDE DEF h
<1> QED BY <1>1, <1>3, <1>4, <1>5 DEF StatusInv, FfiTypes, Settles

LEMMA OthersStatus ==
  ASSUME StatusInv,
         \/ ReceiveControl \/ AudioArrives \/ PollFormat \/ PollAudio \/ CallbackReturns
         \/ (\E c \in Callbacks \cup {0} : SetAudioCallback(c)) \/ SetAudioCallbackReturns
         \/ SetVolume \/ UNCHANGED ffiVars
  PROVE  StatusInv'
<1>1. UNCHANGED <<tcp, messages, todo, events, said, broken, status>>
  BY DEF ReceiveControl, AudioArrives, PollFormat, PollAudio, CallbackReturns, SetAudioCallback,
         SetAudioCallbackReturns, SetVolume, Aside, session, host, ffiVars
<1> QED BY <1>1 DEF StatusInv, FfiTypes

(* In every reachable state the status due is the one the host has, or is on *)
(* its way in the two queues between the session and the host.               *)
THEOREM StatusOnItsWay == FfiSpec => []StatusInv
<1>1. StatusInv /\ [FfiNext]_ffiVars => StatusInv'
  BY SendsStatus, AcceptStatus, ReadStatus, SendStatus, EndStatus, BreakStatus, AudioStatus,
     PollStatus, OthersStatus DEF FfiNext
<1> QED BY <1>1, StatusInit, PTL DEF FfiSpec

(* oaat_endpoint_get_status is right once the host has polled what was sent: *)
(* no event is lost or overtaken, whatever the channel holds.                *)
THEOREM StatusIsHonest == FfiSpec => []StatusHonest
<1>1. StatusInv => StatusHonest
  <2> SUFFICES ASSUME StatusInv, CaughtUp, ~broken PROVE status = said
    BY DEF StatusHonest
  <2>1. todo = <<>> /\ \A i \in DOMAIN events : events[i].type = "audio" BY DEF CaughtUp
  <2>2. ~Told(todo) BY <2>1 DEF Told
  <2>3. DOMAIN events = 1..Len(events) BY DEF StatusInv, FfiTypes
  <2>4. ~Told(events) BY <2>1, <2>3 DEF Told, Tells
  <2> QED BY <2>2, <2>4 DEF StatusInv, Settles
<1> QED BY <1>1, StatusOnItsWay, PTL

-----------------------------------------------------------------------------
(* The callback. *)

(* The mutex is held exactly while the callback runs. *)
CallbackInv ==
  /\ poll.at = "calling" <=> lock = "poll"
  /\ poll.at = "calling" => poll.runs = callback

(* A callback that set_audio_callback replaced does not run any more: the    *)
(* mutex that poll_event holds during the call is the one the setter takes.  *)
THEOREM CallbackSilenced == FfiSpec => []ReplacedIsSilent
<1>1. FfiInit => CallbackInv BY DEF FfiInit, CallbackInv, Waiting
<1>2. CallbackInv /\ [FfiNext]_ffiVars => CallbackInv'
  <2> SUFFICES ASSUME CallbackInv, [FfiNext]_ffiVars PROVE CallbackInv' OBVIOUS
  <2>0. Waiting.at = "idle" BY DEF Waiting
  <2>1. CASE Poll
    <3>1. poll = Waiting /\ UNCHANGED <<callback, lock>> BY <2>1 DEF Poll
    <3>2. poll'.at \in {"audio", "format", "idle"} BY <2>1 DEF Poll, Waiting
    <3> QED BY <2>0, <3>1, <3>2 DEF CallbackInv
  <2>2. CASE PollFormat
    BY <2>0, <2>2 DEF PollFormat, CallbackInv
  <2>3. CASE PollAudio
    BY <2>0, <2>3 DEF PollAudio, CallbackInv
  <2>4. CASE CallbackReturns
    BY <2>0, <2>4 DEF CallbackReturns, CallbackInv
  <2>5. CASE SetAudioCallbackReturns
    BY <2>5 DEF SetAudioCallbackReturns, CallbackInv
  <2>6. CASE UNCHANGED <<poll, callback, lock>>
    BY <2>6 DEF CallbackInv
  <2>7. ControllerSends \/ ControllerCloses \/ AcceptSession \/ Read \/ SendEvent \/ EndSession
          \/ BreakSession \/ ReceiveControl \/ AudioArrives \/ SendAudio \/ SetVolume
          \/ (\E c \in Callbacks \cup {0} : SetAudioCallback(c)) \/ UNCHANGED ffiVars
        => UNCHANGED <<poll, callback, lock>>
    BY DEF ControllerSends, ControllerCloses, AcceptSession, Read, SendEvent, EndSession,
           BreakSession, ReceiveControl, AudioArrives, SendAudio, SetVolume, SetAudioCallback,
           host, ffiVars
  <2> QED BY <2>1, <2>2, <2>3, <2>4, <2>5, <2>6, <2>7 DEF FfiNext
<1>3. CallbackInv => ReplacedIsSilent BY DEF CallbackInv, ReplacedIsSilent
<1> QED BY <1>1, <1>2, <1>3, PTL DEF FfiSpec
==============================================================================
