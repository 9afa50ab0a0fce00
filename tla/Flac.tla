-------------------------------- MODULE Flac --------------------------------
(***************************************************************************)
(* FlacStreamDecoder of oaat-endpoint: a FLAC stream cut into packets at   *)
(* any place, some of which do not arrive, is put together again, frame by *)
(* frame.                                                                  *)
(*                                                                         *)
(* A byte is its position in the stream the encoder wrote, so that what a  *)
(* run of bytes means follows from where it comes from.  What the audio    *)
(* looks like is chosen at the start: its bytes may be taken for the       *)
(* beginning of a header, three of them for a whole one, and the CRC-16    *)
(* may match too early.                                                    *)
(***************************************************************************)
EXTENDS Naturals, Sequences, FiniteSets

CONSTANTS
  MagicLen,      \* the bytes "fLaC", 4 in the code
  Metadata,      \* metadata blocks a stream can have, as sets of names
  BlockLen,      \* bytes of a metadata block
  Frames,        \* frames of a stream
  FrameLen,      \* bytes of a frame
  HeaderLen,     \* bytes of a frame header
  MaxFrame,      \* MAX_FRAME_BYTES
  MaxChunk,      \* bytes of a packet
  MaxLosses,     \* bound: packets that do not arrive
  Coincidence    \* a CRC-16 may match early with a header in sight behind it

ASSUME FlacAssumption ==
  /\ {MagicLen, BlockLen, HeaderLen, MaxChunk, Frames} \subseteq Nat \ {0}
  /\ HeaderLen >= 2 /\ FrameLen > HeaderLen + 2 /\ MaxFrame > FrameLen
  /\ MaxLosses \in Nat /\ Coincidence \in BOOLEAN

VARIABLES
  blocks,       \* the metadata blocks of the stream
  looks,        \* what the bytes behind a frame's header look like
  mocks,        \* three bytes of audio may pass for a frame header
  chance,       \* where in a frame the CRC-16 matches too early
  sent,         \* bytes of the stream sent so far
  buf,          \* the field buf
  initialized,  \* the field initialized, and decoder
  out,          \* frames decoded
  since,        \* ghost: what arrived of a stream whose first packet arrived
  losses        \* packets lost, or dropped by a muted output

stream == <<blocks, looks, mocks, chance>>
vars == <<blocks, looks, mocks, chance, sent, buf, initialized, out, since, losses>>

-----------------------------------------------------------------------------
(* The stream. *)

Offsets == HeaderLen + 1 .. FrameLen

Top == MagicLen + BlockLen * Cardinality(blocks)

Total == Top + Frames * FrameLen

Start(f) == Top + (f - 1) * FrameLen + 1

End(f) == Top + f * FrameLen

(* The frame a byte belongs to and its place there. *)
FrameOf(p) == ((p - Top - 1) \div FrameLen) + 1

Offset(p) == ((p - Top - 1) % FrameLen) + 1

Look(p) ==
  IF p <= Top THEN "plain"
  ELSE IF Offset(p) = 1 THEN "sync"
  ELSE IF Offset(p) = 2 THEN "code"
  ELSE IF Offset(p) \in Offsets THEN looks[Offset(p)] ELSE "plain"

Bytes(m, n) == [i \in 1 .. n - m + 1 |-> m + i - 1]

Unbroken(b) == \A i \in 1 .. Len(b) - 1 : b[i + 1] = b[i] + 1

(* The bytes of a whole frame. *)
Whole(b) ==
  /\ b # <<>> /\ b[1] > Top /\ Offset(b[1]) = 1
  /\ Len(b) = FrameLen /\ Unbroken(b)

-----------------------------------------------------------------------------
(* frame_header and frame_end. *)

(* crc8: the check at the end of a header. *)
HeaderChecks(b) ==
  LET h == SubSeq(b, 1, HeaderLen)
  IN  Unbroken(h) /\ (mocks \/ (h[1] > Top /\ Offset(h[1]) = 1))

FrameHeader(b) ==
  IF b = <<>> THEN "incomplete"
  ELSE IF Look(b[1]) # "sync" THEN "invalid"
  ELSE IF Len(b) < 2 THEN "incomplete"
  ELSE IF Look(b[2]) # "code" THEN "invalid"
  ELSE IF Len(b) < HeaderLen THEN "incomplete"
  ELSE IF HeaderChecks(b) THEN "valid" ELSE "invalid"

(* crc16_update: the check of the first n bytes, a header at their start. *)
Matches(b, n) ==
  LET c == SubSeq(b, 1, n)
  IN  Whole(c) \/ (Unbroken(c) /\ Offset(c[1]) = 1 /\ n \in chance)

From(b, i) == SubSeq(b, i, Len(b))

(* Faulty variant: what follows is not looked at. *)
FrameEndHasty(b) ==
  {n \in HeaderLen + 3 .. Len(b) :
     /\ Matches(b, n)
     /\ \A k \in HeaderLen + 3 .. n - 1 : ~Matches(b, k)}

(* The first place where the CRC-16 matches and nothing, or what can be a *)
(* header, follows.                                                       *)
FrameEnd(b) ==
  LET Ends == {n \in HeaderLen + 3 .. Len(b) :
                 Matches(b, n) /\ FrameHeader(From(b, n + 1)) # "invalid"}
  IN  {n \in Ends : \A k \in Ends : n <= k}

-----------------------------------------------------------------------------
(* drain_frames. *)

Starts(b) == {i \in 1 .. Len(b) : FrameHeader(From(b, i)) # "invalid"}

(* The decoder of the library: a frame that is not whole is an error. *)
Decodes(b) == Whole(b)

(* Faulty variant: a frame that stays open is waited for. *)
TooLongNever(b) == FALSE

TooLong(b) == Len(b) > MaxFrame

(* Faulty variant: everything is given up. *)
PassOverAll(b) == <<>>

PassOver(b) == Tail(b)

(***************************************************************************)
(* Complete frames are cut out of the buffer and decoded.  It keeps a      *)
(* frame or a header that is still open; one that stays open for too long  *)
(* is passed over byte by byte.  A frame that does not decode is waited    *)
(* for when it ends the buffer and skipped when it does not.               *)
(***************************************************************************)
RECURSIVE DrainFrames(_, _)
DrainFrames(b, done) ==
  IF Starts(b) = {} THEN [buf |-> <<>>, out |-> done]
  ELSE LET c == From(b, CHOOSE i \in Starts(b) : \A j \in Starts(b) : i <= j)
           e == FrameEnd(c)
       IN  IF FrameHeader(c) = "incomplete" THEN [buf |-> c, out |-> done]
           ELSE IF e = {} /\ TooLong(c) THEN DrainFrames(PassOver(c), done)
           ELSE IF e = {} THEN [buf |-> c, out |-> done]
           ELSE LET n == CHOOSE n \in e : TRUE
                    frame == SubSeq(c, 1, n)
                IN  IF Decodes(frame)
                    THEN DrainFrames(From(c, n + 1), Append(done, FrameOf(c[1])))
                    ELSE IF n = Len(c) THEN [buf |-> c, out |-> done]
                    ELSE DrainFrames(From(c, n + 1), done)

-----------------------------------------------------------------------------
(* feed and reset. *)

Kept(b) == buf' = b /\ UNCHANGED <<initialized, out>>

(***************************************************************************)
(* Before the header is there: too little to tell, not the beginning of a  *)
(* stream, metadata not complete, no STREAMINFO among it, or ready.        *)
(***************************************************************************)
Feed(data) ==
  LET b == buf \o data
      d == IF initialized THEN DrainFrames(b, out) ELSE DrainFrames(From(b, Top + 1), out)
  IN  IF initialized THEN buf' = d.buf /\ out' = d.out /\ UNCHANGED initialized
      ELSE IF Len(b) < MagicLen THEN Kept(b)
      ELSE IF SubSeq(b, 1, MagicLen) # Bytes(1, MagicLen) THEN Kept(<<>>)
      ELSE IF Len(b) < Top THEN Kept(b)
      ELSE IF "info" \notin blocks THEN Kept(<<>>)
      ELSE buf' = d.buf /\ out' = d.out /\ initialized' = TRUE

(* reset(), and a new decoder: stop(), release(), configure() and flush(). *)
Reset ==
  /\ buf' = <<>> /\ initialized' = FALSE /\ out' = <<>>
  /\ since' = <<>>

-----------------------------------------------------------------------------
(* The packets. *)

Init ==
  /\ blocks \in Metadata
  /\ looks \in [Offsets -> {"plain", "sync", "code"}]
  /\ mocks \in BOOLEAN
  /\ chance \in SUBSET (HeaderLen + 3 .. FrameLen - 1)
  /\ Coincidence \/ \A n \in chance : looks[n + 1] # "sync"
  /\ sent = 0 /\ buf = <<>> /\ initialized = FALSE /\ out = <<>>
  /\ since = <<>> /\ losses = 0

Packet(n) == Bytes(sent + 1, sent + n)

Arrives(n) ==
  /\ sent + n <= Total
  /\ Feed(Packet(n))
  /\ sent' = sent + n
  /\ since' = IF sent = 0 \/ since # <<>> THEN since \o Packet(n) ELSE <<>>
  /\ UNCHANGED <<stream, losses>>

(* Lost, or written while the ALSA output is muted.  A packet from the    *)
(* middle of the metadata is not: what the rest is taken for is arbitrary. *)
IsLost(n) ==
  /\ sent + n <= Total /\ losses < MaxLosses
  /\ since = <<>> \/ sent >= Top
  /\ sent' = sent + n /\ losses' = losses + 1
  /\ UNCHANGED <<stream, buf, initialized, out, since>>

(* The sender starts a stream again, or goes on with the one there is. *)
Restart ==
  /\ Reset
  /\ sent' \in {0, sent}
  /\ UNCHANGED <<stream, losses>>

Next ==
  \/ \E n \in 1..MaxChunk : Arrives(n) \/ IsLost(n)
  \/ Restart

Spec == Init /\ [][Next]_vars

-----------------------------------------------------------------------------
(* Properties. *)

Range(s) == {s[i] : i \in DOMAIN s}

(* However the stream is cut into packets, the frames decoded are those that *)
(* have arrived whole, in order and without waiting for the next packet,     *)
(* also when audio looks like a header or a CRC-16 matches too early.        *)
Exact ==
  since = Bytes(1, sent) /\ "info" \in blocks =>
    out = SelectSeq(Bytes(1, Frames), LAMBDA f : End(f) <= sent)

(* What is unread stays bounded, through losses and streams that cannot be   *)
(* decoded: by the header before it is complete, by MaxFrame after it.       *)
BufferBounded == Len(buf) <= IF initialized THEN MaxFrame ELSE Top - 1

(* After a loss decoding goes on: a frame that has arrived whole, with the   *)
(* next one after it, is decoded at the latest when MaxFrame bytes have      *)
(* arrived since it began.                                                   *)
Recovers ==
  initialized =>
    \A i \in DOMAIN since :
      /\ Len(since) - i >= MaxFrame
      /\ Whole(SubSeq(since, i, i + FrameLen - 1))
      /\ since[i + FrameLen] = since[i] + FrameLen
      => FrameOf(since[i]) \in Range(out)
=============================================================================
