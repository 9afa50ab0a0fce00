--------------------------- MODULE OutputContract ---------------------------
(***************************************************************************)
(* What AlsaDirectOutput promises the endpoint that drives it: the header  *)
(* and the method comments of alsa_direct.rs as a state machine, without   *)
(* threads, queues or timeouts.  Module AlsaWriter implements it.          *)
(*                                                                         *)
(* Payloads are numbered in the order they are accepted.  Once a thread    *)
(* had to be left behind on a stuck device nothing more is promised.       *)
(***************************************************************************)
EXTENDS Naturals

VARIABLES
  call,      \* stop(), release(), configure() or flush() is running
  ready,     \* a stream is configured
  held,      \* the process holds the device
  accepted,  \* payloads taken so far
  mark,      \* the last payload that sounded or was given up
  lost       \* a thread was left behind

vars == <<call, ready, held, accepted, mark, lost>>

Init ==
  /\ ~call /\ ~ready /\ ~held /\ ~lost
  /\ accepted = 0 /\ mark = 0

(* A call ends the stream there was, and is not reentered. *)
Call ==
  /\ ~call /\ call'
  /\ ~ready'
  /\ UNCHANGED <<held, accepted, mark, lost>>

(* When it returns without a stream the device is free, and whatever was *)
(* accepted before does not sound any more.                              *)
Return ==
  /\ call /\ ~call'
  /\ ready' \/ ~held
  /\ mark' = accepted
  /\ UNCHANGED <<held, accepted, lost>>

Accept ==
  /\ ~call /\ ready
  /\ accepted' = accepted + 1
  /\ UNCHANGED <<call, ready, held, mark, lost>>

(* A payload sounds: once, in order, and on a device that is held. *)
Sound ==
  /\ held
  /\ mark' \in mark + 1 .. accepted
  /\ UNCHANGED <<call, ready, held, accepted, lost>>

(* The device is only taken for a stream that is or is being configured. *)
Take ==
  /\ call \/ ready
  /\ ~held /\ held'
  /\ UNCHANGED <<call, ready, accepted, mark, lost>>

LetGo ==
  /\ held /\ ~held'
  /\ UNCHANGED <<call, ready, accepted, mark, lost>>

(* Only a call gives up on the device. *)
GiveUp == (call \/ lost) /\ lost'

Next == Call \/ Return \/ Accept \/ Sound \/ Take \/ LetGo \/ GiveUp

Spec == Init /\ [][Next]_vars
=============================================================================
