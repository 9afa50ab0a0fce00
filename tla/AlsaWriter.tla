----------------------------- MODULE AlsaWriter -----------------------------
(***************************************************************************)
(* AlsaDirectOutput of oaat-endpoint: the thread that calls it, the writer *)
(* threads it spawns, one per configure(), and the ALSA device.            *)
(*                                                                         *)
(* The device is exclusive.  It may be absent, and it may be stuck: calls  *)
(* into it then do not return until it recovers.  The two timeouts of the  *)
(* caller are long enough for a device that works, so they elapse only     *)
(* while it is stuck.  Payloads are numbered in the order they are queued. *)
(***************************************************************************)
EXTENDS Naturals, Sequences, FiniteSets

CONSTANTS
  QueueCap,     \* WRITE_QUEUE_PAYLOADS, 256 in the code
  MaxThreads,   \* bound: writer threads spawned
  MaxPayloads   \* bound: payloads accepted

ASSUME AlsaWriterAssumption ==
  QueueCap \in Nat \ {0} /\ MaxThreads \in Nat /\ MaxPayloads \in Nat

VARIABLES
  caller,    \* what the calling thread waits for
  writer,    \* the writer in use, 0 for none
  playing,   \* the flag playing
  spawned,   \* writer threads so far
  thread,    \* the writer threads
  owner,     \* the thread that has the device open, 0 for none
  open,      \* the shared flag open
  present,   \* the device answers
  stuck,     \* calls into the device do not return
  accepted,  \* payloads queued so far
  settled,   \* ghost: payloads written, or dropped because the device was away
  mark,      \* ghost: the last payload written or given up by a call
  left       \* ghost: threads left behind by a timeout

device == <<present, stuck>>
ghosts == <<settled, mark, left>>
vars == <<caller, writer, playing, spawned, thread, owner, open, present, stuck,
          accepted, settled, mark, left>>

Threads == 1..MaxThreads

(***************************************************************************)
(* pc: "none" before it is spawned, "open" in the first open, "recv"       *)
(* waiting for a payload, "got" with one, "idle" and "exit" closing the    *)
(* device, "closed" before it clears the flag, "done".  then: where        *)
(* "closed" leads.                                                         *)
(***************************************************************************)
NewThread ==
  [pc |-> "none", then |-> "done", sender |-> TRUE, stop |-> FALSE, queue |-> <<>>,
   held |-> 0, backoff |-> FALSE, report |-> "none"]

Idle == [op |-> "none", at |-> "idle", on |-> 0]

Init ==
  /\ caller = Idle /\ writer = 0 /\ playing = FALSE /\ spawned = 0
  /\ thread = [g \in Threads |-> NewThread]
  /\ owner = 0 /\ open = FALSE /\ present \in BOOLEAN /\ stuck = FALSE
  /\ accepted = 0 /\ settled = {} /\ mark = 0 /\ left = {}

-----------------------------------------------------------------------------
(* The calling thread. *)

Becomes(g, t) == thread' = [thread EXCEPT ![g] = t]

Goes(g, pc) == Becomes(g, [thread[g] EXCEPT !.pc = pc])

Discards(op) == op \in {"release", "flush"}

(***************************************************************************)
(* stop(), release(), configure() and flush() first shut the writer down:  *)
(* it is told whether to discard and loses its sender.                     *)
(***************************************************************************)
Begin(op) ==
  /\ caller = Idle
  /\ op \in {"configure", "flush"} => spawned < MaxThreads
  /\ playing' = FALSE
  /\ writer' = 0
  /\ IF writer = 0
     THEN /\ caller' = [op |-> op, at |-> "shut", on |-> 0]
          /\ UNCHANGED thread
     ELSE /\ caller' = [op |-> op, at |-> "shutdown", on |-> writer]
          /\ Becomes(writer, [thread[writer] EXCEPT !.stop = Discards(op), !.sender = FALSE])
  /\ UNCHANGED <<spawned, owner, open, device, accepted, ghosts>>

ShutdownDone ==
  /\ caller.at = "shutdown" /\ thread[caller.on].pc = "done"
  /\ caller' = [caller EXCEPT !.at = "shut"]
  /\ UNCHANGED <<writer, playing, spawned, thread, owner, open, device, accepted, ghosts>>

(* Faulty variant: no deadline. *)
ShutdownTimeoutNever == FALSE /\ UNCHANGED vars

ShutdownTimeout ==
  /\ caller.at = "shutdown" /\ thread[caller.on].pc # "done" /\ stuck
  /\ caller' = [caller EXCEPT !.at = "shut"]
  /\ left' = left \cup {caller.on}
  /\ UNCHANGED <<writer, playing, spawned, thread, owner, open, device, accepted,
                 settled, mark>>

(* stop() and release() return; configure() and flush() spawn a writer. *)
AfterShutdown ==
  /\ caller.at = "shut"
  /\ IF caller.op \in {"stop", "release"}
     THEN caller' = Idle /\ mark' = accepted /\ UNCHANGED <<spawned, thread>>
     ELSE /\ spawned' = spawned + 1
          /\ Goes(spawned + 1, "open")
          /\ caller' = [caller EXCEPT !.at = "open", !.on = spawned + 1]
          /\ UNCHANGED mark
  /\ UNCHANGED <<writer, playing, owner, open, device, accepted, settled, left>>

(* The first open is reported; flush() plays whatever the result. *)
OpenReported ==
  /\ caller.at = "open" /\ thread[caller.on].report # "none"
  /\ writer' = IF thread[caller.on].report = "ok" THEN caller.on ELSE 0
  /\ playing' = (caller.op = "flush")
  /\ caller' = Idle /\ mark' = accepted
  /\ UNCHANGED <<spawned, thread, owner, open, device, accepted, settled, left>>

OpenTimeout ==
  /\ caller.at = "open" /\ thread[caller.on].report = "none" /\ stuck
  /\ Becomes(caller.on, [thread[caller.on] EXCEPT !.stop = TRUE, !.sender = FALSE])
  /\ left' = left \cup {caller.on}
  /\ playing' = (caller.op = "flush")
  /\ caller' = Idle /\ mark' = accepted
  /\ UNCHANGED <<writer, spawned, owner, open, device, accepted, settled>>

PlayPause ==
  /\ caller = Idle
  /\ playing' = ~playing
  /\ UNCHANGED <<caller, writer, spawned, thread, owner, open, device, accepted, ghosts>>

Queued == Becomes(writer, [thread[writer] EXCEPT !.queue = Append(@, accepted + 1)])

(* write_audio(): queues the payload, or waits for room. *)
WriteAudio ==
  /\ caller = Idle /\ playing /\ writer # 0 /\ accepted < MaxPayloads
  /\ IF Len(thread[writer].queue) < QueueCap
     THEN Queued /\ accepted' = accepted + 1 /\ caller' = caller
     ELSE /\ caller' = [op |-> "write", at |-> "write", on |-> writer]
          /\ UNCHANGED <<thread, accepted>>
  /\ UNCHANGED <<writer, playing, spawned, owner, open, device, ghosts>>

WriteResumes ==
  /\ caller.at = "write" /\ Len(thread[writer].queue) < QueueCap
  /\ Queued /\ accepted' = accepted + 1 /\ caller' = Idle
  /\ UNCHANGED <<writer, playing, spawned, owner, open, device, ghosts>>

-----------------------------------------------------------------------------
(* A writer thread. *)

(* The calling thread and the environment are left alone. *)
Aside == UNCHANGED <<caller, writer, playing, spawned, device, accepted, left>>

CanOpen == present /\ owner = 0

(* The first open; on failure the thread reports and returns. *)
FirstOpen(g) ==
  /\ thread[g].pc = "open" /\ ~stuck
  /\ IF CanOpen
     THEN /\ owner' = g /\ open' = TRUE
          /\ Becomes(g, [thread[g] EXCEPT !.pc = "recv", !.report = "ok"])
     ELSE /\ Becomes(g, [thread[g] EXCEPT !.pc = "done", !.report = "error"])
          /\ UNCHANGED <<owner, open>>
  /\ UNCHANGED <<settled, mark>> /\ Aside

Receive(g) ==
  /\ thread[g].pc = "recv" /\ thread[g].queue # <<>>
  /\ Becomes(g, [thread[g] EXCEPT !.pc = "got", !.held = Head(thread[g].queue),
                                  !.queue = Tail(@)])
  /\ UNCHANGED <<owner, open, settled, mark>> /\ Aside

(* Ten seconds without audio. *)
IdleClose(g) ==
  /\ thread[g].pc = "recv" /\ thread[g].queue = <<>> /\ thread[g].sender /\ owner = g
  /\ Goes(g, "idle")
  /\ UNCHANGED <<owner, open, settled, mark>> /\ Aside

Disconnected(g) ==
  /\ thread[g].pc = "recv" /\ thread[g].queue = <<>> /\ ~thread[g].sender
  /\ Goes(g, "exit")
  /\ UNCHANGED <<owner, open, settled, mark>> /\ Aside

(* Faulty variant: a queue whose sender is gone is not played out. *)
DiscardQueueEarly(g) ==
  /\ thread[g].pc = "got" /\ (thread[g].stop \/ ~thread[g].sender)
  /\ Becomes(g, [thread[g] EXCEPT !.pc = "exit", !.held = 0, !.queue = <<>>])
  /\ UNCHANGED <<owner, open, settled, mark>> /\ Aside

(* release() and flush(): the rest of the queue is discarded. *)
DiscardQueue(g) ==
  /\ thread[g].pc = "got" /\ thread[g].stop
  /\ Becomes(g, [thread[g] EXCEPT !.pc = "exit", !.held = 0, !.queue = <<>>])
  /\ UNCHANGED <<owner, open, settled, mark>> /\ Aside

Drops(g, backoff) ==
  /\ Becomes(g, [thread[g] EXCEPT !.pc = "recv", !.held = 0, !.backoff = backoff])
  /\ settled' = settled \cup {thread[g].held}

(* ensure_open() with a retry pending, or an open that fails. *)
Absent(g) ==
  /\ thread[g].pc = "got" /\ ~thread[g].stop /\ owner # g
  /\ thread[g].backoff \/ (~CanOpen /\ ~stuck)
  /\ Drops(g, TRUE)
  /\ UNCHANGED <<owner, open, mark>> /\ Aside

Reopen(g) ==
  /\ thread[g].pc = "got" /\ ~thread[g].stop /\ owner # g
  /\ ~thread[g].backoff /\ CanOpen /\ ~stuck
  /\ owner' = g /\ open' = TRUE
  /\ UNCHANGED <<thread, settled, mark>> /\ Aside

BackoffElapses(g) ==
  /\ thread[g].backoff /\ thread[g].pc \in {"recv", "got"}
  /\ Becomes(g, [thread[g] EXCEPT !.backoff = FALSE])
  /\ UNCHANGED <<owner, open, settled, mark>> /\ Aside

Writing(g) == thread[g].pc = "got" /\ ~thread[g].stop /\ owner = g /\ ~stuck

WriteAll(g) ==
  /\ Writing(g) /\ present
  /\ settled' = settled \cup {thread[g].held} /\ mark' = thread[g].held
  /\ Becomes(g, [thread[g] EXCEPT !.pc = "recv", !.held = 0])
  /\ UNCHANGED <<owner, open>> /\ Aside

(* Faulty variant: the flag stays when the device is lost. *)
FailOpen(g) ==
  /\ Writing(g) /\ ~present
  /\ Drops(g, TRUE)
  /\ owner' = 0
  /\ UNCHANGED <<open, mark>> /\ Aside

(* A fatal error: the device is closed, the next payload reopens it. *)
Fail(g) ==
  /\ Writing(g) /\ ~present
  /\ Drops(g, TRUE)
  /\ owner' = 0 /\ open' = FALSE
  /\ UNCHANGED mark /\ Aside

(* close(): drain() or discard(), then the device is dropped. *)
Close(g) ==
  /\ thread[g].pc \in {"idle", "exit"} /\ owner = g /\ ~stuck
  /\ owner' = 0
  /\ Becomes(g, [thread[g] EXCEPT !.pc = "closed",
                                  !.then = IF thread[g].pc = "idle" THEN "recv" ELSE "done"])
  /\ UNCHANGED <<open, settled, mark>> /\ Aside

(* Faulty variant: the thread returns with the device open. *)
ClosedAlreadyAnyway(g) ==
  /\ thread[g].pc = "exit"
  /\ Goes(g, "done")
  /\ UNCHANGED <<owner, open, settled, mark>> /\ Aside

ClosedAlready(g) ==
  /\ thread[g].pc = "exit" /\ owner # g
  /\ Goes(g, "done")
  /\ UNCHANGED <<owner, open, settled, mark>> /\ Aside

ClearFlag(g) ==
  /\ thread[g].pc = "closed"
  /\ open' = FALSE
  /\ Goes(g, thread[g].then)
  /\ UNCHANGED <<owner, settled, mark>> /\ Aside

-----------------------------------------------------------------------------
(* The device. *)

Plug ==
  /\ ~stuck /\ present' = ~present
  /\ UNCHANGED <<caller, writer, playing, spawned, thread, owner, open, stuck, accepted, ghosts>>

Stick ==
  /\ stuck' = ~stuck
  /\ UNCHANGED <<caller, writer, playing, spawned, thread, owner, open, present, accepted, ghosts>>

CallerStep ==
  \/ ShutdownDone \/ ShutdownTimeout \/ AfterShutdown \/ OpenReported \/ OpenTimeout
  \/ WriteResumes

ThreadStep(g) ==
  \/ FirstOpen(g) \/ Receive(g) \/ Disconnected(g) \/ DiscardQueue(g)
  \/ Absent(g) \/ Reopen(g) \/ WriteAll(g) \/ Fail(g)
  \/ Close(g) \/ ClosedAlready(g) \/ ClearFlag(g)

Next ==
  \/ \E op \in {"stop", "release", "configure", "flush"} : Begin(op)
  \/ CallerStep \/ PlayPause \/ WriteAudio
  \/ \E g \in Threads : ThreadStep(g) \/ IdleClose(g) \/ BackoffElapses(g)
  \/ Plug \/ Stick

(* Threads run; a call into the device returns unless it is stuck for good. *)
Spec ==
  /\ Init /\ [][Next]_vars
  /\ SF_vars(CallerStep)
  /\ \A g \in Threads : SF_vars(ThreadStep(g))

-----------------------------------------------------------------------------
(* Properties. *)

Pending == UNION {{thread[g].held} \cup {thread[g].queue[i] : i \in DOMAIN thread[g].queue} :
                    g \in Threads}

Quiet == left = {} /\ \A g \in Threads : thread[g].pc # "closed"

(* device_open() tells whether the device is open, through losses, reopens   *)
(* and idle closes, as long as no thread was left behind.                    *)
OpenHonest == Quiet => (open <=> owner # 0)

(* Nothing is lost on the way: what write_audio() accepted is queued, or was  *)
(* written, or was dropped because the device was away, unless release() or  *)
(* flush() discarded it.  So stop() plays out what is queued.                *)
NothingLost ==
  left = {} /\ (\A g \in Threads : ~thread[g].stop) =>
    1..accepted \subseteq Pending \cup settled

Contract == INSTANCE OutputContract WITH
  call <- caller.at \in {"shutdown", "shut", "open"}, ready <- writer # 0,
  held <- owner # 0, lost <- left # {}

(* The output keeps its promises: when stop() or release() has returned, or   *)
(* configure() failed, the device is closed and stays so; payloads sound in  *)
(* order, at most once, and never after a call that followed them.           *)
ImplementsContract == Contract!Spec

(* stop(), release(), configure() and flush() return, also when the device   *)
(* is stuck; write_audio() returns when the device does not stay stuck.      *)
CallsReturn ==
  /\ (caller.at \in {"shutdown", "shut", "open"}) ~> (caller = Idle)
  /\ <>[]~stuck => ((caller.at = "write") ~> (caller = Idle))
=============================================================================
