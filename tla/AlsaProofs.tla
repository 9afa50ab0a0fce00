----------------------------- MODULE AlsaProofs -----------------------------
(***************************************************************************)
(* The inductive invariant of AlsaWriter, for any number of writer         *)
(* threads, payloads and any capacity of the queue, and what follows from  *)
(* it: AlsaWriter implements OutputContract, device_open() is right, and   *)
(* no payload gets lost.                                                   *)
(*                                                                         *)
(* What it says: as long as no thread was left behind there is             *)
(* at most one that is neither done nor yet to be spawned (Current), only  *)
(* it can hold the device, and what it has still to write was accepted     *)
(* after everything that has sounded.                                      *)
(***************************************************************************)
EXTENDS AlsaWriter, SequenceTheorems, TLAPS

Pcs == {"none", "open", "recv", "got", "idle", "exit", "closed", "done"}
Ops == {"none", "stop", "release", "configure", "flush", "write"}
Ats == {"idle", "shutdown", "shut", "open", "write"}

ThreadType ==
  [pc : Pcs, then : {"recv", "done"}, sender : BOOLEAN, stop : BOOLEAN, queue : Seq(Nat),
   held : Nat, backoff : BOOLEAN, report : {"none", "ok", "error"}]

Types ==
  /\ caller \in [op : Ops, at : Ats, on : Nat]
  /\ writer \in Threads \cup {0} /\ owner \in Threads \cup {0} /\ spawned \in 0..MaxThreads
  /\ thread \in [Threads -> ThreadType]
  /\ accepted \in Nat /\ mark \in Nat

Waits == {"shutdown", "open"}

(* The thread that is in use, being started or being shut down. *)
Current == IF writer # 0 THEN writer ELSE IF caller.at \in Waits THEN caller.on ELSE 0

(* The calling thread: what it may be waiting for, and for whom. *)
CallerInv ==
  /\ caller.at = "idle" <=> caller = Idle
  /\ caller.at \in {"shutdown", "shut", "open"} =>
       /\ writer = 0
       /\ caller.op \in {"stop", "release", "configure", "flush"}
  /\ caller.at \in {"shutdown", "shut"} /\ caller.op \in {"configure", "flush"} =>
       spawned < MaxThreads
  /\ writer <= spawned
  /\ caller.at \in Waits => caller.on \in Threads /\ caller.on <= spawned
  /\ caller.at = "write" => writer # 0
  /\ caller.at = "open" => thread[caller.on].queue = <<>> /\ thread[caller.on].pc # "got"

(* The threads: untouched until spawned, over once the first open failed. *)
ThreadInv ==
  \A g \in Threads :
    /\ g > spawned => thread[g] = NewThread
    /\ thread[g].report = "error" => thread[g].pc = "done"

(* Payloads q in increasing order, after lo and up to hi. *)
Between(q, lo, hi) ==
  /\ \A i \in 1..Len(q) : lo < q[i] /\ q[i] <= hi
  /\ \A i, j \in 1..Len(q) : i < j => q[i] < q[j]

(* What a thread has still to write. *)
PayloadInv(g) ==
  /\ Between(thread[g].queue, mark, accepted)
  /\ thread[g].pc = "got" =>
       /\ mark < thread[g].held /\ thread[g].held <= accepted
       /\ Between(thread[g].queue, thread[g].held, accepted)

(* Without a thread left behind, only the current one is alive. *)
SingleInv ==
  /\ mark <= accepted
  /\ \A g \in Threads : g # Current => thread[g].pc \in {"none", "done"}
  /\ owner # 0 => owner = Current /\ thread[owner].pc \in {"recv", "got", "idle", "exit"}
  /\ Current # 0 => PayloadInv(Current)

IInv ==
  /\ Types /\ CallerInv /\ ThreadInv
  /\ left = {} => SingleInv

-----------------------------------------------------------------------------
(* Queues. *)

(* A payload that is numbered next goes to the end of the queue.              *)
LEMMA BetweenAppend ==
  ASSUME NEW q \in Seq(Nat), NEW lo \in Nat, NEW hi \in Nat, lo <= hi, Between(q, lo, hi)
  PROVE  Append(q, hi + 1) \in Seq(Nat) /\ Between(Append(q, hi + 1), lo, hi + 1)
BY DEF Between

(* The head of a queue comes before the rest of it.                           *)
LEMMA BetweenTail ==
  ASSUME NEW q \in Seq(Nat), q # <<>>, NEW lo \in Nat, NEW hi \in Nat, Between(q, lo, hi)
  PROVE  /\ Head(q) \in Nat /\ lo < Head(q) /\ Head(q) <= hi
         /\ Tail(q) \in Seq(Nat) /\ Between(Tail(q), Head(q), hi)
         /\ Between(Tail(q), lo, hi)
BY DEF Between

(* Nothing queued is between any two numbers.                                 *)
LEMMA BetweenEmpty == \A lo, hi : Between(<<>>, lo, hi)
BY DEF Between
-----------------------------------------------------------------------------
(* The invariant. *)

(* Nothing runs and nothing is held at the start.                             *)
LEMMA InitInv == Init => IInv
BY AlsaWriterAssumption DEF Init, IInv, Types, CallerInv, ThreadInv, SingleInv, ThreadType,
   NewThread, Idle, Current, Waits, Threads, Pcs, Ops, Ats

(* Becomes changes one thread.                                                *)
LEMMA BecomesOne ==
  ASSUME Types, NEW g \in Threads, NEW t \in ThreadType, Becomes(g, t)
  PROVE  /\ thread' \in [Threads -> ThreadType]
         /\ thread'[g] = t
         /\ \A h \in Threads : h # g => thread'[h] = thread[h]
BY DEF Types, Becomes

(* Whom a shutdown tells what, and what it leaves alone.                      *)
LEMMA ToldType ==
  ASSUME NEW t \in ThreadType, NEW b \in BOOLEAN
  PROVE  /\ [t EXCEPT !.stop = b, !.sender = FALSE] \in ThreadType
         /\ [t EXCEPT !.stop = b, !.sender = FALSE].pc = t.pc
         /\ [t EXCEPT !.stop = b, !.sender = FALSE].queue = t.queue
         /\ [t EXCEPT !.stop = b, !.sender = FALSE].held = t.held
         /\ [t EXCEPT !.stop = b, !.sender = FALSE].report = t.report
BY DEF ThreadType

(* A thread moves on.                                                         *)
LEMMA GoesType ==
  ASSUME NEW t \in ThreadType, NEW pc \in Pcs
  PROVE  /\ [t EXCEPT !.pc = pc] \in ThreadType
         /\ [t EXCEPT !.pc = pc].pc = pc
         /\ [t EXCEPT !.pc = pc].queue = t.queue
         /\ [t EXCEPT !.pc = pc].held = t.held
         /\ [t EXCEPT !.pc = pc].report = t.report
BY DEF ThreadType

(* A payload joins a queue.                                                   *)
LEMMA QueueType ==
  ASSUME NEW t \in ThreadType, NEW q \in Seq(Nat)
  PROVE  /\ [t EXCEPT !.queue = q] \in ThreadType
         /\ [t EXCEPT !.queue = q].pc = t.pc
         /\ [t EXCEPT !.queue = q].queue = q
         /\ [t EXCEPT !.queue = q].held = t.held
         /\ [t EXCEPT !.queue = q].report = t.report
BY DEF ThreadType

(* stop(), release(), configure() and flush() start.                          *)
LEMMA BeginInv ==
  ASSUME IInv, NEW op \in {"stop", "release", "configure", "flush"}, Begin(op)
  PROVE  IInv'
<1>1. CASE writer = 0
  <2>1. /\ thread' = thread /\ writer' = 0 /\ spawned' = spawned /\ owner' = owner
        /\ accepted' = accepted /\ mark' = mark /\ left' = left
        /\ caller' = [op |-> op, at |-> "shut", on |-> 0] /\ caller.at = "idle"
        /\ op \in {"configure", "flush"} => spawned < MaxThreads
    BY <1>1 DEF Begin, ghosts, Idle
  <2>2. Types' /\ CallerInv' /\ ThreadInv'
    BY <2>1 DEF IInv, Types, CallerInv, ThreadInv, Ops, Ats, Waits, Idle
  <2>3. left' = {} => SingleInv'
    BY <2>1, <1>1 DEF IInv, SingleInv, Current, Waits
  <2> QED BY <2>2, <2>3 DEF IInv
<1>2. CASE writer # 0
  <2> DEFINE t == [thread[writer] EXCEPT !.stop = Discards(op), !.sender = FALSE]
  <2>1. /\ Becomes(writer, t)
        /\ writer' = 0 /\ spawned' = spawned /\ owner' = owner
        /\ accepted' = accepted /\ mark' = mark /\ left' = left
        /\ caller' = [op |-> op, at |-> "shutdown", on |-> writer] /\ caller.at = "idle"
        /\ op \in {"configure", "flush"} => spawned < MaxThreads
        /\ writer \in Threads /\ writer <= spawned
    BY <1>2 DEF Begin, ghosts, Idle, IInv, Types, CallerInv
  <2>a. thread[writer] \in ThreadType /\ Discards(op) \in BOOLEAN
    BY <2>1 DEF IInv, Types, Discards
  <2>b. /\ t \in ThreadType /\ t.pc = thread[writer].pc /\ t.queue = thread[writer].queue
        /\ t.held = thread[writer].held /\ t.report = thread[writer].report
    BY <2>a, ToldType
  <2> HIDE DEF t
  <2>2. /\ \A g \in Threads : g # writer => thread'[g] = thread[g]
        /\ thread'[writer] = t
        /\ thread' \in [Threads -> ThreadType]
    BY <2>1, <2>b, BecomesOne DEF IInv
  <2>3. \A g \in Threads :
          /\ thread'[g].pc = thread[g].pc /\ thread'[g].queue = thread[g].queue
          /\ thread'[g].held = thread[g].held /\ thread'[g].report = thread[g].report
    BY <2>b, <2>2
  <2>4. Types' /\ CallerInv'
    BY <2>1, <2>2 DEF IInv, Types, CallerInv, Ops, Ats, Waits, Idle, Threads
  <2>5. ThreadInv'
    BY <2>1, <2>2, <2>3, AlsaWriterAssumption DEF IInv, ThreadInv, Threads, Types
  <2>6. Current = writer /\ Current' = writer
    BY <2>1, <1>2 DEF Current, Waits
  <2>7. PayloadInv(writer) => PayloadInv(Current)'
    BY <2>1, <2>3, <2>6 DEF PayloadInv
  <2>8. left' = {} => SingleInv'
    BY <2>1, <2>3, <2>6, <2>7 DEF IInv, Types, SingleInv
  <2> QED BY <2>4, <2>5, <2>8 DEF IInv
<1> QED BY <1>1, <1>2

(* The thread that was shut down has returned: it is not the owner.           *)
LEMMA ShutdownDoneInv == ASSUME IInv, ShutdownDone PROVE IInv'
<1>1. /\ thread' = thread /\ writer' = writer /\ spawned' = spawned /\ owner' = owner
      /\ accepted' = accepted /\ mark' = mark /\ left' = left
      /\ caller' = [caller EXCEPT !.at = "shut"] /\ caller.at = "shutdown"
      /\ thread[caller.on].pc = "done" /\ writer = 0
  BY DEF ShutdownDone, ghosts, IInv, CallerInv
<1>2. caller'.op = caller.op /\ caller'.at = "shut" /\ caller' \in [op : Ops, at : Ats, on : Nat]
  BY <1>1 DEF IInv, Types, Ats
<1>3. Types' /\ CallerInv' /\ ThreadInv'
  BY <1>1, <1>2 DEF IInv, Types, CallerInv, ThreadInv, Waits, Idle
<1>4. left' = {} => SingleInv'
  BY <1>1, <1>2 DEF IInv, SingleInv, Current, Waits
<1> QED BY <1>3, <1>4 DEF IInv

(* The calling thread leaves a thread behind on a stuck device.               *)
LEMMA ShutdownTimeoutInv == ASSUME IInv, ShutdownTimeout PROVE IInv'
<1>1. /\ thread' = thread /\ writer' = writer /\ spawned' = spawned /\ owner' = owner
      /\ accepted' = accepted /\ mark' = mark /\ left' = left \cup {caller.on}
      /\ caller' = [caller EXCEPT !.at = "shut"] /\ caller.at = "shutdown" /\ writer = 0
  BY DEF ShutdownTimeout, IInv, CallerInv
<1>2. caller'.op = caller.op /\ caller'.at = "shut" /\ caller' \in [op : Ops, at : Ats, on : Nat]
  BY <1>1 DEF IInv, Types, Ats
<1>3. Types' /\ CallerInv' /\ ThreadInv'
  BY <1>1, <1>2 DEF IInv, Types, CallerInv, ThreadInv, Waits, Idle
<1>4. left' # {}
  BY <1>1
<1> QED BY <1>3, <1>4 DEF IInv

(* stop() and release() return, or a new thread starts, with no other alive.  *)
LEMMA AfterShutdownInv == ASSUME IInv, AfterShutdown PROVE IInv'
<1>0. /\ writer' = writer /\ owner' = owner /\ accepted' = accepted /\ left' = left
      /\ writer = 0 /\ caller.at = "shut" /\ Current = 0
  BY DEF AfterShutdown, IInv, CallerInv, Current, Waits
<1>1. CASE caller.op \in {"stop", "release"}
  <2>1. /\ thread' = thread /\ spawned' = spawned /\ caller' = Idle /\ mark' = accepted
    BY <1>1 DEF AfterShutdown
  <2>2. Types' /\ CallerInv' /\ ThreadInv'
    BY <1>0, <2>1 DEF IInv, Types, CallerInv, ThreadInv, Waits, Idle, Ops, Ats
  <2>3. left' = {} => SingleInv'
    BY <1>0, <2>1 DEF IInv, Types, SingleInv, Current, Waits, Idle
  <2> QED BY <2>2, <2>3 DEF IInv
<1>2. CASE caller.op \notin {"stop", "release"}
  <2> DEFINE n == spawned + 1
             t == [thread[n] EXCEPT !.pc = "open"]
  <2>1. /\ spawned' = n /\ Becomes(n, t) /\ mark' = mark
        /\ caller' = [caller EXCEPT !.at = "open", !.on = n]
    BY <1>2 DEF AfterShutdown, Goes
  <2>2. n \in Threads /\ spawned \in Nat /\ thread[n] = NewThread
    BY <1>0, <1>2, AlsaWriterAssumption DEF IInv, Types, CallerInv, ThreadInv, Threads
  <2>a. thread[n] \in ThreadType /\ thread[n].queue = <<>> /\ thread[n].report = "none"
    BY <2>2 DEF NewThread, IInv, Types
  <2>3. t \in ThreadType /\ t.queue = <<>> /\ t.pc = "open" /\ t.report = "none"
    BY <2>a, GoesType DEF Pcs
  <2>b. n \in Nat /\ caller \in [op : Ops, at : Ats, on : Nat] /\ "open" \in Ats
    BY <2>2 DEF IInv, Types, Ats
  <2>4. caller'.op = caller.op /\ caller'.at = "open" /\ caller'.on = n
        /\ caller' \in [op : Ops, at : Ats, on : Nat]
    BY <2>1, <2>b
  <2> HIDE DEF t
  <2>5. /\ thread' \in [Threads -> ThreadType] /\ thread'[n] = t
        /\ \A h \in Threads : h # n => thread'[h] = thread[h]
    BY <2>1, <2>2, <2>3, BecomesOne DEF IInv
  <2>6. Types'
    BY <1>0, <2>1, <2>2, <2>4, <2>5 DEF IInv, Types, Threads
  <2>c. caller' # Idle
    BY <2>4 DEF Idle
  <2>d. caller'.op \in {"stop", "release", "configure", "flush"}
    BY <1>0, <2>4 DEF IInv, CallerInv
  <2>e. 0 <= n /\ n <= n
    BY <2>2
  <2>f. thread'[caller'.on].queue = <<>> /\ thread'[caller'.on].pc # "got"
    BY <2>3, <2>4, <2>5
  <2>7. CallerInv'
    BY <1>0, <2>1, <2>2, <2>4, <2>c, <2>d, <2>e, <2>f DEF CallerInv, Waits
  <2>8. ThreadInv'
    BY <2>1, <2>2, <2>3, <2>5 DEF IInv, ThreadInv, Threads
  <2>9. Current' = n
    BY <1>0, <2>4 DEF Current, Waits
  <2>10. PayloadInv(Current)'
    BY <2>3, <2>5, <2>9, BetweenEmpty DEF PayloadInv
  <2>11. left' = {} => SingleInv'
    BY <1>0, <2>1, <2>2, <2>5, <2>9, <2>10 DEF IInv, SingleInv, Threads
  <2> QED BY <2>6, <2>7, <2>8, <2>11 DEF IInv
<1> QED BY <1>1, <1>2

(* configure() and flush() return: the new thread is in use or has returned.  *)
LEMMA OpenReportedInv == ASSUME IInv, OpenReported PROVE IInv'
<1>1. /\ thread' = thread /\ spawned' = spawned /\ owner' = owner
      /\ accepted' = accepted /\ left' = left /\ caller' = Idle /\ mark' = accepted
      /\ writer' = IF thread[caller.on].report = "ok" THEN caller.on ELSE 0
      /\ thread[caller.on].report # "none" /\ caller.at = "open" /\ writer = 0
      /\ Current = caller.on /\ caller.on \in Threads /\ caller.on <= spawned
      /\ thread[caller.on].queue = <<>> /\ thread[caller.on].pc # "got"
  BY DEF OpenReported, IInv, CallerInv, Waits, Current
<1>2. Types' /\ CallerInv' /\ ThreadInv'
  BY <1>1, AlsaWriterAssumption DEF IInv, Types, CallerInv, ThreadInv, Waits, Idle, Ops, Ats, Threads
<1>3. CASE thread[caller.on].report = "ok"
  <2>1. Current' = caller.on
    BY <1>1, <1>3 DEF Current, Threads
  <2>2. PayloadInv(Current)'
    BY <1>1, <2>1, BetweenEmpty DEF PayloadInv
  <2>3. left' = {} => SingleInv'
    BY <1>1, <2>1, <2>2 DEF IInv, Types, SingleInv
  <2> QED BY <1>2, <2>3 DEF IInv
<1>4. CASE thread[caller.on].report # "ok"
  <2>1. Current' = 0
    BY <1>1, <1>4 DEF Current, Waits, Idle
  <2>2. thread[caller.on].pc = "done"
    BY <1>1, <1>4 DEF IInv, Types, ThreadType, ThreadInv
  <2>3. left' = {} => SingleInv'
    BY <1>1, <2>1, <2>2 DEF IInv, Types, SingleInv
  <2> QED BY <1>2, <2>3 DEF IInv
<1> QED BY <1>3, <1>4

(* The calling thread gives up on a first open that does not return.          *)
LEMMA OpenTimeoutInv == ASSUME IInv, OpenTimeout PROVE IInv'
<1> DEFINE g == caller.on
           t == [thread[g] EXCEPT !.stop = TRUE, !.sender = FALSE]
<1>1. /\ Becomes(g, t) /\ writer' = 0 /\ spawned' = spawned /\ owner' = owner
      /\ accepted' = accepted /\ left' = left \cup {g} /\ caller' = Idle /\ mark' = accepted
      /\ g \in Threads /\ g <= spawned
  BY DEF OpenTimeout, IInv, CallerInv, Waits
<1>2. t \in ThreadType /\ t.report = thread[g].report /\ t.pc = thread[g].pc
  BY <1>1, ToldType DEF IInv, Types
<1> HIDE DEF t
<1>3. /\ thread' \in [Threads -> ThreadType] /\ thread'[g] = t
      /\ \A h \in Threads : h # g => thread'[h] = thread[h]
  BY <1>1, <1>2, BecomesOne DEF IInv
<1>4. Types' /\ CallerInv'
  BY <1>1, <1>3 DEF IInv, Types, CallerInv, Waits, Idle, Ops, Ats
<1>5. ThreadInv'
  BY <1>1, <1>2, <1>3, AlsaWriterAssumption DEF IInv, ThreadInv, Types, Threads
<1>6. left' # {}
  BY <1>1
<1> QED BY <1>4, <1>5, <1>6 DEF IInv

(* A payload is numbered and queued, with the calling thread idle after it.   *)
LEMMA QueuedInv ==
  ASSUME IInv, writer # 0, Queued, accepted' = accepted + 1, caller' = Idle,
         UNCHANGED <<writer, spawned, owner, mark, left>>
  PROVE  IInv'
<1> DEFINE t == [thread[writer] EXCEPT !.queue = Append(@, accepted + 1)]
<1>1. Becomes(writer, t) /\ writer \in Threads /\ thread[writer] \in ThreadType
      /\ writer <= spawned /\ accepted \in Nat /\ mark \in Nat
  BY DEF Queued, IInv, Types, CallerInv
<1>2. /\ t \in ThreadType /\ t.pc = thread[writer].pc /\ t.held = thread[writer].held
      /\ t.report = thread[writer].report /\ t.queue = Append(thread[writer].queue, accepted + 1)
  <2>1. Append(thread[writer].queue, accepted + 1) \in Seq(Nat)
    BY <1>1 DEF ThreadType
  <2> QED BY <1>1, <2>1, QueueType
<1> HIDE DEF t
<1>3. /\ thread' \in [Threads -> ThreadType] /\ thread'[writer] = t
      /\ \A h \in Threads : h # writer => thread'[h] = thread[h]
  BY <1>1, <1>2, BecomesOne DEF IInv
<1>4. Types' /\ CallerInv'
  BY <1>1, <1>3 DEF IInv, Types, CallerInv, Waits, Idle, Ops, Ats
<1>5. ThreadInv'
  BY <1>1, <1>2, <1>3, AlsaWriterAssumption DEF IInv, ThreadInv, Types, Threads
<1>6. Current = writer /\ Current' = writer
  BY DEF Current
<1>7. ASSUME PayloadInv(writer), mark <= accepted PROVE PayloadInv(Current)'
  <2> DEFINE q == thread[writer].queue
             h == thread[writer].held
  <2>1. q \in Seq(Nat) /\ h \in Nat
    BY <1>1 DEF ThreadType
  <2>2. Between(Append(q, accepted + 1), mark, accepted + 1)
    BY <1>1, <1>7, <2>1, BetweenAppend DEF PayloadInv
  <2>3. t.pc = "got" => /\ mark < h /\ h <= accepted + 1
                        /\ Between(Append(q, accepted + 1), h, accepted + 1)
    BY <1>1, <1>2, <1>7, <2>1, BetweenAppend DEF PayloadInv
  <2> QED BY <1>2, <1>3, <1>6, <2>2, <2>3 DEF PayloadInv
<1>8. left' = {} => SingleInv'
  BY <1>2, <1>3, <1>6, <1>7, <1>1 DEF IInv, SingleInv, Types
<1> QED BY <1>4, <1>5, <1>8 DEF IInv

(* write_audio() queues a payload or starts to wait.                          *)
LEMMA WriteAudioInv == ASSUME IInv, WriteAudio PROVE IInv'
<1>1. CASE Len(thread[writer].queue) < QueueCap
  BY <1>1, QueuedInv DEF WriteAudio, ghosts
<1>2. CASE ~(Len(thread[writer].queue) < QueueCap)
  <2>1. /\ caller' = [op |-> "write", at |-> "write", on |-> writer] /\ writer # 0
        /\ UNCHANGED <<writer, spawned, thread, owner, accepted, mark, left>>
    BY <1>2 DEF WriteAudio, ghosts
  <2>2. Types' /\ CallerInv' /\ ThreadInv'
    BY <2>1 DEF IInv, Types, CallerInv, ThreadInv, Waits, Idle, Ops, Ats, Threads
  <2>3. Current = writer /\ Current' = writer
    BY <2>1 DEF Current
  <2>4. PayloadInv(writer) => PayloadInv(Current)'
    BY <2>1, <2>3 DEF PayloadInv
  <2>5. left' = {} => SingleInv'
    BY <2>1, <2>3, <2>4 DEF IInv, SingleInv
  <2> QED BY <2>2, <2>5 DEF IInv
<1> QED BY <1>1, <1>2

(* write_audio() has room again.                                              *)
LEMMA WriteResumesInv == ASSUME IInv, WriteResumes PROVE IInv'
BY QueuedInv DEF WriteResumes, ghosts, IInv, CallerInv

(* Steps that leave the invariant's variables alone.                          *)
LEMMA StillInv ==
  ASSUME IInv, UNCHANGED <<caller, writer, spawned, thread, owner, accepted, mark, left>>
  PROVE  IInv'
<1>1. Types' /\ CallerInv' /\ ThreadInv'
  BY DEF IInv, Types, CallerInv, ThreadInv
<1>2. Current' = Current
  BY DEF Current
<1>3. PayloadInv(Current) => PayloadInv(Current)'
  BY <1>2 DEF PayloadInv
<1>4. left' = {} => SingleInv'
  BY <1>2, <1>3 DEF IInv, SingleInv
<1> QED BY <1>1, <1>4 DEF IInv
-----------------------------------------------------------------------------
(* The writer threads. *)

Alive(g) == thread[g].pc \notin {"none", "done"}

(* A live thread was spawned, and is the current one unless one was left.     *)
LEMMA AliveCurrent ==
  ASSUME IInv, NEW g \in Threads, Alive(g)
  PROVE  g <= spawned /\ (left = {} => g = Current)
BY AlsaWriterAssumption DEF IInv, Types, ThreadInv, SingleInv, Alive, NewThread, Threads

(* What a step of thread g has to keep for the invariant to hold after it.    *)
LEMMA ThreadFrame ==
  ASSUME IInv, NEW g \in Threads, NEW t \in ThreadType, Alive(g), Becomes(g, t), Aside,
         t.report = "error" => t.pc = "done",
         caller.at = "open" /\ caller.on = g => t.queue = <<>> /\ t.pc # "got",
         owner' \in Threads \cup {0}, mark' \in Nat,
         left = {} =>
           /\ mark' <= accepted
           /\ owner' # 0 => owner' = g /\ t.pc \in {"recv", "got", "idle", "exit"}
           /\ Between(t.queue, mark', accepted)
           /\ t.pc = "got" => /\ mark' < t.held /\ t.held <= accepted
                              /\ Between(t.queue, t.held, accepted)
  PROVE  IInv'
<1>1. /\ thread' \in [Threads -> ThreadType] /\ thread'[g] = t
      /\ \A h \in Threads : h # g => thread'[h] = thread[h]
  BY BecomesOne DEF IInv
<1>2. UNCHANGED <<caller, writer, spawned, accepted, left>> /\ g <= spawned
  BY AliveCurrent DEF Aside
<1>3. Types'
  BY <1>1, <1>2 DEF IInv, Types
<1>4. CallerInv'
  BY <1>1, <1>2 DEF IInv, CallerInv, Waits
<1>5. ThreadInv'
  BY <1>1, <1>2, AlsaWriterAssumption DEF IInv, Types, ThreadInv, Threads
<1>6. ASSUME left' = {} PROVE SingleInv'
  <2>1. Current = g /\ Current' = g /\ left = {}
    BY <1>2, <1>6, AliveCurrent DEF Current
  <2>2. PayloadInv(Current)'
    BY <1>1, <1>2, <2>1 DEF PayloadInv
  <2> QED BY <1>1, <1>2, <2>1, <2>2 DEF IInv, SingleInv
<1> QED BY <1>3, <1>4, <1>5, <1>6 DEF IInv

(* What the invariant says of a live thread.                                  *)
LEMMA AliveFacts ==
  ASSUME IInv, NEW g \in Threads, Alive(g)
  PROVE  /\ thread[g] \in ThreadType /\ thread[g].report # "error"
         /\ owner \in Threads \cup {0} /\ mark \in Nat /\ accepted \in Nat
         /\ caller.at = "open" /\ caller.on = g =>
              thread[g].queue = <<>> /\ thread[g].pc # "got"
         /\ left = {} =>
              /\ mark <= accepted
              /\ owner # 0 => owner = g
              /\ Between(thread[g].queue, mark, accepted)
              /\ thread[g].pc = "got" =>
                   /\ mark < thread[g].held /\ thread[g].held <= accepted
                   /\ Between(thread[g].queue, thread[g].held, accepted)
<1>1. left = {} => g = Current /\ g # 0
  BY AliveCurrent, AlsaWriterAssumption DEF Threads
<1> QED BY <1>1 DEF IInv, Types, CallerInv, ThreadInv, SingleInv, PayloadInv, Alive

(* The first open succeeds or fails.                                          *)
LEMMA FirstOpenInv == ASSUME IInv, NEW g \in Threads, FirstOpen(g) PROVE IInv'
<1>1. Alive(g) /\ mark' = mark /\ Aside
  BY DEF FirstOpen, Alive
<1>2. CASE CanOpen
  <2> DEFINE t == [thread[g] EXCEPT !.pc = "recv", !.report = "ok"]
  <2>1. Becomes(g, t) /\ owner' = g
    BY <1>2 DEF FirstOpen
  <2>2. t \in ThreadType /\ t.pc = "recv" /\ t.queue = thread[g].queue /\ t.report = "ok"
    BY <1>1, AliveFacts DEF ThreadType, Pcs
  <2> HIDE DEF t
  <2> QED BY <1>1, <2>1, <2>2, AliveFacts, ThreadFrame
<1>3. CASE ~CanOpen
  <2> DEFINE t == [thread[g] EXCEPT !.pc = "done", !.report = "error"]
  <2>1. Becomes(g, t) /\ owner' = owner
    BY <1>3 DEF FirstOpen
  <2>2. t \in ThreadType /\ t.pc = "done" /\ t.queue = thread[g].queue
    BY <1>1, AliveFacts DEF ThreadType, Pcs
  <2>3. left = {} => owner = 0
    BY <1>1, AliveFacts DEF FirstOpen, IInv, SingleInv
  <2> HIDE DEF t
  <2> QED BY <1>1, <2>1, <2>2, <2>3, AliveFacts, ThreadFrame
<1> QED BY <1>2, <1>3

(* The head of the queue is taken.                                            *)
LEMMA ReceiveInv == ASSUME IInv, NEW g \in Threads, Receive(g) PROVE IInv'
<1> DEFINE q == thread[g].queue
           t == [thread[g] EXCEPT !.pc = "got", !.held = Head(q), !.queue = Tail(@)]
<1>1. /\ Alive(g) /\ Becomes(g, t) /\ owner' = owner /\ mark' = mark /\ Aside
      /\ q # <<>>
  BY DEF Receive, Alive
<1>2. q \in Seq(Nat) /\ Head(q) \in Nat /\ Tail(q) \in Seq(Nat)
  BY <1>1, AliveFacts DEF ThreadType
<1>3. left = {} =>
        /\ mark < Head(q) /\ Head(q) <= accepted
        /\ Between(Tail(q), Head(q), accepted) /\ Between(Tail(q), mark, accepted)
  BY <1>1, <1>2, AliveFacts, BetweenTail
<1>4. /\ t \in ThreadType /\ t.pc = "got" /\ t.held = Head(q) /\ t.queue = Tail(q)
      /\ t.report = thread[g].report
  BY <1>1, <1>2, AliveFacts DEF ThreadType, Pcs
<1> HIDE DEF t
<1> QED BY <1>1, <1>3, <1>4, AliveFacts, ThreadFrame

(* The thread starts to close an idle device.                                 *)
LEMMA IdleCloseInv == ASSUME IInv, NEW g \in Threads, IdleClose(g) PROVE IInv'
<1> DEFINE t == [thread[g] EXCEPT !.pc = "idle"]
<1>1. Alive(g) /\ Becomes(g, t) /\ owner' = owner /\ mark' = mark /\ Aside
  BY DEF IdleClose, Alive, Goes
<1>2. t \in ThreadType /\ t.pc = "idle" /\ t.queue = thread[g].queue /\ t.report = thread[g].report
  BY <1>1, AliveFacts, GoesType DEF Pcs
<1> HIDE DEF t
<1> QED BY <1>1, <1>2, AliveFacts, ThreadFrame

(* The sender is gone and the queue empty.                                    *)
LEMMA DisconnectedInv == ASSUME IInv, NEW g \in Threads, Disconnected(g) PROVE IInv'
<1> DEFINE t == [thread[g] EXCEPT !.pc = "exit"]
<1>1. Alive(g) /\ Becomes(g, t) /\ owner' = owner /\ mark' = mark /\ Aside
  BY DEF Disconnected, Alive, Goes
<1>2. t \in ThreadType /\ t.pc = "exit" /\ t.queue = thread[g].queue /\ t.report = thread[g].report
  BY <1>1, AliveFacts, GoesType DEF Pcs
<1> HIDE DEF t
<1> QED BY <1>1, <1>2, AliveFacts, ThreadFrame

(* What is queued is given up.                                                *)
LEMMA DiscardQueueInv == ASSUME IInv, NEW g \in Threads, DiscardQueue(g) PROVE IInv'
<1> DEFINE t == [thread[g] EXCEPT !.pc = "exit", !.held = 0, !.queue = <<>>]
<1>1. Alive(g) /\ Becomes(g, t) /\ owner' = owner /\ mark' = mark /\ Aside
  BY DEF DiscardQueue, Alive
<1>0. <<>> \in Seq(Nat)
  OBVIOUS
<1>2. t \in ThreadType /\ t.pc = "exit" /\ t.queue = <<>> /\ t.report = thread[g].report
  BY <1>0, <1>1, AliveFacts DEF ThreadType, Pcs
<1> HIDE DEF t
<1> QED BY <1>1, <1>2, BetweenEmpty, AliveFacts, ThreadFrame

(* A payload is dropped while the device is away.                             *)
LEMMA AbsentInv == ASSUME IInv, NEW g \in Threads, Absent(g) PROVE IInv'
<1> DEFINE t == [thread[g] EXCEPT !.pc = "recv", !.held = 0, !.backoff = TRUE]
<1>1. Alive(g) /\ Becomes(g, t) /\ owner' = owner /\ mark' = mark /\ Aside
  BY DEF Absent, Alive, Drops
<1>2. t \in ThreadType /\ t.pc = "recv" /\ t.queue = thread[g].queue /\ t.report = thread[g].report
  BY <1>1, AliveFacts DEF ThreadType, Pcs
<1> HIDE DEF t
<1> QED BY <1>1, <1>2, AliveFacts, ThreadFrame

(* The device is opened again: no other thread has it.                        *)
LEMMA ReopenInv == ASSUME IInv, NEW g \in Threads, Reopen(g) PROVE IInv'
<1> DEFINE t == thread[g]
<1>1. /\ Alive(g) /\ owner' = g /\ mark' = mark /\ Aside /\ t.pc = "got"
      /\ thread' = thread
  BY DEF Reopen, Alive
<1>2. Becomes(g, t)
  BY <1>1 DEF Becomes, IInv, Types
<1>3. t \in ThreadType
  BY <1>1, AliveFacts
<1> HIDE DEF t
<1> QED BY <1>1, <1>2, <1>3, AliveFacts, ThreadFrame DEF t

(* The pause before the next open is over.                                    *)
LEMMA BackoffElapsesInv == ASSUME IInv, NEW g \in Threads, BackoffElapses(g) PROVE IInv'
<1> DEFINE t == [thread[g] EXCEPT !.backoff = FALSE]
<1>1. Alive(g) /\ Becomes(g, t) /\ owner' = owner /\ mark' = mark /\ Aside
  BY DEF BackoffElapses, Alive
<1>2. /\ t \in ThreadType /\ t.pc = thread[g].pc /\ t.queue = thread[g].queue
      /\ t.report = thread[g].report /\ t.held = thread[g].held /\ t.pc \in {"recv", "got"}
  BY <1>1, AliveFacts DEF ThreadType, Pcs, BackoffElapses
<1> HIDE DEF t
<1> QED BY <1>1, <1>2, AliveFacts, ThreadFrame

(* A payload sounds.                                                          *)
LEMMA WriteAllInv == ASSUME IInv, NEW g \in Threads, WriteAll(g) PROVE IInv'
<1> DEFINE t == [thread[g] EXCEPT !.pc = "recv", !.held = 0]
<1>1. Alive(g) /\ Becomes(g, t) /\ owner' = owner /\ mark' = thread[g].held /\ Aside
  BY DEF WriteAll, Alive, Writing
<1>2. t \in ThreadType /\ t.pc = "recv" /\ t.queue = thread[g].queue /\ t.report = thread[g].report
  BY <1>1, AliveFacts DEF ThreadType, Pcs
<1> HIDE DEF t
<1>3. /\ mark' \in Nat /\ thread[g].pc = "got"
      /\ left = {} => mark' <= accepted /\ Between(t.queue, mark', accepted)
  BY <1>1, <1>2, AliveFacts DEF WriteAll, Writing, ThreadType
<1> QED BY <1>1, <1>2, <1>3, AliveFacts, ThreadFrame

(* The device is lost in a write.                                             *)
LEMMA FailInv == ASSUME IInv, NEW g \in Threads, Fail(g) PROVE IInv'
<1> DEFINE t == [thread[g] EXCEPT !.pc = "recv", !.held = 0, !.backoff = TRUE]
<1>1. Alive(g) /\ Becomes(g, t) /\ owner' = 0 /\ mark' = mark /\ Aside
  BY DEF Fail, Alive, Writing, Drops
<1>2. t \in ThreadType /\ t.pc = "recv" /\ t.queue = thread[g].queue /\ t.report = thread[g].report
  BY <1>1, AliveFacts DEF ThreadType, Pcs
<1> HIDE DEF t
<1> QED BY <1>1, <1>2, AliveFacts, ThreadFrame

(* The device is closed.                                                      *)
LEMMA CloseInv == ASSUME IInv, NEW g \in Threads, Close(g) PROVE IInv'
<1> DEFINE t == [thread[g] EXCEPT !.pc = "closed",
                               !.then = IF thread[g].pc = "idle" THEN "recv" ELSE "done"]
<1>1. Alive(g) /\ Becomes(g, t) /\ owner' = 0 /\ mark' = mark /\ Aside
  BY DEF Close, Alive
<1>2. t \in ThreadType /\ t.pc = "closed" /\ t.queue = thread[g].queue /\ t.report = thread[g].report
  BY <1>1, AliveFacts DEF ThreadType, Pcs
<1> HIDE DEF t
<1> QED BY <1>1, <1>2, AliveFacts, ThreadFrame

(* The thread returns with the device closed.                                 *)
LEMMA ClosedAlreadyInv == ASSUME IInv, NEW g \in Threads, ClosedAlready(g) PROVE IInv'
<1> DEFINE t == [thread[g] EXCEPT !.pc = "done"]
<1>1. Alive(g) /\ Becomes(g, t) /\ owner' = owner /\ mark' = mark /\ Aside
  BY DEF ClosedAlready, Alive, Goes
<1>2. t \in ThreadType /\ t.pc = "done" /\ t.queue = thread[g].queue /\ t.report = thread[g].report
  BY <1>1, AliveFacts, GoesType DEF Pcs
<1> HIDE DEF t
<1>3. left = {} => owner = 0
  BY <1>1, AliveFacts DEF ClosedAlready
<1> QED BY <1>1, <1>2, <1>3, AliveFacts, ThreadFrame

(* The flag is cleared after the device was closed.                           *)
LEMMA ClearFlagInv == ASSUME IInv, NEW g \in Threads, ClearFlag(g) PROVE IInv'
<1> DEFINE t == [thread[g] EXCEPT !.pc = thread[g].then]
<1>1. Alive(g) /\ Becomes(g, t) /\ owner' = owner /\ mark' = mark /\ Aside
  BY DEF ClearFlag, Alive, Goes
<1>2. /\ t \in ThreadType /\ t.pc \in {"recv", "done"} /\ t.queue = thread[g].queue
      /\ t.report = thread[g].report
  BY <1>1, AliveFacts DEF ThreadType, Pcs
<1> HIDE DEF t
<1>3. left = {} => owner = 0
  BY <1>1, AliveFacts DEF ClearFlag, IInv, SingleInv
<1> QED BY <1>1, <1>2, <1>3, AliveFacts, ThreadFrame

(* Every step keeps the invariant.                                            *)
LEMMA NextInv == IInv /\ [Next]_vars => IInv'
<1> SUFFICES ASSUME IInv, [Next]_vars PROVE IInv'
  OBVIOUS
<1>1. ASSUME NEW op \in {"stop", "release", "configure", "flush"}, Begin(op) PROVE IInv'
  BY <1>1, BeginInv
<1>2. CASE CallerStep
  BY <1>2, ShutdownDoneInv, ShutdownTimeoutInv, AfterShutdownInv, OpenReportedInv,
     OpenTimeoutInv, WriteResumesInv DEF CallerStep
<1>3. CASE WriteAudio
  BY <1>3, WriteAudioInv
<1>4. ASSUME NEW g \in Threads, ThreadStep(g) \/ IdleClose(g) \/ BackoffElapses(g) PROVE IInv'
  BY <1>4, FirstOpenInv, ReceiveInv, DisconnectedInv, DiscardQueueInv, AbsentInv, ReopenInv,
     WriteAllInv, FailInv, CloseInv, ClosedAlreadyInv, ClearFlagInv, IdleCloseInv,
     BackoffElapsesInv DEF ThreadStep
<1>5. CASE PlayPause \/ Plug \/ Stick \/ UNCHANGED vars
  BY <1>5, StillInv DEF PlayPause, Plug, Stick, vars, ghosts
<1> QED BY <1>1, <1>2, <1>3, <1>4, <1>5 DEF Next

(* The invariant holds in every state of every behaviour.                     *)
THEOREM SpecIInv == Spec => []IInv
BY InitInv, NextInv, PTL DEF Spec


-----------------------------------------------------------------------------
(* The refinement. *)

Calling == caller.at \in {"shutdown", "shut", "open"}

(* The initial states are initial states of the contract.                     *)
LEMMA InitContract == Init => Contract!Init
BY DEF Init, Contract!Init, Idle

(* A step that changes nothing the contract speaks of.                        *)
LEMMA Stutters ==
  ASSUME Calling' = Calling, (writer # 0)' = (writer # 0), (owner # 0)' = (owner # 0),
         (left # {})' = (left # {}), UNCHANGED <<accepted, mark>>
  PROVE  UNCHANGED Contract!vars
BY DEF Contract!vars, Calling

(* A call gives up on a thread, or one was left behind before.                *)
LEMMA GivesUp ==
  ASSUME Calling \/ left # {}, left' # {}
  PROVE  Contract!Next
BY DEF Contract!Next, Contract!GiveUp, Calling

(* A call of the output starts a call of the contract.                        *)
LEMMA BeginStep ==
  ASSUME IInv, NEW op \in {"stop", "release", "configure", "flush"}, Begin(op)
  PROVE  Contract!Next
<1>1. /\ ~Calling /\ Calling' /\ writer' = 0
      /\ UNCHANGED <<owner, accepted, mark, left>>
  BY DEF Begin, Idle, Calling, ghosts
<1>2. Contract!Call
  BY <1>1 DEF Contract!Call, Calling
<1> QED BY <1>2 DEF Contract!Next
(* The steps of the calling thread, as long as no thread was left behind.     *)
LEMMA CallerContract ==
  ASSUME IInv, left = {}, CallerStep \/ WriteAudio \/ PlayPause \/ Plug \/ Stick
  PROVE  [Contract!Next]_Contract!vars
<1>1. CASE ShutdownDone
  <2>1. Calling /\ Calling' /\ UNCHANGED <<writer, owner, accepted, mark, left>>
    BY <1>1 DEF ShutdownDone, Calling, ghosts, IInv, Types
  <2> QED BY <2>1, Stutters
<1>2. CASE ShutdownTimeout \/ OpenTimeout
  <2>1. Calling /\ left' # {}
    BY <1>2 DEF ShutdownTimeout, OpenTimeout, Calling
  <2> QED BY <2>1, GivesUp
<1>3. CASE AfterShutdown /\ caller.op \in {"stop", "release"}
  <2>1. /\ Calling /\ ~Calling' /\ mark' = accepted /\ UNCHANGED <<writer, owner, accepted, left>>
    BY <1>3 DEF AfterShutdown, Calling, Idle
  <2>2. owner = 0
    BY <1>3 DEF AfterShutdown, IInv, CallerInv, SingleInv, Current, Waits
  <2>3. Contract!Return
    BY <2>1, <2>2 DEF Contract!Return, Calling
  <2> QED BY <2>3 DEF Contract!Next
<1>4. CASE AfterShutdown /\ caller.op \notin {"stop", "release"}
  <2>1. Calling /\ Calling' /\ UNCHANGED <<writer, owner, accepted, mark, left>>
    BY <1>4 DEF AfterShutdown, Calling, IInv, Types
  <2> QED BY <2>1, Stutters
<1>5. CASE OpenReported
  <2>1. /\ Calling /\ ~Calling' /\ mark' = accepted /\ UNCHANGED <<owner, accepted, left>>
        /\ writer' = IF thread[caller.on].report = "ok" THEN caller.on ELSE 0
        /\ caller.at = "open" /\ thread[caller.on].report # "none"
    BY <1>5 DEF OpenReported, Calling, Idle
  <2>2. Current = caller.on /\ caller.on \in Threads /\ caller.on # 0
    BY <2>1, AlsaWriterAssumption DEF IInv, CallerInv, Current, Waits, Threads
  <2>3. thread[caller.on].report # "ok" => thread[caller.on].pc = "done"
    BY <2>1, <2>2 DEF IInv, Types, ThreadType, ThreadInv
  <2>4. writer' # 0 \/ owner = 0
    BY <2>1, <2>2, <2>3 DEF IInv, SingleInv
  <2>5. Contract!Return
    BY <2>1, <2>4 DEF Contract!Return, Calling
  <2> QED BY <2>5 DEF Contract!Next
<1>6. ASSUME writer # 0, ~Calling, ~Calling', accepted' = accepted + 1,
             UNCHANGED <<writer, owner, mark, left>>
      PROVE  Contract!Next
  <2>1. Contract!Accept
    BY <1>6 DEF Contract!Accept, Calling
  <2> QED BY <2>1 DEF Contract!Next
<1>7. CASE WriteResumes
  BY <1>6, <1>7 DEF WriteResumes, Calling, IInv, CallerInv, Idle, ghosts
<1>8. CASE WriteAudio
  <2>1. /\ writer # 0 /\ ~Calling /\ ~Calling' /\ UNCHANGED <<writer, owner, mark, left>>
        /\ accepted' = accepted + 1 \/ accepted' = accepted
    BY <1>8 DEF WriteAudio, Calling, Idle, ghosts
  <2>2. CASE accepted' = accepted + 1
    BY <1>6, <2>1, <2>2
  <2>3. CASE accepted' = accepted
    <3>1. Calling' = Calling
      BY <2>1 DEF Calling
    <3> QED BY <2>1, <2>3, <3>1, Stutters
  <2> QED BY <2>1, <2>2, <2>3
<1>9. CASE PlayPause \/ Plug \/ Stick
  <2>1. UNCHANGED <<caller, writer, owner, accepted, mark, left>>
    BY <1>9 DEF PlayPause, Plug, Stick, ghosts
  <2> QED BY <2>1, Stutters DEF Calling
<1> QED BY <1>1, <1>2, <1>3, <1>4, <1>5, <1>7, <1>8, <1>9 DEF CallerStep

(* The steps of a writer thread, as long as no thread was left behind.        *)
LEMMA ThreadContract ==
  ASSUME IInv, left = {}, NEW g \in Threads,
         ThreadStep(g) \/ IdleClose(g) \/ BackoffElapses(g)
  PROVE  [Contract!Next]_Contract!vars
<1>a. Aside
  BY DEF ThreadStep, IdleClose, BackoffElapses, FirstOpen,
     Receive, Disconnected, DiscardQueue, Absent, Reopen, WriteAll, Fail, Close, ClosedAlready,
     ClearFlag
<1>1. g # 0 /\ Calling' = Calling /\ UNCHANGED <<writer, accepted, left>>
  BY <1>a, AlsaWriterAssumption DEF Threads, Calling, Aside
<1>2. ASSUME UNCHANGED <<owner, mark>> PROVE UNCHANGED Contract!vars
  BY <1>1, <1>2, Stutters
<1>3. ASSUME Alive(g), owner = 0, owner' = g, mark' = mark PROVE Contract!Next
  <2>1. Calling \/ writer # 0
    BY <1>1, <1>3, AliveCurrent DEF Current, Waits, Calling
  <2>2. Contract!Take
    BY <1>1, <1>3, <2>1 DEF Contract!Take, Calling
  <2> QED BY <2>2 DEF Contract!Next
<1>4. ASSUME owner = g, owner' = 0, mark' = mark PROVE Contract!Next
  <2>1. Contract!LetGo
    BY <1>1, <1>4 DEF Contract!LetGo, Calling
  <2> QED BY <2>1 DEF Contract!Next
<1>5. CASE FirstOpen(g)
  BY <1>2, <1>3, <1>5 DEF FirstOpen, CanOpen, Alive
<1>6. CASE Reopen(g)
  BY <1>3, <1>6 DEF Reopen, CanOpen, Alive
<1>7. CASE Fail(g) \/ Close(g)
  BY <1>4, <1>7 DEF Fail, Writing, Close
<1>8. CASE WriteAll(g)
  <2>1. owner = g /\ owner' = owner /\ mark' = thread[g].held /\ thread[g].pc = "got"
    BY <1>8 DEF WriteAll, Writing
  <2>2. mark' \in mark + 1 .. accepted
    BY <2>1, AliveFacts DEF Alive, ThreadType
  <2>3. Contract!Sound
    BY <1>1, <2>1, <2>2 DEF Contract!Sound, Calling
  <2> QED BY <2>3 DEF Contract!Next
<1>9. CASE \/ Receive(g) \/ Disconnected(g) \/ DiscardQueue(g) \/ Absent(g)
           \/ ClosedAlready(g) \/ ClearFlag(g) \/ IdleClose(g) \/ BackoffElapses(g)
  <2>1. UNCHANGED <<owner, mark>>
    BY <1>9 DEF Receive, Disconnected, DiscardQueue, Absent, ClosedAlready, ClearFlag,
       IdleClose, BackoffElapses
  <2> QED BY <1>2, <2>1
<1> QED BY <1>5, <1>6, <1>7, <1>8, <1>9 DEF ThreadStep

(* Nobody comes back for a thread that was left behind.                       *)
LEMMA LeftStays == ASSUME [Next]_vars, left # {} PROVE left' # {}
BY DEF Next, CallerStep, ThreadStep, Begin, ShutdownDone, ShutdownTimeout, AfterShutdown,
   OpenReported, OpenTimeout, PlayPause, WriteAudio, WriteResumes, Aside, FirstOpen, Receive,
   IdleClose, Disconnected, DiscardQueue, Absent, Reopen, BackoffElapses, WriteAll, Fail, Close,
   ClosedAlready, ClearFlag, Plug, Stick, vars, ghosts

(* Every step is one of the contract's, or changes nothing it speaks of.      *)
LEMMA NextContract == IInv /\ [Next]_vars => [Contract!Next]_Contract!vars
<1> SUFFICES ASSUME IInv, [Next]_vars PROVE [Contract!Next]_Contract!vars
  OBVIOUS
<1>1. CASE left # {}
  BY <1>1, LeftStays, GivesUp
<1>2. CASE left = {}
  <2>1. CASE UNCHANGED vars
    BY <2>1, Stutters DEF vars, Calling
  <2>2. CASE Next
    BY <1>2, <2>2, BeginStep, CallerContract, ThreadContract DEF Next
  <2> QED BY <2>1, <2>2
<1> QED BY <1>1, <1>2

(* AlsaDirectOutput keeps the contract: with any number of threads, payloads  *)
(* and places in the queue, a call that returned without a stream has freed   *)
(* the device, and payloads sound in order, once, and not after a later call. *)
THEOREM Refinement == Spec => ImplementsContract
<1>1. Init => Contract!Init
  BY InitContract
<1>2. IInv /\ [Next]_vars => [Contract!Next]_Contract!vars
  BY NextContract
<1> QED BY <1>1, <1>2, SpecIInv, PTL DEF Spec, ImplementsContract, Contract!Spec
-----------------------------------------------------------------------------
(* The flag open. *)

Closed(g) == thread[g].pc = "closed"

(* The flag is set while the device is held, and until a thread that closed   *)
(* it has said so.                                                            *)
FlagInv == left = {} => (open <=> owner # 0 \/ \E g \in Threads : Closed(g))

(* Steps that neither touch the device nor clear the flag.                    *)
LEMMA FlagKept ==
  ASSUME FlagInv, left' = {} => left = {}, UNCHANGED <<owner, open>>,
         \A g \in Threads : Closed(g)' <=> Closed(g)
  PROVE  FlagInv'
BY DEF FlagInv

(* One thread changes.                                                        *)
LEMMA BecomesAny ==
  ASSUME Types, NEW g \in Threads, NEW t, Becomes(g, t)
  PROVE  thread'[g] = t /\ \A h \in Threads : h # g => thread'[h] = thread[h]
BY DEF Types, Becomes

(* A step of one thread that leaves the flag alone.                           *)
LEMMA FlagAside ==
  ASSUME IInv, FlagInv, NEW g \in Threads, NEW t, Becomes(g, t), ~Closed(g), t.pc # "closed",
         left' = {} => left = {}, UNCHANGED <<owner, open>>
  PROVE  FlagInv'
<1>1. \A h \in Threads : Closed(h)' <=> Closed(h)
  BY BecomesAny DEF Closed, IInv
<1> QED BY <1>1, FlagKept

(* The calling thread leaves the device and the flag alone.                   *)
LEMMA CallerFlag ==
  ASSUME IInv, FlagInv, [Next]_vars,
         \/ \E op \in {"stop", "release", "configure", "flush"} : Begin(op)
         \/ CallerStep \/ PlayPause \/ WriteAudio \/ Plug \/ Stick \/ UNCHANGED vars
  PROVE  FlagInv'
<1>1. (left' = {} => left = {}) /\ UNCHANGED <<owner, open>>
  BY LeftStays DEF Begin, CallerStep, ShutdownDone, ShutdownTimeout, AfterShutdown,
     OpenReported, OpenTimeout, PlayPause, WriteAudio, WriteResumes, Plug, Stick, vars
<1>2. CASE thread' = thread
  BY <1>1, <1>2, FlagKept DEF Closed
<1>3. ASSUME NEW g \in Threads, NEW t, Becomes(g, t), t.pc = thread[g].pc PROVE FlagInv'
  <2>1. \A h \in Threads : Closed(h)' <=> Closed(h)
    BY <1>3, BecomesAny DEF Closed, IInv
  <2> QED BY <1>1, <2>1, FlagKept
<1>4. \A g \in Threads : thread[g] \in ThreadType
  BY DEF IInv, Types
<1>5. ASSUME NEW op \in {"stop", "release", "configure", "flush"}, Begin(op), writer # 0
      PROVE FlagInv'
  <2>1. writer \in Threads /\ Discards(op) \in BOOLEAN
    BY <1>5 DEF IInv, Types, Discards
  <2>2. Becomes(writer, [thread[writer] EXCEPT !.stop = Discards(op), !.sender = FALSE])
    BY <1>5 DEF Begin
  <2> QED BY <1>3, <1>4, <2>1, <2>2, ToldType
<1>6. CASE OpenTimeout
  <2>1. caller.on \in Threads
    BY <1>6 DEF OpenTimeout, IInv, CallerInv, Waits
  <2> QED BY <1>3, <1>4, <1>6, <2>1, ToldType DEF OpenTimeout
<1>7. CASE AfterShutdown /\ thread' # thread
  <2> DEFINE n == spawned + 1
  <2>1. n \in Threads /\ thread[n] = NewThread /\ Becomes(n, [thread[n] EXCEPT !.pc = "open"])
    BY <1>7, AlsaWriterAssumption
    DEF AfterShutdown, Goes, IInv, Types, CallerInv, ThreadInv, Threads
  <2>2. ~Closed(n) /\ [thread[n] EXCEPT !.pc = "open"].pc = "open"
    BY <1>4, <2>1, GoesType DEF Closed, NewThread, Pcs
  <2> QED BY <1>1, <2>1, <2>2, FlagAside
<1>8. ASSUME Queued, writer # 0 PROVE FlagInv'
  <2>1. writer \in Threads /\ Append(thread[writer].queue, accepted + 1) \in Seq(Nat)
    BY <1>4, <1>8 DEF IInv, Types, ThreadType
  <2> QED BY <1>3, <1>4, <1>8, <2>1, QueueType DEF Queued
<1>9. CASE WriteAudio \/ WriteResumes
  BY <1>2, <1>8, <1>9 DEF WriteAudio, WriteResumes, IInv, CallerInv
<1> QED BY <1>2, <1>5, <1>6, <1>7, <1>9
        DEF CallerStep, Begin, ShutdownDone, ShutdownTimeout, OpenReported, PlayPause, Plug,
            Stick, vars

(* A thread sets the flag with the device, and clears it after it.            *)
LEMMA ThreadFlag ==
  ASSUME IInv, FlagInv, NEW g \in Threads, ThreadStep(g) \/ IdleClose(g) \/ BackoffElapses(g)
  PROVE  FlagInv'
<1>a. left' = left
  BY DEF ThreadStep, Aside, FirstOpen, Receive, IdleClose, Disconnected, DiscardQueue, Absent,
         Reopen, BackoffElapses, WriteAll, Fail, Close, ClosedAlready, ClearFlag
<1>b. thread[g] \in ThreadType /\ g # 0
  BY AlsaWriterAssumption DEF IInv, Types, Threads
<1>c. left = {} /\ Alive(g) => \A h \in Threads : Closed(h) => h = g
  BY AliveCurrent DEF IInv, SingleInv, Closed
<1>0. /\ left' = left /\ thread[g] \in ThreadType /\ g # 0
      /\ left = {} /\ Alive(g) => \A h \in Threads : Closed(h) => h = g
  BY <1>a, <1>b, <1>c
<1>1. CASE FirstOpen(g)
  <2>1. ~Closed(g) /\ Alive(g)
    BY <1>1 DEF FirstOpen, Closed, Alive
  <2>2. CASE owner' = g /\ open' = TRUE
    BY <1>0, <2>2 DEF FlagInv
  <2>3. CASE UNCHANGED <<owner, open>> /\ ~CanOpen
    <3>1. Becomes(g, [thread[g] EXCEPT !.pc = "done", !.report = "error"])
      BY <1>1, <2>3 DEF FirstOpen
    <3>2. [thread[g] EXCEPT !.pc = "done", !.report = "error"].pc = "done"
      BY <1>0 DEF ThreadType
    <3> QED BY <1>0, <2>1, <2>3, <3>1, <3>2, FlagAside
  <2> QED BY <1>1, <2>2, <2>3 DEF FirstOpen
<1>2. CASE Reopen(g)
  BY <1>0, <1>2 DEF Reopen, FlagInv
<1>3. CASE Fail(g)
  <2>1. /\ Becomes(g, [thread[g] EXCEPT !.pc = "recv", !.held = 0, !.backoff = TRUE])
        /\ owner' = 0 /\ open' = FALSE /\ Alive(g) /\ ~Closed(g)
    BY <1>3 DEF Fail, Drops, Writing, Alive, Closed
  <2>2. [thread[g] EXCEPT !.pc = "recv", !.held = 0, !.backoff = TRUE].pc = "recv"
    BY <1>0 DEF ThreadType
  <2>3. left' = {} => \A h \in Threads : ~Closed(h)'
    BY <1>0, <2>1, <2>2, BecomesAny DEF Closed, IInv
  <2> QED BY <2>1, <2>3 DEF FlagInv
<1>4. CASE Close(g)
  <2> DEFINE t == [thread[g] EXCEPT !.pc = "closed",
                                 !.then = IF thread[g].pc = "idle" THEN "recv" ELSE "done"]
  <2>1. Becomes(g, t) /\ owner = g /\ open' = open
    BY <1>4 DEF Close
  <2>2. t.pc = "closed"
    BY <1>0 DEF ThreadType
  <2> HIDE DEF t
  <2>3. Closed(g)'
    BY <2>1, <2>2, BecomesAny DEF Closed, IInv
  <2> QED BY <1>0, <2>1, <2>3 DEF FlagInv
<1>5. CASE ClearFlag(g)
  <2>1. /\ Becomes(g, [thread[g] EXCEPT !.pc = thread[g].then]) /\ owner' = owner
        /\ open' = FALSE /\ Alive(g) /\ thread[g].pc = "closed"
    BY <1>5 DEF ClearFlag, Goes, Alive
  <2>2. [thread[g] EXCEPT !.pc = thread[g].then].pc \in {"recv", "done"}
    BY <1>0 DEF ThreadType
  <2>3. left' = {} => \A h \in Threads : ~Closed(h)'
    BY <1>0, <2>1, <2>2, BecomesAny DEF Closed, IInv
  <2>4. left' = {} => owner = 0
    BY <1>0, <2>1, AliveFacts DEF IInv, SingleInv
  <2> QED BY <2>1, <2>3, <2>4 DEF FlagInv
<1>6. ASSUME NEW t, Becomes(g, t), ~Closed(g), t.pc # "closed", UNCHANGED <<owner, open>>
      PROVE FlagInv'
  BY <1>0, <1>6, FlagAside
<1>7. CASE Receive(g)
  <2>1. [thread[g] EXCEPT !.pc = "got", !.held = Head(thread[g].queue), !.queue = Tail(@)].pc = "got"
    BY <1>0 DEF ThreadType
  <2> QED BY <1>6, <1>7, <2>1 DEF Receive, Closed
<1>8. CASE IdleClose(g) \/ Disconnected(g) \/ ClosedAlready(g)
  <2>1. \A pc \in Pcs : [thread[g] EXCEPT !.pc = pc].pc = pc
    BY <1>0, GoesType
  <2> QED BY <1>6, <1>8, <2>1 DEF IdleClose, Disconnected, ClosedAlready, Goes, Closed, Pcs
<1>9. CASE DiscardQueue(g)
  <2>1. [thread[g] EXCEPT !.pc = "exit", !.held = 0, !.queue = <<>>].pc = "exit"
    BY <1>0 DEF ThreadType
  <2> QED BY <1>6, <1>9, <2>1 DEF DiscardQueue, Closed
<1>10. CASE Absent(g)
  <2>1. [thread[g] EXCEPT !.pc = "recv", !.held = 0, !.backoff = TRUE].pc = "recv"
    BY <1>0 DEF ThreadType
  <2> QED BY <1>6, <1>10, <2>1 DEF Absent, Drops, Closed
<1>11. CASE BackoffElapses(g)
  <2>1. [thread[g] EXCEPT !.backoff = FALSE].pc = thread[g].pc
    BY <1>0 DEF ThreadType
  <2> QED BY <1>6, <1>11, <2>1 DEF BackoffElapses, Closed
<1>12. CASE WriteAll(g)
  <2>1. [thread[g] EXCEPT !.pc = "recv", !.held = 0].pc = "recv"
    BY <1>0 DEF ThreadType
  <2> QED BY <1>6, <1>12, <2>1 DEF WriteAll, Writing, Closed
<1> QED BY <1>1, <1>2, <1>3, <1>4, <1>5, <1>7, <1>8, <1>9, <1>10, <1>11, <1>12 DEF ThreadStep

(* device_open() tells the truth, with any number of threads and payloads,    *)
(* as long as no thread was left behind or is about to clear the flag.        *)
THEOREM FlagHonest == Spec => []OpenHonest
<1>1. Init => FlagInv
  BY DEF Init, FlagInv, Closed, NewThread
<1>2. IInv /\ FlagInv /\ [Next]_vars => FlagInv'
  BY CallerFlag, ThreadFlag DEF Next
<1>3. IInv /\ FlagInv => OpenHonest
  BY DEF FlagInv, OpenHonest, Quiet, Closed
<1> QED BY <1>1, <1>2, <1>3, SpecIInv, PTL DEF Spec
-----------------------------------------------------------------------------
(* What was accepted. *)

Waiting(n, t) == n = t.held \/ \E k \in 1..Len(t.queue) : t.queue[k] = n

(* What is in a queue stays in it when one is added.                          *)
LEMMA InAppend ==
  ASSUME NEW q \in Seq(Nat), NEW x \in Nat, NEW k \in 1..Len(q)
  PROVE  k \in 1..Len(Append(q, x)) /\ Append(q, x)[k] = q[k]
OBVIOUS

(* What is not at the head of a queue is in the rest of it.                   *)
LEMMA InTail ==
  ASSUME NEW q \in Seq(Nat), NEW k \in 1..Len(q), k # 1
  PROVE  k - 1 \in 1..Len(Tail(q)) /\ Tail(q)[k - 1] = q[k]
<1>1. q # <<>> /\ Len(q) \in Nat
  OBVIOUS
<1>2. Len(Tail(q)) = Len(q) - 1
  BY <1>1
<1>3. k - 1 \in 1..Len(q) - 1
  BY <1>1
<1>4. \A i \in 1..Len(q) - 1 : Tail(q)[i] = q[i + 1]
  BY <1>1
<1> QED BY <1>1, <1>2, <1>3, <1>4

(* Payload n is with a thread, or was written or dropped.                     *)
Kept(n) == n \in settled \/ \E g \in Threads : Waiting(n, thread[g])

(* No payload has got lost, unless a thread was told to discard its queue;    *)
(* a thread holds one only between taking and writing it.                     *)
KeptInv ==
  /\ \A g \in Threads : thread[g].pc # "got" => thread[g].held = 0
  /\ left = {} /\ (\A g \in Threads : ~thread[g].stop) => \A n \in 1..accepted : Kept(n)

(* The thread in use, or being started, was not told to discard anything.     *)
UsedInv ==
  \A g \in Threads : g = writer \/ (caller.at = "open" /\ caller.on = g) => ~thread[g].stop

(* A step of one thread loses nothing if what it had is kept.                 *)
LEMMA KeptStep ==
  ASSUME IInv, KeptInv, NEW g \in Threads, NEW t, Becomes(g, t),
         left' = {} => left = {}, settled \subseteq settled', accepted' = accepted,
         thread[g].stop => t.stop, t.pc # "got" => t.held = 0,
         \A n \in 1..accepted :
           ~t.stop /\ Waiting(n, thread[g]) => Waiting(n, t) \/ n \in settled'
  PROVE  KeptInv'
<1>1. thread'[g] = t /\ \A h \in Threads : h # g => thread'[h] = thread[h]
  BY BecomesAny DEF IInv
<1>2. \A h \in Threads : thread'[h].pc # "got" => thread'[h].held = 0
  BY <1>1 DEF KeptInv
<1>3. ASSUME left' = {}, \A h \in Threads : ~thread'[h].stop, NEW n \in 1..accepted
      PROVE  n \in settled' \/ \E h \in Threads : Waiting(n, thread'[h])
  <2>1. Kept(n) /\ ~t.stop
    BY <1>1, <1>3 DEF KeptInv
  <2>2. CASE n \in settled
    BY <2>2
  <2>3. ASSUME NEW h \in Threads, Waiting(n, thread[h])
        PROVE  n \in settled' \/ \E f \in Threads : Waiting(n, thread'[f])
    <3>1. CASE h = g
      BY <1>1, <2>1, <2>3, <3>1
    <3>2. CASE h # g
      BY <1>1, <2>3, <3>2
    <3> QED BY <3>1, <3>2
  <2> QED BY <2>1, <2>2, <2>3 DEF Kept
<1> QED BY <1>2, <1>3 DEF KeptInv, Kept, Waiting

(* Steps that leave the threads alone.                                        *)
LEMMA KeptStill ==
  ASSUME KeptInv, left' = {} => left = {}, UNCHANGED <<thread, settled, accepted>>
  PROVE  KeptInv'
BY DEF KeptInv, Kept, Waiting

(* write_audio() hands the next payload over.                                 *)
LEMMA KeptQueued ==
  ASSUME IInv, KeptInv, writer # 0, Queued, accepted' = accepted + 1,
         UNCHANGED <<settled, left>>
  PROVE  KeptInv'
<1> DEFINE old == thread[writer]
           q == Append(old.queue, accepted + 1)
           t == [old EXCEPT !.queue = q]
<1>1. writer \in Threads /\ old \in ThreadType /\ accepted \in Nat /\ old.queue \in Seq(Nat)
  BY DEF IInv, Types, ThreadType
<1>2. q \in Seq(Nat) /\ Len(q) = Len(old.queue) + 1 /\ q[Len(q)] = accepted + 1
  BY <1>1
<1>b. \A k \in 1..Len(old.queue) : k \in 1..Len(q) /\ q[k] = old.queue[k]
  BY <1>1, InAppend
<1>3. /\ t.pc = old.pc /\ t.held = old.held /\ t.queue = q
      /\ t.stop = old.stop
  BY <1>1 DEF ThreadType
<1>4. thread'[writer] = t /\ \A h \in Threads : h # writer => thread'[h] = thread[h]
  BY <1>1, BecomesAny DEF IInv, Queued
<1>a. Len(old.queue) \in Nat
  BY <1>1
<1> HIDE DEF t, q
<1>5. \A h \in Threads : thread'[h].pc # "got" => thread'[h].held = 0
  BY <1>1, <1>3, <1>4 DEF KeptInv
<1>6. ASSUME left' = {}, \A h \in Threads : ~thread'[h].stop, NEW n \in 1..accepted + 1
      PROVE  n \in settled' \/ \E h \in Threads : Waiting(n, thread'[h])
  <2>1. CASE n = accepted + 1
    <3>1. Len(q) \in 1..Len(q)
      BY <1>2, <1>a
    <3>2. Waiting(n, t)
      BY <1>2, <1>3, <2>1, <3>1 DEF Waiting
    <3> QED BY <1>1, <1>4, <3>2
  <2>2. CASE n \in 1..accepted
    <3>1. \A h \in Threads : ~thread[h].stop
      BY <1>3, <1>4, <1>6
    <3>2. Kept(n)
      BY <1>6, <2>2, <3>1 DEF KeptInv
    <3>a. ASSUME NEW k \in 1..Len(old.queue), old.queue[k] = n PROVE Waiting(n, t)
      <4>1. k \in 1..Len(q) /\ q[k] = n
        BY <1>b, <3>a
      <4> QED BY <1>3, <4>1 DEF Waiting
    <3>3. Waiting(n, old) => Waiting(n, t)
      BY <1>3, <3>a DEF Waiting
    <3> QED BY <1>4, <3>2, <3>3 DEF Kept
  <2> QED BY <1>1, <2>1, <2>2
<1> QED BY <1>5, <1>6 DEF KeptInv, Kept, Waiting

(* The calling thread loses nothing.                                          *)
LEMMA CallerKept ==
  ASSUME IInv, KeptInv, UsedInv, [Next]_vars,
         \/ \E op \in {"stop", "release", "configure", "flush"} : Begin(op)
         \/ CallerStep \/ PlayPause \/ WriteAudio \/ Plug \/ Stick \/ UNCHANGED vars
  PROVE  KeptInv'
<1>1. (left' = {} => left = {}) /\ settled' = settled
  BY LeftStays DEF Begin, CallerStep, ShutdownDone, ShutdownTimeout, AfterShutdown,
     OpenReported, OpenTimeout, PlayPause, WriteAudio, WriteResumes, Plug, Stick, vars, ghosts
<1>2. CASE UNCHANGED <<thread, accepted>>
  BY <1>1, <1>2, KeptStill
<1>3. \A g \in Threads : thread[g] \in ThreadType
  BY DEF IInv, Types
<1>4. ASSUME NEW g \in Threads, NEW b \in BOOLEAN, thread[g].stop => b, accepted' = accepted,
             Becomes(g, [thread[g] EXCEPT !.stop = b, !.sender = FALSE])
      PROVE  KeptInv'
  <2> DEFINE t == [thread[g] EXCEPT !.stop = b, !.sender = FALSE]
  <2>1. /\ t.pc = thread[g].pc /\ t.held = thread[g].held /\ t.queue = thread[g].queue
        /\ t.stop = b
    BY <1>3 DEF ThreadType
  <2> HIDE DEF t
  <2>2. \A n : Waiting(n, thread[g]) => Waiting(n, t)
    BY <2>1 DEF Waiting
  <2>3. t.pc # "got" => t.held = 0
    BY <2>1 DEF KeptInv
  <2>4. Becomes(g, t)
    BY <1>4 DEF t
  <2> QED BY <1>1, <1>4, <2>1, <2>2, <2>3, <2>4, KeptStep
<1>5. ASSUME NEW op \in {"stop", "release", "configure", "flush"}, Begin(op), writer # 0
      PROVE KeptInv'
  <2>1. writer \in Threads /\ Discards(op) \in BOOLEAN /\ accepted' = accepted
    BY <1>5 DEF IInv, Types, Discards, Begin
  <2>2. Becomes(writer, [thread[writer] EXCEPT !.stop = Discards(op), !.sender = FALSE])
    BY <1>5 DEF Begin
  <2>3. ~thread[writer].stop
    BY <2>1 DEF UsedInv
  <2> QED BY <1>4, <2>1, <2>2, <2>3
<1>6. CASE OpenTimeout
  <2>1. caller.on \in Threads /\ accepted' = accepted
    BY <1>6 DEF OpenTimeout, IInv, CallerInv, Waits
  <2> QED BY <1>4, <1>6, <2>1 DEF OpenTimeout
<1>7. CASE AfterShutdown /\ thread' # thread
  <2> DEFINE n == spawned + 1
             t == [thread[n] EXCEPT !.pc = "open"]
  <2>1. n \in Threads /\ thread[n] = NewThread /\ Becomes(n, t) /\ accepted' = accepted
    BY <1>7, AlsaWriterAssumption
    DEF AfterShutdown, Goes, IInv, Types, CallerInv, ThreadInv, Threads
  <2>2. t.held = thread[n].held /\ t.queue = thread[n].queue /\ t.stop = thread[n].stop
    BY <1>3, <2>1 DEF ThreadType
  <2>3. thread[n].held = 0
    BY <2>1 DEF NewThread
  <2> HIDE DEF t
  <2>4. \A m : Waiting(m, thread[n]) => Waiting(m, t)
    BY <2>2 DEF Waiting
  <2> QED BY <1>1, <2>1, <2>2, <2>3, <2>4, KeptStep
<1>8. CASE WriteAudio \/ WriteResumes
  BY <1>2, <1>8, KeptQueued DEF WriteAudio, WriteResumes, IInv, CallerInv, ghosts
<1> QED BY <1>2, <1>5, <1>6, <1>7, <1>8
        DEF CallerStep, Begin, ShutdownDone, ShutdownTimeout, AfterShutdown, OpenReported,
            PlayPause, Plug, Stick, vars

(* The calling thread tells a thread to discard when it is done with it.      *)
LEMMA CallerUsed ==
  ASSUME IInv, UsedInv,
         \/ \E op \in {"stop", "release", "configure", "flush"} : Begin(op)
         \/ CallerStep \/ PlayPause \/ WriteAudio \/ Plug \/ Stick \/ UNCHANGED vars
  PROVE  UsedInv'
<1>0. 0 \notin Threads /\ \A g \in Threads : thread[g] \in ThreadType
  BY AlsaWriterAssumption DEF IInv, Types, Threads
<1>1. CASE UNCHANGED <<caller, writer, thread>>
  BY <1>1 DEF UsedInv
<1>2. CASE writer' = 0 /\ caller'.at # "open"
  BY <1>0, <1>2 DEF UsedInv
<1>3. ASSUME NEW op \in {"stop", "release", "configure", "flush"}, Begin(op) PROVE UsedInv'
  BY <1>2, <1>3 DEF Begin
<1>4. CASE ShutdownDone \/ ShutdownTimeout
  BY <1>2, <1>4 DEF ShutdownDone, ShutdownTimeout, IInv, Types, CallerInv
<1>5. CASE OpenTimeout
  BY <1>2, <1>5 DEF OpenTimeout, IInv, CallerInv, Idle
<1>6. CASE OpenReported
  BY <1>0, <1>6 DEF OpenReported, UsedInv, Idle
<1>7. CASE AfterShutdown
  <2>1. writer' = 0
    BY <1>7 DEF AfterShutdown, IInv, CallerInv
  <2>2. CASE caller' = Idle
    BY <1>2, <2>1, <2>2 DEF Idle
  <2>3. CASE caller.op \notin {"stop", "release"}
    <3> DEFINE n == spawned + 1
               t == [thread[n] EXCEPT !.pc = "open"]
    <3>1. n \in Threads /\ thread[n] = NewThread /\ Becomes(n, t)
          /\ caller' = [caller EXCEPT !.at = "open", !.on = n]
      BY <1>7, <2>3, AlsaWriterAssumption
      DEF AfterShutdown, Goes, IInv, Types, CallerInv, ThreadInv, Threads
    <3>2. t.stop = thread[n].stop /\ ~thread[n].stop
      BY <1>0, <3>1 DEF ThreadType, NewThread
    <3>3. caller'.on = n
      BY <3>1 DEF IInv, Types
    <3>4. thread'[n] = t
      BY <3>1, BecomesAny DEF IInv
    <3> HIDE DEF t
    <3> QED BY <1>0, <2>1, <3>2, <3>3, <3>4 DEF UsedInv
  <2> QED BY <1>7, <2>2, <2>3 DEF AfterShutdown
<1>8. ASSUME writer # 0, Queued, writer' = writer, caller' = caller \/ caller' = Idle
      PROVE UsedInv'
  <2>1. writer \in Threads /\ Append(thread[writer].queue, accepted + 1) \in Seq(Nat)
    BY <1>0, <1>8 DEF IInv, Types, ThreadType
  <2> DEFINE t == [thread[writer] EXCEPT !.queue = Append(thread[writer].queue, accepted + 1)]
  <2>2. t.stop = thread[writer].stop
    BY <1>0, <2>1 DEF ThreadType
  <2>3. thread'[writer] = t /\ \A h \in Threads : h # writer => thread'[h] = thread[h]
    BY <1>8, <2>1, BecomesAny DEF Queued, IInv
  <2> HIDE DEF t
  <2> QED BY <1>8, <2>2, <2>3 DEF UsedInv, Idle
<1>9. CASE WriteAudio \/ WriteResumes
  <2>1. writer # 0 /\ writer' = writer
    BY <1>9 DEF WriteAudio, WriteResumes, IInv, CallerInv
  <2>2. CASE Queued /\ (caller' = caller \/ caller' = Idle)
    BY <1>8, <2>1, <2>2
  <2>3. CASE thread' = thread /\ caller'.at = "write"
    BY <2>1, <2>3 DEF UsedInv
  <2> QED BY <1>9, <2>2, <2>3 DEF WriteAudio, WriteResumes
<1> QED BY <1>1, <1>3, <1>4, <1>5, <1>6, <1>7, <1>9
        DEF CallerStep, PlayPause, Plug, Stick, vars

(* What a thread does with its payloads.                                      *)
Minds(g, t) ==
  /\ Becomes(g, t) /\ t.stop = thread[g].stop /\ (t.pc # "got" => t.held = 0)
  /\ \A n \in 1..accepted :
       ~t.stop /\ Waiting(n, thread[g]) => Waiting(n, t) \/ n \in settled'

(* A thread takes payloads off its queue one by one, and gives up the rest    *)
(* only when it was told to.                                                  *)
LEMMA ThreadMinds ==
  ASSUME IInv, KeptInv, NEW g \in Threads, ThreadStep(g) \/ IdleClose(g) \/ BackoffElapses(g)
  PROVE  \E t : Minds(g, t)
<1>0. thread[g] \in ThreadType /\ (thread[g].pc # "got" => thread[g].held = 0)
      /\ accepted \in Nat
  BY DEF IInv, Types, KeptInv
<1>1. ASSUME NEW t, Becomes(g, t), t.stop = thread[g].stop, t.queue = thread[g].queue,
             t.pc # "got" => t.held = 0,
             t.held = thread[g].held \/ thread[g].held \in settled'
      PROVE  \E u : Minds(g, u)
  <2>1. Minds(g, t)
    BY <1>1 DEF Minds, Waiting
  <2> QED BY <2>1
<1>2. ASSUME NEW pc \in Pcs, Goes(g, pc), thread[g].pc # "got", pc # "got"
      PROVE  \E u : Minds(g, u)
  <2> DEFINE t == [thread[g] EXCEPT !.pc = pc]
  <2>1. /\ t.stop = thread[g].stop /\ t.queue = thread[g].queue /\ t.held = thread[g].held
    BY <1>0 DEF ThreadType
  <2>2. Becomes(g, t)
    BY <1>2 DEF Goes
  <2> HIDE DEF t
  <2> QED BY <1>0, <1>1, <1>2, <2>1, <2>2
<1>3. CASE IdleClose(g) \/ Disconnected(g) \/ ClosedAlready(g)
  BY <1>2, <1>3 DEF IdleClose, Disconnected, ClosedAlready, Pcs
<1>4. CASE ClearFlag(g)
  <2>1. thread[g].then \in Pcs /\ thread[g].then # "got"
    BY <1>0 DEF ThreadType, Pcs
  <2> QED BY <1>2, <1>4, <2>1 DEF ClearFlag
<1>5. CASE FirstOpen(g)
  <2>1. ASSUME NEW pc \in {"recv", "done"}, NEW r \in {"ok", "error"},
               Becomes(g, [thread[g] EXCEPT !.pc = pc, !.report = r])
        PROVE  \E u : Minds(g, u)
    <3> DEFINE t == [thread[g] EXCEPT !.pc = pc, !.report = r]
    <3>1. /\ t.stop = thread[g].stop /\ t.queue = thread[g].queue /\ t.held = thread[g].held
      BY <1>0 DEF ThreadType
    <3>2. Becomes(g, t)
      BY <2>1
    <3> HIDE DEF t
    <3> QED BY <1>0, <1>1, <1>5, <3>1, <3>2 DEF FirstOpen
  <2> QED BY <1>5, <2>1 DEF FirstOpen
<1>6. CASE Close(g)
  <2> DEFINE next == IF thread[g].pc = "idle" THEN "recv" ELSE "done"
             t == [thread[g] EXCEPT !.pc = "closed", !.then = next]
  <2>1. /\ t.stop = thread[g].stop /\ t.queue = thread[g].queue /\ t.held = thread[g].held
    BY <1>0 DEF ThreadType
  <2>2. Becomes(g, t) /\ thread[g].pc # "got"
    BY <1>6 DEF Close
  <2> HIDE DEF t
  <2> QED BY <1>0, <1>1, <2>1, <2>2
<1>7. CASE Reopen(g)
  <2>1. Becomes(g, thread[g])
    BY <1>7 DEF Reopen, Becomes, IInv, Types
  <2> QED BY <1>0, <1>1, <2>1
<1>8. CASE BackoffElapses(g)
  <2> DEFINE t == [thread[g] EXCEPT !.backoff = FALSE]
  <2>1. /\ t.stop = thread[g].stop /\ t.queue = thread[g].queue /\ t.held = thread[g].held
        /\ t.pc = thread[g].pc
    BY <1>0 DEF ThreadType
  <2>2. Becomes(g, t)
    BY <1>8 DEF BackoffElapses
  <2> HIDE DEF t
  <2> QED BY <1>0, <1>1, <2>1, <2>2
<1>9. CASE Absent(g) \/ Fail(g)
  <2> DEFINE t == [thread[g] EXCEPT !.pc = "recv", !.held = 0, !.backoff = TRUE]
  <2>1. t.stop = thread[g].stop /\ t.queue = thread[g].queue /\ t.held = 0
    BY <1>0 DEF ThreadType
  <2>2. Becomes(g, t) /\ thread[g].held \in settled'
    BY <1>9 DEF Absent, Fail, Drops
  <2> HIDE DEF t
  <2> QED BY <1>1, <2>1, <2>2
<1>10. CASE WriteAll(g)
  <2> DEFINE t == [thread[g] EXCEPT !.pc = "recv", !.held = 0]
  <2>1. t.stop = thread[g].stop /\ t.queue = thread[g].queue /\ t.held = 0
    BY <1>0 DEF ThreadType
  <2>2. Becomes(g, t) /\ thread[g].held \in settled'
    BY <1>10 DEF WriteAll
  <2> HIDE DEF t
  <2> QED BY <1>1, <2>1, <2>2
<1>11. CASE DiscardQueue(g)
  <2> DEFINE t == [thread[g] EXCEPT !.pc = "exit", !.held = 0, !.queue = <<>>]
  <2>1. t.stop = thread[g].stop /\ t.held = 0
    BY <1>0 DEF ThreadType
  <2>2. Becomes(g, t) /\ thread[g].stop
    BY <1>11 DEF DiscardQueue
  <2> HIDE DEF t
  <2>3. Minds(g, t)
    BY <2>1, <2>2 DEF Minds
  <2> QED BY <2>3
<1>12. CASE Receive(g)
  <2> DEFINE q == thread[g].queue
             t == [thread[g] EXCEPT !.pc = "got", !.held = Head(q), !.queue = Tail(@)]
  <2>1. /\ t.stop = thread[g].stop /\ t.held = Head(q) /\ t.queue = Tail(q) /\ t.pc = "got"
    BY <1>0 DEF ThreadType
  <2>2. Becomes(g, t) /\ q # <<>> /\ thread[g].held = 0 /\ q \in Seq(Nat)
    BY <1>0, <1>12 DEF Receive, ThreadType
  <2>3. ASSUME NEW k \in 1..Len(q)
        PROVE  q[k] = Head(q) \/ \E j \in 1..Len(Tail(q)) : Tail(q)[j] = q[k]
    <3>1. CASE k = 1
      BY <2>2, <3>1
    <3>2. CASE k # 1
      <4>1. k - 1 \in 1..Len(Tail(q)) /\ Tail(q)[k - 1] = q[k]
        BY <2>2, <3>2, InTail
      <4> QED BY <4>1
    <3> QED BY <3>1, <3>2
  <2> HIDE DEF t
  <2>4. \A n \in 1..accepted : n # 0
    BY <1>0
  <2>a. ASSUME NEW n \in 1..accepted, Waiting(n, thread[g]) PROVE Waiting(n, t)
    <3>1. PICK k \in 1..Len(q) : q[k] = n
      BY <2>2, <2>4, <2>a DEF Waiting
    <3>2. n = Head(q) \/ \E j \in 1..Len(Tail(q)) : Tail(q)[j] = n
      BY <2>3, <3>1
    <3> QED BY <2>1, <3>2 DEF Waiting
  <2>5. Minds(g, t)
    BY <2>1, <2>2, <2>a DEF Minds
  <2> QED BY <2>5
<1> QED BY <1>3, <1>4, <1>5, <1>6, <1>7, <1>8, <1>9, <1>10, <1>11, <1>12 DEF ThreadStep

(* A thread loses nothing, and is not told anything by itself.                *)
LEMMA ThreadKept ==
  ASSUME IInv, KeptInv, UsedInv, NEW g \in Threads,
         ThreadStep(g) \/ IdleClose(g) \/ BackoffElapses(g)
  PROVE  KeptInv' /\ UsedInv'
<1>1. UNCHANGED <<left, accepted, caller, writer>>
  BY DEF ThreadStep, Aside, FirstOpen, Receive, IdleClose, Disconnected, DiscardQueue, Absent,
         Reopen, BackoffElapses, WriteAll, Fail, Close, ClosedAlready, ClearFlag
<1>2. settled \subseteq settled'
  BY DEF ThreadStep, Drops, FirstOpen, Receive, IdleClose, Disconnected, DiscardQueue, Absent,
         Reopen, BackoffElapses, WriteAll, Fail, Close, ClosedAlready, ClearFlag
<1>3. PICK t : Minds(g, t)
  BY ThreadMinds
<1>4. KeptInv'
  BY <1>1, <1>2, <1>3, KeptStep DEF Minds
<1>5. thread'[g] = t /\ \A h \in Threads : h # g => thread'[h] = thread[h]
  BY <1>3, BecomesAny DEF Minds, IInv
<1>6. UsedInv'
  BY <1>1, <1>3, <1>5 DEF UsedInv, Minds
<1> QED BY <1>4, <1>6

(* Nothing is lost on the way, with any number of threads and payloads and    *)
(* any capacity of the queue, as long as nothing had to be discarded and no   *)
(* thread was left behind.                                                    *)
THEOREM NoneLost == Spec => []NothingLost
<1>1. Init => KeptInv /\ UsedInv
  BY AlsaWriterAssumption DEF Init, KeptInv, UsedInv, NewThread, Idle, Threads
<1>2. IInv /\ KeptInv /\ UsedInv /\ [Next]_vars => KeptInv' /\ UsedInv'
  BY CallerKept, CallerUsed, ThreadKept DEF Next
<1>3. IInv /\ KeptInv => NothingLost
  <2> SUFFICES ASSUME IInv, KeptInv, left = {}, \A g \in Threads : ~thread[g].stop,
                      NEW n \in 1..accepted
               PROVE  n \in Pending \cup settled
    BY DEF NothingLost
  <2>1. Kept(n)
    BY DEF KeptInv
  <2>2. ASSUME NEW g \in Threads, Waiting(n, thread[g]) PROVE n \in Pending
    <3>1. thread[g].queue \in Seq(Nat)
      BY DEF IInv, Types, ThreadType
    <3>2. DOMAIN thread[g].queue = 1..Len(thread[g].queue)
      BY <3>1
    <3> QED BY <2>2, <3>2 DEF Pending, Waiting
  <2> QED BY <2>1, <2>2 DEF Kept
<1> QED BY <1>1, <1>2, <1>3, SpecIInv, PTL DEF Spec
=============================================================================
