---------------------------- MODULE WorkerProof ----------------------------
(***************************************************************************)
(* Proofs about one call of run_worker, for every number of chunks a frame *)
(* is cut into, every size of the pipes and every bound of the host's      *)
(* buffer.                                                                 *)
(***************************************************************************)
EXTENDS Worker, TLAPS, SequenceTheorems

\* The leaves are proved by Zenon unless they cite another prover.
USE Zenon

---------------------------------------------------------------------------
(* What is true of every call *)

\* The public form of what the request yielded.
Public == IF Restricted THEN Sanitized(result) ELSE result

Chunks == ((Answers \cup {"hello", "denied"}) \X (1..Parts)) \cup Junk

\* The chunks that can be in flight: a hello comes from a worker that found
\* itself isolated, and an answer is what this request yielded.
Traceable == {c \in Chunks : /\ c[1] = "hello" /\ Restricted => evidence
                             /\ c[1] \in Answers => result # "none" /\ c[1] = Public}

Streams ==
    /\ received \in Seq(Traceable) /\ stdout \in Seq(Traceable) /\ todo \in Seq(Traceable)

\* Where the worker is, and what it has done by then.
WorkerPast ==
    /\ worker \in {"none", "start"} => ~evidence /\ ~helper /\ ~eof
    /\ worker = "run" => taken = Parts
    /\ result # "none" => taken = Parts /\ worker \in {"respond", "hung", "closed", "exiting", "gone"}
    /\ worker \in {"exiting", "gone"} /\ host # "done" => status # "none"
    /\ host \notin {"start", "done"} => worker # "none"
    /\ host = "start" => worker = "none"

\* What the host knows.
HostKnows ==
    /\ hello /\ Restricted => proof /\ evidence
    /\ canWrite \/ sent > 0 => hello
    /\ response # "none" => result # "none" /\ response = Public
    /\ eof => ~HoldsPipes /\ ~helper /\ stdout = <<>>

\* An exchange that has not failed.
Succeeding ==
    /\ host \in {"exit", "finish"} /\ failure = "none" => response # "none" /\ received = <<>> /\ eof
    /\ host = "finish" /\ failure = "none" =>
         worker = "gone" /\ (IF Restricted THEN confirmed ELSE reaped)
    /\ outcome # "none" => host = "done"

IInv ==
    /\ TypeOK /\ Streams /\ WorkerPast /\ HostKnows /\ Succeeding
    /\ AnswerIsGenuine /\ RestrictedLeavesNothing

---------------------------------------------------------------------------
(* A call that nothing disturbs *)

\* A part of a frame, from its chunk n + 1.
PartOf(s, f, n) == \A i \in 1..Len(s) : s[i] = <<f, n + i>>

\* What is in flight is one frame.
Carries(f) ==
    /\ Len(received) + Len(stdout) + Len(todo) = Parts
    /\ PartOf(received, f, 0)
    /\ PartOf(stdout, f, Len(received))
    /\ PartOf(todo, f, Len(received) + Len(stdout))

Idle == received = <<>> /\ stdout = <<>> /\ todo = <<>>

Answering == {"respond", "exiting", "gone"}

\* The steps of the protocol that host and worker have taken.
Progress ==
    /\ failure \in {"none", "Deadline"} /\ (failure = "Deadline" => late)
    /\ ~helper /\ worker \in {"none", "start", "hello", "request", "run"} \cup Answering
    /\ taken + stdin = sent
    /\ worker \in {"none", "start"} => ~hello
    /\ worker \in {"run"} \cup Answering => sent = Parts
    /\ worker \in Answering => result # "none"
    /\ worker \in {"exiting", "gone"} => status = "ok"
    /\ todo # <<>> => worker \in {"hello", "respond"}
    /\ host \in {"read", "frame"} /\ canWrite => sent < Parts

\* What is in flight, by the step the worker has come to.
InFlight ==
    /\ worker \in {"none", "start"} => Idle
    /\ worker \in {"hello", "request", "run"} => IF hello THEN Idle ELSE Carries("hello")
    /\ worker \in Answering => IF response = "none" THEN Carries(Public) ELSE Idle

FollowerInv ==
    /\ ~disturbed /\ host # "done" => Progress /\ InFlight
    /\ FollowerIsAnswered

---------------------------------------------------------------------------
(* Sequences *)

LEMMA TakeFirst ==
    ASSUME NEW S, NEW s \in Seq(S), s # <<>>
    PROVE  /\ Head(s) \in S /\ Tail(s) \in Seq(S) /\ Head(s) = s[1]
           /\ Len(s) \in Nat /\ Len(s) >= 1 /\ Len(Tail(s)) = Len(s) - 1
           /\ \A i \in 1..(Len(s) - 1) : Tail(s)[i] = s[i + 1]
  BY SMT, HeadTailProperties

LEMMA AddLast ==
    ASSUME NEW S, NEW s \in Seq(S), NEW x \in S
    PROVE  /\ Append(s, x) \in Seq(S) /\ Len(s) \in Nat /\ Len(Append(s, x)) = Len(s) + 1
           /\ \A i \in 1..(Len(s) + 1) : Append(s, x)[i] = IF i <= Len(s) THEN s[i] ELSE x
  BY SMT, AppendProperties

LEMMA LargerSet ==
    ASSUME NEW S, NEW T, S \subseteq T
    PROVE  Seq(S) \subseteq Seq(T)
  BY SMT

LEMMA TheRest ==
    ASSUME NEW S, NEW s \in Seq(S), NEW n \in Nat
    PROVE  /\ SubSeq(s, n + 1, Len(s)) \in Seq(S)
           /\ Len(s) <= n => SubSeq(s, n + 1, Len(s)) = <<>>
           /\ Len(SubSeq(s, n + 1, Len(s))) <= Len(s)
  BY SMT

LEMMA NoLength ==
    ASSUME NEW S, NEW s \in Seq(S), Len(s) = 0
    PROVE  s = <<>>
  BY SMT

\* A frame is made of chunks.
LEMMA FrameFacts ==
    ASSUME NEW f
    PROVE  /\ FrameOf(f) \in Seq({f} \X (1..Parts)) /\ Len(FrameOf(f)) = Parts
           /\ FrameOf(f) # <<>>
           /\ \A i \in 1..Parts : FrameOf(f)[i] = <<f, i>>
  BY SMT, WorkerAssumption DEF FrameOf

---------------------------------------------------------------------------
(* Types *)

LEMMA AnswerFacts ==
    /\ Answers = {"values", "manyValues", "errorText", "outputLimit", "errorCode"}
    /\ \A r \in Results : Sanitized(r) \in Answers /\ r \in Answers
    /\ \A r \in Answers : Sanitized(r) \in Answers /\ Sanitized(Sanitized(r)) = Sanitized(r)
  BY DEF Answers, Results, Sanitized

LEMMA Booleans ==
    ASSUME TypeOK
    PROVE  /\ hello \in BOOLEAN /\ proof \in BOOLEAN /\ canWrite \in BOOLEAN /\ eof \in BOOLEAN
           /\ confirmed \in BOOLEAN /\ reaped \in BOOLEAN /\ evidence \in BOOLEAN
           /\ helper \in BOOLEAN /\ runDir \in BOOLEAN /\ disturbed \in BOOLEAN
  BY DEF TypeOK

LEMMA BlamedFailure ==
    ASSUME NEW f \in Failures
    PROVE  Blamed(f) \in Failures /\ (Blamed(f) = "Deadline" => f = "Deadline")
  BY DEF Blamed, Failures

LEMMA TypeQuiet ==
    ASSUME TypeOK, Tick \/ Refuse \/ Spawn \/ SystemError \/ Poll \/ PollInterrupted
                   \/ LeaveExchange \/ WaitidFails
    PROVE  TypeOK'
  <1>1. CASE Tick
    BY <1>1 DEF TypeOK, Tick, hostVars, workerVars
  <1>2. CASE Refuse
    BY SMT, <1>2, Booleans DEF TypeOK, Refuse, hostVars, workerVars, Failures, HostAt
  <1>3. CASE Spawn
    <2>1. /\ host' \in HostAt /\ failure' \in Failures \cup {"none"} /\ worker' \in WorkerAt
          /\ runDir' = TRUE /\ disturbed' \in BOOLEAN
      BY <1>3, Booleans, BlamedFailure DEF TypeOK, Spawn, HostAt, Failures, WorkerAt
    <2> QED
      BY <1>3, <2>1, Booleans, ZenonT(40) DEF TypeOK, Spawn
  <1>4. CASE SystemError
    BY SMT, <1>4, Booleans, BlamedFailure
       DEF TypeOK, SystemError, Fails, hostVars, workerVars, HostAt, Failures
  <1>5. CASE \E ready \in BOOLEAN : Polled(ready)
    BY SMT, <1>5, Booleans
       DEF TypeOK, Polled, Fails, hostVars, workerVars, HostAt, Failures, WantWrite, Writable
  <1>6. CASE LeaveExchange
    BY SMT, <1>6, Booleans DEF TypeOK, LeaveExchange, hostVars, workerVars, HostAt, Failures
  <1>7. CASE WaitidFails
    BY <1>7, Booleans DEF TypeOK, WaitidFails, hostVars, workerVars, HostAt, Failures
  <1> QED
    BY <1>1, <1>2, <1>3, <1>4, <1>5, <1>6, <1>7 DEF Poll, PollInterrupted

\* The first chunk read, when it makes a frame.
LEMMA FirstChunk ==
    ASSUME NEW S, received \in Seq(S), S \subseteq Chunks
    PROVE  /\ TryFrame = "none" \/ TryFrame = "malformed"
              \/ (received # <<>> /\ Head(received) \in S /\ TryFrame = Head(received)[1])
           /\ Rest \in Seq(S) /\ Len(Rest) <= Len(received)
  <1>1. Rest \in Seq(S) /\ Len(Rest) <= Len(received)
    BY TheRest, WorkerAssumption DEF Rest
  <1>2. CASE received = <<>>
    BY <1>1, <1>2 DEF TryFrame
  <1>3. CASE received # <<>>
    <2>1. Head(received) \in S
      BY <1>3, TakeFirst
    <2> QED
      BY <1>1, <1>3, <2>1 DEF TryFrame
  <1> QED
    BY <1>2, <1>3

LEMMA WriteFacts ==
    ASSUME TypeOK, Write
    PROVE  /\ sent' \in 0..Parts /\ stdin' \in 0..PipeSize /\ sent' >= sent
           /\ \A t \in Nat : t + stdin = sent => t + stdin' = sent'
  <1>0. sent \in 0..Parts /\ stdin \in 0..PipeSize /\ Parts \in Nat /\ PipeSize \in Nat
    BY WorkerAssumption DEF TypeOK
  <1>1. CASE ~canWrite
    BY SMT, <1>0, <1>1 DEF Write
  <1>2. CASE canWrite
    <2>1. PICK n \in 1..(Parts - sent) : stdin + n <= PipeSize /\ sent' = sent + n /\ stdin' = stdin + n
      BY <1>2 DEF Write
    <2> QED
      BY SMT, <1>0, <1>2, <2>1
  <1> QED
    BY <1>1, <1>2

LEMMA TypeRead ==
    ASSUME TypeOK, Streams, ReadAvailable
    PROVE  TypeOK' /\ Streams'
  <1>0. TypeOK' /\ received' \in Seq(Traceable) /\ stdout' \in Seq(Traceable)
    <2>1. CASE late
      BY SMT, <2>1, Booleans
         DEF TypeOK, Streams, ReadAvailable, Fails, hostVars, workerVars, HostAt, Failures
    <2>2. CASE ~late /\ stdout # <<>> /\ Fits
      <3>1. /\ Tail(stdout) \in Seq(Traceable) /\ Len(Tail(stdout)) = Len(stdout) - 1
            /\ Len(stdout) \in Nat
            /\ Append(received, Head(stdout)) \in Seq(Traceable)
            /\ Len(Append(received, Head(stdout))) = Len(received) + 1 /\ Len(received) \in Nat
        BY SMT, <2>2, TakeFirst, AddLast DEF Streams
      <3>2. /\ received' = Append(received, Head(stdout)) /\ stdout' = Tail(stdout)
            /\ UNCHANGED <<host, failure, eof>>
        BY <2>2 DEF ReadAvailable
      <3>3. Len(received') <= BufferSize /\ Len(stdout') <= PipeSize
        BY SMT, <2>2, <3>1, <3>2, WorkerAssumption DEF TypeOK, Fits
      <3> QED
        BY <3>1, <3>2, <3>3, Booleans DEF TypeOK, ReadAvailable, workerVars
    <2>3. CASE ~late /\ stdout # <<>> /\ ~Fits
      <3>1. Tail(stdout) \in Seq(Traceable) /\ Len(Tail(stdout)) = Len(stdout) - 1 /\ Len(stdout) \in Nat
        BY <2>3, TakeFirst DEF Streams
      <3>2. /\ stdout' = Tail(stdout) /\ host' = "exit" /\ failure' \in Failures
            /\ UNCHANGED <<received, eof>>
        BY <2>3, BlamedFailure DEF ReadAvailable, Fails, Failures
      <3>3. Len(stdout') <= PipeSize
        BY SMT, <3>1, <3>2, WorkerAssumption DEF TypeOK
      <3> QED
        BY <3>1, <3>2, <3>3, Booleans DEF TypeOK, Streams, ReadAvailable, workerVars, HostAt
    <2>4. CASE ~late /\ stdout = <<>>
      BY SMT, <2>4, Booleans
         DEF TypeOK, Streams, ReadAvailable, hostVars, workerVars, HostAt, HoldsPipes
    <2> QED
      BY <2>1, <2>2, <2>3, <2>4
  <1>1. Traceable' = Traceable /\ todo' = todo
    BY DEF ReadAvailable, workerVars, Traceable, Restricted, Public, Sanitized
  <1> QED
    BY <1>0, <1>1 DEF Streams

LEMMA TypeAwait ==
    ASSUME TypeOK, Streams, AwaitHello
    PROVE  TypeOK' /\ Streams'
  <1>1. Traceable' = Traceable /\ UNCHANGED <<todo, stdout>>
    BY DEF AwaitHello, workerVars, Traceable, Restricted, Public, Sanitized
  <1>2. received' \in {received, Rest}
    BY DEF AwaitHello
  <1>3. received' \in Seq(Traceable) /\ Len(received') <= BufferSize
    <2>1. received \in Seq(Traceable) /\ Len(received) <= BufferSize /\ Len(received) \in Nat
      BY SMT DEF TypeOK, Streams
    <2>2. Rest \in Seq(Traceable) /\ Len(Rest) <= Len(received) /\ Len(Rest) \in Nat
      BY SMT, <2>1, FirstChunk DEF Traceable
    <2> QED
      BY SMT, <1>2, <2>1, <2>2, WorkerAssumption
  <1>4. /\ host' \in HostAt /\ failure' \in Failures \cup {"none"} /\ hello' \in BOOLEAN
        /\ proof' \in BOOLEAN /\ disturbed' \in BOOLEAN
    BY Booleans, BlamedFailure DEF TypeOK, AwaitHello, Fails, HostAt, Failures, Restricted
  <1> QED
    BY SMT, <1>1, <1>3, <1>4, Booleans DEF TypeOK, Streams, AwaitHello, workerVars

LEMMA TypeExchange ==
    ASSUME TypeOK, Streams, Exchange
    PROVE  TypeOK' /\ Streams'
  <1>1. Traceable' = Traceable /\ UNCHANGED <<todo, stdout>>
    BY DEF Exchange, workerVars, Traceable, Restricted, Public, Sanitized
  <1>2. received' \in {received, Rest}
    BY DEF Exchange
  <1>3. received' \in Seq(Traceable) /\ Len(received') <= BufferSize
    <2>1. received \in Seq(Traceable) /\ Len(received) <= BufferSize /\ Len(received) \in Nat
      BY SMT DEF TypeOK, Streams
    <2>2. Rest \in Seq(Traceable) /\ Len(Rest) <= Len(received) /\ Len(Rest) \in Nat
      BY SMT, <2>1, FirstChunk DEF Traceable
    <2> QED
      BY SMT, <1>2, <2>1, <2>2, WorkerAssumption
  <1>4. host' \in HostAt /\ failure' \in Failures \cup {"none"} /\ response' \in Answers \cup {"none"}
    BY AnswerFacts DEF TypeOK, Exchange, Fails, HostAt, Failures
  <1>5. sent' \in 0..Parts /\ stdin' \in 0..PipeSize
    BY WriteFacts DEF Exchange, TypeOK
  <1> QED
    BY SMT, <1>1, <1>3, <1>4, <1>5, Booleans DEF TypeOK, Streams, Exchange, workerVars

LEMMA TypeFinish ==
    ASSUME TypeOK, Finish
    PROVE  TypeOK'
  <1>1. /\ host' = "done" /\ worker' = "gone" /\ status' \in {"none", "ok", "error", "killed"}
        /\ helper' \in BOOLEAN /\ reaped' \in BOOLEAN /\ runDir' \in BOOLEAN /\ disturbed' \in BOOLEAN
        /\ outcome' \in Answers \cup Failures \cup {"none"}
    BY Booleans DEF TypeOK, Finish, Stopped, Failures
  <1> QED
    BY <1>1, Booleans DEF TypeOK, Finish, HostAt, WorkerAt

LEMMA ChunksFixed == Chunks' = Chunks /\ Answers' = Answers
  BY DEF Chunks, Junk, Answers, Results, Sanitized

LEMMA TypeWorkerStart ==
    ASSUME TypeOK, Streams, WorkerPast, WorkerStart
    PROVE  TypeOK' /\ Streams'
  <1>1. PICK seen \in BOOLEAN :
             /\ evidence' = (Restricted /\ seen)
             /\ worker' = IF Isolated(seen) THEN "hello" ELSE "deny"
             /\ todo' = FrameOf(IF Isolated(seen) THEN "hello" ELSE "denied")
             /\ disturbed' = (disturbed \/ ~Isolated(seen))
    BY DEF WorkerStart
  <1>2. UNCHANGED <<policy, result, received, stdout>> /\ ~evidence
    BY DEF WorkerStart, otherVars, hostVars, WorkerPast
  <1>3. Traceable \subseteq Traceable'
    BY <1>2 DEF Traceable, Restricted, Public, Sanitized, Chunks
  <1>4. received' \in Seq(Traceable') /\ stdout' \in Seq(Traceable')
    BY <1>2, <1>3, LargerSet DEF Streams
  <1>5. todo' \in Seq(Traceable')
    <2> DEFINE f == IF Isolated(seen) THEN "hello" ELSE "denied"
    <2>1. \A i \in 1..Parts : <<f, i>> \in Chunks
      BY DEF Chunks
    <2>2. \A i \in 1..Parts : <<f, i>> \in Traceable'
      <3>1. f \notin Answers /\ (f = "hello" /\ Restricted' => evidence')
        BY <1>1, <1>2, AnswerFacts DEF Restricted, Isolated
      <3> QED
        BY <2>1, <3>1, ChunksFixed DEF Traceable
    <2>3. {f} \X (1..Parts) \subseteq Traceable'
      BY SMT, <2>2
    <2>4. FrameOf(f) \in Seq({f} \X (1..Parts)) /\ todo' = FrameOf(f)
      BY <1>1, FrameFacts
    <2> HIDE DEF f
    <2>5. Seq({f} \X (1..Parts)) \subseteq Seq(Traceable')
      BY <2>3, LargerSet
    <2> QED
      BY <2>4, <2>5
  <1>6. TypeOK'
    BY SMT, <1>1, <1>2, Booleans
       DEF TypeOK, WorkerStart, otherVars, hostVars, WorkerAt, Isolated, Restricted
  <1> QED
    BY <1>4, <1>5, <1>6 DEF Streams

LEMMA TypeWorkerWrites ==
    ASSUME TypeOK, Streams, WorkerWrites
    PROVE  TypeOK' /\ Streams'
  <1>1. Traceable' = Traceable /\ received' = received
    BY DEF WorkerWrites, otherVars, hostVars, Traceable, Restricted, Public, Sanitized
  <1>2. CASE todo # <<>>
    <2>1. stdout' = Append(stdout, Head(todo)) /\ todo' = Tail(todo) /\ Len(stdout) < PipeSize
      BY <1>2 DEF WorkerWrites
    <2>2. /\ stdout' \in Seq(Traceable) /\ todo' \in Seq(Traceable) /\ Len(stdout) \in Nat
          /\ Len(stdout') = Len(stdout) + 1
      BY SMT, <1>2, <2>1, TakeFirst, AddLast DEF Streams
    <2>3. Len(stdout') <= PipeSize
      BY SMT, <2>1, <2>2, WorkerAssumption
    <2> QED
      BY <1>1, <1>2, <2>2, <2>3, Booleans DEF TypeOK, Streams, WorkerWrites, otherVars, hostVars
  <1>3. CASE todo = <<>>
    BY <1>1, <1>3, Booleans DEF TypeOK, Streams, WorkerWrites, otherVars, hostVars, WorkerAt
  <1> QED
    BY <1>2, <1>3

LEMMA TypeExecute ==
    ASSUME TypeOK, Streams, WorkerPast, Execute
    PROVE  TypeOK' /\ Streams'
  <1>1. /\ result' \in Results /\ worker' = "respond" /\ result = "none"
        /\ UNCHANGED <<policy, evidence, received, stdout>>
    BY DEF Execute, otherVars, hostVars, WorkerPast
  <1>2. Traceable \subseteq Traceable'
    BY <1>1, AnswerFacts DEF Traceable, Restricted, Chunks
  <1>3. received' \in Seq(Traceable') /\ stdout' \in Seq(Traceable')
    BY <1>1, <1>2, LargerSet DEF Streams
  <1>4. todo' \in Seq(Traceable')
    <2> DEFINE f == Public'
    <2>1. f \in Answers /\ todo' = FrameOf(f)
      BY <1>1, AnswerFacts DEF Execute, Public, Restricted
    <2>2. \A i \in 1..Parts : <<f, i>> \in Chunks
      BY <2>1 DEF Chunks
    <2>3. result' # "none" /\ f # "hello"
      BY <1>1, <2>1, AnswerFacts DEF Results
    <2>4. \A i \in 1..Parts : <<f, i>> \in Traceable'
      BY <2>1, <2>2, <2>3, ChunksFixed DEF Traceable
    <2>5. {f} \X (1..Parts) \subseteq Traceable'
      BY SMT, <2>4
    <2>6. FrameOf(f) \in Seq({f} \X (1..Parts))
      BY FrameFacts
    <2> HIDE DEF f
    <2>7. Seq({f} \X (1..Parts)) \subseteq Seq(Traceable')
      BY <2>5, LargerSet
    <2> QED
      BY <2>1, <2>6, <2>7
  <1>5. TypeOK'
    BY <1>1, Booleans DEF TypeOK, Execute, otherVars, hostVars, WorkerAt
  <1> QED
    BY <1>3, <1>4, <1>5 DEF Streams

LEMMA TypeStrayOutput ==
    ASSUME TypeOK, Streams, StrayOutput
    PROVE  TypeOK' /\ Streams'
  <1>1. PICK c \in Junk : stdout' = Append(stdout, c)
    BY DEF StrayOutput
  <1>2. c \in Traceable
    BY SMT, AnswerFacts DEF Traceable, Chunks, Junk
  <1>3. stdout' \in Seq(Traceable) /\ Len(stdout') = Len(stdout) + 1 /\ Len(stdout) \in Nat
    BY <1>1, <1>2, AddLast DEF Streams
  <1>4. Traceable' = Traceable /\ UNCHANGED <<received, todo>>
    BY DEF StrayOutput, otherVars, hostVars, Traceable, Restricted, Public, Sanitized
  <1>5. Len(stdout') <= PipeSize
    BY SMT, <1>3, WorkerAssumption DEF StrayOutput
  <1> QED
    BY SMT, <1>3, <1>4, <1>5, Booleans DEF TypeOK, Streams, StrayOutput, otherVars, hostVars

LEMMA TypeWorkerQuiet ==
    ASSUME TypeOK, WorkerReads \/ Exited \/ WorkerDies \/ WorkerHangs \/ Helper
    PROVE  TypeOK'
  <1>1. CASE WorkerReads
    BY SMT, <1>1, Booleans, WorkerAssumption DEF TypeOK, WorkerReads, otherVars, hostVars, WorkerAt
  <1>2. CASE Exited
    BY <1>2, Booleans DEF TypeOK, Exited, otherVars, hostVars, WorkerAt
  <1>3. CASE WorkerDies
    BY SMT, <1>3, Booleans DEF TypeOK, WorkerDies, otherVars, hostVars, WorkerAt
  <1>4. CASE WorkerHangs
    BY SMT, <1>4, Booleans DEF TypeOK, WorkerHangs, otherVars, hostVars, WorkerAt
  <1>5. CASE Helper
    BY SMT, <1>5, Booleans DEF TypeOK, Helper, otherVars, hostVars
  <1> QED
    BY <1>1, <1>2, <1>3, <1>4, <1>5

\* The steps that leave the streams alone.
LEMMA StreamsKept ==
    ASSUME Streams, UNCHANGED <<policy, evidence, result, received, stdout, todo>>
    PROVE  Streams'
  BY DEF Streams, Traceable, Restricted, Public, Sanitized

---------------------------------------------------------------------------
(* Safety *)

LEMMA PastKept ==
    ASSUME IInv, Next
    PROVE  WorkerPast'
  <1>0. TypeOK /\ WorkerPast /\ HostKnows
    BY DEF IInv
  <1>1. CASE Tick
    BY <1>1, <1>0, Booleans DEF Tick, hostVars, workerVars, WorkerPast, HoldsPipes
  <1>2. CASE Refuse
    BY <1>2, <1>0, Booleans DEF Refuse, workerVars, WorkerPast, HoldsPipes
  <1>3. CASE Spawn
    BY <1>3, <1>0, Booleans DEF Spawn, workerVars, WorkerPast, HoldsPipes
  <1>4. CASE SystemError
    BY <1>4, <1>0, Booleans DEF SystemError, Fails, workerVars, WorkerPast, HoldsPipes
  <1>5. CASE Poll
    BY <1>5, <1>0, Booleans DEF Poll, Polled, Fails, workerVars, WorkerPast, HoldsPipes
  <1>6. CASE PollInterrupted
    BY <1>6, <1>0, Booleans DEF PollInterrupted, Polled, Fails, workerVars, WorkerPast, HoldsPipes
  <1>7. CASE ReadAvailable
    BY <1>7, <1>0, Booleans DEF ReadAvailable, Fails, workerVars, WorkerPast, HoldsPipes, HostKnows
  <1>8. CASE AwaitHello
    BY <1>8, <1>0, Booleans DEF AwaitHello, Fails, workerVars, WorkerPast, HoldsPipes
  <1>9. CASE Exchange
    BY <1>9, <1>0, Booleans DEF Exchange, Fails, workerVars, WorkerPast, HoldsPipes
  <1>10. CASE LeaveExchange
    BY <1>10, <1>0, Booleans DEF LeaveExchange, workerVars, WorkerPast, HoldsPipes
  <1>11. CASE WaitidFails
    BY <1>11, <1>0, Booleans DEF WaitidFails, workerVars, WorkerPast, HoldsPipes
  <1>12. CASE Finish
    BY <1>12, <1>0, Booleans DEF Finish, workerVars, WorkerPast, HoldsPipes
  <1>13. CASE host # "done" /\ WorkerStart
    BY <1>13, <1>0, Booleans DEF WorkerStart, otherVars, hostVars, WorkerPast, HoldsPipes
  <1>14. CASE host # "done" /\ WorkerWrites
    BY <1>14, <1>0, Booleans DEF WorkerWrites, otherVars, hostVars, WorkerPast, HoldsPipes
  <1>15. CASE host # "done" /\ WorkerReads
    BY SMT, <1>15, <1>0, Booleans
       DEF WorkerReads, otherVars, hostVars, WorkerPast, HoldsPipes, TypeOK
  <1>16. CASE host # "done" /\ Execute
    BY <1>16, <1>0, Booleans DEF Execute, otherVars, hostVars, WorkerPast, HoldsPipes, TypeOK
  <1>17. CASE host # "done" /\ Exited
    BY <1>17, <1>0, Booleans DEF Exited, otherVars, hostVars, WorkerPast, HoldsPipes
  <1>18. CASE host # "done" /\ WorkerDies
    BY <1>18, <1>0, Booleans DEF WorkerDies, otherVars, hostVars, WorkerPast, HoldsPipes
  <1>19. CASE host # "done" /\ WorkerHangs
    BY <1>19, <1>0, Booleans DEF WorkerHangs, otherVars, hostVars, WorkerPast, HoldsPipes
  <1>20. CASE host # "done" /\ StrayOutput
    BY <1>20, <1>0, Booleans DEF StrayOutput, otherVars, hostVars, WorkerPast, HoldsPipes
  <1>21. CASE host # "done" /\ Helper
    BY <1>21, <1>0, Booleans DEF Helper, otherVars, hostVars, WorkerPast, HoldsPipes
  <1> QED
    BY <1>1, <1>2, <1>3, <1>4, <1>5, <1>6, <1>7, <1>8, <1>9, <1>10, <1>11, <1>12, <1>13, <1>14,
       <1>15, <1>16, <1>17, <1>18, <1>19, <1>20, <1>21
       DEF Next

LEMMA KnowsPolled ==
    ASSUME TypeOK, WorkerPast, HostKnows, Poll \/ PollInterrupted
    PROVE  HostKnows'
  <1>1. /\ UNCHANGED <<policy, hello, proof, evidence, sent, response, result, eof, stdout, worker, helper>>
        /\ canWrite' => canWrite \/ hello
    BY Booleans DEF Poll, PollInterrupted, Polled, WantWrite, workerVars
  <1> QED
    BY <1>1, Booleans DEF HostKnows, Restricted, Public, Sanitized, HoldsPipes

\* A hello that is accepted was sent by a worker that found itself isolated.
LEMMA KnowsAwait ==
    ASSUME TypeOK, Streams, HostKnows, AwaitHello
    PROVE  HostKnows'
  <1>1. /\ UNCHANGED <<policy, canWrite, sent, response, result, eof, evidence, stdout, worker, helper>>
        /\ \/ UNCHANGED <<hello, proof>>
           \/ TryFrame = "hello" /\ hello' = TRUE /\ proof' = Restricted
    BY DEF AwaitHello, workerVars
  <1>2. TryFrame = "hello" /\ Restricted => evidence
    <2>1. received \in Seq(Traceable) /\ Traceable \subseteq Chunks
      BY DEF Streams, Traceable
    <2> QED
      BY SMT, <2>1, FirstChunk DEF Traceable
  <1> QED
    BY SMT, <1>1, <1>2, Booleans DEF HostKnows, Restricted, Public, Sanitized, HoldsPipes

\* An answer that is accepted is what the request yielded.
LEMMA KnowsExchange ==
    ASSUME TypeOK, Streams, HostKnows, Exchange
    PROVE  HostKnows'
  <1>1. /\ UNCHANGED <<policy, hello, proof, canWrite, result, eof, evidence, stdout, worker, helper>> /\ hello
        /\ \/ response' = response
           \/ TryFrame \in Answers /\ response' = IF Restricted THEN Sanitized(TryFrame) ELSE TryFrame
    BY DEF Exchange, workerVars, Fails
  <1>2. TryFrame \in Answers => result # "none" /\ TryFrame = Public
    <2>1. received \in Seq(Traceable) /\ Traceable \subseteq Chunks
      BY DEF Streams, Traceable
    <2>2. "none" \notin Answers /\ "malformed" \notin Answers
      BY AnswerFacts
    <2> QED
      BY SMT, <2>1, <2>2, FirstChunk DEF Traceable
  <1>3. response' = response \/ (result # "none" /\ response' = Public)
    <2>1. result # "none" /\ Restricted => Sanitized(Public) = Public
      BY AnswerFacts DEF TypeOK, Public
    <2> QED
      BY <1>1, <1>2, <2>1 DEF Public
  <1>4. Public' = Public /\ Restricted' = Restricted /\ HoldsPipes' = HoldsPipes
    BY <1>1 DEF Public, Restricted, Sanitized, HoldsPipes
  <1> QED
    BY <1>1, <1>3, <1>4, Booleans DEF HostKnows

LEMMA KnowsKept ==
    ASSUME IInv, Next
    PROVE  HostKnows'
  <1>0. TypeOK /\ Streams /\ WorkerPast /\ HostKnows
    BY DEF IInv
  <1>1. CASE Tick
    BY <1>1, <1>0, Booleans
       DEF Tick, hostVars, workerVars, HostKnows, WorkerPast, HoldsPipes, Restricted, Public,
           Sanitized
  <1>2. CASE Refuse
    BY <1>2, <1>0, Booleans
       DEF Refuse, workerVars, HostKnows, WorkerPast, HoldsPipes, Restricted, Public, Sanitized
  <1>3. CASE Spawn
    BY <1>3, <1>0, Booleans
       DEF Spawn, workerVars, HostKnows, WorkerPast, HoldsPipes, Restricted, Public, Sanitized
  <1>4. CASE SystemError
    BY <1>4, <1>0, Booleans
       DEF SystemError, Fails, workerVars, HostKnows, WorkerPast, HoldsPipes, Restricted, Public,
           Sanitized
  <1>5. CASE Poll
    BY <1>5, <1>0, KnowsPolled
  <1>6. CASE PollInterrupted
    BY <1>6, <1>0, KnowsPolled
  <1>7. CASE ReadAvailable
    BY <1>7, <1>0, Booleans
       DEF ReadAvailable, Fails, workerVars, HostKnows, WorkerPast, HoldsPipes, Restricted, Public,
           Sanitized
  <1>8. CASE AwaitHello
    BY <1>8, <1>0, KnowsAwait
  <1>9. CASE Exchange
    BY <1>9, <1>0, KnowsExchange
  <1>10. CASE LeaveExchange
    BY <1>10, <1>0, Booleans
       DEF LeaveExchange, workerVars, HostKnows, WorkerPast, HoldsPipes, Restricted, Public,
           Sanitized
  <1>11. CASE WaitidFails
    BY <1>11, <1>0, Booleans
       DEF WaitidFails, workerVars, HostKnows, WorkerPast, HoldsPipes, Restricted, Public, Sanitized
  <1>12. CASE Finish
    <2>1. UNCHANGED <<policy, hello, proof, canWrite, sent, result, response, eof, evidence, stdout>>
      BY <1>12 DEF Finish
    <2>2. (helper' => helper) /\ ~HoldsPipes'
      BY <1>12, <1>0, Booleans DEF Finish, HoldsPipes, Stopped
    <2> QED
      BY <1>0, <2>1, <2>2, Booleans DEF HostKnows, Restricted, Public, Sanitized
  <1>13. CASE host # "done" /\ WorkerStart
    BY <1>13, <1>0, Booleans
       DEF WorkerStart, otherVars, hostVars, HostKnows, WorkerPast, HoldsPipes, Restricted, Public,
           Sanitized
  <1>14. CASE host # "done" /\ WorkerWrites
    <2>1. HoldsPipes /\ UNCHANGED <<policy, hello, proof, canWrite, sent, result, response, eof, evidence, helper>>
      BY <1>14, <1>0 DEF WorkerWrites, HoldsPipes, otherVars, hostVars
    <2> QED
      BY <1>0, <2>1, Booleans DEF HostKnows, Restricted, Public, Sanitized
  <1>15. CASE host # "done" /\ WorkerReads
    BY <1>15, <1>0, Booleans
       DEF WorkerReads, otherVars, hostVars, HostKnows, WorkerPast, HoldsPipes, Restricted, Public,
           Sanitized
  <1>16. CASE host # "done" /\ Execute
    BY <1>16, <1>0, Booleans
       DEF Execute, otherVars, hostVars, HostKnows, WorkerPast, HoldsPipes, Restricted, Public,
           Sanitized
  <1>17. CASE host # "done" /\ Exited
    BY <1>17, <1>0, Booleans
       DEF Exited, otherVars, hostVars, HostKnows, WorkerPast, HoldsPipes, Restricted, Public,
           Sanitized
  <1>18. CASE host # "done" /\ WorkerDies
    BY <1>18, <1>0, Booleans
       DEF WorkerDies, otherVars, hostVars, HostKnows, WorkerPast, HoldsPipes, Restricted, Public,
           Sanitized
  <1>19. CASE host # "done" /\ WorkerHangs
    BY <1>19, <1>0, Booleans
       DEF WorkerHangs, otherVars, hostVars, HostKnows, WorkerPast, HoldsPipes, Restricted, Public,
           Sanitized
  <1>20. CASE host # "done" /\ StrayOutput
    BY <1>20, <1>0, Booleans
       DEF StrayOutput, otherVars, hostVars, HostKnows, WorkerPast, HoldsPipes, Restricted, Public,
           Sanitized
  <1>21. CASE host # "done" /\ Helper
    BY <1>21, <1>0, Booleans
       DEF Helper, otherVars, hostVars, HostKnows, WorkerPast, HoldsPipes, Restricted, Public,
           Sanitized
  <1> QED
    BY <1>1, <1>2, <1>3, <1>4, <1>5, <1>6, <1>7, <1>8, <1>9, <1>10, <1>11, <1>12, <1>13, <1>14,
       <1>15, <1>16, <1>17, <1>18, <1>19, <1>20, <1>21
       DEF Next

\* The call has not returned.
LEMMA Running ==
    ASSUME host' # "done", outcome' = "none"
    PROVE  AnswerIsGenuine' /\ RestrictedLeavesNothing'
  BY AnswerFacts, ChunksFixed DEF AnswerIsGenuine, RestrictedLeavesNothing

LEMMA FinishIsSound ==
    ASSUME IInv, Finish
    PROVE  AnswerIsGenuine' /\ RestrictedLeavesNothing'
  <1>0. TypeOK /\ Streams /\ WorkerPast /\ HostKnows /\ Succeeding
    BY DEF IInv
  <1>1. PICK stopped \in (IF Restricted THEN BOOLEAN ELSE {TRUE}),
             waited \in (IF reaped THEN {TRUE} ELSE BOOLEAN), removed \in BOOLEAN :
             LET base == IF failure # "none" THEN failure ELSE response
                 ended == status' # "ok" /\ (Restricted => confirmed)
             IN  /\ helper' = Stopped(stopped)
                 /\ reaped' = waited
                 /\ outcome' = IF Restricted /\ ~(stopped /\ waited) THEN "Crash"
                               ELSE IF waited /\ ended /\ base \notin {"Deadline", "Malformed"}
                               THEN "Crash" ELSE base
    BY DEF Finish
  <1>2. /\ host = "finish" /\ host' = "done" /\ worker' = "gone"
        /\ status' = IF status = "none" THEN "killed" ELSE status
        /\ UNCHANGED <<policy, response, failure, taken, result, received, stdout>>
    BY DEF Finish
  <1>3. AnswerIsGenuine'
    <2> SUFFICES ASSUME outcome' \in Answers
                 PROVE  /\ taken' = Parts /\ result' # "none" /\ outcome' = Public'
                        /\ received' = <<>> /\ stdout' = <<>> /\ status' = "ok" /\ reaped'
      BY SMT, ChunksFixed DEF AnswerIsGenuine, Public
    <2>1. failure = "none"
      BY <1>0, <1>1, AnswerFacts DEF TypeOK, Failures
    <2>2. /\ response # "none" /\ received = <<>> /\ eof /\ worker = "gone"
          /\ IF Restricted THEN confirmed ELSE reaped
      BY <1>0, <1>2, <2>1 DEF Succeeding
    <2>3. stdout = <<>> /\ result # "none" /\ response = Public /\ taken = Parts
      BY <1>0, <2>2 DEF HostKnows, WorkerPast
    <2>4. waited /\ (Restricted => stopped) /\ outcome' # "Crash"
      BY <1>1, <2>2, AnswerFacts
    <2>5. response \notin {"Deadline", "Malformed"}
      BY <1>0, <2>2, AnswerFacts DEF TypeOK
    <2>6. status' = "ok" /\ outcome' = response
      BY <1>0, <1>1, <2>1, <2>2, <2>4, <2>5, Booleans
    <2> QED
      BY <1>1, <1>2, <2>2, <2>3, <2>4, <2>6 DEF Public, Restricted
  <1>4. RestrictedLeavesNothing'
    BY <1>0, <1>1, <1>2, Booleans DEF RestrictedLeavesNothing, Restricted, Stopped
  <1> QED
    BY <1>3, <1>4

LEMMA ReturnIsSound ==
    ASSUME IInv, Next
    PROVE  AnswerIsGenuine' /\ RestrictedLeavesNothing'
  <1>0. Succeeding /\ WorkerPast
    BY DEF IInv
  <1>1. CASE Tick
    <2>1. outcome' = "none" /\ host' # "done"
      BY <1>1, <1>0 DEF Tick, hostVars, workerVars, Succeeding
    <2> QED
      BY <2>1, Running
  <1>2. CASE Refuse
    BY <1>2, <1>0
       DEF Refuse, workerVars, AnswerIsGenuine, RestrictedLeavesNothing, Restricted, WorkerPast,
           Answers, Results, Sanitized
  <1>3. CASE Spawn
    <2>1. outcome' = "none" /\ host' # "done"
      BY <1>3, <1>0 DEF Spawn, workerVars, Succeeding
    <2> QED
      BY <2>1, Running
  <1>4. CASE SystemError
    <2>1. outcome' = "none" /\ host' # "done"
      BY <1>4, <1>0 DEF SystemError, Fails, workerVars, Succeeding
    <2> QED
      BY <2>1, Running
  <1>5. CASE Poll
    <2>1. outcome' = "none" /\ host' # "done"
      BY <1>5, <1>0 DEF Poll, Polled, Fails, workerVars, Succeeding
    <2> QED
      BY <2>1, Running
  <1>6. CASE PollInterrupted
    <2>1. outcome' = "none" /\ host' # "done"
      BY <1>6, <1>0 DEF PollInterrupted, Polled, Fails, workerVars, Succeeding
    <2> QED
      BY <2>1, Running
  <1>7. CASE ReadAvailable
    <2>1. outcome' = "none" /\ host' # "done"
      BY <1>7, <1>0 DEF ReadAvailable, Fails, workerVars, Succeeding
    <2> QED
      BY <2>1, Running
  <1>8. CASE AwaitHello
    <2>1. outcome' = "none" /\ host' # "done"
      BY <1>8, <1>0 DEF AwaitHello, Fails, workerVars, Succeeding
    <2> QED
      BY <2>1, Running
  <1>9. CASE Exchange
    <2>1. outcome' = "none" /\ host' # "done"
      BY <1>9, <1>0 DEF Exchange, Fails, workerVars, Succeeding
    <2> QED
      BY <2>1, Running
  <1>10. CASE LeaveExchange
    <2>1. outcome' = "none" /\ host' # "done"
      BY <1>10, <1>0 DEF LeaveExchange, workerVars, Succeeding
    <2> QED
      BY <2>1, Running
  <1>11. CASE WaitidFails
    <2>1. outcome' = "none" /\ host' # "done"
      BY <1>11, <1>0 DEF WaitidFails, workerVars, Succeeding
    <2> QED
      BY <2>1, Running
  <1>12. CASE Finish
    BY <1>12, FinishIsSound
  <1>13. CASE host # "done" /\ WorkerStart
    <2>1. outcome' = "none" /\ host' # "done"
      BY <1>13, <1>0 DEF WorkerStart, otherVars, hostVars, Succeeding
    <2> QED
      BY <2>1, Running
  <1>14. CASE host # "done" /\ WorkerWrites
    <2>1. outcome' = "none" /\ host' # "done"
      BY <1>14, <1>0 DEF WorkerWrites, otherVars, hostVars, Succeeding
    <2> QED
      BY <2>1, Running
  <1>15. CASE host # "done" /\ WorkerReads
    <2>1. outcome' = "none" /\ host' # "done"
      BY <1>15, <1>0 DEF WorkerReads, otherVars, hostVars, Succeeding
    <2> QED
      BY <2>1, Running
  <1>16. CASE host # "done" /\ Execute
    <2>1. outcome' = "none" /\ host' # "done"
      BY <1>16, <1>0 DEF Execute, otherVars, hostVars, Succeeding
    <2> QED
      BY <2>1, Running
  <1>17. CASE host # "done" /\ Exited
    <2>1. outcome' = "none" /\ host' # "done"
      BY <1>17, <1>0 DEF Exited, otherVars, hostVars, Succeeding
    <2> QED
      BY <2>1, Running
  <1>18. CASE host # "done" /\ WorkerDies
    <2>1. outcome' = "none" /\ host' # "done"
      BY <1>18, <1>0 DEF WorkerDies, otherVars, hostVars, Succeeding
    <2> QED
      BY <2>1, Running
  <1>19. CASE host # "done" /\ WorkerHangs
    <2>1. outcome' = "none" /\ host' # "done"
      BY <1>19, <1>0 DEF WorkerHangs, otherVars, hostVars, Succeeding
    <2> QED
      BY <2>1, Running
  <1>20. CASE host # "done" /\ StrayOutput
    <2>1. outcome' = "none" /\ host' # "done"
      BY <1>20, <1>0 DEF StrayOutput, otherVars, hostVars, Succeeding
    <2> QED
      BY <2>1, Running
  <1>21. CASE host # "done" /\ Helper
    <2>1. outcome' = "none" /\ host' # "done"
      BY <1>21, <1>0 DEF Helper, otherVars, hostVars, Succeeding
    <2> QED
      BY <2>1, Running
  <1> QED
    BY <1>1, <1>2, <1>3, <1>4, <1>5, <1>6, <1>7, <1>8, <1>9, <1>10, <1>11, <1>12, <1>13, <1>14,
       <1>15, <1>16, <1>17, <1>18, <1>19, <1>20, <1>21
       DEF Next

LEMMA SucceedingKept ==
    ASSUME IInv, Next
    PROVE  Succeeding'
  <1>0. TypeOK /\ Succeeding /\ HostKnows /\ WorkerPast
    BY DEF IInv
  <1>1. CASE Tick
    BY <1>1, <1>0, Booleans DEF Tick, hostVars, workerVars, Succeeding, Restricted
  <1>2. CASE Refuse
    BY <1>2, <1>0, Booleans DEF Refuse, workerVars, Succeeding, Restricted
  <1>3. CASE Spawn
    BY <1>3, <1>0, Booleans, BlamedFailure DEF Failures, Spawn, workerVars, Succeeding, Restricted
  <1>4. CASE SystemError
    BY <1>4, <1>0, Booleans, BlamedFailure
       DEF Failures, SystemError, Fails, workerVars, Succeeding, Restricted
  <1>5. CASE Poll
    BY <1>5, <1>0, Booleans DEF Poll, Polled, Fails, workerVars, Succeeding, Restricted
  <1>6. CASE PollInterrupted
    BY <1>6, <1>0, Booleans DEF PollInterrupted, Polled, Fails, workerVars, Succeeding, Restricted
  <1>7. CASE ReadAvailable
    BY <1>7, <1>0, Booleans, BlamedFailure
       DEF Failures, ReadAvailable, Fails, workerVars, Succeeding, Restricted
  <1>8. CASE AwaitHello
    BY <1>8, <1>0, Booleans, BlamedFailure
       DEF Failures, AwaitHello, Fails, workerVars, Succeeding, Restricted
  <1>9. CASE Exchange
    BY <1>9, <1>0, Booleans DEF Exchange, Fails, workerVars, Succeeding, Restricted
  <1>10. CASE LeaveExchange
    BY <1>10, <1>0, Booleans DEF LeaveExchange, workerVars, Succeeding, Restricted
  <1>11. CASE WaitidFails
    BY <1>11, <1>0, Booleans DEF WaitidFails, workerVars, Succeeding, Restricted
  <1>12. CASE Finish
    BY <1>12 DEF Finish, Succeeding, Restricted
  <1>13. CASE host # "done" /\ WorkerStart
    BY <1>13, <1>0, Booleans DEF WorkerStart, otherVars, hostVars, Succeeding, Restricted
  <1>14. CASE host # "done" /\ WorkerWrites
    BY <1>14, <1>0, Booleans DEF WorkerWrites, otherVars, hostVars, Succeeding, Restricted
  <1>15. CASE host # "done" /\ WorkerReads
    BY <1>15, <1>0, Booleans DEF WorkerReads, otherVars, hostVars, Succeeding, Restricted
  <1>16. CASE host # "done" /\ Execute
    BY <1>16, <1>0, Booleans DEF Execute, otherVars, hostVars, Succeeding, Restricted
  <1>17. CASE host # "done" /\ Exited
    BY <1>17, <1>0, Booleans DEF Exited, otherVars, hostVars, Succeeding, Restricted
  <1>18. CASE host # "done" /\ WorkerDies
    BY <1>18, <1>0, Booleans
       DEF HostKnows, HoldsPipes, WorkerDies, otherVars, hostVars, Succeeding, Restricted
  <1>19. CASE host # "done" /\ WorkerHangs
    BY <1>19, <1>0, Booleans
       DEF HostKnows, HoldsPipes, WorkerHangs, otherVars, hostVars, Succeeding, Restricted
  <1>20. CASE host # "done" /\ StrayOutput
    BY <1>20, <1>0, Booleans
       DEF HostKnows, HoldsPipes, StrayOutput, otherVars, hostVars, Succeeding, Restricted
  <1>21. CASE host # "done" /\ Helper
    BY <1>21, <1>0, Booleans
       DEF HostKnows, HoldsPipes, Helper, otherVars, hostVars, Succeeding, Restricted
  <1> QED
    BY <1>1, <1>2, <1>3, <1>4, <1>5, <1>6, <1>7, <1>8, <1>9, <1>10, <1>11, <1>12, <1>13, <1>14,
       <1>15, <1>16, <1>17, <1>18, <1>19, <1>20, <1>21
       DEF Next

LEMMA IInvInit ==
    ASSUME Init
    PROVE  IInv
  <1>1. TypeOK
    <2>1. /\ sent \in 0..Parts /\ stdin \in 0..PipeSize /\ taken \in 0..Parts
          /\ Len(received) <= BufferSize /\ Len(stdout) <= PipeSize
      BY SMT, WorkerAssumption DEF Init
    <2> QED
      BY <2>1 DEF Init, TypeOK, HostAt, WorkerAt
  <1>2. Streams
    BY SMT DEF Init, Streams
  <1>3. WorkerPast /\ HostKnows /\ Succeeding
    <2>1. WorkerPast /\ Succeeding
      BY DEF Init, WorkerPast, Succeeding
    <2>2. ~(sent > 0) /\ ~canWrite /\ ~hello /\ ~eof /\ response = "none"
      BY SMT DEF Init
    <2> QED
      BY <2>1, <2>2 DEF HostKnows
  <1>4. AnswerIsGenuine /\ RestrictedLeavesNothing
    BY AnswerFacts DEF Init, AnswerIsGenuine, RestrictedLeavesNothing
  <1> QED
    BY <1>1, <1>2, <1>3, <1>4 DEF IInv

LEMMA IInvStep ==
    ASSUME IInv, [Next]_vars
    PROVE  IInv'
  <1>0. TypeOK /\ Streams /\ WorkerPast
    BY DEF IInv
  <1>1. CASE Next
    <2>1. TypeOK' /\ Streams'
      <3>1. CASE Tick \/ Refuse \/ Spawn \/ SystemError \/ Poll \/ PollInterrupted
                 \/ LeaveExchange \/ WaitidFails
        <4>1. UNCHANGED <<policy, evidence, result, received, stdout, todo>>
          BY <3>1
             DEF Tick, Refuse, Spawn, SystemError, Poll, PollInterrupted, Polled, LeaveExchange,
                      WaitidFails, hostVars, workerVars
        <4> QED
          BY <1>0, <3>1, <4>1, TypeQuiet, StreamsKept
      <3>2. CASE ReadAvailable \/ AwaitHello \/ Exchange
        BY <1>0, <3>2, TypeRead, TypeAwait, TypeExchange
      <3>3. CASE Finish
        <4>1. UNCHANGED <<policy, evidence, result, received, stdout, todo>>
          BY <3>3 DEF Finish
        <4> QED
          BY <1>0, <3>3, <4>1, TypeFinish, StreamsKept
      <3>4. CASE WorkerStart \/ WorkerWrites \/ Execute \/ StrayOutput
        BY <1>0, <3>4, TypeWorkerStart, TypeWorkerWrites, TypeExecute, TypeStrayOutput
      <3>5. CASE WorkerReads \/ Exited \/ WorkerDies \/ WorkerHangs \/ Helper
        <4>1. UNCHANGED <<policy, evidence, result, received, stdout, todo>>
          BY <3>5 DEF WorkerReads, Exited, WorkerDies, WorkerHangs, Helper, otherVars, hostVars
        <4> QED
          BY <1>0, <3>5, <4>1, TypeWorkerQuiet, StreamsKept
      <3> QED
        BY <1>1, <3>1, <3>2, <3>3, <3>4, <3>5 DEF Next
    <2> QED
      BY <1>1, <2>1, PastKept, KnowsKept, SucceedingKept, ReturnIsSound DEF IInv
  <1>2. CASE UNCHANGED vars
    BY SMT, <1>2
       DEF IInv, vars, hostVars, workerVars, TypeOK, Streams, Traceable, Restricted, Public,
                Sanitized, WorkerPast, HostKnows, HoldsPipes, Succeeding, AnswerIsGenuine,
                RestrictedLeavesNothing
  <1> QED
    BY <1>1, <1>2

\* The invariant of every call: types; each chunk in flight is traceable to the
\* worker that wrote it; what the host has seen of the worker is still true of it.
THEOREM CallInvariant == Spec => []IInv
  <1>1. Init => IInv
    BY IInvInit
  <1>2. IInv /\ [Next]_vars => IInv'
    BY IInvStep
  <1> QED
    BY <1>1, <1>2, PTL DEF Spec

\* Every variable keeps its type; the pipes, which block their writer when full,
\* and the buffer of read_available, which refuses a longer frame, never hold more
\* than their size.
THEOREM TypesAreKept == Spec => []TypeOK
  <1>1. IInv => TypeOK
    BY DEF IInv
  <1> QED
    BY <1>1, CallInvariant, PTL

\* run_worker never returns an answer that is not the whole of what this request
\* yielded in a worker that then exited with success, however frames are cut,
\* whatever native code writes, and whenever the worker dies.
THEOREM AnswersAreGenuine == Spec => []AnswerIsGenuine
  <1>1. IInv => AnswerIsGenuine
    BY DEF IInv
  <1> QED
    BY <1>1, CallInvariant, PTL

\* The host writes no part of a request to a restricted worker before both
\* probes, the worker's and its own, have found the worker isolated.
THEOREM RequestsWaitForEvidence == Spec => []RequestNeedsEvidence
  <1>1. IInv => RequestNeedsEvidence
    BY DEF IInv, HostKnows, RequestNeedsEvidence
  <1> QED
    BY <1>1, CallInvariant, PTL

\* A restricted call that returns anything but a crash leaves no process behind.
THEOREM NothingIsLeftBehind == Spec => []RestrictedLeavesNothing
  <1>1. IInv => RestrictedLeavesNothing
    BY DEF IInv
  <1> QED
    BY <1>1, CallInvariant, PTL

---------------------------------------------------------------------------
(* A frame on its way *)

\* The host reads a chunk.
LEMMA CarriesRead ==
    ASSUME NEW f, Streams, Carries(f), stdout # <<>>,
           received' = Append(received, Head(stdout)), stdout' = Tail(stdout), todo' = todo
    PROVE  Carries(f)'
  <1> DEFINE r == Len(received)
             o == Len(stdout)
             d == Len(todo)
  <1>1. /\ r \in Nat /\ o \in Nat /\ d \in Nat /\ o >= 1
        /\ Len(received') = r + 1 /\ Len(stdout') = o - 1 /\ Len(todo') = d
        /\ Head(stdout) = stdout[1]
        /\ \A i \in 1..(o - 1) : stdout'[i] = stdout[i + 1]
        /\ \A i \in 1..(r + 1) : received'[i] = IF i <= r THEN received[i] ELSE Head(stdout)
    BY SMT, TakeFirst, AddLast DEF Streams
  <1>2. /\ r + o + d = Parts /\ \A i \in 1..r : received[i] = <<f, 0 + i>>
        /\ \A i \in 1..o : stdout[i] = <<f, r + i>>
        /\ \A i \in 1..d : todo[i] = <<f, r + o + i>>
    BY DEF Carries, PartOf
  <1> HIDE DEF r, o, d
  <1>3. (r + 1) + (o - 1) + d = Parts /\ (r + 1) + (o - 1) = r + o
    BY SMT, <1>1, <1>2
  <1>4. \A i \in 1..(r + 1) : received'[i] = <<f, 0 + i>>
    <2> SUFFICES ASSUME NEW i \in 1..(r + 1) PROVE received'[i] = <<f, 0 + i>>
      OBVIOUS
    <2>1. CASE i <= r
      <3>1. i \in 1..r /\ received'[i] = received[i]
        BY SMT, <1>1, <2>1
      <3> QED
        BY <1>2, <3>1
    <2>2. CASE i = r + 1
      <3>1. stdout[1] = <<f, r + 1>> /\ 0 + i = r + 1
        BY SMT, <1>1, <1>2, <2>2
      <3> QED
        BY SMT, <1>1, <2>2, <3>1
    <2> QED
      BY SMT, <1>1, <2>1, <2>2
  <1>5. \A i \in 1..(o - 1) : stdout'[i] = <<f, (r + 1) + i>>
    <2> SUFFICES ASSUME NEW i \in 1..(o - 1) PROVE stdout'[i] = <<f, (r + 1) + i>>
      OBVIOUS
    <2>1. i + 1 \in 1..o /\ r + (i + 1) = (r + 1) + i
      BY SMT, <1>1
    <2> QED
      BY <1>1, <1>2, <2>1
  <1>6. (Len(received) + Len(stdout) + Len(todo) = Parts)' /\ PartOf(received, f, 0)'
    BY <1>1, <1>3, <1>4 DEF PartOf
  <1>7. PartOf(stdout, f, Len(received))'
    BY <1>1, <1>5 DEF PartOf
  <1>8. PartOf(todo, f, Len(received) + Len(stdout))'
    BY <1>1, <1>2, <1>3 DEF PartOf, r, o, d
  <1> QED
    BY <1>6, <1>7, <1>8 DEF Carries

\* The worker writes a chunk.
LEMMA CarriesWrite ==
    ASSUME NEW f, Streams, Carries(f), todo # <<>>,
           stdout' = Append(stdout, Head(todo)), todo' = Tail(todo), received' = received
    PROVE  Carries(f)'
  <1> DEFINE r == Len(received)
             o == Len(stdout)
             d == Len(todo)
  <1>1. /\ r \in Nat /\ o \in Nat /\ d \in Nat /\ d >= 1
        /\ Len(received') = r /\ Len(stdout') = o + 1 /\ Len(todo') = d - 1
        /\ Head(todo) = todo[1]
        /\ \A i \in 1..(d - 1) : todo'[i] = todo[i + 1]
        /\ \A i \in 1..(o + 1) : stdout'[i] = IF i <= o THEN stdout[i] ELSE Head(todo)
    BY SMT, TakeFirst, AddLast DEF Streams
  <1>2. /\ r + o + d = Parts /\ \A i \in 1..r : received[i] = <<f, 0 + i>>
        /\ \A i \in 1..o : stdout[i] = <<f, r + i>>
        /\ \A i \in 1..d : todo[i] = <<f, r + o + i>>
    BY DEF Carries, PartOf
  <1> HIDE DEF r, o, d
  <1>3. r + (o + 1) + (d - 1) = Parts
    BY SMT, <1>1, <1>2
  <1>4. \A i \in 1..(o + 1) : stdout'[i] = <<f, r + i>>
    <2> SUFFICES ASSUME NEW i \in 1..(o + 1) PROVE stdout'[i] = <<f, r + i>>
      OBVIOUS
    <2>1. CASE i <= o
      BY SMT, <1>1, <1>2, <2>1
    <2>2. CASE i = o + 1
      <3>1. 1 \in 1..d /\ r + i = r + o + 1
        BY SMT, <1>1, <2>2
      <3>2. todo[1] = <<f, r + o + 1>>
        BY <1>2, <3>1
      <3>3. stdout'[i] = Head(todo)
        BY SMT, <1>1, <2>2
      <3> QED
        BY <1>1, <3>1, <3>2, <3>3
    <2> QED
      BY SMT, <1>1, <2>1, <2>2
  <1>5. \A i \in 1..(d - 1) : todo'[i] = <<f, r + (o + 1) + i>>
    <2> SUFFICES ASSUME NEW i \in 1..(d - 1) PROVE todo'[i] = <<f, r + (o + 1) + i>>
      OBVIOUS
    <2>1. i + 1 \in 1..d /\ r + o + (i + 1) = r + (o + 1) + i
      BY SMT, <1>1
    <2>2. todo[i + 1] = <<f, r + o + (i + 1)>>
      BY <1>2, <2>1
    <2> QED
      BY <1>1, <2>1, <2>2
  <1>6. (Len(received) + Len(stdout) + Len(todo) = Parts)' /\ PartOf(todo, f, Len(received) + Len(stdout))'
    BY <1>1, <1>3, <1>5 DEF PartOf
  <1>7. PartOf(stdout, f, Len(received))'
    BY <1>1, <1>4 DEF PartOf
  <1>8. PartOf(received, f, 0)'
    BY <1>1, <1>2 DEF PartOf, r
  <1> QED
    BY <1>6, <1>7, <1>8 DEF Carries

\* The worker begins to write.
LEMMA CarriesNew ==
    ASSUME NEW f, Idle, received' = received, stdout' = stdout, todo' = FrameOf(f)
    PROVE  Carries(f)'
  <1>1. Len(received') = 0 /\ Len(stdout') = 0 /\ Len(todo') = Parts /\ Parts \in Nat
    BY FrameFacts, WorkerAssumption DEF Idle
  <1>2. \A i \in 1..Parts : FrameOf(f)[i] = <<f, i>>
    BY FrameFacts
  <1>3. \A i \in 1..Parts : 0 + 0 + i = i
    BY SMT, <1>1
  <1> QED
    BY SMT, <1>1, <1>2, <1>3 DEF Carries, PartOf

\* A frame that is cut is not decoded yet.
LEMMA CutFrame ==
    ASSUME NEW f, f # "junk", Streams, Carries(f), Len(received) < Parts
    PROVE  TryFrame = "none"
  <1>1. CASE received = <<>>
    BY <1>1 DEF TryFrame
  <1>2. CASE received # <<>>
    <2>1. Head(received) = received[1] /\ Len(received) \in Nat /\ Len(received) >= 1
      BY <1>2, TakeFirst DEF Streams
    <2>2. received[1] = <<f, 0 + 1>>
      BY SMT, <2>1 DEF Carries, PartOf
    <2> QED
      BY SMT, <2>1, <2>2 DEF TryFrame
  <1> QED
    BY <1>1, <1>2

\* A whole frame is decoded, and nothing is left of it.
LEMMA WholeFrame ==
    ASSUME NEW f \in Answers \cup {"hello"}, Streams, Carries(f), Len(received) >= Parts
    PROVE  /\ TryFrame = f /\ Rest = <<>> /\ received # <<>>
           /\ stdout = <<>> /\ todo = <<>>
  <1>1. /\ Len(received) \in Nat /\ Len(stdout) \in Nat /\ Len(todo) \in Nat
        /\ Len(received) + Len(stdout) + Len(todo) = Parts /\ Parts \in Nat /\ Parts >= 2
    BY SMT, WorkerAssumption DEF Streams, Carries
  <1>2. Len(received) = Parts /\ Len(stdout) = 0 /\ Len(todo) = 0
    BY SMT, <1>1
  <1>3. stdout = <<>> /\ todo = <<>> /\ received # <<>>
    BY SMT, <1>1, <1>2, NoLength DEF Streams
  <1>4. Rest = <<>>
    BY <1>1, <1>2, TheRest DEF Rest, Streams
  <1>5. \A i \in 1..Parts : received[i] = <<f, i>>
    BY SMT, <1>1, <1>2 DEF Carries, PartOf
  <1>6. Head(received) = <<f, 1>>
    BY SMT, <1>1, <1>3, <1>5, TakeFirst DEF Streams
  <1>7. IsPrefix(FrameOf(f), received)
    <2>1. received = FrameOf(f)
      <3>1. received \in [1..Parts -> Traceable]
        BY SMT, <1>2 DEF Streams
      <3> QED
        BY <1>5, <3>1 DEF FrameOf
    <2> QED
      BY <1>2, <2>1 DEF IsPrefix
  <1> QED
    BY SMT, <1>2, <1>3, <1>4, <1>6, <1>7, AnswerFacts DEF TryFrame

---------------------------------------------------------------------------
(* A worker that follows the protocol *)

\* Nothing undoes a disturbance.
LEMMA Undisturbed ==
    ASSUME IInv, Next, ~disturbed'
    PROVE  ~disturbed /\ host # "done"
  <1>0. disturbed \in BOOLEAN
    BY Booleans DEF IInv
  <1>1. CASE Tick
    BY <1>1, <1>0 DEF Tick
  <1>2. CASE Refuse
    BY <1>2, <1>0 DEF Refuse
  <1>3. CASE Spawn
    BY SMT, <1>3, <1>0 DEF Spawn
  <1>4. CASE SystemError
    BY <1>4, <1>0 DEF SystemError
  <1>5. CASE Poll
    BY <1>5, <1>0 DEF Poll, Polled
  <1>6. CASE PollInterrupted
    BY <1>6, <1>0 DEF PollInterrupted, Polled
  <1>7. CASE ReadAvailable
    BY <1>7, <1>0 DEF ReadAvailable
  <1>8. CASE AwaitHello
    BY <1>8, <1>0 DEF AwaitHello
  <1>9. CASE Exchange
    BY <1>9, <1>0 DEF Exchange
  <1>10. CASE LeaveExchange
    BY <1>10, <1>0 DEF LeaveExchange
  <1>11. CASE WaitidFails
    BY <1>11, <1>0 DEF WaitidFails
  <1>12. CASE Finish
    BY <1>12, <1>0 DEF Finish
  <1>13. CASE host # "done" /\ WorkerStart
    BY <1>13, <1>0 DEF WorkerStart
  <1>14. CASE host # "done" /\ WorkerWrites
    BY <1>14, <1>0 DEF WorkerWrites
  <1>15. CASE host # "done" /\ WorkerReads
    BY <1>15, <1>0 DEF WorkerReads
  <1>16. CASE host # "done" /\ Execute
    BY <1>16, <1>0 DEF Execute
  <1>17. CASE host # "done" /\ Exited
    BY <1>17, <1>0 DEF Exited
  <1>18. CASE host # "done" /\ WorkerDies
    BY <1>18, <1>0 DEF WorkerDies
  <1>19. CASE host # "done" /\ WorkerHangs
    BY <1>19, <1>0 DEF WorkerHangs
  <1>20. CASE host # "done" /\ StrayOutput
    BY <1>20, <1>0 DEF StrayOutput
  <1>21. CASE host # "done" /\ Helper
    BY <1>21, <1>0 DEF Helper
  <1> QED
    BY <1>1, <1>2, <1>3, <1>4, <1>5, <1>6, <1>7, <1>8, <1>9, <1>10, <1>11, <1>12, <1>13, <1>14,
       <1>15, <1>16, <1>17, <1>18, <1>19, <1>20, <1>21
       DEF Next

\* Only these two steps end a call.
LEMMA Returns ==
    ASSUME Next, host # "done", host' = "done"
    PROVE  Refuse \/ Finish
  <1>1. CASE Tick
    BY <1>1 DEF Tick, hostVars
  <1>2. CASE Refuse
    BY <1>2
  <1>3. CASE Spawn
    BY <1>3 DEF Spawn
  <1>4. CASE SystemError
    BY <1>4 DEF SystemError, Fails
  <1>5. CASE Poll
    BY <1>5 DEF Poll, Polled, Fails
  <1>6. CASE PollInterrupted
    BY <1>6 DEF PollInterrupted, Polled, Fails
  <1>7. CASE ReadAvailable
    BY <1>7 DEF ReadAvailable, Fails
  <1>8. CASE AwaitHello
    BY <1>8 DEF AwaitHello, Fails
  <1>9. CASE Exchange
    BY <1>9 DEF Exchange, Fails
  <1>10. CASE LeaveExchange
    BY <1>10 DEF LeaveExchange
  <1>11. CASE WaitidFails
    BY <1>11 DEF WaitidFails
  <1>12. CASE Finish
    BY <1>12
  <1>13. CASE host # "done" /\ WorkerStart
    BY <1>13 DEF WorkerStart, otherVars, hostVars
  <1>14. CASE host # "done" /\ WorkerWrites
    BY <1>14 DEF WorkerWrites, otherVars, hostVars
  <1>15. CASE host # "done" /\ WorkerReads
    BY <1>15 DEF WorkerReads, otherVars, hostVars
  <1>16. CASE host # "done" /\ Execute
    BY <1>16 DEF Execute, otherVars, hostVars
  <1>17. CASE host # "done" /\ Exited
    BY <1>17 DEF Exited, otherVars, hostVars
  <1>18. CASE host # "done" /\ WorkerDies
    BY <1>18 DEF WorkerDies, otherVars, hostVars
  <1>19. CASE host # "done" /\ WorkerHangs
    BY <1>19 DEF WorkerHangs, otherVars, hostVars
  <1>20. CASE host # "done" /\ StrayOutput
    BY <1>20 DEF StrayOutput, otherVars, hostVars
  <1>21. CASE host # "done" /\ Helper
    BY <1>21 DEF Helper, otherVars, hostVars
  <1> QED
    BY <1>1, <1>2, <1>3, <1>4, <1>5, <1>6, <1>7, <1>8, <1>9, <1>10, <1>11, <1>12, <1>13, <1>14,
       <1>15, <1>16, <1>17, <1>18, <1>19, <1>20, <1>21
       DEF Next

\* The steps that leave the frames alone.
LEMMA InFlightKept ==
    ASSUME InFlight, UNCHANGED <<worker, hello, response, result, policy, received, stdout, todo>>
    PROVE  InFlight'
  BY DEF InFlight, Idle, Carries, PartOf, Public, Restricted, Sanitized

LEMMA CarriesKept ==
    ASSUME NEW f, Carries(f), UNCHANGED <<received, stdout, todo>>
    PROVE  Carries(f)'
  BY DEF Carries, PartOf

LEMMA FollowHostQuiet ==
    ASSUME TypeOK, WorkerPast, HostKnows, Progress, InFlight, ~disturbed', host' # "done",
           Tick \/ Refuse \/ Spawn \/ SystemError \/ Poll \/ PollInterrupted \/ LeaveExchange
           \/ WaitidFails \/ Finish
    PROVE  Progress' /\ InFlight'
  <1>0. sent \in 0..Parts /\ Parts \in Nat
    BY WorkerAssumption DEF TypeOK
  <1>1. CASE Tick
    <2>1. UNCHANGED <<policy, hostVars, workerVars, stdin, stdout, helper>> /\ late' = TRUE
      BY <1>1 DEF Tick
    <2> QED
      BY <2>1, InFlightKept DEF Progress, hostVars, workerVars
  <1>2. CASE Spawn
    <2>1. /\ host' = "poll" /\ worker = "none" /\ worker' = "start"
          /\ UNCHANGED <<late, hello, failure, helper, taken, stdin, sent, status, result, todo, canWrite,
                         response, received, stdout>>
      BY <1>2 DEF Spawn, WorkerPast
    <2> QED
      BY <2>1 DEF Progress, InFlight, Idle, Answering
  <1>3. CASE Poll \/ PollInterrupted
    <2>1. /\ UNCHANGED <<late, hello, helper, taken, stdin, sent, status, result, todo, worker, policy,
                         response, received, stdout>>
          /\ failure' = failure \/ (failure' = "Deadline" /\ late)
          /\ host' \in {"read", "frame"} /\ canWrite' => sent < Parts
      BY <1>3 DEF Poll, PollInterrupted, Polled, Fails, WantWrite, workerVars
    <2> QED
      BY <2>1, InFlightKept DEF Progress
  <1>4. CASE LeaveExchange
    <2>1. /\ UNCHANGED <<late, hello, helper, taken, stdin, sent, status, result, todo, worker, policy,
                         response, received, stdout, canWrite>>
          /\ failure' = failure \/ (failure' = "Deadline" /\ late)
          /\ host' = "finish"
      BY <1>4 DEF LeaveExchange
    <2> QED
      BY <2>1, InFlightKept DEF Progress
  <1>5. ~Refuse /\ ~SystemError /\ ~WaitidFails /\ ~Finish
    BY DEF Refuse, SystemError, WaitidFails, Finish
  <1> QED
    BY <1>1, <1>2, <1>3, <1>4, <1>5

LEMMA FollowRead ==
    ASSUME TypeOK, Streams, HostKnows, Progress, InFlight, ReadAvailable
    PROVE  Progress' /\ InFlight'
  <1>0. UNCHANGED <<late, hello, helper, taken, stdin, sent, status, result, todo, worker, policy,
                    response, canWrite>>
    BY DEF ReadAvailable, workerVars
  <1>1. CASE late
    <2>1. UNCHANGED <<received, stdout>> /\ failure' = "Deadline" /\ host' = "exit"
      BY <1>1 DEF ReadAvailable, Fails
    <2> QED
      BY <1>0, <1>1, <2>1, InFlightKept DEF Progress
  <1>2. CASE ~late /\ stdout = <<>>
    <2>1. UNCHANGED <<received, stdout, failure>> /\ host = "read" /\ host' = "frame"
      BY <1>2 DEF ReadAvailable
    <2> QED
      BY <1>0, <2>1, InFlightKept DEF Progress
  <1>3. CASE ~late /\ stdout # <<>>
    <2>1. ~Idle
      BY <1>3 DEF Idle
    <2>0. PICK f : f = IF worker \in Answering THEN Public ELSE "hello"
      OBVIOUS
    <2>2. /\ Carries(f) /\ worker \notin {"none", "start"}
          /\ worker \in {"hello", "request", "run"} => ~hello
          /\ worker \in Answering => response = "none"
      BY <2>1, <2>0 DEF InFlight, Progress, Answering
    <2>3. Fits
      <3>1. Len(received) \in Nat /\ Len(stdout) \in Nat /\ Len(todo) \in Nat /\ Len(stdout) >= 1
        BY SMT, <1>3, TakeFirst DEF Streams
      <3>2. Len(received) + Len(stdout) + Len(todo) = Parts
        BY <2>2 DEF Carries
      <3> QED
        BY SMT, <3>1, <3>2, WorkerAssumption DEF Fits
    <2>4. received' = Append(received, Head(stdout)) /\ stdout' = Tail(stdout) /\ UNCHANGED <<failure, host>>
      BY <1>3, <2>3 DEF ReadAvailable
    <2>5. Carries(f)'
      BY <1>0, <1>3, <2>2, <2>4, CarriesRead
    <2>6. Public' = Public
      BY <1>0 DEF Public, Restricted, Sanitized
    <2>7. InFlight'
      BY <1>0, <2>0, <2>2, <2>5, <2>6 DEF InFlight, Answering
    <2> QED
      BY <1>0, <2>4, <2>7 DEF Progress
  <1> QED
    BY <1>1, <1>2, <1>3

LEMMA FollowAwait ==
    ASSUME TypeOK, Streams, WorkerPast, HostKnows, Progress, InFlight, ~disturbed', AwaitHello
    PROVE  Progress' /\ InFlight'
  <1>0. /\ UNCHANGED <<late, helper, taken, stdin, sent, status, result, todo, worker, policy,
                       response, canWrite, stdout>>
        /\ ~hello /\ host = "frame" /\ worker # "none"
    BY DEF AwaitHello, workerVars, WorkerPast
  <1>1. worker \in {"start", "hello", "request"}
    BY SMT, <1>0, WorkerAssumption DEF Progress, HostKnows, TypeOK
  <1>2. ~eof
    BY <1>1 DEF HostKnows, HoldsPipes
  <1>3. CASE late
    <2>1. UNCHANGED <<received, hello>> /\ failure' = "Deadline" /\ host' = "exit"
      BY <1>0, <1>3 DEF AwaitHello, Fails
    <2> QED
      BY <1>0, <1>3, <2>1, InFlightKept DEF Progress
  <1>4. CASE ~late /\ TryFrame = "none"
    <2>1. UNCHANGED <<received, hello, failure>> /\ host' = "poll"
      BY <1>0, <1>2, <1>4 DEF AwaitHello
    <2> QED
      BY <1>0, <2>1, InFlightKept DEF Progress
  <1>5. CASE ~late /\ TryFrame # "none"
    <2>1. worker # "start"
      BY <1>5 DEF InFlight, Idle, TryFrame
    <2>2. Carries("hello")
      BY <1>0, <1>1, <2>1 DEF InFlight
    <2>3. Len(received) >= Parts
      <3>1. Len(received) \in Nat /\ Parts \in Nat
        BY SMT, WorkerAssumption DEF Streams
      <3>2. ~(Len(received) < Parts)
        BY <1>5, <2>2, CutFrame
      <3> QED
        BY SMT, <3>1, <3>2
    <2>4. TryFrame = "hello" /\ Rest = <<>> /\ stdout = <<>> /\ todo = <<>>
      BY <2>2, <2>3, WholeFrame
    <2>5. received' = <<>> /\ hello' = TRUE /\ failure' = failure /\ host' = "poll"
      BY <1>0, <1>5, <2>4 DEF AwaitHello, Fails
    <2>6. Progress'
      BY <1>0, <1>1, <2>1, <2>5 DEF Progress
    <2>7. InFlight'
      BY <1>0, <1>1, <2>1, <2>4, <2>5 DEF InFlight, Idle, Answering
    <2> QED
      BY <2>6, <2>7
  <1> QED
    BY <1>3, <1>4, <1>5

LEMMA FollowExchange ==
    ASSUME TypeOK, Streams, WorkerPast, HostKnows, Progress, InFlight, Exchange
    PROVE  Progress' /\ InFlight'
  <1>0. /\ UNCHANGED <<late, hello, helper, taken, status, result, todo, worker, policy, canWrite, stdout>>
        /\ hello /\ host = "frame" /\ worker # "none"
    BY DEF Exchange, workerVars, WorkerPast
  <1>1. ~WriteBroken
    <2>1. canWrite => sent # Parts
      BY SMT, <1>0, WorkerAssumption DEF Progress, TypeOK
    <2>2. sent # Parts => worker \in {"start", "hello", "request"}
      BY <1>0 DEF Progress
    <2> QED
      BY <2>1, <2>2 DEF WriteBroken, HoldsPipes
  <1>2. Write /\ sent' \in 0..Parts /\ taken' + stdin' = sent' /\ (worker \in {"run"} \cup Answering => sent' = Parts)
    <2>1. Write
      BY <1>0, <1>1 DEF Exchange
    <2>2. taken \in Nat /\ Parts \in Nat /\ taken + stdin = sent
      BY SMT, WorkerAssumption DEF TypeOK, Progress
    <2>3. /\ sent' \in 0..Parts /\ sent' >= sent
          /\ \A t \in Nat : t + stdin = sent => t + stdin' = sent'
      BY <2>1, WriteFacts
    <2>4. taken' + stdin' = sent'
      BY <1>0, <2>2, <2>3
    <2>5. sent = Parts => sent' = Parts
      BY SMT, <2>2, <2>3
    <2> QED
      BY <2>1, <2>3, <2>4, <2>5 DEF Progress
  <1> DEFINE decodes == sent' = Parts /\ response = "none"
  <1>3. CASE decodes /\ late
    <2>1. UNCHANGED <<response, received>> /\ failure' = "Deadline" /\ host' = "exit"
      BY <1>0, <1>1, <1>3 DEF Exchange, Fails
    <2> QED
      BY <1>0, <1>2, <1>3, <2>1, InFlightKept DEF Progress
  <1>4. CASE decodes /\ ~late /\ TryFrame = "none"
    <2>1. ~eof
      <3>1. SUFFICES ASSUME eof PROVE FALSE
        OBVIOUS
      <3>2. worker \in {"exiting", "gone"} /\ stdout = <<>> /\ todo = <<>>
        BY <1>0, <3>1 DEF HostKnows, HoldsPipes, Progress, Answering
      <3>3. Carries(Public) /\ result # "none"
        BY <1>4, <3>2 DEF InFlight, Progress, Answering
      <3>4. Len(received) >= Parts
        BY SMT, <3>2, <3>3, WorkerAssumption DEF Carries, Streams
      <3>5. Public \in Answers
        BY <3>3, AnswerFacts DEF Public, TypeOK
      <3> QED
        BY <1>4, <3>3, <3>4, <3>5, WholeFrame, AnswerFacts
    <2>2. UNCHANGED <<response, received, failure>> /\ host' = "poll"
      BY <1>0, <1>1, <1>4, <2>1 DEF Exchange
    <2> QED
      BY <1>0, <1>2, <2>2, InFlightKept DEF Progress
  <1>5. CASE decodes /\ ~late /\ TryFrame # "none"
    <2>1. received # <<>> /\ worker \in Answering
      BY <1>0, <1>5 DEF InFlight, Idle, TryFrame, Progress
    <2>2. Carries(Public) /\ result # "none"
      BY <1>5, <2>1 DEF InFlight, Progress
    <2>3. Public \in Answers
      BY <2>2, AnswerFacts DEF Public, TypeOK
    <2>4. PICK f : f = Public
      OBVIOUS
    <2>5. Len(received) >= Parts
      <3>1. Len(received) \in Nat /\ Parts \in Nat
        BY SMT, WorkerAssumption DEF Streams
      <3>2. f # "junk"
        BY <2>3, <2>4, AnswerFacts
      <3>3. ~(Len(received) < Parts)
        BY <1>5, <2>2, <2>4, <3>2, CutFrame
      <3> QED
        BY SMT, <3>1, <3>3
    <2>6. TryFrame = Public /\ Rest = <<>> /\ stdout = <<>> /\ todo = <<>>
      BY <2>2, <2>3, <2>4, <2>5, WholeFrame
    <2>7. TryFrame \in Answers /\ Sanitized(TryFrame) \in Answers /\ "none" \notin Answers
      BY <2>3, <2>6, AnswerFacts
    <2>8. received' = <<>> /\ response' # "none" /\ failure' = failure /\ host' \in {"poll", "exit"}
      BY <1>0, <1>1, <1>5, <2>6, <2>7 DEF Exchange
    <2>9. Progress'
      BY <1>0, <1>2, <2>8 DEF Progress
    <2>10. InFlight'
      BY <1>0, <2>1, <2>6, <2>8 DEF InFlight, Idle, Answering
    <2> QED
      BY <2>9, <2>10
  <1>6. CASE ~decodes
    <2>1. response # "none" => received = <<>>
      BY <1>0 DEF HostKnows, WorkerPast, Progress, InFlight, Idle, Answering
    <2>2. UNCHANGED <<response, received>> /\ failure' = failure /\ host' \in {"poll", "exit"}
      BY <1>0, <1>1, <1>6, <2>1 DEF Exchange
    <2> QED
      BY <1>0, <1>2, <2>2, InFlightKept DEF Progress
  <1> QED
    BY <1>3, <1>4, <1>5, <1>6

\* The steps of the worker that follow the protocol.
LEMMA FollowWorkerStart ==
    ASSUME WorkerPast, Progress, InFlight, ~disturbed', WorkerStart
    PROVE  Progress' /\ InFlight'
  <1>1. PICK seen \in BOOLEAN :
             /\ worker' = IF Isolated(seen) THEN "hello" ELSE "deny"
             /\ todo' = FrameOf(IF Isolated(seen) THEN "hello" ELSE "denied")
             /\ disturbed' = (disturbed \/ ~Isolated(seen))
    BY DEF WorkerStart
  <1>2. /\ worker = "start" /\ worker' = "hello" /\ todo' = FrameOf("hello")
        /\ UNCHANGED <<late, host, hello, failure, helper, taken, stdin, sent, status, result, canWrite,
                       response, received, stdout>>
    BY <1>1 DEF WorkerStart, otherVars, hostVars
  <1>3. Idle /\ ~hello
    BY <1>2 DEF InFlight, Progress
  <1>4. Carries("hello")'
    BY <1>2, <1>3, CarriesNew
  <1>5. Progress'
    BY <1>2 DEF Progress, Answering
  <1>6. InFlight'
    BY <1>2, <1>3, <1>4 DEF InFlight, Answering
  <1> QED
    BY <1>5, <1>6

LEMMA FollowWorkerWrites ==
    ASSUME Streams, Progress, InFlight, WorkerWrites
    PROVE  Progress' /\ InFlight'
  <1>0. /\ UNCHANGED <<late, host, hello, failure, helper, taken, stdin, sent, result, canWrite, policy,
                       response, received>>
        /\ worker \in {"hello", "respond"}
    BY DEF WorkerWrites, otherVars, hostVars, Progress, Answering
  <1>1. CASE todo # <<>>
    <2>1. stdout' = Append(stdout, Head(todo)) /\ todo' = Tail(todo) /\ UNCHANGED <<worker, status>>
      BY <1>1 DEF WorkerWrites
    <2>2. ~Idle
      BY <1>1 DEF Idle
    <2>3. PICK f : f = IF worker = "hello" THEN "hello" ELSE Public
      OBVIOUS
    <2>4. Carries(f) /\ (worker = "hello" => ~hello) /\ (worker = "respond" => response = "none")
      BY <1>0, <2>2, <2>3 DEF InFlight, Answering
    <2>5. Carries(f)'
      BY <1>0, <1>1, <2>1, <2>4, CarriesWrite
    <2>6. Public' = Public
      BY <1>0 DEF Public, Restricted, Sanitized
    <2>7. InFlight'
      BY <1>0, <2>1, <2>3, <2>4, <2>5, <2>6 DEF InFlight, Answering
    <2>8. Progress'
      BY <1>0, <2>1 DEF Progress
    <2> QED
      BY <2>7, <2>8
  <1>2. CASE todo = <<>> /\ worker = "hello"
    <2>1. worker' = "request" /\ UNCHANGED <<stdout, todo, status>>
      BY <1>2 DEF WorkerWrites
    <2>2. Carries("hello") => Carries("hello")'
      BY <1>0, <2>1, CarriesKept
    <2>3. InFlight'
      BY <1>0, <1>2, <2>1, <2>2 DEF InFlight, Answering, Idle
    <2>4. Progress'
      BY <1>0, <1>2, <2>1 DEF Progress, Answering
    <2> QED
      BY <2>3, <2>4
  <1>3. CASE todo = <<>> /\ worker = "respond"
    <2>1. worker' = "exiting" /\ status' = "ok" /\ UNCHANGED <<stdout, todo>>
      BY <1>3 DEF WorkerWrites
    <2>2. PICK f : f = Public
      OBVIOUS
    <2>3. Public' = f /\ (Carries(f) => Carries(f)')
      BY <1>0, <2>1, <2>2, CarriesKept DEF Public, Restricted, Sanitized
    <2>4. InFlight'
      BY <1>0, <1>3, <2>1, <2>2, <2>3 DEF InFlight, Answering, Idle
    <2>5. Progress'
      BY <1>0, <1>3, <2>1 DEF Progress, Answering
    <2> QED
      BY <2>4, <2>5
  <1> QED
    BY <1>0, <1>1, <1>2, <1>3

LEMMA FollowWorkerReads ==
    ASSUME TypeOK, HostKnows, Progress, InFlight, WorkerReads
    PROVE  Progress' /\ InFlight'
  <1>0. /\ UNCHANGED <<late, host, hello, failure, helper, sent, result, canWrite, policy, status, todo,
                       response, received, stdout>>
        /\ worker = "request"
    BY DEF WorkerReads, otherVars, hostVars
  <1>1. /\ taken \in 0..Parts /\ stdin \in 0..PipeSize /\ sent \in 0..Parts /\ Parts \in Nat /\ Parts > 0
        /\ PipeSize \in Nat /\ taken + stdin = sent
    BY SMT, WorkerAssumption DEF TypeOK, Progress
  <1>2. CASE taken < Parts
    <2>1. worker' = worker /\ stdin' = stdin - 1 /\ taken' = taken + 1
      BY <1>2 DEF WorkerReads
    <2>2. taken' + stdin' = sent'
      BY SMT, <1>0, <1>1, <2>1
    <2>3. InFlight'
      BY <1>0, <2>1, InFlightKept
    <2> QED
      BY <1>0, <2>1, <2>2, <2>3 DEF Progress
  <1>3. CASE ~(taken < Parts)
    <2>1. worker' = "run" /\ sent = Parts /\ UNCHANGED <<stdin, taken>>
      BY <1>3 DEF WorkerReads
    <2>2. hello
      BY <1>1, <2>1 DEF HostKnows
    <2>3. Idle
      BY <1>0, <2>2 DEF InFlight
    <2>4. InFlight'
      BY <1>0, <2>1, <2>2, <2>3 DEF InFlight, Idle, Answering
    <2>5. Progress'
      BY <1>0, <2>1 DEF Progress, Answering
    <2> QED
      BY <2>4, <2>5
  <1> QED
    BY <1>2, <1>3

LEMMA FollowExecute ==
    ASSUME TypeOK, WorkerPast, HostKnows, Progress, InFlight, Execute
    PROVE  Progress' /\ InFlight'
  <1>1. /\ UNCHANGED <<late, host, hello, failure, helper, sent, canWrite, policy, status, taken, stdin,
                       response, received, stdout>>
        /\ worker = "run" /\ worker' = "respond" /\ result' \in Results
        /\ todo' = FrameOf(Public')
    BY DEF Execute, otherVars, hostVars, Public, Restricted
  <1>2. hello /\ sent = Parts
    BY SMT, <1>1, WorkerAssumption DEF HostKnows, Progress
  <1>3. Idle /\ response = "none" /\ result' # "none"
    BY <1>1, <1>2 DEF InFlight, HostKnows, WorkerPast, Results
  <1>4. PICK f : f = Public'
    OBVIOUS
  <1>5. Carries(f)'
    BY <1>1, <1>3, <1>4, CarriesNew
  <1>6. InFlight'
    BY <1>1, <1>3, <1>4, <1>5 DEF InFlight, Answering
  <1>7. Progress'
    BY <1>1, <1>2, <1>3 DEF Progress, Answering
  <1> QED
    BY <1>6, <1>7

LEMMA FollowExited ==
    ASSUME Progress, InFlight, Exited
    PROVE  Progress' /\ InFlight'
  <1>1. /\ UNCHANGED <<late, host, hello, failure, helper, sent, canWrite, policy, status, taken, stdin,
                       response, received, stdout, todo, result>>
        /\ worker = "exiting" /\ worker' = "gone"
    BY DEF Exited, otherVars, hostVars
  <1>2. PICK f : f = Public
    OBVIOUS
  <1>3. Public' = f /\ (Carries(f) => Carries(f)')
    BY <1>1, <1>2, CarriesKept DEF Public, Restricted, Sanitized
  <1>4. InFlight'
    BY <1>1, <1>2, <1>3 DEF InFlight, Answering, Idle
  <1>5. Progress'
    BY <1>1 DEF Progress, Answering
  <1> QED
    BY <1>4, <1>5

\* The call returns.
LEMMA FollowReturn ==
    ASSUME IInv, Progress, ~disturbed', Refuse \/ Finish
    PROVE  outcome' \in Answers \/ (outcome' = "Deadline" /\ late')
  <1>1. CASE Refuse
    BY <1>1 DEF Refuse
  <1>2. CASE Finish
    <2>0. TypeOK /\ Succeeding
      BY DEF IInv
    <2>1. PICK stopped \in (IF Restricted THEN BOOLEAN ELSE {TRUE}),
               waited \in (IF reaped THEN {TRUE} ELSE BOOLEAN), removed \in BOOLEAN :
               LET base == IF failure # "none" THEN failure ELSE response
                   ended == status' # "ok" /\ (Restricted => confirmed)
               IN  /\ outcome' = IF Restricted /\ ~(stopped /\ waited) THEN "Crash"
                                 ELSE IF waited /\ ended /\ base \notin {"Deadline", "Malformed"}
                                 THEN "Crash" ELSE base
                   /\ disturbed' = (disturbed \/ ~stopped \/ ~waited \/ ~removed)
      BY <1>2 DEF Finish
    <2>2. /\ host = "finish" /\ status' = (IF status = "none" THEN "killed" ELSE status) /\ late' = late
      BY <1>2 DEF Finish
    <2>3. stopped /\ waited
      BY <2>1
    <2>4. CASE failure = "none"
      <3>1. status' = "ok" /\ response \in Answers
        BY <2>0, <2>2, <2>4 DEF Succeeding, Progress, TypeOK
      <3> QED
        BY <2>1, <2>3, <2>4, <3>1
    <2>5. CASE failure # "none"
      <3>1. failure = "Deadline" /\ late
        BY <2>5 DEF Progress
      <3> QED
        BY <2>1, <2>2, <2>3, <3>1
    <2> QED
      BY <2>4, <2>5
  <1> QED
    BY <1>1, <1>2

LEMMA FollowStep ==
    ASSUME IInv, Progress, InFlight, Next, ~disturbed', host' # "done"
    PROVE  Progress' /\ InFlight'
  <1>0. TypeOK /\ Streams /\ WorkerPast /\ HostKnows
    BY DEF IInv
  <1>1. CASE Tick \/ Refuse \/ Spawn \/ SystemError \/ Poll \/ PollInterrupted \/ LeaveExchange
             \/ WaitidFails \/ Finish
    BY <1>0, <1>1, FollowHostQuiet
  <1>2. CASE ReadAvailable
    BY <1>0, <1>2, FollowRead
  <1>3. CASE AwaitHello
    BY <1>0, <1>3, FollowAwait
  <1>4. CASE Exchange
    BY <1>0, <1>4, FollowExchange
  <1>5. CASE WorkerStart \/ WorkerWrites
    BY <1>0, <1>5, FollowWorkerStart, FollowWorkerWrites
  <1>6. CASE WorkerReads \/ Execute \/ Exited
    BY <1>0, <1>6, FollowWorkerReads, FollowExecute, FollowExited
  <1>7. ~(WorkerDies \/ WorkerHangs \/ StrayOutput \/ Helper)
    BY DEF WorkerDies, WorkerHangs, StrayOutput, Helper
  <1> QED
    BY <1>1, <1>2, <1>3, <1>4, <1>5, <1>6, <1>7 DEF Next

\* However frames are cut and whatever the request yields, run_worker ends the
\* call of a worker that follows the protocol with its answer, or at the deadline:
\* its buffer never overflows, it never writes to a closed pipe, and it takes
\* neither a part of a frame for a bad one nor the end of the output for a crash.
THEOREM FollowersAreAnswered == Spec => []FollowerIsAnswered
  <1>1. Init => FollowerInv
    <2> SUFFICES ASSUME Init PROVE FollowerInv
      OBVIOUS
    <2>1. sent = 0 /\ taken = 0 /\ stdin = 0 /\ 0 + 0 = 0
      BY SMT DEF Init
    <2>2. Progress
      BY <2>1 DEF Init, Progress, Answering
    <2>3. InFlight /\ FollowerIsAnswered
      BY DEF Init, InFlight, Idle, Answering, FollowerIsAnswered
    <2> QED
      BY <2>2, <2>3 DEF FollowerInv
  <1>2. IInv /\ FollowerInv /\ [Next]_vars => FollowerInv'
    <2> SUFFICES ASSUME IInv, FollowerInv, [Next]_vars PROVE FollowerInv'
      OBVIOUS
    <2>1. CASE Next
      <3>1. CASE disturbed'
        BY <3>1 DEF FollowerInv, FollowerIsAnswered
      <3>2. CASE ~disturbed'
        <4>1. Progress /\ InFlight
          BY <2>1, <3>2, Undisturbed DEF FollowerInv
        <4>2. host' # "done" => Progress' /\ InFlight'
          BY <2>1, <3>2, <4>1, FollowStep
        <4>3. host' = "done" => Refuse \/ Finish
          BY <2>1, <3>2, Undisturbed, Returns
        <4>4. host' = "done" => outcome' \in Answers \/ (outcome' = "Deadline" /\ late')
          BY <3>2, <4>1, <4>3, FollowReturn
        <4> QED
          BY <4>2, <4>4, ChunksFixed DEF FollowerInv, FollowerIsAnswered
      <3> QED
        BY <3>1, <3>2
    <2>2. CASE UNCHANGED vars
      <3>1. UNCHANGED <<policy, late, hostVars, workerVars, stdin, stdout, helper, disturbed>>
        BY <2>2 DEF vars
      <3>2. (Progress => Progress') /\ (InFlight => InFlight')
        BY <3>1, InFlightKept DEF Progress, hostVars, workerVars
      <3> QED
        BY <3>1, <3>2, ChunksFixed DEF FollowerInv, FollowerIsAnswered, hostVars
    <2> QED
      BY <2>1, <2>2
  <1>3. FollowerInv => FollowerIsAnswered
    BY DEF FollowerInv
  <1> QED
    BY <1>1, <1>2, <1>3, CallInvariant, PTL DEF Spec

=============================================================================
