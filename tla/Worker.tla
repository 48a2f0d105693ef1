------------------------------- MODULE Worker -------------------------------
(***************************************************************************)
(* One call of run_worker: the host process starts a worker process for a   *)
(* single request, exchanges frames with it over two pipes, and reports an  *)
(* outcome (rivetlua-capi/src/worker/process.rs).                           *)
(*                                                                          *)
(* A frame travels in Parts chunks, so that reads and writes may cut it     *)
(* anywhere.  The native code a worker loads shares its standard output and *)
(* may crash it, hang, write stray bytes or leave a process behind that     *)
(* keeps the pipe open.  The clock is one flag: late, once the deadline of   *)
(* the request has passed.                                                  *)
(***************************************************************************)
EXTENDS Naturals, Sequences, SequencesExt

CONSTANTS Parts,        \* chunks of a frame
          PipeSize,     \* chunks a pipe holds
          BufferSize,   \* chunks append_bounded lets the host keep
          Policies      \* subset of {"compatibility", "restricted"}

ASSUME WorkerAssumption ==
    /\ Parts \in Nat \ {0, 1} /\ PipeSize \in Nat \ {0} /\ BufferSize \in Nat
    /\ BufferSize >= Parts
    /\ Policies \subseteq {"compatibility", "restricted"}

\* What a request yields: values within the output budget of a restricted VM,
\* values beyond it, or an error message.
Results == {"values", "manyValues", "errorText"}

\* sanitize_response, which both sides apply under a restricted policy.
Sanitized(r) == CASE r = "manyValues" -> "outputLimit"
                  [] r = "errorText"  -> "errorCode"
                  [] OTHER            -> r

Answers == Results \cup {Sanitized(r) : r \in Results}
Failures == {"Crash", "Deadline", "Malformed", "Denied", "Rejected"}

VARIABLES
    policy,     \* the policy of the call
    late,       \* the deadline has passed
    \* The host: run_worker_inner
    host,       \* where it is: "start", "poll", "read", "frame", "exit", "finish", "done"
    hello,      \* it accepted the worker's hello
    proof,      \* parent_probe vouched for the worker's isolation
    canWrite,   \* poll: the request may be written
    sent,       \* chunks of the request written; Parts: standard input is closed
    received,   \* chunks read and not yet decoded
    eof,        \* the last read met the end of the worker's output
    response,   \* the decoded answer, or "none"
    failure,    \* "none", or the failure that ended the exchange
    confirmed,  \* restricted: the worker was seen to have exited
    outcome,    \* "none" until the call returns
    \* The worker process: worker_main
    worker,     \* where it is (WorkerAt)
    status,     \* how it ended: "none", "ok", "error", "killed"
    reaped,     \* the host has collected that status
    evidence,   \* child_probe found the worker isolated
    todo,       \* chunks of the frame it is writing
    stdin,      \* chunks of the request in its standard input
    taken,      \* chunks of the request it has read
    result,     \* what the request yielded, or "none"
    \* The rest of the system
    stdout,     \* chunks in the pipe from the worker to the host
    helper,     \* a process started by native code is alive, holding stdout open
    runDir,     \* the private directory of the call exists
    disturbed   \* history: something other than the protocol's own steps happened

hostVars == <<host, hello, proof, canWrite, sent, received, eof, response, failure, confirmed,
              outcome>>
workerVars == <<worker, status, reaped, evidence, todo, taken, result>>
vars == <<policy, late, hostVars, workerVars, stdin, stdout, helper, runDir, disturbed>>

HostAt == {"start", "poll", "read", "frame", "exit", "finish", "done"}
\* "deny", "hello" and "respond" write a frame; "hung" and "closed" never end,
\* "closed" without its pipes; "exiting" has closed them and is about to be "gone".
WorkerAt == {"none", "start", "deny", "hello", "request", "run", "respond", "hung", "closed",
             "exiting", "gone"}

Restricted == policy = "restricted"
FrameOf(f) == [i \in 1..Parts |-> <<f, i>>]

\* Stray bytes: read as the start of a frame, its length is out of bounds, or
\* promises more bytes.
Junk == {<<"junk", 0>>, <<"junk", 1>>}

Init ==
    /\ policy \in Policies /\ late = FALSE
    /\ host = "start" /\ hello = FALSE /\ proof = FALSE /\ canWrite = FALSE /\ sent = 0
    /\ received = <<>> /\ eof = FALSE /\ response = "none" /\ failure = "none"
    /\ confirmed = FALSE /\ outcome = "none"
    /\ worker = "none" /\ status = "none" /\ reaped = FALSE /\ evidence = FALSE
    /\ todo = <<>> /\ taken = 0 /\ result = "none"
    /\ stdin = 0 /\ stdout = <<>> /\ helper = FALSE /\ runDir = FALSE /\ disturbed = FALSE

-----------------------------------------------------------------------------
(* The clock.                                                               *)

Tick == ~late /\ host # "done" /\ late' = TRUE
        /\ UNCHANGED <<policy, hostVars, workerVars, stdin, stdout, helper, runDir, disturbed>>

-----------------------------------------------------------------------------
(* The host.                                                                *)

\* Nothing was started: the binary, a native artifact or the cache is refused,
\* which a restricted call reports as a denial, or the encoded request is, or
\* the deadline passes first; or spawn fails, and the directory made for the
\* call is removed.
Refuse ==
    /\ host = "start"
    /\ outcome' \in (IF late THEN {"Deadline"} ELSE {})
                    \cup (IF Restricted THEN {"Denied"} ELSE {}) \cup {"Rejected"}
    /\ host' = "done" /\ disturbed' = (disturbed \/ outcome' # "Deadline")
    /\ UNCHANGED <<policy, late, hello, proof, canWrite, sent, received, eof, response, failure,
                   confirmed, workerVars, stdin, stdout, helper, runDir>>

\* Before hello, a restricted call reports every failure but a missed deadline
\* as a denial.
Blamed(f) == IF Restricted /\ ~hello /\ f # "Deadline" THEN "Denied" ELSE f

\* The last check of the clock before spawn has passed.  The pipes are made
\* nonblocking, or the call ends at once.
Spawn ==
    /\ host = "start" /\ ~late
    /\ runDir' = TRUE /\ worker' = "start"
    /\ \/ host' = "poll" /\ UNCHANGED <<failure, disturbed>>
       \/ host' = "finish" /\ failure' = Blamed("Malformed") /\ disturbed' = TRUE
    /\ UNCHANGED <<policy, late, hello, proof, canWrite, sent, received, eof, response, confirmed,
                   outcome, status, reaped, evidence, todo, taken, result, stdin, stdout, helper>>

\* The exchange ends in failure f.
Fails(f) == failure' = f /\ host' = "exit"

\* An error of the operating system: poll, read or write.
SystemError ==
    /\ host \in {"poll", "read"} \/ (host = "frame" /\ hello /\ canWrite)
    /\ Fails(Blamed(IF late THEN "Deadline" ELSE "Malformed"))
    /\ disturbed' = TRUE
    /\ UNCHANGED <<policy, late, hello, proof, canWrite, sent, received, eof, response, confirmed,
                   outcome, workerVars, stdin, stdout, helper, runDir>>

HoldsPipes == worker \in {"start", "deny", "hello", "request", "run", "respond", "hung"}
\* Mutant of WantWrite: the proof of isolation is asked of every worker.
WantWriteProved == hello /\ proof /\ sent < Parts

WantWrite == hello /\ (Restricted => proof) /\ sent < Parts
Readable == stdout # <<>> \/ ~(HoldsPipes \/ helper)
Writable == stdin < PipeSize \/ ~HoldsPipes

\* One rivetlua_worker_poll: it waits at most a second, so it may find neither.
Polled(ready) ==
    /\ host = "poll"
    /\ IF late THEN Fails("Deadline") /\ UNCHANGED canWrite
       ELSE /\ canWrite' = (ready /\ WantWrite /\ Writable)
            /\ host' = IF ready /\ Readable THEN "read" ELSE "frame"
            /\ UNCHANGED failure
    /\ UNCHANGED <<policy, late, hello, proof, sent, received, eof, response, confirmed, outcome,
                   workerVars, stdin, stdout, helper, runDir, disturbed>>

Poll == Polled(TRUE)
PollInterrupted == Polled(FALSE)

\* Mutant of Fits: append_bounded without its bound.
FitsAlways == TRUE

\* append_bounded takes another chunk.
Fits == Len(received) < BufferSize

\* One read of read_available, which reads until the pipe is empty.
ReadAvailable ==
    /\ host = "read"
    /\ IF late THEN Fails("Deadline") /\ UNCHANGED <<received, stdout, eof>>
       ELSE IF stdout # <<>>
       THEN /\ stdout' = Tail(stdout) /\ UNCHANGED eof
            /\ IF Fits
               THEN received' = Append(received, Head(stdout)) /\ UNCHANGED <<failure, host>>
               ELSE Fails(Blamed("Malformed")) /\ UNCHANGED received
       ELSE /\ eof' = ~(HoldsPipes \/ helper) /\ host' = "frame"
            /\ UNCHANGED <<received, stdout, failure>>
    /\ UNCHANGED <<policy, late, hello, proof, canWrite, sent, response, confirmed, outcome,
                   workerVars, stdin, helper, runDir, disturbed>>

\* Mutant of TryFrame: whatever was read is taken for a whole frame.
TryFrameWhole == IF received = <<>> THEN "none"
                 ELSE IF Len(received) >= Parts THEN Head(received)[1] ELSE "malformed"

\* try_frame: nothing yet, a frame, or bytes that are not one.
TryFrame == IF received = <<>> \/ (Len(received) < Parts /\ Head(received) # <<"junk", 0>>)
            THEN "none"
            ELSE IF \E f \in Answers \cup {"hello", "denied"} : IsPrefix(FrameOf(f), received)
            THEN Head(received)[1] ELSE "malformed"
Rest == SubSeq(received, Parts + 1, Len(received))

\* The first frame must be the worker's hello and nothing more; a restricted
\* worker may deny its isolation instead, and must pass parent_probe.
AwaitHello ==
    /\ host = "frame" /\ ~hello
    /\ IF late THEN Fails("Deadline") /\ UNCHANGED <<hello, proof, received>>
       ELSE IF TryFrame = "none"
       THEN /\ IF eof THEN Fails(Blamed("Crash")) ELSE host' = "poll" /\ UNCHANGED failure
            /\ UNCHANGED <<hello, proof, received>>
       ELSE IF TryFrame = "hello" /\ Rest = <<>>
       THEN /\ received' = Rest
            /\ \/ /\ proof' = Restricted /\ hello' = TRUE /\ UNCHANGED failure
                  /\ host' = "poll"
               \/ /\ Restricted /\ Fails("Denied") /\ UNCHANGED <<hello, proof>>
       ELSE Fails(Blamed("Malformed")) /\ UNCHANGED <<hello, proof, received>>
    /\ disturbed' = (disturbed \/ (TryFrame = "hello" /\ failure' = "Denied"))
    /\ UNCHANGED <<policy, late, canWrite, sent, eof, response, confirmed, outcome, workerVars,
                   stdin, stdout, helper, runDir>>

\* What a write to the worker does: it takes some of the request, or finds that
\* nobody reads any more ("broken").
Write ==
    IF ~canWrite THEN UNCHANGED <<sent, stdin>>
    ELSE \E n \in 1..(Parts - sent) : /\ stdin + n <= PipeSize
                                      /\ sent' = sent + n /\ stdin' = stdin + n
WriteBroken == canWrite /\ ~HoldsPipes

\* After hello: write the request, closing standard input after its last byte;
\* then decode the answer; then wait for the end of the worker's output, before
\* which nothing may follow the answer.
Exchange ==
    /\ host = "frame" /\ hello
    /\ IF WriteBroken
       THEN Fails("Malformed") /\ UNCHANGED <<sent, stdin, response, received>>
       ELSE /\ Write
            /\ LET decodes == sent' = Parts /\ response = "none"
                   frame == IF ~decodes THEN "none" ELSE TryFrame
                   bad == IF decodes /\ late THEN "Deadline"
                          ELSE IF frame = "none" THEN IF decodes /\ eof THEN "Crash" ELSE "none"
                          ELSE IF frame \notin Answers THEN "Malformed" ELSE "none"
               IN  IF bad # "none" THEN Fails(bad) /\ UNCHANGED <<response, received>>
                   ELSE /\ IF frame = "none" THEN UNCHANGED <<response, received>>
                           ELSE /\ response' = IF Restricted THEN Sanitized(frame) ELSE frame
                                /\ received' = Rest
                        /\ IF response' = "none" \/ (received' = <<>> /\ ~eof)
                           THEN host' = "poll" /\ UNCHANGED failure
                           ELSE /\ host' = "exit"
                                /\ failure' = IF received' # <<>> THEN "Malformed" ELSE failure
    /\ UNCHANGED <<policy, late, hello, proof, canWrite, eof, confirmed, outcome, workerVars,
                   stdout, helper, runDir, disturbed>>

\* Mutant of LeaveExchange: the end of the output is taken for the worker's exit.
LeaveExchangeAtEof ==
    /\ host = "exit"
    /\ host' = "finish"
    /\ failure' = IF late /\ failure # "Crash" THEN "Deadline" ELSE failure
    /\ confirmed' = (Restricted /\ failure' = "none" /\ worker = "gone")
    /\ reaped' = (~Restricted /\ worker = "gone")
    /\ UNCHANGED <<policy, late, hello, proof, canWrite, sent, received, eof, response, outcome,
                   worker, status, evidence, todo, taken, result, stdin, stdout, helper, runDir,
                   disturbed>>

\* Mutant of LeaveExchange: the exit is awaited without a look at the clock.
LeaveExchangeUntimed ==
    /\ host = "exit"
    /\ failure # "none" \/ worker = "gone"
    /\ host' = "finish"
    /\ failure' = IF late /\ failure # "Crash" THEN "Deadline" ELSE failure
    /\ confirmed' = (Restricted /\ failure' = "none")
    /\ reaped' = (~Restricted /\ worker = "gone")
    /\ UNCHANGED <<policy, late, hello, proof, canWrite, sent, received, eof, response, outcome,
                   worker, status, evidence, todo, taken, result, stdin, stdout, helper, runDir,
                   disturbed>>

\* After the exchange: an answer counts only when the worker exits before the
\* deadline.  try_wait collects its status; under a restricted policy waitid
\* leaves it, so that the process group keeps its number.
LeaveExchange ==
    /\ host = "exit"
    /\ failure # "none" \/ late \/ worker = "gone"
    /\ host' = "finish"
    /\ failure' = IF late /\ failure # "Crash" THEN "Deadline" ELSE failure
    /\ confirmed' = (Restricted /\ failure' = "none")
    /\ reaped' = (~Restricted /\ worker = "gone")
    /\ UNCHANGED <<policy, late, hello, proof, canWrite, sent, received, eof, response, outcome,
                   worker, status, evidence, todo, taken, result, stdin, stdout, helper, runDir,
                   disturbed>>

WaitidFails ==
    /\ host = "exit" /\ Restricted /\ failure = "none" /\ ~late
    /\ host' = "finish" /\ failure' = "Crash" /\ disturbed' = TRUE
    /\ UNCHANGED <<policy, late, hello, proof, canWrite, sent, received, eof, response, confirmed,
                   outcome, workerVars, stdin, stdout, helper, runDir>>

\* Mutant of Stopped: only the worker itself is killed.
StoppedAlone(stopped) == helper

\* Whether a helper outlives the kill: it is in the worker's process group,
\* which only a restricted call kills.
Stopped(stopped) == helper /\ ~(Restricted /\ stopped)

\* finish: kill the worker, under a restricted policy with its process group,
\* collect its status and remove the directory of the call.
Finish ==
    /\ host = "finish"
    /\ worker' = "gone" /\ status' = IF status = "none" THEN "killed" ELSE status
    /\ \E stopped \in (IF Restricted THEN BOOLEAN ELSE {TRUE}),
          waited \in (IF reaped THEN {TRUE} ELSE BOOLEAN), removed \in BOOLEAN :
          LET base == IF failure # "none" THEN failure ELSE response
              ended == status' # "ok" /\ (Restricted => confirmed)
          IN  /\ helper' = Stopped(stopped)
              /\ reaped' = waited /\ runDir' = ~removed
              /\ outcome' = IF Restricted /\ ~(stopped /\ waited) THEN "Crash"
                            ELSE IF waited /\ ended /\ base \notin {"Deadline", "Malformed"}
                            THEN "Crash" ELSE base
              /\ disturbed' = (disturbed \/ ~stopped \/ ~waited \/ ~removed)
    /\ host' = "done"
    /\ UNCHANGED <<policy, late, hello, proof, canWrite, sent, received, eof, response, failure,
                   confirmed, evidence, todo, taken, result, stdin, stdout>>

-----------------------------------------------------------------------------
(* The worker.                                                              *)

otherVars == <<policy, late, hostVars, reaped>>

\* Mutant of Isolated: the worker says hello without looking.
IsolatedUnseen(seen) == TRUE

\* child_probe found evidence of the isolation the policy asks for.
Isolated(seen) == Restricted => seen

\* A restricted worker probes its own isolation first.
WorkerStart ==
    /\ worker = "start"
    /\ \E seen \in BOOLEAN :
          /\ evidence' = (Restricted /\ seen)
          /\ worker' = IF Isolated(seen) THEN "hello" ELSE "deny"
          /\ todo' = FrameOf(IF Isolated(seen) THEN "hello" ELSE "denied")
          /\ disturbed' = (disturbed \/ ~Isolated(seen))
    /\ UNCHANGED <<otherVars, status, taken, result, stdin, stdout, helper, runDir>>

\* write_all and flush, a chunk at a time; then on to the request, or out.
WorkerWrites ==
    /\ worker \in {"deny", "hello", "respond"}
    /\ IF todo # <<>>
       THEN /\ Len(stdout) < PipeSize
            /\ stdout' = Append(stdout, Head(todo)) /\ todo' = Tail(todo)
            /\ UNCHANGED <<worker, status>>
       ELSE /\ worker' = IF worker = "hello" THEN "request" ELSE "exiting"
            /\ status' = CASE worker = "hello" -> status
                           [] worker = "deny" -> "error"
                           [] worker = "respond" -> "ok"
            /\ UNCHANGED <<stdout, todo>>
    /\ UNCHANGED <<otherVars, evidence, taken, result, stdin, helper, runDir, disturbed>>

\* The request is read to its end, and the byte after it must be the end of
\* standard input.
WorkerReads ==
    /\ worker = "request"
    /\ IF taken < Parts
       THEN /\ stdin > 0 /\ stdin' = stdin - 1 /\ taken' = taken + 1 /\ UNCHANGED worker
       ELSE /\ sent = Parts /\ worker' = "run" /\ UNCHANGED <<stdin, taken>>
    /\ UNCHANGED <<otherVars, status, evidence, todo, result, stdout, helper, runDir, disturbed>>

Execute ==
    /\ worker = "run"
    /\ result' \in Results
    /\ todo' = FrameOf(IF Restricted THEN Sanitized(result') ELSE result')
    /\ worker' = "respond"
    /\ UNCHANGED <<otherVars, status, evidence, taken, stdin, stdout, helper, runDir, disturbed>>

Exited ==
    /\ worker = "exiting" /\ worker' = "gone"
    /\ UNCHANGED <<otherVars, status, evidence, todo, taken, result, stdin, stdout, helper, runDir,
                   disturbed>>

\* What native code, or the system, may do to the worker.
WorkerDies ==
    /\ HoldsPipes \/ worker = "closed"
    /\ worker' = "exiting" /\ status' \in {"error", "killed"} /\ disturbed' = TRUE
    /\ UNCHANGED <<otherVars, evidence, todo, taken, result, stdin, stdout, helper, runDir>>

WorkerHangs ==
    /\ worker \in {"run", "respond"}
    /\ worker' \in {"hung", "closed"} /\ disturbed' = TRUE
    /\ UNCHANGED <<otherVars, status, evidence, todo, taken, result, stdin, stdout, helper, runDir>>

StrayOutput ==
    /\ worker \in {"run", "respond"} \/ helper
    /\ Len(stdout) < PipeSize
    /\ \E c \in Junk : stdout' = Append(stdout, c)
    /\ disturbed' = TRUE
    /\ UNCHANGED <<otherVars, worker, status, evidence, todo, taken, result, stdin, helper, runDir>>

Helper ==
    /\ helper \/ worker = "run"
    /\ helper' = ~helper /\ disturbed' = TRUE
    /\ UNCHANGED <<otherVars, worker, status, evidence, todo, taken, result, stdin, stdout, runDir>>

-----------------------------------------------------------------------------
Next ==
    \/ Tick
    \/ Refuse \/ Spawn \/ SystemError \/ Poll \/ PollInterrupted \/ ReadAvailable
    \/ AwaitHello \/ Exchange \/ LeaveExchange \/ WaitidFails \/ Finish
    \/ host # "done" /\ \/ WorkerStart \/ WorkerWrites \/ WorkerReads \/ Execute \/ Exited
                        \/ WorkerDies \/ WorkerHangs \/ StrayOutput \/ Helper

\* The host process is scheduled, and not every poll of it is interrupted.  The
\* worker is scheduled while it follows the protocol: nothing makes one that is
\* hung or gone move on.  The clock needs no fairness: the liveness properties
\* speak of the calls whose deadline passes and of those whose does not.
Fairness ==
    /\ WF_vars(Refuse \/ Spawn) /\ SF_vars(Poll) /\ WF_vars(ReadAvailable)
    /\ WF_vars(AwaitHello) /\ WF_vars(Exchange) /\ WF_vars(LeaveExchange) /\ WF_vars(Finish)
    /\ WF_vars(host # "done" /\ (WorkerStart \/ WorkerWrites \/ WorkerReads \/ Execute \/ Exited))

Spec == Init /\ [][Next]_vars
FairSpec == Spec /\ Fairness

-----------------------------------------------------------------------------
(* Properties.                                                              *)

TypeOK ==
    /\ policy \in Policies /\ late \in BOOLEAN
    /\ host \in HostAt /\ sent \in 0..Parts /\ Len(received) <= BufferSize
    /\ response \in Answers \cup {"none"} /\ failure \in Failures \cup {"none"}
    /\ outcome \in Answers \cup Failures \cup {"none"}
    /\ worker \in WorkerAt /\ status \in {"none", "ok", "error", "killed"}
    /\ stdin \in 0..PipeSize /\ taken \in 0..Parts /\ Len(stdout) <= PipeSize
    /\ result \in Results \cup {"none"}
    /\ {hello, proof, canWrite, eof, confirmed, reaped, evidence, helper, runDir, disturbed}
         \subseteq BOOLEAN

\* An outcome that is an answer is the worker's own, and the whole of it: the
\* worker read this request to its end, the outcome is what it yielded (in its
\* public form under a restricted policy), nothing followed it in the output,
\* and the worker then exited with success and was collected.  A crash or hang
\* after the answer, or stray output around it, is never taken for success.
AnswerIsGenuine ==
    outcome \in Answers =>
        /\ taken = Parts /\ result # "none"
        /\ outcome = IF Restricted THEN Sanitized(result) ELSE result
        /\ received \o stdout = <<>>
        /\ status = "ok" /\ reaped

\* No byte of the request, which names native code to load, leaves the host for
\* a restricted worker unless both the worker and the host have found it isolated.
RequestNeedsEvidence == sent > 0 /\ Restricted => evidence /\ proof

\* A restricted call leaves no process behind, whatever its outcome, unless it
\* reports a crash.
RestrictedLeavesNothing ==
    host = "done" /\ Restricted /\ outcome # "Crash" => ~helper /\ (worker = "none" \/ reaped)

\* A worker that follows the protocol is never blamed: however the frames are
\* cut, and whatever it yields, its call ends with its answer or at the deadline.
FollowerIsAnswered ==
    host = "done" /\ ~disturbed => outcome \in Answers \/ (outcome = "Deadline" /\ late)

\* Once the deadline has passed the call returns, whatever the worker does.
DeadlineEnforced == late ~> host = "done"

\* Host and worker never wait for each other: unless the deadline passes or
\* something disturbs the exchange, the call ends, with an answer.
ExchangeCompletes == []~late /\ []~disturbed => <>(outcome \in Answers)

=============================================================================
