----------------------------- MODULE Inference -----------------------------
(***************************************************************************)
(* The router of harness/inference/router.py: threads submit requests, a   *)
(* worker thread takes them by (priority, seq), drains chat_stream of      *)
(* client.py line by line and resolves the request's future.  A request is *)
(* known by its seq.                                                       *)
(***************************************************************************)
EXTENDS Integers, FiniteSets

CONSTANTS Caller, Worker,   \* threads that call infer(), slots for worker threads
          Priority,         \* 0 is the most urgent
          MaxSeq,           \* bound: requests submitted
          MaxText,          \* bound: deltas of a reply
          RouterFaults      \* what may happen in a run that is not calm:
                            \* "race": two calls of start() overlap
                            \* "stop": stop() is called

ASSUME RouterAssumption == Priority \subseteq Nat /\ MaxSeq \in Nat

VARIABLES running,   \* _running
          worker,    \* the requests the worker threads serve: Idle, NoThread or a seq
          queue,     \* _q: records prio, seq, on_delta
          seq,       \* _seq
          call,      \* the callers: where each is in submit(), with what request
          wire,      \* a worker's chat_stream: the event name, text and impulse read,
                     \* and what the daemon has sent of them
          future,    \* a request's future
          last_kairos,
          faults     \* the faults of this behaviour

rvars == <<running, worker, queue, seq, call, wire, future, last_kairos, faults>>

NoThread == -1
Idle     == 0
NoImpulse == 0
Pending == [state |-> "pending", text |-> 0, kairos |-> NoImpulse]
Quiet   == [name |-> "message", text |-> 0, kairos |-> NoImpulse, sent |-> 0, spoke |-> NoImpulse,
            on_delta |-> FALSE]
Outside == [pc |-> "out", prio |-> 0, seq |-> 0, on_delta |-> FALSE]

RouterInit ==
    /\ running = FALSE /\ queue = {} /\ seq = 0
    /\ worker = [w \in Worker |-> NoThread]
    /\ call = [c \in Caller |-> Outside]
    /\ wire = [w \in Worker |-> Quiet]
    /\ future = [n \in 1..MaxSeq |-> Pending]
    /\ last_kairos = NoImpulse
    /\ faults \in {{}, RouterFaults}

Serving(w) == worker[w] \in 1..MaxSeq
Live(w) == worker[w] # NoThread
At(c, pc) == call[c].pc = pc
Goto(c, pc) == call' = [call EXCEPT ![c].pc = pc]

-----------------------------------------------------------------------------
\* start(): "if self._running: return"
StartChecks(c) ==
    /\ Goto(c, IF running THEN "number" ELSE "set")
    /\ UNCHANGED <<running, worker, queue, seq, wire, future, last_kairos, faults>>

\* infer() builds the request and submit() calls start().
Infer(c, prio, on_delta) ==
    /\ At(c, "out") /\ seq + Cardinality({d \in Caller : ~At(d, "out") /\ call[d].seq = 0}) < MaxSeq
    /\ "race" \in faults \/ \A d \in Caller : call[d].pc \notin {"check", "set", "spawn"}
    /\ call' = [call EXCEPT ![c] = [pc |-> "check", prio |-> prio, seq |-> 0,
                                    on_delta |-> on_delta]]
    /\ UNCHANGED <<running, worker, queue, seq, wire, future, last_kairos, faults>>

Check(c) == At(c, "check") /\ StartChecks(c)

\* Faulty: the flag is set and the thread comes with the next call.
SetRunningOnly(c) ==
    /\ At(c, "set")
    /\ running' = TRUE /\ Goto(c, "number")
    /\ UNCHANGED <<worker, queue, seq, wire, future, last_kairos, faults>>

SetRunning(c) ==
    /\ At(c, "set")
    /\ running' = TRUE /\ Goto(c, "spawn")
    /\ UNCHANGED <<worker, queue, seq, wire, future, last_kairos, faults>>

Spawn(c) ==
    /\ At(c, "spawn")
    /\ \E w \in Worker : ~Live(w) /\ worker' = [worker EXCEPT ![w] = Idle]
    /\ Goto(c, "number")
    /\ UNCHANGED <<running, queue, seq, wire, future, last_kairos, faults>>

\* "with self._lock: self._seq += 1"
Number(c) ==
    /\ At(c, "number")
    /\ seq' = seq + 1
    /\ call' = [call EXCEPT ![c].pc = "put", ![c].seq = seq + 1]
    /\ UNCHANGED <<running, worker, queue, wire, future, last_kairos, faults>>

Enqueue(c) ==
    /\ At(c, "put")
    /\ queue' = queue \cup {[prio |-> call[c].prio, seq |-> call[c].seq, on_delta |-> call[c].on_delta]}
    /\ Goto(c, "wait")
    /\ UNCHANGED <<running, worker, seq, wire, future, last_kairos, faults>>

\* submit_sync: the future's result, its exception, or TimeoutError; the request
\* of a caller that gave up stays where it is.
Return(c) ==
    /\ At(c, "wait")
    /\ call' = [call EXCEPT ![c] = Outside]
    /\ UNCHANGED <<running, worker, queue, seq, wire, future, last_kairos, faults>>

Stop ==
    /\ "stop" \in faults /\ running
    /\ running' = FALSE
    /\ UNCHANGED <<worker, queue, seq, call, wire, future, last_kairos, faults>>

-----------------------------------------------------------------------------
\* PriorityQueue orders by (priority, seq).
Least(q) == CHOOSE r \in q : \A s \in q :
               r.prio < s.prio \/ (r.prio = s.prio /\ r.seq <= s.seq)

\* The loop's head: the thread ends when _running is down.
Leave(w) ==
    /\ worker[w] = Idle /\ ~running
    /\ worker' = [worker EXCEPT ![w] = NoThread]
    /\ UNCHANGED <<running, queue, seq, call, wire, future, last_kairos, faults>>

Take(w) ==
    /\ worker[w] = Idle /\ running /\ queue # {}
    /\ LET r == Least(queue) IN
       /\ queue' = queue \ {r}
       /\ worker' = [worker EXCEPT ![w] = r.seq]
       /\ wire' = [wire EXCEPT ![w] = [Quiet EXCEPT !.on_delta = r.on_delta]]
    /\ UNCHANGED <<running, seq, call, future, last_kairos, faults>>

\* A delta: "name, sse_event = sse_event, 'message'", then the text grows.
DataDelta(w) ==
    /\ Serving(w) /\ wire[w].sent < MaxText /\ wire[w].spoke = NoImpulse
    /\ wire' = [wire EXCEPT ![w].sent = @ + 1, ![w].name = "message",
          ![w].text   = IF wire[w].name = "kairos" THEN @ ELSE @ + 1,
          ![w].kairos = IF wire[w].name = "kairos" THEN worker[w] ELSE @]
    /\ UNCHANGED <<running, worker, queue, seq, call, future, last_kairos, faults>>

\* "event: kairos"
EventLine(w) ==
    /\ Serving(w) /\ wire[w].name = "message" /\ wire[w].spoke = NoImpulse
    /\ wire' = [wire EXCEPT ![w].name = "kairos", ![w].spoke = worker[w]]
    /\ UNCHANGED <<running, worker, queue, seq, call, future, last_kairos, faults>>

\* Its data line, with the turn's impulse; a line that is no JSON is skipped.
DataKairos(w, good) ==
    /\ Serving(w) /\ wire[w].name = "kairos"
    /\ wire' = IF good THEN [wire EXCEPT ![w].name = "message", ![w].kairos = worker[w]]
                       ELSE wire
    /\ last_kairos' = IF good THEN worker[w] ELSE last_kairos
    /\ UNCHANGED <<running, worker, queue, seq, call, future, faults>>

\* Faulty: the response takes the impulse the client keeps for the gateway.
ReplyShared(w) == [state |-> "done", text |-> wire[w].text, kairos |-> last_kairos]

\* The InferenceResponse the generator returns.
Reply(w) == [state |-> "done", text |-> wire[w].text, kairos |-> wire[w].kairos]

\* [DONE], the end of the stream, or an exception; with on_delta the "for" has
\* swallowed the generator's return value and the result is None.
Finish(w, how) ==
    /\ Serving(w)
    /\ future' = [future EXCEPT ![worker[w]] =
          IF how = "raise" THEN [Pending EXCEPT !.state = "raised"]
          ELSE IF wire[w].on_delta THEN [Pending EXCEPT !.state = "none"]
          ELSE Reply(w)]
    /\ worker' = [worker EXCEPT ![w] = Idle]
    /\ UNCHANGED <<running, queue, seq, call, wire, last_kairos, faults>>

Reading(w) ==
    \/ Leave(w) \/ Take(w) \/ DataDelta(w) \/ EventLine(w)
    \/ \E good \in BOOLEAN : DataKairos(w, good)
Ending(w) == \E how \in {"ends", "raise"} : Finish(w, how)

Submitting(c) == Check(c) \/ SetRunning(c) \/ Spawn(c) \/ Number(c) \/ Enqueue(c)

RouterNext ==
    \/ \E c \in Caller : \/ \E p \in Priority, d \in BOOLEAN : Infer(c, p, d)
                         \/ Submitting(c) \/ Return(c)
    \/ \E w \in Worker : Reading(w) \/ Ending(w)
    \/ Stop

\* Threads run on, and a stream ends: the daemon closes it or httpx times out.
RouterFairness ==
    /\ \A c \in Caller : WF_rvars(Submitting(c))
    /\ \A w \in Worker : WF_rvars(Take(w)) /\ WF_rvars(Ending(w))

RouterSpec == RouterInit /\ [][RouterNext]_rvars /\ RouterFairness

-----------------------------------------------------------------------------
\* While the router says it runs, a worker thread exists or is about to be
\* started, whatever calls of start() and stop() overlap: a request put now is
\* not put into a queue nobody reads.
WorkerThere ==
    running => (\E w \in Worker : Live(w)) \/ (\E c \in Caller : At(c, "spawn"))

\* A future is resolved with its own turn's impulse or with none, and never with
\* that of a stream that ran beside it.
OwnReply ==
    \A n \in 1..MaxSeq : future[n].state = "done" => future[n].kairos \in {NoImpulse, n}

\* The one worker the class promises: as long as calls of start() do not overlap
\* and nobody stops the router, the daemon serves one routed request at a time.
OneRequest == faults = {} =>
    \A v, w \in Worker : Serving(v) /\ Serving(w) => v = w

\* Requests that overlap come out as if they had not: while the router says it runs a
\* worker is there, calm it serves one request at a time, and a future has its own
\* turn's impulse (router.py, client.py).
OverlapsHarmless == WorkerThere /\ OwnReply /\ OneRequest

\* A request that is in the queue is answered in the end, whether its caller
\* still waits or gave up, unless the router is stopped first.
Answered ==
    \A n \in 1..MaxSeq :
       (\E r \in queue : r.seq = n) ~> future[n].state # "pending" \/ ~running
=============================================================================
