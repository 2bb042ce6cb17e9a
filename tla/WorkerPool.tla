------------------------------ MODULE WorkerPool ------------------------------
(***************************************************************************)
(* The pool of worker threads behind the candle watcher and the batch      *)
(* backtests: a queue of jobs, a list of idle workers, a count of jobs in  *)
(* flight, and one promise that resolves when both run out.                *)
(*                                                                         *)
(* A worker thread that dies raises an `error' event, which is logged: the *)
(* pool neither replaces it nor gives up its job, and an idle one that has *)
(* died is still handed the next job.                                      *)
(***************************************************************************)
EXTENDS Integers, Sequences, FiniteSets

CONSTANTS Workers, Jobs, NoJob

ASSUME PoolAssumption == IsFiniteSet(Workers) /\ NoJob \notin Jobs

VARIABLES
  starting,  \* workers that have not said they are ready
  alive,     \* workers whose thread is running
  idle,      \* workers waiting for a job, longest first
  queue,     \* jobs waiting for a worker
  busy,      \* worker -> the job posted to it
  inFlight,  \* jobs posted and not answered
  waiting    \* whether enqueue's promise is pending

poolVars == <<starting, alive, idle, queue, busy, inFlight, waiting>>

PoolTypeOK ==
  /\ starting \subseteq Workers /\ alive \subseteq Workers
  /\ idle \in Seq(Workers) /\ queue \in Seq(Jobs)
  /\ busy \in [Workers -> Jobs \cup {NoJob}]
  /\ inFlight \in 0 .. Cardinality(Workers) /\ waiting \in BOOLEAN

Busy == {w \in Workers : busy[w] # NoJob}

PoolInit ==
  /\ starting = Workers /\ alive = Workers
  /\ idle = <<>> /\ queue = <<>>
  /\ busy = [w \in Workers |-> NoJob]
  /\ inFlight = 0 /\ waiting = FALSE

-------------------------------------------------------------------------------
\* Mutant: one job is handed out, however many workers are idle.
DispatchOne(q, i, b, f) ==
  LET n == IF q # <<>> /\ i # <<>> THEN 1 ELSE 0
  IN  /\ queue' = SubSeq(q, n + 1, Len(q))
      /\ idle' = SubSeq(i, n + 1, Len(i))
      /\ busy' = IF n = 0 THEN b ELSE [b EXCEPT ![i[1]] = q[1]]
      /\ inFlight' = f + n

\* Mutant: jobs posted are not counted.
DispatchUncounted(q, i, b, f) ==
  LET n == IF Len(q) < Len(i) THEN Len(q) ELSE Len(i)
  IN  /\ queue' = SubSeq(q, n + 1, Len(q))
      /\ idle' = SubSeq(i, n + 1, Len(i))
      /\ busy' = [w \in Workers |->
                    IF \E k \in 1 .. n : i[k] = w
                    THEN q[CHOOSE k \in 1 .. n : i[k] = w] ELSE b[w]]
      /\ inFlight' = f

\* dispatch: first job to first worker, until one of the lists runs out.
Dispatch(q, i, b, f) ==
  LET n == IF Len(q) < Len(i) THEN Len(q) ELSE Len(i)
  IN  /\ queue' = SubSeq(q, n + 1, Len(q))
      /\ idle' = SubSeq(i, n + 1, Len(i))
      /\ busy' = [w \in Workers |->
                    IF \E k \in 1 .. n : i[k] = w
                    THEN q[CHOOSE k \in 1 .. n : i[k] = w] ELSE b[w]]
      /\ inFlight' = f + n

\* start: a worker has loaded and reports for work.
Ready(w) ==
  /\ w \in starting \cap alive
  /\ starting' = starting \ {w}
  /\ idle' = Append(idle, w)
  /\ UNCHANGED <<alive, queue, busy, inFlight, waiting>>

Started == starting = {}

\* Mutant: the promise is not waited for.
EnqueueDetached(jobs) ==
  /\ Dispatch(queue \o jobs, idle, busy, inFlight)
  /\ waiting' = FALSE
  /\ UNCHANGED <<starting, alive>>

\* enqueue: the promise is kept by the last answer, or at once.
Enqueue(jobs) ==
  /\ Dispatch(queue \o jobs, idle, busy, inFlight)
  /\ waiting' = (queue' # <<>> \/ inFlight' # 0)
  /\ UNCHANGED <<starting, alive>>

\* Mutant: the promise is kept when the queue is empty.
AnswerEarly(w) ==
  /\ w \in alive /\ busy[w] # NoJob
  /\ Dispatch(queue, Append(idle, w), [busy EXCEPT ![w] = NoJob], inFlight - 1)
  /\ waiting' = (waiting /\ queue' # <<>>)
  /\ UNCHANGED <<starting, alive>>

\* Mutant: the worker is not given the next job.
AnswerIdly(w) ==
  /\ w \in alive /\ busy[w] # NoJob
  /\ idle' = Append(idle, w)
  /\ busy' = [busy EXCEPT ![w] = NoJob]
  /\ inFlight' = inFlight - 1
  /\ waiting' = (waiting /\ (queue # <<>> \/ inFlight' # 0))
  /\ UNCHANGED <<starting, alive, queue>>

\* The message handler: a result, or the error the worker caught, has come.
Answer(w) ==
  /\ w \in alive /\ busy[w] # NoJob
  /\ Dispatch(queue, Append(idle, w), [busy EXCEPT ![w] = NoJob], inFlight - 1)
  /\ waiting' = (waiting /\ (queue' # <<>> \/ inFlight' # 0))
  /\ UNCHANGED <<starting, alive>>

\* An exception no handler of the worker catches ends its thread.
Die(w) ==
  /\ w \in alive
  /\ alive' = alive \ {w}
  /\ UNCHANGED <<starting, idle, queue, busy, inFlight, waiting>>

PoolNext ==
  \/ \E w \in Workers : Ready(w) \/ Answer(w) \/ Die(w)
  \/ \E jobs \in Seq(Jobs) : Started /\ ~ waiting /\ Enqueue(jobs)

PoolSpec == PoolInit /\ [][PoolNext]_poolVars
-------------------------------------------------------------------------------
\* The count of jobs in flight is the number of workers that hold one, each
\* worker is in one place, and a job waits only while no worker is idle.
PoolAccounts ==
  /\ inFlight = Cardinality(Busy)
  /\ \A k, l \in DOMAIN idle : idle[k] = idle[l] => k = l
  /\ \A k \in DOMAIN idle : idle[k] \notin Busy \cup starting
  /\ Busy \cap starting = {}
  /\ queue # <<>> => idle = <<>>

\* When enqueue resolves, no job of its batch is left, waiting or in flight.
ResolvedIsDrained == ~ waiting => queue = <<>> /\ Busy = {}
==============================================================================
