---------------------------- MODULE Watcher_proofs ----------------------------
(***************************************************************************)
(* The pool's accounts, for any number of workers and jobs, any order in   *)
(* which workers report, answer and die, and any batches; and on top of    *)
(* them the watcher: whatever candles, ticks, failures, restarts and       *)
(* deaths there are, a marker is moved only when its cells have run or     *)
(* have answered that they failed.                                         *)
(*                                                                         *)
(* The pool's invariant is PoolAccounts and ResolvedIsDrained, with the    *)
(* facts about start-up that a job posted before all workers have reported *)
(* would break.  The watcher's follows a batch's cells from the queue to a *)
(* worker, and to the worker's answer.                                     *)
(***************************************************************************)
EXTENDS Watcher, FiniteSetTheorems, SequenceTheorems, TLAPS

\* Jobs are posted only once every worker has reported.
StartsEmpty == starting # {} => queue = <<>> /\ Busy = {} /\ ~ waiting

PoolInv == PoolTypeOK /\ PoolAccounts /\ ResolvedIsDrained /\ StartsEmpty

\* The workers that hold a job according to b.
Holding(b) == {w \in Workers : b[w] # NoJob}

\* The lists a dispatch starts from: idle workers hold no job and appear once.
Dispatchable(q, i, b, f) ==
  /\ q \in Seq(Jobs) /\ i \in Seq(Workers)
  /\ b \in [Workers -> Jobs \cup {NoJob}]
  /\ f = Cardinality(Holding(b))
  /\ \A k, l \in DOMAIN i : i[k] = i[l] => k = l
  /\ \A k \in DOMAIN i : i[k] \notin Holding(b)

\* The first n members of a list without repetitions are n.
LEMMA FirstMembers ==
  ASSUME NEW S, NEW i \in Seq(S), NEW n \in 0 .. Len(i),
         \A k, l \in DOMAIN i : i[k] = i[l] => k = l,
         NEW T, \A w : w \in T <=> \E k \in 1 .. n : i[k] = w
  PROVE  IsFiniteSet(T) /\ Cardinality(T) = n
<1> DEFINE g == [k \in 1 .. n |-> i[k]]
<1>1. 1 .. n \subseteq DOMAIN i
  OBVIOUS
<1>2. g \in Bijection(1 .. n, T)
  BY <1>1 DEF Bijection, Injection, Surjection, IsInjective
<1>3. IsFiniteSet(1 .. n) /\ Cardinality(1 .. n) = n
  BY FS_Interval
<1> QED
  BY <1>2, <1>3, FS_Bijection DEF ExistsBijection

\* A dispatch hands the first jobs to the first idle workers, and keeps count.
LEMMA DispatchKeepsAccounts ==
  ASSUME NEW STATE q, NEW STATE i, NEW STATE b, NEW STATE f,
         Dispatchable(q, i, b, f), Dispatch(q, i, b, f)
  PROVE  /\ queue' \in Seq(Jobs) /\ idle' \in Seq(Workers)
         /\ busy' \in [Workers -> Jobs \cup {NoJob}]
         /\ inFlight' = Cardinality(Busy') /\ inFlight' \in 0 .. Cardinality(Workers)
         /\ \A k, l \in DOMAIN idle' : idle'[k] = idle'[l] => k = l
         /\ \A k \in DOMAIN idle' : idle'[k] \notin Busy'
         /\ \A k \in DOMAIN idle' : \E l \in DOMAIN i : idle'[k] = i[l]
         /\ queue' # <<>> => idle' = <<>>
<1> DEFINE n == IF Len(q) < Len(i) THEN Len(q) ELSE Len(i)
           T == {i[k] : k \in 1 .. n}
<1>1. /\ q \in Seq(Jobs) /\ i \in Seq(Workers)
      /\ b \in [Workers -> Jobs \cup {NoJob}]
      /\ f = Cardinality(Holding(b))
  BY DEF Dispatchable
<1>2. /\ \A k, l \in DOMAIN i : i[k] = i[l] => k = l
      /\ \A k \in DOMAIN i : i[k] \notin Holding(b)
  BY DEF Dispatchable
<1>3. /\ n \in Nat /\ n <= Len(q) /\ n <= Len(i)
      /\ n = Len(q) \/ n = Len(i)
      /\ Len(q) \in Nat /\ Len(i) \in Nat
  BY <1>1
<1>4. /\ queue' = SubSeq(q, n + 1, Len(q))
      /\ idle' = SubSeq(i, n + 1, Len(i))
      /\ busy' = [w \in Workers |->
                    IF \E k \in 1 .. n : i[k] = w
                    THEN q[CHOOSE k \in 1 .. n : i[k] = w] ELSE b[w]]
      /\ inFlight' = f + n
  BY DEF Dispatch
<1> HIDE DEF n
<1>5. /\ queue' \in Seq(Jobs) /\ Len(queue') = Len(q) - n
      /\ idle' \in Seq(Workers) /\ Len(idle') = Len(i) - n
      /\ \A k \in 1 .. Len(idle') : idle'[k] = i[k + n]
  <2>1. /\ \A k \in (n + 1) .. Len(q) : q[k] \in Jobs
        /\ \A k \in (n + 1) .. Len(i) : i[k] \in Workers
    BY <1>1, <1>3
  <2>2. /\ queue' \in Seq(Jobs)
        /\ Len(queue') = IF n + 1 <= Len(q) THEN Len(q) - (n + 1) + 1 ELSE 0
    BY <1>3, <1>4, <2>1, SubSeqProperties
  <2>3. /\ idle' \in Seq(Workers)
        /\ Len(idle') = IF n + 1 <= Len(i) THEN Len(i) - (n + 1) + 1 ELSE 0
        /\ \A k \in 1 .. Len(i) - (n + 1) + 1 : idle'[k] = i[(n + 1) + k - 1]
    BY <1>3, <1>4, <2>1, SubSeqProperties
  <2>4. Len(queue') = Len(q) - n /\ Len(idle') = Len(i) - n
    BY <1>3, <2>2, <2>3
  <2>5. \A k \in 1 .. Len(idle') : idle'[k] = i[k + n]
    BY <1>3, <2>3, <2>4
  <2> QED
    BY <2>2, <2>3, <2>4, <2>5
<1>6. DOMAIN idle' = 1 .. Len(idle') /\ \A k \in DOMAIN idle' : k + n \in DOMAIN i
  BY <1>3, <1>5
<1>7. \A w : w \in T <=> \E k \in 1 .. n : i[k] = w
  OBVIOUS
<1>8. /\ IsFiniteSet(T) /\ Cardinality(T) = n
      /\ T \subseteq Workers /\ T \cap Holding(b) = {}
  <2>1. IsFiniteSet(T) /\ Cardinality(T) = n
    <3>1. n \in 0 .. Len(i)
      BY <1>3
    <3> HIDE DEF T
    <3> QED
      BY <1>1, <1>2, <1>7, <3>1, FirstMembers
  <2>2. \A k \in 1 .. n : i[k] \in Workers /\ i[k] \notin Holding(b)
    BY <1>1, <1>2, <1>3
  <2> QED
    BY <2>1, <2>2
<1> HIDE DEF T
<1>9. \A w \in T : q[CHOOSE k \in 1 .. n : i[k] = w] \in Jobs
  <2>1. \A w \in T : (CHOOSE k \in 1 .. n : i[k] = w) \in 1 .. n
    BY <1>7
  <2>2. \A k \in 1 .. n : q[k] \in Jobs
    BY <1>1, <1>3
  <2> QED
    BY <2>1, <2>2
<1>10. \A w \in Workers : busy'[w] = IF w \in T
                                       THEN q[CHOOSE k \in 1 .. n : i[k] = w] ELSE b[w]
  BY <1>4, <1>7
<1>11. busy' \in [Workers -> Jobs \cup {NoJob}]
  <2>1. \A w \in Workers : busy'[w] \in Jobs \cup {NoJob}
    BY <1>1, <1>9, <1>10
  <2> QED
    BY <1>4, <2>1
<1>12. Busy' = Holding(b) \cup T
  BY <1>8, <1>9, <1>10, PoolAssumption DEF Busy, Holding
<1>13. inFlight' = Cardinality(Busy') /\ inFlight' \in 0 .. Cardinality(Workers)
  <2>1. Holding(b) \subseteq Workers /\ Holding(b) \cup T \subseteq Workers
    BY <1>8 DEF Holding
  <2>2. IsFiniteSet(Holding(b)) /\ Cardinality(Holding(b)) \in Nat
    BY <2>1, PoolAssumption, FS_Subset, FS_CardinalityType
  <2>3. Cardinality(Holding(b) \cup T) = Cardinality(Holding(b)) + n
    <3>1. Cardinality(Holding(b) \cap T) = 0
      <4>1. Holding(b) \cap T = {}
        BY <1>8
      <4> QED
        BY <4>1, FS_EmptySet
    <3>2. Cardinality(Holding(b) \cup T)
            = Cardinality(Holding(b)) + Cardinality(T) - Cardinality(Holding(b) \cap T)
      BY <1>8, <2>2, FS_Union
    <3> QED
      BY <1>3, <1>8, <2>2, <3>1, <3>2
  <2>4. Cardinality(Holding(b) \cup T) <= Cardinality(Workers)
    BY <2>1, PoolAssumption, FS_Subset
  <2>5. Cardinality(Workers) \in Nat
    BY PoolAssumption, FS_CardinalityType
  <2> QED
    BY <1>1, <1>3, <1>4, <1>12, <2>2, <2>3, <2>4, <2>5
<1>14. \A k \in DOMAIN idle' : idle'[k] \notin Busy'
  <2> SUFFICES ASSUME NEW k \in DOMAIN idle', idle'[k] \in T
               PROVE  FALSE
    BY <1>2, <1>5, <1>6, <1>12
  <2>1. PICK l \in 1 .. n : i[l] = i[k + n]
    BY <1>5, <1>6, <1>7
  <2>2. l = k + n
    BY <1>2, <1>3, <1>6, <2>1
  <2> QED
    BY <1>3, <1>5, <1>6, <2>2
<1>15. \A k, l \in DOMAIN idle' : idle'[k] = idle'[l] => k = l
  <2> SUFFICES ASSUME NEW k \in DOMAIN idle', NEW l \in DOMAIN idle',
                      idle'[k] = idle'[l]
               PROVE  k = l
    OBVIOUS
  <2>1. k + n = l + n
    BY <1>2, <1>5, <1>6
  <2> QED
    BY <1>3, <1>5, <1>6, <2>1
<1>16. queue' # <<>> => idle' = <<>>
  BY <1>3, <1>5
<1> QED
  BY <1>5, <1>6, <1>11, <1>13, <1>14, <1>15, <1>16

-------------------------------------------------------------------------------
\* The pool's own lists can be dispatched from, and grow by a batch.
LEMMA PoolIsDispatchable ==
  ASSUME PoolInv, NEW jobs \in Seq(Jobs)
  PROVE  Dispatchable(queue \o jobs, idle, busy, inFlight)
<1>1. queue \o jobs \in Seq(Jobs)
  BY DEF PoolInv, PoolTypeOK
<1>2. Busy = Holding(busy)
  BY DEF Busy, Holding
<1> QED
  BY <1>1, <1>2 DEF PoolInv, PoolTypeOK, PoolAccounts, Dispatchable

\* enqueue keeps the accounts once every worker has reported.
LEMMA EnqueueStep ==
  ASSUME PoolInv, Started, NEW STATE jobs, jobs \in Seq(Jobs), Enqueue(jobs)
  PROVE  PoolInv'
<1>1. Dispatchable(queue \o jobs, idle, busy, inFlight)
  BY PoolIsDispatchable
<1>2. /\ Dispatch(queue \o jobs, idle, busy, inFlight)
      /\ waiting' = (queue' # <<>> \/ inFlight' # 0)
      /\ starting' = starting /\ alive' = alive
  BY DEF Enqueue
<1>3. /\ queue' \in Seq(Jobs) /\ idle' \in Seq(Workers)
      /\ busy' \in [Workers -> Jobs \cup {NoJob}]
      /\ inFlight' = Cardinality(Busy') /\ inFlight' \in 0 .. Cardinality(Workers)
      /\ \A k, l \in DOMAIN idle' : idle'[k] = idle'[l] => k = l
      /\ \A k \in DOMAIN idle' : idle'[k] \notin Busy'
      /\ queue' # <<>> => idle' = <<>>
  BY <1>1, <1>2, DispatchKeepsAccounts
<1>4. starting' = {}
  BY <1>2 DEF Started
<1>5. PoolTypeOK'
  <2>1. waiting' \in BOOLEAN
    BY <1>2, Zenon
  <2> QED
    BY <1>2, <1>3, <2>1 DEF PoolInv, PoolTypeOK
<1>6. PoolAccounts'
  BY <1>3, <1>4 DEF PoolAccounts
<1>7. ResolvedIsDrained'
  <2>1. IsFiniteSet(Busy')
    BY PoolAssumption, FS_Subset DEF Busy
  <2> QED
    BY <1>2, <1>3, <2>1, FS_EmptySet DEF ResolvedIsDrained
<1> QED
  BY <1>4, <1>5, <1>6, <1>7 DEF PoolInv, StartsEmpty

\* A worker that answers is idle, and can be dispatched to.
LEMMA AnswerIsDispatchable ==
  ASSUME PoolInv, NEW w \in Workers, Answer(w)
  PROVE  Dispatchable(queue, Append(idle, w), [busy EXCEPT ![w] = NoJob], inFlight - 1)
<1> DEFINE i == Append(idle, w)
           b == [busy EXCEPT ![w] = NoJob]
<1>0. w \in Busy
  BY DEF Answer, Busy
<1>1. i \in Seq(Workers) /\ Len(i) = Len(idle) + 1
      /\ i[Len(idle) + 1] = w /\ \A k \in 1 .. Len(idle) : i[k] = idle[k]
  BY DEF PoolInv, PoolTypeOK
<1>2. b \in [Workers -> Jobs \cup {NoJob}] /\ Holding(b) = Busy \ {w}
  BY DEF PoolInv, PoolTypeOK, Holding, Busy
<1>3. inFlight - 1 = Cardinality(Holding(b))
  <2>1. IsFiniteSet(Busy) /\ Cardinality(Busy) \in Nat
    BY PoolAssumption, FS_Subset, FS_CardinalityType DEF Busy
  <2> QED
    BY <1>0, <1>2, <2>1, FS_RemoveElement DEF PoolInv, PoolAccounts
<1>4. \A k \in DOMAIN idle : idle[k] \notin Busy
  BY DEF PoolInv, PoolAccounts
<1>5. \A k \in DOMAIN i : k \in 1 .. Len(idle) \/ k = Len(idle) + 1
  BY <1>1 DEF PoolInv, PoolTypeOK
<1>6. \A k \in 1 .. Len(idle) : k \in DOMAIN idle /\ idle[k] # w
  BY <1>0, <1>4 DEF PoolInv, PoolTypeOK
<1>7. \A k, l \in DOMAIN i : i[k] = i[l] => k = l
  BY <1>1, <1>5, <1>6 DEF PoolInv, PoolAccounts
<1>8. \A k \in DOMAIN i : i[k] \notin Holding(b)
  BY <1>1, <1>2, <1>4, <1>5, <1>6
<1>9. queue \in Seq(Jobs)
  BY DEF PoolInv, PoolTypeOK
<1> HIDE DEF i, b
<1>10. Dispatchable(queue, i, b, inFlight - 1)
  BY <1>1, <1>2, <1>3, <1>7, <1>8, <1>9 DEF Dispatchable
<1> QED
  BY <1>10 DEF i, b

\* The message handler frees the worker and hands on what waits.
LEMMA AnswerStep ==
  ASSUME PoolInv, NEW w \in Workers, Answer(w)
  PROVE  PoolInv'
<1> DEFINE i == Append(idle, w)
           b == [busy EXCEPT ![w] = NoJob]
<1>1. /\ w \in Busy
      /\ Dispatch(queue, i, b, inFlight - 1)
      /\ waiting' = (waiting /\ (queue' # <<>> \/ inFlight' # 0))
      /\ starting' = starting /\ alive' = alive
  BY DEF Answer, Busy
<1>2. starting = {} /\ waiting
  BY <1>1 DEF PoolInv, StartsEmpty, ResolvedIsDrained
<1>3. Dispatchable(queue, i, b, inFlight - 1)
  BY AnswerIsDispatchable
<1> HIDE DEF i, b
<1>4. /\ queue' \in Seq(Jobs) /\ idle' \in Seq(Workers)
      /\ busy' \in [Workers -> Jobs \cup {NoJob}]
      /\ inFlight' = Cardinality(Busy') /\ inFlight' \in 0 .. Cardinality(Workers)
      /\ \A k, l \in DOMAIN idle' : idle'[k] = idle'[l] => k = l
      /\ \A k \in DOMAIN idle' : idle'[k] \notin Busy'
      /\ queue' # <<>> => idle' = <<>>
  BY <1>1, <1>3, DispatchKeepsAccounts
<1>5. PoolTypeOK'
  <2>1. waiting' \in BOOLEAN
    BY <1>1, Zenon
  <2> QED
    BY <1>1, <1>4, <2>1 DEF PoolInv, PoolTypeOK
<1>6. PoolAccounts'
  BY <1>1, <1>2, <1>4 DEF PoolAccounts
<1>7. ResolvedIsDrained'
  <2>1. IsFiniteSet(Busy')
    BY PoolAssumption, FS_Subset DEF Busy
  <2> QED
    BY <1>1, <1>2, <1>4, <2>1, FS_EmptySet DEF ResolvedIsDrained
<1> QED
  BY <1>1, <1>2, <1>5, <1>6, <1>7 DEF PoolInv, StartsEmpty

\* A worker that reports is the last of the idle ones.
LEMMA ReadyStep ==
  ASSUME PoolInv, NEW w \in Workers, Ready(w)
  PROVE  PoolInv'
<1>1. /\ w \in starting
      /\ starting' = starting \ {w} /\ idle' = Append(idle, w)
      /\ UNCHANGED <<alive, queue, busy, inFlight, waiting>>
  BY DEF Ready
<1>2. queue = <<>> /\ Busy = {} /\ ~ waiting
  BY <1>1 DEF PoolInv, StartsEmpty
<1>3. Busy' = Busy
  BY <1>1 DEF Busy
<1>4. /\ idle' \in Seq(Workers) /\ Len(idle') = Len(idle) + 1
      /\ idle'[Len(idle) + 1] = w /\ \A k \in 1 .. Len(idle) : idle'[k] = idle[k]
  BY <1>1 DEF PoolInv, PoolTypeOK
<1>5. PoolTypeOK'
  BY <1>1, <1>4 DEF PoolInv, PoolTypeOK
<1>6. PoolAccounts'
  <2>1. \A k \in DOMAIN idle' : k \in 1 .. Len(idle) \/ k = Len(idle) + 1
    BY <1>4 DEF PoolInv, PoolTypeOK
  <2>2. \A k \in 1 .. Len(idle) : k \in DOMAIN idle /\ idle[k] # w
    BY <1>1 DEF PoolInv, PoolTypeOK, PoolAccounts
  <2>3. \A k, l \in DOMAIN idle' : idle'[k] = idle'[l] => k = l
    BY <1>4, <2>1, <2>2 DEF PoolInv, PoolAccounts
  <2>4. \A k \in DOMAIN idle' : idle'[k] \notin Busy' \cup starting'
    BY <1>1, <1>2, <1>3, <1>4, <2>1, <2>2 DEF PoolInv, PoolAccounts
  <2> QED
    BY <1>1, <1>2, <1>3, <2>3, <2>4 DEF PoolInv, PoolAccounts
<1> QED
  BY <1>1, <1>2, <1>3, <1>5, <1>6 DEF PoolInv, StartsEmpty, ResolvedIsDrained

LEMMA PoolStep ==
  ASSUME PoolInv, [PoolNext]_poolVars
  PROVE  PoolInv'
<1>1. ASSUME NEW w \in Workers, Die(w)
      PROVE  PoolInv'
  BY <1>1 DEF Die, PoolInv, PoolTypeOK, PoolAccounts, ResolvedIsDrained,
              StartsEmpty, Busy
<1>2. CASE UNCHANGED poolVars
  BY <1>2 DEF poolVars, PoolInv, PoolTypeOK, PoolAccounts, ResolvedIsDrained,
              StartsEmpty, Busy
<1> QED
  BY <1>1, <1>2, EnqueueStep, AnswerStep, ReadyStep DEF PoolNext

LEMMA PoolStarts ==
  ASSUME PoolInit
  PROVE  PoolInv
<1>1. Busy = {}
  BY DEF PoolInit, Busy
<1>2. Cardinality(Busy) = 0 /\ Cardinality(Workers) \in Nat
  BY <1>1, PoolAssumption, FS_EmptySet, FS_CardinalityType
<1>3. PoolTypeOK
  <2>1. busy \in [Workers -> Jobs \cup {NoJob}] /\ waiting \in BOOLEAN
    BY Zenon DEF PoolInit
  <2>2. inFlight \in 0 .. Cardinality(Workers)
    BY <1>2 DEF PoolInit
  <2>3. idle \in Seq(Workers) /\ queue \in Seq(Jobs)
    BY DEF PoolInit
  <2> QED
    BY <2>1, <2>2, <2>3 DEF PoolInit, PoolTypeOK
<1> QED
  BY <1>1, <1>2, <1>3
  DEF PoolInit, PoolInv, PoolAccounts, ResolvedIsDrained, StartsEmpty

\* Whatever batches are enqueued and workers do, the accounts hold.
THEOREM PoolInvariant == PoolSpec => []PoolInv
  BY PoolStarts, PoolStep, PTL DEF PoolSpec

\* The count in flight is the number of busy workers, no worker is in two places
\* and no job waits beside an idle worker (PoolAccounts).
THEOREM PoolKeepsAccounts == PoolSpec => []PoolAccounts
<1>1. PoolInv => PoolAccounts
  BY DEF PoolInv
<1> QED
  BY <1>1, PoolInvariant, PTL

\* enqueue's promise is kept only when the batch is done (ResolvedIsDrained).
THEOREM PoolResolvesDrained == PoolSpec => []ResolvedIsDrained
<1>1. PoolInv => ResolvedIsDrained
  BY DEF PoolInv
<1> QED
  BY <1>1, PoolInvariant, PTL

-------------------------------------------------------------------------------
\* What a dispatch does with the jobs: none is lost, and none taken away.
LEMMA DispatchServes ==
  ASSUME NEW STATE q, NEW STATE i, NEW STATE b, NEW STATE f,
         Dispatchable(q, i, b, f), Dispatch(q, i, b, f)
  PROVE  /\ \A k \in DOMAIN q :
              \/ \E l \in DOMAIN queue' : queue'[l] = q[k]
              \/ \E w \in Workers : busy'[w] = q[k]
         /\ \A w \in Workers : b[w] # NoJob => busy'[w] = b[w]
<1> DEFINE n == IF Len(q) < Len(i) THEN Len(q) ELSE Len(i)
<1>1. /\ q \in Seq(Jobs) /\ i \in Seq(Workers)
      /\ \A k, l \in DOMAIN i : i[k] = i[l] => k = l
      /\ \A k \in DOMAIN i : i[k] \notin Holding(b)
  BY DEF Dispatchable
<1>2. n \in Nat /\ n <= Len(q) /\ n <= Len(i) /\ Len(q) \in Nat /\ Len(i) \in Nat
  BY <1>1
<1>3. /\ queue' = SubSeq(q, n + 1, Len(q))
      /\ busy' = [w \in Workers |->
                    IF \E k \in 1 .. n : i[k] = w
                    THEN q[CHOOSE k \in 1 .. n : i[k] = w] ELSE b[w]]
  BY DEF Dispatch
<1> HIDE DEF n
<1>4. ASSUME NEW k \in 1 .. n
      PROVE  i[k] \in Workers /\ busy'[i[k]] = q[k]
  <2>1. i[k] \in Workers
    BY <1>1, <1>2
  <2>2. (CHOOSE l \in 1 .. n : i[l] = i[k]) = k
    BY <1>1, <1>2
  <2> QED
    BY <1>3, <2>1, <2>2
<1>5. ASSUME NEW k \in (n + 1) .. Len(q)
      PROVE  \E l \in DOMAIN queue' : queue'[l] = q[k]
  <2>1. \A j \in (n + 1) .. Len(q) : q[j] \in Jobs
    BY <1>1, <1>2
  <2>2. /\ queue' \in Seq(Jobs) /\ Len(queue') = Len(q) - n
        /\ \A j \in 1 .. Len(q) - (n + 1) + 1 : queue'[j] = q[(n + 1) + j - 1]
    BY <1>2, <1>3, <2>1, SubSeqProperties
  <2>3. k - n \in 1 .. Len(q) - (n + 1) + 1 /\ (n + 1) + (k - n) - 1 = k
    BY <1>2
  <2>4. k - n \in DOMAIN queue'
    BY <1>2, <2>2, <2>3
  <2> QED
    BY <2>2, <2>3, <2>4
<1>6. ASSUME NEW w \in Workers, b[w] # NoJob
      PROVE  busy'[w] = b[w]
  <2>1. \A k \in 1 .. n : i[k] # w
    BY <1>1, <1>2, <1>6 DEF Holding
  <2> QED
    BY <1>3, <2>1
<1>7. \A k \in DOMAIN q : k \in 1 .. n \/ k \in (n + 1) .. Len(q)
  BY <1>1, <1>2
<1> QED
  BY <1>4, <1>5, <1>6, <1>7

\* The list of a finite set holds its members.
LEMMA ListOfSet ==
  ASSUME NEW S, IsFiniteSet(S)
  PROVE  /\ SetToSeq(S) \in Seq(S)
         /\ \A x \in S : \E k \in DOMAIN SetToSeq(S) : SetToSeq(S)[k] = x
<1> DEFINE n == Cardinality(S)
           f == SetToSeq(S)
<1>1. n \in Nat /\ ExistsBijection(1 .. n, S)
  BY FS_CardinalityType
<1>2. \E g \in [1 .. n -> S] : IsInjective(g)
  BY <1>1 DEF ExistsBijection, Bijection, Injection
<1>3. f \in [1 .. n -> S] /\ IsInjective(f)
  BY <1>2 DEF SetToSeq
<1>4. Cardinality(1 .. n) = n
  BY <1>1, FS_Interval
<1> HIDE DEF n, f
<1>5. f \in Surjection(1 .. n, S)
  <2>1. f \in Injection(1 .. n, S)
    BY <1>3 DEF Injection
  <2> QED
    BY <1>4, <2>1, FS_Injection DEF n
<1>6. f \in Seq(S) /\ DOMAIN f = 1 .. n
  BY <1>1, <1>3
<1> QED
  BY <1>5, <1>6 DEF Surjection, f

\* A cell has been posted: it is queued, or a worker holds it.
Posted(c) ==
  \/ \E k \in DOMAIN queue : queue[k] = c
  \/ \E w \in Workers : busy[w] = c

\* A tick that posts its batch posts all of it.
LEMMA BatchIsPosted ==
  ASSUME PoolInv, Started, ~ waiting, NEW B \in SUBSET Jobs,
         IF B = {} THEN UNCHANGED poolVars ELSE Enqueue(SetToSeq(B))
  PROVE  /\ PoolInv'
         /\ \A c \in B : Posted(c)'
         /\ starting' = {}
         /\ B = {} => ~ waiting'
<1>1. CASE B = {}
  <2>1. UNCHANGED poolVars
    BY <1>1
  <2>2. PoolInv'
    BY <2>1, PoolStep
  <2> QED
    BY <1>1, <2>1, <2>2 DEF poolVars, Started
<1>2. CASE B # {}
  <2>1. PICK jobs : jobs = SetToSeq(B)
    OBVIOUS
  <2>2. Enqueue(jobs)
    BY <1>2, <2>1
  <2>3. IsFiniteSet(B)
    BY WatcherAssumption, FS_Subset
  <2>4. jobs \in Seq(Jobs) /\ \A c \in B : \E k \in DOMAIN jobs : jobs[k] = c
    <3>1. jobs \in Seq(B) /\ \A c \in B : \E k \in DOMAIN jobs : jobs[k] = c
      BY <2>1, <2>3, ListOfSet
    <3>2. jobs \in Seq(Jobs)
      BY <3>1
    <3> QED
      BY <3>1, <3>2
  <2>5. PoolInv'
    BY <2>2, <2>4, EnqueueStep
  <2>6. Dispatchable(queue \o jobs, idle, busy, inFlight)
    BY <2>4, PoolIsDispatchable
  <2>7. Dispatch(queue \o jobs, idle, busy, inFlight)
    BY <2>2 DEF Enqueue
  <2>8. ASSUME NEW c \in B
        PROVE  Posted(c)'
    <3>1. PICK k \in DOMAIN jobs : jobs[k] = c
      BY <2>4
    <3>2. queue = <<>>
      BY DEF PoolInv, ResolvedIsDrained
    <3>3. queue \o jobs = jobs
      BY <2>4, <3>2
    <3>4. Dispatchable(jobs, idle, busy, inFlight) /\ Dispatch(jobs, idle, busy, inFlight)
      BY <2>6, <2>7, <3>3
    <3> QED
      BY <3>1, <3>4, DispatchServes DEF Posted
  <2> QED
    BY <1>2, <2>2, <2>5, <2>8 DEF Enqueue, Started
<1> QED
  BY <1>1, <1>2

\* An answer takes its own job away, and no other.
LEMMA AnswerServes ==
  ASSUME PoolInv, NEW w \in Workers, Answer(w)
  PROVE  /\ \A c \in Jobs : Posted(c) => Posted(c)' \/ c = busy[w]
         /\ \A v \in Workers : v # w /\ busy[v] # NoJob => busy'[v] = busy[v]
<1> DEFINE i == Append(idle, w)
           b == [busy EXCEPT ![w] = NoJob]
<1>1. Dispatchable(queue, i, b, inFlight - 1) /\ Dispatch(queue, i, b, inFlight - 1)
  BY AnswerIsDispatchable DEF Answer
<1>2. \A v \in Workers : v # w => b[v] = busy[v]
  BY DEF PoolInv, PoolTypeOK
<1> HIDE DEF i, b
<1>3. /\ \A k \in DOMAIN queue :
           \/ \E l \in DOMAIN queue' : queue'[l] = queue[k]
           \/ \E v \in Workers : busy'[v] = queue[k]
      /\ \A v \in Workers : b[v] # NoJob => busy'[v] = b[v]
  BY <1>1, DispatchServes
<1>4. ASSUME NEW c \in Jobs, Posted(c), c # busy[w]
      PROVE  Posted(c)'
  <2>1. c # NoJob
    BY PoolAssumption
  <2> QED
    BY <1>2, <1>3, <1>4, <2>1 DEF Posted
<1> QED
  BY <1>2, <1>3, <1>4

-------------------------------------------------------------------------------
(* The watcher.                                                              *)

\* Ticks post to a pool that has started, and one at a time.
OneBatch ==
  /\ pc \in {"backfill", "idle", "query", "running"} => Started
  /\ pc \notin {"backfill", "running"} => ~ waiting

\* What a tick saw is still there, or a newer candle.
SeenIsThere ==
  /\ \A t \in Tokens : seen[t] <= newest[t]
  /\ pc = "starting" => \A t \in Tokens : lastSeen[t] <= newest[t]

\* A worker reads for the job it holds, and no earlier than the tick did.
ReadingIsNew ==
  \A w \in Workers :
    reading[w] # NotRead => busy[w] # NoJob /\ seen[busy[w][2]] <= reading[w].candle

\* Every cell of the batch is posted, or has run on a candle as new as seen, or
\* has answered that its run failed.
BatchIsServed ==
  pc \in {"backfill", "running"} =>
    \A c \in batch \ failed : Posted(c) \/ seen[c[2]] <= ranOn[c]

WatchInv == TypeOK /\ PoolInv /\ OneBatch /\ SeenIsThere /\ ReadingIsNew /\ BatchIsServed

\* Steps that leave the pool alone.
PoolIsIdle ==
  \/ PassTime \/ NewCandle \/ Activate
  \/ Bootstrap \/ EndBackfill \/ BeginTick \/ QueryFails \/ EndTick
  \/ \E w \in Workers : WorkerReads(w)

\* Steps that post a batch: B is posted, as seen in s.
Posts(B, s) ==
  /\ pc \in {"starting", "query"} /\ Started
  /\ B \subseteq Jobs
  /\ batch' = B /\ seen' = s
  /\ pc' = IF B = {} THEN "idle" ELSE IF pc = "query" THEN "running" ELSE "backfill"
  /\ IF B = {} THEN UNCHANGED poolVars ELSE Enqueue(SetToSeq(B))
  /\ UNCHANGED <<clock, newest, strategies, btRuns, bundles, lastSeen,
                 lastRunAt, now, reading, ranOn, failed, restarts>>

LEMMA StepsThatPost ==
  ASSUME WatchInv, StartBackfill \/ QueryUniverse
  PROVE  \E B \in SUBSET Jobs : \E s \in {lastSeen, newest} :
           Posts(B, s) /\ \A t \in Tokens : s[t] <= newest[t]
<1>1. bundles \subseteq Bundles /\ Jobs = Bundles \X Tokens
  BY WatcherAssumption DEF WatchInv, TypeOK, CellsOf
<1>2. CASE StartBackfill
  <2> DEFINE B == {c \in CellsOf(bundles, {t \in Tokens : lastSeen[t] # 0}) :
                     lastRunAt[c] = 0}
  <2>1. B \subseteq Jobs
    BY <1>1 DEF CellsOf
  <2>2. batch' = B /\ pc = "starting" /\ seen' = lastSeen
    BY <1>2 DEF StartBackfill
  <2> HIDE DEF B
  <2>3. Posts(B, lastSeen)
    BY <1>2, <2>1, <2>2 DEF StartBackfill, Posts
  <2>4. \A t \in Tokens : lastSeen[t] <= newest[t]
    BY <2>2 DEF WatchInv, SeenIsThere
  <2> QED
    BY <2>1, <2>3, <2>4
<1>3. CASE QueryUniverse
  <2>1. ToRun \subseteq Jobs
    BY <1>1 DEF ToRun, CellsOf, Dirty, Universe
  <2>2. Started
    BY <1>3 DEF QueryUniverse, WatchInv, OneBatch
  <2>3. Posts(ToRun, newest)
    BY <1>3, <2>1, <2>2 DEF QueryUniverse, Posts
  <2>4. \A t \in Tokens : newest[t] <= newest[t]
    BY DEF WatchInv, TypeOK
  <2> QED
    BY <2>1, <2>3, <2>4
<1> QED
  BY <1>2, <1>3

LEMMA PoolRestarts == PoolInit' => PoolInv'
<1>1. PoolInit => PoolInv
  BY PoolStarts
<1> QED
  BY <1>1, PTL

\* The pool's invariant holds in the watcher, which starts the pool anew at a
\* restart and posts only to a pool that is done.
LEMMA WatcherPoolStep ==
  ASSUME WatchInv, [Next]_vars
  PROVE  PoolInv'
<1>1. PoolInv
  BY DEF WatchInv
<1>2. ASSUME UNCHANGED poolVars
      PROVE  PoolInv'
  BY <1>1, <1>2, PoolStep
<1>3. CASE PoolIsIdle \/ UNCHANGED vars
  <2>1. UNCHANGED poolVars
    BY <1>3 DEF PoolIsIdle, PassTime, NewCandle, Activate, Bootstrap, EndBackfill,
                BeginTick, QueryFails, EndTick, WorkerReads, vars
  <2> QED
    BY <1>2, <2>1
<1>4. CASE StartBackfill \/ QueryUniverse
  <2>1. PICK B \in SUBSET Jobs : \E s : Posts(B, s)
    BY <1>4, StepsThatPost
  <2>2. ~ waiting
    BY <2>1 DEF Posts, WatchInv, OneBatch
  <2> QED
    BY <1>1, <2>1, <2>2, BatchIsPosted DEF Posts
<1>5. ASSUME NEW w \in Workers,
             \/ WorkerReady(w) \/ WorkerAnswers(w) \/ WorkerFails(w) \/ WorkerDies(w)
      PROVE  PoolInv'
  <2>1. PoolNext
    BY <1>5 DEF WorkerReady, WorkerAnswers, WorkerFails, WorkerDies, PoolNext
  <2> QED
    BY <1>1, <2>1, PoolStep
<1>6. CASE Restart
  <2>1. PoolInit'
    BY <1>6 DEF Restart, PoolInit
  <2> QED
    BY <2>1, PoolRestarts
<1> QED
  BY <1>3, <1>4, <1>5, <1>6 DEF Next, WatcherStep, WorkerStep, PoolIsIdle

\* The watcher's own variables keep their types.
LEMMA WatcherTypeStep ==
  ASSUME WatchInv, [Next]_vars
  PROVE  TypeOK'
<1>1. PoolTypeOK'
  BY WatcherPoolStep DEF PoolInv
<1>2. TypeOK /\ clock \in Nat /\ MaxTime \in Nat /\ MaxRestarts \in Nat
  BY WatcherAssumption DEF WatchInv, TypeOK
<1>3. \A c \in Jobs : c[1] \in Bundles /\ c[2] \in Tokens
  BY WatcherAssumption DEF CellsOf
<1>4. CASE PassTime
  BY <1>1, <1>2, <1>4 DEF TypeOK, PassTime
<1>5. CASE NewCandle
  BY <1>1, <1>2, <1>5 DEF TypeOK, NewCandle
<1>6. CASE Activate \/ QueryFails \/ BeginTick
  BY <1>1, <1>2, <1>6 DEF TypeOK, Activate, QueryFails, BeginTick
<1>7. CASE Bootstrap
  BY <1>1, <1>2, <1>7 DEF TypeOK, Bootstrap
<1>8. CASE EndBackfill
  BY <1>1, <1>2, <1>8 DEF TypeOK, EndBackfill
<1>9. CASE EndTick
  BY <1>1, <1>2, <1>9 DEF TypeOK, EndTick
<1>10. CASE StartBackfill \/ QueryUniverse
  <2>1. PICK B \in SUBSET Jobs, s \in {lastSeen, newest} : Posts(B, s)
    BY <1>10, StepsThatPost
  <2> QED
    BY <1>1, <1>2, <2>1 DEF TypeOK, Posts
<1>11. ASSUME NEW w \in Workers, WorkerReady(w) \/ WorkerDies(w)
       PROVE  TypeOK'
  BY <1>1, <1>2, <1>11 DEF TypeOK, WorkerReady, WorkerDies, watchVars
<1>12. ASSUME NEW w \in Workers, WorkerReads(w)
       PROVE  TypeOK'
  <2>1. newest[busy[w][2]] \in 0 .. clock
    BY <1>2, <1>3, <1>12 DEF TypeOK, PoolTypeOK, WorkerReads
  <2>2. reading' \in [Workers -> [at : 0 .. clock, candle : 0 .. clock]]
    BY <1>2, <1>12, <2>1 DEF TypeOK, WorkerReads
  <2> QED
    BY <1>1, <1>2, <1>12, <2>2 DEF TypeOK, WorkerReads
<1>13. ASSUME NEW w \in Workers, WorkerAnswers(w)
       PROVE  TypeOK'
  <2>1. reading[w].at \in 0 .. clock /\ reading[w].candle \in 0 .. clock
    BY <1>2 DEF TypeOK
  <2>2. NotRead \in [at : 0 .. clock, candle : 0 .. clock]
    BY <1>2 DEF NotRead
  <2> QED
    BY <1>1, <1>2, <1>13, <2>1, <2>2 DEF TypeOK, WorkerAnswers
<1>14. ASSUME NEW w \in Workers, WorkerFails(w)
       PROVE  TypeOK'
  <2>1. NotRead \in [at : 0 .. clock, candle : 0 .. clock]
    BY <1>2 DEF NotRead
  <2>2. failed' \subseteq Jobs
    BY <1>2, <1>14, WatcherAssumption DEF TypeOK, WorkerFails
  <2> QED
    BY <1>1, <1>2, <1>14, <2>1, <2>2 DEF TypeOK, WorkerFails
<1>15. CASE Restart
  <2>1. NotRead \in [at : 0 .. clock, candle : 0 .. clock]
    BY <1>2 DEF NotRead
  <2> QED
    BY <1>1, <1>2, <1>15, <2>1 DEF TypeOK, Restart
<1>16. CASE UNCHANGED vars
  BY <1>1, <1>2, <1>16 DEF TypeOK, vars, watchVars
<1> QED
  BY <1>4, <1>5, <1>6, <1>7, <1>8, <1>9, <1>10, <1>11, <1>12, <1>13, <1>14, <1>15, <1>16
  DEF Next, WatcherStep, WorkerStep

LEMMA OneBatchStep ==
  ASSUME WatchInv, [Next]_vars
  PROVE  OneBatch'
<1>1. OneBatch /\ PoolInv
  BY DEF WatchInv
<1>2. CASE PoolIsIdle \/ UNCHANGED vars
  BY <1>1, <1>2
  DEF OneBatch, Started, PoolIsIdle, PassTime, NewCandle, Activate, Bootstrap,
      EndBackfill, BeginTick, QueryFails, EndTick, WorkerReads, vars, poolVars, watchVars
<1>3. CASE StartBackfill \/ QueryUniverse
  <2>1. PICK B \in SUBSET Jobs : \E s : Posts(B, s)
    BY <1>3, StepsThatPost
  <2>2. starting' = {} /\ (B = {} => ~ waiting')
    BY <1>1, <2>1, BatchIsPosted DEF Posts, OneBatch
  <2> QED
    BY <2>1, <2>2 DEF OneBatch, Posts, Started
<1>4. ASSUME NEW w \in Workers,
             \/ WorkerReady(w) \/ WorkerAnswers(w) \/ WorkerFails(w) \/ WorkerDies(w)
      PROVE  OneBatch'
  <2>1. pc' = pc /\ starting' \subseteq starting
    BY <1>4 DEF WorkerReady, WorkerAnswers, WorkerFails, WorkerDies, Ready, Answer,
                Die, watchVars
  <2>2. waiting' => waiting
    BY <1>4, Zenon DEF WorkerReady, WorkerAnswers, WorkerFails, WorkerDies, Ready,
                       Answer, Die
  <2> QED
    BY <1>1, <2>1, <2>2 DEF OneBatch, Started
<1>5. CASE Restart
  BY <1>5 DEF OneBatch, Restart
<1> QED
  BY <1>2, <1>3, <1>4, <1>5 DEF Next, WatcherStep, WorkerStep, PoolIsIdle

LEMMA SeenIsThereStep ==
  ASSUME WatchInv, [Next]_vars
  PROVE  SeenIsThere'
<1>1. /\ SeenIsThere /\ clock \in Nat
      /\ newest \in [Tokens -> 0 .. clock] /\ seen \in [Tokens -> 0 .. clock]
      /\ lastSeen \in [Tokens -> 0 .. clock]
  BY WatcherAssumption DEF WatchInv, TypeOK
<1>2. CASE NewCandle
  <2>1. \A t \in Tokens : newest[t] <= newest'[t] /\ newest'[t] \in Nat
    BY <1>1, <1>2 DEF NewCandle
  <2> QED
    BY <1>1, <1>2, <2>1 DEF SeenIsThere, NewCandle
<1>3. CASE Bootstrap
  BY <1>1, <1>3 DEF SeenIsThere, Bootstrap
<1>4. CASE Restart
  BY <1>1, <1>4 DEF SeenIsThere, Restart
<1>5. CASE StartBackfill \/ QueryUniverse
  <2>1. PICK B \in SUBSET Jobs, s \in {lastSeen, newest} :
          Posts(B, s) /\ \A t \in Tokens : s[t] <= newest[t]
    BY <1>5, StepsThatPost
  <2> QED
    BY <2>1 DEF SeenIsThere, Posts
<1>6. CASE PassTime \/ Activate \/ EndBackfill \/ BeginTick \/ QueryFails \/ EndTick
  BY <1>1, <1>6 DEF SeenIsThere, PassTime, Activate, EndBackfill, BeginTick,
                    QueryFails, EndTick
<1>7. ASSUME NEW w \in Workers, WorkerStep(w) \/ WorkerDies(w)
      PROVE  SeenIsThere'
  BY <1>1, <1>7 DEF SeenIsThere, WorkerStep, WorkerReady, WorkerReads, WorkerAnswers,
                    WorkerFails, WorkerDies, watchVars
<1>8. CASE UNCHANGED vars
  BY <1>1, <1>8 DEF SeenIsThere, vars, watchVars
<1> QED
  BY <1>2, <1>3, <1>4, <1>5, <1>6, <1>7, <1>8 DEF Next, WatcherStep

\* Between ticks no worker is reading.
LEMMA NobodyReads ==
  ASSUME WatchInv, ~ waiting
  PROVE  \A w \in Workers : reading[w] = NotRead
  BY DEF WatchInv, PoolInv, ResolvedIsDrained, ReadingIsNew, Busy

LEMMA ReadingIsNewStep ==
  ASSUME WatchInv, [Next]_vars
  PROVE  ReadingIsNew'
<1>1. ReadingIsNew /\ PoolInv /\ TypeOK
  BY DEF WatchInv
<1>2. CASE \/ PassTime \/ NewCandle \/ Activate \/ Bootstrap \/ EndBackfill
           \/ BeginTick \/ QueryFails \/ EndTick \/ UNCHANGED vars
  BY <1>1, <1>2
  DEF ReadingIsNew, PassTime, NewCandle, Activate, Bootstrap, EndBackfill,
      BeginTick, QueryFails, EndTick, vars, poolVars, watchVars
<1>3. CASE StartBackfill \/ QueryUniverse
  <2>1. PICK B \in SUBSET Jobs : \E s : Posts(B, s)
    BY <1>3, StepsThatPost
  <2>2. ~ waiting /\ reading' = reading
    BY <2>1 DEF Posts, WatchInv, OneBatch
  <2> QED
    BY <2>2, NobodyReads DEF ReadingIsNew
<1>4. ASSUME NEW w \in Workers, WorkerReads(w)
      PROVE  ReadingIsNew'
  <2>1. /\ busy' = busy /\ seen' = seen /\ busy[w] # NoJob /\ busy[w][2] \in Tokens
        /\ reading' = [reading EXCEPT ![w] = [at |-> clock, candle |-> newest[busy[w][2]]]]
    BY <1>1, <1>4, WatcherAssumption
    DEF WorkerReads, poolVars, PoolInv, PoolTypeOK, CellsOf
  <2>2. seen[busy[w][2]] <= newest[busy[w][2]]
    BY <2>1 DEF WatchInv, SeenIsThere
  <2> QED
    BY <1>1, <2>1, <2>2 DEF ReadingIsNew, TypeOK
<1>5. ASSUME NEW w \in Workers, WorkerAnswers(w) \/ WorkerFails(w)
      PROVE  ReadingIsNew'
  <2>1. /\ Answer(w) /\ seen' = seen
        /\ reading' = [reading EXCEPT ![w] = NotRead]
    BY <1>5 DEF WorkerAnswers, WorkerFails
  <2>2. \A v \in Workers : v # w /\ busy[v] # NoJob => busy'[v] = busy[v]
    BY <1>1, <2>1, AnswerServes
  <2> QED
    BY <1>1, <2>1, <2>2 DEF ReadingIsNew, TypeOK
<1>6. ASSUME NEW w \in Workers, WorkerReady(w) \/ WorkerDies(w)
      PROVE  ReadingIsNew'
  BY <1>1, <1>6 DEF ReadingIsNew, WorkerReady, WorkerDies, Ready, Die, watchVars
<1>7. CASE Restart
  BY <1>7 DEF ReadingIsNew, Restart
<1> QED
  BY <1>2, <1>3, <1>4, <1>5, <1>6, <1>7 DEF Next, WatcherStep, WorkerStep

LEMMA BatchIsServedStep ==
  ASSUME WatchInv, [Next]_vars
  PROVE  BatchIsServed'
<1>1. BatchIsServed /\ ReadingIsNew /\ PoolInv /\ TypeOK
  BY DEF WatchInv
<1>2. CASE \/ PassTime \/ NewCandle \/ Activate \/ Bootstrap \/ EndBackfill
           \/ BeginTick \/ QueryFails \/ EndTick \/ UNCHANGED vars
           \/ \E w \in Workers : WorkerReads(w)
  BY <1>1, <1>2
  DEF BatchIsServed, Posted, PassTime, NewCandle, Activate, Bootstrap, EndBackfill,
      BeginTick, QueryFails, EndTick, WorkerReads, vars, poolVars, watchVars
<1>3. CASE StartBackfill \/ QueryUniverse
  <2>1. PICK B \in SUBSET Jobs : \E s : Posts(B, s)
    BY <1>3, StepsThatPost
  <2>2. \A c \in B : Posted(c)'
    BY <1>1, <2>1, BatchIsPosted DEF Posts, WatchInv, OneBatch
  <2> QED
    BY <2>1, <2>2 DEF BatchIsServed, Posts
<1>4. ASSUME NEW w \in Workers, WorkerAnswers(w)
      PROVE  BatchIsServed'
  <2>1. /\ Answer(w) /\ UNCHANGED <<pc, batch, seen, failed>>
        /\ reading[w] # NotRead
        /\ ranOn' = [ranOn EXCEPT ![busy[w]] = reading[w].candle]
    BY <1>4 DEF WorkerAnswers
  <2>2. \A c \in Jobs : Posted(c) => Posted(c)' \/ c = busy[w]
    BY <1>1, <2>1, AnswerServes
  <2>3. busy[w] \in Jobs /\ seen[busy[w][2]] <= ranOn'[busy[w]]
    BY <1>1, <2>1 DEF ReadingIsNew, TypeOK, PoolTypeOK
  <2>4. \A c \in Jobs : c # busy[w] => ranOn'[c] = ranOn[c]
    BY <1>1, <2>1 DEF TypeOK
  <2>5. batch \subseteq Jobs
    BY <1>1 DEF TypeOK
  <2> QED
    BY <1>1, <2>1, <2>2, <2>3, <2>4, <2>5 DEF BatchIsServed
<1>5. ASSUME NEW w \in Workers, WorkerFails(w)
      PROVE  BatchIsServed'
  <2>1. /\ Answer(w) /\ UNCHANGED <<pc, batch, seen, ranOn>>
        /\ failed' = failed \cup {busy[w]}
    BY <1>5 DEF WorkerFails
  <2>2. \A c \in Jobs : Posted(c) => Posted(c)' \/ c = busy[w]
    BY <1>1, <2>1, AnswerServes
  <2>3. batch \subseteq Jobs
    BY <1>1 DEF TypeOK
  <2> QED
    BY <1>1, <2>1, <2>2, <2>3 DEF BatchIsServed
<1>6. ASSUME NEW w \in Workers, WorkerReady(w) \/ WorkerDies(w)
      PROVE  BatchIsServed'
  BY <1>1, <1>6 DEF BatchIsServed, Posted, WorkerReady, WorkerDies, Ready, Die, watchVars
<1>7. CASE Restart
  BY <1>7 DEF BatchIsServed, Restart
<1> QED
  BY <1>2, <1>3, <1>4, <1>5, <1>6, <1>7 DEF Next, WatcherStep, WorkerStep

LEMMA WatcherStarts ==
  ASSUME Init
  PROVE  WatchInv
<1>1. PoolInv
  BY PoolStarts DEF Init
<1>2. TypeOK
  BY <1>1, WatcherAssumption DEF Init, TypeOK, PoolInv, NotRead
<1> QED
  BY <1>1, <1>2
  DEF Init, WatchInv, OneBatch, SeenIsThere, ReadingIsNew, BatchIsServed, PoolInit

\* Whatever time, candles, bundles, restarts and deaths of workers do, a batch's
\* cells are posted, have run or have failed, and workers read no older candles
\* than were seen.
THEOREM WatcherInvariant == Spec => []WatchInv
<1>1. WatchInv /\ [Next]_vars => WatchInv'
  BY WatcherTypeStep, WatcherPoolStep, OneBatchStep, SeenIsThereStep,
     ReadingIsNewStep, BatchIsServedStep DEF WatchInv
<1> QED
  BY <1>1, WatcherStarts, PTL DEF Spec

\* The watcher keeps its types, and its pool's (TypeOK).
THEOREM WatcherTypeCorrect == Spec => []TypeOK
<1>1. WatchInv => TypeOK
  BY DEF WatchInv
<1> QED
  BY <1>1, WatcherInvariant, PTL

\* Restarts included, the count in flight is the number of busy workers, and a
\* batch is reported done when no job of it is left (PoolAccounts,
\* ResolvedIsDrained).
THEOREM WatcherKeepsAccounts == Spec => [](PoolAccounts /\ ResolvedIsDrained)
<1>1. WatchInv => PoolAccounts /\ ResolvedIsDrained
  BY DEF WatchInv, PoolInv
<1> QED
  BY <1>1, WatcherInvariant, PTL

\* A cell of a batch that is reported done has run on a candle as new as the one
\* its tick saw, or has answered that it failed: no marker moves ahead of a
\* backtest unless its failure has been told (MarkedCellsHaveRun).
THEOREM WatcherMarksWhatRan == Spec => []MarkedCellsHaveRun
<1>1. ASSUME WatchInv
      PROVE  MarkedCellsHaveRun
  <2>1. SUFFICES ASSUME pc \in {"backfill", "running"}, ~ waiting,
                        NEW c \in batch \ failed
                 PROVE  ranOn[c] >= seen[c[2]]
    BY DEF MarkedCellsHaveRun
  <2>2. c \in Jobs /\ c # NoJob /\ c[2] \in Tokens
    BY <1>1, PoolAssumption, WatcherAssumption DEF WatchInv, TypeOK, CellsOf
  <2>3. queue = <<>> /\ \A w \in Workers : busy[w] = NoJob
    BY <1>1, <2>1 DEF WatchInv, PoolInv, ResolvedIsDrained, Busy
  <2>4. ~ Posted(c)
    BY <2>2, <2>3 DEF Posted
  <2>5. seen[c[2]] <= ranOn[c]
    BY <1>1, <2>1, <2>4 DEF WatchInv, BatchIsServed
  <2>6. seen[c[2]] \in Nat /\ ranOn[c] \in Nat
    BY <1>1, <2>2, WatcherAssumption DEF WatchInv, TypeOK
  <2> QED
    BY <2>5, <2>6
<1> QED
  BY <1>1, WatcherInvariant, PTL
================================================================================
