------------------------- MODULE ActionQueuesProofs -------------------------
(***************************************************************************)
(* The ring buffer of an action queue is a first-in-first-out queue, as    *)
(* long as nothing is written into a full one; and what happens if it is.  *)
(***************************************************************************)
EXTENDS ActionQueues, TLAPS

\* The indexes of a ring buffer wrap around once.
LEMMA Wrap ==
  ASSUME NEW n \in Nat, n < 2 * QueueSize
  PROVE  n % QueueSize = IF n < QueueSize THEN n ELSE n - QueueSize
<1>1. CASE n < QueueSize  BY <1>1, QueueConstants, SMT
<1>2. CASE n >= QueueSize BY <1>2, QueueConstants, SMT
<1>   QED BY <1>1, <1>2, QueueConstants

\* The number of words is the distance between the indexes.
LEMMA CountValue ==
  ASSUME NEW F, NEW queue \in Queues(F)
  PROVE  /\ Count(queue) = IF queue.write < queue.read
                           THEN QueueSize + queue.write - queue.read
                           ELSE queue.write - queue.read
         /\ Count(queue) \in Indexes
         /\ Count(queue) = 0 <=> queue.read = queue.write
<1>   DEFINE n == QueueSize + queue.write - queue.read
<1>1. n \in Nat /\ n < 2 * QueueSize  BY QueueConstants DEF Queues, Indexes
<1>2. n % QueueSize = IF n < QueueSize THEN n ELSE n - QueueSize  BY <1>1, Wrap
<1>   QED BY <1>2, QueueConstants, SMTT(30) DEF Count, Queues, Indexes

\* The words in a queue are a sequence of Count(queue) words, the first of which
\* is the one at the read index.
LEMMA ContentsValue ==
  ASSUME NEW F, NEW queue \in Queues(F)
  PROVE  /\ Contents(queue) \in Seq(F)
         /\ Len(Contents(queue)) = Count(queue)
         /\ \A i \in 1 .. Count(queue) :
              Contents(queue)[i] =
                queue.buffer[IF queue.read + i - 1 < QueueSize THEN queue.read + i - 1
                             ELSE queue.read + i - 1 - QueueSize]
<1>1. Count(queue) \in Nat /\ Count(queue) < QueueSize
  BY CountValue, QueueConstants DEF Indexes
<1>2. ASSUME NEW i \in 1 .. Count(queue)
      PROVE  /\ (queue.read + i - 1) % QueueSize =
                  IF queue.read + i - 1 < QueueSize THEN queue.read + i - 1
                  ELSE queue.read + i - 1 - QueueSize
             /\ (queue.read + i - 1) % QueueSize \in Indexes
  <2>   DEFINE n == queue.read + i - 1
  <2>1. n \in Nat /\ n < 2 * QueueSize  BY <1>1, QueueConstants DEF Queues, Indexes
  <2>2. n % QueueSize = IF n < QueueSize THEN n ELSE n - QueueSize  BY <2>1, Wrap
  <2>3. queue.read \in Indexes  BY DEF Queues
  <2>   QED BY <1>1, <2>1, <2>2, <2>3, QueueConstants DEF Indexes
<1>3. \A i \in 1 .. Count(queue) : queue.buffer[(queue.read + i - 1) % QueueSize] \in F
  BY <1>2 DEF Queues
<1>   QED BY <1>1, <1>2, <1>3 DEF Contents

\* A queue with space for a word gets it at its end.
LEMMA EnqueueAppends ==
  ASSUME NEW F, NEW queue \in Queues(F), NEW flags \in F, AvailableCapacity(queue) > 0
  PROVE  /\ Enqueue(queue, flags) \in Queues(F)
         /\ Count(Enqueue(queue, flags)) = Count(queue) + 1
         /\ Contents(Enqueue(queue, flags)) = Append(Contents(queue), flags)
<1>   DEFINE new == Enqueue(queue, flags)
<1>1. Count(queue) \in Nat /\ Count(queue) + 1 < QueueSize
  BY CountValue, QueueConstants DEF AvailableCapacity, Indexes
<1>2. (queue.write + 1) % QueueSize = IF queue.write + 1 < QueueSize THEN queue.write + 1 ELSE 0
  BY Wrap, QueueConstants DEF Queues, Indexes
<1>3. new \in Queues(F)
  <2>1. (queue.write + 1) % QueueSize \in Indexes
    BY <1>2, QueueConstants DEF Queues, Indexes
  <2>2. [queue.buffer EXCEPT ![queue.write] = flags] \in [Indexes -> F]
    BY DEF Queues
  <2>   QED BY <2>1, <2>2 DEF Enqueue, Queues
<1>4. /\ new.read = queue.read
      /\ new.write = IF queue.write + 1 < QueueSize THEN queue.write + 1 ELSE 0
      /\ new.buffer = [queue.buffer EXCEPT ![queue.write] = flags]
  BY <1>2 DEF Enqueue, Queues
<1>5. Count(new) = Count(queue) + 1
  <2>1. queue.read \in Indexes /\ queue.write \in Indexes  BY DEF Queues
  <2>   QED BY <2>1, <1>1, <1>3, <1>4, CountValue, QueueConstants DEF Indexes
<1>6. Contents(queue) \in Seq(F) /\ Len(Contents(queue)) = Count(queue)
  BY ContentsValue
<1>7. Contents(new) \in Seq(F) /\ Len(Contents(new)) = Count(queue) + 1
  BY <1>3, <1>5, ContentsValue
<1>8. ASSUME NEW i \in 1 .. Count(queue) + 1
      PROVE  Contents(new)[i] = Append(Contents(queue), flags)[i]
  <2>   DEFINE at == IF queue.read + i - 1 < QueueSize THEN queue.read + i - 1
                     ELSE queue.read + i - 1 - QueueSize
  <2>1. Contents(new)[i] = new.buffer[at]
    <3>   HIDE DEF new
    <3>1. i \in 1 .. Count(new)  BY <1>1, <1>5
    <3>2. Contents(new)[i] = new.buffer[IF new.read + i - 1 < QueueSize THEN new.read + i - 1
                                        ELSE new.read + i - 1 - QueueSize]
      BY <1>3, <3>1, ContentsValue
    <3>   QED BY <1>4, <3>2
  <2>2. at \in Indexes /\ (at = queue.write <=> i = Count(queue) + 1)
    <3>1. queue.read \in Indexes /\ queue.write \in Indexes  BY DEF Queues
    <3>   QED BY <3>1, <1>1, CountValue, QueueConstants DEF Indexes
  <2>3. CASE i = Count(queue) + 1
    <3>1. new.buffer[at] = flags  BY <1>4, <2>2, <2>3 DEF Queues
    <3>   QED BY <3>1, <2>1, <2>3, <1>6
  <2>4. CASE i # Count(queue) + 1
    <3>1. i \in 1 .. Count(queue)  BY <2>4, <1>1
    <3>2. new.buffer[at] = queue.buffer[at]  BY <1>4, <2>2, <2>4 DEF Queues
    <3>3. Contents(queue)[i] = queue.buffer[at]  BY <3>1, ContentsValue
    <3>4. Append(Contents(queue), flags)[i] = Contents(queue)[i]  BY <3>1, <1>6
    <3>   QED BY <3>2, <3>3, <3>4, <2>1
  <2>   QED BY <2>3, <2>4
<1>9. Append(Contents(queue), flags) \in Seq(F)
      /\ Len(Append(Contents(queue), flags)) = Count(queue) + 1
  BY <1>6
<1>   HIDE DEF new
<1>10. Contents(new) = Append(Contents(queue), flags)
  BY <1>7, <1>8, <1>9
<1>   QED BY <1>3, <1>5, <1>10 DEF new

\* A word that is written into a full queue takes all the others with it.
LEMMA EnqueueBlows ==
  ASSUME NEW F, NEW queue \in Queues(F), NEW flags \in F, AvailableCapacity(queue) = 0
  PROVE  Count(Enqueue(queue, flags)) = 0
<1>1. Count(queue) = QueueSize - 1
  BY CountValue, QueueConstants DEF AvailableCapacity, Indexes
<1>2. queue.read \in Indexes /\ queue.write \in Indexes  BY DEF Queues
<1>3. (queue.write + 1) % QueueSize = queue.read
  <2>1. (queue.write + 1) % QueueSize =
          IF queue.write + 1 < QueueSize THEN queue.write + 1 ELSE 0
    BY <1>2, Wrap, QueueConstants DEF Indexes
  <2>   QED BY <1>1, <1>2, <2>1, CountValue, QueueConstants DEF Indexes
<1>4. Enqueue(queue, flags) \in Queues(F)
  BY <1>2, <1>3 DEF Enqueue, Queues
<1>5. Enqueue(queue, flags).read = queue.read /\ Enqueue(queue, flags).write = queue.read
  BY <1>3 DEF Enqueue, Queues
<1>   QED BY <1>4, <1>5, CountValue

\* Dequeueing takes the first word, which is the one that is seen by peeking.
LEMMA DequeueTakesFirst ==
  ASSUME NEW F, NEW queue \in Queues(F), Count(queue) > 0
  PROVE  /\ Dequeue(queue) \in Queues(F)
         /\ Count(Dequeue(queue)) = Count(queue) - 1
         /\ Peek(queue) = Contents(queue)[1]
         /\ \A i \in 1 .. Count(queue) - 1 :
              Contents(Dequeue(queue))[i] = Contents(queue)[i + 1]
<1>   DEFINE new == Dequeue(queue)
<1>1. queue.read \in Indexes /\ queue.write \in Indexes /\ queue.read # queue.write
  BY CountValue DEF Queues
<1>2. Count(queue) \in Nat /\ Count(queue) < QueueSize
  BY CountValue, QueueConstants DEF Indexes
<1>3. (queue.read + 1) % QueueSize = IF queue.read + 1 < QueueSize THEN queue.read + 1 ELSE 0
  BY <1>1, Wrap, QueueConstants DEF Indexes
<1>4. new \in Queues(F)
  BY <1>1, <1>3, QueueConstants DEF Dequeue, Queues, Indexes
<1>5. /\ new.write = queue.write
      /\ new.read = IF queue.read + 1 < QueueSize THEN queue.read + 1 ELSE 0
      /\ new.buffer = queue.buffer
  BY <1>1, <1>3 DEF Dequeue, Queues
<1>6. Count(new) = Count(queue) - 1
  BY <1>1, <1>2, <1>4, <1>5, CountValue, QueueConstants DEF Indexes
<1>7. Peek(queue) = Contents(queue)[1]
  <2>1. Contents(queue)[1] = queue.buffer[queue.read]
    BY <1>1, <1>2, ContentsValue, QueueConstants DEF Indexes
  <2>   QED BY <2>1, <1>1 DEF Peek
<1>8. ASSUME NEW i \in 1 .. Count(queue) - 1
      PROVE  Contents(new)[i] = Contents(queue)[i + 1]
  <2>1. Contents(queue)[i + 1] = queue.buffer[IF queue.read + i < QueueSize
                                              THEN queue.read + i ELSE queue.read + i - QueueSize]
    <3>1. i + 1 \in 1 .. Count(queue)  BY <1>2
    <3>   QED BY <3>1, <1>1, ContentsValue, QueueConstants DEF Indexes
  <2>2. Contents(new)[i] = new.buffer[IF new.read + i - 1 < QueueSize
                                      THEN new.read + i - 1 ELSE new.read + i - 1 - QueueSize]
    BY <1>4, <1>6, ContentsValue
  <2>   QED BY <2>1, <2>2, <1>1, <1>2, <1>5, QueueConstants DEF Indexes
<1>   QED BY <1>4, <1>6, <1>7, <1>8

\* A queue that was reset is empty.
LEMMA ResetEmpties ==
  ASSUME NEW F, NEW queue \in Queues(F)
  PROVE  Reset(queue) \in Queues(F) /\ Count(Reset(queue)) = 0
<1>1. Reset(queue) \in Queues(F)
  <2>1. 0 \in Indexes  BY QueueConstants DEF Indexes
  <2>   QED BY <2>1, Zenon DEF Reset, Queues
<1>2. Reset(queue).read = Reset(queue).write  BY DEF Reset, Queues
<1>   QED BY <1>1, <1>2, CountValue
=============================================================================
