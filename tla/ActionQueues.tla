---------------------------- MODULE ActionQueues ----------------------------
(***************************************************************************)
(* The action queue of one player (Source_Files/Misc/ActionQueues.cpp): a  *)
(* ring buffer of QueueSize words of action flags with a read and a write  *)
(* index and no count, so that it is empty when they are equal and holds   *)
(* QueueSize - 1 words at most.  Nothing stops a writer from writing one   *)
(* more: then the indexes are equal, and all words are lost.               *)
(***************************************************************************)
EXTENDS Integers, Sequences

CONSTANT QueueSize      \* mQueueSize

ASSUME QueueConstants == QueueSize \in Nat \ {0}

\* A word in which no flags are set.
NoFlags == 0

Indexes == 0 .. QueueSize - 1

Queues(flags) == [buffer : [Indexes -> flags], read : Indexes, write : Indexes]

\* A new queue; its buffer is in fact uninitialised.
NewQueue == [buffer |-> [i \in Indexes |-> NoFlags], read |-> 0, write |-> 0]

\* resetQueue
Reset(queue) == [queue EXCEPT !.read = 0, !.write = 0]

\* enqueueActionFlags, for one word
Enqueue(queue, flags) ==
  [queue EXCEPT !.buffer[queue.write] = flags,
                !.write = (queue.write + 1) % QueueSize]

\* countActionFlags
Count(queue) == (QueueSize + queue.write - queue.read) % QueueSize

\* Mutant: the place that tells a full queue from an empty one is given away.
AvailableCapacity_One(queue) == QueueSize - Count(queue)

AvailableCapacity(queue) == (QueueSize - 1) - Count(queue)

\* peekActionFlags for the first word, and what dequeueActionFlags returns.
Peek(queue) == IF queue.read = queue.write THEN NoFlags ELSE queue.buffer[queue.read]

\* What dequeueActionFlags does to the queue.
Dequeue(queue) ==
  IF queue.read = queue.write THEN queue
  ELSE [queue EXCEPT !.read = (queue.read + 1) % QueueSize]

\* The words in the queue, the first one to be dequeued first.
Contents(queue) ==
  [i \in 1 .. Count(queue) |-> queue.buffer[(queue.read + i - 1) % QueueSize]]
=============================================================================
