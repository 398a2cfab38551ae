-------------------------- MODULE GameThreadsProofs --------------------------
(***************************************************************************)
(* The threads of one machine, whatever games it may play: where every     *)
(* thread is, that a removed task is called once more at most, that        *)
(* hub_tick and spoke_tick never run on cleared vectors, and that nothing  *)
(* is left when the program has left the network.                          *)
(*                                                                         *)
(* BlocksOK says of the task blocks what mytm_sdl.cpp keeps true whoever   *)
(* uses them; Phases says which blocks there are, and which have been      *)
(* removed, at each place of the program's own thread.  While myTMCleanup  *)
(* runs, the blocks before its cursor are those that stay (Passed).        *)
(***************************************************************************)
EXTENDS GameThreads, TLAPS, FunctionTheorems, FiniteSetTheorems, SequenceTheorems

\* A block, and how often its function was called since it was removed.
BlockSet == [keep : BOOLEAN, running : BOOLEAN, reset : BOOLEAN, at : Places]

BlockOK(b, late) ==
  /\ b \in BlockSet /\ late \in {0, 1}
  /\ b.at = "none" => b = NoTask
  /\ b.running <=> b.at \notin {"none", "ended"}
  /\ b.keep \/ b.at \in {"delay", "check", "lock"} => late = 0

\* The vector of blocks holds each block there is once.
Distinct(s) == \A i, j \in 1 .. Len(s) : s[i] = s[j] => i = j

Holds(s, t) == \E i \in 1 .. Len(s) : s[i] = t

Listed ==
  /\ outstanding \in Seq(Tasks) /\ Distinct(outstanding)
  /\ \A t \in Tasks : Holds(outstanding, t) <=> task[t].at # "none"

BlocksOK ==
  /\ task \in [Tasks -> BlockSet] /\ lateCalls \in [Tasks -> {0, 1}]
  /\ resetDue \in [Tasks -> BOOLEAN]
  /\ \A t \in Tasks : BlockOK(task[t], lateCalls[t])
  /\ Listed

\* The one mutex.
InHandler == {"handle", "rest", "return"}

MutexOK ==
  /\ mutex \in Tasks \cup {Free, "receiver"}
  /\ \A t \in Tasks : mutex = t <=> task[t].at \in {"call", "quit"}
  /\ mutex = "receiver" <=> receiver \in InHandler

\* The blocks that have been removed and not erased yet.
Removing ==
  CASE main = "spokeSweep" -> {"spoke"}
    [] main = "hubSweep" -> {"hub"}
    [] main = "exitSweep" -> RemovedAtExit
    [] OTHER -> {}

\* The places of the program's own thread, and those where there may be a block
\* of the hub, or of the spoke.
HubPlaces == {"syncSpoke", "playing", "spokeSweep", "hubCheck", "hubWait", "hubSweep"}
SpokePlaces == {"playing", "spokeSweep"}
MainPlaces == {"out", "idle", "exitSweep", "closing"} \cup HubPlaces
ReceiverPlaces == {"none", "listen", "receive", "lock", "ended"} \cup InHandler

GameSet ==
  [setup : Setups, hubActive : BOOLEAN, spokeActive : BOOLEAN, ending : BOOLEAN,
   hubData : BOOLEAN, spokeData : BOOLEAN, down : BOOLEAN, accept : BOOLEAN]

Phases ==
  /\ main \in MainPlaces /\ game \in GameSet /\ receiver \in ReceiverPlaces
  /\ task["hub"].at # "none" => game.setup = "hub" /\ game.hubData /\ main \in HubPlaces
  /\ task["spoke"].at # "none" =>
       game.setup # "ring" /\ game.spokeData /\ main \in SpokePlaces
  /\ \A t \in {"resend", "server"} : task[t].at # "none" => game.setup = "ring"
  /\ \A t \in Tasks : task[t].at # "none" /\ ~ task[t].keep => t \in Removing
  /\ \A t \in {"hub", "spoke"} : t \in Removing => ~ task[t].keep
  /\ main \in HubPlaces \ SpokePlaces => game.setup = "hub"
  /\ main = "spokeSweep" => game.setup # "ring"
  /\ game.spokeActive => game.spokeData /\ game.setup # "ring" /\ main = "playing"
  /\ receiver = "handle" /\ game.setup = "spoke" => game.spokeData /\ main = "playing"
  /\ main = "out" => receiver = "none"

\* The blocks that myTMCleanup has passed stay.
Passed ==
  /\ cursor \in 1 .. Len(outstanding) + 1
  /\ Sweeping \/ cursor = 1
  /\ \A i \in 1 .. Len(outstanding) : i < cursor => task[outstanding[i]].keep

ThreadsInv == BlocksOK /\ MutexOK /\ Phases /\ Passed

-----------------------------------------------------------------------------
(***************************************************************************)
(* Sequences without repetition                                            *)
(***************************************************************************)
\* What RemoveAt leaves: those after the place move down.
LEMMA Removed ==
  ASSUME NEW S, NEW s \in Seq(S), NEW i \in 1 .. Len(s), NEW r, r = RemoveAt(s, i)
  PROVE  /\ r \in Seq(S) /\ Len(r) = Len(s) - 1
         /\ \A j \in 1 .. Len(s) - 1 : r[j] = IF j < i THEN s[j] ELSE s[j + 1]
<1> DEFINE a == SubSeq(s, 1, i - 1)
           b == SubSeq(s, i + 1, Len(s))
<1>0. Len(s) \in Nat /\ i \in Nat /\ 1 <= i /\ i <= Len(s)
  OBVIOUS
<1>1. /\ a \in Seq(S) /\ Len(a) = i - 1
      /\ \A j \in 1 .. i - 1 : a[j] = s[j]
  <2>1. \A j \in 1 .. i - 1 : s[j] \in S
    OBVIOUS
  <2>2. /\ a \in Seq(S) /\ Len(a) = IF 1 <= i - 1 THEN i - 1 - 1 + 1 ELSE 0
        /\ \A j \in 1 .. i - 1 - 1 + 1 : a[j] = s[1 + j - 1]
    BY <1>0, <2>1, SubSeqProperties
  <2> HIDE DEF a
  <2> QED BY <1>0, <2>2
<1>2. /\ b \in Seq(S) /\ Len(b) = Len(s) - i
      /\ \A j \in 1 .. Len(s) - i : b[j] = s[i + j]
  <2>1. \A j \in i + 1 .. Len(s) : s[j] \in S
    OBVIOUS
  <2>2. /\ b \in Seq(S) /\ Len(b) = IF i + 1 <= Len(s) THEN Len(s) - (i + 1) + 1 ELSE 0
        /\ \A j \in 1 .. Len(s) - (i + 1) + 1 : b[j] = s[i + 1 + j - 1]
    BY <1>0, <2>1, SubSeqProperties
  <2> HIDE DEF b
  <2> QED BY <1>0, <2>2
<1>3. r = a \o b
  BY DEF RemoveAt
<1> HIDE DEF a, b
<1>4. /\ r \in Seq(S) /\ Len(r) = Len(a) + Len(b)
      /\ \A j \in 1 .. Len(a) + Len(b) : r[j] = IF j <= Len(a) THEN a[j] ELSE b[j - Len(a)]
  <2>1. a \in Seq(S) /\ b \in Seq(S)
    BY <1>1, <1>2
  <2>2. /\ a \o b \in Seq(S) /\ Len(a \o b) = Len(a) + Len(b)
        /\ \A j \in 1 .. Len(a) + Len(b) :
             (a \o b)[j] = IF j <= Len(a) THEN a[j] ELSE b[j - Len(a)]
    BY <2>1, ConcatProperties, Zenon
  <2> QED BY <2>2, <1>3, Zenon
<1>5. Len(a) + Len(b) = Len(s) - 1
  BY <1>0, <1>1, <1>2
<1>6. ASSUME NEW j \in 1 .. Len(s) - 1
      PROVE  r[j] = IF j < i THEN s[j] ELSE s[j + 1]
  <2>1. CASE j < i
    <3>1. j \in 1 .. i - 1 /\ j <= Len(a)
      BY <1>0, <1>1, <2>1
    <3> QED BY <1>1, <1>4, <1>5, <3>1, <2>1
  <2>2. CASE ~ (j < i)
    <3>1. j - Len(a) \in 1 .. Len(s) - i /\ ~ (j <= Len(a)) /\ i + (j - Len(a)) = j + 1
      BY <1>0, <1>1, <2>2
    <3> QED BY <1>2, <1>4, <1>5, <3>1, <2>2
  <2> QED BY <2>1, <2>2
<1> QED BY <1>4, <1>5, <1>6

\* A block that is new goes to the end of the vector.
LEMMA ListedMore ==
  ASSUME NEW s \in Seq(Tasks), Distinct(s), NEW t \in Tasks, ~ Holds(s, t),
         NEW r, r = Append(s, t)
  PROVE  /\ r \in Seq(Tasks) /\ Distinct(r) /\ Len(r) = Len(s) + 1
         /\ \A i \in 1 .. Len(s) : r[i] = s[i]
         /\ \A u \in Tasks : Holds(r, u) <=> u = t \/ Holds(s, u)
<1>1. /\ r \in Seq(Tasks) /\ Len(r) = Len(s) + 1 /\ Len(s) \in Nat
      /\ \A i \in 1 .. Len(s) : r[i] = s[i]
      /\ r[Len(s) + 1] = t
  BY AppendProperties
<1>2. \A i \in 1 .. Len(s) : s[i] # t
  BY DEF Holds
<1>3. Distinct(r)
  BY <1>1, <1>2 DEF Distinct
<1>4. \A u \in Tasks : Holds(r, u) <=> u = t \/ Holds(s, u)
  <2> TAKE u \in Tasks
  <2>1. ASSUME Holds(r, u) PROVE u = t \/ Holds(s, u)
    <3>1. PICK i \in 1 .. Len(r) : r[i] = u
      BY <2>1 DEF Holds
    <3>2. CASE i = Len(s) + 1
      BY <1>1, <3>1, <3>2
    <3>3. CASE i # Len(s) + 1
      <4>1. i \in 1 .. Len(s)
        BY <1>1, <3>3
      <4> QED BY <1>1, <3>1, <4>1 DEF Holds
    <3> QED BY <3>2, <3>3
  <2>2. ASSUME u = t PROVE Holds(r, u)
    <3>1. Len(s) + 1 \in 1 .. Len(r)
      BY <1>1
    <3> QED BY <1>1, <2>2, <3>1 DEF Holds
  <2>3. ASSUME Holds(s, u) PROVE Holds(r, u)
    <3>1. PICK i \in 1 .. Len(s) : s[i] = u
      BY <2>3 DEF Holds
    <3>2. i \in 1 .. Len(r)
      BY <1>1
    <3> QED BY <1>1, <3>1, <3>2 DEF Holds
  <2> QED BY <2>1, <2>2, <2>3
<1> QED BY <1>1, <1>3, <1>4

\* A block is erased at place i.
LEMMA ListedLess ==
  ASSUME NEW s \in Seq(Tasks), Distinct(s), NEW i \in 1 .. Len(s),
         NEW r, r = RemoveAt(s, i)
  PROVE  /\ r \in Seq(Tasks) /\ Distinct(r) /\ Len(r) = Len(s) - 1
         /\ \A j \in 1 .. Len(r) : r[j] = IF j < i THEN s[j] ELSE s[j + 1]
         /\ \A u \in Tasks : Holds(r, u) <=> u # s[i] /\ Holds(s, u)
<1>1. /\ r \in Seq(Tasks) /\ Len(r) = Len(s) - 1 /\ Len(s) \in Nat /\ i \in Nat
      /\ \A j \in 1 .. Len(s) - 1 : r[j] = IF j < i THEN s[j] ELSE s[j + 1]
  BY Removed
<1>2. Distinct(r)
  <2> SUFFICES ASSUME NEW j \in 1 .. Len(r), NEW k \in 1 .. Len(r), r[j] = r[k]
               PROVE  j = k
    BY DEF Distinct
  <2>1. /\ (IF j < i THEN j ELSE j + 1) \in 1 .. Len(s)
        /\ (IF k < i THEN k ELSE k + 1) \in 1 .. Len(s)
    BY <1>1
  <2>2. s[IF j < i THEN j ELSE j + 1] = s[IF k < i THEN k ELSE k + 1]
    BY <1>1
  <2>3. (IF j < i THEN j ELSE j + 1) = (IF k < i THEN k ELSE k + 1)
    BY <2>1, <2>2 DEF Distinct
  <2> QED BY <1>1, <2>3
<1>3. \A u \in Tasks : Holds(r, u) <=> u # s[i] /\ Holds(s, u)
  <2> TAKE u \in Tasks
  <2>1. ASSUME Holds(r, u) PROVE u # s[i] /\ Holds(s, u)
    <3>1. PICK j \in 1 .. Len(r) : r[j] = u
      BY <2>1 DEF Holds
    <3> DEFINE k == IF j < i THEN j ELSE j + 1
    <3>2. k \in 1 .. Len(s) /\ k # i
      <4>1. j \in 1 .. Len(s) - 1
        BY <1>1
      <4> QED BY <4>1, <1>1
    <3>3. s[k] = u
      BY <1>1, <3>1
    <3> HIDE DEF k
    <3> QED BY <3>2, <3>3 DEF Holds, Distinct
  <2>2. ASSUME u # s[i], Holds(s, u) PROVE Holds(r, u)
    <3>1. PICK k \in 1 .. Len(s) : s[k] = u
      BY <2>2 DEF Holds
    <3> DEFINE j == IF k < i THEN k ELSE k - 1
    <3>2. j \in 1 .. Len(r) /\ (IF j < i THEN j ELSE j + 1) = k
      BY <1>1, <2>2, <3>1
    <3>3. r[j] = u
      BY <1>1, <3>1, <3>2
    <3> HIDE DEF j
    <3> QED BY <3>2, <3>3 DEF Holds
  <2> QED BY <2>1, <2>2
<1> QED BY <1>1, <1>2, <1>3
-----------------------------------------------------------------------------
(***************************************************************************)
(* The periodic tasks                                                      *)
(***************************************************************************)
\* No block comes or goes, and none is removed.
SameBlocks ==
  /\ UNCHANGED outstanding
  /\ \A t \in Tasks : /\ task'[t].keep = task[t].keep
                      /\ task'[t].at = "none" <=> task[t].at = "none"

LEMMA TaskNames ==
  /\ {"hub", "spoke", "resend", "server"} \subseteq Tasks
  /\ RemovedAtExit \subseteq Tasks
  /\ Free \notin Tasks /\ "receiver" \notin Tasks /\ Free # "receiver"
BY ThreadsAssumption DEF Free, RemovedAtExit

\* A step that changes one block, and neither makes nor removes it.
LEMMA OneBlock ==
  ASSUME BlocksOK, NEW t \in Tasks, NEW b, task' = [task EXCEPT ![t] = b],
         lateCalls' \in [Tasks -> {0, 1}], resetDue' \in [Tasks -> BOOLEAN],
         \A u \in Tasks \ {t} : lateCalls'[u] = lateCalls[u],
         BlockOK(b, lateCalls'[t]), b.keep = task[t].keep,
         b.at = "none" <=> task[t].at = "none", UNCHANGED outstanding
  PROVE  BlocksOK' /\ SameBlocks
<1>1. task \in [Tasks -> BlockSet] /\ b \in BlockSet
  BY DEF BlocksOK, BlockOK
<1>2. /\ task' \in [Tasks -> BlockSet] /\ task'[t] = b
      /\ \A u \in Tasks \ {t} : task'[u] = task[u]
  BY <1>1
<1>3. \A u \in Tasks : BlockOK(task[u], lateCalls[u]) /\ (Holds(outstanding, u) <=> task[u].at # "none")
  BY DEF BlocksOK, Listed
<1>4. \A u \in Tasks : BlockOK(task'[u], lateCalls'[u])
  BY <1>2, <1>3, Zenon
<1>5. \A u \in Tasks : task'[u].keep = task[u].keep /\ (task'[u].at = "none" <=> task[u].at = "none")
  BY <1>2, Zenon
<1>6. \A u \in Tasks : Holds(outstanding', u) <=> task'[u].at # "none"
  BY <1>3, <1>5, Zenon
<1>7. outstanding' \in Seq(Tasks) /\ Distinct(outstanding')
  BY DEF BlocksOK, Listed
<1>8. Listed'
  BY <1>6, <1>7, Zenon DEF Listed
<1> QED BY <1>2, <1>4, <1>5, <1>8, Zenon DEF BlocksOK, SameBlocks

LEMMA BlockFacts ==
  ASSUME BlocksOK, NEW t \in Tasks
  PROVE  /\ task[t] \in BlockSet /\ BlockOK(task[t], lateCalls[t])
         /\ task \in [Tasks -> BlockSet] /\ lateCalls \in [Tasks -> {0, 1}]
         /\ resetDue \in [Tasks -> BOOLEAN]
BY DEF BlocksOK

\* The steps of a task's thread outside its function.
LEMMA ThreadSteps ==
  ASSUME BlocksOK, MutexOK, NEW t \in Tasks, UNCHANGED receiver,
         LoopTest(t) \/ Wake(t) \/ DoubleCheck(t) \/ ThreadEnds(t)
  PROVE  BlocksOK' /\ MutexOK' /\ SameBlocks
<1> USE BlockFacts DEF Places, BlockSet
<1>1. PICK b : /\ task' = [task EXCEPT ![t] = b] /\ BlockOK(b, lateCalls[t])
               /\ b.keep = task[t].keep /\ b.at # "none" /\ task[t].at # "none"
               /\ b.at \notin {"call", "quit"} /\ task[t].at \notin {"call", "quit"}
  <2>1. CASE LoopTest(t)
    <3> DEFINE b == [task[t] EXCEPT !.at = IF RunsOn(t) THEN "delay" ELSE "left"]
    <3>1. task' = [task EXCEPT ![t] = b]
      BY <2>1 DEF LoopTest, Go
    <3>2. /\ BlockOK(b, lateCalls[t]) /\ b.keep = task[t].keep
          /\ b.at \in {"delay", "left"} /\ task[t].at = "test"
      BY <2>1 DEF LoopTest, RunsOn, BlockOK
    <3> QED BY <3>1, <3>2
  <2>2. CASE Wake(t)
    <3> DEFINE b == IF task[t].reset THEN [task[t] EXCEPT !.reset = FALSE]
                    ELSE [task[t] EXCEPT !.at = "check"]
    <3>1. task' = [task EXCEPT ![t] = b]
      BY <2>2 DEF Wake, Go
    <3>2. /\ BlockOK(b, lateCalls[t]) /\ b.keep = task[t].keep
          /\ b.at \in {"delay", "check"} /\ task[t].at = "delay"
      BY <2>2 DEF Wake, BlockOK
    <3> QED BY <3>1, <3>2
  <2>3. CASE DoubleCheck(t)
    <3> DEFINE b == [task[t] EXCEPT !.at = IF RunsOn(t) THEN "lock" ELSE "left"]
    <3>1. task' = [task EXCEPT ![t] = b]
      BY <2>3 DEF DoubleCheck, Go
    <3>2. /\ BlockOK(b, lateCalls[t]) /\ b.keep = task[t].keep
          /\ b.at \in {"lock", "left"} /\ task[t].at = "check"
      BY <2>3 DEF DoubleCheck, RunsOn, BlockOK
    <3> QED BY <3>1, <3>2
  <2>4. CASE ThreadEnds(t)
    <3> DEFINE b == [task[t] EXCEPT !.running = FALSE, !.at = "ended"]
    <3>1. task' = [task EXCEPT ![t] = b]
      BY <2>4 DEF ThreadEnds
    <3>2. /\ BlockOK(b, lateCalls[t]) /\ b.keep = task[t].keep
          /\ b.at = "ended" /\ task[t].at = "left"
      BY <2>4 DEF ThreadEnds, BlockOK
    <3> QED BY <3>1, <3>2
  <2> QED BY <2>1, <2>2, <2>3, <2>4
<1>2. /\ UNCHANGED <<outstanding, mutex, lateCalls>> /\ resetDue' \in [Tasks -> BOOLEAN]
  BY DEF LoopTest, Wake, DoubleCheck, ThreadEnds
<1>3. BlocksOK' /\ SameBlocks
  BY <1>1, <1>2, OneBlock
<1>4. \A u \in Tasks : task'[u].at \in {"call", "quit"} <=> task[u].at \in {"call", "quit"}
  BY <1>1
<1>5. MutexOK'
  BY <1>2, <1>4 DEF MutexOK
<1> QED BY <1>3, <1>5

\* The function is called, with the mutex.
LEMMA CallStarts ==
  ASSUME BlocksOK, MutexOK, NEW t \in Tasks, UNCHANGED receiver,
         NEW again \in BOOLEAN, CallBegins(t, again)
  PROVE  BlocksOK' /\ MutexOK' /\ SameBlocks
<1> USE BlockFacts DEF Places, BlockSet
<1> DEFINE b == [task[t] EXCEPT !.at = IF again THEN "call" ELSE "quit"]
           late == IF task[t].keep THEN lateCalls[t] ELSE lateCalls[t] + 1
<1>1. /\ task' = [task EXCEPT ![t] = b] /\ task[t].at = "lock"
      /\ lateCalls' = [lateCalls EXCEPT ![t] = late]
      /\ resetDue' = [resetDue EXCEPT ![t] = @ /\ again]
      /\ UNCHANGED outstanding /\ mutex = Free /\ mutex' = t
  BY DEF CallBegins, Go
<1>2. late \in {0, 1} /\ BlockOK(b, late) /\ b.keep = task[t].keep /\ b.at \in {"call", "quit"}
  BY <1>1 DEF BlockOK
<1> HIDE DEF b, late
<1>3. /\ lateCalls' \in [Tasks -> {0, 1}] /\ lateCalls'[t] = late
      /\ \A u \in Tasks \ {t} : lateCalls'[u] = lateCalls[u]
  BY <1>1, <1>2
<1>4. resetDue' \in [Tasks -> BOOLEAN]
  BY <1>1
<1>5. BlocksOK' /\ SameBlocks
  <2>1. BlockOK(b, lateCalls'[t]) /\ b.at # "none" /\ task[t].at # "none"
    BY <1>1, <1>2, <1>3
  <2> QED BY <1>1, <1>2, <1>3, <1>4, <2>1, OneBlock
<1>6. \A u \in Tasks : task'[u].at \in {"call", "quit"} <=> u = t
  <2>1. \A u \in Tasks : task[u].at \notin {"call", "quit"}
    BY <1>1, TaskNames DEF MutexOK
  <2> QED BY <1>1, <1>2, <2>1
<1>7. MutexOK'
  BY <1>1, <1>6, TaskNames DEF MutexOK
<1> QED BY <1>5, <1>7

\* The function returns, and the mutex is free.
LEMMA CallStops ==
  ASSUME BlocksOK, MutexOK, NEW t \in Tasks, UNCHANGED receiver, CallEnds(t)
  PROVE  BlocksOK' /\ MutexOK' /\ SameBlocks
<1> USE BlockFacts DEF Places, BlockSet
<1> DEFINE b == [task[t] EXCEPT !.at = IF task[t].at = "call" THEN "test" ELSE "left"]
<1>1. /\ task' = [task EXCEPT ![t] = b] /\ task[t].at \in {"call", "quit"}
      /\ UNCHANGED <<outstanding, lateCalls, resetDue>> /\ mutex' = Free
  BY DEF CallEnds, Go
<1>2. BlockOK(b, lateCalls[t]) /\ b.keep = task[t].keep /\ b.at \in {"test", "left"}
  BY <1>1 DEF BlockOK
<1> HIDE DEF b
<1>3. mutex = t
  BY <1>1 DEF MutexOK
<1>4. BlocksOK' /\ SameBlocks
  <2>1. b.at # "none" /\ task[t].at # "none"
    BY <1>1, <1>2
  <2> QED BY <1>1, <1>2, <2>1, OneBlock
<1>5. \A u \in Tasks : task'[u].at \notin {"call", "quit"}
  <2>1. \A u \in Tasks \ {t} : task[u].at \notin {"call", "quit"}
    BY <1>3 DEF MutexOK
  <2> QED BY <1>1, <1>2, <2>1
<1>6. MutexOK'
  BY <1>1, <1>3, <1>5, TaskNames DEF MutexOK
<1> QED BY <1>4, <1>6

\* There is one block more.
Added(t) ==
  /\ task'[t] = NewTask /\ task[t].at = "none"
  /\ \A u \in Tasks \ {t} : task'[u] = task[u]
  /\ Len(outstanding') = Len(outstanding) + 1
  /\ \A i \in 1 .. Len(outstanding) : outstanding'[i] = outstanding[i]

LEMMA SetUp ==
  ASSUME BlocksOK, MutexOK, NEW t \in Tasks, task[t].at = "none", myXTMSetup(t),
         UNCHANGED mutex, receiver' \in InHandler <=> receiver \in InHandler
  PROVE  BlocksOK' /\ MutexOK' /\ Added(t)
<1> USE BlockFacts
<1>1. /\ task' = [task EXCEPT ![t] = NewTask] /\ outstanding' = Append(outstanding, t)
      /\ lateCalls' = [lateCalls EXCEPT ![t] = 0]
      /\ resetDue' = [resetDue EXCEPT ![t] = FALSE]
  BY DEF myXTMSetup
<1>2. /\ NewTask \in BlockSet /\ BlockOK(NewTask, 0) /\ NewTask.at = "test"
  BY DEF NewTask, BlockOK, BlockSet, Places
<1>3. /\ task' \in [Tasks -> BlockSet] /\ lateCalls' \in [Tasks -> {0, 1}]
      /\ resetDue' \in [Tasks -> BOOLEAN]
      /\ task'[t] = NewTask /\ lateCalls'[t] = 0
      /\ \A u \in Tasks \ {t} : task'[u] = task[u] /\ lateCalls'[u] = lateCalls[u]
  BY <1>1, <1>2
<1>4. \A u \in Tasks : BlockOK(task'[u], lateCalls'[u])
  BY <1>2, <1>3
<1>5. /\ outstanding \in Seq(Tasks) /\ Distinct(outstanding)
      /\ \A u \in Tasks : Holds(outstanding, u) <=> task[u].at # "none"
  BY DEF BlocksOK, Listed
<1>6. ~ Holds(outstanding, t)
  BY <1>5
<1>7. /\ outstanding' \in Seq(Tasks) /\ Distinct(outstanding')
      /\ Len(outstanding') = Len(outstanding) + 1
      /\ \A i \in 1 .. Len(outstanding) : outstanding'[i] = outstanding[i]
      /\ \A u \in Tasks : Holds(outstanding', u) <=> u = t \/ Holds(outstanding, u)
  <2> DEFINE r == Append(outstanding, t)
  <2>1. /\ r \in Seq(Tasks) /\ Distinct(r) /\ Len(r) = Len(outstanding) + 1
        /\ \A i \in 1 .. Len(outstanding) : r[i] = outstanding[i]
        /\ \A u \in Tasks : Holds(r, u) <=> u = t \/ Holds(outstanding, u)
    BY <1>5, <1>6, ListedMore, Zenon
  <2> HIDE DEF r
  <2>2. outstanding' = r
    BY <1>1 DEF r
  <2> QED BY <2>1, <2>2, Zenon
<1>8. Listed'
  BY <1>2, <1>3, <1>5, <1>7 DEF Listed
<1>9. MutexOK'
  BY <1>2, <1>3 DEF MutexOK
<1> QED BY <1>3, <1>4, <1>7, <1>8, <1>9 DEF BlocksOK, Added

LEMMA Reset ==
  ASSUME BlocksOK, MutexOK, NEW t \in Tasks, task[t].at # "none", task[t].keep,
         myTMReset(t), UNCHANGED mutex, receiver' \in InHandler <=> receiver \in InHandler
  PROVE  BlocksOK' /\ MutexOK' /\ SameBlocks
<1> USE BlockFacts
<1> DEFINE b == Restarted(task[t])
<1>1. /\ task' = [task EXCEPT ![t] = b] /\ UNCHANGED outstanding
      /\ lateCalls' = [lateCalls EXCEPT ![t] = IF task[t].running THEN @ ELSE 0]
      /\ resetDue' = [resetDue EXCEPT ![t] = task'[t].reset /\ task[t].at \notin {"quit", "left"}]
  BY DEF myTMReset
<1>2. lateCalls[t] = 0 /\ lateCalls' \in [Tasks -> {0, 1}] /\ lateCalls'[t] = 0
      /\ \A u \in Tasks \ {t} : lateCalls'[u] = lateCalls[u]
  BY <1>1 DEF BlockOK
<1>3. /\ BlockOK(b, 0) /\ b.keep /\ b.at # "none"
      /\ b.at \in {"call", "quit"} <=> task[t].at \in {"call", "quit"}
  BY DEF BlockOK, BlockSet, Restarted, NewTask, Places
<1> HIDE DEF b
<1>4. resetDue' \in [Tasks -> BOOLEAN]
  <2>1. task'[t] = b /\ b \in BlockSet
    BY <1>1, <1>3 DEF BlockOK
  <2>2. b.reset \in BOOLEAN
    BY <2>1 DEF BlockSet
  <2> QED BY <1>1, <2>1, <2>2
<1>5. BlocksOK' /\ SameBlocks
  BY <1>1, <1>2, <1>3, <1>4, OneBlock
<1>6. \A u \in Tasks : task'[u].at \in {"call", "quit"} <=> task[u].at \in {"call", "quit"}
  BY <1>1, <1>3
<1>7. MutexOK'
  BY <1>6 DEF MutexOK
<1> QED BY <1>5, <1>7

LEMMA SetUpOrReset ==
  ASSUME BlocksOK, MutexOK, NEW t \in Tasks, StartOrReset(t),
         UNCHANGED mutex, receiver' \in InHandler <=> receiver \in InHandler
  PROVE  BlocksOK' /\ MutexOK' /\ (SameBlocks \/ Added(t))
BY SetUp, Reset DEF StartOrReset

\* The blocks ts are asked to go.
AskedToGo(ts) ==
  /\ UNCHANGED outstanding
  /\ \A t \in Tasks : /\ task'[t].keep <=> task[t].keep /\ t \notin ts
                      /\ task'[t].at = task[t].at

LEMMA Dismissal ==
  ASSUME BlocksOK, MutexOK, NEW ts \in SUBSET Tasks, myTMRemove(ts),
         UNCHANGED <<outstanding, mutex, lateCalls, receiver>>
  PROVE  BlocksOK' /\ MutexOK' /\ AskedToGo(ts)
<1>0. \A t \in Tasks : BlockOK(task[t], lateCalls[t])
  BY DEF BlocksOK
<1>1. /\ task' = [t \in Tasks |-> IF t \in ts /\ task[t].at # "none"
                                  THEN [task[t] EXCEPT !.keep = FALSE] ELSE task[t]]
      /\ resetDue' \in [Tasks -> BOOLEAN]
  <2>1. resetDue \in [Tasks -> BOOLEAN]
    BY DEF BlocksOK
  <2> QED BY <2>1 DEF myTMRemove
<1>2. \A t \in Tasks : /\ task'[t] \in BlockSet /\ BlockOK(task'[t], lateCalls[t])
                       /\ task'[t].at = task[t].at
                       /\ task'[t].keep <=> task[t].keep /\ t \notin ts
  <2> TAKE t \in Tasks
  <2>1. task[t] \in BlockSet /\ BlockOK(task[t], lateCalls[t])
    BY <1>0 DEF BlockOK
  <2>2. CASE t \in ts /\ task[t].at # "none"
    <3>1. task'[t] = [task[t] EXCEPT !.keep = FALSE]
      BY <1>1, <2>2
    <3>2. /\ task'[t] \in BlockSet /\ ~ task'[t].keep /\ task'[t].at = task[t].at
          /\ task'[t].running = task[t].running
      BY <2>1, <3>1 DEF BlockSet
    <3>3. BlockOK(task'[t], lateCalls[t])
      BY <2>1, <2>2, <3>2 DEF BlockOK
    <3> QED BY <2>2, <3>2, <3>3
  <2>3. CASE ~ (t \in ts /\ task[t].at # "none")
    <3>1. task'[t] = task[t]
      BY <1>1, <2>3
    <3>2. t \in ts => ~ task[t].keep
      BY <2>1, <2>3 DEF BlockOK, NoTask
    <3>3. task[t].keep \in BOOLEAN
      BY <2>1 DEF BlockSet
    <3> QED BY <2>1, <3>1, <3>2, <3>3
  <2> QED BY <2>2, <2>3
<1>3. Listed'
  <2>1. /\ outstanding \in Seq(Tasks) /\ Distinct(outstanding)
        /\ \A u \in Tasks : Holds(outstanding, u) <=> task[u].at # "none"
    BY DEF BlocksOK, Listed
  <2> QED BY <1>2, <2>1 DEF Listed
<1>4. task' \in [Tasks -> BlockSet]
  BY <1>1, <1>2
<1>5. BlocksOK'
  <2>1. lateCalls' = lateCalls /\ lateCalls \in [Tasks -> {0, 1}]
    BY DEF BlocksOK
  <2> QED BY <1>1, <1>2, <1>3, <1>4, <2>1 DEF BlocksOK
<1>6. MutexOK'
  BY <1>2 DEF MutexOK
<1> QED BY <1>2, <1>5, <1>6 DEF AskedToGo

\* The block at the cursor is erased: its thread has ended.
Erased(i) ==
  /\ \A u \in Tasks : task'[u] = IF u = outstanding[i] THEN NoTask ELSE task[u]
  /\ ~ task[outstanding[i]].keep
  /\ Len(outstanding') = Len(outstanding) - 1
  /\ \A j \in 1 .. Len(outstanding') :
       outstanding'[j] = IF j < i THEN outstanding[j] ELSE outstanding[j + 1]

LEMMA Erase ==
  ASSUME BlocksOK, MutexOK, NEW i \in 1 .. Len(outstanding), Swept(i),
         UNCHANGED <<mutex, lateCalls, resetDue, receiver>>
  PROVE  BlocksOK' /\ MutexOK' /\ Erased(i)
<1> DEFINE t == outstanding[i]
<1>1. /\ outstanding \in Seq(Tasks) /\ Distinct(outstanding) /\ t \in Tasks
      /\ \A u \in Tasks : Holds(outstanding, u) <=> task[u].at # "none"
      /\ task \in [Tasks -> BlockSet]
      /\ \A u \in Tasks : BlockOK(task[u], lateCalls[u])
      /\ lateCalls \in [Tasks -> {0, 1}] /\ resetDue \in [Tasks -> BOOLEAN]
  BY DEF BlocksOK, Listed
<1>2. /\ ~ task[t].keep /\ task[t].at = "ended"
      /\ task' = [task EXCEPT ![t] = NoTask]
      /\ outstanding' = RemoveAt(outstanding, i)
  BY DEF Swept, MustGo
<1>3. /\ outstanding' \in Seq(Tasks) /\ Distinct(outstanding')
      /\ Len(outstanding') = Len(outstanding) - 1
      /\ \A j \in 1 .. Len(outstanding') :
           outstanding'[j] = IF j < i THEN outstanding[j] ELSE outstanding[j + 1]
      /\ \A u \in Tasks : Holds(outstanding', u) <=> u # t /\ Holds(outstanding, u)
  BY <1>1, <1>2, ListedLess
<1> HIDE DEF t
<1>4. \A u \in Tasks : task'[u] = IF u = t THEN NoTask ELSE task[u]
  BY <1>1, <1>2
<1>5. NoTask \in BlockSet /\ NoTask.at = "none" /\ (\A n \in {0, 1} : BlockOK(NoTask, n))
  BY DEF NoTask, BlockSet, Places, BlockOK
<1>6. task' \in [Tasks -> BlockSet]
  BY <1>1, <1>2, <1>5
<1>7. \A u \in Tasks : BlockOK(task'[u], lateCalls'[u])
  BY <1>1, <1>4, <1>5
<1>8. Listed'
  BY <1>1, <1>3, <1>4, <1>5 DEF Listed
<1>9. MutexOK'
  BY <1>1, <1>2, <1>4, <1>5 DEF MutexOK
<1>10. BlocksOK'
  BY <1>1, <1>6, <1>7, <1>8 DEF BlocksOK
<1> QED BY <1>2, <1>3, <1>4, <1>9, <1>10 DEF Erased, t

-----------------------------------------------------------------------------
(***************************************************************************)
(* The steps of the threads                                                *)
(***************************************************************************)
\* What the program's own thread relies on is not disturbed by the others.
LEMMA NotDisturbed ==
  ASSUME ThreadsInv, SameBlocks, UNCHANGED <<main, cursor, game, receiver>>
  PROVE  Phases' /\ Passed'
<1>1. Phases /\ Passed /\ BlocksOK
  BY DEF ThreadsInv
<1>2. \A t \in Tasks : task'[t].keep = task[t].keep /\ (task'[t].at = "none" <=> task[t].at = "none")
  BY DEF SameBlocks
<1>3. Phases'
  BY <1>1, <1>2, TaskNames DEF Phases, Removing
<1>4. \A i \in 1 .. Len(outstanding) : outstanding[i] \in Tasks
  BY <1>1 DEF BlocksOK, Listed
<1>5. Passed'
  BY <1>1, <1>2, <1>4 DEF Passed, SameBlocks, Sweeping
<1> QED BY <1>3, <1>5

LEMMA TaskThreadKeeps ==
  ASSUME ThreadsInv, NEW t \in Tasks, TaskThread(t)
  PROVE  ThreadsInv'
<1>1. BlocksOK /\ MutexOK
  BY DEF ThreadsInv
<1>2. UNCHANGED <<main, cursor, game, receiver>>
  BY DEF TaskThread, TickBegins, mainVars, udpVars
<1>3. BlocksOK' /\ MutexOK' /\ SameBlocks
  <2>1. CASE LoopTest(t) \/ Wake(t) \/ DoubleCheck(t) \/ ThreadEnds(t)
    BY <1>1, <1>2, <2>1, ThreadSteps
  <2>2. CASE CallEnds(t)
    BY <1>1, <1>2, <2>2, CallStops
  <2>3. CASE TickBegins(t)
    <3>1. (t \in {"hub", "spoke"} \/ ~ game.down) \in BOOLEAN
      OBVIOUS
    <3>2. CallBegins(t, t \in {"hub", "spoke"} \/ ~ game.down)
      BY <2>3 DEF TickBegins
    <3> QED BY <1>1, <1>2, <3>1, <3>2, CallStarts
  <2> QED BY <2>1, <2>2, <2>3 DEF TaskThread
<1> QED BY <1>2, <1>3, NotDisturbed DEF ThreadsInv

LEMMA SameTasks ==
  ASSUME BlocksOK, UNCHANGED <<task, outstanding, lateCalls, resetDue>>
  PROVE  BlocksOK' /\ SameBlocks
BY DEF BlocksOK, Listed, SameBlocks

LEMMA Typed ==
  ASSUME ThreadsInv
  PROVE  /\ game \in GameSet /\ receiver \in ReceiverPlaces /\ main \in MainPlaces
         /\ outstanding \in Seq(Tasks) /\ Len(outstanding) \in Nat
         /\ \A t \in Tasks : task[t] \in BlockSet
BY DEF ThreadsInv, Phases, BlocksOK, Listed

\* The receiving thread goes on.
LEMMA ReceiverGoesOn ==
  ASSUME ThreadsInv, UNCHANGED <<task, outstanding, lateCalls, resetDue, main, cursor, game>>,
         receiver # "none", receiver' \in ReceiverPlaces \ {"none"}, MutexOK',
         receiver' = "handle" /\ game.setup = "spoke" => game.spokeActive
  PROVE  ThreadsInv'
<1>1. BlocksOK' /\ SameBlocks
  BY SameTasks DEF ThreadsInv
<1>2. Phases'
  BY DEF ThreadsInv, Phases, Removing
<1>3. Passed'
  BY DEF ThreadsInv, Passed, Sweeping
<1> QED BY <1>1, <1>2, <1>3 DEF ThreadsInv

\* A block that a packet, or Sync, has set up or reset for the ring.
LEMMA RingBlock ==
  ASSUME ThreadsInv, NEW t \in {"resend", "server"}, SameBlocks \/ Added(t),
         game.setup = "ring", game' \in GameSet, game'.setup = "ring", ~ game'.spokeActive,
         receiver' \in ReceiverPlaces, main' \in MainPlaces \ (HubPlaces \ SpokePlaces),
         UNCHANGED cursor, main' \notin {"out", "spokeSweep"},
         \/ UNCHANGED main
         \/ main \notin {"spokeSweep", "hubSweep", "exitSweep"}
  PROVE  Phases' /\ Passed'
<1>1. Phases /\ Passed /\ BlocksOK
  BY DEF ThreadsInv
<1>2. \A u \in Tasks :
        \/ task'[u].keep = task[u].keep /\ (task'[u].at = "none" <=> task[u].at = "none")
        \/ u = t /\ task'[u].keep /\ task[u].at = "none"
  BY DEF SameBlocks, Added, NewTask
<1>3. \A u \in {"hub", "spoke"} : task[u].at = "none"
  BY <1>1 DEF Phases
<1>4. \A u \in {"hub", "spoke"} : task'[u].at = "none"
  BY <1>2, <1>3, TaskNames
<1>5. main # "hubSweep"
  BY <1>1 DEF Phases, HubPlaces, SpokePlaces
<1>6. Phases'
  <2>1. \A u \in Tasks : task'[u].at # "none" /\ ~ task'[u].keep =>
          task[u].at # "none" /\ ~ task[u].keep
    BY <1>2
  <2>2. \A u \in Tasks : task'[u].at # "none" /\ ~ task'[u].keep => u \in Removing
    BY <1>1, <2>1 DEF Phases
  <2>3. \/ main' = main
        \/ Removing = {}
    BY DEF Removing
  <2> QED BY <1>1, <1>4, <1>5, <2>2, <2>3, TaskNames
          DEF Phases, Removing, RemovedAtExit, HubPlaces, SpokePlaces
<1>7. Passed'
  <2>1. \A i \in 1 .. Len(outstanding) : outstanding[i] \in Tasks
    BY <1>1 DEF BlocksOK, Listed
  <2>2. /\ Len(outstanding) \in Nat /\ Len(outstanding') \in Nat
        /\ Len(outstanding) <= Len(outstanding')
        /\ \A i \in 1 .. Len(outstanding) : outstanding'[i] = outstanding[i]
    BY <1>1 DEF BlocksOK, Listed, SameBlocks, Added
  <2>3. Sweeping' \/ cursor = 1
    BY <1>1 DEF Passed, Sweeping
  <2>4. \A i \in 1 .. Len(outstanding') : i < cursor => task'[outstanding'[i]].keep
    BY <1>1, <1>2, <2>1, <2>2 DEF Passed
  <2> QED BY <1>1, <2>2, <2>3, <2>4 DEF Passed
<1> QED BY <1>6, <1>7

LEMMA ReceiverKeeps ==
  ASSUME ThreadsInv, Receiver
  PROVE  ThreadsInv'
<1> USE Typed
<1>1. BlocksOK /\ MutexOK /\ Phases
  BY DEF ThreadsInv
<1>2. ASSUME NEW ready \in BOOLEAN, SocketsChecked(ready) PROVE ThreadsInv'
  <2>1. /\ UNCHANGED <<task, outstanding, mutex, lateCalls, resetDue, main, cursor, game>>
        /\ receiver = "listen" /\ receiver' \in {"ended", "receive", "listen"}
    BY <1>2 DEF SocketsChecked, taskVars, mainVars
  <2>2. MutexOK'
    BY <1>1, <2>1 DEF MutexOK, InHandler
  <2> QED BY <2>1, <2>2, ReceiverGoesOn DEF ReceiverPlaces, InHandler
<1>3. CASE Received
  <2>1. /\ UNCHANGED <<task, outstanding, mutex, lateCalls, resetDue, main, cursor, game>>
        /\ receiver = "receive" /\ receiver' = "lock"
    BY <1>3 DEF Received, taskVars, mainVars
  <2>2. MutexOK'
    BY <1>1, <2>1 DEF MutexOK, InHandler
  <2> QED BY <2>1, <2>2, ReceiverGoesOn DEF ReceiverPlaces, InHandler
<1>4. CASE HandlerBegins
  <2>1. /\ UNCHANGED <<task, outstanding, lateCalls, resetDue, main, cursor, game>>
        /\ receiver = "lock" /\ receiver' \in {"handle", "return"}
        /\ mutex = Free /\ mutex' = "receiver"
    BY <1>4 DEF HandlerBegins, mainVars
  <2>2. MutexOK'
    BY <1>1, <2>1, TaskNames DEF MutexOK, InHandler
  <2>3. receiver' = "handle" /\ game.setup = "spoke" => game.spokeActive
    BY <1>4 DEF HandlerBegins, Accepting
  <2> QED BY <2>1, <2>2, <2>3, ReceiverGoesOn DEF ReceiverPlaces, InHandler
<1>5. CASE LastAcknowledged
  <2>1. /\ UNCHANGED <<task, outstanding, mutex, lateCalls, resetDue, main, cursor>>
        /\ receiver = "handle" /\ receiver' = "rest" /\ game.setup = "hub"
        /\ game' = [game EXCEPT !.hubActive = FALSE]
    BY <1>5 DEF LastAcknowledged, taskVars
  <2>2. MutexOK' /\ BlocksOK'
    BY <1>1, <2>1, SameTasks DEF MutexOK, InHandler
  <2>3. /\ game' \in GameSet /\ game'.setup = game.setup /\ game'.spokeActive = game.spokeActive
        /\ game'.hubData = game.hubData /\ game'.spokeData = game.spokeData
    BY <2>1 DEF GameSet
  <2>4. Phases'
    BY <1>1, <2>1, <2>3 DEF Phases, Removing, ReceiverPlaces, InHandler
  <2>5. Passed'
    BY <2>1 DEF ThreadsInv, Passed, Sweeping
  <2> QED BY <2>2, <2>4, <2>5 DEF ThreadsInv
<1>6. CASE HandlerEnds
  <2>1. /\ UNCHANGED <<task, outstanding, lateCalls, resetDue, main, cursor, game>>
        /\ receiver \in InHandler /\ receiver' = "listen" /\ mutex' = Free
    BY <1>6 DEF HandlerEnds, mainVars, InHandler
  <2>2. MutexOK'
    BY <1>1, <2>1, TaskNames DEF MutexOK, InHandler
  <2> QED BY <2>1, <2>2, ReceiverGoesOn DEF ReceiverPlaces, InHandler
<1>7. ASSUME NEW t \in Tasks, RingPacket(t) PROVE ThreadsInv'
  <2>1. /\ receiver = "handle" /\ receiver' = "rest" /\ game.setup = "ring"
        /\ t \in {"resend", "server"} /\ StartOrReset(t)
        /\ UNCHANGED <<mutex, main, cursor, game>>
    BY <1>7 DEF RingPacket, mainVars
  <2>2. receiver' \in InHandler <=> receiver \in InHandler
    BY <2>1 DEF InHandler
  <2>3. BlocksOK' /\ MutexOK' /\ (SameBlocks \/ Added(t))
    BY <1>1, <2>1, <2>2, SetUpOrReset
  <2>4. /\ ~ game.spokeActive /\ main \notin {"out", "spokeSweep"}
        /\ main \notin HubPlaces \ SpokePlaces
    BY <1>1, <2>1 DEF Phases
  <2>5. Phases' /\ Passed'
    BY <2>1, <2>3, <2>4, RingBlock DEF ReceiverPlaces, InHandler
  <2> QED BY <2>3, <2>5 DEF ThreadsInv
<1> QED BY <1>2, <1>3, <1>4, <1>5, <1>6, <1>7 DEF Receiver

(***************************************************************************)
(* The steps of the program's own thread                                   *)
(***************************************************************************)
\* Where myTMCleanup does not run the cursor is at the start.
LEMMA AtTheStart ==
  ASSUME BlocksOK', cursor' = 1
  PROVE  Passed'
<1>1. Len(outstanding') \in Nat
  BY DEF BlocksOK, Listed
<1>2. \A i \in 1 .. Len(outstanding') : ~ (i < 1)
  BY <1>1
<1> QED BY <1>1, <1>2 DEF Passed

\* When it is done, no block that has been removed is left.
LEMMA AllSwept ==
  ASSUME ThreadsInv, SweepDone
  PROVE  \A t \in Tasks : task[t].at # "none" => task[t].keep
<1> SUFFICES ASSUME NEW t \in Tasks, task[t].at # "none" PROVE task[t].keep
  OBVIOUS
<1>1. BlocksOK /\ Passed
  BY DEF ThreadsInv
<1>2. PICK i \in 1 .. Len(outstanding) : outstanding[i] = t
  BY <1>1 DEF BlocksOK, Listed, Holds
<1>3. Len(outstanding) \in Nat /\ cursor \in Nat /\ cursor > Len(outstanding)
  BY <1>1, Typed DEF Passed, SweepDone
<1>4. i < cursor
  BY <1>2, <1>3
<1> QED BY <1>1, <1>2, <1>4 DEF Passed

\* A step of the program's own thread that leaves the blocks alone.
LEMMA MainMoves ==
  ASSUME ThreadsInv, UNCHANGED <<task, outstanding, mutex, lateCalls, resetDue>>,
         receiver' \in InHandler <=> receiver \in InHandler, cursor' = 1, Phases'
  PROVE  ThreadsInv'
<1>1. BlocksOK'
  BY SameTasks DEF ThreadsInv
<1>2. MutexOK'
  BY DEF ThreadsInv, MutexOK
<1>3. Passed'
  BY <1>1, AtTheStart
<1> QED BY <1>1, <1>2, <1>3 DEF ThreadsInv

LEMMA StartingKeeps ==
  ASSUME ThreadsInv, NetEnter \/ SyncHub \/ SyncSpoke
  PROVE  ThreadsInv'
<1> USE Typed
<1>1. BlocksOK /\ MutexOK /\ Phases /\ Passed
  BY DEF ThreadsInv
<1>2. CASE NetEnter
  <2>1. /\ UNCHANGED <<task, outstanding, mutex, lateCalls, resetDue, cursor>>
        /\ main = "out" /\ main' = "idle" /\ receiver' = "listen"
        /\ game' = [NoGame(game.setup) EXCEPT !.down = TRUE]
    BY <1>2 DEF NetEnter, At, taskVars
  <2>2. receiver = "none" /\ cursor = 1
    BY <1>1, <2>1 DEF Phases, Passed, Sweeping
  <2>3. /\ game' \in GameSet /\ game'.setup = game.setup /\ ~ game'.spokeActive
        /\ game.setup \in Setups
    BY <2>1 DEF NoGame, GameSet
  <2>4. Phases'
    <3>1. task["hub"].at = "none" /\ task["spoke"].at = "none"
      BY <1>1, <2>1 DEF Phases, HubPlaces, SpokePlaces
    <3> QED BY <1>1, <2>1, <2>2, <2>3, <3>1
            DEF Phases, Removing, MainPlaces, HubPlaces, SpokePlaces, ReceiverPlaces, InHandler
  <2> QED BY <2>1, <2>2, <2>4, MainMoves DEF InHandler
<1>3. CASE SyncHub
  <2>1. /\ UNCHANGED <<mutex, cursor, receiver>> /\ myXTMSetup("hub") /\ game.setup = "hub"
        /\ main = "idle" /\ main' = "syncSpoke"
        /\ game' = [game EXCEPT !.hubActive = TRUE, !.hubData = TRUE, !.ending = FALSE]
    BY <1>3 DEF SyncHub, At, udpVars
  <2>2. task["hub"].at = "none" /\ cursor = 1 /\ task["spoke"].at = "none"
    BY <1>1, <2>1 DEF Phases, Passed, Sweeping, HubPlaces, SpokePlaces
  <2>3. BlocksOK' /\ MutexOK' /\ Added("hub")
    BY <1>1, <2>1, <2>2, SetUp, TaskNames
  <2>4. game' \in GameSet /\ game'.setup = game.setup /\ game'.hubData
        /\ game'.spokeActive = game.spokeActive /\ game'.spokeData = game.spokeData
    BY <2>1 DEF GameSet
  <2>5. Phases'
    BY <1>1, <2>1, <2>2, <2>3, <2>4, TaskNames
       DEF Phases, Removing, MainPlaces, HubPlaces, SpokePlaces, Added, NewTask
  <2> QED BY <2>1, <2>2, <2>3, <2>5, AtTheStart DEF ThreadsInv
<1>4. CASE SyncSpoke
  <2>1. /\ UNCHANGED <<mutex, cursor, receiver>> /\ myXTMSetup("spoke")
        /\ main = "syncSpoke" \/ (main = "idle" /\ game.setup = "spoke")
        /\ main' = "playing"
        /\ game' = [game EXCEPT !.spokeActive = TRUE, !.spokeData = TRUE, !.down = FALSE]
    <3>1. \/ At("syncSpoke", "playing")
          \/ At("idle", "playing") /\ game.setup = "spoke"
      BY <1>4 DEF SyncSpoke
    <3>2. /\ UNCHANGED <<mutex, cursor, udpVars>> /\ myXTMSetup("spoke")
          /\ game' = [game EXCEPT !.spokeActive = TRUE, !.spokeData = TRUE, !.down = FALSE]
      BY <1>4, Zenon DEF SyncSpoke
    <3> QED BY <3>1, <3>2, Zenon DEF At, udpVars
  <2>2. task["spoke"].at = "none" /\ cursor = 1 /\ game.setup \in {"hub", "spoke"}
    BY <1>1, <2>1 DEF Phases, Passed, Sweeping, HubPlaces, SpokePlaces
  <2>3. BlocksOK' /\ MutexOK' /\ Added("spoke")
    BY <1>1, <2>1, <2>2, SetUp, TaskNames
  <2>4. game' \in GameSet /\ game'.setup = game.setup /\ game'.hubData = game.hubData
        /\ game'.spokeActive /\ game'.spokeData
    BY <2>1 DEF GameSet
  <2>5. Phases'
    BY <1>1, <2>1, <2>2, <2>3, <2>4, TaskNames
       DEF Phases, Removing, MainPlaces, HubPlaces, SpokePlaces, Added, NewTask
  <2> QED BY <2>1, <2>2, <2>3, <2>5, AtTheStart DEF ThreadsInv
<1> QED BY <1>2, <1>3, <1>4

LEMMA RingKeeps ==
  ASSUME ThreadsInv, UnSyncRing \/ (\E server \in BOOLEAN : SyncRing(server))
  PROVE  ThreadsInv'
<1> USE Typed
<1>1. BlocksOK /\ MutexOK /\ Phases /\ Passed
  BY DEF ThreadsInv
<1>2. CASE UnSyncRing
  <2>1. /\ UNCHANGED <<task, outstanding, mutex, lateCalls, resetDue, cursor, receiver>>
        /\ main = "playing" /\ main' = "idle" /\ game.setup = "ring"
        /\ game' = [game EXCEPT !.accept = FALSE, !.down = TRUE]
    BY <1>2 DEF UnSyncRing, At, taskVars, udpVars
  <2>2. /\ game' \in GameSet /\ game'.setup = game.setup
        /\ game'.spokeActive = game.spokeActive
    BY <2>1 DEF GameSet
  <2>3. Phases' /\ cursor = 1
    BY <1>1, <2>1, <2>2 DEF Phases, Removing, MainPlaces, HubPlaces, SpokePlaces, Passed, Sweeping
  <2> QED BY <2>1, <2>3, MainMoves
<1>3. ASSUME NEW server \in BOOLEAN, SyncRing(server) PROVE ThreadsInv'
  <2>1. /\ UNCHANGED <<mutex, cursor, receiver>>
        /\ main = "idle" /\ main' = "playing" /\ game.setup = "ring"
        /\ game' = [game EXCEPT !.accept = TRUE, !.down = FALSE]
        /\ StartOrReset("resend") \/ UNCHANGED <<task, outstanding, lateCalls, resetDue>>
    BY <1>3 DEF SyncRing, At, udpVars
  <2>2. /\ game' \in GameSet /\ game'.setup = "ring" /\ ~ game.spokeActive
        /\ game'.spokeActive = game.spokeActive
    BY <1>1, <2>1 DEF GameSet, Phases
  <2>3. BlocksOK' /\ MutexOK' /\ (SameBlocks \/ Added("resend"))
    <3>1. CASE StartOrReset("resend")
      BY <1>1, <2>1, <3>1, SetUpOrReset, TaskNames
    <3>2. CASE UNCHANGED <<task, outstanding, lateCalls, resetDue>>
      <4>1. MutexOK'
        BY <1>1, <2>1, <3>2 DEF MutexOK
      <4> QED BY <1>1, <3>2, <4>1, SameTasks
    <3> QED BY <2>1, <3>1, <3>2
  <2>4. Phases' /\ Passed'
    BY <2>1, <2>2, <2>3, RingBlock DEF MainPlaces, HubPlaces, SpokePlaces
  <2> QED BY <2>3, <2>4 DEF ThreadsInv
<1> QED BY <1>2, <1>3

\* The blocks are asked to go, and myTMCleanup begins.
LEMMA CleanupBegins ==
  ASSUME ThreadsInv, SpokeCleanup \/ HubStopped \/ NetExit
  PROVE  ThreadsInv'
<1> USE Typed
<1>1. BlocksOK /\ MutexOK /\ Phases /\ Passed
  BY DEF ThreadsInv
<1>2. CASE SpokeCleanup
  <2>1. /\ UNCHANGED <<outstanding, mutex, lateCalls, cursor, receiver>>
        /\ myTMRemove({"spoke"}) /\ mutex = Free
        /\ main = "playing" /\ main' = "spokeSweep" /\ game.setup # "ring"
        /\ game' = [game EXCEPT !.spokeActive = FALSE]
    BY <1>2 DEF SpokeCleanup, At, udpVars
  <2>2. BlocksOK' /\ MutexOK' /\ AskedToGo({"spoke"})
    BY <1>1, <2>1, Dismissal, TaskNames
  <2>3. cursor = 1 /\ receiver \notin InHandler
    BY <1>1, <2>1, TaskNames DEF Passed, Sweeping, MutexOK
  <2>4. /\ game' \in GameSet /\ game'.setup = game.setup /\ ~ game'.spokeActive
        /\ game'.hubData = game.hubData /\ game'.spokeData = game.spokeData
    BY <2>1 DEF GameSet
  <2>5. Phases'
    BY <1>1, <2>1, <2>2, <2>3, <2>4, TaskNames
       DEF Phases, Removing, MainPlaces, HubPlaces, SpokePlaces, AskedToGo, InHandler
  <2> QED BY <2>1, <2>2, <2>3, <2>5, AtTheStart DEF ThreadsInv
<1>3. CASE HubStopped
  <2>1. /\ UNCHANGED <<outstanding, mutex, lateCalls, cursor, game, receiver>>
        /\ myTMRemove({"hub"}) /\ main = "hubWait" /\ main' = "hubSweep"
    BY <1>3 DEF HubStopped, At, udpVars
  <2>2. BlocksOK' /\ MutexOK' /\ AskedToGo({"hub"})
    BY <1>1, <2>1, Dismissal, TaskNames
  <2>3. cursor = 1
    BY <1>1, <2>1 DEF Passed, Sweeping
  <2>4. Phases'
    BY <1>1, <2>1, <2>2, TaskNames
       DEF Phases, Removing, MainPlaces, HubPlaces, SpokePlaces, AskedToGo
  <2> QED BY <2>1, <2>2, <2>3, <2>4, AtTheStart DEF ThreadsInv
<1>4. CASE NetExit
  <2>1. /\ UNCHANGED <<outstanding, mutex, lateCalls, cursor, game, receiver>>
        /\ myTMRemove(RemovedAtExit) /\ main = "idle" /\ main' = "exitSweep"
    BY <1>4 DEF NetExit, At, udpVars
  <2>2. BlocksOK' /\ MutexOK' /\ AskedToGo(RemovedAtExit)
    BY <1>1, <2>1, Dismissal, TaskNames
  <2>3. cursor = 1
    BY <1>1, <2>1 DEF Passed, Sweeping
  <2>4. Phases'
    BY <1>1, <2>1, <2>2, TaskNames
       DEF Phases, Removing, RemovedAtExit, MainPlaces, HubPlaces, SpokePlaces, AskedToGo
  <2> QED BY <2>1, <2>2, <2>3, <2>4, AtTheStart DEF ThreadsInv
<1> QED BY <1>2, <1>3, <1>4

LEMMA SweepKeeps ==
  ASSUME ThreadsInv, Sweep
  PROVE  ThreadsInv'
<1> USE Typed
<1>1. BlocksOK /\ MutexOK /\ Phases /\ Passed
  BY DEF ThreadsInv
<1>2. /\ UNCHANGED <<mutex, lateCalls, resetDue, main, game, receiver>>
      /\ Sweeping /\ cursor <= Len(outstanding)
  BY DEF Sweep, udpVars
<1>3. /\ cursor \in 1 .. Len(outstanding) /\ cursor \in Nat
      /\ \A i \in 1 .. Len(outstanding) :
           outstanding[i] \in Tasks /\ (i < cursor => task[outstanding[i]].keep)
  BY <1>1, <1>2 DEF Passed
<1>4. CASE Swept(cursor) /\ cursor' = CursorAfterErasing(cursor)
  <2>1. BlocksOK' /\ MutexOK' /\ Erased(cursor)
    BY <1>1, <1>2, <1>3, <1>4, Erase
  <2>2. \A u \in Tasks : \/ task'[u] = task[u]
                         \/ task'[u].at = "none" /\ ~ task'[u].keep
    BY <2>1 DEF Erased, NoTask
  <2>3. Phases'
    BY <1>1, <1>2, <2>2, TaskNames DEF Phases, Removing
  <2>4. cursor' = cursor /\ Len(outstanding') = Len(outstanding) - 1
    BY <1>4, <2>1 DEF CursorAfterErasing, Erased
  <2>5. ASSUME NEW i \in 1 .. Len(outstanding'), i < cursor
        PROVE  task'[outstanding'[i]].keep
    <3>1. outstanding'[i] = outstanding[i] /\ i \in 1 .. Len(outstanding)
      BY <2>1, <2>4, <2>5 DEF Erased
    <3>2. task[outstanding[i]].keep /\ ~ task[outstanding[cursor]].keep
      BY <1>3, <2>1, <2>5, <3>1 DEF Erased
    <3> QED BY <1>3, <2>1, <3>1, <3>2 DEF Erased
  <2>6. Passed'
    BY <1>2, <1>3, <2>4, <2>5 DEF Passed, Sweeping
  <2> QED BY <2>1, <2>3, <2>6 DEF ThreadsInv
<1>5. CASE Kept(cursor) /\ cursor' = cursor + 1
  <2>1. UNCHANGED <<task, outstanding>> /\ task[outstanding[cursor]].keep
    BY <1>5 DEF Kept, MustGo
  <2>2. BlocksOK' /\ SameBlocks
    BY <1>1, <1>2, <2>1, SameTasks
  <2>3. MutexOK'
    BY <1>1, <1>2, <2>1 DEF MutexOK
  <2>4. Phases'
    BY <1>1, <1>2, <2>1 DEF Phases, Removing
  <2>5. \A i \in 1 .. Len(outstanding) : i < cursor + 1 => i < cursor \/ i = cursor
    BY <1>3
  <2>6. Passed'
    BY <1>2, <1>3, <1>5, <2>1, <2>5 DEF Passed, Sweeping
  <2> QED BY <2>2, <2>3, <2>4, <2>6 DEF ThreadsInv
<1> QED BY <1>4, <1>5 DEF Sweep

\* myTMCleanup is done: what was removed is gone.
LEMMA CleanupEnds ==
  ASSUME ThreadsInv, SpokeCleared \/ HubCleared \/ CloseSocket
  PROVE  ThreadsInv'
<1> USE Typed
<1>1. BlocksOK /\ MutexOK /\ Phases /\ Passed
  BY DEF ThreadsInv
<1>2. SweepDone
  BY DEF SpokeCleared, HubCleared, CloseSocket
<1>3. cursor' = 1 /\ \A t \in Tasks : task[t].at # "none" => task[t].keep
  BY <1>2, AllSwept DEF SweepDone
<1>4. \A t \in Tasks : t \in {"hub", "spoke"} /\ t \in Removing => task[t].at = "none"
  BY <1>1, <1>3 DEF Phases
<1>5. CASE SpokeCleared
  <2>1. /\ UNCHANGED <<task, outstanding, mutex, lateCalls, resetDue, receiver>>
        /\ main = "spokeSweep" /\ main' = IF game.setup = "hub" THEN "hubCheck" ELSE "idle"
        /\ game' = [game EXCEPT !.spokeData = FALSE, !.ending = game.setup = "hub",
                                !.down = game.setup # "hub"]
    BY <1>5 DEF SpokeCleared, At, taskVars, udpVars
  <2>2. /\ game' \in GameSet /\ game'.setup = game.setup /\ game'.hubData = game.hubData
        /\ game'.spokeActive = game.spokeActive
    BY <2>1 DEF GameSet
  <2>3. Phases'
    <3>1. task["spoke"].at = "none"
      BY <1>4, <2>1, TaskNames DEF Removing
    <3>2. \/ main' = "hubCheck" /\ game.setup = "hub"
          \/ main' = "idle" /\ game.setup # "hub"
      BY <2>1
    <3> QED BY <1>1, <1>3, <2>1, <2>2, <3>1, <3>2, TaskNames
            DEF Phases, Removing, MainPlaces, HubPlaces, SpokePlaces, InHandler
  <2> QED BY <1>3, <2>1, <2>3, MainMoves
<1>6. CASE HubCleared
  <2>1. /\ UNCHANGED <<task, outstanding, mutex, lateCalls, resetDue, receiver>>
        /\ main = "hubSweep" /\ main' = "idle"
        /\ game' = [game EXCEPT !.hubData = FALSE, !.down = TRUE]
    BY <1>6 DEF HubCleared, At, taskVars, udpVars
  <2>2. /\ game' \in GameSet /\ game'.setup = game.setup /\ game'.spokeData = game.spokeData
        /\ game'.spokeActive = game.spokeActive
    BY <2>1 DEF GameSet
  <2>3. Phases'
    <3>1. task["hub"].at = "none"
      BY <1>4, <2>1, TaskNames DEF Removing
    <3> QED BY <1>1, <1>3, <2>1, <2>2, <3>1, TaskNames
            DEF Phases, Removing, MainPlaces, HubPlaces, SpokePlaces
  <2> QED BY <1>3, <2>1, <2>3, MainMoves
<1>7. CASE CloseSocket
  <2>1. /\ UNCHANGED <<task, outstanding, mutex, lateCalls, resetDue, game, receiver>>
        /\ main = "exitSweep" /\ main' = "closing"
    BY <1>7 DEF CloseSocket, At, taskVars
  <2>2. Phases'
    BY <1>1, <1>3, <2>1, TaskNames
       DEF Phases, Removing, MainPlaces, HubPlaces, SpokePlaces
  <2> QED BY <1>3, <2>1, <2>2, MainMoves
<1> QED BY <1>5, <1>6, <1>7

LEMMA WaitingKeeps ==
  ASSUME ThreadsInv,
         SocketClosed \/ LastDropped \/ (\E complete \in BOOLEAN : HubCheck(complete))
  PROVE  ThreadsInv'
<1> USE Typed
<1>1. BlocksOK /\ MutexOK /\ Phases /\ Passed
  BY DEF ThreadsInv
<1>2. CASE SocketClosed
  <2>1. /\ UNCHANGED <<task, outstanding, mutex, lateCalls, resetDue, cursor>>
        /\ main = "closing" /\ main' = "out" /\ receiver = "ended" /\ receiver' = "none"
        /\ game' = NoGame(game.setup)
    BY <1>2 DEF SocketClosed, At, taskVars
  <2>2. /\ game' \in GameSet /\ game'.setup = game.setup /\ ~ game'.spokeActive
    BY <2>1 DEF NoGame, GameSet
  <2>3. Phases' /\ cursor = 1
    BY <1>1, <2>1, <2>2
       DEF Phases, Removing, MainPlaces, HubPlaces, SpokePlaces, ReceiverPlaces, Passed, Sweeping
  <2> QED BY <2>1, <2>3, MainMoves DEF InHandler
<1>3. CASE LastDropped
  <2>1. /\ UNCHANGED <<task, outstanding, mutex, lateCalls, resetDue, cursor, receiver, main>>
        /\ game' = [game EXCEPT !.hubActive = FALSE]
    BY <1>3 DEF LastDropped, taskVars, udpVars
  <2>2. /\ game' \in GameSet /\ game'.setup = game.setup /\ game'.hubData = game.hubData
        /\ game'.spokeActive = game.spokeActive /\ game'.spokeData = game.spokeData
    BY <2>1 DEF GameSet
  <2>3. Phases' /\ Passed'
    BY <1>1, <2>1, <2>2 DEF Phases, Removing, Passed, Sweeping
  <2>4. BlocksOK' /\ MutexOK'
    BY <1>1, <2>1, SameTasks DEF MutexOK
  <2> QED BY <2>3, <2>4 DEF ThreadsInv
<1>4. ASSUME NEW complete \in BOOLEAN, HubCheck(complete) PROVE ThreadsInv'
  <2>1. /\ UNCHANGED <<task, outstanding, mutex, lateCalls, resetDue, cursor, receiver>>
        /\ main = "hubCheck" /\ main' = "hubWait"
        /\ game' = [game EXCEPT !.hubActive = @ /\ ~ complete]
    BY <1>4 DEF HubCheck, At, taskVars, udpVars
  <2>2. /\ game' \in GameSet /\ game'.setup = game.setup /\ game'.hubData = game.hubData
        /\ game'.spokeActive = game.spokeActive /\ game'.spokeData = game.spokeData
    BY <2>1 DEF GameSet
  <2>3. Phases' /\ cursor = 1
    BY <1>1, <2>1, <2>2
       DEF Phases, Removing, MainPlaces, HubPlaces, SpokePlaces, Passed, Sweeping
  <2> QED BY <2>1, <2>3, MainMoves
<1> QED BY <1>2, <1>3, <1>4

-----------------------------------------------------------------------------
(***************************************************************************)
(* The theorems                                                            *)
(***************************************************************************)
LEMMA ThreadsInit == Init => ThreadsInv
<1> SUFFICES ASSUME Init PROVE ThreadsInv
  OBVIOUS
<1>1. /\ task = [t \in Tasks |-> NoTask] /\ outstanding = <<>> /\ mutex = Free
      /\ lateCalls = [t \in Tasks |-> 0] /\ resetDue = [t \in Tasks |-> FALSE]
      /\ main = "out" /\ cursor = 1 /\ receiver = "none"
  BY DEF Init, TasksInit
<1>2. PICK setup \in Setups : game = NoGame(setup)
  BY DEF Init
<1>3. \A t \in Tasks : task[t] = NoTask
  BY <1>1
<1>4. NoTask \in BlockSet /\ BlockOK(NoTask, 0) /\ NoTask.at = "none" /\ ~ NoTask.keep
  BY DEF NoTask, BlockSet, Places, BlockOK
<1>5. BlocksOK
  BY <1>1, <1>3, <1>4 DEF BlocksOK, Listed, Distinct, Holds
<1>6. MutexOK
  BY <1>1, <1>3, <1>4, TaskNames DEF MutexOK, InHandler
<1>7. game \in GameSet /\ ~ game.spokeActive
  BY <1>2 DEF NoGame, GameSet
<1>8. Phases
  BY <1>1, <1>3, <1>4, <1>7, TaskNames
     DEF Phases, Removing, MainPlaces, HubPlaces, SpokePlaces, ReceiverPlaces
<1>9. Passed
  BY <1>1 DEF Passed
<1> QED BY <1>5, <1>6, <1>8, <1>9 DEF ThreadsInv

LEMMA ThreadsStep == ThreadsInv /\ [Next]_vars => ThreadsInv'
<1> SUFFICES ASSUME ThreadsInv, [Next]_vars PROVE ThreadsInv'
  OBVIOUS
<1>1. CASE Receiver
  BY <1>1, ReceiverKeeps
<1>2. ASSUME NEW t \in Tasks, TaskThread(t) PROVE ThreadsInv'
  BY <1>2, TaskThreadKeeps
<1>3. CASE NetEnter \/ SyncHub \/ SyncSpoke
  BY <1>3, StartingKeeps
<1>4. CASE UnSyncRing \/ (\E server \in BOOLEAN : SyncRing(server))
  BY <1>4, RingKeeps
<1>5. CASE SpokeCleanup \/ HubStopped \/ NetExit
  BY <1>5, CleanupBegins
<1>6. CASE Sweep
  BY <1>6, SweepKeeps
<1>7. CASE SpokeCleared \/ HubCleared \/ CloseSocket
  BY <1>7, CleanupEnds
<1>8. CASE SocketClosed \/ LastDropped \/ (\E complete \in BOOLEAN : HubCheck(complete))
  BY <1>8, WaitingKeeps
<1>9. CASE UNCHANGED vars
  BY <1>9 DEF vars, taskVars, mainVars, udpVars, ThreadsInv, BlocksOK, Listed, MutexOK,
              Phases, Removing, Passed, Sweeping
<1> QED BY <1>1, <1>2, <1>3, <1>4, <1>5, <1>6, <1>7, <1>8, <1>9 DEF Next, Shutdown

\* The blocks, the mutex and the program's own thread are where ThreadsInv says,
\* whatever game is played and however the threads interleave.
THEOREM ThreadsInvariant == Spec => []ThreadsInv
<1> QED BY ThreadsInit, ThreadsStep, PTL DEF Spec

\* The vector of blocks is as long as it has members.
LEMMA AsManyBlocks ==
  ASSUME ThreadsInv
  PROVE  /\ IsFiniteSet(Tasks) /\ ToSet(outstanding) \subseteq Tasks
         /\ Len(outstanding) = Cardinality(ToSet(outstanding))
         /\ Len(outstanding) <= Cardinality(Tasks) /\ Cardinality(Tasks) \in Nat
<1> DEFINE n == Len(outstanding)
           listed == ToSet(outstanding)
<1>1. outstanding \in Seq(Tasks) /\ Distinct(outstanding) /\ n \in Nat
  BY DEF ThreadsInv, BlocksOK, Listed
<1>2. /\ \A i \in 1 .. n : outstanding[i] \in listed
      /\ \A t \in listed : t \in Tasks /\ \E i \in 1 .. n : outstanding[i] = t
      /\ DOMAIN outstanding = 1 .. n /\ outstanding = [i \in 1 .. n |-> outstanding[i]]
  BY <1>1 DEF ToSet
<1>3. IsFiniteSet(Tasks)
  <2>1. IsFiniteSet({"hub"})
    BY FS_Singleton
  <2>2. IsFiniteSet({"hub"} \cup {"spoke"})
    BY <2>1, FS_AddElement
  <2>3. IsFiniteSet({"hub"} \cup {"spoke"} \cup {"resend"})
    BY <2>2, FS_AddElement
  <2>4. IsFiniteSet({"hub"} \cup {"spoke"} \cup {"resend"} \cup {"server"})
    BY <2>3, FS_AddElement
  <2>5. Tasks = {"hub"} \cup {"spoke"} \cup {"resend"} \cup {"server"}
    BY ThreadsAssumption
  <2> QED BY <2>4, <2>5
<1> HIDE DEF n, listed
<1>4. outstanding \in Bijection(1 .. n, listed)
  <2>1. outstanding \in [1 .. n -> listed]
    BY <1>2
  <2>2. \A i, j \in 1 .. n : outstanding[i] = outstanding[j] => i = j
    BY <1>1 DEF Distinct, n
  <2>3. \A t \in listed : \E i \in 1 .. n : outstanding[i] = t
    BY <1>2
  <2> QED BY <2>1, <2>2, <2>3 DEF Bijection, Injection, Surjection, IsInjective
<1>5. Cardinality(listed) = n
  BY <1>1, <1>4, FS_CountingElements DEF ExistsBijection
<1>6. listed \subseteq Tasks
  BY <1>2
<1>7. Cardinality(listed) <= Cardinality(Tasks) /\ Cardinality(Tasks) \in Nat
  BY <1>3, <1>6, FS_Subset, FS_CardinalityType
<1> QED BY <1>3, <1>5, <1>6, <1>7 DEF n, listed

\* ThreadsTypeOK: every flag, thread and cursor is where the code can put it, and the
\* vector holds the blocks that there are, once each.
THEOREM ThreadsTypes == Spec => []ThreadsTypeOK
<1>1. ThreadsInv => ThreadsTypeOK
  <2> SUFFICES ASSUME ThreadsInv PROVE ThreadsTypeOK
    OBVIOUS
  <2>1. /\ BlocksOK /\ MutexOK /\ Phases /\ Passed
    BY DEF ThreadsInv
  <2>2. /\ task \in [Tasks -> [keep : BOOLEAN, running : BOOLEAN, reset : BOOLEAN, at : Places]]
        /\ resetDue \in [Tasks -> BOOLEAN]
        /\ mutex \in Tasks \cup {Free, "receiver"}
        /\ receiver \in {"none", "listen", "receive", "lock", "handle", "rest",
                         "return", "ended"}
    BY <2>1 DEF BlocksOK, BlockSet, MutexOK, Phases, ReceiverPlaces, InHandler
  <2>3. ToSet(outstanding) = {t \in Tasks : task[t].at # "none"}
    <3>1. \A t \in Tasks : t \in ToSet(outstanding) <=> Holds(outstanding, t)
      <4>1. DOMAIN outstanding = 1 .. Len(outstanding)
        BY <2>1 DEF BlocksOK, Listed
      <4> QED BY <4>1 DEF ToSet, Holds
    <3>2. \A t \in Tasks : Holds(outstanding, t) <=> task[t].at # "none"
      BY <2>1 DEF BlocksOK, Listed
    <3> QED BY <3>1, <3>2, AsManyBlocks
  <2>4. cursor \in 1 .. Cardinality(Tasks) + 1
    BY <2>1, AsManyBlocks, Typed DEF Passed
  <2> QED BY <2>2, <2>3, <2>4, AsManyBlocks DEF ThreadsTypeOK
<1> QED BY <1>1, ThreadsInvariant, PTL

\* OneLateCall: a task that was removed is called at most once more.
THEOREM RemovedIsCalledOnce == Spec => []OneLateCall
<1>1. ThreadsInv => OneLateCall
  BY DEF ThreadsInv, BlocksOK, BlockOK, OneLateCall
<1> QED BY <1>1, ThreadsInvariant, PTL

\* DataOutlivesTicks: hub_tick and spoke_tick never run on vectors that have been cleared,
\* and no spoke whose vectors have handles a packet.
THEOREM TicksHaveData == Spec => []DataOutlivesTicks
<1>1. ThreadsInv => DataOutlivesTicks
  BY TaskNames DEF ThreadsInv, Phases, DataOutlivesTicks
<1> QED BY <1>1, ThreadsInvariant, PTL

\* RemovedTasksGone: no thread that was removed, and none of the hub or the spoke, is left
\* when the program has left the network.
THEOREM NothingRunsOn == Spec => []RemovedTasksGone
<1>1. ThreadsInv => RemovedTasksGone
  <2> SUFFICES ASSUME ThreadsInv, main = "out"
               PROVE  /\ \A t \in Tasks : task[t].at # "none" => task[t].keep
                      /\ task["hub"] = NoTask /\ task["spoke"] = NoTask
                      /\ receiver = "none"
    BY DEF RemovedTasksGone
  <2>1. Phases /\ BlocksOK
    BY DEF ThreadsInv
  <2>2. Removing = {} /\ main \notin HubPlaces /\ main \notin SpokePlaces
    BY DEF Removing, HubPlaces, SpokePlaces
  <2>3. \A t \in Tasks : task[t].at # "none" => task[t].keep
    BY <2>1, <2>2 DEF Phases
  <2>4. task["hub"].at = "none" /\ task["spoke"].at = "none" /\ receiver = "none"
    BY <2>1, <2>2 DEF Phases
  <2> QED BY <2>1, <2>3, <2>4, TaskNames DEF BlocksOK, BlockOK
<1> QED BY <1>1, ThreadsInvariant, PTL
=============================================================================
