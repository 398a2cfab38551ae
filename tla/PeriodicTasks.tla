---------------------------- MODULE PeriodicTasks ----------------------------
(***************************************************************************)
(* Periodic tasks (Source_Files/CSeries/mytm_sdl.cpp), the emulation of a  *)
(* timer that drives the network game.  Each task has a thread that        *)
(* sleeps a period, takes the one mutex all tasks share with the receiver  *)
(* of packets, and calls the task's function.  The flags of a task block   *)
(* are shared between its thread and its users without any lock, so every  *)
(* access to one of them is a step.                                        *)
(*                                                                         *)
(* How long a thread sleeps is left out: a sleep ends some time.  A reset  *)
(* that is found after the sleep makes the thread sleep again.             *)
(***************************************************************************)
EXTENDS Naturals, Sequences, SequencesExt

CONSTANT Tasks        \* the task blocks the program may create

Free == "free"        \* nobody holds sTMTaskMutex

VARIABLES
  task,          \* for each block mKeepRunning, mIsRunning, whether mResetTime
                 \* is positive, and where its thread is
  outstanding,   \* sOutstandingTasks
  mutex,         \* who holds sTMTaskMutex
  lateCalls,     \* history: calls of the function since the task was removed
  resetDue       \* history: a reset has not been found yet; not one that fell
                 \* between the function's decision to end the task and the
                 \* clearing of mIsRunning, which is lost

taskVars == <<task, outstanding, mutex, lateCalls, resetDue>>

Places ==
  {"none", "test", "delay", "check", "lock", "call", "quit", "left", "ended"}

NoTask == [keep |-> FALSE, running |-> FALSE, reset |-> FALSE, at |-> "none"]
NewTask == [keep |-> TRUE, running |-> TRUE, reset |-> FALSE, at |-> "test"]

TasksInit ==
  /\ task = [t \in Tasks |-> NoTask]
  /\ outstanding = <<>>
  /\ mutex = Free
  /\ lateCalls = [t \in Tasks |-> 0]
  /\ resetDue = [t \in Tasks |-> FALSE]

(***************************************************************************)
(* thread_loop                                                             *)
(***************************************************************************)
Go(t, place) == task' = [task EXCEPT ![t].at = place]

RunsOn_Always(t) == TRUE

RunsOn(t) == task[t].keep

\* The condition of the loop.
LoopTest(t) ==
  /\ task[t].at = "test"
  /\ Go(t, IF RunsOn(t) THEN "delay" ELSE "left")
  /\ UNCHANGED <<outstanding, mutex, lateCalls, resetDue>>

\* The end of a sleep; a reset that was requested meanwhile starts another.
Wake(t) ==
  /\ task[t].at = "delay"
  /\ IF task[t].reset
     THEN task' = [task EXCEPT ![t].reset = FALSE]
     ELSE Go(t, "check")
  /\ resetDue' = [resetDue EXCEPT ![t] = FALSE]
  /\ UNCHANGED <<outstanding, mutex, lateCalls>>

\* "Since we've been delayed for a while, double-check."
DoubleCheck(t) ==
  /\ task[t].at = "check"
  /\ Go(t, IF RunsOn(t) THEN "lock" ELSE "left")
  /\ UNCHANGED <<outstanding, mutex, lateCalls, resetDue>>

\* The function decides at its start whether it wants to be called again.
CallBegins(t, again) ==
  /\ task[t].at = "lock" /\ mutex = Free
  /\ mutex' = t
  /\ Go(t, IF again THEN "call" ELSE "quit")
  /\ lateCalls' = [lateCalls EXCEPT ![t] = IF task[t].keep THEN @ ELSE @ + 1]
  /\ resetDue' = [resetDue EXCEPT ![t] = @ /\ again]
  /\ UNCHANGED outstanding

CallEnds(t) ==
  /\ task[t].at \in {"call", "quit"}
  /\ mutex' = Free
  /\ Go(t, IF task[t].at = "call" THEN "test" ELSE "left")
  /\ UNCHANGED <<outstanding, lateCalls, resetDue>>

ThreadEnds(t) ==
  /\ task[t].at = "left"
  /\ task' = [task EXCEPT ![t].running = FALSE, ![t].at = "ended"]
  /\ UNCHANGED <<outstanding, mutex, lateCalls, resetDue>>

(***************************************************************************)
(* What the users of a task call; myTMSetup is myXTMSetup.                 *)
(***************************************************************************)
myXTMSetup_Forgotten(t) ==
  /\ task' = [task EXCEPT ![t] = NewTask]
  /\ lateCalls' = [lateCalls EXCEPT ![t] = 0]
  /\ resetDue' = [resetDue EXCEPT ![t] = FALSE]
  /\ UNCHANGED outstanding

myXTMSetup(t) ==
  /\ task' = [task EXCEPT ![t] = NewTask]
  /\ outstanding' = Append(outstanding, t)
  /\ lateCalls' = [lateCalls EXCEPT ![t] = 0]
  /\ resetDue' = [resetDue EXCEPT ![t] = FALSE]

myTMRemove(ts) ==
  /\ task' = [t \in Tasks |-> IF t \in ts /\ task[t].at # "none"
                              THEN [task[t] EXCEPT !.keep = FALSE] ELSE task[t]]
  /\ resetDue' = [t \in Tasks |-> resetDue[t] /\ t \notin ts]

\* A thread that runs finds mResetTime; one that has ended, after
\* SDL_WaitThread, is started anew.
Restarted_NoNewThread(b) == [b EXCEPT !.reset = TRUE]

Restarted(b) ==
  IF b.running THEN [b EXCEPT !.reset = TRUE] ELSE NewTask

myTMReset(t) ==
  /\ task' = [task EXCEPT ![t] = Restarted(@)]
  /\ lateCalls' = [lateCalls EXCEPT ![t] = IF task[t].running THEN @ ELSE 0]
  /\ resetDue' = [resetDue EXCEPT ![t] = task'[t].reset /\ task[t].at \notin {"quit", "left"}]
  /\ UNCHANGED outstanding

(***************************************************************************)
(* myTMCleanup(true), one turn of its loop: the block at the cursor is     *)
(* erased and its thread waited for, or the cursor moves on.  Erasing with *)
(* i-- leaves the cursor where it is, at the block that moved down; at the *)
(* first block that steps outside the vector and back, which the build's   *)
(* iterators survive.                                                      *)
(***************************************************************************)
CursorAfterErasing_Next(i) == i + 1

CursorAfterErasing(i) == i

MustGo_IfEnded(t) == ~ task[t].keep /\ ~ task[t].running

MustGo(t) == ~ task[t].keep

Swept(i) ==
  LET t == outstanding[i]
  IN  /\ MustGo(t) /\ task[t].at = "ended"
      /\ task' = [task EXCEPT ![t] = NoTask]
      /\ outstanding' = RemoveAt(outstanding, i)

Kept(i) == ~ MustGo(outstanding[i]) /\ UNCHANGED <<task, outstanding>>
=============================================================================
