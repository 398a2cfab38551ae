----------------------------- MODULE GameThreads -----------------------------
(***************************************************************************)
(* The threads of one machine in a network game: the program's own thread, *)
(* which starts and ends games, the thread that receives packets           *)
(* (Source_Files/Network/network_udp.cpp), and the threads of the periodic *)
(* tasks (PeriodicTasks).  With the star protocol the machine is the one   *)
(* with the hub on it, or not; with the ring protocol every machine has a  *)
(* task that resends and one that queues flags.                            *)
(*                                                                         *)
(* What packets and flags contain is left out: StarHub, StarSpoke and      *)
(* TokenRing model that.  Here each piece of data is only there or not:    *)
(* the vectors that hub_cleanup and spoke_cleanup clear.                   *)
(***************************************************************************)
EXTENDS PeriodicTasks, FiniteSets

CONSTANT Setups       \* the games the machine may play: "hub", "spoke", "ring"

ASSUME ThreadsAssumption ==
  /\ Tasks = {"hub", "spoke", "resend", "server"}
  /\ Setups \subseteq {"hub", "spoke", "ring"}

VARIABLES
  main,        \* where the program's own thread is
  cursor,      \* the iterator of myTMCleanup
  game,        \* the statics of hub, spoke and ring, see NoGame
  receiver,    \* where the receiving thread is
  listening    \* sKeepListening

mainVars == <<main, cursor, game>>
udpVars == <<receiver, listening>>
vars == <<taskVars, mainVars, udpVars>>

\* No game: hubActive and spokeActive are sHubActive and sSpokeActive, ending
\* says that sSmallestPostGameTick is set, hubData and spokeData stand for the
\* vectors; for the ring, down is netState = netDown and accept is
\* acceptRingPackets.  (Bound: all games of a run are of one kind.)
NoGame(setup) ==
  [setup |-> setup, hubActive |-> FALSE, spokeActive |-> FALSE,
   ending |-> FALSE, hubData |-> FALSE, spokeData |-> FALSE,
   down |-> FALSE, accept |-> FALSE]

Init ==
  /\ TasksInit
  /\ main = "out" /\ cursor = 1
  /\ \E setup \in Setups : game = NoGame(setup)
  /\ receiver = "none" /\ listening = FALSE

(***************************************************************************)
(* The receiving thread                                                    *)
(***************************************************************************)
\* SDLNet_CheckSockets returns, with a packet or after a second without.
SocketsChecked(ready) ==
  /\ receiver = "listen"
  /\ receiver' = IF ~ listening THEN "ended" ELSE IF ready THEN "receive" ELSE "listen"
  /\ UNCHANGED <<taskVars, mainVars, listening>>

\* SDLNet_UDP_Recv fills the buffer; the mutex is not held yet.
Received ==
  /\ receiver = "receive"
  /\ receiver' = "lock"
  /\ UNCHANGED <<taskVars, mainVars, listening>>

\* Does the protocol look at packets at all?
Accepting ==
  CASE game.setup = "hub" -> game.hubActive
    [] game.setup = "spoke" -> game.spokeActive
    [] game.setup = "ring" -> game.accept

\* The packet is copied and the handler called, under the mutex.
HandlerBegins ==
  /\ receiver = "lock" /\ mutex = Free
  /\ mutex' = "receiver"
  /\ receiver' = IF Accepting THEN "handle" ELSE "return"
  /\ UNCHANGED <<task, outstanding, lateCalls, resetDue, mainVars, listening>>

\* The acknowledgement that hub_check_for_completion waits for; the rest of the
\* packet is still to come.
LastAcknowledged ==
  /\ receiver = "handle" /\ game.setup = "hub" /\ game.ending
  /\ game' = [game EXCEPT !.hubActive = FALSE]
  /\ receiver' = "rest"
  /\ UNCHANGED <<taskVars, main, cursor, listening>>

\* A ring packet, acknowledged and sent on: that starts or resets the resend
\* task, and the first one that comes back the server task.  (Bound: a block
\* that was removed must be gone before there is another of its name.)
StartOrReset(t) ==
  \/ /\ task[t].at # "none" /\ task[t].keep
     /\ myTMReset(t)
  \/ /\ task[t].at = "none"
     /\ myXTMSetup(t)

RingPacket(t) ==
  /\ receiver = "handle" /\ game.setup = "ring" /\ t \in {"resend", "server"}
  /\ StartOrReset(t)
  /\ receiver' = "rest"
  /\ UNCHANGED <<mutex, mainVars, listening>>

HandlerEnds ==
  /\ receiver \in {"handle", "rest", "return"}
  /\ receiver' = "listen"
  /\ mutex' = Free
  /\ UNCHANGED <<task, outstanding, lateCalls, resetDue, mainVars, listening>>

Receiver ==
  \/ \E ready \in BOOLEAN : SocketsChecked(ready)
  \/ Received \/ HandlerBegins \/ LastAcknowledged \/ HandlerEnds
  \/ \E t \in Tasks : RingPacket(t)

(***************************************************************************)
(* The functions of the tasks.  hub_tick and spoke_tick always want to be  *)
(* called again, the ring's tasks unless the net is down.                  *)
(***************************************************************************)
TickBegins(t) ==
  /\ CallBegins(t, t \in {"hub", "spoke"} \/ ~ game.down)
  /\ UNCHANGED <<mainVars, udpVars>>

\* The silent players that hub_check_for_completion waited for are dropped.
LastDropped ==
  /\ task["hub"].at = "call" /\ game.ending /\ game.hubActive
  /\ game' = [game EXCEPT !.hubActive = FALSE]
  /\ UNCHANGED <<taskVars, main, cursor, udpVars>>

TaskThread(t) ==
  \/ /\ LoopTest(t) \/ Wake(t) \/ DoubleCheck(t) \/ CallEnds(t) \/ ThreadEnds(t)
     /\ UNCHANGED <<mainVars, udpVars>>
  \/ TickBegins(t)

(***************************************************************************)
(* The program's own thread                                                *)
(***************************************************************************)
At(here, there) == main = here /\ main' = there

\* NetEnter and NetDDPOpenSocket; NetExit has left netUninitialized.
NetEnter ==
  /\ At("out", "idle")
  /\ game' = [NoGame(game.setup) EXCEPT !.down = TRUE]
  /\ listening' = TRUE /\ receiver' = "listen"
  /\ UNCHANGED <<taskVars, cursor>>

\* StarGameProtocol::Sync: hub_initialize, on the hub's machine, ...
SyncHub ==
  /\ At("idle", "syncSpoke") /\ game.setup = "hub"
  /\ game' = [game EXCEPT !.hubActive = TRUE, !.hubData = TRUE, !.ending = FALSE]
  /\ myXTMSetup("hub")
  /\ UNCHANGED <<mutex, cursor, udpVars>>

\* ... then spoke_initialize.
SyncSpoke ==
  /\ \/ At("syncSpoke", "playing")
     \/ At("idle", "playing") /\ game.setup = "spoke"
  /\ game' = [game EXCEPT !.spokeActive = TRUE, !.spokeData = TRUE,
                          !.down = FALSE]
  /\ myXTMSetup("spoke")
  /\ UNCHANGED <<mutex, cursor, udpVars>>

\* RingGameProtocol::Sync: the server sends the first ring packet, without the
\* mutex; the others wait for it.
SyncRing(server) ==
  /\ At("idle", "playing") /\ game.setup = "ring"
  /\ game' = [game EXCEPT !.accept = TRUE, !.down = FALSE]
  /\ IF server THEN StartOrReset("resend")
     ELSE UNCHANGED <<task, outstanding, lateCalls, resetDue>>
  /\ UNCHANGED <<mutex, cursor, udpVars>>

\* UnSync of the ring ends when the ring has come down, or at a timeout.
UnSyncRing ==
  /\ At("playing", "idle") /\ game.setup = "ring"
  /\ game' = [game EXCEPT !.accept = FALSE, !.down = TRUE]
  /\ UNCHANGED <<taskVars, cursor, udpVars>>

\* UnSync of the star: spoke_cleanup takes the mutex and removes the tick task.
SpokeCleanup ==
  /\ At("playing", "spokeSweep") /\ game.setup # "ring" /\ mutex = Free
  /\ myTMRemove({"spoke"})
  /\ game' = [game EXCEPT !.spokeActive = FALSE]
  /\ UNCHANGED <<outstanding, mutex, lateCalls, cursor, udpVars>>

\* myTMCleanup(true), as long as its loop runs.
Sweeping == main \in {"spokeSweep", "hubSweep", "exitSweep"}

Sweep ==
  /\ Sweeping /\ cursor <= Len(outstanding)
  /\ \/ Swept(cursor) /\ cursor' = CursorAfterErasing(cursor)
     \/ Kept(cursor) /\ cursor' = cursor + 1
  /\ UNCHANGED <<mutex, lateCalls, resetDue, main, game, udpVars>>

SweepDone == cursor > Len(outstanding) /\ cursor' = 1

SpokeCleared ==
  /\ At("spokeSweep", IF game.setup = "hub" THEN "hubCheck" ELSE "idle")
  /\ SweepDone
  /\ game' = [game EXCEPT !.spokeData = FALSE, !.ending = game.setup = "hub",
                          !.down = game.setup # "hub"]
  /\ UNCHANGED <<taskVars, udpVars>>

\* hub_cleanup(true): everybody may have acknowledged already.
HubCheck(complete) ==
  /\ At("hubCheck", "hubWait") /\ mutex = Free
  /\ game' = [game EXCEPT !.hubActive = @ /\ ~ complete]
  /\ UNCHANGED <<taskVars, cursor, udpVars>>

HubStopped ==
  /\ At("hubWait", "hubSweep") /\ ~ game.hubActive
  /\ myTMRemove({"hub"})
  /\ UNCHANGED <<outstanding, mutex, lateCalls, cursor, game, udpVars>>

HubCleared ==
  /\ At("hubSweep", "idle") /\ SweepDone
  /\ game' = [game EXCEPT !.hubData = FALSE, !.down = TRUE]
  /\ UNCHANGED <<taskVars, udpVars>>

\* NetExit: Exit1 of the ring, myTMCleanup(true), NetDDPCloseSocket.
RemovedAtExit == {"resend", "server"}

NetExit ==
  /\ At("idle", "exitSweep")
  /\ myTMRemove(RemovedAtExit)
  /\ UNCHANGED <<outstanding, mutex, lateCalls, cursor, game, udpVars>>

CloseSocket_StillListening ==
  /\ At("exitSweep", "closing") /\ SweepDone
  /\ UNCHANGED <<taskVars, game, udpVars>>

CloseSocket ==
  /\ At("exitSweep", "closing") /\ SweepDone
  /\ listening' = FALSE
  /\ UNCHANGED <<taskVars, game, receiver>>

SocketClosed ==
  /\ At("closing", "out") /\ receiver = "ended"
  /\ receiver' = "none"
  /\ game' = NoGame(game.setup)
  /\ UNCHANGED <<taskVars, cursor, listening>>

\* Ending a game, or leaving, once begun.
Shutdown ==
  \/ Sweep \/ SpokeCleared
  \/ \E complete \in BOOLEAN : HubCheck(complete)
  \/ HubStopped \/ HubCleared \/ CloseSocket \/ SocketClosed

Next ==
  \/ NetEnter \/ SyncHub \/ SyncSpoke
  \/ \E server \in BOOLEAN : SyncRing(server)
  \/ UnSyncRing \/ SpokeCleanup \/ Shutdown \/ NetExit
  \/ Receiver \/ LastDropped
  \/ \E t \in Tasks : TaskThread(t)

\* Every thread gets on.  Taking the mutex needs strong fairness: the others let
\* go of it again and again, and sleep in between.  The hub hears or drops the
\* last player in the end: see GracefulCleanupEnds in StarHub.
Fairness ==
  /\ WF_vars(Shutdown)
  /\ WF_vars(SyncSpoke)
  /\ SF_vars(\E complete \in BOOLEAN : HubCheck(complete))
  /\ WF_vars(SocketsChecked(FALSE)) /\ WF_vars(Received) /\ WF_vars(HandlerEnds)
  /\ SF_vars(HandlerBegins)
  /\ SF_vars(LastDropped)
  /\ \A t \in Tasks :
       /\ WF_vars(TaskThread(t))
       /\ SF_vars(TickBegins(t))
       /\ WF_vars(CallEnds(t) /\ UNCHANGED <<mainVars, udpVars>>)

Spec == Init /\ [][Next]_vars /\ Fairness

------------------------------------------------------------------------------
(***************************************************************************)
(* Properties                                                              *)
(***************************************************************************)

\* Type invariant: every flag and every thread is where the code can put it.
ThreadsTypeOK ==
  /\ task \in [Tasks -> [keep : BOOLEAN, running : BOOLEAN, reset : BOOLEAN,
                         at : Places]]
  /\ ToSet(outstanding) = {t \in Tasks : task[t].at # "none"}
  /\ Len(outstanding) = Cardinality(ToSet(outstanding))
  /\ resetDue \in [Tasks -> BOOLEAN]
  /\ mutex \in Tasks \cup {Free, "receiver"}
  /\ cursor \in 1 .. Cardinality(Tasks) + 1
  /\ receiver \in {"none", "listen", "receive", "lock", "handle", "rest",
                   "return", "ended"}

\* A task that was removed is called at most once more, as the note in
\* thread_loop says; hub_cleanup and spoke_cleanup say it is not called at all.
OneLateCall == \A t \in Tasks : lateCalls[t] <= 1

\* hub_tick and spoke_tick never run on vectors that have been cleared, and no
\* packet is handled by a spoke whose vectors have: myTMCleanup waits for the
\* one, the mutex and sSpokeActive see to the other.
DataOutlivesTicks ==
  /\ task["hub"].at = "call" => game.hubData
  /\ task["spoke"].at = "call" \/ game.spokeActive => game.spokeData
  /\ receiver = "handle" /\ game.setup = "spoke" => game.spokeData

\* No thread is left when the program has left the network.  (Ring tasks that a packet set
\* up while NetExit was running were never removed: those are left.)
RemovedTasksGone ==
  main = "out" => /\ \A t \in Tasks : task[t].at # "none" => task[t].keep
                  /\ task["hub"] = NoTask /\ task["spoke"] = NoTask
                  /\ receiver = "none"

\* A reset is found by the task's thread, unless the task ends; but for the
\* window in which, as myTMReset says itself, it is lost.
ResetFound == \A t \in Tasks : resetDue[t] ~> ~ resetDue[t]

\* Ending a game ends, and so does leaving the network: nobody waits for a
\* thread that waits for him.
ShutdownEnds ==
  /\ main = "spokeSweep" ~> main = "idle"
  /\ main = "exitSweep" ~> main = "out"

\* What hub_cleanup relies on when it clears its vectors: nobody is in the
\* middle of processing a packet.  It does not wait for the receiver.
HubDataOutlivesPackets ==
  receiver \in {"handle", "rest"} /\ game.setup = "hub" => game.hubData
=============================================================================
