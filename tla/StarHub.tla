------------------------------- MODULE StarHub -------------------------------
(***************************************************************************)
(* The hub of the star network game protocol                               *)
(* (Source_Files/Network/network_star_hub.cpp).                            *)
(*                                                                         *)
(* Every player's machine runs a spoke; one machine also runs the hub.     *)
(* Spokes send the hub one word of action flags per game tick.  The hub    *)
(* collects a tick until every connected player has provided it, sends the *)
(* complete tick to everybody and keeps it until everybody has             *)
(* acknowledged it.  Silent players are dropped ("netdead"); with          *)
(* bandwidth reduction the hub also makes up flags for laggards.           *)
(*                                                                         *)
(* The static variables of the C++ file are the fields of the record       *)
(* "hub", so that the handlers compose as they do in the code.  An         *)
(* absolute clock is replaced by ages: h.silence[p] is                     *)
(* sNetworkTicker - mLastNetworkTickHeard, and so on.                      *)
(* h.failed collects the assertions that did not hold; they are compiled   *)
(* out of the release build, which goes on after them.                     *)
(*                                                                         *)
(* Definitions marked "Mutant" are deliberate mistakes that the properties *)
(* must detect; no action uses them.                                       *)
(***************************************************************************)
EXTENDS Star

CONSTANTS
  QueueSize,            \* kFlagsQueueSize
  PregameWindow,        \* mPregameWindowSize
  SpokeWindow,          \* bound: flags in one packet of a spoke
  PregameSilence,       \* mPregameTicksBeforeNetDeath
  InGameSilence,        \* mInGameTicksBeforeNetDeath
  SendPeriod,           \* mSendPeriod
  RecoverySendPeriod,   \* mRecoverySendPeriod
  MinimumSendPeriod,    \* mMinimumSendPeriod
  BandwidthReduction    \* mBandwidthReduction

Idle  == -1           \* hub.scan when no hub_tick is in progress
Never == MaxTick + 1  \* sSmallestPostGameTick before the game is over

ASSUME HubConstants ==
  /\ {PregameWindow, SpokeWindow, PregameSilence, InGameSilence,
      RecoverySendPeriod, MinimumSendPeriod} \subseteq Nat
  /\ QueueSize \in Nat \ {0}
  /\ SendPeriod \in Nat \ {0}
  /\ BandwidthReduction \in BOOLEAN

MaxSilence == Larger(PregameSilence, InGameSilence) + 1

\* The assertions of the hub that the model tracks.
Assertions == {"sender", "waitingForAck", "sentBefore", "dequeueInOrder",
               "queuesAligned", "waitingForFlags", "completeInOrder",
               "lateQueueCaughtUp", "lateQueueFull", "queueFull"}

\* The type of a hub state.
IsHub(h) ==
  /\ h.connected \subseteq Players                    \* sConnectedPlayersBitmask
  /\ h.addressKnown \subseteq Players                 \* mAddressKnown
  /\ h.routable \subseteq Players                     \* sAddressToPlayerIndex
  /\ h.sentTo \subseteq Players                       \* has been sent a packet
  /\ h.unacknowledged \in [Players -> Ticks]          \* mSmallestUnacknowledgedTick
  /\ h.netDeadTick \in [Players -> Ticks \cup {-1}]   \* mNetDeadTick
  /\ h.silence \in [Players -> 0 .. MaxSilence]
  /\ h.flags \in [Players -> [Ticks -> Ticks \cup {None, MadeUp}]]
  /\ h.flagsRead \in [Players -> Ticks]               \* sFlagsQueues
  /\ h.flagsWrite \in [Players -> Ticks]
  /\ h.lateRead \in [Players -> Ticks]                \* sLateFlagsQueues
  /\ h.lateWrite \in [Players -> Ticks]
  /\ h.disposition \in [Ticks -> SUBSET Players]      \* sPlayerDataDisposition
  /\ h.reflected \in [Ticks -> SUBSET Players]        \* sPlayerReflectedFlags
  /\ h.read \in Ticks            \* read tick of the three per-tick queues,
                                 \* dequeued by the same three statements
  /\ h.write \in Ticks           \* write tick of disposition and reflected
  /\ h.sendTimeWrite \in Ticks   \* write tick of sFlagSendTimeQueue
  /\ h.incomplete \in Ticks      \* sSmallestIncompleteTick
  /\ h.unsent \in Ticks          \* sSmallestUnsentTick
  /\ h.lagging \subseteq Players                      \* sLaggingPlayersBitmask
  /\ h.sinceUpdate \in 0 .. MinimumSendPeriod         \* - sLastRealUpdate
  /\ h.sinceSent \in 0 .. RecoverySendPeriod          \* - sLastNetworkTickSent
  /\ h.scan \in -1 .. NumPlayers  \* loop index of a running hub_tick
  /\ h.dropped \in BOOLEAN        \* its local variable shouldSend
  /\ h.active \in BOOLEAN         \* sHubActive
  /\ h.postGame \in Ticks \cup {Never}                \* sSmallestPostGameTick
  /\ h.phase \in {"running", "draining", "done"}      \* hub_cleanup
  /\ h.failed \subseteq Assertions

VARIABLE hub

-----------------------------------------------------------------------------
(***************************************************************************)
(* hub_initialize                                                          *)
(***************************************************************************)

InitialHub(present) ==
  [connected      |-> present,
   addressKnown   |-> {LocalPlayer},
   routable       |-> {LocalPlayer},
   sentTo         |-> {},
   unacknowledged |-> [p \in Players |-> 0],
   netDeadTick    |-> [p \in Players |-> -1],
   silence        |-> [p \in Players |-> 0],
   flags          |-> [p \in Players |-> [t \in Ticks |-> None]],
   flagsRead      |-> [p \in Players |-> 0],
   flagsWrite     |-> [p \in Players |-> 0],
   lateRead       |-> [p \in Players |-> 0],
   lateWrite      |-> [p \in Players |-> 0],
   disposition    |-> [t \in Ticks |-> {}],
   reflected      |-> [t \in Ticks |-> {}],
   read           |-> 0,
   write          |-> 0,
   sendTimeWrite  |-> 0,
   incomplete     |-> 0,
   unsent         |-> 0,
   lagging        |-> {},
   sinceUpdate    |-> 0,
   sinceSent      |-> 0,
   scan           |-> Idle,
   dropped        |-> FALSE,
   active         |-> TRUE,
   postGame       |-> Never,
   phase          |-> "running",
   failed         |-> {}]

Init == \E present \in SUBSET Players :
          /\ LocalPlayer \in present
          /\ hub = InitialHub(present)

-----------------------------------------------------------------------------
(***************************************************************************)
(* The helpers the handlers share.  Each maps a hub state to the state     *)
(* after the call.                                                         *)
(***************************************************************************)

\* What an assertion adds to h.failed.
Assert(name, condition) == IF condition THEN {} ELSE {name}

\* Mutant: disconnected players hold up the completion, too.
CheckForCompletion_AllPlayers(h) ==
  IF \E p \in Players : h.unacknowledged[p] < h.postGame
  THEN h ELSE [h EXCEPT !.active = FALSE]

\* hub_check_for_completion
CheckForCompletion(h) ==
  IF \E p \in h.connected : h.unacknowledged[p] < h.postGame
  THEN h ELSE [h EXCEPT !.active = FALSE]

\* Mutant: a tick leaves the queues once anyone has acknowledged it.
Emptied_AtFirstAck(h, p, acked) == acked

\* The ticks nobody but p is waited on for.
Emptied(h, p, acked) == {t \in acked : h.disposition[t] \ {p} = {}}

\* player_acknowledged_up_to_tick after its test for late acknowledgements.
\* The queues give up each tick nobody is waited on for any more.
AcknowledgementTaken(h, p, ack) ==
  LET acked   == h.unacknowledged[p] .. ack - 1
      emptied == Emptied(h, p, acked)
      n       == Cardinality(emptied)
  IN  CheckForCompletion(
        [h EXCEPT
          !.silence[p] = 0,
          !.unacknowledged[p] = ack,
          !.disposition = [t \in Ticks |->
             IF t \in acked THEN h.disposition[t] \ {p} ELSE h.disposition[t]],
          !.reflected = [t \in Ticks |->
             IF t \in emptied THEN {} ELSE h.reflected[t]],
          !.read = @ + n,
          !.flagsRead = [q \in Players |->
             Smaller(h.flagsRead[q] + n, h.flagsWrite[q])],
          !.failed = @
             \cup Assert("waitingForAck", \A t \in acked : p \in h.disposition[t])
             \cup Assert("sentBefore", p # LocalPlayer /\ acked # {}
                                         => ack <= h.sendTimeWrite)
             \cup Assert("dequeueInOrder", emptied = h.read .. h.read + n - 1)
             \cup Assert("queuesAligned", emptied # {} =>
                     \A q \in Players : h.flagsRead[q] < h.flagsWrite[q]
                                          => h.flagsRead[q] = h.read)])

\* Mutant: late acknowledgements are not ignored.
PlayerAcknowledged_LateToo(h, p, ack) == AcknowledgementTaken(h, p, ack)

\* player_acknowledged_up_to_tick
PlayerAcknowledged(h, p, ack) ==
  IF ack < h.unacknowledged[p] THEN h ELSE AcknowledgementTaken(h, p, ack)

\* Mutant: whoever provides a tick completes it.
Completed_ByAnyone(waiting, p, provided) == provided

\* The provided ticks that wait for nobody but p.
Completed(waiting, p, provided) == {t \in provided : waiting[t] \ {p} = {}}

\* player_provided_flags_from_tick_to_tick: p's flags for first..last-1 came.
\* Its result (is there a new complete tick to send?) is incomplete' > incomplete.
PlayerProvided(h, p, first, last) ==
  LET provided  == first .. last - 1
      waiting   == [t \in Ticks |-> IF h.write <= t /\ t < last
                                    THEN h.connected ELSE h.disposition[t]]
      completed == Completed(waiting, p, provided)
      n         == Cardinality(completed)
  IN  [h EXCEPT
          !.write = Larger(@, last),
          !.disposition = [t \in Ticks |->
             IF t \in completed THEN h.connected
             ELSE IF t \in provided THEN waiting[t] \ {p} ELSE waiting[t]],
          !.lagging = IF provided = {} THEN @ ELSE @ \ {p},
          !.lateRead[p] = IF provided = {} THEN @ ELSE h.lateWrite[p],
          !.incomplete = @ + n,
          !.sinceUpdate = IF completed = {} THEN @ ELSE 0,
          !.failed = @
             \cup Assert("queueFull", Larger(h.write, last) - h.read <= QueueSize)
             \cup Assert("waitingForFlags", \A t \in provided : p \in waiting[t])
             \cup Assert("completeInOrder",
                         completed = h.incomplete .. h.incomplete + n - 1)]

\* send_packets: what it does to the hub's own state.
SendPackets(h) ==
  [h EXCEPT !.sendTimeWrite = Larger(@, h.incomplete),
            !.sentTo = @ \cup (h.connected \cap h.addressKnown),
            !.sinceSent = 0,
            !.unsent = h.incomplete,
            !.failed = @ \cup Assert("queueFull",
                                     h.incomplete - h.read <= QueueSize)]

\* Mutant: the player is taken to be dead from its own last acknowledgement on.
DeathTick_LastAck(h, p) == h.unacknowledged[p]

\* The mNetDeadTick that make_player_netdead sets.
DeathTick(h, p) == h.incomplete

\* Mutant: the dead player's outstanding flags stay awaited.
MakePlayerNetDead_StillAwaited(h, p) ==
  PlayerAcknowledged(
    [h EXCEPT !.netDeadTick[p] = DeathTick(h, p), !.connected = @ \ {p},
              !.routable = @ \ {p}], p, h.incomplete)

\* make_player_netdead.  The address that is erased from the map is the one p
\* identified itself with; before that it is all zeros, the local spoke's.
MakePlayerNetDead(h, p) ==
  LET erased == IF p \in h.addressKnown THEN p ELSE LocalPlayer
      dead   == [h EXCEPT !.netDeadTick[p] = DeathTick(h, p),
                          !.connected = @ \ {p},
                          !.routable = @ \ {erased}]
  IN  PlayerAcknowledged(
        PlayerProvided(dead, p, h.flagsWrite[p], h.write), p, h.incomplete)

\* The players make_up_flags_for_first_incomplete_tick works for: dead ones
\* too, if their flags stop exactly here.
WithoutFlags(h) == {p \in Players : h.flagsWrite[p] = h.incomplete}

CanMakeUpFlags(h) ==
  /\ h.write # h.incomplete
  /\ LocalPlayer \notin WithoutFlags(h)
  /\ WithoutFlags(h) \subseteq h.lagging

\* Mutant: flags collapsed from the late queue are not reflected.
ReflectedBits_NoLate(h) ==
  h.reflected[h.incomplete]
    \cup {p \in WithoutFlags(h) : h.lateRead[p] = h.lateWrite[p]}

\* Whose flags for the first incomplete tick are to be reflected.
ReflectedBits(h) == h.reflected[h.incomplete] \cup WithoutFlags(h)

\* make_up_flags_for_first_incomplete_tick, when it returns true.  Late flags
\* up to the midpoint of their queue are collapsed into the made-up ones.
MakeUpFlags(h) ==
  LET late(p) == h.lateWrite[p] - h.lateRead[p]
  IN  [h EXCEPT
          !.flags = [p \in Players |->
             IF p \in WithoutFlags(h)
             THEN [h.flags[p] EXCEPT ![h.incomplete] = MadeUp]
             ELSE h.flags[p]],
          !.flagsWrite = [p \in Players |->
             IF p \in WithoutFlags(h) THEN h.incomplete + 1
                                      ELSE h.flagsWrite[p]],
          !.lateRead = [p \in Players |->
             IF p \in WithoutFlags(h) /\ late(p) > 0
             THEN h.lateRead[p] + late(p) \div 2 + 1 ELSE h.lateRead[p]],
          !.reflected[h.incomplete] = ReflectedBits(h),
          !.disposition[h.incomplete] = h.connected,
          !.incomplete = @ + 1,
          !.sinceUpdate = 0,
          !.failed = @ \cup Assert("queueFull", \A p \in WithoutFlags(h) :
                         h.flagsWrite[p] - h.flagsRead[p] < QueueSize)]

-----------------------------------------------------------------------------
(***************************************************************************)
(* The packet handler                                                      *)
(***************************************************************************)

\* Mutant: flags that come late are taken for new ones.
LateFlags_None(h, p, lateWrite, useful) == 0

\* How many of the useful flags are for ticks the hub has already made up.
LateFlags(h, p, lateWrite, useful) ==
  Smaller(h.flagsWrite[p] - lateWrite, useful)

\* The action flags part of hub_received_game_data_packet_v1: "count" flags
\* for the ticks from "start".  Flags for ticks the hub has made up in the
\* meantime go to the late queue.
ReceiveFlags(h, p, start, count) ==
  LET filled    == start > h.lateWrite[p]
      lateWrite == IF filled THEN h.flagsWrite[p] ELSE h.lateWrite[p]
      lateRead  == h.lateRead[p] + (lateWrite - h.lateWrite[p])
      redundant == Smaller(lateWrite - start, count)
      late      == LateFlags(h, p, lateWrite, count - redundant)
      size      == h.flagsWrite[p] - h.flagsRead[p]
      room      == IF h.read < RealGameTick /\ size > PregameWindow
                   THEN 0 ELSE QueueSize - size
      fresh     == Smaller(count - redundant - late, room)
      first     == start + redundant + late
      enqueued  ==
        [h EXCEPT
          !.flags[p] = [t \in Ticks |->
             IF h.flagsWrite[p] <= t /\ t < h.flagsWrite[p] + fresh
             THEN first + (t - h.flagsWrite[p]) ELSE h.flags[p][t]],
          !.flagsWrite[p] = @ + fresh,
          !.lateWrite[p] = lateWrite + late + fresh,
          !.lateRead[p] = lateRead,
          !.failed = @
             \cup Assert("lateQueueCaughtUp",
                         fresh > 0 => h.flagsWrite[p] = lateWrite + late)
             \cup Assert("lateQueueFull",
                         /\ lateWrite > h.lateWrite[p]
                              => h.lateWrite[p] - h.lateRead[p] < QueueSize
                         /\ late + fresh > 0
                              => lateWrite + late + fresh - lateRead <= QueueSize)]
      provided  == PlayerProvided(enqueued, p, first, first + fresh)
  IN  IF start > h.flagsWrite[p] THEN h
      ELSE IF fresh <= 0 THEN enqueued
      ELSE IF /\ provided.incomplete > enqueued.incomplete
              /\ provided.incomplete - provided.unsent >= SendPeriod
           THEN SendPackets(provided) ELSE provided

\* hub_received_game_data_packet_v1 after the lookup of the sender; a packet
\* without flags ends after the acknowledgement.
ReceivedGameData(h, p, ack, hasFlags, start, count) ==
  LET acked == PlayerAcknowledged(
                 [h EXCEPT !.failed =
                    @ \cup Assert("sender", p \in h.connected)], p, ack)
  IN  IF ack > h.incomplete THEN h
      ELSE IF hasFlags THEN ReceiveFlags(acked, p, start, count)
      ELSE acked

-----------------------------------------------------------------------------
(***************************************************************************)
(* hub_tick, one loop iteration per step: handlers and ticks exclude each  *)
(* other (mytm_mutex), so no handler runs while hub.scan # Idle.           *)
(***************************************************************************)

TickStarted(h) ==
  [h EXCEPT !.silence = [p \in Players |->
               IF p \in h.connected THEN Smaller(h.silence[p] + 1, MaxSilence)
                                    ELSE h.silence[p]],
            !.sinceUpdate = Smaller(@ + 1, MinimumSendPeriod),
            !.sinceSent = Smaller(@ + 1, RecoverySendPeriod),
            !.scan = 0,
            !.dropped = FALSE]

\* Too long silent, or its acknowledgements lag a whole queue behind.
MustDrop(h, p) ==
  LET limit == IF h.unacknowledged[p] < RealGameTick
               THEN PregameSilence ELSE InGameSilence
  IN  /\ p \in h.connected
      /\ \/ h.silence[p] > limit
         \/ /\ p # LocalPlayer
            /\ h.unacknowledged[p] >= RealGameTick
            /\ h.unacknowledged[LocalPlayer] - h.unacknowledged[p] >= QueueSize

PlayerScanned(h) ==
  LET p == h.scan
  IN  IF MustDrop(h, p)
      THEN [MakePlayerNetDead(h, p) EXCEPT !.scan = p + 1, !.dropped = TRUE]
      ELSE [h EXCEPT !.scan = p + 1]

\* In-game ticks with bandwidth reduction get the laggards' flags made up.
Reducing(h) == BandwidthReduction /\ h.read >= RealGameTick

\* Connected players with no death on record; the code tests mNetDeadTick too.
Alive(h) == {p \in h.connected : RealGameTick > h.netDeadTick[p]}

LaggardsMarked(h) ==
  IF h.sinceUpdate >= MinimumSendPeriod
  THEN [h EXCEPT !.lagging = @ \cup
          ((Alive(h) \cap h.disposition[h.incomplete]) \ {LocalPlayer})]
  ELSE h

\* Mutant: half of them is enough.
MajorityReady_Half(h) ==
  LET nonReady == Alive(h) \cap h.disposition[h.incomplete]
  IN  Cardinality(Alive(h) \ nonReady) >= Cardinality(nonReady)

MajorityReady(h) ==
  LET nonReady == Alive(h) \cap h.disposition[h.incomplete]
  IN  Cardinality(Alive(h) \ nonReady) > Cardinality(nonReady)

FlagsMadeUp(h) ==
  LET marked == LaggardsMarked(h)
  IN  IF MinimumSendPeriod < SendPeriod \/ h.incomplete >= h.write
      THEN h
      ELSE IF marked.lagging # {} /\ MajorityReady(marked)
                                  /\ CanMakeUpFlags(marked)
           THEN MakeUpFlags(marked)
           ELSE marked

\* Does hub_tick send?
SendsAtTickEnd(h) ==
  Reducing(h) \/ h.dropped \/ h.sinceSent >= RecoverySendPeriod

TickFinished(h) ==
  LET finished == [h EXCEPT !.scan = Idle, !.dropped = FALSE]
      madeUp   == IF Reducing(h) THEN FlagsMadeUp(finished) ELSE finished
  IN  IF SendsAtTickEnd(h) THEN SendPackets(madeUp) ELSE finished

-----------------------------------------------------------------------------
(***************************************************************************)
(* hub_cleanup                                                             *)
(***************************************************************************)

CleanedUp(h, graceful, tick) ==
  IF graceful
  THEN CheckForCompletion([h EXCEPT !.postGame = tick, !.phase = "draining"])
  ELSE [h EXCEPT !.active = FALSE, !.phase = "done"]

-----------------------------------------------------------------------------
(***************************************************************************)
(* The actions.  The packets are those a spoke can send: it sends game     *)
(* data only once it has heard from the hub, acknowledges no more than it  *)
(* was sent, and starts its flags no later than the hub's last             *)
(* acknowledgement to it (StarGame!HubAssumptionsMet; the exception is the *)
(* packet of spoke_cleanup, for which see StarGame!SenderConnected).  Any  *)
(* of them may come late, twice or never.  The local spoke is shut down    *)
(* before hub_cleanup is called.                                           *)
(***************************************************************************)

HubReceivedIdentification(p) ==
  /\ hub.scan = Idle /\ hub.active
  /\ p \notin hub.addressKnown
  /\ p \in hub.connected \/ hub.netDeadTick[p] # -1   \* p has a spoke
  /\ hub' = [hub EXCEPT !.routable = @ \cup {p}, !.addressKnown = @ \cup {p}]

HubReceivedGameData(p, ack, hasFlags, start, count) ==
  /\ hub.scan = Idle /\ hub.active
  /\ p \in hub.routable \cap hub.sentTo
  /\ p = LocalPlayer => hub.phase = "running"
  /\ ack <= hub.sendTimeWrite
  /\ start <= hub.flagsWrite[p]
  /\ start + count <= MaxTick
  /\ hub' = ReceivedGameData(hub, p, ack, hasFlags, start, count)

BeginHubTick ==
  /\ hub.scan = Idle /\ hub.phase # "done"
  /\ hub' = TickStarted(hub)

ScanPlayer ==
  /\ hub.scan \in Players
  /\ hub' = PlayerScanned(hub)

FinishHubTick ==
  /\ hub.scan = NumPlayers
  /\ hub' = TickFinished(hub)

\* The game ended at a tick that the local spoke had been sent, the first real
\* one if it was left during the pregame ticks.
HubCleanup(graceful, tick) ==
  /\ hub.scan = Idle /\ hub.phase = "running"
  /\ tick >= RealGameTick /\ tick <= Larger(RealGameTick, hub.sendTimeWrite)
  /\ hub' = CleanedUp(hub, graceful, tick)

\* hub_cleanup's wait is over.
HubStops ==
  /\ hub.scan = Idle /\ hub.phase = "draining" /\ ~ hub.active
  /\ hub' = [hub EXCEPT !.phase = "done"]

Stopped == hub.phase = "done" /\ hub.scan = Idle /\ UNCHANGED hub

Next ==
  \/ \E p \in Players : HubReceivedIdentification(p)
  \/ \E p \in Players, ack \in Ticks :
       HubReceivedGameData(p, ack, FALSE, 0, 0)
  \/ \E p \in Players, ack \in Ticks, start \in Ticks, count \in 0 .. SpokeWindow :
       HubReceivedGameData(p, ack, TRUE, start, count)
  \/ BeginHubTick
  \/ ScanPlayer
  \/ FinishHubTick
  \/ \E graceful \in BOOLEAN, tick \in Ticks : HubCleanup(graceful, tick)
  \/ HubStops
  \/ Stopped

Spec == Init /\ [][Next]_hub

(***************************************************************************)
(* Fairness.  The timer thread keeps running hub_tick, and the loop in it  *)
(* ends; hub_cleanup polls sHubActive; and a remote player whose packets   *)
(* keep being accepted gets one through again and again that acknowledges  *)
(* what it was sent and provides its next flags: its spoke repeats both at *)
(* least every recovery period.  A spoke that stops falls silent instead.  *)
(* (Written out without WF, whose ENABLED TLC would evaluate at great      *)
(* expense.)                                                               *)
(***************************************************************************)
CaughtUp(p) ==
  HubReceivedGameData(p, hub.sendTimeWrite, TRUE, hub.flagsWrite[p],
                      Smaller(1, MaxTick - hub.flagsWrite[p]))

Fairness ==
  /\ []<>(hub.scan = Idle)
  /\ []<>(hub.phase = "done") \/ []<><<hub.scan = Idle /\ hub'.scan = 0>>_hub
  /\ \/ []<>(hub.phase # "draining" \/ hub.active)
     \/ []<><<hub'.phase = "done">>_hub
  /\ \A p \in Players \ {LocalPlayer} :
       \/ []<>(p \notin hub.routable \cap hub.sentTo \/ ~ hub.active)
       \/ []<><<CaughtUp(p)>>_hub

FairSpec == Spec /\ Fairness

-----------------------------------------------------------------------------
(***************************************************************************)
(* Properties                                                              *)
(***************************************************************************)

\* Every variable of the hub has its type.
TypeOK == IsHub(hub)

\* The assertions in network_star_hub.cpp hold, but for two: see
\* NoAcknowledgementBeforeSending, and the remark in
\* hub_received_game_data_packet_v1 that the late queue is not checked for
\* capacity "though we probably should".
AssertionsHold == hub.failed \subseteq {"sentBefore", "lateQueueFull"}

\* sPlayerDataDisposition says exactly whom the hub waits for: for an
\* acknowledgement below sSmallestIncompleteTick, for flags from there on; and
\* no tick stays queued with nobody to wait for.
WaitingSetsExact ==
  \A t \in hub.read .. hub.write - 1 :
    /\ hub.disposition[t] =
         IF t < hub.incomplete
         THEN {p \in hub.connected : hub.unacknowledged[p] <= t}
         ELSE {p \in hub.connected : hub.flagsWrite[p] <= t}
    /\ hub.connected # {} => hub.disposition[t] # {}

\* Whatever send_packets may still have to send to a connected player is in
\* the queues: no peek is out of range, and none returns an unset element.
SendableFlagsQueued ==
  \A p \in hub.connected, q \in Players :
    \A t \in hub.unacknowledged[p] .. hub.incomplete - 1 :
      q \in hub.connected \/ t < hub.netDeadTick[q] =>
        /\ hub.flagsRead[q] <= t /\ t < hub.flagsWrite[q]
        /\ hub.flags[q][t] # None

\* A queued flags word was generated for the tick it is played in, or made up
\* by the hub: late, redundant and repeated packets never shift the stream.
FlagsInTheirTick ==
  \A p \in Players : \A t \in 0 .. hub.flagsWrite[p] - 1 :
    hub.flags[p][t] \in {t, MadeUp}

\* The hub reflects a player's own flags back to it for exactly those complete
\* ticks whose flags it made up.
MadeUpFlagsReflected ==
  \A t \in hub.read .. hub.incomplete - 1 :
    hub.reflected[t] = {p \in Players : hub.flags[p][t] = MadeUp}

\* A player is dropped once, for good, from a tick on that nobody has been sent
\* yet and up to which the hub has all of its flags.
NetDeadTickFinal ==
  [][\A p \in Players :
       /\ p \notin hub.connected => /\ p \notin hub'.connected
                                    /\ hub'.netDeadTick[p] = hub.netDeadTick[p]
       /\ p \in hub.connected \ hub'.connected =>
            hub'.netDeadTick[p] \in hub.sendTimeWrite .. hub.flagsWrite[p]]_hub

\* Flags are made up only for remote players, and only while more than half of
\* the connected players have provided theirs.
OnlyMinorityMadeUp ==
  [][\A p \in Players, t \in Ticks :
       hub'.flags[p][t] = MadeUp /\ hub.flags[p][t] # MadeUp =>
         /\ p # LocalPlayer
         /\ 2 * Cardinality({q \in hub.connected : hub.flagsWrite[q] > t})
              > Cardinality(hub.connected)]_hub

\* hub_cleanup's wait for the last acknowledgements ends.
GracefulCleanupEnds == hub.phase = "draining" ~> hub.phase = "done"

\* player_acknowledged_up_to_tick asserts that a tick it marks as acknowledged
\* has been sent.  Does not hold: when two players are dropped in one hub_tick,
\* the first one's end can complete a tick that the second is then marked as
\* having acknowledged before send_packets has sent it.
NoAcknowledgementBeforeSending == "sentBefore" \notin hub.failed
=============================================================================
