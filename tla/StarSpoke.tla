------------------------------ MODULE StarSpoke ------------------------------
(***************************************************************************)
(* A spoke of the star network game protocol                               *)
(* (Source_Files/Network/network_star_spoke.cpp).                          *)
(*                                                                         *)
(* The spoke of player p samples p's action flags every tick, keeps them   *)
(* for the hub until the hub has acknowledged them, and puts into the      *)
(* action queues of the game the flags of all players that the hub sends   *)
(* it, tick by tick.  Its own flags are confirmed by a packet that covers  *)
(* their tick without containing them; a packet with reflected flags       *)
(* contains them, because the hub made some of them up.                    *)
(*                                                                         *)
(* The static variables of the C++ file are the fields of a record "s";    *)
(* the handlers are operators from such records to such records.  A word   *)
(* of action flags is a pair of the player it is for and what it was       *)
(* generated for: see Star.  s.queue[q] holds all words that were ever put *)
(* into the action queue of q; how many of them the game has taken out,    *)
(* which is what limits a packet, is the parameter "room".                 *)
(***************************************************************************)
EXTENDS Star, Sequences

CONSTANTS
  OutgoingQueueSize,      \* kDefaultOutgoingFlagsQueueSize
  MaxProvided,            \* bound: flags provided in one spoke_tick
  SpokePregameSilence,    \* mPregameTicksBeforeNetDeath
  SpokeInGameSilence,     \* mInGameTicksBeforeNetDeath
  SpokeRecoveryPeriod     \* mRecoverySendPeriod

ASSUME SpokeConstants ==
  /\ {OutgoingQueueSize, MaxProvided} \subseteq Nat \ {0}
  /\ {SpokePregameSilence, SpokeInGameSilence, SpokeRecoveryPeriod} \subseteq Nat

MaxSpokeSilence == Larger(SpokePregameSilence, SpokeInGameSilence) + 1

Words == Players \X (Ticks \cup {MadeUp, NetDead})

\* What the spoke asserts about a packet, "outgoingQueued" in its queue's
\* dequeue; "outOfSync", which it logs; and
\* "aloneWithoutFlags", which a comment says.
SpokeAssertions ==
  {"ownFlagsInOrder", "unconfirmedQueued", "flagsInOrder", "outOfSync",
   "outgoingQueued", "aloneWithoutFlags"}

IsSpoke(s) ==
  /\ s.connected \in BOOLEAN                 \* sConnected
  /\ s.active \in BOOLEAN                    \* sSpokeActive
  /\ s.heard \in BOOLEAN                     \* sHeardFromHub
  /\ s.outRead \in Ticks                     \* sOutgoingFlags
  /\ s.outWrite \in Ticks
  /\ s.unconfirmedRead \in Nat               \* sUnconfirmedFlags
  /\ s.unconfirmedWrite \in Nat
  /\ s.unconfirmed \in Nat                   \* sSmallestUnconfirmedTick
  /\ s.unreceived \in Ticks                  \* sSmallestUnreceivedTick
  /\ s.zombies \subseteq Players             \* mZombie
  /\ s.alive \subseteq Players               \* mConnected
  /\ s.deadAt \in [Players -> Ticks \cup {-1}]      \* mNetDeadTick
  /\ s.gone \subseteq Players                \* net_dead in the topology
  /\ s.queue \in [Players -> Seq(Words)]     \* mQueue
  /\ s.silence \in 0 .. MaxSpokeSilence      \* - sLastNetworkTickHeard
  /\ s.sinceSent \in 0 .. SpokeRecoveryPeriod       \* - sLastNetworkTickSent
  /\ s.failed \subseteq SpokeAssertions

-----------------------------------------------------------------------------
\* spoke_initialize
InitialSpoke(present, zombies) ==
  [connected        |-> TRUE,
   active           |-> TRUE,
   heard            |-> FALSE,
   outRead          |-> 0,
   outWrite         |-> 0,
   unconfirmedRead  |-> RealGameTick,
   unconfirmedWrite |-> RealGameTick,
   unconfirmed      |-> RealGameTick,
   unreceived       |-> 0,
   zombies          |-> zombies,
   alive            |-> present,
   deadAt           |-> [q \in Players |-> -1],
   gone             |-> Players \ present,
   queue            |-> [q \in Players |-> <<>>],
   silence          |-> 0,
   sinceSent        |-> 0,
   failed           |-> {}]

\* getWriteTick() of q's action queue.
WriteTick(s, q) == RealGameTick + Len(s.queue[q])

\* The words of p's flags for the ticks first..last-1.
OwnWords(p, first, last) == [i \in 1 .. last - first |-> <<p, first + i - 1>>]

\* q's queue after it was filled with NET_DEAD_ACTION_FLAG up to a tick.
NetDeadUpTo(s, q, tick) ==
  s.queue[q] \o [i \in 1 .. tick - WriteTick(s, q) |-> <<q, NetDead>>]

-----------------------------------------------------------------------------
(***************************************************************************)
(* The packet handler.  A packet of the hub has an acknowledgement, the    *)
(* net dead messages (a function from the dead players to their ticks),    *)
(* and, unless there are no words, the tick they start at.                 *)
(***************************************************************************)

\* Whose words for a tick the spoke looks for in a packet.
Expected(s, p, reflected, tick) ==
  {q \in Players \ s.zombies :
     /\ q = p => reflected
     /\ q \in s.alive \/ tick < s.deadAt[q]}

\* The pairs of tick and player it expects a word for, before the given tick.
Slots(s, p, packet, tick) ==
  UNION {{u} \X Expected(s, p, packet.reflected, u) : u \in packet.start .. tick - 1}

\* Mutant: words for ticks the spoke has had already are taken for new ones.
WordRead_NoneSkipped(s, p, packet, tick, q) ==
  packet.words[
    Cardinality({slot \in Slots(s, p, packet, tick) : slot[1] >= s.unreceived}) +
    Cardinality({r \in Expected(s, p, packet.reflected, tick) : r <= q})]

\* The word it reads for player q in a tick.
WordRead(s, p, packet, tick, q) ==
  packet.words[Cardinality(Slots(s, p, packet, tick)) +
    Cardinality({r \in Expected(s, p, packet.reflected, tick) : r <= q})]

\* Where the loop that reads the packet ends: there are no words left.
PacketEnd(s, p, packet) ==
  LET enough == {tick \in packet.start .. MaxTick :
                   Cardinality(Slots(s, p, packet, tick)) >= Len(packet.words)}
  IN  IF enough = {} THEN MaxTick ELSE CHOOSE t \in enough : \A u \in enough : t <= u

\* The packet ends with the last word of a tick.
InStep(s, p, packet) ==
  Cardinality(Slots(s, p, packet, PacketEnd(s, p, packet))) = Len(packet.words)

\* Nobody else is connected, or will be dropped in the future.
Alone(s, p) ==
  \A q \in Players \ {p} : q \notin s.alive /\ s.deadAt[q] <= s.outRead

\* The special "we are alone" case.
PlayedAlone(s, p) ==
  [s EXCEPT
     !.queue = [q \in Players |->
        IF q = p THEN @[p] \o OwnWords(p, s.unconfirmed, s.unconfirmedWrite)
        ELSE IF q \in s.zombies THEN @[q] ELSE NetDeadUpTo(s, q, s.outRead)],
     !.unconfirmed = Larger(@, s.unconfirmedWrite),
     !.unreceived = s.outRead]

\* Mutant: own flags are confirmed even if the packet contains others for them.
Confirms_Always(packet) == TRUE

\* Are the spoke's own flags, which the packet covers, to be confirmed?
Confirms(packet) == ~ packet.reflected

\* What an assertion adds to s.failed.
SpokeAssert(name, condition) == IF condition THEN {} ELSE {name}

\* The action flags of a packet, as far as there is room for them: "room" is
\* the least space in an action queue.  (What the loop has enqueued before it
\* finds the packet to be out of step is left out.)
FlagsReceived(s, p, packet, room) ==
  LET end    == Smaller(PacketEnd(s, p, packet), s.unreceived + room)
      first  == Larger(s.unreceived, RealGameTick)
      count  == Larger(end - first, 0)
      word(q, tick) ==
        IF q = p /\ Confirms(packet) THEN <<p, s.unconfirmed + tick - first>>
        ELSE IF q \in s.alive \/ tick < s.deadAt[q]
             THEN WordRead(s, p, packet, tick, q) ELSE <<q, NetDead>>
  IN  IF ~ InStep(s, p, packet)
      THEN [s EXCEPT !.failed = @ \cup {"outOfSync"}]
      ELSE IF end <= s.unreceived THEN s
      ELSE [s EXCEPT
        !.queue = [q \in Players |->
           IF q \in s.zombies THEN @[q]
           ELSE @[q] \o [i \in 1 .. count |-> word(q, first + i - 1)]],
        !.unconfirmed = @ + count,
        !.unreceived = end,
        !.gone = @ \cup {q \in Players \ (s.zombies \cup s.alive) :
                           s.deadAt[q] \in s.unreceived .. end - 1},
        !.failed = @
          \cup SpokeAssert("flagsInOrder", count > 0 =>
                 \A q \in Players \ s.zombies : WriteTick(s, q) = first)
          \cup SpokeAssert("unconfirmedQueued", count > 0 /\ Confirms(packet) =>
                 /\ s.unconfirmedRead <= s.unconfirmed
                 /\ s.unconfirmed + count <= s.unconfirmedWrite)
          \cup SpokeAssert("ownFlagsInOrder", count > 0 /\ Confirms(packet) =>
                 WriteTick(s, p) = s.unconfirmed)]

\* The hub acknowledges flags the spoke has not provided yet: it has made them
\* up, and only a packet that contains them may say so.
EarlyAck(s, packet) == packet.ack > s.outWrite /\ ~ packet.reflected

\* Mutant: whatever the hub says, it is taken to have got everything.
Acknowledged_All(s, packet) == s.outWrite

\* Mutant: the hub is believed to have got what it acknowledges.
Acknowledged_Early(s, packet) == Larger(s.outRead, packet.ack)

\* Up to where the packet acknowledges the spoke's flags.
Acknowledged(s, packet) == Larger(s.outRead, Smaller(packet.ack, s.outWrite))

\* The part of the packet before its flags.
MessagesReceived(s, packet) ==
  LET dead == DOMAIN packet.deaths
  IN  [s EXCEPT
        !.silence = 0,
        !.outRead = Acknowledged(s, packet),
        !.failed = @ \cup
          SpokeAssert("outgoingQueued", Acknowledged(s, packet) <= s.outWrite),
        !.alive = @ \ dead,
        !.deadAt = [q \in Players |-> IF q \in dead THEN packet.deaths[q] ELSE @[q]]]

\* Does the spoke take packets at all?
Listens(s) == s.connected /\ s.active

\* spoke_received_network_packet
SpokeReceived(s, p, packet, room) ==
  LET heard == [s EXCEPT !.heard = TRUE]
      told  == MessagesReceived(heard, packet)
      noted == [told EXCEPT !.failed =
                  @ \cup SpokeAssert("aloneWithoutFlags", ~ Alone(told, p))]
  IN  IF ~ Listens(s) THEN s
      ELSE IF EarlyAck(s, packet) THEN heard
      ELSE IF packet.words = <<>>
           THEN IF Alone(told, p) THEN PlayedAlone(told, p) ELSE told
      ELSE IF packet.start > told.unreceived \/ room <= 0 THEN noted
      ELSE FlagsReceived(noted, p, packet, room)

-----------------------------------------------------------------------------
(***************************************************************************)
(* spoke_tick                                                              *)
(***************************************************************************)

\* Mutant: the outgoing queue never runs full.
HasRoomForFlags_Always(s, p, room) == TRUE

\* The queues new flags go to: its own action queue when it is disconnected,
\* the outgoing queue in the pregame ticks, then both it and the unconfirmed
\* one (sLocallyGeneratedFlags, a DuplicatingTickBasedCircularQueue).
HasRoomForFlags(s, p, room) ==
  IF ~ s.connected THEN room > 0 /\ WriteTick(s, p) < MaxTick
  ELSE /\ s.outWrite < MaxTick
       /\ s.outWrite - s.outRead < OutgoingQueueSize
       /\ s.outWrite >= RealGameTick =>
            s.unconfirmedWrite - s.unconfirmedRead < OutgoingQueueSize

FlagsProvided(s, p) ==
  IF ~ s.connected
  THEN [s EXCEPT !.queue[p] = Append(@, <<p, WriteTick(s, p)>>)]
  ELSE [s EXCEPT !.outWrite = @ + 1,
                 !.unconfirmedWrite = IF s.outWrite >= RealGameTick THEN @ + 1 ELSE @]

\* Up to n words of flags are provided, as far as there is room.
UpToNFlagsProvided(s, p, n, room) ==
  LET after[k \in 0 .. n] ==
        IF k = 0 THEN s
        ELSE IF HasRoomForFlags(after[k - 1], p, room - (k - 1))
             THEN FlagsProvided(after[k - 1], p) ELSE after[k - 1]
  IN  after[n]

\* The end of spoke_tick when disconnected: the others are dead up to where the
\* own queue was filled in this tick, and older flags are still to be played.
PlayedOffline(s, p) ==
  [s EXCEPT
     !.queue = [q \in Players |->
        IF q = p THEN @[p] \o OwnWords(p, s.unconfirmed, s.unconfirmedWrite)
        ELSE IF q \in s.zombies THEN @[q] ELSE NetDeadUpTo(s, q, WriteTick(s, p))],
     !.unconfirmed = Larger(@, s.unconfirmedWrite)]

SilenceLimit(s) ==
  IF s.outRead >= RealGameTick THEN SpokeInGameSilence ELSE SpokePregameSilence

\* The hub has been silent for too long.
GivesUp(s) == s.connected /\ s.silence + 1 > SilenceLimit(s)

\* spoke_became_disconnected
Disconnected(s) == [s EXCEPT !.connected = FALSE, !.gone = @ \cup s.alive]

\* Both counters matter to a connected spoke only.
Aged(s) ==
  IF s.connected THEN [s EXCEPT !.silence = @ + 1,
                                !.sinceSent = Smaller(@ + 1, SpokeRecoveryPeriod)]
  ELSE s

\* Does spoke_tick send game data?
SendsInTick(s, p, n, room) ==
  LET provided == UpToNFlagsProvided(Aged(s), p, n, room)
  IN  /\ s.connected /\ ~ GivesUp(s) /\ s.heard
      /\ \/ provided.outWrite > s.outWrite
         \/ provided.sinceSent >= SpokeRecoveryPeriod

\* spoke_tick; n, the flags to provide, is what the timing adjustment asks for.
SpokeTicked(s, p, n, room) ==
  LET provided == UpToNFlagsProvided(Aged(s), p, n, room)
  IN  IF GivesUp(s) THEN Disconnected(Aged(s))
      ELSE IF ~ s.connected THEN PlayedOffline(provided, p)
      ELSE IF SendsInTick(s, p, n, room) THEN [provided EXCEPT !.sinceSent = 0]
      ELSE provided

\* What send_packet puts into a packet.
SpokePacket(s, p) ==
  [player   |-> p,
   ack      |-> s.unreceived,
   hasFlags |-> s.outWrite > s.outRead,
   start    |-> IF s.outWrite > s.outRead THEN s.outRead ELSE 0,
   count    |-> s.outWrite - s.outRead]

-----------------------------------------------------------------------------
\* Mutant: the game takes the flags it has predicted with, confirmed or not.
UnconfirmedUpdated_All(s) == [s EXCEPT !.unconfirmedRead = s.unconfirmedWrite]

\* StarGameProtocol::UpdateUnconfirmedActionFlags, in the game's own thread.
UnconfirmedUpdated(s) ==
  [s EXCEPT !.unconfirmedRead =
              Larger(@, Smaller(s.unconfirmed, s.unconfirmedWrite))]

\* spoke_cleanup, which also sends a last packet, even if it never heard from
\* the hub.
SpokeCleanedUp(s) == [s EXCEPT !.active = FALSE]
=============================================================================
