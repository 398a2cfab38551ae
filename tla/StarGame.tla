------------------------------ MODULE StarGame ------------------------------
(***************************************************************************)
(* A game over the star protocol: the hub, the spokes, and the network     *)
(* between them (StarGameProtocol.cpp, and the hub and spoke files).       *)
(*                                                                         *)
(* The spokes of the players in Observed are modelled.  Those in Absent    *)
(* have no spoke (and are zombies to the others); any other player sends   *)
(* the hub its flags one by one, or stops to.  A packet may be lost, come  *)
(* twice, or come after later ones: toHub[p] and toSpoke[p] hold the       *)
(* packets that may still arrive.                                          *)
(*                                                                         *)
(* The hub and the spoke on its machine call each other directly; a packet *)
(* of either is handled by the other before anything else happens.  Their  *)
(* two timers have the same period: "turn" says whose tick is next.  The   *)
(* hub's machine does not leave the game here; hub_cleanup is in StarHub.  *)
(***************************************************************************)
EXTENDS StarHub, StarSpoke

CONSTANTS
  Observed,         \* the players whose spokes are modelled
  Absent,           \* players that are not in the game any more when it starts
  NetworkCapacity,  \* bound: packets under way from or to a player
  RecentFlags,      \* ticks in an incremental update (3 in send_packets)
  FullUpdate,       \* maxTicks of a recovery update with bandwidth reduction
  GameQueueSize,    \* capacity of the game's action queues
  MostUnread        \* bound: words the game may have left in one of them

ASSUME GameConstants ==
  /\ LocalPlayer \in Observed /\ Observed \subseteq Players \ Absent
  /\ Absent \subseteq Players
  /\ {NetworkCapacity, RecentFlags, FullUpdate, GameQueueSize} \subseteq Nat \ {0}
  /\ MostUnread \in 0 .. GameQueueSize

VARIABLES spokes, toHub, toSpoke, turn
vars == <<hub, spokes, toHub, toSpoke, turn>>

Remote == Observed \ {LocalPlayer}

-----------------------------------------------------------------------------
(***************************************************************************)
(* Packets of the hub (send_packets)                                       *)
(***************************************************************************)

\* The ticks that are sent to p, all it has not acknowledged unless bandwidth
\* is to be saved: then either the oldest or the latest of them.
SentTicks(h, p, incremental) ==
  LET oldest == h.unacknowledged[p]
  IN  IF ~ Reducing(h) THEN oldest .. h.incomplete - 1
      ELSE IF incremental
           THEN Larger(h.incomplete - RecentFlags, oldest) .. h.incomplete - 1
      ELSE oldest .. Smaller(oldest + FullUpdate, h.incomplete) - 1

\* theSmallestTickWeWontSend of another player.
ContributesUpTo(h, q) ==
  IF q \in h.connected THEN h.incomplete ELSE h.netDeadTick[q]

\* Does p get its own flags, because some of them were made up?
Reflects(h, p, ticks) == \E t \in ticks : p \in h.reflected[t]

\* The i-th of some pairs of tick and player, in tick-major order.
Nth(slots, i) ==
  CHOOSE a \in slots :
    Cardinality({b \in slots : b[1] < a[1] \/ (b[1] = a[1] /\ b[2] < a[2])}) = i - 1

HubPacket(h, p, incremental) ==
  LET ticks == SentTicks(h, p, incremental)
      own   == Reflects(h, p, ticks)
      slots == {a \in ticks \X Players :
                  (a[2] = p => own) /\ a[1] < ContributesUpTo(h, a[2])}
      dead  == {q \in Players : h.unacknowledged[p] <= h.netDeadTick[q]}
  IN  [ack       |-> h.flagsWrite[p],
       deaths    |-> [q \in dead |-> h.netDeadTick[q]],
       reflected |-> own,
       start     |-> IF slots = {} THEN 0 ELSE Nth(slots, 1)[1],
       words     |-> [i \in 1 .. Cardinality(slots) |->
                        LET a == Nth(slots, i) IN <<a[2], h.flags[a[2]][a[1]]>>]]

-----------------------------------------------------------------------------
(***************************************************************************)
(* Steps                                                                   *)
(***************************************************************************)

\* The least space the game may have left in p's action queues.
Rooms(s) ==
  LET most == CHOOSE n \in {Len(s.queue[q]) : q \in Players} :
                \A q \in Players : Len(s.queue[q]) <= n
  IN  GameQueueSize - Smaller(most, MostUnread) .. GameQueueSize

\* A spoke whose game, if it leaves nothing unread, has taken out the confirmed
\* flags, too.
Drained(s) == IF MostUnread = 0 THEN UnconfirmedUpdated(s) ELSE s

\* Which packets may still arrive: beyond the bound some are lost.  (That they
\* may all be lost is among the behaviours: none needs to arrive.)
Kept(packets) ==
  {kept \in SUBSET packets :
     Cardinality(kept) = Smaller(NetworkCapacity, Cardinality(packets))}

\* A handler of the hub takes it to state h, and "sends" says whether it called
\* send_packets.  The spokes are in the states "before" until they get a packet.
HubDoes(h, sends, before) ==
  /\ hub' = h
  /\ IF ~ sends
     THEN spokes' = before /\ UNCHANGED toSpoke
     ELSE \E incremental \in IF Reducing(h) THEN BOOLEAN ELSE {FALSE} :
       LET packet  == [p \in Observed \cap h.connected \cap h.addressKnown |->
                         HubPacket(h, p, incremental)]
           offered == [p \in Remote |-> toSpoke[p] \cup
                         IF p \in DOMAIN packet /\ Listens(before[p])
                         THEN {packet[p]} ELSE {}]
       IN  /\ IF LocalPlayer \in DOMAIN packet
              THEN \E room \in Rooms(before[LocalPlayer]) :
                     spokes' = [before EXCEPT ![LocalPlayer] =
                       Drained(SpokeReceived(@, LocalPlayer, packet[LocalPlayer], room))]
              ELSE spokes' = before
           /\ toSpoke' \in {kept \in [Remote -> UNION {Kept(offered[p]) : p \in Remote}] :
                              \A p \in Remote : kept[p] \in Kept(offered[p])}

\* What the hub does with game data of player p: nothing, if it does not know
\* its address.
HubTakes(packet) ==
  IF hub.active /\ packet.player \in hub.routable
  THEN ReceivedGameData(hub, packet.player, packet.ack, packet.hasFlags,
                        packet.start, packet.count)
  ELSE hub

HubGets(packet, before) ==
  LET h == HubTakes(packet) IN HubDoes(h, h.unsent # hub.unsent, before)

SpokeTick(p) ==
  /\ p = LocalPlayer => turn = "spoke"
  /\ turn' = IF p = LocalPlayer THEN "hub" ELSE turn
  /\ spokes[p].active
  /\ \E n \in 0 .. MaxProvided :
     \E room \in IF spokes[p].connected THEN {GameQueueSize} ELSE Rooms(spokes[p]) :
       LET s      == Drained(SpokeTicked(spokes[p], p, n, room))
           sends  == SendsInTick(spokes[p], p, n, room)
           ticked == [spokes EXCEPT ![p] = s]
       IN  IF ~ sends
           THEN spokes' = ticked /\ UNCHANGED <<hub, toHub, toSpoke>>
           ELSE IF p = LocalPlayer
           THEN HubGets(SpokePacket(s, p), ticked) /\ UNCHANGED toHub
           ELSE /\ \E kept \in Kept(toHub[p] \cup {SpokePacket(s, p)}) :
                     toHub' = [toHub EXCEPT ![p] = kept]
                /\ spokes' = ticked
                /\ UNCHANGED <<hub, toSpoke>>

\* A remote player leaves the game.
SpokeCleanup(p) ==
  /\ spokes[p].active
  /\ spokes' = [spokes EXCEPT ![p] = SpokeCleanedUp(@)]
  /\ \E kept \in Kept(toHub[p] \cup {SpokePacket(spokes[p], p)}) :
       toHub' = [toHub EXCEPT ![p] = kept]
  /\ UNCHANGED <<hub, toSpoke, turn>>

\* A packet arrives at the hub; the same one may arrive again.
HubReceives(p) ==
  /\ \E packet \in toHub[p] : HubGets(packet, spokes)
  /\ UNCHANGED <<toHub, turn>>

SpokeReceives(p) ==
  /\ \E packet \in toSpoke[p], room \in Rooms(spokes[p]) :
       spokes' = [spokes EXCEPT ![p] = Drained(SpokeReceived(@, p, packet, room))]
  /\ UNCHANGED <<hub, toHub, toSpoke, turn>>

\* The game's own thread.  It has no effect when disconnected.
UpdateUnconfirmed(p) ==
  /\ Listens(spokes[p])
  /\ UnconfirmedUpdated(spokes[p]) # spokes[p]
  /\ spokes' = [spokes EXCEPT ![p] = UnconfirmedUpdated(@)]
  /\ UNCHANGED <<hub, toHub, toSpoke, turn>>

\* The identification packets of a spoke that has not heard from the hub.
HubIdentifies(p) ==
  /\ HubReceivedIdentification(p)
  /\ UNCHANGED <<spokes, toHub, toSpoke, turn>>

\* A whole hub_tick: nothing else of the hub runs while it does.
Scanned(h) ==
  LET after[k \in 0 .. NumPlayers] ==
        IF k = 0 THEN TickStarted(h) ELSE PlayerScanned(after[k - 1])
  IN  after[NumPlayers]

HubTick ==
  /\ turn = "hub"
  /\ turn' = "spoke"
  /\ LET scanned == Scanned(hub)
     IN  HubDoes(TickFinished(scanned), SendsAtTickEnd(scanned), spokes)
  /\ UNCHANGED toHub

\* Any other player: its next flags and an up-to-date acknowledgement.  (What
\* late and repeated packets do to the hub is checked of StarHub.)
HubReceivesOther(p) ==
  /\ p \in hub.routable \cap hub.sentTo
  /\ hub.flagsWrite[p] < MaxTick
  /\ HubGets([player |-> p, ack |-> hub.sendTimeWrite, hasFlags |-> TRUE,
              start |-> hub.flagsWrite[p], count |-> 1], spokes)
  /\ UNCHANGED <<toHub, turn>>

GameInit ==
  /\ hub = InitialHub(Players \ Absent)
  /\ spokes = [p \in Observed |-> InitialSpoke(Players \ Absent, Absent)]
  /\ turn = "hub"
  /\ toHub = [p \in Remote |-> {}]
  /\ toSpoke = [p \in Remote |-> {}]

GameNext ==
  \/ \E p \in Observed : SpokeTick(p) \/ UpdateUnconfirmed(p)
  \/ \E p \in Remote : HubReceives(p) \/ SpokeReceives(p) \/ SpokeCleanup(p)
  \/ \E p \in Players \ Absent : HubIdentifies(p)
  \/ HubTick
  \/ \E p \in Players \ (Observed \cup Absent) : HubReceivesOther(p)

\* Bound of a run: what happens until an observed player and the hub part.
ObservedStay == \A p \in Observed : p \in hub.connected /\ Listens(spokes[p])

GameSpec == GameInit /\ [][GameNext]_vars

-----------------------------------------------------------------------------
(***************************************************************************)
(* Properties                                                              *)
(***************************************************************************)

\* Every variable of the hub and the spokes has its type.
GameTypeOK == IsHub(hub) /\ \A p \in Observed : IsSpoke(spokes[p])

\* No assertion of a spoke fails, and no spoke loses step with the words in a
\* packet.  (Packets do not say whose words they contain: hub and spoke work that
\* out separately.)
SpokesInStep ==
  \A p \in Observed : spokes[p].failed \subseteq {"aloneWithoutFlags"}

\* The spokes keep the assumptions that StarHub makes of them: a packet that may
\* reach the hub now comes from a spoke that has heard from it, acknowledges no
\* more than was sent, and starts no later than the hub's acknowledgement.
HubAssumptionsMet ==
  \A p \in Observed \cap hub.routable :
    \A packet \in {SpokePacket(spokes[p], p)} \cup IF p \in Remote THEN toHub[p] ELSE {} :
      spokes[p].heard =>
        /\ p \in hub.sentTo
        /\ packet.ack <= hub.sendTimeWrite
        /\ packet.start <= hub.flagsWrite[p]

\* "Unconnected players should not have entries in sAddressToPlayerIndex", so
\* that the sender of game data is connected.  Does not hold: spoke_cleanup sends
\* game data whether or not the spoke has heard from the hub, and the hub may
\* have dropped the player before either its identification or that came.
SenderConnected == "sender" \notin hub.failed

\* What the hub has decided about q, as Lockstep sees it.
Decided(q) ==
  [i \in 1 .. Larger(0, hub.incomplete - RealGameTick) |->
     LET t == RealGameTick + i - 1
     IN  <<q, IF t < ContributesUpTo(hub, q) THEN hub.flags[q][t] ELSE NetDead>>]

TakingPart ==
  {p \in Observed \cap hub.connected : Listens(spokes[p]) /\ hub.connected # {p}}

Game == INSTANCE Lockstep WITH
  live   <- hub.connected,
  group  <- TakingPart,
  stream <- [q \in Players |-> Decided(q)],
  view   <- [p \in TakingPart |-> spokes[p].queue]

\* All machines that take part play the same game: their action queues get the
\* flags the hub has decided, each player's in order, however the packets come,
\* whoever is dropped, and whoever's flags are made up.
InLockstep == Game!Spec
=============================================================================
