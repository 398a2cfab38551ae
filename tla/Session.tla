------------------------------- MODULE Session -------------------------------
(***************************************************************************)
(* Setting up a network game (Source_Files/Network/network.cpp, and the    *)
(* dialogs of network_dialogs.cpp that call it).  The gatherer listens for *)
(* joiners, asks each for its capabilities, lists it, takes it into the    *)
(* topology when its user says so, tells everybody in the topology of      *)
(* every change, and starts the game or cancels it.  A joiner may leave at *)
(* any time.                                                               *)
(*                                                                         *)
(* Both sides are one thread each that pumps its channels when its dialog  *)
(* is idle.  A channel (TCPMess/CommunicationsChannel.cpp) keeps what is   *)
(* enqueued until it is pumped; what was sent arrives in order, until one  *)
(* side closes the connection.  A pump that takes several messages is      *)
(* several pumps here, which only delays the later ones.                   *)
(*                                                                         *)
(* Joiners are numbered by the stream_id the gatherer gives them, in the   *)
(* order in which they connect; one that comes back is another joiner.     *)
(* Left out: chat and the lists of names for it, colours and teams,        *)
(* resumed games, versions that differ, and looking for a gatherer.        *)
(***************************************************************************)
EXTENDS Naturals, Sequences, SequencesExt, FiniteSets

CONSTANTS
  NumJoiners,
  Ungatherable,    \* joiners whose capabilities may not suit the gatherer
  MaxPlayers,      \* MAXIMUM_NUMBER_OF_NETWORK_PLAYERS
  MayLeave,        \* joiners that may leave
  Uninitialized    \* what the state of a new Client may be: its constructor
                   \* does not set it

ASSUME SessionAssumption ==
  /\ {NumJoiners, MaxPlayers} \subseteq Nat \ {0}
  /\ Ungatherable \cup MayLeave \subseteq 1 .. NumJoiners

Joiners == 1 .. NumJoiners

VARIABLES
  netState,        \* the gatherer's; also how its program ended: "crashed",
                   \* "no_client" by a client it did not find, "aborted" by an
                   \* assertion
  players,         \* topology->players, the gatherer's
  nextIdentifier,  \* topology->nextIdentifier
  client,          \* connections_to_clients: state, whether the channel is
                   \* still connected, and what it has not sent yet
  listed,          \* m_ungathered_players of the gather dialog
  visit,           \* the client NetCheckForNewJoiner is at; 0 between two calls
  joiner,          \* for each joiner its network state, identifier and topology
  toJoiner,        \* what the gatherer has sent and the joiner not handled
  toGatherer       \* the reverse

gathererVars == <<netState, players, nextIdentifier, client, listed, visit>>
vars == <<gathererVars, joiner, toJoiner, toGatherer>>

Gone == "gone"
ClientStates ==
  {"connecting", "awaiting_capabilities", "connected_but_not_yet_shown",
   "connected", "ungatherable", "awaiting_accept_join", "awaiting_map",
   "ingame", "disconnect"}

Player(stream, id) == [stream |-> stream, id |-> id]
Members(ps) == {ps[i].stream : i \in 2 .. Len(ps)}
Topology(tag, ps) == [type |-> "topology", tag |-> tag, players |-> ps]
Plain(type) == [type |-> type]

NoClient == [state |-> "none", connected |-> FALSE, outgoing |-> <<>>]
Known(cl, c) == cl[c].state \notin {"none", Gone}
HasLeft(j) == joiner[j].state \in {Gone, "cancelled"}

Init ==
  /\ netState = "gathering"
  /\ players = <<Player(0, 0)>>
  /\ nextIdentifier = 1
  /\ client = [c \in Joiners |-> NoClient]
  /\ listed = {}
  /\ visit = 0
  /\ joiner = [j \in Joiners |->
                 [state |-> "connecting", id |-> 0, players |-> <<>>]]
  /\ toJoiner = [j \in Joiners |-> <<>>]
  /\ toGatherer = [j \in Joiners |-> <<>>]

(***************************************************************************)
(* The gatherer's channels and topology                                    *)
(***************************************************************************)
Enqueue(cl, S, message) ==
  [c \in Joiners |->
     IF c \in S /\ cl[c].connected
     THEN [cl[c] EXCEPT !.outgoing = Append(@, message)]
     ELSE cl[c]]

\* ~Client: disconnect discards what has not been sent.
Deleted(cl, S) ==
  [c \in Joiners |->
     IF c \in S THEN [NoClient EXCEPT !.state = Gone] ELSE cl[c]]

Distribute_ToOthers(cl, ps, tag) ==
  Enqueue(cl, Members(players), Topology(tag, ps))

Distribute(cl, ps, tag) == Enqueue(cl, Members(ps), Topology(tag, ps))

\* A player of the topology that is no client any more is looked up all the same,
\* which crashes the gatherer.
AfterDistribution(cl, ps, state) ==
  IF \A c \in Members(ps) : Known(cl, c) THEN state ELSE "no_client"

(***************************************************************************)
(* What a Client does with a message.  cl are the clients after the pump   *)
(* that received it; if that pump also found the connection closed, the    *)
(* channel has no socket any more.                                         *)
(***************************************************************************)
JoinerInfo(c, cl) ==
  /\ client' =
       IF netState = "gathering"
       THEN [Enqueue(cl, {c}, Plain("capabilities"))
               EXCEPT ![c].state = "awaiting_capabilities"]
       ELSE cl
  /\ UNCHANGED <<netState, players>>

CapabilitiesReply(c, cl) ==
  /\ IF cl[c].state = "awaiting_capabilities"
     THEN \/ client' = [cl EXCEPT ![c].state = "connected_but_not_yet_shown"]
          \/ /\ c \in Ungatherable
             /\ client' = [cl EXCEPT ![c].state = "ungatherable"]
     ELSE client' = cl
  /\ UNCHANGED <<netState, players>>

\* peerAddress of a channel without a socket crashes; NetDistributeTopology
\* asserts that the gatherer still gathers.
AcceptJoin(c, cl, id) ==
  IF cl[c].state # "awaiting_accept_join"
  THEN /\ client' = cl
       /\ UNCHANGED <<netState, players>>
  ELSE IF ~cl[c].connected
  THEN /\ netState' = "crashed"
       /\ client' = cl
       /\ UNCHANGED players
  ELSE /\ players' = Append(players, Player(c, id))
       /\ netState' = IF netState = "gathering"
                      THEN AfterDistribution(cl, players', netState)
                      ELSE "aborted"
       /\ client' = [Distribute(cl, players', "NEW_PLAYER")
                       EXCEPT ![c].state = "awaiting_map"]

Handle(c, cl, message) ==
  \/ message.type = "joinerInfo" /\ JoinerInfo(c, cl)
  \/ message.type = "capabilities" /\ CapabilitiesReply(c, cl)
  \/ message.type = "accept" /\ AcceptJoin(c, cl, message.id)

\* pump and dispatchIncomingMessages.  The last message of a joiner that left
\* comes with the end of the connection, before it, or never.
Pump(c) ==
  LET sent == [client EXCEPT ![c].outgoing = <<>>]
      lost == [sent EXCEPT ![c].connected = FALSE]
  IN
  /\ toJoiner' = [toJoiner EXCEPT ![c] =
                    IF HasLeft(c) THEN <<>> ELSE @ \o client[c].outgoing]
  /\ \/ /\ toGatherer[c] # <<>>
        /\ toGatherer' = [toGatherer EXCEPT ![c] = Tail(@)]
        /\ \/ Handle(c, sent, Head(toGatherer[c]))
           \/ /\ HasLeft(c) /\ Len(toGatherer[c]) = 1
              /\ Handle(c, lost, Head(toGatherer[c]))
     \/ /\ HasLeft(c)
        /\ toGatherer' = [toGatherer EXCEPT ![c] = <<>>]
        /\ client' = lost
        /\ UNCHANGED <<netState, players>>
     \/ /\ ~HasLeft(c) /\ toGatherer[c] = <<>>
        /\ client' = sent
        /\ UNCHANGED <<netState, players, toGatherer>>

(***************************************************************************)
(* NetCheckForNewJoiner, a client at a time                                *)
(***************************************************************************)
Showing == NumJoiners + 1    \* at the second loop, over all clients

FirstFrom_Connected(cl, c) ==
  CHOOSE d \in c .. Showing :
    /\ d = Showing \/ cl[d].connected
    /\ \A e \in c .. d - 1 : ~cl[e].connected

FirstFrom(cl, c) ==
  CHOOSE d \in c .. Showing :
    /\ d = Showing \/ Known(cl, d)
    /\ \A e \in c .. d - 1 : ~Known(cl, e)

\* At most one connection is accepted a call.
CheckForNewJoiner ==
  /\ netState = "gathering" /\ visit = 0
  /\ LET arrived == {j \in Joiners : /\ joiner[j].state = "awaitingHello"
                                     /\ client[j].state = "none"}
     IN IF arrived = {} THEN UNCHANGED client
        ELSE \E state \in Uninitialized :
               client' = [client EXCEPT
                 ![CHOOSE j \in arrived : \A k \in arrived : j <= k] =
                   [state |-> state, connected |-> TRUE,
                    outgoing |-> <<Plain("hello")>>]]
  /\ visit' = FirstFrom(client', 1)
  /\ UNCHANGED <<netState, players, nextIdentifier, listed, joiner, toJoiner,
                 toGatherer>>

VisitConnected(c) ==
  /\ netState = "gathering" /\ visit = c /\ client[c].connected
  /\ Pump(c)
  /\ visit' = FirstFrom(client', c + 1)
  /\ UNCHANGED <<nextIdentifier, listed, joiner>>

Removed_ByPlace(ps, c) ==
  IF c \in Members(ps) THEN SubSeq(ps, 1, Len(ps) - 1) ELSE ps

PlaceOf(ps, c) ==
  CHOOSE i \in 2 .. Len(ps) : /\ ps[i].stream = c
                             /\ \A k \in 2 .. i - 1 : ps[k].stream # c

Removed(ps, c) ==
  IF c \in Members(ps) THEN RemoveAt(ps, PlaceOf(ps, c)) ELSE ps

Dropped_ListedStays(c) == listed

Dropped(c) == IF client[c].state = "connected" THEN listed \ {c} ELSE listed

\* Client::drop, and the client erased from the map while the loop's iterator
\* is at it: the loop goes on with what it finds there, the next client, the
\* end of the map (loopEnd) or nothing a program survives.
DropAndErase(c, next, loopEnd) ==
  /\ listed' = Dropped(c)
  /\ players' = IF client[c].state = "awaiting_map"
                THEN Removed(players, c) ELSE players
  /\ client' = Deleted(IF players' # players
                       THEN Distribute(client, players', "DROPPED_PLAYER")
                       ELSE client, {c})
  /\ \/ /\ netState' = AfterDistribution(client', players', netState)
        /\ visit' \in {next, loopEnd}
     \/ netState' = "crashed" /\ visit' = 0
  /\ UNCHANGED <<nextIdentifier, joiner, toJoiner, toGatherer>>

VisitLost(c) ==
  /\ netState = "gathering" /\ visit = c /\ ~client[c].connected
  /\ DropAndErase(c, FirstFrom(client, c + 1), Showing)

\* The dialog lists the client that is shown.
Show ==
  /\ netState = "gathering" /\ visit = Showing
  /\ LET found == {c \in Joiners : client[c].state \in
                     {"connected_but_not_yet_shown", "disconnect"}}
         c == CHOOSE d \in found : \A e \in found : d <= e
     IN \/ /\ found = {}
           /\ visit' = 0
           /\ UNCHANGED <<netState, players, nextIdentifier, client, listed>>
           /\ UNCHANGED <<joiner, toJoiner, toGatherer>>
        \/ /\ found # {} /\ client[c].state = "connected_but_not_yet_shown"
           /\ client' = [client EXCEPT ![c].state = "connected"]
           /\ listed' = listed \cup {c}
           /\ visit' = 0
           /\ UNCHANGED <<netState, players, nextIdentifier>>
           /\ UNCHANGED <<joiner, toJoiner, toGatherer>>
        \/ /\ found # {} /\ client[c].state = "disconnect"
           /\ DropAndErase(c, Showing, 0)

(***************************************************************************)
(* The gatherer's user                                                     *)
(***************************************************************************)
\* GatherDialog::gathered_player, by hand or by autogather.
GatherPlayer(c) ==
  /\ netState = "gathering" /\ visit = 0
  /\ c \in listed /\ Len(players) < MaxPlayers
  /\ IF Known(client, c)
     THEN /\ client' = [Enqueue(client, {c},
                                [type |-> "join", id |-> nextIdentifier])
                          EXCEPT ![c].state = "awaiting_accept_join"]
          /\ UNCHANGED netState
     ELSE netState' = "no_client" /\ UNCHANGED client
  /\ nextIdentifier' = nextIdentifier + 1
  /\ listed' = listed \ {c}
  /\ UNCHANGED <<players, visit, joiner, toJoiner, toGatherer>>

\* The players sorted by their addresses, all but the gatherer.
Sorted(ps) == {<<Head(ps)>> \o s : s \in SetToSeqs(ToSet(Tail(ps)))}

\* StartGameHit, NetDoneGathering and NetStart.
StartGame ==
  /\ netState = "gathering" /\ visit = 0
  /\ Len(players) > 1
  /\ players' \in Sorted(players)
  /\ LET cl == Deleted(client, listed)
     IN /\ client' = Distribute(cl, players', "START_GAME")
        /\ netState' = AfterDistribution(cl, players', "starting")
  /\ listed' = {}
  /\ UNCHANGED <<nextIdentifier, visit, joiner, toJoiner, toGatherer>>

\* NetDistributeGameDataToAllPlayers: the game data follows what is enqueued,
\* and all of it is flushed; then NetSync.
DistributeGameData ==
  /\ netState = "starting"
  /\ LET cl == Enqueue(client, Members(players), Plain("gameData"))
     IN toJoiner' = [j \in Joiners |->
          IF j \in Members(players) /\ ~HasLeft(j)
          THEN toJoiner[j] \o cl[j].outgoing ELSE toJoiner[j]]
  /\ client' = [c \in Joiners |->
       IF c \in Members(players)
       THEN [client[c] EXCEPT !.outgoing = <<>>, !.state = "ingame"]
       ELSE client[c]]
  /\ netState' = "active"
  /\ UNCHANGED <<players, nextIdentifier, listed, visit, joiner, toGatherer>>

ProcessMessagesInGame(c) ==
  /\ netState = "active" /\ client[c].connected
  /\ client[c].outgoing # <<>> \/ toGatherer[c] # <<>> \/ HasLeft(c)
  /\ Pump(c)
  /\ UNCHANGED <<nextIdentifier, listed, visit, joiner>>

\* NetCancelGather and NetExit.
CancelGather ==
  /\ netState = "gathering" /\ visit = 0
  /\ netState' = "cancelled"
  /\ client' = Deleted(Distribute(client, players, "CANCEL_GAME"),
                       {c \in Joiners : Known(client, c)})
  /\ UNCHANGED <<players, nextIdentifier, listed, visit, joiner, toJoiner,
                 toGatherer>>

(***************************************************************************)
(* A joiner                                                                *)
(***************************************************************************)
Connect(j) ==
  /\ netState = "gathering" /\ joiner[j].state = "connecting"
  /\ \A k \in Joiners : k < j => joiner[k].state # "connecting"
  /\ joiner' = [joiner EXCEPT ![j].state = "awaitingHello"]
  /\ UNCHANGED <<gathererVars, toJoiner, toGatherer>>

Become(j, state) == joiner' = [joiner EXCEPT ![j].state = state]

Reply(j, message) ==
  toGatherer' = [toGatherer EXCEPT ![j] = Append(@, message)]

HandleHello(j) ==
  /\ joiner[j].state = "awaitingHello"
  /\ Become(j, "joining")
  /\ Reply(j, Plain("joinerInfo"))

HandleCapabilities(j) ==
  /\ joiner[j].state = "joining"
  /\ Reply(j, Plain("capabilities"))
  /\ UNCHANGED joiner

HandleJoinPlayer(j, id) ==
  /\ joiner[j].state = "joining"
  /\ joiner' = [joiner EXCEPT ![j].state = "waiting", ![j].id = id]
  /\ Reply(j, [type |-> "accept", id |-> id])

StateFor_OnlyStart(tag) == IF tag = "START_GAME" THEN "starting" ELSE "joining"

StateFor(tag) ==
  CASE tag = "START_GAME" -> "starting"
    [] tag = "CANCEL_GAME" -> "cancelled"
    [] OTHER -> "waiting"

HandleTopology_KeepsIfStarting(j, message) ==
  /\ joiner[j].state = "waiting"
  /\ joiner' = [joiner EXCEPT ![j].state = StateFor(message.tag),
                              ![j].players = IF message.tag = "START_GAME"
                                             THEN @ ELSE message.players]
  /\ UNCHANGED toGatherer

HandleTopology(j, message) ==
  /\ joiner[j].state = "waiting"
  /\ joiner' = [joiner EXCEPT ![j].state = StateFor(message.tag),
                              ![j].players = message.players]
  /\ UNCHANGED toGatherer

\* EndGameDataMessage, in NetReceiveGameData.
HandleGameData(j) ==
  /\ joiner[j].state = "starting"
  /\ Become(j, "playing")
  /\ UNCHANGED toGatherer

\* The states in which a message is not "unexpected".
Expects(j, type) ==
  CASE type = "hello" -> joiner[j].state = "awaitingHello"
    [] type \in {"capabilities", "join"} -> joiner[j].state = "joining"
    [] type = "topology" -> joiner[j].state = "waiting"
    [] type = "gameData" -> joiner[j].state = "starting"

InSetup(j) ==
  joiner[j].state \in {"awaitingHello", "joining", "waiting", "starting"}

Receive(j) ==
  /\ InSetup(j) /\ toJoiner[j] # <<>>
  /\ LET message == Head(toJoiner[j])
     IN \/ message.type = "hello" /\ HandleHello(j)
        \/ message.type = "capabilities" /\ HandleCapabilities(j)
        \/ message.type = "join" /\ HandleJoinPlayer(j, message.id)
        \/ message.type = "topology" /\ HandleTopology(j, message)
        \/ message.type = "gameData" /\ HandleGameData(j)
        \/ ~Expects(j, message.type) /\ UNCHANGED <<joiner, toGatherer>>
  /\ toJoiner' = [toJoiner EXCEPT ![j] = Tail(@)]
  /\ UNCHANGED gathererVars

HungUp(j) ==
  \/ netState \in {"cancelled", "crashed", "aborted", "no_client"}
  \/ client[j].state = Gone
  \/ client[j].state = "none" /\ netState # "gathering"

\* The connection is found closed; a message received with its end is lost, or
\* crashes the joiner (peerAddress again).
LoseConnection(j) ==
  /\ InSetup(j) /\ HungUp(j)
  /\ Become(j, Gone)
  /\ toJoiner' = [toJoiner EXCEPT ![j] = <<>>]
  /\ UNCHANGED <<gathererVars, toGatherer>>

\* The user cancels, or the game data does not come in time.  What was replied
\* may not have been sent yet.
Leave(j) ==
  /\ j \in MayLeave /\ InSetup(j)
  /\ Become(j, Gone)
  /\ toJoiner' = [toJoiner EXCEPT ![j] = <<>>]
  /\ \/ UNCHANGED toGatherer
     \/ /\ toGatherer[j] # <<>>
        /\ toGatherer' = [toGatherer EXCEPT ![j] = Front(@)]
  /\ UNCHANGED gathererVars

GathererStep ==
  \/ CheckForNewJoiner \/ Show \/ DistributeGameData
  \/ \E c \in Joiners :
       VisitConnected(c) \/ VisitLost(c) \/ ProcessMessagesInGame(c)

JoinerStep(j) == Receive(j) \/ LoseConnection(j)

Next ==
  \/ GathererStep \/ StartGame \/ CancelGather
  \/ \E j \in Joiners :
       GatherPlayer(j) \/ Connect(j) \/ JoinerStep(j) \/ Leave(j)

Spec == Init /\ [][Next]_vars

\* Both dialogs are idle again and again; what the users do is up to them.
FairSpec ==
  /\ Spec
  /\ WF_vars(GathererStep)
  /\ \A j \in Joiners : WF_vars(JoinerStep(j))

(***************************************************************************)
(* Properties                                                              *)
(***************************************************************************)
Setting == netState \in {"gathering", "starting", "active"}

\* The types of the variables; who is listed can be gathered (NetGatherPlayer
\* looks the client up without a test, network.cpp:2365).
SessionTypeOK ==
  /\ netState \in {"gathering", "starting", "active", "cancelled", "crashed",
                   "aborted", "no_client"}
  /\ players \in Seq([stream : 0 .. NumJoiners, id : Nat])
  /\ nextIdentifier \in Nat
  /\ \A c \in Joiners :
       /\ client[c].state \in ClientStates \cup {"none", Gone}
       /\ client[c].connected \in BOOLEAN
  /\ listed \subseteq Joiners
  /\ Setting => \A c \in listed : client[c].state = "connected"
  /\ visit \in 0 .. Showing
  /\ \A j \in Joiners : joiner[j].state \in
       {"connecting", "awaitingHello", "joining", "waiting", "starting",
        "playing", "cancelled", Gone}

\* Whoever is in the topology is a client that has accepted and waits for the
\* game, once: NetDistributeTopology finds everybody's channel, and no leaver
\* stays behind (Client::drop, network.cpp:390).
MembersAreClients ==
  /\ netState # "no_client"
  /\ Setting =>
    /\ \A c \in Members(players) : client[c].state \in {"awaiting_map", "ingame"}
    /\ Cardinality(Members(players)) = Len(players) - 1
    /\ Cardinality({players[i].id : i \in DOMAIN players}) = Len(players)

\* The last topology among some messages, if there is one, is the one that counts.
Tells(messages, before, after) ==
  LET told == {i \in DOMAIN messages : messages[i].type = "topology"}
  IN  /\ told = {} => after = before
      /\ \A i \in told : (\A k \in told : k <= i) => messages[i].players = after

\* What a joiner of the topology will know when it has handled all that is on its
\* way is the topology: every change is told, in order, to everybody it concerns
\* ("gatherer and joiner could disagree on topology!", network.cpp:988).
EverybodyUpToDate ==
  Setting =>
    \A c \in Members(players) :
      client[c].connected /\ joiner[c].state \in {"waiting", "starting"} =>
        Tells(toJoiner[c] \o client[c].outgoing, joiner[c].players, players)

\* Who starts the game is in it, where the gatherer has it, with the players the
\* gatherer has: nobody dropped before the start starts, and the hub and the
\* spokes number the players alike.
StartedAlike ==
  Setting =>
    \A j \in Joiners : joiner[j].state \in {"starting", "playing"} =>
      /\ netState # "gathering"
      /\ joiner[j].players = players
      /\ \E i \in 2 .. Len(players) : players[i] = Player(j, joiner[j].id)

\* A player that leaves is taken out of the topology, unless the gatherer stops
\* gathering first.
LeaversDropped ==
  \A j \in MayLeave :
    j \in Members(players) /\ HasLeft(j)
      ~> j \notin Members(players) \/ netState # "gathering"

\* When the gatherer has started, whoever is in the game gets it or leaves.
StartReachesAll ==
  netState = "active"
    ~> \/ \A j \in Members(players) : joiner[j].state \in {"playing", Gone}
       \/ ~Setting

\* NetDistributeTopology asserts netState==netGathering (network.cpp:2401).
DistributedWhileGathering == netState # "aborted"
=============================================================================
