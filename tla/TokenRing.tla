------------------------------ MODULE TokenRing ------------------------------
(***************************************************************************)
(* The ring protocol (Source_Files/Network/RingGameProtocol.cpp).  One     *)
(* packet goes round the players and holds the flags of all of them.  Each *)
(* player takes everybody's flags from it, puts its own new ones in place  *)
(* of its old ones, acknowledges the packet to its down-ring neighbour and *)
(* sends it to its up-ring neighbour.  The server decides when a lap       *)
(* begins and how many flags everybody contributes to it.  A player whose  *)
(* packet stays unacknowledged drops its up-ring neighbour from the ring,  *)
(* and becomes the server in its place.                                    *)
(*                                                                         *)
(* The network loses, repeats, delays and reorders: what was sent stays in *)
(* net, to be delivered any number of times or never.  A packet that is    *)
(* sent again is the same packet, so a resend is no action; only what      *)
(* happens after the last one is.                                          *)
(*                                                                         *)
(* Left out: net times and the latency computed from them; which of the    *)
(* queued flags are ditched or made up when a player has more or fewer     *)
(* than it must contribute; lossy distribution.  Words of flags are        *)
(* numbered by player in the order they are contributed.                   *)
(***************************************************************************)
EXTENDS Naturals, Sequences, SequencesExt, FiniteSets

CONSTANTS
  N,            \* players 0 .. N - 1, in the order of the ring
  Server,       \* inServerPlayerIndex of Sync
  MayCrash,     \* the players that may crash
  MaxRequired,  \* bound: flags a lap asks of everybody
  MaxWords,     \* bound: flags a player contributes to the game
  MaxHasty,     \* bound: players that are dropped although they could answer
  QuitSplit,    \* bound: whether a game is left in which somebody was
  Alien         \* any word that is not the player's

ASSUME RingAssumption ==
  /\ N \in Nat \ {0, 1} /\ {MaxRequired, MaxWords} \subseteq Nat \ {0}
  /\ Server \in 0 .. N - 1
  /\ MayCrash \subseteq 0 .. N - 1
  /\ {MaxHasty, Alien} \subseteq Nat /\ QuitSplit \in BOOLEAN

Players == 0 .. N - 1

NetDead == 0          \* NET_DEAD_ACTION_FLAG, among words numbered from 1

VARIABLES
  status,   \* for each player its NetStatus and network state, see OutOfGame
  net,      \* what has been sent
  made,     \* how many words each player has contributed
  played,   \* played[p][q]: what p has put on its action queue for player q
  hasty     \* history: who was dropped or given up, but could still answer

vars == <<status, net, made, played, hasty>>

(***************************************************************************)
(* Packets.  flags[q] are the words of q in the packet, unless q is in     *)
(* dead (an action_flag_count of NET_DEAD_ACTION_FLAG_COUNT).              *)
(***************************************************************************)
FirstPacket ==
  [type |-> "sync", server |-> Server, required |-> 1, dead |-> {},
   flags |-> [q \in Players |-> <<>>]]

RingPacket(from, to, tag, seq, packet) ==
  [from |-> from, to |-> to, tag |-> tag, seq |-> seq, packet |-> packet]

Ack(from, to, seq) == [from |-> from, to |-> to, tag |-> "ack", seq |-> seq]

\* The status of a player that is not in a game: never was, has left, or has
\* crashed.  state is *sNetStatePtr, upring stands for upringAddress and
\* upringPlayerIndex, ringFrame for what was sent last, buffer for the packet
\* that waits for NetServerTask while clearToForwardRing.
OutOfGame(state) ==
  [state |-> state, upring |-> 0, downring |-> 0, lastValid |-> 0,
   receivedAck |-> TRUE, ringFrame |-> FirstPacket, iAmTheServer |-> FALSE,
   server |-> 0, canForward |-> FALSE, clearToForward |-> FALSE,
   buffer |-> FirstPacket, accept |-> FALSE]

InGame(p) == status[p].state \in {"startingUp", "active", "comingDown"}

Init ==
  /\ status = [p \in Players |-> OutOfGame("uninitialized")]
  /\ net = {}
  /\ made = [p \in Players |-> 0]
  /\ played = [p \in Players |-> [q \in Players |-> <<>>]]
  /\ hasty = {}

(***************************************************************************)
(* Sending                                                                 *)
(***************************************************************************)
\* NetBuildRingPacket and NetSendRingPacket.
Sending(s, packet) ==
  [s EXCEPT !.ringFrame = packet, !.receivedAck = FALSE,
            !.canForward = FALSE, !.clearToForward = FALSE]

RingFrame(p, s, tag) ==
  RingPacket(p, s.upring, tag, s.lastValid + 1, s.ringFrame)

\* memmove, of the words of those after p to where p's begin, or will end.  For the count of
\* a dead p, -1 is taken: they come one place too late, the first is not theirs, and
\* the last one is lost.
OneLate(words) == IF words = <<>> THEN words ELSE <<Alien>> \o Front(words)

Moved(p, packet) ==
  IF p \notin packet.dead THEN packet
  ELSE [packet EXCEPT !.flags =
          [q \in Players |-> IF q > p THEN OneLate(@[q]) ELSE @[q]]]

\* NetAddFlagsToPacket.
NewWords(p, n) == [i \in 1 .. n |-> made[p] + i]

FlagsAdded(p, packet) ==
  [Moved(p, packet) EXCEPT !.flags[p] = NewWords(p, packet.required),
                 !.dead = @ \ {p}]

\* The server's part of a new lap: n flags of everybody, and when the net comes
\* down first none, then the packet that tells everybody to leave.
NewLap_UnsyncAtOnce(s, packet, n) ==
  IF s.state # "comingDown" THEN [packet EXCEPT !.required = n]
  ELSE [packet EXCEPT !.type = "unsync", !.required = 0]

NewLap_Adds(s, packet, n) ==
  IF s.state # "comingDown" THEN [packet EXCEPT !.required = @ + n]
  ELSE IF packet.required = 0 THEN [packet EXCEPT !.type = "unsync"]
  ELSE [packet EXCEPT !.required = 0]

NewLap(s, packet, n) ==
  IF s.state # "comingDown" THEN [packet EXCEPT !.required = n]
  ELSE IF packet.required = 0 THEN [packet EXCEPT !.type = "unsync"]
  ELSE [packet EXCEPT !.required = 0]

\* NetAddFlagsToPacket, NetBuildRingPacket, NetSendAcknowledgement,
\* NetSendRingPacket, from status s and with the acknowledgement of s.lastValid.
PassedOn(p, s, packet) ==
  LET sent == Sending(s, packet)
  IN  /\ status' = [status EXCEPT ![p] = sent]
      /\ net' = net \cup {Ack(p, s.downring, s.lastValid), RingFrame(p, sent, "ring")}

FlagsPassedOn(p, s, packet) ==
  /\ PassedOn(p, s, FlagsAdded(p, packet))
  /\ made' = [made EXCEPT ![p] = @ + packet.required]
  /\ UNCHANGED hasty

(***************************************************************************)
(* Sync and UnSync                                                         *)
(***************************************************************************)
Next_(p) == (p + 1) % N
Previous(p) == (p + N - 1) % N

Sync(p) ==
  /\ status[p].state = "uninitialized"
  /\ LET s == [OutOfGame("startingUp") EXCEPT
                 !.upring = Next_(p), !.downring = Previous(p),
                 !.server = Server, !.accept = TRUE, !.iAmTheServer = p = Server]
         sent == Sending(s, FirstPacket)
     IN  IF p = Server
         THEN /\ status' = [status EXCEPT ![p] = sent]
              /\ net' = net \cup {RingFrame(p, sent, "ring")}
         ELSE status' = [status EXCEPT ![p] = s] /\ UNCHANGED net
  /\ UNCHANGED <<made, played, hasty>>

\* The game is over for everybody.  (Bound: nobody leaves it before.)
GameOver == \A q \in Players : InGame(q) => made[q] >= MaxWords

UnSyncBegins(p) ==
  /\ status[p].state = "active" /\ GameOver /\ (hasty = {} \/ QuitSplit)
  /\ status' = [status EXCEPT ![p].state = "comingDown"]
  /\ UNCHANGED <<net, made, played, hasty>>

UnSyncEnds(p) ==
  /\ status[p].state = "comingDown"
  /\ ~ status[p].accept /\ status[p].receivedAck
  /\ status' = [status EXCEPT ![p] = OutOfGame("down")]
  /\ UNCHANGED <<net, made, played, hasty>>

\* What p has played is forgotten: it plays on alone, or not at all.
IsGone(p) ==
  /\ status' = [status EXCEPT ![p] = OutOfGame("gone")]
  /\ played' = [played EXCEPT ![p] = [q \in Players |-> <<>>]]
  /\ UNCHANGED <<net, made, hasty>>

\* Sync gives up when somebody who should take part does not.
SyncTimesOut(p) ==
  /\ status[p].state = "startingUp" /\ \E q \in Players : status[q].state = "gone"
  /\ IsGone(p)

\* "in case we are quitting and someone else is refusing to give up the ring"
UnSyncTimesOut(p) == status[p].state = "comingDown" /\ IsGone(p)

\* A player crashes, and stays away.
Crash(p) == p \in MayCrash /\ InGame(p) /\ IsGone(p)

(***************************************************************************)
(* RingGameProtocol::PacketHandler                                         *)
(***************************************************************************)
\* An acknowledgement counts if it is the upring's and for the last packet sent.
FromUpring(p, m) == m.tag = "ack" /\ m.to = p /\ m.from = status[p].upring

OnTime_LateToo(p, m) == TRUE

OnTime(p, m) == m.seq = status[p].lastValid + 1

ReceiveAck(p, m) ==
  /\ FromUpring(p, m) /\ OnTime(p, m)
  /\ status' = [status EXCEPT ![p].receivedAck = TRUE]
  /\ UNCHANGED <<net, made, played, hasty>>

\* tagCHANGE_RING_PACKET: the sender is the new down-ring neighbour, whether or
\* not ring packets are still accepted.
WithDownring(p, m) ==
  IF m.tag = "change" THEN [status[p] EXCEPT !.downring = m.from] ELSE status[p]

\* Ring packets from an unknown source are ignored.
KnownSource_Anyone(p, m) == TRUE

KnownSource_ChangeToo(p, m) == m.from = status[p].downring

KnownSource(p, m) == m.tag = "change" \/ m.from = status[p].downring

\* (Bound: the laps of a player alone, from itself to itself, are left out.)
ForMe(p, m) == m.tag # "ack" /\ m.from # p

ReceiveTooLate(p, m) ==
  /\ ForMe(p, m) /\ m.tag = "change" /\ ~ status[p].accept
  /\ status' = [status EXCEPT ![p] = WithDownring(p, m)]
  /\ UNCHANGED <<net, made, played, hasty>>

\* "late ring packet; acknowledge but ignore"
ReceiveLate(p, m) ==
  /\ ForMe(p, m) /\ status[p].accept /\ KnownSource(p, m)
  /\ m.seq <= status[p].lastValid
  /\ status' = [status EXCEPT ![p] = WithDownring(p, m)]
  /\ net' = net \cup {Ack(p, m.from, m.seq)}
  /\ UNCHANGED <<made, played, hasty>>

\* NetProcessIncomingBuffer.  Every sequence number above the last one is taken.
IsNew(p, m) == m.seq > status[p].lastValid

\* The status once the packet has been looked at.
Seen(p, m) ==
  [WithDownring(p, m) EXCEPT !.server = m.packet.server, !.lastValid = m.seq]

ReceiveNew(p, m, type) ==
  /\ ForMe(p, m) /\ status[p].accept /\ KnownSource(p, m) /\ IsNew(p, m)
  /\ m.packet.type = type

ReceiveSync(p, m) ==
  /\ ReceiveNew(p, m, "sync")
  /\ PassedOn(p, Seen(p, m),
       [m.packet EXCEPT !.type = IF status[p].iAmTheServer THEN "time" ELSE @])
  /\ UNCHANGED <<made, played, hasty>>

ReceiveTime(p, m) ==
  /\ ReceiveNew(p, m, "time") /\ ~ status[p].iAmTheServer
  /\ PassedOn(p, [Seen(p, m) EXCEPT !.state = "active"], m.packet)
  /\ UNCHANGED <<made, played, hasty>>

\* process_flags.
Processed(p, packet) ==
  played' = [played EXCEPT ![p] = [q \in Players |->
    @[q] \o IF q \in packet.dead
            THEN [i \in 1 .. packet.required |-> NetDead] ELSE packet.flags[q]]]

\* A packet with flags, or to the server its own "time".  The server that has
\* not queued enough flags yet keeps it, unacknowledged, for NetServerTask.
Normal(p, m) ==
  \/ ReceiveNew(p, m, "normal")
  \/ ReceiveNew(p, m, "time") /\ status[p].iAmTheServer

ReceiveFlags(p, m) ==
  /\ Normal(p, m) /\ ~ status[p].iAmTheServer
  /\ Processed(p, m.packet)
  /\ FlagsPassedOn(p, Seen(p, m), m.packet)

Live(m, s) ==
  IF m.packet.type = "time" THEN [s EXCEPT !.state = "active"] ELSE s

\* (Bound: the laps end with the words.)
MayAsk(p, n) ==
  status[p].state # "comingDown" => made[p] + n <= MaxWords

ReceiveAtServer(p, m, n) ==
  /\ Normal(p, m) /\ status[p].iAmTheServer /\ status[p].canForward
  /\ MayAsk(p, n)
  /\ Processed(p, m.packet)
  /\ LET s == Live(m, Seen(p, m))
     IN  FlagsPassedOn(p, s,
           NewLap(s, [m.packet EXCEPT !.type = "normal", !.server = p], n))

ReceiveAndWait(p, m) ==
  /\ Normal(p, m) /\ status[p].iAmTheServer /\ ~ status[p].canForward
  /\ Processed(p, m.packet)
  /\ status' = [status EXCEPT ![p] =
       [Live(m, Seen(p, m)) EXCEPT !.clearToForward = TRUE,
          !.buffer = [m.packet EXCEPT !.type = "normal"]]]
  /\ UNCHANGED <<net, made, hasty>>

\* The packet that ends the game is passed on by those that want to leave, and
\* ends at the server; others ignore it, and do not acknowledge it.
ReceiveUnsync(p, m) ==
  /\ ReceiveNew(p, m, "unsync") /\ status[p].state = "comingDown"
  /\ LET s == [Seen(p, m) EXCEPT !.accept = FALSE]
     IN  IF status[p].iAmTheServer
         THEN /\ status' = [status EXCEPT ![p] = s]
              /\ net' = net \cup {Ack(p, s.downring, s.lastValid)}
         ELSE PassedOn(p, s, m.packet)
  /\ UNCHANGED <<made, played, hasty>>

IgnoreUnsync(p, m) ==
  /\ ReceiveNew(p, m, "unsync") /\ status[p].state # "comingDown"
  /\ status' = [status EXCEPT ![p] =
       [Seen(p, m) EXCEPT !.lastValid = status[p].lastValid]]
  /\ UNCHANGED <<net, made, played, hasty>>

(***************************************************************************)
(* The periodic tasks                                                      *)
(***************************************************************************)
\* NetServerTask, with enough flags queued: n of them.  The task runs from when
\* the server has got its "sync" back.
ServerTaskEarly(p) ==
  /\ status[p].iAmTheServer /\ InGame(p) /\ status[p].lastValid > 0
  /\ ~ status[p].clearToForward /\ ~ status[p].canForward
  /\ status' = [status EXCEPT ![p].canForward = TRUE]
  /\ UNCHANGED <<net, made, played, hasty>>

ServerTaskForwards(p, n) ==
  /\ status[p].iAmTheServer /\ InGame(p) /\ status[p].clearToForward
  /\ MayAsk(p, n)
  /\ FlagsPassedOn(p, status[p], NewLap(status[p], status[p].buffer, n))
  /\ UNCHANGED played

\* NetCheckResendRingPacket: ++retries reaches kRETRIES, and nothing else is asked.
\* (Bound: a player alone, which sends to itself, does not drop itself.)
Unanswered(p) == ~ status[p].receivedAck /\ status[p].upring # p

\* It is right to: the neighbour has gone, or ignores what p sends.  One that is only
\* slow, or cannot be reached for two seconds, is dropped all the same, and so is
\* one by a server that keeps a packet, which has come round the ring.
Hopeless(p) ==
  LET up == status[status[p].upring]
  IN  /\ ~ status[p].clearToForward
      /\ \/ ~ InGame(status[p].upring)
         \/ status[p].ringFrame.type = "unsync" /\ up.state # "comingDown"
         \/ ~ up.accept

\* (Bound.)
MoreHaste == Cardinality(hasty) < MaxHasty

Noted(p) ==
  IF Hopeless(p) THEN UNCHANGED hasty
  ELSE MoreHaste /\ hasty' = hasty \cup {status[p].upring}

GiveUp(p) ==
  /\ status[p].state = "comingDown" /\ status[p].accept /\ Unanswered(p)
  /\ status' = [status EXCEPT ![p].accept = FALSE]
  /\ Noted(p)
  /\ UNCHANGED <<net, made, played>>

\* The packet in ringFrame without the flags of the player that is dropped.
Buried(packet, old) ==
  [Moved(old, packet) EXCEPT !.dead = @ \cup {old}, !.flags[old] = <<>>]

Crowned_Always(p, old) == TRUE

Crowned(p, old) == old = status[p].server /\ ~ status[p].iAmTheServer

DropUpring(p) ==
  /\ status[p].state = "active" /\ Unanswered(p)
  /\ LET old == status[p].upring
         s == [status[p] EXCEPT
                 !.upring = Next_(old),
                 !.server = IF Crowned(p, old) THEN p ELSE @,
                 !.iAmTheServer = @ \/ Crowned(p, old),
                 !.ringFrame = Buried(@, old)]
     IN  /\ status' = [status EXCEPT ![p] = s]
         /\ net' = net \cup {RingFrame(p, s, "change")}
  /\ Noted(p)
  /\ UNCHANGED <<made, played>>

\* What comes from the network, to a player in the game.
Handle(p, m) ==
  /\ m.to = p /\ InGame(p)
  /\ \/ ReceiveAck(p, m) \/ ReceiveTooLate(p, m) \/ ReceiveLate(p, m)
     \/ ReceiveSync(p, m) \/ ReceiveTime(p, m) \/ ReceiveFlags(p, m)
     \/ \E n \in 1 .. MaxRequired : ReceiveAtServer(p, m, n)
     \/ ReceiveAndWait(p, m) \/ ReceiveUnsync(p, m) \/ IgnoreUnsync(p, m)

ServerTask(p) ==
  ServerTaskEarly(p) \/ \E n \in 1 .. MaxRequired : ServerTaskForwards(p, n)

Leave(p) ==
  \/ UnSyncBegins(p) \/ UnSyncEnds(p) \/ UnSyncTimesOut(p)
  \/ SyncTimesOut(p) \/ Crash(p)

Next ==
  \E p \in Players :
    \/ Sync(p) \/ Leave(p)
    \/ \E m \in net : Handle(p, m)
    \/ ServerTask(p) \/ GiveUp(p) \/ DropUpring(p)

\* What a player in the game sends it sends again until it is acknowledged, so
\* that some of it comes through; the tasks run; a game that is over is left.  None of
\* this is asked for once somebody was dropped hastily.
\* Somebody gets on is enough: no two of these steps undo each other.
GetsOn(p) ==
  \/ Sync(p)
  \/ \E m \in net : InGame(m.from) /\ Handle(p, m)
  \/ ServerTask(p)
  \/ Hopeless(p) /\ (DropUpring(p) \/ GiveUp(p))
  \/ SyncTimesOut(p)
  \/ UnSyncBegins(p) \/ UnSyncEnds(p) \/ UnSyncTimesOut(p)

Fairness == WF_vars(hasty = {} /\ \E p \in Players : GetsOn(p))

Spec == Init /\ [][Next]_vars

FairSpec == Spec /\ Fairness

------------------------------------------------------------------------------
(***************************************************************************)
(* Properties                                                              *)
(***************************************************************************)
States == {"uninitialized", "startingUp", "active", "comingDown", "down", "gone"}

\* Words of q, none that q has not contributed yet, but for what OneLate puts there.
Words(q) == Seq(0 .. made[q] \cup {Alien})

IsPacket(packet) ==
  /\ packet.type \in {"sync", "time", "normal", "unsync"}
  /\ packet.server \in Players /\ packet.required \in 0 .. MaxRequired
  /\ packet.dead \subseteq Players
  /\ \A q \in Players : packet.flags[q] \in Words(q) /\ Len(packet.flags[q]) <= MaxRequired

\* Type invariant: whoever is dropped, nobody sends or plays words that their player has
\* not made, and no packet has more of them than NetPacketSize's assertion allows.
RingTypeOK ==
  \A p \in Players :
    /\ status[p].state \in States
    /\ {status[p].upring, status[p].downring, status[p].server} \subseteq Players
    /\ IsPacket(status[p].ringFrame) /\ IsPacket(status[p].buffer)
    /\ made[p] \in Nat /\ \A q \in Players : played[p][q] \in Words(q)

\* All machines that are still there play the same flags of every player in the
\* same order, those of a player that crashed in the middle of a lap included.
Alike(s, t) == IsPrefix(s, t) \/ IsPrefix(t, s)

SameStreams ==
  \A p1, p2 \in Players : status[p1].state # "gone" /\ status[p2].state # "gone" =>
    \A q \in Players : Alike(played[p1][q], played[p2][q])

\* The words that a player has made, when it has made n.
WordsTo(n) == [i \in 1 .. n |-> i]

\* They play every word of those in the ring once, in the order it was made, and leave
\* none out, however often a packet comes and whatever is repaired.
WordsInOrder ==
  \A p, q \in Players : status[p].state # "gone" /\ status[q].accept =>
    IsPrefix(played[p][q], WordsTo(made[q]))

\* What the ring is for: the same flags everywhere, and of those that are in it the right ones.
StreamsAgree == hasty = {} => SameStreams /\ WordsInOrder

\* "early acknowledgement; wet our pants (this should never happen)"
NoEarlyAck ==
  \A p \in Players, m \in net :
    InGame(p) /\ FromUpring(p, m) => m.seq <= status[p].lastValid + 1

\* A player stops resending only when its up-ring neighbour has what it sent,
\* or is no longer there.
Passed(p) ==
  status[p].state = "active" /\ ~ status[p].clearToForward /\ status[p].receivedAck

AckMeansReceived ==
  \A p \in Players : Passed(p) =>
    LET up == status[p].upring
    IN  up = p \/ ~ InGame(up) \/ status[up].lastValid > status[p].lastValid

\* Whom its down-ring neighbour has dropped, and told the next one so.
Dropped == {Previous(m.to) : m \in {c \in net : c.tag = "change"}}

\* The laps have one server, whoever crashes or is dropped, with reason or only because it
\* was slow: of those in the ring one at most.  A server that was dropped and then
\* answers again still takes itself for one.
OneServer ==
  Cardinality({p \in Players \ Dropped : status[p].accept /\ status[p].iAmTheServer}) <= 1

\* A game that ends in good order leaves no flags behind: who has left it by
\* the packet that ends it has played every word of everybody.
NothingLeftBehind ==
  hasty = {} /\ (\A p \in Players : status[p].state # "gone") =>
    \A p \in Players : status[p].state = "down" =>
      \A q \in Players : played[p][q] = WordsTo(made[q])

\* Nobody has the packet: each of those in the game knows that his neighbour
\* got it, and none keeps it.
TokenLost ==
  \A p \in Players :
    InGame(p) => status[p].receivedAck /\ ~ status[p].clearToForward

\* The ring goes on whatever is lost, repeated or reordered, and with a player
\* less, unless that player took the packet with it.
Alone == Cardinality({p \in Players : InGame(p)}) <= 1

AllSynced == \A p \in Players : status[p].state # "uninitialized"

RingGoesOn == AllSynced ~> (GameOver \/ TokenLost \/ Alone \/ hasty # {})
=============================================================================
