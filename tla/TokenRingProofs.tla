--------------------------- MODULE TokenRingProofs ---------------------------
(***************************************************************************)
(* The ring protocol for any number of players.                            *)
(*                                                                         *)
(* Whoever crashes, and whoever is dropped, with reason or only because it *)
(* was slow: that of the players nobody has dropped one at most is the     *)
(* server, that an acknowledgement means what a player that stops          *)
(* resending takes it for, and that nobody sends or plays a word that has  *)
(* not been made, but for the one that memmove puts before them (Alien).   *)
(*                                                                         *)
(* Until somebody is dropped, or given up, that could still have answered  *)
(* (hasty): that all play the same flags while only one player is out, or  *)
(* none has gone, and each word once and in order; and that a game that    *)
(* ends in good order has been played to its last flag.                    *)
(*                                                                         *)
(* RingInv rests on facts that stay true once they are (Grows): a player   *)
(* that takes no packets any more never does again, who was dropped stays  *)
(* dropped (Lost), and what has been received stays received.  All that    *)
(* were ever named as the server, in packets still on their way included,  *)
(* come before the first one with nobody but such players in between       *)
(* (WasServer); so that a player who drops the server he knows is the only *)
(* one left who may take its place.                                        *)
(*                                                                         *)
(* StreamInv follows the packet, which player h got last: what everybody   *)
(* has played fits the words in it (StreamOf), what the player before h    *)
(* sent last still fits should h go (Back), and whatever is still taken    *)
(* comes from h or from the one that is out (Fresh).                       *)
(*                                                                         *)
(* OrderInv does so while nobody has gone, to the end of the game.  First  *)
(* the packet goes round all of them (Orderly); the lap that asks for no   *)
(* words empties it (LapOK, Blank), and when the server has it back, what  *)
(* is still on its way has no words in it and everybody has played all     *)
(* (Drained).  That no step undoes, whoever leaves then and in what order. *)
(*                                                                         *)
(* OwnInv adds to StreamInv what each player knows of its own words: all   *)
(* that it made it has played, but for those that are in what it sent      *)
(* last; so the words in the packet are the right ones.                    *)
(***************************************************************************)
EXTENDS TokenRing, TLAPS, FunctionTheorems, FiniteSetTheorems, SequenceTheorems,
        WellFoundedInduction

-----------------------------------------------------------------------------
(***************************************************************************)
(* Types                                                                   *)
(***************************************************************************)
PacketTypes == {"sync", "time", "normal", "unsync"}

PacketSet ==
  [type : PacketTypes, server : Players, required : 0 .. MaxRequired,
   dead : SUBSET Players, flags : [Players -> Seq(Nat)]]

StatusSet ==
  [state : States, upring : Players, downring : Players, lastValid : Nat,
   receivedAck : BOOLEAN, ringFrame : PacketSet, iAmTheServer : BOOLEAN,
   server : Players, canForward : BOOLEAN, clearToForward : BOOLEAN,
   buffer : PacketSet, accept : BOOLEAN]

AckSet == [from : Players, to : Players, tag : {"ack"}, seq : Nat]

RingPacketSet ==
  [from : Players, to : Players, tag : {"ring", "change"}, seq : Nat, packet : PacketSet]

Typed ==
  /\ status \in [Players -> StatusSet]
  /\ made \in [Players -> Nat]
  /\ net \subseteq AckSet \cup RingPacketSet

-----------------------------------------------------------------------------
(***************************************************************************)
(* The invariant                                                           *)
(***************************************************************************)
\* How far b is up the ring from a.
Dist(a, b) == IF b >= a THEN b - a ELSE b - a + N

\* Facts about a player that stay true: it has begun, has left, takes no more packets,
\* has received a packet.
Started(q) == status[q].state # "uninitialized"
Left(q) == status[q].state \in {"down", "gone"}
Out(q) == Started(q) /\ ~ status[q].accept
Got(q, seq) == Left(q) \/ seq <= status[q].lastValid

\* Players that take no packets any more, or have been dropped: what is lost stays lost.
Lost == {q \in Players : Out(q)} \cup Dropped

\* All between a and b are in S; all after a, up to b.
Between(S, a, b) == \A x \in Players : x # a /\ Dist(a, x) < Dist(a, b) => x \in S
AllOut(S, a, b) == \A x \in Players : x # a /\ Dist(a, x) <= Dist(a, b) => x \in S

\* v has been the server: the first one, or the last one before it that is not in S.
WasServer(S, v) == v = Server \/ AllOut(S, v, Server)

\* The status s is one that player p may have when those in S are lost.
StatusOK(S, p, s) ==
  /\ s.state \in {"uninitialized", "down", "gone"} => ~ s.accept
  /\ s.state = "uninitialized" => s.lastValid = 0
  /\ s.state \in {"startingUp", "active"} =>
       s.accept /\ (s.ringFrame.type # "unsync" \/ s.clearToForward)
  /\ s.buffer.type # "unsync"
  /\ s.state \in {"startingUp", "active", "comingDown"} =>
       Between(S, p, s.upring) /\ WasServer(S, s.server)
  /\ WasServer(S, s.ringFrame.server) /\ WasServer(S, s.buffer.server)
  /\ s.accept /\ s.iAmTheServer => WasServer(S, p)
  /\ s.state = "active" /\ s.receivedAck /\ ~ s.clearToForward =>
       Got(s.upring, s.lastValid + 1)

PlayerOK(p) == StatusOK(Lost, p, status[p])

MessageOK(m) ==
  /\ m.tag = "ack" => Got(m.from, m.seq)
  /\ m.tag # "ack" => WasServer(Lost, m.packet.server)

\* Everybody has begun, or the packet is on its first lap: it has come as far as
\* everybody has begun.
FirstLap ==
  /\ \A p \in Players :
       /\ status[p].state \in {"uninitialized", "startingUp", "gone"}
       /\ ~ status[p].clearToForward
       /\ InGame(p) => /\ status[p].downring = Previous(p)
                       /\ status[p].iAmTheServer <=> p = Server
  /\ \A m \in net : m.tag # "ack" =>
       /\ m.tag = "ring" /\ m.packet.type = "sync"
       /\ \A x \in Players : Dist(Server, x) <= Dist(Server, m.from) => Started(x)

AllStarted == \A p \in Players : Started(p)

RingInv ==
  /\ Typed
  /\ \A p \in Players : PlayerOK(p)
  /\ \A m \in net : MessageOK(m)
  /\ AllStarted \/ FirstLap

-----------------------------------------------------------------------------
(***************************************************************************)
(* Around the ring                                                         *)
(***************************************************************************)
LEMMA Ring ==
  /\ N \in Nat /\ N > 1 /\ Server \in Players /\ MaxRequired \in Nat /\ MaxRequired > 0
  /\ \A p \in Players : p \in Nat /\ p < N
  /\ \A p \in Nat : p < N => p \in Players
  /\ 0 \in Players
BY RingAssumption DEF Players

LEMMA Neighbours ==
  ASSUME NEW p \in Players
  PROVE  /\ Next_(p) = IF p = N - 1 THEN 0 ELSE p + 1
         /\ Previous(p) = IF p = 0 THEN N - 1 ELSE p - 1
         /\ Next_(p) \in Players /\ Previous(p) \in Players
         /\ Next_(p) # p
<1>1. p \in 0 .. N - 1 /\ N \in Nat /\ N > 1
  BY Ring DEF Players
<1>2. (p + 1) % N = IF p = N - 1 THEN 0 ELSE p + 1
  <2>1. CASE p = N - 1
    BY <1>1, <2>1
  <2>2. CASE p # N - 1
    BY <1>1, <2>2
  <2> QED BY <2>1, <2>2
<1>3. (p + N - 1) % N = IF p = 0 THEN N - 1 ELSE p - 1
  <2>1. CASE p = 0
    BY <1>1, <2>1
  <2>2. CASE p # 0
    <3>1. p + N - 1 = N + (p - 1) /\ p - 1 \in 0 .. N - 1
      BY <1>1, <2>2
    <3> QED BY <1>1, <2>2, <3>1
  <2> QED BY <2>1, <2>2
<1> QED BY <1>1, <1>2, <1>3 DEF Next_, Previous, Players

LEMMA Around ==
  ASSUME NEW p \in Players
  PROVE  Previous(Next_(p)) = p /\ Next_(Previous(p)) = p
<1>1. p \in 0 .. N - 1 /\ N \in Nat /\ N > 1
  BY Ring DEF Players
<1>2. /\ Next_(p) \in Players /\ Previous(p) \in Players
      /\ Next_(p) = IF p = N - 1 THEN 0 ELSE p + 1
      /\ Previous(p) = IF p = 0 THEN N - 1 ELSE p - 1
  BY Neighbours
<1>3. /\ Previous(Next_(p)) = IF Next_(p) = 0 THEN N - 1 ELSE Next_(p) - 1
      /\ Next_(Previous(p)) = IF Previous(p) = N - 1 THEN 0 ELSE Previous(p) + 1
  BY <1>2, Neighbours
<1> QED BY <1>1, <1>2, <1>3

\* One step up the ring, and from one arc to the next.
LEMMA Dists ==
  ASSUME NEW a \in Players, NEW b \in Players, NEW x \in Players
  PROVE  /\ Dist(a, b) \in 0 .. N - 1
         /\ Dist(a, b) = 0 <=> a = b
         /\ Dist(a, x) = Dist(a, b) => x = b
         /\ Dist(a, Next_(b)) = IF Next_(b) = a THEN 0 ELSE Dist(a, b) + 1
         /\ b # a => Dist(a, Previous(b)) = Dist(a, b) - 1
         /\ Dist(a, Previous(a)) = N - 1
         /\ Dist(a, b) < Dist(a, x) => Dist(b, x) = Dist(a, x) - Dist(a, b)
<1> USE Ring, Neighbours
<1>1. /\ Dist(a, b) \in 0 .. N - 1 /\ (Dist(a, b) = 0 <=> a = b)
      /\ Dist(a, x) = Dist(a, b) => x = b
  BY DEF Dist
<1>2. Dist(a, Next_(b)) = IF Next_(b) = a THEN 0 ELSE Dist(a, b) + 1
  BY DEF Dist
<1>3. /\ b # a => Dist(a, Previous(b)) = Dist(a, b) - 1
      /\ Dist(a, Previous(a)) = N - 1
  BY DEF Dist
<1>4. Dist(a, b) < Dist(a, x) => Dist(b, x) = Dist(a, x) - Dist(a, b)
  BY DEF Dist
<1> QED BY <1>1, <1>2, <1>3, <1>4

\* Dropping the neighbour b.
LEMMA BetweenMore ==
  ASSUME NEW S, NEW p \in Players, NEW b \in Players, Between(S, p, b), b \in S
  PROVE  Between(S, p, Next_(b)) /\ AllOut(S, p, b)
<1>1. Next_(b) \in Players
  BY Neighbours
<1>2. AllOut(S, p, b)
  <2> SUFFICES ASSUME NEW x \in Players, x # p, Dist(p, x) <= Dist(p, b) PROVE x \in S
    BY DEF AllOut
  <2>1. x = b \/ Dist(p, x) < Dist(p, b)
    <3>1. /\ Dist(p, x) \in 0 .. N - 1 /\ Dist(p, b) \in 0 .. N - 1
          /\ Dist(p, x) = Dist(p, b) => x = b
      BY Dists
    <3> QED BY <3>1, Ring
  <2> QED BY <2>1 DEF Between
<1>3. Between(S, p, Next_(b))
  <2> SUFFICES ASSUME NEW x \in Players, x # p, Dist(p, x) < Dist(p, Next_(b)) PROVE x \in S
    BY DEF Between
  <2>1. Dist(p, x) <= Dist(p, b)
    <3>1. /\ Dist(p, x) \in 0 .. N - 1 /\ Dist(p, b) \in 0 .. N - 1
          /\ Dist(p, Next_(b)) = IF Next_(b) = p THEN 0 ELSE Dist(p, b) + 1
      BY Dists
    <3> QED BY <3>1, Ring
  <2> QED BY <1>2, <2>1 DEF AllOut
<1> QED BY <1>2, <1>3

LEMMA WasServerToo ==
  ASSUME NEW S, NEW p \in Players, NEW v \in Players, AllOut(S, p, v), WasServer(S, v)
  PROVE  WasServer(S, p)
<1>1. CASE v = Server
  BY <1>1 DEF WasServer
<1>2. CASE AllOut(S, v, Server)
  <2> SUFFICES ASSUME NEW x \in Players, x # p, Dist(p, x) <= Dist(p, Server) PROVE x \in S
    BY DEF WasServer, AllOut
  <2>1. CASE Dist(p, x) <= Dist(p, v)
    BY <2>1 DEF AllOut
  <2>2. CASE ~ (Dist(p, x) <= Dist(p, v))
    <3>1. /\ {Dist(p, x), Dist(p, v), Dist(p, Server), Dist(v, x), Dist(v, Server)} \subseteq 0 .. N - 1
          /\ Dist(p, v) < Dist(p, x) => Dist(v, x) = Dist(p, x) - Dist(p, v)
          /\ Dist(p, v) < Dist(p, Server) => Dist(v, Server) = Dist(p, Server) - Dist(p, v)
          /\ Dist(v, x) = 0 <=> v = x
      BY Dists, Ring
    <3>2. x # v /\ Dist(v, x) <= Dist(v, Server)
      BY <2>2, <3>1, Ring
    <3> QED BY <1>2, <3>2 DEF AllOut
  <2> QED BY <2>1, <2>2
<1> QED BY <1>1, <1>2 DEF WasServer

\* Of two who come before the first server with nobody in between, one has not
\* got anybody left.
LEMMA OnlyOneWasServer ==
  ASSUME NEW S, NEW p \in Players, NEW q \in Players, p # q, WasServer(S, p), WasServer(S, q)
  PROVE  p \in S \/ q \in S
<1>0. p \in Nat /\ p < N /\ q \in Nat /\ q < N /\ Server \in Nat /\ Server < N
  BY Ring
<1>1. CASE p = Server
  <2>1. AllOut(S, q, p)
    BY <1>1 DEF WasServer
  <2>2. Dist(q, p) <= Dist(q, p)
    BY <1>0, Ring DEF Dist
  <2> QED BY <2>1, <2>2 DEF AllOut
<1>2. CASE q = Server
  <2>1. AllOut(S, p, q)
    BY <1>2 DEF WasServer
  <2>2. Dist(p, q) <= Dist(p, q)
    BY <1>0, Ring DEF Dist
  <2> QED BY <2>1, <2>2 DEF AllOut
<1>3. CASE p # Server /\ q # Server
  <2>1. AllOut(S, p, Server) /\ AllOut(S, q, Server)
    BY <1>3 DEF WasServer
  <2>2. Dist(p, q) <= Dist(p, Server) \/ Dist(q, p) <= Dist(q, Server)
    BY <1>0, <1>3, Ring DEF Dist
  <2> QED BY <2>1, <2>2 DEF AllOut
<1> QED BY <1>1, <1>2, <1>3

-----------------------------------------------------------------------------
(***************************************************************************)
(* What stays true                                                         *)
(***************************************************************************)
\* A player's status goes from s to t.
Further(s, t) ==
  /\ s.state # "uninitialized" => t.state # "uninitialized"
  /\ s.state # "uninitialized" /\ ~ s.accept => ~ t.accept
  /\ s.state \in {"down", "gone"} => t.state \in {"down", "gone"}
  /\ t.state \in {"down", "gone"} \/ s.lastValid <= t.lastValid

\* The step of player p.
StepOf(p) ==
  /\ status' = [status EXCEPT ![p] = status'[p]]
  /\ Further(status[p], status'[p])

LEMMA Grows ==
  ASSUME Typed, NEW p \in Players, StepOf(p), status'[p] \in StatusSet, net \subseteq net'
  PROVE  /\ \A q \in Players : q # p => status'[q] = status[q]
         /\ \A q \in Players : Started(q) => Started(q)'
         /\ \A q \in Players : Out(q) => Out(q)'
         /\ \A q \in Players : \A seq \in Nat : Got(q, seq) => Got(q, seq)'
         /\ Lost \subseteq Lost'
<1>1. status \in [Players -> StatusSet]
  BY DEF Typed
<1>2. \A q \in Players : q # p => status'[q] = status[q]
  BY <1>1 DEF StepOf
<1>3. \A q \in Players : Further(status[q], status'[q])
  <2> TAKE q \in Players
  <2>1. CASE q = p
    BY <2>1 DEF StepOf
  <2>2. CASE q # p
    <3>1. status[q].lastValid \in Nat
      BY <1>1 DEF StatusSet
    <3> QED BY <1>2, <2>2, <3>1 DEF Further
  <2> QED BY <2>1, <2>2
<1>4. \A q \in Players : (Started(q) => Started(q)') /\ (Out(q) => Out(q)')
  BY <1>3 DEF Started, Out, Further
<1>5. \A q \in Players : \A seq \in Nat : Got(q, seq) => Got(q, seq)'
  <2> SUFFICES ASSUME NEW q \in Players, NEW seq \in Nat, Got(q, seq) PROVE Got(q, seq)'
    OBVIOUS
  <2>1. status[q].lastValid \in Nat /\ status'[q].lastValid \in Nat
    BY <1>1, <1>2 DEF StatusSet
  <2>2. Further(status[q], status'[q])
    BY <1>3
  <2> QED BY <2>1, <2>2 DEF Got, Left, Further
<1>6. Lost \subseteq Lost'
  BY <1>4 DEF Lost, Dropped
<1> QED BY <1>2, <1>4, <1>5, <1>6

\* What is right while few are lost is right when more are.
LEMMA MoreLost ==
  ASSUME NEW S, NEW T, S \subseteq T
  PROVE  /\ \A a, b \in Players : Between(S, a, b) => Between(T, a, b)
         /\ \A v \in Players : WasServer(S, v) => WasServer(T, v)
BY DEF Between, WasServer, AllOut

\* What player p may add to the network, its status being t.
MayAdd(S, p, t, m) ==
  \/ m \in AckSet /\ m.from = p /\ m.seq <= t.lastValid
  \/ m \in RingPacketSet /\ WasServer(S, m.packet.server)

\* A step that is right for the player that takes it and for what it sends, with those
\* in S lost then, is right for everybody.
LEMMA StepKeepsWith ==
  ASSUME RingInv, NEW p \in Players, NEW t \in StatusSet, NEW S, S \subseteq Lost',
         status' = [status EXCEPT ![p] = t], Further(status[p], t), StatusOK(S, p, t),
         made' \in [Players -> Nat], net \subseteq net',
         \A m \in net' : m \in net \/ MayAdd(S, p, t, m),
         AllStarted \/ FirstLap'
  PROVE  RingInv'
<1>1. Typed /\ (\A q \in Players : PlayerOK(q)) /\ (\A m \in net : MessageOK(m))
  BY DEF RingInv
<1>2. status \in [Players -> StatusSet] /\ status'[p] = t
  BY <1>1 DEF Typed
<1>3. /\ \A q \in Players : q # p => status'[q] = status[q]
      /\ \A q \in Players : Started(q) => Started(q)'
      /\ \A q \in Players : Out(q) => Out(q)'
      /\ \A q \in Players : \A seq \in Nat : Got(q, seq) => Got(q, seq)'
      /\ Lost \subseteq Lost'
  <2>1. StepOf(p)
    BY <1>2 DEF StepOf
  <2> QED BY <1>1, <1>2, <2>1, Grows
<1>4. status' \in [Players -> StatusSet]
  BY <1>2
<1>5. net' \subseteq AckSet \cup RingPacketSet
  BY <1>1 DEF Typed, MayAdd
<1>6. \A q \in Players, s \in StatusSet :
        StatusOK(Lost, q, s) \/ StatusOK(S, q, s) => StatusOK(Lost, q, s)'
  <2> SUFFICES ASSUME NEW q \in Players, NEW s \in StatusSet, NEW T, T \subseteq Lost',
                      StatusOK(T, q, s)
               PROVE  StatusOK(Lost, q, s)'
    BY <1>3
  <2>1. /\ s.upring \in Players /\ s.server \in Players /\ s.lastValid + 1 \in Nat
        /\ s.ringFrame \in PacketSet /\ s.buffer \in PacketSet
    BY DEF StatusSet
  <2>2. s.ringFrame.server \in Players /\ s.buffer.server \in Players
    BY <2>1 DEF PacketSet
  <2> DEFINE L == Lost'
  <2>3. /\ Between(T, q, s.upring) => Between(L, q, s.upring)
        /\ WasServer(T, s.server) => WasServer(L, s.server)
        /\ WasServer(T, s.ringFrame.server) => WasServer(L, s.ringFrame.server)
        /\ WasServer(T, s.buffer.server) => WasServer(L, s.buffer.server)
        /\ WasServer(T, q) => WasServer(L, q)
    <3>1. T \subseteq L
      OBVIOUS
    <3> HIDE DEF L
    <3>2. /\ \A a, b \in Players : Between(T, a, b) => Between(L, a, b)
          /\ \A v \in Players : WasServer(T, v) => WasServer(L, v)
      BY <3>1, MoreLost
    <3> QED BY <2>1, <2>2, <3>2
  <2>4. Got(s.upring, s.lastValid + 1) => Got(s.upring, s.lastValid + 1)'
    BY <1>3, <2>1
  <2> QED BY <2>3, <2>4 DEF StatusOK
<1>7. \A q \in Players : PlayerOK(q)'
  <2> SUFFICES ASSUME NEW q \in Players PROVE PlayerOK(q)'
    OBVIOUS
  <2>1. status'[q] \in StatusSet
    BY <1>4
  <2>2. StatusOK(Lost, q, status'[q]) \/ StatusOK(S, q, status'[q])
    BY <1>1, <1>2, <1>3 DEF PlayerOK
  <2>3. PICK s \in StatusSet : s = status'[q]
    BY <2>1
  <2>4. StatusOK(Lost, q, s) \/ StatusOK(S, q, s)
    BY <2>2, <2>3
  <2>5. StatusOK(Lost, q, s)'
    BY <1>6, <2>4
  <2> QED BY <2>3, <2>5 DEF PlayerOK, StatusOK
<1>8. \A m \in net' : MessageOK(m)'
  <2> SUFFICES ASSUME NEW m \in net' PROVE MessageOK(m)'
    OBVIOUS
  <2>1. CASE m \in net /\ m \in AckSet
    <3>1. m.from \in Players /\ m.seq \in Nat /\ m.tag = "ack"
      BY <2>1 DEF AckSet
    <3> QED BY <1>1, <1>3, <2>1, <3>1 DEF MessageOK
  <2>2. CASE m \in net /\ m \in RingPacketSet
    <3>1. m.packet.server \in Players /\ m.tag # "ack"
      BY <2>2 DEF RingPacketSet, PacketSet
    <3>2. WasServer(Lost, m.packet.server)
      BY <1>1, <2>2, <3>1 DEF MessageOK
    <3>3. WasServer(Lost, m.packet.server)'
      BY <1>3, <3>1, <3>2 DEF WasServer, AllOut
    <3> QED BY <3>1, <3>3 DEF MessageOK
  <2>3. CASE m \in AckSet /\ m.from = p /\ m.seq <= t.lastValid
    <3>1. m.tag = "ack"
      BY <2>3 DEF AckSet
    <3> QED BY <1>2, <2>3, <3>1 DEF MessageOK, Got
  <2>4. CASE m \in RingPacketSet /\ WasServer(S, m.packet.server)
    <3>1. m.packet.server \in Players /\ m.tag # "ack"
      BY <2>4 DEF RingPacketSet, PacketSet
    <3>2. WasServer(Lost, m.packet.server)'
      BY <2>4, <3>1 DEF WasServer, AllOut
    <3> QED BY <3>1, <3>2 DEF MessageOK
  <2> QED BY <1>1, <2>1, <2>2, <2>3, <2>4 DEF Typed, MayAdd
<1>9. AllStarted => AllStarted'
  BY <1>3 DEF AllStarted
<1> QED BY <1>1, <1>4, <1>5, <1>7, <1>8, <1>9 DEF RingInv, Typed

\* The same when nobody is dropped.
LEMMA StepKeeps ==
  ASSUME RingInv, NEW p \in Players, NEW t \in StatusSet,
         status' = [status EXCEPT ![p] = t], Further(status[p], t), StatusOK(Lost, p, t),
         made' \in [Players -> Nat], net \subseteq net',
         \A m \in net' : m \in net \/ MayAdd(Lost, p, t, m),
         AllStarted \/ FirstLap'
  PROVE  RingInv'
<1>1. Typed /\ status \in [Players -> StatusSet]
  BY DEF RingInv, Typed
<1>2. StepOf(p) /\ status'[p] = t
  BY <1>1 DEF StepOf
<1>3. Lost \subseteq Lost'
  BY <1>1, <1>2, Grows
<1> QED BY <1>3, StepKeepsWith

-----------------------------------------------------------------------------
(***************************************************************************)
(* The invariant holds at the start, and what it says of one player        *)
(***************************************************************************)
LEMMA FirstPacketTyped == FirstPacket \in PacketSet /\ FirstPacket.server = Server
<1>1. [q \in Players |-> <<>>] \in [Players -> Seq(Nat)]
  OBVIOUS
<1> QED BY <1>1, Ring DEF FirstPacket, PacketSet, PacketTypes

LEMMA OutOfGameTyped ==
  ASSUME NEW state \in States
  PROVE  OutOfGame(state) \in StatusSet
BY FirstPacketTyped, Ring DEF OutOfGame, StatusSet

LEMMA FirstServer == WasServer(Lost, Server)
BY DEF WasServer

\* Whoever has left, or has not come yet, is right.
LEMMA OutOfGameOK ==
  ASSUME NEW p \in Players, NEW state \in {"uninitialized", "down", "gone"}
  PROVE  StatusOK(Lost, p, OutOfGame(state))
BY FirstPacketTyped, FirstServer DEF StatusOK, OutOfGame, FirstPacket

LEMMA RingInit == Init => RingInv
<1> SUFFICES ASSUME Init PROVE RingInv
  OBVIOUS
<1>1. \A p \in Players : status[p] = OutOfGame("uninitialized")
  BY DEF Init
<1>2. Typed
  <2>1. OutOfGame("uninitialized") \in StatusSet
    BY OutOfGameTyped DEF States
  <2> QED BY <2>1, Ring DEF Init, Typed
<1>3. \A p \in Players : PlayerOK(p)
  BY <1>1, OutOfGameOK DEF PlayerOK
<1>4. FirstLap
  BY <1>1 DEF FirstLap, OutOfGame, InGame, Init
<1> QED BY <1>2, <1>3, <1>4 DEF Init, RingInv

\* What the proofs of the steps begin with.
LEMMA Player ==
  ASSUME RingInv, NEW p \in Players
  PROVE  /\ status \in [Players -> StatusSet] /\ status[p] \in StatusSet
         /\ status[p].upring \in Players /\ status[p].downring \in Players
         /\ status[p].server \in Players /\ status[p].lastValid \in Nat
         /\ status[p].ringFrame \in PacketSet /\ status[p].buffer \in PacketSet
         /\ StatusOK(Lost, p, status[p])
         /\ made \in [Players -> Nat] /\ made[p] \in Nat
         /\ InGame(p) => Started(p) /\ ~ Left(p)
         /\ status[p].state \in {"active", "comingDown", "down"} => AllStarted
         /\ status[p].clearToForward => AllStarted
<1>1. status \in [Players -> StatusSet] /\ made \in [Players -> Nat] /\ PlayerOK(p)
  BY DEF RingInv, Typed
<1>2. status[p] \in StatusSet
  BY <1>1
<1>3. AllStarted \/ FirstLap
  BY DEF RingInv
<1>4. /\ status[p].state \in {"active", "comingDown", "down"} => AllStarted
      /\ status[p].clearToForward => AllStarted
  BY <1>3 DEF FirstLap
<1> QED BY <1>1, <1>2, <1>4 DEF StatusSet, PlayerOK, InGame, Started, Left

LEMMA Message ==
  ASSUME RingInv, NEW m \in net
  PROVE  /\ m.tag = "ack" => m \in AckSet /\ Got(m.from, m.seq)
         /\ m.tag # "ack" => /\ m \in RingPacketSet /\ m.tag \in {"ring", "change"}
                             /\ m.packet \in PacketSet /\ m.packet.server \in Players
                             /\ WasServer(Lost, m.packet.server)
         /\ m.from \in Players /\ m.to \in Players /\ m.seq \in Nat
<1>1. m \in AckSet \cup RingPacketSet /\ MessageOK(m)
  BY DEF RingInv, Typed
<1>2. CASE m \in AckSet
  BY <1>1, <1>2 DEF AckSet, MessageOK
<1>3. CASE m \in RingPacketSet
  <2>1. /\ m.tag \in {"ring", "change"} /\ m.packet \in PacketSet
        /\ m.from \in Players /\ m.to \in Players /\ m.seq \in Nat
    BY <1>3 DEF RingPacketSet
  <2>2. m.packet.server \in Players
    BY <2>1 DEF PacketSet
  <2> QED BY <1>1, <1>3, <2>1, <2>2 DEF MessageOK
<1> QED BY <1>1, <1>2, <1>3

\* The first lap goes on when a player takes no step that ends it, and sends nothing.
LEMMA FirstLapStill ==
  ASSUME RingInv, FirstLap, NEW p \in Players, NEW t \in StatusSet,
         status' = [status EXCEPT ![p] = t], Further(status[p], t),
         t.state \in {"uninitialized", "startingUp", "gone"}, ~ t.clearToForward,
         t.state = "startingUp" => /\ t.downring = Previous(p)
                                   /\ t.iAmTheServer <=> p = Server,
         \A m \in net' : \/ m \in net \/ m.tag = "ack"
                         \/ /\ m.tag = "ring" /\ m.packet.type = "sync"
                            /\ \A x \in Players :
                                 Dist(Server, x) <= Dist(Server, m.from) => Started(x)'
  PROVE  FirstLap'
<1>1. status \in [Players -> StatusSet] /\ Typed
  BY DEF RingInv, Typed
<1>2. status'[p] = t /\ \A q \in Players : q # p => status'[q] = status[q]
  BY <1>1
<1>3. \A q \in Players : Started(q) => Started(q)'
  BY <1>2 DEF Started, Further
<1>4. \A q \in Players :
        /\ status'[q].state \in {"uninitialized", "startingUp", "gone"}
        /\ ~ status'[q].clearToForward
        /\ InGame(q)' => /\ status'[q].downring = Previous(q)
                         /\ status'[q].iAmTheServer <=> q = Server
  <2> TAKE q \in Players
  <2>1. CASE q = p
    BY <1>2, <2>1 DEF InGame
  <2>2. CASE q # p
    BY <1>2, <2>2 DEF InGame, FirstLap
  <2> QED BY <2>1, <2>2
<1>5. \A m \in net' : m.tag # "ack" =>
        /\ m.tag = "ring" /\ m.packet.type = "sync"
        /\ \A x \in Players : Dist(Server, x) <= Dist(Server, m.from) => Started(x)'
  BY <1>3 DEF FirstLap
<1> QED BY <1>4, <1>5 DEF FirstLap, Dist

\* What memmove does to the words after a player's: they are as many as before, and
\* stay the same unless that player is dead.
LEMMA OneLateTyped ==
  ASSUME NEW S, NEW words \in Seq(S), Alien \in S
  PROVE  OneLate(words) \in Seq(S) /\ Len(OneLate(words)) = Len(words)
<1>1. CASE words = <<>>
  BY <1>1 DEF OneLate
<1>2. CASE words # <<>>
  <2> DEFINE n == Len(words) - 1
  <2>1. n \in Nat /\ Len(words) = n + 1
    BY <1>2
  <2>2. Front(words) = [i \in 1 .. n |-> words[i]]
    BY DEF Front
  <2>3. Front(words) \in Seq(S) /\ Len(Front(words)) = n
    <3>1. \A i \in 1 .. n : words[i] \in S
      BY <2>1
    <3> HIDE DEF n
    <3> QED BY <2>1, <2>2, <3>1
  <2>4. OneLate(words) = <<Alien>> \o Front(words)
    BY <1>2 DEF OneLate
  <2>5. <<Alien>> \in Seq(S) /\ Len(<<Alien>>) = 1
    OBVIOUS
  <2> HIDE DEF n
  <2>6. /\ <<Alien>> \o Front(words) \in Seq(S)
        /\ Len(<<Alien>> \o Front(words)) = Len(<<Alien>>) + Len(Front(words))
    BY <2>3, <2>5, ConcatProperties
  <2> QED BY <2>1, <2>3, <2>4, <2>5, <2>6
<1> QED BY <1>1, <1>2

LEMMA MovedTyped ==
  ASSUME NEW p \in Players, NEW packet \in PacketSet
  PROVE  /\ Moved(p, packet) \in PacketSet
         /\ Moved(p, packet).type = packet.type
         /\ Moved(p, packet).server = packet.server
         /\ Moved(p, packet).required = packet.required
         /\ Moved(p, packet).dead = packet.dead
         /\ p \notin packet.dead => Moved(p, packet) = packet
<1>1. CASE p \notin packet.dead
  BY <1>1 DEF Moved
<1>2. CASE p \in packet.dead
  <2> DEFINE flags == [q \in Players |->
                        IF q > p THEN OneLate(packet.flags[q]) ELSE packet.flags[q]]
  <2>1. Moved(p, packet) = [packet EXCEPT !.flags = flags]
    BY <1>2 DEF Moved
  <2>2. flags \in [Players -> Seq(Nat)]
    <3>1. \A q \in Players : packet.flags[q] \in Seq(Nat)
      BY DEF PacketSet
    <3>2. \A q \in Players : OneLate(packet.flags[q]) \in Seq(Nat)
      BY <3>1, OneLateTyped, RingAssumption
    <3> QED BY <3>1, <3>2
  <2> HIDE DEF flags
  <2> QED BY <1>2, <2>1, <2>2 DEF PacketSet
<1> QED BY <1>1, <1>2

LEMMA MovedWords ==
  ASSUME NEW p \in Players, NEW packet \in PacketSet
  PROVE  \A q \in Players :
           Moved(p, packet).flags[q] \in {packet.flags[q], OneLate(packet.flags[q])}
<1>1. CASE p \notin packet.dead
  BY <1>1 DEF Moved
<1>2. CASE p \in packet.dead
  BY <1>2 DEF Moved, PacketSet
<1> QED BY <1>1, <1>2

-----------------------------------------------------------------------------
(***************************************************************************)
(* The steps without a packet passed on                                    *)
(***************************************************************************)
\* A player that joins has nobody between itself and its neighbour.
LEMMA SyncStep ==
  ASSUME RingInv, NEW p \in Players, Sync(p)
  PROVE  RingInv'
<1> DEFINE s == [OutOfGame("startingUp") EXCEPT
                   !.upring = Next_(p), !.downring = Previous(p),
                   !.server = Server, !.accept = TRUE, !.iAmTheServer = p = Server]
           sent == Sending(s, FirstPacket)
           t == IF p = Server THEN sent ELSE s
<1>1. /\ status' = [status EXCEPT ![p] = t] /\ made' = made
      /\ net' = IF p = Server THEN net \cup {RingFrame(p, sent, "ring")} ELSE net
      /\ status[p].state = "uninitialized"
  BY DEF Sync
<1>2. /\ status[p].lastValid \in Nat /\ status[p] \in StatusSet
      /\ status \in [Players -> StatusSet] /\ made \in [Players -> Nat]
      /\ StatusOK(Lost, p, status[p])
  BY Player
<1>3. /\ s \in StatusSet /\ sent \in StatusSet
      /\ s.upring = Next_(p) /\ s.downring = Previous(p) /\ s.server = Server
      /\ s.state = "startingUp" /\ s.accept /\ (s.iAmTheServer <=> p = Server)
      /\ s.lastValid = 0 /\ ~ s.clearToForward
      /\ s.ringFrame = FirstPacket /\ s.buffer = FirstPacket
  <2>1. OutOfGame("startingUp") \in StatusSet
    BY OutOfGameTyped DEF States
  <2> QED BY <2>1, FirstPacketTyped, Neighbours, Ring
          DEF StatusSet, Sending, OutOfGame, States
<1>4. /\ t \in StatusSet /\ t.upring = Next_(p) /\ t.downring = Previous(p)
      /\ t.server = Server /\ t.state = "startingUp" /\ t.accept
      /\ t.iAmTheServer <=> p = Server
      /\ t.lastValid = 0 /\ ~ t.clearToForward
      /\ t.ringFrame = FirstPacket /\ t.buffer = FirstPacket
  BY <1>3 DEF Sending
<1> HIDE DEF t
<1>5. Further(status[p], t)
  <2>1. ~ status[p].accept /\ status[p].lastValid = 0
    BY <1>1, <1>2 DEF StatusOK
  <2>2. status[p].state \notin {"down", "gone"} /\ t.lastValid = 0
    BY <1>1, <1>4
  <2> QED BY <1>1, <1>4, <2>1, <2>2 DEF Further
<1>6. StatusOK(Lost, p, t)
  <2>1. Between(Lost, p, Next_(p))
    <3> SUFFICES ASSUME NEW x \in Players, x # p, Dist(p, x) < Dist(p, Next_(p)) PROVE FALSE
      BY DEF Between
    <3>1. /\ Dist(p, p) = 0 /\ Dist(p, Next_(p)) = Dist(p, p) + 1
          /\ Dist(p, x) \in 0 .. N - 1 /\ (Dist(p, x) = 0 <=> p = x)
      BY Dists, Neighbours
    <3> QED BY <3>1, Ring
  <2>2. FirstPacket.server = Server /\ FirstPacket.type = "sync" /\ WasServer(Lost, Server)
    BY FirstPacketTyped, FirstServer DEF FirstPacket
  <2>3. t.iAmTheServer => WasServer(Lost, p)
    BY <1>4, <2>2
  <2> QED BY <1>4, <2>1, <2>2, <2>3 DEF StatusOK
<1>7. \A m \in net' : m \in net \/ MayAdd(Lost, p, t, m)
  <2> SUFFICES ASSUME NEW m \in net', m \notin net PROVE m \in RingPacketSet /\ WasServer(Lost, m.packet.server)
    BY DEF MayAdd
  <2>1. p = Server /\ m = RingFrame(p, sent, "ring")
    BY <1>1
  <2>2. m = [from |-> p, to |-> Next_(p), tag |-> "ring", seq |-> 1, packet |-> FirstPacket]
    BY <2>1, <1>3 DEF RingFrame, RingPacket, Sending
  <2> QED BY <2>2, FirstPacketTyped, FirstServer, Neighbours, Ring DEF RingPacketSet
<1>8. FirstLap'
  <2>1. FirstLap
    BY <1>1, Ring DEF RingInv, AllStarted, Started
  <2>2. \A m \in net' : \/ m \in net \/ m.tag = "ack"
                         \/ /\ m.tag = "ring" /\ m.packet.type = "sync"
                            /\ \A x \in Players :
                                 Dist(Server, x) <= Dist(Server, m.from) => Started(x)'
    <3> SUFFICES ASSUME NEW m \in net', m \notin net
                 PROVE  /\ m.tag = "ring" /\ m.packet.type = "sync"
                        /\ \A x \in Players :
                             Dist(Server, x) <= Dist(Server, m.from) => Started(x)'
      OBVIOUS
    <3>1. p = Server /\ m = RingFrame(p, sent, "ring")
      BY <1>1
    <3>2. m = [from |-> p, to |-> Next_(p), tag |-> "ring", seq |-> 1, packet |-> FirstPacket]
      BY <3>1, <1>3 DEF RingFrame, RingPacket, Sending
    <3>3. m.tag = "ring" /\ m.packet.type = "sync" /\ m.from = Server
      BY <3>1, <3>2 DEF FirstPacket
    <3>4. ASSUME NEW x \in Players, Dist(Server, x) <= Dist(Server, Server) PROVE x = p
      BY <3>1, <3>4, Ring DEF Dist
    <3>5. Started(p)'
      BY <1>1, <1>2, <1>4 DEF Started
    <3> QED BY <3>3, <3>4, <3>5
  <2> QED BY <1>1, <1>4, <1>5, <2>1, <2>2, FirstLapStill
<1> QED BY <1>1, <1>2, <1>4, <1>5, <1>6, <1>7, <1>8, StepKeeps

\* Who leaves, in good order or not, has begun, and takes no more packets.
LEMMA LeavingStep ==
  ASSUME RingInv, NEW p \in Players, NEW state \in {"down", "gone"},
         status' = [status EXCEPT ![p] = OutOfGame(state)], InGame(p),
         status[p].state = "comingDown" \/ state = "gone",
         net' = net, made' = made
  PROVE  RingInv'
<1> DEFINE t == OutOfGame(state)
<1>1. /\ t \in StatusSet /\ StatusOK(Lost, p, t) /\ t.state = state
      /\ ~ t.accept /\ ~ t.clearToForward /\ state # "uninitialized"
  BY OutOfGameTyped, OutOfGameOK DEF OutOfGame, States
<1> HIDE DEF t
<1>2. Further(status[p], t)
  BY <1>1 DEF Further
<1>3. AllStarted \/ FirstLap'
  <2>1. CASE AllStarted
    BY <2>1
  <2>2. CASE ~ AllStarted
    <3>1. FirstLap /\ state = "gone"
      BY <2>2, Player DEF RingInv
    <3>2. t.state \in {"uninitialized", "startingUp", "gone"} /\ t.state # "startingUp"
      BY <1>1, <3>1
    <3> QED BY <1>1, <1>2, <3>1, <3>2, FirstLapStill DEF t
  <2> QED BY <2>1, <2>2
<1> QED BY <1>1, <1>2, <1>3, StepKeeps, Player DEF t

LEMMA LeaveStep ==
  ASSUME RingInv, NEW p \in Players, Leave(p)
  PROVE  RingInv'
<1>1. CASE UnSyncBegins(p)
  <2> DEFINE t == [status[p] EXCEPT !.state = "comingDown"]
  <2>1. /\ status' = [status EXCEPT ![p] = t] /\ net' = net /\ made' = made
        /\ status[p].state = "active" /\ AllStarted
    BY <1>1, Player DEF UnSyncBegins
  <2>2. t \in StatusSet
    <3>1. status[p] \in StatusSet
      BY Player
    <3> QED BY <3>1 DEF StatusSet, States
  <2>3. StatusOK(Lost, p, t) /\ Further(status[p], t)
    <3>1. StatusOK(Lost, p, status[p]) /\ status[p].lastValid \in Nat /\ status[p] \in StatusSet
      BY Player
    <3>2. /\ t.state = "comingDown" /\ t.accept = status[p].accept
          /\ t.upring = status[p].upring /\ t.server = status[p].server
          /\ t.lastValid = status[p].lastValid /\ t.ringFrame = status[p].ringFrame
          /\ t.buffer = status[p].buffer /\ t.iAmTheServer = status[p].iAmTheServer
      BY <3>1 DEF StatusSet
    <3> HIDE DEF t
    <3> QED BY <2>1, <3>1, <3>2 DEF StatusOK, Further
  <2> QED BY <2>1, <2>2, <2>3, StepKeeps, Player
<1>2. CASE UnSyncEnds(p)
  BY <1>2, LeavingStep DEF UnSyncEnds, InGame
<1>3. CASE SyncTimesOut(p) \/ UnSyncTimesOut(p) \/ Crash(p)
  <2>1. IsGone(p) /\ InGame(p)
    BY <1>3 DEF SyncTimesOut, UnSyncTimesOut, Crash, InGame
  <2> QED BY <2>1, LeavingStep DEF IsGone
<1> QED BY <1>1, <1>2, <1>3 DEF Leave

\* A step that changes nothing the first lap or the invariant's arcs are about: flags
\* of the player, its down-ring neighbour after the first lap, who it takes for the
\* server.
Minor(s, t) ==
  /\ t.state = s.state /\ t.upring = s.upring /\ t.lastValid = s.lastValid
  /\ t.ringFrame = s.ringFrame /\ t.buffer = s.buffer
  /\ t.iAmTheServer = s.iAmTheServer /\ t.clearToForward = s.clearToForward
  /\ t.accept = s.accept \/ (~ t.accept /\ s.state = "comingDown")
  /\ t.server = s.server \/ WasServer(Lost, t.server)
  /\ t.downring = s.downring \/ AllStarted
  /\ t.receivedAck = s.receivedAck \/ Got(s.upring, s.lastValid + 1)

MinorAdd(p, t, m) == MayAdd(Lost, p, t, m) /\ m.tag = "ack"

LEMMA MinorStep ==
  ASSUME RingInv, NEW p \in Players, NEW t \in StatusSet, InGame(p),
         status' = [status EXCEPT ![p] = t], made' = made, Minor(status[p], t),
         net \subseteq net', \A m \in net' : m \in net \/ MinorAdd(p, t, m)
  PROVE  RingInv'
<1>1. StatusOK(Lost, p, status[p]) /\ status[p].lastValid \in Nat /\ made \in [Players -> Nat]
  BY Player
<1>2. StatusOK(Lost, p, t)
  BY <1>1 DEF StatusOK, Minor
<1>3. Further(status[p], t)
  BY <1>1 DEF Further, InGame, Minor
<1>4. AllStarted \/ FirstLap'
  <2>1. CASE AllStarted
    BY <2>1
  <2>2. CASE ~ AllStarted
    <3>1. FirstLap
      BY <2>2 DEF RingInv
    <3>2. /\ t.state \in {"uninitialized", "startingUp", "gone"} /\ ~ t.clearToForward
          /\ t.downring = Previous(p) /\ (t.iAmTheServer <=> p = Server)
      BY <2>2, <3>1 DEF FirstLap, InGame, Minor
    <3> QED BY <1>3, <3>1, <3>2, FirstLapStill DEF MinorAdd
  <2> QED BY <2>1, <2>2
<1> QED BY <1>1, <1>2, <1>3, <1>4, StepKeeps DEF MinorAdd

\* The acknowledgement of a packet that is the neighbour's, and in time.
LEMMA AckStep ==
  ASSUME RingInv, NEW p \in Players, NEW m \in net, InGame(p), ReceiveAck(p, m)
  PROVE  RingInv'
<1> DEFINE t == [status[p] EXCEPT !.receivedAck = TRUE]
<1>1. /\ status' = [status EXCEPT ![p] = t] /\ net' = net /\ made' = made
      /\ Got(status[p].upring, status[p].lastValid + 1)
  BY Message DEF ReceiveAck, FromUpring, OnTime
<1>2. status[p] \in StatusSet
  BY Player
<1>3. /\ t \in StatusSet /\ t.state = status[p].state /\ t.upring = status[p].upring
      /\ t.lastValid = status[p].lastValid /\ t.ringFrame = status[p].ringFrame
      /\ t.buffer = status[p].buffer /\ t.iAmTheServer = status[p].iAmTheServer
      /\ t.clearToForward = status[p].clearToForward /\ t.accept = status[p].accept
      /\ t.server = status[p].server /\ t.downring = status[p].downring
  BY <1>2 DEF StatusSet
<1> HIDE DEF t
<1> QED BY <1>1, <1>3, MinorStep DEF Minor

\* Only a player who has got that far asks to be somebody's down-ring neighbour.
LEMMA DownringMayChange ==
  ASSUME RingInv, NEW p \in Players, NEW m \in net, ForMe(p, m), InGame(p)
  PROVE  LET t == WithDownring(p, m)
         IN  /\ t \in StatusSet /\ t.state = status[p].state /\ t.upring = status[p].upring
             /\ t.lastValid = status[p].lastValid /\ t.ringFrame = status[p].ringFrame
             /\ t.buffer = status[p].buffer /\ t.iAmTheServer = status[p].iAmTheServer
             /\ t.clearToForward = status[p].clearToForward /\ t.accept = status[p].accept
             /\ t.server = status[p].server /\ t.receivedAck = status[p].receivedAck
             /\ t.canForward = status[p].canForward
             /\ t.downring = status[p].downring \/ AllStarted
<1>1. status[p] \in StatusSet /\ m.from \in Players
  BY Player, Message
<1>2. CASE m.tag = "change"
  <2>1. AllStarted
    BY <1>2 DEF RingInv, FirstLap
  <2> QED BY <1>1, <1>2, <2>1 DEF WithDownring, StatusSet
<1>3. CASE m.tag # "change"
  BY <1>1, <1>3 DEF WithDownring
<1> QED BY <1>2, <1>3

LEMMA LateStep ==
  ASSUME RingInv, NEW p \in Players, NEW m \in net, InGame(p),
         ReceiveTooLate(p, m) \/ ReceiveLate(p, m)
  PROVE  RingInv'
<1> DEFINE t == WithDownring(p, m)
<1>1. ForMe(p, m)
  BY DEF ReceiveTooLate, ReceiveLate
<1>2. status' = [status EXCEPT ![p] = t] /\ made' = made /\ net \subseteq net'
  BY DEF ReceiveTooLate, ReceiveLate
<1>3. /\ t \in StatusSet /\ t.state = status[p].state /\ t.upring = status[p].upring
      /\ t.lastValid = status[p].lastValid /\ t.ringFrame = status[p].ringFrame
      /\ t.buffer = status[p].buffer /\ t.iAmTheServer = status[p].iAmTheServer
      /\ t.clearToForward = status[p].clearToForward /\ t.accept = status[p].accept
      /\ t.server = status[p].server /\ t.receivedAck = status[p].receivedAck
      /\ t.downring = status[p].downring \/ AllStarted
  BY <1>1, DownringMayChange
<1> HIDE DEF t
<1>4. \A a \in net' : a \in net \/ MinorAdd(p, t, a)
  <2> SUFFICES ASSUME NEW a \in net', a \notin net PROVE MinorAdd(p, t, a)
    OBVIOUS
  <2>1. a = Ack(p, m.from, m.seq) /\ m.seq <= status[p].lastValid
    BY DEF ReceiveTooLate, ReceiveLate
  <2>2. m.from \in Players /\ m.seq \in Nat
    BY Message
  <2> QED BY <1>3, <2>1, <2>2 DEF MinorAdd, MayAdd, AckSet, Ack
<1> QED BY <1>2, <1>3, <1>4, MinorStep DEF Minor

LEMMA IgnoreStep ==
  ASSUME RingInv, NEW p \in Players, NEW m \in net, InGame(p), IgnoreUnsync(p, m)
  PROVE  RingInv'
<1> DEFINE d == WithDownring(p, m)
           t == [Seen(p, m) EXCEPT !.lastValid = status[p].lastValid]
<1>1. ForMe(p, m) /\ m.tag # "ack"
  BY DEF IgnoreUnsync, ReceiveNew, ForMe
<1>2. status' = [status EXCEPT ![p] = t] /\ net' = net /\ made' = made
  BY DEF IgnoreUnsync
<1>3. /\ d \in StatusSet /\ d.state = status[p].state /\ d.upring = status[p].upring
      /\ d.lastValid = status[p].lastValid /\ d.ringFrame = status[p].ringFrame
      /\ d.buffer = status[p].buffer /\ d.iAmTheServer = status[p].iAmTheServer
      /\ d.clearToForward = status[p].clearToForward /\ d.accept = status[p].accept
      /\ d.receivedAck = status[p].receivedAck
      /\ d.downring = status[p].downring \/ AllStarted
  BY <1>1, DownringMayChange
<1>4. /\ m.packet.server \in Players /\ m.seq \in Nat /\ WasServer(Lost, m.packet.server)
      /\ status[p].lastValid \in Nat
  BY <1>1, Message, Player
<1>5. t = [d EXCEPT !.server = m.packet.server, !.lastValid = status[p].lastValid]
  BY <1>3, <1>4 DEF Seen, StatusSet
<1>6. /\ t \in StatusSet /\ t.state = d.state /\ t.upring = d.upring
      /\ t.lastValid = status[p].lastValid /\ t.ringFrame = d.ringFrame
      /\ t.buffer = d.buffer /\ t.iAmTheServer = d.iAmTheServer
      /\ t.clearToForward = d.clearToForward /\ t.accept = d.accept
      /\ t.server = m.packet.server /\ t.receivedAck = d.receivedAck
      /\ t.downring = d.downring
  BY <1>3, <1>4, <1>5 DEF StatusSet
<1> HIDE DEF t, d
<1> QED BY <1>2, <1>3, <1>4, <1>6, MinorStep DEF Minor

LEMMA EarlyStep ==
  ASSUME RingInv, NEW p \in Players, ServerTaskEarly(p)
  PROVE  RingInv'
<1> DEFINE t == [status[p] EXCEPT !.canForward = TRUE]
<1>1. /\ status' = [status EXCEPT ![p] = t] /\ net' = net /\ made' = made /\ InGame(p)
  BY DEF ServerTaskEarly
<1>2. status[p] \in StatusSet
  BY Player
<1>3. /\ t \in StatusSet /\ t.state = status[p].state /\ t.upring = status[p].upring
      /\ t.lastValid = status[p].lastValid /\ t.ringFrame = status[p].ringFrame
      /\ t.buffer = status[p].buffer /\ t.iAmTheServer = status[p].iAmTheServer
      /\ t.clearToForward = status[p].clearToForward /\ t.accept = status[p].accept
      /\ t.server = status[p].server /\ t.downring = status[p].downring
      /\ t.receivedAck = status[p].receivedAck
  BY <1>2 DEF StatusSet
<1> HIDE DEF t
<1> QED BY <1>1, <1>3, MinorStep DEF Minor

LEMMA GiveUpStep ==
  ASSUME RingInv, NEW p \in Players, GiveUp(p)
  PROVE  RingInv'
<1> DEFINE t == [status[p] EXCEPT !.accept = FALSE]
<1>1. /\ status' = [status EXCEPT ![p] = t] /\ net' = net /\ made' = made
      /\ InGame(p) /\ status[p].state = "comingDown"
  BY DEF GiveUp, InGame
<1>2. status[p] \in StatusSet
  BY Player
<1>3. /\ t \in StatusSet /\ t.state = status[p].state /\ t.upring = status[p].upring
      /\ t.lastValid = status[p].lastValid /\ t.ringFrame = status[p].ringFrame
      /\ t.buffer = status[p].buffer /\ t.iAmTheServer = status[p].iAmTheServer
      /\ t.clearToForward = status[p].clearToForward /\ ~ t.accept
      /\ t.server = status[p].server /\ t.downring = status[p].downring
      /\ t.receivedAck = status[p].receivedAck
  BY <1>2 DEF StatusSet
<1> HIDE DEF t
<1> QED BY <1>1, <1>3, MinorStep DEF Minor

\* What dropping a player does to the packet.
LEMMA BuriedTyped ==
  ASSUME NEW old \in Players, NEW packet \in PacketSet
  PROVE  /\ Buried(packet, old) \in PacketSet
         /\ Buried(packet, old).server = packet.server
         /\ Buried(packet, old).type = packet.type
<1> DEFINE f == Moved(old, packet)
<1>1. f \in PacketSet /\ f.server = packet.server /\ f.type = packet.type
  BY MovedTyped
<1>2. Buried(packet, old) = [f EXCEPT !.dead = @ \cup {old}, !.flags[old] = <<>>]
  BY DEF Buried
<1> HIDE DEF f
<1>3. f.dead \in SUBSET Players /\ f.flags \in [Players -> Seq(Nat)]
  BY <1>1 DEF PacketSet
<1>4. [f.flags EXCEPT ![old] = <<>>] \in [Players -> Seq(Nat)]
  <2>1. <<>> \in Seq(Nat)
    OBVIOUS
  <2> QED BY <1>3, <2>1
<1>5. f.dead \cup {old} \in SUBSET Players
  BY <1>3
<1> QED BY <1>1, <1>2, <1>4, <1>5 DEF PacketSet

\* Between who drops its neighbour and the next all are lost, that neighbour now among
\* them, whether or not it has gone; and when it was the server, who drops it comes before
\* the first server as it did.
LEMMA DropStep ==
  ASSUME RingInv, NEW p \in Players, DropUpring(p)
  PROVE  RingInv'
<1> DEFINE old == status[p].upring
           t == [status[p] EXCEPT
                   !.upring = Next_(old),
                   !.server = IF Crowned(p, old) THEN p ELSE @,
                   !.iAmTheServer = @ \/ Crowned(p, old),
                   !.ringFrame = Buried(@, old)]
<1>1. /\ status' = [status EXCEPT ![p] = t] /\ made' = made
      /\ net' = net \cup {RingFrame(p, t, "change")}
      /\ status[p].state = "active" /\ Unanswered(p)
  BY DEF DropUpring
<1>2. /\ status[p] \in StatusSet /\ old \in Players /\ status[p].server \in Players
      /\ status[p].ringFrame \in PacketSet /\ StatusOK(Lost, p, status[p]) /\ AllStarted
      /\ status[p].lastValid \in Nat /\ made \in [Players -> Nat]
  BY <1>1, Player
<1>3. Next_(old) \in Players
  BY <1>2, Neighbours
<1>4. /\ Buried(status[p].ringFrame, old) \in PacketSet
      /\ Buried(status[p].ringFrame, old).server = status[p].ringFrame.server
      /\ Buried(status[p].ringFrame, old).type = status[p].ringFrame.type
  BY <1>2, BuriedTyped
<1>5. /\ t \in StatusSet /\ t.state = status[p].state /\ t.upring = Next_(old)
      /\ t.lastValid = status[p].lastValid /\ t.accept = status[p].accept
      /\ t.ringFrame = Buried(status[p].ringFrame, old)
      /\ t.buffer = status[p].buffer
      /\ t.iAmTheServer <=> status[p].iAmTheServer \/ Crowned(p, old)
      /\ t.clearToForward = status[p].clearToForward
      /\ t.server = IF Crowned(p, old) THEN p ELSE status[p].server
      /\ t.receivedAck = status[p].receivedAck
  <2>1. Crowned(p, old) \in BOOLEAN
    BY DEF Crowned
  <2> QED BY <1>2, <1>3, <1>4, <2>1 DEF StatusSet
<1> HIDE DEF t, old
<1>6. ~ status[p].receivedAck
  BY <1>1 DEF Unanswered
<1> DEFINE S == Lost \cup {old}
<1>7. S \subseteq Lost'
  <2>1. StepOf(p) /\ status'[p] = t
    <3>1. status \in [Players -> StatusSet] /\ Further(status[p], t)
      BY <1>1, <1>2, <1>5, Player DEF Further
    <3> QED BY <1>1, <3>1 DEF StepOf
  <2>2. Lost \subseteq Lost'
    BY <1>1, <1>2, <1>5, <2>1, Grows DEF RingInv
  <2>3. old \in Dropped'
    <3>1. RingFrame(p, t, "change") \in net' /\ RingFrame(p, t, "change").tag = "change"
      BY <1>1 DEF RingFrame, RingPacket
    <3>2. Previous(RingFrame(p, t, "change").to) = old
      <4>1. RingFrame(p, t, "change").to = Next_(old)
        BY <1>5 DEF RingFrame, RingPacket
      <4>2. Previous(Next_(old)) = old
        <5>1. old \in 0 .. N - 1 /\ N \in Nat /\ N > 1
          BY <1>2, Ring DEF Players
        <5>2. Next_(old) = IF old = N - 1 THEN 0 ELSE old + 1
          BY <1>2, Neighbours
        <5>3. Previous(Next_(old)) = IF Next_(old) = 0 THEN N - 1 ELSE Next_(old) - 1
          BY <1>3, Neighbours
        <5> QED BY <5>1, <5>2, <5>3
      <4> QED BY <4>1, <4>2
    <3> QED BY <3>1, <3>2 DEF Dropped
  <2> QED BY <2>2, <2>3 DEF Lost
<1> HIDE DEF S
<1>8. old \in S /\ Lost \subseteq S
  BY DEF S
<1>9. /\ Between(S, p, old) /\ WasServer(S, status[p].server)
      /\ WasServer(S, status[p].ringFrame.server) /\ WasServer(S, status[p].buffer.server)
      /\ status[p].iAmTheServer /\ status[p].accept => WasServer(S, p)
  <2>1. status[p].ringFrame.server \in Players /\ status[p].buffer.server \in Players
    BY <1>1, Player DEF PacketSet
  <2>2. /\ Between(Lost, p, old) /\ WasServer(Lost, status[p].server)
        /\ WasServer(Lost, status[p].ringFrame.server)
        /\ WasServer(Lost, status[p].buffer.server)
        /\ status[p].iAmTheServer /\ status[p].accept => WasServer(Lost, p)
    BY <1>1, <1>2 DEF StatusOK, old
  <2> QED BY <1>2, <1>8, <2>1, <2>2, MoreLost
<1>10. Between(S, p, Next_(old)) /\ AllOut(S, p, old)
  BY <1>2, <1>8, <1>9, BetweenMore
<1>11. Crowned(p, old) => WasServer(S, p)
  BY <1>2, <1>9, <1>10, WasServerToo DEF Crowned
<1>12. StatusOK(S, p, t)
  BY <1>1, <1>2, <1>4, <1>5, <1>6, <1>9, <1>10, <1>11 DEF StatusOK
<1>13. Further(status[p], t)
  BY <1>1, <1>2, <1>5 DEF Further
<1>14. \A m \in net' : m \in net \/ MayAdd(S, p, t, m)
  <2> SUFFICES ASSUME NEW m \in net', m \notin net
               PROVE  m \in RingPacketSet /\ WasServer(S, m.packet.server)
    BY DEF MayAdd
  <2>1. m = [from |-> p, to |-> Next_(old), tag |-> "change",
             seq |-> status[p].lastValid + 1, packet |-> Buried(status[p].ringFrame, old)]
    BY <1>1, <1>5 DEF RingFrame, RingPacket
  <2> QED BY <1>2, <1>3, <1>4, <1>9, <2>1 DEF RingPacketSet
<1> QED BY <1>1, <1>2, <1>5, <1>7, <1>12, <1>13, <1>14, StepKeepsWith

-----------------------------------------------------------------------------
(***************************************************************************)
(* The steps that pass a packet on                                         *)
(***************************************************************************)
\* The player p may pass packet on with the status s but for what sending it changes.
MayPassOn(p, s, packet) ==
  /\ s.state \in {"startingUp", "active", "comingDown"}
  /\ s.state \in {"startingUp", "active"} => s.accept /\ packet.type # "unsync"
  /\ s.accept => status[p].accept
  /\ s.upring = status[p].upring /\ s.lastValid >= status[p].lastValid
  /\ s.buffer = status[p].buffer /\ s.iAmTheServer = status[p].iAmTheServer
  /\ WasServer(Lost, s.server) /\ WasServer(Lost, packet.server)

FirstPass(p, s, packet) ==
  /\ s.state = "startingUp" /\ s.downring = Previous(p)
  /\ s.iAmTheServer <=> p = Server
  /\ packet.type = "sync"
  /\ \A x \in Players : Dist(Server, x) <= Dist(Server, p) => Started(x)

LEMMA PassStep ==
  ASSUME RingInv, NEW p \in Players, InGame(p), NEW s \in StatusSet,
         NEW packet \in PacketSet, PassedOn(p, s, packet), made' \in [Players -> Nat],
         MayPassOn(p, s, packet), AllStarted \/ FirstPass(p, s, packet)
  PROVE  RingInv'
<1> DEFINE t == Sending(s, packet)
<1>1. /\ status' = [status EXCEPT ![p] = t]
      /\ net' = net \cup {Ack(p, s.downring, s.lastValid), RingFrame(p, t, "ring")}
  BY DEF PassedOn
<1>2. /\ t \in StatusSet /\ t.state = s.state /\ t.upring = s.upring
      /\ t.lastValid = s.lastValid /\ t.accept = s.accept /\ t.ringFrame = packet
      /\ t.buffer = s.buffer /\ t.iAmTheServer = s.iAmTheServer
      /\ ~ t.clearToForward /\ t.server = s.server /\ ~ t.receivedAck
      /\ t.downring = s.downring
  BY DEF StatusSet, Sending
<1> HIDE DEF t
<1>3. /\ StatusOK(Lost, p, status[p]) /\ Started(p) /\ ~ Left(p) /\ status[p].lastValid \in Nat
      /\ s.upring \in Players /\ s.downring \in Players /\ s.lastValid \in Nat
      /\ packet.server \in Players
  <2>1. packet.server \in Players
    BY DEF PacketSet
  <2>2. s.upring \in Players /\ s.downring \in Players /\ s.lastValid \in Nat
    BY DEF StatusSet
  <2> QED BY <2>1, <2>2, Player
<1>4. Between(Lost, p, s.upring)
  BY <1>3 DEF StatusOK, MayPassOn, InGame
<1>5. StatusOK(Lost, p, t)
  BY <1>2, <1>3, <1>4 DEF StatusOK, MayPassOn
<1>6. Further(status[p], t)
  BY <1>2, <1>3 DEF Further, MayPassOn, Left
<1>7. \A m \in net' : m \in net \/ MayAdd(Lost, p, t, m)
  <2> SUFFICES ASSUME NEW m \in net', m \notin net PROVE MayAdd(Lost, p, t, m)
    OBVIOUS
  <2>1. CASE m = Ack(p, s.downring, s.lastValid)
    BY <1>2, <1>3, <2>1 DEF MayAdd, AckSet, Ack
  <2>2. CASE m = RingFrame(p, t, "ring")
    <3>1. m = [from |-> p, to |-> s.upring, tag |-> "ring", seq |-> s.lastValid + 1,
               packet |-> packet]
      BY <1>2, <2>2 DEF RingFrame, RingPacket
    <3> QED BY <1>3, <3>1 DEF MayAdd, RingPacketSet, MayPassOn
  <2> QED BY <1>1, <2>1, <2>2
<1>8. AllStarted \/ FirstLap'
  <2>1. CASE AllStarted
    BY <2>1
  <2>2. CASE ~ AllStarted
    <3>1. FirstLap /\ FirstPass(p, s, packet)
      BY <2>2 DEF RingInv
    <3>2. \A x \in Players : Started(x) => Started(x)'
      BY <1>1, <1>2, Player DEF Started, MayPassOn
    <3>3. \A m \in net' : \/ m \in net \/ m.tag = "ack"
                          \/ /\ m.tag = "ring" /\ m.packet.type = "sync"
                             /\ \A x \in Players :
                                  Dist(Server, x) <= Dist(Server, m.from) => Started(x)'
      <4> SUFFICES ASSUME NEW m \in net', m \notin net, m.tag # "ack"
                   PROVE  /\ m.tag = "ring" /\ m.packet.type = "sync"
                          /\ \A x \in Players :
                               Dist(Server, x) <= Dist(Server, m.from) => Started(x)'
        OBVIOUS
      <4>1. m = RingFrame(p, t, "ring")
        BY <1>1 DEF Ack
      <4>2. m.tag = "ring" /\ m.packet = packet /\ m.from = p
        BY <1>2, <4>1 DEF RingFrame, RingPacket
      <4> QED BY <3>1, <3>2, <4>2 DEF FirstPass
    <3>4. /\ t.state = "startingUp" /\ ~ t.clearToForward /\ t.downring = Previous(p)
          /\ (t.iAmTheServer <=> p = Server)
      BY <1>2, <3>1 DEF FirstPass
    <3> QED BY <1>1, <1>2, <1>6, <3>1, <3>3, <3>4, FirstLapStill
  <2> QED BY <2>1, <2>2
<1> QED BY <1>1, <1>2, <1>5, <1>6, <1>7, <1>8, StepKeeps

\* A player's own words, and moving those after it, do not change what else the packet says.
LEMMA FlagsTyped ==
  ASSUME RingInv, NEW p \in Players, NEW packet \in PacketSet
  PROVE  /\ FlagsAdded(p, packet) \in PacketSet
         /\ FlagsAdded(p, packet).type = packet.type
         /\ FlagsAdded(p, packet).server = packet.server
         /\ [made EXCEPT ![p] = @ + packet.required] \in [Players -> Nat]
<1>1. /\ packet.type \in PacketTypes /\ packet.server \in Players
      /\ packet.required \in 0 .. MaxRequired /\ packet.dead \in SUBSET Players
      /\ packet.flags \in [Players -> Seq(Nat)]
  BY DEF PacketSet
<1>2. packet.required \in Nat /\ made[p] \in Nat /\ made \in [Players -> Nat]
  <2>1. made[p] \in Nat /\ made \in [Players -> Nat]
    BY Player
  <2> QED BY <1>1, <2>1, Ring
<1>3. NewWords(p, packet.required) \in Seq(Nat)
  BY <1>2 DEF NewWords
<1> DEFINE moved == Moved(p, packet)
<1>4. /\ moved \in PacketSet /\ moved.type = packet.type /\ moved.server = packet.server
      /\ moved.required = packet.required /\ moved.dead = packet.dead
      /\ moved.flags \in [Players -> Seq(Nat)]
  BY MovedTyped DEF PacketSet
<1>5. FlagsAdded(p, packet) = [moved EXCEPT !.flags[p] = NewWords(p, packet.required),
                                            !.dead = @ \ {p}]
  BY DEF FlagsAdded
<1> HIDE DEF moved
<1>6. /\ FlagsAdded(p, packet) \in PacketSet
      /\ FlagsAdded(p, packet).type = moved.type
      /\ FlagsAdded(p, packet).server = moved.server
  <2>1. [moved.flags EXCEPT ![p] = NewWords(p, packet.required)] \in [Players -> Seq(Nat)]
    BY <1>3, <1>4
  <2>2. moved.dead \ {p} \in SUBSET Players
    BY <1>1, <1>4
  <2> QED BY <1>4, <1>5, <2>1, <2>2 DEF PacketSet
<1>7. FlagsAdded(p, packet).type = packet.type /\ FlagsAdded(p, packet).server = packet.server
  BY <1>4, <1>6
<1> QED BY <1>2, <1>6, <1>7

LEMMA FlagsStep ==
  ASSUME RingInv, NEW p \in Players, InGame(p), NEW s \in StatusSet,
         NEW packet \in PacketSet, FlagsPassedOn(p, s, packet),
         MayPassOn(p, s, packet), AllStarted
  PROVE  RingInv'
<1>1. MayPassOn(p, s, FlagsAdded(p, packet)) /\ made' \in [Players -> Nat]
  BY FlagsTyped DEF MayPassOn, FlagsPassedOn
<1> QED BY <1>1, FlagsTyped, PassStep DEF FlagsPassedOn

\* What a new packet is to the player that gets it.
LEMMA NewPacket ==
  ASSUME RingInv, NEW p \in Players, NEW m \in net, InGame(p), NEW type,
         ReceiveNew(p, m, type)
  PROVE  LET s == Seen(p, m)
         IN  /\ s \in StatusSet /\ s.state = status[p].state /\ s.upring = status[p].upring
             /\ s.lastValid = m.seq /\ s.lastValid >= status[p].lastValid
             /\ s.ringFrame = status[p].ringFrame /\ s.buffer = status[p].buffer
             /\ s.iAmTheServer = status[p].iAmTheServer
             /\ s.clearToForward = status[p].clearToForward
             /\ s.accept /\ status[p].accept
             /\ s.receivedAck = status[p].receivedAck
             /\ s.server = m.packet.server /\ WasServer(Lost, m.packet.server)
             /\ m.packet \in PacketSet /\ m.packet.type = type
             /\ s.downring = status[p].downring \/ AllStarted
             /\ type # "sync" => AllStarted
<1>1. /\ ForMe(p, m) /\ m.tag # "ack" /\ status[p].accept /\ m.seq > status[p].lastValid
      /\ m.packet.type = type
  BY DEF ReceiveNew, ForMe, IsNew
<1>2. /\ m.packet \in PacketSet /\ m.packet.server \in Players /\ m.seq \in Nat
      /\ WasServer(Lost, m.packet.server) /\ status[p].lastValid \in Nat
  BY <1>1, Message, Player
<1>3. type # "sync" => AllStarted
  BY <1>1 DEF RingInv, FirstLap
<1> DEFINE d == WithDownring(p, m)
<1>4. /\ d \in StatusSet /\ d.state = status[p].state /\ d.upring = status[p].upring
      /\ d.ringFrame = status[p].ringFrame
      /\ d.buffer = status[p].buffer /\ d.iAmTheServer = status[p].iAmTheServer
      /\ d.clearToForward = status[p].clearToForward /\ d.accept = status[p].accept
      /\ d.receivedAck = status[p].receivedAck
      /\ d.downring = status[p].downring \/ AllStarted
  BY <1>1, DownringMayChange
<1>5. Seen(p, m) = [d EXCEPT !.server = m.packet.server, !.lastValid = m.seq]
  BY DEF Seen
<1> HIDE DEF d
<1>6. /\ Seen(p, m) \in StatusSet /\ Seen(p, m).state = d.state
      /\ Seen(p, m).upring = d.upring /\ Seen(p, m).lastValid = m.seq
      /\ Seen(p, m).ringFrame = d.ringFrame
      /\ Seen(p, m).buffer = d.buffer /\ Seen(p, m).iAmTheServer = d.iAmTheServer
      /\ Seen(p, m).clearToForward = d.clearToForward /\ Seen(p, m).accept = d.accept
      /\ Seen(p, m).server = m.packet.server /\ Seen(p, m).receivedAck = d.receivedAck
      /\ Seen(p, m).downring = d.downring
  BY <1>2, <1>4, <1>5 DEF StatusSet
<1>7. Seen(p, m).lastValid >= status[p].lastValid
  BY <1>1, <1>2, <1>6
<1> QED BY <1>1, <1>2, <1>3, <1>4, <1>6, <1>7

\* A "sync" has passed everybody when it is back at the first server.
LEMMA ReceiveSyncStep ==
  ASSUME RingInv, NEW p \in Players, NEW m \in net, InGame(p), ReceiveSync(p, m)
  PROVE  RingInv'
<1> DEFINE s == Seen(p, m)
           packet == [m.packet EXCEPT !.type = IF status[p].iAmTheServer THEN "time" ELSE @]
<1>1. PassedOn(p, s, packet) /\ made' = made /\ ReceiveNew(p, m, "sync")
  BY DEF ReceiveSync
<1>2. /\ s \in StatusSet /\ s.state = status[p].state /\ s.upring = status[p].upring
      /\ s.lastValid >= status[p].lastValid /\ s.buffer = status[p].buffer
      /\ s.iAmTheServer = status[p].iAmTheServer /\ s.accept /\ status[p].accept
      /\ s.server = m.packet.server /\ WasServer(Lost, m.packet.server)
      /\ m.packet \in PacketSet /\ m.packet.type = "sync"
      /\ s.downring = status[p].downring \/ AllStarted
  BY <1>1, NewPacket
<1>3. /\ packet \in PacketSet /\ packet.server = m.packet.server /\ packet.type # "unsync"
      /\ ~ status[p].iAmTheServer => packet.type = "sync"
  BY <1>2 DEF PacketSet, PacketTypes
<1>4. made \in [Players -> Nat] /\ Started(p)
  BY Player
<1>5. m.tag # "ack" /\ KnownSource(p, m) /\ m.from \in Players
  BY <1>1, Message DEF ReceiveNew, ForMe
<1> HIDE DEF s, packet
<1>6. MayPassOn(p, s, packet)
  BY <1>2, <1>3 DEF MayPassOn, InGame
<1>7. AllStarted \/ FirstPass(p, s, packet)
  <2> SUFFICES ASSUME ~ AllStarted PROVE FirstPass(p, s, packet)
    OBVIOUS
  <2>1. FirstLap
    BY DEF RingInv
  <2>2. /\ status[p].state = "startingUp" /\ status[p].downring = Previous(p)
        /\ status[p].iAmTheServer <=> p = Server
    BY <2>1 DEF FirstLap, InGame
  <2>3. /\ m.from = Previous(p)
        /\ \A x \in Players : Dist(Server, x) <= Dist(Server, m.from) => Started(x)
    BY <1>5, <2>1, <2>2 DEF FirstLap, KnownSource
  <2>4. p # Server
    <3> SUFFICES ASSUME p = Server PROVE AllStarted
      OBVIOUS
    <3>1. \A x \in Players : Dist(Server, x) <= Dist(Server, Previous(Server))
      <4> TAKE x \in Players
      <4>1. Dist(Server, Previous(Server)) = N - 1 /\ Dist(Server, x) \in 0 .. N - 1
        BY Dists, Ring
      <4> QED BY <4>1, Ring
    <3> QED BY <2>3, <3>1 DEF AllStarted
  <2>5. \A x \in Players : Dist(Server, x) <= Dist(Server, p) => Started(x)
    <3> SUFFICES ASSUME NEW x \in Players, Dist(Server, x) <= Dist(Server, p), x # p
                 PROVE  Started(x)
      BY <1>4
    <3>1. /\ Dist(Server, Previous(p)) = Dist(Server, p) - 1
          /\ {Dist(Server, x), Dist(Server, p)} \subseteq 0 .. N - 1
          /\ Dist(Server, x) = Dist(Server, p) => x = p
      BY <2>4, Dists, Ring
    <3>2. Dist(Server, x) <= Dist(Server, m.from)
      BY <2>3, <3>1, Ring
    <3> QED BY <2>3, <3>2
  <2> QED BY <1>2, <1>3, <2>2, <2>4, <2>5 DEF FirstPass
<1> QED BY <1>1, <1>2, <1>3, <1>4, <1>6, <1>7, PassStep

LEMMA ReceiveTimeStep ==
  ASSUME RingInv, NEW p \in Players, NEW m \in net, InGame(p), ReceiveTime(p, m)
  PROVE  RingInv'
<1> DEFINE s == [Seen(p, m) EXCEPT !.state = "active"]
<1>1. PassedOn(p, s, m.packet) /\ made' = made /\ ReceiveNew(p, m, "time")
  BY DEF ReceiveTime
<1>2. /\ Seen(p, m) \in StatusSet /\ Seen(p, m).upring = status[p].upring
      /\ Seen(p, m).lastValid >= status[p].lastValid /\ Seen(p, m).buffer = status[p].buffer
      /\ Seen(p, m).iAmTheServer = status[p].iAmTheServer
      /\ Seen(p, m).accept /\ status[p].accept
      /\ Seen(p, m).server = m.packet.server /\ WasServer(Lost, m.packet.server)
      /\ m.packet \in PacketSet /\ m.packet.type = "time" /\ AllStarted
  BY <1>1, NewPacket
<1>3. /\ s \in StatusSet /\ s.state = "active" /\ s.upring = status[p].upring
      /\ s.lastValid >= status[p].lastValid /\ s.buffer = status[p].buffer
      /\ s.iAmTheServer = status[p].iAmTheServer /\ s.accept
      /\ s.server = m.packet.server
  BY <1>2 DEF StatusSet, States
<1> HIDE DEF s
<1>4. MayPassOn(p, s, m.packet)
  BY <1>2, <1>3 DEF MayPassOn
<1>5. made \in [Players -> Nat]
  BY Player
<1> QED BY <1>1, <1>2, <1>3, <1>4, <1>5, PassStep

\* A packet with flags, or the server's own "time".
LEMMA NormalPacket ==
  ASSUME RingInv, NEW p \in Players, NEW m \in net, InGame(p), Normal(p, m)
  PROVE  LET s == Seen(p, m)
         IN  /\ s \in StatusSet /\ s.state = status[p].state /\ s.upring = status[p].upring
             /\ s.lastValid >= status[p].lastValid
             /\ s.ringFrame = status[p].ringFrame /\ s.buffer = status[p].buffer
             /\ s.iAmTheServer = status[p].iAmTheServer
             /\ s.accept /\ status[p].accept
             /\ s.server = m.packet.server /\ WasServer(Lost, m.packet.server)
             /\ m.packet \in PacketSet /\ m.packet.type \in {"normal", "time"}
             /\ m.packet.type = "time" => status[p].iAmTheServer
             /\ AllStarted
<1>1. PICK type \in {"normal", "time"} :
        ReceiveNew(p, m, type) /\ (type = "time" => status[p].iAmTheServer)
  BY DEF Normal
<1> QED BY <1>1, NewPacket

\* The server is active once it has got its own "time" back.
LEMMA LiveTyped ==
  ASSUME NEW m, NEW s \in StatusSet, s.state \in {"startingUp", "active", "comingDown"}
  PROVE  LET l == Live(m, s)
         IN  /\ l \in StatusSet /\ l.state \in {"startingUp", "active", "comingDown"}
             /\ l.upring = s.upring /\ l.lastValid = s.lastValid
             /\ l.ringFrame = s.ringFrame /\ l.buffer = s.buffer
             /\ l.iAmTheServer = s.iAmTheServer /\ l.accept = s.accept
             /\ l.server = s.server /\ l.clearToForward = s.clearToForward
BY DEF Live, StatusSet, States

LEMMA NewLapTyped ==
  ASSUME NEW s \in StatusSet, NEW packet \in PacketSet, NEW n \in 0 .. MaxRequired
  PROVE  LET l == NewLap(s, packet, n)
         IN  /\ l \in PacketSet /\ l.server = packet.server
             /\ l.type = packet.type \/ s.state = "comingDown"
<1>1. CASE s.state # "comingDown"
  BY <1>1 DEF NewLap, PacketSet
<1>2. CASE s.state = "comingDown"
  <2>1. 0 \in 0 .. MaxRequired
    BY Ring
  <2> QED BY <1>2, <2>1 DEF NewLap, PacketSet, PacketTypes
<1> QED BY <1>1, <1>2

LEMMA ReceiveFlagsStep ==
  ASSUME RingInv, NEW p \in Players, NEW m \in net, InGame(p), ReceiveFlags(p, m)
  PROVE  RingInv'
<1> DEFINE s == Seen(p, m)
<1>1. FlagsPassedOn(p, s, m.packet) /\ Normal(p, m)
  BY DEF ReceiveFlags
<1>2. /\ s \in StatusSet /\ s.state = status[p].state /\ s.upring = status[p].upring
      /\ s.lastValid >= status[p].lastValid /\ s.buffer = status[p].buffer
      /\ s.iAmTheServer = status[p].iAmTheServer /\ s.accept /\ status[p].accept
      /\ s.server = m.packet.server /\ WasServer(Lost, m.packet.server)
      /\ m.packet \in PacketSet /\ m.packet.type \in {"normal", "time"} /\ AllStarted
  BY <1>1, NormalPacket
<1> HIDE DEF s
<1>3. MayPassOn(p, s, m.packet)
  BY <1>2 DEF MayPassOn, InGame
<1> QED BY <1>1, <1>2, <1>3, FlagsStep

LEMMA ReceiveAtServerStep ==
  ASSUME RingInv, NEW p \in Players, NEW m \in net, NEW n \in 1 .. MaxRequired,
         InGame(p), ReceiveAtServer(p, m, n)
  PROVE  RingInv'
<1> DEFINE s == Live(m, Seen(p, m))
           own == [m.packet EXCEPT !.type = "normal", !.server = p]
           packet == NewLap(s, own, n)
<1>1. /\ FlagsPassedOn(p, s, packet) /\ Normal(p, m) /\ status[p].iAmTheServer
  BY DEF ReceiveAtServer
<1>2. /\ Seen(p, m) \in StatusSet /\ Seen(p, m).state = status[p].state
      /\ Seen(p, m).upring = status[p].upring
      /\ Seen(p, m).lastValid >= status[p].lastValid /\ Seen(p, m).buffer = status[p].buffer
      /\ Seen(p, m).iAmTheServer = status[p].iAmTheServer
      /\ Seen(p, m).accept /\ status[p].accept
      /\ Seen(p, m).server = m.packet.server /\ WasServer(Lost, m.packet.server)
      /\ m.packet \in PacketSet /\ AllStarted
  BY <1>1, NormalPacket
<1>3. /\ s \in StatusSet /\ s.state \in {"startingUp", "active", "comingDown"}
      /\ s.upring = status[p].upring /\ s.lastValid >= status[p].lastValid
      /\ s.buffer = status[p].buffer /\ s.iAmTheServer = status[p].iAmTheServer
      /\ s.accept /\ s.server = m.packet.server
  BY <1>2, LiveTyped DEF InGame
<1>4. own \in PacketSet /\ own.server = p /\ own.type = "normal"
  BY <1>2 DEF PacketSet, PacketTypes
<1> HIDE DEF s, own
<1>5. /\ packet \in PacketSet /\ packet.server = p
      /\ packet.type = "normal" \/ s.state = "comingDown"
  BY <1>3, <1>4, NewLapTyped, Ring
<1>6. WasServer(Lost, p)
  BY <1>1, <1>2, Player DEF StatusOK
<1> HIDE DEF packet
<1>7. MayPassOn(p, s, packet)
  BY <1>2, <1>3, <1>5, <1>6 DEF MayPassOn
<1> QED BY <1>1, <1>2, <1>3, <1>5, <1>7, FlagsStep

LEMMA ForwardsStep ==
  ASSUME RingInv, NEW p \in Players, NEW n \in 1 .. MaxRequired, ServerTaskForwards(p, n)
  PROVE  RingInv'
<1> DEFINE packet == NewLap(status[p], status[p].buffer, n)
<1>1. /\ FlagsPassedOn(p, status[p], packet) /\ status[p].iAmTheServer
      /\ InGame(p) /\ status[p].clearToForward
  BY DEF ServerTaskForwards
<1>2. /\ status[p] \in StatusSet /\ status[p].lastValid \in Nat /\ AllStarted
      /\ status[p].buffer \in PacketSet /\ StatusOK(Lost, p, status[p])
  BY <1>1, Player
<1>3. /\ packet \in PacketSet /\ packet.server = status[p].buffer.server
      /\ packet.type = status[p].buffer.type \/ status[p].state = "comingDown"
  <2>1. n \in 0 .. MaxRequired
    BY Ring
  <2> QED BY <1>2, <2>1, NewLapTyped
<1> HIDE DEF packet
<1>4. MayPassOn(p, status[p], packet)
  BY <1>1, <1>2, <1>3 DEF MayPassOn, StatusOK, InGame
<1> QED BY <1>1, <1>2, <1>3, <1>4, FlagsStep

\* The server keeps the packet, as one with flags.
LEMMA WaitStep ==
  ASSUME RingInv, NEW p \in Players, NEW m \in net, InGame(p), ReceiveAndWait(p, m)
  PROVE  RingInv'
<1> DEFINE s == Live(m, Seen(p, m))
           kept == [m.packet EXCEPT !.type = "normal"]
           t == [s EXCEPT !.clearToForward = TRUE, !.buffer = kept]
<1>1. /\ status' = [status EXCEPT ![p] = t] /\ net' = net /\ made' = made
      /\ Normal(p, m) /\ status[p].iAmTheServer
  BY DEF ReceiveAndWait
<1>2. /\ Seen(p, m) \in StatusSet /\ Seen(p, m).state = status[p].state
      /\ Seen(p, m).upring = status[p].upring
      /\ Seen(p, m).lastValid >= status[p].lastValid
      /\ Seen(p, m).ringFrame = status[p].ringFrame
      /\ Seen(p, m).iAmTheServer = status[p].iAmTheServer
      /\ Seen(p, m).accept /\ status[p].accept
      /\ Seen(p, m).server = m.packet.server /\ WasServer(Lost, m.packet.server)
      /\ m.packet \in PacketSet /\ AllStarted
  BY <1>1, NormalPacket
<1>3. /\ s \in StatusSet /\ s.state \in {"startingUp", "active", "comingDown"}
      /\ s.upring = status[p].upring /\ s.lastValid >= status[p].lastValid
      /\ s.ringFrame = status[p].ringFrame /\ s.iAmTheServer = status[p].iAmTheServer
      /\ s.accept /\ s.server = m.packet.server
  BY <1>2, LiveTyped DEF InGame
<1>4. kept \in PacketSet /\ kept.server = m.packet.server /\ kept.type = "normal"
  BY <1>2 DEF PacketSet, PacketTypes
<1> HIDE DEF s, kept
<1>5. /\ t \in StatusSet /\ t.state = s.state /\ t.upring = s.upring
      /\ t.lastValid = s.lastValid /\ t.ringFrame = s.ringFrame /\ t.buffer = kept
      /\ t.iAmTheServer = s.iAmTheServer /\ t.accept = s.accept
      /\ t.server = s.server /\ t.clearToForward
  BY <1>3, <1>4 DEF StatusSet
<1> HIDE DEF t
<1>6. /\ StatusOK(Lost, p, status[p]) /\ status[p].lastValid \in Nat /\ made \in [Players -> Nat]
      /\ ~ Left(p) /\ status[p].upring \in Players
  BY Player
<1>7. StatusOK(Lost, p, t)
  BY <1>1, <1>2, <1>3, <1>4, <1>5, <1>6 DEF StatusOK, InGame
<1>8. t.lastValid \in Nat
  BY <1>5 DEF StatusSet
<1>9. Further(status[p], t)
  BY <1>2, <1>3, <1>5, <1>6, <1>8 DEF Further, Left
<1> QED BY <1>1, <1>2, <1>5, <1>6, <1>7, <1>9, StepKeeps

\* Who takes the packet that ends the game takes no other.
LEMMA ReceiveUnsyncStep ==
  ASSUME RingInv, NEW p \in Players, NEW m \in net, InGame(p), ReceiveUnsync(p, m)
  PROVE  RingInv'
<1> DEFINE s == [Seen(p, m) EXCEPT !.accept = FALSE]
<1>1. ReceiveNew(p, m, "unsync") /\ status[p].state = "comingDown" /\ made' = made
  BY DEF ReceiveUnsync
<1>2. /\ Seen(p, m) \in StatusSet /\ Seen(p, m).state = status[p].state
      /\ Seen(p, m).upring = status[p].upring
      /\ Seen(p, m).lastValid >= status[p].lastValid
      /\ Seen(p, m).ringFrame = status[p].ringFrame
      /\ Seen(p, m).buffer = status[p].buffer
      /\ Seen(p, m).iAmTheServer = status[p].iAmTheServer
      /\ Seen(p, m).server = m.packet.server /\ WasServer(Lost, m.packet.server)
      /\ m.packet \in PacketSet /\ AllStarted
  BY <1>1, NewPacket
<1>3. /\ s \in StatusSet /\ s.state = "comingDown" /\ s.upring = status[p].upring
      /\ s.lastValid >= status[p].lastValid /\ s.ringFrame = status[p].ringFrame
      /\ s.buffer = status[p].buffer /\ s.iAmTheServer = status[p].iAmTheServer
      /\ ~ s.accept /\ s.server = m.packet.server
  BY <1>1, <1>2 DEF StatusSet
<1>4. CASE status[p].iAmTheServer
  <2>1. /\ status' = [status EXCEPT ![p] = s]
        /\ net' = net \cup {Ack(p, s.downring, s.lastValid)}
    BY <1>4 DEF ReceiveUnsync
  <2> HIDE DEF s
  <2>2. /\ StatusOK(Lost, p, status[p]) /\ status[p].lastValid \in Nat /\ made \in [Players -> Nat]
        /\ ~ Left(p)
    BY Player
  <2>3. StatusOK(Lost, p, s)
    BY <1>1, <1>2, <1>3, <2>2 DEF StatusOK
  <2>4. s.lastValid \in Nat /\ s.downring \in Players
    BY <1>3 DEF StatusSet
  <2>5. Further(status[p], s)
    BY <1>1, <1>3, <2>2, <2>4 DEF Further
  <2>6. \A a \in net' : a \in net \/ MayAdd(Lost, p, s, a)
    BY <2>1, <2>4 DEF MayAdd, AckSet, Ack
  <2> QED BY <1>1, <1>2, <1>3, <2>1, <2>2, <2>3, <2>5, <2>6, StepKeeps
<1>5. CASE ~ status[p].iAmTheServer
  <2>1. PassedOn(p, s, m.packet)
    BY <1>5 DEF ReceiveUnsync
  <2> HIDE DEF s
  <2>2. MayPassOn(p, s, m.packet)
    BY <1>2, <1>3 DEF MayPassOn
  <2>3. made \in [Players -> Nat]
    BY Player
  <2> QED BY <1>1, <1>2, <1>3, <2>1, <2>2, <2>3, PassStep
<1> QED BY <1>4, <1>5

-----------------------------------------------------------------------------
(***************************************************************************)
(* The theorems                                                            *)
(***************************************************************************)
LEMMA HandleStep ==
  ASSUME RingInv, NEW p \in Players, NEW m \in net, Handle(p, m)
  PROVE  RingInv'
<1>1. InGame(p)
  BY DEF Handle
<1>2. CASE ReceiveAck(p, m)
  BY <1>1, <1>2, AckStep
<1>3. CASE ReceiveTooLate(p, m) \/ ReceiveLate(p, m)
  BY <1>1, <1>3, LateStep
<1>4. CASE ReceiveSync(p, m)
  BY <1>1, <1>4, ReceiveSyncStep
<1>5. CASE ReceiveTime(p, m)
  BY <1>1, <1>5, ReceiveTimeStep
<1>6. CASE ReceiveFlags(p, m)
  BY <1>1, <1>6, ReceiveFlagsStep
<1>7. CASE \E n \in 1 .. MaxRequired : ReceiveAtServer(p, m, n)
  BY <1>1, <1>7, ReceiveAtServerStep
<1>8. CASE ReceiveAndWait(p, m)
  BY <1>1, <1>8, WaitStep
<1>9. CASE ReceiveUnsync(p, m)
  BY <1>1, <1>9, ReceiveUnsyncStep
<1>10. CASE IgnoreUnsync(p, m)
  BY <1>1, <1>10, IgnoreStep
<1> QED
  BY <1>2, <1>3, <1>4, <1>5, <1>6, <1>7, <1>8, <1>9, <1>10 DEF Handle

LEMMA RingStep ==
  ASSUME RingInv, Next
  PROVE  RingInv'
<1>1. PICK p \in Players :
        \/ Sync(p) \/ Leave(p)
        \/ \E m \in net : Handle(p, m)
        \/ ServerTask(p) \/ GiveUp(p) \/ DropUpring(p)
  BY DEF Next
<1>2. CASE Sync(p)
  BY <1>2, SyncStep
<1>3. CASE Leave(p)
  BY <1>3, LeaveStep
<1>4. CASE \E m \in net : Handle(p, m)
  BY <1>4, HandleStep
<1>5. CASE ServerTask(p)
  BY <1>5, EarlyStep, ForwardsStep DEF ServerTask
<1>6. CASE GiveUp(p)
  BY <1>6, GiveUpStep
<1>7. CASE DropUpring(p)
  BY <1>7, DropStep
<1> QED BY <1>1, <1>2, <1>3, <1>4, <1>5, <1>6, <1>7

\* The invariant holds for any number of players, whoever crashes or is dropped, and
\* however the network delays, repeats and reorders what RingGameProtocol sends.
THEOREM RingInvariant == Spec => []RingInv
<1>1. Init => RingInv
  BY RingInit
<1>2. RingInv /\ [Next]_vars => RingInv'
  <2> SUFFICES ASSUME RingInv, [Next]_vars PROVE RingInv'
    OBVIOUS
  <2>1. CASE Next
    BY <2>1, RingStep
  <2>2. CASE UNCHANGED vars
    <3>1. status' = status /\ made' = made /\ net' = net
      BY <2>2 DEF vars
    <3>2. Typed' /\ (AllStarted' <=> AllStarted) /\ (FirstLap' <=> FirstLap)
      BY <3>1 DEF RingInv, Typed, AllStarted, FirstLap, Started, InGame
    <3>3. /\ \A p \in Players : PlayerOK(p)' <=> PlayerOK(p)
          /\ \A m \in net : MessageOK(m)' <=> MessageOK(m)
      BY <3>1 DEF PlayerOK, StatusOK, MessageOK, Between, WasServer, AllOut, Got, Left,
                  Lost, Dropped, Out, Started
    <3> QED BY <3>1, <3>2, <3>3 DEF RingInv
  <2> QED BY <2>1, <2>2
<1> QED BY <1>1, <1>2, PTL DEF Spec

\* drop_upring_player crowns nobody while there is a server that nobody has dropped: of
\* any number of players, whoever crashes, and whoever was dropped without need and is
\* back with its own crown, at most one of the others is in iAmTheServer's branches.
THEOREM CrownsOne == Spec => []OneServer
<1>1. RingInv => OneServer
  <2> SUFFICES ASSUME RingInv PROVE OneServer
    OBVIOUS
  <2> DEFINE S == {p \in Players \ Dropped : status[p].accept /\ status[p].iAmTheServer}
  <2>1. \A p \in S : p \in Players /\ WasServer(Lost, p) /\ p \notin Lost
    BY Player DEF StatusOK, Out, Lost
  <2>2. \A p, q \in S : p = q
    BY <2>1, OnlyOneWasServer
  <2>3. Cardinality(S) <= 1
    <3>1. CASE S = {}
      BY <3>1, FS_EmptySet
    <3>2. CASE S # {}
      <4>1. PICK p \in S : S = {p}
        BY <2>2, <3>2
      <4>2. Cardinality({p}) = 1
        BY FS_Singleton
      <4> QED BY <4>1, <4>2
    <3> QED BY <3>1, <3>2
  <2> QED BY <2>3 DEF OneServer
<1> QED BY <1>1, RingInvariant, PTL

\* Whoever has been acknowledged his last packet has a neighbour that received it, or
\* has left: acknowledgements that are late, repeated or of somebody dropped since do
\* not stop NetCheckResendRingPacket too early.
THEOREM AcksAreTrue == Spec => []AckMeansReceived
<1>1. RingInv => AckMeansReceived
  <2> SUFFICES ASSUME RingInv, NEW p \in Players, Passed(p)
               PROVE  LET up == status[p].upring
                      IN  up = p \/ ~ InGame(up) \/ status[up].lastValid > status[p].lastValid
    BY DEF AckMeansReceived
  <2> DEFINE up == status[p].upring
  <2>1. /\ StatusOK(Lost, p, status[p]) /\ up \in Players /\ status[p].lastValid \in Nat
    BY Player
  <2>2. status[up].lastValid \in Nat
    BY <2>1, Player
  <2>3. Got(up, status[p].lastValid + 1)
    BY <2>1 DEF StatusOK, Passed
  <2> QED BY <2>1, <2>2, <2>3 DEF Got, Left, InGame
<1> QED BY <1>1, RingInvariant, PTL

-----------------------------------------------------------------------------
(***************************************************************************)
(* Words                                                                   *)
(***************************************************************************)
PlayedSet == [Players -> [Players -> Seq(Nat)]]

DeadFor(k) == [i \in 1 .. k |-> NetDead]

LEMMA PrefixIs ==
  ASSUME NEW s \in Seq(Nat), NEW t \in Seq(Nat)
  PROVE  IsPrefix(s, t) <=> Len(s) <= Len(t) /\ \A i \in 1 .. Len(s) : s[i] = t[i]
<1>1. Len(s) \in Nat /\ Len(t) \in Nat
  OBVIOUS
<1>2. ASSUME Len(s) <= Len(t)
      PROVE  (SubSeq(s, 1, Len(s)) = SubSeq(t, 1, Len(s))) <=> \A i \in 1 .. Len(s) : s[i] = t[i]
  <2>1. SubSeq(s, 1, Len(s)) = [i \in 1 .. Len(s) |-> s[i]]
    BY <1>1
  <2>2. SubSeq(t, 1, Len(s)) = [i \in 1 .. Len(s) |-> t[i]]
    BY <1>1, <1>2
  <2> QED BY <2>1, <2>2
<1> QED BY <1>2 DEF IsPrefix

LEMMA PrefixOfConcat ==
  ASSUME NEW s \in Seq(Nat), NEW t \in Seq(Nat)
  PROVE  IsPrefix(s, s \o t) /\ IsPrefix(s, s)
<1>1. /\ s \o t \in Seq(Nat) /\ Len(s \o t) = Len(s) + Len(t)
      /\ \A i \in 1 .. Len(s) + Len(t) : (s \o t)[i] = IF i <= Len(s) THEN s[i] ELSE t[i - Len(s)]
  BY ConcatProperties
<1>2. Len(s) \in Nat /\ Len(t) \in Nat
  OBVIOUS
<1>3. \A i \in 1 .. Len(s) : s[i] = (s \o t)[i]
  BY <1>1, <1>2
<1>4. IsPrefix(s, s \o t) <=> Len(s) <= Len(s \o t) /\ \A i \in 1 .. Len(s) : s[i] = (s \o t)[i]
  BY <1>1, PrefixIs
<1>5. IsPrefix(s, s)
  BY <1>2, PrefixIs
<1> QED BY <1>1, <1>2, <1>3, <1>4, <1>5

LEMMA PrefixGrows ==
  ASSUME NEW s \in Seq(Nat), NEW t \in Seq(Nat), NEW u \in Seq(Nat), IsPrefix(s, t)
  PROVE  IsPrefix(s, t \o u)
<1>1. /\ t \o u \in Seq(Nat) /\ Len(t \o u) = Len(t) + Len(u)
      /\ \A i \in 1 .. Len(t) + Len(u) : (t \o u)[i] = IF i <= Len(t) THEN t[i] ELSE u[i - Len(t)]
  BY ConcatProperties
<1>2. Len(s) \in Nat /\ Len(t) \in Nat /\ Len(u) \in Nat
  OBVIOUS
<1>3. Len(s) <= Len(t) /\ \A i \in 1 .. Len(s) : s[i] = t[i]
  BY PrefixIs
<1>4. \A i \in 1 .. Len(s) : s[i] = (t \o u)[i]
  BY <1>1, <1>2, <1>3
<1>5. IsPrefix(s, t \o u) <=> Len(s) <= Len(t \o u) /\ \A i \in 1 .. Len(s) : s[i] = (t \o u)[i]
  BY <1>1, PrefixIs
<1> QED BY <1>1, <1>2, <1>3, <1>4, <1>5

\* What the library says of all sequences, for those of words.
LEMMA Assoc ==
  \A s, t, u \in Seq(Nat) : (s \o t) \o u = s \o (t \o u)
<1> TAKE s \in Seq(Nat), t \in Seq(Nat), u \in Seq(Nat)
<1> DEFINE l == (s \o t) \o u
           r == s \o (t \o u)
<1>1. /\ s \o t \in Seq(Nat) /\ Len(s \o t) = Len(s) + Len(t)
      /\ \A i \in 1 .. Len(s) + Len(t) :
           (s \o t)[i] = IF i <= Len(s) THEN s[i] ELSE t[i - Len(s)]
  BY ConcatProperties
<1>2. /\ t \o u \in Seq(Nat) /\ Len(t \o u) = Len(t) + Len(u)
      /\ \A i \in 1 .. Len(t) + Len(u) :
           (t \o u)[i] = IF i <= Len(t) THEN t[i] ELSE u[i - Len(t)]
  BY ConcatProperties
<1>3. /\ l \in Seq(Nat) /\ Len(l) = Len(s) + Len(t) + Len(u)
      /\ \A i \in 1 .. Len(s) + Len(t) + Len(u) :
           l[i] = IF i <= Len(s) + Len(t) THEN (s \o t)[i] ELSE u[i - Len(s) - Len(t)]
  BY <1>1
<1>4. /\ r \in Seq(Nat) /\ Len(r) = Len(s) + Len(t) + Len(u)
      /\ \A i \in 1 .. Len(s) + Len(t) + Len(u) :
           r[i] = IF i <= Len(s) THEN s[i] ELSE (t \o u)[i - Len(s)]
  BY <1>2
<1>5. Len(s) \in Nat /\ Len(t) \in Nat /\ Len(u) \in Nat
  OBVIOUS
<1> HIDE DEF l, r
<1>6. \A i \in 1 .. Len(s) + Len(t) + Len(u) : l[i] = r[i]
  <2> TAKE i \in 1 .. Len(s) + Len(t) + Len(u)
  <2>1. CASE i <= Len(s)
    <3>1. i \in 1 .. Len(s) + Len(t) /\ i <= Len(s) + Len(t)
      BY <1>5, <2>1
    <3>2. (s \o t)[i] = s[i]
      BY <1>1, <2>1, <3>1
    <3>3. l[i] = (s \o t)[i]
      BY <1>3, <3>1
    <3>4. r[i] = s[i]
      BY <1>4, <2>1
    <3> QED BY <3>2, <3>3, <3>4
  <2>2. CASE i > Len(s) /\ i <= Len(s) + Len(t)
    <3>1. i - Len(s) \in 1 .. Len(t)
      BY <1>5, <2>2
    <3>2. i \in 1 .. Len(s) + Len(t) /\ ~ (i <= Len(s))
      BY <1>5, <2>2
    <3>3. (s \o t)[i] = t[i - Len(s)]
      BY <1>1, <3>2
    <3>4. l[i] = (s \o t)[i]
      BY <1>3, <2>2
    <3>5. r[i] = (t \o u)[i - Len(s)]
      BY <1>4, <3>2
    <3>6. i - Len(s) \in 1 .. Len(t) + Len(u) /\ i - Len(s) <= Len(t)
      BY <1>5, <3>1
    <3>7. (t \o u)[i - Len(s)] = t[i - Len(s)]
      BY <1>2, <3>6
    <3> QED BY <3>3, <3>4, <3>5, <3>7
  <2>3. CASE i > Len(s) + Len(t)
    <3>1. i - Len(s) \in 1 .. Len(t) + Len(u) /\ ~ (i - Len(s) <= Len(t))
      BY <1>5, <2>3
    <3>2. (t \o u)[i - Len(s)] = u[i - Len(s) - Len(t)]
      BY <1>2, <3>1
    <3>3. r[i] = (t \o u)[i - Len(s)]
      BY <1>4, <1>5, <2>3
    <3>4. l[i] = u[i - Len(s) - Len(t)]
      BY <1>3, <1>5, <2>3
    <3> QED BY <3>2, <3>3, <3>4
  <2> QED BY <1>5, <2>1, <2>2, <2>3
<1>7. l = r
  BY <1>3, <1>4, <1>6, SeqEqual
<1> QED BY <1>7 DEF l, r

LEMMA Concats ==
  \A s, t \in Seq(Nat) :
    /\ s \o t \in Seq(Nat) /\ Len(s \o t) = Len(s) + Len(t)
    /\ \A i \in 1 .. Len(s) + Len(t) :
         (s \o t)[i] = IF i <= Len(s) THEN s[i] ELSE t[i - Len(s)]
BY ConcatProperties

LEMMA ConcatTyped ==
  /\ \A s, t \in Seq(Nat) : s \o t \in Seq(Nat)
  /\ \A s \in Seq(Nat) : s \o <<>> = s
  /\ <<>> \in Seq(Nat)
BY Concats, ConcatEmptySeq

\* Two parts of one stream.
LEMMA PrefixesAlike ==
  ASSUME NEW s1 \in Seq(Nat), NEW s2 \in Seq(Nat), NEW t \in Seq(Nat),
         IsPrefix(s1, t), IsPrefix(s2, t)
  PROVE  Alike(s1, s2)
<1>1. Len(s1) \in Nat /\ Len(s2) \in Nat
  OBVIOUS
<1>2. /\ \A i \in 1 .. Len(s1) : s1[i] = t[i]
      /\ \A i \in 1 .. Len(s2) : s2[i] = t[i]
  BY PrefixIs
<1>3. CASE Len(s1) <= Len(s2)
  <2>1. \A i \in 1 .. Len(s1) : s1[i] = s2[i]
    BY <1>1, <1>2, <1>3
  <2> QED BY <1>3, <2>1, PrefixIs DEF Alike
<1>4. CASE Len(s2) <= Len(s1)
  <2>1. \A i \in 1 .. Len(s2) : s2[i] = s1[i]
    BY <1>1, <1>2, <1>4
  <2> QED BY <1>4, <2>1, PrefixIs DEF Alike
<1> QED BY <1>1, <1>3, <1>4

LEMMA DeadForTyped ==
  ASSUME NEW k \in Nat, NEW n \in Nat
  PROVE  /\ DeadFor(k) \in Seq(Nat)
         /\ DeadFor(k) \o DeadFor(n) = DeadFor(k + n)
         /\ DeadFor(0) = <<>>
<1>1. ASSUME NEW i \in Nat PROVE DeadFor(i) \in Seq(Nat) /\ Len(DeadFor(i)) = i
  BY DEF DeadFor, NetDead
<1>2. DeadFor(k) \o DeadFor(n) = DeadFor(k + n)
  <2>1. k + n \in Nat
    OBVIOUS
  <2> DEFINE a == DeadFor(k)
             b == DeadFor(n)
             c == DeadFor(k + n)
  <2>2. /\ a \in Seq(Nat) /\ Len(a) = k /\ \A i \in 1 .. k : a[i] = NetDead
        /\ b \in Seq(Nat) /\ Len(b) = n /\ \A i \in 1 .. n : b[i] = NetDead
        /\ c \in Seq(Nat) /\ Len(c) = k + n /\ \A i \in 1 .. k + n : c[i] = NetDead
    BY <1>1, <2>1 DEF DeadFor
  <2> HIDE DEF a, b, c
  <2>3. /\ a \o b \in Seq(Nat) /\ Len(a \o b) = k + n
        /\ \A i \in 1 .. k + n : (a \o b)[i] = IF i <= k THEN a[i] ELSE b[i - k]
    BY <2>2, Concats
  <2>4. \A i \in 1 .. k + n : (a \o b)[i] = c[i]
    BY <2>2, <2>3
  <2>5. a \o b = c
    BY <2>2, <2>3, <2>4, SeqEqual
  <2> QED BY <2>5 DEF a, b, c
<1>3. DeadFor(0) = <<>>
  BY DEF DeadFor
<1> QED BY <1>1, <1>2, <1>3

-----------------------------------------------------------------------------
(***************************************************************************)
(* The words in the packets                                                *)
(***************************************************************************)
\* Words of those that n counts, and others.
WordSeq(n) == Seq(0 .. n \cup {Alien})

\* The words of a packet are of those that mk[q] counts, and not too many; and all that
\* are dead in it are in S.
Fits(packet, mk, S) ==
  /\ packet.dead \subseteq S
  /\ \A q \in Players :
       packet.flags[q] \in WordSeq(mk[q]) /\ Len(packet.flags[q]) <= MaxRequired

WordsOK ==
  /\ played \in PlayedSet
  /\ \A p \in Players :
       /\ Fits(status[p].ringFrame, made, Dropped) /\ Fits(status[p].buffer, made, Dropped)
       /\ \A q \in Players : played[p][q] \in WordSeq(made[q])
  /\ \A m \in net : m.tag # "ack" => Fits(m.packet, made, Dropped)

LEMMA WordsMore ==
  ASSUME NEW a \in Nat, NEW b \in Nat, a <= b
  PROVE  \A s \in WordSeq(a) : s \in WordSeq(b) /\ s \in Seq(Nat)
<1> TAKE s \in WordSeq(a)
<1>1. /\ Len(s) \in Nat /\ s = [i \in 1 .. Len(s) |-> s[i]]
      /\ \A i \in 1 .. Len(s) : s[i] \in 0 .. a \cup {Alien}
  BY DEF WordSeq
<1>2. \A i \in 1 .. Len(s) : s[i] \in 0 .. b \cup {Alien} /\ s[i] \in Nat
  BY <1>1, RingAssumption
<1>3. /\ [i \in 1 .. Len(s) |-> s[i]] \in Seq(0 .. b \cup {Alien})
      /\ [i \in 1 .. Len(s) |-> s[i]] \in Seq(Nat)
  BY <1>1, <1>2
<1> QED BY <1>1, <1>3 DEF WordSeq

LEMMA WordSeqs ==
  ASSUME NEW n \in Nat
  PROVE  /\ <<>> \in WordSeq(n)
         /\ \A s, u \in WordSeq(n) : s \o u \in WordSeq(n)
         /\ \A k \in Nat : DeadFor(k) \in WordSeq(n)
         /\ \A s \in WordSeq(n) : OneLate(s) \in WordSeq(n) /\ Len(OneLate(s)) = Len(s)
<1>1. \A s, u \in WordSeq(n) : s \o u \in WordSeq(n)
  BY ConcatProperties DEF WordSeq
<1>2. \A k \in Nat : DeadFor(k) \in WordSeq(n)
  BY DEF DeadFor, NetDead, WordSeq
<1>3. \A s \in WordSeq(n) : OneLate(s) \in WordSeq(n) /\ Len(OneLate(s)) = Len(s)
  <2>1. Alien \in 0 .. n \cup {Alien}
    OBVIOUS
  <2> QED BY <2>1, OneLateTyped DEF WordSeq
<1> QED BY <1>1, <1>2, <1>3 DEF WordSeq

\* Words that there are stay words.
MadeMore(mk) == mk \in [Players -> Nat] /\ \A q \in Players : made[q] <= mk[q]

LEMMA FitsStill ==
  ASSUME RingInv, NEW mk, MadeMore(mk), NEW S, Dropped \subseteq S
  PROVE  /\ \A packet : Fits(packet, made, Dropped) => Fits(packet, mk, S)
         /\ \A q \in Players : \A s \in WordSeq(made[q]) : s \in WordSeq(mk[q])
<1>1. made \in [Players -> Nat]
  BY DEF RingInv, Typed
<1>2. \A q \in Players : \A s \in WordSeq(made[q]) : s \in WordSeq(mk[q])
  BY <1>1, WordsMore DEF MadeMore
<1> QED BY <1>2 DEF Fits

\* Who has been dropped stays dropped.
LEMMA DroppedMore ==
  ASSUME net \subseteq net'
  PROVE  Dropped \subseteq Dropped'
BY DEF Dropped, Previous

\* The step of player p, whose status becomes t.
LEMMA WordsKept ==
  ASSUME RingInv, WordsOK, NEW p \in Players, NEW t,
         status' = [status EXCEPT ![p] = t], MadeMore(made'), net \subseteq net',
         Fits(t.ringFrame, made', Dropped'), Fits(t.buffer, made', Dropped'),
         \A m \in net' : m \in net \/ m.tag = "ack" \/ Fits(m.packet, made', Dropped'),
         played' \in PlayedSet,
         \A r, q \in Players : played'[r][q] = played[r][q] \/ played'[r][q] \in WordSeq(made'[q])
  PROVE  WordsOK'
<1>1. status'[p] = t /\ \A q \in Players : q # p => status'[q] = status[q]
  BY DEF RingInv, Typed
<1>2. PICK mk : mk = made'
  OBVIOUS
<1>3. PICK S : S = Dropped'
  OBVIOUS
<1>4. /\ \A packet : Fits(packet, made, Dropped) => Fits(packet, mk, S)
      /\ \A q \in Players : \A s \in WordSeq(made[q]) : s \in WordSeq(mk[q])
  <2>1. MadeMore(mk) /\ Dropped \subseteq S
    BY <1>2, <1>3, DroppedMore DEF MadeMore
  <2> QED BY <2>1, FitsStill
<1>5. /\ Fits(t.ringFrame, mk, S) /\ Fits(t.buffer, mk, S)
      /\ \A m \in net' : m \in net \/ m.tag = "ack" \/ Fits(m.packet, mk, S)
  BY <1>2, <1>3 DEF Fits
<1>6. \A r \in Players : Fits(status'[r].ringFrame, mk, S) /\ Fits(status'[r].buffer, mk, S)
  <2> TAKE r \in Players
  <2>1. CASE r = p
    BY <1>1, <1>5, <2>1
  <2>2. CASE r # p
    BY <1>1, <1>4, <2>2 DEF WordsOK
  <2> QED BY <2>1, <2>2
<1>7. \A r, q \in Players : played'[r][q] \in WordSeq(mk[q])
  BY <1>2, <1>4 DEF WordsOK
<1>8. \A m \in net' : m.tag # "ack" => Fits(m.packet, mk, S)
  BY <1>4, <1>5 DEF WordsOK
<1> QED BY <1>2, <1>3, <1>6, <1>7, <1>8 DEF WordsOK, Fits

\* A step that makes and plays no words, and sends none that were not there.
LEMMA WordsSame ==
  ASSUME RingInv, WordsOK, NEW p \in Players, NEW t,
         status' = [status EXCEPT ![p] = t], made' = made, played' = played,
         net \subseteq net', Fits(t.ringFrame, made, Dropped), Fits(t.buffer, made, Dropped),
         \A m \in net' : m \in net \/ m.tag = "ack" \/ Fits(m.packet, made, Dropped)
  PROVE  WordsOK'
<1>1. MadeMore(made') /\ made \in [Players -> Nat]
  BY DEF MadeMore, RingInv, Typed
<1>2. played' \in PlayedSet
  BY DEF WordsOK
<1>3. \A packet : Fits(packet, made, Dropped) => Fits(packet, made', Dropped')
  BY DroppedMore DEF Fits
<1> QED BY <1>1, <1>2, <1>3, WordsKept

\* The steps of a player that passes nothing on.
LEMMA FirstFits ==
  ASSUME RingInv, NEW S
  PROVE  Fits(FirstPacket, made, S)
<1>1. \A q \in Players : <<>> \in WordSeq(made[q]) /\ Len(<<>>) <= MaxRequired
  BY Ring, WordSeqs DEF RingInv, Typed
<1> QED BY <1>1 DEF FirstPacket, Fits

LEMMA OutOfGameWords ==
  ASSUME RingInv, WordsOK, NEW p \in Players, NEW state,
         status' = [status EXCEPT ![p] = OutOfGame(state)], made' = made, net' = net,
         played' = played \/ played' = [played EXCEPT ![p] = [q \in Players |-> <<>>]]
  PROVE  WordsOK'
<1> DEFINE t == OutOfGame(state)
<1>1. t.ringFrame = FirstPacket /\ t.buffer = FirstPacket
  BY DEF OutOfGame
<1> HIDE DEF t
<1>2. Fits(t.ringFrame, made', Dropped') /\ Fits(t.buffer, made', Dropped')
  BY <1>1, FirstFits DEF Fits
<1>3. MadeMore(made') /\ made \in [Players -> Nat] /\ played \in PlayedSet
  BY DEF MadeMore, RingInv, Typed, WordsOK
<1>4. <<>> \in Seq(Nat) /\ \A q \in Players : <<>> \in WordSeq(made[q])
  BY <1>3, WordSeqs
<1>5. played' \in PlayedSet
  <2>1. [q \in Players |-> <<>>] \in [Players -> Seq(Nat)]
    BY <1>4
  <2> QED BY <1>3, <2>1 DEF PlayedSet
<1>6. \A r, q \in Players : played'[r][q] = played[r][q] \/ played'[r][q] \in WordSeq(made'[q])
  BY <1>3, <1>4 DEF PlayedSet
<1> QED BY <1>2, <1>3, <1>5, <1>6, WordsKept DEF t

LEMMA SyncWords ==
  ASSUME RingInv, WordsOK, NEW p \in Players, Sync(p)
  PROVE  WordsOK'
<1> DEFINE s == [OutOfGame("startingUp") EXCEPT
                   !.upring = Next_(p), !.downring = Previous(p),
                   !.server = Server, !.accept = TRUE, !.iAmTheServer = p = Server]
           sent == Sending(s, FirstPacket)
           t == IF p = Server THEN sent ELSE s
<1>1. /\ status' = [status EXCEPT ![p] = t] /\ made' = made /\ played' = played
      /\ net \subseteq net'
      /\ \A m \in net' : m \in net \/ m = RingFrame(p, sent, "ring")
  BY DEF Sync
<1>2. /\ s.ringFrame = FirstPacket /\ s.buffer = FirstPacket
      /\ sent.ringFrame = FirstPacket /\ sent.buffer = FirstPacket
  BY DEF Sending, OutOfGame
<1> HIDE DEF s, sent
<1>3. RingFrame(p, sent, "ring").packet = FirstPacket
  BY <1>2 DEF RingFrame, RingPacket
<1>4. Fits(t.ringFrame, made, Dropped) /\ Fits(t.buffer, made, Dropped)
  BY <1>2, FirstFits
<1>5. \A m \in net' : m \in net \/ m.tag = "ack" \/ Fits(m.packet, made, Dropped)
  BY <1>1, <1>3, FirstFits
<1> QED BY <1>1, <1>4, <1>5, WordsSame

LEMMA LeaveWords ==
  ASSUME RingInv, WordsOK, NEW p \in Players, Leave(p)
  PROVE  WordsOK'
<1>1. CASE UnSyncBegins(p)
  <2> DEFINE t == [status[p] EXCEPT !.state = "comingDown"]
  <2>1. status' = [status EXCEPT ![p] = t] /\ UNCHANGED <<net, made, played>>
    BY <1>1 DEF UnSyncBegins
  <2>2. t.ringFrame = status[p].ringFrame /\ t.buffer = status[p].buffer
    BY Player DEF StatusSet
  <2> HIDE DEF t
  <2> QED BY <2>1, <2>2, WordsSame DEF WordsOK
<1>2. CASE UnSyncEnds(p)
  BY <1>2, OutOfGameWords DEF UnSyncEnds
<1>3. CASE SyncTimesOut(p) \/ UnSyncTimesOut(p) \/ Crash(p)
  BY <1>3, OutOfGameWords DEF SyncTimesOut, UnSyncTimesOut, Crash, IsGone
<1> QED BY <1>1, <1>2, <1>3 DEF Leave

LEMMA MinorWords ==
  ASSUME RingInv, WordsOK, NEW p \in Players, NEW m,
         \/ ReceiveAck(p, m) \/ ReceiveTooLate(p, m) \/ ReceiveLate(p, m) \/ IgnoreUnsync(p, m)
         \/ ServerTaskEarly(p) \/ GiveUp(p)
  PROVE  WordsOK'
<1>1. status[p] \in StatusSet
  BY Player
<1> DEFINE ends(t) == t.ringFrame = status[p].ringFrame /\ t.buffer = status[p].buffer
<1>2. ends(WithDownring(p, m)) /\ ends(Seen(p, m))
  BY <1>1 DEF WithDownring, Seen, StatusSet
<1>3. ends([Seen(p, m) EXCEPT !.lastValid = status[p].lastValid])
  BY <1>1 DEF WithDownring, Seen, StatusSet
<1>4. /\ ends([status[p] EXCEPT !.receivedAck = TRUE])
      /\ ends([status[p] EXCEPT !.canForward = TRUE])
      /\ ends([status[p] EXCEPT !.accept = FALSE])
  BY <1>1 DEF StatusSet
<1>5. /\ made' = made /\ played' = played /\ net \subseteq net'
      /\ \A a \in net' : a \in net \/ a.tag = "ack"
      /\ \E t : status' = [status EXCEPT ![p] = t] /\ ends(t)
  <2>1. CASE ReceiveAck(p, m) \/ ServerTaskEarly(p) \/ GiveUp(p)
    BY <1>4, <2>1 DEF ReceiveAck, ServerTaskEarly, GiveUp
  <2>2. CASE ReceiveTooLate(p, m) \/ ReceiveLate(p, m)
    BY <1>2, <2>2 DEF ReceiveTooLate, ReceiveLate, Ack
  <2>3. CASE IgnoreUnsync(p, m)
    BY <1>3, <2>3 DEF IgnoreUnsync
  <2> QED BY <2>1, <2>2, <2>3
<1> QED BY <1>5, WordsSame DEF WordsOK

\* What becomes of the words when the packet is written anew; those after the place of a
\* player that is dead already do not stay what they were.
LEMMA BuriedIs ==
  ASSUME NEW old \in Players, NEW packet \in PacketSet
  PROVE  /\ Buried(packet, old).dead = packet.dead \cup {old}
         /\ \A q \in Players :
              Buried(packet, old).flags[q] \in {<<>>, packet.flags[q], OneLate(packet.flags[q])}
         /\ Buried(packet, old).flags[old] = <<>>
         /\ old \notin packet.dead =>
              \A q \in Players :
                Buried(packet, old).flags[q] = IF q = old THEN <<>> ELSE packet.flags[q]
<1> DEFINE f == Moved(old, packet)
<1>1. /\ f \in PacketSet /\ f.dead = packet.dead /\ (old \notin packet.dead => f = packet)
      /\ \A q \in Players : f.flags[q] \in {packet.flags[q], OneLate(packet.flags[q])}
  BY MovedTyped, MovedWords
<1>2. Buried(packet, old) = [f EXCEPT !.dead = @ \cup {old}, !.flags[old] = <<>>]
  BY DEF Buried
<1> HIDE DEF f
<1>3. /\ Buried(packet, old).dead = f.dead \cup {old}
      /\ \A q \in Players : Buried(packet, old).flags[q] = IF q = old THEN <<>> ELSE f.flags[q]
  BY <1>1, <1>2 DEF PacketSet
<1> QED BY <1>1, <1>3

LEMMA AddedIs ==
  ASSUME NEW p \in Players, NEW packet \in PacketSet
  PROVE  /\ FlagsAdded(p, packet).dead = packet.dead \ {p}
         /\ FlagsAdded(p, packet).flags[p] = NewWords(p, packet.required)
         /\ \A q \in Players \ {p} :
              FlagsAdded(p, packet).flags[q] \in {packet.flags[q], OneLate(packet.flags[q])}
         /\ p \notin packet.dead =>
              \A q \in Players \ {p} : FlagsAdded(p, packet).flags[q] = packet.flags[q]
<1> DEFINE f == Moved(p, packet)
<1>1. /\ f \in PacketSet /\ f.dead = packet.dead /\ (p \notin packet.dead => f = packet)
      /\ \A q \in Players : f.flags[q] \in {packet.flags[q], OneLate(packet.flags[q])}
  BY MovedTyped, MovedWords
<1>2. FlagsAdded(p, packet) = [f EXCEPT !.flags[p] = NewWords(p, packet.required),
                                        !.dead = @ \ {p}]
  BY DEF FlagsAdded
<1> HIDE DEF f
<1>3. /\ FlagsAdded(p, packet).dead = f.dead \ {p}
      /\ \A q \in Players : FlagsAdded(p, packet).flags[q] =
           IF q = p THEN NewWords(p, packet.required) ELSE f.flags[q]
  BY <1>1, <1>2 DEF PacketSet
<1> QED BY <1>1, <1>3

\* Who drops its neighbour takes that one's words out of the packet.
LEMMA DropWords ==
  ASSUME RingInv, WordsOK, NEW p \in Players, DropUpring(p)
  PROVE  WordsOK'
<1> DEFINE old == status[p].upring
           frame == Buried(status[p].ringFrame, old)
           t == [status[p] EXCEPT
                   !.upring = Next_(old),
                   !.server = IF Crowned(p, old) THEN p ELSE @,
                   !.iAmTheServer = @ \/ Crowned(p, old),
                   !.ringFrame = Buried(@, old)]
           change == RingFrame(p, t, "change")
<1>1. /\ status' = [status EXCEPT ![p] = t] /\ made' = made /\ played' = played
      /\ net' = net \cup {change}
  BY DEF DropUpring
<1>2. status[p] \in StatusSet /\ status[p].ringFrame \in PacketSet /\ old \in Players
  BY Player
<1>3. t.ringFrame = frame /\ t.buffer = status[p].buffer /\ t.upring = Next_(old)
  BY <1>2 DEF StatusSet
<1>4. change.packet = frame /\ change.tag = "change" /\ change.to = Next_(old)
  BY <1>3 DEF RingFrame, RingPacket
<1> HIDE DEF t, frame, change
<1>5. Dropped \subseteq Dropped' /\ old \in Dropped'
  <2>1. Previous(Next_(old)) = old
    BY <1>2, Around
  <2>2. change \in net' /\ net \subseteq net'
    BY <1>1
  <2> QED BY <1>4, <2>1, <2>2, DroppedMore DEF Dropped
<1>6. Fits(frame, made, Dropped')
  <2>1. frame.dead \subseteq Dropped'
    <3>1. frame.dead = status[p].ringFrame.dead \cup {old}
      BY <1>2, BuriedIs DEF frame
    <3> QED BY <1>5, <3>1 DEF Fits, WordsOK
  <2>2. ASSUME NEW q \in Players
        PROVE  frame.flags[q] \in WordSeq(made[q]) /\ Len(frame.flags[q]) <= MaxRequired
    <3>1. /\ status[p].ringFrame.flags[q] \in WordSeq(made[q])
          /\ Len(status[p].ringFrame.flags[q]) <= MaxRequired
      BY DEF WordsOK, Fits
    <3>2. made[q] \in Nat
      BY DEF RingInv, Typed
    <3>3. <<>> \in WordSeq(made[q]) /\ Len(<<>>) <= MaxRequired
      BY <3>2, WordSeqs, Ring
    <3>4. /\ OneLate(status[p].ringFrame.flags[q]) \in WordSeq(made[q])
          /\ Len(OneLate(status[p].ringFrame.flags[q])) <= MaxRequired
      BY <3>1, <3>2, WordSeqs
    <3>5. frame.flags[q] \in {<<>>, status[p].ringFrame.flags[q],
                              OneLate(status[p].ringFrame.flags[q])}
      BY <1>2, BuriedIs DEF frame
    <3> QED BY <3>1, <3>3, <3>4, <3>5
  <2> QED BY <2>1, <2>2 DEF Fits
<1>7. /\ Fits(t.ringFrame, made', Dropped') /\ Fits(t.buffer, made', Dropped')
      /\ Fits(change.packet, made', Dropped')
  <2>1. Fits(status[p].buffer, made, Dropped)
    BY DEF WordsOK
  <2>2. Fits(status[p].buffer, made, Dropped')
    BY <1>5, <2>1 DEF Fits
  <2> QED BY <1>1, <1>3, <1>4, <1>6, <2>2 DEF Fits
<1>8. /\ \A m \in net' : m \in net \/ Fits(m.packet, made', Dropped')
      /\ net \subseteq net' /\ played' \in PlayedSet
  BY <1>1, <1>7 DEF WordsOK
<1>9. MadeMore(made')
  BY <1>1 DEF MadeMore, RingInv, Typed
<1> QED BY <1>1, <1>7, <1>8, <1>9, WordsKept

\* The steps that pass a packet on.
LEMMA PassWords ==
  ASSUME RingInv, WordsOK, NEW p \in Players, NEW s \in StatusSet,
         s.buffer = status[p].buffer, NEW packet, PassedOn(p, s, packet),
         MadeMore(made'), Fits(packet, made', Dropped), played' \in PlayedSet,
         \A r, q \in Players : played'[r][q] = played[r][q] \/ played'[r][q] \in WordSeq(made'[q])
  PROVE  WordsOK'
<1> DEFINE t == Sending(s, packet)
<1>1. /\ status' = [status EXCEPT ![p] = t]
      /\ net' = net \cup {Ack(p, s.downring, s.lastValid), RingFrame(p, t, "ring")}
  BY DEF PassedOn
<1>2. t.ringFrame = packet /\ t.buffer = status[p].buffer
  BY DEF Sending, StatusSet
<1>3. RingFrame(p, t, "ring").packet = packet
  BY <1>2 DEF RingFrame, RingPacket
<1> HIDE DEF t
<1>4. PICK mk : mk = made'
  OBVIOUS
<1>5. PICK S : S = Dropped'
  OBVIOUS
<1>6. net \subseteq net' /\ Dropped \subseteq S
  BY <1>1, <1>5, DroppedMore
<1>7. Fits(packet, mk, S) /\ Fits(t.buffer, mk, S)
  <2>1. Fits(packet, mk, S)
    BY <1>4, <1>6 DEF Fits
  <2>2. Fits(status[p].buffer, made, Dropped)
    BY DEF WordsOK
  <2>3. MadeMore(mk)
    BY <1>4 DEF MadeMore
  <2> QED BY <1>2, <1>6, <2>1, <2>2, <2>3, FitsStill
<1>8. /\ Fits(packet, made', Dropped')
      /\ Fits(t.ringFrame, made', Dropped') /\ Fits(t.buffer, made', Dropped')
  BY <1>2, <1>4, <1>5, <1>7 DEF Fits
<1>9. \A m \in net' : m \in net \/ m.tag = "ack" \/ Fits(m.packet, made', Dropped')
  BY <1>1, <1>3, <1>8 DEF Ack
<1> QED BY <1>1, <1>6, <1>8, <1>9, WordsKept

LEMMA Flags ==
  ASSUME NEW packet \in PacketSet, NEW q \in Players
  PROVE  packet.flags[q] \in Seq(Nat) /\ packet.dead \subseteq Players
BY DEF PacketSet

\* What a player that takes the packet plays, and its down-ring neighbour.
LEMMA ProcessedIs ==
  ASSUME NEW p \in Players, NEW packet \in PacketSet, played \in PlayedSet,
         Processed(p, packet)
  PROVE  /\ played' \in PlayedSet
         /\ \A q \in Players \ {p} : played'[q] = played[q]
         /\ \A q \in Players :
              IF q \in packet.dead
              THEN played'[p][q] = played[p][q] \o DeadFor(packet.required)
              ELSE played'[p][q] = played[p][q] \o packet.flags[q]
         /\ packet.required \in Nat
<1>1. packet.required \in Nat
  BY Ring DEF PacketSet
<1> DEFINE add(q) == IF q \in packet.dead THEN DeadFor(packet.required) ELSE packet.flags[q]
           row == [q \in Players |-> played[p][q] \o add(q)]
<1>2. played' = [played EXCEPT ![p] = row]
  BY DEF Processed, DeadFor, PlayedSet
<1>3. \A q \in Players : add(q) \in Seq(Nat) /\ played[p][q] \in Seq(Nat)
  BY <1>1, DeadForTyped, Flags DEF PlayedSet
<1>4. row \in [Players -> Seq(Nat)]
  BY <1>3, ConcatTyped
<1>5. played' \in PlayedSet /\ \A q \in Players \ {p} : played'[q] = played[q]
  BY <1>2, <1>4 DEF PlayedSet
<1>6. \A q \in Players : played'[p][q] = played[p][q] \o add(q)
  BY <1>2 DEF PlayedSet
<1> QED BY <1>1, <1>5, <1>6

\* What is played of a packet has been made.
LEMMA PlaysMade ==
  ASSUME RingInv, WordsOK, NEW p \in Players, NEW packet \in PacketSet, Fits(packet, made, Dropped),
         Processed(p, packet)
  PROVE  /\ played' \in PlayedSet
         /\ \A r, q \in Players : played'[r][q] = played[r][q] \/ played'[r][q] \in WordSeq(made[q])
<1>1. played \in PlayedSet /\ made \in [Players -> Nat]
  BY DEF WordsOK, RingInv, Typed
<1>2. /\ played' \in PlayedSet /\ packet.required \in Nat
      /\ \A q \in Players \ {p} : played'[q] = played[q]
      /\ \A q \in Players :
           IF q \in packet.dead
           THEN played'[p][q] = played[p][q] \o DeadFor(packet.required)
           ELSE played'[p][q] = played[p][q] \o packet.flags[q]
  BY <1>1, ProcessedIs
<1>3. ASSUME NEW q \in Players PROVE played'[p][q] \in WordSeq(made[q])
  <2>1. played[p][q] \in WordSeq(made[q]) /\ packet.flags[q] \in WordSeq(made[q])
    BY DEF WordsOK, Fits
  <2>2. DeadFor(packet.required) \in WordSeq(made[q])
    BY <1>1, <1>2, WordSeqs
  <2>3. \A s, u \in WordSeq(made[q]) : s \o u \in WordSeq(made[q])
    BY <1>1, WordSeqs
  <2> QED BY <1>2, <2>1, <2>2, <2>3
<1> QED BY <1>2, <1>3

\* A player's own words are those it makes.
LEMMA AddedMade ==
  ASSUME RingInv, NEW p \in Players, NEW packet \in PacketSet, Fits(packet, made, Dropped),
         made' = [made EXCEPT ![p] = @ + packet.required]
  PROVE  MadeMore(made') /\ Fits(FlagsAdded(p, packet), made', Dropped)
<1> DEFINE mk == [made EXCEPT ![p] = @ + packet.required]
<1>1. /\ packet.required \in Nat /\ packet.required <= MaxRequired
      /\ made \in [Players -> Nat] /\ made[p] \in Nat
  BY Ring DEF PacketSet, RingInv, Typed
<1>2. MadeMore(mk) /\ mk[p] = made[p] + packet.required
  BY <1>1 DEF MadeMore
<1> HIDE DEF mk
<1>3. Fits(packet, mk, Dropped)
  BY <1>2, FitsStill
<1>4. /\ NewWords(p, packet.required) \in WordSeq(mk[p])
      /\ Len(NewWords(p, packet.required)) = packet.required
  BY <1>1, <1>2 DEF NewWords, WordSeq
<1>5. ASSUME NEW q \in Players, q # p
      PROVE  /\ FlagsAdded(p, packet).flags[q] \in WordSeq(mk[q])
             /\ Len(FlagsAdded(p, packet).flags[q]) <= MaxRequired
  <2>1. packet.flags[q] \in WordSeq(mk[q]) /\ Len(packet.flags[q]) <= MaxRequired
    BY <1>3 DEF Fits
  <2>2. /\ OneLate(packet.flags[q]) \in WordSeq(mk[q])
        /\ Len(OneLate(packet.flags[q])) = Len(packet.flags[q])
    BY <1>2, <2>1, WordSeqs DEF MadeMore
  <2> QED BY <1>5, <2>1, <2>2, AddedIs
<1>6. Fits(FlagsAdded(p, packet), mk, Dropped)
  <2>1. /\ FlagsAdded(p, packet).dead = packet.dead \ {p}
        /\ FlagsAdded(p, packet).flags[p] = NewWords(p, packet.required)
    BY AddedIs
  <2> QED BY <1>1, <1>3, <1>4, <1>5, <2>1 DEF Fits
<1>7. mk = made'
  BY DEF mk
<1> QED BY <1>2, <1>6, <1>7 DEF MadeMore, Fits

LEMMA FlagsPassedWords ==
  ASSUME RingInv, WordsOK, NEW p \in Players, NEW s \in StatusSet,
         s.buffer = status[p].buffer, NEW packet \in PacketSet, FlagsPassedOn(p, s, packet),
         Fits(packet, made, Dropped), played' \in PlayedSet,
         \A r, q \in Players : played'[r][q] = played[r][q] \/ played'[r][q] \in WordSeq(made[q])
  PROVE  WordsOK'
<1>1. /\ PassedOn(p, s, FlagsAdded(p, packet))
      /\ made' = [made EXCEPT ![p] = @ + packet.required]
  BY DEF FlagsPassedOn
<1>2. MadeMore(made') /\ Fits(FlagsAdded(p, packet), made', Dropped)
  BY <1>1, AddedMade
<1>3. \A q \in Players : \A w \in WordSeq(made[q]) : w \in WordSeq(made'[q])
  <2>1. made \in [Players -> Nat]
    BY DEF RingInv, Typed
  <2> QED BY <1>2, <2>1, WordsMore DEF MadeMore
<1> QED BY <1>1, <1>2, <1>3, PassWords

LEMMA NewLapFlags ==
  ASSUME NEW s, NEW packet \in PacketSet, NEW n
  PROVE  NewLap(s, packet, n).flags = packet.flags /\ NewLap(s, packet, n).dead = packet.dead
BY DEF NewLap, PacketSet

LEMMA ReceiveWords ==
  ASSUME RingInv, WordsOK, NEW p \in Players, NEW m \in net, InGame(p),
         ReceiveSync(p, m) \/ ReceiveTime(p, m)
  PROVE  WordsOK'
<1> DEFINE first == [m.packet EXCEPT !.type = IF status[p].iAmTheServer THEN "time" ELSE @]
           s == [Seen(p, m) EXCEPT !.state = "active"]
<1>1. /\ m.packet \in PacketSet /\ Seen(p, m) \in StatusSet /\ Fits(m.packet, made, Dropped)
      /\ Seen(p, m).buffer = status[p].buffer
  <2>1. ReceiveNew(p, m, "sync") \/ ReceiveNew(p, m, "time")
    BY DEF ReceiveSync, ReceiveTime
  <2>2. m.tag # "ack"
    BY <2>1 DEF ReceiveNew, ForMe
  <2> QED BY <2>1, <2>2, NewPacket DEF WordsOK
<1>2. first.flags = m.packet.flags /\ first.dead = m.packet.dead
  BY <1>1 DEF PacketSet
<1>3. s \in StatusSet /\ s.buffer = status[p].buffer
  BY <1>1 DEF StatusSet, States
<1> HIDE DEF first, s
<1>4. /\ made' = made /\ played' = played
      /\ \/ PassedOn(p, Seen(p, m), first)
         \/ PassedOn(p, s, m.packet)
  BY DEF ReceiveSync, ReceiveTime, first, s
<1>5. /\ MadeMore(made') /\ played' \in PlayedSet
      /\ Fits(m.packet, made', Dropped) /\ Fits(first, made', Dropped)
  BY <1>1, <1>2, <1>4 DEF MadeMore, RingInv, Typed, WordsOK, Fits
<1> QED BY <1>1, <1>3, <1>4, <1>5, PassWords

LEMMA NormalWords ==
  ASSUME RingInv, WordsOK, NEW p \in Players, NEW m \in net, InGame(p),
         ReceiveFlags(p, m) \/ ReceiveAndWait(p, m) \/ \E n \in 1 .. MaxRequired : ReceiveAtServer(p, m, n)
  PROVE  WordsOK'
<1>1. Normal(p, m) /\ Processed(p, m.packet)
  BY DEF ReceiveFlags, ReceiveAndWait, ReceiveAtServer
<1>2. /\ m.packet \in PacketSet /\ Seen(p, m) \in StatusSet /\ m.tag # "ack"
      /\ Seen(p, m).buffer = status[p].buffer /\ Seen(p, m).ringFrame = status[p].ringFrame
      /\ Seen(p, m).state \in {"startingUp", "active", "comingDown"}
  BY <1>1, NormalPacket DEF Normal, ReceiveNew, ForMe, InGame
<1>3. Fits(m.packet, made, Dropped)
  BY <1>2 DEF WordsOK
<1>4. /\ played' \in PlayedSet
      /\ \A r, q \in Players : played'[r][q] = played[r][q] \/ played'[r][q] \in WordSeq(made[q])
  BY <1>1, <1>2, <1>3, PlaysMade
<1> DEFINE l == Live(m, Seen(p, m))
<1>5. /\ l \in StatusSet /\ l.buffer = status[p].buffer /\ l.ringFrame = status[p].ringFrame
  BY <1>2, LiveTyped
<1>6. CASE ReceiveFlags(p, m)
  BY <1>2, <1>3, <1>4, <1>6, FlagsPassedWords DEF ReceiveFlags
<1>7. CASE \E n \in 1 .. MaxRequired : ReceiveAtServer(p, m, n)
  <2>1. PICK n \in 1 .. MaxRequired : ReceiveAtServer(p, m, n)
    BY <1>7
  <2> DEFINE own == [m.packet EXCEPT !.type = "normal", !.server = p]
             lap == NewLap(l, own, n)
  <2>2. own \in PacketSet /\ own.flags = m.packet.flags /\ own.dead = m.packet.dead
    BY <1>2 DEF PacketSet, PacketTypes
  <2>3. FlagsPassedOn(p, l, lap)
    BY <2>1 DEF ReceiveAtServer
  <2> HIDE DEF own, l
  <2>4. lap \in PacketSet /\ lap.flags = m.packet.flags /\ lap.dead = m.packet.dead
    BY <1>5, <2>2, NewLapTyped, NewLapFlags, Ring
  <2> HIDE DEF lap
  <2>5. Fits(lap, made, Dropped)
    BY <1>3, <2>4 DEF Fits
  <2> QED BY <1>4, <1>5, <2>3, <2>4, <2>5, FlagsPassedWords
<1>8. CASE ReceiveAndWait(p, m)
  <2> DEFINE held == [m.packet EXCEPT !.type = "normal"]
             t == [l EXCEPT !.clearToForward = TRUE, !.buffer = held]
  <2>1. status' = [status EXCEPT ![p] = t] /\ made' = made /\ net' = net
    BY <1>8 DEF ReceiveAndWait
  <2>2. held.flags = m.packet.flags /\ held.dead = m.packet.dead
    BY <1>2 DEF PacketSet
  <2> HIDE DEF held, l
  <2>3. t.ringFrame = status[p].ringFrame /\ t.buffer = held
    BY <1>5 DEF StatusSet
  <2> HIDE DEF t
  <2>4. Fits(t.ringFrame, made', Dropped') /\ Fits(t.buffer, made', Dropped')
    BY <1>3, <2>1, <2>2, <2>3 DEF Fits, WordsOK, Dropped
  <2>5. MadeMore(made')
    BY <2>1 DEF MadeMore, RingInv, Typed
  <2>6. \A r, q \in Players : played'[r][q] = played[r][q] \/ played'[r][q] \in WordSeq(made'[q])
    BY <1>4, <2>1
  <2> QED BY <1>4, <2>1, <2>4, <2>5, <2>6, WordsKept
<1> QED BY <1>6, <1>7, <1>8

LEMMA UnsyncWords ==
  ASSUME RingInv, WordsOK, NEW p \in Players, NEW m \in net, InGame(p), ReceiveUnsync(p, m)
  PROVE  WordsOK'
<1> DEFINE s == [Seen(p, m) EXCEPT !.accept = FALSE]
<1>1. /\ m.packet \in PacketSet /\ Seen(p, m) \in StatusSet /\ Fits(m.packet, made, Dropped)
      /\ Seen(p, m).buffer = status[p].buffer /\ Seen(p, m).ringFrame = status[p].ringFrame
  <2>1. ReceiveNew(p, m, "unsync")
    BY DEF ReceiveUnsync
  <2>2. m.tag # "ack"
    BY <2>1 DEF ReceiveNew, ForMe
  <2> QED BY <2>1, <2>2, NewPacket DEF WordsOK
<1>2. s \in StatusSet /\ s.buffer = status[p].buffer /\ s.ringFrame = status[p].ringFrame
  BY <1>1 DEF StatusSet
<1>3. /\ made' = made /\ played' = played
      /\ IF status[p].iAmTheServer
         THEN /\ status' = [status EXCEPT ![p] = s]
              /\ net' = net \cup {Ack(p, s.downring, s.lastValid)}
         ELSE PassedOn(p, s, m.packet)
  BY DEF ReceiveUnsync
<1> HIDE DEF s
<1>4. CASE status[p].iAmTheServer
  <2>1. net \subseteq net' /\ \A a \in net' : a \in net \/ a.tag = "ack"
    BY <1>3, <1>4 DEF Ack
  <2>2. Fits(s.ringFrame, made, Dropped) /\ Fits(s.buffer, made, Dropped)
    BY <1>2 DEF WordsOK
  <2> QED BY <1>3, <1>4, <2>1, <2>2, WordsSame
<1>5. CASE ~ status[p].iAmTheServer
  <2>1. /\ MadeMore(made') /\ played' \in PlayedSet /\ Fits(m.packet, made', Dropped)
    BY <1>1, <1>3 DEF MadeMore, RingInv, Typed, WordsOK, Fits
  <2> QED BY <1>2, <1>3, <1>5, <2>1, PassWords
<1> QED BY <1>4, <1>5

LEMMA ForwardsWords ==
  ASSUME RingInv, WordsOK, NEW p \in Players, NEW n \in 1 .. MaxRequired, ServerTaskForwards(p, n)
  PROVE  WordsOK'
<1> DEFINE lap == NewLap(status[p], status[p].buffer, n)
<1>1. /\ status[p] \in StatusSet /\ status[p].buffer \in PacketSet
      /\ Fits(status[p].buffer, made, Dropped) /\ played \in PlayedSet
  BY Player DEF WordsOK
<1>2. FlagsPassedOn(p, status[p], lap) /\ played' = played
  BY DEF ServerTaskForwards
<1>3. /\ lap \in PacketSet /\ lap.flags = status[p].buffer.flags
      /\ lap.dead = status[p].buffer.dead
  BY <1>1, NewLapTyped, NewLapFlags, Ring
<1> HIDE DEF lap
<1>4. Fits(lap, made, Dropped)
  BY <1>1, <1>3 DEF Fits
<1> QED BY <1>1, <1>2, <1>3, <1>4, FlagsPassedWords

LEMMA WordsStep ==
  ASSUME RingInv, WordsOK, Next
  PROVE  WordsOK'
<1>1. PICK p \in Players :
        \/ Sync(p) \/ Leave(p)
        \/ \E m \in net : Handle(p, m)
        \/ ServerTask(p) \/ GiveUp(p) \/ DropUpring(p)
  BY DEF Next
<1>2. CASE Sync(p) \/ Leave(p)
  BY <1>2, SyncWords, LeaveWords
<1>3. CASE \E m \in net : Handle(p, m)
  <2>1. PICK m \in net : Handle(p, m)
    BY <1>3
  <2> QED
    BY <2>1, MinorWords, ReceiveWords, NormalWords, UnsyncWords DEF Handle
<1>4. CASE ServerTask(p) \/ GiveUp(p)
  BY <1>4, MinorWords, ForwardsWords DEF ServerTask
<1>5. CASE DropUpring(p)
  BY <1>5, DropWords
<1> QED BY <1>1, <1>2, <1>3, <1>4, <1>5

LEMMA WordsInit == Init => WordsOK
<1> SUFFICES ASSUME Init PROVE WordsOK
  OBVIOUS
<1>1. /\ \A p \in Players : status[p].ringFrame = FirstPacket /\ status[p].buffer = FirstPacket
      /\ net = {} /\ \A p, q \in Players : played[p][q] = <<>>
  BY DEF Init, OutOfGame
<1>2. /\ \A q \in Players : <<>> \in WordSeq(made[q])
      /\ RingInv
  BY RingInit, WordSeqs DEF RingInv, Typed
<1>3. played \in PlayedSet
  <2>1. [q \in Players |-> <<>>] \in [Players -> Seq(Nat)]
    OBVIOUS
  <2> QED BY <2>1 DEF Init, PlayedSet
<1>4. Fits(FirstPacket, made, Dropped)
  BY <1>2, FirstFits
<1> QED BY <1>1, <1>2, <1>3, <1>4 DEF WordsOK

LEMMA WordsInvariant == Spec => []WordsOK
<1>1. RingInv /\ WordsOK /\ [Next]_vars => WordsOK'
  <2> SUFFICES ASSUME RingInv, WordsOK, [Next]_vars PROVE WordsOK'
    OBVIOUS
  <2>1. CASE Next
    BY <2>1, WordsStep
  <2>2. CASE UNCHANGED vars
    BY <2>2 DEF vars, WordsOK, Fits, Dropped
  <2> QED BY <2>1, <2>2
<1> QED BY <1>1, WordsInit, RingInvariant, PTL DEF Spec

\* The type invariant of the ring: whoever crashes or is dropped, no player of
\* RingGameProtocol sends or plays a word that its player has not made, but for the one that
\* memmove puts before them, and no packet exceeds NetPacketSize's bound.
THEOREM RingTypes == Spec => []RingTypeOK
<1>1. RingInv /\ WordsOK => RingTypeOK
  <2> SUFFICES ASSUME RingInv, WordsOK, NEW p \in Players
               PROVE  /\ status[p].state \in States
                      /\ {status[p].upring, status[p].downring, status[p].server} \subseteq Players
                      /\ IsPacket(status[p].ringFrame) /\ IsPacket(status[p].buffer)
                      /\ made[p] \in Nat /\ \A q \in Players : played[p][q] \in Words(q)
    BY DEF RingTypeOK
  <2>1. /\ status[p] \in StatusSet /\ made[p] \in Nat
        /\ status[p].ringFrame \in PacketSet /\ status[p].buffer \in PacketSet
    BY Player
  <2>2. \A packet \in PacketSet : Fits(packet, made, Dropped) => IsPacket(packet)
    BY DEF Fits, PacketSet, PacketTypes, IsPacket, Words, WordSeq
  <2>3. Fits(status[p].ringFrame, made, Dropped) /\ Fits(status[p].buffer, made, Dropped)
    BY DEF WordsOK
  <2>4. status[p].state \in States
    BY <2>1 DEF StatusSet
  <2>5. \A q \in Players : played[p][q] \in Words(q)
    BY DEF WordsOK, Words, WordSeq
  <2> QED BY <2>1, <2>2, <2>3, <2>4, <2>5, Player
<1> QED BY <1>1, WordsInvariant, RingInvariant, PTL

-----------------------------------------------------------------------------
(***************************************************************************)
(* One player out: the words in the packet and what has been played        *)
(***************************************************************************)
\* At most one player has begun and takes no packets any more, and whoever was dropped,
\* or given up, could not answer.
OnlyOneOut == hasty = {} /\ \A p, q \in Players : Out(p) /\ Out(q) => p = q

\* The players in the ring, and those out of it whose streams still count.
Ins == {p \in Players : ~ Out(p)}
Others == {p \in Players : Out(p) /\ status[p].state # "gone"}

NextIn(p) == IF Out(Next_(p)) THEN Next_(Next_(p)) ELSE Next_(p)

Waiting(p) == status[p].clearToForward

HasSent(p) == status[p].lastValid > 0 \/ ~ status[p].receivedAck

\* The packet of player h, the one that got it last, and who has played the words of q
\* in it: those it has passed since q put them in; everybody, if h has yet to replace
\* its own.
Token(h) == IF Waiting(h) THEN status[h].buffer ELSE status[h].ringFrame

Reached(q, h) == {p \in Players : p # q /\ Dist(q, p) <= Dist(q, h)}

Having(q, h) == IF q = h /\ Waiting(h) THEN Players ELSE Reached(q, h)

\* What is played of q: pl[p][q] by p.  The players of in have all played base, and those
\* of who also the words in the packet; what those of rest have played is a part of it.
\* NetDead is added for who is dead by each as it comes.
PlaysWords(base, words, who, q, in, rest, pl) ==
  /\ \A p \in in : pl[p][q] = IF p \in who THEN base \o words ELSE base
  /\ \A p \in rest : IsPrefix(pl[p][q], base \o words)

PlaysDead(base, q, in, rest, pl) ==
  /\ \A p \in in : \E k \in Nat : pl[p][q] = base \o DeadFor(k)
  /\ \A p \in rest : IsPrefix(pl[p][q], base)

StreamOf(packet, who, q, in, rest, pl) ==
  \E base \in Seq(Nat) :
    IF q \in packet.dead THEN PlaysDead(base, q, in, rest, pl)
    ELSE PlaysWords(base, packet.flags[q], who, q, in, rest, pl)

\* There are no words in the packet before the first lap with flags.
Quiet(packet) ==
  packet.type \in {"sync", "time"} => \A q \in Players : packet.flags[q] = <<>>

\* While nobody is out: what the player before h has sent last fits as well what all but
\* h have played, so that it can be taken up should h go.
Back(h) ==
  LET frame == status[Previous(h)].ringFrame
  IN  /\ frame.dead = {} /\ Token(h).dead = {} /\ Quiet(frame)
      /\ \A q \in Players :
           StreamOf(frame, Reached(q, Previous(h)), q, Players \ {h}, {h}, played)
      /\ \A q \in Players \ {h} : Token(h).flags[q] = frame.flags[q]

\* What is taken if it arrives comes from h; or from the one that is out and got the
\* packet from h, and then adds to it nothing but its own words.
Fresh(m) ==
  /\ m.tag # "ack" /\ m.from # m.to /\ ~ Out(m.to) /\ m.seq > status[m.to].lastValid
  /\ Out(m.from) /\ Started(m.to) => status[m.to].downring = m.from

FromHead(h, m) ==
  /\ m.from = h /\ m.to = status[h].upring /\ ~ Waiting(h)
  /\ m.seq = status[h].lastValid + 1 /\ m.packet = status[h].ringFrame

LastWords(h, g, packet) ==
  /\ status[g].state = "gone" /\ packet.dead = {} /\ Quiet(packet)
  /\ \A q \in Players \ {g} : packet.flags[q] = Token(h).flags[q]
  /\ \A p1, p2 \in Ins : played[p1][g] = played[p2][g]

FromOut(h, m) ==
  /\ Out(m.from) /\ Next_(h) = m.from /\ m.to = Next_(m.from) /\ ~ Waiting(h)
  /\ m.seq > status[h].lastValid
  /\ m.packet.type = "unsync" \/ LastWords(h, m.from, m.packet)

\* The parts of the invariant that depend on h.
HeadOK(h) ==
  /\ h \in Players /\ ~ Out(h) /\ (Started(Server) \/ h = Server)
  /\ \A p \in Players : Waiting(p) => p = h

Ahead(h) ==
  \A p \in Ins \ {h} : HasSent(p) => status[p].lastValid < status[NextIn(p)].lastValid

TokenOK(h) ==
  /\ \A q \in Token(h).dead : Out(q)
  /\ Quiet(Token(h)) /\ (Waiting(h) => Token(h).type = "normal")
  /\ \A q \in Players : StreamOf(Token(h), Having(q, h), q, Ins, Others, played)

BackOK(h) == Ins = Players => Back(h)

FreshOK(h) ==
  /\ \A m \in net : Fresh(m) => FromHead(h, m) \/ FromOut(h, m)
  /\ \A m1, m2 \in net :
       Fresh(m1) /\ Fresh(m2) /\ Out(m1.from) /\ Out(m2.from) => m1.seq = m2.seq

RingAt(h) == HeadOK(h) /\ Ahead(h) /\ TokenOK(h) /\ BackOK(h) /\ FreshOK(h)

\* And those that do not.
PlayerInRing(p) ==
  /\ ~ Started(p) => status[p] = OutOfGame("uninitialized")
  /\ InGame(p) => \/ status[p].upring = Next_(p)
                  \/ Out(Next_(p)) /\ status[p].upring = Next_(Next_(p))

\* Who asks to be the down-ring neighbour has dropped the one in between, for good.
ChangeOK(m) ==
  LET g == Previous(m.to)
  IN  Out(g) /\ Next_(m.from) = g /\ (InGame(m.from) => status[m.from].upring # g)

Linked ==
  /\ played \in PlayedSet
  /\ \A p \in Players : PlayerInRing(p)
  /\ \A m \in net : m.tag = "change" => ChangeOK(m)

StreamInv == Linked /\ \E h \in Players : RingAt(h)

-----------------------------------------------------------------------------
(***************************************************************************)
(* Streams                                                                 *)
(***************************************************************************)
\* Two streams of a player are parts of one.
LEMMA StreamsAlike ==
  ASSUME NEW packet \in PacketSet, NEW who, NEW q \in Players,
         NEW in \in SUBSET Players, NEW rest \in SUBSET Players, NEW pl \in PlayedSet,
         StreamOf(packet, who, q, in, rest, pl),
         NEW p1 \in in \cup rest, NEW p2 \in in \cup rest
  PROVE  Alike(pl[p1][q], pl[p2][q])
<1> DEFINE s1 == pl[p1][q]
           s2 == pl[p2][q]
<1>1. s1 \in Seq(Nat) /\ s2 \in Seq(Nat) /\ packet.flags[q] \in Seq(Nat)
  BY Flags DEF PlayedSet
<1>2. PICK base \in Seq(Nat) :
        IF q \in packet.dead THEN PlaysDead(base, q, in, rest, pl)
        ELSE PlaysWords(base, packet.flags[q], who, q, in, rest, pl)
  BY DEF StreamOf
<1>3. CASE q \in packet.dead
  <2>1. PICK k1 \in Nat : p1 \in in => s1 = base \o DeadFor(k1)
    BY <1>2, <1>3 DEF PlaysDead
  <2>2. PICK k2 \in Nat : p2 \in in => s2 = base \o DeadFor(k2)
    BY <1>2, <1>3 DEF PlaysDead
  <2>3. /\ p1 \in rest => IsPrefix(s1, base)
        /\ p2 \in rest => IsPrefix(s2, base)
    BY <1>2, <1>3 DEF PlaysDead
  <2> DEFINE all == base \o DeadFor(k1 + k2)
  <2>4. /\ DeadFor(k1) \in Seq(Nat) /\ DeadFor(k2) \in Seq(Nat)
        /\ DeadFor(k1 + k2) \in Seq(Nat)
        /\ DeadFor(k1) \o DeadFor(k2) = DeadFor(k1 + k2)
        /\ DeadFor(k2) \o DeadFor(k1) = DeadFor(k1 + k2)
    <3>1. k1 + k2 \in Nat /\ k2 + k1 = k1 + k2
      OBVIOUS
    <3> QED BY <3>1, DeadForTyped
  <2>5. /\ base \o DeadFor(k1) \in Seq(Nat) /\ base \o DeadFor(k2) \in Seq(Nat)
        /\ all \in Seq(Nat)
        /\ all = (base \o DeadFor(k1)) \o DeadFor(k2)
        /\ all = (base \o DeadFor(k2)) \o DeadFor(k1)
    <3>1. /\ base \o DeadFor(k1) \in Seq(Nat) /\ base \o DeadFor(k2) \in Seq(Nat)
          /\ all \in Seq(Nat)
      BY <2>4, ConcatProperties
    <3>2. (base \o DeadFor(k1)) \o DeadFor(k2) = base \o (DeadFor(k1) \o DeadFor(k2))
      BY <2>4, Assoc
    <3>3. (base \o DeadFor(k2)) \o DeadFor(k1) = base \o (DeadFor(k2) \o DeadFor(k1))
      BY <2>4, Assoc
    <3> QED BY <2>4, <3>1, <3>2, <3>3
  <2> HIDE DEF all
  <2>6. IsPrefix(s1, all)
    <3>1. CASE p1 \in in
      BY <2>1, <2>4, <2>5, <3>1, PrefixOfConcat
    <3>2. CASE p1 \in rest
      <4>1. IsPrefix(s1, base \o DeadFor(k1))
        BY <1>1, <2>3, <2>4, <3>2, PrefixGrows
      <4> QED BY <1>1, <2>4, <2>5, <4>1, PrefixGrows
    <3> QED BY <3>1, <3>2
  <2>7. IsPrefix(s2, all)
    <3>1. CASE p2 \in in
      BY <2>2, <2>4, <2>5, <3>1, PrefixOfConcat
    <3>2. CASE p2 \in rest
      <4>1. IsPrefix(s2, base \o DeadFor(k1))
        BY <1>1, <2>3, <2>4, <3>2, PrefixGrows
      <4> QED BY <1>1, <2>4, <2>5, <4>1, PrefixGrows
    <3> QED BY <3>1, <3>2
  <2> QED BY <1>1, <2>5, <2>6, <2>7, PrefixesAlike
<1>4. CASE q \notin packet.dead
  <2> DEFINE words == packet.flags[q]
             all == base \o words
  <2>1. all \in Seq(Nat) /\ IsPrefix(all, all) /\ IsPrefix(base, all)
    BY <1>1, ConcatProperties, PrefixOfConcat
  <2>2. IsPrefix(s1, all) /\ IsPrefix(s2, all)
    BY <1>2, <1>4, <2>1 DEF PlaysWords
  <2> QED BY <1>1, <2>1, <2>2, PrefixesAlike
<1> QED BY <1>3, <1>4

\* What a player that goes out has played still fits; who has the words matters only for
\* those in the ring, and if there are any.
LEMMA StreamKept ==
  ASSUME NEW packet \in PacketSet, NEW now \in PacketSet, NEW who, NEW who2,
         NEW q \in Players, NEW in \in SUBSET Players, NEW rest \in SUBSET Players,
         NEW in2 \in SUBSET in, NEW rest2 \in SUBSET (rest \cup (in \ in2)),
         NEW pl \in PlayedSet, NEW pl2 \in PlayedSet,
         StreamOf(packet, who, q, in, rest, pl),
         q \in now.dead <=> q \in packet.dead,
         q \in packet.dead => rest2 \subseteq rest,
         q \in packet.dead \/ /\ now.flags[q] = packet.flags[q]
                              /\ \A p \in in2 : p \in who2 <=> p \in who,
         \A p \in in2 \cup rest2 : pl2[p][q] = pl[p][q]
  PROVE  StreamOf(now, who2, q, in2, rest2, pl2)
<1>1. PICK base \in Seq(Nat) :
        IF q \in packet.dead THEN PlaysDead(base, q, in, rest, pl)
        ELSE PlaysWords(base, packet.flags[q], who, q, in, rest, pl)
  BY DEF StreamOf
<1>2. CASE q \in packet.dead
  <2>1. PlaysDead(base, q, in2, rest2, pl2)
    BY <1>1, <1>2 DEF PlaysDead
  <2> QED BY <1>2, <2>1 DEF StreamOf
<1>3. CASE q \notin packet.dead
  <2> DEFINE words == packet.flags[q]
             all == base \o words
  <2>1. words \in Seq(Nat)
    BY Flags
  <2>2. all \in Seq(Nat) /\ IsPrefix(all, all) /\ IsPrefix(base, all)
    BY <2>1, ConcatProperties, PrefixOfConcat
  <2>3. /\ \A p \in in : pl[p][q] = IF p \in who THEN all ELSE base
        /\ \A p \in rest : IsPrefix(pl[p][q], all)
    BY <1>1, <1>3 DEF PlaysWords
  <2> HIDE DEF all
  <2>4. \A p \in in2 : pl2[p][q] = IF p \in who2 THEN all ELSE base
    BY <1>3, <2>3
  <2>5. \A p \in rest2 : IsPrefix(pl2[p][q], all)
    BY <2>2, <2>3
  <2>6. PlaysWords(base, now.flags[q], who2, q, in2, rest2, pl2)
    BY <1>3, <2>4, <2>5 DEF PlaysWords, all
  <2> QED BY <1>3, <2>6 DEF StreamOf
<1> QED BY <1>2, <1>3

\* Player u takes the words from the packet.
LEMMA StreamTaken ==
  ASSUME NEW packet \in PacketSet, NEW who, NEW q \in Players,
         NEW in \in SUBSET Players, NEW rest \in SUBSET Players,
         NEW pl \in PlayedSet, NEW pl2 \in PlayedSet,
         StreamOf(packet, who, q, in, rest, pl),
         NEW u \in in, u \notin who, u \notin rest,
         q \in packet.dead => \E k \in Nat : pl2[u][q] = pl[u][q] \o DeadFor(k),
         q \notin packet.dead => pl2[u][q] = pl[u][q] \o packet.flags[q],
         \A p \in Players \ {u} : pl2[p][q] = pl[p][q]
  PROVE  StreamOf(packet, who \cup {u}, q, in, rest, pl2)
<1>1. PICK base \in Seq(Nat) :
        IF q \in packet.dead THEN PlaysDead(base, q, in, rest, pl)
        ELSE PlaysWords(base, packet.flags[q], who, q, in, rest, pl)
  BY DEF StreamOf
<1>2. CASE q \in packet.dead
  <2>1. PICK k \in Nat : pl2[u][q] = pl[u][q] \o DeadFor(k)
    BY <1>2
  <2>2. PICK n \in Nat : pl[u][q] = base \o DeadFor(n)
    BY <1>1, <1>2 DEF PlaysDead
  <2>3. /\ n + k \in Nat /\ DeadFor(n) \in Seq(Nat) /\ DeadFor(k) \in Seq(Nat)
        /\ DeadFor(n) \o DeadFor(k) = DeadFor(n + k)
    <3>1. n + k \in Nat
      OBVIOUS
    <3> QED BY <3>1, DeadForTyped
  <2>4. pl2[u][q] = base \o DeadFor(n + k)
    <3>1. (base \o DeadFor(n)) \o DeadFor(k) = base \o (DeadFor(n) \o DeadFor(k))
      BY <2>3, Assoc
    <3> QED BY <2>1, <2>2, <2>3, <3>1
  <2>5. PlaysDead(base, q, in, rest, pl2)
    BY <1>1, <1>2, <2>3, <2>4 DEF PlaysDead
  <2> QED BY <1>2, <2>5 DEF StreamOf
<1>3. CASE q \notin packet.dead
  <2>1. PlaysWords(base, packet.flags[q], who \cup {u}, q, in, rest, pl2)
    BY <1>1, <1>3 DEF PlaysWords
  <2> QED BY <1>3, <2>1 DEF StreamOf
<1> QED BY <1>2, <1>3

\* When everybody has the words, other words may follow; or nothing any more.
LEMMA StreamRenewed ==
  ASSUME NEW packet \in PacketSet, NEW now \in PacketSet, NEW who, NEW who2,
         NEW q \in Players, NEW in \in SUBSET Players, NEW rest \in SUBSET Players,
         NEW pl \in PlayedSet, StreamOf(packet, who, q, in, rest, pl),
         q \notin packet.dead, in \subseteq who, \A p \in in : p \notin who2
  PROVE  StreamOf(now, who2, q, in, rest, pl)
<1>1. PICK base \in Seq(Nat) : PlaysWords(base, packet.flags[q], who, q, in, rest, pl)
  BY DEF StreamOf
<1>2. packet.flags[q] \in Seq(Nat) /\ now.flags[q] \in Seq(Nat)
  BY Flags
<1>3. PICK all \in Seq(Nat) : all = base \o packet.flags[q]
  BY <1>2, ConcatProperties
<1>4. /\ \A p \in in : pl[p][q] = all
      /\ \A p \in rest : IsPrefix(pl[p][q], all)
  BY <1>1, <1>3 DEF PlaysWords
<1>5. all \o DeadFor(0) = all
  BY DeadForTyped, ConcatTyped
<1>6. CASE q \in now.dead
  <2>1. PlaysDead(all, q, in, rest, pl)
    BY <1>4, <1>5 DEF PlaysDead
  <2> QED BY <1>6, <2>1 DEF StreamOf
<1>7. CASE q \notin now.dead
  <2>1. \A p \in rest : pl[p][q] \in Seq(Nat)
    BY DEF PlayedSet
  <2>2. \A p \in rest : IsPrefix(pl[p][q], all \o now.flags[q])
    BY <1>2, <1>4, <2>1, PrefixGrows
  <2>3. PlaysWords(all, now.flags[q], who2, q, in, rest, pl)
    BY <1>4, <2>2 DEF PlaysWords
  <2> QED BY <1>7, <2>3 DEF StreamOf
<1> QED BY <1>6, <1>7

\* Nobody has the words when all have played the same.
LEMMA StreamSame ==
  ASSUME NEW packet \in PacketSet, NEW who, NEW q \in Players, q \notin packet.dead,
         NEW in \in SUBSET Players, NEW pl \in PlayedSet, \A p \in in : p \notin who
  PROVE  /\ \A rest \in SUBSET Players : StreamOf(packet, who, q, in, rest, pl) =>
              \A p1, p2 \in in : pl[p1][q] = pl[p2][q]
         /\ (\A p1, p2 \in in : pl[p1][q] = pl[p2][q]) =>
              StreamOf(packet, who, q, in, {}, pl)
<1>1. ASSUME NEW rest \in SUBSET Players, StreamOf(packet, who, q, in, rest, pl)
      PROVE  \A p1, p2 \in in : pl[p1][q] = pl[p2][q]
  BY <1>1 DEF StreamOf, PlaysWords
<1>2. ASSUME \A p1, p2 \in in : pl[p1][q] = pl[p2][q]
      PROVE  StreamOf(packet, who, q, in, {}, pl)
  <2>1. \A p \in in : pl[p][q] \in Seq(Nat)
    BY DEF PlayedSet
  <2>2. <<>> \in Seq(Nat)
    OBVIOUS
  <2>3. PICK base \in Seq(Nat) : \A p \in in : pl[p][q] = base
    BY <1>2, <2>1, <2>2
  <2>4. PlaysWords(base, packet.flags[q], who, q, in, {}, pl)
    BY <2>3 DEF PlaysWords
  <2> QED BY <2>4 DEF StreamOf
<1> QED BY <1>1, <1>2
-----------------------------------------------------------------------------
(***************************************************************************)
(* One step of one player                                                  *)
(***************************************************************************)
LEMMA ReachedIs ==
  ASSUME NEW q \in Players, NEW u \in Players
  PROVE  /\ Previous(Next_(u)) = u /\ Next_(Previous(u)) = u
         /\ Reached(q, u) \in SUBSET Players /\ q \notin Reached(q, u)
         /\ Reached(q, q) = {} /\ Reached(q, Previous(q)) = Players \ {q}
         /\ u \notin Reached(q, Previous(u))
         /\ u # q => Reached(q, u) = Reached(q, Previous(u)) \cup {u}
<1> USE Ring
<1>1. Previous(u) \in Players /\ Previous(q) \in Players
  BY Neighbours
<1>2. Previous(Next_(u)) = u /\ Next_(Previous(u)) = u
  BY Neighbours
<1>3. Reached(q, q) = {} /\ Reached(q, Previous(q)) = Players \ {q}
  <2>1. \A p \in Players :
          /\ Dist(q, p) \in 0 .. N - 1 /\ (Dist(q, p) = 0 <=> q = p)
          /\ Dist(q, q) = 0 /\ Dist(q, Previous(q)) = N - 1
    BY Dists
  <2>2. \A p \in Players : Dist(q, p) <= N - 1 /\ (Dist(q, p) <= 0 => p = q)
    BY <2>1
  <2> QED BY <2>1, <2>2 DEF Reached
<1>4. u # q => \A p \in Players :
        /\ Dist(q, p) \in 0 .. N - 1 /\ Dist(q, u) \in 0 .. N - 1
        /\ Dist(q, Previous(u)) = Dist(q, u) - 1
        /\ Dist(q, p) = Dist(q, u) => p = u
  BY Dists
<1>5. ASSUME u # q
      PROVE  /\ Reached(q, u) = Reached(q, Previous(u)) \cup {u}
             /\ u \notin Reached(q, Previous(u))
  <2>1. \A p \in Players : Dist(q, p) <= Dist(q, u) <=> p = u \/ Dist(q, p) <= Dist(q, Previous(u))
    BY <1>4, <1>5
  <2>2. ~ (Dist(q, u) <= Dist(q, Previous(u)))
    BY <1>4, <1>5
  <2> QED BY <1>5, <2>1, <2>2 DEF Reached
<1>6. q \notin Reached(q, u) /\ Reached(q, u) \in SUBSET Players
  BY DEF Reached
<1>7. u = q => u \notin Reached(q, Previous(u))
  BY DEF Reached
<1> QED BY <1>2, <1>3, <1>5, <1>6, <1>7

LEMMA NextInIs ==
  ASSUME OnlyOneOut, NEW p \in Players, ~ Out(p)
  PROVE  NextIn(p) \in Players /\ ~ Out(NextIn(p))
<1>1. Next_(p) \in Players /\ Next_(Next_(p)) \in Players /\ Next_(Next_(p)) # Next_(p)
  BY Neighbours
<1> QED BY <1>1 DEF NextIn, OnlyOneOut

LEMMA InRing ==
  ASSUME RingInv, NEW p \in Players
  PROVE  /\ Started(p) /\ ~ Out(p) => InGame(p)
         /\ status[p].state = "gone" => Out(p)
         /\ status[p].state \in {"startingUp", "active"} => ~ Out(p)
         /\ InGame(p) /\ status[p].accept => ~ Out(p)
         /\ ~ InGame(p) /\ Started(p) => Out(p)
         /\ p \in Ins \cup Others <=> status[p].state # "gone"
<1>1. status[p] \in StatusSet /\ StatusOK(Lost, p, status[p])
  BY Player
<1>2. status[p].state \in States
  BY <1>1 DEF StatusSet
<1> QED BY <1>1, <1>2 DEF StatusOK, Out, Started, InGame, States, Ins, Others

\* Who has sent something but an acknowledgement has begun, and so has the first server.
LEMMA RingMessages ==
  ASSUME RingInv, NEW m \in net, m.tag # "ack"
  PROVE  Started(Server) /\ Started(m.from)
<1>1. m.from \in Players
  BY Message
<1>2. CASE AllStarted
  BY <1>1, <1>2, Ring DEF AllStarted
<1>3. CASE FirstLap
  <2>1. /\ Dist(Server, Server) = 0 /\ Dist(Server, m.from) \in 0 .. N - 1
        /\ Dist(Server, m.from) <= Dist(Server, m.from)
    BY <1>1, Dists, Ring
  <2>2. Dist(Server, Server) <= Dist(Server, m.from)
    BY <2>1, Ring
  <2> QED BY <1>1, <1>3, <2>1, <2>2, Ring DEF FirstLap
<1> QED BY <1>2, <1>3 DEF RingInv

\* What the lemmas about a step of player p, whose status becomes t, begin with.
Before(h) == RingInv /\ OnlyOneOut /\ Linked /\ h \in Players /\ RingAt(h)

Step(p, t) ==
  /\ p \in Players /\ t \in StatusSet /\ status' = [status EXCEPT ![p] = t]
  /\ t.state # "uninitialized" /\ (Out(p) => ~ t.accept)
  /\ played' \in PlayedSet

LEMMA Steps ==
  ASSUME RingInv, NEW p, NEW t, Step(p, t)
  PROVE  /\ status'[p] = t /\ \A q \in Players : q # p => status'[q] = status[q]
         /\ \A q \in Players \ {p} : (Out(q)' <=> Out(q)) /\ (Started(q)' <=> Started(q))
         /\ Out(p)' <=> ~ t.accept
         /\ Started(p)'
         /\ \A q \in Players : (Out(q) => Out(q)') /\ (Started(q) => Started(q)')
<1>1. status \in [Players -> StatusSet]
  BY DEF RingInv, Typed
<1>2. status'[p] = t /\ \A q \in Players : q # p => status'[q] = status[q]
  BY <1>1 DEF Step
<1> QED BY <1>2 DEF Out, Started, Step

\* Who asks for it is not the one that is out.
LEMMA ChangeFrom ==
  ASSUME RingInv, OnlyOneOut, Linked, NEW m \in net, m.tag = "change"
  PROVE  ~ Out(m.from)
<1>1. m.from \in Players /\ m.to \in Players
  BY Message
<1>2. Previous(m.to) \in Players /\ Next_(m.from) # m.from
  BY <1>1, Neighbours
<1> QED BY <1>1, <1>2 DEF Linked, ChangeOK, OnlyOneOut

\* Nobody is dead in a packet but who was dropped, and its neighbour was the one to do so.
LEMMA DroppedOnce ==
  ASSUME RingInv, WordsOK, OnlyOneOut, Linked, NEW h \in Players, InGame(h),
         status[h].upring = Next_(h)
  PROVE  /\ Next_(h) \notin status[h].ringFrame.dead
         /\ \A m \in net : m.tag # "ack" => Next_(h) \notin m.packet.dead
<1>1. Next_(h) \notin Dropped
  <2> SUFFICES ASSUME NEW c \in net, c.tag = "change", Previous(c.to) = Next_(h) PROVE FALSE
    BY DEF Dropped
  <2>1. c.from \in Players /\ Next_(c.from) = Next_(h)
    BY Message DEF Linked, ChangeOK
  <2>2. c.from = h
    BY <2>1, Around
  <2> QED BY <2>2 DEF Linked, ChangeOK
<1> QED BY <1>1 DEF WordsOK, Fits

\* A player goes on sending to who it sent to before, or to one further.
LEMMA LinkedStill ==
  ASSUME RingInv, Linked, NEW p, NEW t, Step(p, t),
         t.state \in {"startingUp", "active", "comingDown"} =>
           \/ InGame(p) /\ t.upring = status[p].upring
           \/ ~ Started(p) /\ t.upring = Next_(p)
           \/ Out(Next_(p))' /\ t.upring = Next_(Next_(p)),
         \A m \in net' : m \in net \/ m.tag # "change" \/ ChangeOK(m)'
  PROVE  Linked'
<1>1. /\ status'[p] = t /\ \A q \in Players : q # p => status'[q] = status[q]
      /\ Started(p)'
      /\ \A q \in Players : (Out(q) => Out(q)') /\ (Started(q) => Started(q)')
  BY Steps
<1>2. \A q \in Players : Next_(q) \in Players
  BY Neighbours
<1>3. ASSUME NEW q \in Players PROVE PlayerInRing(q)'
  <2>0. PlayerInRing(q) /\ p \in Players
    BY DEF Linked, Step
  <2>1. CASE q = p
    BY <1>1, <1>2, <2>0, <2>1 DEF PlayerInRing, InGame
  <2>2. CASE q # p
    BY <1>1, <1>2, <2>0, <2>2 DEF PlayerInRing, InGame, Started
  <2> QED BY <2>1, <2>2
<1>4. ASSUME NEW m \in net', m.tag = "change" PROVE ChangeOK(m)'
  <2>1. CASE m \in net
    <3> DEFINE g == Previous(m.to)
    <3>1. Out(g) /\ Next_(m.from) = g /\ (InGame(m.from) => status[m.from].upring # g)
      BY <1>4, <2>1 DEF Linked, ChangeOK
    <3>2. m.from \in Players /\ m.to \in Players /\ Started(m.from)
      BY <1>4, <2>1, Message, RingMessages
    <3>3. g \in Players /\ Next_(g) # g
      BY <3>2, Neighbours
    <3> HIDE DEF g
    <3>4. Out(g)'
      BY <1>1, <3>1, <3>3
    <3>5. InGame(m.from)' => status'[m.from].upring # g
      <4>1. CASE m.from = p
        BY <1>1, <3>1, <3>2, <3>3, <4>1 DEF InGame
      <4>2. CASE m.from # p
        BY <1>1, <3>1, <3>2, <4>2 DEF InGame
      <4> QED BY <4>1, <4>2
    <3> QED BY <3>1, <3>4, <3>5 DEF ChangeOK, g, Previous, Next_
  <2>2. CASE m \notin net
    BY <1>4, <2>2
  <2> QED BY <2>1, <2>2
<1> QED BY <1>3, <1>4 DEF Linked, Step
\* The packet stays where it is, and nobody goes out.
Quietly(h, p, t) ==
  /\ Out(p) <=> ~ t.accept
  /\ Out(p) \/ /\ t.lastValid = status[p].lastValid /\ t.buffer = status[p].buffer
               /\ t.clearToForward = status[p].clearToForward
  /\ t.clearToForward => status[p].clearToForward
  /\ \/ Out(p) \/ t.ringFrame = status[p].ringFrame
     \/ p # h /\ \E g \in Players : Out(g)
  /\ p = h \/ HasSent(p) \/ (t.lastValid = 0 /\ t.receivedAck)
  /\ p # h \/ t.upring = status[p].upring \/ \A m \in net : m.tag # "ack" => m.from # p
  /\ Started(p) /\ ~ Out(p) => t.downring = status[p].downring \/ ~ Out(t.downring)
  /\ status[p].state = "gone" => t.state = "gone"
  /\ \A q \in Players \ {p} : played'[q] = played[q]
  /\ played'[p] = played[p] \/ (Out(p) /\ t.state = "gone")

LEMMA StillStep ==
  ASSUME NEW h, Before(h), NEW p, NEW t, Step(p, t), Quietly(h, p, t),
         \A m \in net' : \/ m \in net \/ m.tag = "ack" \/ FromHead(h, m)'
                         \/ ~ (m.seq > status'[m.to].lastValid)
  PROVE  RingAt(h)'
<1>1. /\ RingInv /\ OnlyOneOut /\ Linked /\ h \in Players /\ p \in Players
      /\ HeadOK(h) /\ Ahead(h) /\ TokenOK(h) /\ BackOK(h) /\ FreshOK(h)
  BY DEF Before, RingAt, Step
<1>2. /\ status'[p] = t /\ \A q \in Players : q # p => status'[q] = status[q]
      /\ \A q \in Players : Out(q)' <=> Out(q)
      /\ \A q \in Players : Started(q) => Started(q)'
  <2>1. /\ status'[p] = t /\ \A q \in Players : q # p => status'[q] = status[q]
        /\ \A q \in Players \ {p} : Out(q)' <=> Out(q)
        /\ Out(p)' <=> ~ t.accept
        /\ \A q \in Players : Started(q) => Started(q)'
    BY <1>1, Steps
  <2>2. Out(p) <=> ~ t.accept
    BY DEF Quietly
  <2> QED BY <2>1, <2>2
<1>3. \A q \in Players : status[q].lastValid \in Nat /\ status'[q].lastValid \in Nat
  BY <1>1, <1>2, Player DEF Step, StatusSet
<1>4. /\ ~ Out(h) /\ \A q \in Players : ~ Out(q) =>
           /\ status'[q].lastValid = status[q].lastValid
           /\ status'[q].clearToForward = status[q].clearToForward
           /\ status'[q].buffer = status[q].buffer
      /\ status'[h].ringFrame = status[h].ringFrame
  BY <1>1, <1>2 DEF Quietly, HeadOK
<1>5. HeadOK(h)'
  <2>1. \A q \in Players : Waiting(q)' => Waiting(q)
    BY <1>2 DEF Waiting, Quietly
  <2> QED BY <1>1, <1>2, <2>1, Ring DEF HeadOK
<1>6. Ins' = Ins /\ Others' \in SUBSET Others
  BY <1>2 DEF Ins, Others, Quietly
<1>7. \A q \in Players : Next_(q) \in Players /\ NextIn(q)' = NextIn(q)
  BY <1>2, Neighbours DEF NextIn
<1>8. Ahead(h)'
  <2> SUFFICES ASSUME NEW q \in Ins \ {h}, HasSent(q)'
               PROVE  status'[q].lastValid < status'[NextIn(q)].lastValid
    BY <1>6, <1>7 DEF Ahead, Ins
  <2>1. q \in Players /\ ~ Out(q) /\ NextIn(q) \in Players /\ ~ Out(NextIn(q))
    BY <1>1, NextInIs DEF Ins
  <2>2. HasSent(q)
    BY <1>2, <1>3, <2>1 DEF HasSent, Quietly, Step, StatusSet
  <2> QED BY <1>1, <1>4, <2>1, <2>2 DEF Ahead
<1>9. Token(h)' = Token(h) /\ (Waiting(h)' <=> Waiting(h)) /\ Token(h) \in PacketSet
  BY <1>1, <1>4, Player DEF Token, Waiting
<1>10. \A q \in Players : \A x \in Ins \cup Others' : played'[x][q] = played[x][q]
  BY <1>2, <1>6 DEF Quietly, Ins, Others
<1>11. played \in PlayedSet /\ played' \in PlayedSet
  BY <1>1 DEF Linked, Step
<1>12. TokenOK(h)'
  <2>1. \A q \in Players : Having(q, h)' = Having(q, h)
    BY <1>9 DEF Having, Reached, Dist
  <2>2. ASSUME NEW q \in Players
        PROVE  StreamOf(Token(h), Having(q, h), q, Ins, Others', played')
    <3>1. StreamOf(Token(h), Having(q, h), q, Ins, Others, played)
      BY <1>1 DEF TokenOK
    <3>2. /\ Ins \in SUBSET Players /\ Others \in SUBSET Players
          /\ Others' \in SUBSET (Others \cup (Ins \ Ins))
      BY <1>6 DEF Ins, Others
    <3> QED BY <1>6, <1>9, <1>10, <1>11, <3>1, <3>2, StreamKept
  <2>3. /\ \A q \in Token(h).dead : Out(q)
        /\ Quiet(Token(h)) /\ (Waiting(h) => Token(h).type = "normal")
        /\ Token(h).dead \subseteq Players
    BY <1>1, <1>9 DEF TokenOK, PacketSet
  <2>4. Quiet(Token(h))'
    BY <1>9, <2>3 DEF Quiet
  <2> QED BY <1>2, <1>6, <1>9, <2>1, <2>2, <2>3, <2>4 DEF TokenOK
<1>13. BackOK(h)'
  <2> SUFFICES ASSUME Ins = Players PROVE Back(h)'
    BY <1>6 DEF BackOK
  <2>1. Back(h) /\ \A q \in Players : ~ Out(q)
    BY <1>1 DEF BackOK, Ins
  <2>2. Previous(h) \in Players
    BY <1>1, Neighbours
  <2> DEFINE frame == status[Previous(h)].ringFrame
  <2>3. status'[Previous(h)].ringFrame = frame
    BY <1>1, <1>2, <2>1, <2>2 DEF Quietly
  <2>4. played' = played
    <3>1. \A q \in Players : played'[q] = played[q]
      BY <2>1 DEF Quietly, Step
    <3> QED BY <1>11, <3>1 DEF PlayedSet
  <2>5. Quiet(frame) => Quiet(status'[Previous(h)].ringFrame)
    BY <2>3 DEF Quiet
  <2> QED BY <1>9, <2>1, <2>3, <2>4, <2>5 DEF Back, Quiet, Reached, Dist
<1>14. ASSUME NEW m \in net', Fresh(m)'
       PROVE  \/ FromHead(h, m)'
              \/ m \in net /\ Fresh(m) /\ FromOut(h, m)' /\ Out(m.from)
  <2>1. CASE FromHead(h, m)'
    BY <2>1
  <2>2. CASE m \in net
    <3>1. m.to \in Players /\ m.from \in Players /\ m.seq \in Nat /\ status[p].downring \in Players
      BY <1>1, <2>2, Message, Player
    <3>2. Fresh(m)
      <4>1. /\ m.tag # "ack" /\ m.from # m.to /\ ~ Out(m.to)
            /\ m.seq > status[m.to].lastValid
        BY <1>2, <1>4, <1>14, <3>1 DEF Fresh
      <4>2. ASSUME Out(m.from), Started(m.to) PROVE status[m.to].downring = m.from
        <5>1. status'[m.to].downring = m.from
          BY <1>2, <1>14, <3>1, <4>2 DEF Fresh
        <5> QED BY <1>2, <3>1, <4>1, <4>2, <5>1 DEF Quietly
      <4> QED BY <4>1, <4>2 DEF Fresh
    <3>3. CASE FromHead(h, m)
      <4>1. m.from = h /\ m.tag # "ack"
        BY <3>2, <3>3 DEF Fresh, FromHead
      <4>2. status'[h].upring = status[h].upring
        BY <1>1, <1>2, <2>2, <4>1 DEF Quietly
      <4> QED BY <1>1, <1>4, <1>9, <3>3, <4>2 DEF FromHead
    <3>4. CASE FromOut(h, m)
      <4>1. ~ Waiting(h)' /\ Out(m.from)' /\ m.seq > status'[h].lastValid
        BY <1>1, <1>2, <1>4, <1>9, <3>1, <3>4 DEF FromOut
      <4>2. LastWords(h, m.from, m.packet) => LastWords(h, m.from, m.packet)'
        <5>1. status[m.from].state = "gone" => status'[m.from].state = "gone"
          BY <1>2, <3>1 DEF Quietly
        <5>2. \A x \in Ins : played'[x][m.from] = played[x][m.from]
          BY <1>10, <3>1
        <5>3. Quiet(m.packet) => Quiet(m.packet)'
          BY DEF Quiet
        <5> QED BY <1>6, <1>9, <5>1, <5>2, <5>3 DEF LastWords
      <4> QED BY <2>2, <3>2, <3>4, <4>1, <4>2 DEF FromOut
    <3> QED BY <1>1, <2>2, <3>2, <3>3, <3>4 DEF FreshOK
  <2> QED BY <1>14, <2>1, <2>2, <1>3 DEF Fresh
<1>15. FreshOK(h)'
  <2>1. \A m \in net' : Fresh(m)' /\ Out(m.from)' => m \in net /\ Fresh(m) /\ Out(m.from)
    <3> SUFFICES ASSUME NEW m \in net', Fresh(m)', Out(m.from)'
                 PROVE  m \in net /\ Fresh(m) /\ Out(m.from)
      OBVIOUS
    <3>1. ~ FromHead(h, m)'
      BY <1>1, <1>2, <1>4 DEF FromHead
    <3> QED BY <1>14, <3>1
  <2>2. \A m1, m2 \in net' :
          Fresh(m1)' /\ Fresh(m2)' /\ Out(m1.from)' /\ Out(m2.from)' => m1.seq = m2.seq
    BY <1>1, <2>1 DEF FreshOK
  <2>3. \A m \in net' : Fresh(m)' => FromHead(h, m)' \/ FromOut(h, m)'
    BY <1>14
  <2> QED BY <2>2, <2>3 DEF FreshOK
<1> QED BY <1>5, <1>8, <1>12, <1>13, <1>15 DEF RingAt
\* A player goes out, the first one.
GoesOut(p, t) ==
  /\ ~ Out(p) /\ ~ t.accept /\ ~ t.clearToForward
  /\ \A q \in Players \ {p} : played'[q] = played[q]
  /\ played'[p] = played[p] \/ t.state = "gone"

LEMMA FirstOut ==
  ASSUME NEW h, Before(h), NEW p, NEW t, Step(p, t), GoesOut(p, t), OnlyOneOut'
  PROVE  /\ \A q \in Players : ~ Out(q) /\ (Out(q)' <=> q = p)
         /\ Ins = Players /\ Others = {} /\ Ins' = Players \ {p} /\ Others' \in SUBSET {p}
         /\ \A q \in Players : \A x \in Ins' \cup Others' : played'[x][q] = played[x][q]
         /\ Back(h)
         /\ \A m \in net : Fresh(m)' => Fresh(m) /\ FromHead(h, m) /\ m.to # p
<1>1. RingInv /\ OnlyOneOut /\ h \in Players /\ p \in Players /\ BackOK(h) /\ FreshOK(h)
  BY DEF Before, RingAt, Step
<1>2. /\ status'[p] = t /\ \A q \in Players : q # p => status'[q] = status[q]
      /\ \A q \in Players \ {p} : Out(q)' <=> Out(q)
      /\ Out(p)'
      /\ \A q \in Players : Out(q) => Out(q)'
  <2>1. ~ t.accept
    BY DEF GoesOut
  <2> QED BY <1>1, <2>1, Steps
<1>3. \A q \in Players : ~ Out(q) /\ (Out(q)' <=> q = p)
  <2>1. \A q \in Players : Out(q)' => q = p
    BY <1>1, <1>2 DEF OnlyOneOut
  <2> QED BY <1>2, <2>1 DEF GoesOut
<1>4. Ins = Players /\ Others = {} /\ Ins' = Players \ {p} /\ Others' \in SUBSET {p}
  BY <1>3 DEF Ins, Others
<1>5. p \in Others' => t.state # "gone"
  BY <1>2 DEF Others
<1>6. \A q \in Players : \A x \in Ins' \cup Others' : played'[x][q] = played[x][q]
  BY <1>4, <1>5 DEF GoesOut
<1>7. Back(h)
  BY <1>1, <1>4 DEF BackOK
<1>8. ASSUME NEW m \in net, Fresh(m)'
      PROVE  Fresh(m) /\ FromHead(h, m) /\ m.to # p
  <2>1. m.to \in Players /\ m.from \in Players
    BY <1>1, Message
  <2>2. m.to # p
    BY <1>2, <1>8 DEF Fresh
  <2>3. Fresh(m)
    BY <1>2, <1>3, <1>8, <2>1, <2>2 DEF Fresh
  <2>4. ~ FromOut(h, m)
    BY <1>3, <2>1 DEF FromOut
  <2> QED BY <1>1, <2>2, <2>3, <2>4 DEF FreshOK
<1> QED BY <1>3, <1>4, <1>6, <1>7, <1>8

\* A player that has not got the packet.
LEMMA OtherGoesOut ==
  ASSUME NEW h, Before(h), NEW p, NEW t, Step(p, t), GoesOut(p, t), OnlyOneOut', p # h,
         \A m1, m2 \in net' \ net : m1.tag # "ack" /\ m2.tag # "ack" => m1 = m2,
         \A m \in net' : \/ m \in net \/ m.tag = "ack" \/ FromOut(h, m)'
  PROVE  RingAt(h)'
<1>1. /\ RingInv /\ OnlyOneOut /\ Linked /\ h \in Players /\ p \in Players
      /\ HeadOK(h) /\ Ahead(h) /\ TokenOK(h) /\ BackOK(h) /\ FreshOK(h)
  BY DEF Before, RingAt, Step
<1>2. /\ status'[p] = t /\ \A q \in Players : q # p => status'[q] = status[q]
      /\ \A q \in Players : Started(q) => Started(q)'
  BY <1>1, Steps
<1>3. /\ \A q \in Players : ~ Out(q) /\ (Out(q)' <=> q = p)
      /\ Ins = Players /\ Others = {} /\ Ins' = Players \ {p} /\ Others' \in SUBSET {p}
      /\ \A q \in Players : \A x \in Ins' \cup Others' : played'[x][q] = played[x][q]
      /\ Back(h)
      /\ \A m \in net : Fresh(m)' => Fresh(m) /\ FromHead(h, m) /\ m.to # p
  BY FirstOut
<1>4. HeadOK(h)'
  <2>1. \A q \in Players : Waiting(q)' => Waiting(q)
    BY <1>2 DEF Waiting, GoesOut
  <2> QED BY <1>1, <1>2, <1>3, <2>1, Ring DEF HeadOK
<1>5. Ahead(h)'
  <2> SUFFICES ASSUME NEW q \in Players \ {h, p}, HasSent(q)'
               PROVE  status'[q].lastValid < (status'[NextIn(q)'].lastValid)
    BY <1>3 DEF Ahead
  <2>1. status'[q] = status[q] /\ HasSent(q) /\ Next_(q) \in Players /\ NextIn(q) = Next_(q)
    BY <1>2, <1>3, Neighbours DEF HasSent, NextIn
  <2>2. status[q].lastValid < status[Next_(q)].lastValid
    BY <1>1, <1>3, <2>1 DEF Ahead
  <2>3. CASE Next_(q) # p
    <3>1. NextIn(q)' = Next_(q)
      BY <1>3, <2>1, <2>3 DEF NextIn
    <3> QED BY <1>2, <2>1, <2>2, <2>3, <3>1
  <2>4. CASE Next_(q) = p
    <3>1. NextIn(q)' = Next_(p) /\ Next_(p) \in Players /\ Next_(p) # p /\ NextIn(p) = Next_(p)
      BY <1>1, <1>3, <2>4, Neighbours DEF NextIn
    <3>2. /\ status[q].lastValid \in Nat /\ status[p].lastValid \in Nat
          /\ status[Next_(p)].lastValid \in Nat
      BY <1>1, <3>1, Player
    <3>3. status[p].lastValid > 0
      BY <2>2, <2>4, <3>2
    <3>4. status[p].lastValid < status[Next_(p)].lastValid
      BY <1>1, <1>3, <3>1, <3>3 DEF Ahead, HasSent
    <3>5. status'[Next_(p)] = status[Next_(p)]
      BY <1>2, <3>1
    <3> QED BY <2>1, <2>2, <2>4, <3>1, <3>2, <3>4, <3>5
  <2> QED BY <2>3, <2>4
<1>6. /\ status'[h] = status[h] /\ Token(h)' = Token(h) /\ (Waiting(h)' <=> Waiting(h))
      /\ Token(h) \in PacketSet /\ Token(h).dead = {}
  BY <1>1, <1>2, <1>3, Player DEF Token, Waiting, Back
<1>7. TokenOK(h)'
  <2>1. \A q \in Players : Having(q, h)' = Having(q, h)
    BY <1>6 DEF Having, Reached, Dist
  <2>2. ASSUME NEW q \in Players
        PROVE  StreamOf(Token(h), Having(q, h), q, Players \ {p}, Others', played')
    <3>1. StreamOf(Token(h), Having(q, h), q, Players, {}, played)
      BY <1>1, <1>3 DEF TokenOK
    <3>2. /\ Players \ {p} \in SUBSET Players /\ {} \in SUBSET Players
          /\ Others' \in SUBSET ({} \cup (Players \ (Players \ {p})))
      BY <1>1, <1>3
    <3>3. played \in PlayedSet /\ played' \in PlayedSet
      BY <1>1 DEF Linked, Step
    <3>4. \A x \in (Players \ {p}) \cup Others' : played'[x][q] = played[x][q]
      BY <1>3
    <3>5. q \notin Token(h).dead
      BY <1>6
    <3> QED BY <1>6, <3>1, <3>2, <3>3, <3>4, <3>5, StreamKept
  <2>3. Quiet(Token(h)) /\ (Waiting(h) => Token(h).type = "normal")
    BY <1>1 DEF TokenOK
  <2>4. Quiet(Token(h))'
    BY <1>6, <2>3 DEF Quiet
  <2> QED BY <1>3, <1>6, <2>1, <2>2, <2>3, <2>4 DEF TokenOK
<1>8. BackOK(h)'
  BY <1>1, <1>3 DEF BackOK
<1>9. ASSUME NEW m \in net', Fresh(m)'
      PROVE  \/ m \in net /\ FromHead(h, m)' /\ ~ Out(m.from)'
             \/ m \in net' \ net /\ m.tag # "ack" /\ FromOut(h, m)'
  <2>1. CASE m \in net
    <3>1. FromHead(h, m)
      BY <1>3, <1>9, <2>1
    <3> QED BY <1>1, <1>3, <1>6, <2>1, <3>1 DEF FromHead
  <2>2. CASE m \notin net
    BY <1>9, <2>2 DEF Fresh
  <2> QED BY <2>1, <2>2
<1>10. FreshOK(h)'
  <2>1. \A m \in net' : Fresh(m)' => FromHead(h, m)' \/ FromOut(h, m)'
    BY <1>9
  <2>2. \A m1, m2 \in net' :
          Fresh(m1)' /\ Fresh(m2)' /\ Out(m1.from)' /\ Out(m2.from)' => m1.seq = m2.seq
    BY <1>9
  <2> QED BY <2>1, <2>2 DEF FreshOK
<1> QED BY <1>4, <1>5, <1>7, <1>8, <1>10 DEF RingAt

\* The player that has it: the one before has sent it the same.
LEMMA HeadGoesOut ==
  ASSUME NEW h, Before(h), NEW t, Step(h, t), GoesOut(h, t), OnlyOneOut', Started(h),
         t.state = "gone" \/ (~ Waiting(h) /\ status[h].ringFrame.type = "unsync"),
         net' = net
  PROVE  RingAt(Previous(h))'
<1> DEFINE b == Previous(h)
<1>1. /\ RingInv /\ OnlyOneOut /\ Linked /\ h \in Players
      /\ HeadOK(h) /\ Ahead(h) /\ TokenOK(h) /\ BackOK(h) /\ FreshOK(h)
  BY DEF Before, RingAt
<1>2. b \in Players /\ b # h /\ Next_(b) = h
  BY <1>1, Neighbours, ReachedIs
<1>3. /\ status'[h] = t /\ \A q \in Players : q # h => status'[q] = status[q]
      /\ \A q \in Players : Started(q) => Started(q)'
  BY <1>1, Steps
<1>4. /\ \A q \in Players : ~ Out(q) /\ (Out(q)' <=> q = h)
      /\ Ins = Players /\ Others = {} /\ Ins' = Players \ {h} /\ Others' \in SUBSET {h}
      /\ \A q \in Players : \A x \in Ins' \cup Others' : played'[x][q] = played[x][q]
      /\ Back(h)
      /\ \A m \in net : Fresh(m)' => Fresh(m) /\ FromHead(h, m) /\ m.to # h
  BY FirstOut
<1>5. status'[b] = status[b] /\ ~ Waiting(b)
  BY <1>1, <1>2, <1>3 DEF HeadOK
<1>6. Token(b)' = status[b].ringFrame /\ ~ Waiting(b)'
  BY <1>5 DEF Token, Waiting
<1>7. /\ status[b].ringFrame \in PacketSet /\ status[b].ringFrame.dead = {}
      /\ Quiet(status[b].ringFrame) /\ Token(h).dead = {}
      /\ \A q \in Players :
           StreamOf(status[b].ringFrame, Reached(q, b), q, Players \ {h}, {h}, played)
      /\ \A q \in Players \ {h} : Token(h).flags[q] = status[b].ringFrame.flags[q]
  BY <1>1, <1>2, <1>4, Player DEF Back
<1>8. played \in PlayedSet /\ played' \in PlayedSet
  BY <1>1 DEF Linked, Step
<1> HIDE DEF b
<1>9. HeadOK(b)'
  <2>1. \A q \in Players : ~ Waiting(q)'
    BY <1>1, <1>3 DEF HeadOK, GoesOut, Waiting
  <2>2. Started(Server)'
    BY <1>1, <1>3, Ring DEF HeadOK
  <2> QED BY <1>2, <1>4, <2>1, <2>2 DEF HeadOK
<1>10. Ahead(b)'
  <2> SUFFICES ASSUME NEW q \in Players \ {h, b}, HasSent(q)'
               PROVE  status'[q].lastValid < (status'[NextIn(q)'].lastValid)
    BY <1>4 DEF Ahead
  <2>1. status'[q] = status[q] /\ HasSent(q) /\ Next_(q) \in Players /\ NextIn(q) = Next_(q)
    BY <1>3, <1>4, Neighbours DEF HasSent, NextIn
  <2>2. Next_(q) # h
    BY <1>1, ReachedIs DEF b
  <2>3. NextIn(q)' = Next_(q) /\ status'[Next_(q)] = status[Next_(q)]
    BY <1>3, <1>4, <2>1, <2>2 DEF NextIn
  <2>4. status[q].lastValid < status[Next_(q)].lastValid
    BY <1>1, <1>4, <2>1 DEF Ahead
  <2> QED BY <2>1, <2>3, <2>4
<1>11. TokenOK(b)'
  <2>1. \A q \in Players : Having(q, b)' = Reached(q, b)
    BY <1>6 DEF Having, Reached, Dist
  <2>2. ASSUME NEW q \in Players
        PROVE  StreamOf(status[b].ringFrame, Reached(q, b), q, Players \ {h}, Others', played')
    <3>1. StreamOf(status[b].ringFrame, Reached(q, b), q, Players \ {h}, {h}, played)
      BY <1>7
    <3>2. /\ Players \ {h} \in SUBSET Players /\ {h} \in SUBSET Players
          /\ Players \ {h} \in SUBSET (Players \ {h})
          /\ Others' \in SUBSET ({h} \cup ((Players \ {h}) \ (Players \ {h})))
          /\ Others' \subseteq {h}
      BY <1>1, <1>4
    <3>3. \A x \in (Players \ {h}) \cup Others' : played'[x][q] = played[x][q]
      BY <1>4
    <3> QED BY <1>7, <1>8, <3>1, <3>2, <3>3, StreamKept
  <2>3. Quiet(Token(b))'
    BY <1>6, <1>7 DEF Quiet
  <2> QED BY <1>4, <1>6, <1>7, <2>1, <2>2, <2>3 DEF TokenOK
<1>12. BackOK(b)'
  BY <1>1, <1>4 DEF BackOK
<1>13. \A p1, p2 \in Players : ~ Waiting(h) => played[p1][h] = played[p2][h]
  <2> SUFFICES ASSUME ~ Waiting(h) PROVE \A p1, p2 \in Players : played[p1][h] = played[p2][h]
    OBVIOUS
  <2>1. Having(h, h) = {}
    BY <1>1, ReachedIs DEF Having
  <2>2. StreamOf(Token(h), {}, h, Players, {}, played)
    BY <1>1, <1>4, <2>1 DEF TokenOK
  <2>3. Token(h) \in PacketSet /\ h \notin Token(h).dead
    BY <1>1, <1>7, Player DEF Token
  <2>4. {} \in SUBSET Players /\ Players \in SUBSET Players /\ \A p \in Players : p \notin {}
    OBVIOUS
  <2>5. \A rest \in SUBSET Players : StreamOf(Token(h), {}, h, Players, rest, played) =>
          \A p1, p2 \in Players : played[p1][h] = played[p2][h]
    BY <1>1, <1>8, <2>3, <2>4, StreamSame
  <2> QED BY <2>2, <2>4, <2>5
<1>14. ASSUME NEW m \in net', Fresh(m)' PROVE FromOut(b, m)' /\ m.seq = status[h].lastValid + 1
  <2>1. /\ m \in net /\ m.from = h /\ m.to = status[h].upring /\ ~ Waiting(h)
        /\ m.seq = status[h].lastValid + 1 /\ m.packet = status[h].ringFrame
        /\ m.packet = Token(h)
    BY <1>4, <1>14 DEF FromHead, Token
  <2>2. m.to = Next_(h)
    <3>1. InGame(h)
      BY <1>1, <1>4, InRing
    <3>2. Next_(h) \in Players
      BY <1>1, Neighbours
    <3> QED BY <1>1, <1>4, <2>1, <3>1, <3>2 DEF Linked, PlayerInRing
  <2>3. m.seq > status'[b].lastValid
    <3>1. status[b].lastValid \in Nat /\ status[h].lastValid \in Nat
      BY <1>1, <1>2, Player
    <3>2. NextIn(b) = h
      BY <1>1, <1>2, <1>4 DEF NextIn
    <3>3. status[b].lastValid > 0 => status[b].lastValid < status[h].lastValid
      BY <1>1, <1>2, <1>4, <3>2 DEF Ahead, HasSent
    <3> QED BY <1>5, <2>1, <3>1, <3>3
  <2>4. t.state = "gone" => LastWords(b, h, m.packet)'
    <3>1. Quiet(m.packet)'
      BY <1>1, <2>1 DEF TokenOK, Quiet
    <3>2. \A p1, p2 \in Ins' : played'[p1][h] = played'[p2][h]
      BY <1>1, <1>4, <1>13, <2>1
    <3> QED BY <1>3, <1>1, <1>6, <1>7, <2>1, <3>1, <3>2 DEF LastWords
  <2> QED BY <1>1, <1>2, <1>4, <1>6, <2>1, <2>2, <2>3, <2>4 DEF FromOut
<1>15. FreshOK(b)'
  BY <1>14 DEF FreshOK
<1> QED BY <1>9, <1>10, <1>11, <1>12, <1>15 DEF RingAt, b
\* A packet that player p takes.
Taken(p, m) ==
  /\ m \in net /\ m.to = p /\ ForMe(p, m) /\ InGame(p) /\ status[p].accept
  /\ KnownSource(p, m) /\ IsNew(p, m)

LEMMA TakenIsFresh ==
  ASSUME NEW h, Before(h), NEW p \in Players, NEW m, Taken(p, m)
  PROVE  /\ Fresh(m) /\ ~ Out(p) /\ Started(p)
         /\ FromHead(h, m) \/ FromOut(h, m)
<1>1. RingInv /\ OnlyOneOut /\ Linked /\ h \in Players /\ FreshOK(h)
  BY DEF Before, RingAt
<1>2. /\ m \in net /\ m.to = p /\ m.tag # "ack" /\ m.from # p /\ InGame(p) /\ status[p].accept
      /\ m.tag = "change" \/ m.from = status[p].downring
      /\ m.seq > status[p].lastValid
  BY DEF Taken, ForMe, KnownSource, IsNew
<1>3. m.from \in Players
  BY <1>1, <1>2, Message
<1>4. ~ Out(p) /\ Started(p)
  BY <1>1, <1>2, InRing, Player
<1>5. Out(m.from) => m.tag # "change"
  BY <1>1, <1>2, ChangeFrom
<1>6. Fresh(m)
  BY <1>2, <1>4, <1>5 DEF Fresh
<1> QED BY <1>1, <1>2, <1>4, <1>6 DEF FreshOK

\* Where what comes from h arrives.
LEMMA HeadSendsTo ==
  ASSUME NEW h, Before(h), NEW m \in net, m.tag # "ack", FromHead(h, m)
  PROVE  /\ m.to = Next_(h) \/ (Out(Next_(h)) /\ m.to = Next_(Next_(h)))
         /\ ~ Out(m.to) => m.to = NextIn(h)
<1>1. RingInv /\ OnlyOneOut /\ Linked /\ h \in Players /\ HeadOK(h)
  BY DEF Before, RingAt
<1>2. m.from = h /\ m.to = status[h].upring
  BY DEF FromHead
<1>3. InGame(h)
  BY <1>1, <1>2, RingMessages, InRing DEF HeadOK
<1>4. m.to = Next_(h) \/ (Out(Next_(h)) /\ m.to = Next_(Next_(h)))
  BY <1>1, <1>2, <1>3 DEF Linked, PlayerInRing
<1> QED BY <1>4 DEF NextIn

LEMMA Arrives ==
  ASSUME NEW h, Before(h), NEW p \in Players, NEW m, Taken(p, m), m.packet.type # "unsync"
  PROVE  /\ p = NextIn(h) /\ ~ Waiting(h) /\ m.seq > status[h].lastValid
         /\ m.packet \in PacketSet /\ Quiet(m.packet)
         /\ \A q \in m.packet.dead : Out(q)
         /\ \A q \in Players :
              StreamOf(m.packet, Reached(q, Previous(p)), q, Ins, Others, played)
         /\ FromHead(h, m) => /\ h # p /\ m.packet = status[h].ringFrame
                              /\ ~ Out(Next_(h)) => p = Next_(h)
<1>1. /\ RingInv /\ OnlyOneOut /\ Linked /\ h \in Players
      /\ HeadOK(h) /\ TokenOK(h) /\ FreshOK(h)
  BY DEF Before, RingAt
<1>2. Fresh(m) /\ ~ Out(p) /\ Started(p) /\ (FromHead(h, m) \/ FromOut(h, m))
  BY TakenIsFresh
<1>3. m \in net /\ m.to = p /\ m.tag # "ack" /\ m.from # p
  BY DEF Taken, ForMe
<1>4. m.packet \in PacketSet /\ m.from \in Players /\ m.seq \in Nat
  BY <1>1, <1>3, Message
<1>5. status[h].lastValid \in Nat /\ Token(h) \in PacketSet
  BY <1>1, Player DEF Token
<1>6. played \in PlayedSet /\ Ins \in SUBSET Players /\ Others \in SUBSET Players
  BY <1>1 DEF Linked, Ins, Others
<1>7. Next_(h) \in Players /\ Next_(Next_(h)) \in Players /\ Previous(p) \in Players
  BY <1>1, Neighbours
\* The player that is skipped does not count.
<1>8. ASSUME NEW q \in Players, ~ Waiting(h)
      PROVE  StreamOf(Token(h), Reached(q, h), q, Ins, Others, played)
  BY <1>1, <1>8 DEF TokenOK, Having
<1>9. ASSUME NEW g \in Players, g = Next_(h), Out(g), NEW q \in Players, q # g
      PROVE  \A x \in Ins : x \in Reached(q, g) <=> x \in Reached(q, h)
  <2>1. Reached(q, g) = Reached(q, h) \cup {g}
    <3>1. Previous(g) = h
      BY <1>1, <1>9, ReachedIs
    <3> QED BY <1>9, <3>1, ReachedIs
  <2> QED BY <1>9, <2>1 DEF Ins
<1>10. CASE FromHead(h, m)
  <2>1. /\ m.from = h /\ ~ Waiting(h) /\ m.seq = status[h].lastValid + 1
        /\ m.packet = status[h].ringFrame /\ m.packet = Token(h)
    BY <1>10 DEF FromHead, Token
  <2>2. /\ p = Next_(h) \/ (Out(Next_(h)) /\ p = Next_(Next_(h)))
        /\ p = NextIn(h)
    BY <1>2, <1>3, <1>10, HeadSendsTo
  <2>3. /\ Quiet(m.packet) /\ \A q \in m.packet.dead : Out(q)
    BY <1>1, <2>1 DEF TokenOK
  <2>4. ASSUME NEW q \in Players
        PROVE  StreamOf(m.packet, Reached(q, Previous(p)), q, Ins, Others, played)
    <3>1. StreamOf(m.packet, Reached(q, h), q, Ins, Others, played)
      BY <1>8, <2>1
    <3>2. CASE p = Next_(h)
      <4>1. Previous(p) = h
        BY <1>1, <3>2, ReachedIs
      <4> QED BY <3>1, <4>1
    <3>3. CASE Out(Next_(h)) /\ p = Next_(Next_(h))
      <4> DEFINE g == Next_(h)
      <4>1. Previous(p) = g /\ g \in Players /\ Out(g)
        BY <1>1, <1>7, <3>3, ReachedIs
      <4> HIDE DEF g
      <4>2. CASE q # g \/ q \in m.packet.dead
        <5>1. q \in m.packet.dead \/ \A x \in Ins : x \in Reached(q, g) <=> x \in Reached(q, h)
          BY <1>9, <4>1, <4>2 DEF g
        <5>2. Ins \in SUBSET Ins /\ Others \in SUBSET (Others \cup (Ins \ Ins))
          OBVIOUS
        <5>3. StreamOf(m.packet, Reached(q, g), q, Ins, Others, played)
          BY <1>4, <1>6, <3>1, <5>1, <5>2, StreamKept
        <5> QED BY <4>1, <5>3
      <4>3. CASE q = g /\ q \notin m.packet.dead
        <5>1. Previous(g) = h
          BY <1>1, ReachedIs DEF g
        <5>2. Reached(g, h) = Players \ {g} /\ Reached(g, g) = {}
          BY <4>1, <5>1, ReachedIs
        <5>3. Ins \subseteq Reached(q, h) /\ \A x \in Ins : x \notin Reached(q, g)
          BY <4>1, <4>3, <5>2 DEF Ins
        <5>4. StreamOf(m.packet, Reached(q, g), q, Ins, Others, played)
          BY <1>4, <1>6, <3>1, <4>3, <5>3, StreamRenewed
        <5> QED BY <4>1, <5>4
      <4> QED BY <4>2, <4>3
    <3> QED BY <2>2, <3>2, <3>3
  <2> QED BY <1>3, <1>4, <1>5, <2>1, <2>2, <2>3, <2>4
<1>11. CASE ~ FromHead(h, m) /\ FromOut(h, m)
  <2> DEFINE g == m.from
  <2>1. /\ Out(g) /\ Next_(h) = g /\ p = Next_(g) /\ ~ Waiting(h) /\ m.seq > status[h].lastValid
        /\ LastWords(h, g, m.packet)
    BY <1>3, <1>11 DEF FromOut
  <2>2. /\ status[g].state = "gone" /\ m.packet.dead = {} /\ Quiet(m.packet)
        /\ \A q \in Players \ {g} : m.packet.flags[q] = Token(h).flags[q]
        /\ \A p1, p2 \in Ins : played[p1][g] = played[p2][g]
    BY <2>1 DEF LastWords
  <2> HIDE DEF g
  <2>3. g \in Players
    BY <1>4 DEF g
  <2>4. p = NextIn(h) /\ Previous(p) = g
    BY <2>1, <2>3, ReachedIs DEF NextIn
  <2>5. ASSUME NEW q \in Players
        PROVE  StreamOf(m.packet, Reached(q, g), q, Ins, Others, played)
    <3>1. CASE q = g
      <4>1. Others = {}
        BY <1>1, <2>1, <2>2, <2>3 DEF Others, OnlyOneOut
      <4>2. Reached(q, g) = {} /\ q \notin m.packet.dead
        BY <2>2, <2>3, <3>1, ReachedIs
      <4>3. \A p1, p2 \in Ins : played[p1][q] = played[p2][q]
        BY <2>2, <3>1
      <4>4. StreamOf(m.packet, Reached(q, g), q, Ins, {}, played)
        BY <1>4, <1>6, <4>2, <4>3, StreamSame
      <4> QED BY <4>1, <4>4
    <3>2. CASE q # g
      <4>1. StreamOf(Token(h), Reached(q, h), q, Ins, Others, played)
        BY <1>8, <2>1
      <4>2. \A x \in Ins : x \in Reached(q, g) <=> x \in Reached(q, h)
        BY <1>9, <2>1, <2>3, <3>2
      <4>3. q \notin Token(h).dead /\ q \notin m.packet.dead
        <5>1. ~ Out(q)
          BY <1>1, <2>1, <2>3, <3>2 DEF OnlyOneOut
        <5> QED BY <1>1, <2>2, <5>1 DEF TokenOK
      <4>4. m.packet.flags[q] = Token(h).flags[q]
        BY <2>2, <3>2
      <4>5. Ins \in SUBSET Ins /\ Others \in SUBSET (Others \cup (Ins \ Ins))
        OBVIOUS
      <4> QED BY <1>4, <1>5, <1>6, <4>1, <4>2, <4>3, <4>4, <4>5, StreamKept
    <3> QED BY <3>1, <3>2
  <2> QED BY <1>4, <1>11, <2>1, <2>2, <2>4, <2>5
<1> QED BY <1>2, <1>10, <1>11
\* Player p takes the words of all from m, and has the packet: it passes it on with its
\* own new words, or keeps it to do so later.
Held(t) == IF t.clearToForward THEN t.buffer ELSE t.ringFrame

Moves(p, m, t) ==
  /\ t.accept /\ t.lastValid = m.seq /\ t.downring = m.from /\ t.state # "gone"
  /\ t.upring = status[p].upring
  /\ \A q \in Players \ {p} : played'[q] = played[q]
  /\ \A q \in Players :
       IF q \in m.packet.dead THEN \E k \in Nat : played'[p][q] = played[p][q] \o DeadFor(k)
       ELSE played'[p][q] = played[p][q] \o m.packet.flags[q]
  /\ Held(t).dead = m.packet.dead \ {p} /\ Quiet(Held(t))
  /\ \A q \in Players \ {p} : Held(t).flags[q] = m.packet.flags[q]
  /\ t.clearToForward => Held(t).type = "normal" /\ Held(t).flags[p] = m.packet.flags[p]
  /\ \A x \in net' :
       \/ x \in net \/ x.tag = "ack"
       \/ /\ x.from = p /\ x.to = t.upring /\ ~ t.clearToForward
          /\ x.seq = t.lastValid + 1 /\ x.packet = t.ringFrame

LEMMA MovesStep ==
  ASSUME NEW h, Before(h), NEW p, NEW m, Taken(p, m), m.packet.type # "unsync",
         NEW t, Step(p, t), Moves(p, m, t)
  PROVE  RingAt(p)'
<1>1. /\ RingInv /\ OnlyOneOut /\ Linked /\ h \in Players /\ p \in Players
      /\ HeadOK(h) /\ Ahead(h) /\ TokenOK(h) /\ BackOK(h) /\ FreshOK(h)
  BY DEF Before, RingAt, Step
<1>2. /\ status'[p] = t /\ \A q \in Players : q # p => status'[q] = status[q]
      /\ \A q \in Players \ {p} : (Out(q)' <=> Out(q))
      /\ ~ Out(p)' /\ t.downring = m.from
      /\ \A q \in Players : Started(q) => Started(q)'
  <2>1. t.accept /\ t.downring = m.from
    BY DEF Moves
  <2> QED BY <1>1, <2>1, Steps
<1>3. /\ m \in net /\ m.to = p /\ m.tag # "ack" /\ m.from # p /\ m.from \in Players
      /\ m.seq \in Nat /\ status[p].lastValid \in Nat /\ m.seq > status[p].lastValid
  BY <1>1, Message, Player DEF Taken, ForMe, IsNew
<1>4. Fresh(m) /\ ~ Out(p) /\ Started(p) /\ (FromHead(h, m) \/ FromOut(h, m))
  BY <1>1, TakenIsFresh
<1>5. /\ p = NextIn(h) /\ ~ Waiting(h) /\ m.seq > status[h].lastValid
      /\ m.packet \in PacketSet /\ Quiet(m.packet)
      /\ \A q \in m.packet.dead : Out(q)
      /\ \A q \in Players :
           StreamOf(m.packet, Reached(q, Previous(p)), q, Ins, Others, played)
      /\ FromHead(h, m) => /\ h # p /\ m.packet = status[h].ringFrame
                           /\ ~ Out(Next_(h)) => p = Next_(h)
  BY <1>1, Arrives
<1>6. /\ \A q \in Players : Out(q)' <=> Out(q)
      /\ Ins' = Ins /\ Others' = Others /\ p \in Ins /\ p \notin Others
      /\ Ins \in SUBSET Players /\ Others \in SUBSET Players
  <2>1. \A q \in Players : Out(q)' <=> Out(q)
    BY <1>2, <1>4
  <2>2. Ins' = Ins
    BY <2>1 DEF Ins
  <2>3. Others' = Others
    BY <1>2, <1>4, <2>1 DEF Others
  <2> QED BY <1>1, <1>4, <2>1, <2>2, <2>3 DEF Ins, Others
<1>7. \A q \in Players : NextIn(q)' = NextIn(q) /\ Next_(q) \in Players
  BY <1>6, Neighbours DEF NextIn
<1>8. played \in PlayedSet /\ played' \in PlayedSet
  BY <1>1 DEF Linked, Step
<1>9. /\ Token(p)' = Held(t) /\ Held(t) \in PacketSet /\ (Waiting(p)' <=> t.clearToForward)
      /\ Held(t).dead = m.packet.dead /\ m.packet.dead \subseteq Players
  <2>1. t \in StatusSet /\ p \notin m.packet.dead
    BY <1>4, <1>5 DEF Step
  <2>2. t.buffer \in PacketSet /\ t.ringFrame \in PacketSet
    BY <2>1 DEF StatusSet
  <2>3. Held(t).dead = m.packet.dead /\ m.packet.dead \subseteq Players
    BY <1>5, <2>1 DEF Moves, PacketSet
  <2> QED BY <1>2, <2>2, <2>3 DEF Token, Held, Waiting
<1>10. ASSUME NEW q \in Players
       PROVE  StreamOf(m.packet, Reached(q, Previous(p)) \cup {p}, q, Ins, Others, played')
  <2>1. StreamOf(m.packet, Reached(q, Previous(p)), q, Ins, Others, played)
    BY <1>5
  <2>2. p \notin Reached(q, Previous(p))
    BY <1>1, ReachedIs
  <2>3. /\ q \in m.packet.dead => \E k \in Nat : played'[p][q] = played[p][q] \o DeadFor(k)
        /\ q \notin m.packet.dead => played'[p][q] = played[p][q] \o m.packet.flags[q]
        /\ \A x \in Players \ {p} : played'[x][q] = played[x][q]
    BY DEF Moves
  <2>4. m.packet \in PacketSet
    BY <1>5
  <2> QED BY <1>6, <1>8, <2>1, <2>2, <2>3, <2>4, StreamTaken
<1>11. HeadOK(p)'
  <2>1. \A q \in Players : Waiting(q)' => q = p
    BY <1>1, <1>2, <1>5 DEF Waiting, HeadOK
  <2>2. Started(Server)'
    BY <1>1, <1>2, <1>3, RingMessages, Ring
  <2> QED BY <1>1, <1>2, <2>1, <2>2 DEF HeadOK
<1>12. Ahead(p)'
  <2> SUFFICES ASSUME NEW q \in Ins \ {p}, HasSent(q)'
               PROVE  status'[q].lastValid < status'[NextIn(q)].lastValid
    BY <1>6, <1>7 DEF Ahead, Ins
  <2>1. /\ q \in Players /\ ~ Out(q) /\ NextIn(q) \in Players
        /\ status'[q] = status[q] /\ HasSent(q)
    BY <1>1, <1>2, NextInIs DEF Ins, HasSent
  <2>2. /\ status[q].lastValid \in Nat /\ status[NextIn(q)].lastValid \in Nat
        /\ status'[p].lastValid = m.seq
    BY <1>1, <1>2, <2>1, Player DEF Moves
  <2>3. q # h => status[q].lastValid < status[NextIn(q)].lastValid
    BY <1>1, <2>1 DEF Ahead
  <2>4. CASE NextIn(q) = p
    BY <1>3, <1>5, <2>1, <2>2, <2>3, <2>4
  <2>5. CASE NextIn(q) # p
    BY <1>2, <1>5, <2>1, <2>3, <2>5
  <2> QED BY <2>4, <2>5
<1>13. TokenOK(p)'
  <2>1. \A q \in Players : Having(q, p)' = IF q = p /\ t.clearToForward THEN Players ELSE Reached(q, p)
    BY <1>9 DEF Having, Reached, Dist
  <2>2. ASSUME NEW q \in Players, q # p
        PROVE  StreamOf(Held(t), Reached(q, p), q, Ins, Others, played')
    <3>1. StreamOf(m.packet, Reached(q, p), q, Ins, Others, played')
      <4>1. Reached(q, p) = Reached(q, Previous(p)) \cup {p}
        BY <1>1, <2>2, ReachedIs
      <4> QED BY <1>10, <4>1
    <3>2. Ins \in SUBSET Ins /\ Others \in SUBSET (Others \cup (Ins \ Ins))
      OBVIOUS
    <3>3. Held(t).flags[q] = m.packet.flags[q]
      BY <2>2 DEF Moves
    <3> QED BY <1>5, <1>6, <1>8, <1>9, <3>1, <3>2, <3>3, StreamKept
  <2>3. StreamOf(m.packet, Players, p, Ins, Others, played')
    <3>1. Reached(p, Previous(p)) \cup {p} = Players
      BY <1>1, ReachedIs
    <3> QED BY <1>1, <1>10, <3>1
  <2>4. p \notin m.packet.dead
    BY <1>4, <1>5
  <2>5. CASE t.clearToForward
    <3>1. StreamOf(Held(t), Players, p, Ins, Others, played')
      <4>1. Ins \in SUBSET Ins /\ Others \in SUBSET (Others \cup (Ins \ Ins))
        OBVIOUS
      <4>2. Held(t).flags[p] = m.packet.flags[p]
        BY <2>5 DEF Moves
      <4> QED BY <1>1, <1>5, <1>6, <1>8, <1>9, <2>3, <4>1, <4>2, StreamKept
    <3>2. \A q \in Players : StreamOf(Held(t), Having(q, p)', q, Ins, Others, played')
      BY <2>1, <2>2, <2>5, <3>1
    <3>3. Quiet(Held(t)) /\ Held(t).type = "normal"
      BY <2>5 DEF Moves
    <3>4. Quiet(Token(p))'
      BY <1>9, <3>3 DEF Quiet
    <3> QED BY <1>5, <1>6, <1>9, <3>2, <3>3, <3>4 DEF TokenOK
  <2>6. CASE ~ t.clearToForward
    <3>1. StreamOf(Held(t), Reached(p, p), p, Ins, Others, played')
      <4>1. Ins \subseteq Players /\ \A x \in Ins : x \notin Reached(p, p)
        BY <1>1, <1>6, ReachedIs
      <4> QED BY <1>1, <1>5, <1>6, <1>8, <1>9, <2>3, <2>4, <4>1, StreamRenewed
    <3>2. \A q \in Players : StreamOf(Held(t), Having(q, p)', q, Ins, Others, played')
      BY <2>1, <2>2, <2>6, <3>1
    <3>3. Quiet(Held(t))
      BY DEF Moves
    <3>4. Quiet(Token(p))'
      BY <1>9, <3>3 DEF Quiet
    <3> QED BY <1>5, <1>6, <1>9, <2>6, <3>2, <3>4 DEF TokenOK
  <2> QED BY <2>5, <2>6
<1>14. BackOK(p)'
  <2> SUFFICES ASSUME Ins = Players PROVE Back(p)'
    BY <1>6 DEF BackOK
  <2>1. \A q \in Players : ~ Out(q)
    BY DEF Ins
  <2>2. FromHead(h, m)
    BY <1>3, <1>4, <2>1 DEF FromOut
  <2>3. /\ h # p /\ m.packet = status[h].ringFrame /\ Previous(p) = h
    <3>1. p = Next_(h) /\ h # p /\ m.packet = status[h].ringFrame
      BY <1>1, <1>5, <1>7, <2>1, <2>2
    <3> QED BY <1>1, <3>1, ReachedIs
  <2>4. status'[h].ringFrame = m.packet
    BY <1>1, <1>2, <2>3
  <2>5. m.packet.dead = {}
    BY <1>5, <1>9, <2>1
  <2>6. ASSUME NEW q \in Players
        PROVE  StreamOf(m.packet, Reached(q, h), q, Players \ {p}, {p}, played')
    <3>1. StreamOf(m.packet, Reached(q, h) \cup {p}, q, Players, {}, played')
      <4>1. Others = {}
        BY <2>1 DEF Others
      <4> QED BY <1>10, <2>3, <4>1
    <3>2. /\ Players \ {p} \in SUBSET Players /\ {} \in SUBSET Players
          /\ {p} \in SUBSET ({} \cup (Players \ (Players \ {p})))
      BY <1>1
    <3>3. \A x \in Players \ {p} : x \in Reached(q, h) <=> x \in Reached(q, h) \cup {p}
      OBVIOUS
    <3>4. q \notin m.packet.dead /\ Players \in SUBSET Players
      BY <2>5
    <3> QED BY <1>5, <1>8, <3>1, <3>2, <3>3, <3>4, StreamKept
  <2>7. Quiet(status'[h].ringFrame)
    BY <1>5, <2>4
  <2>8. \A q \in Players \ {p} : Held(t).flags[q] = m.packet.flags[q]
    BY DEF Moves
  <2>9. \A q \in Players : Reached(q, h)' = Reached(q, h)
    BY DEF Reached, Dist
  <2> QED BY <1>9, <2>3, <2>4, <2>5, <2>6, <2>7, <2>8, <2>9 DEF Back, Quiet
<1>15. ASSUME NEW x \in net', Fresh(x)' PROVE FromHead(p, x)'
  <2>1. CASE x \notin net
    BY <1>2, <1>9, <1>15, <2>1 DEF Moves, Fresh, FromHead, Waiting
  <2>2. CASE x \in net
    <3>1. x.to \in Players /\ x.from \in Players /\ x.seq \in Nat /\ status[h].lastValid \in Nat
      BY <1>1, <2>2, Message, Player
    <3>2. /\ x.tag # "ack" /\ x.from # x.to /\ ~ Out(x.to) /\ x.seq > status'[x.to].lastValid
          /\ Out(x.from) /\ Started(x.to)' => status'[x.to].downring = x.from
      BY <1>6, <1>15, <3>1 DEF Fresh
    <3>3. x.to = p => x.seq > m.seq
      BY <1>2, <3>2 DEF Moves
    <3>4. Fresh(x)
      <4>1. x.seq > status[x.to].lastValid
        BY <1>2, <1>3, <3>1, <3>2, <3>3
      <4>2. ASSUME Out(x.from), Started(x.to) PROVE status[x.to].downring = x.from
        <5>1. CASE x.to # p
          BY <1>2, <3>1, <3>2, <4>2, <5>1
        <5>2. CASE x.to = p
          <6>1. x.from = m.from
            BY <1>2, <3>1, <3>2, <4>2, <5>2
          <6> QED BY <1>3, <1>4, <4>2, <5>2, <6>1 DEF Fresh
        <5> QED BY <5>1, <5>2
      <4> QED BY <3>2, <4>1, <4>2 DEF Fresh
    <3>5. CASE FromHead(h, x)
      <4>1. x.to = p
        BY <1>1, <1>5, <2>2, <3>2, <3>5, HeadSendsTo
      <4>2. x.seq = status[h].lastValid + 1
        BY <3>5 DEF FromHead
      <4> QED BY <1>3, <1>5, <3>1, <3>3, <4>1, <4>2
    <3>6. CASE FromOut(h, x)
      <4>1. Out(x.from) /\ Next_(h) = x.from /\ x.to = Next_(x.from)
        BY <3>6 DEF FromOut
      <4>2. x.to = p
        BY <1>5, <4>1 DEF NextIn
      <4>3. m.from = x.from
        BY <1>2, <1>4, <3>1, <3>2, <4>1, <4>2
      <4>4. x.seq = m.seq
        BY <1>1, <1>3, <1>4, <2>2, <3>4, <4>1, <4>3 DEF FreshOK
      <4> QED BY <1>3, <3>3, <4>2, <4>4
    <3> QED BY <1>1, <2>2, <3>4, <3>5, <3>6 DEF FreshOK
  <2> QED BY <2>1, <2>2
<1>16. FreshOK(p)'
  <2>1. \A x \in net' : FromHead(p, x)' => ~ Out(x.from)'
    BY <1>2 DEF FromHead
  <2> QED BY <1>15, <2>1 DEF FreshOK
<1> QED BY <1>11, <1>12, <1>13, <1>14, <1>16 DEF RingAt
\* The player that waits passes the packet on with its new words.
Forwards(h, t) ==
  /\ Waiting(h) /\ t.accept /\ ~ t.clearToForward
  /\ t.state = status[h].state /\ t.lastValid = status[h].lastValid
  /\ t.upring = status[h].upring /\ t.downring = status[h].downring
  /\ played' = played
  /\ t.ringFrame.dead = status[h].buffer.dead \ {h} /\ Quiet(t.ringFrame)
  /\ \A q \in Players \ {h} : t.ringFrame.flags[q] = status[h].buffer.flags[q]
  /\ \A x \in net' :
       \/ x \in net \/ x.tag = "ack"
       \/ x.from = h /\ x.to = t.upring /\ x.seq = t.lastValid + 1 /\ x.packet = t.ringFrame

LEMMA ForwardStep ==
  ASSUME NEW h, Before(h), NEW t, Step(h, t), Forwards(h, t)
  PROVE  RingAt(h)'
<1>1. /\ RingInv /\ OnlyOneOut /\ Linked /\ h \in Players
      /\ HeadOK(h) /\ Ahead(h) /\ TokenOK(h) /\ BackOK(h) /\ FreshOK(h) /\ ~ Out(h)
  BY DEF Before, RingAt, HeadOK
<1>2. /\ status'[h] = t /\ \A q \in Players : q # h => status'[q] = status[q]
      /\ \A q \in Players : Out(q)' <=> Out(q)
      /\ \A q \in Players : Started(q) => Started(q)'
  <2>1. t.accept
    BY DEF Forwards
  <2>2. /\ status'[h] = t /\ \A q \in Players : q # h => status'[q] = status[q]
        /\ \A q \in Players \ {h} : (Out(q)' <=> Out(q))
        /\ Out(h)' <=> ~ t.accept
        /\ \A q \in Players : Started(q) => Started(q)'
    BY <1>1, Steps
  <2> QED BY <1>1, <2>1, <2>2
<1>3. /\ Ins' = Ins /\ Others' = Others /\ Ins \in SUBSET Players /\ Others \in SUBSET Players
      /\ h \in Ins
  <2>1. \A q \in Players : status'[q].state = status[q].state
    BY <1>2 DEF Forwards
  <2> QED BY <1>1, <1>2, <2>1 DEF Ins, Others
<1>4. \A q \in Players : NextIn(q)' = NextIn(q) /\ Next_(q) \in Players
  BY <1>2, Neighbours DEF NextIn
<1>5. \A q \in Players : status'[q].lastValid = status[q].lastValid
  BY <1>2 DEF Forwards
<1>6. played' = played /\ played \in PlayedSet
  BY <1>1 DEF Linked, Forwards
<1> DEFINE old == status[h].buffer
           new == t.ringFrame
<1>7. /\ Token(h) = old /\ Token(h)' = new /\ Waiting(h) /\ ~ Waiting(h)'
      /\ old \in PacketSet /\ new \in PacketSet
  BY <1>1, <1>2, Player DEF Token, Waiting, Forwards, Step, StatusSet
<1>8. new.dead = old.dead /\ h \notin old.dead
  <2>1. h \notin old.dead
    BY <1>1, <1>7 DEF TokenOK
  <2> QED BY <1>7, <2>1 DEF Forwards, PacketSet
<1>9. \A q \in Players \ {h} : new.flags[q] = old.flags[q]
  BY DEF Forwards
<1>10. Quiet(new)
  BY DEF Forwards
<1> HIDE DEF old, new
<1>11. HeadOK(h)'
  <2>1. \A q \in Players : Waiting(q)' => q = h
    BY <1>1, <1>2 DEF Waiting, HeadOK
  <2> QED BY <1>1, <1>2, <2>1, Ring DEF HeadOK
<1>12. Ahead(h)'
  <2> SUFFICES ASSUME NEW q \in Ins \ {h}, HasSent(q)'
               PROVE  status'[q].lastValid < status'[NextIn(q)].lastValid
    BY <1>3, <1>4 DEF Ahead, Ins
  <2>1. q \in Players /\ NextIn(q) \in Players /\ HasSent(q)
    BY <1>1, <1>2, NextInIs DEF Ins, HasSent
  <2> QED BY <1>1, <1>5, <2>1 DEF Ahead
<1>13. TokenOK(h)'
  <2>1. \A q \in Players : Having(q, h)' = Reached(q, h)
    BY <1>7 DEF Having, Reached, Dist
  <2>2. ASSUME NEW q \in Players, q # h
        PROVE  StreamOf(new, Reached(q, h), q, Ins, Others, played)
    <3>1. StreamOf(old, Reached(q, h), q, Ins, Others, played)
      BY <1>1, <1>7, <2>2 DEF TokenOK, Having
    <3>2. Ins \in SUBSET Ins /\ Others \in SUBSET (Others \cup (Ins \ Ins))
      OBVIOUS
    <3> QED BY <1>3, <1>6, <1>7, <1>8, <1>9, <2>2, <3>1, <3>2, StreamKept
  <2>3. StreamOf(new, Reached(h, h), h, Ins, Others, played)
    <3>1. StreamOf(old, Players, h, Ins, Others, played)
      BY <1>1, <1>7 DEF TokenOK, Having
    <3>2. Ins \subseteq Players /\ \A x \in Ins : x \notin Reached(h, h)
      BY <1>1, <1>3, ReachedIs
    <3> QED BY <1>1, <1>3, <1>6, <1>7, <1>8, <3>1, <3>2, StreamRenewed
  <2>4. \A q \in new.dead : Out(q)
    BY <1>1, <1>7, <1>8 DEF TokenOK
  <2>5. new.dead \subseteq Players
    BY <1>7 DEF PacketSet
  <2>6. Quiet(Token(h))'
    BY <1>7, <1>10 DEF Quiet
  <2>7. \A q \in Players : StreamOf(new, Reached(q, h), q, Ins, Others, played)
    BY <2>2, <2>3
  <2> QED BY <1>2, <1>3, <1>6, <1>7, <2>1, <2>4, <2>5, <2>6, <2>7 DEF TokenOK
<1>14. BackOK(h)'
  <2> SUFFICES ASSUME Ins = Players PROVE Back(h)'
    BY <1>3 DEF BackOK
  <2>1. Back(h)
    BY <1>1 DEF BackOK
  <2>2. Previous(h) \in Players /\ Previous(h) # h
    <3>1. Previous(h) \in Players /\ Next_(Previous(h)) = h
      BY <1>1, Neighbours, ReachedIs
    <3> QED BY <3>1, Neighbours
  <2>3. status'[Previous(h)].ringFrame = status[Previous(h)].ringFrame
    BY <1>2, <2>2
  <2>4. Quiet(status[Previous(h)].ringFrame) => Quiet(status'[Previous(h)].ringFrame)
    BY <2>3
  <2>5. \A q \in Players : Reached(q, Previous(h))' = Reached(q, Previous(h))
    BY DEF Reached, Dist
  <2> QED BY <1>6, <1>7, <1>8, <1>9, <2>1, <2>3, <2>4, <2>5 DEF Back, Quiet
<1>15. ASSUME NEW x \in net', Fresh(x)' PROVE FromHead(h, x)'
  <2>1. CASE x \notin net
    BY <1>2, <1>7, <1>15, <2>1 DEF Forwards, Fresh, FromHead
  <2>2. CASE x \in net
    <3>1. x.to \in Players /\ x.from \in Players
      BY <1>1, <2>2, Message
    <3>2. \A q \in Players : status'[q].downring = status[q].downring
      BY <1>2 DEF Forwards
    <3>3. Fresh(x)
      BY <1>2, <1>5, <1>15, <3>1, <3>2 DEF Fresh
    <3> QED BY <1>1, <1>7, <2>2, <3>3 DEF FreshOK, FromHead, FromOut
  <2> QED BY <2>1, <2>2
<1>16. FreshOK(h)'
  <2>1. \A x \in net' : FromHead(h, x)' => ~ Out(x.from)'
    BY <1>1, <1>2 DEF FromHead
  <2> QED BY <1>15, <2>1 DEF FreshOK
<1> QED BY <1>11, <1>12, <1>13, <1>14, <1>16 DEF RingAt

\* The player that has sent the packet drops the one it sent it to.
Buries(h, t) ==
  LET g == Next_(h)
  IN  /\ Out(g) /\ status[h].upring = g /\ ~ Waiting(h)
      /\ t.accept /\ ~ t.clearToForward
      /\ t.state = status[h].state /\ t.lastValid = status[h].lastValid
      /\ t.downring = status[h].downring /\ t.upring = Next_(g)
      /\ t.ringFrame = Buried(status[h].ringFrame, g) /\ played' = played
      /\ \A x \in net' :
           \/ x \in net
           \/ x.from = h /\ x.to = t.upring /\ x.seq = t.lastValid + 1 /\ x.packet = t.ringFrame

LEMMA BuryStep ==
  ASSUME NEW h, Before(h), NEW t, Step(h, t), Buries(h, t),
         Next_(h) \notin status[h].ringFrame.dead
  PROVE  RingAt(h)'
<1> DEFINE g == Next_(h)
           old == status[h].ringFrame
           new == t.ringFrame
<1>1. /\ RingInv /\ OnlyOneOut /\ Linked /\ h \in Players
      /\ HeadOK(h) /\ Ahead(h) /\ TokenOK(h) /\ BackOK(h) /\ FreshOK(h) /\ ~ Out(h)
  BY DEF Before, RingAt, HeadOK
<1>2. /\ status'[h] = t /\ \A q \in Players : q # h => status'[q] = status[q]
      /\ \A q \in Players : Out(q)' <=> Out(q)
      /\ \A q \in Players : Started(q) => Started(q)'
  <2>1. t.accept
    BY DEF Buries
  <2>2. /\ status'[h] = t /\ \A q \in Players : q # h => status'[q] = status[q]
        /\ \A q \in Players \ {h} : (Out(q)' <=> Out(q))
        /\ Out(h)' <=> ~ t.accept
        /\ \A q \in Players : Started(q) => Started(q)'
    BY <1>1, Steps
  <2> QED BY <1>1, <2>1, <2>2
<1>3. /\ Ins' = Ins /\ Others' = Others /\ Ins \in SUBSET Players /\ Others \in SUBSET Players
      /\ h \in Ins
  <2>1. \A q \in Players : status'[q].state = status[q].state
    BY <1>2 DEF Buries
  <2> QED BY <1>1, <1>2, <2>1 DEF Ins, Others
<1>4. \A q \in Players : NextIn(q)' = NextIn(q) /\ Next_(q) \in Players
  BY <1>2, Neighbours DEF NextIn
<1>5. \A q \in Players : status'[q].lastValid = status[q].lastValid
  BY <1>2 DEF Buries
<1>6. played' = played /\ played \in PlayedSet
  BY <1>1 DEF Linked, Buries
<1>7. /\ Out(g) /\ g \in Players /\ status[h].upring = g
      /\ Token(h) = old /\ Token(h)' = new /\ ~ Waiting(h) /\ ~ Waiting(h)'
      /\ old \in PacketSet /\ new \in PacketSet
  BY <1>1, <1>2, <1>4, Player DEF Token, Waiting, Buries, Step, StatusSet
<1>8. /\ new = Buried(old, g)
      /\ new.dead = old.dead \cup {g} /\ new.type = old.type
      /\ \A q \in Players : new.flags[q] = IF q = g THEN <<>> ELSE old.flags[q]
  <2>1. new = Buried(old, g) /\ g \notin old.dead
    BY DEF Buries
  <2> QED BY <1>7, <2>1, BuriedIs, BuriedTyped
<1> HIDE DEF g, old, new
<1>9. HeadOK(h)'
  <2>1. \A q \in Players : Waiting(q)' => q = h
    BY <1>1, <1>2 DEF Waiting, HeadOK
  <2> QED BY <1>1, <1>2, <2>1, Ring DEF HeadOK
<1>10. Ahead(h)'
  <2> SUFFICES ASSUME NEW q \in Ins \ {h}, HasSent(q)'
               PROVE  status'[q].lastValid < status'[NextIn(q)].lastValid
    BY <1>3, <1>4 DEF Ahead, Ins
  <2>1. q \in Players /\ NextIn(q) \in Players /\ HasSent(q)
    BY <1>1, <1>2, NextInIs DEF Ins, HasSent
  <2> QED BY <1>1, <1>5, <2>1 DEF Ahead
<1>11. TokenOK(h)'
  <2>1. \A q \in Players : Having(q, h)' = Reached(q, h)
    BY <1>7 DEF Having, Reached, Dist
  <2>2. ASSUME NEW q \in Players
        PROVE  StreamOf(old, Reached(q, h), q, Ins, Others, played)
    BY <1>1, <1>7, <2>2 DEF TokenOK, Having
  <2>3. Ins \in SUBSET Ins /\ Others \in SUBSET (Others \cup (Ins \ Ins))
    OBVIOUS
  <2>4. ASSUME NEW q \in Players, q # g \/ q \in old.dead
        PROVE  StreamOf(new, Reached(q, h), q, Ins, Others, played)
    <3>1. /\ q \in new.dead <=> q \in old.dead
          /\ q \in old.dead \/ new.flags[q] = old.flags[q]
      BY <1>8, <2>4
    <3> QED BY <1>3, <1>6, <1>7, <2>2, <2>3, <3>1, StreamKept
  <2>5. ASSUME g \notin old.dead
        PROVE  StreamOf(new, {}, g, Ins, Others, played)
    <3>1. Ins \subseteq Reached(g, h)
      <4>1. Previous(g) = h
        BY <1>1, ReachedIs DEF g
      <4>2. Reached(g, h) = Players \ {g}
        BY <1>7, <4>1, ReachedIs
      <4> QED BY <1>7, <4>2 DEF Ins
    <3>2. \A x \in Ins : x \notin {}
      OBVIOUS
    <3> QED BY <1>3, <1>6, <1>7, <2>2, <2>5, <3>1, <3>2, StreamRenewed
  <2>6. ASSUME g \notin old.dead
        PROVE  StreamOf(new, Reached(g, h), g, Ins, Others, played)
    BY <1>8, <2>5, <2>6 DEF StreamOf
  <2>7. \A q \in Players : StreamOf(new, Reached(q, h), q, Ins, Others, played)
    BY <2>4, <2>6
  <2>8. \A q \in new.dead : Out(q)
    BY <1>1, <1>7, <1>8 DEF TokenOK
  <2>9. new.dead \subseteq Players
    BY <1>7 DEF PacketSet
  <2>10. Quiet(new)
    BY <1>1, <1>7, <1>8 DEF TokenOK, Quiet
  <2>11. Quiet(Token(h))'
    BY <1>7, <2>10 DEF Quiet
  <2> QED BY <1>2, <1>3, <1>6, <1>7, <2>1, <2>7, <2>8, <2>9, <2>11 DEF TokenOK
<1>12. BackOK(h)'
  BY <1>3, <1>7 DEF BackOK, Ins
<1>13. ASSUME NEW x \in net', Fresh(x)'
       PROVE  FromHead(h, x)' \/ (x \in net /\ Fresh(x) /\ FromOut(h, x)')
  <2>1. CASE x \notin net
    BY <1>2, <1>7, <1>13, <2>1 DEF Buries, Fresh, FromHead, new
  <2>2. CASE x \in net
    <3>1. x.to \in Players /\ x.from \in Players
      BY <1>1, <2>2, Message
    <3>2. \A q \in Players : status'[q].downring = status[q].downring
      BY <1>2 DEF Buries
    <3>3. Fresh(x)
      BY <1>2, <1>5, <1>13, <3>1, <3>2 DEF Fresh
    <3>4. ~ FromHead(h, x)
      BY <1>7, <3>3 DEF FromHead, Fresh
    <3>5. FromOut(h, x)
      BY <1>1, <2>2, <3>3, <3>4 DEF FreshOK
    <3>6. x.from = g
      BY <3>5 DEF FromOut, g
    <3>7. LastWords(h, g, x.packet) => LastWords(h, g, x.packet)'
      <4>1. status'[g].state = status[g].state
        BY <1>2, <1>7 DEF Buries
      <4>2. Quiet(x.packet) => Quiet(x.packet)'
        BY DEF Quiet
      <4> QED BY <1>3, <1>6, <1>7, <1>8, <4>1, <4>2 DEF LastWords
    <3> QED BY <1>1, <1>2, <1>5, <1>7, <2>2, <3>1, <3>3, <3>5, <3>6, <3>7 DEF FromOut
  <2> QED BY <2>1, <2>2
<1>14. FreshOK(h)'
  <2>1. \A x \in net' : FromHead(h, x)' => ~ Out(x.from)'
    BY <1>1, <1>2 DEF FromHead
  <2>2. \A x1, x2 \in net' :
          Fresh(x1)' /\ Fresh(x2)' /\ Out(x1.from)' /\ Out(x2.from)' => x1.seq = x2.seq
    <3> SUFFICES ASSUME NEW x1 \in net', NEW x2 \in net',
                        Fresh(x1)', Fresh(x2)', Out(x1.from)', Out(x2.from)'
                 PROVE  x1.seq = x2.seq
      OBVIOUS
    <3>1. x1 \in net /\ x2 \in net /\ Fresh(x1) /\ Fresh(x2)
      BY <1>13, <2>1
    <3>2. Out(x1.from) /\ Out(x2.from)
      BY <1>1, <1>2, <3>1, Message
    <3> QED BY <1>1, <3>1, <3>2 DEF FreshOK
  <2> QED BY <1>13, <2>2 DEF FreshOK
<1> QED BY <1>9, <1>10, <1>11, <1>12, <1>14 DEF RingAt
-----------------------------------------------------------------------------
(***************************************************************************)
(* Each action is one of these steps                                       *)
(***************************************************************************)
LEMMA StepIs ==
  ASSUME RingInv', NEW p \in Players, NEW t, status \in [Players -> StatusSet],
         status' = [status EXCEPT ![p] = t], t.state # "uninitialized",
         Out(p) => ~ t.accept, played' \in PlayedSet
  PROVE  Step(p, t)
<1>1. status' \in [Players -> StatusSet]
  BY DEF RingInv, Typed
<1>2. t = status'[p]
  OBVIOUS
<1> QED BY <1>1, <1>2 DEF Step

LEMMA StillKeeps ==
  ASSUME NEW h, Before(h), RingInv', NEW p \in Players, NEW t,
         status' = [status EXCEPT ![p] = t], t.state # "uninitialized",
         played' \in PlayedSet, Quietly(h, p, t),
         t.state \in {"startingUp", "active", "comingDown"} =>
           \/ InGame(p) /\ t.upring = status[p].upring
           \/ ~ Started(p) /\ t.upring = Next_(p)
           \/ Out(Next_(p))' /\ t.upring = Next_(Next_(p)),
         \A m \in net' : m \in net \/ m.tag # "change" \/ ChangeOK(m)',
         \A m \in net' : \/ m \in net \/ m.tag = "ack" \/ FromHead(h, m)'
                         \/ ~ (m.seq > status'[m.to].lastValid)
  PROVE  StreamInv'
<1>1. RingInv /\ Linked /\ h \in Players
  BY DEF Before
<1>2. Step(p, t)
  BY <1>1, StepIs DEF RingInv, Typed, Quietly
<1>3. Linked'
  BY <1>1, <1>2, LinkedStill
<1>4. RingAt(h)'
  BY <1>2, StillStep
<1> QED BY <1>1, <1>3, <1>4 DEF StreamInv

LEMMA SyncInv ==
  ASSUME NEW h, Before(h), RingInv', NEW p \in Players, Sync(p)
  PROVE  StreamInv'
<1> DEFINE s == [OutOfGame("startingUp") EXCEPT
                   !.upring = Next_(p), !.downring = Previous(p),
                   !.server = Server, !.accept = TRUE, !.iAmTheServer = p = Server]
           sent == Sending(s, FirstPacket)
           t == IF p = Server THEN sent ELSE s
<1>1. /\ status' = [status EXCEPT ![p] = t] /\ played' = played
      /\ net' = IF p = Server THEN net \cup {RingFrame(p, sent, "ring")} ELSE net
      /\ status[p].state = "uninitialized"
  BY DEF Sync
<1>2. /\ RingInv /\ Linked /\ h \in Players /\ HeadOK(h) /\ played \in PlayedSet
      /\ status[p] = OutOfGame("uninitialized")
  BY <1>1 DEF Before, RingAt, Linked, PlayerInRing, Started
<1>3. /\ t.state = "startingUp" /\ t.upring = Next_(p) /\ t.accept
      /\ t.lastValid = 0 /\ t.ringFrame = FirstPacket /\ t.buffer = FirstPacket
      /\ ~ t.clearToForward
      /\ t.receivedAck <=> p # Server
  BY DEF Sending, OutOfGame
<1>4. /\ status[p].lastValid = 0 /\ status[p].ringFrame = FirstPacket
      /\ status[p].buffer = FirstPacket /\ ~ status[p].clearToForward
  BY <1>2 DEF OutOfGame
<1>5. RingFrame(p, sent, "ring") =
        [from |-> p, to |-> t.upring, tag |-> "ring", seq |-> t.lastValid + 1,
         packet |-> t.ringFrame] \/ p # Server
  BY DEF RingFrame, RingPacket
<1>6. ~ Started(p)
  BY <1>1 DEF Started
<1> HIDE DEF t, sent
<1>7. p = Server => h = p
  BY <1>2, <1>6 DEF HeadOK
<1>8. \A m \in net : m.tag # "ack" => m.from # p
  BY <1>2, <1>6, RingMessages
<1>9. Quietly(h, p, t)
  <2>1. ~ Out(p) /\ status[p].state # "gone"
    BY <1>1, <1>6 DEF Out
  <2>2. p = h \/ (t.lastValid = 0 /\ t.receivedAck)
    BY <1>3, <1>7
  <2>3. t.buffer = status[p].buffer /\ t.lastValid = status[p].lastValid
    BY <1>3, <1>4
  <2>4. ~ t.clearToForward /\ ~ status[p].clearToForward /\ t.accept
    BY <1>3, <1>4
  <2>5. t.clearToForward = status[p].clearToForward /\ t.ringFrame = status[p].ringFrame
    <3>1. status'[p] \in StatusSet /\ status[p] \in StatusSet /\ status'[p] = t
      BY <1>1, <1>2 DEF RingInv, Typed
    <3> QED BY <1>3, <1>4, <2>4, <3>1 DEF StatusSet
  <2> QED BY <1>1, <1>6, <1>8, <2>1, <2>2, <2>3, <2>4, <2>5 DEF Quietly
<1>10. status'[p] = t
  BY <1>1, <1>2 DEF RingInv, Typed
<1>11. \A m \in net' : m \in net \/ (m.tag = "ring" /\ FromHead(h, m)')
  BY <1>1, <1>3, <1>5, <1>7, <1>10 DEF FromHead, Waiting
<1>12. \A m \in net' : m \in net \/ m.tag # "change"
  BY <1>11
<1> QED BY <1>1, <1>2, <1>3, <1>6, <1>9, <1>11, <1>12, StillKeeps

\* A step that leaves the packet, and what is sent, as they are.
LEMMA MinorInv ==
  ASSUME NEW h, Before(h), RingInv', NEW p \in Players, InGame(p), NEW t,
         status' = [status EXCEPT ![p] = t], played' = played,
         \A m \in net' : m \in net \/ m.tag = "ack",
         t.state \in {"startingUp", "active", "comingDown"},
         t.accept = status[p].accept, t.upring = status[p].upring,
         t.lastValid = status[p].lastValid, t.ringFrame = status[p].ringFrame,
         t.buffer = status[p].buffer, t.clearToForward = status[p].clearToForward,
         t.receivedAck \/ t.receivedAck = status[p].receivedAck,
         t.downring = status[p].downring \/ ~ Out(t.downring)
  PROVE  StreamInv'
<1>1. /\ RingInv /\ Linked /\ played \in PlayedSet /\ status[p] \in StatusSet
      /\ Started(p) /\ status[p].lastValid \in Nat
  BY Player DEF Before, Linked
<1>2. HasSent(p) \/ (t.lastValid = 0 /\ t.receivedAck)
  BY <1>1 DEF HasSent, StatusSet
<1>3. Quietly(h, p, t)
  BY <1>1, <1>2 DEF Quietly, Out, InGame
<1>4. /\ t.state # "uninitialized" /\ played' \in PlayedSet
      /\ \A m \in net' : m \in net \/ m.tag # "change"
  BY <1>1
<1> QED BY <1>3, <1>4, StillKeeps

LEMMA UnSyncBeginsInv ==
  ASSUME NEW h, Before(h), RingInv', NEW p \in Players, UnSyncBegins(p)
  PROVE  StreamInv'
<1> DEFINE t == [status[p] EXCEPT !.state = "comingDown"]
<1>1. /\ status' = [status EXCEPT ![p] = t] /\ played' = played /\ net' = net
      /\ InGame(p)
  BY DEF UnSyncBegins, InGame
<1>2. status[p] \in StatusSet
  BY Player DEF Before
<1>3. /\ t.state = "comingDown" /\ t.accept = status[p].accept /\ t.upring = status[p].upring
      /\ t.lastValid = status[p].lastValid /\ t.ringFrame = status[p].ringFrame
      /\ t.buffer = status[p].buffer /\ t.clearToForward = status[p].clearToForward
      /\ t.receivedAck = status[p].receivedAck /\ t.downring = status[p].downring
  BY <1>2 DEF StatusSet
<1> HIDE DEF t
<1> QED BY <1>1, <1>3, MinorInv

LEMMA AckInv ==
  ASSUME NEW h, Before(h), RingInv', NEW p \in Players, NEW m \in net, InGame(p),
         ReceiveAck(p, m)
  PROVE  StreamInv'
<1> DEFINE t == [status[p] EXCEPT !.receivedAck = TRUE]
<1>1. status' = [status EXCEPT ![p] = t] /\ played' = played /\ net' = net
  BY DEF ReceiveAck
<1>2. status[p] \in StatusSet
  BY Player DEF Before
<1>3. /\ t.state = status[p].state /\ t.accept = status[p].accept
      /\ t.upring = status[p].upring
      /\ t.lastValid = status[p].lastValid /\ t.ringFrame = status[p].ringFrame
      /\ t.buffer = status[p].buffer /\ t.clearToForward = status[p].clearToForward
      /\ t.receivedAck /\ t.downring = status[p].downring
  BY <1>2 DEF StatusSet
<1>4. t.state \in {"startingUp", "active", "comingDown"}
  BY <1>3 DEF InGame
<1> HIDE DEF t
<1> QED BY <1>1, <1>3, <1>4, MinorInv

\* Who asks to be the down-ring neighbour has not gone out itself.
LEMMA NewDownring ==
  ASSUME NEW h, Before(h), NEW p \in Players, NEW m \in net, ForMe(p, m), InGame(p)
  PROVE  LET t == WithDownring(p, m)
         IN  /\ t \in StatusSet /\ t.state = status[p].state /\ t.upring = status[p].upring
             /\ t.lastValid = status[p].lastValid /\ t.ringFrame = status[p].ringFrame
             /\ t.buffer = status[p].buffer /\ t.iAmTheServer = status[p].iAmTheServer
             /\ t.clearToForward = status[p].clearToForward /\ t.accept = status[p].accept
             /\ t.server = status[p].server /\ t.receivedAck = status[p].receivedAck
             /\ t.canForward = status[p].canForward
             /\ t.downring = status[p].downring \/ ~ Out(t.downring)
             /\ KnownSource(p, m) => t.downring = m.from
<1>1. RingInv /\ Linked /\ OnlyOneOut
  BY DEF Before
<1>2. status[p] \in StatusSet /\ m.from \in Players
  BY <1>1, Player, Message
<1>3. CASE m.tag = "change"
  <2>1. ~ Out(m.from)
    BY <1>1, <1>3, ChangeFrom
  <2> QED BY <1>2, <1>3, <2>1 DEF WithDownring, StatusSet
<1>4. CASE m.tag # "change"
  BY <1>2, <1>4 DEF WithDownring, KnownSource
<1> QED BY <1>3, <1>4

LEMMA LateInv ==
  ASSUME NEW h, Before(h), RingInv', NEW p \in Players, NEW m \in net, InGame(p),
         ReceiveTooLate(p, m) \/ ReceiveLate(p, m)
  PROVE  StreamInv'
<1> DEFINE t == WithDownring(p, m)
<1>1. ForMe(p, m)
  BY DEF ReceiveTooLate, ReceiveLate
<1>2. /\ status' = [status EXCEPT ![p] = t] /\ played' = played
      /\ \A a \in net' : a \in net \/ a.tag = "ack"
  BY DEF ReceiveTooLate, ReceiveLate, Ack
<1>3. /\ t.state = status[p].state /\ t.upring = status[p].upring
      /\ t.lastValid = status[p].lastValid /\ t.ringFrame = status[p].ringFrame
      /\ t.buffer = status[p].buffer
      /\ t.clearToForward = status[p].clearToForward /\ t.accept = status[p].accept
      /\ t.receivedAck = status[p].receivedAck
      /\ t.downring = status[p].downring \/ ~ Out(t.downring)
  BY <1>1, NewDownring
<1>4. t.state \in {"startingUp", "active", "comingDown"}
  BY <1>3 DEF InGame
<1> HIDE DEF t
<1> QED BY <1>2, <1>3, <1>4, MinorInv

LEMMA IgnoreInv ==
  ASSUME NEW h, Before(h), RingInv', NEW p \in Players, NEW m \in net, InGame(p),
         IgnoreUnsync(p, m)
  PROVE  StreamInv'
<1> DEFINE d == WithDownring(p, m)
           t == [Seen(p, m) EXCEPT !.lastValid = status[p].lastValid]
<1>1. ForMe(p, m)
  BY DEF IgnoreUnsync, ReceiveNew
<1>2. /\ status' = [status EXCEPT ![p] = t] /\ played' = played /\ net' = net
  BY DEF IgnoreUnsync
<1>3. /\ d \in StatusSet /\ d.state = status[p].state /\ d.upring = status[p].upring
      /\ d.ringFrame = status[p].ringFrame
      /\ d.buffer = status[p].buffer
      /\ d.clearToForward = status[p].clearToForward /\ d.accept = status[p].accept
      /\ d.receivedAck = status[p].receivedAck
      /\ d.downring = status[p].downring \/ ~ Out(d.downring)
  BY <1>1, NewDownring
<1> HIDE DEF d
<1>4. t = [[d EXCEPT !.server = m.packet.server, !.lastValid = m.seq]
             EXCEPT !.lastValid = status[p].lastValid]
  BY DEF Seen, d
<1>5. /\ t.state = d.state /\ t.upring = d.upring /\ t.ringFrame = d.ringFrame
      /\ t.lastValid = status[p].lastValid
      /\ t.buffer = d.buffer /\ t.clearToForward = d.clearToForward /\ t.accept = d.accept
      /\ t.receivedAck = d.receivedAck /\ t.downring = d.downring
  BY <1>3, <1>4 DEF StatusSet
<1>6. t.state \in {"startingUp", "active", "comingDown"}
  BY <1>3, <1>5 DEF InGame
<1> HIDE DEF t
<1> QED BY <1>2, <1>3, <1>5, <1>6, MinorInv

LEMMA EarlyInv ==
  ASSUME NEW h, Before(h), RingInv', NEW p \in Players, ServerTaskEarly(p)
  PROVE  StreamInv'
<1> DEFINE t == [status[p] EXCEPT !.canForward = TRUE]
<1>1. /\ status' = [status EXCEPT ![p] = t] /\ played' = played /\ net' = net /\ InGame(p)
  BY DEF ServerTaskEarly
<1>2. status[p] \in StatusSet
  BY Player DEF Before
<1>3. /\ t.state = status[p].state /\ t.accept = status[p].accept
      /\ t.upring = status[p].upring
      /\ t.lastValid = status[p].lastValid /\ t.ringFrame = status[p].ringFrame
      /\ t.buffer = status[p].buffer /\ t.clearToForward = status[p].clearToForward
      /\ t.receivedAck = status[p].receivedAck /\ t.downring = status[p].downring
  BY <1>2 DEF StatusSet
<1>4. t.state \in {"startingUp", "active", "comingDown"}
  BY <1>1, <1>3 DEF InGame
<1> HIDE DEF t
<1> QED BY <1>1, <1>3, <1>4, MinorInv
LEMMA UnSyncEndsInv ==
  ASSUME NEW h, Before(h), RingInv', NEW p \in Players, UnSyncEnds(p)
  PROVE  StreamInv'
<1> DEFINE t == OutOfGame("down")
<1>1. /\ status' = [status EXCEPT ![p] = t] /\ played' = played /\ net' = net
      /\ status[p].state = "comingDown" /\ Out(p)
  BY DEF UnSyncEnds, Out, Started
<1>2. /\ t.state = "down" /\ ~ t.accept /\ t.lastValid = 0 /\ t.receivedAck
      /\ ~ t.clearToForward
  BY DEF OutOfGame
<1> HIDE DEF t
<1>3. RingInv /\ Linked /\ HeadOK(h) /\ played \in PlayedSet
  BY DEF Before, RingAt, Linked
<1>4. p # h
  BY <1>1, <1>3 DEF HeadOK
<1>5. Quietly(h, p, t)
  BY <1>1, <1>2, <1>4 DEF Quietly
<1> QED BY <1>1, <1>2, <1>3, <1>5, StillKeeps

\* Who is gone; its streams count no more.
LEMMA GoneInv ==
  ASSUME NEW h, Before(h), RingInv', OnlyOneOut', NEW p \in Players, InGame(p), IsGone(p)
  PROVE  StreamInv'
<1> DEFINE t == OutOfGame("gone")
<1>1. /\ status' = [status EXCEPT ![p] = t] /\ net' = net
      /\ played' = [played EXCEPT ![p] = [q \in Players |-> <<>>]]
  BY DEF IsGone
<1>2. /\ t.state = "gone" /\ ~ t.accept /\ t.lastValid = 0 /\ t.receivedAck
      /\ ~ t.clearToForward
  BY DEF OutOfGame
<1> HIDE DEF t
<1>3. /\ RingInv /\ Linked /\ HeadOK(h) /\ h \in Players /\ played \in PlayedSet /\ Started(p)
  BY Player DEF Before, RingAt, Linked
<1>4. played' \in PlayedSet /\ \A q \in Players \ {p} : played'[q] = played[q]
  <2>1. [q \in Players |-> <<>>] \in [Players -> Seq(Nat)]
    OBVIOUS
  <2> QED BY <1>1, <1>3, <2>1 DEF PlayedSet
<1>5. CASE Out(p)
  <2>1. p # h
    BY <1>3, <1>5 DEF HeadOK
  <2>2. Quietly(h, p, t)
    BY <1>2, <1>4, <1>5, <2>1 DEF Quietly
  <2> QED BY <1>1, <1>2, <1>4, <2>2, StillKeeps
<1>6. CASE ~ Out(p)
  <2>1. Step(p, t)
    BY <1>1, <1>2, <1>3, <1>4, <1>6, StepIs DEF RingInv, Typed
  <2>2. GoesOut(p, t)
    BY <1>2, <1>4, <1>6 DEF GoesOut
  <2>3. Linked'
    BY <1>1, <1>2, <1>3, <2>1, LinkedStill
  <2>4. CASE p # h
    <3>1. RingAt(h)'
      BY <1>1, <2>1, <2>2, <2>4, OtherGoesOut
    <3> QED BY <1>3, <2>3, <3>1 DEF StreamInv
  <2>5. CASE p = h
    <3>1. RingAt(Previous(h))'
      BY <1>1, <1>2, <1>3, <2>1, <2>2, <2>5, HeadGoesOut
    <3>2. Previous(h) \in Players
      BY <1>3, Neighbours
    <3> QED BY <2>3, <3>1, <3>2 DEF StreamInv
  <2> QED BY <2>4, <2>5
<1> QED BY <1>5, <1>6

LEMMA LeaveInv ==
  ASSUME NEW h, Before(h), RingInv', OnlyOneOut', NEW p \in Players, Leave(p)
  PROVE  StreamInv'
<1>1. CASE UnSyncBegins(p)
  BY <1>1, UnSyncBeginsInv
<1>2. CASE UnSyncEnds(p)
  BY <1>2, UnSyncEndsInv
<1>3. CASE SyncTimesOut(p) \/ UnSyncTimesOut(p) \/ Crash(p)
  <2>1. IsGone(p) /\ InGame(p)
    BY <1>3 DEF SyncTimesOut, UnSyncTimesOut, Crash, InGame
  <2> QED BY <2>1, GoneInv
<1> QED BY <1>1, <1>2, <1>3 DEF Leave

\* The one that gives up has sent the packet that ends the game.
LEMMA GiveUpInv ==
  ASSUME NEW h, Before(h), RingInv', OnlyOneOut', NEW p \in Players, GiveUp(p)
  PROVE  StreamInv'
<1> DEFINE t == [status[p] EXCEPT !.accept = FALSE]
<1>1. /\ status' = [status EXCEPT ![p] = t] /\ played' = played /\ net' = net
      /\ status[p].state = "comingDown" /\ status[p].accept /\ Noted(p) /\ InGame(p)
  BY DEF GiveUp, InGame
<1>11. Hopeless(p)
  BY <1>1 DEF Noted, OnlyOneOut
<1>2. /\ RingInv /\ Linked /\ HeadOK(h) /\ h \in Players /\ played \in PlayedSet
      /\ status[p] \in StatusSet /\ AllStarted /\ status[p].upring \in Players
  BY <1>1, Player DEF Before, RingAt, Linked
<1>3. /\ t.state = "comingDown" /\ ~ t.accept /\ t.upring = status[p].upring
      /\ t.clearToForward = status[p].clearToForward
  BY <1>1, <1>2 DEF StatusSet
<1>4. ~ status[p].clearToForward
  BY <1>11 DEF Hopeless
<1> HIDE DEF t
<1>5. ~ Out(p)
  BY <1>1, <1>2, InRing
<1>6. Step(p, t)
  BY <1>1, <1>2, <1>3, <1>5, StepIs DEF RingInv, Typed
<1>7. GoesOut(p, t)
  BY <1>1, <1>3, <1>4, <1>5 DEF GoesOut
<1>8. Linked'
  BY <1>1, <1>2, <1>3, <1>6, LinkedStill
<1>9. CASE p # h
  <2>1. RingAt(h)'
    BY <1>1, <1>6, <1>7, <1>9, OtherGoesOut
  <2> QED BY <1>2, <1>8, <2>1 DEF StreamInv
<1>10. CASE p = h
  <2>1. ~ Out(status[p].upring)
    BY <1>2, <1>6, <1>7, FirstOut
  <2>2. InGame(status[p].upring) /\ status[status[p].upring].accept
    BY <1>2, <2>1, InRing DEF AllStarted, Out
  <2>3. status[h].ringFrame.type = "unsync"
    BY <1>10, <1>11, <2>2 DEF Hopeless
  <2>4. RingAt(Previous(h))'
    BY <1>1, <1>2, <1>4, <1>6, <1>7, <1>10, <2>3, HeadGoesOut DEF AllStarted, Waiting
  <2>5. Previous(h) \in Players
    BY <1>2, Neighbours
  <2> QED BY <1>8, <2>4, <2>5 DEF StreamInv
<1> QED BY <1>9, <1>10

\* Who takes the packet that ends the game is out, and passes on what is no more than that.
LEMMA UnsyncInv ==
  ASSUME NEW h, Before(h), RingInv', OnlyOneOut', NEW p \in Players, NEW m \in net,
         m.to = p, InGame(p), ReceiveUnsync(p, m)
  PROVE  StreamInv'
<1> DEFINE d == WithDownring(p, m)
           s == [Seen(p, m) EXCEPT !.accept = FALSE]
<1>1. /\ ForMe(p, m) /\ status[p].accept /\ KnownSource(p, m) /\ IsNew(p, m)
      /\ m.packet.type = "unsync" /\ status[p].state = "comingDown"
      /\ played' = played
  BY DEF ReceiveUnsync, ReceiveNew
<1>2. /\ RingInv /\ Linked /\ OnlyOneOut /\ HeadOK(h) /\ h \in Players /\ played \in PlayedSet
      /\ AllStarted /\ Next_(p) \in Players /\ Next_(p) # p
      /\ m.seq \in Nat /\ m.packet.server \in Players /\ status[h].lastValid \in Nat
      /\ m.tag # "ack"
  <2>1. RingInv /\ Linked /\ OnlyOneOut /\ HeadOK(h) /\ h \in Players /\ played \in PlayedSet
    BY DEF Before, RingAt, Linked
  <2>2. m.tag # "ack"
    BY <1>1 DEF ForMe
  <2> QED BY <1>1, <2>1, <2>2, Player, Message, Neighbours
<1>3. /\ d \in StatusSet /\ d.upring = status[p].upring
      /\ d.clearToForward = status[p].clearToForward
      /\ d.state = status[p].state
  BY <1>1, NewDownring
<1> HIDE DEF d
<1>4. /\ s = [[d EXCEPT !.server = m.packet.server, !.lastValid = m.seq] EXCEPT !.accept = FALSE]
      /\ s.state = "comingDown" /\ ~ s.accept /\ s.upring = status[p].upring
      /\ s.lastValid = m.seq /\ s.clearToForward = status[p].clearToForward
  <2>1. s = [[d EXCEPT !.server = m.packet.server, !.lastValid = m.seq] EXCEPT !.accept = FALSE]
    BY DEF Seen, d
  <2> QED BY <1>1, <1>3, <2>1 DEF StatusSet
<1> HIDE DEF s
<1> DEFINE sent == Sending(s, m.packet)
           t == IF status[p].iAmTheServer THEN s ELSE sent
<1>5. /\ status' = [status EXCEPT ![p] = t]
      /\ net' = IF status[p].iAmTheServer THEN net \cup {Ack(p, s.downring, s.lastValid)}
                ELSE net \cup {Ack(p, s.downring, s.lastValid), RingFrame(p, sent, "ring")}
  BY DEF ReceiveUnsync, PassedOn, s
<1>6. Taken(p, m)
  BY <1>1 DEF Taken
<1>7. Fresh(m) /\ ~ Out(p) /\ (FromHead(h, m) \/ FromOut(h, m))
  BY <1>6, TakenIsFresh
<1>8. /\ sent.state = "comingDown" /\ ~ sent.accept /\ sent.upring = status[p].upring
      /\ sent.lastValid = m.seq /\ ~ sent.clearToForward /\ sent.ringFrame = m.packet
  <2>1. s \in StatusSet
    BY <1>2, <1>3, <1>4 DEF StatusSet
  <2> QED BY <1>4, <2>1 DEF Sending, StatusSet
<1>9. /\ t.state = "comingDown" /\ ~ t.accept /\ t.upring = status[p].upring
      /\ t.lastValid = m.seq /\ t.clearToForward => status[p].clearToForward
      /\ t.lastValid = m.seq
  BY <1>4, <1>8
<1>10. RingFrame(p, sent, "ring") =
         [from |-> p, to |-> status[p].upring, tag |-> "ring", seq |-> m.seq + 1,
          packet |-> m.packet]
  BY <1>8 DEF RingFrame, RingPacket
<1> HIDE DEF t, sent
<1>11. Step(p, t)
  BY <1>2, <1>1, <1>5, <1>7, <1>9, StepIs DEF RingInv, Typed
<1>12. Linked'
  <2>1. \A x \in net' : x \in net \/ x.tag # "change"
    BY <1>5, <1>10 DEF Ack
  <2> QED BY <1>2, <1>9, <1>11, <2>1, LinkedStill
<1>13. p # h /\ ~ Waiting(p)
  <2>1. CASE FromHead(h, m)
    <3>1. p # h
      BY <1>1, <2>1 DEF FromHead, ForMe
    <3> QED BY <1>2, <3>1 DEF HeadOK
  <2>2. CASE FromOut(h, m)
    <3>1. Out(m.from) /\ m.from \in Players /\ m.from # p
      BY <1>1, <1>2, <2>2, Message DEF FromOut, ForMe
    <3>2. Out(m.from)' /\ Out(p)'
      BY <1>2, <1>9, <1>11, <3>1, Steps
    <3> QED BY <3>1, <3>2 DEF OnlyOneOut
  <2> QED BY <1>7, <2>1, <2>2
<1>14. GoesOut(p, t)
  BY <1>1, <1>7, <1>9, <1>13 DEF GoesOut, Waiting
<1>15. /\ \A q \in Players : ~ Out(q) /\ (Out(q)' <=> q = p)
  BY <1>11, <1>14, FirstOut
<1>16. FromHead(h, m)
  <2>1. m.from \in Players
    BY <1>2, Message
  <2> QED BY <1>7, <1>15, <2>1 DEF FromOut
<1>17. p = Next_(h) /\ ~ Waiting(h) /\ m.seq = status[h].lastValid + 1
  <2>1. Next_(h) \in Players
    BY <1>2, Neighbours
  <2> QED BY <1>2, <1>15, <1>16, <2>1, HeadSendsTo DEF FromHead
<1>18. status[p].upring = Next_(p)
  BY <1>2, <1>15 DEF Linked, PlayerInRing
<1>19. status'[h] = status[h] /\ ~ Waiting(h)'
  BY <1>2, <1>11, <1>13, <1>17, Steps DEF Waiting
<1>20. PICK frame : frame = RingFrame(p, sent, "ring")
  OBVIOUS
<1>21. \A x \in net' : x \in net \/ x.tag = "ack" \/ x = frame
  BY <1>5, <1>20 DEF Ack
<1>22. FromOut(h, frame)'
  <2>1. m.seq + 1 > status[h].lastValid
    BY <1>2, <1>17
  <2>2. /\ frame.from = p /\ frame.to = Next_(p) /\ frame.seq = m.seq + 1
        /\ frame.packet.type = "unsync"
    BY <1>1, <1>10, <1>18, <1>20
  <2> QED BY <1>15, <1>17, <1>19, <2>1, <2>2 DEF FromOut
<1>23. RingAt(h)'
  <2>1. \A x1, x2 \in net' \ net : x1.tag # "ack" /\ x2.tag # "ack" => x1 = x2
    BY <1>21
  <2>2. \A x \in net' : x \in net \/ x.tag = "ack" \/ FromOut(h, x)'
    <3> SUFFICES ASSUME NEW x \in net' PROVE x \in net \/ x.tag = "ack" \/ FromOut(h, x)'
      OBVIOUS
    <3>1. CASE x = frame
      BY <1>22, <3>1
    <3> QED BY <1>21, <3>1
  <2> QED BY <1>11, <1>13, <1>14, <2>1, <2>2, OtherGoesOut
<1> QED BY <1>2, <1>12, <1>23 DEF StreamInv
\* Words that there are none of need not be played.
LEMMA QuietIs ==
  ASSUME NEW p \in Players, NEW packet \in PacketSet, played \in PlayedSet, played' = played,
         Quiet(packet), packet.type \in {"sync", "time"}
  PROVE  \A q \in Players :
           IF q \in packet.dead THEN \E k \in Nat : played'[p][q] = played[p][q] \o DeadFor(k)
           ELSE played'[p][q] = played[p][q] \o packet.flags[q]
<1>1. \A q \in Players : packet.flags[q] = <<>>
  BY DEF Quiet
<1>2. \A q \in Players : played[p][q] \in Seq(Nat)
  BY DEF PlayedSet
<1>3. \A q \in Players : played[p][q] \o <<>> = played[p][q]
  BY <1>2, ConcatTyped
<1>4. DeadFor(0) = <<>> /\ 0 \in Nat
  BY DeadForTyped
<1> QED BY <1>1, <1>3, <1>4

\* What is passed on of the packet in m.
MayHold(p, m, packet) ==
  /\ packet \in PacketSet /\ packet.dead = m.packet.dead \ {p} /\ Quiet(packet)
  /\ \A q \in Players \ {p} : packet.flags[q] = m.packet.flags[q]

Plays(p, m) ==
  /\ played' \in PlayedSet
  /\ \A q \in Players \ {p} : played'[q] = played[q]
  /\ \A q \in Players :
       IF q \in m.packet.dead THEN \E k \in Nat : played'[p][q] = played[p][q] \o DeadFor(k)
       ELSE played'[p][q] = played[p][q] \o m.packet.flags[q]

LEMMA PassInv ==
  ASSUME NEW h, Before(h), RingInv', NEW p \in Players, NEW m, Taken(p, m),
         m.packet.type # "unsync", NEW s \in StatusSet,
         s.state \in {"startingUp", "active", "comingDown"}, s.accept,
         s.upring = status[p].upring, s.lastValid = m.seq, s.downring = m.from,
         NEW packet, PassedOn(p, s, packet), MayHold(p, m, packet), Plays(p, m)
  PROVE  StreamInv'
<1> DEFINE t == Sending(s, packet)
<1>1. /\ status' = [status EXCEPT ![p] = t]
      /\ net' = net \cup {Ack(p, s.downring, s.lastValid), RingFrame(p, t, "ring")}
  BY DEF PassedOn
<1>2. /\ t.state = s.state /\ t.accept /\ t.upring = s.upring /\ t.lastValid = s.lastValid
      /\ t.downring = s.downring /\ ~ t.clearToForward /\ t.ringFrame = packet
  BY DEF Sending, StatusSet
<1>3. RingFrame(p, t, "ring") =
        [from |-> p, to |-> t.upring, tag |-> "ring", seq |-> t.lastValid + 1,
         packet |-> t.ringFrame]
  BY DEF RingFrame, RingPacket
<1> HIDE DEF t
<1>4. RingInv /\ Linked /\ ~ Out(p) /\ InGame(p)
  <2>1. ~ Out(p)
    BY TakenIsFresh
  <2> QED BY <2>1 DEF Before, Taken
<1>5. Step(p, t)
  <2>1. played' \in PlayedSet
    BY DEF Plays
  <2> QED BY <1>1, <1>2, <1>4, <2>1, StepIs DEF RingInv, Typed
<1>6. \A x \in net' :
        \/ x \in net \/ x.tag = "ack"
        \/ /\ x.from = p /\ x.to = t.upring /\ x.tag = "ring"
           /\ x.seq = t.lastValid + 1 /\ x.packet = t.ringFrame
  BY <1>1, <1>3 DEF Ack
<1>7. Linked'
  <2>1. \A x \in net' : x \in net \/ x.tag # "change"
    BY <1>6
  <2> QED BY <1>2, <1>4, <1>5, <2>1, LinkedStill
<1>8. Moves(p, m, t)
  <2>1. Held(t) = packet
    BY <1>2 DEF Held
  <2> QED BY <1>2, <1>6, <2>1 DEF Moves, MayHold, Plays
<1>9. RingAt(p)'
  BY <1>5, <1>8, MovesStep
<1> QED BY <1>7, <1>9 DEF StreamInv

\* The status of a player that has looked at the packet in m.
LEMMA SeenIs ==
  ASSUME NEW h, Before(h), NEW p \in Players, NEW m, Taken(p, m)
  PROVE  LET s == Seen(p, m)
         IN  /\ s \in StatusSet /\ s.state = status[p].state /\ s.accept
             /\ s.upring = status[p].upring /\ s.lastValid = m.seq /\ s.downring = m.from
             /\ s.ringFrame = status[p].ringFrame /\ s.iAmTheServer = status[p].iAmTheServer
             /\ s.state \in {"startingUp", "active", "comingDown"}
<1> DEFINE d == WithDownring(p, m)
<1>1. /\ m \in net /\ ForMe(p, m) /\ InGame(p) /\ status[p].accept
      /\ KnownSource(p, m) /\ RingInv /\ m.tag # "ack"
  BY DEF Taken, Before, ForMe
<1>2. /\ d \in StatusSet /\ d.state = status[p].state /\ d.upring = status[p].upring
      /\ d.ringFrame = status[p].ringFrame /\ d.iAmTheServer = status[p].iAmTheServer
      /\ d.accept = status[p].accept /\ d.downring = m.from
  BY <1>1, NewDownring
<1>3. m.seq \in Nat /\ m.packet.server \in Players
  BY <1>1, Message
<1> HIDE DEF d
<1>4. Seen(p, m) = [d EXCEPT !.server = m.packet.server, !.lastValid = m.seq]
  BY DEF Seen, d
<1> QED BY <1>1, <1>2, <1>3, <1>4 DEF StatusSet, InGame

LEMMA ReceiveSyncInv ==
  ASSUME NEW h, Before(h), RingInv', NEW p \in Players, NEW m \in net, m.to = p, InGame(p),
         ReceiveSync(p, m)
  PROVE  StreamInv'
<1> DEFINE packet == [m.packet EXCEPT !.type = IF status[p].iAmTheServer THEN "time" ELSE @]
<1>1. Taken(p, m) /\ m.packet.type = "sync" /\ PassedOn(p, Seen(p, m), packet) /\ played' = played
  BY DEF ReceiveSync, ReceiveNew, Taken
<1>2. /\ m.packet \in PacketSet /\ Quiet(m.packet) /\ ~ Out(p) /\ RingInv /\ Linked
      /\ \A q \in m.packet.dead : Out(q)
  BY <1>1, TakenIsFresh, Arrives DEF Before
<1>3. Plays(p, m)
  BY <1>1, <1>2, QuietIs DEF Plays, Linked
<1>4. MayHold(p, m, packet)
  <2>1. /\ packet.dead = m.packet.dead /\ packet.flags = m.packet.flags
        /\ packet.type \in {"sync", "time"} /\ packet \in PacketSet
    BY <1>1, <1>2 DEF PacketSet, PacketTypes
  <2>2. p \notin m.packet.dead
    BY <1>2
  <2> HIDE DEF packet
  <2> QED BY <1>1, <1>2, <2>1, <2>2 DEF MayHold, Quiet, PacketSet
<1> HIDE DEF packet
<1>5. LET s == Seen(p, m)
      IN  /\ s \in StatusSet /\ s.state \in {"startingUp", "active", "comingDown"} /\ s.accept
          /\ s.upring = status[p].upring /\ s.lastValid = m.seq /\ s.downring = m.from
  BY <1>1, SeenIs
<1> QED BY <1>1, <1>3, <1>4, <1>5, PassInv

LEMMA ReceiveTimeInv ==
  ASSUME NEW h, Before(h), RingInv', NEW p \in Players, NEW m \in net, m.to = p, InGame(p),
         ReceiveTime(p, m)
  PROVE  StreamInv'
<1> DEFINE s == [Seen(p, m) EXCEPT !.state = "active"]
<1>1. Taken(p, m) /\ m.packet.type = "time" /\ PassedOn(p, s, m.packet) /\ played' = played
  BY DEF ReceiveTime, ReceiveNew, Taken
<1>2. /\ m.packet \in PacketSet /\ Quiet(m.packet) /\ ~ Out(p) /\ RingInv /\ Linked
      /\ \A q \in m.packet.dead : Out(q)
  BY <1>1, TakenIsFresh, Arrives DEF Before
<1>3. Plays(p, m)
  BY <1>1, <1>2, QuietIs DEF Plays, Linked
<1>4. MayHold(p, m, m.packet)
  BY <1>2 DEF MayHold, PacketSet
<1>5. LET r == Seen(p, m)
      IN  /\ r \in StatusSet /\ r.accept
          /\ r.upring = status[p].upring /\ r.lastValid = m.seq /\ r.downring = m.from
  BY <1>1, SeenIs
<1>6. /\ s \in StatusSet /\ s.state \in {"startingUp", "active", "comingDown"} /\ s.accept
      /\ s.upring = status[p].upring /\ s.lastValid = m.seq /\ s.downring = m.from
  BY <1>5 DEF StatusSet, States
<1> HIDE DEF s
<1> QED BY <1>1, <1>3, <1>4, <1>6, PassInv

\* A player's own new words in place of its old ones.
LEMMA FlagsAddedIs ==
  ASSUME RingInv, NEW p \in Players, NEW packet \in PacketSet,
         packet.type \in {"normal", "unsync"}, p \notin packet.dead
  PROVE  LET now == FlagsAdded(p, packet)
         IN  /\ now \in PacketSet /\ now.dead = packet.dead \ {p} /\ Quiet(now)
             /\ \A q \in Players \ {p} : now.flags[q] = packet.flags[q]
<1> DEFINE now == FlagsAdded(p, packet)
<1>1. now \in PacketSet /\ now.type = packet.type
  BY FlagsTyped
<1>2. /\ now.dead = packet.dead \ {p}
      /\ \A q \in Players \ {p} : now.flags[q] = packet.flags[q]
  BY AddedIs
<1> QED BY <1>1, <1>2 DEF Quiet
LEMMA NewLapIs ==
  ASSUME NEW s, NEW packet \in PacketSet, NEW n \in 1 .. MaxRequired, packet.type = "normal"
  PROVE  LET l == NewLap(s, packet, n)
         IN  /\ l \in PacketSet /\ l.type \in {"normal", "unsync"}
             /\ l.dead = packet.dead /\ l.flags = packet.flags
<1>1. 0 \in 0 .. MaxRequired /\ n \in 0 .. MaxRequired
  BY Ring
<1>2. CASE s.state # "comingDown"
  BY <1>1, <1>2 DEF NewLap, PacketSet
<1>3. CASE s.state = "comingDown" /\ packet.required = 0
  BY <1>3 DEF NewLap, PacketSet, PacketTypes
<1>4. CASE s.state = "comingDown" /\ packet.required # 0
  BY <1>1, <1>4 DEF NewLap, PacketSet
<1> QED BY <1>2, <1>3, <1>4

\* What is taken with flags, or the "time" that has come back to the server.
LEMMA NormalIs ==
  ASSUME NEW h, Before(h), NEW p \in Players, NEW m \in net, m.to = p, InGame(p), Normal(p, m)
  PROVE  /\ Taken(p, m) /\ m.packet.type \in {"normal", "time"}
         /\ m.packet \in PacketSet /\ Quiet(m.packet) /\ p \notin m.packet.dead
         /\ m.packet.type = "time" => status[p].iAmTheServer
         /\ RingInv /\ Linked /\ ~ Out(p)
<1>1. /\ Taken(p, m) /\ m.packet.type \in {"normal", "time"}
      /\ m.packet.type = "time" => status[p].iAmTheServer
  BY DEF Normal, ReceiveNew, Taken
<1> QED BY <1>1, TakenIsFresh, Arrives DEF Before

LEMMA PlaysIs ==
  ASSUME played \in PlayedSet, NEW p \in Players, NEW m, m.packet \in PacketSet, Processed(p, m.packet)
  PROVE  Plays(p, m)
<1>1. PICK packet \in PacketSet : packet = m.packet
  OBVIOUS
<1>2. /\ played' \in PlayedSet
      /\ \A q \in Players \ {p} : played'[q] = played[q]
      /\ \A q \in Players :
           IF q \in packet.dead
           THEN played'[p][q] = played[p][q] \o DeadFor(packet.required)
           ELSE played'[p][q] = played[p][q] \o packet.flags[q]
      /\ packet.required \in Nat
  BY <1>1, ProcessedIs
<1> QED BY <1>1, <1>2 DEF Plays

LEMMA ReceiveFlagsInv ==
  ASSUME NEW h, Before(h), RingInv', NEW p \in Players, NEW m \in net, m.to = p, InGame(p),
         ReceiveFlags(p, m)
  PROVE  StreamInv'
<1>1. /\ Normal(p, m) /\ ~ status[p].iAmTheServer /\ Processed(p, m.packet)
      /\ PassedOn(p, Seen(p, m), FlagsAdded(p, m.packet))
  BY DEF ReceiveFlags, FlagsPassedOn
<1>2. /\ Taken(p, m) /\ m.packet.type = "normal" /\ m.packet \in PacketSet
      /\ RingInv /\ Linked /\ p \notin m.packet.dead
  BY <1>1, NormalIs
<1>3. Plays(p, m)
  BY <1>1, <1>2, PlaysIs DEF Linked
<1>4. MayHold(p, m, FlagsAdded(p, m.packet))
  BY <1>2, FlagsAddedIs DEF MayHold
<1>5. LET s == Seen(p, m)
      IN  /\ s \in StatusSet /\ s.state \in {"startingUp", "active", "comingDown"} /\ s.accept
          /\ s.upring = status[p].upring /\ s.lastValid = m.seq /\ s.downring = m.from
  BY <1>2, SeenIs
<1> QED BY <1>1, <1>2, <1>3, <1>4, <1>5, PassInv

LEMMA LiveIs ==
  ASSUME NEW m, NEW s \in StatusSet, s.state \in {"startingUp", "active", "comingDown"}
  PROVE  LET l == Live(m, s)
         IN  /\ l \in StatusSet /\ l.state \in {"startingUp", "active", "comingDown"}
             /\ l.upring = s.upring /\ l.lastValid = s.lastValid /\ l.downring = s.downring
             /\ l.accept = s.accept
BY DEF Live, StatusSet, States

LEMMA ReceiveAtServerInv ==
  ASSUME NEW h, Before(h), RingInv', NEW p \in Players, NEW m \in net, m.to = p, InGame(p),
         NEW n \in 1 .. MaxRequired, ReceiveAtServer(p, m, n)
  PROVE  StreamInv'
<1> DEFINE s == Live(m, Seen(p, m))
           own == [m.packet EXCEPT !.type = "normal", !.server = p]
           lap == NewLap(s, own, n)
<1>1. /\ Normal(p, m) /\ Processed(p, m.packet) /\ PassedOn(p, s, FlagsAdded(p, lap))
  BY DEF ReceiveAtServer, FlagsPassedOn
<1>2. /\ Taken(p, m) /\ m.packet.type # "unsync" /\ m.packet \in PacketSet
      /\ RingInv /\ Linked /\ p \notin m.packet.dead
  BY <1>1, NormalIs
<1>3. Plays(p, m)
  BY <1>1, <1>2, PlaysIs DEF Linked
<1>4. /\ own \in PacketSet /\ own.type = "normal" /\ own.dead = m.packet.dead
      /\ own.flags = m.packet.flags
  BY <1>2 DEF PacketSet, PacketTypes
<1> HIDE DEF own
<1>5. /\ lap \in PacketSet /\ lap.type \in {"normal", "unsync"}
      /\ lap.dead = m.packet.dead /\ lap.flags = m.packet.flags
  BY <1>4, NewLapIs
<1> HIDE DEF lap
<1>6. MayHold(p, m, FlagsAdded(p, lap))
  BY <1>2, <1>5, FlagsAddedIs DEF MayHold
<1>7. /\ s \in StatusSet /\ s.state \in {"startingUp", "active", "comingDown"} /\ s.accept
      /\ s.upring = status[p].upring /\ s.lastValid = m.seq /\ s.downring = m.from
  BY <1>2, SeenIs, LiveIs
<1> HIDE DEF s
<1> QED BY <1>1, <1>2, <1>3, <1>6, <1>7, PassInv

LEMMA WaitInv ==
  ASSUME NEW h, Before(h), RingInv', NEW p \in Players, NEW m \in net, m.to = p, InGame(p),
         ReceiveAndWait(p, m)
  PROVE  StreamInv'
<1> DEFINE s == Live(m, Seen(p, m))
           kept == [m.packet EXCEPT !.type = "normal"]
           t == [s EXCEPT !.clearToForward = TRUE, !.buffer = kept]
<1>1. /\ Normal(p, m) /\ Processed(p, m.packet) /\ status' = [status EXCEPT ![p] = t]
      /\ net' = net
  BY DEF ReceiveAndWait
<1>2. /\ Taken(p, m) /\ m.packet.type # "unsync" /\ m.packet \in PacketSet
      /\ p \notin m.packet.dead /\ RingInv /\ Linked /\ ~ Out(p)
  BY <1>1, NormalIs
<1>3. Plays(p, m)
  BY <1>1, <1>2, PlaysIs DEF Linked
<1>4. /\ kept \in PacketSet /\ kept.type = "normal" /\ kept.dead = m.packet.dead
      /\ kept.flags = m.packet.flags
  BY <1>2 DEF PacketSet, PacketTypes
<1> HIDE DEF kept
<1>5. /\ s \in StatusSet /\ s.state \in {"startingUp", "active", "comingDown"} /\ s.accept
      /\ s.upring = status[p].upring /\ s.lastValid = m.seq /\ s.downring = m.from
  BY <1>2, SeenIs, LiveIs
<1> HIDE DEF s
<1>6. /\ t.state = s.state /\ t.accept /\ t.upring = s.upring /\ t.lastValid = s.lastValid
      /\ t.downring = s.downring /\ t.clearToForward /\ t.buffer = kept
  BY <1>5 DEF StatusSet
<1> HIDE DEF t
<1>7. Step(p, t)
  <2>1. played' \in PlayedSet
    BY <1>3 DEF Plays
  <2> QED BY <1>1, <1>2, <1>5, <1>6, <2>1, StepIs DEF RingInv, Typed
<1>8. Linked'
  <2>1. \A x \in net' : x \in net
    BY <1>1
  <2>2. InGame(p)
    OBVIOUS
  <2> QED BY <1>2, <1>5, <1>6, <1>7, <2>1, LinkedStill
<1>9. Moves(p, m, t)
  <2>1. Held(t) = kept
    BY <1>6 DEF Held
  <2>2. Quiet(kept) /\ kept.dead = m.packet.dead \ {p}
    BY <1>2, <1>4 DEF Quiet, PacketSet
  <2> QED BY <1>1, <1>3, <1>4, <1>5, <1>6, <2>1, <2>2 DEF Moves, Plays
<1>10. RingAt(p)'
  BY <1>2, <1>7, <1>9, MovesStep
<1> QED BY <1>8, <1>10 DEF StreamInv

LEMMA ForwardsInv ==
  ASSUME NEW h, Before(h), RingInv', NEW p \in Players, NEW n \in 1 .. MaxRequired,
         ServerTaskForwards(p, n)
  PROVE  StreamInv'
<1> DEFINE old == status[p].buffer
           lap == NewLap(status[p], old, n)
           packet == FlagsAdded(p, lap)
           t == Sending(status[p], packet)
<1>1. /\ InGame(p) /\ status[p].clearToForward /\ played' = played
      /\ status' = [status EXCEPT ![p] = t]
      /\ net' = net \cup {Ack(p, status[p].downring, status[p].lastValid), RingFrame(p, t, "ring")}
  BY DEF ServerTaskForwards, FlagsPassedOn, PassedOn
<1>2. /\ RingInv /\ Linked /\ HeadOK(h) /\ TokenOK(h) /\ h \in Players /\ played \in PlayedSet
      /\ status[p] \in StatusSet /\ old \in PacketSet
  BY Player DEF Before, RingAt, Linked
<1>3. p = h /\ Waiting(h) /\ ~ Out(p)
  BY <1>1, <1>2 DEF HeadOK, Waiting
<1>4. old.type = "normal" /\ p \notin old.dead
  BY <1>2, <1>3 DEF TokenOK, Token
<1>5. status[p].accept
  BY <1>2, <1>3, <1>1, Player DEF Out
<1> HIDE DEF old
<1>6. lap \in PacketSet /\ lap.type \in {"normal", "unsync"} /\ lap.dead = old.dead /\ lap.flags = old.flags
  BY <1>2, <1>4, NewLapIs
<1> HIDE DEF lap
<1>7. /\ packet \in PacketSet /\ packet.dead = old.dead \ {p} /\ Quiet(packet)
      /\ \A q \in Players \ {p} : packet.flags[q] = old.flags[q]
  BY <1>2, <1>4, <1>6, FlagsAddedIs
<1> HIDE DEF packet
<1>8. /\ t.state = status[p].state /\ t.accept /\ t.upring = status[p].upring
      /\ t.lastValid = status[p].lastValid /\ t.downring = status[p].downring
      /\ ~ t.clearToForward /\ t.ringFrame = packet
  BY <1>2, <1>5 DEF Sending, StatusSet
<1>9. RingFrame(p, t, "ring") =
        [from |-> p, to |-> t.upring, tag |-> "ring", seq |-> t.lastValid + 1,
         packet |-> t.ringFrame]
  BY DEF RingFrame, RingPacket
<1> HIDE DEF t
<1>10. \A x \in net' :
        \/ x \in net \/ x.tag = "ack"
        \/ /\ x.from = p /\ x.to = t.upring /\ x.tag = "ring"
           /\ x.seq = t.lastValid + 1 /\ x.packet = t.ringFrame
  BY <1>1, <1>9 DEF Ack
<1>11. Step(p, t)
  BY <1>1, <1>2, <1>3, <1>8, StepIs DEF RingInv, Typed, InGame
<1>12. Linked'
  <2>1. \A x \in net' : x \in net \/ x.tag # "change"
    BY <1>10
  <2> QED BY <1>1, <1>2, <1>8, <1>11, <2>1, LinkedStill
<1>13. Forwards(h, t)
  BY <1>1, <1>3, <1>7, <1>8, <1>10 DEF Forwards, old
<1>14. RingAt(h)'
  BY <1>3, <1>11, <1>13, ForwardStep
<1> QED BY <1>2, <1>12, <1>14 DEF StreamInv

\* Who drops its neighbour has sent it the packet last, or, when the packet has gone on
\* since, says to the next one what that one has got already.
LEMMA DropInv ==
  ASSUME NEW h, Before(h), WordsOK, RingInv', OnlyOneOut', NEW p \in Players, DropUpring(p)
  PROVE  StreamInv'
<1> DEFINE old == status[p].upring
           t == [status[p] EXCEPT
                   !.upring = Next_(old),
                   !.server = IF Crowned(p, old) THEN p ELSE @,
                   !.iAmTheServer = @ \/ Crowned(p, old),
                   !.ringFrame = Buried(@, old)]
<1>1. /\ status[p].state = "active" /\ Unanswered(p) /\ Noted(p) /\ played' = played
      /\ status' = [status EXCEPT ![p] = t]
      /\ net' = net \cup {RingFrame(p, t, "change")}
  BY DEF DropUpring
<1>17. Hopeless(p)
  BY <1>1 DEF Noted, OnlyOneOut
<1>2. /\ RingInv /\ Linked /\ OnlyOneOut /\ HeadOK(h) /\ Ahead(h) /\ h \in Players
      /\ played \in PlayedSet /\ status[p] \in StatusSet /\ AllStarted
      /\ old \in Players /\ StatusOK(Lost, p, status[p]) /\ status[p].lastValid \in Nat
  BY <1>1, Player DEF Before, RingAt, Linked
<1>3. /\ t.upring = Next_(old) /\ t.ringFrame = Buried(status[p].ringFrame, old)
      /\ t.state = status[p].state /\ t.accept = status[p].accept
      /\ t.lastValid = status[p].lastValid /\ t.downring = status[p].downring
      /\ t.clearToForward = status[p].clearToForward /\ t.buffer = status[p].buffer
      /\ t.receivedAck = status[p].receivedAck
  BY <1>2 DEF StatusSet
<1>4. RingFrame(p, t, "change") =
        [from |-> p, to |-> t.upring, tag |-> "change", seq |-> t.lastValid + 1,
         packet |-> t.ringFrame]
  BY DEF RingFrame, RingPacket
<1> HIDE DEF t
<1>5. status[p].accept /\ InGame(p) /\ ~ Out(p)
  BY <1>1, <1>2 DEF StatusOK, InGame, Out
<1>6. ~ status[p].receivedAck /\ ~ status[p].clearToForward
  BY <1>1, <1>17 DEF Unanswered, Hopeless
<1>7. Out(old)
  <2>1. status[p].ringFrame.type # "unsync"
    BY <1>1, <1>2, <1>6 DEF StatusOK
  <2>2. ~ InGame(old) \/ ~ status[old].accept
    BY <1>17, <2>1 DEF Hopeless
  <2> QED BY <1>2, <2>2, InRing DEF AllStarted, Out
<1>8. old = Next_(p) /\ Next_(p) \in Players /\ Next_(old) \in Players /\ p # old
  <2>1. /\ Next_(p) \in Players /\ Next_(Next_(p)) \in Players /\ Next_(Next_(p)) # Next_(p)
        /\ Next_(p) # p
    BY Neighbours
  <2>2. old = Next_(p) \/ (Out(Next_(p)) /\ old = Next_(Next_(p)))
    BY <1>2, <1>5 DEF Linked, PlayerInRing
  <2> QED BY <1>2, <1>7, <2>1, <2>2 DEF OnlyOneOut
<1>9. Step(p, t)
  BY <1>1, <1>2, <1>3, <1>5, StepIs DEF RingInv, Typed
<1>16. PICK gone \in Players : gone = old
  BY <1>2
<1>10. Out(gone)' /\ status'[p] = t /\ \A q \in Players : q # p => status'[q] = status[q]
  <2>1. Out(gone)
    BY <1>7, <1>16 DEF Out, Started
  <2>2. /\ status'[p] = t /\ \A q \in Players : q # p => status'[q] = status[q]
        /\ \A q \in Players : Out(q) => Out(q)'
    BY <1>2, <1>9, Steps
  <2> QED BY <2>1, <2>2
<1>11. PICK frame : frame = RingFrame(p, t, "change")
  OBVIOUS
<1>12. /\ frame.from = p /\ frame.to = t.upring /\ frame.seq = t.lastValid + 1
       /\ frame.packet = t.ringFrame
       /\ \A x \in net' : x \in net \/ x = frame
  BY <1>1, <1>4, <1>11
<1>13. Linked'
  <2>1. ChangeOK(frame)'
    <3>1. Previous(frame.to) = gone /\ Next_(frame.from) = gone /\ frame.from = p
      BY <1>3, <1>8, <1>12, <1>16, Around
    <3>2. Next_(gone) # gone /\ status'[p].upring = Next_(gone)
      BY <1>3, <1>10, <1>16, Neighbours
    <3> QED BY <1>10, <3>1, <3>2 DEF ChangeOK, Previous, Next_
  <2>2. \A x \in net' : x \in net \/ ChangeOK(x)'
    BY <1>12, <2>1
  <2>3. Out(Next_(p))' /\ t.upring = Next_(Next_(p))
    <3>1. gone = Next_(p)
      BY <1>8, <1>16
    <3>2. Out(Next_(p))'
      BY <1>10, <3>1
    <3> QED BY <1>3, <1>8, <3>2
  <2> QED BY <1>2, <1>9, <2>2, <2>3, LinkedStill
<1>14. CASE p = h
  <2>1. Buries(h, t)
    <3>1. \A x \in net' :
            \/ x \in net
            \/ /\ x.from = h /\ x.to = t.upring /\ x.seq = t.lastValid + 1
               /\ x.packet = t.ringFrame
      BY <1>12, <1>14
    <3> QED BY <1>1, <1>3, <1>5, <1>6, <1>7, <1>8, <1>14, <3>1 DEF Buries, Waiting
  <2>2. Next_(h) \notin status[h].ringFrame.dead
    BY <1>2, <1>5, <1>8, <1>14, DroppedOnce
  <2>3. RingAt(h)'
    BY <1>9, <1>14, <2>1, <2>2, BuryStep
  <2> QED BY <1>2, <1>13, <2>3 DEF StreamInv
<1>15. CASE p # h
  <2>1. HasSent(p)
    BY <1>6 DEF HasSent
  <2>2. Quietly(h, p, t)
    BY <1>1, <1>2, <1>3, <1>5, <1>7, <1>15, <2>1 DEF Quietly, InGame
  <2>3. NextIn(p) = Next_(old)
    BY <1>7, <1>8 DEF NextIn
  <2>4. status[p].lastValid < status[Next_(old)].lastValid
    BY <1>2, <1>5, <1>15, <2>1, <2>3 DEF Ahead, Ins
  <2>5. status[Next_(old)].lastValid \in Nat
    BY <1>2, <1>8, Player
  <2>6. ~ (frame.seq > status'[frame.to].lastValid)
    <3>1. frame.to = Next_(old) /\ frame.seq = status[p].lastValid + 1
      BY <1>3, <1>12
    <3>2. status'[Next_(old)].lastValid = status[Next_(old)].lastValid
      BY <1>3, <1>8, <1>10
    <3> QED BY <1>2, <2>4, <2>5, <3>1, <3>2
  <2>7. RingAt(h)'
    BY <1>9, <1>12, <2>2, <2>6, StillStep
  <2> QED BY <1>2, <1>13, <2>7 DEF StreamInv
<1> QED BY <1>14, <1>15

LEMMA HandleInv ==
  ASSUME NEW h, Before(h), RingInv', OnlyOneOut', NEW p \in Players, NEW m \in net, Handle(p, m)
  PROVE  StreamInv'
<1>1. InGame(p) /\ m.to = p
  BY DEF Handle
<1>2. CASE ReceiveAck(p, m)
  BY <1>1, <1>2, AckInv
<1>3. CASE ReceiveTooLate(p, m) \/ ReceiveLate(p, m)
  BY <1>1, <1>3, LateInv
<1>4. CASE ReceiveSync(p, m)
  BY <1>1, <1>4, ReceiveSyncInv
<1>5. CASE ReceiveTime(p, m)
  BY <1>1, <1>5, ReceiveTimeInv
<1>6. CASE ReceiveFlags(p, m)
  BY <1>1, <1>6, ReceiveFlagsInv
<1>7. CASE \E n \in 1 .. MaxRequired : ReceiveAtServer(p, m, n)
  BY <1>1, <1>7, ReceiveAtServerInv
<1>8. CASE ReceiveAndWait(p, m)
  BY <1>1, <1>8, WaitInv
<1>9. CASE ReceiveUnsync(p, m)
  BY <1>1, <1>9, UnsyncInv
<1>10. CASE IgnoreUnsync(p, m)
  BY <1>1, <1>10, IgnoreInv
<1> QED
  BY <1>2, <1>3, <1>4, <1>5, <1>6, <1>7, <1>8, <1>9, <1>10 DEF Handle

LEMMA StreamStep ==
  ASSUME RingInv, WordsOK, RingInv', OnlyOneOut, OnlyOneOut', StreamInv, Next
  PROVE  StreamInv'
<1>1. PICK h \in Players : RingAt(h)
  BY DEF StreamInv
<1>2. Before(h)
  BY <1>1 DEF Before, StreamInv
<1>3. PICK p \in Players :
        \/ Sync(p) \/ Leave(p)
        \/ \E m \in net : Handle(p, m)
        \/ ServerTask(p) \/ GiveUp(p) \/ DropUpring(p)
  BY DEF Next
<1>4. CASE Sync(p)
  BY <1>2, <1>4, SyncInv
<1>5. CASE Leave(p)
  BY <1>2, <1>5, LeaveInv
<1>6. CASE \E m \in net : Handle(p, m)
  BY <1>2, <1>6, HandleInv
<1>7. CASE ServerTask(p)
  BY <1>2, <1>7, EarlyInv, ForwardsInv DEF ServerTask
<1>8. CASE GiveUp(p)
  BY <1>2, <1>8, GiveUpInv
<1>9. CASE DropUpring(p)
  BY <1>2, <1>9, DropInv
<1> QED BY <1>3, <1>4, <1>5, <1>6, <1>7, <1>8, <1>9

\* At the start the first server has the packet.
LEMMA StreamInit == Init => StreamInv
<1> SUFFICES ASSUME Init PROVE StreamInv
  OBVIOUS
<1>1. /\ \A p \in Players : status[p] = OutOfGame("uninitialized")
      /\ net = {} /\ \A p, q \in Players : played[p][q] = <<>>
      /\ played \in PlayedSet
  <2>1. [q \in Players |-> <<>>] \in [Players -> Seq(Nat)]
    OBVIOUS
  <2> QED BY <2>1 DEF Init, PlayedSet
<1>2. \A p \in Players :
        /\ ~ Started(p) /\ ~ Out(p) /\ ~ InGame(p) /\ ~ Waiting(p) /\ ~ HasSent(p)
        /\ status[p].ringFrame = FirstPacket
  BY <1>1 DEF Started, Out, InGame, Waiting, HasSent, OutOfGame
<1>3. Linked
  BY <1>1, <1>2 DEF Linked, PlayerInRing
<1>4. Ins = Players /\ Others = {} /\ Token(Server) = FirstPacket
  BY <1>2, Ring DEF Ins, Others, Token
<1>5. /\ FirstPacket \in PacketSet /\ FirstPacket.dead = {} /\ Quiet(FirstPacket)
      /\ \A q \in Players : FirstPacket.flags[q] = <<>>
  BY FirstPacketTyped DEF FirstPacket, Quiet
<1>6. ASSUME NEW who, NEW in \in SUBSET Players, NEW rest \in SUBSET Players, NEW q \in Players
      PROVE  StreamOf(FirstPacket, who, q, in, rest, played)
  <2>1. <<>> \in Seq(Nat) /\ <<>> \o <<>> = <<>>
    BY ConcatTyped
  <2>2. IsPrefix(<<>>, <<>>)
    BY <2>1, PrefixOfConcat
  <2>3. PlaysWords(<<>>, <<>>, who, q, in, rest, played)
    BY <1>1, <2>1, <2>2 DEF PlaysWords
  <2> QED BY <1>5, <2>1, <2>3 DEF StreamOf
<1>7. HeadOK(Server) /\ Ahead(Server)
  BY <1>2, Ring DEF HeadOK, Ahead, Ins
<1>8. TokenOK(Server)
  BY <1>2, <1>4, <1>5, <1>6, Ring DEF TokenOK
<1>9. BackOK(Server)
  <2>1. Previous(Server) \in Players /\ status[Previous(Server)].ringFrame = FirstPacket
    BY <1>2, Neighbours, Ring
  <2>2. Players \ {Server} \in SUBSET Players /\ {Server} \in SUBSET Players
    BY Ring
  <2> QED BY <1>4, <1>5, <1>6, <2>1, <2>2 DEF BackOK, Back
<1>10. FreshOK(Server)
  BY <1>1 DEF FreshOK
<1> QED BY <1>3, <1>7, <1>8, <1>9, <1>10, Ring DEF StreamInv, RingAt

\* Who takes no packets any more never does again, whatever happens.
OutStays(p) ==
  \E t : status' = [status EXCEPT ![p] = t] /\ (Out(p) => t.state # "uninitialized" /\ ~ t.accept)

LEMMA TaskOutStays ==
  ASSUME RingInv, NEW p \in Players, NEW n,
         Sync(p) \/ Leave(p) \/ ServerTaskEarly(p) \/ ServerTaskForwards(p, n) \/ GiveUp(p)
         \/ DropUpring(p)
  PROVE  OutStays(p)
<1>1. status[p] \in StatusSet
  BY Player
<1>2. CASE Sync(p)
  BY <1>2 DEF Sync, OutStays, Out, Started
<1>3. CASE UnSyncBegins(p)
  <2> DEFINE t == [status[p] EXCEPT !.state = "comingDown"]
  <2>1. status' = [status EXCEPT ![p] = t]
    BY <1>3 DEF UnSyncBegins
  <2>2. t.state = "comingDown" /\ t.accept = status[p].accept
    BY <1>1 DEF StatusSet
  <2> QED BY <2>1, <2>2 DEF OutStays, Out
<1>4. CASE UnSyncEnds(p) \/ SyncTimesOut(p) \/ UnSyncTimesOut(p) \/ Crash(p)
  <2>1. /\ OutOfGame("down").state = "down" /\ ~ OutOfGame("down").accept
        /\ OutOfGame("gone").state = "gone" /\ ~ OutOfGame("gone").accept
    BY DEF OutOfGame
  <2> QED
    BY <1>4, <2>1 DEF UnSyncEnds, SyncTimesOut, UnSyncTimesOut, Crash, IsGone, OutStays
<1>5. CASE ServerTaskEarly(p) \/ GiveUp(p)
  BY <1>1, <1>5 DEF ServerTaskEarly, GiveUp, OutStays, Out, Started, StatusSet
<1>6. CASE ServerTaskForwards(p, n)
  <2> DEFINE lap == NewLap(status[p], status[p].buffer, n)
             t == Sending(status[p], FlagsAdded(p, lap))
  <2>1. status' = [status EXCEPT ![p] = t]
    BY <1>6 DEF ServerTaskForwards, FlagsPassedOn, PassedOn
  <2>2. t.state = status[p].state /\ t.accept = status[p].accept
    BY <1>1 DEF Sending, StatusSet
  <2> QED BY <2>1, <2>2 DEF OutStays, Out, Started
<1>7. CASE DropUpring(p)
  <2> DEFINE old == status[p].upring
             t == [status[p] EXCEPT
                     !.upring = Next_(old),
                     !.server = IF Crowned(p, old) THEN p ELSE @,
                     !.iAmTheServer = @ \/ Crowned(p, old),
                     !.ringFrame = Buried(@, old)]
  <2>1. status' = [status EXCEPT ![p] = t]
    BY <1>7 DEF DropUpring
  <2>2. t.state = status[p].state /\ t.accept = status[p].accept
    BY <1>1 DEF StatusSet
  <2> QED BY <2>1, <2>2 DEF OutStays, Out, Started
<1> QED BY <1>2, <1>3, <1>4, <1>5, <1>6, <1>7 DEF Leave

LEMMA HandleOutStays ==
  ASSUME RingInv, NEW p \in Players, NEW m, Handle(p, m)
  PROVE  OutStays(p)
<1>1. status[p] \in StatusSet
  BY Player
<1>2. CASE ReceiveAck(p, m) \/ ReceiveTooLate(p, m)
  BY <1>1, <1>2 DEF ReceiveAck, ReceiveTooLate, WithDownring, OutStays, Out, Started, StatusSet
<1>3. CASE ReceiveLate(p, m)
  BY <1>3 DEF ReceiveLate, OutStays, Out
<1>4. CASE ReceiveSync(p, m) \/ ReceiveTime(p, m) \/ IgnoreUnsync(p, m)
  BY <1>4 DEF ReceiveSync, ReceiveTime, IgnoreUnsync, ReceiveNew, PassedOn, OutStays, Out
<1>5. CASE ReceiveFlags(p, m) \/ ReceiveAndWait(p, m)
  BY <1>5 DEF ReceiveFlags, ReceiveAndWait, Normal, ReceiveNew, FlagsPassedOn, PassedOn, OutStays, Out
<1>6. CASE \E n \in 1 .. MaxRequired : ReceiveAtServer(p, m, n)
  BY <1>6 DEF ReceiveAtServer, Normal, ReceiveNew, FlagsPassedOn, PassedOn, OutStays, Out
<1>7. CASE ReceiveUnsync(p, m)
  BY <1>7 DEF ReceiveUnsync, ReceiveNew, PassedOn, OutStays, Out
<1> QED BY <1>2, <1>3, <1>4, <1>5, <1>6, <1>7 DEF Handle

\* Who was dropped hastily stays so.
LEMMA HastyStays ==
  ASSUME NEW p \in Players,
         \/ Sync(p) \/ Leave(p)
         \/ \E m \in net : Handle(p, m)
         \/ ServerTask(p) \/ GiveUp(p) \/ DropUpring(p)
  PROVE  hasty \subseteq hasty'
<1>1. CASE Sync(p) \/ Leave(p)
  BY <1>1 DEF Sync, Leave, UnSyncBegins, UnSyncEnds, UnSyncTimesOut, SyncTimesOut, Crash, IsGone
<1>2. CASE \E m \in net : Handle(p, m)
  <2>1. PICK m \in net : Handle(p, m)
    BY <1>2
  <2>2. CASE ReceiveAck(p, m) \/ ReceiveTooLate(p, m) \/ ReceiveLate(p, m) \/ IgnoreUnsync(p, m)
    BY <2>2 DEF ReceiveAck, ReceiveTooLate, ReceiveLate, IgnoreUnsync
  <2>3. CASE ReceiveSync(p, m) \/ ReceiveTime(p, m) \/ ReceiveUnsync(p, m) \/ ReceiveAndWait(p, m)
    BY <2>3 DEF ReceiveSync, ReceiveTime, ReceiveUnsync, ReceiveAndWait
  <2>4. CASE ReceiveFlags(p, m) \/ \E n \in 1 .. MaxRequired : ReceiveAtServer(p, m, n)
    BY <2>4 DEF ReceiveFlags, ReceiveAtServer, FlagsPassedOn
  <2> QED BY <2>1, <2>2, <2>3, <2>4 DEF Handle
<1>3. CASE ServerTask(p)
  BY <1>3 DEF ServerTask, ServerTaskEarly, ServerTaskForwards, FlagsPassedOn
<1>4. CASE GiveUp(p) \/ DropUpring(p)
  BY <1>4 DEF GiveUp, DropUpring, Noted
<1> QED BY <1>1, <1>2, <1>3, <1>4

LEMMA OnlyOneBefore ==
  ASSUME RingInv, Next, OnlyOneOut'
  PROVE  OnlyOneOut
<1>1. PICK p \in Players :
        \/ Sync(p) \/ Leave(p)
        \/ \E m \in net : Handle(p, m)
        \/ ServerTask(p) \/ GiveUp(p) \/ DropUpring(p)
  BY DEF Next
<1>2. OutStays(p)
  BY <1>1, HandleOutStays, TaskOutStays DEF ServerTask
<1>3. ASSUME NEW q \in Players, Out(q) PROVE Out(q)'
  BY <1>2, <1>3 DEF OutStays, Out, Started, RingInv, Typed
<1>4. hasty = {}
  BY <1>1, HastyStays DEF OnlyOneOut
<1> QED BY <1>3, <1>4 DEF OnlyOneOut

\* The packet is where the invariant says, until a second player goes.
LEMMA StreamInvariant == Spec => [](OnlyOneOut => StreamInv)
<1>1. Init => StreamInv
  BY StreamInit
<1>2. RingInv /\ RingInv' /\ WordsOK /\ (OnlyOneOut => StreamInv) /\ [Next]_vars
        => (OnlyOneOut => StreamInv)'
  <2> SUFFICES ASSUME RingInv, RingInv', WordsOK, OnlyOneOut', OnlyOneOut => StreamInv, [Next]_vars
               PROVE  StreamInv'
    OBVIOUS
  <2>1. CASE Next
    BY <2>1, OnlyOneBefore, StreamStep
  <2>2. CASE UNCHANGED vars
    <3>1. status' = status /\ net' = net /\ played' = played /\ hasty' = hasty
      BY <2>2 DEF vars
    <3>4. StreamInv
      BY <3>1 DEF OnlyOneOut, Out, Started
    <3>2. /\ Linked' <=> Linked
          /\ Ins' = Ins /\ Others' = Others
          /\ \A h \in Players : Token(h)' = Token(h)
      BY <3>1 DEF Linked, ChangeOK, PlayerInRing, InGame, Started, Out, Ins, Others, Token,
                  Waiting
    <3>3. ASSUME NEW h \in Players, RingAt(h) PROVE RingAt(h)'
      <4>1. HeadOK(h)' /\ Ahead(h)'
        BY <3>1, <3>2, <3>3
           DEF RingAt, HeadOK, Ahead, Out, Started, Waiting, HasSent, NextIn
      <4>2. TokenOK(h)'
        BY <3>1, <3>2, <3>3
           DEF RingAt, TokenOK, Having, Waiting, Reached, Dist, Quiet, Out, Started
      <4>3. BackOK(h)'
        BY <3>1, <3>2, <3>3 DEF RingAt, BackOK, Back, Quiet, Reached, Dist
      <4>4. FreshOK(h)'
        BY <3>1, <3>2, <3>3
           DEF RingAt, FreshOK, Fresh, FromHead, FromOut, LastWords, Waiting, Quiet, Out, Started
      <4> QED BY <4>1, <4>2, <4>3, <4>4 DEF RingAt
    <3> QED BY <3>2, <3>3, <3>4 DEF StreamInv
  <2> QED BY <2>1, <2>2
<1> QED BY <1>1, <1>2, RingInvariant, WordsInvariant, PTL DEF Spec

\* As long as only one player has gone out of the ring, whoever it is and wherever the packet
\* was then, and no other is dropped, RingGameProtocol has all the others play the same
\* flags of everybody.
THEOREM StreamsStayAlike == Spec => [](OnlyOneOut => SameStreams)
<1>1. RingInv /\ StreamInv => SameStreams
  <2> SUFFICES ASSUME RingInv, StreamInv, NEW p1 \in Players, NEW p2 \in Players,
                      status[p1].state # "gone", status[p2].state # "gone", NEW q \in Players
               PROVE  Alike(played[p1][q], played[p2][q])
    BY DEF SameStreams
  <2>1. PICK h \in Players : RingAt(h)
    BY DEF StreamInv
  <2>2. StreamOf(Token(h), Having(q, h), q, Ins, Others, played)
    BY <2>1 DEF RingAt, TokenOK
  <2>3. Token(h) \in PacketSet /\ played \in PlayedSet
    BY Player DEF Token, StreamInv, Linked
  <2>4. Ins \in SUBSET Players /\ Others \in SUBSET Players
    BY DEF Ins, Others
  <2>5. p1 \in Ins \cup Others /\ p2 \in Ins \cup Others
    BY InRing
  <2> QED BY <2>2, <2>3, <2>4, <2>5, StreamsAlike
<1> QED BY <1>1, RingInvariant, StreamInvariant, PTL

-----------------------------------------------------------------------------
(***************************************************************************)
(* The kinds of steps                                                      *)
(***************************************************************************)
\* What would be taken if it arrived, wherever it comes from.
MayBeTaken(m) ==
  m.tag # "ack" /\ m.from # m.to /\ ~ Out(m.to) /\ m.seq > status[m.to].lastValid

AlsoSends(x, p, t) ==
  /\ x.tag # "ack" /\ x.from = p /\ x.to = t.upring /\ x.seq = t.lastValid + 1
  /\ x.packet = t.ringFrame

\* A step of player p that leaves its packets as they are.
MinorTo(p, t) ==
  /\ t \in StatusSet /\ status' = [status EXCEPT ![p] = t] /\ InGame(p)
  /\ made' = made /\ played' = played
  /\ \A x \in net' : x \in net \/ x.tag = "ack"
  /\ t.upring = status[p].upring /\ t.lastValid = status[p].lastValid
  /\ t.ringFrame = status[p].ringFrame /\ t.buffer = status[p].buffer
  /\ t.clearToForward = status[p].clearToForward
  /\ t.iAmTheServer = status[p].iAmTheServer
  /\ t.accept => status[p].accept
  /\ \/ t.state = status[p].state
     \/ t.state = "comingDown" /\ status[p].state = "active" /\ GameOver

\* One by which it takes the packet in m and passes on another one.
PassTo(p, m, t) ==
  /\ m \in net /\ m.to = p /\ MayBeTaken(m) /\ InGame(p) /\ m.packet \in PacketSet
  /\ t \in StatusSet /\ status' = [status EXCEPT ![p] = t]
  /\ t.upring = status[p].upring /\ t.lastValid = m.seq
  /\ ~ t.clearToForward /\ t.iAmTheServer = status[p].iAmTheServer
  /\ \A x \in net' : x \in net \/ x.tag = "ack" \/ AlsoSends(x, p, t)

LEMMA MinorIs ==
  ASSUME RingInv, NEW p \in Players, NEW m \in net,
         InGame(p) /\ \/ ReceiveAck(p, m) \/ ReceiveTooLate(p, m) \/ ReceiveLate(p, m)
                      \/ IgnoreUnsync(p, m)
  PROVE  \E t : MinorTo(p, t) /\ t.accept = status[p].accept
<1> DEFINE same(t) ==
      /\ t \in StatusSet /\ t.upring = status[p].upring /\ t.lastValid = status[p].lastValid
      /\ t.ringFrame = status[p].ringFrame /\ t.buffer = status[p].buffer
      /\ t.clearToForward = status[p].clearToForward
      /\ t.iAmTheServer = status[p].iAmTheServer
      /\ t.accept = status[p].accept /\ t.state = status[p].state
<1>1. /\ status[p] \in StatusSet /\ m.from \in Players /\ status[p].lastValid \in Nat
  BY Player, Message
<1>2. same([status[p] EXCEPT !.receivedAck = TRUE])
  BY <1>1 DEF StatusSet
<1>3. same(WithDownring(p, m))
  BY <1>1 DEF WithDownring, StatusSet
<1>4. IgnoreUnsync(p, m) => same([Seen(p, m) EXCEPT !.lastValid = status[p].lastValid])
  <2> SUFFICES ASSUME IgnoreUnsync(p, m)
               PROVE  same([Seen(p, m) EXCEPT !.lastValid = status[p].lastValid])
    OBVIOUS
  <2>1. m.packet.server \in Players
    BY Message DEF IgnoreUnsync, ReceiveNew, ForMe
  <2>2. PICK d : d = WithDownring(p, m)
    OBVIOUS
  <2>3. [Seen(p, m) EXCEPT !.lastValid = status[p].lastValid]
          = [[d EXCEPT !.server = m.packet.server, !.lastValid = m.seq]
               EXCEPT !.lastValid = status[p].lastValid]
    BY <2>2 DEF Seen
  <2> QED BY <1>1, <1>3, <2>1, <2>2, <2>3 DEF StatusSet
<1>5. /\ made' = made /\ played' = played
      /\ \A x \in net' : x \in net \/ x.tag = "ack"
      /\ \E t : same(t) /\ status' = [status EXCEPT ![p] = t]
  <2>1. CASE ReceiveAck(p, m)
    BY <1>2, <2>1 DEF ReceiveAck
  <2>2. CASE ReceiveTooLate(p, m) \/ ReceiveLate(p, m)
    BY <1>3, <2>2 DEF ReceiveTooLate, ReceiveLate, Ack
  <2>3. CASE IgnoreUnsync(p, m)
    BY <1>4, <2>3 DEF IgnoreUnsync
  <2> QED BY <2>1, <2>2, <2>3
<1> QED BY <1>5 DEF MinorTo

LEMMA TaskIsMinor ==
  ASSUME RingInv, NEW p \in Players, ServerTaskEarly(p) \/ UnSyncBegins(p) \/ GiveUp(p)
  PROVE  \E t : MinorTo(p, t) /\ (t.accept = status[p].accept \/ GiveUp(p))
<1>1. status[p] \in StatusSet
  BY Player
<1>2. CASE ServerTaskEarly(p)
  <2> DEFINE t == [status[p] EXCEPT !.canForward = TRUE]
  <2>1. /\ t \in StatusSet /\ t.upring = status[p].upring /\ t.lastValid = status[p].lastValid
        /\ t.ringFrame = status[p].ringFrame /\ t.buffer = status[p].buffer
        /\ t.clearToForward = status[p].clearToForward
        /\ t.iAmTheServer = status[p].iAmTheServer
        /\ t.accept = status[p].accept /\ t.state = status[p].state
    BY <1>1 DEF StatusSet
  <2>2. /\ status' = [status EXCEPT ![p] = t] /\ InGame(p)
        /\ net' = net /\ made' = made /\ played' = played
    BY <1>2 DEF ServerTaskEarly
  <2> HIDE DEF t
  <2> QED BY <2>1, <2>2 DEF MinorTo
<1>3. CASE UnSyncBegins(p)
  <2> DEFINE t == [status[p] EXCEPT !.state = "comingDown"]
  <2>1. /\ t \in StatusSet /\ t.upring = status[p].upring /\ t.lastValid = status[p].lastValid
        /\ t.ringFrame = status[p].ringFrame /\ t.buffer = status[p].buffer
        /\ t.clearToForward = status[p].clearToForward
        /\ t.iAmTheServer = status[p].iAmTheServer
        /\ t.accept = status[p].accept /\ t.state = "comingDown"
    BY <1>1 DEF StatusSet, States
  <2>2. /\ status' = [status EXCEPT ![p] = t] /\ InGame(p) /\ GameOver
        /\ status[p].state = "active" /\ net' = net /\ made' = made /\ played' = played
    BY <1>3 DEF UnSyncBegins, InGame
  <2> HIDE DEF t
  <2> QED BY <2>1, <2>2 DEF MinorTo
<1>4. CASE GiveUp(p)
  <2> DEFINE t == [status[p] EXCEPT !.accept = FALSE]
  <2>1. /\ t \in StatusSet /\ t.upring = status[p].upring /\ t.lastValid = status[p].lastValid
        /\ t.ringFrame = status[p].ringFrame /\ t.buffer = status[p].buffer
        /\ t.clearToForward = status[p].clearToForward
        /\ t.iAmTheServer = status[p].iAmTheServer
        /\ ~ t.accept /\ t.state = status[p].state
    BY <1>1 DEF StatusSet
  <2>2. /\ status' = [status EXCEPT ![p] = t] /\ InGame(p)
        /\ net' = net /\ made' = made /\ played' = played
    BY <1>4 DEF GiveUp, InGame
  <2> HIDE DEF t
  <2> QED BY <1>4, <2>1, <2>2 DEF MinorTo
<1> QED BY <1>2, <1>3, <1>4

\* What is new is to be taken, by one that has not gone out.
LEMMA NewIsTaken ==
  ASSUME RingInv, NEW p \in Players, NEW m \in net, m.to = p, InGame(p), NEW type,
         ReceiveNew(p, m, type)
  PROVE  /\ MayBeTaken(m) /\ m.packet \in PacketSet /\ m.packet.type = type /\ ~ Out(p)
         /\ m.from \in Players /\ m.seq \in Nat /\ m.seq > status[p].lastValid
<1>1. /\ m.tag # "ack" /\ m.from # p /\ status[p].accept /\ m.packet.type = type
      /\ m.seq > status[p].lastValid
  BY DEF ReceiveNew, ForMe, IsNew
<1>2. ~ Out(p) /\ m.packet \in PacketSet /\ m.from \in Players /\ m.seq \in Nat
  BY <1>1, InRing, Message
<1> QED BY <1>1, <1>2 DEF MayBeTaken

LEMMA PassToIs ==
  ASSUME RingInv, NEW p \in Players, NEW m \in net, m.to = p, InGame(p), MayBeTaken(m),
         m.packet \in PacketSet, NEW s \in StatusSet, s.upring = status[p].upring,
         s.lastValid = m.seq, s.iAmTheServer = status[p].iAmTheServer,
         NEW packet \in PacketSet, PassedOn(p, s, packet)
  PROVE  LET t == Sending(s, packet)
         IN  /\ PassTo(p, m, t) /\ t.ringFrame = packet /\ t.state = s.state
             /\ t.accept = s.accept
<1> DEFINE t == Sending(s, packet)
<1>1. /\ status' = [status EXCEPT ![p] = t]
      /\ net' = net \cup {Ack(p, s.downring, s.lastValid), RingFrame(p, t, "ring")}
  BY DEF PassedOn
<1>2. /\ t \in StatusSet /\ t.state = s.state /\ t.upring = s.upring
      /\ t.lastValid = s.lastValid /\ t.accept = s.accept /\ t.ringFrame = packet
      /\ t.iAmTheServer = s.iAmTheServer /\ ~ t.clearToForward
  BY DEF StatusSet, Sending
<1> HIDE DEF t
<1>3. \A x \in net' : x \in net \/ x.tag = "ack" \/ AlsoSends(x, p, t)
  <2>1. AlsoSends(RingFrame(p, t, "ring"), p, t)
    BY DEF RingFrame, RingPacket, AlsoSends
  <2> QED BY <1>1, <2>1 DEF Ack
<1> QED BY <1>1, <1>2, <1>3 DEF PassTo, t

-----------------------------------------------------------------------------
(***************************************************************************)
(* After the last flags                                                    *)
(***************************************************************************)
\* No words, and none asked for.
Empty(packet) ==
  /\ packet.type \in {"normal", "unsync"} /\ packet.required = 0
  /\ \A q \in Players : packet.flags[q] = <<>>

\* The words in the packet that p has sent last have been taken by all up to the player
\* they are of, but for those that take nothing.
FrameLate(p, s) ==
  /\ s.ringFrame.type \in {"normal", "unsync"} /\ s.ringFrame.required = 0
  /\ \A q \in Players : s.ringFrame.flags[q] # <<>> =>
       /\ q # p /\ Dist(p, s.upring) <= Dist(p, q)
       /\ \A r \in Players : r # p /\ Dist(p, r) <= Dist(p, q) =>
            Out(r) \/ s.lastValid < status[r].lastValid

\* Everybody has played everything, and nothing that could be taken has words in it.
Drained ==
  /\ \A p \in Players :
       /\ Started(p) /\ made[p] >= MaxWords
       /\ status[p].state = "active" /\ ~ Waiting(p) => FrameLate(p, status[p])
       /\ Waiting(p) => Empty(status[p].buffer)
       /\ status[p].state # "gone" => \A q \in Players : played[p][q] = WordsTo(made[q])
  /\ \A m \in net : MayBeTaken(m) => Empty(m.packet)

\* A step of player p, whose status becomes t.
DrainedStep(p, t) ==
  /\ status' = [status EXCEPT ![p] = t] /\ t.state # "uninitialized"
  /\ Out(p) => ~ t.accept
  /\ ~ t.accept \/ status[p].lastValid <= t.lastValid
  /\ t.state = "active" /\ ~ t.clearToForward =>
       \/ Empty(t.ringFrame)
       \/ /\ status[p].state = "active" /\ ~ Waiting(p) /\ t.upring = status[p].upring
          /\ t.lastValid = status[p].lastValid /\ t.ringFrame = status[p].ringFrame
       \/ FrameLate(p, t)
  /\ t.clearToForward => Empty(t.buffer)
  /\ made' = made
  /\ \A q \in Players \ {p} : played'[q] = played[q]
  /\ t.state # "gone" => status[p].state # "gone" /\ played'[p] = played[p]
  /\ \A m \in net' : m \in net \/ m.tag = "ack" \/ Empty(m.packet) \/ ~ MayBeTaken(m)'

LEMMA DrainedOn ==
  ASSUME RingInv, Drained, NEW p \in Players, NEW t, DrainedStep(p, t), t.lastValid \in Nat
  PROVE  Drained'
<1>1. /\ status'[p] = t /\ \A q \in Players : q # p => status'[q] = status[q]
      /\ \A q \in Players : status[q].lastValid \in Nat
  <2>1. status \in [Players -> StatusSet]
    BY DEF RingInv, Typed
  <2> QED BY <2>1, Player DEF DrainedStep
<1>2. /\ \A q \in Players : Started(q)'
      /\ \A q \in Players : Out(q) => Out(q)'
      /\ \A q \in Players : Out(q)' \/ status[q].lastValid <= status'[q].lastValid
  <2> SUFFICES ASSUME NEW q \in Players
               PROVE  /\ Started(q)' /\ (Out(q) => Out(q)')
                      /\ Out(q)' \/ status[q].lastValid <= status'[q].lastValid
    OBVIOUS
  <2>1. CASE q = p
    BY <1>1, <2>1 DEF DrainedStep, Started, Out
  <2>2. CASE q # p
    BY <1>1, <2>2 DEF Drained, Started, Out
  <2> QED BY <2>1, <2>2
<1>3. \A q \in Players : \A s : s.lastValid \in Nat /\ FrameLate(q, s) => FrameLate(q, s)'
  <2> SUFFICES ASSUME NEW q \in Players, NEW s, s.lastValid \in Nat, FrameLate(q, s), NEW w \in Players,
                      s.ringFrame.flags[w] # <<>>, NEW r \in Players, r # q,
                      Dist(q, r) <= Dist(q, w)
               PROVE  Out(r)' \/ s.lastValid < status'[r].lastValid
    BY DEF FrameLate, Dist
  <2>1. Out(r) \/ s.lastValid < status[r].lastValid
    BY DEF FrameLate
  <2>2. status'[r].lastValid \in Nat
    BY <1>1
  <2> QED BY <1>1, <1>2, <2>1, <2>2
<1>4. ASSUME NEW q \in Players, status'[q].state = "active", ~ status'[q].clearToForward PROVE FrameLate(q, status[q])'
  <2>1. CASE q # p
    <3>1. FrameLate(q, status[q]) /\ status'[q] = status[q]
      BY <1>1, <1>4, <2>1 DEF Drained, Waiting
    <3>2. PICK s : s = status[q] /\ s.lastValid \in Nat /\ FrameLate(q, s)
      BY <1>1, <3>1
    <3>3. FrameLate(q, s)'
      BY <1>3, <3>2
    <3> QED BY <3>1, <3>2, <3>3 DEF FrameLate
  <2>2. CASE q = p
    <3>1. PICK s : s = t /\ s.lastValid \in Nat
      OBVIOUS
    <3>2. CASE Empty(t.ringFrame)
      BY <1>1, <2>2, <3>2 DEF FrameLate, Empty
    <3>3. CASE FrameLate(p, t)
      <4>1. FrameLate(p, s)'
        BY <1>3, <3>1, <3>3
      <4> QED BY <1>1, <2>2, <3>1, <4>1 DEF FrameLate
    <3>4. CASE /\ status[p].state = "active" /\ ~ Waiting(p) /\ t.upring = status[p].upring
               /\ t.lastValid = status[p].lastValid /\ t.ringFrame = status[p].ringFrame
      <4>1. FrameLate(p, status[p])
        BY <3>4 DEF Drained
      <4>2. FrameLate(p, t)
        BY <3>4, <4>1 DEF FrameLate
      <4> QED BY <3>3, <4>2
    <3> QED BY <1>1, <1>4, <2>2, <3>2, <3>3, <3>4 DEF DrainedStep
  <2> QED BY <2>1, <2>2
<1>5. \A q \in Players :
        /\ Waiting(q)' => Empty(status'[q].buffer)
        /\ status'[q].state # "gone" => status[q].state # "gone" /\ played'[q] = played[q]
  <2> TAKE q \in Players
  <2>1. CASE q = p
    BY <1>1, <2>1 DEF DrainedStep, Waiting
  <2>2. CASE q # p
    BY <1>1, <2>2 DEF DrainedStep, Waiting, Drained
  <2> QED BY <2>1, <2>2
<1>6. made' = made
  BY DEF DrainedStep
<1>7. \A m \in net' : MayBeTaken(m)' => Empty(m.packet)
  <2> SUFFICES ASSUME NEW m \in net', MayBeTaken(m)' PROVE Empty(m.packet)
    OBVIOUS
  <2>1. CASE m \in net
    <3>1. m.to \in Players /\ m.seq \in Nat
      BY <2>1, Message
    <3>2. MayBeTaken(m)
      BY <1>1, <1>2, <3>1 DEF MayBeTaken
    <3> QED BY <2>1, <3>2 DEF Drained
  <2>2. CASE m \notin net
    BY <2>2 DEF MayBeTaken, DrainedStep
  <2> QED BY <2>1, <2>2
<1>8. \A q \in Players : Empty(status'[q].buffer) <=> Empty(status[q].buffer)'
  BY DEF Empty
<1>9. \A m \in net' : Empty(m.packet) <=> Empty(m.packet)'
  BY DEF Empty
<1> QED BY <1>2, <1>4, <1>5, <1>6, <1>7, <1>8, <1>9 DEF Drained, Waiting

LEMMA DrainedMinor ==
  ASSUME RingInv, Drained, NEW p \in Players, NEW t, MinorTo(p, t)
  PROVE  Drained'
<1>1. /\ t.lastValid \in Nat /\ t.lastValid = status[p].lastValid /\ InGame(p)
      /\ t.state \in {"startingUp", "active", "comingDown"}
      /\ status[p].state \in {"startingUp", "active", "comingDown"}
  BY DEF MinorTo, StatusSet, InGame
<1>2. DrainedStep(p, t)
  BY <1>1 DEF MinorTo, DrainedStep, Out, Drained, Waiting
<1> QED BY <1>1, <1>2, DrainedOn

LEMMA DrainedLeave ==
  ASSUME RingInv, Drained, WordsOK, NEW p \in Players, Leave(p)
  PROVE  Drained'
<1>1. CASE UnSyncBegins(p)
  BY <1>1, TaskIsMinor, DrainedMinor
<1>2. CASE UnSyncEnds(p)
  <2> DEFINE t == OutOfGame("down")
  <2>1. /\ status' = [status EXCEPT ![p] = t] /\ made' = made /\ played' = played /\ net' = net
        /\ status[p].state = "comingDown"
    BY <1>2 DEF UnSyncEnds
  <2>2. t.state = "down" /\ ~ t.accept /\ ~ t.clearToForward /\ t.lastValid = 0
    BY DEF OutOfGame
  <2> HIDE DEF t
  <2>3. DrainedStep(p, t)
    BY <2>1, <2>2 DEF DrainedStep
  <2> QED BY <2>2, <2>3, DrainedOn
<1>3. CASE SyncTimesOut(p) \/ UnSyncTimesOut(p) \/ Crash(p)
  <2> DEFINE t == OutOfGame("gone")
  <2>1. /\ status' = [status EXCEPT ![p] = t] /\ made' = made /\ net' = net
        /\ \A q \in Players \ {p} : played'[q] = played[q]
    BY <1>3 DEF SyncTimesOut, UnSyncTimesOut, Crash, IsGone, WordsOK, PlayedSet
  <2>2. t.state = "gone" /\ ~ t.accept /\ ~ t.clearToForward /\ t.lastValid = 0
    BY DEF OutOfGame
  <2> HIDE DEF t
  <2>3. DrainedStep(p, t)
    BY <2>1, <2>2 DEF DrainedStep
  <2> QED BY <2>2, <2>3, DrainedOn
<1> QED BY <1>1, <1>2, <1>3 DEF Leave

\* Who drops its neighbour, and does not keep a packet, says nothing to the next one that
\* it has not got.
LEMMA DrainedDrop ==
  ASSUME RingInv, Drained, NEW p \in Players, DropUpring(p), hasty' = {}
  PROVE  Drained'
<1> DEFINE old == status[p].upring
           frame == Buried(status[p].ringFrame, old)
           t == [status[p] EXCEPT
                   !.upring = Next_(old),
                   !.server = IF Crowned(p, old) THEN p ELSE @,
                   !.iAmTheServer = @ \/ Crowned(p, old),
                   !.ringFrame = Buried(@, old)]
<1>1. /\ status[p].state = "active" /\ Hopeless(p)
      /\ status' = [status EXCEPT ![p] = t] /\ made' = made /\ played' = played
      /\ net' = net \cup {RingFrame(p, t, "change")}
  BY DEF DropUpring, Noted
<1>2. /\ status[p] \in StatusSet /\ status[p].ringFrame \in PacketSet /\ old \in Players
      /\ StatusOK(Lost, p, status[p]) /\ status[p].lastValid \in Nat /\ Next_(old) \in Players
      /\ status \in [Players -> StatusSet]
  BY Player, Neighbours
<1>3. /\ t.upring = Next_(old) /\ t.ringFrame = frame /\ t.state = "active"
      /\ t.accept = status[p].accept /\ t.lastValid = status[p].lastValid
      /\ t.clearToForward = status[p].clearToForward /\ t.buffer = status[p].buffer
  BY <1>1, <1>2 DEF StatusSet
<1>4. /\ frame.type = status[p].ringFrame.type /\ frame.required = status[p].ringFrame.required
      /\ \A q \in Players :
           frame.flags[q] # <<>> => q # old /\ status[p].ringFrame.flags[q] # <<>>
  <2>1. PICK packet \in PacketSet : packet = status[p].ringFrame
    BY <1>2
  <2>2. /\ Moved(old, packet) \in PacketSet /\ Moved(old, packet).type = packet.type
        /\ Moved(old, packet).required = packet.required
    BY <1>2, MovedTyped
  <2>3. /\ frame.type = packet.type /\ frame.required = packet.required
    BY <2>1, <2>2 DEF Buried, PacketSet
  <2>4. /\ frame.flags[old] = <<>>
        /\ \A q \in Players : frame.flags[q] \in {<<>>, packet.flags[q], OneLate(packet.flags[q])}
    BY <1>2, <2>1, BuriedIs
  <2>5. \A q \in Players : packet.flags[q] = <<>> => OneLate(packet.flags[q]) = <<>>
    BY DEF OneLate
  <2> QED BY <2>1, <2>3, <2>4, <2>5
<1>5. RingFrame(p, t, "change") =
        [from |-> p, to |-> t.upring, tag |-> "change", seq |-> t.lastValid + 1, packet |-> t.ringFrame]
  BY DEF RingFrame, RingPacket
<1> HIDE DEF t, frame
<1>6. /\ FrameLate(p, status[p]) /\ ~ Waiting(p) /\ ~ Out(p)
  BY <1>1, <1>2, InRing DEF Drained, Hopeless, Waiting
<1>7. ASSUME NEW q \in Players, frame.flags[q] # <<>>
      PROVE  /\ q # p /\ Dist(p, Next_(old)) <= Dist(p, q)
             /\ \A r \in Players : r # p /\ Dist(p, r) <= Dist(p, q) =>
                  Out(r) \/ status[p].lastValid < status[r].lastValid
  <2>1. q # old /\ status[p].ringFrame.flags[q] # <<>>
    BY <1>4, <1>7
  <2>2. /\ q # p /\ Dist(p, old) <= Dist(p, q)
        /\ \A r \in Players : r # p /\ Dist(p, r) <= Dist(p, q) =>
             Out(r) \/ status[p].lastValid < status[r].lastValid
    BY <1>6, <2>1 DEF FrameLate
  <2>3. /\ Dist(p, old) \in 0 .. N - 1 /\ Dist(p, q) \in 0 .. N - 1
        /\ Dist(p, old) = Dist(p, q) => q = old
        /\ Dist(p, Next_(old)) = IF Next_(old) = p THEN 0 ELSE Dist(p, old) + 1
    BY <1>2, Dists
  <2>4. Dist(p, Next_(old)) <= Dist(p, q)
    BY <2>1, <2>2, <2>3, Ring
  <2> QED BY <2>2, <2>4
<1>8. FrameLate(p, t)
  BY <1>3, <1>4, <1>6, <1>7 DEF FrameLate
<1>9. ASSUME NEW m \in net', m = RingFrame(p, t, "change"), MayBeTaken(m)'
      PROVE  Empty(m.packet)
  <2>1. m.packet = frame /\ m.to = Next_(old) /\ m.from = p /\ m.seq = status[p].lastValid + 1
    BY <1>3, <1>5, <1>9
  <2>2. Next_(old) # p
    BY <1>9, <2>1 DEF MayBeTaken
  <2>3. status'[Next_(old)] = status[Next_(old)]
    BY <1>1, <1>2, <2>2
  <2>4. ~ Out(Next_(old)) /\ status[p].lastValid + 1 > status[Next_(old)].lastValid
    BY <1>9, <2>1, <2>3 DEF MayBeTaken, Out, Started
  <2>5. status[Next_(old)].lastValid \in Nat
    BY <1>2, Player
  <2>6. \A q \in Players : frame.flags[q] = <<>>
    <3> SUFFICES ASSUME NEW q \in Players, frame.flags[q] # <<>> PROVE FALSE
      OBVIOUS
    <3>1. status[p].lastValid < status[Next_(old)].lastValid
      BY <1>2, <1>7, <2>2, <2>4
    <3> QED BY <1>2, <2>4, <2>5, <3>1
  <2> QED BY <1>4, <1>6, <2>1, <2>6 DEF Empty, FrameLate
<1>10. DrainedStep(p, t)
  <2>1. \A m \in net' : m \in net \/ m.tag = "ack" \/ Empty(m.packet) \/ ~ MayBeTaken(m)'
    BY <1>1, <1>9
  <2> QED BY <1>1, <1>2, <1>3, <1>6, <1>8, <2>1 DEF DrainedStep, Waiting
<1> QED BY <1>2, <1>3, <1>10, DrainedOn

\* Nothing is played of a packet without words, and nothing is put into it.
LEMMA EmptyIs ==
  ASSUME RingInv, WordsOK, NEW p \in Players, NEW packet \in PacketSet, Empty(packet)
  PROVE  /\ Processed(p, packet) => played' = played
         /\ FlagsAdded(p, packet) \in PacketSet /\ Empty(FlagsAdded(p, packet))
         /\ made' = [made EXCEPT ![p] = @ + packet.required] => made' = made
<1>1. /\ packet.required = 0 /\ packet.type \in {"normal", "unsync"}
      /\ \A q \in Players : packet.flags[q] = <<>>
  BY DEF Empty
<1>2. played \in PlayedSet /\ made \in [Players -> Nat]
  BY DEF WordsOK, RingInv, Typed
<1>3. ASSUME Processed(p, packet) PROVE played' = played
  <2>1. /\ played' \in PlayedSet
        /\ \A q \in Players \ {p} : played'[q] = played[q]
        /\ \A q \in Players :
             IF q \in packet.dead
             THEN played'[p][q] = played[p][q] \o DeadFor(packet.required)
             ELSE played'[p][q] = played[p][q] \o packet.flags[q]
    BY <1>2, <1>3, ProcessedIs
  <2>2. \A q \in Players : played[p][q] \in Seq(Nat)
    BY <1>2 DEF PlayedSet
  <2>3. \A q \in Players : played[p][q] \o <<>> = played[p][q]
    BY <2>2, ConcatTyped
  <2>4. DeadFor(packet.required) = <<>>
    BY <1>1, DeadForTyped
  <2>5. \A q \in Players : played'[p][q] = played[p][q]
    BY <1>1, <2>1, <2>3, <2>4
  <2>6. played'[p] = played[p]
    BY <1>2, <2>1, <2>5 DEF PlayedSet
  <2> QED BY <1>2, <2>1, <2>6 DEF PlayedSet
<1>4. FlagsAdded(p, packet) \in PacketSet /\ FlagsAdded(p, packet).type = packet.type
  BY FlagsTyped
<1>5. /\ FlagsAdded(p, packet).required = packet.required
      /\ FlagsAdded(p, packet).flags[p] = NewWords(p, packet.required)
      /\ \A q \in Players \ {p} : FlagsAdded(p, packet).flags[q] = <<>>
  <2>1. FlagsAdded(p, packet).required = packet.required
    <3>1. Moved(p, packet) \in PacketSet /\ Moved(p, packet).required = packet.required
      BY MovedTyped
    <3> QED BY <3>1 DEF FlagsAdded, PacketSet
  <2>2. \A q \in Players : OneLate(packet.flags[q]) = <<>>
    BY <1>1 DEF OneLate
  <2> QED BY <1>1, <2>1, <2>2, AddedIs
<1>6. NewWords(p, 0) = <<>>
  BY DEF NewWords
<1>7. Empty(FlagsAdded(p, packet))
  BY <1>1, <1>4, <1>5, <1>6 DEF Empty
<1>8. made' = [made EXCEPT ![p] = @ + packet.required] => made' = made
  BY <1>1, <1>2
<1> QED BY <1>3, <1>4, <1>7, <1>8

LEMMA DrainedPass ==
  ASSUME RingInv, Drained, NEW p \in Players, NEW m, NEW t, PassTo(p, m, t),
         t.state \in {"startingUp", "active", "comingDown"}, Empty(t.ringFrame),
         made' = made, played' = played
  PROVE  Drained'
<1>1. /\ t.lastValid = m.seq /\ m.seq > status[p].lastValid /\ ~ Out(p)
      /\ status[p].lastValid \in Nat /\ t.lastValid \in Nat
      /\ status[p].state \in {"startingUp", "active", "comingDown"}
  <2>1. t.lastValid \in Nat
    BY DEF PassTo, StatusSet
  <2> QED BY <2>1, Player DEF PassTo, MayBeTaken, InGame
<1>2. \A x \in net' : x \in net \/ x.tag = "ack" \/ Empty(x.packet)
  BY DEF PassTo, AlsoSends
<1>3. DrainedStep(p, t)
  BY <1>1, <1>2 DEF PassTo, DrainedStep
<1> QED BY <1>1, <1>3, DrainedOn

\* Nobody asks for words any more.
LEMMA DrainedLap ==
  ASSUME Drained, RingInv, NEW p \in Players, NEW n \in 1 .. MaxRequired, MayAsk(p, n),
         NEW s, s.state = status[p].state, NEW packet \in PacketSet, Empty(packet)
  PROVE  NewLap(s, packet, n) \in PacketSet /\ Empty(NewLap(s, packet, n))
<1>1. made[p] >= MaxWords /\ made[p] \in Nat /\ MaxWords \in Nat
  BY Player, RingAssumption DEF Drained
<1>2. s.state = "comingDown"
  BY <1>1 DEF MayAsk
<1>3. NewLap(s, packet, n) = [packet EXCEPT !.type = "unsync"]
  BY <1>2 DEF NewLap, Empty
<1> QED BY <1>3 DEF Empty, PacketSet, PacketTypes

LEMMA DrainedReceive ==
  ASSUME RingInv, WordsOK, Drained, NEW p \in Players, NEW m \in net, m.to = p, InGame(p),
         \/ ReceiveSync(p, m) \/ ReceiveTime(p, m) \/ ReceiveFlags(p, m)
         \/ \E n \in 1 .. MaxRequired : ReceiveAtServer(p, m, n)
         \/ ReceiveAndWait(p, m) \/ ReceiveUnsync(p, m)
  PROVE  Drained'
<1>1. PICK type \in {"sync", "time", "normal", "unsync"} : ReceiveNew(p, m, type)
  BY DEF ReceiveSync, ReceiveTime, ReceiveFlags, ReceiveAtServer, ReceiveAndWait, ReceiveUnsync,
         Normal
<1>2. /\ MayBeTaken(m) /\ m.packet \in PacketSet /\ m.packet.type = type /\ ~ Out(p)
      /\ m.seq \in Nat /\ m.seq > status[p].lastValid
  BY <1>1, NewIsTaken
<1>3. Empty(m.packet) /\ m.packet.type \in {"normal", "unsync"}
  BY <1>2 DEF Drained, Empty
<1>4. PICK s : s = Seen(p, m)
  OBVIOUS
<1>5. /\ s \in StatusSet /\ s.state = status[p].state /\ s.upring = status[p].upring
      /\ s.lastValid = m.seq /\ s.iAmTheServer = status[p].iAmTheServer
      /\ s.state \in {"startingUp", "active", "comingDown"}
      /\ s.ringFrame = status[p].ringFrame /\ s.accept
  BY <1>1, <1>4, NewPacket DEF InGame
<1>6. Live(m, s) = s
  BY <1>3 DEF Live
<1>7. ASSUME NEW packet \in PacketSet, Empty(packet), FlagsPassedOn(p, s, packet), played' = played
      PROVE  Drained'
  <2>1. /\ PassedOn(p, s, FlagsAdded(p, packet)) /\ made' = made
        /\ FlagsAdded(p, packet) \in PacketSet /\ Empty(FlagsAdded(p, packet))
    BY <1>7, EmptyIs DEF FlagsPassedOn
  <2>2. LET t == Sending(s, FlagsAdded(p, packet))
        IN  PassTo(p, m, t) /\ t.ringFrame = FlagsAdded(p, packet) /\ t.state = s.state
    BY <1>2, <1>5, <2>1, PassToIs
  <2> QED BY <1>5, <1>7, <2>1, <2>2, DrainedPass
<1>8. Processed(p, m.packet) => played' = played
  BY <1>2, <1>3, EmptyIs
<1>9. CASE ReceiveSync(p, m) \/ ReceiveTime(p, m)
  BY <1>3, <1>9 DEF ReceiveSync, ReceiveTime, ReceiveNew
<1>10. CASE ReceiveFlags(p, m)
  BY <1>2, <1>3, <1>4, <1>7, <1>8, <1>10 DEF ReceiveFlags
<1>11. CASE \E n \in 1 .. MaxRequired : ReceiveAtServer(p, m, n)
  <2>1. PICK n \in 1 .. MaxRequired : ReceiveAtServer(p, m, n)
    BY <1>11
  <2> DEFINE own == [m.packet EXCEPT !.type = "normal", !.server = p]
             lap == NewLap(s, own, n)
  <2>2. own \in PacketSet /\ Empty(own)
    BY <1>2, <1>3 DEF Empty, PacketSet, PacketTypes
  <2>3. FlagsPassedOn(p, s, lap) /\ MayAsk(p, n) /\ played' = played
    BY <1>4, <1>6, <1>8, <2>1 DEF ReceiveAtServer
  <2> HIDE DEF own
  <2>4. lap \in PacketSet /\ Empty(lap)
    BY <1>5, <2>2, <2>3, DrainedLap
  <2> HIDE DEF lap
  <2> QED BY <1>7, <2>3, <2>4
<1>12. CASE ReceiveAndWait(p, m)
  <2> DEFINE held == [m.packet EXCEPT !.type = "normal"]
             t == [s EXCEPT !.clearToForward = TRUE, !.buffer = held]
  <2>1. status' = [status EXCEPT ![p] = t] /\ made' = made /\ net' = net /\ played' = played
    BY <1>4, <1>6, <1>8, <1>12 DEF ReceiveAndWait
  <2>2. held \in PacketSet /\ Empty(held)
    BY <1>2, <1>3 DEF Empty, PacketSet, PacketTypes
  <2> HIDE DEF held
  <2>3. /\ t.state = status[p].state /\ t.upring = status[p].upring /\ t.lastValid = m.seq
        /\ t.clearToForward /\ t.buffer = held /\ t.accept
    BY <1>5, <2>2 DEF StatusSet
  <2> HIDE DEF t
  <2>4. t.lastValid \in Nat /\ status[p].lastValid \in Nat
    BY <1>2, <2>3, Player
  <2>5. DrainedStep(p, t)
    BY <1>2, <1>5, <2>1, <2>2, <2>3, <2>4 DEF DrainedStep
  <2> QED BY <2>4, <2>5, DrainedOn
<1>13. CASE ReceiveUnsync(p, m)
  <2> DEFINE u == [s EXCEPT !.accept = FALSE]
  <2>1. /\ u \in StatusSet /\ u.state = "comingDown" /\ u.upring = status[p].upring
        /\ u.lastValid = m.seq /\ u.iAmTheServer = status[p].iAmTheServer
        /\ ~ u.accept
    BY <1>5, <1>13 DEF StatusSet, ReceiveUnsync
  <2>2. /\ made' = made /\ played' = played
        /\ IF status[p].iAmTheServer
           THEN /\ status' = [status EXCEPT ![p] = u]
                /\ net' = net \cup {Ack(p, u.downring, u.lastValid)}
           ELSE PassedOn(p, u, m.packet)
    BY <1>4, <1>13 DEF ReceiveUnsync
  <2>3. u.clearToForward = status[p].clearToForward /\ u.buffer = status[p].buffer
    BY <1>1, <1>4, NewPacket DEF StatusSet
  <2> HIDE DEF u
  <2>4. CASE status[p].iAmTheServer
    <3>1. \A x \in net' : x \in net \/ x.tag = "ack"
      BY <2>2, <2>4 DEF Ack
    <3>2. u.clearToForward => Empty(u.buffer)
      BY <2>3 DEF Drained, Waiting
    <3>3. DrainedStep(p, u)
      BY <1>5, <2>1, <2>2, <2>4, <3>1, <3>2 DEF DrainedStep, InGame
    <3>4. u.lastValid \in Nat
      BY <1>2, <2>1
    <3> QED BY <3>3, <3>4, DrainedOn
  <2>5. CASE ~ status[p].iAmTheServer
    <3>1. LET t == Sending(u, m.packet)
          IN  PassTo(p, m, t) /\ t.ringFrame = m.packet /\ t.state = u.state
      BY <1>2, <2>1, <2>2, <2>5, PassToIs
    <3> QED BY <1>3, <2>1, <2>2, <3>1, DrainedPass
  <2> QED BY <2>4, <2>5
<1> QED BY <1>9, <1>10, <1>11, <1>12, <1>13

LEMMA DrainedForwards ==
  ASSUME RingInv, WordsOK, Drained, NEW p \in Players, NEW n \in 1 .. MaxRequired, ServerTaskForwards(p, n)
  PROVE  Drained'
<1> DEFINE lap == NewLap(status[p], status[p].buffer, n)
           now == FlagsAdded(p, lap)
           t == Sending(status[p], now)
<1>1. /\ InGame(p) /\ Waiting(p) /\ MayAsk(p, n) /\ played' = played
      /\ PassedOn(p, status[p], now) /\ made' = [made EXCEPT ![p] = @ + lap.required]
  BY DEF ServerTaskForwards, FlagsPassedOn, Waiting
<1>2. status[p] \in StatusSet /\ status[p].buffer \in PacketSet /\ status[p].lastValid \in Nat
  BY Player
<1>3. Empty(status[p].buffer)
  BY <1>1 DEF Drained
<1>4. lap \in PacketSet /\ Empty(lap)
  BY <1>1, <1>2, <1>3, DrainedLap
<1> HIDE DEF lap
<1>5. now \in PacketSet /\ Empty(now) /\ made' = made
  BY <1>1, <1>4, EmptyIs
<1> HIDE DEF now
<1>6. /\ status' = [status EXCEPT ![p] = t]
      /\ net' = net \cup {Ack(p, status[p].downring, status[p].lastValid), RingFrame(p, t, "ring")}
  BY <1>1 DEF PassedOn
<1>7. /\ t.state = status[p].state /\ t.lastValid = status[p].lastValid
      /\ t.accept = status[p].accept /\ t.ringFrame = now /\ ~ t.clearToForward
  BY <1>2 DEF Sending, StatusSet
<1>8. RingFrame(p, t, "ring").packet = now
  BY <1>7 DEF RingFrame, RingPacket
<1> HIDE DEF t
<1>9. \A x \in net' : x \in net \/ x.tag = "ack" \/ Empty(x.packet)
  BY <1>5, <1>6, <1>8 DEF Ack
<1>10. DrainedStep(p, t)
  BY <1>1, <1>2, <1>5, <1>6, <1>7, <1>9 DEF DrainedStep, InGame, Out
<1> QED BY <1>2, <1>7, <1>10, DrainedOn

\* Whatever happens from then on, crashes included, it stays so; but one is not to be
\* dropped that could still answer.
LEMMA DrainedStays ==
  ASSUME RingInv, WordsOK, Drained, Next, hasty' = {}
  PROVE  Drained'
<1>1. PICK p \in Players :
        \/ Sync(p) \/ Leave(p)
        \/ \E m \in net : Handle(p, m)
        \/ ServerTask(p) \/ GiveUp(p) \/ DropUpring(p)
  BY DEF Next
<1>2. CASE Sync(p)
  BY <1>2 DEF Sync, Drained, Started
<1>3. CASE Leave(p)
  BY <1>3, DrainedLeave
<1>4. CASE \E m \in net : Handle(p, m)
  <2>1. PICK m \in net : Handle(p, m)
    BY <1>4
  <2>2. InGame(p) /\ m.to = p
    BY <2>1 DEF Handle
  <2> QED
    BY <2>1, <2>2, MinorIs, DrainedMinor, DrainedReceive DEF Handle
<1>5. CASE ServerTask(p)
  BY <1>5, TaskIsMinor, DrainedMinor, DrainedForwards DEF ServerTask
<1>6. CASE GiveUp(p)
  BY <1>6, TaskIsMinor, DrainedMinor
<1>7. CASE DropUpring(p)
  BY <1>7, DrainedDrop
<1> QED BY <1>1, <1>2, <1>3, <1>4, <1>5, <1>6, <1>7

-----------------------------------------------------------------------------
(***************************************************************************)
(* While nobody has gone: until the last flags                             *)
(***************************************************************************)
AllHere == hasty = {} /\ \A p \in Players : status[p].state # "gone"

\* What is played of q as StreamOf has it, of everybody and nothing missing.
AllWords(mk, words, who, q, pl) ==
  \E base \in Seq(Nat) :
    /\ base \o words = WordsTo(mk[q])
    /\ \A p \in Players : pl[p][q] = IF p \in who THEN base \o words ELSE base

\* How far the packet of h has come round from the server.
Far(h) == IF Waiting(h) THEN N - 1 ELSE Dist(Server, h)

\* A packet that asks for no words has none of those that it has passed; x is how far.
LapOK(packet, x) ==
  /\ packet.dead = {} /\ Quiet(packet)
  /\ packet.type \in {"sync", "time"} => packet.required = 1
  /\ packet.required = 0 => \A q \in Players : Dist(Server, q) <= x => packet.flags[q] = <<>>

Blank(p, packet) ==
  /\ packet.type = "normal" /\ packet.required = 0
  /\ \A q \in Players : Dist(Server, q) <= Dist(Server, p) => packet.flags[q] = <<>>

\* And those that it has passed have sent no later packet.
Behind(h) ==
  \A p \in Players \ {Server} : Dist(Server, p) <= Far(h) =>
    /\ \A r \in Players :
         Dist(Server, p) < Dist(Server, r) /\ Dist(Server, r) <= Far(h) =>
           status[p].lastValid < status[r].lastValid
    /\ Token(h).required = 0 => Blank(p, status[p].ringFrame)

\* The status s of player p while nobody is out of the ring.
GoesRound(p, s) ==
  /\ s.state # "uninitialized" => s.accept
  /\ s.ringFrame.type # "unsync"
  /\ s.state = "uninitialized" => s = OutOfGame("uninitialized")
  /\ s.state # "uninitialized" => s.upring = Next_(p) /\ (s.iAmTheServer <=> p = Server)
  /\ s.state = "comingDown" => \A q \in Players : made[q] >= MaxWords
  /\ s.clearToForward => p = Server /\ s.buffer.type = "normal"

Orderly(h) ==
  /\ Started(Server) \/ h = Server
  /\ \A p \in Players : GoesRound(p, status[p]) /\ (Waiting(p) => p = h)
  /\ LapOK(Token(h), Far(h)) /\ Behind(h)
  /\ \A m \in net : MayBeTaken(m) => FromHead(h, m)
  /\ \A q \in Players : AllWords(made, Token(h).flags[q], Having(q, h), q, played)

\* Until the unsync all have their place; then everything has been played.
OrderInv == AllHere => Drained \/ \E h \in Players : Orderly(h)

-----------------------------------------------------------------------------
LEMMA WordsAre ==
  ASSUME NEW n \in Nat, NEW k \in Nat
  PROVE  /\ WordsTo(n) \in Seq(Nat) /\ Len(WordsTo(n)) = n
         /\ WordsTo(n) \o [i \in 1 .. k |-> n + i] = WordsTo(n + k)
         /\ WordsTo(0) = <<>>
<1>1. \A m \in Nat : /\ WordsTo(m) \in Seq(Nat) /\ Len(WordsTo(m)) = m
                    /\ \A i \in 1 .. m : WordsTo(m)[i] = i
  BY DEF WordsTo
<1>2. n + k \in Nat
  OBVIOUS
<1> DEFINE a == WordsTo(n)
           b == [i \in 1 .. k |-> n + i]
           c == WordsTo(n + k)
<1>3. b \in Seq(Nat) /\ Len(b) = k /\ \A i \in 1 .. k : b[i] = n + i
  OBVIOUS
<1>4. /\ a \in Seq(Nat) /\ Len(a) = n /\ \A i \in 1 .. n : a[i] = i
      /\ c \in Seq(Nat) /\ Len(c) = n + k /\ \A i \in 1 .. n + k : c[i] = i
  BY <1>1, <1>2
<1> HIDE DEF a, b, c
<1>5. /\ a \o b \in Seq(Nat) /\ Len(a \o b) = n + k
      /\ \A i \in 1 .. n + k : (a \o b)[i] = IF i <= n THEN a[i] ELSE b[i - n]
  BY <1>3, <1>4, Concats
<1>6. \A i \in 1 .. n + k : (a \o b)[i] = c[i]
  BY <1>3, <1>4, <1>5
<1>7. a \o b = c
  BY <1>4, <1>5, <1>6, SeqEqual
<1>8. WordsTo(0) = <<>>
  BY DEF WordsTo
<1> QED BY <1>1, <1>7, <1>8 DEF a, b, c

LEMMA WordsSameBy ==
  ASSUME NEW mk, NEW words, NEW who, NEW q \in Players, NEW pl, AllWords(mk, words, who, q, pl),
         NEW mk2, NEW who2, mk2[q] = mk[q], who2 = who
  PROVE  AllWords(mk2, words, who2, q, pl)
<1>1. PICK base \in Seq(Nat) :
        /\ base \o words = WordsTo(mk[q])
        /\ \A p \in Players : pl[p][q] = IF p \in who THEN base \o words ELSE base
  BY DEF AllWords
<1> QED BY <1>1 DEF AllWords

LEMMA WordsTakenBy ==
  ASSUME NEW mk, NEW words \in Seq(Nat), NEW who, NEW q \in Players,
         NEW pl \in PlayedSet, NEW pl2 \in PlayedSet, AllWords(mk, words, who, q, pl),
         NEW u \in Players, u \notin who, pl2[u][q] = pl[u][q] \o words,
         \A p \in Players \ {u} : pl2[p][q] = pl[p][q]
  PROVE  AllWords(mk, words, who \cup {u}, q, pl2)
<1>1. PICK base \in Seq(Nat) :
        /\ base \o words = WordsTo(mk[q])
        /\ \A p \in Players : pl[p][q] = IF p \in who THEN base \o words ELSE base
  BY DEF AllWords
<1>2. \A p \in Players : pl2[p][q] = IF p \in who \cup {u} THEN base \o words ELSE base
  BY <1>1
<1> QED BY <1>1, <1>2 DEF AllWords

LEMMA WordsRenewedBy ==
  ASSUME NEW mk \in [Players -> Nat], NEW words \in Seq(Nat), NEW q \in Players,
         NEW pl \in PlayedSet, AllWords(mk, words, Players, q, pl),
         NEW new \in Seq(Nat), NEW mk2, mk2[q] = mk[q] + Len(new),
         new = [i \in 1 .. Len(new) |-> mk[q] + i]
  PROVE  AllWords(mk2, new, {}, q, pl)
<1>1. PICK base \in Seq(Nat) :
        /\ base \o words = WordsTo(mk[q])
        /\ \A p \in Players : pl[p][q] = base \o words
  BY DEF AllWords
<1>2. base \o words \in Seq(Nat)
  BY <1>1, ConcatProperties
<1>3. (base \o words) \o new = WordsTo(mk2[q])
  <2>1. mk[q] \in Nat /\ Len(new) \in Nat
    OBVIOUS
  <2> QED BY <1>1, <2>1, WordsAre
<1> QED BY <1>1, <1>2, <1>3 DEF AllWords

\* When there are no words left in the packet, all have played all.
LEMMA WordsAllPlayed ==
  ASSUME NEW mk, NEW who, NEW q \in Players, NEW pl, AllWords(mk, <<>>, who, q, pl)
  PROVE  \A p \in Players : pl[p][q] = WordsTo(mk[q])
<1>1. PICK base \in Seq(Nat) :
        /\ base \o <<>> = WordsTo(mk[q])
        /\ \A p \in Players : pl[p][q] = IF p \in who THEN base \o <<>> ELSE base
  BY DEF AllWords
<1>2. base \o <<>> = base
  BY <1>1, ConcatTyped
<1> QED BY <1>1, <1>2

LEMMA OrderlyPlayer ==
  ASSUME RingInv, NEW h \in Players, Orderly(h), NEW p \in Players
  PROVE  /\ ~ Out(p) /\ GoesRound(p, status[p]) /\ status[p].ringFrame.type # "unsync"
         /\ Started(p) => /\ InGame(p) /\ status[p].accept /\ status[p].upring = Next_(p)
                          /\ status[p].iAmTheServer <=> p = Server
         /\ Waiting(p) => p = h /\ p = Server /\ status[p].buffer.type = "normal"
<1>1. GoesRound(p, status[p]) /\ (Waiting(p) => p = h)
  BY DEF Orderly
<1>2. ~ Out(p)
  BY <1>1 DEF GoesRound, Out, Started
<1> QED BY <1>1, <1>2, InRing DEF GoesRound, Waiting, Started

\* What may be taken is the packet that h has sent last.
LEMMA OrderlyPacket ==
  ASSUME RingInv, NEW h \in Players, Orderly(h), NEW m \in net, MayBeTaken(m)
  PROVE  /\ Started(h) /\ m.from = h /\ m.to = Next_(h) /\ ~ Waiting(h)
         /\ m.seq = status[h].lastValid + 1
         /\ m.packet = status[h].ringFrame /\ Token(h) = status[h].ringFrame
         /\ m.packet.type # "unsync" /\ Far(h) = Dist(Server, h)
<1>1. FromHead(h, m) /\ m.tag # "ack"
  BY DEF Orderly, MayBeTaken
<1>2. Started(h) /\ ~ Waiting(h)
  BY <1>1, RingMessages DEF FromHead
<1> QED BY <1>1, <1>2, OrderlyPlayer DEF FromHead, Token, Far

\* The packet stays where it is.
LEMMA OrderlyStill ==
  ASSUME RingInv, NEW h \in Players, Orderly(h), NEW p \in Players, NEW t \in StatusSet,
         status' = [status EXCEPT ![p] = t], made' = made, played' = played,
         t.state # "uninitialized", GoesRound(p, t),
         t.lastValid = status[p].lastValid, t.ringFrame = status[p].ringFrame,
         t.buffer = status[p].buffer, t.clearToForward = status[p].clearToForward,
         Started(p) => t.upring = status[p].upring,
         \A x \in net' : x \in net \/ x.tag = "ack" \/ FromHead(h, x)'
  PROVE  Orderly(h)'
<1>1. status'[p] = t /\ \A q \in Players : q # p => status'[q] = status[q]
  BY DEF RingInv, Typed
<1>2. /\ \A q \in Players : GoesRound(q, status'[q])
      /\ \A q \in Players : (Waiting(q)' <=> Waiting(q)) /\ (Started(q) => Started(q)')
      /\ \A q \in Players : status'[q].lastValid = status[q].lastValid
      /\ \A q \in Players : status'[q].ringFrame = status[q].ringFrame
      /\ \A q \in Players : status'[q].buffer = status[q].buffer
  <2> SUFFICES ASSUME NEW q \in Players
               PROVE  /\ GoesRound(q, status'[q])
                      /\ (Waiting(q)' <=> Waiting(q)) /\ (Started(q) => Started(q)')
                      /\ status'[q].lastValid = status[q].lastValid
                      /\ status'[q].ringFrame = status[q].ringFrame
                      /\ status'[q].buffer = status[q].buffer
    OBVIOUS
  <2>1. CASE q = p
    BY <1>1, <2>1 DEF Waiting, Started
  <2>2. CASE q # p
    BY <1>1, <2>2 DEF Waiting, Started, Orderly
  <2> QED BY <2>1, <2>2
<1>3. Token(h)' = Token(h) /\ Far(h)' = Far(h) /\ \A q \in Players : Having(q, h)' = Having(q, h)
  BY <1>2 DEF Token, Far, Having, Reached, Dist
<1>4. \A q \in Players : GoesRound(q, status[q])'
  <2> TAKE q \in Players
  <2>1. PICK s : s = status'[q]
    OBVIOUS
  <2>2. GoesRound(q, s)
    BY <1>2, <2>1
  <2> QED BY <2>1, <2>2 DEF GoesRound
<1>5. LapOK(Token(h), Far(h))'
  <2>1. LapOK(Token(h), Far(h))
    BY DEF Orderly
  <2> QED BY <1>3, <2>1 DEF LapOK, Quiet, Dist
<1>6. Behind(h)'
  <2>1. Behind(h)
    BY DEF Orderly
  <2>2. \A q \in Players : Blank(q, status[q].ringFrame)' <=> Blank(q, status[q].ringFrame)
    BY <1>2 DEF Blank, Dist
  <2> QED BY <1>2, <1>3, <2>1, <2>2 DEF Behind, Dist
<1>7. ASSUME NEW x \in net', MayBeTaken(x)' PROVE FromHead(h, x)'
  <2> SUFFICES ASSUME x \in net PROVE FromHead(h, x)'
    BY <1>7 DEF MayBeTaken
  <2>1. x.to \in Players /\ x.from \in Players
    BY Message
  <2>2. MayBeTaken(x)
    BY <1>2, <1>7, <2>1, OrderlyPlayer DEF MayBeTaken
  <2>3. FromHead(h, x) /\ Started(h)
    BY <2>2, OrderlyPacket DEF Orderly
  <2>4. status'[h].upring = status[h].upring
    BY <1>1, <2>3
  <2> QED BY <1>2, <2>3, <2>4 DEF FromHead
<1>8. \A q \in Players : AllWords(made, Token(h).flags[q], Having(q, h), q, played)'
  <2> TAKE q \in Players
  <2>1. AllWords(made, Token(h).flags[q], Having(q, h), q, played)
    BY DEF Orderly
  <2>2. Having(q, h)' = Having(q, h) /\ Token(h)' = Token(h)
    BY <1>3
  <2> QED BY <2>1, <2>2 DEF AllWords
<1>9. Started(Server)' \/ h = Server
  BY <1>2, Ring DEF Orderly
<1> QED BY <1>2, <1>4, <1>5, <1>6, <1>7, <1>8, <1>9 DEF Orderly

LEMMA OrderlySync ==
  ASSUME RingInv, RingInv', NEW h \in Players, Orderly(h), NEW p \in Players, Sync(p)
  PROVE  Orderly(h)'
<1> DEFINE s == [OutOfGame("startingUp") EXCEPT
                   !.upring = Next_(p), !.downring = Previous(p),
                   !.server = Server, !.accept = TRUE, !.iAmTheServer = p = Server]
           sent == Sending(s, FirstPacket)
           t == IF p = Server THEN sent ELSE s
<1>1. /\ status' = [status EXCEPT ![p] = t] /\ played' = played /\ made' = made
      /\ net' = IF p = Server THEN net \cup {RingFrame(p, sent, "ring")} ELSE net
      /\ status[p].state = "uninitialized"
  BY DEF Sync
<1>2. status[p] = OutOfGame("uninitialized")
  BY <1>1 DEF Orderly, GoesRound
<1>3. /\ t.state = "startingUp" /\ t.upring = Next_(p) /\ t.accept
      /\ t.lastValid = 0 /\ t.ringFrame = FirstPacket /\ t.buffer = FirstPacket
      /\ ~ t.clearToForward /\ (t.iAmTheServer <=> p = Server)
  BY DEF Sending, OutOfGame
<1>4. /\ status[p].lastValid = 0 /\ status[p].ringFrame = FirstPacket
      /\ status[p].buffer = FirstPacket /\ ~ status[p].clearToForward
  BY <1>2 DEF OutOfGame
<1>5. RingFrame(p, sent, "ring") =
        [from |-> p, to |-> t.upring, tag |-> "ring", seq |-> t.lastValid + 1,
         packet |-> t.ringFrame] \/ p # Server
  BY DEF RingFrame, RingPacket
<1>6. ~ Started(p)
  BY <1>1 DEF Started
<1>7. p = Server => h = p
  BY <1>6 DEF Orderly
<1> HIDE DEF t, sent
<1>8. status'[p] = t /\ t \in StatusSet /\ status[p] \in StatusSet
  BY <1>1 DEF RingInv, Typed
<1>9. \A m \in net' : m \in net \/ FromHead(h, m)'
  BY <1>1, <1>3, <1>5, <1>7, <1>8 DEF FromHead, Waiting
<1>10. t.clearToForward = status[p].clearToForward
  BY <1>3, <1>4, <1>8 DEF StatusSet
<1>11. GoesRound(p, t)
  BY <1>3 DEF GoesRound, FirstPacket
<1> QED BY <1>1, <1>3, <1>4, <1>6, <1>8, <1>9, <1>10, <1>11, OrderlyStill

LEMMA OrderlyMinor ==
  ASSUME RingInv, NEW h \in Players, Orderly(h), NEW p \in Players, NEW t, MinorTo(p, t),
         t.accept = status[p].accept
  PROVE  Orderly(h)'
<1>1. InGame(p) /\ Started(p) /\ t \in StatusSet
  BY Player DEF MinorTo
<1>2. GoesRound(p, status[p]) /\ status[p].accept
  BY <1>1, OrderlyPlayer
<1>3. t.state = "comingDown" => \A q \in Players : made[q] >= MaxWords
  <2>1. CASE t.state = status[p].state
    BY <1>2, <2>1 DEF GoesRound
  <2>2. CASE status[p].state = "active" /\ GameOver
    <3>1. \A q \in Players : InGame(q)
      BY <2>2, OrderlyPlayer, Player DEF AllStarted
    <3> QED BY <2>2, <3>1 DEF GameOver
  <2> QED BY <2>1, <2>2 DEF MinorTo
<1>4. t.state # "uninitialized" /\ GoesRound(p, t)
  BY <1>1, <1>2, <1>3 DEF MinorTo, GoesRound, InGame
<1> QED BY <1>1, <1>4, OrderlyStill DEF MinorTo

\* Player p plays what m brings, and has the packet: with its own new words, or to put
\* them in later.
Carries(p, m, t) ==
  /\ t.lastValid = m.seq
  /\ played' \in PlayedSet /\ \A q \in Players \ {p} : played'[q] = played[q]
  /\ \A q \in Players : played'[p][q] = played[p][q] \o m.packet.flags[q]
  /\ Held(t).dead = {} /\ Quiet(Held(t))
  /\ Held(t).type \in {"sync", "time"} => Held(t).required = 1
  /\ \A q \in Players \ {p} : Held(t).flags[q] = m.packet.flags[q]
  /\ p # Server => /\ ~ t.clearToForward /\ Held(t).required = m.packet.required
                   /\ Held(t).type = m.packet.type
  /\ IF t.clearToForward
     THEN /\ Held(t).required = m.packet.required /\ Held(t).flags[p] = m.packet.flags[p]
          /\ made' = made
     ELSE /\ made' = [made EXCEPT ![p] = @ + Len(Held(t).flags[p])]
          /\ Held(t).flags[p] = NewWords(p, Len(Held(t).flags[p]))
          /\ Held(t).required = 0 => Held(t).flags[p] = <<>>
  /\ \A x \in net' :
       x \in net \/ x.tag = "ack" \/ (~ t.clearToForward /\ AlsoSends(x, p, t))

\* What p has taken is all that could be.
LEMMA OrderlyOld ==
  ASSUME RingInv, NEW h \in Players, Orderly(h), NEW p \in Players, NEW m \in net, m.to = p,
         MayBeTaken(m), NEW t, status' = [status EXCEPT ![p] = t], t.lastValid = m.seq,
         NEW x \in net
  PROVE  ~ MayBeTaken(x)'
<1> SUFFICES ASSUME MayBeTaken(x)' PROVE FALSE
  OBVIOUS
<1>1. status'[p] = t /\ \A q \in Players : q # p => status'[q] = status[q]
  BY DEF RingInv, Typed
<1>2. /\ x.to \in Players /\ x.seq \in Nat /\ status[x.to].lastValid \in Nat
      /\ status[p].lastValid \in Nat /\ m.seq \in Nat /\ m.seq > status[p].lastValid
  BY Message, Player DEF MayBeTaken
<1>3. x.to = p => x.seq > m.seq
  BY <1>1 DEF MayBeTaken
<1>4. x.seq > status[x.to].lastValid
  BY <1>1, <1>2, <1>3 DEF MayBeTaken
<1>5. MayBeTaken(x)
  BY <1>2, <1>4, OrderlyPlayer DEF MayBeTaken
<1>6. x.to = p /\ x.seq = m.seq
  BY <1>5, OrderlyPacket
<1> QED BY <1>2, <1>3, <1>6

LEMMA OrderlyTaken ==
  ASSUME RingInv, NEW h \in Players, Orderly(h), played \in PlayedSet,
         NEW p \in Players, NEW m \in net, m.to = p, MayBeTaken(m), m.packet \in PacketSet,
         NEW t \in StatusSet, status' = [status EXCEPT ![p] = t],
         t.state # "uninitialized", GoesRound(p, t), Carries(p, m, t)
  PROVE  Orderly(p)'
<1>1. /\ Started(h) /\ m.from = h /\ p = Next_(h) /\ ~ Waiting(h)
      /\ m.seq = status[h].lastValid + 1 /\ m.seq > status[p].lastValid /\ m.seq \in Nat
      /\ m.packet = status[h].ringFrame /\ Token(h) = m.packet
      /\ Far(h) = Dist(Server, h)
  BY OrderlyPacket, Message DEF MayBeTaken
<1>2. p # h /\ Previous(p) = h
  BY <1>1, Neighbours, ReachedIs
<1>3. /\ status'[p] = t /\ \A q \in Players : q # p => status'[q] = status[q]
      /\ made \in [Players -> Nat]
  BY DEF RingInv, Typed
<1>4. /\ Held(t) \in PacketSet /\ Token(p)' = Held(t) /\ (Waiting(p)' <=> t.clearToForward)
      /\ t.clearToForward => p = Server
      /\ Far(p)' = IF t.clearToForward THEN N - 1 ELSE Dist(Server, p)
      /\ \A q \in Players : Having(q, p)' = IF q = p /\ t.clearToForward THEN Players ELSE Reached(q, p)
  <2>1. /\ Held(t) \in PacketSet /\ Token(p)' = Held(t) /\ (Waiting(p)' <=> t.clearToForward)
    BY <1>3 DEF Held, StatusSet, Token, Waiting
  <2>2. t.clearToForward => p = Server
    BY DEF Carries
  <2> QED BY <2>1, <2>2 DEF Far, Having, Reached, Dist
<1>5. /\ \A x \in Players : Dist(Server, x) \in 0 .. N - 1 /\ (Dist(Server, x) = 0 <=> x = Server)
      /\ \A x \in Players : Dist(Server, x) = Dist(Server, h) => x = h
      /\ p = Server => Dist(Server, h) = N - 1
      /\ p # Server => Dist(Server, h) = Dist(Server, p) - 1
      /\ \A x \in Players : Dist(Server, x) = Dist(Server, p) => x = p
      /\ N \in Nat /\ N > 1 /\ Server \in Players
  <2>1. Server \in Players /\ N \in Nat /\ N > 1
    BY Ring
  <2> QED BY <1>2, <2>1, Dists
<1>6. made' \in [Players -> Nat] /\ \A q \in Players : made'[q] >= made[q]
  <2>1. Len(Held(t).flags[p]) \in Nat
    BY <1>4, Flags
  <2> QED BY <1>3, <2>1 DEF Carries
<1>7. \A q \in Players : GoesRound(q, status[q])' /\ (Waiting(q)' => q = p)
  <2> TAKE q \in Players
  <2>1. GoesRound(q, status'[q])
    BY <1>3 DEF Orderly
  <2>2. PICK s : s = status'[q]
    OBVIOUS
  <2>3. GoesRound(q, s)
    BY <2>1, <2>2
  <2>4. \A x \in Players : made[x] >= MaxWords => made'[x] >= MaxWords
    BY <1>3, <1>6, RingAssumption
  <2>5. GoesRound(q, status[q])'
    BY <2>2, <2>3, <2>4 DEF GoesRound
  <2>6. q # p => ~ Waiting(q)'
    BY <1>1, <1>3 DEF Orderly, Waiting
  <2> QED BY <2>5, <2>6
<1>8. LapOK(m.packet, Dist(Server, h))
  BY <1>1 DEF Orderly
<1>9. ASSUME Held(t).required = 0, NEW q \in Players,
             Dist(Server, q) <= IF t.clearToForward THEN N - 1 ELSE Dist(Server, p)
      PROVE  Held(t).flags[q] = <<>>
  <2>1. CASE ~ t.clearToForward /\ q = p
    BY <1>9, <2>1 DEF Carries
  <2>2. CASE ~ t.clearToForward /\ q # p
    <3>1. p # Server
      BY <1>5, <1>9, <2>2
    <3>2. m.packet.required = 0 /\ Held(t).flags[q] = m.packet.flags[q]
      BY <1>9, <2>2, <3>1 DEF Carries
    <3>3. Dist(Server, q) <= Dist(Server, h)
      BY <1>5, <1>9, <2>2, <3>1
    <3> QED BY <1>8, <3>2, <3>3 DEF LapOK
  <2>3. CASE t.clearToForward
    <3>1. m.packet.required = 0 /\ Held(t).flags[q] = m.packet.flags[q]
      BY <1>9, <2>3 DEF Carries
    <3>2. Dist(Server, q) <= Dist(Server, h)
      BY <1>4, <1>5, <1>9, <2>3
    <3> QED BY <1>8, <3>1, <3>2 DEF LapOK
  <2> QED BY <2>1, <2>2, <2>3
<1>10. LapOK(Token(p), Far(p))'
  BY <1>4, <1>9 DEF Carries, LapOK, Quiet, Dist
<1>11. Behind(p)'
  <2> SUFFICES ASSUME NEW x \in Players \ {Server}, Dist(Server, x) <= Far(p)'
               PROVE  /\ \A r \in Players :
                           Dist(Server, x) < Dist(Server, r) /\ Dist(Server, r) <= Far(p)' =>
                             status'[x].lastValid < status'[r].lastValid
                      /\ Held(t).required = 0 => Blank(x, status'[x].ringFrame)
    BY <1>4 DEF Behind, Blank, Dist
  <2>1. p # Server \/ t.clearToForward
    BY <1>4, <1>5
  <2>2. x = p => p # Server /\ ~ t.clearToForward
    BY <1>4
  <2>3. x # p => Dist(Server, x) <= Dist(Server, h) /\ status'[x] = status[x]
    BY <1>3, <1>4, <1>5, <2>1
  <2>4. x # p => /\ \A r \in Players :
                      Dist(Server, x) < Dist(Server, r) /\ Dist(Server, r) <= Dist(Server, h) =>
                        status[x].lastValid < status[r].lastValid
                 /\ m.packet.required = 0 => Blank(x, status[x].ringFrame)
    BY <1>1, <2>3 DEF Orderly, Behind
  <2>5. ASSUME NEW r \in Players, Dist(Server, x) < Dist(Server, r), Dist(Server, r) <= Far(p)'
        PROVE  status'[x].lastValid < status'[r].lastValid
    <3>1. r # Server /\ x # p
      BY <1>4, <1>5, <2>2, <2>5
    <3>2. status[x].lastValid \in Nat /\ status[h].lastValid \in Nat
      BY Player
    <3>3. CASE r = p
      <4>1. status'[r].lastValid = status[h].lastValid + 1
        BY <1>1, <1>3, <3>3 DEF Carries
      <4>2. x = h \/ Dist(Server, x) < Dist(Server, h)
        BY <1>5, <2>3, <3>1
      <4>3. x = h \/ status[x].lastValid < status[h].lastValid
        BY <1>5, <2>4, <3>1, <4>2
      <4> QED BY <2>3, <3>1, <3>2, <4>1, <4>3
    <3>4. CASE r # p
      <4>1. Dist(Server, r) <= Dist(Server, h) /\ status'[r] = status[r]
        BY <1>3, <1>4, <1>5, <2>1, <2>5, <3>4
      <4> QED BY <2>3, <2>4, <2>5, <3>1, <4>1
    <3> QED BY <3>3, <3>4
  <2>6. ASSUME Held(t).required = 0 PROVE Blank(x, status'[x].ringFrame)
    <3>1. CASE x = p
      <4>1. status'[x].ringFrame = Held(t) /\ ~ t.clearToForward
        BY <1>3, <2>2, <3>1 DEF Held
      <4>2. Held(t).type = "normal"
        <5>1. Held(t).type \in PacketTypes /\ Held(t).type # "unsync"
          BY <1>4, <4>1, <2>2 DEF PacketSet, GoesRound, Held
        <5> QED BY <2>6, <5>1 DEF Carries, PacketTypes
      <4> QED BY <1>9, <2>6, <3>1, <4>1, <4>2 DEF Blank
    <3>2. CASE x # p
      <4>1. m.packet.required = 0
        BY <2>1, <2>6 DEF Carries
      <4> QED BY <2>3, <2>4, <3>2, <4>1
    <3> QED BY <3>1, <3>2
  <2> QED BY <2>5, <2>6
<1>12. ASSUME NEW x \in net', MayBeTaken(x)' PROVE FromHead(p, x)'
  <2>1. CASE x \notin net
    <3>1. ~ t.clearToForward /\ AlsoSends(x, p, t)
      BY <1>12, <2>1 DEF Carries, MayBeTaken
    <3> QED BY <1>3, <3>1 DEF AlsoSends, FromHead, Waiting
  <2>2. CASE x \in net
    <3>1. t.lastValid = m.seq
      BY DEF Carries
    <3> QED BY <1>12, <2>2, <3>1, OrderlyOld
  <2> QED BY <2>1, <2>2
<1>13. ASSUME NEW q \in Players
       PROVE  AllWords(made', Held(t).flags[q], Having(q, p)', q, played')
  <2>1. AllWords(made, m.packet.flags[q], Reached(q, h), q, played)
    BY <1>1 DEF Orderly, Having
  <2>2. m.packet.flags[q] \in Seq(Nat) /\ Held(t).flags[q] \in Seq(Nat)
    BY <1>4, Flags
  <2>3. p \notin Reached(q, h)
    BY <1>2, ReachedIs
  <2>4. /\ played'[p][q] = played[p][q] \o m.packet.flags[q] /\ played' \in PlayedSet
        /\ \A x \in Players \ {p} : played'[x][q] = played[x][q]
    BY DEF Carries
  <2>5. AllWords(made, m.packet.flags[q], Reached(q, h) \cup {p}, q, played')
    BY <2>1, <2>2, <2>3, <2>4, WordsTakenBy
  <2>6. CASE q # p
    <3>1. Reached(q, p) = Reached(q, h) \cup {p}
      BY <1>2, <2>6, ReachedIs
    <3>2. made'[q] = made[q] /\ Held(t).flags[q] = m.packet.flags[q]
      BY <1>3, <2>6 DEF Carries
    <3>3. Having(q, p)' = Reached(q, p)
      BY <1>4, <2>6
    <3> QED BY <2>5, <3>1, <3>2, <3>3, WordsSameBy
  <2>7. CASE q = p
    <3>1. Reached(q, h) \cup {p} = Players /\ Reached(q, p) = {}
      BY <1>2, <2>7, ReachedIs
    <3>2. CASE t.clearToForward
      <4>1. made' = made /\ Held(t).flags[q] = m.packet.flags[q] /\ Having(q, p)' = Players
        BY <1>4, <2>7, <3>2 DEF Carries
      <4> QED BY <2>5, <3>1, <4>1 DEF AllWords
    <3>3. CASE ~ t.clearToForward
      <4>1. /\ made'[q] = made[q] + Len(Held(t).flags[q]) /\ Having(q, p)' = {}
            /\ Held(t).flags[q] = NewWords(q, Len(Held(t).flags[q]))
        BY <1>3, <1>4, <2>7, <3>1, <3>3 DEF Carries
      <4>2. AllWords(made, m.packet.flags[q], Players, q, played')
        BY <2>5, <3>1
      <4>3. AllWords(made', Held(t).flags[q], {}, q, played')
        BY <1>3, <2>2, <2>4, <4>1, <4>2, WordsRenewedBy DEF NewWords
      <4> QED BY <4>1, <4>3
    <3> QED BY <3>2, <3>3
  <2> QED BY <2>6, <2>7
<1>14. \A q \in Players : AllWords(made, Token(p).flags[q], Having(q, p), q, played)'
  BY <1>4, <1>13
<1>15. Started(Server)'
  BY <1>1, <1>3, <1>5 DEF Orderly, Started
<1> QED BY <1>7, <1>10, <1>11, <1>12, <1>14, <1>15 DEF Orderly

\* The server that has kept the packet begins a lap.
LEMMA OrderlyLap ==
  ASSUME RingInv, NEW h \in Players, Orderly(h), played \in PlayedSet, Waiting(h),
         NEW t \in StatusSet, status' = [status EXCEPT ![h] = t],
         t.state # "uninitialized", GoesRound(h, t), ~ t.clearToForward,
         t.lastValid = status[h].lastValid, played' = played,
         t.ringFrame.dead = {}, t.ringFrame.type = "normal",
         \A q \in Players \ {h} : t.ringFrame.flags[q] = status[h].buffer.flags[q],
         made' = [made EXCEPT ![h] = @ + Len(t.ringFrame.flags[h])],
         t.ringFrame.flags[h] = NewWords(h, Len(t.ringFrame.flags[h])),
         t.ringFrame.required = 0 => t.ringFrame.flags[h] = <<>>,
         \A x \in net' : x \in net \/ x.tag = "ack" \/ AlsoSends(x, h, t)
  PROVE  Orderly(h)'
<1>1. /\ status'[h] = t /\ \A q \in Players : q # h => status'[q] = status[q]
      /\ made \in [Players -> Nat]
  BY DEF RingInv, Typed
<1>2. h = Server /\ Token(h) = status[h].buffer /\ status[h].buffer \in PacketSet
  BY OrderlyPlayer, Player DEF Token
<1>3. /\ Token(h)' = t.ringFrame /\ t.ringFrame \in PacketSet
      /\ Far(h)' = 0 /\ Waiting(h)' = t.clearToForward
      /\ \A q \in Players : Having(q, h)' = Reached(q, h)
  <2>1. Dist(Server, Server) = 0
    BY Ring, Dists
  <2> QED BY <1>1, <1>2, <2>1 DEF Token, Far, Waiting, Having, Reached, Dist, StatusSet
<1>4. \A x \in Players : Dist(Server, x) \in 0 .. N - 1 /\ (Dist(Server, x) = 0 <=> x = Server)
  BY <1>2, Dists
<1>5. made' \in [Players -> Nat] /\ \A q \in Players : made'[q] >= made[q]
  <2>1. Len(t.ringFrame.flags[h]) \in Nat
    BY <1>3, Flags
  <2>2. \A q \in Players :
          made'[q] = IF q = h THEN made[h] + Len(t.ringFrame.flags[h]) ELSE made[q]
    BY <1>1
  <2>3. made' \in [Players -> Nat]
    BY <1>1, <2>1
  <2> QED BY <1>1, <2>1, <2>2, <2>3
<1>6. \A q \in Players : GoesRound(q, status[q])' /\ (Waiting(q)' => q = h)
  <2> TAKE q \in Players
  <2>1. GoesRound(q, status'[q])
    BY <1>1 DEF Orderly
  <2>2. PICK s : s = status'[q]
    OBVIOUS
  <2>3. GoesRound(q, s)
    BY <2>1, <2>2
  <2>4. \A x \in Players : made[x] >= MaxWords => made'[x] >= MaxWords
    <3>1. MaxWords \in Nat
      BY RingAssumption
    <3>2. \A x \in Players : made[x] \in Nat /\ made'[x] \in Nat /\ made'[x] >= made[x]
      BY <1>1, <1>5
    <3> QED BY <3>1, <3>2
  <2>5. GoesRound(q, status[q])'
    BY <2>2, <2>3, <2>4 DEF GoesRound
  <2>6. q # h => ~ Waiting(q)'
    BY <1>1 DEF Orderly, Waiting
  <2> QED BY <2>5, <2>6
<1>7. LapOK(Token(h), Far(h))'
  BY <1>2, <1>3, <1>4 DEF LapOK, Quiet, Dist
<1>8. Behind(h)'
  <2>1. \A x \in Players \ {Server} : ~ (Dist(Server, x) <= 0)
    BY <1>4
  <2> QED BY <1>3, <2>1 DEF Behind, Dist
<1>9. ASSUME NEW x \in net', MayBeTaken(x)' PROVE FromHead(h, x)'
  <2>1. CASE x \notin net
    <3>1. AlsoSends(x, h, t)
      BY <1>9, <2>1 DEF MayBeTaken
    <3> QED BY <1>1, <1>3, <3>1 DEF AlsoSends, FromHead
  <2>2. CASE x \in net
    <3>1. x.to \in Players
      BY <2>2, Message
    <3>2. MayBeTaken(x)
      BY <1>1, <1>9, <3>1, OrderlyPlayer DEF MayBeTaken
    <3> QED BY <2>2, <3>2, OrderlyPacket
  <2> QED BY <2>1, <2>2
<1>10. ASSUME NEW q \in Players
       PROVE  AllWords(made', t.ringFrame.flags[q], Having(q, h)', q, played')
  <2>1. AllWords(made, Token(h).flags[q], Having(q, h), q, played)
    BY DEF Orderly
  <2>2. CASE q # h
    <3>1. made'[q] = made[q] /\ t.ringFrame.flags[q] = Token(h).flags[q]
      BY <1>1, <1>2, <2>2
    <3>2. Having(q, h)' = Having(q, h)
      BY <1>3, <2>2 DEF Having
    <3> QED BY <2>1, <3>1, <3>2, WordsSameBy
  <2>3. CASE q = h
    <3>1. Having(q, h) = Players /\ Having(q, h)' = {}
      BY <1>3, <2>3, ReachedIs DEF Having
    <3>2. Token(h).flags[q] \in Seq(Nat) /\ t.ringFrame.flags[q] \in Seq(Nat)
      BY <1>2, <1>3, Flags
    <3>3. made'[q] = made[q] + Len(t.ringFrame.flags[q])
      BY <1>1, <2>3
    <3>4. AllWords(made', t.ringFrame.flags[q], {}, q, played)
      BY <1>1, <2>1, <2>3, <3>1, <3>2, <3>3, WordsRenewedBy DEF NewWords
    <3> QED BY <3>1, <3>4
  <2> QED BY <2>2, <2>3
<1>11. \A q \in Players : AllWords(made, Token(h).flags[q], Having(q, h), q, played)'
  BY <1>3, <1>10
<1>12. h = Server
  BY <1>2
<1> QED BY <1>6, <1>7, <1>8, <1>9, <1>11, <1>12 DEF Orderly

\* It ends the game, after a lap that asked for no words.
LEMMA OrderlyEnds ==
  ASSUME RingInv, NEW h \in Players, Orderly(h), AllHere, Far(h) = N - 1,
         Token(h).required = 0, NEW t \in StatusSet, status' = [status EXCEPT ![Server] = t],
         status[Server].state = "comingDown", t.state = "comingDown", ~ t.clearToForward,
         t.lastValid >= status[Server].lastValid, made' = made, played' = played,
         \A x \in net' : MayBeTaken(x)' => Empty(x.packet)
  PROVE  Drained'
<1>1. /\ status'[Server] = t /\ \A q \in Players : q # Server => status'[q] = status[q]
      /\ made \in [Players -> Nat] /\ Server \in Players /\ N \in Nat
  BY Ring DEF RingInv, Typed
<1>2. /\ \A x \in Players : Dist(Server, x) \in 0 .. N - 1
      /\ \A x \in Players : Dist(Server, x) = 0 <=> x = Server
  BY <1>1, Dists
<1>3. \A q \in Players : Token(h).flags[q] = <<>>
  BY <1>1, <1>2 DEF Orderly, LapOK
<1>4. \A p, q \in Players : played[p][q] = WordsTo(made[q])
  <2> TAKE p, q \in Players
  <2>1. AllWords(made, <<>>, Having(q, h), q, played)
    BY <1>1, <1>3 DEF Orderly
  <2>2. \A who, pl : AllWords(made, <<>>, who, q, pl) =>
          \A x \in Players : pl[x][q] = WordsTo(made[q])
    BY <2>1, WordsAllPlayed
  <2> QED BY <2>1, <2>2
<1>5. \A q \in Players : Started(q) /\ Started(q)' /\ made[q] >= MaxWords
  <2>1. AllStarted /\ GoesRound(Server, status[Server])
    BY <1>1, Player, OrderlyPlayer
  <2> QED BY <1>1, <2>1 DEF AllStarted, Started, GoesRound
<1>6. \A q \in Players : ~ Waiting(q)'
  <2> TAKE q \in Players
  <2>1. Waiting(q) => q = Server
    BY OrderlyPlayer
  <2> QED BY <1>1, <2>1 DEF Waiting
<1>7. ASSUME NEW p \in Players \ {Server} PROVE FrameLate(p, status[p])'
  <2>1. /\ \A r \in Players : Dist(Server, p) < Dist(Server, r) =>
             status[p].lastValid < status[r].lastValid
        /\ Blank(p, status[p].ringFrame)
    BY <1>1, <1>2 DEF Orderly, Behind
  <2>2. status[p].upring = Next_(p) /\ status[p].lastValid \in Nat
    BY <1>5, OrderlyPlayer, Player
  <2>3. ASSUME NEW q \in Players, status[p].ringFrame.flags[q] # <<>>
        PROVE  /\ q # p /\ Dist(p, Next_(p)) <= Dist(p, q)
               /\ \A r \in Players : r # p /\ Dist(p, r) <= Dist(p, q) =>
                    status[p].lastValid < status'[r].lastValid
    <3>1. Dist(Server, p) < Dist(Server, q) /\ q # p
      BY <1>2, <2>1, <2>3 DEF Blank
    <3>2. Dist(p, q) = Dist(Server, q) - Dist(Server, p)
      BY <1>1, <3>1, Dists
    <3>3. Dist(p, Next_(p)) <= Dist(p, q)
      <4>1. /\ Dist(p, Next_(p)) = IF Next_(p) = p THEN 0 ELSE Dist(p, p) + 1
            /\ Dist(p, p) = 0
        BY Dists
      <4>2. Next_(p) # p
        BY Neighbours
      <4> QED BY <1>2, <3>1, <3>2, <4>1, <4>2
    <3>4. ASSUME NEW r \in Players, r # p, Dist(p, r) <= Dist(p, q)
          PROVE  status[p].lastValid < status'[r].lastValid
      <4>1. Dist(Server, p) < Dist(Server, r)
        BY <1>1, <3>1, <3>2, <3>4, Ring DEF Dist
      <4>2. r # Server /\ status[p].lastValid < status[r].lastValid
        BY <1>2, <2>1, <4>1
      <4> QED BY <1>1, <4>2
    <3> QED BY <3>1, <3>3, <3>4
  <2>4. status'[p] = status[p]
    BY <1>1
  <2>5. status'[p].ringFrame.type = "normal" /\ status'[p].ringFrame.required = 0
    BY <2>1, <2>4 DEF Blank
  <2> QED BY <2>2, <2>3, <2>4, <2>5 DEF FrameLate, Dist
<1>8. \A q \in Players : status'[q].state = "active" => q # Server
  BY <1>1
<1>9. \A x \in net' : Empty(x.packet) <=> Empty(x.packet)'
  BY DEF Empty
<1> QED BY <1>4, <1>5, <1>6, <1>7, <1>8, <1>9 DEF Drained

\* The packet that is taken is as the laps go.
LEMMA OrderlyFrame ==
  ASSUME RingInv, NEW h \in Players, Orderly(h), NEW m \in net, MayBeTaken(m)
  PROVE  /\ m.packet.dead = {} /\ Quiet(m.packet)
         /\ m.packet.type \in {"sync", "time"} => m.packet.required = 1
BY OrderlyPacket DEF Orderly, LapOK

LEMMA OrderlyPass ==
  ASSUME RingInv, NEW h \in Players, Orderly(h), played \in PlayedSet,
         NEW p \in Players, NEW m \in net, m.to = p, MayBeTaken(m), m.packet \in PacketSet,
         InGame(p), NEW s \in StatusSet, s.upring = status[p].upring, s.lastValid = m.seq,
         s.iAmTheServer = status[p].iAmTheServer, s.accept,
         s.state \in {"startingUp", "active", "comingDown"},
         s.state = status[p].state \/ s.state = "active",
         NEW packet \in PacketSet, PassedOn(p, s, packet),
         packet.type # "unsync", packet.dead = {}, Quiet(packet),
         packet.type \in {"sync", "time"} => packet.required = 1,
         \A q \in Players \ {p} : packet.flags[q] = m.packet.flags[q],
         p # Server => packet.type = m.packet.type /\ packet.required = m.packet.required,
         made' = [made EXCEPT ![p] = @ + Len(packet.flags[p])],
         packet.flags[p] = NewWords(p, Len(packet.flags[p])),
         packet.required = 0 => packet.flags[p] = <<>>, Plays(p, m)
  PROVE  Orderly(p)'
<1> DEFINE t == Sending(s, packet)
<1>1. /\ PassTo(p, m, t) /\ t.ringFrame = packet /\ t.state = s.state /\ t.accept = s.accept
  BY PassToIs
<1> HIDE DEF t
<1>2. /\ t \in StatusSet /\ status' = [status EXCEPT ![p] = t]
      /\ t.upring = status[p].upring /\ t.lastValid = m.seq /\ ~ t.clearToForward
      /\ t.iAmTheServer = status[p].iAmTheServer
      /\ \A x \in net' : x \in net \/ x.tag = "ack" \/ AlsoSends(x, p, t)
  BY <1>1 DEF PassTo
<1>3. Held(t) = packet
  BY <1>1, <1>2 DEF Held
<1>4. GoesRound(p, status[p]) /\ Started(p)
  BY OrderlyPlayer, Player
<1>5. t.state # "uninitialized" /\ GoesRound(p, t)
  BY <1>1, <1>2, <1>4 DEF GoesRound, Started
<1>6. m.packet.dead = {}
  BY OrderlyFrame
<1>7. Carries(p, m, t)
  BY <1>2, <1>3, <1>6 DEF Carries, Plays
<1> QED BY <1>2, <1>5, <1>7, OrderlyTaken

LEMMA OrderlyQuiet ==
  ASSUME RingInv, NEW h \in Players, Orderly(h), played \in PlayedSet,
         NEW p \in Players, NEW m \in net, m.to = p, InGame(p),
         ReceiveSync(p, m) \/ ReceiveTime(p, m)
  PROVE  Orderly(p)'
<1> DEFINE first == [m.packet EXCEPT !.type = IF status[p].iAmTheServer THEN "time" ELSE @]
           live == [Seen(p, m) EXCEPT !.state = "active"]
<1>1. PICK type \in {"sync", "time"} : ReceiveNew(p, m, type)
  BY DEF ReceiveSync, ReceiveTime
<1>2. MayBeTaken(m) /\ m.packet \in PacketSet /\ m.packet.type = type
  BY <1>1, NewIsTaken
<1>3. PICK s : s = Seen(p, m)
  OBVIOUS
<1>4. /\ s \in StatusSet /\ s.state = status[p].state /\ s.upring = status[p].upring
      /\ s.lastValid = m.seq /\ s.iAmTheServer = status[p].iAmTheServer
      /\ s.state \in {"startingUp", "active", "comingDown"} /\ s.accept
  BY <1>1, <1>3, NewPacket DEF InGame
<1>5. /\ live \in StatusSet /\ live.state = "active" /\ live.upring = s.upring
      /\ live.lastValid = s.lastValid /\ live.iAmTheServer = s.iAmTheServer /\ live.accept
  BY <1>3, <1>4 DEF StatusSet, States
<1>6. /\ m.packet.dead = {} /\ Quiet(m.packet) /\ m.packet.required = 1
      /\ \A q \in Players : m.packet.flags[q] = <<>>
  BY <1>1, <1>2, OrderlyFrame DEF Quiet
<1>7. /\ first \in PacketSet /\ first.dead = {} /\ first.required = 1
      /\ first.flags = m.packet.flags /\ first.type \in {"sync", "time"}
      /\ ~ status[p].iAmTheServer => first.type = m.packet.type
  BY <1>2, <1>6 DEF PacketSet, PacketTypes
<1> HIDE DEF first, live
<1>8. /\ made' = made /\ played' = played
      /\ PassedOn(p, s, first) \/ PassedOn(p, live, m.packet)
  BY <1>3 DEF ReceiveSync, ReceiveTime, first, live
<1>9. \A words : words = <<>> =>
        made' = [made EXCEPT ![p] = @ + Len(words)] /\ words = NewWords(p, Len(words))
  <2>1. Len(<<>>) = 0 /\ made \in [Players -> Nat]
    BY DEF RingInv, Typed
  <2>2. NewWords(p, 0) = <<>>
    BY DEF NewWords
  <2>3. made' = [made EXCEPT ![p] = @ + 0]
    BY <1>8, <2>1
  <2> QED BY <2>1, <2>2, <2>3
<1>10. Plays(p, m)
  <2>1. PICK packet \in PacketSet : packet = m.packet
    BY <1>2
  <2>2. \A q \in Players :
          IF q \in packet.dead THEN \E k \in Nat : played'[p][q] = played[p][q] \o DeadFor(k)
          ELSE played'[p][q] = played[p][q] \o packet.flags[q]
    BY <1>2, <1>6, <1>8, <2>1, QuietIs
  <2> QED BY <1>8, <2>1, <2>2 DEF Plays
<1>11. status[p].iAmTheServer <=> p = Server
  BY OrderlyPlayer, Player
<1>12. CASE PassedOn(p, s, first)
  <2>1. Quiet(first) /\ \A q \in Players : first.flags[q] = <<>>
    BY <1>6, <1>7 DEF Quiet
  <2>2. /\ made' = [made EXCEPT ![p] = @ + Len(first.flags[p])]
        /\ first.flags[p] = NewWords(p, Len(first.flags[p]))
        /\ \A q \in Players \ {p} : first.flags[q] = m.packet.flags[q]
        /\ first.required # 0 /\ first.required = m.packet.required /\ first.type # "unsync"
    <3>1. first.flags[p] = <<>>
      BY <2>1
    <3> QED BY <1>6, <1>7, <1>9, <3>1
  <2> QED
    BY <1>2, <1>4, <1>7, <1>10, <1>11, <1>12, <2>1, <2>2, OrderlyPass
<1>13. CASE PassedOn(p, live, m.packet)
  BY <1>2, <1>4, <1>5, <1>6, <1>9, <1>10, <1>13, OrderlyPass
<1> QED BY <1>8, <1>12, <1>13

\* A player's own words, as many as the packet asks for.
LEMMA OwnWords ==
  ASSUME RingInv, NEW p \in Players, NEW packet \in PacketSet
  PROVE  /\ Len(FlagsAdded(p, packet).flags[p]) = packet.required
         /\ FlagsAdded(p, packet).flags[p] = NewWords(p, packet.required)
         /\ packet.required = 0 => FlagsAdded(p, packet).flags[p] = <<>>
         /\ FlagsAdded(p, packet).required = packet.required
         /\ FlagsAdded(p, packet).type = packet.type
<1>1. /\ FlagsAdded(p, packet).flags[p] = NewWords(p, packet.required)
      /\ FlagsAdded(p, packet).required = packet.required
      /\ FlagsAdded(p, packet).type = packet.type
  <2>1. Moved(p, packet) \in PacketSet /\ Moved(p, packet).required = packet.required
    BY MovedTyped
  <2>2. FlagsAdded(p, packet).required = packet.required
    BY <2>1 DEF FlagsAdded, PacketSet
  <2> QED BY <2>2, AddedIs, FlagsTyped
<1>2. packet.required \in Nat /\ made[p] \in Nat
  BY Ring, Player DEF PacketSet
<1>3. Len(NewWords(p, packet.required)) = packet.required
  BY <1>2 DEF NewWords
<1>4. NewWords(p, 0) = <<>>
  BY DEF NewWords
<1> QED BY <1>1, <1>3, <1>4

LEMMA OrderlyFlags ==
  ASSUME RingInv, NEW h \in Players, Orderly(h), played \in PlayedSet,
         NEW p \in Players, NEW m \in net, m.to = p, InGame(p), ReceiveFlags(p, m)
  PROVE  Orderly(p)'
<1> DEFINE packet == FlagsAdded(p, m.packet)
<1>1. /\ ReceiveNew(p, m, "normal") /\ ~ status[p].iAmTheServer /\ Processed(p, m.packet)
      /\ FlagsPassedOn(p, Seen(p, m), m.packet)
  BY DEF ReceiveFlags, Normal
<1>2. MayBeTaken(m) /\ m.packet \in PacketSet /\ m.packet.type = "normal"
  BY <1>1, NewIsTaken
<1>3. PICK s : s = Seen(p, m)
  OBVIOUS
<1>4. /\ s \in StatusSet /\ s.state = status[p].state /\ s.upring = status[p].upring
      /\ s.lastValid = m.seq /\ s.iAmTheServer = status[p].iAmTheServer
      /\ s.state \in {"startingUp", "active", "comingDown"} /\ s.accept
  BY <1>1, <1>3, NewPacket DEF InGame
<1>5. PassedOn(p, s, packet) /\ made' = [made EXCEPT ![p] = @ + m.packet.required]
  BY <1>1, <1>3 DEF FlagsPassedOn
<1>6. Plays(p, m)
  BY <1>1, <1>2, PlaysIs
<1>7. /\ packet \in PacketSet /\ packet.dead = {} /\ Quiet(packet)
      /\ \A q \in Players \ {p} : packet.flags[q] = m.packet.flags[q]
      /\ Len(packet.flags[p]) = m.packet.required /\ packet.required = m.packet.required
      /\ packet.required = 0 => packet.flags[p] = <<>>
      /\ packet.flags[p] = NewWords(p, packet.required) /\ packet.type = "normal"
  <2>1. m.packet.dead = {}
    BY <1>2, OrderlyFrame
  <2>2. PICK old \in PacketSet : old = m.packet
    BY <1>2
  <2>3. /\ FlagsAdded(p, old) \in PacketSet /\ FlagsAdded(p, old).dead = old.dead \ {p}
        /\ Quiet(FlagsAdded(p, old))
        /\ \A q \in Players \ {p} : FlagsAdded(p, old).flags[q] = old.flags[q]
    BY <1>2, <2>1, <2>2, FlagsAddedIs
  <2>4. /\ Len(FlagsAdded(p, old).flags[p]) = old.required
        /\ FlagsAdded(p, old).required = old.required
        /\ old.required = 0 => FlagsAdded(p, old).flags[p] = <<>>
        /\ FlagsAdded(p, old).flags[p] = NewWords(p, old.required)
        /\ FlagsAdded(p, old).type = old.type
    BY OwnWords
  <2> QED BY <1>2, <2>1, <2>2, <2>3, <2>4
<1> HIDE DEF packet
<1> QED BY <1>2, <1>4, <1>5, <1>6, <1>7, OrderlyPass

\* What the server sends after old: a lap with words, one without, or the packet that
\* ends the game.
ServerPacket(p, s, old, packet) ==
  /\ packet \in PacketSet /\ packet.dead = {} /\ Quiet(packet)
  /\ packet.type \in {"normal", "unsync"}
  /\ \A q \in Players \ {p} : packet.flags[q] = old.flags[q]
  /\ Len(packet.flags[p]) = packet.required
  /\ packet.flags[p] = NewWords(p, packet.required)
  /\ packet.required = 0 => packet.flags[p] = <<>>
  /\ packet.type = "unsync" =>
       s.state = "comingDown" /\ old.required = 0 /\ packet.required = 0

LEMMA ServerSends ==
  ASSUME RingInv, NEW p \in Players, NEW s, NEW old \in PacketSet, old.type = "normal",
         old.dead = {}, NEW n \in 1 .. MaxRequired
  PROVE  LET lap == NewLap(s, old, n)
         IN  /\ ServerPacket(p, s, old, FlagsAdded(p, lap)) /\ lap \in PacketSet
             /\ FlagsAdded(p, lap).required = lap.required
<1> DEFINE lap == NewLap(s, old, n)
           packet == FlagsAdded(p, lap)
<1>1. /\ lap \in PacketSet /\ lap.type \in {"normal", "unsync"}
      /\ lap.dead = old.dead /\ lap.flags = old.flags
  BY NewLapIs
<1>2. lap.type = "unsync" => s.state = "comingDown" /\ old.required = 0 /\ lap.required = 0
  BY DEF NewLap, PacketSet
<1> HIDE DEF lap
<1>3. /\ packet \in PacketSet /\ packet.dead = lap.dead \ {p} /\ Quiet(packet)
      /\ \A q \in Players \ {p} : packet.flags[q] = lap.flags[q]
  BY <1>1, FlagsAddedIs
<1>4. /\ Len(packet.flags[p]) = lap.required /\ packet.required = lap.required
      /\ packet.flags[p] = NewWords(p, lap.required)
      /\ packet.type = lap.type
      /\ packet.required = 0 => packet.flags[p] = <<>>
  BY <1>1, OwnWords
<1> HIDE DEF packet
<1>5. ServerPacket(p, s, old, packet)
  BY <1>1, <1>2, <1>3, <1>4 DEF ServerPacket
<1> QED BY <1>1, <1>4, <1>5 DEF lap, packet

LEMMA OrderlyAtServer ==
  ASSUME RingInv, WordsOK, NEW h \in Players, Orderly(h), AllHere,
         NEW p \in Players, NEW m \in net, m.to = p, InGame(p),
         NEW n \in 1 .. MaxRequired, ReceiveAtServer(p, m, n)
  PROVE  Drained' \/ Orderly(p)'
<1> DEFINE own == [m.packet EXCEPT !.type = "normal", !.server = p]
<1>1. PICK type \in {"normal", "time"} : ReceiveNew(p, m, type)
  BY DEF ReceiveAtServer, Normal
<1>2. MayBeTaken(m) /\ m.packet \in PacketSet /\ m.packet.type = type
  BY <1>1, NewIsTaken
<1>3. /\ p = Server /\ p = Next_(h) /\ Token(h) = m.packet /\ Far(h) = Dist(Server, h)
      /\ played \in PlayedSet /\ m.seq > status[p].lastValid
  <2>1. p = Server
    BY OrderlyPlayer, Player DEF ReceiveAtServer
  <2> QED BY <1>2, <2>1, OrderlyPacket DEF WordsOK, MayBeTaken
<1>4. PICK s : s = Live(m, Seen(p, m))
  OBVIOUS
<1>5. /\ s \in StatusSet /\ s.upring = status[p].upring
      /\ s.lastValid = m.seq /\ s.iAmTheServer = status[p].iAmTheServer
      /\ s.state \in {"startingUp", "active", "comingDown"} /\ s.accept
      /\ s.state = IF type = "time" THEN "active" ELSE status[p].state
  <2>1. PICK r : r = Seen(p, m)
    OBVIOUS
  <2>2. /\ r \in StatusSet /\ r.state = status[p].state /\ r.upring = status[p].upring
        /\ r.lastValid = m.seq /\ r.iAmTheServer = status[p].iAmTheServer
        /\ r.state \in {"startingUp", "active", "comingDown"} /\ r.accept
    BY <1>1, <2>1, NewPacket DEF InGame
  <2>3. s = IF type = "time" THEN [r EXCEPT !.state = "active"] ELSE r
    BY <1>2, <1>4, <2>1 DEF Live
  <2> QED BY <2>2, <2>3 DEF StatusSet, States
<1>6. /\ own \in PacketSet /\ own.type = "normal" /\ own.dead = {}
      /\ own.required = m.packet.required /\ own.flags = m.packet.flags
  BY <1>2, OrderlyFrame DEF PacketSet, PacketTypes
<1> DEFINE lap == NewLap(s, own, n)
           packet == FlagsAdded(p, lap)
<1>7. /\ Processed(p, m.packet) /\ PassedOn(p, s, packet)
      /\ made' = [made EXCEPT ![p] = @ + lap.required]
  BY <1>4 DEF ReceiveAtServer, FlagsPassedOn
<1> HIDE DEF own
<1>8. ServerPacket(p, s, own, packet) /\ packet.required = lap.required
  BY <1>6, ServerSends
<1>9. Plays(p, m)
  BY <1>2, <1>3, <1>7, PlaysIs
<1> HIDE DEF lap, packet
<1>10. CASE packet.type # "unsync"
  BY <1>2, <1>3, <1>5, <1>6, <1>7, <1>8, <1>9, <1>10, OrderlyPass DEF ServerPacket
<1>11. CASE packet.type = "unsync"
  <2>1. /\ s.state = "comingDown" /\ status[p].state = "comingDown" /\ type = "normal"
        /\ m.packet.required = 0 /\ packet.required = 0 /\ lap.required = 0
    BY <1>5, <1>6, <1>8, <1>11 DEF ServerPacket
  <2>2. Far(h) = N - 1 /\ \A q \in Players : Dist(Server, q) \in 0 .. N - 1
    <3>1. h = Previous(p)
      BY <1>3, ReachedIs
    <3> QED BY <1>3, <3>1, Dists
  <2>3. \A q \in Players : m.packet.flags[q] = <<>>
    BY <1>3, <2>1, <2>2, Ring DEF Orderly, LapOK
  <2>4. Empty(m.packet) /\ Empty(packet)
    BY <1>2, <1>6, <1>8, <1>11, <2>1, <2>3 DEF Empty, ServerPacket
  <2>5. made' = made /\ played' = played
    <3>1. made' = made
      BY <1>7, <2>1 DEF RingInv, Typed
    <3>2. PICK x \in PacketSet : x = m.packet
      BY <1>2
    <3> QED BY <1>7, <2>4, <3>1, <3>2, EmptyIs
  <2> DEFINE t == Sending(s, packet)
  <2>6. PassTo(p, m, t) /\ t.ringFrame = packet /\ t.state = s.state
    BY <1>2, <1>5, <1>7, <1>8, PassToIs DEF ServerPacket
  <2> HIDE DEF t
  <2>7. /\ t \in StatusSet /\ status' = [status EXCEPT ![p] = t] /\ t.lastValid = m.seq
        /\ ~ t.clearToForward
        /\ \A x \in net' : x \in net \/ x.tag = "ack" \/ x.packet = packet
    BY <2>6 DEF PassTo, AlsoSends
  <2>8. \A x \in net' : MayBeTaken(x)' => Empty(x.packet)
    <3> SUFFICES ASSUME NEW x \in net', MayBeTaken(x)' PROVE Empty(x.packet)
      OBVIOUS
    <3>1. x \notin net
      BY <1>2, <2>7, OrderlyOld
    <3> QED BY <2>4, <2>7, <3>1 DEF MayBeTaken
  <2>9. t.lastValid >= status[Server].lastValid
    BY <1>3, <2>7, Player, Message
  <2> QED BY <1>3, <2>1, <2>2, <2>5, <2>6, <2>7, <2>8, <2>9, OrderlyEnds
<1> QED BY <1>10, <1>11

LEMMA OrderlyWait ==
  ASSUME RingInv, WordsOK, NEW h \in Players, Orderly(h),
         NEW p \in Players, NEW m \in net, m.to = p, InGame(p), ReceiveAndWait(p, m)
  PROVE  Orderly(p)'
<1> DEFINE held == [m.packet EXCEPT !.type = "normal"]
<1>1. PICK type \in {"normal", "time"} : ReceiveNew(p, m, type)
  BY DEF ReceiveAndWait, Normal
<1>2. MayBeTaken(m) /\ m.packet \in PacketSet /\ m.packet.type = type
  BY <1>1, NewIsTaken
<1>3. p = Server /\ played \in PlayedSet /\ GoesRound(p, status[p])
  BY OrderlyPlayer, Player DEF ReceiveAndWait, WordsOK
<1>4. PICK s : s = Live(m, Seen(p, m))
  OBVIOUS
<1>5. /\ s \in StatusSet /\ s.upring = status[p].upring /\ s.lastValid = m.seq
      /\ s.iAmTheServer = status[p].iAmTheServer /\ s.accept
      /\ s.state \in {"startingUp", "active", "comingDown"}
      /\ s.state = "active" \/ s.state = status[p].state
      /\ s.ringFrame = status[p].ringFrame
  <2>1. PICK r : r = Seen(p, m)
    OBVIOUS
  <2>2. /\ r \in StatusSet /\ r.state = status[p].state /\ r.upring = status[p].upring
        /\ r.lastValid = m.seq /\ r.iAmTheServer = status[p].iAmTheServer
        /\ r.state \in {"startingUp", "active", "comingDown"} /\ r.accept
        /\ r.ringFrame = status[p].ringFrame
    BY <1>1, <2>1, NewPacket DEF InGame
  <2>3. s = IF type = "time" THEN [r EXCEPT !.state = "active"] ELSE r
    BY <1>2, <1>4, <2>1 DEF Live
  <2> QED BY <2>2, <2>3 DEF StatusSet, States
<1>6. /\ held \in PacketSet /\ held.type = "normal" /\ held.dead = {} /\ Quiet(held)
      /\ held.required = m.packet.required /\ held.flags = m.packet.flags
      /\ m.packet.dead = {}
  BY <1>2, OrderlyFrame DEF PacketSet, PacketTypes, Quiet
<1> DEFINE t == [s EXCEPT !.clearToForward = TRUE, !.buffer = held]
<1>7. /\ Processed(p, m.packet) /\ status' = [status EXCEPT ![p] = t]
      /\ made' = made /\ net' = net
  BY <1>4 DEF ReceiveAndWait
<1> HIDE DEF held
<1>8. /\ t \in StatusSet /\ t.upring = s.upring /\ t.lastValid = s.lastValid
      /\ t.iAmTheServer = s.iAmTheServer /\ t.accept /\ t.state = s.state
      /\ t.ringFrame = s.ringFrame /\ t.clearToForward /\ t.buffer = held
  BY <1>5, <1>6 DEF StatusSet
<1> HIDE DEF t
<1>9. Plays(p, m)
  BY <1>2, <1>3, <1>7, PlaysIs
<1>10. Started(p)
  BY Player
<1>11. t.state # "uninitialized" /\ GoesRound(p, t)
  BY <1>3, <1>5, <1>6, <1>8, <1>10 DEF GoesRound, Started
<1>12. Held(t) = held
  BY <1>8 DEF Held
<1>13. Carries(p, m, t)
  BY <1>3, <1>5, <1>6, <1>7, <1>8, <1>9, <1>12 DEF Carries, Plays
<1> QED BY <1>2, <1>3, <1>7, <1>8, <1>11, <1>13, OrderlyTaken

LEMMA OrderlyForwards ==
  ASSUME RingInv, WordsOK, NEW h \in Players, Orderly(h), AllHere,
         NEW p \in Players, NEW n \in 1 .. MaxRequired, ServerTaskForwards(p, n)
  PROVE  Drained' \/ Orderly(h)'
<1> DEFINE old == status[p].buffer
           lap == NewLap(status[p], old, n)
           packet == FlagsAdded(p, lap)
           t == Sending(status[p], packet)
<1>1. /\ InGame(p) /\ Waiting(p) /\ played' = played /\ PassedOn(p, status[p], packet)
      /\ made' = [made EXCEPT ![p] = @ + lap.required]
  BY DEF ServerTaskForwards, FlagsPassedOn, Waiting
<1>2. /\ p = h /\ p = Server /\ old.type = "normal" /\ old \in PacketSet
      /\ status[p] \in StatusSet /\ GoesRound(p, status[p]) /\ Started(p)
      /\ played \in PlayedSet /\ status[p].lastValid \in Nat
  BY <1>1, OrderlyPlayer, Player DEF WordsOK
<1>3. Token(h) = old /\ old.dead = {} /\ Far(h) = N - 1
  BY <1>1, <1>2 DEF Orderly, LapOK, Token, Far
<1> HIDE DEF old
<1>4. ServerPacket(p, status[p], old, packet) /\ packet.required = lap.required
  BY <1>2, <1>3, ServerSends
<1> HIDE DEF lap, packet
<1>5. /\ status' = [status EXCEPT ![p] = t]
      /\ net' = net \cup {Ack(p, status[p].downring, status[p].lastValid), RingFrame(p, t, "ring")}
  BY <1>1 DEF PassedOn
<1>6. /\ t \in StatusSet /\ t.state = status[p].state /\ t.lastValid = status[p].lastValid
      /\ t.accept = status[p].accept /\ t.ringFrame = packet /\ ~ t.clearToForward
      /\ t.upring = status[p].upring /\ t.iAmTheServer = status[p].iAmTheServer
  BY <1>2, <1>4 DEF Sending, StatusSet, ServerPacket
<1> HIDE DEF t
<1>7. \A x \in net' : x \in net \/ x.tag = "ack" \/ AlsoSends(x, p, t)
  <2>1. AlsoSends(RingFrame(p, t, "ring"), p, t)
    BY DEF RingFrame, RingPacket, AlsoSends
  <2> QED BY <1>5, <2>1 DEF Ack
<1>8. CASE packet.type # "unsync"
  <2>1. t.state # "uninitialized" /\ GoesRound(p, t)
    BY <1>2, <1>6, <1>8 DEF GoesRound, Started
  <2>2. /\ packet.dead = {} /\ packet.type = "normal"
        /\ \A q \in Players \ {p} : packet.flags[q] = status[p].buffer.flags[q]
        /\ Len(packet.flags[p]) = lap.required
        /\ packet.flags[p] = NewWords(p, Len(packet.flags[p]))
        /\ packet.required = 0 => packet.flags[p] = <<>>
    BY <1>4, <1>8 DEF ServerPacket, old
  <2>3. Orderly(p)'
    BY <1>1, <1>2, <1>5, <1>6, <1>7, <2>1, <2>2, OrderlyLap
  <2> QED BY <1>2, <2>3
<1>9. CASE packet.type = "unsync"
  <2>1. /\ status[p].state = "comingDown" /\ old.required = 0 /\ lap.required = 0
        /\ packet.required = 0
    BY <1>4, <1>9 DEF ServerPacket
  <2>2. \A q \in Players : old.flags[q] = <<>>
    <3>1. \A q \in Players : Dist(Server, q) \in 0 .. N - 1 /\ N \in Nat
      BY <1>2, Dists, Ring
    <3> QED BY <1>3, <2>1, <3>1 DEF Orderly, LapOK
  <2>3. Empty(packet)
    BY <1>4, <1>9, <2>1, <2>2 DEF Empty, ServerPacket
  <2>4. made' = made
    BY <1>1, <2>1 DEF RingInv, Typed
  <2>5. ASSUME NEW x \in net', MayBeTaken(x)' PROVE Empty(x.packet)
    <3>1. CASE x \in net
      <4>1. x.to \in Players /\ status'[p] = t /\ \A q \in Players : q # p => status'[q] = status[q]
        BY <1>5, <3>1, Message DEF RingInv, Typed
      <4>2. MayBeTaken(x)
        BY <1>6, <2>5, <4>1, OrderlyPlayer DEF MayBeTaken
      <4> QED BY <1>1, <1>2, <3>1, <4>2, OrderlyPacket
    <3>2. CASE x \notin net
      <4>1. x.packet = packet
        BY <1>6, <1>7, <2>5, <3>2 DEF MayBeTaken, AlsoSends
      <4> QED BY <2>3, <4>1
    <3> QED BY <3>1, <3>2
  <2>6. t.lastValid >= status[Server].lastValid
    BY <1>2, <1>6
  <2> QED BY <1>1, <1>2, <1>3, <1>5, <1>6, <2>1, <2>4, <2>5, <2>6, OrderlyEnds
<1> QED BY <1>8, <1>9

\* Nobody has reason to drop its neighbour, but that it is slow.
LEMMA OrderlyAnswered ==
  ASSUME RingInv, NEW h \in Players, Orderly(h), NEW p \in Players, Hopeless(p),
         status[p].state \in {"active", "comingDown"}
  PROVE  FALSE
<1>1. AllStarted /\ Started(p) /\ Next_(p) \in Players
  BY Player, Neighbours DEF Started
<1>2. status[p].upring = Next_(p) /\ status[p].ringFrame.type # "unsync"
  BY <1>1, OrderlyPlayer
<1>3. Started(Next_(p))
  BY <1>1 DEF AllStarted
<1>4. InGame(Next_(p)) /\ status[Next_(p)].accept
  BY <1>1, <1>3, OrderlyPlayer
<1> QED BY <1>2, <1>4 DEF Hopeless

\* Who has gone stays away, and who was dropped stays dropped.
LEMMA HereBefore ==
  ASSUME RingInv, Next, AllHere'
  PROVE  AllHere
<1>1. PICK p \in Players :
        \/ Sync(p) \/ Leave(p)
        \/ \E m \in net : Handle(p, m)
        \/ ServerTask(p) \/ GiveUp(p) \/ DropUpring(p)
  BY DEF Next
<1>2. OutStays(p)
  BY <1>1, HandleOutStays, TaskOutStays DEF ServerTask
<1>3. status[p].state # "gone"
  BY <1>1
     DEF Sync, Leave, UnSyncBegins, UnSyncEnds, SyncTimesOut, UnSyncTimesOut, Crash, Handle,
         ServerTask, ServerTaskEarly, ServerTaskForwards, GiveUp, DropUpring, InGame
<1>4. \A q \in Players : q # p => status'[q] = status[q]
  BY <1>2 DEF OutStays, RingInv, Typed
<1>5. hasty = {}
  BY <1>1, HastyStays DEF AllHere
<1> QED BY <1>3, <1>4, <1>5 DEF AllHere

LEMMA OrderlyLeave ==
  ASSUME RingInv, NEW h \in Players, Orderly(h), NEW p \in Players, Leave(p), AllHere'
  PROVE  Orderly(h)'
<1>1. status[p] \in StatusSet /\ status'[p].state # "gone"
  BY Player DEF AllHere
<1>2. ~ IsGone(p)
  BY <1>1 DEF IsGone, OutOfGame, RingInv, Typed
<1>3. ~ UnSyncEnds(p)
  BY OrderlyPlayer DEF UnSyncEnds, Started
<1>4. UnSyncBegins(p)
  BY <1>2, <1>3 DEF Leave, UnSyncTimesOut, SyncTimesOut, Crash
<1>5. ~ GiveUp(p)
  BY <1>4 DEF UnSyncBegins, GiveUp
<1> QED BY <1>4, <1>5, TaskIsMinor, OrderlyMinor

LEMMA OrderlyHandle ==
  ASSUME RingInv, WordsOK, NEW h \in Players, Orderly(h), AllHere,
         NEW p \in Players, NEW m \in net, Handle(p, m)
  PROVE  Drained' \/ \E k \in Players : Orderly(k)'
<1>1. InGame(p) /\ m.to = p /\ played \in PlayedSet
  BY DEF Handle, WordsOK
<1>2. CASE ReceiveAck(p, m) \/ ReceiveTooLate(p, m) \/ ReceiveLate(p, m) \/ IgnoreUnsync(p, m)
  BY <1>1, <1>2, MinorIs, OrderlyMinor
<1>3. CASE ReceiveSync(p, m) \/ ReceiveTime(p, m)
  <2>1. Orderly(p)'
    BY <1>1, <1>3, OrderlyQuiet
  <2> QED BY <2>1
<1>4. CASE ReceiveFlags(p, m)
  <2>1. Orderly(p)'
    BY <1>1, <1>4, OrderlyFlags
  <2> QED BY <2>1
<1>5. CASE \E n \in 1 .. MaxRequired : ReceiveAtServer(p, m, n)
  <2>1. Drained' \/ Orderly(p)'
    BY <1>1, <1>5, OrderlyAtServer
  <2> QED BY <2>1
<1>6. CASE ReceiveAndWait(p, m)
  <2>1. Orderly(p)'
    BY <1>1, <1>6, OrderlyWait
  <2> QED BY <2>1
<1>7. ~ ReceiveUnsync(p, m)
  <2> SUFFICES ASSUME ReceiveNew(p, m, "unsync") PROVE FALSE
    BY DEF ReceiveUnsync
  <2>1. MayBeTaken(m) /\ m.packet.type = "unsync"
    BY <1>1, NewIsTaken
  <2> QED BY <2>1, OrderlyPacket
<1> QED BY <1>2, <1>3, <1>4, <1>5, <1>6, <1>7 DEF Handle

\* What keeps OrderInv: nobody goes, or everything has been played already.
LEMMA OrderStep ==
  ASSUME RingInv, RingInv', WordsOK, OrderInv, Next
  PROVE  OrderInv'
<1> SUFFICES ASSUME AllHere' PROVE Drained' \/ \E k \in Players : Orderly(k)'
  BY DEF OrderInv
<1>1. AllHere
  BY HereBefore
<1>2. CASE Drained
  BY <1>2, DrainedStays DEF AllHere
<1>3. CASE \E h \in Players : Orderly(h)
  <2>1. PICK h \in Players : Orderly(h)
    BY <1>3
  <2>2. PICK p \in Players :
          \/ Sync(p) \/ Leave(p)
          \/ \E m \in net : Handle(p, m)
          \/ ServerTask(p) \/ GiveUp(p) \/ DropUpring(p)
    BY DEF Next
  <2>3. CASE Sync(p)
    <3>1. Orderly(h)'
      BY <2>1, <2>3, OrderlySync
    <3> QED BY <3>1
  <2>4. CASE Leave(p)
    <3>1. Orderly(h)'
      BY <2>1, <2>4, OrderlyLeave
    <3> QED BY <3>1
  <2>5. CASE \E m \in net : Handle(p, m)
    BY <1>1, <2>1, <2>5, OrderlyHandle
  <2>6. CASE ServerTaskEarly(p)
    <3>1. ~ GiveUp(p)
      BY <2>1, OrderlyAnswered DEF GiveUp, Noted, AllHere
    <3>2. Orderly(h)'
      BY <2>1, <2>6, <3>1, TaskIsMinor, OrderlyMinor
    <3> QED BY <3>2
  <2>7. CASE \E n \in 1 .. MaxRequired : ServerTaskForwards(p, n)
    <3>1. Drained' \/ Orderly(h)'
      BY <1>1, <2>1, <2>7, OrderlyForwards
    <3> QED BY <3>1
  <2>8. ~ GiveUp(p) /\ ~ DropUpring(p)
    BY <2>1, OrderlyAnswered DEF GiveUp, DropUpring, Noted, AllHere
  <2> QED BY <2>2, <2>3, <2>4, <2>5, <2>6, <2>7, <2>8 DEF ServerTask
<1> QED BY <1>1, <1>2, <1>3 DEF OrderInv

LEMMA OrderInit == Init => OrderInv
<1> SUFFICES ASSUME Init PROVE Orderly(Server)
  BY Ring DEF OrderInv
<1>1. /\ \A p \in Players : status[p] = OutOfGame("uninitialized")
      /\ net = {} /\ made = [q \in Players |-> 0]
      /\ \A p, q \in Players : played[p][q] = <<>>
  BY DEF Init
<1>2. /\ FirstPacket.flags = [q \in Players |-> <<>>] /\ FirstPacket.dead = {}
      /\ FirstPacket.type = "sync" /\ FirstPacket.required = 1
  BY DEF FirstPacket
<1>3. \A p \in Players :
        /\ status[p].state = "uninitialized" /\ ~ status[p].clearToForward
        /\ status[p].ringFrame = FirstPacket
  BY <1>1 DEF OutOfGame
<1>4. \A p \in Players : GoesRound(p, status[p]) /\ ~ Waiting(p) /\ ~ Started(p)
  BY <1>1, <1>2, <1>3 DEF GoesRound, Waiting, Started
<1>5. Server \in Players /\ Token(Server) = FirstPacket /\ Far(Server) = 0
  BY <1>3, <1>4, Ring DEF Token, Far, Dist, Players
<1>6. LapOK(FirstPacket, 0)
  BY <1>2 DEF LapOK, Quiet
<1>7. Behind(Server)
  <2>1. \A p \in Players \ {Server} : Dist(Server, p) > 0
    BY <1>5, Ring DEF Dist, Players
  <2>2. \A p \in Players : Dist(Server, p) \in Int
    BY <1>5, Ring DEF Dist, Players
  <2> QED BY <1>5, <2>1, <2>2 DEF Behind
<1>8. ASSUME NEW q \in Players
      PROVE  AllWords(made, Token(Server).flags[q], Having(q, Server), q, played)
  <2>1. Token(Server).flags[q] = <<>> /\ made[q] = 0
    BY <1>1, <1>2, <1>5
  <2> DEFINE none == <<>>
  <2>2. none \in Seq(Nat) /\ none \o none = none /\ Len(none) = 0
    BY ConcatTyped
  <2>3. \A p \in Players : played[p][q] = none
    BY <1>1
  <2> HIDE DEF none
  <2>4. AllWords(made, none, Having(q, Server), q, played)
    <3> DEFINE who == Having(q, Server)
    <3>1. none \o none = WordsTo(made[q])
      BY <2>1, <2>2, WordsAre DEF none
    <3> HIDE DEF who
    <3>2. \A p \in Players : played[p][q] = IF p \in who THEN none \o none ELSE none
      BY <2>2, <2>3
    <3>3. AllWords(made, none, who, q, played)
      BY <2>2, <3>1, <3>2 DEF AllWords
    <3> QED BY <3>3 DEF who
  <2> QED BY <2>1, <2>4 DEF none
<1> QED BY <1>1, <1>4, <1>5, <1>6, <1>7, <1>8 DEF Orderly

\* While nobody has gone or was dropped, the packet goes round them all or has nothing left
\* to bring: no packet of RingGameProtocol is lost to anybody, however late or often it comes.
THEOREM OrderInvariant == Spec => []OrderInv
<1>1. RingInv /\ RingInv' /\ WordsOK /\ OrderInv /\ [Next]_vars => OrderInv'
  <2> SUFFICES ASSUME RingInv, RingInv', WordsOK, OrderInv, [Next]_vars PROVE OrderInv'
    OBVIOUS
  <2>1. CASE Next
    BY <2>1, OrderStep
  <2>2. CASE UNCHANGED vars
    <3>1. /\ status' = status /\ net' = net /\ made' = made /\ played' = played
          /\ hasty' = hasty
      BY <2>2 DEF vars
    <3>2. AllHere' <=> AllHere
      BY <3>1 DEF AllHere
    <3>3. Drained => Drained'
      BY <3>1 DEF Drained, Started, Waiting, MayBeTaken, InGame, Out, FrameLate, Dist, Empty
    <3>4. ASSUME NEW h \in Players, Orderly(h) PROVE Orderly(h)'
      <4>1. /\ Token(h)' = Token(h) /\ Far(h)' = Far(h)
            /\ \A q \in Players : Having(q, h)' = Having(q, h)
            /\ \A q \in Players : (Waiting(q)' <=> Waiting(q)) /\ (Started(q)' <=> Started(q))
        BY <3>1 DEF Token, Far, Having, Reached, Dist, Waiting, Started
      <4>2. \A q \in Players : GoesRound(q, status[q])'
        BY <3>1, <3>4 DEF Orderly, GoesRound
      <4>3. LapOK(Token(h), Far(h))' /\ Behind(h)'
        BY <3>1, <3>4, <4>1 DEF Orderly, LapOK, Behind, Blank, Quiet, Dist
      <4>4. \A m \in net' : MayBeTaken(m)' => FromHead(h, m)'
        BY <3>1, <3>4 DEF Orderly, MayBeTaken, FromHead, InGame, Out, Started, Waiting
      <4>5. \A q \in Players : AllWords(made, Token(h).flags[q], Having(q, h), q, played)'
        <5> TAKE q \in Players
        <5>1. AllWords(made, Token(h).flags[q], Having(q, h), q, played)
          BY <3>4 DEF Orderly
        <5>2. Token(h)' = Token(h) /\ Having(q, h)' = Having(q, h)
          BY <4>1
        <5> QED BY <3>1, <5>1, <5>2 DEF AllWords
      <4> QED BY <3>4, <4>1, <4>2, <4>3, <4>4, <4>5, Ring DEF Orderly
    <3> QED BY <3>2, <3>3, <3>4 DEF OrderInv
  <2> QED BY <2>1, <2>2
<1> QED BY <1>1, OrderInit, RingInvariant, WordsInvariant, PTL DEF Spec

\* In a game that nobody goes or is dropped from, whoever has left RingGameProtocol by the
\* packet that ends it has played all the words that anybody has made.
THEOREM NothingLost == Spec => []NothingLeftBehind
<1>1. RingInv /\ OrderInv => NothingLeftBehind
  <2> SUFFICES ASSUME RingInv, OrderInv, AllHere, NEW p \in Players, status[p].state = "down",
                      NEW q \in Players
               PROVE  played[p][q] = WordsTo(made[q])
    BY DEF NothingLeftBehind, AllHere
  <2>1. Started(p) /\ ~ InGame(p)
    BY DEF Started, InGame
  <2>2. Drained
    BY <2>1, OrderlyPlayer DEF OrderInv
  <2> QED BY <2>2 DEF Drained
<1> QED BY <1>1, RingInvariant, OrderInvariant, PTL

\* All play the same flags while nobody has gone, in the middle of the end of the game too,
\* and with one player out, wherever it had the packet then; as long as drop_upring_player
\* drops only who cannot answer any more.
THEOREM StreamsSameInOrder == Spec => [](AllHere \/ OnlyOneOut => SameStreams)
<1>1. RingInv /\ WordsOK /\ OrderInv /\ AllHere => OnlyOneOut \/ SameStreams
  <2> SUFFICES ASSUME RingInv, WordsOK, OrderInv, AllHere, ~ OnlyOneOut PROVE SameStreams
    OBVIOUS
  <2>1. ~ \E h \in Players : Orderly(h)
    BY OrderlyPlayer DEF OnlyOneOut, AllHere
  <2>2. Drained
    BY <2>1 DEF OrderInv
  <2>3. ASSUME NEW p1 \in Players, NEW p2 \in Players, NEW q \in Players
        PROVE  Alike(played[p1][q], played[p2][q])
    <3>1. played[p1][q] = played[p2][q] /\ played[p1][q] \in Seq(Nat)
      BY <2>2 DEF Drained, AllHere, WordsOK, PlayedSet
    <3> QED BY <3>1 DEF Alike, IsPrefix
  <2> QED BY <2>3 DEF SameStreams
<1> QED BY <1>1, RingInvariant, WordsInvariant, OrderInvariant, StreamsStayAlike, PTL

-----------------------------------------------------------------------------
(***************************************************************************)
(* One player out: everybody's own words                                   *)
(***************************************************************************)
\* A player in the ring has played all that it has made, but for what it has sent last.
OwnPlayed(q) ==
  WordsTo(made[q]) = IF Waiting(q) THEN played[q][q]
                     ELSE played[q][q] \o status[q].ringFrame.flags[q]

\* Whoever got the packet later than q has the words that q put in.
SameFlags(p, q) ==
  p # q /\ status[q].lastValid <= status[p].lastValid =>
    Token(p).flags[q] = status[q].ringFrame.flags[q]

OwnInv ==
  \A q \in Ins :
    /\ OwnPlayed(q) /\ (Waiting(q) => status[q].lastValid > 0)
    /\ \A p \in Ins : SameFlags(p, q)

\* The last step of the way round to h is made from the nearest one.
LEMMA Nearest ==
  ASSUME NEW h \in Players, NEW S, S \subseteq Players, S # {}
  PROVE  \E p \in S : \A x \in S : Dist(p, h) <= Dist(x, h)
<1> DEFINE T == {Dist(p, h) : p \in S}
<1>1. \A p \in S : Dist(p, h) \in Nat
  <2> TAKE p \in S
  <2>1. Dist(p, h) \in 0 .. N - 1
    BY Dists
  <2> QED BY <2>1
<1>2. T \subseteq Nat /\ T # {}
  BY <1>1
<1>3. \E k \in T : \A t \in T : ~ (<<t, k>> \in OpToRel(<, Nat))
  <2> HIDE DEF T
  <2> QED BY <1>2, WFMin, NatLessThanWellFounded, Zenon
<1>4. PICK k \in T : \A t \in T : ~ (t < k)
  BY <1>2, <1>3 DEF OpToRel
<1>5. PICK p \in S : k = Dist(p, h)
  BY <1>4
<1>6. \A x \in S : Dist(p, h) <= Dist(x, h)
  <2> TAKE x \in S
  <2>1. Dist(x, h) \in T
    OBVIOUS
  <2> QED BY <1>1, <1>4, <1>5, <2>1
<1> QED BY <1>6

\* The next one in the ring is nearer to h.
LEMMA NextIsNearer ==
  ASSUME OnlyOneOut, NEW h \in Players, ~ Out(h), NEW p \in Players, ~ Out(p), p # h
  PROVE  Dist(NextIn(p), h) < Dist(p, h)
<1> DEFINE g == Next_(p)
<1>1. g \in Players /\ Next_(g) \in Players
  BY Neighbours
<1>2. Dist(g, h) = Dist(p, h) - 1
  BY <1>1, Ring, Neighbours DEF Dist
<1>3. g # h => Dist(Next_(g), h) = Dist(g, h) - 1
  BY <1>1, Ring, Neighbours DEF Dist
<1>4. Dist(p, h) \in 0 .. N - 1 /\ Dist(g, h) \in 0 .. N - 1
  BY <1>1, Dists
<1>5. CASE Out(g)
  <2>1. NextIn(p) = Next_(g) /\ g # h
    BY <1>5 DEF NextIn
  <2> QED BY <1>2, <1>3, <1>4, <2>1, Ring
<1>6. CASE ~ Out(g)
  <2>1. NextIn(p) = g
    BY <1>6 DEF NextIn
  <2> QED BY <1>2, <1>4, <2>1, Ring
<1> QED BY <1>5, <1>6

\* Nobody in the ring has got a later packet than the one that has got it last.
LEMMA HeadIsLast ==
  ASSUME NEW h, Before(h)
  PROVE  \A p \in Ins : /\ status[p].lastValid <= status[h].lastValid
                        /\ p # h /\ status[h].lastValid > 0 =>
                             status[p].lastValid < status[h].lastValid
<1>1. /\ RingInv /\ OnlyOneOut /\ h \in Players /\ ~ Out(h)
      /\ \A p \in Ins \ {h} : HasSent(p) => status[p].lastValid < status[NextIn(p)].lastValid
  BY DEF Before, RingAt, HeadOK, Ahead
<1>2. \A p \in Players : status[p].lastValid \in Nat
  BY <1>1, Player
<1>3. \A p \in Ins : NextIn(p) \in Ins /\ NextIn(p) \in Players
  BY <1>1, NextInIs DEF Ins
<1> DEFINE S == {p \in Ins : status[p].lastValid > status[h].lastValid}
<1>4. S = {}
  <2> SUFFICES ASSUME S # {} PROVE FALSE
    OBVIOUS
  <2>1. S \subseteq Players
    BY DEF Ins
  <2> HIDE DEF S
  <2>2. PICK p \in S : \A x \in S : Dist(p, h) <= Dist(x, h)
    BY <1>1, <2>1, Nearest
  <2>3. p \in Ins /\ p \in Players /\ ~ Out(p) /\ status[p].lastValid > status[h].lastValid
    BY <2>1, <2>2 DEF S, Ins
  <2>4. p # h /\ HasSent(p)
    BY <1>1, <1>2, <2>3 DEF HasSent
  <2>5. status[p].lastValid < status[NextIn(p)].lastValid
    BY <1>1, <2>3, <2>4
  <2>6. NextIn(p) \in S
    BY <1>1, <1>2, <1>3, <2>3, <2>5 DEF S
  <2>7. Dist(NextIn(p), h) < Dist(p, h) /\ Dist(p, h) <= Dist(NextIn(p), h)
    BY <1>1, <2>2, <2>3, <2>4, <2>6, NextIsNearer
  <2>8. Dist(NextIn(p), h) \in 0 .. N - 1 /\ Dist(p, h) \in 0 .. N - 1
    BY <1>1, <1>3, <2>3, Dists
  <2> QED BY <2>7, <2>8
<1>5. \A p \in Ins : p \in Players /\ status[p].lastValid <= status[h].lastValid
  BY <1>1, <1>2, <1>4 DEF Ins
<1>6. ASSUME NEW p \in Ins, p # h, status[h].lastValid > 0
      PROVE  status[p].lastValid < status[h].lastValid
  <2>1. CASE HasSent(p)
    <3>1. status[p].lastValid < status[NextIn(p)].lastValid
      BY <1>1, <1>6, <2>1
    <3> QED BY <1>1, <1>2, <1>3, <1>5, <3>1
  <2>2. CASE ~ HasSent(p)
    BY <1>2, <1>5, <1>6, <2>2 DEF HasSent
  <2> QED BY <2>1, <2>2
<1> QED BY <1>5, <1>6

\* What a player takes has the words of everybody in the ring as they put them in.
LEMMA TakenHasOwn ==
  ASSUME NEW h, Before(h), OwnInv, NEW p \in Players, NEW m, Taken(p, m), m.packet.type # "unsync"
  PROVE  /\ p \in Ins /\ ~ Waiting(p) /\ m.packet \in PacketSet /\ Quiet(m.packet)
         /\ p \notin m.packet.dead /\ m.seq \in Nat /\ m.seq > 0
         /\ \A q \in Ins : /\ m.packet.flags[q] = status[q].ringFrame.flags[q]
                           /\ status[q].lastValid < m.seq
<1>1. /\ RingInv /\ h \in Players /\ ~ Out(h) /\ \A x \in Players : Waiting(x) => x = h
      /\ h \in Ins
  BY DEF Before, RingAt, HeadOK, Ins
<1>2. /\ ~ Out(p) /\ (FromHead(h, m) \/ FromOut(h, m)) /\ m \in net
  BY TakenIsFresh DEF Taken
<1>3. /\ ~ Waiting(h) /\ m.seq > status[h].lastValid /\ m.packet \in PacketSet
      /\ Quiet(m.packet) /\ \A q \in m.packet.dead : Out(q)
  BY Arrives
<1>4. /\ m.seq \in Nat /\ status[h].lastValid \in Nat
      /\ \A q \in Players : status[q].lastValid \in Nat
  BY <1>1, <1>2, Message, Player
<1>5. Token(h) = status[h].ringFrame
  BY <1>3 DEF Token
<1>6. ASSUME NEW q \in Ins
      PROVE  m.packet.flags[q] = status[q].ringFrame.flags[q] /\ status[q].lastValid < m.seq
  <2>1. q \in Players /\ ~ Out(q) /\ status[q].lastValid <= status[h].lastValid
    BY HeadIsLast DEF Ins
  <2>2. m.packet.flags[q] = Token(h).flags[q]
    <3>1. CASE FromHead(h, m)
      BY <1>5, <3>1 DEF FromHead
    <3>2. CASE FromOut(h, m)
      BY <2>1, <3>2 DEF FromOut, LastWords
    <3> QED BY <1>2, <3>1, <3>2
  <2>3. Token(h).flags[q] = status[q].ringFrame.flags[q]
    BY <1>1, <1>5, <2>1 DEF OwnInv, SameFlags
  <2> QED BY <1>3, <1>4, <2>1, <2>2, <2>3
<1> QED BY <1>1, <1>2, <1>3, <1>4, <1>6 DEF Ins

\* A step of player p that leaves its words as they are, or takes it out of the ring.
OwnSame(p, t) ==
  /\ made' = made /\ \A q \in Players \ {p} : played'[q] = played[q]
  /\ t.accept =>
       /\ t.lastValid = status[p].lastValid /\ t.buffer = status[p].buffer
       /\ t.clearToForward = status[p].clearToForward /\ played'[p] = played[p]
       /\ \A q \in Ins : t.ringFrame.flags[q] = status[p].ringFrame.flags[q]

LEMMA OwnStill ==
  ASSUME RingInv, OwnInv, NEW p \in Players, NEW t, Step(p, t), OwnSame(p, t)
  PROVE  OwnInv'
<1>1. /\ status'[p] = t /\ \A q \in Players : q # p => status'[q] = status[q]
      /\ Out(p)' <=> ~ t.accept
      /\ \A q \in Players : Out(q) => Out(q)'
  BY Steps
<1>2. \A q \in Ins' : q \in Ins /\ q \in Players /\ (q = p => t.accept)
  BY <1>1 DEF Ins
<1>3. \A q \in Ins' : /\ status'[q].lastValid = status[q].lastValid
                      /\ Waiting(q)' = Waiting(q) /\ played'[q] = played[q]
                      /\ \A x \in Ins : /\ status'[q].ringFrame.flags[x] = status[q].ringFrame.flags[x]
                                        /\ Token(q)'.flags[x] = Token(q).flags[x]
  <2> TAKE q \in Ins'
  <2>1. CASE q = p
    BY <1>1, <1>2, <2>1 DEF OwnSame, Waiting, Token
  <2>2. CASE q # p
    BY <1>1, <1>2, <2>2 DEF OwnSame, Waiting, Token
  <2> QED BY <2>1, <2>2
<1>4. made' = made
  BY DEF OwnSame
<1>5. ASSUME NEW q \in Ins'
      PROVE  OwnPlayed(q)' /\ (Waiting(q)' => status'[q].lastValid > 0)
  <2>1. OwnPlayed(q) /\ (Waiting(q) => status[q].lastValid > 0) /\ q \in Ins
    BY <1>2 DEF OwnInv
  <2>2. WordsTo(made'[q]) = IF Waiting(q)' THEN played'[q][q]
                            ELSE played'[q][q] \o status'[q].ringFrame.flags[q]
    BY <1>3, <1>4, <2>1 DEF OwnPlayed
  <2>3. OwnPlayed(q)'
    BY <2>2 DEF OwnPlayed, WordsTo
  <2> QED BY <1>3, <2>1, <2>3
<1>6. ASSUME NEW q \in Ins', NEW x \in Ins' PROVE SameFlags(x, q)'
  <2>1. SameFlags(x, q) /\ q \in Ins /\ x \in Ins
    BY <1>2 DEF OwnInv
  <2> QED BY <1>3, <2>1 DEF SameFlags
<1> QED BY <1>5, <1>6 DEF OwnInv

\* Player p plays what m brings and puts in its new words, or keeps the packet for that.
OwnTakes(p, m, t) ==
  /\ t.lastValid = m.seq /\ Plays(p, m)
  /\ \A q \in Players \ {p} : Held(t).flags[q] = m.packet.flags[q]
  /\ \A q \in Players \ {p} : made'[q] = made[q]
  /\ IF t.clearToForward THEN made'[p] = made[p]
     ELSE \E k \in Nat : Held(t).flags[p] = NewWords(p, k) /\ made'[p] = made[p] + k

LEMMA OwnTaken ==
  ASSUME NEW h, Before(h), OwnInv, NEW p \in Players, NEW m, Taken(p, m), m.packet.type # "unsync",
         NEW t, Step(p, t), OwnTakes(p, m, t)
  PROVE  OwnInv'
<1>1. /\ p \in Ins /\ ~ Waiting(p) /\ m.packet \in PacketSet /\ p \notin m.packet.dead
      /\ m.seq \in Nat /\ m.seq > 0
      /\ \A q \in Ins : /\ m.packet.flags[q] = status[q].ringFrame.flags[q]
                        /\ status[q].lastValid < m.seq
  BY TakenHasOwn
<1>2. /\ status'[p] = t /\ \A q \in Players : q # p => status'[q] = status[q]
      /\ \A q \in Players : Out(q) => Out(q)'
      /\ RingInv
  BY Steps DEF Before
<1>3. \A q \in Ins' : q \in Ins /\ q \in Players
  BY <1>2 DEF Ins
<1>4. \A q \in Players : status[q].lastValid \in Nat /\ made[q] \in Nat
  BY <1>2, Player
<1>5. played \in PlayedSet
  BY DEF Before, Linked
<1>6. Waiting(p)' = t.clearToForward /\ Token(p)' = Held(t) /\ (~ t.clearToForward => Held(t) = t.ringFrame)
  BY <1>2 DEF Waiting, Token, Held
<1>7. played'[p][p] = WordsTo(made[p])
  <2>1. played'[p][p] = played[p][p] \o m.packet.flags[p]
    BY <1>1 DEF OwnTakes, Plays
  <2>2. WordsTo(made[p]) = played[p][p] \o status[p].ringFrame.flags[p]
    BY <1>1 DEF OwnInv, OwnPlayed
  <2> QED BY <1>1, <2>1, <2>2
<1>8. OwnPlayed(p)' /\ (Waiting(p)' => status'[p].lastValid > 0)
  <2>1. WordsTo(made'[p]) = IF t.clearToForward THEN played'[p][p]
                            ELSE played'[p][p] \o t.ringFrame.flags[p]
    <3>1. CASE t.clearToForward
      BY <1>7, <3>1 DEF OwnTakes
    <3>2. CASE ~ t.clearToForward
      <4>1. PICK k \in Nat : t.ringFrame.flags[p] = NewWords(p, k) /\ made'[p] = made[p] + k
        BY <1>6, <3>2 DEF OwnTakes
      <4>2. WordsTo(made[p]) \o NewWords(p, k) = WordsTo(made[p] + k)
        BY <1>4, WordsAre DEF NewWords
      <4> QED BY <1>7, <3>2, <4>1, <4>2
    <3> QED BY <3>1, <3>2
  <2>2. WordsTo(made'[p]) = IF Waiting(p)' THEN played'[p][p]
                            ELSE played'[p][p] \o status'[p].ringFrame.flags[p]
    BY <1>2, <1>6, <2>1
  <2>3. OwnPlayed(p)'
    BY <2>2 DEF OwnPlayed, WordsTo
  <2> QED BY <1>1, <1>2, <2>3 DEF OwnTakes
<1>9. ASSUME NEW q \in Ins', q # p
      PROVE  OwnPlayed(q)' /\ (Waiting(q)' => status'[q].lastValid > 0)
  <2>1. OwnPlayed(q) /\ (Waiting(q) => status[q].lastValid > 0) /\ q \in Players
    BY <1>3, <1>9 DEF OwnInv
  <2>2. /\ status'[q] = status[q] /\ played'[q] = played[q] /\ made'[q] = made[q]
        /\ Waiting(q)' = Waiting(q)
    BY <1>2, <1>9, <2>1 DEF OwnTakes, Plays, Waiting
  <2>3. WordsTo(made'[q]) = IF Waiting(q)' THEN played'[q][q]
                            ELSE played'[q][q] \o status'[q].ringFrame.flags[q]
    BY <2>1, <2>2 DEF OwnPlayed
  <2>4. OwnPlayed(q)'
    BY <2>3 DEF OwnPlayed, WordsTo
  <2> QED BY <2>1, <2>2, <2>4
<1>10. ASSUME NEW q \in Ins', NEW x \in Ins' PROVE SameFlags(x, q)'
  <2>1. q \in Ins /\ x \in Ins /\ q \in Players /\ x \in Players
    BY <1>3
  <2>2. CASE x = p /\ q # p
    <3>1. Token(p)'.flags[q] = m.packet.flags[q] /\ status'[q] = status[q]
      BY <1>2, <1>6, <2>1, <2>2 DEF OwnTakes
    <3> QED BY <1>1, <2>1, <2>2, <3>1 DEF SameFlags
  <2>3. CASE q = p /\ x # p
    <3>1. status'[x].lastValid < m.seq /\ status'[q].lastValid = m.seq /\ status'[x].lastValid \in Nat
      BY <1>1, <1>2, <1>4, <2>1, <2>3 DEF OwnTakes
    <3> QED BY <1>1, <3>1 DEF SameFlags
  <2>4. CASE x # p /\ q # p
    <3>1. status'[x] = status[x] /\ status'[q] = status[q] /\ Token(x)' = Token(x)
      BY <1>2, <2>1, <2>4 DEF Token, Waiting
    <3>2. SameFlags(x, q)
      BY <2>1 DEF OwnInv
    <3> QED BY <3>1, <3>2 DEF SameFlags
  <2>5. CASE x = q
    BY <2>5 DEF SameFlags
  <2> QED BY <2>2, <2>3, <2>4, <2>5
<1> QED BY <1>8, <1>9, <1>10 DEF OwnInv

\* The server that has kept the packet puts in its new words.
LEMMA OwnForwards ==
  ASSUME NEW h, Before(h), OwnInv, NEW p \in Players, Waiting(p), NEW t, Step(p, t),
         t.lastValid = status[p].lastValid, ~ t.clearToForward, played' = played,
         \A q \in Players \ {p} : t.ringFrame.flags[q] = status[p].buffer.flags[q],
         NEW k \in Nat, t.ringFrame.flags[p] = NewWords(p, k),
         made' = [made EXCEPT ![p] = @ + k]
  PROVE  OwnInv'
<1>1. /\ RingInv /\ h \in Players /\ p = h /\ p \in Ins
  BY DEF Before, RingAt, HeadOK, Ins
<1>2. /\ status'[p] = t /\ \A q \in Players : q # p => status'[q] = status[q]
      /\ \A q \in Players : Out(q) => Out(q)'
  BY <1>1, Steps
<1>3. \A q \in Ins' : q \in Ins /\ q \in Players
  BY <1>2 DEF Ins
<1>4. /\ \A q \in Players : status[q].lastValid \in Nat
      /\ made \in [Players -> Nat] /\ made[p] \in Nat
  BY <1>1, Player
<1>5. /\ ~ Waiting(p)' /\ Token(p)' = t.ringFrame /\ Token(p) = status[p].buffer
      /\ made'[p] = made[p] + k
  BY <1>2, <1>4 DEF Waiting, Token
<1>6. OwnPlayed(p)' /\ (Waiting(p)' => status'[p].lastValid > 0)
  <2>1. WordsTo(made[p]) = played[p][p]
    BY <1>1 DEF OwnInv, OwnPlayed
  <2>2. WordsTo(made[p]) \o NewWords(p, k) = WordsTo(made[p] + k)
    BY <1>4, WordsAre DEF NewWords
  <2>3. WordsTo(made'[p]) = IF Waiting(p)' THEN played'[p][p]
                            ELSE played'[p][p] \o status'[p].ringFrame.flags[p]
    BY <1>2, <1>5, <2>1, <2>2
  <2>4. OwnPlayed(p)'
    BY <2>3 DEF OwnPlayed, WordsTo
  <2> QED BY <1>5, <2>4
<1>7. ASSUME NEW q \in Ins', q # p
      PROVE  OwnPlayed(q)' /\ (Waiting(q)' => status'[q].lastValid > 0)
  <2>1. OwnPlayed(q) /\ (Waiting(q) => status[q].lastValid > 0) /\ q \in Players
    BY <1>3, <1>7 DEF OwnInv
  <2>2. status'[q] = status[q] /\ made'[q] = made[q] /\ Waiting(q)' = Waiting(q)
    BY <1>2, <1>4, <1>7, <2>1 DEF Waiting
  <2>3. WordsTo(made'[q]) = IF Waiting(q)' THEN played'[q][q]
                            ELSE played'[q][q] \o status'[q].ringFrame.flags[q]
    BY <2>1, <2>2 DEF OwnPlayed
  <2>4. OwnPlayed(q)'
    BY <2>3 DEF OwnPlayed, WordsTo
  <2> QED BY <2>1, <2>2, <2>4
<1>8. ASSUME NEW q \in Ins', NEW x \in Ins' PROVE SameFlags(x, q)'
  <2>1. q \in Ins /\ x \in Ins /\ q \in Players /\ x \in Players /\ SameFlags(x, q)
    BY <1>3 DEF OwnInv
  <2>2. CASE x = p /\ q # p
    <3>1. Token(p)'.flags[q] = Token(p).flags[q] /\ status'[q] = status[q]
      BY <1>2, <1>5, <2>1, <2>2
    <3> QED BY <1>2, <2>1, <2>2, <3>1 DEF SameFlags
  <2>3. CASE q = p /\ x # p
    <3>1. status[p].lastValid > 0
      BY <1>1 DEF OwnInv
    <3>2. status[x].lastValid < status[p].lastValid
      BY <1>1, <2>1, <2>3, <3>1, HeadIsLast
    <3> QED BY <1>2, <1>4, <2>1, <2>3, <3>2 DEF SameFlags
  <2>4. CASE x # p /\ q # p
    <3>1. status'[x] = status[x] /\ status'[q] = status[q] /\ Token(x)' = Token(x)
      BY <1>2, <2>1, <2>4 DEF Token, Waiting
    <3> QED BY <2>1, <3>1 DEF SameFlags
  <2>5. CASE x = q
    BY <2>5 DEF SameFlags
  <2> QED BY <2>2, <2>3, <2>4, <2>5
<1> QED BY <1>6, <1>7, <1>8 DEF OwnInv

LEMMA OwnPass ==
  ASSUME NEW h, Before(h), OwnInv, RingInv', NEW p \in Players, NEW m, Taken(p, m),
         m.packet.type # "unsync", NEW s \in StatusSet, s.accept, s.state # "uninitialized",
         s.lastValid = m.seq, Plays(p, m), NEW packet \in PacketSet, PassedOn(p, s, packet),
         \A q \in Players \ {p} : packet.flags[q] = m.packet.flags[q],
         NEW k \in Nat, packet.flags[p] = NewWords(p, k), made' = [made EXCEPT ![p] = @ + k]
  PROVE  OwnInv'
<1> DEFINE t == Sending(s, packet)
<1>1. status' = [status EXCEPT ![p] = t]
  BY DEF PassedOn
<1>2. /\ t.state = s.state /\ t.lastValid = m.seq /\ t.accept /\ t.ringFrame = packet
      /\ ~ t.clearToForward
  BY DEF Sending, StatusSet
<1> HIDE DEF t
<1>3. Held(t) = packet
  BY <1>2 DEF Held
<1>4. RingInv /\ p \in Ins /\ made \in [Players -> Nat]
  BY TakenHasOwn, Player DEF Before
<1>5. Step(p, t)
  BY <1>1, <1>2, <1>4, StepIs DEF RingInv, Typed, Ins, Plays
<1>6. OwnTakes(p, m, t)
  BY <1>2, <1>3, <1>4 DEF OwnTakes
<1> QED BY <1>5, <1>6, OwnTaken

\* There are no words before the first lap with flags.
LEMMA OwnQuiet ==
  ASSUME NEW h, Before(h), OwnInv, RingInv', NEW p \in Players, NEW m \in net, m.to = p, InGame(p),
         ReceiveSync(p, m) \/ ReceiveTime(p, m)
  PROVE  OwnInv'
<1> DEFINE first == [m.packet EXCEPT !.type = IF status[p].iAmTheServer THEN "time" ELSE @]
           live == [Seen(p, m) EXCEPT !.state = "active"]
<1>1. /\ Taken(p, m) /\ m.packet.type \in {"sync", "time"} /\ played' = played /\ made' = made
      /\ PassedOn(p, Seen(p, m), first) \/ PassedOn(p, live, m.packet)
  BY DEF ReceiveSync, ReceiveTime, ReceiveNew, Taken
<1>2. /\ m.packet \in PacketSet /\ Quiet(m.packet) /\ p \notin m.packet.dead
      /\ played \in PlayedSet /\ RingInv
  BY <1>1, TakenHasOwn DEF Before, Linked
<1>3. Plays(p, m)
  BY <1>1, <1>2, QuietIs DEF Plays
<1>4. \A q \in Players : m.packet.flags[q] = <<>>
  BY <1>1, <1>2 DEF Quiet
<1>5. first \in PacketSet /\ first.flags = m.packet.flags /\ first.type # "unsync"
  BY <1>1, <1>2 DEF PacketSet, PacketTypes
<1>6. PICK s : s = Seen(p, m)
  OBVIOUS
<1>7. s \in StatusSet /\ s.accept /\ s.lastValid = m.seq /\ s.state # "uninitialized"
  BY <1>1, <1>6, SeenIs
<1>8. /\ live \in StatusSet /\ live.accept /\ live.lastValid = m.seq
      /\ live.state # "uninitialized"
  BY <1>6, <1>7 DEF StatusSet, States
<1> HIDE DEF first, live
<1>9. PICK k \in Nat : NewWords(p, k) = <<>> /\ made' = [made EXCEPT ![p] = @ + k]
  <2>1. NewWords(p, 0) = <<>>
    BY DEF NewWords
  <2>2. made' = [made EXCEPT ![p] = @ + 0]
    BY <1>1, <1>2, Player
  <2> QED BY <2>1, <2>2
<1>10. CASE PassedOn(p, s, first)
  <2>1. first.flags[p] = NewWords(p, k) /\ first \in PacketSet
    BY <1>4, <1>5, <1>9
  <2>2. \A q \in Players \ {p} : first.flags[q] = m.packet.flags[q]
    BY <1>5
  <2>3. Taken(p, m) /\ m.packet.type # "unsync"
    BY <1>1
  <2> QED BY <1>3, <1>7, <1>9, <1>10, <2>1, <2>2, <2>3, OwnPass
<1>11. CASE PassedOn(p, live, m.packet)
  <2>1. m.packet.flags[p] = NewWords(p, k)
    BY <1>4, <1>9
  <2>2. Taken(p, m) /\ m.packet.type # "unsync" /\ m.packet \in PacketSet
    BY <1>1, <1>2
  <2>3. \A q \in Players \ {p} : m.packet.flags[q] = m.packet.flags[q]
    OBVIOUS
  <2> QED BY <1>3, <1>8, <1>9, <1>11, <2>1, <2>2, <2>3, OwnPass
<1> QED BY <1>1, <1>6, <1>10, <1>11

LEMMA OwnFlags ==
  ASSUME NEW h, Before(h), OwnInv, RingInv', NEW p \in Players, NEW m \in net, m.to = p, InGame(p),
         ReceiveFlags(p, m)
  PROVE  OwnInv'
<1> DEFINE packet == FlagsAdded(p, m.packet)
<1>1. /\ Normal(p, m) /\ ~ status[p].iAmTheServer /\ Processed(p, m.packet)
      /\ PassedOn(p, Seen(p, m), packet) /\ made' = [made EXCEPT ![p] = @ + m.packet.required]
  BY DEF ReceiveFlags, FlagsPassedOn
<1>2. /\ Taken(p, m) /\ m.packet.type = "normal" /\ m.packet \in PacketSet
      /\ RingInv /\ Linked /\ m.packet.required \in Nat /\ p \notin m.packet.dead
  <2>1. /\ Taken(p, m) /\ m.packet.type = "normal" /\ m.packet \in PacketSet
        /\ RingInv /\ Linked /\ p \notin m.packet.dead
    BY <1>1, NormalIs
  <2> QED BY <2>1, Ring DEF PacketSet
<1>3. Plays(p, m)
  BY <1>1, <1>2, PlaysIs DEF Linked
<1>4. /\ packet \in PacketSet /\ packet.flags[p] = NewWords(p, m.packet.required)
      /\ \A q \in Players \ {p} : packet.flags[q] = m.packet.flags[q]
  BY <1>2, FlagsAddedIs, OwnWords
<1> HIDE DEF packet
<1>5. PICK s : s = Seen(p, m)
  OBVIOUS
<1>6. /\ s \in StatusSet /\ s.accept /\ s.lastValid = m.seq /\ s.state # "uninitialized"
      /\ m.packet.type # "unsync"
  BY <1>2, <1>5, SeenIs
<1>7. PICK k \in Nat : k = m.packet.required
  BY <1>2
<1>8. /\ packet.flags[p] = NewWords(p, k) /\ made' = [made EXCEPT ![p] = @ + k]
      /\ PassedOn(p, s, packet)
  BY <1>1, <1>4, <1>5, <1>7
<1> QED BY <1>2, <1>3, <1>4, <1>6, <1>8, OwnPass

\* What the server puts in: its own new words, as many as it asks for now.
LEMMA OwnLap ==
  ASSUME RingInv, NEW p \in Players, NEW s, NEW old \in PacketSet, old.type = "normal",
         p \notin old.dead, NEW n \in 1 .. MaxRequired
  PROVE  LET lap == NewLap(s, old, n)
             packet == FlagsAdded(p, lap)
         IN  /\ packet \in PacketSet /\ lap.required \in Nat
             /\ packet.flags[p] = NewWords(p, lap.required)
             /\ \A q \in Players \ {p} : packet.flags[q] = old.flags[q]
<1>1. PICK lap : lap = NewLap(s, old, n)
  OBVIOUS
<1>2. /\ lap \in PacketSet /\ lap.type \in {"normal", "unsync"} /\ lap.flags = old.flags
      /\ p \notin lap.dead
  BY <1>1, NewLapIs
<1>3. lap.required \in Nat
  BY <1>2, Ring DEF PacketSet
<1> QED BY <1>1, <1>2, <1>3, FlagsAddedIs, OwnWords

LEMMA OwnAtServer ==
  ASSUME NEW h, Before(h), OwnInv, RingInv', NEW p \in Players, NEW m \in net, m.to = p, InGame(p),
         NEW n \in 1 .. MaxRequired, ReceiveAtServer(p, m, n)
  PROVE  OwnInv'
<1> DEFINE own == [m.packet EXCEPT !.type = "normal", !.server = p]
<1>1. PICK s : s = Live(m, Seen(p, m))
  OBVIOUS
<1>2. PICK lap : lap = NewLap(s, own, n)
  OBVIOUS
<1>3. /\ Normal(p, m) /\ Processed(p, m.packet) /\ PassedOn(p, s, FlagsAdded(p, lap))
      /\ made' = [made EXCEPT ![p] = @ + lap.required]
  BY <1>1, <1>2 DEF ReceiveAtServer, FlagsPassedOn
<1>4. /\ Taken(p, m) /\ m.packet.type # "unsync" /\ m.packet \in PacketSet
      /\ RingInv /\ Linked /\ p \notin m.packet.dead
  BY <1>3, NormalIs
<1>5. Plays(p, m)
  BY <1>3, <1>4, PlaysIs DEF Linked
<1>6. /\ own \in PacketSet /\ own.type = "normal" /\ own.flags = m.packet.flags
      /\ p \notin own.dead
  BY <1>4 DEF PacketSet, PacketTypes
<1> HIDE DEF own
<1>7. PICK packet : packet = FlagsAdded(p, lap)
  OBVIOUS
<1>8. /\ packet \in PacketSet /\ lap.required \in Nat
      /\ packet.flags[p] = NewWords(p, lap.required)
      /\ \A q \in Players \ {p} : packet.flags[q] = m.packet.flags[q]
  BY <1>2, <1>4, <1>6, <1>7, OwnLap
<1>9. s \in StatusSet /\ s.accept /\ s.lastValid = m.seq /\ s.state # "uninitialized"
  BY <1>1, <1>4, SeenIs, LiveIs
<1> QED BY <1>3, <1>4, <1>5, <1>7, <1>8, <1>9, OwnPass

LEMMA OwnWait ==
  ASSUME NEW h, Before(h), OwnInv, RingInv', NEW p \in Players, NEW m \in net, m.to = p, InGame(p),
         ReceiveAndWait(p, m)
  PROVE  OwnInv'
<1> DEFINE kept == [m.packet EXCEPT !.type = "normal"]
<1>1. PICK s : s = Live(m, Seen(p, m))
  OBVIOUS
<1> DEFINE t == [s EXCEPT !.clearToForward = TRUE, !.buffer = kept]
<1>2. /\ Normal(p, m) /\ Processed(p, m.packet) /\ status' = [status EXCEPT ![p] = t]
      /\ made' = made
  BY <1>1 DEF ReceiveAndWait
<1>3. /\ Taken(p, m) /\ m.packet.type # "unsync" /\ m.packet \in PacketSet
      /\ RingInv /\ Linked /\ ~ Out(p)
  BY <1>2, NormalIs
<1>4. Plays(p, m)
  BY <1>2, <1>3, PlaysIs DEF Linked
<1>5. kept.flags = m.packet.flags
  BY <1>3 DEF PacketSet
<1> HIDE DEF kept
<1>6. s \in StatusSet /\ s.accept /\ s.lastValid = m.seq /\ s.state # "uninitialized"
  BY <1>1, <1>3, SeenIs, LiveIs
<1>7. /\ t.state = s.state /\ t.accept /\ t.lastValid = m.seq
      /\ t.clearToForward /\ t.buffer = kept
  BY <1>6 DEF StatusSet
<1> HIDE DEF t
<1>8. Step(p, t)
  BY <1>2, <1>3, <1>4, <1>6, <1>7, StepIs DEF RingInv, Typed, Plays
<1>9. OwnTakes(p, m, t)
  BY <1>2, <1>4, <1>5, <1>7 DEF OwnTakes, Held
<1> QED BY <1>3, <1>8, <1>9, OwnTaken

LEMMA OwnMinor ==
  ASSUME NEW h, Before(h), OwnInv, RingInv', NEW p \in Players, NEW t, MinorTo(p, t)
  PROVE  OwnInv'
<1>1. /\ RingInv /\ played \in PlayedSet /\ status \in [Players -> StatusSet]
      /\ status' = [status EXCEPT ![p] = t] /\ (t.accept => status[p].accept)
      /\ t.state # "uninitialized" /\ played' = played
  BY DEF Before, Linked, RingInv, Typed, MinorTo, InGame
<1>2. Step(p, t)
  <2>1. Out(p) => ~ t.accept
    BY <1>1 DEF Out
  <2>2. played' \in PlayedSet
    BY <1>1
  <2> QED BY <1>1, <2>1, <2>2, StepIs
<1>3. OwnSame(p, t)
  BY DEF MinorTo, OwnSame
<1> QED BY <1>1, <1>2, <1>3, OwnStill

LEMMA OwnSync ==
  ASSUME NEW h, Before(h), OwnInv, RingInv', NEW p \in Players, Sync(p)
  PROVE  OwnInv'
<1> DEFINE s == [OutOfGame("startingUp") EXCEPT
                   !.upring = Next_(p), !.downring = Previous(p),
                   !.server = Server, !.accept = TRUE, !.iAmTheServer = p = Server]
           t == IF p = Server THEN Sending(s, FirstPacket) ELSE s
<1>1. /\ status' = [status EXCEPT ![p] = t] /\ made' = made /\ played' = played
      /\ status[p].state = "uninitialized"
  BY DEF Sync
<1>2. /\ RingInv /\ played \in PlayedSet /\ status \in [Players -> StatusSet]
      /\ status[p] = OutOfGame("uninitialized")
  BY <1>1 DEF Before, Linked, PlayerInRing, RingInv, Typed, Started
<1>3. /\ t.state = "startingUp" /\ t.lastValid = 0 /\ t.buffer = FirstPacket
      /\ t.clearToForward = FALSE /\ t.ringFrame = FirstPacket
  BY DEF OutOfGame, Sending
<1> HIDE DEF s, t
<1>4. Step(p, t)
  BY <1>1, <1>2, <1>3, StepIs DEF Out, Started
<1>5. OwnSame(p, t)
  <2>1. /\ status[p].lastValid = 0 /\ status[p].buffer = FirstPacket
        /\ status[p].clearToForward = FALSE /\ status[p].ringFrame = FirstPacket
    BY <1>2 DEF OutOfGame
  <2> QED BY <1>1, <1>2, <1>3, <2>1 DEF OwnSame
<1> QED BY <1>2, <1>4, <1>5, OwnStill

\* Who has left the ring, for good or for now, is asked nothing.
LEMMA OwnLeave ==
  ASSUME NEW h, Before(h), OwnInv, RingInv', NEW p \in Players, Leave(p) \/ GiveUp(p)
  PROVE  OwnInv'
<1>1. /\ RingInv /\ played \in PlayedSet /\ status \in [Players -> StatusSet]
  BY DEF Before, Linked, RingInv, Typed
<1>2. CASE UnSyncBegins(p) \/ GiveUp(p)
  BY <1>1, <1>2, TaskIsMinor, OwnMinor
<1>3. CASE UnSyncEnds(p)
  <2>1. OutOfGame("down").state = "down" /\ ~ OutOfGame("down").accept
    BY DEF OutOfGame
  <2>2. /\ status' = [status EXCEPT ![p] = OutOfGame("down")]
        /\ made' = made /\ played' = played
    BY <1>3 DEF UnSyncEnds
  <2>3. Step(p, OutOfGame("down"))
    BY <1>1, <2>1, <2>2, StepIs
  <2>4. OwnSame(p, OutOfGame("down"))
    BY <2>1, <2>2 DEF OwnSame
  <2> QED BY <1>1, <2>3, <2>4, OwnStill
<1>4. CASE IsGone(p)
  <2>1. OutOfGame("gone").state = "gone" /\ ~ OutOfGame("gone").accept
    BY DEF OutOfGame
  <2>2. /\ status' = [status EXCEPT ![p] = OutOfGame("gone")] /\ made' = made
        /\ played' = [played EXCEPT ![p] = [q \in Players |-> <<>>]]
    BY <1>4 DEF IsGone
  <2>3. played' \in PlayedSet /\ \A q \in Players \ {p} : played'[q] = played[q]
    <3>1. [q \in Players |-> <<>>] \in [Players -> Seq(Nat)]
      OBVIOUS
    <3> QED BY <1>1, <2>2, <3>1 DEF PlayedSet
  <2>4. Step(p, OutOfGame("gone"))
    BY <1>1, <2>1, <2>2, <2>3, StepIs
  <2>5. OwnSame(p, OutOfGame("gone"))
    BY <2>1, <2>2, <2>3 DEF OwnSame
  <2> QED BY <1>1, <2>4, <2>5, OwnStill
<1> QED BY <1>2, <1>3, <1>4 DEF Leave, SyncTimesOut, UnSyncTimesOut, Crash

LEMMA OwnUnsync ==
  ASSUME NEW h, Before(h), OwnInv, RingInv', NEW p \in Players, NEW m \in net, m.to = p,
         InGame(p), ReceiveUnsync(p, m)
  PROVE  OwnInv'
<1> DEFINE s == [Seen(p, m) EXCEPT !.accept = FALSE]
           t == IF status[p].iAmTheServer THEN s ELSE Sending(s, m.packet)
<1>1. /\ status' = [status EXCEPT ![p] = t] /\ made' = made /\ played' = played
      /\ status[p].state = "comingDown" /\ status[p].accept /\ Taken(p, m)
  BY DEF ReceiveUnsync, PassedOn, ReceiveNew, Taken
<1>2. /\ RingInv /\ played \in PlayedSet /\ status \in [Players -> StatusSet]
      /\ status[p] \in StatusSet
  BY DEF Before, Linked, RingInv, Typed
<1>3. PICK d : d = Seen(p, m)
  OBVIOUS
<1>4. d \in StatusSet /\ d.state = status[p].state
  BY <1>1, <1>3, SeenIs
<1>5. t.state = "comingDown" /\ ~ t.accept
  <2>1. /\ [d EXCEPT !.accept = FALSE].state = "comingDown"
        /\ ~ [d EXCEPT !.accept = FALSE].accept
        /\ [d EXCEPT !.accept = FALSE] \in StatusSet
    BY <1>1, <1>4 DEF StatusSet
  <2>2. s = [d EXCEPT !.accept = FALSE]
    BY <1>3
  <2> HIDE DEF s
  <2>3. s.state = "comingDown" /\ ~ s.accept /\ s \in StatusSet
    BY <2>1, <2>2
  <2>4. Sending(s, m.packet).state = "comingDown" /\ ~ Sending(s, m.packet).accept
    BY <2>3 DEF Sending, StatusSet
  <2> QED BY <2>3, <2>4
<1> HIDE DEF t
<1>6. Step(p, t)
  BY <1>1, <1>2, <1>5, StepIs
<1>7. OwnSame(p, t)
  BY <1>1, <1>5 DEF OwnSame
<1> QED BY <1>2, <1>6, <1>7, OwnStill

LEMMA OwnServerForwards ==
  ASSUME NEW h, Before(h), OwnInv, RingInv', NEW p \in Players, NEW n \in 1 .. MaxRequired,
         ServerTaskForwards(p, n)
  PROVE  OwnInv'
<1>1. PICK old : old = status[p].buffer
  OBVIOUS
<1>2. PICK lap : lap = NewLap(status[p], old, n)
  OBVIOUS
<1>3. PICK packet : packet = FlagsAdded(p, lap)
  OBVIOUS
<1> DEFINE t == Sending(status[p], packet)
<1>4. /\ InGame(p) /\ status[p].clearToForward /\ played' = played
      /\ status' = [status EXCEPT ![p] = t]
      /\ made' = [made EXCEPT ![p] = @ + lap.required]
  BY <1>1, <1>2, <1>3 DEF ServerTaskForwards, FlagsPassedOn, PassedOn
<1>5. /\ RingInv /\ HeadOK(h) /\ TokenOK(h) /\ h \in Players /\ played \in PlayedSet
      /\ status[p] \in StatusSet /\ status \in [Players -> StatusSet] /\ old \in PacketSet
  BY <1>1, Player DEF Before, RingAt, Linked, RingInv, Typed
<1>6. p = h /\ Waiting(p) /\ ~ Out(p)
  BY <1>4, <1>5 DEF HeadOK, Waiting
<1>7. old.type = "normal" /\ p \notin old.dead
  BY <1>1, <1>5, <1>6 DEF TokenOK, Token
<1>8. /\ packet \in PacketSet /\ lap.required \in Nat
      /\ packet.flags[p] = NewWords(p, lap.required)
      /\ \A q \in Players \ {p} : packet.flags[q] = old.flags[q]
  BY <1>2, <1>3, <1>5, <1>7, OwnLap
<1>9. /\ t.state = status[p].state /\ t.lastValid = status[p].lastValid
      /\ t.accept = status[p].accept /\ ~ t.clearToForward /\ t.ringFrame = packet
  BY <1>5 DEF Sending, StatusSet
<1> HIDE DEF t
<1>10. Step(p, t)
  BY <1>4, <1>5, <1>6, <1>9, StepIs DEF InGame
<1>11. PICK k \in Nat : k = lap.required
  BY <1>8
<1>12. /\ t.ringFrame.flags[p] = NewWords(p, k) /\ made' = [made EXCEPT ![p] = @ + k]
       /\ \A q \in Players \ {p} : t.ringFrame.flags[q] = status[p].buffer.flags[q]
  BY <1>1, <1>4, <1>8, <1>9, <1>11
<1>13. Waiting(p) /\ t.lastValid = status[p].lastValid /\ ~ t.clearToForward /\ played' = played
  BY <1>4, <1>6, <1>9
<1> QED BY <1>10, <1>12, <1>13, OwnForwards

\* Who is dropped is out already; the words of the others stay in what was sent last.
LEMMA OwnDrop ==
  ASSUME NEW h, Before(h), OwnInv, WordsOK, RingInv', OnlyOneOut', NEW p \in Players,
         DropUpring(p)
  PROVE  OwnInv'
<1>1. PICK old : old = status[p].upring
  OBVIOUS
<1> DEFINE t == [status[p] EXCEPT
                   !.upring = Next_(old),
                   !.server = IF Crowned(p, old) THEN p ELSE @,
                   !.iAmTheServer = @ \/ Crowned(p, old),
                   !.ringFrame = Buried(@, old)]
<1>2. /\ status[p].state = "active" /\ Unanswered(p) /\ Noted(p)
      /\ played' = played /\ made' = made
      /\ status' = [status EXCEPT ![p] = t]
  BY <1>1 DEF DropUpring
<1>11. Hopeless(p)
  BY <1>2 DEF Noted, OnlyOneOut
<1>3. /\ RingInv /\ Linked /\ OnlyOneOut /\ played \in PlayedSet /\ status \in [Players -> StatusSet]
      /\ status[p] \in StatusSet /\ AllStarted /\ old \in Players /\ StatusOK(Lost, p, status[p])
  BY <1>1, <1>2, Player DEF Before, Linked, RingInv, Typed
<1>4. /\ t.state = status[p].state /\ t.accept = status[p].accept
      /\ t.lastValid = status[p].lastValid /\ t.buffer = status[p].buffer
      /\ t.clearToForward = status[p].clearToForward
      /\ t.ringFrame = Buried(status[p].ringFrame, old)
  BY <1>3 DEF StatusSet
<1> HIDE DEF t
<1>5. ~ status[p].receivedAck /\ ~ status[p].clearToForward
  BY <1>2, <1>11 DEF Unanswered, Hopeless
<1>6. status[p].accept /\ ~ Out(p)
  BY <1>2, <1>3 DEF StatusOK, InGame, Out
<1>7. Out(old)
  <2>1. status[p].ringFrame.type # "unsync"
    BY <1>2, <1>3, <1>5 DEF StatusOK
  <2>2. ~ InGame(old) \/ ~ status[old].accept
    BY <1>1, <1>11, <2>1 DEF Hopeless
  <2> QED BY <1>3, <2>2, InRing DEF AllStarted, Out
<1>8. Step(p, t)
  BY <1>2, <1>3, <1>4, <1>6, StepIs
<1>12. old = Next_(p)
  <2>1. old = Next_(p) \/ (Out(Next_(p)) /\ old = Next_(Next_(p)))
    BY <1>1, <1>2, <1>3 DEF Linked, PlayerInRing, InGame
  <2>2. /\ Next_(p) \in Players /\ Next_(Next_(p)) \in Players
        /\ Next_(Next_(p)) # Next_(p)
    BY Neighbours
  <2> QED BY <1>3, <1>7, <2>1, <2>2 DEF OnlyOneOut
<1>9. \A q \in Ins : t.ringFrame.flags[q] = status[p].ringFrame.flags[q]
  <2>1. \A q \in Ins : q \in Players /\ q # old
    BY <1>7 DEF Ins
  <2>2. status[p].ringFrame \in PacketSet
    BY <1>3 DEF StatusSet
  <2>3. old \notin status[p].ringFrame.dead
    BY <1>1, <1>2, <1>3, <1>12, DroppedOnce DEF InGame
  <2>4. PICK packet \in PacketSet : packet = status[p].ringFrame
    BY <2>2
  <2>5. \A q \in Players :
          Buried(packet, old).flags[q] = IF q = old THEN <<>> ELSE packet.flags[q]
    BY <1>3, <2>3, <2>4, BuriedIs
  <2> QED BY <1>4, <2>1, <2>4, <2>5
<1>10. OwnSame(p, t)
  BY <1>2, <1>4, <1>9 DEF OwnSame
<1> QED BY <1>3, <1>8, <1>10, OwnStill

LEMMA OwnHandle ==
  ASSUME NEW h, Before(h), OwnInv, RingInv', NEW p \in Players, NEW m \in net, Handle(p, m)
  PROVE  OwnInv'
<1>1. InGame(p) /\ m.to = p /\ RingInv
  BY DEF Handle, Before
<1>2. CASE ReceiveAck(p, m) \/ ReceiveTooLate(p, m) \/ ReceiveLate(p, m) \/ IgnoreUnsync(p, m)
  BY <1>1, <1>2, MinorIs, OwnMinor
<1>3. CASE ReceiveSync(p, m) \/ ReceiveTime(p, m)
  BY <1>1, <1>3, OwnQuiet
<1>4. CASE ReceiveFlags(p, m)
  BY <1>1, <1>4, OwnFlags
<1>5. CASE \E n \in 1 .. MaxRequired : ReceiveAtServer(p, m, n)
  BY <1>1, <1>5, OwnAtServer
<1>6. CASE ReceiveAndWait(p, m)
  BY <1>1, <1>6, OwnWait
<1>7. CASE ReceiveUnsync(p, m)
  BY <1>1, <1>7, OwnUnsync
<1> QED BY <1>2, <1>3, <1>4, <1>5, <1>6, <1>7 DEF Handle

LEMMA OwnStep ==
  ASSUME RingInv, RingInv', OnlyOneOut, OnlyOneOut', WordsOK, StreamInv, OwnInv, Next
  PROVE  OwnInv'
<1>1. PICK h \in Players : RingAt(h)
  BY DEF StreamInv
<1>2. Before(h)
  BY <1>1 DEF Before, StreamInv
<1>3. PICK p \in Players :
        \/ Sync(p) \/ Leave(p)
        \/ \E m \in net : Handle(p, m)
        \/ ServerTask(p) \/ GiveUp(p) \/ DropUpring(p)
  BY DEF Next
<1>4. CASE Sync(p)
  BY <1>2, <1>4, OwnSync
<1>5. CASE Leave(p) \/ GiveUp(p)
  BY <1>2, <1>5, OwnLeave
<1>6. CASE \E m \in net : Handle(p, m)
  BY <1>2, <1>6, OwnHandle
<1>7. CASE ServerTaskEarly(p)
  BY <1>2, <1>7, TaskIsMinor, OwnMinor
<1>8. CASE \E n \in 1 .. MaxRequired : ServerTaskForwards(p, n)
  BY <1>2, <1>8, OwnServerForwards
<1>9. CASE DropUpring(p)
  BY <1>2, <1>9, OwnDrop
<1> QED BY <1>3, <1>4, <1>5, <1>6, <1>7, <1>8, <1>9 DEF ServerTask

LEMMA OwnInit == Init => OwnInv
<1> SUFFICES ASSUME Init PROVE OwnInv
  OBVIOUS
<1>1. \A p \in Players : /\ status[p] = OutOfGame("uninitialized") /\ made[p] = 0
                         /\ \A q \in Players : played[p][q] = <<>>
  BY DEF Init
<1>2. \A p \in Players : /\ ~ Waiting(p) /\ status[p].ringFrame = FirstPacket
                         /\ Token(p) = FirstPacket
  BY <1>1 DEF Waiting, Token, OutOfGame
<1>3. \A q \in Players : FirstPacket.flags[q] = <<>>
  BY DEF FirstPacket
<1>4. WordsTo(0) = <<>> /\ <<>> \o <<>> = <<>>
  BY ConcatTyped DEF WordsTo
<1>5. \A q \in Players : OwnPlayed(q)
  BY <1>1, <1>2, <1>3, <1>4 DEF OwnPlayed
<1>6. \A p, q \in Players : SameFlags(p, q)
  BY <1>2 DEF SameFlags
<1> QED BY <1>2, <1>5, <1>6 DEF OwnInv, Ins

\* What a player has made it has played itself, but for what it has put in last.
LEMMA OwnInvariant == Spec => [](OnlyOneOut => OwnInv)
<1>1. Init => OwnInv
  BY OwnInit
<1>2. RingInv /\ RingInv' /\ WordsOK /\ (OnlyOneOut => StreamInv) /\ (OnlyOneOut => OwnInv)
        /\ [Next]_vars
          => (OnlyOneOut => OwnInv)'
  <2> SUFFICES ASSUME RingInv, RingInv', WordsOK, OnlyOneOut', OnlyOneOut => StreamInv,
                      OnlyOneOut => OwnInv, [Next]_vars
               PROVE  OwnInv'
    OBVIOUS
  <2>1. CASE Next
    BY <2>1, OnlyOneBefore, OwnStep
  <2>2. CASE UNCHANGED vars
    <3>1. status' = status /\ made' = made /\ played' = played /\ hasty' = hasty
      BY <2>2 DEF vars
    <3>2. OwnInv
      BY <3>1 DEF OnlyOneOut, Out, Started
    <3>3. Ins' = Ins /\ \A q \in Players : Waiting(q)' = Waiting(q) /\ Token(q)' = Token(q)
      BY <3>1 DEF Ins, Out, Started, Waiting, Token
    <3>4. \A q \in Ins : q \in Players
      BY DEF Ins
    <3>5. \A q \in Ins : OwnPlayed(q)' /\ (Waiting(q)' => status'[q].lastValid > 0)
      BY <3>1, <3>2, <3>3, <3>4 DEF OwnInv, OwnPlayed, WordsTo
    <3>6. \A p, q \in Ins : SameFlags(p, q)'
      BY <3>1, <3>2, <3>3, <3>4 DEF OwnInv, SameFlags
    <3> QED BY <3>3, <3>5, <3>6 DEF OwnInv
  <2> QED BY <2>1, <2>2
<1> QED BY <1>1, <1>2, RingInvariant, WordsInvariant, StreamInvariant, PTL DEF Spec

\* The words in the packet, and what has been played before, are what the player made.
LEMMA WordsOfPlayer ==
  ASSUME NEW h, Before(h), OwnInv, NEW q \in Players, status[q].accept
  PROVE  \E base \in Seq(Nat) :
           /\ base \o Token(h).flags[q] = WordsTo(made[q])
           /\ PlaysWords(base, Token(h).flags[q], Having(q, h), q, Ins, Others, played)
<1>1. /\ RingInv /\ HeadOK(h) /\ TokenOK(h) /\ h \in Players /\ h \in Ins
  BY DEF Before, RingAt, HeadOK, Ins
<1>2. q \in Ins /\ ~ Out(q)
  BY DEF Ins, Out
<1>3. PICK base \in Seq(Nat) :
        PlaysWords(base, Token(h).flags[q], Having(q, h), q, Ins, Others, played)
  BY <1>1, <1>2 DEF TokenOK, StreamOf
<1>4. played[q][q] = IF q \in Having(q, h) THEN base \o Token(h).flags[q] ELSE base
  BY <1>2, <1>3 DEF PlaysWords
<1>5. OwnPlayed(q) /\ SameFlags(h, q)
  BY <1>1, <1>2 DEF OwnInv
<1>6. CASE Waiting(q)
  <2>1. q = h /\ q \in Having(q, h)
    BY <1>1, <1>6 DEF HeadOK, Having
  <2> QED BY <1>3, <1>4, <1>5, <1>6, <2>1 DEF OwnPlayed
<1>7. CASE ~ Waiting(q)
  <2>1. q \notin Having(q, h)
    BY <1>1, <1>7, ReachedIs DEF Having
  <2>2. Token(h).flags[q] = status[q].ringFrame.flags[q]
    <3>1. CASE q = h
      BY <1>7, <3>1 DEF Token
    <3>2. CASE q # h
      <4>1. status[q].lastValid <= status[h].lastValid
        BY <1>2, HeadIsLast
      <4> QED BY <1>5, <3>2, <4>1 DEF SameFlags
    <3> QED BY <3>1, <3>2
  <2> QED BY <1>3, <1>4, <1>5, <1>7, <2>1, <2>2 DEF OwnPlayed
<1> QED BY <1>6, <1>7

\* With one player out at most, and as long as nobody has gone, and until somebody is
\* dropped that could still have answered, RingGameProtocol has everybody play the words of
\* those in the ring as they were made: none twice, none left out, none out of order.
THEOREM WordsPlayedInOrder == Spec => [](AllHere \/ OnlyOneOut => WordsInOrder)
<1>1. RingInv /\ StreamInv /\ OwnInv /\ OnlyOneOut => WordsInOrder
  <2> SUFFICES ASSUME RingInv, StreamInv, OwnInv, OnlyOneOut, NEW p \in Players, NEW q \in Players,
                      status[p].state # "gone", status[q].accept
               PROVE  IsPrefix(played[p][q], WordsTo(made[q]))
    BY DEF WordsInOrder
  <2>1. PICK h \in Players : Before(h)
    BY DEF StreamInv, Before
  <2>2. PICK base \in Seq(Nat) :
          /\ base \o Token(h).flags[q] = WordsTo(made[q])
          /\ PlaysWords(base, Token(h).flags[q], Having(q, h), q, Ins, Others, played)
    BY <2>1, WordsOfPlayer
  <2>3. /\ Token(h).flags[q] \in Seq(Nat) /\ base \o Token(h).flags[q] \in Seq(Nat)
    <3>1. Token(h) \in PacketSet
      BY Player DEF Token
    <3>2. Token(h).flags[q] \in Seq(Nat)
      BY <3>1, Flags
    <3> QED BY <3>2, ConcatTyped
  <2>4. IsPrefix(base, base \o Token(h).flags[q])
        /\ IsPrefix(base \o Token(h).flags[q], base \o Token(h).flags[q])
    BY <2>3, PrefixOfConcat
  <2>5. p \in Ins \cup Others
    BY InRing
  <2> QED BY <2>2, <2>4, <2>5 DEF PlaysWords
<1>2. RingInv /\ WordsOK /\ OrderInv /\ AllHere => OnlyOneOut \/ WordsInOrder
  <2> SUFFICES ASSUME RingInv, WordsOK, OrderInv, AllHere, ~ OnlyOneOut PROVE WordsInOrder
    OBVIOUS
  <2>1. Drained
    BY OrderlyPlayer DEF OnlyOneOut, OrderInv, AllHere
  <2>2. ASSUME NEW p \in Players, NEW q \in Players
        PROVE  IsPrefix(played[p][q], WordsTo(made[q]))
    <3>1. played[p][q] = WordsTo(made[q]) /\ played[p][q] \in Seq(Nat)
      BY <2>1 DEF Drained, AllHere, WordsOK, PlayedSet
    <3> QED BY <3>1, PrefixOfConcat
  <2> QED BY <2>2 DEF WordsInOrder
<1> QED
  BY <1>1, <1>2, RingInvariant, WordsInvariant, OrderInvariant, StreamInvariant, OwnInvariant, PTL

\* So the ring does what it is for: the same flags everywhere, and of those in it the right
\* ones; until somebody has gone and a second player is out, or drop_upring_player drops
\* one that was only slow.
THEOREM StreamsAgreeInOrder == Spec => [](AllHere \/ OnlyOneOut => StreamsAgree)
<1>1. SameStreams /\ WordsInOrder => StreamsAgree
  BY DEF StreamsAgree
<1> QED BY <1>1, StreamsSameInOrder, WordsPlayedInOrder, PTL
=============================================================================
