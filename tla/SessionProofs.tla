---------------------------- MODULE SessionProofs ----------------------------
(***************************************************************************)
(* For any number of joiners, however they come and go: whoever is in the  *)
(* topology is a client that waits for the game, once, and will know it as *)
(* the gatherer has it; nobody is looked up that is not there; and who     *)
(* starts has the gatherer's players.                                      *)
(*                                                                         *)
(* SessionInv is inductive.  It says what may still be on its way: to a    *)
(* joiner the identifier that is its own, and the start of the game that   *)
(* it is in; to the gatherer the acceptance of that identifier, and before *)
(* everything else the one message by which a client begins anew.  ToldInv *)
(* adds that the last topology on its way to a client, or the one it has,  *)
(* is the gatherer's, and that none follows the start.                     *)
(***************************************************************************)
EXTENDS Session, TLAPS, FunctionTheorems, FiniteSetTheorems, NaturalsInduction,
        WellFoundedInduction

\* A client's state, which the constructor leaves uninitialized, is not by chance
\* one that only a message sets: the hypothesis of the theorems.
NewStates == {"connecting", "disconnect", "ungatherable"}
NewClients == Uninitialized \subseteq NewStates

NetStates == {"gathering", "starting", "active", "cancelled", "crashed", "aborted", "no_client"}
JoinerStates ==
  {"connecting", "awaitingHello", "joining", "waiting", "starting", "playing", "cancelled", Gone}

PlayerSet == [stream : 0 .. NumJoiners, id : Nat]
Tags == {"NEW_PLAYER", "DROPPED_PLAYER", "START_GAME", "CANCEL_GAME"}
Join(id) == [type |-> "join", id |-> id]
Accept(id) == [type |-> "accept", id |-> id]

ToJoinerSet ==
  {Topology(tag, ps) : tag \in Tags, ps \in Seq(PlayerSet)}
    \cup {Join(id) : id \in Nat}
    \cup {Plain("hello"), Plain("capabilities"), Plain("gameData")}
ToGathererSet ==
  {Accept(id) : id \in Nat} \cup {Plain("joinerInfo"), Plain("capabilities")}

ClientSet ==
  [state : ClientStates \cup {"none", Gone}, connected : BOOLEAN, outgoing : Seq(ToJoinerSet)]
JoinerSet == [state : JoinerStates, id : Nat, players : Seq(PlayerSet)]

Types ==
  /\ netState \in NetStates
  /\ players \in Seq(PlayerSet)
  /\ nextIdentifier \in Nat \ {0}
  /\ client \in [Joiners -> ClientSet]
  /\ listed \subseteq Joiners
  /\ visit \in 0 .. Showing
  /\ joiner \in [Joiners -> JoinerSet]
  /\ toJoiner \in [Joiners -> Seq(ToJoinerSet)]
  /\ toGatherer \in [Joiners -> Seq(ToGathererSet)]

\* What the gatherer has enqueued or sent and the joiner has not handled.
OnWay(c) == ToSet(client[c].outgoing) \cup ToSet(toJoiner[c])

\* An identifier is given to one joiner, which keeps it.
Given(c, id) == joiner[c].id = id \/ Join(id) \in OnWay(c)

IdsInv ==
  \A c \in Joiners : \A id \in Nat \ {0} :
    Given(c, id) => /\ id < nextIdentifier
                    /\ \A d \in Joiners : Given(d, id) => d = c

\* A joiner accepts its own identifier.
HasAccepted == {"waiting", "starting", "playing", "cancelled", Gone}

AcceptInv ==
  \A j \in Joiners :
    /\ joiner[j].id # 0 => joiner[j].state \in HasAccepted
    /\ Join(0) \notin OnWay(j)
    /\ \A id \in Nat : Accept(id) \in ToSet(toGatherer[j]) => id # 0 /\ id = joiner[j].id

\* The topology has the gatherer, and joiners by the identifiers they accepted.
PlayersInv ==
  /\ Len(players) > 0
  /\ players[1] = Player(0, 0)
  /\ \A i \in 2 .. Len(players) :
       /\ players[i].stream \in Joiners
       /\ players[i].id = joiner[players[i].stream].id
       /\ players[i].id # 0
       /\ \A k \in 2 .. Len(players) : players[k].stream = players[i].stream => k = i

\* A client begins anew once, before it is anything else.
Fresh == NewStates \cup {"none", Gone}

BeginsInv ==
  \A j \in Joiners :
    /\ joiner[j].state \in {"connecting", "awaitingHello"} =>
         /\ toGatherer[j] = <<>>
         /\ client[j].state \in Fresh
    /\ \A i \in 1 .. Len(toGatherer[j]) : toGatherer[j][i] = Plain("joinerInfo") =>
         /\ i = 1
         /\ client[j].state \in Fresh

\* The clients of those in the topology and of those listed.
ClientsInv ==
  /\ netState # "no_client"
  /\ netState \in {"gathering", "starting"} =>
       \A c \in Members(players) : client[c].state = "awaiting_map"
  /\ netState = "active" =>
       \A c \in Members(players) : client[c].state \in {"awaiting_map", "ingame"}
  /\ Setting => \A c \in listed : client[c].state = "connected"

\* The players a joiner starts with, or will start with.
Told(c, ps) ==
  \/ joiner[c].state \in {"starting", "playing"} /\ joiner[c].players = ps
  \/ Topology("START_GAME", ps) \in OnWay(c)

StartInv ==
  /\ netState = "gathering" => \A c \in Joiners : \A ps \in Seq(PlayerSet) : ~ Told(c, ps)
  /\ netState \in {"starting", "active"} =>
       \A c \in Joiners : \A ps \in Seq(PlayerSet) :
         Told(c, ps) => ps = players /\ c \in Members(players)

SessionInv ==
  Types /\ IdsInv /\ AcceptInv /\ PlayersInv /\ BeginsInv /\ ClientsInv /\ StartInv

-----------------------------------------------------------------------------
(***************************************************************************)
(* Sequences and messages                                                  *)
(***************************************************************************)
LEMMA ConcatValue ==
  ASSUME NEW S, NEW s \in Seq(S), NEW t \in Seq(S)
  PROVE  /\ s \o t \in Seq(S)
         /\ Len(s \o t) = Len(s) + Len(t)
         /\ \A i \in 1 .. Len(s) : (s \o t)[i] = s[i]
         /\ \A i \in Len(s) + 1 .. Len(s) + Len(t) : (s \o t)[i] = t[i - Len(s)]
OBVIOUS

LEMMA ToSetFacts ==
  ASSUME NEW S, NEW s \in Seq(S), NEW t \in Seq(S), NEW m \in S
  PROVE  /\ ToSet(<<>>) = {}
         /\ ToSet(Append(s, m)) = ToSet(s) \cup {m}
         /\ ToSet(s \o t) = ToSet(s) \cup ToSet(t)
         /\ s # <<>> => /\ Tail(s) \in Seq(S)
                        /\ Front(s) \in Seq(S)
                        /\ ToSet(Tail(s)) \subseteq ToSet(s)
                        /\ ToSet(Front(s)) \subseteq ToSet(s)
                        /\ Head(s) \in ToSet(s)
                        /\ Head(s) \in S
<1>1. ToSet(<<>>) = {}  BY DEF ToSet
<1>2. ToSet(Append(s, m)) = ToSet(s) \cup {m}
  <2>   DEFINE w == Append(s, m)
  <2>1. /\ DOMAIN w = 1 .. Len(s) + 1 /\ w[Len(s) + 1] = m
        /\ \A i \in 1 .. Len(s) : w[i] = s[i]
        /\ DOMAIN s = 1 .. Len(s) /\ Len(s) \in Nat
    OBVIOUS
  <2>   HIDE DEF w
  <2>   QED BY <2>1 DEF ToSet, w
<1>3. ToSet(s \o t) = ToSet(s) \cup ToSet(t)
  <2>   DEFINE w == s \o t
  <2>1. /\ DOMAIN w = 1 .. Len(s) + Len(t)
        /\ \A i \in 1 .. Len(s) : w[i] = s[i]
        /\ \A i \in 1 .. Len(t) : w[Len(s) + i] = t[i]
        /\ \A i \in Len(s) + 1 .. Len(s) + Len(t) : w[i] = t[i - Len(s)]
        /\ DOMAIN s = 1 .. Len(s) /\ Len(s) \in Nat
        /\ DOMAIN t = 1 .. Len(t) /\ Len(t) \in Nat
    OBVIOUS
  <2>   HIDE DEF w
  <2>2. ASSUME NEW i \in DOMAIN w PROVE w[i] \in ToSet(s) \cup ToSet(t)
    <3>1. CASE i \in 1 .. Len(s)  BY <3>1, <2>1 DEF ToSet
    <3>2. CASE i \in Len(s) + 1 .. Len(s) + Len(t)
      <4>1. i - Len(s) \in DOMAIN t  BY <3>2, <2>1
      <4>   QED BY <4>1, <3>2, <2>1 DEF ToSet
    <3>   QED BY <3>1, <3>2, <2>1
  <2>3. ASSUME NEW i \in DOMAIN s PROVE s[i] \in ToSet(w)
    <3>1. i \in DOMAIN w /\ w[i] = s[i]  BY <2>1
    <3>   QED BY <3>1 DEF ToSet
  <2>4. ASSUME NEW i \in DOMAIN t PROVE t[i] \in ToSet(w)
    <3>1. Len(s) + i \in DOMAIN w /\ w[Len(s) + i] = t[i]  BY <2>1
    <3>   QED BY <3>1 DEF ToSet
  <2>   QED BY <2>2, <2>3, <2>4 DEF ToSet, w
<1>4. ASSUME s # <<>>
      PROVE  /\ Tail(s) \in Seq(S)
             /\ Front(s) \in Seq(S)
             /\ ToSet(Tail(s)) \subseteq ToSet(s)
             /\ ToSet(Front(s)) \subseteq ToSet(s)
             /\ Head(s) \in ToSet(s)
             /\ Head(s) \in S
  <2>1. Len(s) \in Nat \ {0} /\ DOMAIN s = 1 .. Len(s)  BY <1>4
  <2>2. /\ Tail(s) \in Seq(S) /\ DOMAIN Tail(s) = 1 .. Len(s) - 1
        /\ \A i \in 1 .. Len(s) - 1 : Tail(s)[i] = s[i + 1]
    BY <1>4, <2>1
  <2>3. /\ Front(s) \in Seq(S) /\ DOMAIN Front(s) = 1 .. Len(s) - 1
        /\ \A i \in 1 .. Len(s) - 1 : Front(s)[i] = s[i]
    BY <2>1 DEF Front
  <2>4. ToSet(Tail(s)) \subseteq ToSet(s)
    <3>1. \A i \in 1 .. Len(s) - 1 : i + 1 \in DOMAIN s  BY <2>1
    <3>   QED BY <3>1, <2>2 DEF ToSet
  <2>5. ToSet(Front(s)) \subseteq ToSet(s)
    <3>1. \A i \in 1 .. Len(s) - 1 : i \in DOMAIN s  BY <2>1
    <3>   QED BY <3>1, <2>3 DEF ToSet
  <2>6. Head(s) = s[1] /\ 1 \in DOMAIN s  BY <2>1
  <2>   QED BY <2>2, <2>3, <2>4, <2>5, <2>6 DEF ToSet
<1>   QED BY <1>1, <1>2, <1>3, <1>4

LEMMA FrontValue ==
  ASSUME NEW S, NEW s \in Seq(S), s # <<>>
  PROVE  /\ Len(Front(s)) = Len(s) - 1
         /\ \A i \in 1 .. Len(s) - 1 : Front(s)[i] = s[i]
<1>   DEFINE n == Len(s) - 1
<1>1. Len(s) \in Nat /\ n \in Nat /\ n <= Len(s)  OBVIOUS
<1>2. Front(s) = SubSeq(s, 1, n)  BY DEF Front
<1>   HIDE DEF n
<1>3. Len(SubSeq(s, 1, n)) = n /\ \A i \in 1 .. n : SubSeq(s, 1, n)[i] = s[i]
  BY <1>1
<1>   QED BY <1>2, <1>3 DEF n

LEMMA ToSetConcat ==
  ASSUME NEW S, NEW s \in Seq(S), NEW t \in Seq(S), NEW m \in S
  PROVE  s \o t \in Seq(S) /\ ToSet(s \o t) = ToSet(s) \cup ToSet(t)
BY ToSetFacts, ConcatValue

\* What is left when a player is taken out.
LEMMA RemoveAtValue ==
  ASSUME NEW S, NEW s \in Seq(S), NEW i \in 1 .. Len(s)
  PROVE  /\ RemoveAt(s, i) \in Seq(S)
         /\ Len(RemoveAt(s, i)) = Len(s) - 1
         /\ \A k \in 1 .. Len(s) - 1 : RemoveAt(s, i)[k] = IF k < i THEN s[k] ELSE s[k + 1]
<1>   DEFINE front == SubSeq(s, 1, i - 1)
             back  == SubSeq(s, i + 1, Len(s))
<1>1. Len(s) \in Nat /\ i \in Nat /\ i >= 1 /\ i <= Len(s)  OBVIOUS
<1>2. /\ front \in Seq(S) /\ Len(front) = i - 1
      /\ \A k \in 1 .. i - 1 : front[k] = s[k]
  BY <1>1
<1>3. /\ back \in Seq(S) /\ Len(back) = Len(s) - i
      /\ \A k \in 1 .. Len(s) - i : back[k] = s[i + k]
  BY <1>1
<1>   HIDE DEF front, back
<1>4. /\ front \o back \in Seq(S) /\ Len(front \o back) = Len(s) - 1
      /\ \A k \in 1 .. i - 1 : (front \o back)[k] = front[k]
      /\ \A k \in i .. Len(s) - 1 : (front \o back)[k] = back[k - (i - 1)]
  <2>1. /\ front \o back \in Seq(S) /\ Len(front \o back) = Len(front) + Len(back)
        /\ \A k \in 1 .. Len(front) : (front \o back)[k] = front[k]
        /\ \A k \in Len(front) + 1 .. Len(front) + Len(back) :
             (front \o back)[k] = back[k - Len(front)]
    <3>1. front \in Seq(S) /\ back \in Seq(S)  BY <1>2, <1>3
    <3>   QED BY <3>1, ConcatValue, ZenonT(30)
  <2>   QED BY <2>1, <1>1, <1>2, <1>3, SMTT(30)
<1>5. ASSUME NEW k \in 1 .. Len(s) - 1
      PROVE  (front \o back)[k] = IF k < i THEN s[k] ELSE s[k + 1]
  <2>1. CASE k < i
    <3>1. k \in 1 .. i - 1  BY <2>1, <1>1
    <3>   QED BY <3>1, <2>1, <1>2, <1>4
  <2>2. CASE ~ k < i
    <3>1. k \in i .. Len(s) - 1 /\ k - (i - 1) \in 1 .. Len(s) - i
          /\ i + (k - (i - 1)) = k + 1
      BY <2>2, <1>1
    <3>   QED BY <3>1, <2>2, <1>3, <1>4
  <2>   QED BY <2>1, <2>2
<1>   QED BY <1>4, <1>5 DEF RemoveAt, front, back

LEMMA MessageFacts ==
  /\ \A tag \in Tags : \A ps \in Seq(PlayerSet) : Topology(tag, ps) \in ToJoinerSet
  /\ \A id \in Nat : Join(id) \in ToJoinerSet /\ Accept(id) \in ToGathererSet
  /\ \A m \in ToJoinerSet : m.type = "join" => m.id \in Nat /\ m = Join(m.id)
  /\ \A m \in ToJoinerSet : m.type = "topology" =>
       m.tag \in Tags /\ m.players \in Seq(PlayerSet) /\ m = Topology(m.tag, m.players)
  /\ \A m \in ToGathererSet : m.type = "accept" => m.id \in Nat /\ m = Accept(m.id)
  /\ \A m \in ToGathererSet : m.type = "joinerInfo" => m = Plain("joinerInfo")
  /\ \A tag, ps, type : Plain(type).type = type /\ Topology(tag, ps).type = "topology"
       /\ Topology(tag, ps).tag = tag /\ Topology(tag, ps).players = ps
  /\ \A id : Join(id).type = "join" /\ Join(id).id = id
             /\ Accept(id).type = "accept" /\ Accept(id).id = id
  /\ Plain("hello") \in ToJoinerSet /\ Plain("capabilities") \in ToJoinerSet
  /\ Plain("gameData") \in ToJoinerSet
  /\ Plain("joinerInfo") \in ToGathererSet /\ Plain("capabilities") \in ToGathererSet
  /\ NumJoiners \in Nat /\ 0 \notin Joiners
<1>1. /\ \A tag \in Tags : \A ps \in Seq(PlayerSet) : Topology(tag, ps) \in ToJoinerSet
      /\ \A id \in Nat : Join(id) \in ToJoinerSet /\ Accept(id) \in ToGathererSet
      /\ Plain("hello") \in ToJoinerSet /\ Plain("capabilities") \in ToJoinerSet
      /\ Plain("gameData") \in ToJoinerSet
      /\ Plain("joinerInfo") \in ToGathererSet /\ Plain("capabilities") \in ToGathererSet
  <2>1. ASSUME NEW tag \in Tags, NEW ps \in Seq(PlayerSet) PROVE Topology(tag, ps) \in ToJoinerSet
    <3>1. Topology(tag, ps) \in {Topology(tg, qs) : tg \in Tags, qs \in Seq(PlayerSet)}
      OBVIOUS
    <3>   QED BY <3>1 DEF ToJoinerSet
  <2>2. \A id \in Nat : Join(id) \in ToJoinerSet /\ Accept(id) \in ToGathererSet
    BY DEF ToJoinerSet, ToGathererSet
  <2>3. /\ Plain("hello") \in ToJoinerSet /\ Plain("capabilities") \in ToJoinerSet
        /\ Plain("gameData") \in ToJoinerSet
        /\ Plain("joinerInfo") \in ToGathererSet /\ Plain("capabilities") \in ToGathererSet
    BY DEF ToJoinerSet, ToGathererSet
  <2>   QED BY <2>1, <2>2, <2>3
<1>2. /\ \A tag, ps, type : Plain(type).type = type /\ Topology(tag, ps).type = "topology"
           /\ Topology(tag, ps).tag = tag /\ Topology(tag, ps).players = ps
      /\ \A id : Join(id).type = "join" /\ Join(id).id = id
                 /\ Accept(id).type = "accept" /\ Accept(id).id = id
  BY DEF Topology, Join, Accept, Plain
<1>3. ASSUME NEW m \in ToJoinerSet
      PROVE  /\ m.type = "join" => m.id \in Nat /\ m = Join(m.id)
             /\ m.type = "topology" =>
                  m.tag \in Tags /\ m.players \in Seq(PlayerSet) /\ m = Topology(m.tag, m.players)
  <2>1. CASE m \in {Topology(tag, ps) : tag \in Tags, ps \in Seq(PlayerSet)}
    <3>1. PICK tag \in Tags, ps \in Seq(PlayerSet) : m = Topology(tag, ps)  BY <2>1
    <3>   QED BY <3>1, <1>2
  <2>2. CASE m \in {Join(id) : id \in Nat}
    <3>1. PICK id \in Nat : m = Join(id)  BY <2>2
    <3>   QED BY <3>1, <1>2
  <2>3. CASE m \in {Plain("hello"), Plain("capabilities"), Plain("gameData")}
    BY <2>3, <1>2
  <2>   QED BY <2>1, <2>2, <2>3 DEF ToJoinerSet
<1>4. ASSUME NEW m \in ToGathererSet
      PROVE  /\ m.type = "accept" => m.id \in Nat /\ m = Accept(m.id)
             /\ m.type = "joinerInfo" => m = Plain("joinerInfo")
  <2>1. CASE m \in {Accept(id) : id \in Nat}
    <3>1. PICK id \in Nat : m = Accept(id)  BY <2>1
    <3>   QED BY <3>1, <1>2
  <2>2. CASE m \in {Plain("joinerInfo"), Plain("capabilities")}
    BY <2>2, <1>2
  <2>   QED BY <2>1, <2>2 DEF ToGathererSet
<1>5. NumJoiners \in Nat /\ 0 \notin Joiners
  BY SessionAssumption DEF Joiners
<1>   QED BY <1>1, <1>2, <1>3, <1>4, <1>5

-----------------------------------------------------------------------------
(***************************************************************************)
(* Clients                                                                 *)
(***************************************************************************)
LEMMA EnqueueValue ==
  ASSUME NEW cl \in [Joiners -> ClientSet], NEW S, NEW message \in ToJoinerSet
  PROVE  /\ Enqueue(cl, S, message) \in [Joiners -> ClientSet]
         /\ \A c \in Joiners :
              /\ Enqueue(cl, S, message)[c].state = cl[c].state
              /\ Enqueue(cl, S, message)[c].connected = cl[c].connected
              /\ ToSet(Enqueue(cl, S, message)[c].outgoing)
                   \subseteq ToSet(cl[c].outgoing) \cup {message}
              /\ c \notin S => Enqueue(cl, S, message)[c] = cl[c]
<1>1. ASSUME NEW c \in Joiners
      PROVE  LET new == [cl[c] EXCEPT !.outgoing = Append(@, message)]
             IN  /\ new \in ClientSet /\ new.state = cl[c].state
                 /\ new.connected = cl[c].connected
                 /\ ToSet(new.outgoing) = ToSet(cl[c].outgoing) \cup {message}
  <2>1. cl[c] \in ClientSet /\ cl[c].outgoing \in Seq(ToJoinerSet)  BY DEF ClientSet
  <2>2. /\ Append(cl[c].outgoing, message) \in Seq(ToJoinerSet)
        /\ ToSet(Append(cl[c].outgoing, message)) = ToSet(cl[c].outgoing) \cup {message}
    BY <2>1, ToSetFacts
  <2>   QED BY <2>1, <2>2 DEF ClientSet
<1>   QED BY <1>1 DEF Enqueue

LEMMA StateValue ==
  ASSUME NEW r \in ClientSet, NEW state \in ClientStates \cup {"none", Gone}
  PROVE  /\ [r EXCEPT !.state = state] \in ClientSet
         /\ [r EXCEPT !.state = state].state = state
         /\ [r EXCEPT !.state = state].connected = r.connected
         /\ [r EXCEPT !.state = state].outgoing = r.outgoing
BY DEF ClientSet

LEMMA EmptiedValue ==
  ASSUME NEW r \in ClientSet
  PROVE  /\ [r EXCEPT !.outgoing = <<>>] \in ClientSet
         /\ [r EXCEPT !.outgoing = <<>>].state = r.state
         /\ [r EXCEPT !.outgoing = <<>>].outgoing = <<>>
<1>1. <<>> \in Seq(ToJoinerSet)  OBVIOUS
<1>   QED BY <1>1, Zenon DEF ClientSet

LEMMA CutOffValue ==
  ASSUME NEW r \in ClientSet
  PROVE  /\ [r EXCEPT !.connected = FALSE] \in ClientSet
         /\ [r EXCEPT !.connected = FALSE].state = r.state
         /\ [r EXCEPT !.connected = FALSE].outgoing = r.outgoing
BY DEF ClientSet

\* A client's state is set, and nothing else.
LEMMA StateSetValue ==
  ASSUME NEW cl \in [Joiners -> ClientSet], NEW c \in Joiners, NEW state \in ClientStates
  PROVE  /\ [cl EXCEPT ![c].state = state] \in [Joiners -> ClientSet]
         /\ [cl EXCEPT ![c].state = state][c].state = state
         /\ \A d \in Joiners : d # c => [cl EXCEPT ![c].state = state][d] = cl[d]
         /\ \A d \in Joiners : [cl EXCEPT ![c].state = state][d].outgoing = cl[d].outgoing
<1>1. [cl EXCEPT ![c].state = state] = [cl EXCEPT ![c] = [cl[c] EXCEPT !.state = state]]
  BY Zenon
<1>   DEFINE r == [cl[c] EXCEPT !.state = state]
<1>2. r \in ClientSet /\ r.state = state /\ r.outgoing = cl[c].outgoing
  BY StateValue
<1>   HIDE DEF r
<1>3. LET new == [cl EXCEPT ![c] = r]
      IN  /\ new \in [Joiners -> ClientSet] /\ new[c].state = state
          /\ \A d \in Joiners : d # c => new[d] = cl[d]
          /\ \A d \in Joiners : new[d].outgoing = cl[d].outgoing
  BY <1>2
<1>   QED BY <1>1, <1>3 DEF r

\* What is enqueued is of a certain kind.
LEMMA EnqueueOfKind ==
  ASSUME NEW cl \in [Joiners -> ClientSet], NEW S, NEW message \in ToJoinerSet,
         NEW Kind, message \in Kind
  PROVE  \A c \in Joiners :
           ToSet(Enqueue(cl, S, message)[c].outgoing) \subseteq ToSet(cl[c].outgoing) \cup Kind
<1>1. ASSUME NEW c \in Joiners, NEW m \in ToSet(Enqueue(cl, S, message)[c].outgoing)
      PROVE  m \in ToSet(cl[c].outgoing) \cup Kind
  <2>1. m \in ToSet(cl[c].outgoing) \cup {message}  BY <1>1, EnqueueValue
  <2>   QED BY <2>1
<1>   QED BY <1>1

LEMMA GoneValue ==
  LET new == [NoClient EXCEPT !.state = Gone]
  IN  new \in ClientSet /\ new.state = Gone /\ ToSet(new.outgoing) = {}
<1>1. NoClient \in ClientSet /\ NoClient.outgoing = <<>>  BY DEF NoClient, ClientSet
<1>2. ToSet(<<>>) = {}  BY DEF ToSet
<1>3. Gone \in ClientStates \cup {"none", Gone}  OBVIOUS
<1>   QED BY <1>1, <1>2, <1>3, StateValue

LEMMA DeletedValue ==
  ASSUME NEW cl \in [Joiners -> ClientSet], NEW S
  PROVE  /\ Deleted(cl, S) \in [Joiners -> ClientSet]
         /\ \A c \in Joiners :
              /\ c \in S => /\ Deleted(cl, S)[c].state = Gone
                            /\ ToSet(Deleted(cl, S)[c].outgoing) = {}
              /\ c \notin S => Deleted(cl, S)[c] = cl[c]
BY GoneValue DEF Deleted

LEMMA ErasedValue ==
  ASSUME NEW cl \in [Joiners -> ClientSet], NEW c \in Joiners
  PROVE  /\ Deleted(cl, {c}) \in [Joiners -> ClientSet]
         /\ Deleted(cl, {c})[c].state = Gone /\ ToSet(Deleted(cl, {c})[c].outgoing) = {}
         /\ \A d \in Joiners : d # c => Deleted(cl, {c})[d] = cl[d]
BY GoneValue DEF Deleted

\* What says nothing of identifiers and of the start.
Harmless ==
  {m \in ToJoinerSet : m.type # "join" /\ ~ (m.type = "topology" /\ m.tag = "START_GAME")}

LEMMA HarmlessFacts ==
  /\ \A tag \in Tags \ {"START_GAME"} : \A ps \in Seq(PlayerSet) : Topology(tag, ps) \in Harmless
  /\ \A type \in {"hello", "capabilities", "gameData"} : Plain(type) \in Harmless
  /\ \A id : Join(id) \notin Harmless
  /\ \A ps : Topology("START_GAME", ps) \notin Harmless
  /\ Harmless \subseteq ToJoinerSet
<1>1. \A tag \in Tags \ {"START_GAME"} : \A ps \in Seq(PlayerSet) : Topology(tag, ps) \in Harmless
  BY MessageFacts DEF Harmless
<1>2. \A type \in {"hello", "capabilities", "gameData"} : Plain(type) \in Harmless
  BY MessageFacts DEF Harmless
<1>3. \A id : Join(id) \notin Harmless
  BY MessageFacts DEF Harmless
<1>4. \A ps : Topology("START_GAME", ps) \notin Harmless
  BY MessageFacts DEF Harmless
<1>   QED BY <1>1, <1>2, <1>3, <1>4 DEF Harmless

-----------------------------------------------------------------------------
(***************************************************************************)
(* What leaves the parts of the invariant alone                            *)
(***************************************************************************)

\* A step of the gatherer that gives no identifier and starts nothing.
LEMMA QuietStep ==
  ASSUME IdsInv, AcceptInv, UNCHANGED <<joiner, nextIdentifier>>,
         \A c \in Joiners : OnWay(c)' \subseteq OnWay(c) \cup Harmless,
         \A c \in Joiners : ToSet(toGatherer'[c]) \subseteq ToSet(toGatherer[c])
  PROVE  /\ IdsInv' /\ AcceptInv'
         /\ \A c \in Joiners : \A ps : Told(c, ps)' => Told(c, ps)
<1>1. \A c \in Joiners : \A id : Join(id) \in OnWay(c)' => Join(id) \in OnWay(c)
  BY HarmlessFacts
<1>2. \A c \in Joiners : \A ps :
        Topology("START_GAME", ps) \in OnWay(c)' => Topology("START_GAME", ps) \in OnWay(c)
  BY HarmlessFacts
<1>3. IdsInv'
  BY <1>1 DEF IdsInv, Given
<1>4. AcceptInv'
  BY <1>1 DEF AcceptInv
<1>5. \A c \in Joiners : \A ps : Told(c, ps)' => Told(c, ps)
  BY <1>2 DEF Told
<1>   QED BY <1>3, <1>4, <1>5

LEMMA StartKept ==
  ASSUME StartInv,
         \A c \in Joiners : \A ps : Told(c, ps)' => Told(c, ps),
         netState' = "gathering" => netState = "gathering",
         netState' \in {"starting", "active"} =>
           netState \in {"starting", "active"} /\ players' = players
  PROVE  StartInv'
BY DEF StartInv

\* The players are kept or become fewer or one more.
LEMMA MembersOfAppended ==
  ASSUME NEW ps \in Seq(PlayerSet), Len(ps) > 0, NEW p \in PlayerSet
  PROVE  Members(Append(ps, p)) = Members(ps) \cup {p.stream}
<1>   DEFINE qs == Append(ps, p)
<1>1. /\ Len(qs) = Len(ps) + 1 /\ Len(ps) \in Nat
      /\ \A i \in 1 .. Len(ps) : qs[i] = ps[i]
      /\ qs[Len(ps) + 1] = p
  OBVIOUS
<1>   HIDE DEF qs
<1>2. \A i : i \in 2 .. Len(qs) <=> i \in 2 .. Len(ps) \/ i = Len(ps) + 1
  BY <1>1
<1>3. \A i \in 2 .. Len(ps) : qs[i] = ps[i]
  BY <1>1
<1>   QED BY <1>1, <1>2, <1>3 DEF Members, qs

LEMMA BeginsKept ==
  ASSUME BeginsInv, UNCHANGED <<joiner, toGatherer>>,
         \A c \in Joiners : client[c].state \in Fresh => client'[c].state \in Fresh
  PROVE  BeginsInv'
BY DEF BeginsInv

-----------------------------------------------------------------------------
(***************************************************************************)
(* What a client does with a message                                       *)
(***************************************************************************)

\* cl are the clients once c's channel was pumped.
Pumped(c, cl) ==
  /\ cl \in [Joiners -> ClientSet]
  /\ \A d \in Joiners : cl[d].state = client[d].state
  /\ \A d \in Joiners : ToSet(cl[d].outgoing) \subseteq ToSet(client[d].outgoing)

\* What a message may do.
Handled(c, cl) ==
  /\ client' \in [Joiners -> ClientSet] /\ players' \in Seq(PlayerSet) /\ netState' \in NetStates
  /\ \A d \in Joiners : ToSet(client'[d].outgoing) \subseteq ToSet(cl[d].outgoing) \cup Harmless
  /\ \A d \in Joiners : d # c => client'[d].state = client[d].state
  /\ PlayersInv' /\ ClientsInv'
  /\ netState' = "gathering" => netState = "gathering"
  /\ netState' \in {"starting", "active"} => netState' = netState /\ players' = players

LEMMA MembersAreJoiners ==
  ASSUME Types, PlayersInv PROVE Members(players) \subseteq Joiners
BY DEF PlayersInv, Members

LEMMA JoinerInfoHandled ==
  ASSUME SessionInv, Setting, NEW c \in Joiners, NEW cl, Pumped(c, cl), UNCHANGED <<joiner, listed>>,
         client[c].state \in Fresh, JoinerInfo(c, cl)
  PROVE  Handled(c, cl)
<1>   USE DEF SessionInv
<1>1. Plain("capabilities") \in ToJoinerSet /\ Plain("capabilities") \in Harmless
  BY MessageFacts, HarmlessFacts
<1>2. /\ client' \in [Joiners -> ClientSet]
      /\ \A d \in Joiners : ToSet(client'[d].outgoing) \subseteq ToSet(cl[d].outgoing) \cup Harmless
      /\ \A d \in Joiners : d # c => client'[d].state = client[d].state
  <2>   DEFINE asked == Enqueue(cl, {c}, Plain("capabilities"))
  <2>1. /\ asked \in [Joiners -> ClientSet]
        /\ \A d \in Joiners : /\ asked[d].state = client[d].state
                               /\ ToSet(asked[d].outgoing) \subseteq ToSet(cl[d].outgoing) \cup Harmless
    BY <1>1, EnqueueValue, EnqueueOfKind DEF Pumped
  <2>   HIDE DEF asked
  <2>2. CASE client' = [asked EXCEPT ![c].state = "awaiting_capabilities"]
    <3>1. "awaiting_capabilities" \in ClientStates  BY DEF ClientStates
    <3>   QED BY <2>1, <2>2, <3>1, StateSetValue
  <2>3. CASE client' = cl
    BY <2>3 DEF Pumped
  <2>   QED BY <2>2, <2>3 DEF JoinerInfo, asked
<1>3. UNCHANGED <<netState, players>>  BY DEF JoinerInfo
<1>4. c \notin Members(players) /\ c \notin listed
  BY DEF ClientsInv, Setting, Fresh, NewStates, Gone
<1>5. PlayersInv'  BY <1>3 DEF PlayersInv
<1>6. ClientsInv'
  BY <1>2, <1>3, <1>4, MembersAreJoiners DEF ClientsInv, Setting, Types
<1>   QED BY <1>2, <1>3, <1>5, <1>6 DEF Handled, Types

LEMMA CapabilitiesHandled ==
  ASSUME SessionInv, Setting, NEW c \in Joiners, NEW cl, Pumped(c, cl), UNCHANGED <<joiner, listed>>,
         CapabilitiesReply(c, cl)
  PROVE  Handled(c, cl)
<1>   USE DEF SessionInv
<1>1. /\ client' \in [Joiners -> ClientSet]
      /\ \A d \in Joiners : ToSet(client'[d].outgoing) \subseteq ToSet(cl[d].outgoing) \cup Harmless
      /\ \A d \in Joiners : d # c => client'[d].state = client[d].state
      /\ client[c].state # "awaiting_capabilities" => client'[c].state = client[c].state
  <2>1. cl \in [Joiners -> ClientSet] /\ \A d \in Joiners : cl[d].state = client[d].state
    BY DEF Pumped
  <2>2. {"connected_but_not_yet_shown", "ungatherable"} \subseteq ClientStates  BY DEF ClientStates
  <2>3. CASE /\ client[c].state = "awaiting_capabilities"
             /\ client' = [cl EXCEPT ![c].state = "connected_but_not_yet_shown"]
    BY <2>1, <2>2, <2>3, StateSetValue
  <2>4. CASE /\ client[c].state = "awaiting_capabilities"
             /\ client' = [cl EXCEPT ![c].state = "ungatherable"]
    BY <2>1, <2>2, <2>4, StateSetValue
  <2>5. CASE client' = cl
    BY <2>1, <2>5
  <2>   QED BY <2>1, <2>3, <2>4, <2>5 DEF CapabilitiesReply
<1>2. UNCHANGED <<netState, players>>  BY DEF CapabilitiesReply
<1>3. PlayersInv'  BY <1>2 DEF PlayersInv
<1>4. ClientsInv'
  BY <1>1, <1>2, MembersAreJoiners DEF ClientsInv, Setting, Types
<1>   QED BY <1>1, <1>2, <1>3, <1>4 DEF Handled, Types

LEMMA AcceptHandled ==
  ASSUME SessionInv, Setting, NEW c \in Joiners, NEW cl, Pumped(c, cl), UNCHANGED <<joiner, listed>>,
         NEW id \in Nat, id = joiner[c].id, id # 0, AcceptJoin(c, cl, id)
  PROVE  Handled(c, cl)
<1>   USE DEF SessionInv
<1>1. CASE cl[c].state # "awaiting_accept_join"
  <2>1. client' = cl /\ UNCHANGED <<netState, players>>  BY <1>1 DEF AcceptJoin
  <2>2. PlayersInv'  BY <2>1 DEF PlayersInv
  <2>3. ClientsInv'
    BY <2>1, MembersAreJoiners DEF Pumped, ClientsInv, Setting, Types
  <2>   QED BY <2>1, <2>2, <2>3 DEF Handled, Types, Pumped
<1>2. CASE cl[c].state = "awaiting_accept_join" /\ ~ cl[c].connected
  <2>1. client' = cl /\ netState' = "crashed" /\ UNCHANGED players  BY <1>2 DEF AcceptJoin
  <2>2. PlayersInv'  BY <2>1 DEF PlayersInv
  <2>3. ClientsInv'  BY <2>1 DEF ClientsInv, Setting
  <2>   QED BY <2>1, <2>2, <2>3 DEF Handled, Types, Pumped, NetStates
<1>3. CASE cl[c].state = "awaiting_accept_join" /\ cl[c].connected
  <2>   DEFINE told == Distribute(cl, players', "NEW_PLAYER")
  <2>1. /\ players' = Append(players, Player(c, id))
        /\ netState' = IF netState = "gathering"
                       THEN AfterDistribution(cl, players', netState) ELSE "aborted"
        /\ client' = [told EXCEPT ![c].state = "awaiting_map"]
    BY <1>3 DEF AcceptJoin
  <2>2. /\ Player(c, id) \in PlayerSet /\ Player(c, id).stream = c /\ Player(c, id).id = id
    BY DEF Player, PlayerSet, Joiners
  <2>3. players \in Seq(PlayerSet) /\ Len(players) \in Nat /\ Len(players) > 0
    BY DEF Types, PlayersInv
  <2>4. /\ players' \in Seq(PlayerSet) /\ Len(players') = Len(players) + 1
        /\ \A i \in 1 .. Len(players) : players'[i] = players[i]
        /\ players'[Len(players) + 1] = Player(c, id)
        /\ Members(players') = Members(players) \cup {c}
    BY <2>1, <2>2, <2>3, MembersOfAppended
  <2>5. c \notin Members(players) /\ c \notin listed
    BY <1>3 DEF ClientsInv, Setting, Pumped
  <2>6. Topology("NEW_PLAYER", players') \in ToJoinerSet
        /\ Topology("NEW_PLAYER", players') \in Harmless
    BY <2>4, MessageFacts, HarmlessFacts DEF Tags
  <2>7. /\ told \in [Joiners -> ClientSet]
        /\ \A d \in Joiners : /\ told[d].state = client[d].state
                               /\ ToSet(told[d].outgoing) \subseteq ToSet(cl[d].outgoing) \cup Harmless
    BY <2>6, EnqueueValue, EnqueueOfKind DEF Distribute, Pumped
  <2>   HIDE DEF told
  <2>8. /\ client' \in [Joiners -> ClientSet]
        /\ client'[c].state = "awaiting_map"
        /\ \A d \in Joiners : d # c => client'[d].state = client[d].state
        /\ \A d \in Joiners : ToSet(client'[d].outgoing) \subseteq ToSet(cl[d].outgoing) \cup Harmless
    <3>1. "awaiting_map" \in ClientStates  BY DEF ClientStates
    <3>   QED BY <2>1, <2>7, <3>1, StateSetValue
  <2>9. netState' = IF netState = "gathering" THEN "gathering" ELSE "aborted"
    <3>1. ASSUME netState = "gathering" PROVE \A d \in Members(players') : Known(cl, d)
      BY <3>1, <2>4, <1>3, MembersAreJoiners DEF Known, Pumped, ClientsInv, Gone
    <3>   QED BY <3>1, <2>1 DEF AfterDistribution
  <2>10. PlayersInv'
    <3>1. players'[1] = Player(0, 0)  BY <2>3, <2>4 DEF PlayersInv
    <3>2. ASSUME NEW i \in 2 .. Len(players')
          PROVE  /\ players'[i].stream \in Joiners
                 /\ players'[i].id = joiner'[players'[i].stream].id
                 /\ players'[i].id # 0
                 /\ \A k \in 2 .. Len(players') :
                      players'[k].stream = players'[i].stream => k = i
      <4>1. \A k \in 2 .. Len(players') :
              \/ k \in 2 .. Len(players) /\ players'[k] = players[k]
              \/ k = Len(players) + 1 /\ players'[k] = Player(c, id)
        BY <2>3, <2>4
      <4>2. \A k \in 2 .. Len(players) : players[k].stream # c
        BY <2>5 DEF Members
      <4>   QED BY <4>1, <4>2, <2>2, SMTT(30) DEF PlayersInv
    <3>   QED BY <3>1, <3>2, <2>3, <2>4 DEF PlayersInv
  <2>11. ClientsInv'
    BY <2>4, <2>5, <2>8, <2>9, MembersAreJoiners DEF ClientsInv, Setting, Types
  <2>   QED BY <2>4, <2>8, <2>9, <2>10, <2>11 DEF Handled, NetStates
<1>   QED BY <1>1, <1>2, <1>3

\* What Handle does with the message at the head of the channel.
LEMMA MessageHandled ==
  ASSUME SessionInv, Setting, NEW c \in Joiners, NEW cl, Pumped(c, cl), UNCHANGED <<joiner, listed>>,
         toGatherer[c] # <<>>, Handle(c, cl, Head(toGatherer[c]))
  PROVE  Handled(c, cl)
<1>   DEFINE m == Head(toGatherer[c])
<1>1. toGatherer[c] \in Seq(ToGathererSet)  BY DEF SessionInv, Types
<1>2. m \in ToGathererSet /\ m \in ToSet(toGatherer[c]) /\ m = toGatherer[c][1] /\ 1 \in 1 .. Len(toGatherer[c])
  BY <1>1, ToSetFacts
<1>   HIDE DEF m
<1>3. CASE m.type = "joinerInfo" /\ JoinerInfo(c, cl)
  <2>1. client[c].state \in Fresh
    BY <1>2, <1>3, MessageFacts DEF SessionInv, BeginsInv
  <2>   QED BY <1>3, <2>1, JoinerInfoHandled
<1>4. CASE m.type = "capabilities" /\ CapabilitiesReply(c, cl)
  BY <1>4, CapabilitiesHandled
<1>5. CASE m.type = "accept" /\ AcceptJoin(c, cl, m.id)
  <2>1. m.id \in Nat /\ m = Accept(m.id)  BY <1>2, <1>5, MessageFacts
  <2>2. m.id = joiner[c].id /\ m.id # 0
    BY <1>2, <2>1 DEF SessionInv, AcceptInv
  <2>   QED BY <1>5, <2>1, <2>2, AcceptHandled
<1>   QED BY <1>3, <1>4, <1>5 DEF Handle, m

\* pump and dispatchIncomingMessages
LEMMA PumpInv ==
  ASSUME SessionInv, Setting, NEW c \in Joiners, Pump(c), UNCHANGED <<joiner, listed, nextIdentifier>>,
         visit' \in 0 .. Showing
  PROVE  SessionInv'
<1>   DEFINE sent == [client EXCEPT ![c].outgoing = <<>>]
             lost == [sent EXCEPT ![c].connected = FALSE]
<1>1. /\ client \in [Joiners -> ClientSet] /\ toJoiner \in [Joiners -> Seq(ToJoinerSet)]
      /\ toGatherer \in [Joiners -> Seq(ToGathererSet)]
  BY DEF SessionInv, Types
<1>2. client[c] \in ClientSet /\ client[c].outgoing \in Seq(ToJoinerSet)
  BY <1>1 DEF ClientSet
<1>3. /\ [client[c] EXCEPT !.outgoing = <<>>] \in ClientSet
      /\ [client[c] EXCEPT !.outgoing = <<>>].state = client[c].state
      /\ [client[c] EXCEPT !.outgoing = <<>>].outgoing = <<>>
      /\ [[client[c] EXCEPT !.outgoing = <<>>] EXCEPT !.connected = FALSE] \in ClientSet
      /\ [[client[c] EXCEPT !.outgoing = <<>>] EXCEPT !.connected = FALSE].state = client[c].state
      /\ [[client[c] EXCEPT !.outgoing = <<>>] EXCEPT !.connected = FALSE].outgoing = <<>>
  <2>   DEFINE r == [client[c] EXCEPT !.outgoing = <<>>]
  <2>1. r \in ClientSet /\ r.state = client[c].state /\ r.outgoing = <<>>
    BY <1>2, EmptiedValue
  <2>   HIDE DEF r
  <2>2. /\ [r EXCEPT !.connected = FALSE] \in ClientSet
        /\ [r EXCEPT !.connected = FALSE].state = r.state
        /\ [r EXCEPT !.connected = FALSE].outgoing = r.outgoing
    BY <2>1, CutOffValue
  <2>   QED BY <2>1, <2>2 DEF r
<1>4. /\ sent \in [Joiners -> ClientSet] /\ lost \in [Joiners -> ClientSet]
      /\ sent[c].state = client[c].state /\ lost[c].state = client[c].state
      /\ sent[c].outgoing = <<>> /\ lost[c].outgoing = <<>>
      /\ \A d \in Joiners : d # c => sent[d] = client[d] /\ lost[d] = client[d]
  <2>1. /\ sent = [client EXCEPT ![c] = [client[c] EXCEPT !.outgoing = <<>>]]
    BY Zenon
  <2>   DEFINE r == [client[c] EXCEPT !.outgoing = <<>>]
  <2>2. sent[c] = r  BY <1>1, <2>1
  <2>3. lost = [sent EXCEPT ![c] = [sent[c] EXCEPT !.connected = FALSE]]  BY Zenon
  <2>   DEFINE q == [r EXCEPT !.connected = FALSE]
  <2>4. lost = [sent EXCEPT ![c] = q]  BY <2>2, <2>3
  <2>5. r \in ClientSet /\ q \in ClientSet /\ r.state = client[c].state /\ q.state = client[c].state
        /\ r.outgoing = <<>> /\ q.outgoing = <<>>
    BY <1>3
  <2>6. sent = [client EXCEPT ![c] = r]  BY <2>1
  <2>   HIDE DEF r, q, sent, lost
  <2>   QED BY <1>1, <2>4, <2>5, <2>6
<1>   HIDE DEF sent, lost
<1>5. ToSet(<<>>) = {}  BY DEF ToSet
<1>6. Pumped(c, sent) /\ Pumped(c, lost)
  BY <1>4, <1>5 DEF Pumped
\* The messages of all channels.
<1>7. /\ toJoiner' \in [Joiners -> Seq(ToJoinerSet)]
      /\ ToSet(toJoiner'[c]) \subseteq ToSet(toJoiner[c]) \cup ToSet(client[c].outgoing)
      /\ \A d \in Joiners : d # c => toJoiner'[d] = toJoiner[d]
  <2>1. /\ toJoiner[c] \o client[c].outgoing \in Seq(ToJoinerSet)
        /\ ToSet(toJoiner[c] \o client[c].outgoing) = ToSet(toJoiner[c]) \cup ToSet(client[c].outgoing)
    <3>1. toJoiner[c] \in Seq(ToJoinerSet) /\ Plain("hello") \in ToJoinerSet  BY <1>1, MessageFacts
    <3>   QED BY <3>1, <1>2, ToSetConcat
  <2>2. toJoiner' = [toJoiner EXCEPT ![c] = IF HasLeft(c) THEN <<>> ELSE @ \o client[c].outgoing]
    BY DEF Pump
  <2>   QED BY <2>1, <2>2, <1>1, <1>5
<1>8. ASSUME NEW cl \in {sent, lost}, client' \in [Joiners -> ClientSet],
             \A d \in Joiners : ToSet(client'[d].outgoing) \subseteq ToSet(cl[d].outgoing) \cup Harmless
      PROVE  \A d \in Joiners : OnWay(d)' \subseteq OnWay(d) \cup Harmless
  BY <1>4, <1>5, <1>7, <1>8 DEF OnWay
\* A message is taken from the channel and handled.
<1>9. ASSUME toGatherer[c] # <<>>, toGatherer' = [toGatherer EXCEPT ![c] = Tail(@)],
             NEW cl \in {sent, lost}, Handle(c, cl, Head(toGatherer[c]))
      PROVE  SessionInv'
  <2>1. Handled(c, cl)
    BY <1>6, <1>9, MessageHandled
  <2>2. /\ client' \in [Joiners -> ClientSet] /\ players' \in Seq(PlayerSet) /\ netState' \in NetStates
        /\ \A d \in Joiners : ToSet(client'[d].outgoing) \subseteq ToSet(cl[d].outgoing) \cup Harmless
        /\ \A d \in Joiners : d # c => client'[d].state = client[d].state
        /\ PlayersInv' /\ ClientsInv'
        /\ netState' = "gathering" => netState = "gathering"
        /\ netState' \in {"starting", "active"} => netState' = netState /\ players' = players
    BY <2>1 DEF Handled
  <2>3. /\ Tail(toGatherer[c]) \in Seq(ToGathererSet)
        /\ ToSet(Tail(toGatherer[c])) \subseteq ToSet(toGatherer[c])
    BY <1>1, <1>9, ToSetFacts
  <2>4. /\ toGatherer' \in [Joiners -> Seq(ToGathererSet)]
        /\ toGatherer'[c] = Tail(toGatherer[c])
        /\ \A d \in Joiners : d # c => toGatherer'[d] = toGatherer[d]
    BY <2>3, <1>1, <1>9
  <2>5. Types'
    BY <2>2, <2>4, <1>7 DEF SessionInv, Types
  <2>6. /\ IdsInv' /\ AcceptInv'
        /\ \A d \in Joiners : \A ps : Told(d, ps)' => Told(d, ps)
    BY <2>2, <2>3, <2>4, <1>8, QuietStep DEF SessionInv
  <2>7. StartInv'
    BY <2>2, <2>6, StartKept DEF SessionInv
  <2>8. BeginsInv'
    <3>1. ASSUME NEW i \in 1 .. Len(Tail(toGatherer[c]))
          PROVE  Tail(toGatherer[c])[i] # Plain("joinerInfo")
      <4>1. /\ i + 1 \in 1 .. Len(toGatherer[c]) /\ i + 1 # 1
            /\ Tail(toGatherer[c])[i] = toGatherer[c][i + 1]
        BY <1>1, <1>9
      <4>   QED BY <4>1 DEF SessionInv, BeginsInv
    <3>   QED BY <3>1, <2>2, <2>4, <1>9 DEF SessionInv, BeginsInv
  <2>   QED BY <2>2, <2>5, <2>6, <2>7, <2>8 DEF SessionInv
\* Nothing is handled.
<1>10. ASSUME UNCHANGED <<netState, players>>, NEW cl \in {sent, lost}, client' = cl,
              \/ toGatherer' = toGatherer
              \/ toGatherer' = [toGatherer EXCEPT ![c] = <<>>]
       PROVE  SessionInv'
  <2>1. /\ client' \in [Joiners -> ClientSet]
        /\ \A d \in Joiners : client'[d].state = client[d].state
    BY <1>4, <1>10
  <2>2. /\ toGatherer' \in [Joiners -> Seq(ToGathererSet)]
        /\ \A d \in Joiners : toGatherer'[d] = toGatherer[d] \/ toGatherer'[d] = <<>>
    <3>1. CASE toGatherer' = toGatherer  BY <3>1, <1>1
    <3>2. CASE toGatherer' = [toGatherer EXCEPT ![c] = <<>>]
      <4>1. <<>> \in Seq(ToGathererSet)  OBVIOUS
      <4>   QED BY <3>2, <4>1, <1>1
    <3>   QED BY <3>1, <3>2, <1>10
  <2>3. Types'
    BY <2>1, <2>2, <1>7, <1>10 DEF SessionInv, Types
  <2>4. \A d \in Joiners : OnWay(d)' \subseteq OnWay(d) \cup Harmless
    BY <2>1, <1>8, <1>10
  <2>5. /\ IdsInv' /\ AcceptInv'
        /\ \A d \in Joiners : \A ps : Told(d, ps)' => Told(d, ps)
    BY <2>2, <2>4, <1>5, QuietStep DEF SessionInv
  <2>6. StartInv'
    BY <2>5, <1>10, StartKept DEF SessionInv
  <2>7. BeginsInv'
    BY <2>1, <2>2 DEF SessionInv, BeginsInv
  <2>8. PlayersInv'
    BY <1>10 DEF SessionInv, PlayersInv
  <2>9. ClientsInv'
    BY <2>1, <1>10, MembersAreJoiners DEF SessionInv, ClientsInv, Setting, Types
  <2>   QED BY <2>3, <2>5, <2>6, <2>7, <2>8, <2>9 DEF SessionInv
<1>   QED BY <1>9, <1>10 DEF Pump, sent, lost
-----------------------------------------------------------------------------
(***************************************************************************)
(* The gatherer's other steps                                              *)
(***************************************************************************)

\* A set of numbers that is not empty has a least one.
LEMMA Least ==
  ASSUME NEW S, S \subseteq Nat, S # {}
  PROVE  \E j \in S : \A k \in S : j <= k
<1>1. \E j \in S : \A k \in S : ~ (<<k, j>> \in OpToRel(<, Nat))
  BY WFMin, NatLessThanWellFounded, Zenon
<1>2. PICK j \in S : \A k \in S : ~ (k < j)
  BY <1>1 DEF OpToRel
<1>   QED BY <1>2

LEMMA FirstFromType ==
  ASSUME NEW cl, NEW c \in 1 .. Showing
  PROVE  FirstFrom(cl, c) \in 0 .. Showing
<1>   DEFINE S == {d \in c .. Showing : d = Showing \/ Known(cl, d)}
<1>1. Showing \in Nat /\ c \in Nat /\ c <= Showing  BY SessionAssumption DEF Showing
<1>2. S \subseteq Nat /\ S # {}
  <2>1. Showing \in S  BY <1>1
  <2>   QED BY <2>1, <1>1
<1>3. PICK d \in S : \A k \in S : d <= k
  <2>   HIDE DEF S
  <2>   QED BY <1>2, Least
<1>4. \A e \in c .. d - 1 : ~ Known(cl, e)
  BY <1>1, <1>3
<1>5. FirstFrom(cl, c) \in c .. Showing
  BY <1>3, <1>4 DEF FirstFrom
<1>   QED BY <1>1, <1>5

\* At most one joiner is accepted.
LEMMA JoinerArrives ==
  ASSUME NewClients, CheckForNewJoiner
  PROVE  \/ client' = client
         \/ \E c \in Joiners, state \in NewStates :
              /\ client[c].state = "none"
              /\ client' = [client EXCEPT ![c] = [state |-> state, connected |-> TRUE,
                                                  outgoing |-> <<Plain("hello")>>]]
<1>   DEFINE arrived == {j \in Joiners : joiner[j].state = "awaitingHello" /\ client[j].state = "none"}
<1>1. CASE arrived = {}  BY <1>1 DEF CheckForNewJoiner
<1>2. CASE arrived # {}
  <2>1. arrived \subseteq Nat  BY SessionAssumption DEF Joiners
  <2>2. \E j \in arrived : \A k \in arrived : j <= k
    <3>   HIDE DEF arrived
    <3>   QED BY <1>2, <2>1, Least
  <2>   DEFINE c == CHOOSE j \in arrived : \A k \in arrived : j <= k
  <2>3. c \in arrived
    <3>   HIDE DEF arrived
    <3>   QED BY <2>2
  <2>4. PICK state \in Uninitialized :
          client' = [client EXCEPT ![c] = [state |-> state, connected |-> TRUE,
                                           outgoing |-> <<Plain("hello")>>]]
    BY <1>2, Zenon DEF CheckForNewJoiner
  <2>5. c \in Joiners /\ client[c].state = "none"  BY <2>3
  <2>   HIDE DEF c
  <2>   QED BY <2>4, <2>5 DEF NewClients
<1>   QED BY <1>1, <1>2

LEMMA CheckForNewJoinerInv ==
  ASSUME SessionInv, NewClients, CheckForNewJoiner PROVE SessionInv'
<1>   USE DEF SessionInv
<1>1. /\ netState = "gathering" /\ visit' = FirstFrom(client', 1)
      /\ UNCHANGED <<netState, players, nextIdentifier, listed, joiner, toJoiner, toGatherer>>
  BY DEF CheckForNewJoiner
<1>2. 1 \in 1 .. Showing  BY SessionAssumption DEF Showing
<1>3. visit' \in 0 .. Showing  BY <1>1, <1>2, FirstFromType
<1>4. \/ client' = client
      \/ \E c \in Joiners, state \in NewStates :
           /\ client[c].state = "none"
           /\ client' = [client EXCEPT ![c] = [state |-> state, connected |-> TRUE,
                                               outgoing |-> <<Plain("hello")>>]]
  BY JoinerArrives
<1>5. CASE client' = client
  <2>1. \A c \in Joiners : OnWay(c)' \subseteq OnWay(c) \cup Harmless  BY <1>1, <1>5 DEF OnWay
  <2>2. Types'  BY <1>1, <1>3, <1>5 DEF Types
  <2>3. IdsInv' /\ AcceptInv' /\ \A c \in Joiners : \A ps : Told(c, ps)' => Told(c, ps)
    BY <1>1, <2>1, QuietStep
  <2>   QED BY <1>1, <1>5, <2>2, <2>3, StartKept, BeginsKept DEF PlayersInv, ClientsInv, Setting
<1>6. ASSUME NEW c \in Joiners, NEW state \in NewStates, client[c].state = "none",
             client' = [client EXCEPT ![c] = [state |-> state, connected |-> TRUE,
                                              outgoing |-> <<Plain("hello")>>]]
      PROVE  SessionInv'
  <2>   DEFINE r == [state |-> state, connected |-> TRUE, outgoing |-> <<Plain("hello")>>]
  <2>1. /\ r \in ClientSet /\ r.state = state /\ ToSet(r.outgoing) \subseteq Harmless
    <3>1. Plain("hello") \in ToJoinerSet /\ Plain("hello") \in Harmless
      BY MessageFacts, HarmlessFacts
    <3>2. <<Plain("hello")>> \in Seq(ToJoinerSet) /\ ToSet(<<Plain("hello")>>) = {Plain("hello")}
      BY <3>1 DEF ToSet
    <3>3. state \in ClientStates  BY DEF NewStates, ClientStates
    <3>   QED BY <3>1, <3>2, <3>3 DEF ClientSet
  <2>   HIDE DEF r
  <2>2. client' = [client EXCEPT ![c] = r]  BY <1>6 DEF r
  <2>3. /\ client' \in [Joiners -> ClientSet] /\ client'[c] = r
        /\ \A d \in Joiners : d # c => client'[d] = client[d]
    BY <2>1, <2>2 DEF Types
  <2>4. \A d \in Joiners : OnWay(d)' \subseteq OnWay(d) \cup Harmless
    BY <1>1, <2>1, <2>3 DEF OnWay
  <2>5. Types'  BY <1>1, <1>3, <2>3 DEF Types
  <2>6. IdsInv' /\ AcceptInv' /\ \A d \in Joiners : \A ps : Told(d, ps)' => Told(d, ps)
    BY <1>1, <2>4, QuietStep
  <2>7. StartInv'  BY <1>1, <2>6, StartKept
  <2>8. PlayersInv'  BY <1>1 DEF PlayersInv
  <2>9. BeginsInv'  BY <1>1, <2>1, <2>3, BeginsKept DEF Fresh
  <2>10. ClientsInv'
    <3>1. c \notin Members(players) /\ c \notin listed
      BY <1>1, <1>6 DEF ClientsInv, Setting
    <3>   QED BY <1>1, <2>3, <3>1, MembersAreJoiners DEF ClientsInv, Setting, Types
  <2>   QED BY <2>5, <2>6, <2>7, <2>8, <2>9, <2>10
<1>   QED BY <1>4, <1>5, <1>6

-----------------------------------------------------------------------------
\* Client::drop takes one player out of the topology.
LEMMA RemovedValue ==
  ASSUME SessionInv, NEW c \in Joiners, c \in Members(players)
  PROVE  LET ps == Removed(players, c)
         IN  /\ ps \in Seq(PlayerSet)
             /\ Len(ps) > 0 /\ ps[1] = Player(0, 0)
             /\ \A k \in 2 .. Len(ps) :
                  /\ ps[k].stream \in Joiners
                  /\ ps[k].id = joiner[ps[k].stream].id
                  /\ ps[k].id # 0
                  /\ \A l \in 2 .. Len(ps) : ps[l].stream = ps[k].stream => l = k
             /\ Members(ps) = Members(players) \ {c}
<1>   DEFINE i == PlaceOf(players, c)
             ps == RemoveAt(players, i)
<1>1. players \in Seq(PlayerSet) /\ Len(players) \in Nat /\ PlayersInv
  BY DEF SessionInv, Types
<1>2. i \in 2 .. Len(players) /\ players[i].stream = c
  <2>1. PICK n \in 2 .. Len(players) : players[n].stream = c  BY DEF Members
  <2>2. \A k \in 2 .. n - 1 : players[k].stream # c
    BY <1>1, <2>1 DEF PlayersInv
  <2>3. \E n0 \in 2 .. Len(players) : /\ players[n0].stream = c
                                      /\ \A k \in 2 .. n0 - 1 : players[k].stream # c
    BY <2>1, <2>2
  <2>   QED BY <2>3 DEF PlaceOf
<1>   HIDE DEF i
<1>3. i \in 1 .. Len(players)  BY <1>2
<1>4. /\ ps \in Seq(PlayerSet) /\ Len(ps) = Len(players) - 1
      /\ \A k \in 1 .. Len(players) - 1 : ps[k] = IF k < i THEN players[k] ELSE players[k + 1]
  BY <1>1, <1>3, RemoveAtValue
<1>   HIDE DEF ps
<1>   DEFINE old(k) == IF k < i THEN k ELSE k + 1
<1>5. \A k \in 2 .. Len(ps) : /\ old(k) \in 2 .. Len(players) /\ old(k) # i
                              /\ ps[k] = players[old(k)]
  BY <1>1, <1>2, <1>4
<1>6. \A k, l \in 2 .. Len(ps) : old(k) = old(l) => k = l
  BY <1>2, <1>4
<1>7. \A n \in 2 .. Len(players) : n # i => \E k \in 2 .. Len(ps) : old(k) = n
  <2>   TAKE n \in 2 .. Len(players)
  <2>   HAVE n # i
  <2>1. CASE n < i
    <3>1. n \in 2 .. Len(ps) /\ old(n) = n  BY <2>1, <1>1, <1>2, <1>4
    <3>   QED BY <3>1
  <2>2. CASE n > i
    <3>1. n - 1 \in 2 .. Len(ps) /\ old(n - 1) = n  BY <2>2, <1>1, <1>2, <1>4
    <3>   QED BY <3>1
  <2>   QED BY <2>1, <2>2, <1>2
<1>8. Len(ps) > 0 /\ ps[1] = Player(0, 0)
  <2>1. Len(players) >= 2 /\ 1 \in 1 .. Len(players) - 1 /\ 1 < i  BY <1>1, <1>2
  <2>   QED BY <2>1, <1>1, <1>4 DEF PlayersInv
<1>   HIDE DEF old
<1>9. ASSUME NEW k \in 2 .. Len(ps)
      PROVE  /\ ps[k].stream \in Joiners
             /\ ps[k].id = joiner[ps[k].stream].id
             /\ ps[k].id # 0
             /\ ps[k].stream # c
             /\ \A l \in 2 .. Len(ps) : ps[l].stream = ps[k].stream => l = k
  BY <1>1, <1>2, <1>5, <1>6, SMTT(30) DEF PlayersInv
<1>10. Members(ps) = Members(players) \ {c}
  <2>1. ASSUME NEW d \in Members(ps) PROVE d \in Members(players) /\ d # c
    BY <1>5, <1>9, <2>1 DEF Members
  <2>2. ASSUME NEW d \in Members(players), d # c PROVE d \in Members(ps)
    <3>1. PICK n \in 2 .. Len(players) : players[n].stream = d  BY DEF Members
    <3>2. n # i  BY <3>1, <2>2, <1>2
    <3>3. PICK k \in 2 .. Len(ps) : old(k) = n  BY <3>1, <3>2, <1>7
    <3>4. ps[k].stream = d  BY <3>1, <3>3, <1>5
    <3>   QED BY <3>4 DEF Members
  <2>   QED BY <2>1, <2>2
<1>11. Removed(players, c) = ps
  BY DEF Removed, ps, i
<1>   QED BY <1>4, <1>8, <1>9, <1>10, <1>11

\* A client that was lost, or whose uninitialized state says so, is erased.
LEMMA DropAndEraseInv ==
  ASSUME SessionInv, netState = "gathering", NEW c \in Joiners,
         NEW place \in 0 .. Showing, NEW loopEnd \in 0 .. Showing, DropAndErase(c, place, loopEnd)
  PROVE  SessionInv'
<1>   USE DEF SessionInv
<1>   DEFINE told == IF players' # players
                     THEN Distribute(client, players', "DROPPED_PLAYER") ELSE client
<1>1. /\ listed' = Dropped(c)
      /\ players' = IF client[c].state = "awaiting_map" THEN Removed(players, c) ELSE players
      /\ client' = Deleted(told, {c})
      /\ \/ netState' = AfterDistribution(client', players', netState) /\ visit' \in {place, loopEnd}
         \/ netState' = "crashed" /\ visit' = 0
      /\ UNCHANGED <<nextIdentifier, joiner, toJoiner, toGatherer>>
  BY DEF DropAndErase
<1>2. /\ players' \in Seq(PlayerSet) /\ PlayersInv'
      /\ Members(players') = Members(players) \ {c}
  <2>1. CASE c \in Members(players)
    <3>1. players' = Removed(players, c)  BY <1>1, <2>1 DEF ClientsInv
    <3>   QED BY <1>1, <2>1, <3>1, RemovedValue DEF PlayersInv
  <2>2. CASE c \notin Members(players)
    <3>1. players' = players  BY <1>1, <2>2 DEF Removed
    <3>   QED BY <1>1, <2>2, <3>1 DEF PlayersInv, Types
  <2>   QED BY <2>1, <2>2
<1>3. /\ told \in [Joiners -> ClientSet]
      /\ \A d \in Joiners : /\ told[d].state = client[d].state
                            /\ ToSet(told[d].outgoing) \subseteq ToSet(client[d].outgoing) \cup Harmless
  <2>1. Topology("DROPPED_PLAYER", players') \in ToJoinerSet
        /\ Topology("DROPPED_PLAYER", players') \in Harmless
    BY <1>2, MessageFacts, HarmlessFacts DEF Tags
  <2>2. client \in [Joiners -> ClientSet]  BY DEF Types
  <2>3. CASE players' # players
    BY <2>1, <2>2, <2>3, EnqueueValue, EnqueueOfKind DEF Distribute
  <2>   QED BY <2>2, <2>3
<1>   HIDE DEF told
<1>4. /\ client' \in [Joiners -> ClientSet]
      /\ client'[c].state = Gone
      /\ \A d \in Joiners : d # c => client'[d].state = client[d].state
      /\ \A d \in Joiners : ToSet(client'[d].outgoing) \subseteq ToSet(client[d].outgoing) \cup Harmless
  <2>1. /\ client' \in [Joiners -> ClientSet]
        /\ client'[c].state = Gone /\ ToSet(client'[c].outgoing) = {}
        /\ \A d \in Joiners : d # c => client'[d] = told[d]
    BY <1>1, <1>3, ErasedValue
  <2>   QED BY <2>1, <1>3
<1>5. \A d \in Members(players') : Known(client', d)
  <2>1. \A d \in Members(players') : d \in Joiners /\ d # c /\ client[d].state = "awaiting_map"
    BY <1>2, MembersAreJoiners DEF ClientsInv
  <2>   QED BY <2>1, <1>4 DEF Known, Gone
<1>6. netState' \in {"gathering", "crashed"} /\ visit' \in 0 .. Showing
  <2>1. 0 \in 0 .. Showing  BY SessionAssumption DEF Showing
  <2>   QED BY <1>1, <1>5, <2>1 DEF AfterDistribution
<1>7. listed' \subseteq listed /\ c \notin listed'
  BY <1>1 DEF Dropped, ClientsInv, Setting
<1>8. Types'
  BY <1>1, <1>2, <1>4, <1>6, <1>7 DEF Types, NetStates
<1>9. \A d \in Joiners : OnWay(d)' \subseteq OnWay(d) \cup Harmless
  BY <1>1, <1>4 DEF OnWay
<1>10. IdsInv' /\ AcceptInv' /\ \A d \in Joiners : \A ps : Told(d, ps)' => Told(d, ps)
  BY <1>1, <1>9, QuietStep
<1>11. StartInv'  BY <1>6, <1>10, StartKept
<1>12. BeginsInv'  BY <1>1, <1>4, BeginsKept DEF Fresh
<1>13. ClientsInv'
  <2>1. \A d \in Members(players') : d \in Joiners /\ d # c /\ client[d].state = "awaiting_map"
    BY <1>2, MembersAreJoiners DEF ClientsInv
  <2>2. \A d \in listed' : d \in Joiners /\ d # c /\ client[d].state = "connected"
    BY <1>7 DEF ClientsInv, Setting, Types
  <2>   QED BY <2>1, <2>2, <1>4, <1>6 DEF ClientsInv
<1>   QED BY <1>2, <1>8, <1>10, <1>11, <1>12, <1>13

\* NetCheckForNewJoiner and the pump in the game take what a channel has.
LEMMA VisitConnectedInv ==
  ASSUME SessionInv, NEW c \in Joiners, VisitConnected(c) PROVE SessionInv'
<1>1. /\ netState = "gathering" /\ visit = c /\ Pump(c)
      /\ visit' = FirstFrom(client', c + 1)
      /\ UNCHANGED <<nextIdentifier, listed, joiner>>
  BY DEF VisitConnected
<1>2. c + 1 \in 1 .. Showing  BY SessionAssumption DEF Joiners, Showing
<1>3. visit' \in 0 .. Showing  BY <1>1, <1>2, FirstFromType
<1>   QED BY <1>1, <1>3, PumpInv DEF Setting

LEMMA ProcessMessagesInGameInv ==
  ASSUME SessionInv, NEW c \in Joiners, ProcessMessagesInGame(c) PROVE SessionInv'
<1>1. netState = "active" /\ Pump(c) /\ UNCHANGED <<nextIdentifier, listed, visit, joiner>>
  BY DEF ProcessMessagesInGame
<1>2. visit' \in 0 .. Showing  BY <1>1 DEF SessionInv, Types
<1>   QED BY <1>1, <1>2, PumpInv DEF Setting

LEMMA VisitLostInv ==
  ASSUME SessionInv, NEW c \in Joiners, VisitLost(c) PROVE SessionInv'
<1>1. c + 1 \in 1 .. Showing /\ Showing \in 0 .. Showing
  BY SessionAssumption DEF Joiners, Showing
<1>2. FirstFrom(client, c + 1) \in 0 .. Showing  BY <1>1, FirstFromType
<1>   QED BY <1>1, <1>2, DropAndEraseInv DEF VisitLost

\* A client that is shown is listed.
LEMMA ShownInv ==
  ASSUME SessionInv, netState = "gathering", NEW c \in Joiners,
         client[c].state = "connected_but_not_yet_shown",
         client' = [client EXCEPT ![c].state = "connected"], listed' = listed \cup {c}, visit' = 0,
         UNCHANGED <<netState, players, nextIdentifier, joiner, toJoiner, toGatherer>>
  PROVE  SessionInv'
<1>   USE DEF SessionInv
<1>1. client \in [Joiners -> ClientSet] /\ "connected" \in ClientStates  BY DEF Types, ClientStates
<1>2. /\ client' \in [Joiners -> ClientSet]
      /\ client'[c].state = "connected"
      /\ \A d \in Joiners : d # c => client'[d] = client[d]
      /\ \A d \in Joiners : client'[d].outgoing = client[d].outgoing
  BY <1>1, StateSetValue
<1>3. Types'
  <2>1. 0 \in 0 .. Showing  BY SessionAssumption DEF Showing
  <2>   QED BY <2>1, <1>2 DEF Types
<1>4. \A d \in Joiners : OnWay(d)' \subseteq OnWay(d) \cup Harmless  BY <1>2 DEF OnWay
<1>5. IdsInv' /\ AcceptInv' /\ \A d \in Joiners : \A ps : Told(d, ps)' => Told(d, ps)
  BY <1>4, QuietStep
<1>6. StartInv'  BY <1>5, StartKept
<1>7. PlayersInv'  BY DEF PlayersInv
<1>8. BeginsInv'  BY <1>2, BeginsKept DEF Fresh, NewStates, Gone
<1>9. c \notin Members(players)  BY DEF ClientsInv
<1>10. ClientsInv'
  BY <1>2, <1>9, MembersAreJoiners DEF ClientsInv, Setting, Types
<1>   QED BY <1>3, <1>5, <1>6, <1>7, <1>8, <1>10

LEMMA ShowInv ==
  ASSUME SessionInv, Show PROVE SessionInv'
<1>   DEFINE found == {d \in Joiners : client[d].state \in {"connected_but_not_yet_shown", "disconnect"}}
             c == CHOOSE d \in found : \A e \in found : d <= e
<1>1. netState = "gathering"  BY DEF Show
<1>2. CASE found = {}
  <2>1. visit' = 0 /\ UNCHANGED <<netState, players, nextIdentifier, client, listed>>
        /\ UNCHANGED <<joiner, toJoiner, toGatherer>>
    BY <1>2 DEF Show
  <2>2. Types'
    <3>1. 0 \in 0 .. Showing  BY SessionAssumption DEF Showing
    <3>   QED BY <2>1, <3>1 DEF SessionInv, Types
  <2>3. \A d \in Joiners : OnWay(d)' \subseteq OnWay(d) \cup Harmless  BY <2>1 DEF OnWay
  <2>4. IdsInv' /\ AcceptInv' /\ \A d \in Joiners : \A ps : Told(d, ps)' => Told(d, ps)
    BY <2>1, <2>3, QuietStep DEF SessionInv
  <2>   QED BY <2>1, <2>2, <2>4, StartKept, BeginsKept DEF SessionInv, PlayersInv, ClientsInv, Setting
<1>3. CASE found # {}
  <2>1. found \subseteq Nat  BY SessionAssumption DEF Joiners
  <2>2. \E d \in found : \A e \in found : d <= e
    <3>   HIDE DEF found
    <3>   QED BY <1>3, <2>1, Least
  <2>3. c \in found
    <3>   HIDE DEF found
    <3>   QED BY <2>2
  <2>4. c \in Joiners  BY <2>3
  <2>5. \/ /\ client[c].state = "connected_but_not_yet_shown"
           /\ client' = [client EXCEPT ![c].state = "connected"]
           /\ listed' = listed \cup {c}
           /\ visit' = 0
           /\ UNCHANGED <<netState, players, nextIdentifier>>
           /\ UNCHANGED <<joiner, toJoiner, toGatherer>>
        \/ DropAndErase(c, Showing, 0)
    BY <1>3, Zenon DEF Show
  <2>6. 0 \in 0 .. Showing /\ Showing \in 0 .. Showing  BY SessionAssumption DEF Showing
  <2>   HIDE DEF c
  <2>   QED BY <1>1, <2>4, <2>5, <2>6, ShownInv, DropAndEraseInv
<1>   QED BY <1>2, <1>3

-----------------------------------------------------------------------------
(***************************************************************************)
(* The gatherer's user                                                     *)
(***************************************************************************)
LEMMA GatherPlayerInv ==
  ASSUME SessionInv, NEW c \in Joiners, GatherPlayer(c) PROVE SessionInv'
<1>   USE DEF SessionInv
<1>   DEFINE message == Join(nextIdentifier)
             asked == Enqueue(client, {c}, message)
<1>1. /\ netState = "gathering" /\ c \in listed
      /\ nextIdentifier' = nextIdentifier + 1 /\ listed' = listed \ {c}
      /\ UNCHANGED <<players, visit, joiner, toJoiner, toGatherer>>
  BY DEF GatherPlayer
<1>2. client[c].state = "connected" /\ Known(client, c)
  BY <1>1 DEF ClientsInv, Setting, Known, Gone
<1>3. /\ client' = [asked EXCEPT ![c].state = "awaiting_accept_join"] /\ UNCHANGED netState
  BY <1>2, Zenon DEF GatherPlayer, Join
<1>4. message \in ToJoinerSet /\ client \in [Joiners -> ClientSet]
      /\ "awaiting_accept_join" \in ClientStates /\ nextIdentifier \in Nat \ {0}
  BY MessageFacts DEF Types, ClientStates
<1>   HIDE DEF message
<1>5. /\ asked \in [Joiners -> ClientSet]
      /\ \A d \in Joiners :
           /\ asked[d].state = client[d].state
           /\ ToSet(asked[d].outgoing) \subseteq ToSet(client[d].outgoing) \cup {message}
           /\ d # c => asked[d] = client[d]
  BY <1>4, EnqueueValue
<1>   HIDE DEF asked
<1>6. /\ client' \in [Joiners -> ClientSet]
      /\ client'[c].state = "awaiting_accept_join"
      /\ \A d \in Joiners : d # c => client'[d] = client[d]
      /\ ToSet(client'[c].outgoing) \subseteq ToSet(client[c].outgoing) \cup {message}
  <2>1. /\ client' \in [Joiners -> ClientSet]
        /\ client'[c].state = "awaiting_accept_join"
        /\ \A d \in Joiners : d # c => client'[d] = asked[d]
        /\ client'[c].outgoing = asked[c].outgoing
    BY <1>3, <1>4, <1>5, StateSetValue
  <2>2. ToSet(asked[c].outgoing) \subseteq ToSet(client[c].outgoing) \cup {message}
    BY <1>5
  <2>3. \A d \in Joiners : d # c => asked[d] = client[d]  BY <1>5
  <2>   QED BY <2>1, <2>2, <2>3
<1>7. Types'
  BY <1>1, <1>3, <1>4, <1>6 DEF Types
<1>8. \A d \in Joiners : \A m : m \in OnWay(d)' => m \in OnWay(d) \/ (d = c /\ m = Join(nextIdentifier))
  BY <1>1, <1>6 DEF OnWay, message
<1>9. ASSUME NEW d \in Joiners, NEW id \in Nat, Given(d, id)'
      PROVE  Given(d, id) \/ (d = c /\ id = nextIdentifier)
  <2>1. \A i, k : Join(i) = Join(k) => i = k  BY MessageFacts
  <2>   QED BY <2>1, <1>1, <1>8, <1>9 DEF Given
<1>10. IdsInv'
  <2>1. ASSUME NEW d \in Joiners, NEW id \in Nat \ {0}, Given(d, id)',
               NEW e \in Joiners, Given(e, id)'
        PROVE  id < nextIdentifier' /\ e = d
    <3>1. /\ Given(d, id) \/ (d = c /\ id = nextIdentifier)
          /\ Given(e, id) \/ (e = c /\ id = nextIdentifier)
      BY <2>1, <1>9
    <3>2. Given(d, id) \/ Given(e, id) => id < nextIdentifier  BY DEF IdsInv
    <3>3. Given(d, id) /\ Given(e, id) => e = d  BY DEF IdsInv
    <3>   QED BY <3>1, <3>2, <3>3, <1>1, <1>4
  <2>   QED BY <2>1 DEF IdsInv
<1>11. AcceptInv'
  <2>1. Join(0) # Join(nextIdentifier)  BY <1>4, MessageFacts
  <2>   QED BY <2>1, <1>1, <1>8 DEF AcceptInv
<1>12. \A d \in Joiners : \A ps : Told(d, ps)' => Told(d, ps)
  <2>1. \A ps : Topology("START_GAME", ps) # Join(nextIdentifier)  BY MessageFacts
  <2>   QED BY <2>1, <1>1, <1>8 DEF Told
<1>13. StartInv'  BY <1>1, <1>3, <1>12, StartKept
<1>14. PlayersInv'  BY <1>1 DEF PlayersInv
<1>15. BeginsInv'  BY <1>1, <1>2, <1>6, BeginsKept DEF Fresh, NewStates, Gone
<1>16. ClientsInv'
  <2>1. c \notin Members(players)  BY <1>1, <1>2 DEF ClientsInv
  <2>   QED BY <1>1, <1>3, <1>6, <2>1, MembersAreJoiners DEF ClientsInv, Setting, Types
<1>   QED BY <1>7, <1>10, <1>11, <1>13, <1>14, <1>15, <1>16

LEMMA CancelGatherInv ==
  ASSUME SessionInv, CancelGather PROVE SessionInv'
<1>   USE DEF SessionInv
<1>   DEFINE told == Distribute(client, players, "CANCEL_GAME")
             known == {c \in Joiners : Known(client, c)}
<1>1. /\ netState' = "cancelled" /\ client' = Deleted(told, known)
      /\ UNCHANGED <<players, nextIdentifier, listed, visit, joiner, toJoiner, toGatherer>>
  BY DEF CancelGather
<1>2. /\ Topology("CANCEL_GAME", players) \in ToJoinerSet
      /\ Topology("CANCEL_GAME", players) \in Harmless
      /\ client \in [Joiners -> ClientSet]
  BY MessageFacts, HarmlessFacts DEF Types, Tags
<1>3. /\ told \in [Joiners -> ClientSet]
      /\ \A d \in Joiners : /\ told[d].state = client[d].state
                            /\ ToSet(told[d].outgoing) \subseteq ToSet(client[d].outgoing) \cup Harmless
  BY <1>2, EnqueueValue, EnqueueOfKind DEF Distribute
<1>   HIDE DEF told, known
<1>4. /\ client' \in [Joiners -> ClientSet]
      /\ \A d \in Joiners : client'[d].state \in {client[d].state, Gone}
      /\ \A d \in Joiners : ToSet(client'[d].outgoing) \subseteq ToSet(client[d].outgoing) \cup Harmless
  BY <1>1, <1>3, GoneValue DEF Deleted
<1>5. Types'  BY <1>1, <1>4 DEF Types, NetStates
<1>6. \A d \in Joiners : OnWay(d)' \subseteq OnWay(d) \cup Harmless  BY <1>1, <1>4 DEF OnWay
<1>7. IdsInv' /\ AcceptInv' /\ \A d \in Joiners : \A ps : Told(d, ps)' => Told(d, ps)
  BY <1>1, <1>6, QuietStep
<1>8. StartInv'  BY <1>1, <1>7, StartKept
<1>9. PlayersInv'  BY <1>1 DEF PlayersInv
<1>10. BeginsInv'  BY <1>1, <1>4, BeginsKept DEF Fresh
<1>11. ClientsInv'  BY <1>1 DEF ClientsInv, Setting
<1>   QED BY <1>5, <1>7, <1>8, <1>9, <1>10, <1>11

\* However the players are sorted, they are the gatherer and joiners, each once.
LEMMA SortedValue ==
  ASSUME SessionInv, NEW ps \in Sorted(players), Len(players) > 1
  PROVE  /\ ps \in Seq(PlayerSet)
         /\ Len(ps) > 0 /\ ps[1] = Player(0, 0)
         /\ \A k \in 2 .. Len(ps) :
              /\ ps[k].stream \in Joiners
              /\ ps[k].id = joiner[ps[k].stream].id
              /\ ps[k].id # 0
              /\ \A l \in 2 .. Len(ps) : ps[l].stream = ps[k].stream => l = k
         /\ Members(ps) \subseteq Members(players)
<1>   DEFINE others == ToSet(Tail(players))
             n == Cardinality(others)
<1>1. players \in Seq(PlayerSet) /\ Len(players) \in Nat /\ PlayersInv
  BY DEF SessionInv, Types
<1>2. /\ Tail(players) \in Seq(PlayerSet) /\ Len(Tail(players)) = Len(players) - 1
      /\ \A i \in 1 .. Len(players) - 1 : Tail(players)[i] = players[i + 1]
      /\ Head(players) = players[1]
  BY <1>1
<1>3. \A p \in others : p \in PlayerSet /\ \E i \in 2 .. Len(players) : players[i] = p
  <2>1. ASSUME NEW p \in others PROVE p \in PlayerSet /\ \E i \in 2 .. Len(players) : players[i] = p
    <3>1. PICK i \in 1 .. Len(players) - 1 : p = Tail(players)[i]
      BY <1>2 DEF ToSet
    <3>2. i + 1 \in 2 .. Len(players) /\ players[i + 1] = p  BY <3>1, <1>1, <1>2
    <3>3. p \in PlayerSet  BY <3>2, <1>1
    <3>   QED BY <3>2, <3>3
  <2>   QED BY <2>1
<1>4. n \in Nat
  <2>1. IsFiniteSet(others)
    <3>   DEFINE D == 1 .. Len(Tail(players))
                 f == [i \in D |-> Tail(players)[i]]
    <3>1. IsFiniteSet(D)  BY <1>1, <1>2, FS_Interval
    <3>2. f \in Surjection(D, others)
      BY <1>2 DEF Surjection, ToSet
    <3>   QED BY <3>1, <3>2, FS_Surjection
  <2>   QED BY <2>1, FS_CardinalityType
<1>   HIDE DEF others, n
<1>5. PICK f \in [1 .. n -> others] : /\ \A i, j \in 1 .. n : i # j => f[i] # f[j]
                                      /\ ps = <<Head(players)>> \o f
  <2>1. PICK f \in SetToSeqs(others) : ps = <<Head(players)>> \o f
    BY DEF Sorted, others
  <2>   QED BY <2>1 DEF SetToSeqs, n
<1>6. f \in Seq(PlayerSet) /\ Len(f) = n
  BY <1>3, <1>4, <1>5
<1>7. /\ ps \in Seq(PlayerSet) /\ Len(ps) = n + 1 /\ ps[1] = players[1]
      /\ \A k \in 2 .. n + 1 : ps[k] = f[k - 1]
  <2>   DEFINE s == <<Head(players)>>
  <2>1. s \in Seq(PlayerSet) /\ Len(s) = 1 /\ s[1] = players[1]
    BY <1>1, <1>2
  <2>   HIDE DEF s
  <2>2. /\ s \o f \in Seq(PlayerSet) /\ Len(s \o f) = Len(s) + Len(f)
        /\ \A i \in 1 .. Len(s) : (s \o f)[i] = s[i]
        /\ \A i \in Len(s) + 1 .. Len(s) + Len(f) : (s \o f)[i] = f[i - Len(s)]
    BY <1>6, <2>1, ConcatValue, ZenonT(40)
  <2>3. ps = s \o f  BY <1>5 DEF s
  <2>   QED BY <2>1, <2>2, <2>3, <1>4, <1>6
<1>8. ASSUME NEW k \in 2 .. n + 1
      PROVE  k - 1 \in 1 .. n /\ \E i \in 2 .. Len(players) : ps[k] = players[i]
  <2>1. k - 1 \in 1 .. n  BY <1>4
  <2>2. f[k - 1] \in others  BY <1>5, <2>1
  <2>   QED BY <2>1, <2>2, <1>3, <1>7
<1>9. ASSUME NEW k \in 2 .. n + 1, NEW l \in 2 .. n + 1, ps[l].stream = ps[k].stream
      PROVE  l = k
  <2>1. PICK i \in 2 .. Len(players) : ps[k] = players[i]  BY <1>8
  <2>2. PICK j \in 2 .. Len(players) : ps[l] = players[j]  BY <1>8
  <2>3. i = j  BY <1>1, <1>9, <2>1, <2>2 DEF PlayersInv
  <2>4. f[k - 1] = f[l - 1]  BY <1>7, <2>1, <2>2, <2>3
  <2>5. k - 1 = l - 1  BY <2>4, <1>5, <1>8
  <2>   QED BY <2>5, <1>4
<1>10. ASSUME NEW k \in 2 .. n + 1
       PROVE  /\ ps[k].stream \in Joiners
              /\ ps[k].id = joiner[ps[k].stream].id
              /\ ps[k].id # 0
              /\ ps[k].stream \in Members(players)
  BY <1>1, <1>8 DEF PlayersInv, Members
<1>11. Members(ps) \subseteq Members(players)
  BY <1>7, <1>10 DEF Members
<1>12. Len(ps) > 0 /\ ps[1] = Player(0, 0)
  BY <1>1, <1>4, <1>7 DEF PlayersInv
<1>   QED BY <1>7, <1>9, <1>10, <1>11, <1>12

\* What gives no identifier.
LEMMA IdsKept ==
  ASSUME IdsInv, AcceptInv, UNCHANGED <<joiner, nextIdentifier, toGatherer>>,
         \A c \in Joiners : \A id : Join(id) \in OnWay(c)' => Join(id) \in OnWay(c)
  PROVE  IdsInv' /\ AcceptInv'
BY DEF IdsInv, AcceptInv, Given

LEMMA StartGameInv ==
  ASSUME SessionInv, StartGame PROVE SessionInv'
<1>   USE DEF SessionInv
<1>   DEFINE cl == Deleted(client, listed)
             start == Topology("START_GAME", players')
             told == Distribute(cl, players', "START_GAME")
<1>1. /\ netState = "gathering" /\ Len(players) > 1 /\ players' \in Sorted(players)
      /\ client' = told /\ netState' = AfterDistribution(cl, players', "starting")
      /\ listed' = {}
      /\ UNCHANGED <<nextIdentifier, visit, joiner, toJoiner, toGatherer>>
  BY DEF StartGame
<1>2. /\ players' \in Seq(PlayerSet) /\ PlayersInv'
      /\ Members(players') \subseteq Members(players)
  BY <1>1, SortedValue DEF PlayersInv
<1>3. start \in ToJoinerSet /\ client \in [Joiners -> ClientSet]
  BY <1>2, MessageFacts DEF Types, Tags
<1>4. /\ cl \in [Joiners -> ClientSet]
      /\ \A d \in Joiners :
           /\ cl[d].state \in {client[d].state, Gone}
           /\ d \notin listed => cl[d] = client[d]
           /\ ToSet(cl[d].outgoing) \subseteq ToSet(client[d].outgoing)
  BY <1>3, GoneValue DEF Deleted
<1>   HIDE DEF cl, start
<1>5. /\ told \in [Joiners -> ClientSet]
      /\ \A d \in Joiners :
           /\ told[d].state = cl[d].state
           /\ ToSet(told[d].outgoing) \subseteq ToSet(cl[d].outgoing) \cup {start}
           /\ d \notin Members(players') => told[d] = cl[d]
  <2>1. cl \in [Joiners -> ClientSet]  BY <1>4
  <2>2. Topology("START_GAME", players') \in ToJoinerSet  BY <1>3 DEF start
  <2>3. told \in [Joiners -> ClientSet]
    BY <2>1, <2>2, EnqueueValue DEF Distribute
  <2>4. \A d \in Joiners : told[d].state = cl[d].state
    BY <2>1, <2>2, EnqueueValue DEF Distribute
  <2>5. \A d \in Joiners : ToSet(told[d].outgoing)
                  \subseteq ToSet(cl[d].outgoing) \cup {Topology("START_GAME", players')}
    BY <2>1, <2>2, EnqueueValue DEF Distribute
  <2>6. \A d \in Joiners : d \notin Members(players') => told[d] = cl[d]
    BY DEF Distribute, Enqueue
  <2>   HIDE DEF told
  <2>   QED BY <2>3, <2>4, <2>5, <2>6 DEF start
<1>   HIDE DEF told
<1>6. \A d \in Members(players') : d \in Joiners /\ cl[d] = client[d] /\ client[d].state = "awaiting_map"
  <2>1. \A d \in Members(players) : d \in Joiners /\ client[d].state = "awaiting_map" /\ d \notin listed
    BY <1>1, MembersAreJoiners DEF ClientsInv, Setting
  <2>   QED BY <1>2, <1>4, <2>1
<1>7. netState' = "starting"
  BY <1>1, <1>6 DEF AfterDistribution, Known, Gone
<1>8. Types'
  BY <1>1, <1>2, <1>5, <1>7 DEF Types, NetStates
<1>9. /\ \A d \in Joiners : \A m : m \in OnWay(d)' /\ m # start => m \in OnWay(d)
      /\ \A d \in Joiners : \A m : m \in OnWay(d)' /\ d \notin Members(players') => m \in OnWay(d)
  <2>1. ASSUME NEW d \in Joiners, NEW m, m \in OnWay(d)', m # start \/ d \notin Members(players')
        PROVE  m \in OnWay(d)
    <3>1. /\ ToSet(told[d].outgoing) \subseteq ToSet(cl[d].outgoing) \cup {start}
          /\ d \notin Members(players') => told[d] = cl[d]
          /\ ToSet(cl[d].outgoing) \subseteq ToSet(client[d].outgoing)
      BY <1>4, <1>5
    <3>2. client'[d] = told[d] /\ toJoiner'[d] = toJoiner[d]  BY <1>1
    <3>   QED BY <2>1, <3>1, <3>2 DEF OnWay
  <2>   QED BY <2>1
<1>10. IdsInv' /\ AcceptInv'
  <2>1. \A id : Join(id) # start  BY MessageFacts DEF start
  <2>   QED BY <1>1, <1>9, <2>1, IdsKept
<1>11. StartInv'
  <2>1. ASSUME NEW d \in Joiners, NEW ps \in Seq(PlayerSet), Told(d, ps)'
        PROVE  ps = players' /\ d \in Members(players')
    <3>1. ~ Told(d, ps)  BY <1>1 DEF StartInv
    <3>2. Topology("START_GAME", ps) \in OnWay(d)'  BY <2>1, <3>1, <1>1 DEF Told
    <3>3. Topology("START_GAME", ps) \notin OnWay(d)  BY <3>1 DEF Told
    <3>4. Topology("START_GAME", ps) = start /\ d \in Members(players')
      BY <3>2, <3>3, <1>9
    <3>   QED BY <3>4, MessageFacts DEF start
  <2>   QED BY <2>1, <1>7 DEF StartInv
<1>12. BeginsInv'
  <2>1. \A d \in Joiners : client[d].state \in Fresh => client'[d].state \in Fresh
    BY <1>1, <1>4, <1>5 DEF Fresh
  <2>   QED BY <1>1, <2>1, BeginsKept
<1>13. ClientsInv'
  BY <1>1, <1>5, <1>6, <1>7 DEF ClientsInv
<1>   QED BY <1>2, <1>8, <1>10, <1>11, <1>12, <1>13

LEMMA DistributeGameDataInv ==
  ASSUME SessionInv, DistributeGameData PROVE SessionInv'
<1>   USE DEF SessionInv
<1>   DEFINE M == Members(players)
             cl == Enqueue(client, M, Plain("gameData"))
<1>1. /\ netState = "starting" /\ netState' = "active"
      /\ toJoiner' = [j \in Joiners |-> IF j \in M /\ ~HasLeft(j)
                                        THEN toJoiner[j] \o cl[j].outgoing ELSE toJoiner[j]]
      /\ client' = [c \in Joiners |-> IF c \in M
                                      THEN [client[c] EXCEPT !.outgoing = <<>>, !.state = "ingame"]
                                      ELSE client[c]]
      /\ UNCHANGED <<players, nextIdentifier, listed, visit, joiner, toGatherer>>
  BY DEF DistributeGameData
<1>2. /\ Plain("gameData") \in ToJoinerSet /\ Plain("gameData") \in Harmless
      /\ client \in [Joiners -> ClientSet] /\ toJoiner \in [Joiners -> Seq(ToJoinerSet)]
  BY MessageFacts, HarmlessFacts DEF Types
<1>3. /\ cl \in [Joiners -> ClientSet]
      /\ \A d \in Joiners : ToSet(cl[d].outgoing) \subseteq ToSet(client[d].outgoing) \cup Harmless
  BY <1>2, EnqueueValue, EnqueueOfKind
<1>   HIDE DEF M, cl
<1>4. ASSUME NEW r \in ClientSet
      PROVE  LET new == [r EXCEPT !.outgoing = <<>>, !.state = "ingame"]
             IN  new \in ClientSet /\ new.state = "ingame" /\ new.outgoing = <<>>
  <2>1. [r EXCEPT !.outgoing = <<>>] \in ClientSet /\ [r EXCEPT !.outgoing = <<>>].outgoing = <<>>
    BY EmptiedValue
  <2>   DEFINE q == [r EXCEPT !.outgoing = <<>>]
  <2>2. "ingame" \in ClientStates  BY DEF ClientStates
  <2>3. [r EXCEPT !.outgoing = <<>>, !.state = "ingame"] = [q EXCEPT !.state = "ingame"]
    BY Zenon
  <2>4. q \in ClientSet /\ q.outgoing = <<>>  BY <2>1
  <2>   HIDE DEF q
  <2>5. /\ [q EXCEPT !.state = "ingame"] \in ClientSet
        /\ [q EXCEPT !.state = "ingame"].state = "ingame"
        /\ [q EXCEPT !.state = "ingame"].outgoing = <<>>
    BY <2>2, <2>4, StateValue, SMTT(30)
  <2>   QED BY <2>3, <2>5
<1>5. /\ client' \in [Joiners -> ClientSet]
      /\ \A d \in Joiners : d \in M => client'[d].state = "ingame" /\ client'[d].outgoing = <<>>
      /\ \A d \in Joiners : d \notin M => client'[d] = client[d]
  BY <1>1, <1>2, <1>4
<1>6. /\ toJoiner' \in [Joiners -> Seq(ToJoinerSet)]
      /\ \A d \in Joiners : ToSet(toJoiner'[d]) \subseteq OnWay(d) \cup Harmless
  <2>1. ASSUME NEW d \in Joiners
        PROVE  /\ toJoiner[d] \o cl[d].outgoing \in Seq(ToJoinerSet)
               /\ ToSet(toJoiner[d] \o cl[d].outgoing) = ToSet(toJoiner[d]) \cup ToSet(cl[d].outgoing)
    <3>1. cl[d].outgoing \in Seq(ToJoinerSet)  BY <1>3 DEF ClientSet
    <3>   QED BY <3>1, <1>2, ToSetConcat
  <2>2. \A d \in Joiners : toJoiner'[d] \in {toJoiner[d], toJoiner[d] \o cl[d].outgoing}
    BY <1>1
  <2>3. toJoiner' \in [Joiners -> Seq(ToJoinerSet)]
    BY <1>1, <1>2, <2>1
  <2>   QED BY <2>1, <2>2, <2>3, <1>3 DEF OnWay
<1>7. Types'  BY <1>1, <1>5, <1>6 DEF Types, NetStates
<1>8. \A d \in Joiners : OnWay(d)' \subseteq OnWay(d) \cup Harmless
  <2>1. ToSet(<<>>) = {}  BY DEF ToSet
  <2>   QED BY <2>1, <1>5, <1>6 DEF OnWay
<1>9. IdsInv' /\ AcceptInv' /\ \A d \in Joiners : \A ps : Told(d, ps)' => Told(d, ps)
  BY <1>1, <1>8, QuietStep
<1>10. StartInv'  BY <1>1, <1>9, StartKept
<1>11. PlayersInv'  BY <1>1 DEF PlayersInv
<1>12. \A d \in M : d \in Joiners /\ client[d].state = "awaiting_map" /\ d \notin listed
  BY <1>1, MembersAreJoiners DEF ClientsInv, Setting, M
<1>13. BeginsInv'
  <2>1. \A d \in Joiners : client[d].state \in Fresh => client'[d].state \in Fresh
    BY <1>5, <1>12, SMTT(30) DEF Fresh, NewStates, Gone
  <2>   QED BY <1>1, <2>1, BeginsKept
<1>14. ClientsInv'
  <2>1. \A d \in listed : d \in Joiners /\ client[d].state = "connected" /\ d \notin M
    BY <1>1, <1>12 DEF ClientsInv, Setting, Types
  <2>   QED BY <1>1, <1>5, <1>12, <2>1 DEF ClientsInv, M
<1>   QED BY <1>7, <1>9, <1>10, <1>11, <1>13, <1>14

-----------------------------------------------------------------------------
(***************************************************************************)
(* The joiners                                                             *)
(***************************************************************************)

\* A joiner's step: it handles what was on its way, and replies.
Stepped(j) ==
  /\ joiner' \in [Joiners -> JoinerSet]
  /\ toJoiner' \in [Joiners -> Seq(ToJoinerSet)]
  /\ toGatherer' \in [Joiners -> Seq(ToGathererSet)]
  /\ \A d \in Joiners : d # j =>
       joiner'[d] = joiner[d] /\ toJoiner'[d] = toJoiner[d] /\ toGatherer'[d] = toGatherer[d]
  /\ ToSet(toJoiner'[j]) \subseteq ToSet(toJoiner[j])
  /\ UNCHANGED gathererVars

\* Its identifier is kept, or was on its way.
IdTaken(j) ==
  /\ \/ joiner'[j].id = joiner[j].id
     \/ joiner[j].id = 0 /\ Join(joiner'[j].id) \in OnWay(j)
  /\ joiner'[j].id # 0 => joiner'[j].state \in HasAccepted
  /\ \A id \in Nat : Accept(id) \in ToSet(toGatherer'[j]) => id # 0 /\ id = joiner'[j].id

BeginsOnce(j) ==
  /\ joiner'[j].state \in {"connecting", "awaitingHello"} =>
       toGatherer'[j] = <<>> /\ client[j].state \in Fresh
  /\ \A i \in 1 .. Len(toGatherer'[j]) : toGatherer'[j][i] = Plain("joinerInfo") =>
       i = 1 /\ client[j].state \in Fresh

StartsAsTold(j) ==
  joiner'[j].state \in {"starting", "playing"} => Told(j, joiner'[j].players)

LEMMA SteppedInv ==
  ASSUME SessionInv, NEW j \in Joiners, Stepped(j), IdTaken(j), BeginsOnce(j), StartsAsTold(j)
  PROVE  SessionInv'
<1>   USE DEF SessionInv
<1>1. UNCHANGED <<netState, players, nextIdentifier, client, listed, visit>>
  BY DEF Stepped, gathererVars
<1>2. Types'  BY <1>1 DEF Types, Stepped
<1>3. \A d \in Joiners : OnWay(d)' \subseteq OnWay(d)
  BY <1>1 DEF OnWay, Stepped
<1>4. \A d \in Joiners : \A id : Given(d, id)' => Given(d, id)
  BY <1>3 DEF Given, Stepped, IdTaken
<1>5. IdsInv'  BY <1>1, <1>4 DEF IdsInv
<1>6. AcceptInv'
  <2>1. \A d \in Joiners : Join(0) \notin OnWay(d)'  BY <1>3 DEF AcceptInv
  <2>   QED BY <2>1 DEF AcceptInv, Stepped, IdTaken
<1>7. \A d \in Joiners : joiner[d].id # 0 => joiner'[d].id = joiner[d].id
  BY DEF Stepped, IdTaken
<1>8. PlayersInv'  BY <1>1, <1>7 DEF PlayersInv
<1>9. BeginsInv'
  <2>1. ASSUME NEW d \in Joiners, d # j
        PROVE  /\ joiner'[d].state \in {"connecting", "awaitingHello"} =>
                    toGatherer'[d] = <<>> /\ client'[d].state \in Fresh
               /\ \A i \in 1 .. Len(toGatherer'[d]) : toGatherer'[d][i] = Plain("joinerInfo") =>
                    i = 1 /\ client'[d].state \in Fresh
    <3>1. joiner'[d] = joiner[d] /\ toGatherer'[d] = toGatherer[d] /\ client'[d] = client[d]
      BY <1>1, <2>1 DEF Stepped
    <3>   QED BY <3>1 DEF BeginsInv
  <2>2. /\ joiner'[j].state \in {"connecting", "awaitingHello"} =>
             toGatherer'[j] = <<>> /\ client'[j].state \in Fresh
        /\ \A i \in 1 .. Len(toGatherer'[j]) : toGatherer'[j][i] = Plain("joinerInfo") =>
             i = 1 /\ client'[j].state \in Fresh
    BY <1>1 DEF BeginsOnce
  <2>3. Fresh' = Fresh  BY DEF Fresh, NewStates
  <2>   QED BY <2>1, <2>2, <2>3 DEF BeginsInv
<1>10. ClientsInv'  BY <1>1 DEF ClientsInv, Setting
<1>11. \A d \in Joiners : \A ps : Told(d, ps)' => Told(d, ps)
  BY <1>3 DEF Told, Stepped, StartsAsTold
<1>12. StartInv'  BY <1>1, <1>11, StartKept
<1>   QED BY <1>2, <1>5, <1>6, <1>8, <1>9, <1>10, <1>12

\* A joiner's state is set.
LEMMA BecomeValue ==
  ASSUME Types, NEW j \in Joiners, NEW state \in JoinerStates, Become(j, state)
  PROVE  /\ joiner' \in [Joiners -> JoinerSet]
         /\ \A d \in Joiners : d # j => joiner'[d] = joiner[d]
         /\ joiner'[j].state = state
         /\ joiner'[j].id = joiner[j].id /\ joiner'[j].players = joiner[j].players
<1>1. joiner' = [joiner EXCEPT ![j] = [joiner[j] EXCEPT !.state = state]]  BY Zenon DEF Become
<1>   DEFINE r == [joiner[j] EXCEPT !.state = state]
<1>2. joiner \in [Joiners -> JoinerSet] /\ joiner[j] \in JoinerSet  BY DEF Types
<1>3. r \in JoinerSet /\ r.state = state /\ r.id = joiner[j].id /\ r.players = joiner[j].players
  BY <1>2 DEF JoinerSet
<1>   HIDE DEF r
<1>   QED BY <1>1, <1>2, <1>3 DEF r

LEMMA ConnectInv ==
  ASSUME SessionInv, NEW j \in Joiners, Connect(j) PROVE SessionInv'
<1>   USE DEF SessionInv
<1>1. /\ joiner[j].state = "connecting" /\ Become(j, "awaitingHello")
      /\ UNCHANGED <<gathererVars, toJoiner, toGatherer>>
  BY DEF Connect, Become
<1>2. /\ joiner' \in [Joiners -> JoinerSet]
      /\ \A d \in Joiners : d # j => joiner'[d] = joiner[d]
      /\ joiner'[j].state = "awaitingHello" /\ joiner'[j].id = joiner[j].id
  BY <1>1, BecomeValue DEF JoinerStates
<1>3. Stepped(j)  BY <1>1, <1>2 DEF Stepped, Types
<1>4. IdTaken(j)  BY <1>1, <1>2 DEF IdTaken, AcceptInv, HasAccepted, Gone
<1>5. BeginsOnce(j)  BY <1>1, <1>2 DEF BeginsOnce, BeginsInv
<1>6. StartsAsTold(j)  BY <1>2 DEF StartsAsTold
<1>   QED BY <1>3, <1>4, <1>5, <1>6, SteppedInv

\* A joiner that is gone, whatever its last reply was.
LEMMA GoneInv ==
  ASSUME SessionInv, NEW j \in Joiners, InSetup(j), Become(j, Gone),
         toJoiner' = [toJoiner EXCEPT ![j] = <<>>], UNCHANGED gathererVars,
         \/ toGatherer' = toGatherer
         \/ toGatherer[j] # <<>> /\ toGatherer' = [toGatherer EXCEPT ![j] = Front(@)]
  PROVE  SessionInv'
<1>   USE DEF SessionInv
<1>1. /\ joiner' \in [Joiners -> JoinerSet]
      /\ \A d \in Joiners : d # j => joiner'[d] = joiner[d]
      /\ joiner'[j].state = Gone /\ joiner'[j].id = joiner[j].id
  BY BecomeValue DEF JoinerStates
<1>2. /\ toJoiner \in [Joiners -> Seq(ToJoinerSet)] /\ toGatherer \in [Joiners -> Seq(ToGathererSet)]
  BY DEF Types
<1>3. /\ toGatherer' \in [Joiners -> Seq(ToGathererSet)]
      /\ \A d \in Joiners : d # j => toGatherer'[d] = toGatherer[d]
      /\ ToSet(toGatherer'[j]) \subseteq ToSet(toGatherer[j])
      /\ Len(toGatherer'[j]) <= Len(toGatherer[j])
      /\ \A i \in 1 .. Len(toGatherer'[j]) : toGatherer'[j][i] = toGatherer[j][i]
  <2>1. CASE toGatherer' = toGatherer  BY <1>2, <2>1
  <2>2. CASE toGatherer[j] # <<>> /\ toGatherer' = [toGatherer EXCEPT ![j] = Front(@)]
    <3>   DEFINE s == toGatherer[j]
    <3>1. s \in Seq(ToGathererSet) /\ s # <<>> /\ Len(s) \in Nat  BY <1>2, <2>2
    <3>2. Plain("joinerInfo") \in ToGathererSet  BY MessageFacts
    <3>   HIDE DEF s
    <3>3. Front(s) \in Seq(ToGathererSet) /\ ToSet(Front(s)) \subseteq ToSet(s)
      BY <3>1, <3>2, ToSetFacts
    <3>4. /\ Len(Front(s)) = Len(s) - 1
          /\ \A i \in 1 .. Len(s) - 1 : Front(s)[i] = s[i]
      BY <3>1, FrontValue
    <3>5. /\ toGatherer'[j] = Front(s)
          /\ toGatherer' \in [Joiners -> Seq(ToGathererSet)]
          /\ \A d \in Joiners : d # j => toGatherer'[d] = toGatherer[d]
      BY <1>2, <2>2, <3>3 DEF s
    <3>6. Len(s) - 1 <= Len(s)  BY <3>1
    <3>   QED BY <3>3, <3>4, <3>5, <3>6 DEF s
  <2>   QED BY <2>1, <2>2
<1>4. Stepped(j)
  <2>1. <<>> \in Seq(ToJoinerSet) /\ ToSet(<<>>) = {}  BY DEF ToSet
  <2>   QED BY <1>1, <1>2, <1>3, <2>1 DEF Stepped
<1>5. IdTaken(j)  BY <1>1, <1>3 DEF IdTaken, AcceptInv, HasAccepted
<1>6. BeginsOnce(j)
  <2>1. ASSUME NEW i \in 1 .. Len(toGatherer'[j]) PROVE i \in 1 .. Len(toGatherer[j])
    BY <1>2, <1>3
  <2>   QED BY <2>1, <1>1, <1>3 DEF BeginsOnce, BeginsInv, Gone
<1>7. StartsAsTold(j)  BY <1>1 DEF StartsAsTold, Gone
<1>   QED BY <1>4, <1>5, <1>6, <1>7, SteppedInv

\* A joiner's message is appended to what is on its way to the gatherer.
Replied(j, m) ==
  /\ toGatherer' \in [Joiners -> Seq(ToGathererSet)]
  /\ \A d \in Joiners : d # j => toGatherer'[d] = toGatherer[d]
  /\ ToSet(toGatherer'[j]) = ToSet(toGatherer[j]) \cup {m}
  /\ \A i \in 1 .. Len(toGatherer'[j]) :
       \/ i \in 1 .. Len(toGatherer[j]) /\ toGatherer'[j][i] = toGatherer[j][i]
       \/ i = Len(toGatherer[j]) + 1 /\ toGatherer'[j][i] = m

LEMMA ReplyValue ==
  ASSUME Types, NEW j \in Joiners, NEW m \in ToGathererSet, Reply(j, m)
  PROVE  Replied(j, m)
<1>   DEFINE s == toGatherer[j]
             t == Append(s, m)
<1>1. toGatherer \in [Joiners -> Seq(ToGathererSet)] /\ s \in Seq(ToGathererSet)
  BY DEF Types
<1>2. toGatherer' = [toGatherer EXCEPT ![j] = t]  BY DEF Reply
<1>   HIDE DEF s
<1>3. t \in Seq(ToGathererSet) /\ ToSet(t) = ToSet(s) \cup {m}
  BY <1>1, ToSetFacts
<1>4. /\ Len(s) \in Nat /\ Len(t) = Len(s) + 1 /\ t[Len(s) + 1] = m
      /\ \A i \in 1 .. Len(s) : t[i] = s[i]
  BY <1>1
<1>   HIDE DEF t
<1>5. \A i \in 1 .. Len(t) : \/ i \in 1 .. Len(s) /\ t[i] = s[i]
                             \/ i = Len(s) + 1 /\ t[i] = m
  BY <1>4
<1>6. /\ toGatherer' \in [Joiners -> Seq(ToGathererSet)] /\ toGatherer'[j] = t
      /\ \A d \in Joiners : d # j => toGatherer'[d] = toGatherer[d]
  BY <1>1, <1>2, <1>3
<1>   QED BY <1>3, <1>5, <1>6 DEF s, Replied

\* What is handled is taken off.
LEMMA Taken ==
  ASSUME SessionInv, NEW j \in Joiners, Receive(j)
  PROVE  /\ toJoiner' \in [Joiners -> Seq(ToJoinerSet)]
         /\ \A d \in Joiners : d # j => toJoiner'[d] = toJoiner[d]
         /\ ToSet(toJoiner'[j]) \subseteq ToSet(toJoiner[j])
         /\ Head(toJoiner[j]) \in ToJoinerSet /\ Head(toJoiner[j]) \in OnWay(j)
         /\ UNCHANGED gathererVars
<1>1. /\ toJoiner[j] # <<>> /\ toJoiner' = [toJoiner EXCEPT ![j] = Tail(@)]
      /\ UNCHANGED gathererVars
  BY DEF Receive
<1>2. toJoiner \in [Joiners -> Seq(ToJoinerSet)]  BY DEF SessionInv, Types
<1>   DEFINE s == toJoiner[j]
<1>3. s \in Seq(ToJoinerSet) /\ s # <<>>  BY <1>1, <1>2
<1>   HIDE DEF s
<1>4. /\ Tail(s) \in Seq(ToJoinerSet) /\ ToSet(Tail(s)) \subseteq ToSet(s)
      /\ Head(s) \in ToSet(s) /\ Head(s) \in ToJoinerSet
  BY <1>3, MessageFacts, ToSetFacts
<1>5. /\ toJoiner' \in [Joiners -> Seq(ToJoinerSet)] /\ toJoiner'[j] = Tail(s)
      /\ \A d \in Joiners : d # j => toJoiner'[d] = toJoiner[d]
  BY <1>1, <1>2, <1>4 DEF s
<1>   QED BY <1>1, <1>4, <1>5 DEF s, OnWay

LEMMA HelloInv ==
  ASSUME SessionInv, NEW j \in Joiners, Receive(j), HandleHello(j) PROVE SessionInv'
<1>   USE DEF SessionInv
<1>1. joiner[j].state = "awaitingHello" /\ Become(j, "joining") /\ Reply(j, Plain("joinerInfo"))
  BY DEF HandleHello
<1>2. /\ joiner' \in [Joiners -> JoinerSet]
      /\ \A d \in Joiners : d # j => joiner'[d] = joiner[d]
      /\ joiner'[j].state = "joining" /\ joiner'[j].id = joiner[j].id
  BY <1>1, BecomeValue DEF JoinerStates
<1>3. Replied(j, Plain("joinerInfo"))
  BY <1>1, MessageFacts, ReplyValue
<1>4. toGatherer[j] = <<>> /\ client[j].state \in Fresh /\ joiner[j].id = 0
  BY <1>1 DEF BeginsInv, AcceptInv, HasAccepted, Gone
<1>5. Stepped(j)  BY <1>2, <1>3, Taken DEF Stepped, Replied
<1>6. IdTaken(j)
  <2>1. \A id \in Nat : Accept(id) # Plain("joinerInfo")  BY MessageFacts
  <2>2. ToSet(toGatherer[j]) = {}  BY <1>4 DEF ToSet
  <2>   QED BY <2>1, <2>2, <1>2, <1>3, <1>4 DEF Replied, IdTaken
<1>7. BeginsOnce(j)
  <2>1. Len(toGatherer[j]) = 0  BY <1>4
  <2>2. \A i \in 1 .. Len(toGatherer'[j]) : i = 1  BY <1>3, <2>1 DEF Replied
  <2>   QED BY <2>2, <1>2, <1>4 DEF Replied, BeginsOnce
<1>8. StartsAsTold(j)  BY <1>2 DEF StartsAsTold
<1>   QED BY <1>5, <1>6, <1>7, <1>8, SteppedInv

LEMMA CapabilitiesInv ==
  ASSUME SessionInv, NEW j \in Joiners, Receive(j), HandleCapabilities(j) PROVE SessionInv'
<1>   USE DEF SessionInv
<1>1. joiner[j].state = "joining" /\ joiner' = joiner /\ Reply(j, Plain("capabilities"))
  BY DEF HandleCapabilities
<1>2. Replied(j, Plain("capabilities"))
  BY <1>1, MessageFacts, ReplyValue
<1>3. Stepped(j)  BY <1>1, <1>2, Taken DEF Stepped, Replied, Types
<1>4. \A id \in Nat : Accept(id) # Plain("capabilities")  BY MessageFacts
<1>5. IdTaken(j)  BY <1>1, <1>2, <1>4 DEF Replied, IdTaken, AcceptInv
<1>6. Plain("capabilities") # Plain("joinerInfo")  BY DEF Plain
<1>7. BeginsOnce(j)  BY <1>1, <1>2, <1>6 DEF Replied, BeginsOnce, BeginsInv
<1>8. StartsAsTold(j)  BY <1>1 DEF StartsAsTold
<1>   QED BY <1>3, <1>5, <1>7, <1>8, SteppedInv

LEMMA JoinPlayerInv ==
  ASSUME SessionInv, NEW j \in Joiners, Receive(j),
         Head(toJoiner[j]).type = "join", HandleJoinPlayer(j, Head(toJoiner[j]).id)
  PROVE  SessionInv'
<1>   USE DEF SessionInv
<1>   DEFINE id == Head(toJoiner[j]).id
             r == [joiner[j] EXCEPT !.state = "waiting", !.id = id]
<1>1. /\ joiner[j].state = "joining"
      /\ joiner' = [joiner EXCEPT ![j] = r]
      /\ Reply(j, Accept(id))
  <2>1. joiner' = [joiner EXCEPT ![j].state = "waiting", ![j].id = id]
    BY DEF HandleJoinPlayer
  <2>2. [joiner EXCEPT ![j].state = "waiting", ![j].id = id] = [joiner EXCEPT ![j] = r]
    BY DEF Types
  <2>   QED BY <2>1, <2>2 DEF HandleJoinPlayer, Accept
<1>2. id \in Nat /\ Join(id) \in OnWay(j)
  BY Taken, MessageFacts
<1>3. id # 0  BY <1>2 DEF AcceptInv
<1>   HIDE DEF id
<1>4. joiner \in [Joiners -> JoinerSet] /\ joiner[j] \in JoinerSet  BY DEF Types
<1>5. r \in JoinerSet /\ r.state = "waiting" /\ r.id = id
  BY <1>2, <1>4 DEF JoinerSet, JoinerStates
<1>   HIDE DEF r
<1>6. /\ joiner' \in [Joiners -> JoinerSet]
      /\ \A d \in Joiners : d # j => joiner'[d] = joiner[d]
      /\ joiner'[j].state = "waiting" /\ joiner'[j].id = id
  BY <1>1, <1>4, <1>5
<1>7. Replied(j, Accept(id))
  BY <1>1, <1>2, MessageFacts, ReplyValue
<1>8. joiner[j].id = 0  BY <1>1 DEF AcceptInv, HasAccepted, Gone
<1>9. Stepped(j)  BY <1>6, <1>7, Taken DEF Stepped, Replied
<1>10. IdTaken(j)
  <2>1. ASSUME NEW i \in Nat, Accept(i) \in ToSet(toGatherer'[j]) PROVE i # 0 /\ i = id
    <3>1. Accept(i) \notin ToSet(toGatherer[j])  BY <1>8 DEF AcceptInv
    <3>2. Accept(i) = Accept(id)  BY <2>1, <3>1, <1>7 DEF Replied
    <3>   QED BY <3>2, <1>3, MessageFacts
  <2>   QED BY <2>1, <1>2, <1>6, <1>8 DEF Replied, IdTaken, HasAccepted
<1>11. Accept(id) # Plain("joinerInfo")  BY MessageFacts
<1>12. BeginsOnce(j)  BY <1>6, <1>7, <1>11 DEF Replied, BeginsOnce, BeginsInv
<1>13. StartsAsTold(j)  BY <1>6 DEF StartsAsTold
<1>   QED BY <1>9, <1>10, <1>12, <1>13, SteppedInv

LEMMA TopologyInv ==
  ASSUME SessionInv, NEW j \in Joiners, Receive(j),
         Head(toJoiner[j]).type = "topology", HandleTopology(j, Head(toJoiner[j]))
  PROVE  SessionInv'
<1>   USE DEF SessionInv
<1>   DEFINE m == Head(toJoiner[j])
             r == [joiner[j] EXCEPT !.state = StateFor(m.tag), !.players = m.players]
<1>1. /\ joiner[j].state = "waiting"
      /\ joiner' = [joiner EXCEPT ![j] = r]
      /\ toGatherer' = toGatherer
  <2>1. joiner' = [joiner EXCEPT ![j].state = StateFor(m.tag), ![j].players = m.players]
    BY DEF HandleTopology
  <2>2. [joiner EXCEPT ![j].state = StateFor(m.tag), ![j].players = m.players]
          = [joiner EXCEPT ![j] = r]
    BY DEF Types
  <2>   QED BY <2>1, <2>2 DEF HandleTopology
<1>2. m \in OnWay(j) /\ m.tag \in Tags /\ m.players \in Seq(PlayerSet) /\ m = Topology(m.tag, m.players)
  BY Taken, MessageFacts
<1>   HIDE DEF m
<1>3. /\ StateFor(m.tag) \in {"starting", "cancelled", "waiting"}
      /\ StateFor(m.tag) = "starting" => m.tag = "START_GAME"
  BY DEF StateFor
<1>4. joiner \in [Joiners -> JoinerSet] /\ joiner[j] \in JoinerSet  BY DEF Types
<1>5. r \in JoinerSet /\ r.state = StateFor(m.tag) /\ r.players = m.players /\ r.id = joiner[j].id
  BY <1>2, <1>3, <1>4 DEF JoinerSet, JoinerStates
<1>   HIDE DEF r
<1>6. /\ joiner' \in [Joiners -> JoinerSet]
      /\ \A d \in Joiners : d # j => joiner'[d] = joiner[d]
      /\ joiner'[j].state = StateFor(m.tag) /\ joiner'[j].players = m.players
      /\ joiner'[j].id = joiner[j].id
  BY <1>1, <1>4, <1>5
<1>7. Stepped(j)  BY <1>1, <1>6, Taken DEF Stepped, Types
<1>8. IdTaken(j)  BY <1>1, <1>3, <1>6 DEF IdTaken, AcceptInv, HasAccepted
<1>9. BeginsOnce(j)  BY <1>1, <1>3, <1>6 DEF BeginsOnce, BeginsInv
<1>10. StartsAsTold(j)  BY <1>2, <1>3, <1>6 DEF StartsAsTold, Told
<1>   QED BY <1>7, <1>8, <1>9, <1>10, SteppedInv

LEMMA GameDataInv ==
  ASSUME SessionInv, NEW j \in Joiners, Receive(j), HandleGameData(j) PROVE SessionInv'
<1>   USE DEF SessionInv
<1>1. joiner[j].state = "starting" /\ Become(j, "playing") /\ toGatherer' = toGatherer
  BY DEF HandleGameData
<1>2. /\ joiner' \in [Joiners -> JoinerSet]
      /\ \A d \in Joiners : d # j => joiner'[d] = joiner[d]
      /\ joiner'[j].state = "playing" /\ joiner'[j].id = joiner[j].id
      /\ joiner'[j].players = joiner[j].players
  BY <1>1, BecomeValue DEF JoinerStates
<1>3. Stepped(j)  BY <1>1, <1>2, Taken DEF Stepped, Types
<1>4. IdTaken(j)  BY <1>1, <1>2 DEF IdTaken, AcceptInv, HasAccepted
<1>5. BeginsOnce(j)  BY <1>1, <1>2 DEF BeginsOnce, BeginsInv
<1>6. StartsAsTold(j)  BY <1>1, <1>2 DEF StartsAsTold, Told
<1>   QED BY <1>3, <1>4, <1>5, <1>6, SteppedInv

\* A message that is not expected changes nothing.
LEMMA UnexpectedInv ==
  ASSUME SessionInv, NEW j \in Joiners, Receive(j), UNCHANGED <<joiner, toGatherer>>
  PROVE  SessionInv'
<1>   USE DEF SessionInv
<1>1. Stepped(j)  BY Taken DEF Stepped, Types
<1>2. IdTaken(j)  BY DEF IdTaken, AcceptInv
<1>3. BeginsOnce(j)  BY DEF BeginsOnce, BeginsInv
<1>4. StartsAsTold(j)  BY DEF StartsAsTold, Told
<1>   QED BY <1>1, <1>2, <1>3, <1>4, SteppedInv

LEMMA ReceiveInv ==
  ASSUME SessionInv, NEW j \in Joiners, Receive(j) PROVE SessionInv'
<1>   DEFINE m == Head(toJoiner[j])
<1>1. \/ HandleHello(j)
      \/ HandleCapabilities(j)
      \/ m.type = "join" /\ HandleJoinPlayer(j, m.id)
      \/ m.type = "topology" /\ HandleTopology(j, m)
      \/ HandleGameData(j)
      \/ UNCHANGED <<joiner, toGatherer>>
  BY Zenon DEF Receive
<1>   QED BY <1>1, HelloInv, CapabilitiesInv, JoinPlayerInv, TopologyInv, GameDataInv,
             UnexpectedInv

-----------------------------------------------------------------------------
(***************************************************************************)
(* The invariant                                                           *)
(***************************************************************************)
LEMMA InitInv ==
  ASSUME Init PROVE SessionInv
<1>   USE DEF Init
<1>1. ToSet(<<>>) = {}  BY DEF ToSet
<1>2. Types
  <2>1. players \in Seq(PlayerSet)
    <3>1. Player(0, 0) \in PlayerSet  BY SessionAssumption DEF Player, PlayerSet
    <3>   QED BY <3>1
  <2>2. NoClient \in ClientSet  BY DEF NoClient, ClientSet
  <2>3. [state |-> "connecting", id |-> 0, players |-> <<>>] \in JoinerSet
    BY DEF JoinerSet, JoinerStates
  <2>4. 0 \in 0 .. Showing  BY SessionAssumption DEF Showing
  <2>   QED BY <2>1, <2>2, <2>3, <2>4 DEF Types, NetStates
<1>3. \A c \in Joiners : OnWay(c) = {}
  BY <1>1 DEF OnWay, NoClient
<1>4. IdsInv  BY <1>3 DEF IdsInv, Given
<1>5. AcceptInv  BY <1>1, <1>3 DEF AcceptInv
<1>6. Len(players) = 1 /\ players[1] = Player(0, 0)  OBVIOUS
<1>7. PlayersInv /\ Members(players) = {}
  <2>1. 2 .. Len(players) = {}  BY <1>6
  <2>   QED BY <1>6, <2>1 DEF PlayersInv, Members
<1>8. BeginsInv  BY DEF BeginsInv, NoClient, Fresh
<1>9. ClientsInv  BY <1>7 DEF ClientsInv
<1>10. StartInv  BY <1>3 DEF StartInv, Told
<1>   QED BY <1>2, <1>4, <1>5, <1>7, <1>8, <1>9, <1>10 DEF SessionInv

LEMMA NextInv ==
  ASSUME NewClients, SessionInv, [Next]_vars PROVE SessionInv'
<1>1. CASE GathererStep
  <2>1. CASE CheckForNewJoiner  BY <2>1, CheckForNewJoinerInv
  <2>2. CASE Show  BY <2>2, ShowInv
  <2>3. CASE DistributeGameData  BY <2>3, DistributeGameDataInv
  <2>4. ASSUME NEW c \in Joiners, VisitConnected(c) \/ VisitLost(c) \/ ProcessMessagesInGame(c)
        PROVE  SessionInv'
    BY <2>4, VisitConnectedInv, VisitLostInv, ProcessMessagesInGameInv
  <2>   QED BY <1>1, <2>1, <2>2, <2>3, <2>4 DEF GathererStep
<1>2. CASE StartGame  BY <1>2, StartGameInv
<1>3. CASE CancelGather  BY <1>3, CancelGatherInv
<1>4. ASSUME NEW j \in Joiners, GatherPlayer(j) \/ Connect(j) \/ JoinerStep(j) \/ Leave(j)
      PROVE  SessionInv'
  <2>1. CASE GatherPlayer(j)  BY <2>1, GatherPlayerInv
  <2>2. CASE Connect(j)  BY <2>2, ConnectInv
  <2>3. CASE Receive(j)  BY <2>3, ReceiveInv
  <2>4. CASE LoseConnection(j)
    BY <2>4, GoneInv DEF LoseConnection
  <2>5. CASE Leave(j)
    BY <2>5, GoneInv DEF Leave
  <2>   QED BY <1>4, <2>1, <2>2, <2>3, <2>4, <2>5 DEF JoinerStep
<1>5. CASE UNCHANGED vars
  <2>1. UNCHANGED <<netState, players, nextIdentifier, client, listed, visit, joiner, toJoiner, toGatherer>>
    BY <1>5 DEF vars, gathererVars
  <2>   QED BY <2>1 DEF SessionInv, Types, IdsInv, AcceptInv, PlayersInv, BeginsInv, ClientsInv,
                        StartInv, Given, OnWay, Told, Setting
<1>   QED BY <1>1, <1>2, <1>3, <1>4, <1>5 DEF Next

-----------------------------------------------------------------------------
(***************************************************************************)
(* The theorems                                                            *)
(***************************************************************************)
LEMMA TypesOK ==
  ASSUME SessionInv PROVE SessionTypeOK
<1>1. /\ netState \in NetStates /\ players \in Seq(PlayerSet) /\ nextIdentifier \in Nat
      /\ listed \subseteq Joiners /\ visit \in 0 .. Showing
  BY DEF SessionInv, Types
<1>2. \A c \in Joiners : client[c].state \in ClientStates \cup {"none", Gone} /\ client[c].connected \in BOOLEAN
  BY DEF SessionInv, Types, ClientSet
<1>3. \A j \in Joiners : joiner[j].state \in JoinerStates
  BY DEF SessionInv, Types, JoinerSet
<1>4. Setting => \A c \in listed : client[c].state = "connected"
  BY DEF SessionInv, ClientsInv
<1>   QED BY <1>1, <1>2, <1>3, <1>4 DEF SessionTypeOK, NetStates, PlayerSet, JoinerStates

LEMMA MembersOK ==
  ASSUME SessionInv PROVE MembersAreClients
<1>   DEFINE n == Len(players)
             ids == {players[i].id : i \in DOMAIN players}
<1>1. /\ n \in Nat /\ n > 0 /\ DOMAIN players = 1 .. n
      /\ \A i \in 1 .. n : players[i].id \in Nat
      /\ players[1].id = 0
  <2>1. players \in Seq(PlayerSet) /\ n > 0 /\ players[1] = Player(0, 0)
    BY DEF SessionInv, Types, PlayersInv
  <2>2. \A i \in 1 .. n : players[i] \in PlayerSet  BY <2>1
  <2>   QED BY <2>1, <2>2 DEF PlayerSet, Player
<1>   HIDE DEF n
<1>2. \A i, k \in 2 .. n : players[i].stream = players[k].stream => i = k
  BY DEF SessionInv, PlayersInv, n
<1>3. ASSUME NEW i \in 1 .. n, NEW k \in 1 .. n, players[i].id = players[k].id
      PROVE  i = k
  <2>1. \A l \in 2 .. n : /\ players[l].stream \in Joiners
                          /\ players[l].id = joiner[players[l].stream].id
                          /\ players[l].id \in Nat \ {0}
    BY <1>1 DEF SessionInv, PlayersInv, n
  <2>2. CASE i \in 2 .. n /\ k \in 2 .. n
    <3>1. Given(players[i].stream, players[i].id) /\ Given(players[k].stream, players[i].id)
      BY <1>3, <2>1, <2>2 DEF Given
    <3>2. players[i].stream = players[k].stream
      BY <2>1, <2>2, <3>1 DEF SessionInv, IdsInv
    <3>   QED BY <2>2, <3>2, <1>2
  <2>3. CASE i = 1 \/ k = 1
    BY <1>1, <1>3, <2>1, <2>3
  <2>   QED BY <2>2, <2>3, <1>1
<1>4. Cardinality(Members(players)) = n - 1
  <2>   DEFINE M == Members(players)
               f == [i \in 2 .. n |-> players[i].stream]
  <2>1. f \in Bijection(2 .. n, M)
    BY <1>2 DEF Bijection, Injection, Surjection, IsInjective, Members, n
  <2>2. IsFiniteSet(2 .. n) /\ Cardinality(2 .. n) = n - 1
    BY <1>1, FS_Interval
  <2>   HIDE DEF f, M
  <2>3. ExistsBijection(2 .. n, M)  BY <2>1 DEF ExistsBijection
  <2>4. Cardinality(M) = Cardinality(2 .. n)  BY <2>2, <2>3, FS_Bijection
  <2>   QED BY <2>2, <2>4 DEF M
<1>5. Cardinality(ids) = n
  <2>   DEFINE g == [i \in 1 .. n |-> players[i].id]
  <2>1. g \in Bijection(1 .. n, ids)
    BY <1>1, <1>3 DEF Bijection, Injection, Surjection, IsInjective
  <2>2. IsFiniteSet(1 .. n) /\ Cardinality(1 .. n) = n
    BY <1>1, FS_Interval
  <2>   HIDE DEF g, ids
  <2>3. ExistsBijection(1 .. n, ids)  BY <2>1 DEF ExistsBijection
  <2>   QED BY <2>2, <2>3, FS_Bijection
<1>6. /\ netState # "no_client"
      /\ Setting => \A c \in Members(players) : client[c].state \in {"awaiting_map", "ingame"}
  BY DEF SessionInv, ClientsInv, Setting
<1>   QED BY <1>4, <1>5, <1>6 DEF MembersAreClients, n

LEMMA StartedOK ==
  ASSUME SessionInv PROVE StartedAlike
<1>1. ASSUME Setting, NEW j \in Joiners, joiner[j].state \in {"starting", "playing"}
      PROVE  /\ netState # "gathering"
             /\ joiner[j].players = players
             /\ \E i \in 2 .. Len(players) : players[i] = Player(j, joiner[j].id)
  <2>1. joiner[j].players \in Seq(PlayerSet) /\ Told(j, joiner[j].players)
    BY <1>1 DEF SessionInv, Types, JoinerSet, Told
  <2>2. /\ netState \in {"starting", "active"} /\ joiner[j].players = players
        /\ j \in Members(players)
    BY <1>1, <2>1 DEF SessionInv, StartInv, Setting
  <2>3. PICK i \in 2 .. Len(players) : players[i].stream = j
    BY <2>2 DEF Members
  <2>4. players[i] \in PlayerSet /\ players[i].id = joiner[j].id
    <3>1. players \in Seq(PlayerSet) /\ i \in 1 .. Len(players)  BY <2>3 DEF SessionInv, Types
    <3>   QED BY <2>3, <3>1 DEF SessionInv, PlayersInv
  <2>5. players[i] = Player(j, joiner[j].id)
    BY <2>3, <2>4 DEF PlayerSet, Player
  <2>   QED BY <2>2, <2>5
<1>   QED BY <1>1 DEF StartedAlike

LEMMA Always ==
  ASSUME NewClients PROVE Spec => []SessionInv
<1>1. Init => SessionInv  BY InitInv
<1>2. SessionInv /\ [Next]_vars => SessionInv'  BY NextInv
<1>   QED BY <1>1, <1>2, PTL DEF Spec

\* All variables have their types, and whoever is listed can be gathered:
\* NetGatherPlayer finds the client it looks up (network.cpp:2365).
THEOREM SessionTyped ==
  ASSUME NewClients PROVE Spec => []SessionTypeOK
<1>1. SessionInv => SessionTypeOK  BY TypesOK
<1>   QED BY <1>1, Always, PTL

\* However joiners come, accept, leave and come back, the topology has exactly
\* clients that wait for the game, each once and under an identifier of its own
\* (Client::drop and handleAcceptJoinMessage).
THEOREM TopologyIsClients ==
  ASSUME NewClients PROVE Spec => []MembersAreClients
<1>1. SessionInv => MembersAreClients  BY MembersOK
<1>   QED BY <1>1, Always, PTL

\* Whoever starts is in the gatherer's topology and has exactly its players, in
\* its order: the game begins with one numbering of the players (StartGameHit).
THEOREM GameStartedAlike ==
  ASSUME NewClients PROVE Spec => []StartedAlike
<1>1. SessionInv => StartedAlike  BY StartedOK
<1>   QED BY <1>1, Always, PTL

-----------------------------------------------------------------------------
(***************************************************************************)
(* What the joiners will know                                              *)
(***************************************************************************)
Coming(c) == toJoiner[c] \o client[c].outgoing

Topologies(s) == {i \in DOMAIN s : s[i].type = "topology"}

\* After the start nothing is told.
StartEnds(s) ==
  \A i \in Topologies(s) : \A k \in Topologies(s) : s[i].tag = "START_GAME" => ~ i < k

UpToDate(c) ==
  client[c].connected /\ joiner[c].state \in {"waiting", "starting"} =>
    Tells(Coming(c), joiner[c].players, players)

StartLast(c) ==
  /\ StartEnds(Coming(c))
  /\ joiner[c].state = "starting" => Topologies(Coming(c)) = {}

ToldInv ==
  Setting => /\ \A c \in Members(players) : UpToDate(c)
             /\ \A c \in Joiners : StartLast(c)

LEMMA ConcatAppend ==
  ASSUME NEW S, NEW s \in Seq(S), NEW t \in Seq(S), NEW m \in S
  PROVE  s \o Append(t, m) = Append(s \o t, m)
<1>   DEFINE u == s \o t
             a == Append(t, m)
             v == s \o a
             w == Append(u, m)
<1>1. /\ u \in Seq(S) /\ Len(u) = Len(s) + Len(t)
      /\ \A i \in 1 .. Len(s) : u[i] = s[i]
      /\ \A i \in Len(s) + 1 .. Len(s) + Len(t) : u[i] = t[i - Len(s)]
  BY ConcatValue, ZenonT(30)
<1>2. /\ a \in Seq(S) /\ Len(a) = Len(t) + 1 /\ a[Len(t) + 1] = m
      /\ \A i \in 1 .. Len(t) : a[i] = t[i]
  OBVIOUS
<1>   HIDE DEF u, a
<1>3. /\ v \in Seq(S) /\ Len(v) = Len(s) + Len(a)
      /\ \A i \in 1 .. Len(s) : v[i] = s[i]
      /\ \A i \in Len(s) + 1 .. Len(s) + Len(a) : v[i] = a[i - Len(s)]
  BY <1>2, ConcatValue, ZenonT(30)
<1>4. /\ w \in Seq(S) /\ Len(w) = Len(u) + 1 /\ w[Len(u) + 1] = m
      /\ \A i \in 1 .. Len(u) : w[i] = u[i]
  BY <1>1
<1>   HIDE DEF v, w
<1>5. Len(s) \in Nat /\ Len(t) \in Nat  OBVIOUS
<1>6. ASSUME NEW i \in 1 .. Len(v) PROVE v[i] = w[i]
  <2>1. CASE i \in 1 .. Len(s)  BY <2>1, <1>1, <1>3, <1>4, <1>5
  <2>2. CASE i \in Len(s) + 1 .. Len(s) + Len(t)
    <3>1. i - Len(s) \in 1 .. Len(t)  BY <2>2, <1>5
    <3>2. v[i] = a[i - Len(s)]  BY <2>2, <1>2, <1>3, <1>5
    <3>4. a[i - Len(s)] = t[i - Len(s)]  BY <3>1, <1>2
    <3>3. w[i] = t[i - Len(s)]  BY <2>2, <1>1, <1>4, <1>5
    <3>   QED BY <3>2, <3>3, <3>4
  <2>3. CASE i = Len(s) + Len(t) + 1
    <3>1. i - Len(s) = Len(t) + 1  BY <2>3, <1>5
    <3>2. v[i] = m  BY <2>3, <3>1, <1>2, <1>3, <1>5
    <3>   QED BY <2>3, <3>2, <1>1, <1>4
  <2>   QED BY <2>1, <2>2, <2>3, <1>2, <1>3, <1>5
<1>7. Len(v) = Len(w)  BY <1>1, <1>2, <1>3, <1>4, <1>5
<1>8. v = w  BY <1>3, <1>4, <1>6, <1>7
<1>   QED BY <1>8 DEF v, w, u, a

\* What is no topology changes nothing.
Plainer(s, t) ==
  \/ t = s
  \/ \E m \in ToJoinerSet : m.type # "topology" /\ t = Append(s, m)

LEMMA TopologiesOfAppended ==
  ASSUME NEW s \in Seq(ToJoinerSet), NEW m \in ToJoinerSet
  PROVE  LET t == Append(s, m)
         IN  /\ t \in Seq(ToJoinerSet)
             /\ \A i \in Topologies(s) : t[i] = s[i] /\ i < Len(s) + 1
             /\ t[Len(s) + 1] = m /\ Len(s) \in Nat
             /\ m.type # "topology" => Topologies(t) = Topologies(s)
             /\ m.type = "topology" => Topologies(t) = Topologies(s) \cup {Len(s) + 1}
<1>   DEFINE t == Append(s, m)
<1>1. /\ t \in Seq(ToJoinerSet) /\ DOMAIN t = 1 .. Len(s) + 1 /\ t[Len(s) + 1] = m
      /\ \A i \in 1 .. Len(s) : t[i] = s[i]
      /\ DOMAIN s = 1 .. Len(s) /\ Len(s) \in Nat
  OBVIOUS
<1>   HIDE DEF t
<1>2. \A i : i \in DOMAIN t <=> i \in DOMAIN s \/ i = Len(s) + 1  BY <1>1
<1>3. \A i \in DOMAIN s : t[i] = s[i] /\ i < Len(s) + 1  BY <1>1
<1>4. m.type # "topology" => Topologies(t) = Topologies(s)
  BY <1>1, <1>2, <1>3 DEF Topologies
<1>5. m.type = "topology" => Topologies(t) = Topologies(s) \cup {Len(s) + 1}
  BY <1>1, <1>2, <1>3 DEF Topologies
<1>   QED BY <1>1, <1>3, <1>4, <1>5 DEF Topologies, t

LEMMA PlainerTells ==
  ASSUME NEW s \in Seq(ToJoinerSet), NEW t, Plainer(s, t), NEW before, NEW after
  PROVE  /\ Tells(s, before, after) => Tells(t, before, after)
         /\ StartEnds(s) => StartEnds(t)
         /\ Topologies(s) = {} => Topologies(t) = {}
<1>1. CASE t = s  BY <1>1
<1>2. ASSUME NEW m \in ToJoinerSet, m.type # "topology", t = Append(s, m)
      PROVE  /\ Tells(s, before, after) => Tells(t, before, after)
             /\ StartEnds(s) => StartEnds(t)
             /\ Topologies(s) = {} => Topologies(t) = {}
  <2>1. Topologies(t) = Topologies(s) /\ \A i \in Topologies(s) : t[i] = s[i]
    BY <1>2, TopologiesOfAppended
  <2>   QED BY <2>1 DEF Tells, StartEnds, Topologies
<1>   QED BY <1>1, <1>2 DEF Plainer

LEMMA ToldTells ==
  ASSUME NEW s \in Seq(ToJoinerSet), NEW tag \in Tags, NEW ps \in Seq(PlayerSet), NEW before
  PROVE  /\ Tells(Append(s, Topology(tag, ps)), before, ps)
         /\ (\A i \in Topologies(s) : s[i].tag # "START_GAME") =>
              StartEnds(Append(s, Topology(tag, ps)))
<1>   DEFINE m == Topology(tag, ps)
             t == Append(s, m)
<1>1. m \in ToJoinerSet /\ m.type = "topology" /\ m.players = ps  BY MessageFacts
<1>   HIDE DEF m
<1>2. /\ \A i \in Topologies(s) : t[i] = s[i] /\ i < Len(s) + 1
      /\ t[Len(s) + 1] = m /\ Len(s) \in Nat
      /\ Topologies(t) = Topologies(s) \cup {Len(s) + 1}
  BY <1>1, TopologiesOfAppended
<1>3. \A i \in Topologies(s) : i \in Nat  BY DEF Topologies
<1>   HIDE DEF t
<1>4. Tells(t, before, ps)
  <2>1. ASSUME NEW i \in Topologies(t), \A k \in Topologies(t) : k <= i PROVE t[i].players = ps
    <3>1. i = Len(s) + 1  BY <2>1, <1>2, <1>3
    <3>   QED BY <3>1, <1>1, <1>2
  <2>2. Topologies(t) # {}  BY <1>2
  <2>   QED BY <2>1, <2>2 DEF Tells, Topologies
<1>5. ASSUME \A i \in Topologies(s) : s[i].tag # "START_GAME" PROVE StartEnds(t)
  <2>1. ASSUME NEW i \in Topologies(t), NEW k \in Topologies(t), t[i].tag = "START_GAME" PROVE ~ i < k
    <3>1. i = Len(s) + 1  BY <2>1, <1>2, <1>5
    <3>   QED BY <3>1, <1>2, <1>3
  <2>   QED BY <2>1 DEF StartEnds
<1>   QED BY <1>4, <1>5 DEF t, m

\* The first message is handled.
LEMMA TailTells ==
  ASSUME NEW s \in Seq(ToJoinerSet), s # <<>>, NEW before, NEW after
  PROVE  /\ Tells(s, before, after) =>
              Tells(Tail(s), IF Head(s).type = "topology" THEN Head(s).players ELSE before, after)
         /\ StartEnds(s) => StartEnds(Tail(s))
         /\ StartEnds(s) /\ Head(s).type = "topology" /\ Head(s).tag = "START_GAME" =>
              Topologies(Tail(s)) = {}
         /\ Topologies(s) = {} => Topologies(Tail(s)) = {}
<1>   DEFINE t == Tail(s)
             m == Head(s)
<1>1. /\ DOMAIN t = 1 .. Len(s) - 1 /\ m = s[1] /\ Len(s) \in Nat \ {0}
      /\ \A i \in 1 .. Len(s) - 1 : t[i] = s[i + 1]
      /\ DOMAIN s = 1 .. Len(s)
  OBVIOUS
<1>   HIDE DEF t, m
<1>2. \A i \in Topologies(t) : i \in Nat /\ i >= 1 /\ i + 1 \in Topologies(s) /\ t[i] = s[i + 1]
  BY <1>1 DEF Topologies
<1>3. \A k \in Topologies(s) : \/ k = 1 /\ m.type = "topology"
                               \/ k - 1 \in Topologies(t) /\ k \in Nat
  <2>1. ASSUME NEW k \in Topologies(s), k # 1 PROVE k - 1 \in Topologies(t) /\ k \in Nat
    <3>1. k - 1 \in DOMAIN t /\ (k - 1) + 1 = k /\ k \in Nat  BY <2>1, <1>1 DEF Topologies
    <3>2. t[k - 1] = s[k]  BY <3>1, <1>1
    <3>   QED BY <3>1, <3>2 DEF Topologies
  <2>2. ASSUME NEW k \in Topologies(s), k = 1 PROVE m.type = "topology"
    BY <2>2, <1>1 DEF Topologies
  <2>   QED BY <2>1, <2>2
<1>4. m.type = "topology" => 1 \in Topologies(s)
  BY <1>1 DEF Topologies
<1>5. ASSUME Tells(s, before, after)
      PROVE  Tells(t, IF m.type = "topology" THEN m.players ELSE before, after)
  <2>1. ASSUME NEW i \in Topologies(t), \A k \in Topologies(t) : k <= i PROVE t[i].players = after
    <3>1. ASSUME NEW k \in Topologies(s) PROVE k <= i + 1
      <4>1. CASE k = 1  BY <4>1, <1>2
      <4>2. CASE k - 1 \in Topologies(t) /\ k \in Nat
        <5>1. k - 1 <= i /\ i \in Nat  BY <4>2, <2>1, <1>2
        <5>   QED BY <4>2, <5>1
      <4>   QED BY <4>1, <4>2, <1>3
    <3>2. i + 1 \in Topologies(s) /\ t[i] = s[i + 1]  BY <1>2
    <3>   QED BY <3>1, <3>2, <1>5 DEF Tells, Topologies
  <2>2. ASSUME Topologies(t) = {}
        PROVE  after = IF m.type = "topology" THEN m.players ELSE before
    <3>1. CASE m.type = "topology"
      <4>1. Topologies(s) = {1}  BY <3>1, <2>2, <1>3, <1>4
      <4>2. s[1].players = after  BY <4>1, <1>5 DEF Tells, Topologies
      <4>   QED BY <4>2, <3>1, <1>1
    <3>2. CASE m.type # "topology"
      <4>1. Topologies(s) = {}  BY <3>2, <2>2, <1>3
      <4>   QED BY <4>1, <3>2, <1>5 DEF Tells, Topologies
    <3>   QED BY <3>1, <3>2
  <2>   QED BY <2>1, <2>2 DEF Tells, Topologies
<1>6. StartEnds(s) => StartEnds(t)
  <2>1. ASSUME StartEnds(s), NEW i \in Topologies(t), NEW k \in Topologies(t),
               t[i].tag = "START_GAME"
        PROVE  ~ i < k
    <3>1. ~ i + 1 < k + 1  BY <2>1, <1>2 DEF StartEnds
    <3>   QED BY <3>1, <1>2
  <2>   QED BY <2>1 DEF StartEnds
<1>7. ASSUME StartEnds(s), m.type = "topology", m.tag = "START_GAME" PROVE Topologies(t) = {}
  <2>1. ASSUME NEW i \in Topologies(t) PROVE FALSE
    <3>1. ~ 1 < i + 1  BY <1>1, <1>2, <1>4, <1>7 DEF StartEnds
    <3>   QED BY <3>1, <1>2
  <2>   QED BY <2>1
<1>8. Topologies(s) = {} => Topologies(t) = {}  BY <1>2
<1>   QED BY <1>5, <1>6, <1>7, <1>8 DEF t, m

\* What is on its way, as messages.
LEMMA ComingValue ==
  ASSUME Types, NEW c \in Joiners
  PROVE  /\ Coming(c) \in Seq(ToJoinerSet)
         /\ \A i \in DOMAIN Coming(c) : Coming(c)[i] \in OnWay(c)
         /\ toJoiner[c] \in Seq(ToJoinerSet) /\ client[c].outgoing \in Seq(ToJoinerSet)
<1>1. toJoiner[c] \in Seq(ToJoinerSet) /\ client[c].outgoing \in Seq(ToJoinerSet)
  BY DEF Types, ClientSet
<1>2. Plain("hello") \in ToJoinerSet  BY MessageFacts
<1>3. /\ Coming(c) \in Seq(ToJoinerSet) /\ ToSet(Coming(c)) = OnWay(c)
  <2>1. /\ toJoiner[c] \o client[c].outgoing \in Seq(ToJoinerSet)
        /\ ToSet(toJoiner[c] \o client[c].outgoing) = ToSet(toJoiner[c]) \cup ToSet(client[c].outgoing)
    BY <1>1, <1>2, ToSetConcat
  <2>   QED BY <2>1 DEF Coming, OnWay
<1>   QED BY <1>1, <1>3 DEF ToSet

\* While the gatherer gathers nobody has been told to start.
LEMMA GatheringStartLast ==
  ASSUME SessionInv, netState = "gathering", NEW c \in Joiners
  PROVE  /\ StartLast(c)
         /\ \A i \in Topologies(Coming(c)) : Coming(c)[i].tag # "START_GAME"
<1>1. ASSUME NEW i \in Topologies(Coming(c)), Coming(c)[i].tag = "START_GAME" PROVE FALSE
  <2>   DEFINE m == Coming(c)[i]
  <2>1. m \in ToJoinerSet /\ m \in OnWay(c) /\ m.type = "topology"
    BY ComingValue DEF SessionInv, Topologies
  <2>2. m.players \in Seq(PlayerSet) /\ m = Topology("START_GAME", m.players)
    BY <2>1, <1>1, MessageFacts
  <2>3. Told(c, m.players)  BY <2>1, <2>2 DEF Told
  <2>   QED BY <2>2, <2>3 DEF SessionInv, StartInv
<1>2. joiner[c].state # "starting"
  <2>1. joiner[c].players \in Seq(PlayerSet)  BY DEF SessionInv, Types, JoinerSet
  <2>   QED BY <2>1 DEF SessionInv, StartInv, Told
<1>   QED BY <1>1, <1>2 DEF StartLast, StartEnds

Gathering == SessionInv /\ netState = "gathering"
NobodyStarts == \A c \in Joiners : StartLast(c)

LEMMA GatheringNobodyStarts ==
  Gathering' => NobodyStarts'
<1>1. Gathering => NobodyStarts  BY GatheringStartLast DEF Gathering, NobodyStarts
<1>   QED BY <1>1, PTL

MembersJoin == Types /\ PlayersInv
JoinersOnly == Members(players) \subseteq Joiners

LEMMA MembersJoinNext ==
  MembersJoin' => JoinersOnly'
<1>1. MembersJoin => JoinersOnly  BY MembersAreJoiners DEF MembersJoin, JoinersOnly
<1>   QED BY <1>1, PTL

\* A joiner to which nothing of the kind comes.
Kept(c) ==
  /\ Plainer(Coming(c), Coming(c)')
  /\ joiner'[c] = joiner[c]
  /\ client'[c].connected => client[c].connected

LEMMA KeptUpToDate ==
  ASSUME Types, NEW c \in Joiners, Kept(c)
  PROVE  /\ StartLast(c) => StartLast(c)'
         /\ players' = players /\ UpToDate(c) => UpToDate(c)'
<1>1. Coming(c) \in Seq(ToJoinerSet)  BY ComingValue
<1>   DEFINE s == Coming(c)
             t == Coming(c)'
<1>2. /\ StartEnds(s) => StartEnds(t)
      /\ Topologies(s) = {} => Topologies(t) = {}
      /\ Tells(s, joiner[c].players, players) => Tells(t, joiner[c].players, players)
  BY <1>1, PlainerTells DEF Kept
<1>3. StartLast(c) => StartLast(c)'
  BY <1>2 DEF StartLast, StartEnds, Topologies, Kept
<1>4. players' = players /\ UpToDate(c) => UpToDate(c)'
  BY <1>2 DEF UpToDate, Kept, Tells
<1>   QED BY <1>3, <1>4

\* A part of what is on its way.
LEMMA ConcatEnds ==
  ASSUME NEW s \in Seq(ToJoinerSet), NEW t \in Seq(ToJoinerSet), StartEnds(s \o t)
  PROVE  StartEnds(s) /\ StartEnds(t)
<1>   DEFINE u == s \o t
<1>1. /\ DOMAIN u = 1 .. Len(s) + Len(t)
      /\ \A i \in 1 .. Len(s) : u[i] = s[i]
      /\ \A i \in 1 .. Len(t) : u[Len(s) + i] = t[i]
      /\ DOMAIN s = 1 .. Len(s) /\ Len(s) \in Nat
      /\ DOMAIN t = 1 .. Len(t) /\ Len(t) \in Nat
  OBVIOUS
<1>2. StartEnds(u)  OBVIOUS
<1>   HIDE DEF u
<1>3. \A i \in Topologies(s) : i \in Topologies(u) /\ u[i] = s[i]
  BY <1>1 DEF Topologies
<1>4. \A i \in Topologies(t) : Len(s) + i \in Topologies(u) /\ u[Len(s) + i] = t[i] /\ i \in Nat
  BY <1>1 DEF Topologies
<1>5. StartEnds(s)  BY <1>2, <1>3 DEF StartEnds
<1>6. ASSUME NEW i \in Topologies(t), NEW k \in Topologies(t), t[i].tag = "START_GAME"
      PROVE  ~ i < k
  <2>1. ~ Len(s) + i < Len(s) + k  BY <1>2, <1>4, <1>6 DEF StartEnds
  <2>   QED BY <2>1, <1>1, <1>4
<1>   QED BY <1>5, <1>6 DEF StartEnds

\* A joiner that has left is told nothing any more.
Cut(c) ==
  /\ HasLeft(c) /\ joiner'[c] = joiner[c]
  /\ StartEnds(Coming(c)) => StartEnds(Coming(c)')

LEMMA CutUpToDate ==
  ASSUME NEW c \in Joiners, Cut(c)
  PROVE  (StartLast(c) => StartLast(c)') /\ UpToDate(c)'
<1>1. joiner'[c].state \in {Gone, "cancelled"}  BY DEF Cut, HasLeft
<1>2. UpToDate(c)'  BY <1>1 DEF UpToDate, Gone
<1>3. StartLast(c) => StartLast(c)'
  BY <1>1 DEF Cut, StartLast, StartEnds, Topologies, Gone
<1>   QED BY <1>2, <1>3

\* All are kept, but those that have left.
LEMMA AllKept ==
  ASSUME Types, ToldInv, Setting' => Setting /\ players' = players, PlayersInv,
         \A c \in Joiners : Kept(c) \/ Cut(c)
  PROVE  ToldInv'
<1>1. ASSUME Setting' PROVE ToldInv'
  <2>1. Setting /\ players' = players  BY <1>1
  <2>2. Members(players) \subseteq Joiners  BY MembersAreJoiners
  <2>3. \A c \in Members(players') : UpToDate(c)'
    BY <2>1, <2>2, KeptUpToDate, CutUpToDate DEF ToldInv
  <2>4. \A c \in Joiners : StartLast(c)'
    BY <2>1, KeptUpToDate, CutUpToDate DEF ToldInv
  <2>   QED BY <2>3, <2>4 DEF ToldInv
<1>   QED BY <1>1 DEF ToldInv

\* What an enqueued message adds to each channel.
LEMMA EnqueueExact ==
  ASSUME NEW cl \in [Joiners -> ClientSet], NEW S, NEW message \in ToJoinerSet, NEW c \in Joiners
  PROVE  /\ Enqueue(cl, S, message)[c].connected = cl[c].connected
         /\ Enqueue(cl, S, message)[c].outgoing =
              IF c \in S /\ cl[c].connected THEN Append(cl[c].outgoing, message)
              ELSE cl[c].outgoing
<1>1. cl[c] \in ClientSet /\ cl[c].outgoing \in Seq(ToJoinerSet)  BY DEF ClientSet
<1>   DEFINE new == [cl[c] EXCEPT !.outgoing = Append(@, message)]
<1>2. new.connected = cl[c].connected /\ new.outgoing = Append(cl[c].outgoing, message)
  BY <1>1 DEF ClientSet
<1>3. Enqueue(cl, S, message)[c] = IF c \in S /\ cl[c].connected THEN new ELSE cl[c]
  BY DEF Enqueue
<1>   HIDE DEF new
<1>   QED BY <1>2, <1>3

LEMMA StateSetConnected ==
  ASSUME NEW cl \in [Joiners -> ClientSet], NEW c \in Joiners, NEW state, NEW d \in Joiners
  PROVE  /\ [cl EXCEPT ![c].state = state][d].connected = cl[d].connected
         /\ [cl EXCEPT ![c].state = state][d].outgoing = cl[d].outgoing
<1>1. [cl EXCEPT ![c].state = state] = [cl EXCEPT ![c] = [cl[c] EXCEPT !.state = state]]
  BY Zenon
<1>   DEFINE r == [cl[c] EXCEPT !.state = state]
<1>2. r.connected = cl[c].connected /\ r.outgoing = cl[c].outgoing
  BY DEF ClientSet
<1>   HIDE DEF r
<1>3. [cl EXCEPT ![c] = r][d] = IF d = c THEN r ELSE cl[d]  OBVIOUS
<1>   QED BY <1>1, <1>2, <1>3 DEF r

\* Everybody in the topology is told of it.
ToldOf(c, tag) ==
  /\ joiner'[c] = joiner[c]
  /\ \/ ~ client'[c].connected
     \/ \E s \in Seq(ToJoinerSet) : Coming(c)' = Append(s, Topology(tag, players'))

LEMMA ToldUpToDate ==
  ASSUME NEW c \in Joiners, NEW tag \in Tags, players' \in Seq(PlayerSet), ToldOf(c, tag)
  PROVE  UpToDate(c)'
<1>1. CASE ~ client'[c].connected  BY <1>1 DEF UpToDate
<1>2. ASSUME NEW s \in Seq(ToJoinerSet), Coming(c)' = Append(s, Topology(tag, players'))
      PROVE  UpToDate(c)'
  <2>1. Tells(Append(s, Topology(tag, players')), joiner[c].players, players')
    BY <1>2, ToldTells
  <2>   QED BY <2>1, <1>2 DEF UpToDate, ToldOf, Tells
<1>   QED BY <1>1, <1>2 DEF ToldOf

\* While the gatherer gathers, what is to be shown of its steps.
LEMMA GatheringTold ==
  ASSUME SessionInv, SessionInv', ToldInv, netState = "gathering", netState' = "gathering",
         \A c \in Members(players') :
           \/ players' = players /\ Kept(c)
           \/ \E tag \in Tags : ToldOf(c, tag)
           \/ joiner'[c] = joiner[c] /\ HasLeft(c)
  PROVE  ToldInv'
<1>1. \A c \in Joiners : StartLast(c)'  BY GatheringNobodyStarts DEF Gathering, NobodyStarts
<1>2. ASSUME NEW c \in Members(players') PROVE UpToDate(c)'
  <2>1. c \in Joiners /\ players' \in Seq(PlayerSet) /\ Types
    BY MembersJoinNext DEF MembersJoin, JoinersOnly, SessionInv, Types
  <2>2. CASE players' = players /\ Kept(c)
    <3>1. UpToDate(c)  BY <1>2, <2>2 DEF ToldInv, Setting
    <3>   QED BY <2>1, <2>2, <3>1, KeptUpToDate
  <2>3. CASE \E tag \in Tags : ToldOf(c, tag)
    BY <2>1, <2>3, ToldUpToDate
  <2>4. CASE joiner'[c] = joiner[c] /\ HasLeft(c)
    BY <2>4 DEF UpToDate, HasLeft, Gone
  <2>   QED BY <1>2, <2>2, <2>3, <2>4
<1>   QED BY <1>1, <1>2 DEF ToldInv

\* A channel in which nothing changes but whether it is connected.
LEMMA SameKept ==
  ASSUME NEW c \in Joiners, toJoiner'[c] = toJoiner[c], client'[c].outgoing = client[c].outgoing,
         joiner'[c] = joiner[c], client'[c].connected => client[c].connected
  PROVE  Kept(c)
BY DEF Kept, Plainer, Coming

LEMMA SameConnected ==
  ASSUME NEW c \in Joiners, toJoiner'[c] = toJoiner[c], client'[c] = client[c], joiner'[c] = joiner[c]
  PROVE  Kept(c)
BY DEF Kept, Plainer, Coming

\* What Distribute does, in an action that may do more to the clients' states.
LEMMA DistributedTold ==
  ASSUME NEW c \in Joiners, c \in Members(players'), NEW tag \in Tags, players' \in Seq(PlayerSet),
         NEW cl \in [Joiners -> ClientSet], toJoiner'[c] \in Seq(ToJoinerSet),
         client'[c].connected = Distribute(cl, players', tag)[c].connected,
         client'[c].outgoing = Distribute(cl, players', tag)[c].outgoing,
         joiner'[c] = joiner[c]
  PROVE  ToldOf(c, tag)
<1>   DEFINE m == Topology(tag, players')
             s == toJoiner'[c]
             t == cl[c].outgoing
<1>1. m \in ToJoinerSet  BY MessageFacts
<1>2. t \in Seq(ToJoinerSet)  BY DEF ClientSet
<1>3. /\ client'[c].connected = cl[c].connected
      /\ client'[c].outgoing = IF cl[c].connected THEN Append(t, m) ELSE t
  BY <1>1, EnqueueExact DEF Distribute
<1>   HIDE DEF m, t
<1>4. s \o t \in Seq(ToJoinerSet) /\ s \o Append(t, m) = Append(s \o t, m)
  <2>1. s \in Seq(ToJoinerSet)  OBVIOUS
  <2>   HIDE DEF s
  <2>2. s \o t \in Seq(ToJoinerSet)  BY <1>2, <2>1
  <2>   QED BY <1>1, <1>2, <2>1, <2>2, ConcatAppend
<1>5. CASE ~ cl[c].connected  BY <1>3, <1>5 DEF ToldOf
<1>6. CASE cl[c].connected
  <2>1. Coming(c)' = Append(s \o t, m)  BY <1>3, <1>4, <1>6 DEF Coming
  <2>   QED BY <1>4, <2>1 DEF ToldOf, m
<1>   QED BY <1>5, <1>6

LEMMA DropAndEraseTold ==
  ASSUME SessionInv, SessionInv', ToldInv, netState = "gathering", NEW c \in Joiners,
         NEW place, NEW loopEnd, DropAndErase(c, place, loopEnd)
  PROVE  ToldInv'
<1>   DEFINE told == IF players' # players
                     THEN Distribute(client, players', "DROPPED_PLAYER") ELSE client
<1>1. /\ client' = Deleted(told, {c})
      /\ netState' = AfterDistribution(client', players', netState) \/ netState' = "crashed"
      /\ UNCHANGED <<joiner, toJoiner>>
  BY DEF DropAndErase
<1>2. /\ client \in [Joiners -> ClientSet] /\ players' \in Seq(PlayerSet)
      /\ client' \in [Joiners -> ClientSet] /\ toJoiner' \in [Joiners -> Seq(ToJoinerSet)]
      /\ Members(players') \subseteq Joiners
  BY MembersJoinNext DEF MembersJoin, JoinersOnly, SessionInv, Types
<1>3. client'[c].connected = FALSE /\ \A d \in Joiners : d # c => client'[d] = told[d]
  BY <1>1 DEF Deleted, NoClient
<1>   HIDE DEF told
<1>4. CASE netState' # "gathering"
  BY <1>1, <1>4 DEF AfterDistribution, ToldInv, Setting
<1>5. CASE netState' = "gathering"
  <2>1. ASSUME NEW d \in Members(players')
        PROVE  (players' = players /\ Kept(d)) \/ \E tag \in Tags : ToldOf(d, tag)
    <3>1. d \in Joiners  BY <1>2, <2>1
    <3>2. CASE d = c  BY <1>1, <1>3, <3>2 DEF ToldOf, Tags
    <3>3. CASE d # c /\ players' = players
      BY <1>1, <1>3, <3>1, <3>3, SameConnected DEF told
    <3>4. CASE d # c /\ players' # players
      <4>1. client'[d] = Distribute(client, players', "DROPPED_PLAYER")[d]
        BY <1>3, <3>1, <3>4 DEF told
      <4>2. ToldOf(d, "DROPPED_PLAYER")
        BY <1>1, <1>2, <2>1, <3>1, <4>1, DistributedTold DEF Tags
      <4>   QED BY <4>2 DEF Tags
    <3>   QED BY <3>2, <3>3, <3>4
  <2>   QED BY <1>5, <2>1, GatheringTold
<1>   QED BY <1>4, <1>5

LEMMA DropTold ==
  ASSUME SessionInv, SessionInv', ToldInv, NEW c \in Joiners, VisitLost(c) PROVE ToldInv'
BY DropAndEraseTold DEF VisitLost

LEMMA CheckForNewJoinerTold ==
  ASSUME SessionInv, SessionInv', ToldInv, NewClients, CheckForNewJoiner PROVE ToldInv'
<1>1. /\ netState = "gathering" /\ netState' = "gathering" /\ players' = players
      /\ UNCHANGED <<joiner, toJoiner>>
  BY DEF CheckForNewJoiner
<1>2. \A c \in Joiners : client[c].state = "awaiting_map" => client'[c] = client[c]
  <2>1. CASE client' = client  BY <2>1
  <2>2. ASSUME NEW c \in Joiners, NEW state \in NewStates, client[c].state = "none",
               client' = [client EXCEPT ![c] = [state |-> state, connected |-> TRUE,
                                                outgoing |-> <<Plain("hello")>>]]
        PROVE  \A d \in Joiners : client[d].state = "awaiting_map" => client'[d] = client[d]
    BY <2>2 DEF SessionInv, Types
  <2>   QED BY <2>1, <2>2, JoinerArrives
<1>3. ASSUME NEW c \in Members(players') PROVE Kept(c)
  <2>1. c \in Joiners /\ client[c].state = "awaiting_map"
    BY <1>1, <1>3, MembersAreJoiners DEF SessionInv, ClientsInv
  <2>   QED BY <1>1, <1>2, <2>1, SameConnected
<1>   QED BY <1>1, <1>3, GatheringTold

LEMMA ShowTold ==
  ASSUME SessionInv, SessionInv', ToldInv, Show PROVE ToldInv'
<1>   DEFINE found == {d \in Joiners : client[d].state \in {"connected_but_not_yet_shown", "disconnect"}}
             c == CHOOSE d \in found : \A e \in found : d <= e
<1>1. netState = "gathering"  BY DEF Show
<1>2. CASE found = {}
  <2>1. netState' = netState /\ UNCHANGED <<players, client, joiner, toJoiner>>  BY <1>2 DEF Show
  <2>2. \A d \in Members(players') : Kept(d)
    BY <2>1, MembersAreJoiners, SameConnected DEF SessionInv
  <2>   QED BY <1>1, <2>1, <2>2, GatheringTold
<1>3. CASE found # {}
  <2>1. c \in Joiners
    <3>1. found \subseteq Nat  BY SessionAssumption DEF Joiners
    <3>2. \E d \in found : \A e \in found : d <= e
      <4>   HIDE DEF found
      <4>   QED BY <1>3, <3>1, Least
    <3>3. c \in found
      <4>   HIDE DEF found
      <4>   QED BY <3>2
    <3>   QED BY <3>3
  <2>2. \/ /\ client' = [client EXCEPT ![c].state = "connected"]
           /\ UNCHANGED <<netState, players, joiner, toJoiner>>
        \/ DropAndErase(c, Showing, 0)
    BY <1>3, Zenon DEF Show
  <2>   HIDE DEF c
  <2>3. CASE DropAndErase(c, Showing, 0)
    BY <1>1, <2>1, <2>3, DropAndEraseTold
  <2>4. CASE /\ client' = [client EXCEPT ![c].state = "connected"]
             /\ UNCHANGED <<netState, players, joiner, toJoiner>>
    <3>1. client \in [Joiners -> ClientSet]  BY DEF SessionInv, Types
    <3>2. \A d \in Joiners : /\ client'[d].connected = client[d].connected
                             /\ client'[d].outgoing = client[d].outgoing
      BY <2>1, <2>4, <3>1, StateSetConnected
    <3>3. \A d \in Members(players') : Kept(d)
      BY <2>4, <3>2, MembersAreJoiners, SameKept DEF SessionInv
    <3>   QED BY <1>1, <2>4, <3>3, GatheringTold
  <2>   QED BY <2>2, <2>3, <2>4
<1>   QED BY <1>2, <1>3

LEMMA GatherPlayerTold ==
  ASSUME SessionInv, SessionInv', ToldInv, NEW c \in Joiners, GatherPlayer(c) PROVE ToldInv'
<1>   DEFINE m == [type |-> "join", id |-> nextIdentifier]
             asked == Enqueue(client, {c}, m)
<1>1. /\ netState = "gathering" /\ c \in listed /\ UNCHANGED <<players, joiner, toJoiner>>
  BY DEF GatherPlayer
<1>2. client[c].state = "connected"
  BY <1>1 DEF SessionInv, ClientsInv, Setting
<1>3. /\ client' = [asked EXCEPT ![c].state = "awaiting_accept_join"] /\ netState' = netState
  BY <1>2, Zenon DEF GatherPlayer, Known, Gone
<1>4. m \in ToJoinerSet /\ client \in [Joiners -> ClientSet]
  BY MessageFacts DEF SessionInv, Types, Join
<1>   HIDE DEF m
<1>5. asked \in [Joiners -> ClientSet]  BY <1>4, EnqueueValue
<1>6. ASSUME NEW d \in Joiners, d # c
      PROVE  client'[d].connected = client[d].connected /\ client'[d].outgoing = client[d].outgoing
  <2>1. asked[d].connected = client[d].connected /\ asked[d].outgoing = client[d].outgoing
    BY <1>4, <1>6, EnqueueExact
  <2>   HIDE DEF asked
  <2>   QED BY <1>3, <1>5, <2>1, StateSetConnected
<1>7. ASSUME NEW d \in Members(players') PROVE Kept(d)
  <2>1. d \in Joiners /\ d # c
    BY <1>1, <1>2, <1>7, MembersAreJoiners DEF SessionInv, ClientsInv
  <2>   QED BY <1>1, <1>6, <2>1, SameKept
<1>   QED BY <1>1, <1>3, <1>7, GatheringTold

LEMMA StartGameTold ==
  ASSUME SessionInv, SessionInv', ToldInv, StartGame PROVE ToldInv'
<1>   DEFINE cl == Deleted(client, listed)
             m == Topology("START_GAME", players')
<1>1. /\ netState = "gathering" /\ client' = Distribute(cl, players', "START_GAME")
      /\ UNCHANGED <<joiner, toJoiner>>
  BY DEF StartGame
<1>2. /\ client \in [Joiners -> ClientSet] /\ cl \in [Joiners -> ClientSet]
      /\ toJoiner' \in [Joiners -> Seq(ToJoinerSet)] /\ players' \in Seq(PlayerSet)
      /\ m \in ToJoinerSet
      /\ Members(players') \subseteq Joiners
  BY DeletedValue, MessageFacts, MembersJoinNext DEF MembersJoin, JoinersOnly, SessionInv, Types, Tags
<1>3. \A c \in Members(players') : UpToDate(c)'
  BY <1>1, <1>2, DistributedTold, ToldUpToDate DEF Tags
<1>4. ASSUME NEW c \in Joiners PROVE StartLast(c)'
  <2>   DEFINE s == toJoiner[c]
               t == cl[c].outgoing
  <2>1. joiner'[c].state # "starting"
    <3>1. joiner[c].players \in Seq(PlayerSet)  BY DEF SessionInv, Types, JoinerSet
    <3>   QED BY <1>1, <3>1 DEF SessionInv, StartInv, Told
  <2>2. /\ s \in Seq(ToJoinerSet) /\ t \in Seq(ToJoinerSet)
        /\ t = client[c].outgoing \/ t = <<>>
    <3>1. s \in Seq(ToJoinerSet) /\ t \in Seq(ToJoinerSet)  BY <1>2 DEF SessionInv, Types, ClientSet
    <3>2. cl[c] = client[c] \/ cl[c].outgoing = <<>>  BY DEF Deleted, NoClient
    <3>   QED BY <3>1, <3>2
  <2>3. client'[c].outgoing = IF c \in Members(players') /\ cl[c].connected THEN Append(t, m) ELSE t
    BY <1>1, <1>2, EnqueueExact DEF Distribute
  <2>4. s \o t \in Seq(ToJoinerSet) /\ s \o Append(t, m) = Append(s \o t, m)
    <3>   HIDE DEF s, t, m
    <3>1. s \o t \in Seq(ToJoinerSet)  BY <2>2
    <3>   QED BY <3>1, <1>2, <2>2, ConcatAppend
  <2>5. \A i \in Topologies(s \o t) : (s \o t)[i].tag # "START_GAME"
    <3>1. CASE t = client[c].outgoing
      BY <1>1, <3>1, GatheringStartLast DEF Coming
    <3>2. CASE t = <<>>
      <4>   DEFINE u == s \o t
      <4>1. ASSUME NEW i \in Topologies(u), u[i].tag = "START_GAME" PROVE FALSE
        <5>1. u = s  BY <2>2, <3>2
        <5>2. i \in DOMAIN s /\ s[i].type = "topology" /\ s[i].tag = "START_GAME"
          BY <4>1, <5>1 DEF Topologies
        <5>3. s[i] \in ToJoinerSet /\ s[i] \in OnWay(c)
          BY <2>2, <5>2 DEF OnWay, ToSet
        <5>   HIDE DEF s
        <5>4. s[i].players \in Seq(PlayerSet) /\ s[i] = Topology("START_GAME", s[i].players)
          BY <5>2, <5>3, MessageFacts
        <5>5. Told(c, s[i].players)  BY <5>3, <5>4 DEF Told
        <5>   QED BY <1>1, <5>4, <5>5 DEF SessionInv, StartInv
      <4>   QED BY <4>1
    <3>   QED BY <2>2, <3>1, <3>2
  <2>6. StartEnds(Coming(c)')
    <3>   DEFINE u == s \o t
    <3>1. Coming(c)' = u \/ Coming(c)' = Append(u, m)
      BY <1>1, <2>3, <2>4 DEF Coming
    <3>2. u \in Seq(ToJoinerSet) /\ \A i \in Topologies(u) : u[i].tag # "START_GAME"
      BY <2>4, <2>5
    <3>   HIDE DEF u
    <3>3. StartEnds(u)  BY <3>2 DEF StartEnds
    <3>4. StartEnds(Append(u, m))  BY <1>2, <3>2, ToldTells DEF Tags
    <3>   QED BY <3>1, <3>3, <3>4
  <2>   QED BY <2>1, <2>6 DEF StartLast, StartEnds, Topologies
<1>   QED BY <1>3, <1>4 DEF ToldInv

LEMMA DistributeGameDataTold ==
  ASSUME SessionInv, SessionInv', ToldInv, DistributeGameData PROVE ToldInv'
<1>   DEFINE M == Members(players)
             m == Plain("gameData")
             cl == Enqueue(client, M, m)
<1>1. /\ netState = "starting" /\ netState' = "active" /\ UNCHANGED <<players, joiner>>
      /\ toJoiner' = [j \in Joiners |-> IF j \in M /\ ~HasLeft(j)
                                        THEN toJoiner[j] \o cl[j].outgoing ELSE toJoiner[j]]
      /\ client' = [c \in Joiners |-> IF c \in M
                                      THEN [client[c] EXCEPT !.outgoing = <<>>, !.state = "ingame"]
                                      ELSE client[c]]
  BY DEF DistributeGameData
<1>2. /\ client \in [Joiners -> ClientSet] /\ m \in ToJoinerSet /\ m.type # "topology"
      /\ toJoiner \in [Joiners -> Seq(ToJoinerSet)]
  BY MessageFacts DEF SessionInv, Types
<1>3. ASSUME NEW r \in ClientSet
      PROVE  LET new == [r EXCEPT !.outgoing = <<>>, !.state = "ingame"]
             IN  new.connected = r.connected /\ new.outgoing = <<>>
  <2>1. r = [state |-> r.state, connected |-> r.connected, outgoing |-> r.outgoing]
    BY DEF ClientSet
  <2>   QED BY <2>1, Zenon
<1>   HIDE DEF m
<1>4. ASSUME NEW c \in Joiners PROVE Kept(c) \/ Cut(c)
  <2>   DEFINE s == toJoiner[c]
               t == client[c].outgoing
  <2>1. s \in Seq(ToJoinerSet) /\ t \in Seq(ToJoinerSet) /\ client[c] \in ClientSet
    BY <1>2 DEF ClientSet
  <2>2. CASE c \notin M
    <3>1. toJoiner'[c] = toJoiner[c] /\ client'[c] = client[c]  BY <1>1, <2>2
    <3>   QED BY <1>1, <3>1, SameConnected
  <2>3. CASE c \in M
    <3>1. client'[c].connected = client[c].connected /\ client'[c].outgoing = <<>>
      BY <1>1, <1>3, <2>1, <2>3
    <3>2. cl[c].outgoing = IF client[c].connected THEN Append(t, m) ELSE t
      BY <1>2, <2>3, EnqueueExact
    <3>3. CASE HasLeft(c)
      <4>1. toJoiner'[c] = s  BY <1>1, <3>3
      <4>2. Coming(c)' = s
        <5>   HIDE DEF s
        <5>1. s \o <<>> = s  BY <2>1
        <5>   QED BY <3>1, <4>1, <5>1, Zenon DEF Coming
      <4>3. StartEnds(Coming(c)) => StartEnds(s)  BY <2>1, ConcatEnds DEF Coming
      <4>   QED BY <1>1, <3>3, <4>2, <4>3 DEF Cut
    <3>4. CASE ~ HasLeft(c)
      <4>   DEFINE u == s \o t
      <4>1. toJoiner'[c] = s \o (IF client[c].connected THEN Append(t, m) ELSE t)
        BY <1>1, <2>3, <3>2, <3>4
      <4>   HIDE DEF s, t
      <4>2. u \in Seq(ToJoinerSet) /\ s \o Append(t, m) = Append(u, m)
        BY <1>2, <2>1, ConcatAppend
      <4>3. Append(u, m) \in Seq(ToJoinerSet)  BY <1>2, <4>2
      <4>4. toJoiner'[c] \in {u, Append(u, m)}  BY <4>1, <4>2
      <4>5. toJoiner'[c] \in Seq(ToJoinerSet)  BY <4>2, <4>3, <4>4
      <4>6. Coming(c)' = toJoiner'[c]
        <5>1. \A w \in Seq(ToJoinerSet) : w \o <<>> = w  OBVIOUS
        <5>   QED BY <3>1, <4>5, <5>1 DEF Coming
      <4>7. Coming(c) = u  BY DEF Coming, s, t
      <4>   QED BY <1>1, <1>2, <3>1, <4>4, <4>6, <4>7 DEF Kept, Plainer
    <3>   QED BY <3>3, <3>4
  <2>   QED BY <2>2, <2>3
<1>   QED BY <1>1, <1>4, AllKept DEF SessionInv, Setting

\* A pump sends what is enqueued, or finds out that nobody receives it.
LEMMA PumpTold ==
  ASSUME SessionInv, SessionInv', ToldInv, Setting, NEW c \in Joiners, Pump(c), joiner' = joiner
  PROVE  ToldInv'
<1>   DEFINE sent == [client EXCEPT ![c].outgoing = <<>>]
             lost == [sent EXCEPT ![c].connected = FALSE]
<1>1. /\ client \in [Joiners -> ClientSet] /\ toJoiner \in [Joiners -> Seq(ToJoinerSet)]
      /\ toJoiner' \in [Joiners -> Seq(ToJoinerSet)] /\ client[c] \in ClientSet
      /\ players' \in Seq(PlayerSet)
  BY DEF SessionInv, Types
<1>2. /\ sent \in [Joiners -> ClientSet] /\ lost \in [Joiners -> ClientSet]
      /\ sent[c].outgoing = <<>> /\ lost[c].outgoing = <<>>
      /\ sent[c].connected = client[c].connected /\ ~ lost[c].connected
      /\ \A d \in Joiners : d # c => sent[d] = client[d] /\ lost[d] = client[d]
  <2>   DEFINE r == [client[c] EXCEPT !.outgoing = <<>>]
               q == [r EXCEPT !.connected = FALSE]
  <2>1. sent = [client EXCEPT ![c] = r]  BY Zenon
  <2>2. sent[c] = r  BY <1>1, <2>1
  <2>3. lost = [sent EXCEPT ![c] = [sent[c] EXCEPT !.connected = FALSE]]  BY Zenon
  <2>4. lost = [sent EXCEPT ![c] = q]  BY <2>2, <2>3
  <2>5. r \in ClientSet /\ r.outgoing = <<>>
    BY <1>1, EmptiedValue
  <2>6. r.connected = client[c].connected
    BY <1>1 DEF ClientSet
  <2>   HIDE DEF r
  <2>7. q \in ClientSet /\ q.outgoing = r.outgoing
    BY <2>5, CutOffValue
  <2>8. ~ q.connected
    BY <2>5 DEF ClientSet
  <2>   HIDE DEF r, q, sent, lost
  <2>   QED BY <1>1, <2>1, <2>4, <2>5, <2>6, <2>7, <2>8
<1>   HIDE DEF sent, lost
<1>3. /\ \A d \in Joiners : d # c => toJoiner'[d] = toJoiner[d]
      /\ toJoiner'[c] = IF HasLeft(c) THEN <<>> ELSE Coming(c)
  <2>1. toJoiner' = [toJoiner EXCEPT ![c] = IF HasLeft(c) THEN <<>> ELSE @ \o client[c].outgoing]
    BY DEF Pump
  <2>   QED BY <1>1, <2>1 DEF Coming
\* Nothing is added to the channels but what is no topology.
<1>4. ASSUME Setting' => players' = players,
             \A d \in Joiners : d # c => /\ client'[d].outgoing = client[d].outgoing
                                         /\ client'[d].connected = client[d].connected,
             client'[c].connected => client[c].connected,
             Plainer(<<>>, client'[c].outgoing)
      PROVE  ToldInv'
  <2>1. ASSUME NEW d \in Joiners, d # c PROVE Kept(d)
    BY <1>3, <1>4, <2>1, SameKept
  <2>2. Kept(c) \/ Cut(c)
    <3>   DEFINE new == client'[c].outgoing
    <3>1. CASE HasLeft(c)
      <4>1. new \in Seq(ToJoinerSet)  BY DEF SessionInv, Types, ClientSet
      <4>   HIDE DEF new
      <4>2. <<>> \in Seq(ToJoinerSet) /\ <<>> \o new = new /\ DOMAIN <<>> = {}  BY <4>1
      <4>3. StartEnds(<<>>)  BY <4>2 DEF StartEnds, Topologies
      <4>4. StartEnds(new)  BY <1>4, <4>2, <4>3, PlainerTells DEF new
      <4>5. Coming(c)' = new  BY <1>3, <3>1, <4>2 DEF Coming, new
      <4>   QED BY <3>1, <4>4, <4>5 DEF Cut
    <3>2. CASE ~ HasLeft(c)
      <4>   DEFINE s == Coming(c)
      <4>1. s \in Seq(ToJoinerSet)  BY ComingValue DEF SessionInv
      <4>2. Coming(c)' = s \o new  BY <1>3, <3>2 DEF Coming
      <4>   HIDE DEF s, new
      <4>3. s \o <<>> = s  BY <4>1
      <4>4. \A m \in ToJoinerSet : s \o Append(<<>>, m) = Append(s, m)
        <5>1. <<>> \in Seq(ToJoinerSet)  OBVIOUS
        <5>2. \A m \in ToJoinerSet : s \o Append(<<>>, m) = Append(s \o <<>>, m)
          BY <4>1, <5>1, ConcatAppend
        <5>   QED BY <4>3, <5>2
      <4>5. Plainer(s, s \o new)  BY <1>4, <4>3, <4>4 DEF Plainer, new
      <4>   QED BY <1>4, <4>2, <4>5 DEF Kept, s
    <3>   QED BY <3>1, <3>2
  <2>   QED BY <1>4, <2>1, <2>2, AllKept DEF SessionInv
<1>5. Plainer(<<>>, <<>>)  BY DEF Plainer
<1>6. ASSUME NEW cl \in {sent, lost}, client' = cl, Setting' => players' = players PROVE ToldInv'
  BY <1>2, <1>4, <1>5, <1>6
<1>7. ASSUME NEW cl \in {sent, lost}, NEW message \in ToGathererSet, Handle(c, cl, message)
      PROVE  ToldInv'
  <2>1. cl \in [Joiners -> ClientSet]  BY <1>2
  <2>2. CASE JoinerInfo(c, cl)
    <3>1. CASE client' = cl  BY <1>6, <2>2, <3>1 DEF JoinerInfo
    <3>2. CASE client' = [Enqueue(cl, {c}, Plain("capabilities"))
                            EXCEPT ![c].state = "awaiting_capabilities"]
      <4>   DEFINE asked == Enqueue(cl, {c}, Plain("capabilities"))
      <4>1. /\ Plain("capabilities") \in ToJoinerSet
            /\ Plain("capabilities").type # "topology"
        BY MessageFacts DEF Plain
      <4>2. asked \in [Joiners -> ClientSet]  BY <2>1, <4>1, EnqueueValue
      <4>3. ASSUME NEW d \in Joiners
            PROVE  /\ client'[d].connected = cl[d].connected
                   /\ client'[d].outgoing = IF d = c /\ cl[d].connected
                        THEN Append(cl[d].outgoing, Plain("capabilities")) ELSE cl[d].outgoing
        <5>1. /\ asked[d].connected = cl[d].connected
              /\ asked[d].outgoing = IF d \in {c} /\ cl[d].connected
                   THEN Append(cl[d].outgoing, Plain("capabilities")) ELSE cl[d].outgoing
          BY <2>1, <4>1, EnqueueExact
        <5>   HIDE DEF asked
        <5>2. client'[d].connected = asked[d].connected /\ client'[d].outgoing = asked[d].outgoing
          BY <3>2, <4>2, StateSetConnected DEF asked
        <5>   QED BY <5>1, <5>2
      <4>   HIDE DEF asked
      <4>4. Plainer(<<>>, client'[c].outgoing)
        BY <1>2, <4>1, <4>3 DEF Plainer
      <4>5. players' = players  BY <2>2 DEF JoinerInfo
      <4>6. client'[c].connected => client[c].connected  BY <1>2, <4>3
      <4>7. \A d \in Joiners : d # c => /\ client'[d].outgoing = client[d].outgoing
                                        /\ client'[d].connected = client[d].connected
        BY <1>2, <4>3
      <4>   QED BY <1>4, <4>4, <4>5, <4>6, <4>7
    <3>   QED BY <2>2, <3>1, <3>2 DEF JoinerInfo
  <2>3. CASE CapabilitiesReply(c, cl)
    <3>1. players' = players  BY <2>3 DEF CapabilitiesReply
    <3>2. CASE client' = cl  BY <1>6, <3>1, <3>2
    <3>3. ASSUME NEW state, client' = [cl EXCEPT ![c].state = state] PROVE ToldInv'
      <4>1. \A d \in Joiners : /\ client'[d].connected = cl[d].connected
                               /\ client'[d].outgoing = cl[d].outgoing
        BY <2>1, <3>3, StateSetConnected
      <4>   QED BY <1>2, <1>4, <1>5, <3>1, <4>1
    <3>   QED BY <2>3, <3>2, <3>3, Zenon DEF CapabilitiesReply
  <2>4. ASSUME NEW id \in Nat, AcceptJoin(c, cl, id) PROVE ToldInv'
    <3>1. CASE client' = cl /\ UNCHANGED players  BY <1>6, <3>1
    <3>2. CASE /\ players' = Append(players, Player(c, id))
               /\ netState' = IF netState = "gathering"
                              THEN AfterDistribution(cl, players', netState) ELSE "aborted"
               /\ client' = [Distribute(cl, players', "NEW_PLAYER") EXCEPT ![c].state = "awaiting_map"]
      <4>1. CASE ~ Setting'  BY <4>1 DEF ToldInv
      <4>2. CASE Setting'
        <5>1. netState = "gathering" /\ netState' = "gathering"
          BY <3>2, <4>2 DEF Setting, AfterDistribution
        <5>   DEFINE told == Distribute(cl, players', "NEW_PLAYER")
        <5>2. told \in [Joiners -> ClientSet]
          BY <1>1, <2>1, MessageFacts, EnqueueValue DEF Distribute, Tags
        <5>3. ASSUME NEW d \in Joiners
              PROVE  client'[d].connected = told[d].connected /\ client'[d].outgoing = told[d].outgoing
          <6>   HIDE DEF told
          <6>   QED BY <3>2, <5>2, StateSetConnected DEF told
        <5>4. ASSUME NEW d \in Members(players') PROVE ToldOf(d, "NEW_PLAYER")
          <6>1. d \in Joiners  BY MembersJoinNext DEF MembersJoin, JoinersOnly, SessionInv
          <6>2. "NEW_PLAYER" \in Tags /\ toJoiner'[d] \in Seq(ToJoinerSet)  BY <1>1, <6>1 DEF Tags
          <6>   QED BY <1>1, <2>1, <5>3, <6>1, <6>2, DistributedTold
        <5>   QED BY <5>1, <5>4, GatheringTold DEF Tags
      <4>   QED BY <4>1, <4>2
    <3>   QED BY <2>4, <3>1, <3>2, Zenon DEF AcceptJoin
  <2>5. message.type = "accept" => message.id \in Nat  BY MessageFacts
  <2>   QED BY <1>7, <2>2, <2>3, <2>4, <2>5 DEF Handle
<1>8. toGatherer[c] # <<>> => Head(toGatherer[c]) \in ToGathererSet
  BY DEF SessionInv, Types
<1>9. \/ toGatherer[c] # <<>> /\ \E cl \in {sent, lost} : Handle(c, cl, Head(toGatherer[c]))
      \/ (\E cl \in {sent, lost} : client' = cl) /\ UNCHANGED players
  BY DEF Pump, sent, lost
<1>   QED BY <1>6, <1>7, <1>8, <1>9

\* A joiner's step.
LEMMA OthersKept ==
  ASSUME SessionInv, ToldInv, NEW j \in Joiners, UNCHANGED gathererVars,
         \A d \in Joiners : d # j => joiner'[d] = joiner[d] /\ toJoiner'[d] = toJoiner[d],
         StartLast(j) => StartLast(j)',
         j \in Members(players) /\ UpToDate(j) /\ StartLast(j) => UpToDate(j)'
  PROVE  ToldInv'
<1>1. UNCHANGED <<netState, players, client>>  BY DEF gathererVars
<1>2. ASSUME Setting' PROVE ToldInv'
  <2>1. Setting  BY <1>1, <1>2 DEF Setting
  <2>2. Members(players) \subseteq Joiners  BY MembersAreJoiners DEF SessionInv
  <2>3. ASSUME NEW d \in Joiners, d # j
        PROVE  (StartLast(d) => StartLast(d)') /\ (UpToDate(d) => UpToDate(d)')
    <3>1. Kept(d)  BY <1>1, <2>3, SameConnected
    <3>   QED BY <1>1, <3>1, KeptUpToDate DEF SessionInv
  <2>4. \A c \in Members(players') : UpToDate(c)'
    BY <1>1, <2>1, <2>2, <2>3 DEF ToldInv
  <2>5. \A c \in Joiners : StartLast(c)'
    BY <2>1, <2>3 DEF ToldInv
  <2>   QED BY <2>4, <2>5 DEF ToldInv
<1>   QED BY <1>2 DEF ToldInv

LEMMA TailConcat ==
  ASSUME NEW S, NEW s \in Seq(S), s # <<>>, NEW t \in Seq(S)
  PROVE  s \o t # <<>> /\ Head(s \o t) = Head(s) /\ Tail(s \o t) = Tail(s) \o t
<1>   DEFINE u == s \o t
             a == Tail(s)
             v == a \o t
             w == Tail(u)
<1>1. /\ u \in Seq(S) /\ Len(u) = Len(s) + Len(t)
      /\ \A i \in 1 .. Len(s) : u[i] = s[i]
      /\ \A i \in Len(s) + 1 .. Len(s) + Len(t) : u[i] = t[i - Len(s)]
  BY ConcatValue, ZenonT(30)
<1>2. /\ a \in Seq(S) /\ Len(a) = Len(s) - 1
      /\ \A i \in 1 .. Len(s) - 1 : a[i] = s[i + 1]
      /\ Len(s) \in Nat \ {0} /\ Len(t) \in Nat
  OBVIOUS
<1>   HIDE DEF u, a
<1>3. u # <<>> /\ Head(u) = Head(s)  BY <1>1, <1>2
<1>4. /\ w \in Seq(S) /\ Len(w) = Len(u) - 1
      /\ \A i \in 1 .. Len(u) - 1 : w[i] = u[i + 1]
  BY <1>1, <1>3
<1>5. /\ v \in Seq(S) /\ Len(v) = Len(a) + Len(t)
      /\ \A i \in 1 .. Len(a) : v[i] = a[i]
      /\ \A i \in Len(a) + 1 .. Len(a) + Len(t) : v[i] = t[i - Len(a)]
  BY <1>2, ConcatValue, ZenonT(30)
<1>   HIDE DEF v, w
<1>6. ASSUME NEW i \in 1 .. Len(v) PROVE v[i] = w[i]
  <2>1. w[i] = u[i + 1]  BY <1>1, <1>2, <1>4, <1>5
  <2>2. CASE i \in 1 .. Len(s) - 1
    <3>1. i + 1 \in 1 .. Len(s) /\ i \in 1 .. Len(a)  BY <2>2, <1>2
    <3>   QED BY <2>1, <2>2, <3>1, <1>1, <1>2, <1>5
  <2>3. CASE i \in Len(s) .. Len(s) - 1 + Len(t)
    <3>1. /\ i + 1 \in Len(s) + 1 .. Len(s) + Len(t) /\ i \in Len(a) + 1 .. Len(a) + Len(t)
          /\ (i + 1) - Len(s) = i - Len(a)
      BY <2>3, <1>2
    <3>   QED BY <2>1, <3>1, <1>1, <1>5
  <2>   QED BY <2>2, <2>3, <1>2, <1>5
<1>7. Len(v) = Len(w)  BY <1>1, <1>2, <1>4, <1>5
<1>8. v = w  BY <1>4, <1>5, <1>6, <1>7
<1>   QED BY <1>3, <1>8 DEF v, w, u, a

\* What a joiner that receives a message has then.
LEMMA ReceivedTold ==
  ASSUME SessionInv, NEW j \in Joiners, Receive(j)
  PROVE  LET m == Head(toJoiner[j])
         IN  /\ \A before, after : Tells(Coming(j), before, after) =>
                  Tells(Coming(j)', IF m.type = "topology" THEN m.players ELSE before, after)
             /\ StartEnds(Coming(j)) => StartEnds(Coming(j)')
             /\ StartEnds(Coming(j)) /\ m.type = "topology" /\ m.tag = "START_GAME" =>
                  Topologies(Coming(j)') = {}
             /\ Topologies(Coming(j)) = {} => /\ Topologies(Coming(j)') = {}
                                              /\ m.type # "topology"
<1>   DEFINE s == toJoiner[j]
             u == client[j].outgoing
             w == s \o u
<1>1. /\ s # <<>> /\ toJoiner' = [toJoiner EXCEPT ![j] = Tail(s)] /\ client' = client
  BY DEF Receive, gathererVars
<1>2. /\ s \in Seq(ToJoinerSet) /\ u \in Seq(ToJoinerSet) /\ toJoiner'[j] = Tail(s)
  BY <1>1 DEF SessionInv, Types, ClientSet
<1>3. /\ w \in Seq(ToJoinerSet)
      /\ w # <<>> /\ Head(w) = Head(s) /\ Tail(w) = Tail(s) \o u
  <2>   HIDE DEF s, u
  <2>1. w \in Seq(ToJoinerSet)  BY <1>2
  <2>   QED BY <1>1, <1>2, <2>1, TailConcat DEF s
<1>4. Coming(j) = w /\ Coming(j)' = Tail(w)  BY <1>1, <1>2, <1>3 DEF Coming
<1>5. Topologies(w) = {} => Head(w).type # "topology"
  <2>   HIDE DEF w
  <2>1. Head(w) = w[1] /\ 1 \in DOMAIN w  BY <1>3
  <2>   QED BY <2>1 DEF Topologies
<1>   HIDE DEF w
<1>6. \A before, after :
        /\ Tells(w, before, after) =>
              Tells(Tail(w), IF Head(w).type = "topology" THEN Head(w).players ELSE before, after)
        /\ StartEnds(w) => StartEnds(Tail(w))
        /\ StartEnds(w) /\ Head(w).type = "topology" /\ Head(w).tag = "START_GAME" =>
              Topologies(Tail(w)) = {}
        /\ Topologies(w) = {} => Topologies(Tail(w)) = {}
  BY <1>3, TailTells, Zenon
<1>   QED BY <1>3, <1>4, <1>5, <1>6, Zenon

LEMMA ReceiveTold ==
  ASSUME SessionInv, ToldInv, NEW j \in Joiners, Receive(j) PROVE ToldInv'
<1>   DEFINE m == Head(toJoiner[j])
<1>1. /\ \A d \in Joiners : d # j => toJoiner'[d] = toJoiner[d]
      /\ m \in ToJoinerSet /\ UNCHANGED gathererVars
  BY Taken
<1>2. UNCHANGED <<netState, players, client>>  BY <1>1 DEF gathererVars
<1>3. /\ \A before, after : Tells(Coming(j), before, after) =>
           Tells(Coming(j)', IF m.type = "topology" THEN m.players ELSE before, after)
      /\ StartEnds(Coming(j)) => StartEnds(Coming(j)')
      /\ StartEnds(Coming(j)) /\ m.type = "topology" /\ m.tag = "START_GAME" =>
           Topologies(Coming(j)') = {}
      /\ Topologies(Coming(j)) = {} => /\ Topologies(Coming(j)') = {}
                                       /\ m.type # "topology"
  BY ReceivedTold
<1>4. joiner \in [Joiners -> JoinerSet] /\ joiner[j] \in JoinerSet  BY DEF SessionInv, Types
<1>5. j \in Members(players) => joiner[j].state \in HasAccepted
  BY DEF SessionInv, PlayersInv, AcceptInv, Members
<1>   HIDE DEF m
\* Only a topology, or the identifier, makes it wait or start.
<1>6. ASSUME \A d \in Joiners : d # j => joiner'[d] = joiner[d],
             joiner'[j].state # "starting",
             j \in Members(players) => joiner'[j].state # "waiting"
      PROVE  ToldInv'
  BY <1>1, <1>3, <1>6, OthersKept DEF StartLast, UpToDate, StartEnds, Topologies
<1>7. CASE HandleHello(j)
  BY <1>4, <1>6, <1>7, BecomeValue DEF HandleHello, JoinerStates, SessionInv, Types
<1>8. CASE HandleCapabilities(j)
  BY <1>6, <1>8 DEF HandleCapabilities
<1>9. ASSUME NEW id, HandleJoinPlayer(j, id) PROVE ToldInv'
  <2>   DEFINE r == [joiner[j] EXCEPT !.state = "waiting", !.id = id]
  <2>1. joiner[j].state = "joining" /\ joiner' = [joiner EXCEPT ![j] = r]
    <3>1. joiner' = [joiner EXCEPT ![j].state = "waiting", ![j].id = id]
      BY <1>9 DEF HandleJoinPlayer
    <3>2. [joiner EXCEPT ![j].state = "waiting", ![j].id = id] = [joiner EXCEPT ![j] = r]
      BY <1>4
    <3>   QED BY <1>9, <3>1, <3>2 DEF HandleJoinPlayer
  <2>2. r.state = "waiting"  BY <1>4 DEF JoinerSet
  <2>   HIDE DEF r
  <2>3. /\ \A d \in Joiners : d # j => joiner'[d] = joiner[d]
        /\ joiner'[j].state = "waiting"
    BY <1>4, <2>1, <2>2
  <2>4. j \notin Members(players)  BY <1>5, <2>1 DEF HasAccepted, Gone
  <2>   QED BY <1>6, <2>3, <2>4
<1>10. CASE m.type = "topology" /\ HandleTopology(j, m)
  <2>   DEFINE r == [joiner[j] EXCEPT !.state = StateFor(m.tag), !.players = m.players]
  <2>1. joiner[j].state = "waiting" /\ joiner' = [joiner EXCEPT ![j] = r]
    <3>1. joiner' = [joiner EXCEPT ![j].state = StateFor(m.tag), ![j].players = m.players]
      BY <1>10 DEF HandleTopology
    <3>2. [joiner EXCEPT ![j].state = StateFor(m.tag), ![j].players = m.players]
            = [joiner EXCEPT ![j] = r]
      BY <1>4
    <3>   QED BY <1>10, <3>1, <3>2 DEF HandleTopology
  <2>2. r.state = StateFor(m.tag) /\ r.players = m.players  BY <1>4 DEF JoinerSet
  <2>   HIDE DEF r
  <2>3. /\ \A d \in Joiners : d # j => joiner'[d] = joiner[d]
        /\ joiner'[j].state = StateFor(m.tag) /\ joiner'[j].players = m.players
    BY <1>4, <2>1, <2>2
  <2>4. m.tag \in Tags  BY <1>1, <1>10, MessageFacts
  <2>5. StateFor(m.tag) = "starting" => m.tag = "START_GAME"  BY <2>4 DEF StateFor
  <2>6. StartLast(j) => StartLast(j)'
    BY <1>3, <1>10, <2>3, <2>5 DEF StartLast, StartEnds, Topologies
  <2>7. ASSUME UpToDate(j), client[j].connected PROVE Tells(Coming(j)', m.players, players)
    <3>1. Tells(Coming(j), joiner[j].players, players)  BY <2>1, <2>7 DEF UpToDate
    <3>   QED BY <1>3, <1>10, <3>1
  <2>8. UpToDate(j) => UpToDate(j)'
    BY <1>2, <2>3, <2>7 DEF UpToDate, Tells
  <2>   QED BY <1>1, <2>3, <2>6, <2>8, OthersKept
<1>11. CASE HandleGameData(j)
  <2>1. Become(j, "playing")  BY <1>11 DEF HandleGameData
  <2>2. /\ \A d \in Joiners : d # j => joiner'[d] = joiner[d]
        /\ joiner'[j].state = "playing"
    BY <2>1, BecomeValue DEF JoinerStates, SessionInv
  <2>   QED BY <1>6, <2>2
<1>12. CASE ~ Expects(j, m.type) /\ joiner' = joiner
  <2>1. m.type = "topology" => joiner[j].state # "waiting"
    BY <1>12 DEF Expects
  <2>2. StartLast(j) => StartLast(j)'
    BY <1>3, <1>12 DEF StartLast, StartEnds, Topologies
  <2>3. ASSUME UpToDate(j), StartLast(j) PROVE UpToDate(j)'
    <3>1. joiner[j].state \in {"waiting", "starting"} => m.type # "topology"
      BY <1>3, <2>1, <2>3 DEF StartLast
    <3>   QED BY <1>2, <1>3, <1>12, <2>3, <3>1 DEF UpToDate, Tells
  <2>   QED BY <1>1, <1>12, <2>2, <2>3, OthersKept
<1>13. \/ HandleHello(j) \/ HandleCapabilities(j) \/ HandleJoinPlayer(j, m.id)
       \/ m.type = "topology" /\ HandleTopology(j, m)
       \/ HandleGameData(j)
       \/ ~ Expects(j, m.type) /\ joiner' = joiner
  BY DEF Receive, m
<1>   QED BY <1>7, <1>8, <1>9, <1>10, <1>11, <1>12, <1>13

LEMMA ConnectTold ==
  ASSUME SessionInv, ToldInv, NEW j \in Joiners, Connect(j) PROVE ToldInv'
<1>1. /\ Become(j, "awaitingHello") /\ UNCHANGED <<gathererVars, toJoiner>>
  BY DEF Connect, Become
<1>2. /\ \A d \in Joiners : d # j => joiner'[d] = joiner[d]
      /\ joiner'[j].state = "awaitingHello"
  BY <1>1, BecomeValue DEF JoinerStates, SessionInv
<1>3. (StartLast(j) => StartLast(j)') /\ UpToDate(j)'
  BY <1>1, <1>2 DEF StartLast, StartEnds, Topologies, UpToDate, Coming, gathererVars
<1>   QED BY <1>1, <1>2, <1>3, OthersKept

LEMMA GoneTold ==
  ASSUME SessionInv, ToldInv, NEW j \in Joiners, Become(j, Gone),
         toJoiner' = [toJoiner EXCEPT ![j] = <<>>], UNCHANGED gathererVars
  PROVE  ToldInv'
<1>1. /\ \A d \in Joiners : d # j => joiner'[d] = joiner[d]
      /\ joiner'[j].state = Gone
  BY BecomeValue DEF JoinerStates, SessionInv
<1>2. toJoiner'[j] = <<>> /\ \A d \in Joiners : d # j => toJoiner'[d] = toJoiner[d]
  BY DEF SessionInv, Types
<1>3. UpToDate(j)'  BY <1>1 DEF UpToDate, Gone
<1>4. StartLast(j) => StartLast(j)'
  <2>   DEFINE s == toJoiner[j]
               u == client[j].outgoing
  <2>1. s \in Seq(ToJoinerSet) /\ u \in Seq(ToJoinerSet)  BY DEF SessionInv, Types, ClientSet
  <2>2. StartEnds(s \o u) => StartEnds(u)
    <3>   HIDE DEF s, u
    <3>   QED BY <2>1, ConcatEnds
  <2>3. Coming(j)' = u
    <3>1. <<>> \o u = u
      <4>   HIDE DEF u
      <4>   QED BY <2>1
    <3>   QED BY <1>2, <3>1 DEF Coming, gathererVars
  <2>   QED BY <1>1, <2>2, <2>3 DEF StartLast, Coming, Gone, StartEnds, Topologies
<1>   QED BY <1>1, <1>2, <1>3, <1>4, OthersKept

LEMMA InitTold ==
  ASSUME Init PROVE ToldInv
<1>1. Members(players) = {}
  <2>1. Len(players) = 1  BY DEF Init
  <2>   QED BY <2>1 DEF Members
<1>2. ASSUME NEW c \in Joiners PROVE StartLast(c)
  <2>1. Coming(c) = <<>>  BY DEF Init, Coming, NoClient
  <2>   QED BY <2>1 DEF StartLast, StartEnds, Topologies
<1>   QED BY <1>1, <1>2 DEF ToldInv

LEMMA NextTold ==
  ASSUME NewClients, SessionInv, SessionInv', ToldInv, [Next]_vars PROVE ToldInv'
<1>1. CASE GathererStep
  <2>1. CASE CheckForNewJoiner  BY <2>1, CheckForNewJoinerTold
  <2>2. CASE Show  BY <2>2, ShowTold
  <2>3. CASE DistributeGameData  BY <2>3, DistributeGameDataTold
  <2>4. ASSUME NEW c \in Joiners, VisitLost(c) PROVE ToldInv'  BY <2>4, DropTold
  <2>5. ASSUME NEW c \in Joiners, VisitConnected(c) \/ ProcessMessagesInGame(c) PROVE ToldInv'
    <3>1. Pump(c) /\ joiner' = joiner /\ Setting
      BY <2>5 DEF VisitConnected, ProcessMessagesInGame, Setting
    <3>   QED BY <3>1, PumpTold
  <2>   QED BY <1>1, <2>1, <2>2, <2>3, <2>4, <2>5 DEF GathererStep
<1>2. CASE StartGame  BY <1>2, StartGameTold
<1>3. CASE CancelGather  BY <1>3 DEF CancelGather, ToldInv, Setting
<1>4. ASSUME NEW j \in Joiners, GatherPlayer(j) \/ Connect(j) \/ JoinerStep(j) \/ Leave(j)
      PROVE  ToldInv'
  <2>1. CASE GatherPlayer(j)  BY <2>1, GatherPlayerTold
  <2>2. CASE Connect(j)  BY <2>2, ConnectTold
  <2>3. CASE Receive(j)  BY <2>3, ReceiveTold
  <2>4. CASE LoseConnection(j)  BY <2>4, GoneTold DEF LoseConnection
  <2>5. CASE Leave(j)  BY <2>5, GoneTold DEF Leave
  <2>   QED BY <1>4, <2>1, <2>2, <2>3, <2>4, <2>5 DEF JoinerStep
<1>5. CASE UNCHANGED vars
  <2>1. UNCHANGED <<netState, players, client, joiner, toJoiner>>
    BY <1>5 DEF vars, gathererVars
  <2>2. ASSUME NEW c \in Joiners PROVE Kept(c)  BY <2>1, <2>2, SameConnected
  <2>   QED BY <2>1, <2>2, AllKept DEF SessionInv, Setting
<1>   QED BY <1>1, <1>2, <1>3, <1>4, <1>5 DEF Next

LEMMA ToldOK ==
  ASSUME SessionInv, ToldInv PROVE EverybodyUpToDate
BY DEF ToldInv, EverybodyUpToDate, UpToDate, Coming

\* Whoever is in the topology and still connected will know it, as the gatherer
\* has it, when it has handled what is on its way, however changes, leavers and
\* the start follow each other (NetDistributeTopology, handleTopologyMessage).
THEOREM EverybodyIsTold ==
  ASSUME NewClients PROVE Spec => []EverybodyUpToDate
<1>1. Init => ToldInv  BY InitTold
<1>2. SessionInv /\ SessionInv' /\ ToldInv /\ [Next]_vars => ToldInv'  BY NextTold
<1>3. SessionInv /\ ToldInv => EverybodyUpToDate  BY ToldOK
<1>   QED BY <1>1, <1>2, <1>3, Always, PTL DEF Spec
=============================================================================
