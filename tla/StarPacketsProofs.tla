--------------------------- MODULE StarPacketsProofs ---------------------------
(***************************************************************************)
(* What the packets of a game over the star protocol mean to those who     *)
(* receive them: the lemmas for StarGameProofs.                            *)
(*                                                                         *)
(* A packet of the hub does not say whose words it contains.  The hub      *)
(* writes, and the spoke reads, the words of each tick in the order of the *)
(* players; they agree because they agree on whose words there are, and    *)
(* because in a set of pairs of tick and player each pair has a position   *)
(* of its own.  That is the first part; then come the invariant, the       *)
(* packet that the hub writes, and the spoke that reads it.                *)
(***************************************************************************)
EXTENDS StarGame, StarHubProofs

-----------------------------------------------------------------------------
(***************************************************************************)
(* Positions in sets of pairs of tick and player                           *)
(***************************************************************************)

Pairs == Ticks \X Players

\* The pairs before a, in tick-major order.
Before(S, a) == {b \in S : b[1] < a[1] \/ (b[1] = a[1] /\ b[2] < a[2])}

\* The pairs of earlier ticks, and the players of a tick.
Below(S, t) == {b \in S : b[1] < t}
At(S, t) == {q \in Players : <<t, q>> \in S}

\* Players and ticks are finitely many.
LEMMA PlayersFinite ==
  /\ IsFiniteSet(Players)
  /\ \A S \in SUBSET Players : IsFiniteSet(S) /\ Cardinality(S) \in Nat
<1>1. IsFiniteSet(Players)
  BY Sizes, FS_Interval, 0 \in Int, NumPlayers - 1 \in Int DEF Players
<1>2. ASSUME NEW S \in SUBSET Players PROVE IsFiniteSet(S) /\ Cardinality(S) \in Nat
  BY <1>1, FS_Subset, FS_CardinalityType, Zenon
<1> QED BY <1>1, <1>2, Zenon

\* The pairs of one tick are as many as their players.
LEMMA TickPairs ==
  ASSUME NEW t \in Ticks, NEW S \in SUBSET Players
  PROVE  IsFiniteSet({t} \X S) /\ Cardinality({t} \X S) = Cardinality(S)
<1> DEFINE f == [q \in S |-> <<t, q>>]
<1>1. f \in Bijection(S, {t} \X S)
  <2>1. f \in [S -> {t} \X S]
    OBVIOUS
  <2>2. \A a, b \in S : f[a] = f[b] => a = b
    OBVIOUS
  <2>3. \A c \in {t} \X S : \E a \in S : f[a] = c
    OBVIOUS
  <2> HIDE DEF f
  <2> QED BY <2>1, <2>2, <2>3 DEF Bijection, Injection, Surjection, IsInjective
<1> HIDE DEF f
<1> QED BY <1>1, PlayersFinite, FS_Bijection, Zenon DEF ExistsBijection

\* A set of numbers up to n that has 0, and with each number the next, has all.
LEMMA UpTo ==
  ASSUME NEW n \in Nat, NEW S, 0 \in S, \A k \in 1 .. n : k - 1 \in S => k \in S
  PROVE  0 .. n \subseteq S
<1> DEFINE T == {k \in 0 .. n : k \notin S}
<1>1. SUFFICES ASSUME T # {} PROVE FALSE
  OBVIOUS
<1>2. T \subseteq Nat
  OBVIOUS
<1>3. \E k \in T : \A t \in T : ~ (<<t, k>> \in OpToRel(<, Nat))
  <2> HIDE DEF T
  <2> QED BY <1>1, <1>2, WFMin, NatLessThanWellFounded, Zenon
<1>4. PICK k \in T : \A t \in T : ~ (t < k)
  BY <1>2, <1>3 DEF OpToRel
<1>5. k \in 1 .. n /\ k - 1 \in 0 .. n /\ k \notin S
  BY <1>4
<1>6. k - 1 \in T
  BY <1>5
<1> QED BY <1>4, <1>5, <1>6

\* There are finitely many pairs of tick and player: by induction on the ticks, with
\* the least tick for which there would not be.
LEMMA PairsFinite ==
  \A S \in SUBSET Pairs : IsFiniteSet(S) /\ Cardinality(S) \in Nat
<1> DEFINE R(t) == (0 .. t) \X Players
           F == {t \in 0 .. MaxTick : IsFiniteSet(R(t))}
<1>1. 0 \in F
  <2>1. R(0) = {0} \X Players
    BY 0 .. 0 = {0}
  <2> QED BY <2>1, TickPairs, Sizes
<1>2. ASSUME NEW t \in 1 .. MaxTick, t - 1 \in F PROVE t \in F
  <2>1. R(t) = R(t - 1) \cup ({t} \X Players)
    <3>1. 0 .. t = (0 .. t - 1) \cup {t}
      OBVIOUS
    <3> QED BY <3>1
  <2>2. t \in Ticks
    BY DEF Ticks
  <2>3. IsFiniteSet(R(t - 1)) /\ IsFiniteSet({t} \X Players)
    BY <1>2, <2>2, TickPairs
  <2>4. IsFiniteSet(R(t))
    <3>1. ASSUME NEW A, NEW B, IsFiniteSet(A), IsFiniteSet(B)
          PROVE  IsFiniteSet(A \cup B)
      BY <3>1, FS_Union, Zenon
    <3> HIDE DEF R
    <3> QED BY <2>1, <2>3, <3>1
  <2> QED BY <2>4
<1>3. MaxTick \in F
  <2> HIDE DEF F
  <2> QED BY <1>1, <1>2, UpTo, Sizes
<1>4. IsFiniteSet(Pairs)
  BY <1>3 DEF Pairs, Ticks
<1> QED BY <1>4, FS_Subset, FS_CardinalityType, Zenon

\* Of two pairs one has fewer pairs before it.
LEMMA PairsOrdered ==
  ASSUME NEW S \in SUBSET Pairs, NEW a \in S, NEW b \in S,
         a[1] < b[1] \/ (a[1] = b[1] /\ a[2] < b[2])
  PROVE  Cardinality(Before(S, a)) < Cardinality(Before(S, b))
<1>1. \A c \in S : c[1] \in Nat /\ c[2] \in Nat
  BY Sizes DEF Pairs, Ticks
<1>2. Before(S, a) \subseteq Before(S, b)
  BY <1>1 DEF Before
<1>3. a \in Before(S, b) /\ a \notin Before(S, a)
  BY <1>1 DEF Before
<1>4. Before(S, b) \in SUBSET Pairs /\ Before(S, a) \in SUBSET Pairs
  BY DEF Before
<1>5. /\ IsFiniteSet(Before(S, b))
      /\ Cardinality(Before(S, b)) \in Nat /\ Cardinality(Before(S, a)) \in Nat
  BY <1>4, PairsFinite
<1>6. /\ Cardinality(Before(S, a)) <= Cardinality(Before(S, b))
      /\ Cardinality(Before(S, b)) = Cardinality(Before(S, a))
           => Before(S, b) = Before(S, a)
  BY <1>2, <1>5, FS_Subset, Zenon
<1> QED BY <1>3, <1>5, <1>6

\* The i-th pair is the one with i - 1 pairs before it.
LEMMA NthIs ==
  ASSUME NEW S \in SUBSET Pairs, NEW a \in S, NEW i \in Int,
         Cardinality(Before(S, a)) = i - 1
  PROVE  Nth(S, i) = a
<1>1. ASSUME NEW b \in S, Cardinality(Before(S, b)) = i - 1 PROVE b = a
  <2>1. /\ a[1] \in Nat /\ a[2] \in Nat /\ b[1] \in Nat /\ b[2] \in Nat
        /\ a = <<a[1], a[2]>> /\ b = <<b[1], b[2]>>
    <3>1. \A c \in Pairs : c = <<c[1], c[2]>> /\ c[1] \in Ticks /\ c[2] \in Players
      BY DEF Pairs
    <3> QED BY <3>1, Sizes
  <2>2. ~ (a[1] < b[1] \/ (a[1] = b[1] /\ a[2] < b[2]))
    BY <1>1, PairsOrdered
  <2>3. ~ (b[1] < a[1] \/ (b[1] = a[1] /\ b[2] < a[2]))
    BY <1>1, PairsOrdered
  <2>4. a[1] = b[1] /\ a[2] = b[2]
    BY <2>1, <2>2, <2>3
  <2> QED BY <2>1, <2>4
<1>2. Nth(S, i) = CHOOSE b \in S : Cardinality(Before(S, b)) = i - 1
  BY Zenon DEF Nth, Before
<1> QED BY <1>1, <1>2, Zenon

\* The position of a pair: the pairs of earlier ticks, and the players of its own
\* tick up to its player.
LEMMA Position ==
  ASSUME NEW S \in SUBSET Pairs, NEW t \in Ticks, NEW q \in At(S, t)
  PROVE  LET upTo == {r \in At(S, t) : r <= q}
             i    == Cardinality(Below(S, t)) + Cardinality(upTo)
         IN  /\ i \in 1 .. Cardinality(S)
             /\ Nth(S, i) = <<t, q>>
<1> DEFINE upTo == {r \in At(S, t) : r <= q}
           less == {r \in At(S, t) : r < q}
           i    == Cardinality(Below(S, t)) + Cardinality(upTo)
           a    == <<t, q>>
<1>1. /\ a \in S /\ q \in Players /\ q \in Nat /\ t \in Nat
      /\ \A c \in S : c = <<c[1], c[2]>> /\ c[1] \in Ticks /\ c[2] \in Players
      /\ \A r \in Players : r \in Nat
      /\ \A u \in Ticks : u \in Nat
  BY Sizes DEF At, Pairs
<1>2. upTo \in SUBSET Players /\ less \in SUBSET Players
  BY DEF At
<1>3. Cardinality(upTo) = Cardinality(less) + 1
  <2>1. upTo = less \cup {q} /\ q \notin less
    BY <1>1 DEF At
  <2>2. IsFiniteSet(less)
    BY <1>2, PlayersFinite
  <2> HIDE DEF upTo, less
  <2> QED BY <2>1, <2>2, FS_AddElement
<1>4. Before(S, a) = Below(S, t) \cup ({t} \X less)
  <2>1. ASSUME NEW c \in Before(S, a) PROVE c \in Below(S, t) \cup ({t} \X less)
    <3>1. c \in S /\ c = <<c[1], c[2]>> /\ c[2] \in Players
      BY <1>1 DEF Before
    <3>2. c[1] < t \/ (c[1] = t /\ c[2] < q)
      BY DEF Before
    <3>3. CASE c[1] < t
      BY <3>1, <3>3 DEF Below
    <3>4. CASE c[1] = t /\ c[2] < q
      <4>1. c[2] \in less
        BY <3>1, <3>4 DEF At
      <4> QED BY <3>1, <3>4, <4>1
    <3> QED BY <3>2, <3>3, <3>4
  <2>2. ASSUME NEW c \in Below(S, t) PROVE c \in Before(S, a)
    BY DEF Before, Below
  <2>3. ASSUME NEW c \in {t} \X less PROVE c \in Before(S, a)
    <3>1. PICK r \in less : c = <<t, r>>
      OBVIOUS
    <3> QED BY <3>1 DEF Before, At
  <2> QED BY <2>1, <2>2, <2>3
<1>5. Below(S, t) \cap ({t} \X less) = {}
  BY <1>1 DEF Below
<1>6. /\ IsFiniteSet(Below(S, t)) /\ Cardinality(Below(S, t)) \in Nat
      /\ IsFiniteSet({t} \X less) /\ Cardinality({t} \X less) = Cardinality(less)
      /\ Cardinality(less) \in Nat
  <2>1. Below(S, t) \in SUBSET Pairs
    BY DEF Below
  <2> HIDE DEF less
  <2> QED BY <2>1, <1>2, PairsFinite, TickPairs, PlayersFinite
<1>7. Cardinality(Before(S, a)) = Cardinality(Below(S, t)) + Cardinality(less)
  <2> HIDE DEF less, a
  <2>1. Cardinality(Before(S, a)) = Cardinality(Below(S, t)) + Cardinality({t} \X less)
                                    - Cardinality(Below(S, t) \cap ({t} \X less))
    BY <1>4, <1>6, FS_Union, Zenon
  <2>2. Cardinality(Below(S, t) \cap ({t} \X less)) = 0
    BY <1>5, FS_EmptySet
  <2> QED BY <2>1, <2>2, <1>6
<1>8. i \in Nat /\ Cardinality(Before(S, a)) = i - 1
  <2> HIDE DEF less, upTo, a
  <2> QED BY <1>3, <1>6, <1>7
<1>9. Cardinality(Before(S, a)) < Cardinality(S)
  <2>1. Before(S, a) \subseteq S /\ a \notin Before(S, a)
    BY <1>1 DEF Before
  <2>2. IsFiniteSet(S) /\ Cardinality(S) \in Nat /\ Cardinality(Before(S, a)) \in Nat
    <3>1. Before(S, a) \in SUBSET Pairs
      BY <2>1
    <3> QED BY <3>1, PairsFinite
  <2>3. /\ Cardinality(Before(S, a)) <= Cardinality(S)
        /\ Cardinality(S) = Cardinality(Before(S, a)) => S = Before(S, a)
    BY <2>1, <2>2, FS_Subset, Zenon
  <2> QED BY <1>1, <2>1, <2>2, <2>3
<1>10. i \in 1 .. Cardinality(S)
  <2>1. Cardinality(S) \in Nat /\ Cardinality(Before(S, a)) \in Nat
    <3>1. Before(S, a) \in SUBSET Pairs
      BY DEF Before
    <3> QED BY <3>1, PairsFinite
  <2> HIDE DEF i, a
  <2> QED BY <2>1, <1>8, <1>9
<1>11. Nth(S, i) = a
  <2> HIDE DEF i, a
  <2> QED BY <1>1, <1>8, NthIs
<1> QED BY <1>10, <1>11

-----------------------------------------------------------------------------
(***************************************************************************)
(* The invariant.  Its parts are about the hub; about each spoke, with     *)
(* what it may know of the hub; and about each packet that may still       *)
(* arrive, with what it means to the one it is sent to.                    *)
(***************************************************************************)

\* The hub, with the deaths it has decided.
HubOK(h) ==
  /\ Consistent(h) /\ FlagsInv(h)
  /\ \A t \in Ticks : h.flags[LocalPlayer][t] # MadeUp
  /\ \A q \in Absent : q \notin h.connected /\ h.netDeadTick[q] = -1
  /\ \A q \in Players \ (Absent \cup h.connected) :
       h.netDeadTick[q] >= 0 /\ h.netDeadTick[q] <= h.incomplete

\* send_packets was the last thing it did.
JustSent(h) ==
  /\ h.sendTimeWrite = h.incomplete
  /\ h.connected \cap h.addressKnown \subseteq h.sentTo

\* The flags the hub has decided for q in a tick.
Decision(h, q, t) ==
  <<q, IF t < ContributesUpTo(h, q) THEN h.flags[q][t] ELSE NetDead>>

\* Whose words a packet for p has for a tick.
Due(h, p, own, t) ==
  {q \in Players : /\ q = p => own
                   /\ q \in h.connected \/ t < h.netDeadTick[q]}

DuePairs(h, p, own, first, last) ==
  {a \in Pairs : /\ first <= a[1] /\ a[1] < last
                 /\ a[2] \in Due(h, p, own, a[1])}

SpokeFields ==
  {"connected", "active", "heard", "outRead", "outWrite", "unconfirmedRead",
   "unconfirmedWrite", "unconfirmed", "unreceived", "zombies", "alive", "deadAt",
   "gone", "queue", "silence", "sinceSent", "failed"}

SpokeTyped(s) == DOMAIN s = SpokeFields /\ IsSpoke(s)

\* The spoke's own cursors.
Cursors(s) ==
  /\ s.outRead <= s.outWrite
  /\ s.unconfirmedRead <= s.unconfirmed /\ s.unconfirmedRead <= s.unconfirmedWrite
  /\ s.unconfirmedWrite = Larger(s.outWrite, RealGameTick)
  /\ RealGameTick <= s.unconfirmed
  /\ s.connected => s.silence < MaxSpokeSilence
  /\ s.failed \subseteq {"aloneWithoutFlags"}

\* The spoke's cursors and the hub's.
Behind(h, s, p) ==
  /\ s.outRead <= h.flagsWrite[p]
  /\ s.unreceived <= h.sendTimeWrite
  /\ s.heard => p \in h.sentTo
  /\ p \in h.connected => h.unacknowledged[p] <= s.unreceived
  /\ \A t \in 0 .. h.flagsWrite[p] - 1 : h.flags[p][t] = MadeUp \/ t < s.outWrite

\* Whom the spoke knows to be dead.
KnowsDead(h, s, p) ==
  /\ s.zombies = Absent
  /\ p \in s.alive /\ s.alive \cap Absent = {}
  /\ \A q \in Players \ (s.alive \cup Absent) :
       q \notin h.connected /\ s.deadAt[q] = h.netDeadTick[q]
  /\ \A q \in Players \ (h.connected \cup {p}) :
       h.netDeadTick[q] < s.unreceived => q \notin s.alive

\* The action queues have what the hub has decided, up to the tick received.
InOrder(h, s) ==
  /\ s.unconfirmed = Larger(s.unreceived, RealGameTick)
  /\ \A q \in Absent : s.queue[q] = <<>>
  /\ \A q \in Players \ Absent :
       /\ WriteTick(s, q) = Larger(s.unreceived, RealGameTick)
       /\ \A i \in 1 .. Len(s.queue[q]) :
            s.queue[q][i] = Decision(h, q, RealGameTick + i - 1)

\* The spoke on the hub's machine plays alone.
PlaysAlone(h, s, p) ==
  /\ p = LocalPlayer /\ h.connected \subseteq {p}
  /\ \A q \in Players \ {p} :
       q \notin s.alive /\ h.netDeadTick[q] <= s.unreceived

SpokeOK(h, s, p) ==
  /\ SpokeTyped(s) /\ Cursors(s) /\ Behind(h, s, p) /\ KnowsDead(h, s, p)
  /\ s.connected => InOrder(h, s) \/ PlaysAlone(h, s, p)

\* A packet of the spoke that may arrive at the hub.
ToHubOK(h, s, p, packet) ==
  /\ packet.player = p
  /\ packet.ack \in Ticks /\ packet.ack <= s.unreceived
  /\ packet.hasFlags \in BOOLEAN
  /\ packet.start \in Nat /\ packet.start <= h.flagsWrite[p]
  /\ packet.count \in Nat /\ packet.start + packet.count <= MaxTick
  /\ packet.hasFlags => packet.start + packet.count <= s.outWrite

\* The ticks first..last-1 were sent while p was in the game.
Covers(h, p, packet, first, last) ==
  /\ first < last /\ last <= h.sendTimeWrite /\ last <= h.flagsWrite[p]
  /\ p \in h.connected \/ last <= h.netDeadTick[p]
  /\ packet.start = first
  /\ Due(h, p, packet.reflected, last - 1) # {}
  /\ ~ packet.reflected => \A t \in first .. last - 1 : h.flags[p][t] # MadeUp

\* Each word is where a reader that knows whose words are due expects it.
WordsInPlace(h, p, packet, first, last) ==
  LET own == packet.reflected
  IN  /\ Len(packet.words) = Cardinality(DuePairs(h, p, own, first, last))
      /\ \A t \in first .. last - 1 : \A q \in Due(h, p, own, t) :
           packet.words[Cardinality(DuePairs(h, p, own, first, t)) +
                        Cardinality({r \in Due(h, p, own, t) : r <= q})]
             = <<q, h.flags[q][t]>>

\* The spoke knows, or the packet tells it, who died before "last".
DeathsTold(h, s, packet, last) ==
  \A q \in Players \ h.connected :
    h.netDeadTick[q] < last => q \in DOMAIN packet.deaths \/ q \notin s.alive

WordsOK(h, s, p, packet) ==
  \E first, last \in Ticks : /\ Covers(h, p, packet, first, last)
                             /\ WordsInPlace(h, p, packet, first, last)
                             /\ DeathsTold(h, s, packet, last)

\* The part of a packet before its words.
MessagesOK(h, p, packet) ==
  /\ p \in h.sentTo
  /\ packet.ack \in Ticks /\ packet.ack <= h.flagsWrite[p]
  /\ packet.reflected \in BOOLEAN /\ (p = LocalPlayer => ~ packet.reflected)
  /\ DOMAIN packet.deaths \subseteq Players \ (h.connected \cup Absent \cup {p})
  /\ \A q \in DOMAIN packet.deaths : packet.deaths[q] = h.netDeadTick[q]

\* A packet of the hub that may arrive at the spoke.
PacketOK(h, s, p, packet) ==
  MessagesOK(h, p, packet) /\ (packet.words = <<>> \/ WordsOK(h, s, p, packet))

-----------------------------------------------------------------------------
(***************************************************************************)
(* Facts about the constants, and about whose words are due                *)
(***************************************************************************)

\* The constants of the game.
LEMMA GameSizes ==
  /\ LocalPlayer \in Observed /\ Observed \subseteq Players /\ Absent \subseteq Players
  /\ Observed \cap Absent = {} /\ Remote = Observed \ {LocalPlayer}
  /\ RealGameTick \in Nat /\ RecentFlags \in Nat /\ FullUpdate \in Nat
  /\ OutgoingQueueSize \in Nat /\ GameQueueSize \in Nat /\ MostUnread \in Nat
  /\ MostUnread <= GameQueueSize
  /\ SpokePregameSilence \in Nat /\ SpokeInGameSilence \in Nat
  /\ SpokeRecoveryPeriod \in Nat /\ MaxProvided \in Nat
BY GameConstants, StarConstants, SpokeConstants DEF Remote

\* The largest of some numbers.
LEMMA Greatest ==
  ASSUME NEW S \in SUBSET Nat, NEW n \in Nat, \A k \in S : k <= n, S # {}
  PROVE  \E m \in S : \A k \in S : k <= m
<1> DEFINE T == {n - k : k \in S}
<1>1. T \subseteq Nat /\ T # {}
  <2>1. ASSUME NEW k \in S PROVE n - k \in Nat
    <3>1. k \in Nat /\ k <= n
      OBVIOUS
    <3> QED BY <3>1
  <2> QED BY <2>1
<1>2. \E k \in T : \A t \in T : ~ (<<t, k>> \in OpToRel(<, Nat))
  <2> HIDE DEF T
  <2> QED BY <1>1, WFMin, NatLessThanWellFounded, Zenon
<1>3. PICK l \in T : \A t \in T : ~ (t < l)
  BY <1>1, <1>2 DEF OpToRel
<1>4. PICK m \in S : l = n - m
  BY <1>3
<1>5. ASSUME NEW k \in S PROVE k <= m
  <2>1. n - k \in T
    OBVIOUS
  <2>2. ~ (n - k < n - m)
    BY <2>1, <1>3, <1>4
  <2>3. k \in Nat /\ m \in Nat
    OBVIOUS
  <2> QED BY <2>2, <2>3
<1> QED BY <1>5

\* The least of some numbers.
LEMMA Least ==
  ASSUME NEW S \in SUBSET Nat, S # {}
  PROVE  \E m \in S : \A k \in S : m <= k
<1>1. \E k \in S : \A t \in S : ~ (<<t, k>> \in OpToRel(<, Nat))
  BY WFMin, NatLessThanWellFounded, Zenon
<1>2. PICK m \in S : \A k \in S : ~ (k < m)
  BY <1>1 DEF OpToRel
<1>3. m \in Nat /\ \A k \in S : k \in Nat
  OBVIOUS
<1> QED BY <1>2, <1>3

\* The pairs that are due, tick by tick.
LEMMA DuePairsShape ==
  ASSUME NEW h, NEW p, NEW own, NEW first \in Ticks, NEW last \in Ticks
  PROVE  LET S == DuePairs(h, p, own, first, last)
         IN  /\ S \in SUBSET Pairs
             /\ \A t \in first .. last : Below(S, t) = DuePairs(h, p, own, first, t)
             /\ \A t \in first .. last - 1 :
                  t \in Ticks /\ At(S, t) = Due(h, p, own, t)
<1> DEFINE S == DuePairs(h, p, own, first, last)
<1>1. S \in SUBSET Pairs
  BY DEF DuePairs
<1>2. first \in Nat /\ last \in Nat /\ last <= MaxTick /\ \A u \in Ticks : u \in Nat
  BY Sizes
<1>3. \A a \in Pairs : a[1] \in Ticks
  BY DEF Pairs
<1>4. ASSUME NEW t \in first .. last PROVE Below(S, t) = DuePairs(h, p, own, first, t)
  <2>1. t \in Int /\ t <= last
    BY <1>2
  <2>2. \A u \in Nat : u < last /\ u < t <=> u < t
    BY <1>2, <2>1
  <2>3. \A a \in Pairs : a[1] < last /\ a[1] < t <=> a[1] < t
    BY <1>2, <1>3, <2>2
  <2> QED BY <2>3 DEF Below, DuePairs
<1>5. ASSUME NEW t \in first .. last - 1
      PROVE  t \in Ticks /\ At(S, t) = Due(h, p, own, t)
  <2>1. t \in Ticks /\ first <= t /\ t < last
    BY <1>2, Sizes
  <2>2. \A q \in Players : <<t, q>> \in Pairs
    BY <2>1 DEF Pairs
  <2>3. \A q \in Players : <<t, q>> \in S <=> q \in Due(h, p, own, t)
    BY <2>1, <2>2 DEF DuePairs
  <2>4. Due(h, p, own, t) \subseteq Players
    BY DEF Due
  <2> HIDE DEF S
  <2> QED BY <2>1, <2>3, <2>4 DEF At
<1> HIDE DEF S
<1> QED BY <1>1, <1>4, <1>5 DEF S

\* Who has no word due for a tick has none for a later one.
LEMMA DueDecreases ==
  ASSUME NEW h, Typed(h), NEW p, NEW own, NEW t \in Int, NEW u \in Int, t <= u
  PROVE  Due(h, p, own, u) \subseteq Due(h, p, own, t)
BY Numbers DEF Due

-----------------------------------------------------------------------------
(***************************************************************************)
(* The packet that the hub writes (send_packets)                           *)
(***************************************************************************)

\* What is sent are consecutive ticks, none of them acknowledged, all complete.
LEMMA SentTicksInterval ==
  ASSUME NEW h, Consistent(h), NEW p \in h.connected, NEW incremental
  PROVE  \E lo, hi \in Ticks : /\ SentTicks(h, p, incremental) = lo .. hi - 1
                               /\ h.unacknowledged[p] <= lo /\ hi <= h.incomplete
<1> DEFINE oldest == h.unacknowledged[p]
<1>1. /\ oldest \in Nat /\ oldest \in Ticks /\ oldest <= h.incomplete
      /\ h.incomplete \in Nat /\ h.incomplete \in Ticks
      /\ RecentFlags \in Nat /\ FullUpdate \in Nat
  BY Numbers, GameSizes DEF Consistent, Ordered, Typed, IsHub
<1>2. /\ Larger(h.incomplete - RecentFlags, oldest) \in Ticks
      /\ oldest <= Larger(h.incomplete - RecentFlags, oldest)
  <2> HIDE DEF oldest
  <2> QED BY <1>1, Sizes DEF Larger
<1>3. /\ Smaller(oldest + FullUpdate, h.incomplete) \in Ticks
      /\ Smaller(oldest + FullUpdate, h.incomplete) <= h.incomplete
  <2> HIDE DEF oldest
  <2> QED BY <1>1, Sizes DEF Smaller
<1>4. CASE ~ Reducing(h)
  <2>1. SentTicks(h, p, incremental) = oldest .. h.incomplete - 1
    BY <1>4 DEF SentTicks
  <2> QED BY <2>1, <1>1
<1>5. CASE Reducing(h) /\ incremental
  <2>1. SentTicks(h, p, incremental) =
          Larger(h.incomplete - RecentFlags, oldest) .. h.incomplete - 1
    BY <1>5 DEF SentTicks
  <2> HIDE DEF oldest
  <2> QED BY <2>1, <1>1, <1>2 DEF oldest
<1>6. CASE Reducing(h) /\ ~ incremental
  <2>1. SentTicks(h, p, incremental) =
          oldest .. Smaller(oldest + FullUpdate, h.incomplete) - 1
    BY <1>6 DEF SentTicks
  <2> HIDE DEF oldest
  <2> QED BY <2>1, <1>1, <1>3 DEF oldest
<1> QED BY <1>4, <1>5, <1>6

\* The flags of some pairs of tick and player, in the order of the pairs.
WordsOf(h, S) ==
  [i \in 1 .. Cardinality(S) |->
     <<Nth(S, i)[2], h.flags[Nth(S, i)[2]][Nth(S, i)[1]]>>]

\* The words are as many as the pairs, and in their order.
LEMMA WordsOfPairs ==
  ASSUME NEW h, NEW S \in SUBSET Pairs
  PROVE  /\ Cardinality(S) \in Nat /\ Len(WordsOf(h, S)) = Cardinality(S)
         /\ \A i \in 1 .. Cardinality(S) : \A t, q :
              Nth(S, i) = <<t, q>> => WordsOf(h, S)[i] = <<q, h.flags[q][t]>>
<1>1. Cardinality(S) \in Nat
  BY PairsFinite
<1> DEFINE word(i) == <<Nth(S, i)[2], h.flags[Nth(S, i)[2]][Nth(S, i)[1]]>>
<1>2. WordsOf(h, S) = [i \in 1 .. Cardinality(S) |-> word(i)]
  BY Zenon DEF WordsOf
<1>3. Len(WordsOf(h, S)) = Cardinality(S)
  <2> HIDE DEF word
  <2> QED BY <1>1, <1>2
<1>4. ASSUME NEW i \in 1 .. Cardinality(S), NEW t, NEW q, Nth(S, i) = <<t, q>>
      PROVE  WordsOf(h, S)[i] = <<q, h.flags[q][t]>>
  <2>1. WordsOf(h, S)[i] = word(i)
    <3> HIDE DEF word
    <3> QED BY <1>2, Zenon
  <2>2. Nth(S, i)[1] = t /\ Nth(S, i)[2] = q
    BY <1>4
  <2> QED BY <2>1, <2>2, Zenon
<1> QED BY <1>1, <1>3, <1>4

\* The fields of the packet; its words are those of the pairs that are due.
LEMMA HubPacketFields ==
  ASSUME NEW h, Consistent(h), NEW p, NEW incremental, NEW lo \in Ticks, NEW hi \in Ticks,
         SentTicks(h, p, incremental) = lo .. hi - 1, hi <= h.incomplete
  PROVE  LET packet == HubPacket(h, p, incremental)
             own    == Reflects(h, p, lo .. hi - 1)
             S      == DuePairs(h, p, own, lo, hi)
         IN  /\ packet.ack = h.flagsWrite[p]
             /\ packet.deaths =
                  [q \in {r \in Players : h.unacknowledged[p] <= h.netDeadTick[r]} |->
                     h.netDeadTick[q]]
             /\ packet.reflected = own
             /\ packet.start = IF S = {} THEN 0 ELSE Nth(S, 1)[1]
             /\ packet.words = WordsOf(h, S)
<1> DEFINE own   == Reflects(h, p, lo .. hi - 1)
           slots == {a \in (lo .. hi - 1) \X Players :
                       (a[2] = p => own) /\ a[1] < ContributesUpTo(h, a[2])}
           S     == DuePairs(h, p, own, lo, hi)
<1>1. /\ lo \in Nat /\ hi \in Nat /\ h.incomplete \in Nat /\ hi <= MaxTick
      /\ \A t \in lo .. hi - 1 : t \in Ticks /\ t \in Nat
      /\ \A t \in Ticks : t \in Nat
      /\ \A q \in Players : h.netDeadTick[q] \in Int
  <2>1. /\ lo \in Nat /\ hi \in Nat /\ h.incomplete \in Nat /\ hi <= MaxTick
        /\ \A t \in Ticks : t \in Nat
        /\ \A q \in Players : h.netDeadTick[q] \in Int
    BY Sizes, Numbers DEF Consistent
  <2>2. \A t \in lo .. hi - 1 : t \in Nat /\ t <= MaxTick
    BY <2>1, Sizes
  <2> QED BY <2>1, <2>2, Sizes
<1>2. ASSUME NEW t \in lo .. hi - 1, NEW q \in Players
      PROVE  t < ContributesUpTo(h, q) <=> q \in h.connected \/ t < h.netDeadTick[q]
  <2>1. t < h.incomplete
    BY <1>1
  <2> QED BY <2>1 DEF ContributesUpTo
<1>3. ASSUME NEW a \in slots PROVE a \in S
  <2>1. a[1] \in lo .. hi - 1 /\ a[2] \in Players /\ a = <<a[1], a[2]>>
    OBVIOUS
  <2>2. (a[2] = p => own) /\ a[1] < ContributesUpTo(h, a[2])
    OBVIOUS
  <2>3. a[2] \in Due(h, p, own, a[1])
    BY <2>1, <2>2, <1>2 DEF Due
  <2>4. a[1] \in Ticks /\ lo <= a[1] /\ a[1] < hi
    BY <1>1, <2>1
  <2>5. a \in Pairs
    BY <2>1, <2>4 DEF Pairs
  <2> HIDE DEF own, slots
  <2> QED BY <2>3, <2>4, <2>5 DEF DuePairs
<1>4. ASSUME NEW a \in S PROVE a \in slots
  <2>1. a \in Pairs /\ lo <= a[1] /\ a[1] < hi /\ a[2] \in Due(h, p, own, a[1])
    BY DEF DuePairs
  <2>2. a[1] \in Ticks /\ a[2] \in Players /\ a = <<a[1], a[2]>>
    BY <2>1 DEF Pairs
  <2>3. a[1] \in lo .. hi - 1
    BY <1>1, <2>1, <2>2
  <2>4. (a[2] = p => own) /\ a[1] < ContributesUpTo(h, a[2])
    BY <2>1, <2>3, <2>2, <1>2 DEF Due
  <2> HIDE DEF own
  <2> QED BY <2>2, <2>3, <2>4
<1>5. slots = S
  <2> HIDE DEF slots, S
  <2> QED BY <1>3, <1>4
<1>6. HubPacket(h, p, incremental) =
        [ack       |-> h.flagsWrite[p],
         deaths    |-> [q \in {r \in Players : h.unacknowledged[p] <= h.netDeadTick[r]} |->
                          h.netDeadTick[q]],
         reflected |-> own,
         start     |-> IF slots = {} THEN 0 ELSE Nth(slots, 1)[1],
         words     |-> WordsOf(h, slots)]
  BY Zenon DEF HubPacket, WordsOf
<1> HIDE DEF slots, S, own
<1>7. HubPacket(h, p, incremental) =
        [ack       |-> h.flagsWrite[p],
         deaths    |-> [q \in {r \in Players : h.unacknowledged[p] <= h.netDeadTick[r]} |->
                          h.netDeadTick[q]],
         reflected |-> own,
         start     |-> IF S = {} THEN 0 ELSE Nth(S, 1)[1],
         words     |-> WordsOf(h, S)]
  BY <1>5, <1>6, Zenon
<1> QED BY <1>7 DEF S, own

\* If any words are due, they start with the first tick, and end with the last one
\* that has any.
LEMMA DueTicks ==
  ASSUME NEW h, Consistent(h), NEW p, NEW own, NEW lo \in Ticks, NEW hi \in Ticks,
         DuePairs(h, p, own, lo, hi) # {}
  PROVE  /\ Nth(DuePairs(h, p, own, lo, hi), 1)[1] = lo
         /\ \E last \in Ticks :
              /\ lo < last /\ last <= hi /\ Due(h, p, own, last - 1) # {}
              /\ DuePairs(h, p, own, lo, hi) = DuePairs(h, p, own, lo, last)
<1> DEFINE S == DuePairs(h, p, own, lo, hi)
           T == {t \in lo .. hi - 1 : Due(h, p, own, t) # {}}
<1>1. lo \in Nat /\ hi \in Nat /\ hi <= MaxTick /\ \A t \in Ticks : t \in Nat
  BY Sizes
<1>2. \A a \in S : /\ a[1] \in Ticks /\ lo <= a[1] /\ a[1] < hi
                   /\ a[2] \in Due(h, p, own, a[1])
  BY DEF DuePairs, Pairs
<1>3. ASSUME NEW a \in S PROVE a[1] \in T
  <2>1. a[1] \in Nat /\ lo <= a[1] /\ a[1] < hi /\ Due(h, p, own, a[1]) # {}
    <3> HIDE DEF S
    <3> QED BY <1>1, <1>2
  <2> HIDE DEF S
  <2> QED BY <2>1, <1>1
<1>4. T \in SUBSET Nat /\ T # {} /\ \A t \in T : t <= hi
  <2>1. PICK a \in S : TRUE
    OBVIOUS
  <2> HIDE DEF S
  <2>2. T # {}
    BY <1>3
  <2> QED BY <2>2, <1>1
<1>5. PICK m \in T : \A t \in T : t <= m
  <2> HIDE DEF T
  <2> QED BY <1>1, <1>4, Greatest
<1>6. m \in Nat /\ lo <= m /\ m < hi /\ Due(h, p, own, m) # {}
  BY <1>1
<1>7. S = DuePairs(h, p, own, lo, m + 1)
  <2>1. ASSUME NEW a \in S PROVE a[1] < m + 1
    <3> HIDE DEF T, S
    <3>1. a[1] <= m /\ a[1] \in Ticks
      BY <1>2, <1>3, <1>5
    <3>2. a[1] \in Nat
      BY <3>1, <1>1, Zenon
    <3> QED BY <3>1, <3>2, <1>6
  <2>2. ASSUME NEW a \in Pairs, a[1] < m + 1 PROVE a[1] < hi
    <3>1. a[1] \in Ticks
      BY DEF Pairs
    <3>2. a[1] \in Nat
      BY <3>1, <1>1, Zenon
    <3> QED BY <3>2, <2>2, <1>1, <1>6
  <2> QED BY <2>1, <2>2 DEF DuePairs
<1>8. m + 1 \in Ticks /\ lo < m + 1 /\ m + 1 <= hi /\ m + 1 - 1 = m
  BY <1>1, <1>6, Sizes
<1>9. Due(h, p, own, lo) # {} /\ Due(h, p, own, lo) \in SUBSET Nat
  <2>1. Due(h, p, own, m) \subseteq Due(h, p, own, lo)
    BY <1>1, <1>6, DueDecreases DEF Consistent
  <2>2. Due(h, p, own, lo) \subseteq Players
    BY DEF Due
  <2> QED BY <2>1, <2>2, <1>6, Sizes
<1>10. PICK q \in Due(h, p, own, lo) : \A r \in Due(h, p, own, lo) : q <= r
  BY <1>9, Least
<1>11. At(S, lo) = Due(h, p, own, lo) /\ Below(S, lo) = {} /\ S \in SUBSET Pairs
  <2>1. lo \in lo .. hi - 1 /\ lo \in lo .. hi
    BY <1>1, <1>6
  <2>2. At(S, lo) = Due(h, p, own, lo) /\ S \in SUBSET Pairs
    BY <2>1, DuePairsShape
  <2>3. ASSUME NEW a \in S PROVE ~ (a[1] < lo)
    <3> HIDE DEF S
    <3>1. a[1] \in Ticks /\ lo <= a[1]
      BY <1>2
    <3>2. a[1] \in Nat
      BY <3>1, <1>1, Zenon
    <3> QED BY <3>1, <3>2, <1>1
  <2> HIDE DEF S
  <2> QED BY <2>2, <2>3 DEF Below
<1>12. {r \in At(S, lo) : r <= q} = {q}
  <2>1. \A r \in Due(h, p, own, lo) : r \in Nat /\ q \in Nat
    BY <1>9
  <2> HIDE DEF S
  <2> QED BY <2>1, <1>10, <1>11
<1>13. Nth(S, 1) = <<lo, q>>
  <2> HIDE DEF S
  <2>1. Cardinality(Below(S, lo)) = 0 /\ Cardinality({r \in At(S, lo) : r <= q}) = 1
    <3>1. Cardinality({}) = 0 /\ Cardinality({q}) = 1
      BY FS_EmptySet, FS_Singleton, Zenon
    <3> QED BY <3>1, <1>11, <1>12, Zenon
  <2>2. q \in At(S, lo)
    BY <1>11
  <2>3. Nth(S, Cardinality(Below(S, lo)) + Cardinality({r \in At(S, lo) : r <= q}))
          = <<lo, q>>
    BY <2>2, <1>11, Position
  <2> QED BY <2>1, <2>3
<1> HIDE DEF S
<1> QED BY <1>6, <1>7, <1>8, <1>13 DEF S

\* Each word is in its place.
LEMMA HubWords ==
  ASSUME NEW h, NEW p, NEW lo \in Ticks, NEW last \in Ticks, NEW packet,
         packet.words = WordsOf(h, DuePairs(h, p, packet.reflected, lo, last))
  PROVE  WordsInPlace(h, p, packet, lo, last)
<1> DEFINE own == packet.reflected
           S   == DuePairs(h, p, own, lo, last)
<1>1. S \in SUBSET Pairs
  BY DuePairsShape
<1>2. Len(packet.words) = Cardinality(S)
  BY <1>1, WordsOfPairs
<1>3. ASSUME NEW t \in lo .. last - 1, NEW q \in Due(h, p, own, t)
      PROVE  packet.words[Cardinality(DuePairs(h, p, own, lo, t)) +
                          Cardinality({r \in Due(h, p, own, t) : r <= q})]
               = <<q, h.flags[q][t]>>
  <2>1. t \in Ticks /\ At(S, t) = Due(h, p, own, t)
    BY DuePairsShape
  <2>2. Below(S, t) = DuePairs(h, p, own, lo, t)
    <3>1. t \in lo .. last
      BY Sizes
    <3> QED BY <3>1, DuePairsShape
  <2> DEFINE i == Cardinality(Below(S, t)) + Cardinality({r \in At(S, t) : r <= q})
  <2>3. i \in 1 .. Cardinality(S) /\ Nth(S, i) = <<t, q>>
    <3>1. q \in At(S, t)
      BY <2>1
    <3> HIDE DEF S
    <3> QED BY <3>1, <2>1, <1>1, Position
  <2>4. packet.words[i] = <<q, h.flags[q][t]>>
    <3>1. packet.words = WordsOf(h, S)
      OBVIOUS
    <3> HIDE DEF i, S
    <3> QED BY <3>1, <2>3, <1>1, WordsOfPairs
  <2> HIDE DEF S
  <2> QED BY <2>1, <2>2, <2>4
<1> QED BY <1>2, <1>3 DEF WordsInPlace

\* The packet that send_packets has just sent to a player may arrive there: it
\* says of the dead, and of the ticks it covers, what the hub has decided.
LEMMA HubPacketOK ==
  ASSUME NEW h, HubOK(h), JustSent(h),
         NEW p \in Observed \cap h.connected \cap h.addressKnown, NEW incremental,
         NEW s, Behind(h, s, p), KnowsDead(h, s, p), s.unreceived \in Nat
  PROVE  PacketOK(h, s, p, HubPacket(h, p, incremental))
<1> DEFINE packet == HubPacket(h, p, incremental)
<1>1. /\ Consistent(h) /\ Typed(h) /\ Ordered(h) /\ Filled(h)
      /\ p \in h.connected /\ p \in Players /\ p \notin Absent
      /\ h.unacknowledged[p] \in Nat /\ h.incomplete \in Nat /\ h.read \in Nat
      /\ h.flagsWrite[p] \in Ticks /\ h.flagsWrite[p] \in Nat
      /\ h.read <= h.unacknowledged[p] /\ h.incomplete <= h.flagsWrite[p]
      /\ h.sendTimeWrite = h.incomplete
      /\ \A q \in Players : h.netDeadTick[q] \in Int
      /\ h.unacknowledged[p] <= s.unreceived
  BY Numbers, GameSizes DEF HubOK, Consistent, Ordered, JustSent, Behind
<1>2. PICK lo \in Ticks, hi \in Ticks :
        /\ SentTicks(h, p, incremental) = lo .. hi - 1
        /\ h.unacknowledged[p] <= lo /\ hi <= h.incomplete
  BY <1>1, SentTicksInterval
<1>3. lo \in Nat /\ hi \in Nat /\ hi <= MaxTick /\ \A t \in Ticks : t \in Nat
  BY Sizes
<1> DEFINE own == Reflects(h, p, lo .. hi - 1)
           S   == DuePairs(h, p, own, lo, hi)
<1>4. /\ packet.ack = h.flagsWrite[p]
      /\ packet.deaths =
           [q \in {r \in Players : h.unacknowledged[p] <= h.netDeadTick[r]} |->
              h.netDeadTick[q]]
      /\ packet.reflected = own
      /\ packet.start = IF S = {} THEN 0 ELSE Nth(S, 1)[1]
      /\ packet.words = WordsOf(h, S)
  BY <1>1, <1>2, HubPacketFields
<1> HIDE DEF packet, S
<1>5. \A t \in lo .. hi - 1 :
        t \in Ticks /\ h.reflected[t] = {q \in Players : h.flags[q][t] = MadeUp}
  <2>1. ASSUME NEW t \in lo .. hi - 1 PROVE t \in Ticks /\ h.read <= t
    BY <1>1, <1>2, <1>3, Sizes
  <2> QED BY <2>1 DEF HubOK, FlagsInv, Reflected
<1>6. own \in BOOLEAN
  BY DEF Reflects
<1>7. MessagesOK(h, p, packet)
  <2>1. p \in h.sentTo
    BY <1>1 DEF JustSent
  <2>2. p = LocalPlayer => ~ own
    BY <1>5 DEF Reflects, HubOK
  <2>3. ASSUME NEW q \in DOMAIN packet.deaths
        PROVE  /\ q \in Players \ (h.connected \cup Absent \cup {p})
               /\ packet.deaths[q] = h.netDeadTick[q]
    <3>1. q \in Players /\ h.unacknowledged[p] <= h.netDeadTick[q]
      BY <1>4
    <3>2. packet.deaths[q] = h.netDeadTick[q]
      BY <1>4, <3>1
    <3>3. h.netDeadTick[q] # -1
      BY <3>1, <1>1
    <3>4. q \notin h.connected /\ q \notin Absent
      BY <3>3 DEF HubOK, FlagsInv, Undead
    <3> QED BY <3>1, <3>2, <3>4, <1>1
  <2> HIDE DEF own
  <2> QED BY <2>1, <2>2, <2>3, <1>1, <1>4, <1>6 DEF MessagesOK
<1>8. CASE S = {}
  <2>1. Cardinality(S) = 0
    BY <1>8, FS_EmptySet, Zenon
  <2>2. packet.words = <<>>
    BY <2>1, <1>4 DEF WordsOf
  <2> QED BY <2>2, <1>7 DEF PacketOK, packet
<1>9. CASE S # {}
  <2>1. Nth(S, 1)[1] = lo
    BY <1>1, <1>9, DueTicks DEF S
  <2>2. PICK last \in Ticks :
          /\ lo < last /\ last <= hi /\ Due(h, p, own, last - 1) # {}
          /\ S = DuePairs(h, p, own, lo, last)
    <3> HIDE DEF own
    <3> QED BY <1>1, <1>9, DueTicks DEF S
  <2>3. last \in Nat
    BY Sizes
  <2>4. Covers(h, p, packet, lo, last)
    <3>1. packet.start = lo
      BY <2>1, <1>4, <1>9
    <3>2. last <= h.sendTimeWrite /\ last <= h.flagsWrite[p]
      BY <1>1, <1>2, <1>3, <2>2, <2>3
    <3>3. ASSUME ~ packet.reflected, NEW t \in lo .. last - 1
          PROVE  h.flags[p][t] # MadeUp
      <4>1. t \in lo .. hi - 1
        BY <1>3, <2>2, <2>3
      <4>2. p \notin h.reflected[t]
        BY <4>1, <3>3, <1>4 DEF Reflects
      <4> QED BY <4>1, <4>2, <1>5, <1>1
    <3> HIDE DEF own
    <3> QED BY <3>1, <3>2, <3>3, <2>2, <1>1, <1>4 DEF Covers
  <2>5. WordsInPlace(h, p, packet, lo, last)
    <3> HIDE DEF own
    <3> QED BY <2>2, <1>4, HubWords
  <2>6. DeathsTold(h, s, packet, last)
    <3>1. ASSUME NEW q \in Players \ h.connected, h.netDeadTick[q] < last,
                 q \notin DOMAIN packet.deaths
          PROVE  q \notin s.alive
      <4>1. ~ (h.unacknowledged[p] <= h.netDeadTick[q])
        BY <3>1, <1>4
      <4>2. h.netDeadTick[q] < s.unreceived
        BY <4>1, <1>1
      <4> QED BY <4>2, <1>1 DEF KnowsDead
    <3> QED BY <3>1 DEF DeathsTold
  <2>7. WordsOK(h, s, p, packet)
    BY <2>4, <2>5, <2>6 DEF WordsOK
  <2> QED BY <2>7, <1>7 DEF PacketOK, packet
<1> QED BY <1>8, <1>9

-----------------------------------------------------------------------------
(***************************************************************************)
(* The spoke that reads a packet (spoke_received_network_packet)           *)
(***************************************************************************)

\* The numbers of a spoke.
LEMMA SpokeNumbers ==
  ASSUME NEW s, SpokeTyped(s)
  PROVE  /\ s.outRead \in Nat /\ s.outWrite \in Nat /\ s.unreceived \in Nat
         /\ s.outRead \in Ticks /\ s.outWrite \in Ticks /\ s.unreceived \in Ticks
         /\ s.outWrite <= MaxTick
         /\ s.unconfirmedRead \in Nat /\ s.unconfirmedWrite \in Nat
         /\ s.unconfirmed \in Nat /\ s.silence \in Nat /\ s.sinceSent \in Nat
         /\ s.connected \in BOOLEAN
         /\ \A q \in Players : /\ s.deadAt[q] \in Int /\ s.queue[q] \in Seq(Words)
                               /\ Len(s.queue[q]) \in Nat
<1>1. IsSpoke(s)
  BY DEF SpokeTyped
<1>2. MaxSpokeSilence \in Nat
  BY GameSizes DEF MaxSpokeSilence, Larger
<1>3. s.silence \in Nat /\ s.sinceSent \in Nat
  BY <1>1, <1>2, GameSizes, SMTT(30) DEF IsSpoke
<1>4. \A q \in Players : s.deadAt[q] \in Int /\ s.queue[q] \in Seq(Words)
  BY <1>1, Sizes DEF IsSpoke
<1>5. \A q \in Players : Len(s.queue[q]) \in Nat
  BY <1>4
<1> QED BY <1>1, <1>3, <1>4, <1>5, Sizes DEF IsSpoke

\* The words of a spoke, and its cursors, without regard to their types.
SameGame(s, t) ==
  /\ t.connected = s.connected /\ t.queue = s.queue /\ t.unreceived = s.unreceived
  /\ t.unconfirmed = s.unconfirmed /\ t.unconfirmedWrite = s.unconfirmedWrite
  /\ t.outWrite = s.outWrite /\ t.zombies = s.zombies

\* Having heard from the hub.
LEMMA HeardOK ==
  ASSUME NEW h, NEW s, NEW p, SpokeOK(h, s, p), p \in h.sentTo
  PROVE  LET t == [s EXCEPT !.heard = TRUE]
         IN  /\ SpokeOK(h, t, p) /\ SameGame(s, t) /\ t.alive = s.alive
             /\ t.outRead = s.outRead /\ t.active = s.active /\ t.deadAt = s.deadAt
             /\ t.heard = TRUE
<1> DEFINE t == [s EXCEPT !.heard = TRUE]
<1>1. DOMAIN s = SpokeFields /\ IsSpoke(s)
  BY DEF SpokeOK, SpokeTyped
<1>2. /\ DOMAIN t = SpokeFields /\ t.heard = TRUE
      /\ t.connected = s.connected /\ t.active = s.active /\ t.outRead = s.outRead
      /\ t.outWrite = s.outWrite /\ t.unconfirmedRead = s.unconfirmedRead
      /\ t.unconfirmedWrite = s.unconfirmedWrite /\ t.unconfirmed = s.unconfirmed
      /\ t.unreceived = s.unreceived /\ t.zombies = s.zombies /\ t.alive = s.alive
      /\ t.deadAt = s.deadAt /\ t.gone = s.gone /\ t.queue = s.queue
      /\ t.silence = s.silence /\ t.sinceSent = s.sinceSent /\ t.failed = s.failed
  BY <1>1 DEF SpokeFields
<1> HIDE DEF t
<1>3. IsSpoke(t)
  BY <1>1, <1>2 DEF IsSpoke
<1>4. Cursors(t) /\ Behind(h, t, p) /\ KnowsDead(h, t, p)
  BY <1>2 DEF SpokeOK, Cursors, Behind, KnowsDead
<1>5. t.connected => InOrder(h, t) \/ PlaysAlone(h, t, p)
  BY <1>2 DEF SpokeOK, InOrder, PlaysAlone, WriteTick
<1> QED BY <1>2, <1>3, <1>4, <1>5 DEF SpokeOK, SpokeTyped, SameGame, t

\* The acknowledgement and the net dead messages.
LEMMA MessagesReceivedOK ==
  ASSUME NEW h, NEW s, NEW p, NEW packet, Typed(h), p \in Players,
         SpokeOK(h, s, p), MessagesOK(h, p, packet)
  PROVE  LET t == MessagesReceived(s, packet)
         IN  /\ SpokeOK(h, t, p) /\ SameGame(s, t)
             /\ t.alive = s.alive \ DOMAIN packet.deaths
             /\ t.outRead = Larger(s.outRead, Smaller(packet.ack, s.outWrite))
             /\ t.heard = s.heard /\ t.active = s.active
<1> DEFINE t == MessagesReceived(s, packet)
           dead == DOMAIN packet.deaths
<1>1. DOMAIN s = SpokeFields /\ IsSpoke(s) /\ SpokeTyped(s)
  BY DEF SpokeOK, SpokeTyped
<1>2. /\ DOMAIN t = SpokeFields /\ t.heard = s.heard
      /\ t.connected = s.connected /\ t.active = s.active
      /\ t.outRead = Acknowledged(s, packet)
      /\ t.outWrite = s.outWrite /\ t.unconfirmedRead = s.unconfirmedRead
      /\ t.unconfirmedWrite = s.unconfirmedWrite /\ t.unconfirmed = s.unconfirmed
      /\ t.unreceived = s.unreceived /\ t.zombies = s.zombies
      /\ t.alive = s.alive \ dead
      /\ t.deadAt = [q \in Players |-> IF q \in dead THEN packet.deaths[q] ELSE s.deadAt[q]]
      /\ t.gone = s.gone /\ t.queue = s.queue
      /\ t.silence = 0 /\ t.sinceSent = s.sinceSent
      /\ t.failed = s.failed \cup
           SpokeAssert("outgoingQueued", Acknowledged(s, packet) <= s.outWrite)
  BY <1>1 DEF SpokeFields, MessagesReceived
<1> HIDE DEF t
<1>3. /\ packet.ack \in Nat /\ packet.ack <= h.flagsWrite[p]
      /\ dead \subseteq Players \ (h.connected \cup Absent \cup {p})
      /\ \A q \in dead : packet.deaths[q] = h.netDeadTick[q]
  BY Sizes DEF MessagesOK
<1>4. /\ t.outRead = Larger(s.outRead, Smaller(packet.ack, s.outWrite))
      /\ t.outRead \in Ticks /\ t.outRead <= t.outWrite
      /\ t.outRead <= h.flagsWrite[p] /\ t.failed = s.failed
  <2>1. /\ s.outRead \in Nat /\ s.outWrite \in Nat /\ s.outRead <= s.outWrite
        /\ s.outWrite <= MaxTick /\ s.outRead <= h.flagsWrite[p]
        /\ h.flagsWrite[p] \in Nat
    BY <1>1, SpokeNumbers, Numbers DEF SpokeOK, Cursors, Behind
  <2>2. Acknowledged(s, packet) <= s.outWrite
    BY <2>1, <1>3 DEF Acknowledged, Larger, Smaller
  <2>3. t.failed = s.failed
    BY <2>2, <1>2 DEF SpokeAssert
  <2> QED BY <2>1, <2>3, <1>2, <1>3, Sizes DEF Acknowledged, Larger, Smaller
<1>5. t.deadAt \in [Players -> Ticks \cup {-1}]
  <2>1. ASSUME NEW q \in Players
        PROVE  (IF q \in dead THEN packet.deaths[q] ELSE s.deadAt[q]) \in Ticks \cup {-1}
    BY <1>1, <1>3 DEF IsSpoke, Typed, IsHub
  <2> QED BY <2>1, <1>2
<1>6. 0 < MaxSpokeSilence /\ MaxSpokeSilence \in Nat
  BY GameSizes DEF MaxSpokeSilence, Larger
<1>7. IsSpoke(t)
  BY <1>1, <1>2, <1>4, <1>5, <1>6 DEF IsSpoke
<1>8. Cursors(t)
  BY <1>2, <1>4, <1>6 DEF SpokeOK, Cursors
<1>9. Behind(h, t, p)
  BY <1>2, <1>4 DEF SpokeOK, Behind
<1>10. KnowsDead(h, t, p)
  <2>1. t.zombies = Absent /\ p \in t.alive /\ t.alive \cap Absent = {}
    BY <1>2, <1>3 DEF SpokeOK, KnowsDead
  <2>2. ASSUME NEW q \in Players \ (t.alive \cup Absent)
        PROVE  q \notin h.connected /\ t.deadAt[q] = h.netDeadTick[q]
    <3>1. CASE q \in dead
      BY <3>1, <1>2, <1>3
    <3>2. CASE q \notin dead
      <4>1. q \notin s.alive
        BY <3>2, <1>2
      <4> QED BY <3>2, <4>1, <1>2 DEF SpokeOK, KnowsDead
    <3> QED BY <3>1, <3>2
  <2>3. ASSUME NEW q \in Players \ (h.connected \cup {p}), h.netDeadTick[q] < t.unreceived
        PROVE  q \notin t.alive
    BY <2>3, <1>2 DEF SpokeOK, KnowsDead
  <2> QED BY <2>1, <2>2, <2>3 DEF KnowsDead
<1>11. t.connected => InOrder(h, t) \/ PlaysAlone(h, t, p)
  BY <1>2 DEF SpokeOK, InOrder, PlaysAlone, WriteTick
<1> QED BY <1>2, <1>4, <1>7, <1>8, <1>9, <1>10, <1>11
    DEF SpokeOK, SpokeTyped, SameGame, t

\* The remark that a packet with flags was to be expected.
LEMMA NotedOK ==
  ASSUME NEW h, NEW s, NEW p, NEW condition, SpokeOK(h, s, p)
  PROVE  LET t == [s EXCEPT !.failed = @ \cup SpokeAssert("aloneWithoutFlags", condition)]
         IN  /\ SpokeOK(h, t, p) /\ SameGame(s, t) /\ t.alive = s.alive
             /\ t.outRead = s.outRead /\ t.heard = s.heard /\ t.deadAt = s.deadAt
             /\ t.active = s.active
<1> DEFINE t == [s EXCEPT !.failed = @ \cup SpokeAssert("aloneWithoutFlags", condition)]
<1>1. DOMAIN s = SpokeFields /\ IsSpoke(s)
  BY DEF SpokeOK, SpokeTyped
<1>2. /\ DOMAIN t = SpokeFields /\ t.heard = s.heard
      /\ t.connected = s.connected /\ t.active = s.active /\ t.outRead = s.outRead
      /\ t.outWrite = s.outWrite /\ t.unconfirmedRead = s.unconfirmedRead
      /\ t.unconfirmedWrite = s.unconfirmedWrite /\ t.unconfirmed = s.unconfirmed
      /\ t.unreceived = s.unreceived /\ t.zombies = s.zombies /\ t.alive = s.alive
      /\ t.deadAt = s.deadAt /\ t.gone = s.gone /\ t.queue = s.queue
      /\ t.silence = s.silence /\ t.sinceSent = s.sinceSent
      /\ t.failed = s.failed \cup SpokeAssert("aloneWithoutFlags", condition)
  BY <1>1 DEF SpokeFields
<1> HIDE DEF t
<1>3. t.failed \subseteq {"aloneWithoutFlags"}
  BY <1>2 DEF SpokeOK, Cursors, SpokeAssert
<1>4. IsSpoke(t)
  BY <1>1, <1>2, <1>3 DEF IsSpoke, SpokeAssertions
<1>5. Cursors(t) /\ Behind(h, t, p) /\ KnowsDead(h, t, p)
  BY <1>2, <1>3 DEF SpokeOK, Cursors, Behind, KnowsDead
<1>6. t.connected => InOrder(h, t) \/ PlaysAlone(h, t, p)
  BY <1>2 DEF SpokeOK, InOrder, PlaysAlone, WriteTick
<1> QED BY <1>2, <1>4, <1>5, <1>6 DEF SpokeOK, SpokeTyped, SameGame, t

\* A packet whose words for the ticks first..last-1 the spoke is about to read,
\* after the net dead messages.
Readable(h, s, p, packet, first, last) ==
  /\ HubOK(h) /\ SpokeOK(h, s, p) /\ p \in Observed
  /\ first \in Ticks /\ last \in Ticks
  /\ Covers(h, p, packet, first, last) /\ WordsInPlace(h, p, packet, first, last)
  /\ \A q \in Players \ h.connected : h.netDeadTick[q] < last => q \notin s.alive

\* The spoke expects the words that were due.
LEMMA ExpectedIsDue ==
  ASSUME NEW h, NEW s, NEW p, NEW packet, NEW first, NEW last,
         Readable(h, s, p, packet, first, last), NEW t \in first .. last - 1
  PROVE  Expected(s, p, packet.reflected, t) = Due(h, p, packet.reflected, t)
<1> DEFINE own == packet.reflected
<1>1. /\ t \in Int /\ t \in Nat /\ t < last /\ last \in Nat
      /\ p \in Players /\ p \notin Absent
      /\ \A q \in Players : h.netDeadTick[q] \in Int
  BY Sizes, GameSizes, Numbers DEF Readable, HubOK, Consistent
<1>2. /\ s.zombies = Absent /\ p \in s.alive /\ s.alive \cap Absent = {}
      /\ \A q \in Players \ (s.alive \cup Absent) :
           q \notin h.connected /\ s.deadAt[q] = h.netDeadTick[q]
  BY DEF Readable, SpokeOK, KnowsDead
<1>3. \A q \in Absent : q \notin h.connected /\ h.netDeadTick[q] = -1
  BY DEF Readable, HubOK
<1>4. p \in h.connected \/ t < h.netDeadTick[p]
  BY <1>1 DEF Readable, Covers
<1>5. \A q \in Players \ h.connected : h.netDeadTick[q] < last => q \notin s.alive
  BY DEF Readable
<1>6. ASSUME NEW q \in Players
      PROVE  (q \notin Absent /\ (q \in s.alive \/ t < s.deadAt[q]))
               <=> (q \in h.connected \/ t < h.netDeadTick[q])
  <2>1. CASE q \in Absent
    BY <2>1, <1>1, <1>3
  <2>2. CASE q \notin Absent /\ q \notin s.alive
    BY <2>2, <1>2
  <2>3. CASE q \notin Absent /\ q \in s.alive
    <3>1. CASE q \in h.connected
      BY <2>3, <3>1
    <3>2. CASE q \notin h.connected
      <4>1. ~ (h.netDeadTick[q] < last)
        BY <2>3, <3>2, <1>5
      <4>2. t < h.netDeadTick[q]
        BY <4>1, <1>1
      <4> QED BY <2>3, <4>2
    <3> QED BY <3>1, <3>2
  <2> QED BY <2>1, <2>2, <2>3
<1> HIDE DEF own
<1>7. Expected(s, p, own, t) =
        {q \in Players : /\ q = p => own
                         /\ q \notin Absent /\ (q \in s.alive \/ t < s.deadAt[q])}
  BY <1>2 DEF Expected
<1>8. Expected(s, p, own, t) = Due(h, p, own, t)
  BY <1>6, <1>7 DEF Due
<1> QED BY <1>8 DEF own

\* So it counts the words before a tick as the hub did.
LEMMA SlotsAreDue ==
  ASSUME NEW h, NEW s, NEW p, NEW packet, NEW first, NEW last,
         Readable(h, s, p, packet, first, last), NEW t \in first .. last
  PROVE  Slots(s, p, packet, t) = DuePairs(h, p, packet.reflected, first, t)
<1> DEFINE own == packet.reflected
<1>1. /\ first \in Nat /\ last \in Nat /\ last <= MaxTick /\ t \in Nat /\ t <= last
      /\ packet.start = first
  BY Sizes DEF Readable, Covers
<1>2. \A u \in first .. t - 1 : u \in Ticks /\ u \in first .. last - 1
  BY <1>1, Sizes
<1>3. Slots(s, p, packet, t) = UNION {{u} \X Due(h, p, own, u) : u \in first .. t - 1}
  BY <1>1, <1>2, ExpectedIsDue DEF Slots
<1>4. ASSUME NEW a \in Slots(s, p, packet, t) PROVE a \in DuePairs(h, p, own, first, t)
  <2>1. PICK u \in first .. t - 1 : a \in {u} \X Due(h, p, own, u)
    BY <1>3
  <2>2. a[1] = u /\ a[2] \in Due(h, p, own, u) /\ a = <<a[1], a[2]>>
    BY <2>1
  <2>3. Due(h, p, own, u) \subseteq Players
    BY DEF Due
  <2>4. a \in Pairs
    BY <1>2, <2>2, <2>3 DEF Pairs
  <2>5. first <= u /\ u < t
    BY <1>1
  <2> HIDE DEF own
  <2> QED BY <2>2, <2>4, <2>5 DEF DuePairs
<1>5. ASSUME NEW a \in DuePairs(h, p, own, first, t) PROVE a \in Slots(s, p, packet, t)
  <2>1. /\ a \in Pairs /\ first <= a[1] /\ a[1] < t
        /\ a[2] \in Due(h, p, own, a[1])
    BY DEF DuePairs
  <2>2. a = <<a[1], a[2]>> /\ a[1] \in Ticks
    BY <2>1 DEF Pairs
  <2>3. a[1] \in Nat
    BY <2>2, Sizes, Zenon
  <2>4. a[1] \in first .. t - 1
    BY <2>1, <2>3, <1>1
  <2>5. a \in {a[1]} \X Due(h, p, own, a[1])
    BY <2>1, <2>2
  <2> HIDE DEF own
  <2> QED BY <2>4, <2>5, <1>3
<1> HIDE DEF own
<1>6. Slots(s, p, packet, t) = DuePairs(h, p, own, first, t)
  BY <1>4, <1>5
<1> QED BY <1>6 DEF own

\* It finds the end of the packet where it is, and is in step with it.
LEMMA PacketEndIs ==
  ASSUME NEW h, NEW s, NEW p, NEW packet, NEW first, NEW last,
         Readable(h, s, p, packet, first, last)
  PROVE  PacketEnd(s, p, packet) = last /\ InStep(s, p, packet)
<1> DEFINE own == packet.reflected
           S(t) == DuePairs(h, p, own, first, t)
           enough == {tick \in packet.start .. MaxTick :
                        Cardinality(Slots(s, p, packet, tick)) >= Len(packet.words)}
<1>1. /\ first \in Nat /\ last \in Nat /\ last <= MaxTick /\ first < last
      /\ packet.start = first /\ first \in Ticks /\ last \in Ticks
      /\ \A u \in Ticks : u \in Nat
  BY Sizes DEF Readable, Covers
<1>2. Len(packet.words) = Cardinality(S(last))
  BY DEF Readable, WordsInPlace
<1>3. last \in enough
  <2>1. last \in first .. last /\ last \in first .. MaxTick
    BY <1>1
  <2>2. Slots(s, p, packet, last) = S(last)
    BY <2>1, SlotsAreDue
  <2>3. Cardinality(S(last)) \in Nat
    <3>1. S(last) \in SUBSET Pairs
      BY DEF DuePairs
    <3> QED BY <3>1, PairsFinite
  <2> HIDE DEF S
  <2> QED BY <2>1, <2>2, <2>3, <1>1, <1>2
<1>4. ASSUME NEW t \in enough PROVE last <= t
  <2>1. SUFFICES ASSUME t < last PROVE FALSE
    BY <1>1
  <2>2. t \in first .. last /\ t \in Nat /\ t <= last - 1
    BY <2>1, <1>1
  <2>3. Slots(s, p, packet, t) = S(t)
    BY <2>2, SlotsAreDue
  <2>4. S(t) \subseteq S(last) /\ S(t) \in SUBSET Pairs /\ S(last) \in SUBSET Pairs
    <3>1. ASSUME NEW a \in Pairs, a[1] < t PROVE a[1] < last
      <4>1. a[1] \in Ticks
        BY DEF Pairs
      <4>2. a[1] \in Nat
        BY <4>1, <1>1, Zenon
      <4> QED BY <4>2, <3>1, <1>1, <2>2
    <3> QED BY <3>1 DEF DuePairs
  <2>5. PICK q \in Due(h, p, own, last - 1) : TRUE
    BY DEF Readable, Covers
  <2>6. <<last - 1, q>> \in S(last) /\ <<last - 1, q>> \notin S(t)
    <3>1. last - 1 \in Ticks /\ q \in Players
      BY <1>1, Sizes DEF Due
    <3>2. <<last - 1, q>> \in Pairs
      BY <3>1 DEF Pairs
    <3>3. first <= last - 1 /\ last - 1 < last /\ ~ (last - 1 < t)
      BY <1>1, <2>2
    <3> HIDE DEF own
    <3> QED BY <3>2, <3>3 DEF DuePairs
  <2>7. /\ IsFiniteSet(S(last)) /\ Cardinality(S(last)) \in Nat
        /\ Cardinality(S(t)) \in Nat
    BY <2>4, PairsFinite
  <2>8. /\ Cardinality(S(t)) <= Cardinality(S(last))
        /\ Cardinality(S(last)) = Cardinality(S(t)) => S(last) = S(t)
    <3> HIDE DEF S
    <3> QED BY <2>4, <2>7, FS_Subset, Zenon
  <2>9. Cardinality(S(t)) < Cardinality(S(last))
    <3> HIDE DEF S
    <3> QED BY <2>6, <2>7, <2>8
  <2>10. Cardinality(Slots(s, p, packet, t)) >= Len(packet.words)
    OBVIOUS
  <2> HIDE DEF S, enough
  <2> QED BY <2>3, <2>7, <2>9, <2>10, <1>2
<1>5. PacketEnd(s, p, packet) = IF enough = {} THEN MaxTick
                                ELSE CHOOSE t \in enough : \A u \in enough : t <= u
  BY Zenon DEF PacketEnd
<1>6. \A t \in enough : (\A u \in enough : t <= u) => t = last
  <2>1. \A t \in enough : t \in Int
    BY <1>1
  <2> HIDE DEF enough
  <2> QED BY <2>1, <1>3, <1>4, <1>1
<1>7. PacketEnd(s, p, packet) = last
  <2> HIDE DEF enough
  <2> QED BY <1>3, <1>4, <1>5, <1>6
<1>8. Slots(s, p, packet, last) = S(last)
  <2>1. last \in first .. last
    BY <1>1
  <2> QED BY <2>1, SlotsAreDue
<1> QED BY <1>2, <1>7, <1>8, Zenon DEF InStep

\* It reads the right words.
LEMMA WordReadIs ==
  ASSUME NEW h, NEW s, NEW p, NEW packet, NEW first, NEW last,
         Readable(h, s, p, packet, first, last), NEW t \in first .. last - 1,
         NEW q \in Due(h, p, packet.reflected, t)
  PROVE  WordRead(s, p, packet, t, q) = <<q, h.flags[q][t]>>
<1>1. t \in first .. last
  BY Sizes DEF Readable
<1>2. Slots(s, p, packet, t) = DuePairs(h, p, packet.reflected, first, t)
  BY <1>1, SlotsAreDue
<1>3. Expected(s, p, packet.reflected, t) = Due(h, p, packet.reflected, t)
  BY ExpectedIsDue
<1>4. packet.words[Cardinality(DuePairs(h, p, packet.reflected, first, t)) +
                   Cardinality({r \in Due(h, p, packet.reflected, t) : r <= q})]
        = <<q, h.flags[q][t]>>
  BY DEF Readable, WordsInPlace
<1> QED BY <1>2, <1>3, <1>4, Zenon DEF WordRead

\* A sequence over W with n more elements.
ExtendedBy(W, old, n, new) ==
  /\ old \o new \in Seq(W) /\ Len(old \o new) = Len(old) + n
  /\ \A i \in 1 .. Len(old) : (old \o new)[i] = old[i]
  /\ \A i \in 1 .. n : (old \o new)[Len(old) + i] = new[i]

\* See ExtendedBy.
LEMMA Extended ==
  ASSUME NEW W, NEW old \in Seq(W), NEW n \in Nat, NEW new \in [1 .. n -> W]
  PROVE  ExtendedBy(W, old, n, new)
<1>1. new \in Seq(W) /\ Len(new) = n
  OBVIOUS
<1>2. Len(old) \in Nat /\ DOMAIN old = 1 .. Len(old)
  OBVIOUS
<1>3. old \o new \in Seq(W) /\ Len(old \o new) = Len(old) + n
  BY <1>1
<1>4. ASSUME NEW i \in 1 .. Len(old) + n
      PROVE  (old \o new)[i] = IF i <= Len(old) THEN old[i] ELSE new[i - Len(old)]
  BY <1>1, <1>2
<1>5. ASSUME NEW i \in 1 .. Len(old) PROVE (old \o new)[i] = old[i]
  BY <1>2, <1>4
<1>6. ASSUME NEW i \in 1 .. n PROVE (old \o new)[Len(old) + i] = new[i]
  <2>1. Len(old) + i \in 1 .. Len(old) + n /\ ~ (Len(old) + i <= Len(old))
        /\ Len(old) + i - Len(old) = i
    BY <1>2
  <2> QED BY <2>1, <1>4
<1> QED BY <1>3, <1>5, <1>6 DEF ExtendedBy

\* The word the spoke takes for q in a new tick is what the hub has decided.
LEMMA WordIsDecision ==
  ASSUME NEW h, NEW s, NEW p, NEW packet, NEW first, NEW last,
         Readable(h, s, p, packet, first, last), NEW t \in first .. last - 1,
         NEW q \in Players \ Absent, packet.reflected \in BOOLEAN
  PROVE  Decision(h, q, t) =
           IF q = p /\ Confirms(packet) THEN <<p, t>>
           ELSE IF q \in s.alive \/ t < s.deadAt[q]
                THEN WordRead(s, p, packet, t, q) ELSE <<q, NetDead>>
<1>1. /\ t \in Int /\ t \in Nat /\ t < last /\ last \in Nat
      /\ h.incomplete \in Nat /\ h.sendTimeWrite \in Nat
      /\ h.sendTimeWrite <= h.incomplete /\ last <= h.sendTimeWrite
      /\ p \in Players /\ p \notin Absent /\ h.flagsWrite[p] \in Nat
      /\ last <= h.flagsWrite[p] /\ h.netDeadTick[p] \in Int
  BY Sizes, GameSizes, Numbers DEF Readable, HubOK, Consistent, Ordered, Covers
<1>2. t < ContributesUpTo(h, q) <=> q \in h.connected \/ t < h.netDeadTick[q]
  BY <1>1 DEF ContributesUpTo
<1>3. CASE q = p /\ Confirms(packet)
  <2>1. h.flags[p][t] # MadeUp
    BY <1>3 DEF Readable, Covers, Confirms
  <2>2. h.flags[p][t] \in {t, MadeUp}
    <3>1. t \in 0 .. h.flagsWrite[p] - 1
      BY <1>1
    <3> QED BY <3>1, <1>1 DEF Readable, HubOK, Consistent, Filled
  <2>3. p \in h.connected \/ t < h.netDeadTick[p]
    BY <1>1 DEF Readable, Covers
  <2> QED BY <1>2, <1>3, <2>1, <2>2, <2>3 DEF Decision
<1>4. CASE ~ (q = p /\ Confirms(packet))
  <2>1. q = p => packet.reflected
    BY <1>4 DEF Confirms
  <2>2. Expected(s, p, packet.reflected, t) = Due(h, p, packet.reflected, t)
    BY ExpectedIsDue
  <2>3. q \in s.alive \/ t < s.deadAt[q] <=> q \in Expected(s, p, packet.reflected, t)
    BY <2>1 DEF Expected, Readable, SpokeOK, KnowsDead
  <2>4. q \in Due(h, p, packet.reflected, t) <=> t < ContributesUpTo(h, q)
    BY <2>1, <1>2 DEF Due
  <2>5. CASE q \in Due(h, p, packet.reflected, t)
    BY <2>2, <2>3, <2>4, <2>5, <1>4, WordReadIs DEF Decision
  <2>6. CASE q \notin Due(h, p, packet.reflected, t)
    BY <2>2, <2>3, <2>4, <2>6, <1>4 DEF Decision
  <2> QED BY <2>5, <2>6
<1> QED BY <1>3, <1>4

\* The hub's decisions are words of action flags.
LEMMA DecisionWord ==
  ASSUME NEW h, HubOK(h), NEW q \in Players, NEW t \in 0 .. h.sendTimeWrite - 1
  PROVE  Decision(h, q, t) \in Words
<1>1. /\ t \in Nat /\ t < h.sendTimeWrite /\ h.sendTimeWrite <= h.incomplete
      /\ h.incomplete \in Nat /\ h.sendTimeWrite \in Nat /\ h.sendTimeWrite \in Ticks
      /\ h.flagsWrite[q] \in Nat /\ h.netDeadTick[q] \in Int
      /\ h.netDeadTick[q] <= h.flagsWrite[q]
      /\ q \in h.connected => h.incomplete <= h.flagsWrite[q]
  BY Numbers DEF HubOK, Consistent, Ordered
<1>2. t \in Ticks
  BY <1>1, Sizes
<1>3. CASE t < ContributesUpTo(h, q)
  <2>1. t < h.flagsWrite[q]
    BY <1>1, <1>3 DEF ContributesUpTo
  <2>2. t \in 0 .. h.flagsWrite[q] - 1
    BY <1>1, <2>1
  <2>3. h.flags[q][t] \in {t, MadeUp}
    BY <2>2 DEF HubOK, Consistent, Filled
  <2> QED BY <1>2, <1>3, <2>3 DEF Decision, Words
<1>4. CASE ~ (t < ContributesUpTo(h, q))
  BY <1>4 DEF Decision, Words
<1> QED BY <1>3, <1>4

\* Who plays alone has had all that any packet contains.
LEMMA AloneHasAll ==
  ASSUME NEW h, NEW s, NEW p, NEW packet, NEW first, NEW last,
         Readable(h, s, p, packet, first, last), PlaysAlone(h, s, p),
         ~ packet.reflected
  PROVE  last <= s.unreceived
<1>1. PICK q \in Due(h, p, packet.reflected, last - 1) : TRUE
  BY DEF Readable, Covers
<1>2. q \in Players /\ q # p /\ (q \in h.connected \/ last - 1 < h.netDeadTick[q])
  BY <1>1 DEF Due
<1>3. last - 1 < h.netDeadTick[q] /\ h.netDeadTick[q] <= s.unreceived
  BY <1>2 DEF PlaysAlone
<1>4. last \in Nat /\ h.netDeadTick[q] \in Int /\ s.unreceived \in Nat
  BY <1>2, Sizes, Numbers, SpokeNumbers DEF Readable, HubOK, Consistent, SpokeOK
<1> QED BY <1>3, <1>4

\* What a later state of a spoke has at least, and what it does not take back.
SpokeGrows(s, t) ==
  /\ s.unreceived <= t.unreceived /\ s.outWrite <= t.outWrite
  /\ t.alive \subseteq s.alive /\ (s.heard => t.heard)
  /\ (t.connected => s.connected) /\ (t.active => s.active)

\* The action flags of a packet: the spoke takes the decisions of the hub for the
\* next ticks, all players' and in order, and no assertion fails.
LEMMA FlagsReceivedOK ==
  ASSUME NEW h, NEW s, NEW p, NEW packet, NEW first, NEW last, NEW room \in Nat,
         Readable(h, s, p, packet, first, last), s.connected, room > 0,
         first <= s.unreceived, packet.reflected \in BOOLEAN,
         p = LocalPlayer => ~ packet.reflected
  PROVE  LET t == FlagsReceived(s, p, packet, room)
         IN  SpokeOK(h, t, p) /\ SpokeGrows(s, t)
<1> DEFINE t     == FlagsReceived(s, p, packet, room)
           end   == Smaller(last, s.unreceived + room)
           start == Larger(s.unreceived, RealGameTick)
           count == Larger(end - start, 0)
           word(q, tick) ==
             IF q = p /\ Confirms(packet) THEN <<p, s.unconfirmed + tick - start>>
             ELSE IF q \in s.alive \/ tick < s.deadAt[q]
                  THEN WordRead(s, p, packet, tick, q) ELSE <<q, NetDead>>
           new(q) == [i \in 1 .. count |-> word(q, start + i - 1)]
<1>1. /\ HubOK(h) /\ SpokeOK(h, s, p) /\ SpokeTyped(s) /\ IsSpoke(s) /\ Cursors(s)
      /\ Behind(h, s, p) /\ KnowsDead(h, s, p) /\ DOMAIN s = SpokeFields
      /\ p \in Players /\ p \notin Absent /\ Absent \subseteq Players
      /\ s.zombies = Absent
  BY GameSizes DEF Readable, SpokeOK, SpokeTyped, KnowsDead
<1>2. /\ first \in Nat /\ last \in Nat /\ last <= MaxTick /\ first < last
      /\ first \in Ticks /\ last \in Ticks /\ RealGameTick \in Nat
      /\ s.unreceived \in Nat /\ s.unconfirmed \in Nat
      /\ last <= h.sendTimeWrite /\ last <= h.flagsWrite[p] /\ h.flagsWrite[p] \in Nat
      /\ h.sendTimeWrite \in Nat
  BY <1>1, Sizes, GameSizes, SpokeNumbers, Numbers
     DEF Readable, Covers, HubOK, Consistent
<1>3. PacketEnd(s, p, packet) = last /\ InStep(s, p, packet)
  BY PacketEndIs
<1>4. t = IF end <= s.unreceived THEN s
          ELSE [s EXCEPT
            !.queue = [q \in Players |-> IF q \in s.zombies THEN @[q]
                                         ELSE @[q] \o new(q)],
            !.unconfirmed = @ + count,
            !.unreceived = end,
            !.gone = @ \cup {q \in Players \ (s.zombies \cup s.alive) :
                               s.deadAt[q] \in s.unreceived .. end - 1},
            !.failed = @
              \cup SpokeAssert("flagsInOrder", count > 0 =>
                     \A q \in Players \ s.zombies : WriteTick(s, q) = start)
              \cup SpokeAssert("unconfirmedQueued", count > 0 /\ Confirms(packet) =>
                     /\ s.unconfirmedRead <= s.unconfirmed
                     /\ s.unconfirmed + count <= s.unconfirmedWrite)
              \cup SpokeAssert("ownFlagsInOrder", count > 0 /\ Confirms(packet) =>
                     WriteTick(s, p) = s.unconfirmed)]
  BY <1>3, Zenon DEF FlagsReceived
<1>5. CASE end <= s.unreceived
  <2>1. t = s
    BY <1>4, <1>5, Zenon
  <2>2. SpokeGrows(s, s)
    BY <1>1, SpokeNumbers DEF SpokeGrows
  <2> HIDE DEF t
  <2> QED BY <2>1, <2>2, <1>1 DEF t
<1>6. CASE ~ (end <= s.unreceived)
  <2>1. end \in Nat /\ end <= last /\ s.unreceived < end /\ end \in Ticks
    BY <1>2, <1>6, Sizes DEF Smaller
  <2>2. InOrder(h, s)
    <3>1. ~ PlaysAlone(h, s, p)
      <4>1. SUFFICES ASSUME PlaysAlone(h, s, p) PROVE FALSE
        OBVIOUS
      <4>2. ~ packet.reflected
        BY <4>1 DEF PlaysAlone
      <4>3. last <= s.unreceived
        BY <4>1, <4>2, AloneHasAll
      <4> HIDE DEF end
      <4> QED BY <4>3, <2>1, <1>2
    <3> QED BY <3>1, <1>1 DEF SpokeOK
  <2>3. /\ s.unconfirmed = start /\ start \in Nat /\ count \in Nat
        /\ start + count = Larger(end, RealGameTick)
        /\ (count > 0 => start + count = end)
        /\ \A i \in 1 .. count : /\ start + i - 1 \in first .. last - 1
                                 /\ start + i - 1 \in Nat
    <3>1. s.unconfirmed = start
      BY <2>2 DEF InOrder
    <3> HIDE DEF end
    <3>2. /\ start \in Nat /\ s.unreceived <= start /\ RealGameTick <= start
          /\ start = s.unreceived \/ start = RealGameTick
      BY <1>2 DEF Larger
    <3> HIDE DEF start
    <3>3. /\ count \in Nat /\ count >= end - start
          /\ count = 0 \/ count = end - start
      BY <2>1, <3>2 DEF Larger
    <3> HIDE DEF count
    <3>4. start + count = Larger(end, RealGameTick)
      BY <1>2, <2>1, <3>2, <3>3 DEF Larger
    <3>5. ASSUME NEW i \in 1 .. count
          PROVE  start + i - 1 \in first .. last - 1 /\ start + i - 1 \in Nat
      BY <1>2, <2>1, <3>2, <3>3
    <3>6. count > 0 => start + count = end
      BY <2>1, <3>2, <3>3
    <3> QED BY <3>1, <3>2, <3>3, <3>4, <3>5, <3>6
  <2>4. ASSUME NEW q \in Players \ Absent, NEW i \in 1 .. count
        PROVE  /\ new(q)[i] = Decision(h, q, start + i - 1)
               /\ new(q)[i] \in Words
    <3> DEFINE tick == start + i - 1
    <3>1. tick \in first .. last - 1 /\ tick \in Nat
      BY <2>3
    <3>2. s.unconfirmed + tick - start = tick
      <4> HIDE DEF start, count
      <4> QED BY <2>3
    <3>3. new(q)[i] = word(q, tick)
      <4> HIDE DEF word, start, count
      <4> QED OBVIOUS
    <3>4. word(q, tick) = Decision(h, q, tick)
      <4> HIDE DEF tick, start
      <4>1. Decision(h, q, tick) =
              IF q = p /\ Confirms(packet) THEN <<p, tick>>
              ELSE IF q \in s.alive \/ tick < s.deadAt[q]
                   THEN WordRead(s, p, packet, tick, q) ELSE <<q, NetDead>>
        BY <3>1, WordIsDecision
      <4> QED BY <4>1, <3>2, Zenon
    <3>5. Decision(h, q, tick) \in Words
      <4>1. tick \in 0 .. h.sendTimeWrite - 1
        <5> HIDE DEF tick
        <5> QED BY <3>1, <1>2
      <4> HIDE DEF tick
      <4> QED BY <4>1, <1>1, DecisionWord
    <3> QED BY <3>3, <3>4, <3>5
  <2>5. ASSUME NEW q \in Players \ Absent
        PROVE  LET seq == s.queue[q] \o new(q)
               IN  /\ seq \in Seq(Words) /\ Len(seq) = Len(s.queue[q]) + count
                   /\ \A i \in 1 .. Len(seq) :
                        seq[i] = Decision(h, q, RealGameTick + i - 1)
    <3> DEFINE old == s.queue[q]
               add == new(q)
    <3>1. old \in Seq(Words) /\ Len(old) \in Nat
      BY <1>1, SpokeNumbers
    <3>2. add \in [1 .. count -> Words]
      <4>1. DOMAIN add = 1 .. count /\ add = [i \in 1 .. count |-> add[i]]
        <5> HIDE DEF word, count, start
        <5> QED OBVIOUS
      <4>2. \A i \in 1 .. count : add[i] \in Words
        BY <2>4
      <4> HIDE DEF add
      <4> QED BY <4>1, <4>2
    <3>3. /\ old \o add \in Seq(Words) /\ Len(old \o add) = Len(old) + count
          /\ \A i \in 1 .. Len(old) : (old \o add)[i] = old[i]
          /\ \A i \in 1 .. count : (old \o add)[Len(old) + i] = add[i]
      <4>1. count \in Nat
        BY <2>3
      <4> HIDE DEF old, add, count
      <4>2. ExtendedBy(Words, old, count, add)
        BY <3>1, <3>2, <4>1, Extended, Zenon
      <4> QED BY <4>2, Zenon DEF ExtendedBy
    <3>4. RealGameTick + Len(old) = start
      BY <2>2 DEF InOrder, WriteTick
    <3>5. ASSUME NEW i \in 1 .. Len(old) + count
          PROVE  (old \o add)[i] = Decision(h, q, RealGameTick + i - 1)
      <4>1. CASE i <= Len(old)
        <5>1. i \in 1 .. Len(old)
          BY <4>1, <3>1
        <5>2. old[i] = Decision(h, q, RealGameTick + i - 1)
          BY <5>1, <2>2 DEF InOrder
        <5> HIDE DEF old, add, count
        <5> QED BY <5>1, <5>2, <3>3
      <4>2. CASE ~ (i <= Len(old))
        <5> DEFINE j == i - Len(old)
        <5>1. j \in 1 .. count /\ i = Len(old) + j
          <6> HIDE DEF old, count
          <6> QED BY <4>2, <3>1, <2>3
        <5>2. start + j - 1 = RealGameTick + i - 1
          <6> HIDE DEF old, start, count
          <6> QED BY <3>1, <3>4, <5>1, <1>2, <2>3, SMTT(40)
        <5>3. add[j] = Decision(h, q, start + j - 1)
          BY <5>1, <2>4
        <5> HIDE DEF old, add, count, j, start
        <5> QED BY <5>1, <5>2, <5>3, <3>3
      <4> QED BY <4>1, <4>2
    <3> HIDE DEF old, add, count
    <3> QED BY <3>3, <3>5 DEF old, add
  <2>6. /\ (count > 0 => \A q \in Players \ s.zombies : WriteTick(s, q) = start)
        /\ (count > 0 /\ Confirms(packet) => WriteTick(s, p) = s.unconfirmed)
    BY <2>2, <1>1 DEF InOrder
  <2>7. count > 0 /\ Confirms(packet) =>
          s.unconfirmedRead <= s.unconfirmed /\ s.unconfirmed + count <= s.unconfirmedWrite
    <3>1. SUFFICES ASSUME count > 0, Confirms(packet)
                   PROVE  end <= s.unconfirmedWrite
      BY <2>3, <1>1 DEF Cursors
    <3>2. end - 1 \in first .. last - 1 /\ end - 1 \in 0 .. h.flagsWrite[p] - 1
      <4>1. /\ count \in 1 .. count /\ start + count - 1 = end - 1
            /\ end - 1 \in Nat /\ end - 1 < h.flagsWrite[p]
        <5> HIDE DEF count, start, end
        <5> QED BY <3>1, <2>3, <2>1, <1>2
      <4>2. start + count - 1 \in first .. last - 1
        BY <4>1, <2>3
      <4> HIDE DEF count, start, end
      <4> QED BY <4>1, <4>2, <1>2
    <3>3. h.flags[p][end - 1] # MadeUp
      BY <3>1, <3>2 DEF Readable, Covers, Confirms
    <3>4. end - 1 < s.outWrite
      BY <3>2, <3>3, <1>1 DEF Behind
    <3>5. s.outWrite \in Nat
      BY <1>1, SpokeNumbers
    <3> HIDE DEF end
    <3> QED BY <3>4, <3>5, <2>1, <1>1, <1>2 DEF Cursors, Larger
  <2> DEFINE queue == [q \in Players |-> IF q \in s.zombies THEN s.queue[q]
                                         ELSE s.queue[q] \o new(q)]
             gone  == s.gone \cup {q \in Players \ (s.zombies \cup s.alive) :
                                     s.deadAt[q] \in s.unreceived .. end - 1}
  <2>8. t = [s EXCEPT !.queue = queue, !.unconfirmed = @ + count, !.unreceived = end,
                      !.gone = gone, !.failed = @ \cup {} \cup {} \cup {}]
    <3>1. /\ SpokeAssert("flagsInOrder", count > 0 =>
                \A q \in Players \ s.zombies : WriteTick(s, q) = start) = {}
          /\ SpokeAssert("unconfirmedQueued", count > 0 /\ Confirms(packet) =>
                /\ s.unconfirmedRead <= s.unconfirmed
                /\ s.unconfirmed + count <= s.unconfirmedWrite) = {}
          /\ SpokeAssert("ownFlagsInOrder", count > 0 /\ Confirms(packet) =>
                WriteTick(s, p) = s.unconfirmed) = {}
      <4> HIDE DEF count, start
      <4> QED BY <2>6, <2>7, Zenon DEF SpokeAssert
    <3> HIDE DEF count, start, end, new, t
    <3> QED BY <3>1, <1>4, <1>6, Zenon
  <2>9. /\ DOMAIN t = SpokeFields /\ t.heard = s.heard
        /\ t.connected = s.connected /\ t.active = s.active /\ t.outRead = s.outRead
        /\ t.outWrite = s.outWrite /\ t.unconfirmedRead = s.unconfirmedRead
        /\ t.unconfirmedWrite = s.unconfirmedWrite
        /\ t.unconfirmed = s.unconfirmed + count
        /\ t.unreceived = end /\ t.zombies = s.zombies /\ t.alive = s.alive
        /\ t.deadAt = s.deadAt /\ t.gone = gone /\ t.queue = queue
        /\ t.silence = s.silence /\ t.sinceSent = s.sinceSent /\ t.failed = s.failed
    <3> HIDE DEF queue, gone, count, end, t
    <3> QED BY <2>8, <1>1 DEF SpokeFields
  <2>10. \A q \in Players : /\ q \in Absent => t.queue[q] = s.queue[q]
                            /\ q \notin Absent => t.queue[q] = s.queue[q] \o new(q)
    <3> HIDE DEF new, t
    <3> QED BY <2>9, <1>1
  <2>11. t.queue \in [Players -> Seq(Words)]
    <3>1. ASSUME NEW q \in Players PROVE t.queue[q] \in Seq(Words)
      <4>1. CASE q \in Absent
        <5> HIDE DEF t, new
        <5> QED BY <4>1, <2>10, <1>1, SpokeNumbers
      <4>2. CASE q \notin Absent
        <5>1. s.queue[q] \o new(q) \in Seq(Words)
          BY <4>2, <2>5
        <5> HIDE DEF t, new
        <5> QED BY <4>2, <2>10, <5>1
      <4> QED BY <4>1, <4>2
    <3>2. t.queue = [q \in Players |-> t.queue[q]]
      <4> HIDE DEF t, new
      <4> QED BY <2>9
    <3> HIDE DEF t
    <3> QED BY <3>1, <3>2
  <2> HIDE DEF t, queue, new, count, start, end
  <2>12. IsSpoke(t)
    <3>1. gone \subseteq Players
      BY <1>1 DEF IsSpoke
    <3> QED BY <1>1, <2>1, <2>3, <2>9, <2>11, <3>1 DEF IsSpoke
  <2>13. Cursors(t)
    BY <1>1, <1>2, <2>3, <2>9, SpokeNumbers, SMTT(30) DEF Cursors
  <2>14. Behind(h, t, p)
    <3>1. p \in h.connected => h.unacknowledged[p] <= end
      BY <1>1, <1>2, <2>1, Numbers DEF Behind, HubOK, Consistent
    <3>2. end <= h.sendTimeWrite
      BY <1>2, <2>1
    <3> QED BY <1>1, <2>9, <3>1, <3>2 DEF Behind
  <2>15. KnowsDead(h, t, p)
    <3>1. ASSUME NEW q \in Players \ (h.connected \cup {p}), h.netDeadTick[q] < end
          PROVE  q \notin s.alive
      <4>1. h.netDeadTick[q] \in Int
        BY <1>1, Numbers DEF HubOK, Consistent
      <4>2. h.netDeadTick[q] < last
        BY <4>1, <3>1, <1>2, <2>1
      <4> QED BY <4>2 DEF Readable
    <3> QED BY <1>1, <2>9, <3>1 DEF KnowsDead
  <2>16. InOrder(h, t)
    <3>1. t.unconfirmed = Larger(t.unreceived, RealGameTick)
      BY <2>3, <2>9
    <3>2. \A q \in Absent : t.queue[q] = <<>>
      BY <1>1, <2>2, <2>10 DEF InOrder
    <3>3. ASSUME NEW q \in Players \ Absent
          PROVE  /\ WriteTick(t, q) = Larger(t.unreceived, RealGameTick)
                 /\ \A i \in 1 .. Len(t.queue[q]) :
                      t.queue[q][i] = Decision(h, q, RealGameTick + i - 1)
      <4>1. t.queue[q] = s.queue[q] \o new(q)
        BY <2>10
      <4>2. Len(t.queue[q]) = Len(s.queue[q]) + count
        BY <4>1, <2>5
      <4>3. RealGameTick + Len(s.queue[q]) = start /\ Len(s.queue[q]) \in Nat
        BY <2>2, <1>1, SpokeNumbers DEF InOrder, WriteTick, start
      <4>4. RealGameTick + Len(t.queue[q]) = start + count
        <5>1. count \in Nat /\ RealGameTick \in Nat
          BY <1>2, <2>3
        <5>2. \A n \in Nat : RealGameTick + (n + count) = RealGameTick + n + count
          BY <5>1
        <5> QED BY <5>2, <4>2, <4>3, Zenon
      <4>5. start + count = Larger(end, RealGameTick)
        BY <2>3
      <4>6. WriteTick(t, q) = Larger(t.unreceived, RealGameTick)
        BY <4>4, <4>5, <2>9, Zenon DEF WriteTick
      <4>7. \A i \in 1 .. Len(t.queue[q]) :
              t.queue[q][i] = Decision(h, q, RealGameTick + i - 1)
        BY <4>1, <2>5
      <4> QED BY <4>6, <4>7
    <3> QED BY <3>1, <3>2, <3>3 DEF InOrder
  <2>17. SpokeGrows(s, t)
    BY <1>1, <1>2, <2>1, <2>9, SpokeNumbers DEF SpokeGrows
  <2> QED BY <2>9, <2>12, <2>13, <2>14, <2>15, <2>16, <2>17
      DEF SpokeOK, SpokeTyped, t
<1> QED BY <1>5, <1>6

\* The words a queue is filled with are words of action flags.
LEMMA OwnWordsTyped ==
  ASSUME NEW p \in Players, NEW a \in Nat, NEW b \in Int, b <= MaxTick \/ b <= a
  PROVE  OwnWords(p, a, b) \in Seq(Words)
<1> DEFINE n == IF b <= a THEN 0 ELSE b - a
           own == OwnWords(p, a, b)
<1>1. n \in Nat /\ 1 .. b - a = 1 .. n
  BY 1 .. 0 = {}
<1>2. own = [i \in 1 .. n |-> <<p, a + i - 1>>]
  BY <1>1 DEF OwnWords
<1>3. ASSUME NEW i \in 1 .. n PROVE <<p, a + i - 1>> \in Words
  <2>1. a + i - 1 \in Nat /\ a + i - 1 <= MaxTick
    BY Sizes
  <2>2. a + i - 1 \in Ticks
    BY <2>1, Sizes
  <2> QED BY <2>2 DEF Words
<1> HIDE DEF n, own
<1>4. own \in [1 .. n -> Words]
  BY <1>2, <1>3
<1>5. own \in Seq(Words)
  BY <1>1, <1>4
<1> QED BY <1>5 DEF own

\* The words enqueued for a dead player.
LEMMA NetDeadTyped ==
  ASSUME NEW s, SpokeTyped(s), NEW q \in Players, NEW tick \in Int
  PROVE  NetDeadUpTo(s, q, tick) \in Seq(Words)
<1> DEFINE m == tick - WriteTick(s, q)
           n == IF m <= 0 THEN 0 ELSE m
           dead == [i \in 1 .. m |-> <<q, NetDead>>]
           old == s.queue[q]
<1>1. m \in Int
  <2>1. RealGameTick \in Int
    BY GameSizes
  <2>2. Len(s.queue[q]) \in Nat
    BY SpokeNumbers
  <2> QED BY <2>1, <2>2 DEF WriteTick
<1>2. n \in Nat /\ 1 .. m = 1 .. n
  <2> HIDE DEF m
  <2> QED BY <1>1, 1 .. 0 = {}
<1>3. <<q, NetDead>> \in Words
  BY DEF Words
<1> HIDE DEF m, n
<1>4. dead \in [1 .. n -> Words]
  BY <1>2, <1>3
<1>5. dead \in Seq(Words)
  <2> HIDE DEF dead
  <2> QED BY <1>2, <1>4
<1>6. old \in Seq(Words)
  BY SpokeNumbers
<1>7. old \o dead \in Seq(Words)
  <2> HIDE DEF old, dead
  <2> QED BY <1>5, <1>6
<1> QED BY <1>7, Zenon DEF NetDeadUpTo, m, dead, old

\* When everybody else is gone the spoke on the hub's machine plays on with its
\* own flags, all of which the hub has acknowledged: nothing is waited for.
LEMMA PlayedAloneOK ==
  ASSUME NEW h, HubOK(h), JustSent(h), NEW s, NEW p, p = LocalPlayer,
         p \in h.connected, SpokeOK(h, s, p), Alone(s, p),
         s.outRead >= Smaller(h.flagsWrite[p], s.outWrite)
  PROVE  SpokeOK(h, PlayedAlone(s, p), p)
<1> DEFINE t == PlayedAlone(s, p)
           queue == [q \in Players |->
             IF q = p THEN s.queue[p] \o OwnWords(p, s.unconfirmed, s.unconfirmedWrite)
             ELSE IF q \in s.zombies THEN s.queue[q] ELSE NetDeadUpTo(s, q, s.outRead)]
<1>1. /\ SpokeTyped(s) /\ IsSpoke(s) /\ Cursors(s)
      /\ Behind(h, s, p) /\ KnowsDead(h, s, p) /\ DOMAIN s = SpokeFields
      /\ p \in Players /\ p \notin Absent /\ Absent \subseteq Players
      /\ s.zombies = Absent /\ Consistent(h) /\ Ordered(h) /\ Waiting(h)
  BY GameSizes DEF SpokeOK, SpokeTyped, KnowsDead, HubOK, Consistent
<1>2. /\ s.outRead \in Nat /\ s.outRead \in Ticks /\ s.outWrite \in Nat
      /\ s.outWrite <= MaxTick /\ s.unconfirmed \in Nat /\ s.unconfirmedWrite \in Nat
      /\ s.unconfirmedRead \in Nat
      /\ s.unreceived \in Nat /\ RealGameTick \in Nat
      /\ s.outRead <= s.outWrite /\ s.outRead <= h.flagsWrite[p]
      /\ h.flagsWrite[p] \in Nat /\ h.incomplete \in Nat /\ h.write \in Nat
      /\ h.read \in Nat /\ h.unacknowledged[p] \in Nat /\ h.sendTimeWrite \in Nat
      /\ h.incomplete <= h.flagsWrite[p] /\ h.flagsWrite[p] <= h.write
      /\ h.read <= h.unacknowledged[p] /\ h.unacknowledged[p] <= h.incomplete
      /\ h.sendTimeWrite = h.incomplete
      /\ \A q \in Players : h.netDeadTick[q] \in Int
  BY <1>1, GameSizes, SpokeNumbers, Numbers
     DEF Consistent, Cursors, Behind, JustSent, Ordered
<1>3. \A q \in Players \ {p} : q \notin s.alive /\ s.deadAt[q] <= s.outRead
  BY DEF Alone
<1>4. ASSUME NEW q \in Players \ {p}
      PROVE  q \notin h.connected /\ h.netDeadTick[q] <= s.outRead
  <2>1. CASE q \in Absent
    BY <2>1, <1>2 DEF HubOK
  <2>2. CASE q \notin Absent
    BY <2>2, <1>1, <1>3 DEF KnowsDead
  <2> QED BY <2>1, <2>2
<1>5. h.connected = {p}
  <2>1. h.connected \subseteq Players
    BY <1>1, Numbers DEF Consistent
  <2> QED BY <2>1, <1>4
<1>6. h.flagsWrite[p] = h.incomplete
  <2>1. SUFFICES ASSUME h.incomplete < h.flagsWrite[p] PROVE FALSE
    BY <1>2
  <2>2. h.incomplete \in h.read .. h.write - 1
    BY <2>1, <1>2
  <2>3. h.disposition[h.incomplete] # {}
    BY <2>2, <1>1, <1>5 DEF Waiting
  <2>4. h.disposition[h.incomplete] = {q \in h.connected : h.flagsWrite[q] <= h.incomplete}
    <3>1. h.disposition[h.incomplete] = Awaited(h, h.incomplete)
      BY <2>2, <1>1 DEF Waiting
    <3>2. ~ (h.incomplete < h.incomplete)
      BY <1>2
    <3> QED BY <3>1, <3>2 DEF Awaited
  <2>5. ~ (h.flagsWrite[p] <= h.incomplete)
    BY <2>1, <1>2
  <2> QED BY <2>3, <2>4, <2>5, <1>5
<1>7. h.flagsWrite[p] <= s.outWrite
  <2>1. SUFFICES ASSUME s.outWrite < h.flagsWrite[p] PROVE FALSE
    BY <1>2
  <2> DEFINE u == h.flagsWrite[p] - 1
  <2>2. u \in 0 .. h.flagsWrite[p] - 1 /\ ~ (u < s.outWrite) /\ u \in Nat
    BY <2>1, <1>2
  <2>3. h.flags[p][u] = MadeUp
    BY <2>2, <1>1 DEF Behind
  <2>4. u \in Ticks
    <3>1. h.flagsWrite[p] \in Ticks
      BY <1>1, Numbers DEF Consistent
    <3> HIDE DEF u
    <3>2. u <= MaxTick
      BY <3>1, <2>2, Sizes DEF u
    <3> QED BY <2>2, <3>2, Sizes
  <2> HIDE DEF u
  <2> QED BY <2>3, <2>4 DEF HubOK
<1>8. s.outRead = h.incomplete
  BY <1>2, <1>6, <1>7 DEF Smaller
<1>9. /\ DOMAIN t = SpokeFields /\ t.heard = s.heard
      /\ t.connected = s.connected /\ t.active = s.active /\ t.outRead = s.outRead
      /\ t.outWrite = s.outWrite /\ t.unconfirmedRead = s.unconfirmedRead
      /\ t.unconfirmedWrite = s.unconfirmedWrite
      /\ t.unconfirmed = Larger(s.unconfirmed, s.unconfirmedWrite)
      /\ t.unreceived = s.outRead /\ t.zombies = s.zombies /\ t.alive = s.alive
      /\ t.deadAt = s.deadAt /\ t.gone = s.gone /\ t.queue = queue
      /\ t.silence = s.silence /\ t.sinceSent = s.sinceSent /\ t.failed = s.failed
  BY <1>1 DEF SpokeFields, PlayedAlone
<1>10. t.queue \in [Players -> Seq(Words)]
  <2>1. ASSUME NEW q \in Players PROVE queue[q] \in Seq(Words)
    <3>1. /\ s.queue[q] \in Seq(Words) /\ s.queue[p] \in Seq(Words)
      BY <1>1, SpokeNumbers
    <3>2. NetDeadUpTo(s, q, s.outRead) \in Seq(Words)
      <4>1. s.outRead \in Int
        BY <1>2
      <4> QED BY <4>1, <1>1, NetDeadTyped, Zenon
    <3>3. OwnWords(p, s.unconfirmed, s.unconfirmedWrite) \in Seq(Words)
      <4>1. s.unconfirmedWrite <= MaxTick \/ s.unconfirmedWrite <= s.unconfirmed
        BY <1>1, <1>2 DEF Cursors, Larger
      <4>2. s.unconfirmedWrite \in Int
        BY <1>2
      <4> QED BY <4>1, <4>2, <1>1, <1>2, OwnWordsTyped, Zenon
    <3>4. s.queue[p] \o OwnWords(p, s.unconfirmed, s.unconfirmedWrite) \in Seq(Words)
      BY <3>1, <3>3
    <3> QED BY <3>1, <3>2, <3>4
  <2> HIDE DEF t
  <2>2. queue = [q \in Players |-> queue[q]]
    OBVIOUS
  <2> HIDE DEF queue
  <2> QED BY <2>1, <2>2, <1>9
<1> HIDE DEF t, queue
<1>11. IsSpoke(t)
  <2>1. Larger(s.unconfirmed, s.unconfirmedWrite) \in Nat
    BY <1>2 DEF Larger
  <2> QED BY <1>1, <1>2, <1>9, <1>10, <2>1 DEF IsSpoke
<1>12. Cursors(t)
  BY <1>1, <1>2, <1>9 DEF Cursors, Larger
<1>13. Behind(h, t, p)
  BY <1>1, <1>2, <1>8, <1>9 DEF Behind
<1>14. KnowsDead(h, t, p)
  <2>1. \A q \in Players \ (h.connected \cup {p}) : q \notin s.alive
    BY <1>3
  <2> QED BY <2>1, <1>1, <1>9 DEF KnowsDead
<1>15. PlaysAlone(h, t, p)
  BY <1>3, <1>4, <1>5, <1>9 DEF PlaysAlone
<1> QED BY <1>9, <1>11, <1>12, <1>13, <1>14, <1>15 DEF SpokeOK, SpokeTyped, t

\* A spoke that gets a packet of the hub gets what it says.  The spoke on the hub's
\* machine gets it from within send_packets; if it plays alone, it may go back to
\* where the hub has acknowledged its flags.
LEMMA SpokeReceivedOK ==
  ASSUME NEW h, HubOK(h), LocalPlayer \in h.connected, NEW p \in Observed, NEW s,
         SpokeOK(h, s, p), NEW packet, PacketOK(h, s, p, packet), NEW room \in Int,
         p = LocalPlayer => JustSent(h) /\ packet.ack = h.flagsWrite[p]
  PROVE  LET t == SpokeReceived(s, p, packet, room)
         IN  /\ SpokeOK(h, t, p) /\ (Listens(t) => Listens(s))
             /\ (p = LocalPlayer /\ h.connected \subseteq {p}) \/ SpokeGrows(s, t)
<1> DEFINE heard == [s EXCEPT !.heard = TRUE]
           told  == MessagesReceived(heard, packet)
           noted == [told EXCEPT !.failed =
                       @ \cup SpokeAssert("aloneWithoutFlags", ~ Alone(told, p))]
           t     == SpokeReceived(s, p, packet, room)
<1>1. /\ MessagesOK(h, p, packet) /\ p \in h.sentTo /\ Typed(h)
      /\ p \in Players /\ p \notin Absent
      /\ LocalPlayer \in Players /\ LocalPlayer \notin Absent
      /\ packet.reflected \in BOOLEAN /\ (p = LocalPlayer => ~ packet.reflected)
  BY GameSizes DEF PacketOK, MessagesOK, HubOK, Consistent
<1>2. t = IF ~ Listens(s) THEN s
          ELSE IF EarlyAck(s, packet) THEN heard
          ELSE IF packet.words = <<>>
               THEN IF Alone(told, p) THEN PlayedAlone(told, p) ELSE told
          ELSE IF packet.start > told.unreceived \/ room <= 0 THEN noted
          ELSE FlagsReceived(noted, p, packet, room)
  BY Zenon DEF SpokeReceived
<1>3. /\ SpokeOK(h, heard, p) /\ SameGame(s, heard) /\ heard.alive = s.alive
      /\ heard.outRead = s.outRead /\ heard.active = s.active /\ heard.heard = TRUE
  BY <1>1, HeardOK
<1> HIDE DEF heard
<1>4. /\ SpokeOK(h, told, p) /\ SameGame(heard, told)
      /\ told.alive = heard.alive \ DOMAIN packet.deaths
      /\ told.outRead = Larger(heard.outRead, Smaller(packet.ack, heard.outWrite))
      /\ told.heard = heard.heard /\ told.active = heard.active
  BY <1>1, <1>3, MessagesReceivedOK
<1> HIDE DEF told
<1>5. /\ SpokeOK(h, noted, p) /\ SameGame(told, noted) /\ noted.alive = told.alive
      /\ noted.outRead = told.outRead /\ noted.heard = told.heard
      /\ noted.active = told.active
  BY <1>4, NotedOK
<1> HIDE DEF noted, t
<1>6. /\ s.unreceived \in Nat /\ s.outWrite \in Nat
      /\ told.unreceived = s.unreceived /\ told.outWrite = s.outWrite
      /\ noted.unreceived = s.unreceived /\ noted.outWrite = s.outWrite
      /\ heard.unreceived = s.unreceived /\ heard.outWrite = s.outWrite
      /\ noted.connected = s.connected /\ told.connected = s.connected
      /\ heard.connected = s.connected
  BY <1>3, <1>4, <1>5, SpokeNumbers DEF SameGame, SpokeOK
<1>7. SpokeGrows(s, s) /\ SpokeGrows(s, heard) /\ SpokeGrows(s, told) /\ SpokeGrows(s, noted)
  BY <1>3, <1>4, <1>5, <1>6 DEF SpokeGrows
<1>8. CASE ~ Listens(s)
  <2>1. t = s
    BY <1>2, <1>8, Zenon
  <2> QED BY <2>1, <1>7 DEF t
<1>9. CASE Listens(s) /\ EarlyAck(s, packet)
  <2>1. t = heard
    BY <1>2, <1>9, Zenon
  <2> QED BY <2>1, <1>3, <1>7, <1>9 DEF t
<1>10. CASE /\ Listens(s) /\ ~ EarlyAck(s, packet)
            /\ packet.words = <<>> /\ Alone(told, p)
  <2>1. t = PlayedAlone(told, p)
    BY <1>2, <1>10, Zenon
  <2>2. p = LocalPlayer
    <3>1. SUFFICES ASSUME p # LocalPlayer PROVE FALSE
      OBVIOUS
    <3>2. LocalPlayer \notin told.alive
      BY <3>1, <1>1, <1>10 DEF Alone
    <3> QED BY <3>2, <1>1, <1>4 DEF SpokeOK, KnowsDead
  <2>3. told.outRead >= Smaller(h.flagsWrite[p], told.outWrite)
    <3>1. /\ packet.ack = h.flagsWrite[p] /\ h.flagsWrite[p] \in Nat
          /\ heard.outRead \in Nat /\ heard.outWrite = told.outWrite
          /\ heard.outWrite \in Nat
      BY <2>2, <1>1, <1>3, <1>6, Numbers, SpokeNumbers DEF SpokeOK
    <3> QED BY <3>1, <1>4 DEF Larger, Smaller
  <2>4. SpokeOK(h, PlayedAlone(told, p), p)
    BY <2>2, <2>3, <1>4, <1>10, PlayedAloneOK
  <2>5. h.connected \subseteq {p}
    <3>1. ASSUME NEW q \in h.connected, q # p PROVE FALSE
      <4>1. q \in Players \ Absent
        BY <3>1, Numbers, <1>1 DEF HubOK
      <4>2. q \notin told.alive
        BY <3>1, <4>1, <1>10 DEF Alone
      <4> QED BY <3>1, <4>1, <4>2, <1>4 DEF SpokeOK, KnowsDead
    <3> QED BY <3>1
  <2> QED BY <2>1, <2>2, <2>4, <2>5, <1>10 DEF t
<1>11. CASE /\ Listens(s) /\ ~ EarlyAck(s, packet)
            /\ packet.words = <<>> /\ ~ Alone(told, p)
  <2>1. t = told
    BY <1>2, <1>11, Zenon
  <2> QED BY <2>1, <1>4, <1>7, <1>11 DEF t
<1>12. CASE /\ Listens(s) /\ ~ EarlyAck(s, packet) /\ packet.words # <<>>
            /\ packet.start > told.unreceived \/ room <= 0
  <2>1. t = noted
    BY <1>2, <1>12, Zenon
  <2> QED BY <2>1, <1>5, <1>7, <1>12 DEF t
<1>13. CASE /\ Listens(s) /\ ~ EarlyAck(s, packet) /\ packet.words # <<>>
            /\ ~ (packet.start > told.unreceived \/ room <= 0)
  <2>1. t = FlagsReceived(noted, p, packet, room)
    BY <1>2, <1>13, Zenon
  <2>2. PICK first \in Ticks, last \in Ticks :
          /\ Covers(h, p, packet, first, last)
          /\ WordsInPlace(h, p, packet, first, last)
          /\ DeathsTold(h, s, packet, last)
    BY <1>13 DEF PacketOK, WordsOK
  <2>3. Readable(h, noted, p, packet, first, last)
    <3>1. \A q \in Players \ h.connected : h.netDeadTick[q] < last => q \notin noted.alive
      BY <2>2, <1>3, <1>4, <1>5 DEF DeathsTold
    <3> QED BY <3>1, <2>2, <1>5 DEF Readable
  <2>4. room \in Nat /\ room > 0 /\ first <= noted.unreceived
    <3>1. packet.start = first /\ first \in Nat
      BY <2>2, Sizes DEF Covers
    <3> QED BY <3>1, <1>6, <1>13
  <2>5. noted.connected
    BY <1>6, <1>13 DEF Listens
  <2>6. SpokeOK(h, t, p) /\ SpokeGrows(noted, t)
    BY <2>1, <2>3, <2>4, <2>5, <1>1, FlagsReceivedOK
  <2>7. SpokeGrows(s, t)
    <3>1. t.unreceived \in Nat /\ t.outWrite \in Nat
      BY <2>6, SpokeNumbers DEF SpokeOK
    <3> QED BY <3>1, <2>6, <1>7, <1>6 DEF SpokeGrows
  <2> QED BY <2>6, <2>7, <1>13 DEF t
<1> QED BY <1>8, <1>9, <1>10, <1>11, <1>12, <1>13

-----------------------------------------------------------------------------
(***************************************************************************)
(* What a spoke does by itself                                             *)
(***************************************************************************)

\* A word of flags is provided.
LEMMA FlagsProvidedOK ==
  ASSUME NEW h, NEW p \in Players, NEW s, SpokeOK(h, s, p), NEW room,
         HasRoomForFlags(s, p, room)
  PROVE  LET t == FlagsProvided(s, p)
         IN  /\ SpokeOK(h, t, p) /\ SpokeGrows(s, t) /\ t.connected = s.connected
             /\ t.silence = s.silence
<1> DEFINE t == FlagsProvided(s, p)
<1>1. /\ SpokeTyped(s) /\ DOMAIN s = SpokeFields /\ IsSpoke(s) /\ Cursors(s)
      /\ Behind(h, s, p) /\ KnowsDead(h, s, p)
  BY DEF SpokeOK, SpokeTyped
<1>2. /\ s.outWrite \in Nat /\ s.outRead \in Nat /\ s.unconfirmedWrite \in Nat
      /\ s.unconfirmedRead \in Nat /\ s.unreceived \in Nat /\ s.unconfirmed \in Nat
      /\ RealGameTick \in Nat /\ MaxTick \in Nat
      /\ s.queue[p] \in Seq(Words) /\ Len(s.queue[p]) \in Nat
      /\ s.connected \in BOOLEAN
  BY <1>1, SpokeNumbers, GameSizes, Sizes
<1>3. CASE ~ s.connected
  <2> DEFINE queue == [s.queue EXCEPT ![p] = Append(@, <<p, WriteTick(s, p)>>)]
  <2>1. /\ DOMAIN t = SpokeFields /\ t.heard = s.heard
        /\ t.connected = s.connected /\ t.active = s.active /\ t.outRead = s.outRead
        /\ t.outWrite = s.outWrite /\ t.unconfirmedRead = s.unconfirmedRead
        /\ t.unconfirmedWrite = s.unconfirmedWrite /\ t.unconfirmed = s.unconfirmed
        /\ t.unreceived = s.unreceived /\ t.zombies = s.zombies /\ t.alive = s.alive
        /\ t.deadAt = s.deadAt /\ t.gone = s.gone /\ t.queue = queue
        /\ t.silence = s.silence /\ t.sinceSent = s.sinceSent /\ t.failed = s.failed
    BY <1>1, <1>3 DEF SpokeFields, FlagsProvided
  <2> HIDE DEF t
  <2>2. <<p, WriteTick(s, p)>> \in Words
    <3>1. WriteTick(s, p) \in Nat /\ WriteTick(s, p) < MaxTick
      BY <1>2, <1>3 DEF HasRoomForFlags, WriteTick
    <3>2. WriteTick(s, p) \in Ticks
      BY <3>1, Sizes
    <3> QED BY <3>2 DEF Words
  <2>3. Append(s.queue[p], <<p, WriteTick(s, p)>>) \in Seq(Words)
    BY <2>2, <1>2
  <2>4. t.queue \in [Players -> Seq(Words)]
    <3>1. s.queue \in [Players -> Seq(Words)]
      BY <1>1 DEF IsSpoke
    <3> HIDE DEF queue
    <3>2. queue \in [Players -> Seq(Words)]
      BY <3>1, <2>3 DEF queue
    <3> QED BY <2>1, <3>2
  <2> HIDE DEF queue
  <2>5. IsSpoke(t)
    BY <1>1, <2>1, <2>4 DEF IsSpoke
  <2>6. Cursors(t) /\ Behind(h, t, p) /\ KnowsDead(h, t, p)
    BY <1>1, <2>1 DEF Cursors, Behind, KnowsDead
  <2>7. SpokeGrows(s, t)
    BY <1>2, <2>1 DEF SpokeGrows
  <2> QED BY <1>3, <2>1, <2>5, <2>6, <2>7 DEF SpokeOK, SpokeTyped, t
<1>4. CASE s.connected
  <2> DEFINE uw == IF s.outWrite >= RealGameTick THEN s.unconfirmedWrite + 1
                   ELSE s.unconfirmedWrite
  <2>1. /\ DOMAIN t = SpokeFields /\ t.heard = s.heard
        /\ t.connected = s.connected /\ t.active = s.active /\ t.outRead = s.outRead
        /\ t.outWrite = s.outWrite + 1 /\ t.unconfirmedRead = s.unconfirmedRead
        /\ t.unconfirmedWrite = uw /\ t.unconfirmed = s.unconfirmed
        /\ t.unreceived = s.unreceived /\ t.zombies = s.zombies /\ t.alive = s.alive
        /\ t.deadAt = s.deadAt /\ t.gone = s.gone /\ t.queue = s.queue
        /\ t.silence = s.silence /\ t.sinceSent = s.sinceSent /\ t.failed = s.failed
    BY <1>1, <1>4 DEF SpokeFields, FlagsProvided
  <2> HIDE DEF t
  <2>2. s.outWrite + 1 \in Ticks
    <3>1. s.outWrite < MaxTick
      BY <1>4 DEF HasRoomForFlags
    <3>2. s.outWrite + 1 \in Nat /\ s.outWrite + 1 <= MaxTick
      BY <3>1, <1>2
    <3> QED BY <3>2, Sizes
  <2>3. uw \in Nat /\ s.unconfirmedRead <= uw /\ uw = Larger(s.outWrite + 1, RealGameTick)
    BY <1>1, <1>2 DEF Cursors, Larger
  <2> HIDE DEF uw
  <2>4. IsSpoke(t)
    BY <1>1, <2>1, <2>2, <2>3 DEF IsSpoke
  <2>5. Cursors(t)
    BY <1>1, <1>2, <2>1, <2>3 DEF Cursors
  <2>6. Behind(h, t, p) /\ KnowsDead(h, t, p)
    <3>1. \A u \in 0 .. h.flagsWrite[p] - 1 : u < s.outWrite => u < s.outWrite + 1
      BY <1>2
    <3> QED BY <3>1, <1>1, <2>1 DEF Behind, KnowsDead
  <2>7. InOrder(h, t) \/ PlaysAlone(h, t, p)
    BY <1>4, <2>1 DEF SpokeOK, InOrder, PlaysAlone, WriteTick
  <2>8. SpokeGrows(s, t)
    BY <1>2, <2>1 DEF SpokeGrows
  <2> QED BY <2>1, <2>4, <2>5, <2>6, <2>7, <2>8 DEF SpokeOK, SpokeTyped, t
<1> QED BY <1>3, <1>4

\* What the loop that provides the k-th word does.
ProvidedNext(s, p, room, k) ==
  IF HasRoomForFlags(s, p, room - (k - 1)) THEN FlagsProvided(s, p) ELSE s

IsProvidedUpTo(f, s, p, room, n) ==
  f = [k \in 0 .. n |-> IF k = 0 THEN s ELSE ProvidedNext(f[k - 1], p, room, k)]

\* The function that UpToNFlagsProvided defines is this one.
LEMMA ProvidedSteps ==
  ASSUME NEW s, NEW p, NEW room, NEW n \in Nat
  PROVE  \E f : /\ IsProvidedUpTo(f, s, p, room, n)
                /\ UpToNFlagsProvided(s, p, n, room) = f[n]
<1> DEFINE S == {m \in 0 .. n : \E f : IsProvidedUpTo(f, s, p, room, m)}
<1>1. 0 \in S
  <2> DEFINE f == [k \in 0 .. 0 |-> s]
  <2>1. f = [k \in 0 .. 0 |-> IF k = 0 THEN s ELSE ProvidedNext(f[k - 1], p, room, k)]
    OBVIOUS
  <2>2. IsProvidedUpTo(f, s, p, room, 0)
    BY <2>1, Zenon DEF IsProvidedUpTo
  <2> QED BY <2>2
<1>2. ASSUME NEW m \in 1 .. n, m - 1 \in S PROVE m \in S
  <2>1. PICK f : IsProvidedUpTo(f, s, p, room, m - 1)
    BY <1>2
  <2> DEFINE g == [k \in 0 .. m |-> IF k = m THEN ProvidedNext(f[m - 1], p, room, m)
                                    ELSE f[k]]
  <2>2. \A k \in 0 .. m - 1 : f[k] = IF k = 0 THEN s ELSE ProvidedNext(f[k - 1], p, room, k)
    BY <2>1 DEF IsProvidedUpTo
  <2>3. ASSUME NEW k \in 0 .. m
        PROVE  g[k] = IF k = 0 THEN s ELSE ProvidedNext(g[k - 1], p, room, k)
    <3>1. CASE k = m
      <4>1. g[k - 1] = f[m - 1] /\ k # 0 /\ g[k] = ProvidedNext(f[m - 1], p, room, m)
        BY <3>1
      <4> HIDE DEF g
      <4> QED BY <3>1, <4>1
    <3>2. CASE k # m
      <4>1. k \in 0 .. m - 1 /\ g[k] = f[k] /\ (k # 0 => g[k - 1] = f[k - 1])
        BY <3>2
      <4> HIDE DEF g
      <4> QED BY <4>1, <2>2
    <3> QED BY <3>1, <3>2
  <2>4. g = [k \in 0 .. m |-> g[k]]
    OBVIOUS
  <2>5. g = [k \in 0 .. m |-> IF k = 0 THEN s ELSE ProvidedNext(g[k - 1], p, room, k)]
    <3> HIDE DEF g
    <3> QED BY <2>3, <2>4
  <2>6. IsProvidedUpTo(g, s, p, room, m)
    <3> HIDE DEF g
    <3> QED BY <2>5, Zenon DEF IsProvidedUpTo
  <2> QED BY <2>6
<1>3. n \in S
  <2> HIDE DEF S
  <2> QED BY <1>1, <1>2, UpTo
<1>4. \E f : IsProvidedUpTo(f, s, p, room, n)
  BY <1>3
<1> DEFINE after == CHOOSE f : IsProvidedUpTo(f, s, p, room, n)
<1>5. IsProvidedUpTo(after, s, p, room, n)
  BY <1>4, Zenon
<1>6. UpToNFlagsProvided(s, p, n, room) = after[n]
  BY Zenon DEF UpToNFlagsProvided, IsProvidedUpTo, ProvidedNext
<1> HIDE DEF after
<1> QED BY <1>5, <1>6

\* A spoke that has grown, and has grown again, has grown.
LEMMA SpokeGrowsTransitive ==
  ASSUME NEW r, NEW s, NEW t, SpokeTyped(r), SpokeTyped(s), SpokeTyped(t),
         SpokeGrows(r, s), SpokeGrows(s, t)
  PROVE  SpokeGrows(r, t)
<1>1. /\ r.unreceived \in Nat /\ s.unreceived \in Nat /\ t.unreceived \in Nat
      /\ r.outWrite \in Nat /\ s.outWrite \in Nat /\ t.outWrite \in Nat
  BY SpokeNumbers
<1> QED BY <1>1 DEF SpokeGrows

\* Up to n words are provided.
LEMMA UpToNFlagsProvidedOK ==
  ASSUME NEW h, NEW p \in Players, NEW s, SpokeOK(h, s, p), NEW room, NEW n \in Nat
  PROVE  LET t == UpToNFlagsProvided(s, p, n, room)
         IN  /\ SpokeOK(h, t, p) /\ SpokeGrows(s, t) /\ t.connected = s.connected
             /\ t.silence = s.silence
<1>1. PICK f : /\ IsProvidedUpTo(f, s, p, room, n)
               /\ UpToNFlagsProvided(s, p, n, room) = f[n]
  BY ProvidedSteps
<1> DEFINE Good(t) == /\ SpokeOK(h, t, p) /\ SpokeGrows(s, t)
                       /\ t.connected = s.connected /\ t.silence = s.silence
           S == {k \in 0 .. n : Good(f[k])}
<1>2. \A k \in 0 .. n :
        f[k] = IF k = 0 THEN s ELSE ProvidedNext(f[k - 1], p, room, k)
  BY <1>1 DEF IsProvidedUpTo
<1>3. 0 \in S
  <2>1. f[0] = s /\ 0 \in 0 .. n
    BY <1>2
  <2>2. SpokeGrows(s, s)
    BY SpokeNumbers DEF SpokeOK, SpokeGrows
  <2> QED BY <2>1, <2>2
<1>4. ASSUME NEW k \in 1 .. n, k - 1 \in S PROVE k \in S
  <2>1. k \in 0 .. n /\ f[k] = ProvidedNext(f[k - 1], p, room, k)
    BY <1>2
  <2>2. Good(f[k - 1])
    BY <1>4
  <2>3. CASE HasRoomForFlags(f[k - 1], p, room - (k - 1))
    <3>1. f[k] = FlagsProvided(f[k - 1], p)
      BY <2>1, <2>3 DEF ProvidedNext
    <3>2. /\ SpokeOK(h, f[k], p) /\ SpokeGrows(f[k - 1], f[k])
          /\ f[k].connected = f[k - 1].connected /\ f[k].silence = f[k - 1].silence
      BY <2>2, <2>3, <3>1, FlagsProvidedOK
    <3>3. SpokeTyped(s) /\ SpokeTyped(f[k - 1]) /\ SpokeTyped(f[k])
      BY <2>2, <3>2 DEF SpokeOK
    <3>4. SpokeGrows(s, f[k])
      BY <2>2, <3>2, <3>3, SpokeGrowsTransitive
    <3> QED BY <2>1, <2>2, <3>2, <3>4
  <2>4. CASE ~ HasRoomForFlags(f[k - 1], p, room - (k - 1))
    <3>1. f[k] = f[k - 1]
      BY <2>1, <2>4 DEF ProvidedNext
    <3> QED BY <2>1, <2>2, <3>1
  <2> QED BY <2>3, <2>4
<1>5. n \in S
  <2> HIDE DEF S
  <2> QED BY <1>3, <1>4, UpTo
<1> QED BY <1>1, <1>5

\* The clocks of a spoke that does not give up.
LEMMA AgedOK ==
  ASSUME NEW h, NEW s, NEW p, SpokeOK(h, s, p), ~ GivesUp(s)
  PROVE  LET t == Aged(s)
         IN  /\ SpokeOK(h, t, p) /\ SpokeGrows(s, t) /\ t.connected = s.connected
             /\ SameGame(s, t)
<1> DEFINE t == Aged(s)
<1>1. /\ SpokeTyped(s) /\ DOMAIN s = SpokeFields /\ IsSpoke(s) /\ Cursors(s)
      /\ Behind(h, s, p) /\ KnowsDead(h, s, p)
      /\ s.connected => InOrder(h, s) \/ PlaysAlone(h, s, p)
  BY DEF SpokeOK, SpokeTyped
<1>2. /\ s.silence \in Nat /\ s.sinceSent \in Nat /\ SpokeRecoveryPeriod \in Nat
      /\ SpokePregameSilence \in Nat /\ SpokeInGameSilence \in Nat
      /\ s.unreceived \in Nat /\ s.outWrite \in Nat
  BY <1>1, SpokeNumbers, GameSizes
<1>3. CASE ~ s.connected
  <2>1. t = s
    BY <1>3 DEF Aged
  <2> QED BY <1>2, <2>1 DEF SpokeGrows, SameGame
<1>4. CASE s.connected
  <2>1. /\ DOMAIN t = SpokeFields /\ t.heard = s.heard
        /\ t.connected = s.connected /\ t.active = s.active /\ t.outRead = s.outRead
        /\ t.outWrite = s.outWrite /\ t.unconfirmedRead = s.unconfirmedRead
        /\ t.unconfirmedWrite = s.unconfirmedWrite /\ t.unconfirmed = s.unconfirmed
        /\ t.unreceived = s.unreceived /\ t.zombies = s.zombies /\ t.alive = s.alive
        /\ t.deadAt = s.deadAt /\ t.gone = s.gone /\ t.queue = s.queue
        /\ t.silence = s.silence + 1
        /\ t.sinceSent = Smaller(s.sinceSent + 1, SpokeRecoveryPeriod)
        /\ t.failed = s.failed
    BY <1>1, <1>4 DEF SpokeFields, Aged
  <2> HIDE DEF t
  <2>2. s.silence + 1 < MaxSpokeSilence
    <3>1. s.silence + 1 <= SilenceLimit(s)
      <4>1. SilenceLimit(s) \in Nat
        BY <1>2 DEF SilenceLimit
      <4> QED BY <1>2, <1>4, <4>1 DEF GivesUp
    <3>2. SilenceLimit(s) \in {SpokePregameSilence, SpokeInGameSilence}
      BY DEF SilenceLimit
    <3> QED BY <1>2, <3>1, <3>2 DEF MaxSpokeSilence, Larger
  <2>3. t.silence \in 0 .. MaxSpokeSilence
    BY <1>2, <2>1, <2>2 DEF MaxSpokeSilence, Larger
  <2>4. t.sinceSent \in 0 .. SpokeRecoveryPeriod
    BY <1>2, <2>1 DEF Smaller
  <2>5. IsSpoke(t)
    BY <1>1, <2>1, <2>3, <2>4 DEF IsSpoke
  <2>6. Cursors(t) /\ Behind(h, t, p) /\ KnowsDead(h, t, p)
    BY <1>1, <2>1, <2>2 DEF Cursors, Behind, KnowsDead
  <2>7. InOrder(h, t) \/ PlaysAlone(h, t, p)
    BY <1>1, <1>4, <2>1 DEF InOrder, PlaysAlone, WriteTick
  <2>8. SpokeGrows(s, t) /\ SameGame(s, t)
    BY <1>2, <2>1 DEF SpokeGrows, SameGame
  <2> QED BY <2>1, <2>5, <2>6, <2>7, <2>8 DEF SpokeOK, SpokeTyped, t
<1> QED BY <1>3, <1>4

\* The hub has been silent for too long.
LEMMA DisconnectedOK ==
  ASSUME NEW h, NEW s, NEW p, SpokeOK(h, s, p), s.connected
  PROVE  LET t == Disconnected(Aged(s))
         IN  SpokeOK(h, t, p) /\ SpokeGrows(s, t)
<1> DEFINE t == Disconnected(Aged(s))
<1>1. /\ SpokeTyped(s) /\ DOMAIN s = SpokeFields /\ IsSpoke(s) /\ Cursors(s)
      /\ Behind(h, s, p) /\ KnowsDead(h, s, p)
  BY DEF SpokeOK, SpokeTyped
<1>2. /\ s.silence \in Nat /\ s.sinceSent \in Nat /\ SpokeRecoveryPeriod \in Nat
      /\ s.unreceived \in Nat /\ s.outWrite \in Nat
      /\ SpokePregameSilence \in Nat /\ SpokeInGameSilence \in Nat
  BY <1>1, SpokeNumbers, GameSizes
<1>3. /\ DOMAIN t = SpokeFields /\ t.heard = s.heard
      /\ t.connected = FALSE /\ t.active = s.active /\ t.outRead = s.outRead
      /\ t.outWrite = s.outWrite /\ t.unconfirmedRead = s.unconfirmedRead
      /\ t.unconfirmedWrite = s.unconfirmedWrite /\ t.unconfirmed = s.unconfirmed
      /\ t.unreceived = s.unreceived /\ t.zombies = s.zombies /\ t.alive = s.alive
      /\ t.deadAt = s.deadAt /\ t.gone = s.gone \cup s.alive /\ t.queue = s.queue
      /\ t.silence = s.silence + 1
      /\ t.sinceSent = Smaller(s.sinceSent + 1, SpokeRecoveryPeriod)
      /\ t.failed = s.failed
  BY <1>1 DEF SpokeFields, Aged, Disconnected
<1> HIDE DEF t
<1>4. t.silence \in 0 .. MaxSpokeSilence
  <2>1. s.silence < MaxSpokeSilence
    BY <1>1 DEF Cursors
  <2> QED BY <1>2, <1>3, <2>1 DEF MaxSpokeSilence, Larger
<1>5. t.sinceSent \in 0 .. SpokeRecoveryPeriod
  BY <1>2, <1>3 DEF Smaller
<1>6. IsSpoke(t)
  BY <1>1, <1>3, <1>4, <1>5 DEF IsSpoke
<1>7. Cursors(t) /\ Behind(h, t, p) /\ KnowsDead(h, t, p)
  BY <1>1, <1>3 DEF Cursors, Behind, KnowsDead
<1>8. SpokeGrows(s, t)
  BY <1>2, <1>3 DEF SpokeGrows
<1> QED BY <1>3, <1>6, <1>7, <1>8 DEF SpokeOK, SpokeTyped, t

\* A disconnected spoke plays on with its own flags.
LEMMA PlayedOfflineOK ==
  ASSUME NEW h, NEW s, NEW p \in Players, SpokeOK(h, s, p), ~ s.connected
  PROVE  LET t == PlayedOffline(s, p)
         IN  SpokeOK(h, t, p) /\ SpokeGrows(s, t)
<1> DEFINE t == PlayedOffline(s, p)
           own == OwnWords(p, s.unconfirmed, s.unconfirmedWrite)
           queue == [q \in Players |->
                       IF q = p THEN s.queue[p] \o own
                       ELSE IF q \in s.zombies THEN s.queue[q]
                       ELSE NetDeadUpTo(s, q, WriteTick(s, p))]
<1>1. /\ SpokeTyped(s) /\ DOMAIN s = SpokeFields /\ IsSpoke(s) /\ Cursors(s)
      /\ Behind(h, s, p) /\ KnowsDead(h, s, p)
  BY DEF SpokeOK, SpokeTyped
<1>2. /\ s.unreceived \in Nat /\ s.outWrite \in Nat /\ s.outWrite <= MaxTick
      /\ s.unconfirmed \in Nat /\ s.unconfirmedWrite \in Nat
      /\ s.unconfirmedRead \in Nat /\ RealGameTick \in Nat /\ MaxTick \in Nat
      /\ \A q \in Players : s.queue[q] \in Seq(Words) /\ Len(s.queue[q]) \in Nat
  BY <1>1, SpokeNumbers, GameSizes, Sizes
<1>3. /\ DOMAIN t = SpokeFields /\ t.heard = s.heard
      /\ t.connected = s.connected /\ t.active = s.active /\ t.outRead = s.outRead
      /\ t.outWrite = s.outWrite /\ t.unconfirmedRead = s.unconfirmedRead
      /\ t.unconfirmedWrite = s.unconfirmedWrite
      /\ t.unconfirmed = Larger(s.unconfirmed, s.unconfirmedWrite)
      /\ t.unreceived = s.unreceived /\ t.zombies = s.zombies /\ t.alive = s.alive
      /\ t.deadAt = s.deadAt /\ t.gone = s.gone /\ t.queue = queue
      /\ t.silence = s.silence /\ t.sinceSent = s.sinceSent
      /\ t.failed = s.failed
  BY <1>1 DEF SpokeFields, PlayedOffline
<1> HIDE DEF t
<1>4. own \in Seq(Words)
  <2>1. s.unconfirmedWrite <= MaxTick \/ s.unconfirmedWrite <= s.unconfirmed
    BY <1>1, <1>2 DEF Cursors, Larger
  <2>2. s.unconfirmed \in Nat /\ s.unconfirmedWrite \in Int
    BY <1>2
  <2> QED BY <2>1, <2>2, OwnWordsTyped, Zenon
<1>5. queue \in [Players -> Seq(Words)]
  <2>1. WriteTick(s, p) \in Int
    BY <1>2 DEF WriteTick
  <2>2. \A q \in Players : NetDeadUpTo(s, q, WriteTick(s, p)) \in Seq(Words)
    BY <1>1, <2>1, NetDeadTyped
  <2>3. s.queue[p] \o own \in Seq(Words)
    <3> HIDE DEF own
    <3> QED BY <1>2, <1>4
  <2> HIDE DEF own
  <2> QED BY <1>2, <2>2, <2>3
<1> HIDE DEF queue
<1>6. t.unconfirmed \in Nat /\ s.unconfirmed <= t.unconfirmed
  BY <1>2, <1>3 DEF Larger
<1>7. IsSpoke(t)
  BY <1>1, <1>3, <1>5, <1>6 DEF IsSpoke
<1>8. Cursors(t)
  BY <1>1, <1>2, <1>3, <1>6 DEF Cursors
<1>9. Behind(h, t, p) /\ KnowsDead(h, t, p)
  BY <1>1, <1>3 DEF Behind, KnowsDead
<1>10. SpokeGrows(s, t)
  BY <1>2, <1>3 DEF SpokeGrows
<1> QED BY <1>3, <1>7, <1>8, <1>9, <1>10 DEF SpokeOK, SpokeTyped, t

\* A spoke notes that it has sent.
LEMMA SentNotedOK ==
  ASSUME NEW h, NEW s, NEW p, SpokeOK(h, s, p)
  PROVE  LET t == [s EXCEPT !.sinceSent = 0]
         IN  SpokeOK(h, t, p) /\ SpokeGrows(s, t)
<1> DEFINE t == [s EXCEPT !.sinceSent = 0]
<1>1. /\ SpokeTyped(s) /\ DOMAIN s = SpokeFields /\ IsSpoke(s) /\ Cursors(s)
      /\ Behind(h, s, p) /\ KnowsDead(h, s, p)
      /\ s.connected => InOrder(h, s) \/ PlaysAlone(h, s, p)
  BY DEF SpokeOK, SpokeTyped
<1>2. /\ SpokeRecoveryPeriod \in Nat /\ s.unreceived \in Nat /\ s.outWrite \in Nat
  BY <1>1, SpokeNumbers, GameSizes
<1>3. /\ DOMAIN t = SpokeFields /\ t.heard = s.heard
      /\ t.connected = s.connected /\ t.active = s.active /\ t.outRead = s.outRead
      /\ t.outWrite = s.outWrite /\ t.unconfirmedRead = s.unconfirmedRead
      /\ t.unconfirmedWrite = s.unconfirmedWrite /\ t.unconfirmed = s.unconfirmed
      /\ t.unreceived = s.unreceived /\ t.zombies = s.zombies /\ t.alive = s.alive
      /\ t.deadAt = s.deadAt /\ t.gone = s.gone /\ t.queue = s.queue
      /\ t.silence = s.silence /\ t.sinceSent = 0 /\ t.failed = s.failed
  BY <1>1 DEF SpokeFields
<1> HIDE DEF t
<1>4. IsSpoke(t)
  BY <1>1, <1>2, <1>3 DEF IsSpoke
<1>5. Cursors(t) /\ Behind(h, t, p) /\ KnowsDead(h, t, p)
  BY <1>1, <1>3 DEF Cursors, Behind, KnowsDead
<1>6. t.connected => InOrder(h, t) \/ PlaysAlone(h, t, p)
  BY <1>1, <1>3 DEF InOrder, PlaysAlone, WriteTick
<1>7. SpokeGrows(s, t)
  BY <1>2, <1>3 DEF SpokeGrows
<1> QED BY <1>3, <1>4, <1>5, <1>6, <1>7 DEF SpokeOK, SpokeTyped, t

\* The tick of a spoke: spoke_tick.
LEMMA SpokeTickedOK ==
  ASSUME NEW h, NEW p \in Players, NEW s, SpokeOK(h, s, p), NEW room, NEW n \in Nat
  PROVE  LET t == SpokeTicked(s, p, n, room)
         IN  SpokeOK(h, t, p) /\ SpokeGrows(s, t)
<1> DEFINE t == SpokeTicked(s, p, n, room)
           provided == UpToNFlagsProvided(Aged(s), p, n, room)
<1>1. CASE GivesUp(s)
  <2>1. t = Disconnected(Aged(s)) /\ s.connected
    BY <1>1 DEF SpokeTicked, GivesUp
  <2> QED BY <2>1, DisconnectedOK
<1>2. CASE ~ GivesUp(s)
  <2>1. SpokeOK(h, Aged(s), p) /\ SpokeGrows(s, Aged(s)) /\ Aged(s).connected = s.connected
    BY <1>2, AgedOK
  <2>2. /\ SpokeOK(h, provided, p) /\ SpokeGrows(Aged(s), provided)
        /\ provided.connected = Aged(s).connected
    BY <2>1, UpToNFlagsProvidedOK
  <2>3. \/ t = provided
        \/ ~ provided.connected /\ t = PlayedOffline(provided, p)
        \/ t = [provided EXCEPT !.sinceSent = 0]
    BY <1>2, <2>1, <2>2 DEF SpokeTicked
  <2> HIDE DEF provided, t
  <2>4. SpokeTyped(s) /\ SpokeTyped(Aged(s)) /\ SpokeTyped(provided)
    BY <2>1, <2>2 DEF SpokeOK
  <2>5. SpokeGrows(s, provided)
    BY <2>1, <2>2, <2>4, SpokeGrowsTransitive
  <2>6. t = provided \/ (SpokeOK(h, t, p) /\ SpokeGrows(provided, t))
    BY <2>2, <2>3, PlayedOfflineOK, SentNotedOK
  <2>7. CASE t = provided
    BY <2>2, <2>5, <2>7 DEF t
  <2>8. CASE SpokeOK(h, t, p) /\ SpokeGrows(provided, t)
    <3>1. SpokeTyped(t)
      BY <2>8 DEF SpokeOK
    <3>2. SpokeGrows(s, t)
      BY <2>4, <2>5, <2>8, <3>1, SpokeGrowsTransitive
    <3> QED BY <2>8, <3>2 DEF t
  <2> QED BY <2>6, <2>7, <2>8
<1> QED BY <1>1, <1>2

\* The game takes out what is confirmed.
LEMMA UnconfirmedUpdatedOK ==
  ASSUME NEW h, NEW s, NEW p, SpokeOK(h, s, p)
  PROVE  LET t == UnconfirmedUpdated(s)
         IN  SpokeOK(h, t, p) /\ SpokeGrows(s, t)
<1> DEFINE t == UnconfirmedUpdated(s)
<1>1. /\ SpokeTyped(s) /\ DOMAIN s = SpokeFields /\ IsSpoke(s) /\ Cursors(s)
      /\ Behind(h, s, p) /\ KnowsDead(h, s, p)
      /\ s.connected => InOrder(h, s) \/ PlaysAlone(h, s, p)
  BY DEF SpokeOK, SpokeTyped
<1>2. /\ s.unreceived \in Nat /\ s.outWrite \in Nat /\ s.unconfirmedRead \in Nat
      /\ s.unconfirmedWrite \in Nat /\ s.unconfirmed \in Nat
  BY <1>1, SpokeNumbers
<1>3. /\ DOMAIN t = SpokeFields /\ t.heard = s.heard
      /\ t.connected = s.connected /\ t.active = s.active /\ t.outRead = s.outRead
      /\ t.outWrite = s.outWrite
      /\ t.unconfirmedRead =
           Larger(s.unconfirmedRead, Smaller(s.unconfirmed, s.unconfirmedWrite))
      /\ t.unconfirmedWrite = s.unconfirmedWrite /\ t.unconfirmed = s.unconfirmed
      /\ t.unreceived = s.unreceived /\ t.zombies = s.zombies /\ t.alive = s.alive
      /\ t.deadAt = s.deadAt /\ t.gone = s.gone /\ t.queue = s.queue
      /\ t.silence = s.silence /\ t.sinceSent = s.sinceSent /\ t.failed = s.failed
  BY <1>1 DEF SpokeFields, UnconfirmedUpdated
<1> HIDE DEF t
<1>4. /\ t.unconfirmedRead \in Nat /\ t.unconfirmedRead <= s.unconfirmed
      /\ t.unconfirmedRead <= s.unconfirmedWrite
  BY <1>1, <1>2, <1>3 DEF Cursors, Larger, Smaller
<1>5. IsSpoke(t)
  BY <1>1, <1>3, <1>4 DEF IsSpoke
<1>6. Cursors(t)
  BY <1>1, <1>3, <1>4 DEF Cursors
<1>7. Behind(h, t, p) /\ KnowsDead(h, t, p)
  BY <1>1, <1>3 DEF Behind, KnowsDead
<1>8. t.connected => InOrder(h, t) \/ PlaysAlone(h, t, p)
  BY <1>1, <1>3 DEF InOrder, PlaysAlone, WriteTick
<1>9. SpokeGrows(s, t)
  BY <1>2, <1>3 DEF SpokeGrows
<1> QED BY <1>3, <1>5, <1>6, <1>7, <1>8, <1>9 DEF SpokeOK, SpokeTyped, t

\* See UnconfirmedUpdatedOK.
LEMMA DrainedOK ==
  ASSUME NEW h, NEW s, NEW p, SpokeOK(h, s, p)
  PROVE  SpokeOK(h, Drained(s), p) /\ SpokeGrows(s, Drained(s))
<1>1. SpokeGrows(s, s)
  BY SpokeNumbers DEF SpokeOK, SpokeGrows
<1> QED BY <1>1, UnconfirmedUpdatedOK DEF Drained

\* A spoke that stops.
LEMMA SpokeCleanedUpOK ==
  ASSUME NEW h, NEW s, NEW p, SpokeOK(h, s, p)
  PROVE  LET t == SpokeCleanedUp(s)
         IN  SpokeOK(h, t, p) /\ SpokeGrows(s, t)
<1> DEFINE t == SpokeCleanedUp(s)
<1>1. /\ SpokeTyped(s) /\ DOMAIN s = SpokeFields /\ IsSpoke(s) /\ Cursors(s)
      /\ Behind(h, s, p) /\ KnowsDead(h, s, p)
      /\ s.connected => InOrder(h, s) \/ PlaysAlone(h, s, p)
      /\ s.unreceived \in Nat /\ s.outWrite \in Nat
  BY SpokeNumbers DEF SpokeOK, SpokeTyped
<1>2. /\ DOMAIN t = SpokeFields /\ t.heard = s.heard
      /\ t.connected = s.connected /\ t.active = FALSE /\ t.outRead = s.outRead
      /\ t.outWrite = s.outWrite /\ t.unconfirmedRead = s.unconfirmedRead
      /\ t.unconfirmedWrite = s.unconfirmedWrite /\ t.unconfirmed = s.unconfirmed
      /\ t.unreceived = s.unreceived /\ t.zombies = s.zombies /\ t.alive = s.alive
      /\ t.deadAt = s.deadAt /\ t.gone = s.gone /\ t.queue = s.queue
      /\ t.silence = s.silence /\ t.sinceSent = s.sinceSent /\ t.failed = s.failed
  BY <1>1 DEF SpokeFields, SpokeCleanedUp
<1> HIDE DEF t
<1>3. IsSpoke(t)
  BY <1>1, <1>2 DEF IsSpoke
<1>4. Cursors(t) /\ Behind(h, t, p) /\ KnowsDead(h, t, p)
  BY <1>1, <1>2 DEF Cursors, Behind, KnowsDead
<1>5. t.connected => InOrder(h, t) \/ PlaysAlone(h, t, p)
  BY <1>1, <1>2 DEF InOrder, PlaysAlone, WriteTick
<1>6. SpokeGrows(s, t)
  BY <1>1, <1>2 DEF SpokeGrows
<1> QED BY <1>2, <1>3, <1>4, <1>5, <1>6 DEF SpokeOK, SpokeTyped, t

\* What a spoke sends is what the hub assumes of it.
LEMMA SpokePacketOK ==
  ASSUME NEW h, NEW s, NEW p, SpokeOK(h, s, p), Typed(h), p \in Players
  PROVE  ToHubOK(h, s, p, SpokePacket(s, p))
<1> DEFINE packet == SpokePacket(s, p)
<1>1. SpokeTyped(s) /\ Cursors(s) /\ Behind(h, s, p)
  BY DEF SpokeOK
<1>2. /\ s.outRead \in Nat /\ s.outWrite \in Nat /\ s.outWrite <= MaxTick
      /\ s.unreceived \in Ticks /\ s.unreceived \in Nat /\ h.flagsWrite[p] \in Nat
      /\ MaxTick \in Nat
  BY <1>1, SpokeNumbers, Numbers, Sizes
<1>3. s.outRead <= s.outWrite /\ s.outRead <= h.flagsWrite[p]
  BY <1>1 DEF Cursors, Behind
<1>4. /\ packet.player = p /\ packet.ack = s.unreceived
      /\ packet.hasFlags = (s.outWrite > s.outRead)
      /\ packet.start = IF s.outWrite > s.outRead THEN s.outRead ELSE 0
      /\ packet.count = s.outWrite - s.outRead
  BY DEF SpokePacket
<1> HIDE DEF packet
<1>5. packet.start \in Nat /\ packet.start <= h.flagsWrite[p]
  BY <1>2, <1>3, <1>4
<1>6. packet.count \in Nat /\ packet.start + packet.count <= MaxTick
  BY <1>2, <1>3, <1>4
<1>7. packet.hasFlags => packet.start + packet.count <= s.outWrite
  BY <1>2, <1>3, <1>4
<1>8. packet.ack \in Ticks /\ packet.ack <= s.unreceived /\ packet.hasFlags \in BOOLEAN
  BY <1>2, <1>4
<1> QED BY <1>4, <1>5, <1>6, <1>7, <1>8 DEF ToHubOK, packet
=============================================================================
