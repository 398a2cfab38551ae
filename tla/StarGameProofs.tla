---------------------------- MODULE StarGameProofs ----------------------------
(***************************************************************************)
(* A game over the star protocol: hub, spokes and packets together.        *)
(*                                                                         *)
(* What the hub does changes nothing of what it has sent, so what the      *)
(* spokes know, and what packets under way say, stays true: Advances, the  *)
(* first part.  The second shows it of each function of the hub.  What a   *)
(* spoke does, and what the packets tell it, is in StarPacketsProofs.      *)
(*                                                                         *)
(* The third part is the invariant of the game, GameInv, and its steps,    *)
(* the fourth how a step of the game is one of Lockstep, and the last the  *)
(* theorems.  Undisturbed says of which games: those in which the hub is   *)
(* not sent the flags of a player it has dropped (it may be, see           *)
(* SenderConnected), and its own player stays.                             *)
(***************************************************************************)
EXTENDS StarPacketsProofs

-----------------------------------------------------------------------------
(***************************************************************************)
(* What a step of the hub leaves alone                                     *)
(***************************************************************************)

\* The hub gets from h to g, at most with an acknowledgement of p up to "ack" and
\* p's flags for ticks below "bound".
Advances(h, g, p, ack, bound) ==
  /\ g.connected \subseteq h.connected /\ h.sentTo \subseteq g.sentTo
  /\ h.sendTimeWrite <= g.sendTimeWrite /\ h.incomplete <= g.incomplete
  /\ \A t \in Ticks : g.flags[LocalPlayer][t] = MadeUp
                        => h.flags[LocalPlayer][t] = MadeUp
  /\ \A q \in Players :
       /\ h.flagsWrite[q] <= g.flagsWrite[q]
       /\ \A t \in 0 .. h.flagsWrite[q] - 1 : g.flags[q][t] = h.flags[q][t]
       /\ \A t \in h.flagsWrite[q] .. g.flagsWrite[q] - 1 :
            g.flags[q][t] = MadeUp \/ (q = p /\ t < bound)
       /\ q \notin h.connected => g.netDeadTick[q] = h.netDeadTick[q]
       /\ q \in h.connected \ g.connected =>
            h.incomplete <= g.netDeadTick[q] /\ g.netDeadTick[q] <= g.incomplete
       /\ q \in g.connected =>
            \/ g.unacknowledged[q] = h.unacknowledged[q]
            \/ q = p /\ g.unacknowledged[q] = ack

\* One step after the other.
LEMMA AdvancesTransitive ==
  ASSUME NEW h, NEW g, NEW k, Typed(h), Typed(g), Typed(k),
         NEW p, NEW ack, NEW bound,
         Advances(h, g, p, ack, bound), Advances(g, k, p, ack, bound)
  PROVE  Advances(h, k, p, ack, bound)
<1>1. /\ h.sendTimeWrite \in Nat /\ g.sendTimeWrite \in Nat /\ k.sendTimeWrite \in Nat
      /\ h.incomplete \in Nat /\ g.incomplete \in Nat /\ k.incomplete \in Nat
      /\ \A q \in Players :
           /\ h.flagsWrite[q] \in Nat /\ g.flagsWrite[q] \in Nat
           /\ k.flagsWrite[q] \in Nat
           /\ h.netDeadTick[q] \in Int /\ g.netDeadTick[q] \in Int
           /\ k.netDeadTick[q] \in Int
  BY Numbers
<1>2. /\ k.connected \subseteq h.connected /\ h.sentTo \subseteq k.sentTo
      /\ h.sendTimeWrite <= k.sendTimeWrite /\ h.incomplete <= k.incomplete
      /\ \A t \in Ticks : k.flags[LocalPlayer][t] = MadeUp
                            => h.flags[LocalPlayer][t] = MadeUp
  BY <1>1 DEF Advances
<1>3. ASSUME NEW q \in Players
      PROVE  /\ h.flagsWrite[q] <= k.flagsWrite[q]
             /\ \A t \in 0 .. h.flagsWrite[q] - 1 : k.flags[q][t] = h.flags[q][t]
  <2>1. /\ h.flagsWrite[q] <= g.flagsWrite[q] /\ g.flagsWrite[q] <= k.flagsWrite[q]
        /\ \A t \in 0 .. h.flagsWrite[q] - 1 : g.flags[q][t] = h.flags[q][t]
        /\ \A t \in 0 .. g.flagsWrite[q] - 1 : k.flags[q][t] = g.flags[q][t]
    BY DEF Advances
  <2> QED BY <1>1, <2>1
<1>4. ASSUME NEW q \in Players, NEW t \in h.flagsWrite[q] .. k.flagsWrite[q] - 1
      PROVE  k.flags[q][t] = MadeUp \/ (q = p /\ t < bound)
  <2>1. t \in h.flagsWrite[q] .. g.flagsWrite[q] - 1
          => g.flags[q][t] = MadeUp \/ (q = p /\ t < bound)
    BY DEF Advances
  <2>2. t \in g.flagsWrite[q] .. k.flagsWrite[q] - 1
          => k.flags[q][t] = MadeUp \/ (q = p /\ t < bound)
    BY DEF Advances
  <2>3. t \in 0 .. g.flagsWrite[q] - 1 => k.flags[q][t] = g.flags[q][t]
    BY DEF Advances
  <2>4. \/ t \in h.flagsWrite[q] .. g.flagsWrite[q] - 1 /\ t \in 0 .. g.flagsWrite[q] - 1
        \/ t \in g.flagsWrite[q] .. k.flagsWrite[q] - 1
    BY <1>1
  <2> QED BY <2>1, <2>2, <2>3, <2>4
<1>5. ASSUME NEW q \in Players
      PROVE  /\ q \notin h.connected => k.netDeadTick[q] = h.netDeadTick[q]
             /\ q \in h.connected \ k.connected =>
                  h.incomplete <= k.netDeadTick[q] /\ k.netDeadTick[q] <= k.incomplete
  <2>1. /\ g.connected \subseteq h.connected
        /\ h.incomplete <= g.incomplete /\ g.incomplete <= k.incomplete
        /\ q \notin h.connected => g.netDeadTick[q] = h.netDeadTick[q]
        /\ q \notin g.connected => k.netDeadTick[q] = g.netDeadTick[q]
        /\ q \in h.connected \ g.connected =>
             h.incomplete <= g.netDeadTick[q] /\ g.netDeadTick[q] <= g.incomplete
        /\ q \in g.connected \ k.connected =>
             g.incomplete <= k.netDeadTick[q] /\ k.netDeadTick[q] <= k.incomplete
    BY DEF Advances
  <2> QED BY <1>1, <2>1
<1>6. ASSUME NEW q \in k.connected, q \in Players
      PROVE  \/ k.unacknowledged[q] = h.unacknowledged[q]
             \/ q = p /\ k.unacknowledged[q] = ack
  <2>1. q \in g.connected
    BY DEF Advances
  <2> QED BY <1>6, <2>1 DEF Advances
<1> QED BY <1>2, <1>3, <1>4, <1>5, <1>6 DEF Advances

\* The hub keeps its part of the invariant.
LEMMA AdvancesHubOK ==
  ASSUME NEW h, NEW g, HubOK(h), NEW p, NEW ack, NEW bound,
         Advances(h, g, p, ack, bound), Consistent(g), FlagsInv(g)
  PROVE  HubOK(g)
<1>1. Typed(h) /\ Typed(g)
  BY DEF HubOK, Consistent
<1>2. /\ h.incomplete \in Nat /\ g.incomplete \in Nat /\ h.incomplete <= g.incomplete
      /\ \A q \in Players : g.netDeadTick[q] \in Int /\ h.netDeadTick[q] \in Int
  BY <1>1, Numbers DEF Advances
<1>3. \A t \in Ticks : g.flags[LocalPlayer][t] # MadeUp
  BY DEF HubOK, Advances
<1>4. \A q \in Absent : q \notin g.connected /\ g.netDeadTick[q] = -1
  <2>1. \A q \in Absent : q \in Players /\ q \notin h.connected /\ h.netDeadTick[q] = -1
    BY GameSizes DEF HubOK
  <2> QED BY <2>1 DEF Advances
<1>5. ASSUME NEW q \in Players \ (Absent \cup g.connected)
      PROVE  g.netDeadTick[q] >= 0 /\ g.netDeadTick[q] <= g.incomplete
  <2>1. CASE q \in h.connected
    <3>1. h.incomplete <= g.netDeadTick[q] /\ g.netDeadTick[q] <= g.incomplete
      BY <2>1 DEF Advances
    <3> QED BY <1>2, <3>1
  <2>2. CASE q \notin h.connected
    <3>1. g.netDeadTick[q] = h.netDeadTick[q]
      BY <2>2 DEF Advances
    <3>2. h.netDeadTick[q] >= 0 /\ h.netDeadTick[q] <= h.incomplete
      BY <2>2 DEF HubOK
    <3> QED BY <1>2, <3>1, <3>2
  <2> QED BY <2>1, <2>2
<1> QED BY <1>3, <1>4, <1>5 DEF HubOK

\* What was decided about complete ticks stays decided.
LEMMA CompleteStays ==
  ASSUME NEW h, NEW g, HubOK(h), NEW p, NEW ack, NEW bound,
         Advances(h, g, p, ack, bound), Typed(g),
         NEW q \in Players, NEW t \in 0 .. h.incomplete - 1
  PROVE  /\ Decision(g, q, t) = Decision(h, q, t)
         /\ q \in g.connected \/ t < g.netDeadTick[q]
              <=> q \in h.connected \/ t < h.netDeadTick[q]
         /\ q \in h.connected \/ t < h.netDeadTick[q] => g.flags[q][t] = h.flags[q][t]
<1>1. Typed(h) /\ Ordered(h)
  BY DEF HubOK, Consistent
<1>2. /\ h.incomplete \in Nat /\ g.incomplete \in Nat
      /\ h.flagsWrite[q] \in Nat /\ h.netDeadTick[q] \in Int /\ g.netDeadTick[q] \in Int
  BY <1>1, Numbers
<1>3. /\ h.netDeadTick[q] <= h.flagsWrite[q]
      /\ q \in h.connected => h.incomplete <= h.flagsWrite[q]
  BY <1>1 DEF Ordered
<1>4. /\ h.incomplete <= g.incomplete /\ g.connected \subseteq h.connected
      /\ \A u \in 0 .. h.flagsWrite[q] - 1 : g.flags[q][u] = h.flags[q][u]
      /\ q \notin h.connected => g.netDeadTick[q] = h.netDeadTick[q]
      /\ q \in h.connected \ g.connected => h.incomplete <= g.netDeadTick[q]
  BY DEF Advances
<1>5. t \in Nat /\ t < h.incomplete /\ t < g.incomplete
  BY <1>2, <1>3, <1>4
<1>6. q \in h.connected \/ t < h.netDeadTick[q] => g.flags[q][t] = h.flags[q][t]
  BY <1>2, <1>3, <1>4, <1>5
<1>7. q \in g.connected \/ t < g.netDeadTick[q]
        <=> q \in h.connected \/ t < h.netDeadTick[q]
  BY <1>2, <1>4, <1>5
<1>8. /\ t < ContributesUpTo(h, q) <=> q \in h.connected \/ t < h.netDeadTick[q]
      /\ t < ContributesUpTo(g, q) <=> q \in g.connected \/ t < g.netDeadTick[q]
  <2>1. (q \in h.connected => ContributesUpTo(h, q) = h.incomplete)
        /\ (q \notin h.connected => ContributesUpTo(h, q) = h.netDeadTick[q])
        /\ (q \in g.connected => ContributesUpTo(g, q) = g.incomplete)
        /\ (q \notin g.connected => ContributesUpTo(g, q) = g.netDeadTick[q])
    BY DEF ContributesUpTo
  <2> QED BY <1>2, <1>5, <2>1
<1> QED BY <1>6, <1>7, <1>8 DEF Decision

\* Sent ticks are complete.
LEMMA SentStays ==
  ASSUME NEW h, NEW g, HubOK(h), NEW p, NEW ack, NEW bound,
         Advances(h, g, p, ack, bound), Typed(g),
         NEW q \in Players, NEW t \in 0 .. h.sendTimeWrite - 1
  PROVE  /\ Decision(g, q, t) = Decision(h, q, t)
         /\ q \in g.connected \/ t < g.netDeadTick[q]
              <=> q \in h.connected \/ t < h.netDeadTick[q]
         /\ q \in h.connected \/ t < h.netDeadTick[q] => g.flags[q][t] = h.flags[q][t]
<1>1. h.sendTimeWrite \in Nat /\ h.incomplete \in Nat /\ h.sendTimeWrite <= h.incomplete
  BY Numbers DEF HubOK, Consistent, Ordered
<1>2. t \in 0 .. h.incomplete - 1
  BY <1>1
<1> QED BY <1>2, CompleteStays

\* So what a spoke knows of the hub stays true.  Of the player whose packet it is,
\* the hub has got no more than its spoke has received and provided.
LEMMA AdvancesSpokeOK ==
  ASSUME NEW h, NEW g, HubOK(h), Typed(g), NEW p, NEW ack \in Int, NEW bound \in Int,
         Advances(h, g, p, ack, bound), NEW q \in Players, NEW s, SpokeOK(h, s, q),
         q = p => ack <= s.unreceived /\ bound <= s.outWrite
  PROVE  SpokeOK(g, s, q)
<1>1. /\ Typed(h) /\ Ordered(h) /\ SpokeTyped(s) /\ Cursors(s) /\ Behind(h, s, q)
      /\ KnowsDead(h, s, q)
      /\ s.connected => InOrder(h, s) \/ PlaysAlone(h, s, q)
  BY DEF HubOK, Consistent, SpokeOK
<1>2. /\ h.sendTimeWrite \in Nat /\ h.incomplete \in Nat /\ g.sendTimeWrite \in Nat
      /\ h.sendTimeWrite <= h.incomplete
      /\ s.outRead \in Nat /\ s.unreceived \in Nat /\ s.outWrite \in Nat
      /\ RealGameTick \in Nat
      /\ \A r \in Players :
           /\ h.flagsWrite[r] \in Nat /\ g.flagsWrite[r] \in Nat
           /\ h.netDeadTick[r] \in Int /\ g.netDeadTick[r] \in Int
           /\ s.queue[r] \in Seq(Words) /\ Len(s.queue[r]) \in Nat
  BY <1>1, Numbers, SpokeNumbers, GameSizes DEF Ordered
<1>3. s.unreceived <= h.sendTimeWrite /\ s.outRead <= h.flagsWrite[q]
  BY <1>1 DEF Behind
<1>4. Behind(g, s, q)
  <2>1. h.flagsWrite[q] <= g.flagsWrite[q] /\ h.sendTimeWrite <= g.sendTimeWrite
    BY DEF Advances
  <2>2. s.outRead <= g.flagsWrite[q] /\ s.unreceived <= g.sendTimeWrite
    BY <1>2, <1>3, <2>1
  <2>3. s.heard => q \in g.sentTo
    BY <1>1 DEF Behind, Advances
  <2>4. ASSUME q \in g.connected PROVE g.unacknowledged[q] <= s.unreceived
    <3>1. q \in h.connected
      BY <2>4 DEF Advances
    <3>2. h.unacknowledged[q] <= s.unreceived
      BY <1>1, <3>1 DEF Behind
    <3> QED BY <2>4, <3>2 DEF Advances
  <2>5. ASSUME NEW t \in 0 .. g.flagsWrite[q] - 1
        PROVE  g.flags[q][t] = MadeUp \/ t < s.outWrite
    <3>1. CASE t < h.flagsWrite[q]
      <4>1. t \in 0 .. h.flagsWrite[q] - 1
        BY <1>2, <3>1
      <4>2. g.flags[q][t] = h.flags[q][t]
        BY <4>1 DEF Advances
      <4> QED BY <1>1, <4>1, <4>2 DEF Behind
    <3>2. CASE ~ (t < h.flagsWrite[q])
      <4> h.flagsWrite[q] \in Nat /\ g.flagsWrite[q] \in Nat
        BY <1>2
      <4>1. t \in h.flagsWrite[q] .. g.flagsWrite[q] - 1
        BY <3>2
      <4>2. g.flags[q][t] = MadeUp \/ (q = p /\ t < bound)
        BY <4>1 DEF Advances
      <4> QED BY <1>2, <4>2
    <3> QED BY <3>1, <3>2
  <2> QED BY <2>2, <2>3, <2>4, <2>5 DEF Behind
<1>5. \A r \in Players \ g.connected :
        g.netDeadTick[r] < s.unreceived =>
          r \notin h.connected /\ g.netDeadTick[r] = h.netDeadTick[r]
  <2>1. ASSUME NEW r \in Players \ g.connected, r \in h.connected
        PROVE  ~ (g.netDeadTick[r] < s.unreceived)
    <3>1. h.incomplete <= g.netDeadTick[r]
      BY <2>1 DEF Advances
    <3> g.netDeadTick[r] \in Int
      BY <1>2
    <3>2. s.unreceived <= h.incomplete
      BY <1>2, <1>3
    <3> QED BY <1>2, <3>1, <3>2
  <2> QED BY <2>1 DEF Advances
<1>6. KnowsDead(g, s, q)
  <2>1. \A r \in Players \ (s.alive \cup Absent) :
          r \notin g.connected /\ s.deadAt[r] = g.netDeadTick[r]
    <3>1. \A r \in Players \ (s.alive \cup Absent) :
            r \notin h.connected /\ s.deadAt[r] = h.netDeadTick[r]
      BY <1>1 DEF KnowsDead
    <3> QED BY <3>1 DEF Advances
  <2>2. \A r \in Players \ (g.connected \cup {q}) :
          g.netDeadTick[r] < s.unreceived => r \notin s.alive
    BY <1>1, <1>5 DEF KnowsDead
  <2> QED BY <1>1, <2>1, <2>2 DEF KnowsDead
<1>7. ASSUME InOrder(h, s) PROVE InOrder(g, s)
  <2>1. ASSUME NEW r \in Players \ Absent, NEW i \in 1 .. Len(s.queue[r])
        PROVE  s.queue[r][i] = Decision(g, r, RealGameTick + i - 1)
    <3>1. /\ WriteTick(s, r) = Larger(s.unreceived, RealGameTick)
          /\ s.queue[r][i] = Decision(h, r, RealGameTick + i - 1)
      BY <1>7 DEF InOrder
    <3>2. RealGameTick + i - 1 \in 0 .. h.sendTimeWrite - 1
      <4> Len(s.queue[r]) \in Nat
        BY <1>2
      <4>1. Len(s.queue[r]) > 0 => RealGameTick + Len(s.queue[r]) = s.unreceived
        BY <1>2, <3>1 DEF WriteTick, Larger
      <4> QED BY <1>2, <1>3, <4>1, SMTT(30)
    <3>3. Decision(g, r, RealGameTick + i - 1) = Decision(h, r, RealGameTick + i - 1)
      BY <3>2, SentStays
    <3> QED BY <3>1, <3>3
  <2> QED BY <1>7, <2>1 DEF InOrder
<1>8. ASSUME PlaysAlone(h, s, q) PROVE PlaysAlone(g, s, q)
  <2>1. \A r \in Players \ {q} : g.netDeadTick[r] = h.netDeadTick[r]
    BY <1>8 DEF PlaysAlone, Advances
  <2> QED BY <1>8, <2>1 DEF PlaysAlone, Advances
<1> QED BY <1>1, <1>4, <1>6, <1>7, <1>8 DEF SpokeOK

\* Whose words are due for the ticks that were sent.
LEMMA DueStays ==
  ASSUME NEW h, NEW g, HubOK(h), NEW p, NEW ack, NEW bound,
         Advances(h, g, p, ack, bound), Typed(g), NEW q, NEW own
  PROVE  /\ \A t \in 0 .. h.sendTimeWrite - 1 : Due(g, q, own, t) = Due(h, q, own, t)
         /\ \A first, last \in Ticks : last <= h.sendTimeWrite =>
              DuePairs(g, q, own, first, last) = DuePairs(h, q, own, first, last)
<1>1. ASSUME NEW t \in 0 .. h.sendTimeWrite - 1
      PROVE  Due(g, q, own, t) = Due(h, q, own, t)
  <2>1. \A r \in Players : r \in g.connected \/ t < g.netDeadTick[r]
                             <=> r \in h.connected \/ t < h.netDeadTick[r]
    BY SentStays
  <2> QED BY <2>1 DEF Due
<1>2. ASSUME NEW first \in Ticks, NEW last \in Ticks, last <= h.sendTimeWrite
      PROVE  DuePairs(g, q, own, first, last) = DuePairs(h, q, own, first, last)
  <2>1. first \in Nat /\ last \in Nat
    BY Sizes
  <2>2. \A a \in Pairs : a[1] \in Nat
    BY Sizes DEF Pairs
  <2>3. h.sendTimeWrite \in Nat
    BY Numbers DEF HubOK, Consistent
  <2>4. ASSUME NEW a \in Pairs, first <= a[1], a[1] < last
        PROVE  Due(g, q, own, a[1]) = Due(h, q, own, a[1])
    <3>1. a[1] \in Nat
      BY <2>2
    <3>2. a[1] \in 0 .. h.sendTimeWrite - 1
      BY <1>2, <2>1, <2>3, <2>4, <3>1
    <3> QED BY <1>1, <3>2
  <2> QED BY <2>4, Zenon DEF DuePairs
<1> QED BY <1>1, <1>2

\* The messages in a packet for q stay true.
LEMMA AdvancesMessagesOK ==
  ASSUME NEW h, NEW g, HubOK(h), NEW p, NEW ack, NEW bound,
         Advances(h, g, p, ack, bound), Typed(g), NEW q \in Players, NEW packet,
         MessagesOK(h, q, packet)
  PROVE  MessagesOK(g, q, packet)
<1>1. h.flagsWrite[q] \in Nat /\ g.flagsWrite[q] \in Nat
  BY Numbers DEF HubOK, Consistent
<1>2. /\ packet.ack \in Ticks /\ packet.ack <= h.flagsWrite[q]
      /\ packet.reflected \in BOOLEAN /\ (q = LocalPlayer => ~ packet.reflected)
      /\ q \in h.sentTo
      /\ DOMAIN packet.deaths \subseteq Players \ (h.connected \cup Absent \cup {q})
      /\ \A r \in DOMAIN packet.deaths : packet.deaths[r] = h.netDeadTick[r]
  BY DEF MessagesOK
<1>3. packet.ack <= g.flagsWrite[q]
  <2>1. packet.ack \in Nat
    BY <1>2, Sizes
  <2>2. h.flagsWrite[q] <= g.flagsWrite[q]
    BY DEF Advances
  <2> QED BY <1>1, <1>2, <2>1, <2>2
<1>4. q \in g.sentTo
  BY <1>2 DEF Advances
<1>5. /\ DOMAIN packet.deaths \subseteq Players \ (g.connected \cup Absent \cup {q})
      /\ \A r \in DOMAIN packet.deaths : packet.deaths[r] = g.netDeadTick[r]
  BY <1>2 DEF Advances
<1> QED BY <1>2, <1>3, <1>4, <1>5 DEF MessagesOK

\* So do its words.
LEMMA AdvancesWordsOK ==
  ASSUME NEW h, NEW g, HubOK(h), NEW p, NEW ack, NEW bound,
         Advances(h, g, p, ack, bound), Typed(g), NEW q \in Players, NEW packet,
         NEW s, WordsOK(h, s, q, packet)
  PROVE  WordsOK(g, s, q, packet)
<1> DEFINE own == packet.reflected
<1>1. PICK first \in Ticks, last \in Ticks :
        /\ Covers(h, q, packet, first, last) /\ WordsInPlace(h, q, packet, first, last)
        /\ DeathsTold(h, s, packet, last)
  BY DEF WordsOK
<1>2. Typed(h) /\ Ordered(h)
  BY DEF HubOK, Consistent
<1>3. /\ first \in Nat /\ last \in Nat
      /\ h.sendTimeWrite \in Nat /\ g.sendTimeWrite \in Nat /\ h.incomplete \in Nat
      /\ h.sendTimeWrite <= h.incomplete
      /\ h.flagsWrite[q] \in Nat /\ g.flagsWrite[q] \in Nat
      /\ h.netDeadTick[q] \in Int /\ g.netDeadTick[q] \in Int
  BY <1>2, Numbers, Sizes DEF Ordered
<1>4. /\ first < last /\ last <= h.sendTimeWrite /\ last <= h.flagsWrite[q]
      /\ q \in h.connected \/ last <= h.netDeadTick[q]
      /\ packet.start = first
      /\ Due(h, q, own, last - 1) # {}
      /\ ~ own => \A t \in first .. last - 1 : h.flags[q][t] # MadeUp
  BY <1>1 DEF Covers
<1>5. /\ \A t \in first .. last - 1 : Due(g, q, own, t) = Due(h, q, own, t)
      /\ \A t \in first .. last :
           DuePairs(g, q, own, first, t) = DuePairs(h, q, own, first, t)
  <2>1. ASSUME NEW t \in first .. last - 1 PROVE Due(g, q, own, t) = Due(h, q, own, t)
    <3>1. t \in 0 .. h.sendTimeWrite - 1
      BY <1>3, <1>4
    <3> QED BY <3>1, DueStays
  <2>2. ASSUME NEW t \in first .. last
        PROVE  DuePairs(g, q, own, first, t) = DuePairs(h, q, own, first, t)
    <3>1. t \in Nat /\ t <= MaxTick /\ t <= h.sendTimeWrite
      BY <1>3, <1>4, Sizes
    <3>2. t \in Ticks
      BY <3>1, Sizes
    <3> QED BY <3>1, <3>2, DueStays
  <2> QED BY <2>1, <2>2
<1>6. Covers(g, q, packet, first, last)
  <2>1. h.sendTimeWrite <= g.sendTimeWrite /\ h.flagsWrite[q] <= g.flagsWrite[q]
    BY DEF Advances
  <2>2. last <= g.sendTimeWrite /\ last <= g.flagsWrite[q]
    BY <1>3, <1>4, <2>1
  <2>3. q \in g.connected \/ last <= g.netDeadTick[q]
    <3>1. /\ q \notin h.connected => g.netDeadTick[q] = h.netDeadTick[q]
          /\ q \in h.connected \ g.connected => h.incomplete <= g.netDeadTick[q]
      BY DEF Advances
    <3> QED BY <1>3, <1>4, <3>1
  <2>4. Due(g, q, own, last - 1) # {}
    <3>1. last - 1 \in first .. last - 1
      BY <1>3, <1>4
    <3> QED BY <1>4, <1>5, <3>1
  <2>5. ~ own => \A t \in first .. last - 1 : g.flags[q][t] # MadeUp
    <3>1. \A t \in first .. last - 1 : t \in 0 .. h.flagsWrite[q] - 1
      BY <1>3, <1>4
    <3>2. \A t \in 0 .. h.flagsWrite[q] - 1 : g.flags[q][t] = h.flags[q][t]
      BY DEF Advances
    <3> QED BY <1>4, <3>1, <3>2
  <2> QED BY <1>4, <2>2, <2>3, <2>4, <2>5 DEF Covers
<1>7. WordsInPlace(g, q, packet, first, last)
  <2>1. last \in first .. last
    BY <1>3, <1>4
  <2>2. Len(packet.words) = Cardinality(DuePairs(g, q, own, first, last))
    BY <1>1, <1>5, <2>1 DEF WordsInPlace
  <2>3. ASSUME NEW t \in first .. last - 1, NEW r \in Due(g, q, own, t)
        PROVE  packet.words[Cardinality(DuePairs(g, q, own, first, t)) +
                            Cardinality({x \in Due(g, q, own, t) : x <= r})]
                 = <<r, g.flags[r][t]>>
    <3>1. /\ Due(g, q, own, t) = Due(h, q, own, t)
          /\ DuePairs(g, q, own, first, t) = DuePairs(h, q, own, first, t)
      <4>1. t \in first .. last
        BY <1>3, <1>4
      <4> QED BY <1>5, <4>1
    <3>2. r \in Due(h, q, own, t)
      BY <3>1
    <3>3. packet.words[Cardinality(DuePairs(h, q, own, first, t)) +
                       Cardinality({x \in Due(h, q, own, t) : x <= r})]
            = <<r, h.flags[r][t]>>
      BY <1>1, <3>2, Zenon DEF WordsInPlace
    <3>4. g.flags[r][t] = h.flags[r][t]
      <4>1. r \in Players /\ (r \in h.connected \/ t < h.netDeadTick[r])
        BY <3>2 DEF Due
      <4>2. t \in 0 .. h.sendTimeWrite - 1
        BY <1>3, <1>4
      <4> QED BY <4>1, <4>2, SentStays
    <3> QED BY <3>1, <3>3, <3>4, Zenon
  <2> QED BY <2>2, <2>3, Zenon DEF WordsInPlace
<1>8. DeathsTold(g, s, packet, last)
  <2>1. ASSUME NEW r \in Players \ g.connected, g.netDeadTick[r] < last
        PROVE  r \in DOMAIN packet.deaths \/ r \notin s.alive
    <3>1. g.netDeadTick[r] \in Int
      BY Numbers
    <3>2. r \notin h.connected
      <4>1. r \in h.connected => h.incomplete <= g.netDeadTick[r]
        BY DEF Advances
      <4>2. last <= h.incomplete
        BY <1>3, <1>4
      <4> QED BY <1>3, <2>1, <3>1, <4>1, <4>2
    <3>3. h.netDeadTick[r] < last
      BY <2>1, <3>2 DEF Advances
    <3> QED BY <1>1, <3>2, <3>3 DEF DeathsTold
  <2> QED BY <2>1 DEF DeathsTold
<1> QED BY <1>6, <1>7, <1>8 DEF WordsOK

\* What packets under way say stays true.
LEMMA AdvancesPacketOK ==
  ASSUME NEW h, NEW g, HubOK(h), NEW p, NEW ack, NEW bound,
         Advances(h, g, p, ack, bound), Typed(g), NEW q \in Players, NEW packet,
         NEW s, PacketOK(h, s, q, packet)
  PROVE  PacketOK(g, s, q, packet)
BY AdvancesMessagesOK, AdvancesWordsOK DEF PacketOK

\* See AdvancesPacketOK.
LEMMA AdvancesToHubOK ==
  ASSUME NEW h, NEW g, HubOK(h), NEW p, NEW ack, NEW bound,
         Advances(h, g, p, ack, bound), Typed(g), NEW q \in Players, NEW packet,
         NEW s, ToHubOK(h, s, q, packet)
  PROVE  ToHubOK(g, s, q, packet)
<1>1. h.flagsWrite[q] \in Nat /\ g.flagsWrite[q] \in Nat
  BY Numbers DEF HubOK, Consistent
<1>2. h.flagsWrite[q] <= g.flagsWrite[q]
  BY DEF Advances
<1>3. packet.start \in Nat /\ packet.start <= h.flagsWrite[q]
  BY DEF ToHubOK
<1>4. packet.start <= g.flagsWrite[q]
  BY <1>1, <1>2, <1>3
<1> QED BY <1>4 DEF ToHubOK

\* Packets under way are not outdone by what the spoke does, either.
LEMMA GrownPacketOK ==
  ASSUME NEW h, NEW s, NEW t, NEW p, SpokeGrows(s, t), NEW packet,
         PacketOK(h, s, p, packet)
  PROVE  PacketOK(h, t, p, packet)
<1>1. t.alive \subseteq s.alive
  BY DEF SpokeGrows
<1> QED BY <1>1 DEF PacketOK, WordsOK, DeathsTold

\* See GrownPacketOK.
LEMMA GrownToHubOK ==
  ASSUME NEW h, NEW s, NEW t, NEW p, SpokeTyped(s), SpokeTyped(t), SpokeGrows(s, t),
         NEW packet, ToHubOK(h, s, p, packet)
  PROVE  ToHubOK(h, t, p, packet)
<1>1. /\ s.unreceived \in Nat /\ t.unreceived \in Nat
      /\ s.outWrite \in Nat /\ t.outWrite \in Nat
  BY SpokeNumbers
<1>2. s.unreceived <= t.unreceived /\ s.outWrite <= t.outWrite
  BY DEF SpokeGrows
<1>3. /\ packet.ack \in Ticks /\ packet.ack <= s.unreceived
      /\ packet.start \in Nat /\ packet.count \in Nat
      /\ packet.hasFlags => packet.start + packet.count <= s.outWrite
  BY DEF ToHubOK
<1>4. packet.ack <= t.unreceived
  <2>1. packet.ack \in Nat
    BY <1>3, Sizes
  <2> QED BY <1>1, <1>2, <1>3, <2>1
<1>5. packet.hasFlags => packet.start + packet.count <= t.outWrite
  BY <1>1, <1>2, <1>3
<1> QED BY <1>4, <1>5 DEF ToHubOK

-----------------------------------------------------------------------------
(***************************************************************************)
(* The functions of the hub                                                *)
(***************************************************************************)

\* Most of them leave the flags and the players alone, but may complete ticks, or
\* send.
NothingGot(h, g) ==
  /\ g.connected = h.connected /\ h.sentTo \subseteq g.sentTo
  /\ h.sendTimeWrite <= g.sendTimeWrite /\ h.incomplete <= g.incomplete
  /\ g.flags = h.flags /\ g.flagsWrite = h.flagsWrite
  /\ g.netDeadTick = h.netDeadTick /\ g.unacknowledged = h.unacknowledged

\* That is no setback for anybody.
LEMMA NothingGotAdvances ==
  ASSUME NEW h, NEW g, Typed(h), NothingGot(h, g), NEW p, NEW ack, NEW bound
  PROVE  Advances(h, g, p, ack, bound)
<1>1. \A q \in Players : h.flagsWrite[q] \in Nat
  BY Numbers
<1>2. ASSUME NEW q \in Players, NEW t \in h.flagsWrite[q] .. g.flagsWrite[q] - 1
      PROVE  FALSE
  BY <1>1 DEF NothingGot
<1>3. \A q \in Players : h.flagsWrite[q] <= g.flagsWrite[q]
  BY <1>1 DEF NothingGot
<1> QED BY <1>2, <1>3 DEF NothingGot, Advances

\* The queues as they are.
LEMMA SameQueuesAdvances ==
  ASSUME NEW h, NEW g, Typed(h), SameQueues(h, g), NEW p, NEW ack, NEW bound
  PROVE  Advances(h, g, p, ack, bound)
<1>1. h.sendTimeWrite \in Nat /\ h.incomplete \in Nat
  BY Numbers
<1>2. NothingGot(h, g)
  BY <1>1 DEF SameQueues, NothingGot
<1> QED BY <1>2, NothingGotAdvances

\* send_packets.
LEMMA SendPacketsAdvances ==
  ASSUME NEW h, Typed(h), Ordered(h), NEW p, NEW ack, NEW bound
  PROVE  LET g == SendPackets(h)
         IN  /\ Advances(h, g, p, ack, bound) /\ JustSent(g)
             /\ h.failed \subseteq g.failed
<1> DEFINE g == SendPackets(h)
<1>1. DOMAIN h = HubFields /\ h.sendTimeWrite \in Nat /\ h.incomplete \in Nat
      /\ h.sendTimeWrite <= h.incomplete
  BY Numbers DEF Typed, Ordered
<1>2. /\ g.connected = h.connected /\ g.addressKnown = h.addressKnown
      /\ g.sentTo = h.sentTo \cup (h.connected \cap h.addressKnown)
      /\ g.sendTimeWrite = Larger(h.sendTimeWrite, h.incomplete)
      /\ g.incomplete = h.incomplete
      /\ g.flags = h.flags /\ g.flagsWrite = h.flagsWrite
      /\ g.netDeadTick = h.netDeadTick /\ g.unacknowledged = h.unacknowledged
      /\ h.failed \subseteq g.failed
  BY <1>1 DEF SendPackets, HubFields
<1> HIDE DEF g
<1>3. g.sendTimeWrite = h.incomplete
  BY <1>1, <1>2 DEF Larger
<1>4. NothingGot(h, g) /\ JustSent(g)
  BY <1>1, <1>2, <1>3 DEF NothingGot, JustSent
<1> QED BY <1>2, <1>4, NothingGotAdvances DEF g

\* player_provided_flags_from_tick_to_tick.
LEMMA PlayerProvidedAdvances ==
  ASSUME NEW h, DOMAIN h = HubFields, h.read \in Nat, h.incomplete \in Nat,
         h.sendTimeWrite \in Nat,
         NEW q \in Players, NEW first \in Int, NEW last \in Int
  PROVE  LET g == PlayerProvided(h, q, first, last)
         IN  /\ NothingGot(h, g) /\ DOMAIN g = HubFields
             /\ g.incomplete \in Nat /\ g.sendTimeWrite = h.sendTimeWrite
             /\ g.addressKnown = h.addressKnown
             /\ g.unsent = h.unsent /\ h.failed \subseteq g.failed
<1> DEFINE g == PlayerProvided(h, q, first, last)
<1>1. Harmless(h, g)
  BY ProvidedHarmless, Zenon
<1>2. /\ g.addressKnown = h.addressKnown
      /\ g.sentTo = h.sentTo /\ g.sendTimeWrite = h.sendTimeWrite
      /\ g.flags = h.flags /\ g.flagsWrite = h.flagsWrite
      /\ g.unacknowledged = h.unacknowledged
      /\ g.unsent = h.unsent /\ DOMAIN g = HubFields
  BY SMTT(30) DEF PlayerProvided, HubFields
<1>3. h.failed \subseteq g.failed
  BY Zenon DEF PlayerProvided, HubFields
<1> HIDE DEF g
<1>4. g.connected = h.connected /\ g.netDeadTick = h.netDeadTick
  BY <1>1 DEF Harmless, SamePlayers
<1>5. g.incomplete \in Nat /\ h.incomplete <= g.incomplete
  BY <1>1 DEF Harmless, SameMadeUp
<1>6. NothingGot(h, g)
  BY <1>2, <1>4, <1>5 DEF NothingGot
<1> QED BY <1>2, <1>3, <1>5, <1>6 DEF g

\* player_acknowledged_up_to_tick, of a player with p's acknowledgement.
LEMMA PlayerAcknowledgedFields ==
  ASSUME NEW h, DOMAIN h = HubFields, NEW p \in Players, NEW ack
  PROVE  LET g == PlayerAcknowledged(h, p, ack)
         IN  /\ DOMAIN g = HubFields
             /\ g.connected = h.connected /\ g.sentTo = h.sentTo
             /\ g.addressKnown = h.addressKnown
             /\ g.sendTimeWrite = h.sendTimeWrite /\ g.incomplete = h.incomplete
             /\ g.flags = h.flags /\ g.flagsWrite = h.flagsWrite
             /\ g.netDeadTick = h.netDeadTick /\ g.unsent = h.unsent
             /\ \/ g.unacknowledged = h.unacknowledged
                \/ g.unacknowledged = [h.unacknowledged EXCEPT ![p] = ack]
             /\ h.failed \subseteq g.failed
<1> DEFINE g == PlayerAcknowledged(h, p, ack)
           k == AcknowledgementTaken(h, p, ack)
<1>1. g \in {h, k}
  BY Zenon DEF PlayerAcknowledged
<1>2. /\ DOMAIN k = HubFields
      /\ k.connected = h.connected /\ k.sentTo = h.sentTo
      /\ k.addressKnown = h.addressKnown
      /\ k.sendTimeWrite = h.sendTimeWrite /\ k.incomplete = h.incomplete
      /\ k.flags = h.flags /\ k.flagsWrite = h.flagsWrite
      /\ k.netDeadTick = h.netDeadTick /\ k.unsent = h.unsent
      /\ k.unacknowledged = [h.unacknowledged EXCEPT ![p] = ack]
  BY SMTT(30) DEF AcknowledgementTaken, CheckForCompletion, HubFields
<1>3. h.failed \subseteq k.failed
  <2>1. ASSUME NEW x \in h.failed PROVE x \in k.failed
    BY Zenon DEF AcknowledgementTaken, CheckForCompletion, HubFields
  <2> QED BY <2>1, Zenon
<1> HIDE DEF g, k
<1> QED BY <1>1, <1>2, <1>3 DEF g

\* The handler's case of it.
LEMMA PlayerAcknowledgedAdvances ==
  ASSUME NEW h, Typed(h), NEW p \in Players, NEW ack, NEW bound
  PROVE  Advances(h, PlayerAcknowledged(h, p, ack), p, ack, bound)
<1> DEFINE g == PlayerAcknowledged(h, p, ack)
<1>1. /\ DOMAIN h = HubFields
      /\ h.sendTimeWrite \in Nat /\ h.incomplete \in Nat
      /\ \A q \in Players : h.flagsWrite[q] \in Nat
      /\ h.unacknowledged \in [Players -> Ticks]
  BY Numbers DEF Typed, IsHub
<1>2. /\ g.connected = h.connected /\ g.sentTo = h.sentTo
      /\ g.sendTimeWrite = h.sendTimeWrite /\ g.incomplete = h.incomplete
      /\ g.flags = h.flags /\ g.flagsWrite = h.flagsWrite
      /\ g.netDeadTick = h.netDeadTick
      /\ \/ g.unacknowledged = h.unacknowledged
         \/ g.unacknowledged = [h.unacknowledged EXCEPT ![p] = ack]
  BY <1>1, PlayerAcknowledgedFields
<1> HIDE DEF g
<1>3. ASSUME NEW q \in Players, NEW t \in h.flagsWrite[q] .. g.flagsWrite[q] - 1
      PROVE  FALSE
  BY <1>1, <1>2
<1>4. \A q \in Players : h.flagsWrite[q] <= g.flagsWrite[q]
  BY <1>1, <1>2
<1>5. \A q \in Players : \/ g.unacknowledged[q] = h.unacknowledged[q]
                         \/ q = p /\ g.unacknowledged[q] = ack
  BY <1>1, <1>2
<1>6. h.sendTimeWrite <= g.sendTimeWrite /\ h.incomplete <= g.incomplete
  BY <1>1, <1>2
<1> QED BY <1>2, <1>3, <1>4, <1>5, <1>6 DEF Advances, g

\* make_player_netdead: a player is dropped from the first incomplete tick on.
LEMMA MakePlayerNetDeadAdvances ==
  ASSUME NEW h, Consistent(h), NEW q \in h.connected, NEW p, NEW ack, NEW bound
  PROVE  Advances(h, MakePlayerNetDead(h, q), p, ack, bound)
<1> DEFINE erased == IF q \in h.addressKnown THEN q ELSE LocalPlayer
           dead   == [h EXCEPT !.netDeadTick[q] = DeathTick(h, q),
                               !.connected = @ \ {q},
                               !.routable = @ \ {erased}]
           k      == PlayerProvided(dead, q, h.flagsWrite[q], h.write)
           g      == MakePlayerNetDead(h, q)
<1>1. /\ DOMAIN h = HubFields /\ Typed(h) /\ q \in Players
      /\ h.read \in Nat /\ h.incomplete \in Nat /\ h.flagsWrite[q] \in Nat
      /\ h.write \in Nat /\ h.sendTimeWrite \in Nat
      /\ h.netDeadTick \in [Players -> Ticks \cup {-1}]
      /\ h.unacknowledged \in [Players -> Ticks]
      /\ \A r \in Players : h.flagsWrite[r] \in Nat
  BY Numbers DEF Consistent, Typed, IsHub
<1>2. /\ DOMAIN dead = HubFields
      /\ dead.read = h.read /\ dead.incomplete = h.incomplete
      /\ dead.sendTimeWrite = h.sendTimeWrite /\ dead.sentTo = h.sentTo
      /\ dead.flags = h.flags /\ dead.flagsWrite = h.flagsWrite
      /\ dead.write = h.write /\ dead.unacknowledged = h.unacknowledged
  BY <1>1 DEF DeathTick, HubFields
<1>3. g = PlayerAcknowledged(k, q, h.incomplete)
  BY <1>2 DEF MakePlayerNetDead
<1>4. /\ g.connected = h.connected \ {q}
      /\ g.netDeadTick = [h.netDeadTick EXCEPT ![q] = h.incomplete]
      /\ SameMadeUp(h, g)
  BY NetDeadFinal
<1> HIDE DEF dead, g
<1>5. /\ NothingGot(dead, k) /\ DOMAIN k = HubFields /\ k.sendTimeWrite = dead.sendTimeWrite
  BY <1>1, <1>2, PlayerProvidedAdvances
<1> HIDE DEF k
<1>6. /\ g.sentTo = k.sentTo /\ g.sendTimeWrite = k.sendTimeWrite
      /\ g.flags = k.flags /\ g.flagsWrite = k.flagsWrite
      /\ \/ g.unacknowledged = k.unacknowledged
         \/ g.unacknowledged = [k.unacknowledged EXCEPT ![q] = h.incomplete]
  BY <1>1, <1>3, <1>5, PlayerAcknowledgedFields
<1>7. /\ h.sentTo \subseteq g.sentTo /\ g.sendTimeWrite = h.sendTimeWrite
      /\ g.flags = h.flags /\ g.flagsWrite = h.flagsWrite
      /\ \/ g.unacknowledged = h.unacknowledged
         \/ g.unacknowledged = [h.unacknowledged EXCEPT ![q] = h.incomplete]
  BY <1>2, <1>5, <1>6 DEF NothingGot
<1>8. g.incomplete \in Nat /\ h.incomplete <= g.incomplete
  BY <1>4 DEF SameMadeUp
<1>9. ASSUME NEW r \in Players, NEW t \in h.flagsWrite[r] .. g.flagsWrite[r] - 1
      PROVE  FALSE
  BY <1>1, <1>7
<1>10. \A r \in Players : h.flagsWrite[r] <= g.flagsWrite[r]
  BY <1>1, <1>7
<1>11. ASSUME NEW r \in Players
       PROVE  /\ r \notin h.connected => g.netDeadTick[r] = h.netDeadTick[r]
              /\ r \in h.connected \ g.connected =>
                   h.incomplete <= g.netDeadTick[r] /\ g.netDeadTick[r] <= g.incomplete
              /\ r \in g.connected => g.unacknowledged[r] = h.unacknowledged[r]
  <2>1. /\ r # q => g.netDeadTick[r] = h.netDeadTick[r]
        /\ r = q => g.netDeadTick[r] = h.incomplete
    BY <1>1, <1>4
  <2>2. r # q => g.unacknowledged[r] = h.unacknowledged[r]
    BY <1>1, <1>7
  <2> QED BY <1>1, <1>4, <1>8, <2>1, <2>2
<1>12. h.sendTimeWrite <= g.sendTimeWrite
  BY <1>1, <1>7
<1>13. g.connected \subseteq h.connected
  BY <1>4
<1> QED BY <1>7, <1>8, <1>9, <1>10, <1>11, <1>12, <1>13 DEF Advances, g

\* make_up_flags_for_first_incomplete_tick.
LEMMA MakeUpFlagsAdvances ==
  ASSUME NEW h, Consistent(h), CanMakeUpFlags(h), NEW p, NEW ack, NEW bound
  PROVE  Advances(h, MakeUpFlags(h), p, ack, bound)
<1> DEFINE g == MakeUpFlags(h)
<1>1. /\ DOMAIN h = HubFields /\ Typed(h) /\ Ordered(h)
      /\ h.incomplete \in Nat /\ h.sendTimeWrite \in Nat /\ h.incomplete \in Ticks
      /\ h.flags \in [Players -> [Ticks -> Ticks \cup {None, MadeUp}]]
      /\ h.flagsWrite \in [Players -> Ticks]
      /\ \A r \in Players : h.flagsWrite[r] \in Nat
  BY Numbers DEF Consistent, Typed, IsHub
<1>2. /\ g.connected = h.connected /\ g.sentTo = h.sentTo
      /\ g.sendTimeWrite = h.sendTimeWrite /\ g.incomplete = h.incomplete + 1
      /\ g.netDeadTick = h.netDeadTick /\ g.unacknowledged = h.unacknowledged
      /\ g.flags = [r \in Players |->
             IF r \in WithoutFlags(h)
             THEN [h.flags[r] EXCEPT ![h.incomplete] = MadeUp]
             ELSE h.flags[r]]
      /\ g.flagsWrite = [r \in Players |->
             IF r \in WithoutFlags(h) THEN h.incomplete + 1 ELSE h.flagsWrite[r]]
  BY <1>1 DEF MakeUpFlags, HubFields
<1> HIDE DEF g
<1>3. LocalPlayer \notin WithoutFlags(h) /\ LocalPlayer \in Players
  BY StarConstants DEF CanMakeUpFlags
<1>4. g.flags[LocalPlayer] = h.flags[LocalPlayer]
  BY <1>2, <1>3
<1>5. ASSUME NEW q \in Players
      PROVE  /\ h.flagsWrite[q] <= g.flagsWrite[q]
             /\ \A t \in 0 .. h.flagsWrite[q] - 1 : g.flags[q][t] = h.flags[q][t]
             /\ \A t \in h.flagsWrite[q] .. g.flagsWrite[q] - 1 :
                  g.flags[q][t] = MadeUp
  <2>1. CASE q \in WithoutFlags(h)
    <3>1. h.flagsWrite[q] = h.incomplete /\ g.flagsWrite[q] = h.incomplete + 1
      BY <1>2, <2>1 DEF WithoutFlags
    <3>2. g.flags[q] = [h.flags[q] EXCEPT ![h.incomplete] = MadeUp]
      BY <1>2, <2>1
    <3>3. \A t \in h.flagsWrite[q] .. g.flagsWrite[q] - 1 : t = h.incomplete
      BY <1>1, <3>1
    <3>4. h.flags[q] \in [Ticks -> Ticks \cup {None, MadeUp}]
      BY <1>1
    <3>5. g.flags[q][h.incomplete] = MadeUp
      BY <1>1, <3>2, <3>4
    <3>6. ASSUME NEW t \in 0 .. h.flagsWrite[q] - 1
          PROVE  g.flags[q][t] = h.flags[q][t]
      <4>1. t # h.incomplete /\ t \in Nat /\ t <= h.incomplete
        BY <1>1, <3>1
      <4>2. t \in Ticks
        BY <1>1, <4>1, Sizes
      <4> QED BY <3>2, <3>4, <4>1, <4>2
    <3>7. h.flagsWrite[q] <= g.flagsWrite[q]
      BY <1>1, <3>1
    <3> QED BY <3>3, <3>5, <3>6, <3>7
  <2>2. CASE q \notin WithoutFlags(h)
    <3>1. h.flagsWrite[q] = g.flagsWrite[q] /\ g.flags[q] = h.flags[q]
          /\ h.flagsWrite[q] \in Nat
      BY <1>1, <1>2, <2>2
    <3> QED BY <3>1
  <2> QED BY <2>1, <2>2
<1>6. h.sendTimeWrite <= g.sendTimeWrite /\ h.incomplete <= g.incomplete
  BY <1>1, <1>2
<1> QED BY <1>2, <1>4, <1>5, <1>6 DEF Advances, g

\* The action flags of a packet: hub_received_game_data_packet_v1 after the
\* acknowledgement.  It changes what is unsent only if it sends.
LEMMA ReceiveFlagsAdvances ==
  ASSUME NEW h, Consistent(h), NEW p \in h.connected, NEW start \in Nat,
         NEW count \in Nat, start + count <= MaxTick, NEW ack
  PROVE  LET r == ReceiveFlags(h, p, start, count)
         IN  /\ Advances(h, r, p, ack, start + count)
             /\ r.unsent # h.unsent => JustSent(r)
<1> DEFINE filled    == start > h.lateWrite[p]
           lateWrite == IF filled THEN h.flagsWrite[p] ELSE h.lateWrite[p]
           lateRead  == h.lateRead[p] + (lateWrite - h.lateWrite[p])
           redundant == Smaller(lateWrite - start, count)
           late      == LateFlags(h, p, lateWrite, count - redundant)
           size      == h.flagsWrite[p] - h.flagsRead[p]
           room      == IF h.read < RealGameTick /\ size > PregameWindow
                        THEN 0 ELSE QueueSize - size
           fresh     == Smaller(count - redundant - late, room)
           first     == start + redundant + late
           w         == h.flagsWrite[p]
           e == [h EXCEPT
             !.flags[p] = [t \in Ticks |->
                IF h.flagsWrite[p] <= t /\ t < h.flagsWrite[p] + fresh
                THEN first + (t - h.flagsWrite[p]) ELSE h.flags[p][t]],
             !.flagsWrite[p] = @ + fresh,
             !.lateWrite[p] = lateWrite + late + fresh,
             !.lateRead[p] = lateRead,
             !.failed = @
                \cup Assert("lateQueueCaughtUp",
                            fresh > 0 => h.flagsWrite[p] = lateWrite + late)
                \cup Assert("lateQueueFull",
                            /\ lateWrite > h.lateWrite[p]
                                 => h.lateWrite[p] - h.lateRead[p] < QueueSize
                            /\ late + fresh > 0
                                 => lateWrite + late + fresh - lateRead <= QueueSize)]
           g == PlayerProvided(e, p, first, first + fresh)
           r == ReceiveFlags(h, p, start, count)
<1>1. /\ Typed(h) /\ Ordered(h) /\ DOMAIN h = HubFields /\ IsHub(h)
      /\ p \in Players
  BY Numbers DEF Consistent, Typed
<1>2. /\ h.read \in Nat /\ h.incomplete \in Nat /\ h.sendTimeWrite \in Nat
      /\ w \in Nat /\ w <= MaxTick /\ MaxTick \in Nat
      /\ h.flagsRead[p] \in Nat /\ h.lateWrite[p] \in Nat
      /\ h.lateWrite[p] <= w /\ h.flagsRead[p] = Smaller(h.read, w)
      /\ h.incomplete <= w /\ h.read <= h.incomplete /\ w <= h.write
      /\ h.write \in Nat /\ h.write - h.read <= QueueSize
      /\ h.sendTimeWrite <= h.incomplete
  BY <1>1, Numbers, Sizes DEF Ordered
<1>3. CASE start > w
  <2>1. r = h
    BY <1>2, <1>3 DEF ReceiveFlags
  <2>2. NothingGot(h, r)
    BY <1>2, <2>1 DEF NothingGot
  <2> QED BY <1>1, <2>1, <2>2, NothingGotAdvances, ZenonT(60)
<1>4. CASE ~ (start > w)
  <2>1. /\ lateWrite \in Nat /\ lateWrite <= w /\ start <= lateWrite
    <3>1. h.lateWrite[p] \in Nat /\ w \in Nat /\ h.lateWrite[p] <= w /\ start <= w
      BY <1>2, <1>4
    <3> QED BY <3>1
  <2> HIDE DEF lateWrite, lateRead
  <2>2. /\ redundant \in Nat /\ redundant <= count
        /\ redundant = lateWrite - start \/ redundant = count
    BY <2>1 DEF Smaller
  <2> HIDE DEF redundant
  <2>3. /\ late \in Nat /\ redundant + late <= count
        /\ late = w - lateWrite \/ redundant + late = count
    BY <1>2, <2>1, <2>2 DEF LateFlags, Smaller
  <2> HIDE DEF late
  <2>4. room \in Nat
    <3>1. h.flagsRead[p] = h.read
      BY <1>2 DEF Smaller
    <3> QED BY <1>2, <3>1, Sizes
  <2> HIDE DEF room
  <2>5. fresh \in Nat /\ redundant + late + fresh <= count
    BY <2>2, <2>3, <2>4 DEF Smaller
  <2>6. first \in Nat /\ first + fresh \in Int /\ (fresh # 0 => first = w)
    BY <1>2, <2>1, <2>2, <2>3, <2>5
  <2>7. fresh # 0 => w + fresh <= start + count
    BY <1>2, <2>1, <2>2, <2>3, <2>5
  <2> HIDE DEF fresh, first
  <2>8. /\ DOMAIN e = HubFields
        /\ e.flags = [h.flags EXCEPT ![p] = [t \in Ticks |->
             IF w <= t /\ t < w + fresh THEN first + (t - w) ELSE h.flags[p][t]]]
        /\ e.flagsWrite = [h.flagsWrite EXCEPT ![p] = w + fresh]
    BY <1>1, SMTT(40) DEF HubFields
  <2>9. /\ e.connected = h.connected /\ e.netDeadTick = h.netDeadTick
        /\ e.addressKnown = h.addressKnown /\ e.sentTo = h.sentTo
        /\ e.sendTimeWrite = h.sendTimeWrite /\ e.incomplete = h.incomplete
        /\ e.read = h.read /\ e.unacknowledged = h.unacknowledged
        /\ e.unsent = h.unsent
    BY <1>1, SMTT(40) DEF HubFields
  <2>10. r \in {e, g, SendPackets(g)}
    BY <1>2, <1>4 DEF ReceiveFlags, first, fresh, room, late, redundant, lateRead, lateWrite
  <2> HIDE DEF e, r
  <2>11. ASSUME NEW q \in Players
         PROVE  /\ h.flagsWrite[q] \in Nat
                /\ e.flagsWrite[q] = IF q = p THEN w + fresh ELSE h.flagsWrite[q]
                /\ h.flagsWrite[q] <= e.flagsWrite[q]
    <3>1. h.flagsWrite \in [Players -> Ticks] /\ h.flagsWrite[q] \in Nat
      BY <1>1, Numbers DEF IsHub
    <3> QED BY <1>1, <1>2, <2>5, <2>8, <3>1
  <2>12. ASSUME NEW q \in Players
         PROVE  /\ \A t \in 0 .. h.flagsWrite[q] - 1 : e.flags[q][t] = h.flags[q][t]
                /\ q # p => e.flags[q] = h.flags[q]
    <3>1. h.flags \in [Players -> [Ticks -> Ticks \cup {None, MadeUp}]]
      BY <1>1 DEF IsHub
    <3>2. q # p => e.flags[q] = h.flags[q]
      BY <2>8, <3>1
    <3>3. ASSUME q = p, NEW t \in 0 .. w - 1 PROVE e.flags[p][t] = h.flags[p][t]
      <4>1. t \in Nat /\ t < w /\ t <= MaxTick
        BY <1>2
      <4>2. t \in Ticks
        BY <4>1, Sizes
      <4>3. e.flags[p] = [u \in Ticks |-> IF w <= u /\ u < w + fresh
                                         THEN first + (u - w) ELSE h.flags[p][u]]
        BY <1>1, <2>8, <3>1
      <4>4. ~ (w <= t)
        BY <1>2, <4>1
      <4> QED BY <4>2, <4>3, <4>4
    <3> QED BY <3>2, <3>3
  <2>13. \A t \in Ticks : e.flags[LocalPlayer][t] = MadeUp
                            => h.flags[LocalPlayer][t] = MadeUp
    <3>1. \A t \in Ticks : e.flags[p][t] = MadeUp => h.flags[p][t] = MadeUp
      <4> TAKE t \in Ticks
      <4>1. h.flags \in [Players -> [Ticks -> Ticks \cup {None, MadeUp}]]
        BY <1>1 DEF IsHub
      <4>2. e.flags[p][t] = IF w <= t /\ t < w + fresh
                            THEN first + (t - w) ELSE h.flags[p][t]
        BY <1>1, <2>8, <4>1
      <4>3. ASSUME w <= t, t < w + fresh PROVE first + (t - w) # MadeUp
        <5>1. t \in Nat /\ first + (t - w) \in Nat
          BY <1>2, <2>6, <4>3, Sizes
        <5> HIDE DEF w
        <5> QED BY <5>1 DEF MadeUp
      <4> QED BY <4>2, <4>3
    <3>2. LocalPlayer \in Players
      BY Sizes
    <3> QED BY <2>12, <3>1, <3>2
  <2>14. ASSUME NEW q \in Players, NEW t \in h.flagsWrite[q] .. e.flagsWrite[q] - 1
         PROVE  q = p /\ t < start + count
    <3>1. t \in Int /\ h.flagsWrite[q] <= t /\ t < e.flagsWrite[q]
      BY <1>2, <2>5, <2>11
    <3>2. q = p
      BY <2>11, <3>1
    <3> QED BY <1>2, <2>5, <2>7, <2>11, <3>1, <3>2
  <2>15. Advances(h, e, p, ack, start + count)
    <3>1. h.sendTimeWrite <= e.sendTimeWrite /\ h.incomplete <= e.incomplete
      BY <1>2, <2>9
    <3> QED BY <2>9, <2>11, <2>12, <2>13, <2>14, <3>1 DEF Advances
  <2>16. /\ NothingGot(e, g) /\ DOMAIN g = HubFields
         /\ g.incomplete \in Nat /\ g.sendTimeWrite = e.sendTimeWrite
         /\ g.addressKnown = e.addressKnown /\ g.unsent = e.unsent
    BY <1>1, <1>2, <2>6, <2>8, <2>9, PlayerProvidedAdvances
  <2> HIDE DEF g
  <2>17. CASE r = e
    BY <2>9, <2>15, <2>17 DEF r
  <2>18. ASSUME NEW x, NothingGot(e, x) PROVE Advances(h, x, p, ack, start + count)
    <3>1. /\ x.connected = e.connected /\ e.sentTo \subseteq x.sentTo
          /\ h.sendTimeWrite <= x.sendTimeWrite /\ h.incomplete <= x.incomplete
          /\ x.flags = e.flags /\ x.flagsWrite = e.flagsWrite
          /\ x.netDeadTick = e.netDeadTick /\ x.unacknowledged = e.unacknowledged
      BY <2>9, <2>18 DEF NothingGot
    <3> QED BY <2>9, <2>15, <3>1 DEF Advances
  <2>19. CASE r = g
    BY <2>9, <2>16, <2>18, <2>19 DEF r
  <2>20. CASE r = SendPackets(g)
    <3>1. /\ r.connected = g.connected /\ r.addressKnown = g.addressKnown
          /\ r.sentTo = g.sentTo \cup (g.connected \cap g.addressKnown)
          /\ r.sendTimeWrite = Larger(g.sendTimeWrite, g.incomplete)
          /\ r.incomplete = g.incomplete
          /\ r.flags = g.flags /\ r.flagsWrite = g.flagsWrite
          /\ r.netDeadTick = g.netDeadTick /\ r.unacknowledged = g.unacknowledged
      BY <2>16, <2>20 DEF SendPackets, HubFields
    <3>2. /\ g.sendTimeWrite = h.sendTimeWrite /\ h.incomplete <= g.incomplete
          /\ g.incomplete \in Nat
      BY <2>9, <2>16 DEF NothingGot
    <3>3. r.sendTimeWrite = r.incomplete /\ h.sendTimeWrite <= r.sendTimeWrite
      BY <1>2, <3>1, <3>2 DEF Larger
    <3>4. NothingGot(e, r) /\ JustSent(r)
      BY <2>9, <2>16, <3>1, <3>3 DEF NothingGot, JustSent
    <3> QED BY <2>18, <3>4 DEF r
  <2> QED BY <2>10, <2>17, <2>19, <2>20
<1> QED BY <1>3, <1>4

\* The test for the sender, which p passes.
SenderChecked(h, p) == [h EXCEPT !.failed = @ \cup Assert("sender", p \in h.connected)]

\* The test changes nothing then.
LEMMA SenderCheckedConsistent ==
  ASSUME NEW h, Consistent(h), NEW p \in h.connected
  PROVE  LET g == SenderChecked(h, p)
         IN  Consistent(g) /\ SameQueues(h, g) /\ g.unsent = h.unsent
<1> DEFINE g == SenderChecked(h, p)
<1>1. /\ DOMAIN h = HubFields /\ Typed(h)
  BY DEF Consistent, Typed
<1>2. /\ DOMAIN g = HubFields /\ SameQueues(h, g)
  BY <1>1 DEF HubFields, SameQueues, Assert, SenderChecked
<1>3. /\ g.silence = h.silence /\ g.reflected = h.reflected
      /\ g.unsent = h.unsent /\ g.lagging = h.lagging
      /\ g.sinceUpdate = h.sinceUpdate /\ g.sinceSent = h.sinceSent
      /\ g.scan = h.scan /\ g.dropped = h.dropped
      /\ g.active = h.active /\ g.postGame = h.postGame /\ g.phase = h.phase
  BY <1>1, Zenon DEF HubFields, SenderChecked
<1> HIDE DEF g
<1>4. Typed(g)
  BY <1>1, <1>2, <1>3, Zenon DEF Typed, IsHub, SameQueues
<1> QED BY <1>2, <1>3, <1>4, SameQueuesConsistent DEF g

\* How far a packet of a spoke may take its player's flags.
Bound(hasFlags, start, count) == IF hasFlags THEN start + count ELSE 0

\* An acknowledgement sends nothing.
LEMMA PlayerAcknowledgedUnsent ==
  ASSUME NEW h, DOMAIN h = HubFields, NEW p \in Players, NEW ack
  PROVE  PlayerAcknowledged(h, p, ack).unsent = h.unsent
<1> DEFINE g == PlayerAcknowledged(h, p, ack)
           k == AcknowledgementTaken(h, p, ack)
<1>1. g \in {h, k}
  BY Zenon DEF PlayerAcknowledged
<1>2. k.unsent = h.unsent
  BY SMTT(30) DEF AcknowledgementTaken, CheckForCompletion, HubFields
<1> HIDE DEF g, k
<1>3. g.unsent = h.unsent
  BY <1>1, <1>2
<1> QED BY <1>3 DEF g

\* Game data of a connected player.
LEMMA ReceivedGameDataAdvances ==
  ASSUME NEW h, Consistent(h), NEW p \in h.connected, NEW ack \in Ticks,
         NEW hasFlags, NEW start \in Nat, NEW count \in Nat, start + count <= MaxTick
  PROVE  LET g == ReceivedGameData(h, p, ack, hasFlags, start, count)
         IN  /\ Advances(h, g, p, ack, Bound(hasFlags, start, count))
             /\ g.unsent # h.unsent => JustSent(g)
<1> DEFINE checked == SenderChecked(h, p)
           acked   == PlayerAcknowledged(checked, p, ack)
           flagged == ReceiveFlags(acked, p, start, count)
           bound   == Bound(hasFlags, start, count)
           g       == ReceivedGameData(h, p, ack, hasFlags, start, count)
<1>1. Typed(h) /\ p \in Players
  BY Numbers DEF Consistent
<1>2. Consistent(checked) /\ SameQueues(h, checked) /\ checked.unsent = h.unsent
  BY SenderCheckedConsistent
<1> HIDE DEF checked
<1>3. /\ p \in checked.connected /\ checked.incomplete = h.incomplete
      /\ Typed(checked) /\ DOMAIN checked = HubFields
  BY <1>2 DEF SameQueues, Consistent, Typed
<1>4. Advances(h, checked, p, ack, bound)
  BY <1>1, <1>2, SameQueuesAdvances
<1>5. CASE ack > h.incomplete
  <2>1. g = h
    BY <1>5 DEF ReceivedGameData
  <2>2. NothingGot(h, h)
    BY <1>1, Numbers DEF NothingGot
  <2> QED BY <1>1, <2>1, <2>2, NothingGotAdvances
<1>6. CASE ~ (ack > h.incomplete)
  <2>1. ack <= checked.incomplete
    BY <1>1, <1>3, <1>6, Numbers, Sizes
  <2>2. Consistent(acked) /\ p \in acked.connected
    BY <1>2, <1>3, <2>1, PlayerAcknowledgedConsistent
  <2>3. Advances(checked, acked, p, ack, bound)
    BY <1>1, <1>3, PlayerAcknowledgedAdvances
  <2>4. acked.unsent = h.unsent
    <3>1. acked.unsent = checked.unsent
      BY <1>1, <1>3, PlayerAcknowledgedUnsent
    <3> QED BY <1>2, <3>1
  <2>5. g = IF hasFlags THEN flagged ELSE acked
    BY <1>6, Zenon DEF ReceivedGameData, checked, SenderChecked
  <2> HIDE DEF acked, g
  <2>6. Consistent(flagged)
    BY <2>2, ReceiveFlagsConsistent
  <2>7. /\ Advances(acked, flagged, p, ack, start + count)
        /\ flagged.unsent # acked.unsent => JustSent(flagged)
    BY <2>2, ReceiveFlagsAdvances
  <2>8. Typed(acked) /\ Typed(flagged)
    BY <2>2, <2>6 DEF Consistent
  <2>9. Advances(h, acked, p, ack, bound)
    <3> HIDE DEF bound
    <3> QED BY <1>1, <1>3, <1>4, <2>3, <2>8, AdvancesTransitive, Zenon
  <2> HIDE DEF flagged
  <2>10. CASE ~ hasFlags
    BY <2>4, <2>5, <2>9, <2>10 DEF g
  <2>11. CASE hasFlags
    <3>1. bound = start + count /\ g = flagged
      BY <2>5, <2>11 DEF Bound
    <3> HIDE DEF bound
    <3>2. Advances(h, flagged, p, ack, bound)
      BY <1>1, <2>7, <2>8, <2>9, <3>1, AdvancesTransitive, Zenon
    <3> QED BY <2>4, <2>7, <3>1, <3>2 DEF g, bound
  <2> QED BY <2>10, <2>11
<1> QED BY <1>5, <1>6

\* That of a player that is not connected fails the assertion.
LEMMA SenderNotConnected ==
  ASSUME NEW h, DOMAIN h = HubFields, NEW p \in Players, p \notin h.connected,
         NEW ack, ~ (ack > h.incomplete), NEW hasFlags, NEW start, NEW count
  PROVE  "sender" \in ReceivedGameData(h, p, ack, hasFlags, start, count).failed
<1> DEFINE checked == SenderChecked(h, p)
           acked   == PlayerAcknowledged(checked, p, ack)
           g       == ReceivedGameData(h, p, ack, hasFlags, start, count)
<1>1. DOMAIN checked = HubFields /\ "sender" \in checked.failed
  <2>1. Assert("sender", p \in h.connected) = {"sender"}
    BY DEF Assert
  <2> QED BY <2>1, Zenon DEF HubFields, SenderChecked
<1>2. g = IF hasFlags THEN ReceiveFlags(acked, p, start, count) ELSE acked
  BY Zenon DEF ReceivedGameData, SenderChecked
<1> HIDE DEF checked, g
<1>3. DOMAIN acked = HubFields /\ checked.failed \subseteq acked.failed
  BY <1>1, PlayerAcknowledgedFields, ZenonT(60)
<1> HIDE DEF acked
<1>4. \A x : DOMAIN x = HubFields => x.failed \subseteq SendPackets(x).failed
  BY DEF SendPackets, HubFields
<1>5. ASSUME NEW x, DOMAIN x = HubFields, NEW first, NEW last
      PROVE  LET y == PlayerProvided(x, p, first, last)
             IN  DOMAIN y = HubFields /\ x.failed \subseteq y.failed
  <2>1. x.failed \subseteq PlayerProvided(x, p, first, last).failed
    BY <1>5, Zenon DEF PlayerProvided, HubFields
  <2>2. DOMAIN PlayerProvided(x, p, first, last) = HubFields
    BY <1>5, Zenon DEF PlayerProvided
  <2> QED BY <2>1, <2>2
<1>6. "sender" \in ReceiveFlags(acked, p, start, count).failed
  <2> DEFINE r         == ReceiveFlags(acked, p, start, count)
             filled    == start > acked.lateWrite[p]
             lateWrite == IF filled THEN acked.flagsWrite[p] ELSE acked.lateWrite[p]
             lateRead  == acked.lateRead[p] + (lateWrite - acked.lateWrite[p])
             redundant == Smaller(lateWrite - start, count)
             late      == LateFlags(acked, p, lateWrite, count - redundant)
             size      == acked.flagsWrite[p] - acked.flagsRead[p]
             room      == IF acked.read < RealGameTick /\ size > PregameWindow
                          THEN 0 ELSE QueueSize - size
             fresh     == Smaller(count - redundant - late, room)
             first     == start + redundant + late
             e == [acked EXCEPT
               !.flags[p] = [t \in Ticks |->
                  IF acked.flagsWrite[p] <= t /\ t < acked.flagsWrite[p] + fresh
                  THEN first + (t - acked.flagsWrite[p]) ELSE acked.flags[p][t]],
               !.flagsWrite[p] = @ + fresh,
               !.lateWrite[p] = lateWrite + late + fresh,
               !.lateRead[p] = lateRead,
               !.failed = @
                  \cup Assert("lateQueueCaughtUp",
                              fresh > 0 => acked.flagsWrite[p] = lateWrite + late)
                  \cup Assert("lateQueueFull",
                         /\ lateWrite > acked.lateWrite[p]
                              => acked.lateWrite[p] - acked.lateRead[p] < QueueSize
                         /\ late + fresh > 0
                              => lateWrite + late + fresh - lateRead <= QueueSize)]
             y == PlayerProvided(e, p, first, first + fresh)
  <2>1. r \in {acked, e, y, SendPackets(y)}
    BY Zenon DEF ReceiveFlags
  <2> HIDE DEF r, first, fresh, room, late, redundant, lateRead, lateWrite
  <2>2. DOMAIN e = HubFields /\ acked.failed \subseteq e.failed
    BY <1>3, Zenon DEF HubFields
  <2> HIDE DEF e
  <2>3. DOMAIN y = HubFields /\ e.failed \subseteq y.failed
    BY <1>5, <2>2
  <2> HIDE DEF y
  <2> QED BY <1>1, <1>3, <1>4, <2>1, <2>2, <2>3 DEF r
<1> QED BY <1>1, <1>2, <1>3, <1>6 DEF g

\* Steps that keep the invariant of the hub, and what it has sent.
HubStep(h, g) ==
  Consistent(g) /\ FlagsInv(g) /\ Advances(h, g, LocalPlayer, 0, 0)

\* One such step after another is such a step.
LEMMA HubStepTransitive ==
  ASSUME NEW h, NEW g, NEW k, HubOK(h), HubStep(h, g), HubStep(g, k)
  PROVE  HubStep(h, k)
<1>1. Typed(h) /\ Typed(g) /\ Typed(k)
  BY DEF HubOK, HubStep, Consistent
<1> QED BY <1>1, AdvancesTransitive, Zenon DEF HubStep

\* The start of hub_tick.
LEMMA TickStartedSteps ==
  ASSUME NEW h, HubOK(h)
  PROVE  HubStep(h, TickStarted(h)) /\ TickStarted(h).scan = 0
<1> DEFINE g == TickStarted(h)
<1>1. Consistent(h) /\ FlagsInv(h) /\ Typed(h) /\ DOMAIN h = HubFields
  BY DEF HubOK, Consistent, Typed
<1>2. Consistent(g)
  BY <1>1, TickStartedConsistent
<1>3. SameQueues(h, g) /\ g.reflected = h.reflected /\ g.scan = 0
  BY <1>1, SMTT(30) DEF TickStarted, HubFields, SameQueues
<1> HIDE DEF g
<1>4. FlagsInv(g)
  BY <1>1, <1>3, SameQueuesHarmless, HarmlessAllowed
<1>5. Advances(h, g, LocalPlayer, 0, 0)
  BY <1>1, <1>3, SameQueuesAdvances
<1> QED BY <1>2, <1>3, <1>4, <1>5 DEF HubStep, g

\* One player in the loop of hub_tick.
LEMMA PlayerScannedSteps ==
  ASSUME NEW h, HubOK(h), h.scan \in Players
  PROVE  HubStep(h, PlayerScanned(h)) /\ PlayerScanned(h).scan = h.scan + 1
<1> DEFINE p == h.scan
           g == PlayerScanned(h)
           k == MakePlayerNetDead(h, p)
<1>1. Consistent(h) /\ FlagsInv(h) /\ Typed(h) /\ DOMAIN h = HubFields
  BY DEF HubOK, Consistent, Typed
<1>2. Consistent(g)
  BY <1>1, PlayerScannedConsistent
<1>3. FlagsInv(g)
  BY <1>1, PlayerScannedAllowed
<1>4. CASE ~ MustDrop(h, p)
  <2>1. g = [h EXCEPT !.scan = p + 1]
    BY <1>4, Zenon DEF PlayerScanned
  <2>2. SameQueues(h, g) /\ g.scan = p + 1
    BY <1>1, <2>1 DEF HubFields, SameQueues
  <2> HIDE DEF g
  <2>3. Advances(h, g, LocalPlayer, 0, 0)
    BY <1>1, <2>2, SameQueuesAdvances
  <2> QED BY <1>2, <1>3, <2>2, <2>3 DEF HubStep, g
<1>5. CASE MustDrop(h, p)
  <2>1. p \in h.connected  BY <1>5 DEF MustDrop
  <2>2. Consistent(k)
    BY <1>1, <2>1, MakePlayerNetDeadConsistent
  <2>3. Advances(h, k, LocalPlayer, 0, 0)
    BY <1>1, <2>1, MakePlayerNetDeadAdvances
  <2>4. DOMAIN k = HubFields /\ Typed(k)
    BY <2>2 DEF Consistent, Typed
  <2>5. g = [k EXCEPT !.scan = p + 1, !.dropped = TRUE]
    BY <1>5, Zenon DEF PlayerScanned
  <2> HIDE DEF g, k
  <2>6. SameQueues(k, g) /\ g.scan = p + 1
    BY <2>4, <2>5 DEF HubFields, SameQueues
  <2>7. Advances(k, g, LocalPlayer, 0, 0)
    BY <2>4, <2>6, SameQueuesAdvances
  <2>8. Advances(h, g, LocalPlayer, 0, 0)
    BY <1>1, <1>2, <2>3, <2>4, <2>7, AdvancesTransitive, Zenon DEF Consistent
  <2> QED BY <1>2, <1>3, <2>6, <2>8 DEF HubStep, g
<1> QED BY <1>4, <1>5

\* The making up of flags, and the sending.
LEMMA TickFinishedSteps ==
  ASSUME NEW h, HubOK(h)
  PROVE  LET g == TickFinished(h)
         IN  HubStep(h, g) /\ (SendsAtTickEnd(h) => JustSent(g))
<1> DEFINE e == LoopEnded(h)
           m == LaggardsMarked(e)
           k == MakeUpFlags(m)
           f == IF Reducing(h) THEN FlagsMadeUp(e) ELSE e
           g == TickFinished(h)
<1>1. Consistent(h) /\ FlagsInv(h) /\ Typed(h)
  BY DEF HubOK, Consistent
<1>2. Consistent(e) /\ SameQueues(h, e)
  BY <1>1, LoopEndedConsistent
<1>3. Consistent(m) /\ SameQueues(e, m)
  BY <1>2, LaggardsMarkedConsistent
<1>4. Consistent(FlagsMadeUp(e))
  BY <1>2, FlagsMadeUpConsistent
<1>5. Consistent(g) /\ FlagsInv(g)
  BY <1>1, TickFinishedConsistent, TickFinishedAllowed
<1>6. \/ FlagsMadeUp(e) \in {e, m}
      \/ FlagsMadeUp(e) = k /\ CanMakeUpFlags(m)
  BY Zenon DEF FlagsMadeUp
<1>7. g = IF SendsAtTickEnd(h) THEN SendPackets(f) ELSE e
  BY Zenon DEF TickFinished, LoopEnded
<1> HIDE DEF e, g
<1>8. Typed(e) /\ Typed(m)
  BY <1>2, <1>3 DEF Consistent
<1>9. Advances(h, e, LocalPlayer, 0, 0)
  BY <1>1, <1>2, SameQueuesAdvances
<1> HIDE DEF m
<1>10. Advances(e, m, LocalPlayer, 0, 0)
  BY <1>3, <1>8, SameQueuesAdvances
<1>11. Advances(h, m, LocalPlayer, 0, 0)
  BY <1>1, <1>8, <1>9, <1>10, AdvancesTransitive, Zenon
<1>12. Advances(h, FlagsMadeUp(e), LocalPlayer, 0, 0)
  <2>1. CASE FlagsMadeUp(e) \in {e, m}
    BY <1>9, <1>11, <2>1
  <2>2. CASE FlagsMadeUp(e) = k /\ CanMakeUpFlags(m)
    <3>1. Advances(m, k, LocalPlayer, 0, 0)
      BY <1>3, <2>2, MakeUpFlagsAdvances
    <3> HIDE DEF k
    <3>2. Typed(k)
      BY <1>4, <2>2 DEF Consistent
    <3>3. Advances(h, k, LocalPlayer, 0, 0)
      BY <1>1, <1>8, <1>11, <3>1, <3>2, AdvancesTransitive, Zenon
    <3> QED BY <2>2, <3>3
  <2> QED BY <1>6, <2>1, <2>2
<1>13. Consistent(f) /\ Advances(h, f, LocalPlayer, 0, 0)
  BY <1>2, <1>4, <1>9, <1>12
<1> HIDE DEF f
<1>14. Typed(f) /\ Ordered(f)
  BY <1>13 DEF Consistent
<1>15. CASE SendsAtTickEnd(h)
  <2>1. g = SendPackets(f)
    BY <1>7, <1>15
  <2>2. Advances(f, g, LocalPlayer, 0, 0) /\ JustSent(g)
    BY <1>14, <2>1, SendPacketsAdvances
  <2>3. Typed(g)
    BY <1>5 DEF Consistent
  <2>4. Advances(h, g, LocalPlayer, 0, 0)
    BY <1>1, <1>13, <1>14, <2>2, <2>3, AdvancesTransitive, Zenon
  <2> QED BY <1>5, <2>2, <2>4 DEF HubStep, g
<1>16. CASE ~ SendsAtTickEnd(h)
  <2>1. g = e
    BY <1>7, <1>16
  <2> QED BY <1>5, <1>9, <1>16, <2>1 DEF HubStep, g
<1> QED BY <1>15, <1>16

\* The loop of hub_tick, up to its n-th player.
IsScannedUpTo(f, h, n) ==
  f = [k \in 0 .. n |-> IF k = 0 THEN TickStarted(h) ELSE PlayerScanned(f[k - 1])]

\* The function that Scanned defines is this one.
LEMMA ScannedSteps ==
  ASSUME NEW h
  PROVE  \E f : IsScannedUpTo(f, h, NumPlayers) /\ Scanned(h) = f[NumPlayers]
<1> DEFINE n == NumPlayers
           S == {m \in 0 .. n : \E f : IsScannedUpTo(f, h, m)}
<1>0. n \in Nat
  BY Sizes
<1> HIDE DEF n
<1>1. 0 \in S
  <2> DEFINE f == [k \in 0 .. 0 |-> TickStarted(h)]
  <2>1. f = [k \in 0 .. 0 |-> IF k = 0 THEN TickStarted(h) ELSE PlayerScanned(f[k - 1])]
    OBVIOUS
  <2>2. IsScannedUpTo(f, h, 0)
    BY <2>1, Zenon DEF IsScannedUpTo
  <2> QED BY <1>0, <2>2
<1>2. ASSUME NEW m \in 1 .. n, m - 1 \in S PROVE m \in S
  <2>1. PICK f : IsScannedUpTo(f, h, m - 1)
    BY <1>2
  <2> DEFINE g == [k \in 0 .. m |-> IF k = m THEN PlayerScanned(f[m - 1]) ELSE f[k]]
  <2>2. \A k \in 0 .. m - 1 :
          f[k] = IF k = 0 THEN TickStarted(h) ELSE PlayerScanned(f[k - 1])
    BY <2>1 DEF IsScannedUpTo
  <2>3. ASSUME NEW k \in 0 .. m
        PROVE  g[k] = IF k = 0 THEN TickStarted(h) ELSE PlayerScanned(g[k - 1])
    <3>1. CASE k = m
      <4>1. g[k - 1] = f[m - 1] /\ k # 0 /\ g[k] = PlayerScanned(f[m - 1])
        BY <1>0, <3>1
      <4> HIDE DEF g
      <4> QED BY <3>1, <4>1
    <3>2. CASE k # m
      <4>1. k \in 0 .. m - 1 /\ g[k] = f[k] /\ (k # 0 => g[k - 1] = f[k - 1])
        BY <1>0, <3>2
      <4> HIDE DEF g
      <4> QED BY <4>1, <2>2
    <3> QED BY <3>1, <3>2
  <2>4. g = [k \in 0 .. m |-> g[k]]
    OBVIOUS
  <2> HIDE DEF g
  <2>5. g = [k \in 0 .. m |-> IF k = 0 THEN TickStarted(h) ELSE PlayerScanned(g[k - 1])]
    BY <2>3, <2>4
  <2>6. IsScannedUpTo(g, h, m)
    BY <2>5, Zenon DEF IsScannedUpTo
  <2> QED BY <1>0, <2>6
<1>3. n \in S
  <2> HIDE DEF S
  <2> QED BY <1>0, <1>1, <1>2, UpTo
<1>4. \E f : IsScannedUpTo(f, h, n)
  BY <1>3
<1>5. IsScannedUpTo(CHOOSE f : IsScannedUpTo(f, h, n), h, n)
  BY <1>4, Zenon
<1>6. Scanned(h) = (CHOOSE f : IsScannedUpTo(f, h, n))[n]
  BY Zenon DEF Scanned, IsScannedUpTo, n
<1> QED BY <1>5, <1>6, Zenon DEF n

\* Every player's turn in it has come: for(size_t i = 0; i < sNetworkPlayers.size(); i++).
LEMMA ScannedSteadily ==
  ASSUME NEW h, HubOK(h)
  PROVE  HubStep(h, Scanned(h)) /\ HubOK(Scanned(h))
<1>1. PICK f : IsScannedUpTo(f, h, NumPlayers) /\ Scanned(h) = f[NumPlayers]
  BY ScannedSteps
<1> DEFINE S == {k \in 0 .. NumPlayers : /\ HubStep(h, f[k]) /\ HubOK(f[k])
                                         /\ f[k].scan = k}
<1>2. \A k \in 0 .. NumPlayers :
        f[k] = IF k = 0 THEN TickStarted(h) ELSE PlayerScanned(f[k - 1])
  BY <1>1 DEF IsScannedUpTo
<1>3. NumPlayers \in Nat /\ Players = 0 .. NumPlayers - 1
  BY Sizes DEF Players
<1>4. \A g : HubStep(h, g) => HubOK(g)
  BY AdvancesHubOK, Zenon DEF HubStep
<1>5. 0 \in S
  <2>1. f[0] = TickStarted(h) /\ 0 \in 0 .. NumPlayers
    BY <1>2, <1>3
  <2>2. HubStep(h, f[0]) /\ f[0].scan = 0
    BY <2>1, TickStartedSteps
  <2> QED BY <1>4, <2>1, <2>2
<1>6. ASSUME NEW k \in 1 .. NumPlayers, k - 1 \in S PROVE k \in S
  <2>1. k \in 0 .. NumPlayers /\ f[k] = PlayerScanned(f[k - 1])
    BY <1>2, <1>3
  <2>2. HubStep(h, f[k - 1]) /\ HubOK(f[k - 1]) /\ f[k - 1].scan = k - 1
    BY <1>6
  <2>3. f[k - 1].scan \in Players
    BY <1>3, <2>2
  <2>4. HubStep(f[k - 1], f[k]) /\ f[k].scan = f[k - 1].scan + 1
    BY <2>1, <2>2, <2>3, PlayerScannedSteps
  <2>5. HubStep(h, f[k])
    BY <2>2, <2>4, HubStepTransitive
  <2>6. f[k].scan = k
    BY <1>3, <2>2, <2>4
  <2> QED BY <1>4, <2>1, <2>5, <2>6
<1>7. NumPlayers \in S
  <2> HIDE DEF S
  <2> QED BY <1>3, <1>5, <1>6, UpTo
<1> QED BY <1>1, <1>7

\* A whole hub_tick.
LEMMA HubTickSteps ==
  ASSUME NEW h, HubOK(h)
  PROVE  LET g == TickFinished(Scanned(h))
         IN  /\ HubOK(g) /\ Advances(h, g, LocalPlayer, 0, 0)
             /\ SendsAtTickEnd(Scanned(h)) => JustSent(g)
<1> DEFINE k == Scanned(h)
           g == TickFinished(k)
<1>1. HubStep(h, k) /\ HubOK(k)
  BY ScannedSteadily
<1> HIDE DEF k
<1>2. HubStep(k, g) /\ (SendsAtTickEnd(k) => JustSent(g))
  BY <1>1, TickFinishedSteps
<1> HIDE DEF g
<1>3. HubStep(h, g)
  BY <1>1, <1>2, HubStepTransitive
<1>4. HubOK(g)
  BY <1>3, AdvancesHubOK, Zenon DEF HubStep
<1> QED BY <1>2, <1>3, <1>4 DEF HubStep, g, k

\* Game data of any player, as long as the assertion about its sender does not fail.
LEMMA HubTakesOK ==
  ASSUME HubOK(hub), NEW packet, packet.player \in Players, packet.ack \in Ticks,
         packet.start \in Nat, packet.count \in Nat,
         packet.start + packet.count <= MaxTick,
         "sender" \notin HubTakes(packet).failed
  PROVE  LET g == HubTakes(packet)
         IN  /\ HubOK(g)
             /\ Advances(hub, g, packet.player, packet.ack,
                         Bound(packet.hasFlags, packet.start, packet.count))
             /\ g.unsent # hub.unsent => JustSent(g)
<1> DEFINE p == packet.player
           bound == Bound(packet.hasFlags, packet.start, packet.count)
           r == ReceivedGameData(hub, p, packet.ack, packet.hasFlags, packet.start,
                                 packet.count)
           g == HubTakes(packet)
<1>1. Consistent(hub) /\ FlagsInv(hub) /\ Typed(hub) /\ DOMAIN hub = HubFields
  BY DEF HubOK, Consistent, Typed
<1>2. g = hub \/ g = r
  BY Zenon DEF HubTakes
<1> HIDE DEF g, r, bound
<1>3. CASE g = hub
  <2>1. NothingGot(hub, hub)
    BY <1>1, Numbers DEF NothingGot
  <2>2. Advances(hub, hub, p, packet.ack, bound)
    BY <1>1, <2>1, NothingGotAdvances
  <2> QED BY <1>3, <2>2 DEF g, bound
<1>4. CASE g = r /\ packet.ack > hub.incomplete
  <2>1. r = hub
    BY <1>4 DEF ReceivedGameData, r
  <2> QED BY <1>3, <1>4, <2>1
<1>5. CASE g = r /\ ~ (packet.ack > hub.incomplete) /\ p \notin hub.connected
  <2>1. "sender" \in r.failed
    BY <1>1, <1>5, SenderNotConnected DEF r
  <2> QED BY <1>5, <2>1 DEF g
<1>6. CASE g = r /\ p \in hub.connected
  <2>1. Consistent(r)
    BY <1>1, <1>6, ReceivedGameDataConsistent DEF r
  <2>2. FlagsInv(r)
    <3>1. Harmless(hub, r)
      BY <1>1, <1>6, ReceivedGameDataHarmless DEF r, FlagsInv
    <3> QED BY <1>1, <3>1, HarmlessAllowed
  <2>3. Advances(hub, r, p, packet.ack, bound) /\ (r.unsent # hub.unsent => JustSent(r))
    BY <1>1, <1>6, ReceivedGameDataAdvances DEF r, bound
  <2>4. HubOK(r)
    BY <2>1, <2>2, <2>3, AdvancesHubOK, Zenon
  <2> QED BY <1>6, <2>3, <2>4 DEF g, bound
<1> QED BY <1>2, <1>3, <1>4, <1>5, <1>6

-----------------------------------------------------------------------------
(***************************************************************************)
(* The invariant of the game, and its steps                                *)
(***************************************************************************)

\* The modelled spokes are where the hub's state allows them to be.
SpokesOK(h, ss) ==
  ss = [p \in Observed |-> ss[p]] /\ \A p \in Observed : SpokeOK(h, ss[p], p)

\* So are the packets to the hub, and those from it.
ToHubsOK(h, ss, packets) ==
  /\ packets = [p \in Remote |-> packets[p]]
  /\ \A p \in Remote : \A packet \in packets[p] : ToHubOK(h, ss[p], p, packet)

ToSpokesOK(h, ss, packets) ==
  /\ packets = [p \in Remote |-> packets[p]]
  /\ \A p \in Remote : \A packet \in packets[p] : PacketOK(h, ss[p], p, packet)

\* The inductive invariant.
GameInv ==
  /\ HubOK(hub) /\ SpokesOK(hub, spokes)
  /\ ToHubsOK(hub, spokes, toHub) /\ ToSpokesOK(hub, spokes, toSpoke)

\* The hub goes on with its machine, and has no reason to be surprised.
Undisturbed == SenderConnected /\ LocalPlayer \in hub.connected

\* Whom the constants name.
LEMMA Observers ==
  /\ Observed \subseteq Players /\ Remote \subseteq Observed /\ LocalPlayer \in Observed
  /\ LocalPlayer \notin Remote /\ LocalPlayer \in Players /\ LocalPlayer \notin Absent
  /\ \A p \in Observed : p \in Remote \/ p = LocalPlayer
  /\ Absent \subseteq Players
BY GameConstants DEF Remote

\* What the state after a step has to do with the state before.
HubGoesOn(h, g) == \E p, ack, bound : Advances(h, g, p, ack, bound)

\* No machine comes back, and none goes back unless it is the last one.
SpokesGoOn(h, ss, tt) ==
  \A p \in Observed :
    /\ Listens(tt[p]) => Listens(ss[p])
    /\ ss[p].unreceived <= tt[p].unreceived \/ h.connected \subseteq {p}

\* How a step goes on from the state before it.
GameGoesOn == HubGoesOn(hub, hub') /\ SpokesGoOn(hub', spokes, spokes')

\* Two steps of the spokes.
LEMMA SpokesGoOnTransitive ==
  ASSUME NEW h, NEW k, NEW rr, NEW ss, NEW tt, SpokesOK(k, rr), SpokesOK(k, ss),
         SpokesOK(h, tt), SpokesGoOn(h, rr, ss), SpokesGoOn(h, ss, tt)
  PROVE  SpokesGoOn(h, rr, tt)
<1> SUFFICES ASSUME NEW p \in Observed
             PROVE  /\ Listens(tt[p]) => Listens(rr[p])
                    /\ rr[p].unreceived <= tt[p].unreceived \/ h.connected \subseteq {p}
  BY Zenon DEF SpokesGoOn
<1>1. /\ rr[p].unreceived \in Nat /\ ss[p].unreceived \in Nat
      /\ tt[p].unreceived \in Nat
  BY SpokeNumbers DEF SpokesOK, SpokeOK
<1>2. /\ Listens(tt[p]) => Listens(ss[p])
      /\ Listens(ss[p]) => Listens(rr[p])
      /\ rr[p].unreceived <= ss[p].unreceived \/ h.connected \subseteq {p}
      /\ ss[p].unreceived <= tt[p].unreceived \/ h.connected \subseteq {p}
  BY Zenon DEF SpokesGoOn
<1> QED BY <1>1, <1>2

\* A step of the hub only.
LEMMA SpokesStay ==
  ASSUME NEW h, NEW k, NEW ss, SpokesOK(k, ss)
  PROVE  SpokesGoOn(h, ss, ss)
<1> SUFFICES ASSUME NEW p \in Observed PROVE ss[p].unreceived <= ss[p].unreceived
  BY Zenon DEF SpokesGoOn
<1> QED BY SpokeNumbers DEF SpokesOK, SpokeOK

\* A step of the spokes only.
LEMMA HubStays ==
  ASSUME NEW h, HubOK(h)
  PROVE  HubGoesOn(h, h)
<1>1. Typed(h)
  BY DEF HubOK, Consistent
<1>2. NothingGot(h, h)
  BY <1>1, Numbers DEF NothingGot
<1> QED BY <1>1, <1>2, NothingGotAdvances DEF HubGoesOn

\* The hub's steps leave what the others know and what is under way true.
LEMMA AdvancesGameOK ==
  ASSUME NEW h, NEW g, HubOK(h), Typed(g), NEW p, NEW ack \in Int, NEW bound \in Int,
         Advances(h, g, p, ack, bound), NEW ss, SpokesOK(h, ss),
         p \in Observed => ack <= ss[p].unreceived /\ bound <= ss[p].outWrite
  PROVE  /\ SpokesOK(g, ss)
         /\ \A x : ToHubsOK(h, ss, x) => ToHubsOK(g, ss, x)
         /\ \A x : ToSpokesOK(h, ss, x) => ToSpokesOK(g, ss, x)
<1>1. SpokesOK(g, ss)
  <2>1. ASSUME NEW q \in Observed PROVE SpokeOK(g, ss[q], q)
    <3>1. SpokeOK(h, ss[q], q) /\ q \in Players
      BY Observers DEF SpokesOK
    <3>2. q = p => ack <= ss[q].unreceived /\ bound <= ss[q].outWrite
      OBVIOUS
    <3> QED BY <3>1, <3>2, AdvancesSpokeOK
  <2> QED BY <2>1, Zenon DEF SpokesOK
<1>2. ASSUME NEW x, ToHubsOK(h, ss, x) PROVE ToHubsOK(g, ss, x)
  <2>1. ASSUME NEW q \in Remote, NEW packet \in x[q] PROVE ToHubOK(g, ss[q], q, packet)
    <3>1. q \in Players /\ ToHubOK(h, ss[q], q, packet)
      BY <1>2, Observers, Zenon DEF ToHubsOK
    <3> QED BY <3>1, AdvancesToHubOK
  <2> QED BY <1>2, <2>1, Zenon DEF ToHubsOK
<1>3. ASSUME NEW x, ToSpokesOK(h, ss, x) PROVE ToSpokesOK(g, ss, x)
  <2>1. ASSUME NEW q \in Remote, NEW packet \in x[q] PROVE PacketOK(g, ss[q], q, packet)
    <3>1. q \in Players /\ PacketOK(h, ss[q], q, packet)
      BY <1>3, Observers, Zenon DEF ToSpokesOK
    <3> QED BY <3>1, AdvancesPacketOK
  <2> QED BY <1>3, <2>1, Zenon DEF ToSpokesOK
<1> QED BY <1>1, <1>2, <1>3

\* The game takes what it takes out of its queues.
LEMMA RoomsAreNumbers ==
  ASSUME NEW s, SpokeTyped(s), NEW room \in Rooms(s)
  PROVE  room \in Int
<1> DEFINE lengths == {Len(s.queue[q]) : q \in Players}
           most == CHOOSE n \in lengths : \A q \in Players : Len(s.queue[q]) <= n
<1>1. GameQueueSize \in Int
  BY GameConstants
<1>2. room \in GameQueueSize - Smaller(most, MostUnread) .. GameQueueSize
  BY Zenon DEF Rooms
<1> HIDE DEF most
<1> QED BY <1>1, <1>2

\* The packet for a spoke, from one that has just sent to all it knows.
LEMMA ToLocalSpoke ==
  ASSUME NEW h, HubOK(h), JustSent(h),
         LocalPlayer \in h.connected, LocalPlayer \in h.addressKnown,
         NEW s, SpokeOK(h, s, LocalPlayer), NEW incremental, NEW room \in Int
  PROVE  LET t == Drained(SpokeReceived(s, LocalPlayer,
                                        HubPacket(h, LocalPlayer, incremental), room))
         IN  /\ SpokeOK(h, t, LocalPlayer) /\ (Listens(t) => Listens(s))
             /\ s.unreceived <= t.unreceived \/ h.connected \subseteq {LocalPlayer}
<1> DEFINE packet == HubPacket(h, LocalPlayer, incremental)
           t == SpokeReceived(s, LocalPlayer, packet, room)
<1>1. Consistent(h)
  BY DEF HubOK
<1>2. LocalPlayer \in Observed \cap h.connected \cap h.addressKnown
  BY Observers
<1>3. Behind(h, s, LocalPlayer) /\ KnowsDead(h, s, LocalPlayer) /\ s.unreceived \in Nat
  BY SpokeNumbers DEF SpokeOK
<1>4. PacketOK(h, s, LocalPlayer, packet)
  BY <1>2, <1>3, HubPacketOK
<1>5. packet.ack = h.flagsWrite[LocalPlayer]
  BY Zenon DEF HubPacket
<1> HIDE DEF packet
<1>6. /\ SpokeOK(h, t, LocalPlayer) /\ (Listens(t) => Listens(s))
      /\ h.connected \subseteq {LocalPlayer} \/ SpokeGrows(s, t)
  BY <1>2, <1>4, <1>5, SpokeReceivedOK
<1> HIDE DEF t
<1>7. SpokeOK(h, Drained(t), LocalPlayer) /\ SpokeGrows(t, Drained(t))
  BY <1>6, DrainedOK
<1>8. /\ s.unreceived \in Nat /\ t.unreceived \in Nat /\ Drained(t).unreceived \in Nat
  BY <1>6, <1>7, SpokeNumbers DEF SpokeOK
<1> QED BY <1>6, <1>7, <1>8 DEF t, packet, SpokeGrows, Listens

\* A handler of the hub that may send.
LEMMA HubDoesOK ==
  ASSUME NEW h, HubOK(h), LocalPlayer \in h.connected, NEW sends, sends => JustSent(h),
         NEW before, SpokesOK(h, before), ToSpokesOK(h, before, toSpoke),
         HubDoes(h, sends, before)
  PROVE  /\ hub' = h /\ SpokesOK(h, spokes') /\ ToSpokesOK(h, spokes', toSpoke')
         /\ \A p \in Remote : spokes'[p] = before[p]
         /\ SpokesGoOn(h, before, spokes')
<1>1. hub' = h
  BY Zenon DEF HubDoes
<1>2. CASE ~ sends
  <2>1. spokes' = before /\ toSpoke' = toSpoke
    BY <1>2 DEF HubDoes
  <2> QED BY <1>1, <2>1, SpokesStay
<1>3. CASE sends
  <2> DEFINE packet(i) == [p \in Observed \cap h.connected \cap h.addressKnown |->
                             HubPacket(h, p, i)]
             offered(i) == [p \in Remote |-> toSpoke[p] \cup
                              IF p \in DOMAIN packet(i) /\ Listens(before[p])
                              THEN {packet(i)[p]} ELSE {}]
  <2>1. PICK incremental :
          /\ IF LocalPlayer \in DOMAIN packet(incremental)
             THEN \E room \in Rooms(before[LocalPlayer]) :
                    spokes' = [before EXCEPT ![LocalPlayer] =
                      Drained(SpokeReceived(@, LocalPlayer,
                                            packet(incremental)[LocalPlayer], room))]
             ELSE spokes' = before
          /\ toSpoke' \in {kept \in [Remote -> UNION {Kept(offered(incremental)[p]) :
                                                       p \in Remote}] :
                             \A p \in Remote : kept[p] \in Kept(offered(incremental)[p])}
    BY <1>3, Zenon DEF HubDoes
  <2>2. /\ toSpoke' = [p \in Remote |-> toSpoke'[p]]
        /\ \A p \in Remote : toSpoke'[p] \in Kept(offered(incremental)[p])
    <3> HIDE DEF offered
    <3> QED BY <2>1
  <2>3. ASSUME NEW p \in Remote, NEW x \in toSpoke'[p]
        PROVE  PacketOK(h, before[p], p, x)
    <3>1. x \in offered(incremental)[p]
      <4> HIDE DEF offered
      <4> QED BY <2>2, Zenon DEF Kept
    <3>2. \/ x \in toSpoke[p]
          \/ /\ p \in Observed \cap h.connected \cap h.addressKnown
             /\ x = HubPacket(h, p, incremental)
      BY <3>1, Zenon
    <3>3. SpokeOK(h, before[p], p)
      BY Observers, Zenon DEF SpokesOK
    <3>4. CASE x \in toSpoke[p]
      BY <3>4, Zenon DEF ToSpokesOK
    <3>5. CASE /\ p \in Observed \cap h.connected \cap h.addressKnown
               /\ x = HubPacket(h, p, incremental)
      <4>1. /\ Behind(h, before[p], p) /\ KnowsDead(h, before[p], p)
            /\ before[p].unreceived \in Nat
        BY <3>3, SpokeNumbers DEF SpokeOK
      <4> QED BY <1>3, <3>5, <4>1, HubPacketOK
    <3> QED BY <3>2, <3>4, <3>5
  <2>4. CASE LocalPlayer \notin h.addressKnown
    <3>1. spokes' = before
      BY <2>1, <2>4, Zenon
    <3>2. ToSpokesOK(h, spokes', toSpoke')
      BY <2>2, <2>3, <3>1, Zenon DEF ToSpokesOK
    <3> QED BY <1>1, <3>1, <3>2, SpokesStay
  <2>5. CASE LocalPlayer \in h.addressKnown
    <3>1. LocalPlayer \in Observed \cap h.connected \cap h.addressKnown
      BY <2>5, Observers
    <3>2. PICK room \in Rooms(before[LocalPlayer]) :
            spokes' = [before EXCEPT ![LocalPlayer] =
              Drained(SpokeReceived(@, LocalPlayer,
                                    HubPacket(h, LocalPlayer, incremental), room))]
      BY <2>1, <3>1, Zenon
    <3>3. SpokeOK(h, before[LocalPlayer], LocalPlayer)
      BY Observers, Zenon DEF SpokesOK
    <3>4. room \in Int
      BY <3>3, RoomsAreNumbers DEF SpokeOK
    <3> DEFINE s == Drained(SpokeReceived(before[LocalPlayer], LocalPlayer,
                                    HubPacket(h, LocalPlayer, incremental), room))
    <3>5. /\ SpokeOK(h, s, LocalPlayer) /\ (Listens(s) => Listens(before[LocalPlayer]))
          /\ \/ before[LocalPlayer].unreceived <= s.unreceived
             \/ h.connected \subseteq {LocalPlayer}
      BY <1>3, <2>5, <3>3, <3>4, ToLocalSpoke
    <3>6. spokes' = [before EXCEPT ![LocalPlayer] = s]
      BY <3>2, Zenon
    <3> HIDE DEF s
    <3>7. /\ spokes' = [p \in Observed |-> spokes'[p]]
          /\ spokes'[LocalPlayer] = s
          /\ \A p \in Remote : spokes'[p] = before[p]
      BY <3>6, Observers DEF SpokesOK
    <3>8. SpokesOK(h, spokes')
      <4>1. ASSUME NEW p \in Observed PROVE SpokeOK(h, spokes'[p], p)
        <5>1. CASE p = LocalPlayer
          BY <3>5, <3>7, <5>1, Zenon
        <5>2. CASE p \in Remote
          BY <3>7, <5>2, Zenon DEF SpokesOK
        <5> QED BY <5>1, <5>2, Observers
      <4> QED BY <3>7, <4>1, Zenon DEF SpokesOK
    <3>9. ToSpokesOK(h, spokes', toSpoke')
      <4>1. ASSUME NEW p \in Remote, NEW x \in toSpoke'[p]
            PROVE  PacketOK(h, spokes'[p], p, x)
        BY <2>3, <3>7, Zenon
      <4> QED BY <2>2, <4>1, Zenon DEF ToSpokesOK
    <3>10. SpokesGoOn(h, before, spokes')
      <4>1. SpokesGoOn(h, before, before)
        BY SpokesStay
      <4>2. ASSUME NEW p \in Observed
            PROVE  /\ Listens(spokes'[p]) => Listens(before[p])
                   /\ \/ before[p].unreceived <= spokes'[p].unreceived
                      \/ h.connected \subseteq {p}
        <5>1. CASE p = LocalPlayer
          BY <3>5, <3>7, <5>1, Zenon
        <5>2. CASE p \in Remote
          BY <3>7, <4>1, <5>2, Zenon DEF SpokesGoOn
        <5> QED BY <5>1, <5>2, Observers
      <4> QED BY <4>2, Zenon DEF SpokesGoOn
    <3> QED BY <1>1, <3>7, <3>8, <3>9, <3>10
  <2> QED BY <2>4, <2>5
<1> QED BY <1>2, <1>3

\* A packet of a player, in the hands of the hub.
LEMMA HubGetsOK ==
  ASSUME HubOK(hub), NEW before, SpokesOK(hub, before), ToSpokesOK(hub, before, toSpoke),
         NEW packet, packet.player \in Players, packet.ack \in Ticks,
         packet.start \in Nat, packet.count \in Nat,
         packet.start + packet.count <= MaxTick,
         packet.player \in Observed =>
           /\ packet.ack <= before[packet.player].unreceived
           /\ Bound(packet.hasFlags, packet.start, packet.count)
                <= before[packet.player].outWrite,
         HubGets(packet, before), "sender" \notin hub'.failed,
         LocalPlayer \in hub'.connected
  PROVE  /\ HubOK(hub') /\ SpokesOK(hub', spokes') /\ ToSpokesOK(hub', spokes', toSpoke')
         /\ \A x : ToHubsOK(hub, before, x) => ToHubsOK(hub', spokes', x)
         /\ HubGoesOn(hub, hub') /\ SpokesGoOn(hub', before, spokes')
<1> DEFINE p == packet.player
           ack == packet.ack
           bound == Bound(packet.hasFlags, packet.start, packet.count)
           h == HubTakes(packet)
<1>1. HubDoes(h, h.unsent # hub.unsent, before)
  BY Zenon DEF HubGets
<1>2. hub' = h
  BY <1>1, Zenon DEF HubDoes
<1>3. /\ HubOK(h) /\ Advances(hub, h, p, ack, bound)
      /\ h.unsent # hub.unsent => JustSent(h)
  BY <1>2, HubTakesOK
<1> HIDE DEF h
<1>4. Typed(h)
  BY <1>3 DEF HubOK, Consistent
<1>5. ack \in Int /\ bound \in Int
  BY Sizes DEF Bound
<1> HIDE DEF bound
<1>6. /\ SpokesOK(h, before)
      /\ \A x : ToHubsOK(hub, before, x) => ToHubsOK(h, before, x)
      /\ \A x : ToSpokesOK(hub, before, x) => ToSpokesOK(h, before, x)
  <2>1. p \in Observed => ack <= before[p].unreceived /\ bound <= before[p].outWrite
    BY DEF bound
  <2> HIDE DEF p, ack
  <2> QED BY <1>3, <1>4, <1>5, <2>1, AdvancesGameOK
<1>7. /\ SpokesOK(h, spokes') /\ ToSpokesOK(h, spokes', toSpoke')
      /\ \A q \in Remote : spokes'[q] = before[q]
      /\ SpokesGoOn(h, before, spokes')
  BY <1>1, <1>2, <1>3, <1>6, HubDoesOK
<1>8. ASSUME NEW x, ToHubsOK(hub, before, x) PROVE ToHubsOK(h, spokes', x)
  BY <1>6, <1>7, <1>8, Zenon DEF ToHubsOK
<1>9. HubGoesOn(hub, h)
  BY <1>3, Zenon DEF HubGoesOn
<1> QED BY <1>2, <1>3, <1>6, <1>7, <1>8, <1>9

\* What the hub assumes of a packet that may come from an observed player.
LEMMA ToHubTyped ==
  ASSUME NEW h, NEW s, NEW p, SpokeTyped(s), NEW packet, ToHubOK(h, s, p, packet)
  PROVE  /\ packet.player = p /\ packet.ack \in Ticks
         /\ packet.start \in Nat /\ packet.count \in Nat
         /\ packet.start + packet.count <= MaxTick
         /\ packet.ack <= s.unreceived
         /\ Bound(packet.hasFlags, packet.start, packet.count) <= s.outWrite
<1>1. s.outWrite \in Nat
  BY SpokeNumbers
<1> QED BY <1>1 DEF ToHubOK, Bound

\* A packet of a modelled spoke arrives at the hub.
LEMMA HubReceivesOK ==
  ASSUME GameInv, NEW p \in Remote, HubReceives(p), Undisturbed'
  PROVE  GameInv' /\ GameGoesOn
<1>1. PICK packet \in toHub[p] : HubGets(packet, spokes)
  BY Zenon DEF HubReceives
<1>2. p \in Observed /\ p \in Players
  BY Observers
<1>3. SpokeTyped(spokes[p]) /\ ToHubOK(hub, spokes[p], p, packet)
  BY <1>2, Zenon DEF GameInv, SpokesOK, SpokeOK, ToHubsOK
<1>4. /\ packet.player = p /\ packet.ack \in Ticks
      /\ packet.start \in Nat /\ packet.count \in Nat
      /\ packet.start + packet.count <= MaxTick
      /\ packet.ack <= spokes[p].unreceived
      /\ Bound(packet.hasFlags, packet.start, packet.count) <= spokes[p].outWrite
  BY <1>3, ToHubTyped
<1>5. "sender" \notin hub'.failed /\ LocalPlayer \in hub'.connected
  BY DEF Undisturbed, SenderConnected
<1>6. /\ HubOK(hub') /\ SpokesOK(hub', spokes') /\ ToSpokesOK(hub', spokes', toSpoke')
      /\ \A x : ToHubsOK(hub, spokes, x) => ToHubsOK(hub', spokes', x)
      /\ HubGoesOn(hub, hub') /\ SpokesGoOn(hub', spokes, spokes')
  BY <1>1, <1>2, <1>4, <1>5, HubGetsOK DEF GameInv
<1>7. toHub' = toHub
  BY DEF HubReceives
<1> QED BY <1>6, <1>7, Zenon DEF GameInv, GameGoesOn

\* One spoke goes on.
LEMMA OneSpokeGrows ==
  ASSUME NEW h, NEW ss, SpokesOK(h, ss), NEW p \in Observed, NEW t, SpokeOK(h, t, p),
         SpokeGrows(ss[p], t)
  PROVE  LET tt == [ss EXCEPT ![p] = t]
         IN  /\ SpokesOK(h, tt) /\ tt[p] = t
             /\ \A x : ToHubsOK(h, ss, x) => ToHubsOK(h, tt, x)
             /\ \A x : ToSpokesOK(h, ss, x) => ToSpokesOK(h, tt, x)
             /\ \A g : SpokesGoOn(g, ss, tt)
<1> DEFINE tt == [ss EXCEPT ![p] = t]
<1>1. /\ tt = [q \in Observed |-> tt[q]]
      /\ \A q \in Observed : tt[q] = IF q = p THEN t ELSE ss[q]
  BY DEF SpokesOK
<1> HIDE DEF tt
<1>2. SpokesOK(h, tt) /\ tt[p] = t
  <2>1. ASSUME NEW q \in Observed PROVE SpokeOK(h, tt[q], q)
    BY <1>1, Zenon DEF SpokesOK
  <2> QED BY <1>1, <2>1, Zenon DEF SpokesOK
<1>3. SpokeTyped(ss[p]) /\ SpokeTyped(t)
  BY Zenon DEF SpokesOK, SpokeOK
<1>4. ASSUME NEW x, ToHubsOK(h, ss, x) PROVE ToHubsOK(h, tt, x)
  <2>1. ASSUME NEW q \in Remote, NEW packet \in x[q] PROVE ToHubOK(h, tt[q], q, packet)
    <3>1. ToHubOK(h, ss[q], q, packet) /\ q \in Observed
      BY <1>4, Observers, Zenon DEF ToHubsOK
    <3>2. CASE q = p
      <4>1. ToHubOK(h, ss[p], p, packet)
        BY <3>1, <3>2
      <4>2. ToHubOK(h, t, p, packet)
        BY <1>3, <4>1, GrownToHubOK
      <4> QED BY <1>2, <3>2, <4>2
    <3>3. CASE q # p
      BY <1>1, <3>1, <3>3, Zenon
    <3> QED BY <3>2, <3>3
  <2> QED BY <1>4, <2>1, Zenon DEF ToHubsOK
<1>5. ASSUME NEW x, ToSpokesOK(h, ss, x) PROVE ToSpokesOK(h, tt, x)
  <2>1. ASSUME NEW q \in Remote, NEW packet \in x[q] PROVE PacketOK(h, tt[q], q, packet)
    <3>1. PacketOK(h, ss[q], q, packet) /\ q \in Observed
      BY <1>5, Observers, Zenon DEF ToSpokesOK
    <3>2. CASE q = p
      <4>1. PacketOK(h, ss[p], p, packet)
        BY <3>1, <3>2
      <4>2. PacketOK(h, t, p, packet)
        BY <4>1, GrownPacketOK
      <4> QED BY <1>2, <3>2, <4>2
    <3>3. CASE q # p
      BY <1>1, <3>1, <3>3, Zenon
    <3> QED BY <3>2, <3>3
  <2> QED BY <1>5, <2>1, Zenon DEF ToSpokesOK
<1>6. ASSUME NEW g PROVE SpokesGoOn(g, ss, tt)
  <2>1. SpokesGoOn(g, ss, ss)
    BY SpokesStay
  <2>2. ASSUME NEW q \in Observed
        PROVE  /\ Listens(tt[q]) => Listens(ss[q])
               /\ ss[q].unreceived <= tt[q].unreceived
    <3>1. CASE q = p
      BY <1>1, <3>1 DEF SpokeGrows, Listens
    <3>2. CASE q # p
      <4>1. tt[q] = ss[q]
        BY <1>1, <3>2
      <4>2. ss[q].unreceived \in Nat
        BY SpokeNumbers DEF SpokesOK, SpokeOK
      <4> QED BY <4>1, <4>2
    <3> QED BY <3>1, <3>2
  <2> QED BY <2>2, Zenon DEF SpokesGoOn
<1> QED BY <1>2, <1>4, <1>5, <1>6 DEF tt

\* One spoke sends.
LEMMA OneSpokeSends ==
  ASSUME NEW h, NEW ss, NEW x, ToHubsOK(h, ss, x), NEW p \in Remote, NEW packet,
         ToHubOK(h, ss[p], p, packet), NEW kept \in Kept(x[p] \cup {packet})
  PROVE  ToHubsOK(h, ss, [x EXCEPT ![p] = kept])
<1> DEFINE y == [x EXCEPT ![p] = kept]
<1>1. /\ y = [q \in Remote |-> y[q]]
      /\ \A q \in Remote : y[q] = IF q = p THEN kept ELSE x[q]
  BY DEF ToHubsOK
<1> HIDE DEF y
<1>2. kept \subseteq x[p] \cup {packet}
  BY Zenon DEF Kept
<1>3. ASSUME NEW q \in Remote, NEW r \in y[q] PROVE ToHubOK(h, ss[q], q, r)
  <2>1. r \in x[q] \/ (q = p /\ r = packet)
    <3>1. r \in IF q = p THEN kept ELSE x[q]
      BY <1>1, <1>3, Zenon
    <3>2. CASE q = p
      <4>1. r \in kept
        BY <3>1, <3>2, Zenon
      <4>2. r \in x[p] \/ r = packet
        BY <1>2, <4>1
      <4> QED BY <3>2, <4>2
    <3>3. CASE q # p
      BY <3>1, <3>3
    <3> QED BY <3>2, <3>3
  <2> QED BY <2>1, Zenon DEF ToHubsOK
<1>4. ToHubsOK(h, ss, y)
  BY <1>1, <1>3, Zenon DEF ToHubsOK
<1> QED BY <1>4 DEF y

\* The tick of a spoke.  The packet of the spoke on the hub's machine is there at
\* once.
LEMMA SpokeTickOK ==
  ASSUME GameInv, NEW p \in Observed, SpokeTick(p), Undisturbed'
  PROVE  GameInv' /\ GameGoesOn
<1>1. PICK n \in 0 .. MaxProvided,
           room \in IF spokes[p].connected THEN {GameQueueSize} ELSE Rooms(spokes[p]) :
        LET s      == Drained(SpokeTicked(spokes[p], p, n, room))
            sends  == SendsInTick(spokes[p], p, n, room)
            ticked == [spokes EXCEPT ![p] = s]
        IN  IF ~ sends
            THEN spokes' = ticked /\ UNCHANGED <<hub, toHub, toSpoke>>
            ELSE IF p = LocalPlayer
            THEN HubGets(SpokePacket(s, p), ticked) /\ UNCHANGED toHub
            ELSE /\ \E kept \in Kept(toHub[p] \cup {SpokePacket(s, p)}) :
                      toHub' = [toHub EXCEPT ![p] = kept]
                 /\ spokes' = ticked
                 /\ UNCHANGED <<hub, toSpoke>>
  BY Zenon DEF SpokeTick
<1> DEFINE t      == SpokeTicked(spokes[p], p, n, room)
           s      == Drained(t)
           sends  == SendsInTick(spokes[p], p, n, room)
           ticked == [spokes EXCEPT ![p] = s]
           packet == SpokePacket(s, p)
<1>2. \/ spokes' = ticked /\ hub' = hub /\ toHub' = toHub /\ toSpoke' = toSpoke
      \/ p = LocalPlayer /\ HubGets(packet, ticked) /\ toHub' = toHub
      \/ /\ p # LocalPlayer /\ hub' = hub /\ toSpoke' = toSpoke /\ spokes' = ticked
         /\ \E kept \in Kept(toHub[p] \cup {packet}) : toHub' = [toHub EXCEPT ![p] = kept]
  BY <1>1, Zenon
<1>3. p \in Players /\ n \in Nat /\ SpokeOK(hub, spokes[p], p) /\ Typed(hub)
  BY Observers DEF GameInv, SpokesOK, HubOK, Consistent
<1> HIDE <1>1
<1>4. SpokeOK(hub, t, p) /\ SpokeGrows(spokes[p], t)
  BY <1>3, SpokeTickedOK
<1> HIDE DEF t
<1>5. SpokeOK(hub, s, p) /\ SpokeGrows(t, s)
  BY <1>4, DrainedOK
<1> HIDE DEF s
<1>6. SpokeTyped(spokes[p]) /\ SpokeTyped(t) /\ SpokeTyped(s)
  BY <1>3, <1>4, <1>5 DEF SpokeOK
<1>7. SpokeGrows(spokes[p], s)
  BY <1>4, <1>5, <1>6, SpokeGrowsTransitive
<1>8. /\ SpokesOK(hub, ticked) /\ ticked[p] = s
      /\ \A x : ToHubsOK(hub, spokes, x) => ToHubsOK(hub, ticked, x)
      /\ \A x : ToSpokesOK(hub, spokes, x) => ToSpokesOK(hub, ticked, x)
      /\ \A g : SpokesGoOn(g, spokes, ticked)
  <2>1. SpokesOK(hub, spokes) /\ HubOK(hub)
    BY DEF GameInv
  <2> QED BY <1>5, <1>7, <2>1, OneSpokeGrows DEF ticked
<1> HIDE DEF ticked
<1>9. /\ ToHubsOK(hub, ticked, toHub) /\ ToSpokesOK(hub, ticked, toSpoke) /\ HubOK(hub)
      /\ HubGoesOn(hub, hub) /\ SpokesOK(hub, spokes)
  BY <1>8, HubStays DEF GameInv
<1>10. ToHubOK(hub, s, p, packet)
  BY <1>3, <1>5, SpokePacketOK
<1> HIDE DEF packet
<1>11. CASE spokes' = ticked /\ hub' = hub /\ toHub' = toHub /\ toSpoke' = toSpoke
  BY <1>8, <1>9, <1>11, Zenon DEF GameInv, GameGoesOn
<1>12. CASE p = LocalPlayer /\ HubGets(packet, ticked) /\ toHub' = toHub
  <2>1. /\ packet.player = p /\ packet.ack \in Ticks
        /\ packet.start \in Nat /\ packet.count \in Nat
        /\ packet.start + packet.count <= MaxTick
        /\ packet.ack <= ticked[p].unreceived
        /\ Bound(packet.hasFlags, packet.start, packet.count) <= ticked[p].outWrite
    BY <1>6, <1>8, <1>10, ToHubTyped
  <2>2. "sender" \notin hub'.failed /\ LocalPlayer \in hub'.connected
    BY DEF Undisturbed, SenderConnected
  <2>3. /\ HubOK(hub') /\ SpokesOK(hub', spokes') /\ ToSpokesOK(hub', spokes', toSpoke')
        /\ \A x : ToHubsOK(hub, ticked, x) => ToHubsOK(hub', spokes', x)
        /\ HubGoesOn(hub, hub') /\ SpokesGoOn(hub', ticked, spokes')
    BY <1>3, <1>8, <1>9, <1>12, <2>1, <2>2, HubGetsOK
  <2>4. SpokesGoOn(hub', spokes, spokes')
    BY <1>8, <1>9, <2>3, SpokesGoOnTransitive
  <2> QED BY <1>9, <1>12, <2>3, <2>4, Zenon DEF GameInv, GameGoesOn
<1>13. CASE /\ p # LocalPlayer /\ hub' = hub /\ toSpoke' = toSpoke /\ spokes' = ticked
            /\ \E kept \in Kept(toHub[p] \cup {packet}) :
                 toHub' = [toHub EXCEPT ![p] = kept]
  <2>1. p \in Remote
    BY <1>13, Observers
  <2>2. ToHubsOK(hub, ticked, toHub')
    <3>1. PICK kept \in Kept(toHub[p] \cup {packet}) : toHub' = [toHub EXCEPT ![p] = kept]
      BY <1>13
    <3>2. ToHubOK(hub, ticked[p], p, packet)
      BY <1>8, <1>10
    <3>3. ToHubsOK(hub, ticked, [toHub EXCEPT ![p] = kept])
      BY <1>9, <2>1, <3>2, OneSpokeSends
    <3> QED BY <3>1, <3>3
  <2> QED BY <1>8, <1>9, <1>13, <2>2, Zenon DEF GameInv, GameGoesOn
<1> QED BY <1>2, <1>11, <1>12, <1>13

\* A packet of the hub arrives.
LEMMA SpokeReceivesOK ==
  ASSUME GameInv, NEW p \in Remote, SpokeReceives(p), Undisturbed
  PROVE  GameInv' /\ GameGoesOn
<1>1. PICK packet \in toSpoke[p], room \in Rooms(spokes[p]) :
        spokes' = [spokes EXCEPT ![p] = Drained(SpokeReceived(@, p, packet, room))]
  BY Zenon DEF SpokeReceives
<1>2. hub' = hub /\ toHub' = toHub /\ toSpoke' = toSpoke
  BY DEF SpokeReceives
<1> DEFINE t == SpokeReceived(spokes[p], p, packet, room)
           s == Drained(t)
<1>3. spokes' = [spokes EXCEPT ![p] = s]
  BY <1>1, Zenon
<1>4. p \in Observed /\ p \in Players /\ p # LocalPlayer
  BY Observers
<1>5. SpokeOK(hub, spokes[p], p) /\ PacketOK(hub, spokes[p], p, packet) /\ HubOK(hub)
  BY <1>4, Zenon DEF GameInv, SpokesOK, ToSpokesOK
<1>6. room \in Int
  BY <1>5, RoomsAreNumbers DEF SpokeOK
<1>7. SpokeOK(hub, t, p) /\ SpokeGrows(spokes[p], t)
  BY <1>4, <1>5, <1>6, SpokeReceivedOK DEF Undisturbed
<1> HIDE DEF t
<1>8. SpokeOK(hub, s, p) /\ SpokeGrows(t, s)
  BY <1>7, DrainedOK
<1> HIDE DEF s
<1>9. SpokeTyped(spokes[p]) /\ SpokeTyped(t) /\ SpokeTyped(s)
  BY <1>5, <1>7, <1>8 DEF SpokeOK
<1>10. SpokeGrows(spokes[p], s)
  BY <1>7, <1>8, <1>9, SpokeGrowsTransitive
<1>11. /\ SpokesOK(hub, spokes')
       /\ \A x : ToHubsOK(hub, spokes, x) => ToHubsOK(hub, spokes', x)
       /\ \A x : ToSpokesOK(hub, spokes, x) => ToSpokesOK(hub, spokes', x)
       /\ \A g : SpokesGoOn(g, spokes, spokes')
  BY <1>3, <1>4, <1>8, <1>10, OneSpokeGrows DEF GameInv
<1>12. HubGoesOn(hub, hub)
  BY <1>5, HubStays
<1> QED BY <1>2, <1>11, <1>12, Zenon DEF GameInv, GameGoesOn

\* The game takes out what is confirmed.
LEMMA UpdateUnconfirmedOK ==
  ASSUME GameInv, NEW p \in Observed, UpdateUnconfirmed(p)
  PROVE  GameInv' /\ GameGoesOn
<1> DEFINE s == UnconfirmedUpdated(spokes[p])
<1>1. /\ spokes' = [spokes EXCEPT ![p] = s]
      /\ hub' = hub /\ toHub' = toHub /\ toSpoke' = toSpoke
  BY DEF UpdateUnconfirmed
<1>2. SpokeOK(hub, spokes[p], p)
  BY Zenon DEF GameInv, SpokesOK
<1>3. SpokeOK(hub, s, p) /\ SpokeGrows(spokes[p], s)
  BY <1>2, UnconfirmedUpdatedOK
<1> HIDE DEF s
<1>4. /\ SpokesOK(hub, spokes')
      /\ \A x : ToHubsOK(hub, spokes, x) => ToHubsOK(hub, spokes', x)
      /\ \A x : ToSpokesOK(hub, spokes, x) => ToSpokesOK(hub, spokes', x)
      /\ \A g : SpokesGoOn(g, spokes, spokes')
  BY <1>1, <1>3, OneSpokeGrows DEF GameInv
<1>5. HubGoesOn(hub, hub)
  BY HubStays DEF GameInv
<1> QED BY <1>1, <1>4, <1>5, Zenon DEF GameInv, GameGoesOn

\* A player leaves, with a last packet.
LEMMA SpokeCleanupOK ==
  ASSUME GameInv, NEW p \in Remote, SpokeCleanup(p)
  PROVE  GameInv' /\ GameGoesOn
<1> DEFINE s == SpokeCleanedUp(spokes[p])
           packet == SpokePacket(spokes[p], p)
<1>1. PICK kept \in Kept(toHub[p] \cup {packet}) : toHub' = [toHub EXCEPT ![p] = kept]
  BY Zenon DEF SpokeCleanup
<1>2. spokes' = [spokes EXCEPT ![p] = s] /\ hub' = hub /\ toSpoke' = toSpoke
  BY DEF SpokeCleanup
<1>3. p \in Observed /\ p \in Players
  BY Observers
<1>4. SpokeOK(hub, spokes[p], p) /\ Typed(hub)
  BY <1>3, Zenon DEF GameInv, SpokesOK, HubOK, Consistent
<1>5. ToHubOK(hub, spokes[p], p, packet)
  BY <1>3, <1>4, SpokePacketOK
<1> HIDE DEF packet
<1>6. SpokeOK(hub, s, p) /\ SpokeGrows(spokes[p], s)
  BY <1>4, SpokeCleanedUpOK
<1> HIDE DEF s
<1>7. ToHubsOK(hub, spokes, toHub')
  <2>1. ToHubsOK(hub, spokes, [toHub EXCEPT ![p] = kept])
    BY <1>5, OneSpokeSends DEF GameInv
  <2> QED BY <1>1, <2>1
<1>8. /\ SpokesOK(hub, spokes')
      /\ \A x : ToHubsOK(hub, spokes, x) => ToHubsOK(hub, spokes', x)
      /\ \A x : ToSpokesOK(hub, spokes, x) => ToSpokesOK(hub, spokes', x)
      /\ \A g : SpokesGoOn(g, spokes, spokes')
  BY <1>2, <1>3, <1>6, OneSpokeGrows DEF GameInv
<1>9. HubGoesOn(hub, hub)
  BY HubStays DEF GameInv
<1> QED BY <1>2, <1>7, <1>8, <1>9, Zenon DEF GameInv, GameGoesOn

\* An identification packet arrives.
LEMMA HubIdentifiesOK ==
  ASSUME GameInv, NEW p \in Players, HubIdentifies(p)
  PROVE  GameInv' /\ GameGoesOn
<1> DEFINE g == [hub EXCEPT !.routable = @ \cup {p}, !.addressKnown = @ \cup {p}]
<1>1. /\ hub' = g /\ p \notin hub.addressKnown
      /\ spokes' = spokes /\ toHub' = toHub /\ toSpoke' = toSpoke
  BY DEF HubIdentifies, HubReceivedIdentification
<1>2. Consistent(hub) /\ FlagsInv(hub) /\ Typed(hub) /\ DOMAIN hub = HubFields /\ HubOK(hub)
  BY DEF GameInv, HubOK, Consistent, Typed
<1>3. Consistent(g)
  BY <1>1, <1>2, IdentificationConsistent
<1>4. /\ g.connected = hub.connected /\ g.sentTo = hub.sentTo
      /\ g.sendTimeWrite = hub.sendTimeWrite /\ g.incomplete = hub.incomplete
      /\ g.flags = hub.flags /\ g.flagsWrite = hub.flagsWrite
      /\ g.netDeadTick = hub.netDeadTick /\ g.unacknowledged = hub.unacknowledged
      /\ g.reflected = hub.reflected /\ g.read = hub.read
  BY <1>2, SMTT(30) DEF HubFields
<1> HIDE DEF g
<1>5. FlagsInv(g)
  BY <1>2, <1>4, SameFieldsHarmless, HarmlessAllowed DEF SamePlayers
<1>6. Advances(hub, g, LocalPlayer, 0, 0)
  <2>1. NothingGot(hub, g)
    BY <1>2, <1>4, Numbers DEF NothingGot
  <2> QED BY <1>2, <2>1, NothingGotAdvances
<1>7. HubOK(g) /\ Typed(g)
  BY <1>2, <1>3, <1>5, <1>6, AdvancesHubOK DEF Consistent
<1>8. 0 <= spokes[LocalPlayer].unreceived /\ 0 <= spokes[LocalPlayer].outWrite
  BY SpokeNumbers, Observers DEF GameInv, SpokesOK, SpokeOK
<1>9. /\ SpokesOK(g, spokes)
      /\ \A x : ToHubsOK(hub, spokes, x) => ToHubsOK(g, spokes, x)
      /\ \A x : ToSpokesOK(hub, spokes, x) => ToSpokesOK(g, spokes, x)
  BY <1>2, <1>6, <1>7, <1>8, AdvancesGameOK DEF GameInv
<1>10. HubGoesOn(hub, g) /\ SpokesGoOn(g, spokes, spokes)
  BY <1>6, <1>9, SpokesStay, Zenon DEF HubGoesOn
<1> QED BY <1>1, <1>7, <1>9, <1>10, Zenon DEF GameInv, GameGoesOn

\* A tick of the hub.
LEMMA HubTickOK ==
  ASSUME GameInv, HubTick, Undisturbed'
  PROVE  GameInv' /\ GameGoesOn
<1> DEFINE k == Scanned(hub)
           g == TickFinished(k)
           sends == SendsAtTickEnd(k)
<1>1. HubDoes(g, sends, spokes) /\ toHub' = toHub
  BY Zenon DEF HubTick
<1>2. hub' = g
  BY <1>1, Zenon DEF HubDoes
<1>3. HubOK(hub) /\ SpokesOK(hub, spokes)
  BY DEF GameInv
<1>4. HubOK(g) /\ Advances(hub, g, LocalPlayer, 0, 0) /\ (sends => JustSent(g))
  BY <1>3, HubTickSteps
<1> HIDE DEF g, k, sends
<1>5. Typed(g)
  BY <1>4 DEF HubOK, Consistent
<1>6. 0 <= spokes[LocalPlayer].unreceived /\ 0 <= spokes[LocalPlayer].outWrite
  BY SpokeNumbers, Observers DEF GameInv, SpokesOK, SpokeOK
<1>7. /\ SpokesOK(g, spokes)
      /\ ToHubsOK(g, spokes, toHub) /\ ToSpokesOK(g, spokes, toSpoke)
  BY <1>3, <1>4, <1>5, <1>6, AdvancesGameOK DEF GameInv
<1>8. LocalPlayer \in g.connected
  BY <1>2 DEF Undisturbed
<1>9. /\ SpokesOK(g, spokes') /\ ToSpokesOK(g, spokes', toSpoke')
      /\ \A p \in Remote : spokes'[p] = spokes[p]
      /\ SpokesGoOn(g, spokes, spokes')
  BY <1>1, <1>4, <1>7, <1>8, HubDoesOK
<1>10. ToHubsOK(g, spokes', toHub)
  BY <1>7, <1>9, Zenon DEF ToHubsOK
<1>11. HubGoesOn(hub, g)
  BY <1>4, Zenon DEF HubGoesOn
<1> QED BY <1>1, <1>2, <1>4, <1>9, <1>10, <1>11, Zenon DEF GameInv, GameGoesOn

\* The next flags of a player whose spoke is not modelled.
LEMMA HubReceivesOtherOK ==
  ASSUME GameInv, NEW p \in Players \ Observed, HubReceivesOther(p), Undisturbed'
  PROVE  GameInv' /\ GameGoesOn
<1> DEFINE packet == [player |-> p, ack |-> hub.sendTimeWrite, hasFlags |-> TRUE,
                      start |-> hub.flagsWrite[p], count |-> 1]
<1>1. HubGets(packet, spokes) /\ toHub' = toHub /\ hub.flagsWrite[p] < MaxTick
  BY DEF HubReceivesOther
<1>2. Typed(hub)
  BY DEF GameInv, HubOK, Consistent
<1>3. /\ packet.player = p /\ packet.ack \in Ticks
      /\ packet.start \in Nat /\ packet.count \in Nat
      /\ packet.start + packet.count <= MaxTick
  <2>1. /\ hub.sendTimeWrite \in Ticks /\ hub.flagsWrite[p] \in Nat /\ MaxTick \in Nat
        /\ hub.flagsWrite[p] < MaxTick
    BY <1>1, <1>2, Numbers, Sizes
  <2>2. /\ packet.player = p /\ packet.ack = hub.sendTimeWrite
        /\ packet.start = hub.flagsWrite[p] /\ packet.count = 1
    OBVIOUS
  <2> HIDE DEF packet
  <2> QED BY <2>1, <2>2
<1> HIDE DEF packet
<1>4. "sender" \notin hub'.failed /\ LocalPlayer \in hub'.connected
  BY DEF Undisturbed, SenderConnected
<1>5. /\ HubOK(hub') /\ SpokesOK(hub', spokes') /\ ToSpokesOK(hub', spokes', toSpoke')
      /\ \A x : ToHubsOK(hub, spokes, x) => ToHubsOK(hub', spokes', x)
      /\ HubGoesOn(hub, hub') /\ SpokesGoOn(hub', spokes, spokes')
  BY <1>1, <1>3, <1>4, HubGetsOK DEF GameInv
<1> QED BY <1>1, <1>5, Zenon DEF GameInv, GameGoesOn

\* A spoke before the game has started.
LEMMA InitialSpokeOK ==
  ASSUME NEW h, HubOK(h), h.connected = Players \ Absent, h.sentTo = {},
         \A q \in Players : h.flagsWrite[q] = 0 /\ h.netDeadTick[q] = -1
                            /\ h.unacknowledged[q] = 0,
         NEW p \in Observed
  PROVE  SpokeOK(h, InitialSpoke(Players \ Absent, Absent), p)
<1> DEFINE s == InitialSpoke(Players \ Absent, Absent)
<1>1. /\ DOMAIN s = SpokeFields
      /\ s.connected = TRUE /\ s.active = TRUE /\ s.heard = FALSE
      /\ s.outRead = 0 /\ s.outWrite = 0 /\ s.unconfirmedRead = RealGameTick
      /\ s.unconfirmedWrite = RealGameTick /\ s.unconfirmed = RealGameTick
      /\ s.unreceived = 0 /\ s.zombies = Absent /\ s.alive = Players \ Absent
      /\ s.deadAt = [q \in Players |-> -1]
      /\ s.gone = Players \ (Players \ Absent)
      /\ s.queue = [q \in Players |-> <<>>] /\ s.silence = 0 /\ s.sinceSent = 0
      /\ s.failed = {}
  BY DEF InitialSpoke, SpokeFields
<1> HIDE DEF s
<1>2. /\ RealGameTick \in Nat /\ 0 \in Ticks /\ MaxSpokeSilence \in Nat
      /\ MaxSpokeSilence > 0 /\ SpokeRecoveryPeriod \in Nat /\ Absent \subseteq Players
  <2>1. RealGameTick \in Nat /\ Absent \subseteq Players
    BY StarConstants, GameConstants
  <2>2. SpokePregameSilence \in Nat /\ SpokeInGameSilence \in Nat
        /\ SpokeRecoveryPeriod \in Nat
    BY SpokeConstants
  <2> QED BY <2>1, <2>2, Sizes DEF MaxSpokeSilence, Larger
<1>3. p \in Players \ Absent /\ Players \subseteq Nat
  BY GameConstants, Sizes
<1>4. Typed(h) /\ h.sendTimeWrite \in Nat /\ h.incomplete \in Nat
  BY Numbers DEF HubOK, Consistent
<1>5. SpokeTyped(s)
  <2>1. s.queue \in [Players -> Seq(Words)]
    BY <1>1
  <2>2. s.deadAt \in [Players -> Ticks \cup {-1}]
    BY <1>1
  <2>3. s.silence \in 0 .. MaxSpokeSilence /\ s.sinceSent \in 0 .. SpokeRecoveryPeriod
    BY <1>1, <1>2
  <2>4. s.zombies \subseteq Players /\ s.alive \subseteq Players /\ s.gone \subseteq Players
    BY <1>1, <1>2
  <2> QED BY <1>1, <1>2, <2>1, <2>2, <2>3, <2>4 DEF SpokeTyped, IsSpoke
<1>6. Cursors(s)
  BY <1>1, <1>2 DEF Cursors, Larger
<1>7. Behind(h, s, p)
  BY <1>1, <1>3, <1>4 DEF Behind
<1>8. KnowsDead(h, s, p)
  BY <1>1, <1>2, <1>3 DEF KnowsDead
<1>9. InOrder(h, s)
  BY <1>1, <1>2 DEF InOrder, WriteTick, Larger
<1> QED BY <1>5, <1>6, <1>7, <1>8, <1>9 DEF SpokeOK, s

\* The start of a game.
LEMMA GameInitOK == GameInit => GameInv
<1> SUFFICES ASSUME GameInit PROVE GameInv
  OBVIOUS
<1>1. Init
  BY Observers DEF GameInit, Init
<1>2. /\ hub.connected = Players \ Absent /\ hub.sentTo = {} /\ hub.incomplete = 0
      /\ hub.netDeadTick = [q \in Players |-> -1]
      /\ hub.flagsWrite = [q \in Players |-> 0]
      /\ hub.unacknowledged = [q \in Players |-> 0]
      /\ hub.flags = [q \in Players |-> [t \in Ticks |-> None]]
  BY DEF GameInit, InitialHub
<1>3. Consistent(hub) /\ FlagsInv(hub)
  BY <1>1, InitConsistent, InitFlags
<1>4. HubOK(hub)
  <2>1. \A t \in Ticks : hub.flags[LocalPlayer][t] # MadeUp
    BY <1>2, Observers DEF None, MadeUp
  <2>2. \A q \in Absent : q \notin hub.connected /\ hub.netDeadTick[q] = -1
    BY <1>2, Observers
  <2>3. Players \ (Absent \cup hub.connected) = {}
    BY <1>2
  <2> QED BY <1>3, <2>1, <2>2, <2>3 DEF HubOK
<1>5. SpokesOK(hub, spokes)
  <2>1. spokes = [p \in Observed |-> InitialSpoke(Players \ Absent, Absent)]
    BY DEF GameInit
  <2>2. ASSUME NEW p \in Observed PROVE SpokeOK(hub, spokes[p], p)
    <3>1. SpokeOK(hub, InitialSpoke(Players \ Absent, Absent), p)
      BY <1>2, <1>4, InitialSpokeOK
    <3> QED BY <2>1, <3>1, Zenon
  <2>3. spokes = [p \in Observed |-> spokes[p]]
    BY <2>1
  <2> QED BY <2>2, <2>3, Zenon DEF SpokesOK
<1>6. ToHubsOK(hub, spokes, toHub) /\ ToSpokesOK(hub, spokes, toSpoke)
  <2>1. toHub = [p \in Remote |-> {}] /\ toSpoke = [p \in Remote |-> {}]
    BY DEF GameInit
  <2> QED BY <2>1 DEF ToHubsOK, ToSpokesOK
<1> QED BY <1>4, <1>5, <1>6 DEF GameInv

\* Every step of the game keeps the invariant, and goes on from where it was.
LEMMA GameNextOK ==
  GameInv /\ Undisturbed /\ Undisturbed' /\ [GameNext]_vars => GameInv' /\ GameGoesOn
<1> SUFFICES ASSUME GameInv, Undisturbed, Undisturbed', [GameNext]_vars
             PROVE  GameInv' /\ GameGoesOn
  OBVIOUS
<1>1. ASSUME NEW p \in Observed, SpokeTick(p) PROVE GameInv' /\ GameGoesOn
  BY <1>1, SpokeTickOK
<1>2. ASSUME NEW p \in Observed, UpdateUnconfirmed(p) PROVE GameInv' /\ GameGoesOn
  BY <1>2, UpdateUnconfirmedOK
<1>3. ASSUME NEW p \in Remote, HubReceives(p) PROVE GameInv' /\ GameGoesOn
  BY <1>3, HubReceivesOK
<1>4. ASSUME NEW p \in Remote, SpokeReceives(p) PROVE GameInv' /\ GameGoesOn
  BY <1>4, SpokeReceivesOK
<1>5. ASSUME NEW p \in Remote, SpokeCleanup(p) PROVE GameInv' /\ GameGoesOn
  BY <1>5, SpokeCleanupOK
<1>6. ASSUME NEW p \in Players \ Absent, HubIdentifies(p) PROVE GameInv' /\ GameGoesOn
  BY <1>6, HubIdentifiesOK
<1>7. CASE HubTick
  BY <1>7, HubTickOK
<1>8. ASSUME NEW p \in Players \ (Observed \cup Absent), HubReceivesOther(p)
      PROVE GameInv' /\ GameGoesOn
  BY <1>8, HubReceivesOtherOK
<1>9. CASE UNCHANGED vars
  <2>1. HubGoesOn(hub, hub) /\ SpokesGoOn(hub, spokes, spokes)
    BY HubStays, SpokesStay DEF GameInv
  <2> QED BY <1>9, <2>1, Zenon DEF vars, GameInv, GameGoesOn
<1> QED BY <1>1, <1>2, <1>3, <1>4, <1>5, <1>6, <1>7, <1>8, <1>9, Zenon DEF GameNext

\* The invariant holds throughout a game in which the hub's machine stays, and the
\* hub is not surprised by a packet of a player that it has dropped.
THEOREM GameInvariant == GameSpec /\ []Undisturbed => []GameInv
<1>1. GameInit => GameInv
  BY GameInitOK
<1>2. GameInv /\ Undisturbed /\ Undisturbed' /\ [GameNext]_vars => GameInv'
  BY GameNextOK
<1> QED BY <1>1, <1>2, PTL DEF GameSpec

\* The types.
LEMMA GameInvTypes == GameInv => GameTypeOK
<1> SUFFICES ASSUME GameInv PROVE GameTypeOK
  OBVIOUS
<1>1. IsHub(hub)
  BY DEF GameInv, HubOK, Consistent, Typed
<1>2. ASSUME NEW p \in Observed PROVE IsSpoke(spokes[p])
  BY DEF GameInv, SpokesOK, SpokeOK, SpokeTyped
<1> QED BY <1>1, <1>2, Zenon DEF GameTypeOK

\* No spoke loses step.
LEMMA GameInvInStep == GameInv => SpokesInStep
BY Zenon DEF GameInv, SpokesOK, SpokeOK, Cursors, SpokesInStep

\* The spokes keep what the hub assumes of them.
LEMMA GameInvAssumptions == GameInv => HubAssumptionsMet
<1> SUFFICES ASSUME GameInv, NEW p \in Observed \cap hub.routable,
                    NEW packet \in {SpokePacket(spokes[p], p)} \cup
                                     IF p \in Remote THEN toHub[p] ELSE {},
                    spokes[p].heard
             PROVE  /\ p \in hub.sentTo
                    /\ packet.ack <= hub.sendTimeWrite
                    /\ packet.start <= hub.flagsWrite[p]
  BY Zenon DEF HubAssumptionsMet
<1>1. SpokeOK(hub, spokes[p], p) /\ Typed(hub) /\ p \in Players
  BY Observers DEF GameInv, SpokesOK, HubOK, Consistent
<1>2. ToHubOK(hub, spokes[p], p, packet)
  <2>1. CASE packet = SpokePacket(spokes[p], p)
    BY <1>1, <2>1, SpokePacketOK
  <2>2. CASE p \in Remote /\ packet \in toHub[p]
    BY <2>2, Zenon DEF GameInv, ToHubsOK
  <2> QED BY <2>1, <2>2
<1>3. spokes[p].unreceived \in Nat /\ hub.sendTimeWrite \in Nat /\ packet.ack \in Nat
  BY <1>1, <1>2, Numbers, SpokeNumbers, Sizes DEF SpokeOK, ToHubOK
<1>4. /\ packet.ack <= spokes[p].unreceived /\ packet.start <= hub.flagsWrite[p]
      /\ spokes[p].unreceived <= hub.sendTimeWrite /\ p \in hub.sentTo
  BY <1>1, <1>2 DEF SpokeOK, Behind, ToHubOK
<1> QED BY <1>3, <1>4

-----------------------------------------------------------------------------
(***************************************************************************)
(* Lockstep                                                                *)
(***************************************************************************)

\* What the hub has decided about q: the stream of Lockstep.
Stream(h, q) ==
  [i \in 1 .. Larger(0, h.incomplete - RealGameTick) |->
     Decision(h, q, RealGameTick + i - 1)]

\* IsPrefix, element by element.
LEMMA PrefixByElements ==
  ASSUME NEW S, NEW s \in Seq(S), NEW t \in Seq(S), Len(s) <= Len(t),
         \A i \in 1 .. Len(s) : s[i] = t[i]
  PROVE  Game!IsPrefix(s, t)
<1>1. Len(s) \in Nat /\ Len(t) \in Nat
  OBVIOUS
<1>2. SubSeq(s, 1, Len(s)) = [i \in 1 .. Len(s) |-> s[i]]
  BY <1>1
<1>3. SubSeq(t, 1, Len(s)) = [i \in 1 .. Len(s) |-> t[i]]
  BY <1>1
<1>4. [i \in 1 .. Len(s) |-> s[i]] = [i \in 1 .. Len(s) |-> t[i]]
  OBVIOUS
<1> QED BY <1>2, <1>3, <1>4 DEF Game!IsPrefix

\* A sequence of n elements.
Elements(s, n) == s = [i \in 1 .. n |-> s[i]]

\* When a sequence is the start of another.
LEMMA PrefixIs ==
  ASSUME NEW m \in Nat, NEW n \in Nat, m <= n, NEW s, Elements(s, m),
         NEW t, Elements(t, n), \A i \in 1 .. m : s[i] = t[i]
  PROVE  Game!IsPrefix(s, t) /\ Len(s) = m /\ Len(t) = n
<1> DEFINE S == {t[i] : i \in 1 .. n}
<1>1. s \in [1 .. m -> S] /\ t \in [1 .. n -> S]
  <2>1. \A i \in 1 .. n : t[i] \in S
    OBVIOUS
  <2> HIDE DEF S
  <2>2. \A i \in 1 .. m : i \in 1 .. n
    OBVIOUS
  <2>3. \A i \in 1 .. m : s[i] \in S
    BY <2>1, <2>2, Zenon
  <2> QED BY <2>1, <2>3, Zenon DEF Elements
<1> HIDE DEF S
<1>2. s \in Seq(S) /\ t \in Seq(S) /\ Len(s) = m /\ Len(t) = n
  BY <1>1
<1>3. Len(s) <= Len(t) /\ \A i \in 1 .. Len(s) : s[i] = t[i]
  BY <1>2
<1>4. Game!IsPrefix(s, t)
  BY <1>2, <1>3, PrefixByElements
<1> QED BY <1>2, <1>4

\* The stream goes on; what is new in it is NetDead for the dead only.
LEMMA StreamGoesOn ==
  ASSUME NEW h, NEW g, HubOK(h), HubOK(g), HubGoesOn(h, g), NEW q \in Players
  PROVE  /\ Game!IsPrefix(Stream(h, q), Stream(g, q))
         /\ Len(Stream(g, q)) = Larger(0, g.incomplete - RealGameTick)
         /\ \A i \in Len(Stream(h, q)) + 1 .. Len(Stream(g, q)) :
              IF Stream(g, q)[i] = <<q, NetDead>> THEN q \notin g.connected
                                                  ELSE q \in h.connected
<1>1. PICK p, ack, bound : Advances(h, g, p, ack, bound)
  BY DEF HubGoesOn
<1>2. /\ Typed(h) /\ Typed(g) /\ Filled(g) /\ Ordered(g)
  BY DEF HubOK, Consistent
<1>3. /\ h.incomplete \in Nat /\ g.incomplete \in Nat /\ RealGameTick \in Nat
      /\ g.flagsWrite[q] \in Nat /\ g.netDeadTick[q] \in Int /\ h.netDeadTick[q] \in Int
      /\ g.incomplete <= MaxTick
  BY <1>2, Numbers, Sizes, GameSizes
<1>4. /\ h.incomplete <= g.incomplete /\ g.connected \subseteq h.connected
      /\ q \notin h.connected => g.netDeadTick[q] = h.netDeadTick[q]
  BY <1>1 DEF Advances
<1> DEFINE m == Larger(0, h.incomplete - RealGameTick)
           n == Larger(0, g.incomplete - RealGameTick)
<1>5. m \in Nat /\ n \in Nat /\ m <= n
  BY <1>3, <1>4 DEF Larger
<1>6. /\ Stream(h, q) = [i \in 1 .. m |-> Stream(h, q)[i]]
      /\ Stream(g, q) = [i \in 1 .. n |-> Stream(g, q)[i]]
      /\ \A i \in 1 .. m : Stream(h, q)[i] = Decision(h, q, RealGameTick + i - 1)
      /\ \A i \in 1 .. n : Stream(g, q)[i] = Decision(g, q, RealGameTick + i - 1)
  BY Zenon DEF Stream
<1>7. ASSUME NEW i \in 1 .. m PROVE Stream(h, q)[i] = Stream(g, q)[i]
  <2>1. RealGameTick + i - 1 \in 0 .. h.incomplete - 1 /\ i \in 1 .. n
    BY <1>3, <1>5 DEF Larger
  <2>2. Decision(g, q, RealGameTick + i - 1) = Decision(h, q, RealGameTick + i - 1)
    BY <1>1, <1>2, <2>1, CompleteStays
  <2> HIDE DEF m, n
  <2> QED BY <1>6, <2>1, <2>2
<1>8. Game!IsPrefix(Stream(h, q), Stream(g, q)) /\ Len(Stream(h, q)) = m
      /\ Len(Stream(g, q)) = n
  <2> DEFINE a == Stream(h, q)
             b == Stream(g, q)
  <2> HIDE DEF m, n
  <2>1. Elements(a, m) /\ Elements(b, n)
    BY <1>6 DEF Elements
  <2>2. \A i \in 1 .. m : a[i] = b[i]
    BY <1>7
  <2> HIDE DEF a, b
  <2>3. Game!IsPrefix(a, b) /\ Len(a) = m /\ Len(b) = n
    BY <1>5, <2>1, <2>2, PrefixIs
  <2> QED BY <2>3 DEF a, b
<1>9. ASSUME NEW i \in m + 1 .. n
      PROVE  IF Stream(g, q)[i] = <<q, NetDead>> THEN q \notin g.connected
                                                 ELSE q \in h.connected
  <2> DEFINE t == RealGameTick + i - 1
  <2>1. t \in Nat /\ h.incomplete <= t /\ t < g.incomplete /\ i \in 1 .. n
    BY <1>3, <1>5 DEF Larger
  <2>2. Stream(g, q)[i] = Decision(g, q, t)
    <3> HIDE DEF m, n
    <3> QED BY <1>6, <2>1
  <2> HIDE DEF t
  <2>3. CASE q \in g.connected
    <3>1. t < ContributesUpTo(g, q)
      BY <2>1, <2>3 DEF ContributesUpTo
    <3>2. t \in 0 .. g.flagsWrite[q] - 1
      <4>1. g.incomplete <= g.flagsWrite[q]
        BY <1>2, <2>3 DEF Ordered
      <4> QED BY <1>3, <2>1, <4>1
    <3>3. g.flags[q][t] \in {t, MadeUp}
      BY <1>2, <3>2 DEF Filled
    <3>4. Decision(g, q, t) # <<q, NetDead>>
      BY <2>1, <3>1, <3>3 DEF Decision, MadeUp, NetDead
    <3> QED BY <1>4, <2>2, <2>3, <3>4
  <2>4. CASE q \notin g.connected /\ q \in h.connected
    BY <2>4
  <2>5. CASE q \notin g.connected /\ q \notin h.connected
    <3>1. h.netDeadTick[q] <= h.incomplete
      BY <1>3, <2>5 DEF HubOK
    <3>2. ~ (t < ContributesUpTo(g, q))
      BY <1>3, <1>4, <2>1, <2>5, <3>1 DEF ContributesUpTo
    <3>3. Decision(g, q, t) = <<q, NetDead>>
      BY <3>2 DEF Decision
    <3> QED BY <2>2, <2>5, <3>3
  <2> QED BY <1>4, <2>3, <2>4, <2>5
<1> HIDE DEF m, n
<1> QED BY <1>8, <1>9 DEF n

\* A machine that takes part, as far as it has got.
LEMMA FollowsStream ==
  ASSUME NEW h, HubOK(h), NEW s, NEW p, SpokeOK(h, s, p), s.connected,
         p \in h.connected, h.connected # {p}
  PROVE  /\ InOrder(h, s)
         /\ \A q \in Players : Game!IsPrefix(s.queue[q], Stream(h, q))
<1>1. InOrder(h, s)
  BY DEF SpokeOK, PlaysAlone
<1>2. /\ SpokeTyped(s) /\ s.unreceived \in Nat /\ RealGameTick \in Nat
      /\ h.incomplete \in Nat /\ h.sendTimeWrite \in Nat
      /\ h.sendTimeWrite <= h.incomplete /\ s.unreceived <= h.sendTimeWrite
  BY SpokeNumbers, GameSizes, Numbers DEF SpokeOK, HubOK, Consistent, Ordered, Behind
<1>3. ASSUME NEW q \in Players PROVE Game!IsPrefix(s.queue[q], Stream(h, q))
  <2> DEFINE m == Len(s.queue[q])
             n == Larger(0, h.incomplete - RealGameTick)
  <2>1. s.queue[q] = [i \in 1 .. m |-> s.queue[q][i]] /\ m \in Nat
    <3>1. s.queue[q] \in Seq(Words)
      BY <1>2, SpokeNumbers
    <3> QED BY <3>1
  <2>2. /\ Stream(h, q) = [i \in 1 .. n |-> Stream(h, q)[i]]
        /\ \A i \in 1 .. n : Stream(h, q)[i] = Decision(h, q, RealGameTick + i - 1)
    BY Zenon DEF Stream
  <2>3. n \in Nat
    BY <1>2 DEF Larger
  <2>4. m <= n
    <3>1. CASE q \in Absent
      BY <1>1, <2>3, <3>1 DEF InOrder
    <3>2. CASE q \notin Absent
      <4>1. RealGameTick + m = Larger(s.unreceived, RealGameTick)
        BY <1>1, <3>2 DEF InOrder, WriteTick
      <4> HIDE DEF m
      <4> QED BY <1>2, <2>1, <4>1 DEF Larger
    <3> QED BY <3>1, <3>2
  <2>5. ASSUME NEW i \in 1 .. m PROVE s.queue[q][i] = Stream(h, q)[i]
    <3>1. s.queue[q][i] = Decision(h, q, RealGameTick + i - 1)
      BY <1>1, <2>5 DEF InOrder
    <3>2. i \in 1 .. n
      <4> HIDE DEF m, n
      <4> QED BY <2>1, <2>3, <2>4
    <3> HIDE DEF m, n
    <3> QED BY <2>2, <3>1, <3>2
  <2> HIDE DEF m, n
  <2>6. Elements(s.queue[q], m) /\ Elements(Stream(h, q), n)
    BY <2>1, <2>2 DEF Elements
  <2> QED BY <2>1, <2>3, <2>4, <2>5, <2>6, <2>2, PrefixIs
<1> QED BY <1>1, <1>3

\* It gets more of the stream; nothing of its queues is taken back.
LEMMA QueuesGoOn ==
  ASSUME NEW h, NEW g, HubOK(h), HubOK(g), HubGoesOn(h, g),
         NEW s, NEW t, SpokeTyped(s), SpokeTyped(t), InOrder(h, s), InOrder(g, t),
         s.unreceived <= t.unreceived, s.unreceived <= h.sendTimeWrite,
         NEW q \in Players
  PROVE  Game!IsPrefix(s.queue[q], t.queue[q])
<1>1. PICK p, ack, bound : Advances(h, g, p, ack, bound)
  BY DEF HubGoesOn
<1>2. /\ s.unreceived \in Nat /\ t.unreceived \in Nat /\ RealGameTick \in Nat
      /\ h.sendTimeWrite \in Nat /\ Typed(g)
  BY SpokeNumbers, GameSizes, Numbers DEF HubOK, Consistent
<1> DEFINE m == Len(s.queue[q])
           n == Len(t.queue[q])
<1>3. /\ s.queue[q] = [i \in 1 .. m |-> s.queue[q][i]] /\ m \in Nat
      /\ t.queue[q] = [i \in 1 .. n |-> t.queue[q][i]] /\ n \in Nat
  BY SpokeNumbers
<1>4. CASE q \in Absent
  <2>1. m = 0 /\ n = 0
    BY <1>4 DEF InOrder
  <2> DEFINE a == s.queue[q]
             b == t.queue[q]
  <2> HIDE DEF m, n
  <2>2. m <= n /\ m \in Nat /\ n \in Nat /\ \A i \in 1 .. m : FALSE
    BY <2>1
  <2>3. Elements(a, m) /\ Elements(b, n)
    BY <1>3 DEF Elements
  <2> HIDE DEF a, b
  <2>4. Game!IsPrefix(a, b)
    BY <2>2, <2>3, PrefixIs
  <2> QED BY <2>4 DEF a, b
<1>5. CASE q \notin Absent
  <2>1. /\ RealGameTick + m = Larger(s.unreceived, RealGameTick)
        /\ RealGameTick + n = Larger(t.unreceived, RealGameTick)
    BY <1>5 DEF InOrder, WriteTick
  <2>2. ASSUME NEW i \in 1 .. m, i \in 1 .. n PROVE s.queue[q][i] = t.queue[q][i]
    <3>1. s.queue[q][i] = Decision(h, q, RealGameTick + i - 1)
      BY <1>5, <2>2 DEF InOrder
    <3>2. t.queue[q][i] = Decision(g, q, RealGameTick + i - 1)
      BY <1>5, <2>2 DEF InOrder
    <3>3. RealGameTick + i - 1 \in 0 .. h.sendTimeWrite - 1
      <4> HIDE DEF m, n
      <4> QED BY <1>2, <1>3, <2>1, SMTT(30) DEF Larger
    <3> QED BY <1>1, <1>2, <3>1, <3>2, <3>3, SentStays, SMTT(30)
  <2> HIDE DEF m, n
  <2>3. m <= n
    BY <1>2, <1>3, <2>1 DEF Larger
  <2>4. \A i \in 1 .. m : i \in 1 .. n
    BY <1>3, <2>3
  <2>5. Elements(s.queue[q], m) /\ Elements(t.queue[q], n)
    BY <1>3 DEF Elements
  <2> QED BY <1>3, <2>2, <2>3, <2>4, <2>5, PrefixIs
<1> QED BY <1>4, <1>5

\* No player comes back to the game.
LEMMA SomeLeaveOK ==
  ASSUME GameInv, GameInv', GameGoesOn
  PROVE  hub'.connected \subseteq hub.connected /\ TakingPart' \subseteq TakingPart
<1>1. hub'.connected \subseteq hub.connected
  BY Zenon DEF GameGoesOn, HubGoesOn, Advances
<1>2. ASSUME NEW p \in TakingPart' PROVE p \in TakingPart
  <2>1. p \in Observed /\ p \in hub'.connected /\ Listens(spokes'[p])
        /\ hub'.connected # {p}
    BY <1>2 DEF TakingPart
  <2>2. Listens(spokes[p])
    BY <2>1 DEF GameGoesOn, SpokesGoOn
  <2>3. p \in hub.connected /\ hub.connected # {p}
    BY <1>1, <2>1
  <2> QED BY <2>1, <2>2, <2>3 DEF TakingPart
<1> QED BY <1>1, <1>2

\* The names Lockstep has from Star mean the same.
LEMMA GameNames == Game!Players = Players /\ Game!NetDead = NetDead
BY DEF Game!Players, Players, Game!NetDead, NetDead

\* The hub's decisions, as Lockstep sees them.
LEMMA DecidedIsStream ==
  /\ \A q \in Players : Decided(q) = Stream(hub, q)
  /\ \A q \in Players : Decided(q)' = Stream(hub', q)
BY Zenon DEF Decided, Stream, Decision

\* What the hub decides.
LEMMA SomeDecidedOK ==
  ASSUME GameInv, GameInv', GameGoesOn
  PROVE  Game!SomeDecided
<1>1. HubOK(hub) /\ HubOK(hub') /\ HubGoesOn(hub, hub')
  BY DEF GameInv, GameGoesOn
<1>2. ASSUME NEW q \in Players
      PROVE  LET old == [r \in Players |-> Decided(r)][q]
                 new == [r \in Players |-> Decided(r)]'[q]
             IN  /\ Game!IsPrefix(old, new)
                 /\ Len(new) = Len([r \in Players |-> Decided(r)]'[LocalPlayer])
                 /\ \A i \in Len(old) + 1 .. Len(new) :
                      IF new[i] = <<q, NetDead>> THEN q \notin hub'.connected
                                                 ELSE q \in hub.connected
  <2>1. LocalPlayer \in Players
    BY Observers
  <2>2. /\ [r \in Players |-> Decided(r)][q] = Stream(hub, q)
        /\ [r \in Players |-> Decided(r)]'[q] = Stream(hub', q)
        /\ [r \in Players |-> Decided(r)]'[LocalPlayer] = Stream(hub', LocalPlayer)
    BY <2>1, DecidedIsStream
  <2>3. /\ Game!IsPrefix(Stream(hub, q), Stream(hub', q))
        /\ Len(Stream(hub', q)) = Larger(0, hub'.incomplete - RealGameTick)
        /\ \A i \in Len(Stream(hub, q)) + 1 .. Len(Stream(hub', q)) :
             IF Stream(hub', q)[i] = <<q, NetDead>> THEN q \notin hub'.connected
                                                    ELSE q \in hub.connected
    BY <1>1, StreamGoesOn
  <2>4. Len(Stream(hub', LocalPlayer)) = Larger(0, hub'.incomplete - RealGameTick)
    BY <1>1, <2>1, StreamGoesOn
  <2> QED BY <2>2, <2>3, <2>4
<1> QED BY <1>2, GameNames, Zenon DEF Game!SomeDecided

\* What the machines get of it.
LEMMA SomePlayedOK ==
  ASSUME GameInv, GameInv', GameGoesOn
  PROVE  Game!SomePlayed
<1>1. /\ HubOK(hub) /\ HubOK(hub') /\ HubGoesOn(hub, hub')
      /\ SpokesOK(hub, spokes) /\ SpokesOK(hub', spokes')
      /\ SpokesGoOn(hub', spokes, spokes')
  BY DEF GameInv, GameGoesOn
<1>2. ASSUME NEW p \in TakingPart'
      PROVE  /\ [r \in TakingPart |-> spokes[r].queue][p] = spokes[p].queue
             /\ [r \in TakingPart |-> spokes[r].queue]'[p] = spokes'[p].queue
             /\ \A q \in Players : Game!IsPrefix(spokes[p].queue[q], spokes'[p].queue[q])
             /\ \A q \in Players : Game!IsPrefix(spokes'[p].queue[q], Stream(hub', q))
  <2>1. p \in TakingPart
    BY <1>2, SomeLeaveOK
  <2>2. /\ p \in Observed /\ p \in hub'.connected /\ Listens(spokes'[p])
        /\ hub'.connected # {p}
    BY <1>2 DEF TakingPart
  <2>3. /\ p \in hub.connected /\ Listens(spokes[p]) /\ hub.connected # {p}
    BY <2>1 DEF TakingPart
  <2>4. SpokeOK(hub, spokes[p], p) /\ SpokeOK(hub', spokes'[p], p)
    BY <1>1, <2>2 DEF SpokesOK
  <2>5. spokes[p].connected /\ spokes'[p].connected
    BY <2>2, <2>3 DEF Listens
  <2>6. InOrder(hub, spokes[p])
    BY <1>1, <2>3, <2>4, <2>5, FollowsStream
  <2>7. /\ InOrder(hub', spokes'[p])
        /\ \A q \in Players : Game!IsPrefix(spokes'[p].queue[q], Stream(hub', q))
    BY <1>1, <2>2, <2>4, <2>5, FollowsStream
  <2>8. spokes[p].unreceived <= spokes'[p].unreceived
    BY <1>1, <2>2 DEF SpokesGoOn
  <2>9. /\ SpokeTyped(spokes[p]) /\ SpokeTyped(spokes'[p])
        /\ spokes[p].unreceived <= hub.sendTimeWrite
    BY <2>4 DEF SpokeOK, Behind
  <2>10. \A q \in Players : Game!IsPrefix(spokes[p].queue[q], spokes'[p].queue[q])
    BY <1>1, <2>6, <2>7, <2>8, <2>9, QueuesGoOn
  <2> QED BY <1>2, <2>1, <2>7, <2>10
<1>3. ASSUME NEW p \in TakingPart'
      PROVE  /\ \A q \in Players :
                  Game!IsPrefix([r \in TakingPart |-> spokes[r].queue][p][q],
                                [r \in TakingPart |-> spokes[r].queue]'[p][q])
             /\ Game!Follows(p)'
  <2>1. \A q \in Players : [r \in Players |-> Decided(r)]'[q] = Stream(hub', q)
    BY DecidedIsStream
  <2> QED BY <1>2, <2>1, GameNames DEF Game!Follows
<1> QED BY <1>3, GameNames, Zenon DEF Game!SomePlayed

\* The start of a game.
LEMMA GameStartsInLockstep == GameInit => Game!Init
<1> SUFFICES ASSUME GameInit PROVE Game!Init
  OBVIOUS
<1>1. hub.incomplete = 0 /\ hub.connected = Players \ Absent /\ RealGameTick \in Nat
  BY GameSizes DEF GameInit, InitialHub
<1>2. TakingPart \subseteq hub.connected /\ hub.connected \subseteq Players
  BY <1>1 DEF TakingPart
<1>3. ASSUME NEW q \in Players PROVE Decided(q) = <<>>
  <2>1. Larger(0, hub.incomplete - RealGameTick) = 0
    BY <1>1 DEF Larger
  <2> QED BY <2>1 DEF Decided
<1>4. ASSUME NEW p \in TakingPart, NEW q \in Players PROVE spokes[p].queue[q] = <<>>
  BY <1>4 DEF TakingPart, GameInit, InitialSpoke
<1>5. Game!IsPrefix(<<>>, <<>>)
  BY DEF Game!IsPrefix
<1>6. ASSUME NEW p \in TakingPart PROVE Game!Follows(p)
  BY <1>3, <1>4, <1>5, <1>6, GameNames DEF Game!Follows
<1>7. [q \in Players |-> Decided(q)] = [q \in Players |-> <<>>]
  BY <1>3
<1> QED BY <1>2, <1>6, <1>7, GameNames, Zenon DEF Game!Init

\* A step of the game is one of Lockstep.
LEMMA GameStepsInLockstep ==
  GameInv /\ Undisturbed /\ Undisturbed' /\ [GameNext]_vars => Game!Next
BY GameNextOK, SomeLeaveOK, SomeDecidedOK, SomePlayedOK DEF Game!Next, Game!SomeLeave

-----------------------------------------------------------------------------
(***************************************************************************)
(* Theorems.  GameSpec /\ []Undisturbed has every start of a behaviour of  *)
(* GameSpec in which the disturbance has not come yet: each can go on with *)
(* stuttering steps only.                                                  *)
(***************************************************************************)

\* The hub and the modelled spokes keep their types.
THEOREM GameTypes == GameSpec /\ []Undisturbed => []GameTypeOK
BY GameInvariant, GameInvTypes, PTL

\* Every spoke knows whose words are in a packet, however old the packet is and
\* whoever has been dropped since, and none of its assertions fails.
THEOREM SpokesStayInStep == GameSpec /\ []Undisturbed => []SpokesInStep
BY GameInvariant, GameInvInStep, PTL

\* The spokes keep the assumptions that the module StarHub makes of them.
THEOREM SpokesKeepAssumptions == GameSpec /\ []Undisturbed => []HubAssumptionsMet
BY GameInvariant, GameInvAssumptions, PTL

\* All machines that take part play the same game.
THEOREM MachinesInLockstep == GameSpec /\ []Undisturbed => InLockstep
<1>1. GameInit => Game!Init
  BY GameStartsInLockstep
<1>2. GameInv /\ Undisturbed /\ Undisturbed' /\ [GameNext]_vars => [Game!Next]_(Game!vars)
  BY GameStepsInLockstep
<1> QED BY <1>1, <1>2, GameInvariant, PTL DEF GameSpec, InLockstep, Game!Spec
=============================================================================
