---------------------------- MODULE StarHubProofs ----------------------------
(***************************************************************************)
(* Proofs about the hub, for every number of players, queue size, window   *)
(* and period.                                                             *)
(*                                                                         *)
(* The invariant is Consistent(hub).  The helpers of StarHub map hub       *)
(* states to hub states, so each gets a lemma of its own: from a state as  *)
(* it is where the helper is called to what the caller relies on.  For     *)
(* player_acknowledged_up_to_tick and                                      *)
(* player_provided_flags_from_tick_to_tick that is less than Consistent:   *)
(* make_player_netdead calls both in the middle of its own update, when    *)
(* the waiting sets still hold a player that is no longer connected.       *)
(***************************************************************************)
EXTENDS StarHub, FiniteSetTheorems, WellFoundedInduction, TLAPS

HubFields ==
  {"connected", "addressKnown", "routable", "sentTo", "unacknowledged",
   "netDeadTick", "silence", "flags", "flagsRead", "flagsWrite", "lateRead",
   "lateWrite", "disposition", "reflected", "read", "write", "sendTimeWrite",
   "incomplete", "unsent", "lagging", "sinceUpdate", "sinceSent", "scan",
   "dropped", "active", "postGame", "phase", "failed"}

Typed(h) == DOMAIN h = HubFields /\ IsHub(h)

\* The order of the cursors of the hub and of each player's queues.
Ordered(h) ==
  /\ h.read <= h.incomplete /\ h.incomplete <= h.write
  /\ h.write - h.read <= QueueSize
  /\ h.sendTimeWrite <= h.incomplete
  /\ \A q \in Players :
       /\ h.flagsWrite[q] <= h.write
       /\ h.flagsRead[q] = Smaller(h.read, h.flagsWrite[q])
       /\ h.lateRead[q] <= h.lateWrite[q] /\ h.lateWrite[q] <= h.flagsWrite[q]
       /\ h.netDeadTick[q] <= h.flagsWrite[q]
  /\ \A q \in h.connected :
       /\ h.read <= h.unacknowledged[q] /\ h.unacknowledged[q] <= h.incomplete
       /\ h.incomplete <= h.flagsWrite[q]

\* Whom the hub waits for at tick t, p left aside.
Others(h, p, t) ==
  {q \in h.connected \ {p} :
     (IF t < h.incomplete THEN h.unacknowledged[q] ELSE h.flagsWrite[q]) <= t}

Awaited(h, t) ==
  IF t < h.incomplete THEN {p \in h.connected : h.unacknowledged[p] <= t}
                      ELSE {p \in h.connected : h.flagsWrite[p] <= t}

Waiting(h) ==
  /\ \A t \in h.read .. h.write - 1 :
       /\ h.disposition[t] = Awaited(h, t)
       /\ h.connected # {} => h.disposition[t] # {}
  /\ h.connected = {} => h.incomplete = h.write

\* Only the packets of connected players find their sender.
Routed(h) ==
  /\ h.routable \cap h.sentTo \subseteq h.connected
  /\ h.sentTo \subseteq h.addressKnown

\* What the queues hold below their write ticks.
Filled(h) ==
  \A p \in Players : \A t \in 0 .. h.flagsWrite[p] - 1 :
    h.flags[p][t] \in {t, MadeUp}

Asserted(h) == h.failed \subseteq {"sentBefore", "lateQueueFull"}

Consistent(h) ==
  Typed(h) /\ Ordered(h) /\ Waiting(h) /\ Routed(h) /\ Filled(h) /\ Asserted(h)

HubInvariant == Consistent(hub)

-----------------------------------------------------------------------------
(***************************************************************************)
(* Facts about the constants and about sets of ticks                       *)
(***************************************************************************)

\* The constants and sets of the model, as numbers.
LEMMA Sizes ==
  /\ MaxTick \in Nat /\ QueueSize \in Nat /\ QueueSize > 0
  /\ NumPlayers \in Nat /\ MinimumSendPeriod \in Nat /\ RecoverySendPeriod \in Nat
  /\ LocalPlayer \in Players /\ Players \subseteq Nat
  /\ \A t \in Ticks : t \in Nat /\ t <= MaxTick
  /\ \A t \in Nat : t <= MaxTick => t \in Ticks
  /\ 0 \in Ticks
  /\ Never \notin Ticks
  /\ MaxSilence \in Nat /\ MaxSilence > 0
BY StarConstants, HubConstants DEF Players, Ticks, Never, MaxSilence, Larger

\* The numbers of a hub state are natural numbers.
LEMMA Numbers ==
  ASSUME NEW h, Typed(h)
  PROVE  /\ h.read \in Ticks /\ h.write \in Ticks /\ h.sendTimeWrite \in Ticks
         /\ h.incomplete \in Ticks /\ h.unsent \in Ticks
         /\ h.read \in Nat /\ h.write \in Nat /\ h.sendTimeWrite \in Nat
         /\ h.incomplete \in Nat /\ h.unsent \in Nat
         /\ h.connected \subseteq Players
         /\ \A q \in Players :
              /\ h.flagsRead[q] \in Ticks /\ h.flagsWrite[q] \in Ticks
              /\ h.lateRead[q] \in Ticks /\ h.lateWrite[q] \in Ticks
              /\ h.unacknowledged[q] \in Nat /\ h.netDeadTick[q] \in Int
              /\ h.flagsRead[q] \in Nat /\ h.flagsWrite[q] \in Nat
              /\ h.lateRead[q] \in Nat /\ h.lateWrite[q] \in Nat
BY Sizes DEF Typed, IsHub

\* A set of ticks that has with each tick all from "a" up to it is an interval,
\* which is what its cardinality says it is.
LEMMA InitialSegment ==
  ASSUME NEW a \in Nat, NEW b \in Nat, a <= b,
         NEW S, S \subseteq a .. b - 1,
         \A t \in S : a .. t \subseteq S
  PROVE  /\ Cardinality(S) \in Nat
         /\ S = a .. a + Cardinality(S) - 1
         /\ a + Cardinality(S) <= b
<1> DEFINE T == {t \in a .. b : t \notin S}
<1>1. T \subseteq Nat /\ b \in T
  OBVIOUS
<1>2. \E k \in T : \A t \in T : ~ (<<t, k>> \in OpToRel(<, Nat))
  <2> HIDE DEF T
  <2> QED BY <1>1, WFMin, NatLessThanWellFounded, Zenon
<1>3. PICK k \in T : \A t \in T : ~ (t < k)
  BY <1>1, <1>2 DEF OpToRel
<1>4. k \in a .. b /\ k \notin S
  BY <1>3
<1>5. S = a .. k - 1
  <2>1. ASSUME NEW t \in S PROVE t \in a .. k - 1
    BY <2>1, <1>4
  <2>2. ASSUME NEW t \in a .. k - 1 PROVE t \in S
    BY <2>2, <1>3, <1>4
  <2> QED BY <2>1, <2>2
<1>6. Cardinality(S) = k - a
  <2>1. a \in Int /\ k - 1 \in Int /\ k \in Int /\ a <= k
    BY <1>4
  <2>2. Cardinality(a .. k - 1) = IF a > k - 1 THEN 0 ELSE k - 1 - a + 1
    BY <2>1, FS_Interval, Zenon
  <2> QED BY <2>1, <2>2, <1>5
<1> QED BY <1>4, <1>5, <1>6

-----------------------------------------------------------------------------
(***************************************************************************)
(* player_acknowledged_up_to_tick                                          *)
(***************************************************************************)

\* A state in which p, connected or just dropped, has acknowledged up to ack.
ReadyToAcknowledge(h, p, ack) ==
  /\ Typed(h) /\ Ordered(h)
  /\ h.read <= h.unacknowledged[p] /\ h.unacknowledged[p] <= ack
  /\ ack <= h.incomplete
  /\ \A t \in h.read .. h.write - 1 : h.disposition[t] \ {p} = Others(h, p, t)
  /\ \A t \in h.read .. ack - 1 :
       /\ p \in h.disposition[t] <=> h.unacknowledged[p] <= t
       /\ h.disposition[t] # {}
  /\ \A t \in ack .. h.write - 1 :
       /\ p \in h.disposition[t] <=>
            p \in h.connected /\ (t < h.incomplete \/ h.flagsWrite[p] <= t)
       /\ h.connected # {} => h.disposition[t] # {}
  /\ h.connected = {} => h.incomplete = h.write

\* The ticks that leave the queues are the oldest ones.
LEMMA EmptiedTicks ==
  ASSUME NEW h, NEW p \in Players, NEW ack \in Ticks, ReadyToAcknowledge(h, p, ack)
  PROVE  LET emptied == Emptied(h, p, h.unacknowledged[p] .. ack - 1)
             n       == Cardinality(emptied)
         IN  /\ n \in Nat /\ h.read + n <= ack
             /\ emptied = h.read .. h.read + n - 1
<1> DEFINE emptied == Emptied(h, p, h.unacknowledged[p] .. ack - 1)
<1>1. /\ h.read \in Nat /\ ack \in Nat /\ h.read <= ack
      /\ h.unacknowledged[p] \in Nat /\ h.read <= h.unacknowledged[p]
      /\ h.incomplete \in Nat /\ h.write \in Nat
      /\ ack <= h.incomplete /\ h.incomplete <= h.write
  BY Sizes, Numbers DEF ReadyToAcknowledge, Ordered
<1>2. emptied \subseteq h.read .. ack - 1
  BY <1>1 DEF Emptied
<1>3. ASSUME NEW t \in emptied, NEW s \in h.read .. t
      PROVE  s \in emptied
  <2> HIDE DEF emptied
  <2>1. /\ t \in h.read .. ack - 1 /\ t \in h.read .. h.write - 1
        /\ s \in h.read .. ack - 1 /\ s \in h.read .. h.write - 1
        /\ s \in Nat /\ t \in Nat /\ s <= t /\ t < h.incomplete /\ s < h.incomplete
    BY <1>1, <1>2, <1>3
  <2>2. h.disposition[t] \ {p} = {} /\ h.disposition[t] \ {p} = Others(h, p, t)
    BY <1>3, <2>1 DEF emptied, Emptied, ReadyToAcknowledge
  <2>3. \A q \in h.connected : h.unacknowledged[q] \in Int
    BY Numbers DEF ReadyToAcknowledge
  <2>4. Others(h, p, s) \subseteq Others(h, p, t)
    BY <2>1, <2>3 DEF Others
  <2>5. h.disposition[s] \ {p} = {} /\ h.disposition[s] # {}
    BY <2>1, <2>2, <2>4 DEF ReadyToAcknowledge
  <2>6. p \in h.disposition[s]
    BY <2>5
  <2>7. h.unacknowledged[p] <= s
    BY <2>1, <2>6 DEF ReadyToAcknowledge
  <2> QED BY <1>1, <2>1, <2>5, <2>7 DEF emptied, Emptied
<1>4. \A t \in emptied : h.read .. t \subseteq emptied
  BY <1>3
<1> HIDE DEF emptied
<1> QED BY <1>1, <1>2, <1>4, InitialSegment DEF emptied

\* player_acknowledged_up_to_tick takes the ticks acknowledged by all from
\* the front of its three queues and each player's flags queue, leaving them
\* aligned; p, whose acknowledgement it is, need not be connected any more.
LEMMA AcknowledgementTakenConsistent ==
  ASSUME NEW h, NEW p \in Players, NEW ack \in Ticks,
         ReadyToAcknowledge(h, p, ack), Routed(h), Filled(h), Asserted(h)
  PROVE  Consistent(AcknowledgementTaken(h, p, ack))
<1> DEFINE acked   == h.unacknowledged[p] .. ack - 1
           emptied == Emptied(h, p, acked)
           n       == Cardinality(emptied)
           g       == AcknowledgementTaken(h, p, ack)
<1>1. /\ DOMAIN h = HubFields /\ IsHub(h) /\ Ordered(h) /\ Typed(h)
      /\ h.unacknowledged[p] <= ack /\ ack <= h.incomplete
      /\ h.read <= h.unacknowledged[p]
  BY DEF ReadyToAcknowledge, Typed
<1>2. /\ n \in Nat /\ h.read + n <= ack
      /\ emptied = h.read .. h.read + n - 1
  BY EmptiedTicks
<1>3. /\ h.read \in Nat /\ ack \in Nat /\ h.incomplete \in Nat /\ h.write \in Nat
      /\ \A q \in Players : /\ h.unacknowledged[q] \in Nat
                            /\ h.flagsWrite[q] \in Nat /\ h.flagsRead[q] \in Nat
      /\ h.connected \subseteq Players
      /\ h.read <= h.incomplete /\ h.incomplete <= h.write
  BY <1>1, Sizes, Numbers DEF Ordered
<1>4. acked \subseteq h.read .. h.write - 1 /\ \A t \in acked : t \in Nat
  BY <1>1, <1>3
<1> HIDE DEF g, n, emptied, acked
<1>5. h.write \in Ticks /\ h.read + n \in Ticks /\ h.read .. h.write - 1 \subseteq Ticks
  <2>1. h.write <= MaxTick /\ h.write \in Ticks
    BY <1>1, Numbers, Sizes
  <2>2. h.read + n \in Nat /\ h.read + n <= MaxTick
    BY <1>1, <1>2, <1>3, <2>1, Sizes
  <2>3. \A t \in h.read .. h.write - 1 : t \in Nat /\ t <= MaxTick
    BY <1>3, <2>1, Sizes
  <2> QED BY <2>1, <2>2, <2>3, Sizes
<1>0. DOMAIN h = HubFields
  BY <1>1
<1>6. /\ DOMAIN g = HubFields
      /\ g.unacknowledged = [h.unacknowledged EXCEPT ![p] = ack]
      /\ g.flagsRead = [q \in Players |->
                          Smaller(h.flagsRead[q] + n, h.flagsWrite[q])]
      /\ g.disposition = [t \in Ticks |->
           IF t \in acked THEN h.disposition[t] \ {p} ELSE h.disposition[t]]
      /\ g.reflected = [t \in Ticks |->
           IF t \in emptied THEN {} ELSE h.reflected[t]]
      /\ g.read = h.read + n
      /\ g.failed = h.failed
           \cup Assert("waitingForAck", \A t \in acked : p \in h.disposition[t])
           \cup Assert("sentBefore", p # LocalPlayer /\ acked # {}
                                       => ack <= h.sendTimeWrite)
           \cup Assert("dequeueInOrder", emptied = h.read .. h.read + n - 1)
           \cup Assert("queuesAligned", emptied # {} =>
                  \A q \in Players : h.flagsRead[q] < h.flagsWrite[q]
                                       => h.flagsRead[q] = h.read)
  BY <1>0 DEF g, n, emptied, acked, AcknowledgementTaken, CheckForCompletion,
             HubFields
<1>7. /\ g.connected = h.connected /\ g.addressKnown = h.addressKnown
      /\ g.routable = h.routable /\ g.sentTo = h.sentTo
      /\ g.netDeadTick = h.netDeadTick /\ g.silence = [h.silence EXCEPT ![p] = 0]
      /\ g.flags = h.flags /\ g.flagsWrite = h.flagsWrite
      /\ g.lateRead = h.lateRead /\ g.lateWrite = h.lateWrite
      /\ g.write = h.write /\ g.sendTimeWrite = h.sendTimeWrite
      /\ g.incomplete = h.incomplete
  BY <1>0 DEF g, AcknowledgementTaken, CheckForCompletion, HubFields
<1>8. /\ g.unsent = h.unsent /\ g.lagging = h.lagging
      /\ g.sinceUpdate = h.sinceUpdate /\ g.sinceSent = h.sinceSent
      /\ g.scan = h.scan /\ g.dropped = h.dropped
      /\ g.active \in {h.active, FALSE}
      /\ g.postGame = h.postGame /\ g.phase = h.phase
  BY <1>0 DEF g, AcknowledgementTaken, CheckForCompletion, HubFields
<1>9. \A q \in Players : h.flagsRead[q] = Smaller(h.read, h.flagsWrite[q])
  BY <1>1 DEF Ordered
<1>10. g.failed \subseteq h.failed \cup {"sentBefore"}
  <2>1. \A t \in acked : p \in h.disposition[t]
    <3> SUFFICES ASSUME NEW t \in acked PROVE p \in h.disposition[t]
      OBVIOUS
    <3>1. t \in h.read .. ack - 1 /\ h.unacknowledged[p] <= t
      BY <1>1, <1>3 DEF acked
    <3> QED BY <3>1 DEF ReadyToAcknowledge
  <2>2. \A q \in Players : h.flagsRead[q] < h.flagsWrite[q]
                             => h.flagsRead[q] = h.read
    BY <1>3, <1>9 DEF Smaller
  <2> QED BY <1>2, <1>6, <2>1, <2>2 DEF Assert
<1>11. Typed(g)
  <2>1. g.flagsRead \in [Players -> Ticks]
    <3>1. \A q \in Players : h.flagsWrite[q] \in Ticks
      BY <1>1, Numbers
    <3>2. \A q \in Players : Smaller(h.flagsRead[q] + n, h.flagsWrite[q]) \in Ticks
      BY <1>2, <1>3, <3>1, Sizes, SMTT(40) DEF Smaller
    <3> QED BY <1>6, <3>2
  <2>2. g.unacknowledged \in [Players -> Ticks]
    BY <1>1, <1>6 DEF IsHub
  <2>3. g.disposition \in [Ticks -> SUBSET Players]
    BY <1>1, <1>6 DEF IsHub
  <2>4. g.reflected \in [Ticks -> SUBSET Players]
    BY <1>1, <1>6 DEF IsHub
  <2>5. g.silence \in [Players -> 0 .. MaxSilence]
    BY <1>1, <1>7, Sizes DEF IsHub
  <2>6. g.active \in BOOLEAN
    BY <1>1, <1>8, Zenon DEF IsHub
  <2>7. g.failed \subseteq Assertions
    BY <1>1, <1>10 DEF IsHub, Assertions
  <2> QED BY <1>1, <1>5, <1>6, <1>7, <1>8, <2>1, <2>2, <2>3, <2>4, <2>5, <2>6,
             <2>7, Zenon DEF Typed, IsHub
<1>12. Waiting(g)
  <2>1. ASSUME NEW t \in g.read .. g.write - 1
        PROVE  /\ g.disposition[t] = Awaited(g, t)
               /\ g.connected # {} => g.disposition[t] # {}
    <3>1. t \in h.read .. h.write - 1 /\ t \in Ticks /\ t \in Nat /\ t \notin emptied
      BY <1>2, <1>3, <1>5, <1>6, <1>7, <2>1
    <3>2. h.disposition[t] \ {p} = Others(h, p, t)
      BY <3>1 DEF ReadyToAcknowledge
    <3>3. Others(g, p, t) = Others(h, p, t)
      BY <1>3, <1>6, <1>7 DEF Others
    <3>4. CASE t \in acked
      <4>1. g.disposition[t] = Others(g, p, t) /\ h.unacknowledged[p] <= t /\ t < ack
        BY <1>1, <1>3, <1>6, <3>1, <3>2, <3>3, <3>4 DEF acked
      <4>2. g.unacknowledged[p] = ack /\ t < g.incomplete
        BY <1>1, <1>3, <1>6, <1>7, <4>1, <3>1 DEF IsHub
      <4>3. Awaited(g, t) = Others(g, p, t)
        BY <1>3, <3>1, <4>1, <4>2 DEF Awaited, Others
      <4>4. h.disposition[t] \ {p} # {}
        BY <3>1, <3>4 DEF emptied, Emptied
      <4> QED BY <4>1, <4>3, <4>4, <3>2, <3>3
    <3>5. CASE t \notin acked /\ t < ack
      <4>1. g.disposition[t] = h.disposition[t]
        BY <1>6, <3>1, <3>5
      <4>2. t < h.unacknowledged[p] /\ t \in h.read .. ack - 1
        BY <1>3, <3>1, <3>5 DEF acked
      <4>3. p \notin h.disposition[t] /\ h.disposition[t] # {}
        BY <1>3, <3>1, <4>2 DEF ReadyToAcknowledge
      <4>4. g.unacknowledged[p] = ack /\ t < g.incomplete /\ ~ (ack <= t)
        BY <1>1, <1>3, <1>6, <1>7, <3>1, <3>5, SMTT(30) DEF IsHub
      <4>5. Awaited(g, t) = Others(g, p, t)
        BY <4>4 DEF Awaited, Others
      <4> QED BY <4>1, <4>3, <4>5, <3>2, <3>3
    <3>6. CASE ~ (t < ack)
      <4>1. g.disposition[t] = h.disposition[t] /\ t \in ack .. h.write - 1
        BY <1>3, <1>6, <3>1, <3>6 DEF acked
      <4>2. /\ p \in h.disposition[t] <=>
                 p \in h.connected /\ (t < h.incomplete \/ h.flagsWrite[p] <= t)
            /\ h.connected # {} => h.disposition[t] # {}
        BY <4>1 DEF ReadyToAcknowledge
      <4>3. g.unacknowledged[p] = ack /\ ack <= t
        BY <1>1, <1>3, <1>6, <3>1, <3>6 DEF IsHub
      <4>4. /\ Awaited(g, t) \ {p} = Others(g, p, t)
            /\ p \in Awaited(g, t) <=>
                 p \in h.connected /\ (t < h.incomplete \/ h.flagsWrite[p] <= t)
        BY <1>7, <4>3 DEF Awaited, Others
      <4> QED BY <1>7, <3>2, <3>3, <4>1, <4>2, <4>4
    <3> QED BY <3>4, <3>5, <3>6
  <2>2. g.connected = {} => g.incomplete = g.write
    BY <1>7 DEF ReadyToAcknowledge
  <2> QED BY <2>1, <2>2 DEF Waiting
<1>13. Ordered(g)
  <2>1. \A q \in Players : g.flagsRead[q] = Smaller(g.read, g.flagsWrite[q])
    BY <1>2, <1>3, <1>6, <1>7, <1>9, SMTT(30) DEF Smaller
  <2>2. ASSUME NEW q \in g.connected
        PROVE  /\ g.read <= g.unacknowledged[q]
               /\ g.unacknowledged[q] <= g.incomplete
    <3>1. q \in Players /\ q \in h.connected /\ h.unacknowledged[q] \in Nat
      BY <1>3, <1>7, <2>2
    <3>2. CASE q = p
      BY <1>1, <1>2, <1>6, <1>7, <3>1, <3>2 DEF IsHub
    <3>3. CASE q # p
      <4>1. g.unacknowledged[q] = h.unacknowledged[q]
        BY <1>1, <1>6, <3>1, <3>3 DEF IsHub
      <4>2. h.read <= h.unacknowledged[q] /\ h.unacknowledged[q] <= h.incomplete
        BY <1>1, <3>1 DEF Ordered
      <4>3. CASE n = 0
        BY <1>3, <1>6, <1>7, <4>1, <4>2, <4>3
      <4>4. CASE n # 0
        <5> DEFINE t == h.read + n - 1
        <5>1. t \in emptied /\ t \in Nat /\ t \in h.read .. h.write - 1
              /\ t < h.incomplete
          BY <1>1, <1>2, <1>3, <4>4
        <5>2. Others(h, p, t) = {}
          BY <5>1 DEF emptied, Emptied, ReadyToAcknowledge
        <5>3. ~ (h.unacknowledged[q] <= t)
          BY <3>1, <3>3, <5>1, <5>2 DEF Others
        <5> QED BY <1>2, <1>3, <1>6, <1>7, <3>1, <4>1, <4>2, <5>3
      <4> QED BY <4>3, <4>4
    <3> QED BY <3>2, <3>3
  <2>3. g.read <= g.incomplete /\ g.write - g.read <= QueueSize
    BY <1>1, <1>2, <1>3, <1>6, <1>7, Sizes, SMTT(40) DEF Ordered
  <2> QED BY <1>1, <1>7, <2>1, <2>2, <2>3 DEF Ordered
<1>14. Routed(g) /\ Filled(g)
  BY <1>7 DEF Routed, Filled
<1>15. Asserted(g)
  BY <1>10 DEF Asserted
<1> QED BY <1>11, <1>12, <1>13, <1>14, <1>15 DEF Consistent, g

\* p is connected: the handler's case.
LEMMA PlayerAcknowledgedConsistent ==
  ASSUME NEW h, Consistent(h), NEW p \in h.connected, NEW ack \in Ticks,
         ack <= h.incomplete
  PROVE  /\ Consistent(PlayerAcknowledged(h, p, ack))
         /\ p \in PlayerAcknowledged(h, p, ack).connected
<1>1. /\ Typed(h) /\ Ordered(h) /\ DOMAIN h = HubFields
      /\ Routed(h) /\ Filled(h) /\ Asserted(h)
  BY DEF Consistent, Typed
<1>2. /\ p \in Players /\ ack \in Nat /\ h.incomplete \in Nat
      /\ h.read \in Nat /\ h.write \in Nat
      /\ \A q \in Players : h.unacknowledged[q] \in Nat /\ h.flagsWrite[q] \in Nat
      /\ h.connected \subseteq Players
  BY <1>1, Numbers, Sizes
<1>3. CASE ack < h.unacknowledged[p]
  BY <1>3 DEF PlayerAcknowledged
<1>4. CASE ~ (ack < h.unacknowledged[p])
  <2>1. /\ h.read <= h.unacknowledged[p] /\ h.unacknowledged[p] <= ack
        /\ h.read <= h.incomplete /\ h.incomplete <= h.write
    BY <1>1, <1>2, <1>4 DEF Ordered
  <2>2. ASSUME NEW t \in h.read .. h.write - 1
        PROVE  /\ h.disposition[t] \ {p} = Others(h, p, t)
               /\ t < h.incomplete =>
                    (p \in h.disposition[t] <=> h.unacknowledged[p] <= t)
               /\ ~ (t < h.incomplete) =>
                    (p \in h.disposition[t] <=> h.flagsWrite[p] <= t)
               /\ h.disposition[t] # {}
    BY <2>2 DEF Consistent, Waiting, Awaited, Others
  <2>3. ReadyToAcknowledge(h, p, ack)
    <3>1. \A t \in h.read .. h.write - 1 : h.disposition[t] \ {p} = Others(h, p, t)
      BY <2>2
    <3>2. \A t \in h.read .. ack - 1 :
            /\ p \in h.disposition[t] <=> h.unacknowledged[p] <= t
            /\ h.disposition[t] # {}
      <4> SUFFICES ASSUME NEW t \in h.read .. ack - 1
                   PROVE  /\ p \in h.disposition[t] <=> h.unacknowledged[p] <= t
                          /\ h.disposition[t] # {}
        OBVIOUS
      <4>1. t \in h.read .. h.write - 1 /\ t < h.incomplete
        BY <1>2, <2>1
      <4> QED BY <2>2, <4>1
    <3>3. \A t \in ack .. h.write - 1 :
            /\ p \in h.disposition[t] <=>
                 p \in h.connected /\ (t < h.incomplete \/ h.flagsWrite[p] <= t)
            /\ h.connected # {} => h.disposition[t] # {}
      <4> SUFFICES ASSUME NEW t \in ack .. h.write - 1
                   PROVE  /\ p \in h.disposition[t] <=>
                               t < h.incomplete \/ h.flagsWrite[p] <= t
                          /\ h.disposition[t] # {}
        OBVIOUS
      <4>1. /\ t \in h.read .. h.write - 1
            /\ t < h.incomplete => h.unacknowledged[p] <= t
        BY <1>2, <2>1
      <4>2. h.disposition[t] # {}
        BY <2>2, <4>1
      <4>3. CASE t < h.incomplete
        BY <2>2, <4>1, <4>3
      <4>4. CASE ~ (t < h.incomplete)
        BY <2>2, <4>1, <4>4
      <4> QED BY <4>2, <4>3, <4>4
    <3> QED BY <1>1, <2>1, <3>1, <3>2, <3>3 DEF ReadyToAcknowledge
  <2>4. Consistent(AcknowledgementTaken(h, p, ack))
    BY <1>1, <1>2, <2>3, AcknowledgementTakenConsistent
  <2>5. AcknowledgementTaken(h, p, ack).connected = h.connected
    BY <1>1 DEF AcknowledgementTaken, CheckForCompletion, HubFields
  <2> QED BY <1>4, <2>4, <2>5 DEF PlayerAcknowledged
<1> QED BY <1>3, <1>4

-----------------------------------------------------------------------------
(***************************************************************************)
(* player_provided_flags_from_tick_to_tick                                 *)
(***************************************************************************)

\* A state in which p, connected or just dropped, provides first .. last - 1.
ReadyToProvide(h, p, first, last) ==
  /\ Typed(h)
  /\ first \in Ticks /\ last \in Ticks
  /\ h.read <= h.incomplete /\ h.incomplete <= first
  /\ first <= last /\ first <= h.write
  /\ h.write - h.read <= QueueSize /\ last - h.read <= QueueSize
  /\ IF p \in h.connected THEN h.flagsWrite[p] = last ELSE h.write = last
  /\ \A q \in h.connected \ {p} :
       /\ h.unacknowledged[q] <= h.incomplete
       /\ h.incomplete <= h.flagsWrite[q] /\ h.flagsWrite[q] <= h.write
  /\ p \in h.connected => h.unacknowledged[p] <= h.incomplete
  /\ \A t \in h.incomplete .. h.write - 1 :
       /\ h.disposition[t] \ {p} = {q \in h.connected \ {p} : h.flagsWrite[q] <= t}
       /\ p \in h.disposition[t] <=> first <= t
       /\ h.disposition[t] # {}

\* The ticks that become complete are the first incomplete ones.
LEMMA CompletedTicks ==
  ASSUME NEW h, NEW p \in Players, NEW first, NEW last,
         ReadyToProvide(h, p, first, last)
  PROVE  LET waiting   == [t \in Ticks |-> IF h.write <= t /\ t < last
                                           THEN h.connected ELSE h.disposition[t]]
             completed == Completed(waiting, p, first .. last - 1)
             n         == Cardinality(completed)
         IN  /\ n \in Nat /\ first + n <= last
             /\ completed = h.incomplete .. h.incomplete + n - 1
             /\ n # 0 => first = h.incomplete
             /\ \A t \in h.incomplete .. Larger(h.write, last) - 1 :
                  /\ waiting[t] \ {p} =
                       {q \in h.connected \ {p} : h.flagsWrite[q] <= t}
                  /\ h.connected # {} => waiting[t] # {}
                  /\ t < first => p \notin waiting[t]
                  /\ first <= t /\ t < last =>
                       (p \in waiting[t] <=> p \in h.connected \/ t < h.write)
                  /\ last <= t => p \in waiting[t]
<1> DEFINE waiting   == [t \in Ticks |-> IF h.write <= t /\ t < last
                                         THEN h.connected ELSE h.disposition[t]]
           completed == Completed(waiting, p, first .. last - 1)
           n         == Cardinality(completed)
           Slow(t)   == {q \in h.connected \ {p} : h.flagsWrite[q] <= t}
<1>1. /\ h.incomplete \in Nat /\ h.write \in Nat /\ first \in Nat /\ last \in Nat
      /\ \A q \in Players : h.flagsWrite[q] \in Nat
      /\ h.connected \subseteq Players
      /\ h.incomplete <= first /\ first <= last /\ first <= h.write
      /\ h.write <= MaxTick /\ last <= MaxTick /\ MaxTick \in Nat
  BY Sizes, Numbers DEF ReadyToProvide
<1>2. ASSUME NEW t \in h.incomplete .. Larger(h.write, last) - 1
      PROVE  /\ t \in Nat /\ t \in Ticks
             /\ waiting[t] \ {p} = Slow(t)
             /\ h.connected # {} => waiting[t] # {}
             /\ t < first => p \notin waiting[t] /\ waiting[t] # {}
             /\ first <= t /\ t < last =>
                  (p \in waiting[t] <=> p \in h.connected \/ t < h.write)
             /\ last <= t => p \in waiting[t]
  <2>1. /\ t \in Nat /\ t <= MaxTick /\ h.incomplete <= t
        /\ t < h.write \/ t < last
    BY <1>1 DEF Larger
  <2>2. t \in Ticks
    BY <2>1, Sizes
  <2>3. CASE t < h.write
    <3>1. waiting[t] = h.disposition[t] /\ t \in h.incomplete .. h.write - 1
      BY <1>1, <2>1, <2>2, <2>3
    <3>2. /\ h.disposition[t] \ {p} = Slow(t)
          /\ p \in h.disposition[t] <=> first <= t
          /\ h.disposition[t] # {}
      BY <3>1 DEF ReadyToProvide
    <3> QED BY <1>1, <2>1, <2>2, <2>3, <3>1, <3>2
  <2>4. CASE h.write <= t
    <3>1. waiting[t] = h.connected /\ t < last /\ first <= t
      BY <1>1, <2>1, <2>2, <2>4
    <3>2. \A q \in h.connected \ {p} : h.flagsWrite[q] <= t
      BY <1>1, <2>1, <2>4 DEF ReadyToProvide
    <3> QED BY <1>1, <2>1, <2>2, <2>4, <3>1, <3>2
  <2> QED BY <1>1, <2>1, <2>3, <2>4
<1>3. ASSUME NEW t \in first .. last - 1, NEW s \in h.incomplete .. t,
             waiting[t] \ {p} = {}
      PROVE  waiting[s] \ {p} = {} /\ first <= s
  <2>1. /\ t \in h.incomplete .. Larger(h.write, last) - 1
        /\ s \in h.incomplete .. Larger(h.write, last) - 1
        /\ s \in Nat /\ t \in Nat /\ s <= t
    BY <1>1, <1>3 DEF Larger
  <2> HIDE DEF waiting
  <2>2. Slow(s) \subseteq Slow(t)
    BY <1>1, <2>1
  <2>3. Slow(s) = {} /\ waiting[s] \ {p} = {}
    BY <1>2, <1>3, <2>1, <2>2
  <2>4. CASE s < first
    BY <1>2, <2>1, <2>3, <2>4
  <2> QED BY <1>1, <2>1, <2>3, <2>4
<1> HIDE DEF waiting
<1>4. completed \subseteq first .. last - 1
  BY DEF Completed
<1>5. \A t \in completed : first .. t \subseteq completed
  <2> SUFFICES ASSUME NEW t \in completed, NEW s \in first .. t
               PROVE  s \in completed
    OBVIOUS
  <2>1. t \in first .. last - 1 /\ waiting[t] \ {p} = {}
    BY DEF Completed
  <2>2. s \in h.incomplete .. t /\ s \in first .. last - 1
    BY <1>1, <2>1
  <2> QED BY <1>3, <2>1, <2>2 DEF Completed
<1> HIDE DEF completed
<1>6. n \in Nat /\ completed = first .. first + n - 1 /\ first + n <= last
  BY <1>1, <1>4, <1>5, InitialSegment
<1> HIDE DEF n
<1>7. n # 0 => first = h.incomplete
  <2> SUFFICES ASSUME n # 0 PROVE first = h.incomplete
    OBVIOUS
  <2>1. first \in completed
    BY <1>1, <1>6
  <2>2. first \in first .. last - 1 /\ waiting[first] \ {p} = {}
    BY <2>1, <1>4 DEF completed, Completed
  <2>3. h.incomplete \in h.incomplete .. first
    BY <1>1
  <2> QED BY <1>1, <1>3, <2>2, <2>3
<1>8. completed = h.incomplete .. h.incomplete + n - 1
  BY <1>1, <1>6, <1>7
<1>9. \A t \in h.incomplete .. Larger(h.write, last) - 1 :
         /\ waiting[t] \ {p} = Slow(t)
         /\ h.connected # {} => waiting[t] # {}
         /\ t < first => p \notin waiting[t]
         /\ first <= t /\ t < last =>
              (p \in waiting[t] <=> p \in h.connected \/ t < h.write)
         /\ last <= t => p \in waiting[t]
  BY <1>2
<1> QED BY <1>6, <1>7, <1>8, <1>9 DEF n, completed, waiting

\* What its callers rely on.
Provided(h, g, p) ==
  /\ Typed(g)
  /\ g.connected = h.connected /\ g.addressKnown = h.addressKnown
  /\ g.routable = h.routable /\ g.sentTo = h.sentTo
  /\ g.unacknowledged = h.unacknowledged /\ g.netDeadTick = h.netDeadTick
  /\ g.flags = h.flags /\ g.flagsRead = h.flagsRead
  /\ g.flagsWrite = h.flagsWrite /\ g.lateWrite = h.lateWrite
  /\ g.read = h.read /\ g.sendTimeWrite = h.sendTimeWrite
  /\ g.failed = h.failed
  /\ \A q \in Players : g.lateRead[q] \in {h.lateRead[q], h.lateWrite[q]}
  /\ h.incomplete <= g.incomplete /\ g.incomplete <= g.write
  /\ h.write <= g.write
  /\ \A q \in h.connected : g.incomplete <= h.flagsWrite[q]
  /\ \A t \in h.read .. h.incomplete - 1 : g.disposition[t] = h.disposition[t]
  /\ \A t \in h.incomplete .. g.write - 1 :
       /\ g.disposition[t] = IF t < g.incomplete THEN h.connected
                             ELSE {q \in h.connected : h.flagsWrite[q] <= t}
       /\ h.connected # {} => g.disposition[t] # {}
  /\ h.connected = {} => g.incomplete = g.write

\* What player_provided_flags_from_tick_to_tick does to the hub when p's flags
\* are the next it waits for: the ticks that become complete are counted into
\* sSmallestIncompleteTick, and their waiting sets start over.
LEMMA PlayerProvidedResult ==
  ASSUME NEW h, NEW p \in Players, NEW first, NEW last,
         ReadyToProvide(h, p, first, last)
  PROVE  LET g == PlayerProvided(h, p, first, last)
         IN  Provided(h, g, p) /\ g.write = Larger(h.write, last)
<1> DEFINE provided  == first .. last - 1
           waiting   == [t \in Ticks |-> IF h.write <= t /\ t < last
                                         THEN h.connected ELSE h.disposition[t]]
           completed == Completed(waiting, p, provided)
           n         == Cardinality(completed)
           Slow(t)   == {q \in h.connected \ {p} : h.flagsWrite[q] <= t}
           g         == PlayerProvided(h, p, first, last)
<1>1. /\ h.incomplete \in Nat /\ h.write \in Nat /\ first \in Nat /\ last \in Nat
      /\ \A q \in Players : h.flagsWrite[q] \in Nat
      /\ h.connected \subseteq Players
      /\ h.incomplete <= first /\ first <= last /\ first <= h.write
      /\ h.write <= MaxTick /\ last <= MaxTick /\ MaxTick \in Nat
      /\ h.write \in Ticks /\ last \in Ticks
      /\ h.read \in Nat /\ h.read <= h.incomplete
      /\ h.write - h.read <= QueueSize /\ last - h.read <= QueueSize
      /\ QueueSize \in Nat
  BY Sizes, Numbers DEF ReadyToProvide
<1>2. Larger(h.write, last) \in Ticks /\ Larger(h.write, last) \in Nat
  BY <1>1 DEF Larger
<1>3. /\ n \in Nat /\ first + n <= last
      /\ completed = h.incomplete .. h.incomplete + n - 1
      /\ n # 0 => first = h.incomplete
      /\ \A t \in h.incomplete .. Larger(h.write, last) - 1 :
           /\ waiting[t] \ {p} = Slow(t)
           /\ h.connected # {} => waiting[t] # {}
           /\ t < first => p \notin waiting[t]
           /\ first <= t /\ t < last =>
                (p \in waiting[t] <=> p \in h.connected \/ t < h.write)
           /\ last <= t => p \in waiting[t]
  BY CompletedTicks
<1>4. \A t \in Ticks : waiting[t] = IF h.write <= t /\ t < last
                                    THEN h.connected ELSE h.disposition[t]
  OBVIOUS
<1>5. completed \subseteq provided /\ \A t \in provided :
         t \in completed <=> waiting[t] \ {p} = {}
  BY DEF Completed
<1>6. DOMAIN h = HubFields /\ IsHub(h)
  BY DEF ReadyToProvide, Typed
<1>e. g = [h EXCEPT
          !.write = Larger(@, last),
          !.disposition = [t \in Ticks |->
             IF t \in completed THEN h.connected
             ELSE IF t \in provided THEN waiting[t] \ {p} ELSE waiting[t]],
          !.lagging = IF provided = {} THEN @ ELSE @ \ {p},
          !.lateRead[p] = IF provided = {} THEN @ ELSE h.lateWrite[p],
          !.incomplete = @ + n,
          !.sinceUpdate = IF completed = {} THEN @ ELSE 0,
          !.failed = @
             \cup Assert("queueFull", Larger(h.write, last) - h.read <= QueueSize)
             \cup Assert("waitingForFlags", \A t \in provided : p \in waiting[t])
             \cup Assert("completeInOrder",
                         completed = h.incomplete .. h.incomplete + n - 1)]
  BY Zenon DEF PlayerProvided
<1> HIDE DEF provided, waiting, completed, n, Slow, g
<1>7. DOMAIN h = HubFields
  BY <1>6
<1>8. /\ DOMAIN g = HubFields
      /\ g.write = Larger(h.write, last)
      /\ g.disposition = [t \in Ticks |->
           IF t \in completed THEN h.connected
           ELSE IF t \in provided THEN waiting[t] \ {p} ELSE waiting[t]]
      /\ g.lagging = IF provided = {} THEN h.lagging ELSE h.lagging \ {p}
      /\ g.lateRead = [h.lateRead EXCEPT ![p] =
           IF provided = {} THEN h.lateRead[p] ELSE h.lateWrite[p]]
      /\ g.incomplete = h.incomplete + n
      /\ g.sinceUpdate = IF completed = {} THEN h.sinceUpdate ELSE 0
      /\ g.failed = h.failed
           \cup Assert("queueFull", Larger(h.write, last) - h.read <= QueueSize)
           \cup Assert("waitingForFlags", \A t \in provided : p \in waiting[t])
           \cup Assert("completeInOrder",
                       completed = h.incomplete .. h.incomplete + n - 1)
  BY <1>7, <1>e DEF HubFields
<1>9. /\ g.connected = h.connected /\ g.addressKnown = h.addressKnown
      /\ g.routable = h.routable /\ g.sentTo = h.sentTo
      /\ g.unacknowledged = h.unacknowledged /\ g.netDeadTick = h.netDeadTick
      /\ g.flags = h.flags /\ g.flagsRead = h.flagsRead
      /\ g.flagsWrite = h.flagsWrite /\ g.lateWrite = h.lateWrite
      /\ g.read = h.read /\ g.sendTimeWrite = h.sendTimeWrite
  BY <1>7, <1>e DEF HubFields
<1>10. /\ g.silence = h.silence /\ g.reflected = h.reflected
       /\ g.unsent = h.unsent /\ g.sinceSent = h.sinceSent
       /\ g.scan = h.scan /\ g.dropped = h.dropped
       /\ g.active = h.active /\ g.postGame = h.postGame /\ g.phase = h.phase
  BY <1>7, <1>e, Zenon DEF HubFields
<1>b. completed = h.incomplete .. h.incomplete + n - 1
  BY <1>3
<1>a. /\ n \in Nat /\ first + n <= last /\ (n # 0 => first = h.incomplete)
      /\ g.incomplete = h.incomplete + n
      /\ g.write = IF h.write >= last THEN h.write ELSE last
  BY <1>3, <1>8 DEF Larger
<1>11. g.failed = h.failed
  <2>1. ASSUME NEW t \in provided PROVE p \in waiting[t]
    <3>1. /\ t \in h.incomplete .. Larger(h.write, last) - 1
          /\ first <= t /\ t < last /\ t \in Nat
      BY <1>1 DEF provided, Larger
    <3>2. p \in h.connected \/ t < h.write
      BY <1>1, <3>1 DEF ReadyToProvide
    <3> QED BY <1>3, <3>1, <3>2
  <2>2. Larger(h.write, last) - h.read <= QueueSize
    BY <1>1 DEF Larger
  <2> QED BY <1>3, <1>8, <2>1, <2>2 DEF Assert
<1>12. /\ h.incomplete <= g.incomplete /\ g.incomplete <= g.write
       /\ h.write <= g.write /\ g.incomplete \in Nat
       /\ g.incomplete \in Ticks
  <2>1. h.incomplete <= g.incomplete /\ g.incomplete <= g.write
        /\ h.write <= g.write /\ g.incomplete \in Nat
        /\ g.incomplete <= MaxTick
    BY <1>1, <1>a
  <2> QED BY <2>1, Sizes
<1>13. \A q \in Players : g.lateRead[q] \in {h.lateRead[q], h.lateWrite[q]}
  BY <1>6, <1>8 DEF IsHub
<1>14. Typed(g)
  <2>1. waiting \in [Ticks -> SUBSET Players]
    BY <1>6 DEF waiting, IsHub
  <2>2. g.disposition \in [Ticks -> SUBSET Players]
    BY <1>1, <1>8, <2>1
  <2>3. g.lagging \subseteq Players
    BY <1>6, <1>8 DEF IsHub
  <2>4. g.lateRead \in [Players -> Ticks]
    BY <1>6, <1>8 DEF IsHub
  <2>5. g.sinceUpdate \in 0 .. MinimumSendPeriod
    BY <1>6, <1>8, Sizes DEF IsHub
  <2> QED BY <1>2, <1>6, <1>8, <1>9, <1>10, <1>11, <1>12, <2>2, <2>3, <2>4,
             <2>5, Zenon DEF Typed, IsHub
<1>15. \A t \in h.read .. h.incomplete - 1 : g.disposition[t] = h.disposition[t]
  <2> SUFFICES ASSUME NEW t \in h.read .. h.incomplete - 1
               PROVE  g.disposition[t] = h.disposition[t]
    OBVIOUS
  <2>1. t \in Ticks /\ t \notin provided /\ ~ (h.write <= t)
    BY <1>1, Sizes DEF provided
  <2> QED BY <1>4, <1>5, <1>8, <2>1
<1>16. ASSUME NEW t \in h.incomplete .. g.write - 1
       PROVE  /\ g.disposition[t] = IF t < g.incomplete THEN h.connected
                                    ELSE {q \in h.connected : h.flagsWrite[q] <= t}
              /\ h.connected # {} => g.disposition[t] # {}
  <2>1. /\ t \in h.incomplete .. Larger(h.write, last) - 1
        /\ t \in Nat /\ h.incomplete <= t /\ t < Larger(h.write, last)
    BY <1>1, <1>2, <1>8
  <2>2. t \in Ticks
    BY <2>1, <1>1, <1>2, Sizes
  <2>3. /\ waiting[t] \ {p} = Slow(t)
        /\ h.connected # {} => waiting[t] # {}
        /\ t < first => p \notin waiting[t]
        /\ last <= t => p \in waiting[t]
    BY <1>3, <2>1
  <2>4. CASE t < g.incomplete
    <3>1. t \in completed
      BY <1>1, <1>a, <1>b, <2>1, <2>4
    <3> QED BY <1>8, <2>2, <2>4, <3>1
  <2>5. CASE ~ (t < g.incomplete)
    <3>1. t \notin completed
      BY <1>1, <1>3, <1>8, <2>1, <2>5
    <3>2. g.disposition[t] = IF t \in provided THEN waiting[t] \ {p} ELSE waiting[t]
      BY <1>8, <2>2, <3>1
    <3>3. CASE t \in provided
      <4>1. g.disposition[t] = Slow(t) /\ Slow(t) # {}
        BY <1>5, <2>3, <3>1, <3>2, <3>3
      <4>2. p \in h.connected => ~ (h.flagsWrite[p] <= t)
        BY <1>1, <2>1, <3>3 DEF provided, ReadyToProvide
      <4> QED BY <2>5, <4>1, <4>2 DEF Slow
    <3>4. CASE t \notin provided /\ t < first
      <4>1. g.disposition[t] = Slow(t)
        BY <2>3, <3>2, <3>4
      <4>2. p \in h.connected => ~ (h.flagsWrite[p] <= t)
        BY <1>1, <2>1, <3>4 DEF ReadyToProvide
      <4> QED BY <2>3, <2>5, <3>2, <3>4, <4>1, <4>2 DEF Slow
    <3>5. CASE last <= t
      <4>1. t < h.write /\ p \in h.connected /\ h.flagsWrite[p] <= t
        BY <1>1, <2>1, <3>5 DEF Larger, ReadyToProvide
      <4>2. g.disposition[t] = waiting[t] /\ p \in waiting[t]
        BY <1>1, <2>1, <2>3, <3>2, <3>5 DEF provided
      <4>3. waiting[t] = Slow(t) \cup {p}
        BY <2>3, <4>2
      <4> QED BY <2>5, <4>1, <4>2, <4>3 DEF Slow
    <3> QED BY <1>1, <2>1, <3>3, <3>4, <3>5 DEF provided
  <2> QED BY <2>4, <2>5
<1>17. \A q \in h.connected : g.incomplete <= h.flagsWrite[q]
  <2> SUFFICES ASSUME NEW q \in h.connected PROVE g.incomplete <= h.flagsWrite[q]
    OBVIOUS
  <2>1. CASE q = p
    BY <1>1, <1>3, <1>8, <2>1 DEF ReadyToProvide
  <2>2. CASE q # p /\ n = 0
    BY <1>1, <1>8, <2>2 DEF ReadyToProvide
  <2>3. CASE q # p /\ n # 0
    <3> DEFINE t == h.incomplete + n - 1
    <3>1. /\ t \in completed /\ t \in Nat
          /\ t \in h.incomplete .. Larger(h.write, last) - 1
      <4>1. t \in Nat /\ h.incomplete <= t /\ t < last /\ t < h.incomplete + n
        BY <1>1, <1>a, <2>3
      <4> QED BY <1>1, <1>a, <1>b, <4>1 DEF Larger
    <3>2. Slow(t) = {}
      BY <1>3, <1>5, <3>1
    <3>3. ~ (h.flagsWrite[q] <= t) /\ h.flagsWrite[q] \in Nat
      BY <1>1, <2>3, <3>2 DEF Slow
    <3> QED BY <1>1, <1>a, <3>3
  <2> QED BY <2>1, <2>2, <2>3
<1>18. h.connected = {} => g.incomplete = g.write
  <2> SUFFICES ASSUME h.connected = {} PROVE g.incomplete = g.write
    OBVIOUS
  <2>1. last = h.write /\ g.write = h.write
    BY <1>1, <1>8 DEF Larger, ReadyToProvide
  <2>2. CASE g.incomplete < g.write
    <3> DEFINE t == g.incomplete
    <3>1. t \in h.incomplete .. g.write - 1 /\ t \in h.incomplete .. h.write - 1
      BY <1>1, <1>12, <2>1, <2>2
    <3>2. g.disposition[t] = {}
      BY <1>16, <3>1
    <3>3. t \notin completed /\ t \in Ticks /\ ~ (h.write <= t)
      BY <1>1, <1>3, <1>8, <1>12, <2>1, <2>2
    <3>4. waiting[t] = h.disposition[t]
      BY <1>4, <3>3
    <3>5. h.disposition[t] # {} /\ h.disposition[t] \ {p} = {}
      BY <3>1 DEF ReadyToProvide
    <3>6. t \in provided
      BY <1>8, <3>2, <3>3, <3>4, <3>5
    <3> QED BY <1>5, <3>3, <3>4, <3>5, <3>6
  <2> QED BY <1>1, <1>2, <1>8, <1>12, <2>2
<1> QED BY <1>8, <1>9, <1>11, <1>12, <1>13, <1>14, <1>15, <1>16, <1>17, <1>18
        DEF Provided, g

-----------------------------------------------------------------------------
(***************************************************************************)
(* make_player_netdead                                                     *)
(***************************************************************************)

\* make_player_netdead leaves no trace of p in the waiting sets.
LEMMA MakePlayerNetDeadConsistent ==
  ASSUME NEW h, Consistent(h), NEW p \in h.connected
  PROVE  Consistent(MakePlayerNetDead(h, p))
<1> DEFINE erased == IF p \in h.addressKnown THEN p ELSE LocalPlayer
           dead   == [h EXCEPT !.netDeadTick[p] = DeathTick(h, p),
                               !.connected = @ \ {p},
                               !.routable = @ \ {erased}]
           g      == PlayerProvided(dead, p, dead.flagsWrite[p], dead.write)
<1>1. /\ Typed(h) /\ Ordered(h) /\ Waiting(h) /\ Routed(h) /\ Filled(h)
      /\ Asserted(h) /\ DOMAIN h = HubFields /\ IsHub(h)
  BY DEF Consistent, Typed
<1>2. DOMAIN h = HubFields
  BY <1>1
<1>3. /\ h.read \in Nat /\ h.write \in Nat /\ h.incomplete \in Nat
      /\ h.connected \subseteq Players /\ p \in Players
      /\ \A q \in Players :
           /\ h.unacknowledged[q] \in Nat /\ h.flagsWrite[q] \in Nat
           /\ h.flagsWrite[q] \in Ticks
      /\ h.write \in Ticks /\ h.incomplete \in Ticks
      /\ h.read <= h.incomplete /\ h.incomplete <= h.write
      /\ h.write - h.read <= QueueSize
      /\ \A q \in h.connected :
           /\ h.read <= h.unacknowledged[q] /\ h.unacknowledged[q] <= h.incomplete
           /\ h.incomplete <= h.flagsWrite[q] /\ h.flagsWrite[q] <= h.write
  BY <1>1, Numbers DEF Ordered
<1>4. /\ dead.connected = h.connected \ {p}
      /\ dead.netDeadTick = [h.netDeadTick EXCEPT ![p] = h.incomplete]
      /\ dead.routable = h.routable \ {erased}
      /\ DOMAIN dead = HubFields
  BY <1>2 DEF DeathTick, HubFields
<1>5. /\ dead.addressKnown = h.addressKnown /\ dead.sentTo = h.sentTo
      /\ dead.unacknowledged = h.unacknowledged
      /\ dead.flags = h.flags /\ dead.flagsRead = h.flagsRead
      /\ dead.flagsWrite = h.flagsWrite /\ dead.lateRead = h.lateRead
      /\ dead.lateWrite = h.lateWrite /\ dead.disposition = h.disposition
      /\ dead.read = h.read /\ dead.write = h.write
      /\ dead.sendTimeWrite = h.sendTimeWrite
      /\ dead.incomplete = h.incomplete /\ dead.failed = h.failed
  BY <1>2 DEF HubFields
<1>6. /\ dead.silence = h.silence /\ dead.reflected = h.reflected
      /\ dead.unsent = h.unsent /\ dead.lagging = h.lagging
      /\ dead.sinceUpdate = h.sinceUpdate /\ dead.sinceSent = h.sinceSent
      /\ dead.scan = h.scan /\ dead.dropped = h.dropped
      /\ dead.active = h.active /\ dead.postGame = h.postGame
      /\ dead.phase = h.phase
  BY <1>2, Zenon DEF HubFields
<1> HIDE DEF dead, erased
<1>7. Typed(dead)
  <2>1. dead.netDeadTick \in [Players -> Ticks \cup {-1}]
    BY <1>1, <1>3, <1>4 DEF IsHub
  <2>2. dead.connected \subseteq Players /\ dead.routable \subseteq Players
    BY <1>1, <1>4 DEF IsHub
  <2> QED BY <1>1, <1>4, <1>5, <1>6, <2>1, <2>2, Zenon DEF Typed, IsHub
<1>8. ASSUME NEW t \in h.read .. h.write - 1
      PROVE  /\ t < h.incomplete =>
                  h.disposition[t] = {q \in h.connected : h.unacknowledged[q] <= t}
             /\ ~ (t < h.incomplete) =>
                  h.disposition[t] = {q \in h.connected : h.flagsWrite[q] <= t}
             /\ h.disposition[t] # {}
  BY <1>1 DEF Waiting, Awaited
<1>9. ReadyToProvide(dead, p, h.flagsWrite[p], h.write)
  <2>1. ASSUME NEW t \in h.incomplete .. h.write - 1
        PROVE  /\ h.disposition[t] \ {p} =
                    {q \in dead.connected \ {p} : h.flagsWrite[q] <= t}
               /\ p \in h.disposition[t] <=> h.flagsWrite[p] <= t
               /\ h.disposition[t] # {}
    <3>1. t \in h.read .. h.write - 1 /\ ~ (t < h.incomplete)
      BY <1>3
    <3> QED BY <1>4, <1>8, <3>1
  <2>2. \A q \in dead.connected \ {p} :
          /\ h.unacknowledged[q] <= h.incomplete
          /\ h.incomplete <= h.flagsWrite[q] /\ h.flagsWrite[q] <= h.write
    BY <1>3, <1>4
  <2>3. p \notin dead.connected
    BY <1>4
  <2> QED BY <1>3, <1>5, <1>7, <2>1, <2>2, <2>3 DEF ReadyToProvide
<1>10. Provided(dead, g, p) /\ g.write = h.write
  <2>1. Provided(dead, g, p) /\ g.write = Larger(h.write, h.write)
    <3>1. g = PlayerProvided(dead, p, h.flagsWrite[p], h.write)
      BY <1>5
    <3> HIDE DEF g
    <3>2. Provided(dead, g, p) /\ g.write = Larger(dead.write, h.write)
      <4>1. p \in Players
        BY <1>3
      <4> QED BY <1>9, <3>1, <4>1, PlayerProvidedResult
    <3> QED BY <1>5, <3>2
  <2> QED BY <1>3, <2>1 DEF Larger
<1> HIDE DEF g
<1>11. /\ Typed(g)
       /\ g.connected = h.connected \ {p} /\ g.addressKnown = h.addressKnown
       /\ g.routable = h.routable \ {erased} /\ g.sentTo = h.sentTo
       /\ g.unacknowledged = h.unacknowledged
       /\ g.netDeadTick = [h.netDeadTick EXCEPT ![p] = h.incomplete]
       /\ g.flags = h.flags /\ g.flagsRead = h.flagsRead
       /\ g.flagsWrite = h.flagsWrite /\ g.lateWrite = h.lateWrite
       /\ g.read = h.read /\ g.sendTimeWrite = h.sendTimeWrite
       /\ g.failed = h.failed
       /\ \A q \in Players : g.lateRead[q] \in {h.lateRead[q], h.lateWrite[q]}
       /\ h.incomplete <= g.incomplete /\ g.incomplete <= h.write
       /\ g.incomplete \in Nat
       /\ \A q \in g.connected : g.incomplete <= h.flagsWrite[q]
       /\ g.connected = {} => g.incomplete = h.write
  BY <1>4, <1>5, <1>10, Numbers DEF Provided
<1>12. \A t \in h.read .. h.incomplete - 1 : g.disposition[t] = h.disposition[t]
  BY <1>5, <1>10 DEF Provided
<1>13. \A t \in h.incomplete .. h.write - 1 :
         /\ g.disposition[t] = IF t < g.incomplete THEN g.connected
                               ELSE {q \in g.connected : h.flagsWrite[q] <= t}
         /\ g.connected # {} => g.disposition[t] # {}
  <2>1. \A t \in dead.incomplete .. g.write - 1 :
          /\ g.disposition[t] = IF t < g.incomplete THEN dead.connected
                ELSE {q \in dead.connected : dead.flagsWrite[q] <= t}
          /\ dead.connected # {} => g.disposition[t] # {}
    BY <1>10 DEF Provided
  <2>2. /\ dead.incomplete = h.incomplete /\ g.write = h.write
        /\ dead.connected = g.connected /\ dead.flagsWrite = h.flagsWrite
    BY <1>4, <1>5, <1>10, <1>11
  <2> QED BY <2>1, <2>2
<1>14. Ordered(g)
  <2>1. \A q \in Players :
          /\ g.flagsWrite[q] <= g.write
          /\ g.flagsRead[q] = Smaller(g.read, g.flagsWrite[q])
          /\ g.lateRead[q] <= g.lateWrite[q] /\ g.lateWrite[q] <= g.flagsWrite[q]
    BY <1>1, <1>10, <1>11, Numbers DEF Ordered
  <2>2. \A q \in Players : g.netDeadTick[q] <= g.flagsWrite[q]
    BY <1>1, <1>3, <1>11 DEF Ordered, IsHub
  <2>3. /\ g.read <= g.incomplete /\ g.incomplete <= g.write
        /\ g.write - g.read <= QueueSize /\ g.sendTimeWrite <= g.incomplete
    <3>1. h.sendTimeWrite \in Nat /\ h.sendTimeWrite <= h.incomplete
      BY <1>1, Numbers DEF Ordered
    <3> QED BY <1>3, <1>10, <1>11, <3>1
  <2>4. \A q \in g.connected :
          /\ g.read <= g.unacknowledged[q] /\ g.unacknowledged[q] <= g.incomplete
          /\ g.incomplete <= g.flagsWrite[q]
    BY <1>3, <1>11
  <2> QED BY <2>1, <2>2, <2>3, <2>4 DEF Ordered
<1>15. ReadyToAcknowledge(g, p, h.incomplete)
  <2>1. ASSUME NEW t \in g.read .. g.write - 1
        PROVE  g.disposition[t] \ {p} = Others(g, p, t)
    <3>1. t \in h.read .. h.write - 1 /\ t \in Nat
      BY <1>3, <1>10, <1>11, <2>1
    <3>2. CASE t < h.incomplete
      <4>1. t \in h.read .. h.incomplete - 1 /\ t < g.incomplete
        BY <1>3, <1>11, <3>1, <3>2
      <4>2. g.disposition[t] = {q \in h.connected : h.unacknowledged[q] <= t}
        BY <1>8, <1>12, <3>1, <3>2, <4>1
      <4> QED BY <1>11, <4>1, <4>2 DEF Others
    <3>3. CASE ~ (t < h.incomplete)
      <4>1. t \in h.incomplete .. h.write - 1
        BY <1>3, <3>1, <3>3
      <4>2. g.disposition[t] = IF t < g.incomplete THEN g.connected
                               ELSE {q \in g.connected : h.flagsWrite[q] <= t}
        BY <1>13, <4>1
      <4>3. \A q \in g.connected : h.unacknowledged[q] <= t
        BY <1>3, <1>11, <3>1, <3>3
      <4> QED BY <1>11, <4>2, <4>3 DEF Others
    <3> QED BY <3>2, <3>3
  <2>2. ASSUME NEW t \in g.read .. h.incomplete - 1
        PROVE  /\ p \in g.disposition[t] <=> g.unacknowledged[p] <= t
               /\ g.disposition[t] # {}
    <3>1. /\ t \in h.read .. h.write - 1 /\ t < h.incomplete
          /\ t \in h.read .. h.incomplete - 1
      BY <1>3, <1>11, <2>2
    <3> QED BY <1>8, <1>11, <1>12, <3>1
  <2>3. ASSUME NEW t \in h.incomplete .. g.write - 1
        PROVE  /\ p \notin g.disposition[t]
               /\ g.connected # {} => g.disposition[t] # {}
    BY <1>10, <1>11, <1>13, <2>3
  <2>4. /\ g.read <= g.unacknowledged[p] /\ g.unacknowledged[p] <= h.incomplete
        /\ h.incomplete <= g.incomplete /\ p \notin g.connected
        /\ g.connected = {} => g.incomplete = g.write
    BY <1>3, <1>10, <1>11
  <2> QED BY <1>11, <1>14, <2>1, <2>2, <2>3, <2>4 DEF ReadyToAcknowledge
<1>16. Routed(g) /\ Filled(g) /\ Asserted(g)
  <2>1. Routed(g)
    BY <1>1, <1>11 DEF Routed, erased
  <2> QED BY <1>1, <1>11, <2>1 DEF Filled, Asserted
<1>17. Consistent(AcknowledgementTaken(g, p, h.incomplete))
  BY <1>3, <1>15, <1>16, AcknowledgementTakenConsistent
<1>18. MakePlayerNetDead(h, p) = AcknowledgementTaken(g, p, h.incomplete)
  <2>1. ~ (h.incomplete < g.unacknowledged[p])
    BY <1>3, <1>11
  <2>2. PlayerProvided(dead, p, h.flagsWrite[p], h.write) = g
    BY <1>5 DEF g
  <2> QED BY <2>1, <2>2 DEF MakePlayerNetDead, PlayerAcknowledged, dead, erased
<1> QED BY <1>17, <1>18

-----------------------------------------------------------------------------
(***************************************************************************)
(* send_packets, and the making up of flags                                *)
(***************************************************************************)

\* The invariant does not depend on the clocks, the laggards, the loop of
\* hub_tick and the end of the game.
SameQueues(h, g) ==
  /\ g.connected = h.connected /\ g.addressKnown = h.addressKnown
  /\ g.routable = h.routable /\ g.sentTo = h.sentTo
  /\ g.unacknowledged = h.unacknowledged /\ g.netDeadTick = h.netDeadTick
  /\ g.flags = h.flags /\ g.flagsRead = h.flagsRead
  /\ g.flagsWrite = h.flagsWrite /\ g.lateRead = h.lateRead
  /\ g.lateWrite = h.lateWrite /\ g.disposition = h.disposition
  /\ g.read = h.read /\ g.write = h.write /\ g.sendTimeWrite = h.sendTimeWrite
  /\ g.incomplete = h.incomplete /\ g.failed = h.failed

\* A step that touches none of the fields the invariant relates keeps it.
LEMMA SameQueuesConsistent ==
  ASSUME NEW h, NEW g, Consistent(h), SameQueues(h, g), Typed(g)
  PROVE  Consistent(g)
<1>1. Ordered(g)
  BY DEF Consistent, SameQueues, Ordered
<1>2. Routed(g) /\ Asserted(g)
  BY DEF Consistent, SameQueues, Routed, Asserted
<1>3. Waiting(g)
  BY ZenonT(40) DEF Consistent, SameQueues, Waiting, Awaited
<1>4. Filled(g)
  BY DEF Consistent, SameQueues, Filled
<1> QED BY <1>1, <1>2, <1>3, <1>4 DEF Consistent

\* send_packets stamps the complete ticks only.
LEMMA SendPacketsConsistent ==
  ASSUME NEW h, Consistent(h)
  PROVE  Consistent(SendPackets(h))
<1> DEFINE g == SendPackets(h)
<1>1. /\ Typed(h) /\ Ordered(h) /\ Routed(h) /\ Asserted(h)
      /\ Waiting(h) /\ Filled(h)
      /\ DOMAIN h = HubFields /\ IsHub(h)
  BY DEF Consistent, Typed
<1>2. DOMAIN h = HubFields
  BY <1>1
<1>3. /\ DOMAIN g = HubFields
      /\ g.sendTimeWrite = Larger(h.sendTimeWrite, h.incomplete)
      /\ g.sentTo = h.sentTo \cup (h.connected \cap h.addressKnown)
      /\ g.sinceSent = 0
      /\ g.unsent = h.incomplete
      /\ g.failed = h.failed \cup Assert("queueFull",
                                         h.incomplete - h.read <= QueueSize)
  BY <1>2 DEF SendPackets, HubFields
<1>4. /\ g.connected = h.connected /\ g.addressKnown = h.addressKnown
      /\ g.routable = h.routable
      /\ g.unacknowledged = h.unacknowledged /\ g.netDeadTick = h.netDeadTick
      /\ g.flags = h.flags /\ g.flagsRead = h.flagsRead
      /\ g.flagsWrite = h.flagsWrite /\ g.lateRead = h.lateRead
      /\ g.lateWrite = h.lateWrite /\ g.disposition = h.disposition
      /\ g.read = h.read /\ g.write = h.write /\ g.incomplete = h.incomplete
  BY <1>2 DEF SendPackets, HubFields
<1>5. /\ g.silence = h.silence /\ g.reflected = h.reflected
      /\ g.lagging = h.lagging /\ g.sinceUpdate = h.sinceUpdate
      /\ g.scan = h.scan /\ g.dropped = h.dropped /\ g.active = h.active
      /\ g.postGame = h.postGame /\ g.phase = h.phase
  BY <1>2, Zenon DEF SendPackets, HubFields
<1> HIDE DEF g
<1>6. /\ h.read \in Nat /\ h.write \in Nat /\ h.incomplete \in Nat
      /\ h.sendTimeWrite \in Nat
      /\ h.sendTimeWrite <= h.incomplete /\ h.incomplete <= h.write
      /\ h.write - h.read <= QueueSize /\ QueueSize \in Nat
  BY <1>1, Numbers, Sizes DEF Ordered
<1>7. g.sendTimeWrite = h.incomplete /\ g.failed = h.failed
  BY <1>3, <1>6 DEF Larger, Assert
<1>8. Typed(g)
  <2>1. g.sentTo \subseteq Players /\ g.sinceSent \in 0 .. RecoverySendPeriod
    BY <1>1, <1>3, Sizes DEF IsHub
  <2> QED BY <1>1, <1>3, <1>4, <1>5, <1>7, <2>1, Zenon DEF Typed, IsHub
<1>9. Ordered(g) /\ Asserted(g)
  BY <1>1, <1>4, <1>6, <1>7 DEF Ordered, Asserted
<1>10. Routed(g)
  BY <1>1, <1>3, <1>4 DEF Routed
<1>11. Waiting(g) /\ Filled(g)
  BY <1>1, <1>4 DEF Waiting, Awaited, Filled
<1> QED BY <1>8, <1>9, <1>10, <1>11 DEF Consistent, g

\* make_up_flags_for_first_incomplete_tick completes exactly that tick.
LEMMA MakeUpFlagsConsistent ==
  ASSUME NEW h, Consistent(h), CanMakeUpFlags(h)
  PROVE  Consistent(MakeUpFlags(h))
<1> DEFINE late(p) == h.lateWrite[p] - h.lateRead[p]
           g       == MakeUpFlags(h)
<1>1. /\ Typed(h) /\ Ordered(h) /\ Routed(h) /\ Asserted(h)
      /\ Waiting(h) /\ Filled(h)
      /\ DOMAIN h = HubFields /\ IsHub(h)
  BY DEF Consistent, Typed
<1>2. DOMAIN h = HubFields
  BY <1>1
<1>3. /\ h.read \in Nat /\ h.write \in Nat /\ h.incomplete \in Nat
      /\ h.incomplete \in Ticks
      /\ h.read <= h.incomplete /\ h.incomplete < h.write
      /\ h.write \in Ticks
      /\ h.write - h.read <= QueueSize /\ QueueSize \in Nat
      /\ h.connected \subseteq Players
      /\ WithoutFlags(h) \subseteq Players
      /\ \A q \in Players :
           /\ h.flagsWrite[q] \in Nat /\ h.flagsWrite[q] <= h.write
           /\ h.flagsWrite[q] \in Ticks
           /\ h.lateRead[q] \in Nat /\ h.lateWrite[q] \in Nat
           /\ h.lateRead[q] \in Ticks /\ h.lateWrite[q] \in Ticks
           /\ h.lateRead[q] <= h.lateWrite[q] /\ h.lateWrite[q] <= h.flagsWrite[q]
           /\ h.flagsRead[q] = Smaller(h.read, h.flagsWrite[q])
  BY <1>1, Numbers, Sizes DEF Ordered, CanMakeUpFlags, WithoutFlags
<1>4. h.incomplete + 1 \in Ticks /\ h.incomplete + 1 \in Nat
  BY <1>3, Sizes
<1>5. /\ DOMAIN g = HubFields
      /\ g.flags = [p \in Players |->
             IF p \in WithoutFlags(h)
             THEN [h.flags[p] EXCEPT ![h.incomplete] = MadeUp]
             ELSE h.flags[p]]
      /\ g.flagsWrite = [p \in Players |->
             IF p \in WithoutFlags(h) THEN h.incomplete + 1
                                      ELSE h.flagsWrite[p]]
      /\ g.lateRead = [p \in Players |->
             IF p \in WithoutFlags(h) /\ late(p) > 0
             THEN h.lateRead[p] + late(p) \div 2 + 1 ELSE h.lateRead[p]]
      /\ g.reflected = [h.reflected EXCEPT ![h.incomplete] = ReflectedBits(h)]
      /\ g.disposition = [h.disposition EXCEPT ![h.incomplete] = h.connected]
      /\ g.incomplete = h.incomplete + 1
      /\ g.sinceUpdate = 0
      /\ g.failed = h.failed \cup Assert("queueFull", \A p \in WithoutFlags(h) :
                         h.flagsWrite[p] - h.flagsRead[p] < QueueSize)
  BY <1>2 DEF MakeUpFlags, HubFields
<1>6. /\ g.connected = h.connected /\ g.addressKnown = h.addressKnown
      /\ g.routable = h.routable /\ g.sentTo = h.sentTo
      /\ g.unacknowledged = h.unacknowledged /\ g.netDeadTick = h.netDeadTick
      /\ g.flagsRead = h.flagsRead
      /\ g.lateWrite = h.lateWrite /\ g.sendTimeWrite = h.sendTimeWrite
      /\ g.read = h.read /\ g.write = h.write
  BY <1>2 DEF MakeUpFlags, HubFields
<1>7. /\ g.silence = h.silence /\ g.lagging = h.lagging
      /\ g.unsent = h.unsent /\ g.sinceSent = h.sinceSent
      /\ g.scan = h.scan /\ g.dropped = h.dropped /\ g.active = h.active
      /\ g.postGame = h.postGame /\ g.phase = h.phase
  BY <1>2, Zenon DEF MakeUpFlags, HubFields
<1> HIDE DEF g
<1>8. g.failed = h.failed
  <2>1. \A p \in WithoutFlags(h) : h.flagsWrite[p] - h.flagsRead[p] < QueueSize
    BY <1>3 DEF WithoutFlags, Smaller
  <2> QED BY <1>5, <2>1 DEF Assert
<1>9. \A q \in Players :
        /\ g.flagsWrite[q] \in Ticks /\ g.flagsWrite[q] \in Nat
        /\ h.flagsWrite[q] <= g.flagsWrite[q] /\ g.flagsWrite[q] <= g.write
        /\ g.flagsRead[q] = Smaller(g.read, g.flagsWrite[q])
        /\ q \notin WithoutFlags(h) => g.flagsWrite[q] = h.flagsWrite[q]
        /\ q \in WithoutFlags(h) => /\ g.flagsWrite[q] = h.incomplete + 1
                                    /\ h.flagsWrite[q] = h.incomplete
  BY <1>3, <1>4, <1>5, <1>6 DEF WithoutFlags, Smaller
<1>10. ASSUME NEW q \in Players
       PROVE  /\ g.lateRead[q] \in Ticks /\ g.lateRead[q] <= g.lateWrite[q]
              /\ g.lateWrite[q] <= g.flagsWrite[q]
  <2>1. h.lateRead[q] \in Nat /\ h.lateWrite[q] \in Nat
        /\ h.lateRead[q] <= h.lateWrite[q] /\ h.lateWrite[q] <= MaxTick
    BY <1>3, Sizes
  <2>2. late(q) > 0 => late(q) \div 2 + 1 <= late(q) /\ late(q) \div 2 \in Nat
    BY <2>1
  <2>3. g.lateRead[q] \in Nat /\ g.lateRead[q] <= h.lateWrite[q]
    BY <1>5, <2>1, <2>2
  <2>4. g.lateRead[q] <= MaxTick
    BY <2>1, <2>3, Sizes
  <2>5. h.lateWrite[q] <= h.flagsWrite[q] /\ h.flagsWrite[q] <= g.flagsWrite[q]
        /\ g.flagsWrite[q] \in Nat /\ h.flagsWrite[q] \in Nat
    BY <1>3, <1>9
  <2> QED BY <1>6, <2>1, <2>3, <2>4, <2>5, Sizes
<1>11. Typed(g)
  <2>1. g.flags \in [Players -> [Ticks -> Ticks \cup {None, MadeUp}]]
    BY <1>1, <1>5 DEF IsHub
  <2>2. g.flagsWrite \in [Players -> Ticks]
    BY <1>5, <1>9
  <2>3. g.lateRead \in [Players -> Ticks]
    BY <1>5, <1>10
  <2>4. g.reflected \in [Ticks -> SUBSET Players]
    BY <1>1, <1>3, <1>5 DEF IsHub, ReflectedBits
  <2>5. g.disposition \in [Ticks -> SUBSET Players]
    BY <1>1, <1>3, <1>5 DEF IsHub
  <2>6. g.incomplete \in Ticks /\ g.sinceUpdate \in 0 .. MinimumSendPeriod
    BY <1>4, <1>5, Sizes
  <2> QED BY <1>1, <1>5, <1>6, <1>7, <1>8, <2>1, <2>2, <2>3, <2>4, <2>5, <2>6,
             Zenon DEF Typed, IsHub
<1>12. Ordered(g)
  <2>1. \A q \in Players : g.netDeadTick[q] <= g.flagsWrite[q]
    <3> SUFFICES ASSUME NEW q \in Players PROVE g.netDeadTick[q] <= g.flagsWrite[q]
      OBVIOUS
    <3>1. h.netDeadTick[q] \in Int /\ h.netDeadTick[q] <= h.flagsWrite[q]
      BY <1>1, Numbers DEF Ordered
    <3> QED BY <1>3, <1>6, <1>9, <3>1
  <2>2. \A q \in g.connected :
          /\ g.read <= g.unacknowledged[q] /\ g.unacknowledged[q] <= g.incomplete
          /\ g.incomplete <= g.flagsWrite[q]
    <3> SUFFICES ASSUME NEW q \in h.connected
                 PROVE  /\ h.read <= h.unacknowledged[q]
                        /\ h.unacknowledged[q] <= h.incomplete + 1
                        /\ h.incomplete + 1 <= g.flagsWrite[q]
      BY <1>5, <1>6
    <3>1. /\ h.read <= h.unacknowledged[q] /\ h.unacknowledged[q] <= h.incomplete
          /\ h.incomplete <= h.flagsWrite[q] /\ h.unacknowledged[q] \in Nat
          /\ q \in Players
      BY <1>1, <1>3, Numbers DEF Ordered
    <3>2. q \in WithoutFlags(h) <=> h.flagsWrite[q] = h.incomplete
      BY <3>1 DEF WithoutFlags
    <3> QED BY <1>3, <1>9, <3>1, <3>2
  <2>3. /\ g.read <= g.incomplete /\ g.incomplete <= g.write
        /\ g.write - g.read <= QueueSize /\ g.sendTimeWrite <= g.incomplete
    <3>1. h.sendTimeWrite \in Nat /\ h.sendTimeWrite <= h.incomplete
      BY <1>1, Numbers DEF Ordered
    <3> QED BY <1>3, <1>5, <1>6, <3>1
  <2> QED BY <1>9, <1>10, <2>1, <2>2, <2>3 DEF Ordered
<1>13. Waiting(g)
  <2>0. g.incomplete = h.incomplete + 1 /\ h.incomplete \in Nat
    BY <1>3, <1>5
  <2>1. h.connected # {}
    BY <1>1, <1>3 DEF Waiting
  <2>2. ASSUME NEW t \in g.read .. g.write - 1
        PROVE  g.disposition[t] = Awaited(g, t) /\ g.disposition[t] # {}
    <3>1. t \in h.read .. h.write - 1 /\ t \in Nat /\ t \in Ticks
      <4>1. t \in h.read .. h.write - 1 /\ t \in Nat /\ t <= MaxTick
        BY <1>3, <1>6, <2>2, Sizes
      <4> QED BY <4>1, Sizes
    <3>2. h.disposition[t] = Awaited(h, t) /\ h.disposition[t] # {}
      BY <1>1, <2>1, <3>1 DEF Waiting
    <3>3. CASE t = h.incomplete
      <4>1. g.disposition[t] = h.connected
        BY <1>1, <1>3, <1>5, <3>3 DEF IsHub
      <4>2. \A q \in h.connected : h.unacknowledged[q] <= t
        BY <1>1, <3>3 DEF Ordered
      <4>3. t < g.incomplete
        BY <2>0, <3>3
      <4> QED BY <1>6, <2>1, <4>1, <4>2, <4>3 DEF Awaited
    <3>4. CASE t # h.incomplete
      <4>1. g.disposition[t] = h.disposition[t]
        BY <1>1, <1>3, <1>5, <3>1, <3>4 DEF IsHub
      <4>2. t < g.incomplete <=> t < h.incomplete
        <5>1. t \in Nat
          BY <3>1
        <5> QED BY <2>0, <3>4, <5>1
      <4>3. ~ (t < h.incomplete) => \A q \in h.connected :
               g.flagsWrite[q] <= t <=> h.flagsWrite[q] <= t
        BY <1>3, <1>9, <3>1, <3>4
      <4> QED BY <1>6, <3>2, <4>1, <4>2, <4>3 DEF Awaited
    <3> QED BY <3>3, <3>4
  <2> QED BY <1>6, <2>1, <2>2 DEF Waiting
<1>14. Filled(g)
  <2> SUFFICES ASSUME NEW p \in Players, NEW t \in 0 .. g.flagsWrite[p] - 1
               PROVE  g.flags[p][t] \in {t, MadeUp}
    BY DEF Filled
  <2>1. CASE p \notin WithoutFlags(h)
    BY <1>1, <1>5, <1>9, <2>1 DEF Filled
  <2>2. CASE p \in WithoutFlags(h)
    <3>1. g.flags[p] = [h.flags[p] EXCEPT ![h.incomplete] = MadeUp]
          /\ h.flags[p] \in [Ticks -> Ticks \cup {None, MadeUp}]
      BY <1>1, <1>5, <2>2 DEF IsHub
    <3>2. CASE t = h.incomplete
      BY <1>3, <3>1, <3>2
    <3>3. CASE t # h.incomplete
      <4>1. t \in 0 .. h.flagsWrite[p] - 1
        BY <1>3, <1>9, <2>2, <3>3
      <4>2. t \in Ticks
        <5>1. t \in Nat /\ t <= MaxTick
          BY <1>3, <4>1, Sizes
        <5> QED BY <5>1, Sizes
      <4>3. g.flags[p][t] = h.flags[p][t]
        BY <1>3, <3>1, <3>3, <4>2
      <4> QED BY <1>1, <4>1, <4>3 DEF Filled
    <3> QED BY <3>2, <3>3
  <2> QED BY <2>1, <2>2
<1>15. Routed(g) /\ Asserted(g)
  BY <1>1, <1>6, <1>8 DEF Routed, Asserted
<1> QED BY <1>11, <1>12, <1>13, <1>14, <1>15 DEF Consistent, g

-----------------------------------------------------------------------------
(***************************************************************************)
(* hub_received_game_data_packet_v1                                        *)
(***************************************************************************)

\* The action flags of a packet from a connected player, however late or
\* repeated, keep the invariant.
LEMMA ReceiveFlagsConsistent ==
  ASSUME NEW h, Consistent(h), NEW p \in h.connected,
         NEW start \in Nat, NEW count \in Nat, start + count <= MaxTick
  PROVE  Consistent(ReceiveFlags(h, p, start, count))
<1> DEFINE filled    == start > h.lateWrite[p]
           lateWrite == IF filled THEN h.flagsWrite[p] ELSE h.lateWrite[p]
           lateRead  == h.lateRead[p] + (lateWrite - h.lateWrite[p])
           redundant == Smaller(lateWrite - start, count)
           late      == LateFlags(h, p, lateWrite, count - redundant)
           size      == h.flagsWrite[p] - h.flagsRead[p]
           room      == IF h.read < RealGameTick /\ size > PregameWindow
                        THEN 0 ELSE QueueSize - size
           fresh     == Smaller(count - redundant - late, room)
           first     == start + redundant + late
           w         == h.flagsWrite[p]
           e == [h EXCEPT
             !.flags[p] = [t \in Ticks |->
                IF h.flagsWrite[p] <= t /\ t < h.flagsWrite[p] + fresh
                THEN first + (t - h.flagsWrite[p]) ELSE h.flags[p][t]],
             !.flagsWrite[p] = @ + fresh,
             !.lateWrite[p] = lateWrite + late + fresh,
             !.lateRead[p] = lateRead,
             !.failed = @
                \cup Assert("lateQueueCaughtUp",
                            fresh > 0 => h.flagsWrite[p] = lateWrite + late)
                \cup Assert("lateQueueFull",
                            /\ lateWrite > h.lateWrite[p]
                                 => h.lateWrite[p] - h.lateRead[p] < QueueSize
                            /\ late + fresh > 0
                                 => lateWrite + late + fresh - lateRead <= QueueSize)]
           g == PlayerProvided(e, p, first, first + fresh)
<1>1. /\ Typed(h) /\ Ordered(h) /\ Routed(h) /\ Asserted(h)
      /\ Waiting(h) /\ Filled(h)
      /\ DOMAIN h = HubFields /\ IsHub(h)
  BY DEF Consistent, Typed
<1>2. DOMAIN h = HubFields
  BY <1>1
<1>3. /\ p \in Players /\ h.connected \subseteq Players
      /\ h.read \in Nat /\ h.write \in Nat /\ h.incomplete \in Nat
      /\ w \in Nat /\ w \in Ticks /\ h.flagsRead[p] \in Nat
      /\ h.lateWrite[p] \in Nat /\ h.lateRead[p] \in Nat
      /\ h.lateRead[p] <= h.lateWrite[p] /\ h.lateWrite[p] <= w
      /\ h.read <= h.incomplete /\ h.incomplete <= w /\ w <= h.write
      /\ h.write <= MaxTick /\ MaxTick \in Nat
      /\ h.write - h.read <= QueueSize /\ QueueSize \in Nat
      /\ h.flagsRead[p] = Smaller(h.read, w)
  BY <1>1, Numbers, Sizes DEF Ordered
<1>4. h.flagsRead[p] = h.read
  BY <1>3 DEF Smaller
<1>5. CASE start > w
  <2>1. ReceiveFlags(h, p, start, count) = h
    BY <1>3, <1>5 DEF ReceiveFlags
  <2> QED BY <2>1
<1>6. CASE ~ (start > w)
  <2>1. /\ lateWrite \in Nat /\ h.lateWrite[p] <= lateWrite /\ lateWrite <= w
        /\ start <= lateWrite
        /\ lateRead \in Nat /\ lateRead <= lateWrite
    BY <1>3, <1>6
  <2> HIDE DEF lateWrite, lateRead
  <2>2. /\ redundant \in Nat /\ redundant <= count
        /\ redundant = lateWrite - start \/ redundant = count
    BY <2>1 DEF Smaller
  <2> HIDE DEF redundant
  <2>3. /\ late \in Nat /\ redundant + late <= count
        /\ late = w - lateWrite \/ redundant + late = count
        /\ lateWrite + late <= w
    BY <1>3, <2>1, <2>2 DEF LateFlags, Smaller
  <2> HIDE DEF late
  <2>4. room \in Nat /\ room <= QueueSize - (w - h.read)
    BY <1>3, <1>4, Sizes
  <2> HIDE DEF room
  <2>5. /\ fresh \in Nat /\ redundant + late + fresh <= count
        /\ w + fresh - h.read <= QueueSize
    BY <1>3, <2>2, <2>3, <2>4 DEF Smaller
  <2>6. fresh # 0 => /\ redundant = lateWrite - start /\ late = w - lateWrite
                     /\ first = w
    BY <1>3, <2>1, <2>2, <2>3, <2>5
  <2> HIDE DEF fresh
  <2>7. /\ first \in Nat /\ first + fresh \in Nat /\ first + fresh <= MaxTick
    <3>1. redundant \in Nat /\ late \in Nat /\ fresh \in Nat
          /\ redundant + late + fresh <= count /\ MaxTick \in Nat
      BY <2>2, <2>3, <2>5, Sizes
    <3> QED BY <3>1
  <2> HIDE DEF first
  <2>8. w + fresh \in Nat /\ w + fresh <= MaxTick /\ w + fresh \in Ticks
    <3>1. w + fresh \in Nat /\ w + fresh <= MaxTick
      BY <1>3, <2>5, <2>6, <2>7
    <3> QED BY <3>1, Sizes
  <2>9. /\ lateWrite + late + fresh \in Ticks /\ lateRead \in Ticks
        /\ lateRead <= lateWrite + late + fresh
        /\ lateWrite + late + fresh \in Nat
        /\ lateWrite + late + fresh <= w + fresh
    <3>1. /\ lateWrite + late + fresh \in Nat
          /\ lateWrite + late + fresh <= w + fresh
          /\ lateWrite + late + fresh <= MaxTick
          /\ lateRead <= lateWrite + late + fresh /\ lateRead <= MaxTick
      BY <1>3, <2>1, <2>3, <2>5, <2>8
    <3> QED BY <2>1, <3>1, Sizes
  <2>10. /\ DOMAIN e = HubFields
         /\ e.flags = [h.flags EXCEPT ![p] = [t \in Ticks |->
              IF w <= t /\ t < w + fresh THEN first + (t - w) ELSE h.flags[p][t]]]
         /\ e.flagsWrite = [h.flagsWrite EXCEPT ![p] = w + fresh]
         /\ e.lateWrite = [h.lateWrite EXCEPT ![p] = lateWrite + late + fresh]
         /\ e.lateRead = [h.lateRead EXCEPT ![p] = lateRead]
         /\ e.failed = h.failed
              \cup Assert("lateQueueCaughtUp",
                          fresh > 0 => h.flagsWrite[p] = lateWrite + late)
              \cup Assert("lateQueueFull",
                          /\ lateWrite > h.lateWrite[p]
                               => h.lateWrite[p] - h.lateRead[p] < QueueSize
                          /\ late + fresh > 0
                               => lateWrite + late + fresh - lateRead <= QueueSize)
    BY <1>2 DEF HubFields
  <2>11. /\ e.connected = h.connected /\ e.addressKnown = h.addressKnown
         /\ e.routable = h.routable /\ e.sentTo = h.sentTo
         /\ e.unacknowledged = h.unacknowledged /\ e.netDeadTick = h.netDeadTick
         /\ e.flagsRead = h.flagsRead /\ e.disposition = h.disposition
         /\ e.read = h.read /\ e.write = h.write
         /\ e.sendTimeWrite = h.sendTimeWrite /\ e.incomplete = h.incomplete
    BY <1>2 DEF HubFields
  <2>12. /\ e.silence = h.silence /\ e.reflected = h.reflected
         /\ e.unsent = h.unsent /\ e.lagging = h.lagging
         /\ e.sinceUpdate = h.sinceUpdate /\ e.sinceSent = h.sinceSent
         /\ e.scan = h.scan /\ e.dropped = h.dropped /\ e.active = h.active
         /\ e.postGame = h.postGame /\ e.phase = h.phase
    BY <1>2, Zenon DEF HubFields
  <2> HIDE DEF e
  <2>13. e.failed \subseteq h.failed \cup {"lateQueueFull"}
    <3>1. fresh > 0 => h.flagsWrite[p] = lateWrite + late
      BY <1>3, <2>1, <2>5, <2>6
    <3> HIDE DEF w
    <3> QED BY <2>10, <3>1 DEF Assert
  <2>14. /\ \A q \in Players :
              /\ q = p => /\ e.flagsWrite[q] = w + fresh
                          /\ e.lateWrite[q] = lateWrite + late + fresh
                          /\ e.lateRead[q] = lateRead
              /\ q # p => /\ e.flagsWrite[q] = h.flagsWrite[q]
                          /\ e.lateWrite[q] = h.lateWrite[q]
                          /\ e.lateRead[q] = h.lateRead[q]
         /\ e.flagsWrite \in [Players -> Ticks] /\ e.lateWrite \in [Players -> Ticks]
         /\ e.lateRead \in [Players -> Ticks]
    <3> HIDE DEF w
    <3> QED BY <1>1, <2>8, <2>9, <2>10 DEF IsHub
  <2>15. ASSUME NEW t \in Ticks, w <= t, t < w + fresh
         PROVE  first + (t - w) = t
    BY <1>3, <2>5, <2>6, <2>15, Sizes
  <2>16. Typed(e)
    <3>1. [t \in Ticks |-> IF w <= t /\ t < w + fresh THEN first + (t - w)
                                                     ELSE h.flags[p][t]]
            \in [Ticks -> Ticks \cup {None, MadeUp}]
      <4> HIDE DEF w
      <4>1. h.flags[p] \in [Ticks -> Ticks \cup {None, MadeUp}]
        BY <1>1, <1>3 DEF IsHub
      <4> QED BY <2>15, <4>1
    <3>2. e.flags \in [Players -> [Ticks -> Ticks \cup {None, MadeUp}]]
      BY <1>1, <2>10, <3>1 DEF IsHub
    <3>3. e.failed \subseteq Assertions
      BY <1>1, <2>13 DEF IsHub, Assertions
    <3> QED BY <1>1, <2>10, <2>11, <2>12, <2>14, <3>2, <3>3, Zenon DEF Typed, IsHub
  <2>17. Filled(e)
    <3> SUFFICES ASSUME NEW q \in Players, NEW t \in 0 .. e.flagsWrite[q] - 1
                 PROVE  e.flags[q][t] \in {t, MadeUp}
      BY DEF Filled
    <3>1. CASE q # p
      BY <1>1, <1>3, <2>10, <2>14, <3>1 DEF Filled, IsHub
    <3>2. CASE q = p
      <4>1. t \in Nat /\ t < w + fresh /\ t \in Ticks
        <5>1. t \in Nat /\ t < w + fresh /\ t <= MaxTick
          BY <1>3, <2>8, <2>14, <3>2
        <5> QED BY <5>1, Sizes
      <4>2. e.flags[p] = [s \in Ticks |-> IF w <= s /\ s < w + fresh
                                          THEN first + (s - w) ELSE h.flags[p][s]]
        BY <1>1, <1>3, <2>10 DEF IsHub
      <4>3. CASE w <= t
        BY <2>15, <3>2, <4>1, <4>2, <4>3
      <4>4. CASE ~ (w <= t)
        <5>1. e.flags[p][t] = h.flags[p][t] /\ t \in 0 .. w - 1
          BY <1>3, <4>1, <4>2, <4>4
        <5> QED BY <1>1, <1>3, <3>2, <5>1 DEF Filled
      <4> QED BY <4>3, <4>4
    <3> QED BY <3>1, <3>2
  <2>18. /\ Routed(e) /\ Asserted(e)
    BY <1>1, <2>11, <2>13 DEF Routed, Asserted
  <2>19. \A q \in Players :
           /\ e.lateRead[q] <= e.lateWrite[q] /\ e.lateWrite[q] <= e.flagsWrite[q]
           /\ e.netDeadTick[q] <= e.flagsWrite[q]
           /\ e.flagsRead[q] = Smaller(e.read, e.flagsWrite[q])
           /\ h.flagsWrite[q] <= e.flagsWrite[q]
           /\ h.flagsWrite[q] \in Nat /\ e.flagsWrite[q] \in Nat
           /\ h.flagsWrite[q] <= h.write
    <3> SUFFICES ASSUME NEW q \in Players
          PROVE  /\ e.lateRead[q] <= e.lateWrite[q]
                 /\ e.lateWrite[q] <= e.flagsWrite[q]
                 /\ h.netDeadTick[q] <= e.flagsWrite[q]
                 /\ h.flagsRead[q] = Smaller(h.read, e.flagsWrite[q])
                 /\ h.flagsWrite[q] <= e.flagsWrite[q]
                 /\ h.flagsWrite[q] \in Nat /\ e.flagsWrite[q] \in Nat
                 /\ h.flagsWrite[q] <= h.write
      BY <2>11
    <3>1. /\ h.lateRead[q] <= h.lateWrite[q] /\ h.lateWrite[q] <= h.flagsWrite[q]
          /\ h.netDeadTick[q] <= h.flagsWrite[q] /\ h.netDeadTick[q] \in Int
          /\ h.flagsRead[q] = Smaller(h.read, h.flagsWrite[q])
          /\ h.flagsWrite[q] <= h.write /\ h.flagsWrite[q] \in Nat
      BY <1>1, Numbers DEF Ordered
    <3>2. CASE q # p
      BY <2>14, <3>1, <3>2
    <3>3. CASE q = p
      <4>1. /\ e.flagsWrite[q] = w + fresh
            /\ e.lateWrite[q] = lateWrite + late + fresh
            /\ e.lateRead[q] = lateRead
        BY <2>14, <3>3
      <4>2. h.flagsRead[q] = Smaller(h.read, w + fresh)
        BY <1>3, <1>4, <2>5, <3>3 DEF Smaller
      <4>3. h.netDeadTick[q] <= w + fresh /\ h.flagsWrite[q] = w /\ w <= w + fresh
        BY <1>3, <2>5, <3>1, <3>3
      <4> QED BY <2>8, <2>9, <3>1, <4>1, <4>2, <4>3
    <3> QED BY <3>2, <3>3
  <2>20. CASE fresh = 0
    <3>1. e.flagsWrite = h.flagsWrite
      <4>1. \A q \in Players : e.flagsWrite[q] = h.flagsWrite[q]
        BY <1>3, <2>14, <2>20
      <4>2. h.flagsWrite \in [Players -> Ticks]
        BY <1>1 DEF IsHub
      <4> QED BY <2>14, <4>1, <4>2
    <3>2. Ordered(e)
      BY <1>1, <2>11, <2>19, <3>1 DEF Ordered
    <3>3. Waiting(e)
      BY <1>1, <2>11, <3>1 DEF Waiting, Awaited
    <3>4. Consistent(e)
      BY <2>16, <2>17, <2>18, <3>2, <3>3 DEF Consistent
    <3>5. ReceiveFlags(h, p, start, count) = e
      <4>1. fresh <= 0 /\ start <= h.flagsWrite[p] /\ ~ (start > h.flagsWrite[p])
        BY <1>3, <1>6, <2>20
      <4> QED BY <4>1 DEF ReceiveFlags, e, fresh, first, room, late, redundant,
                         lateRead, lateWrite
    <3> QED BY <3>4, <3>5
  <2>21. CASE fresh # 0
    <3>1. ASSUME NEW t \in h.incomplete .. h.write - 1
          PROVE  /\ h.disposition[t] \ {p} =
                      {q \in h.connected \ {p} : e.flagsWrite[q] <= t}
                 /\ p \in h.disposition[t] <=> first <= t
                 /\ h.disposition[t] # {}
      <4>1. t \in h.read .. h.write - 1 /\ ~ (t < h.incomplete)
        BY <1>3
      <4>2. /\ h.disposition[t] = {q \in h.connected : h.flagsWrite[q] <= t}
            /\ h.disposition[t] # {}
        BY <1>1, <4>1 DEF Waiting, Awaited
      <4>3. \A q \in h.connected \ {p} : e.flagsWrite[q] = h.flagsWrite[q]
        BY <1>3, <2>14
      <4> QED BY <2>6, <2>21, <4>2, <4>3
    <3>2. \A q \in h.connected : h.unacknowledged[q] <= h.incomplete
      BY <1>1 DEF Ordered
    <3>3. \A q \in h.connected \ {p} :
            h.incomplete <= e.flagsWrite[q] /\ e.flagsWrite[q] <= h.write
      BY <1>1, <1>3, <2>14 DEF Ordered
    <3>4. e.flagsWrite[p] = first + fresh /\ first = w
      BY <1>3, <2>6, <2>14, <2>21
    <3>5. /\ first \in Ticks /\ first + fresh \in Ticks
          /\ h.incomplete <= first /\ first <= first + fresh /\ first <= h.write
          /\ first + fresh - h.read <= QueueSize
      BY <1>3, <2>5, <2>8, <3>4
    <3> HIDE DEF w
    <3>6. ReadyToProvide(e, p, first, first + fresh)
      <4>1. /\ e.read <= e.incomplete /\ e.incomplete <= first
            /\ e.write - e.read <= QueueSize
            /\ first + fresh - e.read <= QueueSize /\ first <= e.write
        BY <1>3, <2>11, <3>5
      <4>2. p \in e.connected
        BY <2>11
      <4>3. \A t \in e.incomplete .. e.write - 1 :
              /\ e.disposition[t] \ {p} =
                   {q \in e.connected \ {p} : e.flagsWrite[q] <= t}
              /\ p \in e.disposition[t] <=> first <= t
              /\ e.disposition[t] # {}
        BY <2>11, <3>1
      <4>4. /\ \A q \in e.connected \ {p} :
                 /\ e.unacknowledged[q] <= e.incomplete
                 /\ e.incomplete <= e.flagsWrite[q] /\ e.flagsWrite[q] <= e.write
            /\ e.unacknowledged[p] <= e.incomplete
        BY <2>11, <3>2, <3>3
      <4>5. IF p \in e.connected THEN e.flagsWrite[p] = first + fresh
                                ELSE e.write = first + fresh
        BY <3>4, <4>2
      <4>6. (first + fresh) - e.read <= QueueSize
        <5>1. first \in Nat /\ fresh \in Nat /\ e.read \in Nat
          BY <1>3, <2>5, <2>11, <3>5, Sizes
        <5> QED BY <4>1, <5>1
      <4> QED BY <2>16, <3>5, <4>1, <4>2, <4>3, <4>4, <4>5, <4>6
              DEF ReadyToProvide
    <3>7. Provided(e, g, p) /\ g.write = Larger(h.write, first + fresh)
      <4>1. g = PlayerProvided(e, p, first, first + fresh)
        OBVIOUS
      <4> HIDE DEF g
      <4>2. Provided(e, g, p) /\ g.write = Larger(e.write, first + fresh)
        BY <1>3, <3>6, <4>1, PlayerProvidedResult
      <4> QED BY <2>11, <4>2
    <3> HIDE DEF g
    <3>8. /\ Typed(g)
          /\ g.connected = h.connected /\ g.addressKnown = e.addressKnown
          /\ g.routable = e.routable /\ g.sentTo = e.sentTo
          /\ g.unacknowledged = h.unacknowledged /\ g.netDeadTick = e.netDeadTick
          /\ g.flags = e.flags /\ g.flagsRead = e.flagsRead
          /\ g.flagsWrite = e.flagsWrite /\ g.lateWrite = e.lateWrite
          /\ g.read = h.read /\ g.sendTimeWrite = h.sendTimeWrite
          /\ g.failed = e.failed
      BY <2>11, <3>7 DEF Provided
    <3>9. /\ \A q \in Players : g.lateRead[q] \in {e.lateRead[q], e.lateWrite[q]}
          /\ h.incomplete <= g.incomplete /\ g.incomplete <= g.write
          /\ h.write <= g.write /\ first + fresh <= g.write
          /\ g.write - h.read <= QueueSize
          /\ g.incomplete \in Nat /\ g.write \in Nat
      <4>1. g.incomplete \in Nat /\ g.write \in Nat
        BY <3>8, Numbers
      <4>2. first + fresh \in Nat /\ first \in Nat
        BY <2>7, <3>5, Sizes
      <4>3. g.write = IF h.write >= first + fresh THEN h.write ELSE first + fresh
        BY <3>7 DEF Larger
      <4>4. /\ h.write <= g.write /\ first + fresh <= g.write
            /\ g.write - h.read <= QueueSize
        <5>1. /\ h.write \in Nat /\ h.read \in Nat /\ QueueSize \in Nat
              /\ h.write - h.read <= QueueSize
              /\ first + fresh - h.read <= QueueSize
          BY <1>3, <3>5
        <5>2. fresh \in Nat
          BY <2>5
        <5> QED BY <4>1, <4>2, <4>3, <5>1, <5>2
      <4> QED BY <2>11, <3>7, <4>1, <4>4 DEF Provided
    <3>10. /\ \A q \in h.connected : g.incomplete <= e.flagsWrite[q]
           /\ \A t \in h.read .. h.incomplete - 1 : g.disposition[t] = h.disposition[t]
           /\ \A t \in h.incomplete .. g.write - 1 :
                /\ g.disposition[t] = IF t < g.incomplete THEN h.connected
                     ELSE {q \in h.connected : e.flagsWrite[q] <= t}
                /\ g.disposition[t] # {}
      BY <2>11, <3>7 DEF Provided
    <3>11. Ordered(g)
      <4>1. \A q \in Players : e.flagsWrite[q] <= g.write
        <5> SUFFICES ASSUME NEW q \in Players PROVE e.flagsWrite[q] <= g.write
          OBVIOUS
        <5>1. CASE q = p
          BY <3>4, <3>9, <5>1
        <5>2. CASE q # p
          BY <1>3, <2>14, <2>19, <3>9, <5>2
        <5> QED BY <5>1, <5>2
      <4>2. \A q \in Players :
              /\ g.lateRead[q] <= g.lateWrite[q] /\ g.lateWrite[q] <= g.flagsWrite[q]
              /\ g.netDeadTick[q] <= g.flagsWrite[q]
              /\ g.flagsRead[q] = Smaller(g.read, g.flagsWrite[q])
        <5>1. \A q \in Players : e.lateWrite[q] \in Nat
          BY <2>16, Numbers
        <5> QED BY <2>11, <2>19, <3>8, <3>9, <5>1
      <4>3. \A q \in g.connected :
              /\ g.read <= g.unacknowledged[q] /\ g.unacknowledged[q] <= g.incomplete
              /\ g.incomplete <= g.flagsWrite[q]
        <5> SUFFICES ASSUME NEW q \in h.connected
                     PROVE  /\ h.read <= h.unacknowledged[q]
                            /\ h.unacknowledged[q] <= g.incomplete
                            /\ g.incomplete <= e.flagsWrite[q]
          BY <3>8
        <5>1. h.read <= h.unacknowledged[q] /\ h.unacknowledged[q] \in Nat
          BY <1>1, <1>3, Numbers DEF Ordered
        <5> QED BY <1>3, <3>2, <3>9, <3>10, <5>1
      <4>4. /\ g.read <= g.incomplete /\ g.sendTimeWrite <= g.incomplete
        <5>1. h.sendTimeWrite \in Nat /\ h.sendTimeWrite <= h.incomplete
          BY <1>1, Numbers DEF Ordered
        <5> QED BY <1>3, <3>8, <3>9, <5>1
      <4> QED BY <3>8, <3>9, <4>1, <4>2, <4>3, <4>4 DEF Ordered
    <3>12. Waiting(g)
      <4>1. ASSUME NEW t \in g.read .. g.write - 1
            PROVE  g.disposition[t] = Awaited(g, t) /\ g.disposition[t] # {}
        <5>1. t \in Nat /\ h.read <= t /\ t < g.write
          BY <1>3, <3>8, <3>9, <4>1
        <5>2. CASE t < h.incomplete
          <6>1. /\ t \in h.read .. h.incomplete - 1 /\ t \in h.read .. h.write - 1
                /\ t < g.incomplete
            BY <1>3, <3>9, <5>1, <5>2
          <6>2. h.disposition[t] = {q \in h.connected : h.unacknowledged[q] <= t}
                /\ h.disposition[t] # {}
            BY <1>1, <5>2, <6>1 DEF Waiting, Awaited
          <6> QED BY <3>8, <3>10, <6>1, <6>2 DEF Awaited
        <5>3. CASE ~ (t < h.incomplete)
          <6>1. t \in h.incomplete .. g.write - 1
            BY <1>3, <3>9, <5>1, <5>3
          <6>2. \A q \in h.connected : h.unacknowledged[q] <= t
            <7> SUFFICES ASSUME NEW q \in h.connected
                         PROVE  h.unacknowledged[q] <= t
              OBVIOUS
            <7>1. h.unacknowledged[q] \in Nat
              BY <1>1, <1>3, Numbers
            <7> QED BY <1>3, <3>2, <5>1, <5>3, <7>1
          <6> QED BY <3>8, <3>10, <6>1, <6>2 DEF Awaited
        <5> QED BY <5>2, <5>3
      <4>2. g.connected # {}
        BY <3>8
      <4> QED BY <4>1, <4>2 DEF Waiting
    <3>13. Consistent(g)
      <4>1. Filled(g)
        BY <2>17, <3>8 DEF Filled
      <4>2. Routed(g) /\ Asserted(g)
        BY <2>11, <2>18, <3>8, SMTT(40) DEF Routed, Asserted
      <4> QED BY <3>8, <3>11, <3>12, <4>1, <4>2 DEF Consistent
    <3>14. ReceiveFlags(h, p, start, count) \in {g, SendPackets(g)}
      <4>1. ~ (fresh <= 0)
        BY <2>5, <2>21
      <4> QED BY <1>6, <4>1 DEF ReceiveFlags, g, e, fresh, first, room, late,
                               redundant, lateRead, lateWrite, w
    <3> QED BY <3>13, <3>14, SendPacketsConsistent
  <2> QED BY <2>20, <2>21
<1> QED BY <1>5, <1>6

\* So does the whole packet, with its acknowledgement.
LEMMA ReceivedGameDataConsistent ==
  ASSUME NEW h, Consistent(h), NEW p \in h.connected, NEW ack \in Ticks,
         NEW hasFlags, NEW start \in Nat, NEW count \in Nat,
         start + count <= MaxTick
  PROVE  Consistent(ReceivedGameData(h, p, ack, hasFlags, start, count))
<1> DEFINE checked == [h EXCEPT !.failed = @ \cup Assert("sender", p \in h.connected)]
           acked   == PlayerAcknowledged(checked, p, ack)
<1>1. /\ DOMAIN h = HubFields /\ Typed(h)
  BY DEF Consistent, Typed
<1>2. /\ DOMAIN checked = HubFields /\ SameQueues(h, checked)
  BY <1>1 DEF HubFields, SameQueues, Assert
<1>3. /\ checked.silence = h.silence /\ checked.reflected = h.reflected
      /\ checked.unsent = h.unsent /\ checked.lagging = h.lagging
      /\ checked.sinceUpdate = h.sinceUpdate /\ checked.sinceSent = h.sinceSent
      /\ checked.scan = h.scan /\ checked.dropped = h.dropped
      /\ checked.active = h.active /\ checked.postGame = h.postGame
      /\ checked.phase = h.phase
  BY <1>1, Zenon DEF HubFields
<1> HIDE DEF checked
<1>4. Typed(checked)
  BY <1>1, <1>2, <1>3, Zenon DEF Typed, IsHub, SameQueues
<1>5. Consistent(checked) /\ p \in checked.connected
      /\ checked.incomplete = h.incomplete
  BY <1>2, <1>4, SameQueuesConsistent DEF SameQueues
<1>6. CASE ack > h.incomplete
  BY <1>6 DEF ReceivedGameData
<1>7. CASE ~ (ack > h.incomplete)
  <2>1. ack <= checked.incomplete
    BY <1>1, <1>5, <1>7, Numbers, Sizes
  <2>2. Consistent(acked) /\ p \in acked.connected
    BY <1>5, <2>1, PlayerAcknowledgedConsistent
  <2> HIDE DEF acked
  <2>3. Consistent(ReceiveFlags(acked, p, start, count))
    BY <2>2, ReceiveFlagsConsistent
  <2>4. ReceivedGameData(h, p, ack, hasFlags, start, count) =
          IF hasFlags THEN ReceiveFlags(acked, p, start, count) ELSE acked
    BY <1>7 DEF ReceivedGameData, acked, checked
  <2> QED BY <2>2, <2>3, <2>4
<1> QED BY <1>6, <1>7

-----------------------------------------------------------------------------
(***************************************************************************)
(* hub_tick and hub_cleanup                                                *)
(***************************************************************************)

\* The four lemmas on hub_tick: its start, one iteration of its loop, its
\* bandwidth reduction and its end.
LEMMA TickStartedConsistent ==
  ASSUME NEW h, Consistent(h)
  PROVE  Consistent(TickStarted(h))
<1> DEFINE g == TickStarted(h)
<1>1. /\ DOMAIN h = HubFields /\ Typed(h) /\ IsHub(h)
  BY DEF Consistent, Typed
<1>2. DOMAIN h = HubFields
  BY <1>1
<1>3. DOMAIN g = HubFields /\ SameQueues(h, g)
  BY <1>2 DEF TickStarted, HubFields, SameQueues
<1>4. /\ g.silence = [p \in Players |->
           IF p \in h.connected THEN Smaller(h.silence[p] + 1, MaxSilence)
                                ELSE h.silence[p]]
      /\ g.sinceUpdate = Smaller(h.sinceUpdate + 1, MinimumSendPeriod)
      /\ g.sinceSent = Smaller(h.sinceSent + 1, RecoverySendPeriod)
      /\ g.scan = 0
  BY <1>2 DEF TickStarted, HubFields
<1>5. /\ g.reflected = h.reflected /\ g.unsent = h.unsent
      /\ g.lagging = h.lagging /\ g.active = h.active
      /\ g.postGame = h.postGame /\ g.phase = h.phase /\ g.dropped = FALSE
  BY <1>2, Zenon DEF TickStarted, HubFields
<1> HIDE DEF g
<1>6. /\ g.silence \in [Players -> 0 .. MaxSilence]
      /\ g.sinceUpdate \in 0 .. MinimumSendPeriod
      /\ g.sinceSent \in 0 .. RecoverySendPeriod
      /\ g.scan \in -1 .. NumPlayers
  <2>1. \A p \in Players : h.silence[p] \in 0 .. MaxSilence
    BY <1>1 DEF IsHub
  <2>2. \A p \in Players : Smaller(h.silence[p] + 1, MaxSilence) \in 0 .. MaxSilence
    BY <2>1, Sizes DEF Smaller
  <2>3. h.sinceUpdate \in 0 .. MinimumSendPeriod
        /\ h.sinceSent \in 0 .. RecoverySendPeriod
    BY <1>1 DEF IsHub
  <2> QED BY <1>4, <2>1, <2>2, <2>3, Sizes DEF Smaller
<1>7. Typed(g)
  BY <1>1, <1>3, <1>5, <1>6, Zenon DEF Typed, IsHub, SameQueues
<1> QED BY <1>3, <1>7, SameQueuesConsistent DEF g

\* See TickStartedConsistent.
LEMMA PlayerScannedConsistent ==
  ASSUME NEW h, Consistent(h), h.scan \in Players
  PROVE  Consistent(PlayerScanned(h))
<1>1. ASSUME NEW k, Consistent(k), NEW d \in BOOLEAN
      PROVE  Consistent([k EXCEPT !.scan = h.scan + 1, !.dropped = d])
  <2> DEFINE g == [k EXCEPT !.scan = h.scan + 1, !.dropped = d]
  <2>1. DOMAIN k = HubFields /\ Typed(k) /\ IsHub(k)
    BY <1>1 DEF Consistent, Typed
  <2>2. DOMAIN k = HubFields
    BY <2>1
  <2>3. DOMAIN g = HubFields /\ SameQueues(k, g) /\ g.scan = h.scan + 1
    BY <2>2 DEF HubFields, SameQueues
  <2>4. /\ g.silence = k.silence /\ g.reflected = k.reflected
        /\ g.unsent = k.unsent /\ g.lagging = k.lagging
        /\ g.sinceUpdate = k.sinceUpdate /\ g.sinceSent = k.sinceSent
        /\ g.active = k.active /\ g.postGame = k.postGame
        /\ g.phase = k.phase /\ g.dropped = d
    BY <2>2, Zenon DEF HubFields
  <2>5. h.scan + 1 \in -1 .. NumPlayers
    BY Sizes DEF Players
  <2> HIDE DEF g
  <2>6. Typed(g)
    BY <1>1, <2>1, <2>3, <2>4, <2>5, Zenon DEF Typed, IsHub, SameQueues
  <2>7. Consistent(g)
    BY <1>1, <2>3, <2>6, SameQueuesConsistent
  <2> QED BY <2>7 DEF g
<1>2. CASE MustDrop(h, h.scan)
  <2>1. Consistent(MakePlayerNetDead(h, h.scan))
    BY <1>2, MakePlayerNetDeadConsistent DEF MustDrop
  <2>2. PlayerScanned(h) = [MakePlayerNetDead(h, h.scan) EXCEPT
                              !.scan = h.scan + 1, !.dropped = TRUE]
    BY <1>2, Zenon DEF PlayerScanned
  <2> QED BY <1>1, <2>1, <2>2
<1>3. CASE ~ MustDrop(h, h.scan)
  <2> DEFINE g == [h EXCEPT !.scan = h.scan + 1]
  <2>1. DOMAIN h = HubFields /\ Typed(h) /\ IsHub(h)
    BY DEF Consistent, Typed
  <2>2. DOMAIN h = HubFields
    BY <2>1
  <2>3. DOMAIN g = HubFields /\ SameQueues(h, g) /\ g.scan = h.scan + 1
    BY <2>2 DEF HubFields, SameQueues
  <2>4. /\ g.silence = h.silence /\ g.reflected = h.reflected
        /\ g.unsent = h.unsent /\ g.lagging = h.lagging
        /\ g.sinceUpdate = h.sinceUpdate /\ g.sinceSent = h.sinceSent
        /\ g.active = h.active /\ g.postGame = h.postGame
        /\ g.phase = h.phase /\ g.dropped = h.dropped
    BY <2>2, Zenon DEF HubFields
  <2>5. h.scan + 1 \in -1 .. NumPlayers
    BY Sizes DEF Players
  <2>6. PlayerScanned(h) = g
    BY <1>3, Zenon DEF PlayerScanned
  <2> HIDE DEF g
  <2>7. Typed(g)
    BY <2>1, <2>3, <2>4, <2>5, Zenon DEF Typed, IsHub, SameQueues
  <2> QED BY <2>3, <2>6, <2>7, SameQueuesConsistent
<1> QED BY <1>2, <1>3

\* See TickStartedConsistent.
LEMMA LaggardsMarkedConsistent ==
  ASSUME NEW h, Consistent(h)
  PROVE  LET g == LaggardsMarked(h)
         IN  Consistent(g) /\ SameQueues(h, g) /\ g.reflected = h.reflected
<1> DEFINE g == LaggardsMarked(h)
           k == [h EXCEPT !.lagging = @ \cup
                  ((Alive(h) \cap h.disposition[h.incomplete]) \ {LocalPlayer})]
<1>1. /\ DOMAIN h = HubFields /\ Typed(h) /\ IsHub(h)
  BY DEF Consistent, Typed
<1>2. DOMAIN h = HubFields
  BY <1>1
<1>3. DOMAIN k = HubFields /\ SameQueues(h, k)
      /\ k.lagging = h.lagging \cup
             ((Alive(h) \cap h.disposition[h.incomplete]) \ {LocalPlayer})
  BY <1>2 DEF HubFields, SameQueues
<1>4. /\ k.silence = h.silence /\ k.reflected = h.reflected
      /\ k.unsent = h.unsent /\ k.scan = h.scan
      /\ k.sinceUpdate = h.sinceUpdate /\ k.sinceSent = h.sinceSent
      /\ k.active = h.active /\ k.postGame = h.postGame
      /\ k.phase = h.phase /\ k.dropped = h.dropped
  BY <1>2, Zenon DEF HubFields
<1>5. k.lagging \subseteq Players
  BY <1>1, <1>3 DEF IsHub, Alive
<1>6. g \in {h, k}
  BY DEF LaggardsMarked
<1> HIDE DEF g, k
<1>7. Typed(k)
  BY <1>1, <1>3, <1>4, <1>5, Zenon DEF Typed, IsHub, SameQueues
<1>8. Consistent(g)
  BY <1>3, <1>6, <1>7, SameQueuesConsistent
<1>9. SameQueues(h, g) /\ g.reflected = h.reflected
  BY <1>3, <1>4, <1>6 DEF SameQueues
<1> QED BY <1>8, <1>9 DEF g

\* See TickStartedConsistent.
LEMMA FlagsMadeUpConsistent ==
  ASSUME NEW h, Consistent(h)
  PROVE  Consistent(FlagsMadeUp(h))
<1> DEFINE g == LaggardsMarked(h)
<1>1. Consistent(g)
  BY LaggardsMarkedConsistent
<1>2. CanMakeUpFlags(g) => Consistent(MakeUpFlags(g))
  BY <1>1, MakeUpFlagsConsistent
<1>3. \/ FlagsMadeUp(h) \in {h, g}
      \/ FlagsMadeUp(h) = MakeUpFlags(g) /\ CanMakeUpFlags(g)
  BY DEF FlagsMadeUp
<1> QED BY <1>1, <1>2, <1>3

\* The state after the loop of hub_tick.
LoopEnded(h) == [h EXCEPT !.scan = Idle, !.dropped = FALSE]

LEMMA LoopEndedConsistent ==
  ASSUME NEW h, Consistent(h)
  PROVE  LET g == LoopEnded(h)
         IN  Consistent(g) /\ SameQueues(h, g) /\ g.reflected = h.reflected
<1> DEFINE g == LoopEnded(h)
<1>1. /\ DOMAIN h = HubFields /\ Typed(h) /\ IsHub(h)
  BY DEF Consistent, Typed
<1>2. DOMAIN h = HubFields
  BY <1>1
<1>3. DOMAIN g = HubFields /\ SameQueues(h, g) /\ g.scan = Idle
  BY <1>2 DEF LoopEnded, HubFields, SameQueues
<1>4. /\ g.silence = h.silence /\ g.reflected = h.reflected
      /\ g.unsent = h.unsent /\ g.lagging = h.lagging
      /\ g.sinceUpdate = h.sinceUpdate /\ g.sinceSent = h.sinceSent
      /\ g.active = h.active /\ g.postGame = h.postGame
      /\ g.phase = h.phase /\ g.dropped = FALSE
  BY <1>2, Zenon DEF LoopEnded, HubFields
<1> HIDE DEF g
<1>5. g.scan \in -1 .. NumPlayers
  BY <1>3, Sizes DEF Idle
<1>6. Typed(g)
  BY <1>1, <1>3, <1>4, <1>5, Zenon DEF Typed, IsHub, SameQueues
<1>7. Consistent(g)
  BY <1>3, <1>6, SameQueuesConsistent
<1> QED BY <1>3, <1>4, <1>7 DEF g

\* See TickStartedConsistent.
LEMMA TickFinishedConsistent ==
  ASSUME NEW h, Consistent(h)
  PROVE  Consistent(TickFinished(h))
<1> DEFINE g == LoopEnded(h)
<1>1. TickFinished(h) \in {SendPackets(FlagsMadeUp(g)), SendPackets(g),
                           FlagsMadeUp(g), g}
  BY Zenon DEF TickFinished, LoopEnded
<1>2. Consistent(g)
  BY LoopEndedConsistent
<1> HIDE DEF g
<1>3. Consistent(FlagsMadeUp(g))
  BY <1>2, FlagsMadeUpConsistent
<1> QED BY <1>1, <1>2, <1>3, SendPacketsConsistent

\* hub_cleanup only sets the tick to wait for.
LEMMA CleanedUpConsistent ==
  ASSUME NEW h, Consistent(h), NEW graceful, NEW tick \in Ticks
  PROVE  Consistent(CleanedUp(h, graceful, tick))
<1> DEFINE g == CleanedUp(h, graceful, tick)
<1>1. /\ DOMAIN h = HubFields /\ Typed(h) /\ IsHub(h)
  BY DEF Consistent, Typed
<1>2. DOMAIN h = HubFields
  BY <1>1
<1>3. DOMAIN g = HubFields /\ SameQueues(h, g)
  BY <1>2 DEF HubFields, SameQueues, CleanedUp, CheckForCompletion
<1>4. /\ g.silence = h.silence /\ g.reflected = h.reflected
      /\ g.unsent = h.unsent /\ g.lagging = h.lagging /\ g.scan = h.scan
      /\ g.sinceUpdate = h.sinceUpdate /\ g.sinceSent = h.sinceSent
      /\ g.postGame \in {h.postGame, tick}
      /\ g.phase \in {"draining", "done"}
  BY <1>2 DEF HubFields, CleanedUp, CheckForCompletion
<1>5. g.active \in {h.active, FALSE} /\ g.dropped = h.dropped
  BY <1>2, Zenon DEF HubFields, CleanedUp, CheckForCompletion
<1> HIDE DEF g
<1>6. g.postGame \in Ticks \cup {Never} /\ g.active \in BOOLEAN
      /\ g.phase \in {"running", "draining", "done"}
  BY <1>1, <1>4, <1>5, Zenon DEF IsHub
<1>7. Typed(g)
  BY <1>1, <1>3, <1>4, <1>5, <1>6, Zenon DEF Typed, IsHub, SameQueues
<1> QED BY <1>3, <1>7, SameQueuesConsistent DEF g

-----------------------------------------------------------------------------
(***************************************************************************)
(* The invariant                                                           *)
(***************************************************************************)

\* hub_initialize establishes the invariant.
LEMMA InitConsistent == Init => Consistent(hub)
<1> SUFFICES ASSUME NEW present \in SUBSET Players, LocalPlayer \in present
             PROVE  Consistent(InitialHub(present))
  BY DEF Init
<1> DEFINE h == InitialHub(present)
<1>1. DOMAIN h = HubFields
  BY DEF InitialHub, HubFields
<1>2. /\ h.connected = present /\ h.sentTo = {} /\ h.addressKnown = {LocalPlayer}
      /\ h.routable = {LocalPlayer} /\ h.failed = {}
      /\ h.unacknowledged = [p \in Players |-> 0]
      /\ h.netDeadTick = [p \in Players |-> -1]
      /\ h.silence = [p \in Players |-> 0]
      /\ h.flags = [p \in Players |-> [t \in Ticks |-> None]]
      /\ h.flagsRead = [p \in Players |-> 0]
      /\ h.flagsWrite = [p \in Players |-> 0]
      /\ h.lateRead = [p \in Players |-> 0]
      /\ h.lateWrite = [p \in Players |-> 0]
      /\ h.disposition = [t \in Ticks |-> {}]
      /\ h.reflected = [t \in Ticks |-> {}]
      /\ h.read = 0 /\ h.write = 0 /\ h.sendTimeWrite = 0
      /\ h.incomplete = 0 /\ h.unsent = 0 /\ h.lagging = {}
      /\ h.sinceUpdate = 0 /\ h.sinceSent = 0 /\ h.scan = Idle
      /\ h.postGame = Never /\ h.phase = "running"
  BY DEF InitialHub
<1>3. h.active = TRUE /\ h.dropped = FALSE
  BY Zenon DEF InitialHub
<1> HIDE DEF h
<1>4. Typed(h)
  <2>1. /\ h.unacknowledged \in [Players -> Ticks]
        /\ h.netDeadTick \in [Players -> Ticks \cup {-1}]
        /\ h.silence \in [Players -> 0 .. MaxSilence]
        /\ h.flags \in [Players -> [Ticks -> Ticks \cup {None, MadeUp}]]
        /\ h.flagsRead \in [Players -> Ticks] /\ h.flagsWrite \in [Players -> Ticks]
        /\ h.lateRead \in [Players -> Ticks] /\ h.lateWrite \in [Players -> Ticks]
        /\ h.disposition \in [Ticks -> SUBSET Players]
        /\ h.reflected \in [Ticks -> SUBSET Players]
    BY <1>2, Sizes
  <2>2. /\ h.sinceUpdate \in 0 .. MinimumSendPeriod
        /\ h.sinceSent \in 0 .. RecoverySendPeriod
        /\ h.scan \in -1 .. NumPlayers
        /\ h.read \in Ticks /\ h.write \in Ticks /\ h.sendTimeWrite \in Ticks
        /\ h.incomplete \in Ticks /\ h.unsent \in Ticks
    BY <1>2, Sizes DEF Idle
  <2>3. /\ h.connected \subseteq Players /\ h.addressKnown \subseteq Players
        /\ h.routable \subseteq Players /\ h.sentTo \subseteq Players
        /\ h.lagging \subseteq Players /\ h.failed \subseteq Assertions
        /\ h.postGame \in Ticks \cup {Never}
        /\ h.phase \in {"running", "draining", "done"}
    BY <1>2, Sizes
  <2>4. h.active \in BOOLEAN /\ h.dropped \in BOOLEAN
    BY <1>3, Zenon
  <2> QED BY <1>1, <2>1, <2>2, <2>3, <2>4, Zenon DEF Typed, IsHub
<1>5. Ordered(h)
  <2>1. h.read <= h.incomplete /\ h.incomplete <= h.write
        /\ h.write - h.read <= QueueSize /\ h.sendTimeWrite <= h.incomplete
    BY <1>2, Sizes
  <2>2. ASSUME NEW q \in Players
        PROVE  /\ h.flagsWrite[q] = 0 /\ h.flagsRead[q] = 0
               /\ h.lateRead[q] = 0 /\ h.lateWrite[q] = 0
               /\ h.netDeadTick[q] = -1 /\ h.unacknowledged[q] = 0
    BY <1>2
  <2>3. ASSUME NEW q \in Players
        PROVE  /\ h.flagsWrite[q] <= h.write
               /\ h.flagsRead[q] = Smaller(h.read, h.flagsWrite[q])
               /\ h.lateRead[q] <= h.lateWrite[q]
               /\ h.lateWrite[q] <= h.flagsWrite[q]
               /\ h.netDeadTick[q] <= h.flagsWrite[q]
    BY <1>2, <2>2 DEF Smaller
  <2>4. ASSUME NEW q \in h.connected
        PROVE  /\ h.read <= h.unacknowledged[q]
               /\ h.unacknowledged[q] <= h.incomplete
               /\ h.incomplete <= h.flagsWrite[q]
    BY <1>2, <2>2
  <2> QED BY <2>1, <2>3, <2>4, Zenon DEF Ordered
<1>6. Waiting(h)
  BY <1>2 DEF Waiting
<1>7. Routed(h) /\ Filled(h) /\ Asserted(h)
  BY <1>2 DEF Routed, Filled, Asserted
<1> QED BY <1>4, <1>5, <1>6, <1>7 DEF Consistent, h

\* An identification packet enters its sender in the address map only; before
\* its first one a player has been sent nothing.
LEMMA IdentificationConsistent ==
  ASSUME NEW h, Consistent(h), NEW p \in Players, p \notin h.addressKnown
  PROVE  Consistent([h EXCEPT !.routable = @ \cup {p}, !.addressKnown = @ \cup {p}])
<1> DEFINE g == [h EXCEPT !.routable = @ \cup {p}, !.addressKnown = @ \cup {p}]
<1>1. /\ DOMAIN h = HubFields /\ Typed(h) /\ IsHub(h) /\ Routed(h)
      /\ Ordered(h) /\ Waiting(h) /\ Filled(h) /\ Asserted(h)
  BY DEF Consistent, Typed
<1>2. DOMAIN h = HubFields
  BY <1>1
<1>3. /\ DOMAIN g = HubFields
      /\ g.routable = h.routable \cup {p}
      /\ g.addressKnown = h.addressKnown \cup {p}
      /\ g.connected = h.connected /\ g.sentTo = h.sentTo
      /\ g.unacknowledged = h.unacknowledged /\ g.netDeadTick = h.netDeadTick
      /\ g.flags = h.flags /\ g.flagsRead = h.flagsRead
      /\ g.flagsWrite = h.flagsWrite /\ g.lateRead = h.lateRead
      /\ g.lateWrite = h.lateWrite /\ g.disposition = h.disposition
      /\ g.read = h.read /\ g.write = h.write
      /\ g.sendTimeWrite = h.sendTimeWrite
      /\ g.incomplete = h.incomplete /\ g.failed = h.failed
  BY <1>2 DEF HubFields
<1>4. /\ g.silence = h.silence /\ g.reflected = h.reflected
      /\ g.unsent = h.unsent /\ g.lagging = h.lagging /\ g.scan = h.scan
      /\ g.sinceUpdate = h.sinceUpdate /\ g.sinceSent = h.sinceSent
      /\ g.active = h.active /\ g.postGame = h.postGame
      /\ g.phase = h.phase /\ g.dropped = h.dropped
  BY <1>2, Zenon DEF HubFields
<1> HIDE DEF g
<1>5. g.routable \subseteq Players /\ g.addressKnown \subseteq Players
  BY <1>1, <1>3 DEF IsHub
<1>6. Typed(g)
  BY <1>1, <1>3, <1>4, <1>5, Zenon DEF Typed, IsHub
<1>7. Routed(g)
  BY <1>1, <1>3 DEF Routed
<1>8. Ordered(g) /\ Asserted(g)
  BY <1>1, <1>3 DEF Ordered, Asserted
<1>9. Waiting(g) /\ Filled(g)
  <2>1. /\ g.connected = h.connected /\ g.disposition = h.disposition
        /\ g.read = h.read /\ g.write = h.write /\ g.incomplete = h.incomplete
        /\ g.unacknowledged = h.unacknowledged
        /\ g.flagsWrite = h.flagsWrite /\ g.flags = h.flags
    BY <1>3
  <2>2. \A t : Awaited(g, t) = Awaited(h, t)
    BY <2>1 DEF Awaited
  <2>3. Waiting(g)
    BY <1>1, <2>1, <2>2 DEF Waiting
  <2>4. Filled(g)
    BY <1>1, <2>1 DEF Filled
  <2> QED BY <2>3, <2>4
<1> QED BY <1>6, <1>7, <1>8, <1>9 DEF Consistent, g

\* Every step of the hub keeps the invariant.
LEMMA NextConsistent == Consistent(hub) /\ [Next]_hub => Consistent(hub')
<1> SUFFICES ASSUME Consistent(hub), [Next]_hub PROVE Consistent(hub')
  OBVIOUS
<1>1. DOMAIN hub = HubFields /\ Typed(hub) /\ IsHub(hub) /\ Routed(hub)
  BY DEF Consistent, Typed
<1>2. ASSUME NEW p \in Players, HubReceivedIdentification(p)
      PROVE  Consistent(hub')
  BY <1>2, IdentificationConsistent DEF HubReceivedIdentification
<1>3. ASSUME NEW p \in Players, NEW ack \in Ticks, NEW hasFlags,
             NEW start \in Nat, NEW count \in Nat,
             HubReceivedGameData(p, ack, hasFlags, start, count)
      PROVE  Consistent(hub')
  <2>1. p \in hub.connected /\ start + count <= MaxTick
    BY <1>1, <1>3 DEF HubReceivedGameData, Routed
  <2>2. hub' = ReceivedGameData(hub, p, ack, hasFlags, start, count)
    BY <1>3 DEF HubReceivedGameData
  <2>3. Consistent(ReceivedGameData(hub, p, ack, hasFlags, start, count))
    BY <2>1, ReceivedGameDataConsistent
  <2> QED BY <2>2, <2>3
<1>4. CASE BeginHubTick
  BY <1>4, TickStartedConsistent DEF BeginHubTick
<1>5. CASE ScanPlayer
  BY <1>5, PlayerScannedConsistent DEF ScanPlayer
<1>6. CASE FinishHubTick
  BY <1>6, TickFinishedConsistent DEF FinishHubTick
<1>7. ASSUME NEW graceful, NEW tick \in Ticks, HubCleanup(graceful, tick)
      PROVE  Consistent(hub')
  BY <1>7, CleanedUpConsistent DEF HubCleanup
<1>8. CASE HubStops
  <2> DEFINE g == [hub EXCEPT !.phase = "done"]
  <2>1. DOMAIN hub = HubFields
    BY <1>1
  <2>2. DOMAIN g = HubFields /\ SameQueues(hub, g) /\ g.phase = "done"
    BY <2>1 DEF HubFields, SameQueues
  <2>3. /\ g.silence = hub.silence /\ g.reflected = hub.reflected
        /\ g.unsent = hub.unsent /\ g.lagging = hub.lagging
        /\ g.scan = hub.scan /\ g.active = hub.active
        /\ g.sinceUpdate = hub.sinceUpdate /\ g.sinceSent = hub.sinceSent
        /\ g.postGame = hub.postGame /\ g.dropped = hub.dropped
    BY <2>1, Zenon DEF HubFields
  <2>4. hub' = g
    BY <1>8 DEF HubStops
  <2> HIDE DEF g
  <2>5. Typed(g)
    BY <1>1, <2>2, <2>3, Zenon DEF Typed, IsHub, SameQueues
  <2> QED BY <2>2, <2>4, <2>5, SameQueuesConsistent
<1>9. CASE Stopped \/ UNCHANGED hub
  BY <1>9 DEF Stopped
<1>10. 0 .. SpokeWindow \subseteq Nat /\ Ticks \subseteq Nat
  BY StarConstants, HubConstants, Sizes
<1>11. CASE \E p \in Players, ack \in Ticks :
              HubReceivedGameData(p, ack, FALSE, 0, 0)
  BY <1>3, <1>11
<1>12. CASE \E p \in Players, ack \in Ticks, start \in Ticks,
               count \in 0 .. SpokeWindow :
              HubReceivedGameData(p, ack, TRUE, start, count)
  BY <1>3, <1>10, <1>12
<1> QED BY <1>2, <1>4, <1>5, <1>6, <1>7, <1>8, <1>9, <1>11, <1>12 DEF Next

\* The inductive invariant holds throughout every execution of the hub: the
\* cursors of its queues keep their order, its waiting sets are exact, its
\* queues are filled as far as they are read, and no other assertion fails.
THEOREM HubConsistent == Spec => []HubInvariant
<1>1. Init => HubInvariant
  BY InitConsistent DEF HubInvariant
<1>2. HubInvariant /\ [Next]_hub => HubInvariant'
  BY NextConsistent DEF HubInvariant
<1> QED BY <1>1, <1>2, PTL DEF Spec

-----------------------------------------------------------------------------
(***************************************************************************)
(* What follows from it                                                    *)
(***************************************************************************)

\* The statics of network_star_hub.cpp always have values of their types; in
\* particular no counter leaves the range of ticks the queues can hold.
THEOREM HubTypeOK == Spec => []TypeOK
<1>1. HubInvariant => TypeOK
  BY DEF HubInvariant, Consistent, Typed, TypeOK
<1> QED BY <1>1, HubConsistent, PTL

\* No assertion of network_star_hub.cpp fails but the two AssertionsHold names,
\* in any interleaving of packets, ticks and drops.
THEOREM HubAssertionsHold == Spec => []AssertionsHold
<1>1. HubInvariant => AssertionsHold
  BY DEF HubInvariant, Consistent, Asserted, AssertionsHold
<1> QED BY <1>1, HubConsistent, PTL

\* The hub waits for exactly the connected players that have yet to provide or
\* to acknowledge a tick: see sPlayerDataDisposition.
THEOREM HubWaitingSetsExact == Spec => []WaitingSetsExact
<1>1. HubInvariant => WaitingSetsExact
  BY DEF HubInvariant, Consistent, Waiting, Awaited, WaitingSetsExact
<1> QED BY <1>1, HubConsistent, PTL

\* What send_packets peeks is in the flags queues.
THEOREM HubSendableFlagsQueued == Spec => []SendableFlagsQueued
<1>1. HubInvariant => SendableFlagsQueued
  <2> SUFFICES ASSUME Consistent(hub),
                      NEW p \in hub.connected, NEW q \in Players,
                      NEW t \in hub.unacknowledged[p] .. hub.incomplete - 1,
                      q \in hub.connected \/ t < hub.netDeadTick[q]
               PROVE  /\ hub.flagsRead[q] <= t /\ t < hub.flagsWrite[q]
                      /\ hub.flags[q][t] # None
    BY DEF SendableFlagsQueued, HubInvariant
  <2>1. Typed(hub) /\ Ordered(hub) /\ Filled(hub)
    BY DEF Consistent
  <2>2. /\ p \in Players /\ hub.read \in Nat /\ hub.incomplete \in Nat
        /\ hub.unacknowledged[p] \in Nat /\ hub.flagsWrite[q] \in Nat
        /\ hub.netDeadTick[q] \in Int
    BY <2>1, Numbers
  <2>3. /\ hub.read <= hub.unacknowledged[p]
        /\ hub.flagsRead[q] = Smaller(hub.read, hub.flagsWrite[q])
        /\ hub.netDeadTick[q] <= hub.flagsWrite[q]
        /\ q \in hub.connected => hub.incomplete <= hub.flagsWrite[q]
    BY <2>1, <2>2 DEF Ordered
  <2>4. t \in Nat /\ hub.read <= t /\ t < hub.flagsWrite[q]
    BY <2>2, <2>3
  <2>5. hub.flagsRead[q] <= t
    BY <2>2, <2>3, <2>4 DEF Smaller
  <2>6. hub.flags[q][t] \in {t, MadeUp}
    BY <2>1, <2>2, <2>4 DEF Filled
  <2> QED BY <2>4, <2>5, <2>6 DEF None, MadeUp
<1> QED BY <1>1, HubConsistent, PTL

\* Late, repeated and redundant packets never shift a player's flags to another
\* tick: see the queues sFlagsQueues and sLateFlagsQueues.
THEOREM HubFlagsInTheirTick == Spec => []FlagsInTheirTick
<1>1. HubInvariant => FlagsInTheirTick
  BY DEF HubInvariant, Consistent, Filled, FlagsInTheirTick
<1> QED BY <1>1, HubConsistent, PTL

-----------------------------------------------------------------------------
(***************************************************************************)
(* What a step of the hub may never do, from its invariant: whom it drops  *)
(* and when, whose flags it makes up, and what it reflects.                *)
(*                                                                         *)
(* Most of the functions of the hub keep what matters here, SamePlayers    *)
(* and SameMadeUp.  The exceptions are make_player_netdead and             *)
(* make_up_flags_for_first_incomplete_tick.                                *)
(***************************************************************************)
\* What is made up is reflected; and nothing is made up yet for the ticks that
\* are not complete.
Reflected(h) ==
  \A t \in Ticks : h.read <= t =>
    /\ h.reflected[t] = {p \in Players : h.flags[p][t] = MadeUp}
    /\ h.incomplete <= t => h.reflected[t] = {}

\* A connected player has no tick of its death.
Undead(h) == \A p \in h.connected : h.netDeadTick[p] = -1

FlagsInv(h) == Reflected(h) /\ Undead(h)

\* Nobody is dropped.
SamePlayers(h, g) ==
  g.connected = h.connected /\ g.netDeadTick = h.netDeadTick

\* Nothing is made up, and nothing reflected, but what was; ticks may become
\* complete, and complete ones may leave the queues.
SameMadeUp(h, g) ==
  /\ {h.read, h.incomplete, g.read, g.incomplete} \subseteq Nat
  /\ h.read <= g.read /\ h.incomplete <= g.incomplete
  /\ \A t \in Ticks : g.read <= t => g.reflected[t] = h.reflected[t]
  /\ \A p \in Players, t \in Ticks :
       g.flags[p][t] = MadeUp <=> h.flags[p][t] = MadeUp

Harmless(h, g) == SamePlayers(h, g) /\ SameMadeUp(h, g)

\* The two action properties, of any step from h to g.
DropsFinally(h, g) ==
  \A p \in Players :
    /\ p \notin h.connected => /\ p \notin g.connected
                               /\ g.netDeadTick[p] = h.netDeadTick[p]
    /\ p \in h.connected \ g.connected =>
         g.netDeadTick[p] \in h.sendTimeWrite .. h.flagsWrite[p]

MakesUpForMinority(h, g) ==
  \A p \in Players, t \in Ticks :
    g.flags[p][t] = MadeUp /\ h.flags[p][t] # MadeUp =>
      /\ p # LocalPlayer
      /\ 2 * Cardinality({q \in h.connected : h.flagsWrite[q] > t})
           > Cardinality(h.connected)

-----------------------------------------------------------------------------
(***************************************************************************)
(* Harmless steps                                                          *)
(***************************************************************************)

\* Harmless steps one after the other are harmless.
LEMMA SameMadeUpTransitive ==
  ASSUME NEW h, NEW g, NEW k, SameMadeUp(h, g), SameMadeUp(g, k)
  PROVE  SameMadeUp(h, k)
<1>1. {h.read, h.incomplete, g.read, g.incomplete, k.read, k.incomplete} \subseteq Nat
  BY DEF SameMadeUp
<1>2. h.read <= k.read /\ h.incomplete <= k.incomplete
  BY <1>1 DEF SameMadeUp
<1>3. ASSUME NEW t \in Ticks, k.read <= t PROVE k.reflected[t] = h.reflected[t]
  <2>1. g.read <= t  BY <1>1, <1>3, Sizes DEF SameMadeUp
  <2>  QED BY <1>3, <2>1 DEF SameMadeUp
<1>4. \A p \in Players, t \in Ticks :
         k.flags[p][t] = MadeUp <=> h.flags[p][t] = MadeUp
  BY DEF SameMadeUp
<1> QED BY <1>1, <1>2, <1>3, <1>4 DEF SameMadeUp

LEMMA HarmlessTransitive ==
  ASSUME NEW h, NEW g, NEW k, Harmless(h, g), Harmless(g, k) PROVE Harmless(h, k)
BY SameMadeUpTransitive DEF Harmless, SamePlayers

\* They keep what is said of reflected flags.
LEMMA SameMadeUpReflected ==
  ASSUME NEW h, NEW g, SameMadeUp(h, g), Reflected(h) PROVE Reflected(g)
<1> SUFFICES ASSUME NEW t \in Ticks, g.read <= t
             PROVE  /\ g.reflected[t] = {p \in Players : g.flags[p][t] = MadeUp}
                    /\ g.incomplete <= t => g.reflected[t] = {}
  BY DEF Reflected
<1>1. h.read <= t /\ (g.incomplete <= t => h.incomplete <= t)
  BY Sizes DEF SameMadeUp
<1>2. g.reflected[t] = h.reflected[t]  BY DEF SameMadeUp
<1>3. {p \in Players : g.flags[p][t] = MadeUp} = {p \in Players : h.flags[p][t] = MadeUp}
  BY DEF SameMadeUp
<1> QED BY <1>1, <1>2, <1>3 DEF Reflected

\* They are what the action properties allow.
LEMMA HarmlessAllowed ==
  ASSUME NEW h, NEW g, Harmless(h, g), FlagsInv(h)
  PROVE  FlagsInv(g) /\ DropsFinally(h, g) /\ MakesUpForMinority(h, g)
<1>1. Reflected(g)
  BY SameMadeUpReflected DEF Harmless, FlagsInv
<1>2. Undead(g)
  BY DEF Harmless, SamePlayers, FlagsInv, Undead
<1>3. DropsFinally(h, g)
  BY DEF Harmless, SamePlayers, DropsFinally
<1>4. MakesUpForMinority(h, g)
  BY DEF Harmless, SameMadeUp, MakesUpForMinority
<1> QED BY <1>1, <1>2, <1>3, <1>4 DEF FlagsInv

\* A step that changes nothing of it is harmless.
LEMMA SameFieldsHarmless ==
  ASSUME NEW h, NEW g, Typed(h), SamePlayers(h, g), g.flags = h.flags,
         g.reflected = h.reflected, g.read = h.read, g.incomplete = h.incomplete
  PROVE  Harmless(h, g)
<1>1. h.read \in Nat /\ h.incomplete \in Nat  BY Numbers
<1>  QED BY <1>1 DEF Harmless, SameMadeUp

LEMMA SameQueuesHarmless ==
  ASSUME NEW h, NEW g, Typed(h), SameQueues(h, g), g.reflected = h.reflected
  PROVE  Harmless(h, g)
BY SameFieldsHarmless DEF SameQueues, SamePlayers

-----------------------------------------------------------------------------
(***************************************************************************)
(* The functions of the hub                                                *)
(***************************************************************************)

\* Ticks that leave the queues leave with what they reflect: nothing changes
\* from the new read tick on.
LEMMA AcknowledgementHarmless ==
  ASSUME NEW h, DOMAIN h = HubFields, NEW p \in Players, NEW ack \in Ticks,
         {h.read, h.incomplete, h.unacknowledged[p]} \subseteq Nat,
         Asserted(PlayerAcknowledged(h, p, ack))
  PROVE  /\ Harmless(h, PlayerAcknowledged(h, p, ack))
         /\ PlayerAcknowledged(h, p, ack).flagsWrite = h.flagsWrite
<1> DEFINE acked   == h.unacknowledged[p] .. ack - 1
           emptied == Emptied(h, p, acked)
           n       == Cardinality(emptied)
           g       == AcknowledgementTaken(h, p, ack)
<1>1. /\ h.read \in Nat /\ h.incomplete \in Nat
      /\ h.unacknowledged[p] \in Nat /\ ack \in Nat
  BY Sizes
<1>2. CASE ack < h.unacknowledged[p]
  BY <1>1, <1>2 DEF PlayerAcknowledged, Harmless, SamePlayers, SameMadeUp
<1>3. CASE ~ (ack < h.unacknowledged[p])
  <2>1. n \in Nat
    <3>1. IsFiniteSet(acked)
      <4>1. h.unacknowledged[p] \in Int /\ ack - 1 \in Int  BY <1>1
      <4>   HIDE DEF acked
      <4>2. IsFiniteSet(h.unacknowledged[p] .. ack - 1)
        BY <4>1, FS_Interval, Zenon
      <4>   QED BY <4>2 DEF acked
    <3>2. emptied \subseteq acked  BY DEF Emptied
    <3>3. IsFiniteSet(emptied)  BY <3>1, <3>2, FS_Subset
    <3>  QED BY <3>3, FS_CardinalityType
  <2>2. /\ g.read = h.read + n /\ g.incomplete = h.incomplete
        /\ g.connected = h.connected /\ g.netDeadTick = h.netDeadTick
        /\ g.flags = h.flags /\ g.flagsWrite = h.flagsWrite
        /\ g.reflected = [t \in Ticks |-> IF t \in emptied THEN {} ELSE h.reflected[t]]
    BY <1>1 DEF AcknowledgementTaken, CheckForCompletion, HubFields
  <2>3. Assert("dequeueInOrder", emptied = h.read .. h.read + n - 1) \subseteq g.failed
    BY <1>1 DEF AcknowledgementTaken, CheckForCompletion, HubFields
  <2>4. PlayerAcknowledged(h, p, ack) = g
    BY <1>3 DEF PlayerAcknowledged
  <2>5. Asserted(g)  BY <2>4
  <2>   HIDE DEF g, emptied, n
  <2>6. emptied = h.read .. h.read + n - 1
    BY <2>3, <2>5 DEF Assert, Asserted
  <2>7. \A t \in Ticks : g.read <= t => t \notin emptied
    BY <1>1, <2>1, <2>2, <2>6, Sizes
  <2>8. \A t \in Ticks : g.read <= t => g.reflected[t] = h.reflected[t]
    BY <2>2, <2>7
  <2>9. SameMadeUp(h, g)
    <3>1. {h.read, h.incomplete, g.read, g.incomplete} \subseteq Nat /\ h.read <= g.read
          /\ h.incomplete <= g.incomplete
      BY <1>1, <2>1, <2>2
    <3>  QED BY <2>2, <2>8, <3>1 DEF SameMadeUp
  <2>   QED BY <2>2, <2>4, <2>9 DEF Harmless, SamePlayers
<1> QED BY <1>2, <1>3

\* Flags that complete ticks make nothing up.
LEMMA ProvidedHarmless ==
  ASSUME NEW h, DOMAIN h = HubFields, h.read \in Nat, h.incomplete \in Nat,
         NEW p \in Players, NEW first \in Int, NEW last \in Int
  PROVE  LET g == PlayerProvided(h, p, first, last)
         IN  /\ Harmless(h, g) /\ DOMAIN g = HubFields
             /\ g.flagsWrite = h.flagsWrite /\ g.unacknowledged = h.unacknowledged
<1> DEFINE provided  == first .. last - 1
           waiting   == [t \in Ticks |-> IF h.write <= t /\ t < last
                                         THEN h.connected ELSE h.disposition[t]]
           completed == Completed(waiting, p, provided)
           n         == Cardinality(completed)
           g         == PlayerProvided(h, p, first, last)
<1>2. n \in Nat
  <2>1. IsFiniteSet(provided)  BY FS_Interval
  <2>2. completed \subseteq provided  BY DEF Completed
  <2>3. IsFiniteSet(completed)  BY <2>1, <2>2, FS_Subset, SMTT(30)
  <2>  QED BY <2>3, FS_CardinalityType
<1>3. /\ g.read = h.read /\ g.incomplete = h.incomplete + n
      /\ g.connected = h.connected /\ g.netDeadTick = h.netDeadTick
      /\ g.flags = h.flags /\ g.reflected = h.reflected
      /\ g.flagsWrite = h.flagsWrite /\ g.unacknowledged = h.unacknowledged
      /\ DOMAIN g = HubFields
  BY SMTT(30) DEF PlayerProvided, HubFields
<1> HIDE DEF g, n
<1>4. SameMadeUp(h, g)
  BY <1>2, <1>3 DEF SameMadeUp
<1> QED BY <1>3, <1>4 DEF Harmless, SamePlayers, g

\* Nor does sending.
LEMMA SendingHarmless ==
  ASSUME NEW h, DOMAIN h = HubFields, h.read \in Nat, h.incomplete \in Nat
  PROVE  Harmless(h, SendPackets(h))
<1> DEFINE g == SendPackets(h)
<1>1. /\ g.read = h.read /\ g.incomplete = h.incomplete
      /\ g.connected = h.connected /\ g.netDeadTick = h.netDeadTick
      /\ g.flags = h.flags /\ g.reflected = h.reflected
  BY DEF SendPackets, HubFields
<1> HIDE DEF g
<1> QED BY <1>1 DEF Harmless, SamePlayers, SameMadeUp, g

\* New flags are for ticks that nobody has had made up yet.
LEMMA ReceivedFlagsHarmless ==
  ASSUME NEW h, Consistent(h), Reflected(h), NEW p \in h.connected,
         NEW start \in Nat, NEW count \in Nat, start + count <= MaxTick
  PROVE  Harmless(h, ReceiveFlags(h, p, start, count))
<1> DEFINE filled    == start > h.lateWrite[p]
           lateWrite == IF filled THEN h.flagsWrite[p] ELSE h.lateWrite[p]
           lateRead  == h.lateRead[p] + (lateWrite - h.lateWrite[p])
           redundant == Smaller(lateWrite - start, count)
           late      == LateFlags(h, p, lateWrite, count - redundant)
           size      == h.flagsWrite[p] - h.flagsRead[p]
           room      == IF h.read < RealGameTick /\ size > PregameWindow
                        THEN 0 ELSE QueueSize - size
           fresh     == Smaller(count - redundant - late, room)
           first     == start + redundant + late
           w         == h.flagsWrite[p]
           e == [h EXCEPT
             !.flags[p] = [t \in Ticks |->
                IF h.flagsWrite[p] <= t /\ t < h.flagsWrite[p] + fresh
                THEN first + (t - h.flagsWrite[p]) ELSE h.flags[p][t]],
             !.flagsWrite[p] = @ + fresh,
             !.lateWrite[p] = lateWrite + late + fresh,
             !.lateRead[p] = lateRead,
             !.failed = @
                \cup Assert("lateQueueCaughtUp",
                            fresh > 0 => h.flagsWrite[p] = lateWrite + late)
                \cup Assert("lateQueueFull",
                            /\ lateWrite > h.lateWrite[p]
                                 => h.lateWrite[p] - h.lateRead[p] < QueueSize
                            /\ late + fresh > 0
                                 => lateWrite + late + fresh - lateRead <= QueueSize)]
           g == PlayerProvided(e, p, first, first + fresh)
<1>1. /\ Typed(h) /\ Ordered(h) /\ DOMAIN h = HubFields /\ IsHub(h)
  BY DEF Consistent, Typed
<1>2. DOMAIN h = HubFields
  BY <1>1
<1>3. /\ p \in Players /\ h.read \in Nat /\ h.incomplete \in Nat
      /\ w \in Nat /\ h.flagsRead[p] \in Nat /\ h.lateWrite[p] \in Nat
      /\ h.lateWrite[p] <= w /\ h.incomplete <= w /\ h.read <= h.incomplete
  BY <1>1, Numbers DEF Ordered
<1>4. CASE start > w
  <2>1. ReceiveFlags(h, p, start, count) = h
    BY <1>3, <1>4 DEF ReceiveFlags
  <2> QED BY <1>3, <2>1, SMTT(40) DEF Harmless, SamePlayers, SameMadeUp
<1>5. CASE ~ (start > w)
  <2>1. /\ lateWrite \in Nat /\ lateWrite <= w /\ start <= lateWrite
    BY <1>3, <1>5
  <2> HIDE DEF lateWrite, lateRead
  <2>2. redundant \in Nat /\ redundant <= count
    BY <2>1 DEF Smaller
  <2> HIDE DEF redundant
  <2>3. late \in Nat
    BY <1>3, <2>1, <2>2 DEF LateFlags, Smaller
  <2> HIDE DEF late
  <2>4. room \in Int
    BY <1>3, Sizes
  <2> HIDE DEF room
  <2>5. fresh \in Int
    BY <2>2, <2>3, <2>4 DEF Smaller
  <2>6. first \in Nat /\ first + fresh \in Int
    BY <2>2, <2>3, <2>5
  <2> HIDE DEF fresh, first
  <2>7. /\ DOMAIN e = HubFields
        /\ e.flags = [h.flags EXCEPT ![p] = [t \in Ticks |->
             IF w <= t /\ t < w + fresh THEN first + (t - w) ELSE h.flags[p][t]]]
        /\ e.connected = h.connected /\ e.netDeadTick = h.netDeadTick
        /\ e.reflected = h.reflected /\ e.read = h.read
        /\ e.incomplete = h.incomplete
    BY <1>2, SMTT(40) DEF HubFields
  <2>8. ReceiveFlags(h, p, start, count) \in {e, g, SendPackets(g)}
    BY <1>3, <1>5 DEF ReceiveFlags, first, fresh, room, late, redundant, lateRead, lateWrite
  <2> HIDE DEF e
  <2>9. ASSUME NEW q \in Players, NEW t \in Ticks
        PROVE  e.flags[q][t] = MadeUp <=> h.flags[q][t] = MadeUp
    <3>1. CASE q = p /\ w <= t /\ t < w + fresh
      <4>1. e.flags[q][t] = first + (t - w)
        BY <1>1, <1>3, <2>7, <3>1 DEF IsHub
      <4>2. e.flags[q][t] # MadeUp
        BY <1>3, <2>6, <3>1, <4>1, Sizes DEF MadeUp
      <4>3. h.read <= t /\ h.incomplete <= t
        BY <1>3, <3>1, Sizes
      <4>4. {r \in Players : h.flags[r][t] = MadeUp} = {}
        BY <4>3 DEF Reflected
      <4> QED BY <4>2, <4>4
    <3>2. CASE ~ (q = p /\ w <= t /\ t < w + fresh)
      BY <1>1, <1>3, <2>7, <3>2 DEF IsHub
    <3> QED BY <3>1, <3>2
  <2>10. Harmless(h, e)
    BY <1>3, <2>7, <2>9 DEF Harmless, SamePlayers, SameMadeUp
  <2>11. Harmless(e, g) /\ DOMAIN g = HubFields
    BY <1>3, <2>6, <2>7, ProvidedHarmless
  <2> HIDE DEF g
  <2>12. g.read \in Nat /\ g.incomplete \in Nat
    BY <2>11 DEF Harmless, SameMadeUp
  <2>13. Harmless(g, SendPackets(g))
    BY <2>11, <2>12, SendingHarmless
  <2>14. Harmless(h, g) /\ Harmless(h, SendPackets(g))
    BY <2>10, <2>11, <2>13, HarmlessTransitive
  <2> QED BY <2>8, <2>10, <2>14
<1> QED BY <1>4, <1>5

\* A packet makes nothing up and drops nobody.
LEMMA ReceivedGameDataHarmless ==
  ASSUME NEW h, Consistent(h), Reflected(h), NEW p \in h.connected, NEW ack \in Ticks,
         NEW hasFlags, NEW start \in Nat, NEW count \in Nat, start + count <= MaxTick
  PROVE  Harmless(h, ReceivedGameData(h, p, ack, hasFlags, start, count))
<1> DEFINE checked == [h EXCEPT !.failed = @ \cup Assert("sender", p \in h.connected)]
           acked   == PlayerAcknowledged(checked, p, ack)
<1>1. /\ DOMAIN h = HubFields /\ Typed(h)
  BY DEF Consistent, Typed
<1>2. /\ DOMAIN checked = HubFields /\ SameQueues(h, checked)
  BY <1>1 DEF HubFields, SameQueues, Assert
<1>3. /\ checked.silence = h.silence /\ checked.reflected = h.reflected
      /\ checked.unsent = h.unsent /\ checked.lagging = h.lagging
      /\ checked.sinceUpdate = h.sinceUpdate /\ checked.sinceSent = h.sinceSent
      /\ checked.scan = h.scan /\ checked.dropped = h.dropped
      /\ checked.active = h.active /\ checked.postGame = h.postGame
      /\ checked.phase = h.phase
  BY <1>1, Zenon DEF HubFields
<1> HIDE DEF checked
<1>4. Typed(checked)
  BY <1>1, <1>2, <1>3, Zenon DEF Typed, IsHub, SameQueues
<1>5. Consistent(checked) /\ p \in checked.connected /\ p \in Players
      /\ checked.incomplete = h.incomplete
  BY <1>1, <1>2, <1>4, SameQueuesConsistent, Numbers DEF SameQueues
<1>6. Harmless(h, checked)
  BY <1>1, <1>2, <1>3, SameQueuesHarmless
<1>7. CASE ack > h.incomplete
  <2>1. ReceivedGameData(h, p, ack, hasFlags, start, count) = h
    BY <1>7 DEF ReceivedGameData
  <2>2. h.read \in Nat /\ h.incomplete \in Nat
    BY <1>1, Numbers
  <2> QED BY <2>1, <2>2 DEF Harmless, SamePlayers, SameMadeUp
<1>8. CASE ~ (ack > h.incomplete)
  <2>1. ack <= checked.incomplete
    BY <1>1, <1>5, <1>8, Numbers, Sizes
  <2>2. Consistent(acked) /\ p \in acked.connected
    BY <1>5, <2>1, PlayerAcknowledgedConsistent
  <2>3. Harmless(checked, acked)
    BY <1>2, <1>4, <1>5, <2>2, Numbers, AcknowledgementHarmless DEF Consistent
  <2> HIDE DEF acked
  <2>4. Harmless(h, acked)
    BY <1>6, <2>3, HarmlessTransitive
  <2>5. Reflected(acked)
    BY <2>4, SameMadeUpReflected DEF Harmless
  <2>6. Harmless(acked, ReceiveFlags(acked, p, start, count))
    BY <2>2, <2>5, ReceivedFlagsHarmless
  <2>7. ReceivedGameData(h, p, ack, hasFlags, start, count) =
          IF hasFlags THEN ReceiveFlags(acked, p, start, count) ELSE acked
    BY <1>8 DEF ReceivedGameData, acked, checked
  <2> QED BY <2>4, <2>6, <2>7, HarmlessTransitive
<1> QED BY <1>7, <1>8

-----------------------------------------------------------------------------
(***************************************************************************)
(* make_player_netdead                                                     *)
(***************************************************************************)

\* The player is dropped from the first incomplete tick on, up to which the hub
\* has its flags and from which on nobody has been sent any.
LEMMA NetDeadFinal ==
  ASSUME NEW h, Consistent(h), NEW p \in h.connected
  PROVE  LET g == MakePlayerNetDead(h, p)
         IN  /\ SameMadeUp(h, g)
             /\ g.connected = h.connected \ {p}
             /\ g.netDeadTick = [h.netDeadTick EXCEPT ![p] = h.incomplete]
             /\ h.incomplete \in h.sendTimeWrite .. h.flagsWrite[p]
<1> DEFINE erased == IF p \in h.addressKnown THEN p ELSE LocalPlayer
           dead   == [h EXCEPT !.netDeadTick[p] = DeathTick(h, p),
                               !.connected = @ \ {p},
                               !.routable = @ \ {erased}]
           k      == PlayerProvided(dead, p, h.flagsWrite[p], h.write)
           g      == MakePlayerNetDead(h, p)
<1>1. /\ DOMAIN h = HubFields /\ Typed(h) /\ Ordered(h) /\ p \in Players
      /\ h.read \in Nat /\ h.incomplete \in Nat /\ h.flagsWrite[p] \in Nat
      /\ h.write \in Nat /\ h.sendTimeWrite \in Nat /\ h.incomplete \in Ticks
      /\ h.unacknowledged[p] \in Nat
  BY Numbers DEF Consistent, Typed
<1>2. /\ dead.connected = h.connected \ {p}
      /\ dead.netDeadTick = [h.netDeadTick EXCEPT ![p] = h.incomplete]
      /\ DOMAIN dead = HubFields
      /\ dead.read = h.read /\ dead.incomplete = h.incomplete
      /\ dead.flags = h.flags /\ dead.reflected = h.reflected
      /\ dead.flagsWrite = h.flagsWrite /\ dead.write = h.write
      /\ dead.unacknowledged = h.unacknowledged
  BY <1>1 DEF DeathTick, HubFields
<1>3. g = PlayerAcknowledged(k, p, h.incomplete)
  BY <1>2 DEF MakePlayerNetDead
<1>4. Consistent(g)
  BY MakePlayerNetDeadConsistent
<1> HIDE DEF dead, g
<1>5. SameMadeUp(h, dead)
  BY <1>1, <1>2 DEF SameMadeUp
<1>6. /\ Harmless(dead, k) 
      /\ DOMAIN k = HubFields /\ k.unacknowledged = h.unacknowledged
  BY <1>1, <1>2, ProvidedHarmless
<1> HIDE DEF k
<1>7. Harmless(k, g) 
  <2>1. {k.read, k.incomplete, k.unacknowledged[p]} \subseteq Nat
    BY <1>1, <1>6 DEF Harmless, SameMadeUp
  <2>2. Asserted(PlayerAcknowledged(k, p, h.incomplete))
    BY <1>3, <1>4 DEF Consistent
  <2>   QED BY <1>1, <1>3, <1>6, <2>1, <2>2, AcknowledgementHarmless
<1>8. SameMadeUp(h, g)
  BY <1>5, <1>6, <1>7, SameMadeUpTransitive DEF Harmless
<1>9. h.incomplete \in h.sendTimeWrite .. h.flagsWrite[p]
  BY <1>1 DEF Ordered
<1> QED BY <1>2, <1>6, <1>7, <1>8, <1>9 DEF Harmless, SamePlayers, g

-----------------------------------------------------------------------------
(***************************************************************************)
(* make_up_flags_for_first_incomplete_tick                                 *)
(***************************************************************************)

\* What is made up is for the first incomplete tick, and is reflected.
LEMMA MadeUpReflected ==
  ASSUME NEW h, Consistent(h), CanMakeUpFlags(h), Reflected(h)
  PROVE  LET g == MakeUpFlags(h)
         IN  /\ Reflected(g) /\ SamePlayers(h, g)
             /\ \A p \in Players, t \in Ticks :
                  g.flags[p][t] = MadeUp /\ h.flags[p][t] # MadeUp =>
                    t = h.incomplete /\ p \in WithoutFlags(h)
             /\ DOMAIN g = HubFields /\ g.read \in Nat /\ g.incomplete \in Nat
<1> DEFINE late(p) == h.lateWrite[p] - h.lateRead[p]
           g       == MakeUpFlags(h)
<1>1. /\ Typed(h) /\ Ordered(h) /\ DOMAIN h = HubFields /\ IsHub(h)
      /\ h.read \in Nat /\ h.incomplete \in Nat /\ h.incomplete \in Ticks
      /\ h.read <= h.incomplete
  BY Numbers DEF Consistent, Typed, Ordered
<1>2. DOMAIN h = HubFields
  BY <1>1
<1>3. /\ g.flags = [p \in Players |->
             IF p \in WithoutFlags(h)
             THEN [h.flags[p] EXCEPT ![h.incomplete] = MadeUp]
             ELSE h.flags[p]]
      /\ g.reflected = [h.reflected EXCEPT ![h.incomplete] = ReflectedBits(h)]
      /\ g.incomplete = h.incomplete + 1 /\ g.read = h.read
      /\ g.connected = h.connected /\ g.netDeadTick = h.netDeadTick
      /\ DOMAIN g = HubFields
  BY <1>2 DEF MakeUpFlags, HubFields
<1> HIDE DEF g
<1>4. ASSUME NEW p \in Players, NEW t \in Ticks
      PROVE  g.flags[p][t] = IF t = h.incomplete /\ p \in WithoutFlags(h)
                             THEN MadeUp ELSE h.flags[p][t]
  BY <1>1, <1>3 DEF IsHub
<1>5. ASSUME NEW t \in Ticks, g.read <= t
      PROVE  /\ g.reflected[t] = {p \in Players : g.flags[p][t] = MadeUp}
             /\ g.incomplete <= t => g.reflected[t] = {}
  <2>1. /\ h.reflected[t] = {p \in Players : h.flags[p][t] = MadeUp}
        /\ h.incomplete <= t => h.reflected[t] = {}
    BY <1>3, <1>5 DEF Reflected
  <2>2. CASE t = h.incomplete
    <3>1. g.reflected[t] = h.reflected[t] \cup WithoutFlags(h)
      BY <1>1, <1>3, <2>2 DEF IsHub, ReflectedBits
    <3>2. h.reflected[t] = {}
      BY <1>1, <2>1, <2>2
    <3>3. {p \in Players : g.flags[p][t] = MadeUp} = WithoutFlags(h)
      <4>1. \A p \in Players : h.flags[p][t] # MadeUp
        BY <2>1, <3>2
      <4>2. WithoutFlags(h) \subseteq Players
        BY DEF WithoutFlags
      <4>   QED BY <1>4, <2>2, <4>1, <4>2
    <3>4. ~ (g.incomplete <= t)
      BY <1>1, <1>3, <2>2
    <3>   QED BY <3>1, <3>2, <3>3, <3>4
  <2>3. CASE t # h.incomplete
    <3>1. g.reflected[t] = h.reflected[t]
      BY <1>1, <1>3, <2>3 DEF IsHub
    <3>2. \A p \in Players : g.flags[p][t] = h.flags[p][t]
      BY <1>4, <2>3
    <3>3. g.incomplete <= t => h.incomplete <= t
      BY <1>1, <1>3, Sizes
    <3>   QED BY <2>1, <3>1, <3>2, <3>3
  <2> QED BY <2>2, <2>3
<1>6. Reflected(g)
  BY <1>5 DEF Reflected
<1>7. g.read \in Nat /\ g.incomplete \in Nat
  BY <1>1, <1>3
<1> QED BY <1>3, <1>4, <1>6, <1>7 DEF g, SamePlayers

\* hub_tick makes flags up for the remote players that are late while more than
\* half of the players are not: that is what it tests with Alive and the
\* waiting set of the first incomplete tick.
LEMMA MajorityHasFlags ==
  ASSUME NEW h, Consistent(h), Undead(h), h.incomplete < h.write,
         MajorityReady(h), CanMakeUpFlags(h)
  PROVE  /\ LocalPlayer \notin WithoutFlags(h)
         /\ 2 * Cardinality({q \in h.connected : h.flagsWrite[q] > h.incomplete})
              > Cardinality(h.connected)
<1> DEFINE nonReady == Alive(h) \cap h.disposition[h.incomplete]
           ready    == {q \in h.connected : h.flagsWrite[q] > h.incomplete}
<1>1. /\ h.read \in Nat /\ h.incomplete \in Nat /\ h.write \in Nat
      /\ h.read <= h.incomplete /\ h.connected \subseteq Players
      /\ \A q \in h.connected : h.flagsWrite[q] \in Nat
  BY Numbers DEF Consistent, Ordered
<1>2. Alive(h) = h.connected
  BY StarConstants DEF Alive, Undead
<1>3. h.disposition[h.incomplete] = {q \in h.connected : h.flagsWrite[q] <= h.incomplete}
  <2>1. h.incomplete \in h.read .. h.write - 1 /\ ~ (h.incomplete < h.incomplete)
    BY <1>1
  <2>   QED BY <2>1 DEF Consistent, Waiting, Awaited
<1>4. ready = h.connected \ nonReady /\ nonReady \subseteq h.connected
  BY <1>1, <1>2, <1>3
<1>5. IsFiniteSet(h.connected)
  <2>1. IsFiniteSet(Players)
    <3>1. 0 \in Int /\ NumPlayers - 1 \in Int  BY Sizes
    <3>   QED BY <3>1, FS_Interval, Zenon DEF Players
  <2> QED BY <1>1, <2>1, FS_Subset
<1> HIDE DEF ready, nonReady
<1>6. Cardinality(ready) = Cardinality(h.connected) - Cardinality(nonReady)
  <2>1. h.connected \cap nonReady = nonReady  BY <1>4
  <2>2. Cardinality(h.connected \ nonReady)
          = Cardinality(h.connected) - Cardinality(h.connected \cap nonReady)
    BY <1>5, FS_Difference, ZenonT(30)
  <2>   QED BY <1>4, <2>1, <2>2
<1>7. Cardinality(ready) > Cardinality(nonReady)
  BY <1>2, <1>4 DEF MajorityReady, nonReady
<1>8. Cardinality(ready) \in Nat /\ Cardinality(nonReady) \in Nat
  <2>1. IsFiniteSet(ready) /\ IsFiniteSet(nonReady)
    <3>1. ready \in SUBSET h.connected /\ nonReady \in SUBSET h.connected  BY <1>4
    <3>   QED BY <1>5, <3>1, FS_Subset
  <2> QED BY <2>1, FS_CardinalityType
<1>9. 2 * Cardinality(ready) > Cardinality(h.connected)
      /\ Cardinality(h.connected) \in Nat
  <2>1. Cardinality(h.connected) \in Nat  BY <1>5, FS_CardinalityType
  <2>   QED BY <2>1, <1>6, <1>7, <1>8
<1> QED BY <1>9 DEF CanMakeUpFlags, ready

\* The end of hub_tick.
LEMMA TickFinishedAllowed ==
  ASSUME NEW h, Consistent(h), FlagsInv(h)
  PROVE  LET g == TickFinished(h)
         IN  FlagsInv(g) /\ DropsFinally(h, g) /\ MakesUpForMinority(h, g)
<1> DEFINE e == LoopEnded(h)
           m == LaggardsMarked(e)
           k == MakeUpFlags(m)
           g == TickFinished(h)
<1>1. /\ Consistent(e) /\ SameQueues(h, e) /\ Harmless(h, e)
  BY LoopEndedConsistent, SameQueuesHarmless DEF Consistent
<1>2. /\ Consistent(m) /\ SameQueues(e, m) /\ Harmless(h, m)
  BY <1>1, LaggardsMarkedConsistent, SameQueuesHarmless, HarmlessTransitive DEF Consistent
<1>3. FlagsInv(m)
  BY <1>2, HarmlessAllowed
<1>4. \/ g \in {e, m, SendPackets(e), SendPackets(m)}
      \/ /\ g \in {k, SendPackets(k)}
         /\ MajorityReady(m) /\ CanMakeUpFlags(m) /\ ~ (e.incomplete >= e.write)
  <2>1. \/ FlagsMadeUp(e) \in {e, m}
        \/ /\ FlagsMadeUp(e) = k
           /\ MajorityReady(m) /\ CanMakeUpFlags(m) /\ ~ (e.incomplete >= e.write)
    BY Zenon DEF FlagsMadeUp
  <2>2. g \in {e, SendPackets(e), FlagsMadeUp(e), SendPackets(FlagsMadeUp(e))}
    BY Zenon DEF TickFinished, LoopEnded
  <2>   HIDE DEF g, e, m, k
  <2>   QED BY <2>1, <2>2
<1> HIDE DEF e, m, g
<1>5. CASE g \in {e, m, SendPackets(e), SendPackets(m)}
  <2>1. /\ DOMAIN e = HubFields /\ e.read \in Nat /\ e.incomplete \in Nat
        /\ DOMAIN m = HubFields /\ m.read \in Nat /\ m.incomplete \in Nat
    BY <1>1, <1>2, Numbers DEF Consistent, Typed
  <2>2. Harmless(h, SendPackets(e)) /\ Harmless(h, SendPackets(m))
    BY <1>1, <1>2, <2>1, SendingHarmless, HarmlessTransitive
  <2>3. Harmless(h, g)
    BY <1>1, <1>2, <1>5, <2>2
  <2>   QED BY <2>3, HarmlessAllowed DEF g
<1>6. CASE /\ g \in {k, SendPackets(k)}
           /\ MajorityReady(m) /\ CanMakeUpFlags(m) /\ ~ (e.incomplete >= e.write)
  <2>1. /\ Reflected(k) /\ SamePlayers(m, k)
        /\ \A p \in Players, t \in Ticks :
             k.flags[p][t] = MadeUp /\ m.flags[p][t] # MadeUp =>
               t = m.incomplete /\ p \in WithoutFlags(m)
        /\ DOMAIN k = HubFields /\ k.read \in Nat /\ k.incomplete \in Nat
    BY <1>2, <1>3, <1>6, MadeUpReflected DEF FlagsInv
  <2>   HIDE DEF k
  <2>2. Harmless(k, SendPackets(k))
    BY <2>1, SendingHarmless
  <2>3. /\ Reflected(g) /\ SamePlayers(m, g)
        /\ \A p \in Players, t \in Ticks : g.flags[p][t] = MadeUp <=> k.flags[p][t] = MadeUp
    <3>1. CASE g = k
      BY <2>1, <3>1
    <3>2. CASE g = SendPackets(k)
      BY <2>1, <2>2, <3>2, SameMadeUpReflected DEF Harmless, SamePlayers, SameMadeUp
    <3>   QED BY <1>6, <3>1, <3>2
  <2>4. SamePlayers(h, g)
    BY <1>2, <2>3 DEF Harmless, SamePlayers
  <2>5. FlagsInv(g) /\ DropsFinally(h, g)
    BY <2>3, <2>4 DEF FlagsInv, Undead, DropsFinally, SamePlayers
  <2>6. MakesUpForMinority(h, g)
    <3>1. m.incomplete < m.write
      <4>1. m.incomplete = e.incomplete /\ m.write = e.write
        BY <1>2 DEF SameQueues
      <4>2. m.incomplete \in Nat /\ m.write \in Nat
        BY <1>2, Numbers DEF Consistent
      <4>   QED BY <1>6, <4>1, <4>2
    <3>2. /\ LocalPlayer \notin WithoutFlags(m)
          /\ 2 * Cardinality({q \in m.connected : m.flagsWrite[q] > m.incomplete})
               > Cardinality(m.connected)
      BY <1>2, <1>3, <1>6, <3>1, MajorityHasFlags DEF FlagsInv
    <3>3. m.connected = h.connected /\ m.flagsWrite = h.flagsWrite
      BY <1>1, <1>2 DEF SameQueues
    <3>4. \A p \in Players, t \in Ticks :
            g.flags[p][t] = MadeUp /\ h.flags[p][t] # MadeUp =>
              t = m.incomplete /\ p \in WithoutFlags(m)
      BY <1>2, <2>1, <2>3 DEF Harmless, SameMadeUp
    <3>   QED BY <3>2, <3>3, <3>4 DEF MakesUpForMinority
  <2>   QED BY <2>5, <2>6 DEF g
<1> HIDE DEF k
<1> QED BY <1>4, <1>5, <1>6 DEF g

\* One iteration of the loop of hub_tick may drop a player.
LEMMA PlayerScannedAllowed ==
  ASSUME NEW h, Consistent(h), FlagsInv(h), h.scan \in Players
  PROVE  LET g == PlayerScanned(h)
         IN  FlagsInv(g) /\ DropsFinally(h, g) /\ MakesUpForMinority(h, g)
<1> DEFINE p == h.scan
           g == PlayerScanned(h)
           k == MakePlayerNetDead(h, p)
<1>1. DOMAIN h = HubFields /\ Typed(h) /\ IsHub(h)
  BY DEF Consistent, Typed
<1>2. CASE ~ MustDrop(h, p)
  <2>1. g = [h EXCEPT !.scan = p + 1]
    BY <1>2, Zenon DEF PlayerScanned
  <2>2. /\ SamePlayers(h, g) /\ g.flags = h.flags
        /\ g.read = h.read /\ g.incomplete = h.incomplete /\ g.reflected = h.reflected
    BY <1>1, <2>1, Zenon DEF HubFields, SamePlayers
  <2>   HIDE DEF g
  <2>   QED BY <1>1, <2>2, SameFieldsHarmless, HarmlessAllowed DEF g
<1>3. CASE MustDrop(h, p)
  <2>1. p \in h.connected  BY <1>3 DEF MustDrop
  <2>2. /\ SameMadeUp(h, k) /\ k.connected = h.connected \ {p}
        /\ k.netDeadTick = [h.netDeadTick EXCEPT ![p] = h.incomplete]
        /\ h.incomplete \in h.sendTimeWrite .. h.flagsWrite[p]
    BY <2>1, NetDeadFinal
  <2>3. DOMAIN k = HubFields
    BY <2>1, MakePlayerNetDeadConsistent DEF Consistent, Typed
  <2>4. g = [k EXCEPT !.scan = p + 1, !.dropped = TRUE]
    BY <1>3, Zenon DEF PlayerScanned
  <2>5. /\ g.connected = k.connected /\ g.netDeadTick = k.netDeadTick
        /\ g.flags = k.flags
        /\ g.read = k.read /\ g.incomplete = k.incomplete /\ g.reflected = k.reflected
    BY <2>3, <2>4, Zenon DEF HubFields
  <2>   HIDE DEF g, k
  <2>6. SameMadeUp(h, g)
    BY <2>2, <2>5 DEF SameMadeUp
  <2>7. Reflected(g) /\ MakesUpForMinority(h, g)
    BY <2>6, SameMadeUpReflected DEF FlagsInv, SameMadeUp, MakesUpForMinority
  <2>8. /\ g.connected = h.connected \ {p}
        /\ g.netDeadTick = [h.netDeadTick EXCEPT ![p] = h.incomplete]
        /\ h.incomplete \in h.sendTimeWrite .. h.flagsWrite[p]
    BY <2>2, <2>5
  <2>9. \A q \in Players : g.netDeadTick[q] = IF q = p THEN h.incomplete ELSE h.netDeadTick[q]
    BY <1>1, <2>8 DEF IsHub
  <2>10. h.connected \subseteq Players  BY <1>1 DEF IsHub
  <2>11. Undead(g)
    BY <2>8, <2>9, <2>10 DEF Undead, FlagsInv
  <2>12. DropsFinally(h, g)
    BY <2>1, <2>8, <2>9 DEF DropsFinally
  <2>   QED BY <2>7, <2>11, <2>12 DEF FlagsInv, g
<1> QED BY <1>2, <1>3

-----------------------------------------------------------------------------
(***************************************************************************)
(* The invariant and the properties                                        *)
(***************************************************************************)

LEMMA StepAllowed ==
  ASSUME Consistent(hub), FlagsInv(hub), [Next]_hub
  PROVE  FlagsInv(hub') /\ DropsFinally(hub, hub') /\ MakesUpForMinority(hub, hub')
<1> DEFINE Allowed == FlagsInv(hub') /\ DropsFinally(hub, hub') /\ MakesUpForMinority(hub, hub')
<1>1. DOMAIN hub = HubFields /\ Typed(hub) /\ Routed(hub)
  BY DEF Consistent, Typed
<1>2. Harmless(hub, hub') => Allowed
  BY HarmlessAllowed
<1>3. ASSUME /\ hub'.connected = hub.connected /\ hub'.netDeadTick = hub.netDeadTick
             /\ hub'.flags = hub.flags /\ hub'.reflected = hub.reflected
             /\ hub'.read = hub.read /\ hub'.incomplete = hub.incomplete
      PROVE  Allowed
  <2>1. Harmless(hub, hub')
    BY <1>1, <1>3, SameFieldsHarmless DEF SamePlayers
  <2>   QED BY <1>2, <2>1
<1>4. ASSUME NEW p \in Players, HubReceivedIdentification(p) PROVE Allowed
  <2>1. hub' = [hub EXCEPT !.routable = @ \cup {p}, !.addressKnown = @ \cup {p}]
    BY <1>4 DEF HubReceivedIdentification
  <2>   QED BY <1>1, <1>3, <2>1, Zenon DEF HubFields
<1>5. ASSUME NEW p \in Players, NEW ack \in Ticks, NEW hasFlags,
             NEW start \in Nat, NEW count \in Nat,
             HubReceivedGameData(p, ack, hasFlags, start, count)
      PROVE  Allowed
  <2>1. p \in hub.connected /\ start + count <= MaxTick
    BY <1>1, <1>5 DEF HubReceivedGameData, Routed
  <2>2. hub' = ReceivedGameData(hub, p, ack, hasFlags, start, count)
    BY <1>5 DEF HubReceivedGameData
  <2>3. Harmless(hub, ReceivedGameData(hub, p, ack, hasFlags, start, count))
    BY <2>1, ReceivedGameDataHarmless DEF FlagsInv
  <2>4. Harmless(hub, hub')
    BY <2>2, <2>3
  <2>   QED BY <1>2, <2>4
<1>6. ASSUME BeginHubTick PROVE Allowed
  <2>1. hub' = TickStarted(hub)
    BY <1>6 DEF BeginHubTick
  <2>   QED BY <1>1, <1>3, <2>1, Zenon DEF TickStarted, HubFields
<1>7. ASSUME ScanPlayer PROVE Allowed
  <2>1. hub' = PlayerScanned(hub) /\ hub.scan \in Players
    BY <1>7 DEF ScanPlayer
  <2>   QED BY <2>1, PlayerScannedAllowed
<1>8. ASSUME FinishHubTick PROVE Allowed
  <2>1. hub' = TickFinished(hub)
    BY <1>8 DEF FinishHubTick
  <2>   QED BY <2>1, TickFinishedAllowed
<1>9. ASSUME NEW graceful, NEW tick \in Ticks, HubCleanup(graceful, tick) PROVE Allowed
  <2>1. hub' = CleanedUp(hub, graceful, tick)
    BY <1>9 DEF HubCleanup
  <2>   DEFINE g == CleanedUp(hub, graceful, tick)
  <2>2. /\ g.connected = hub.connected /\ g.netDeadTick = hub.netDeadTick
        /\ g.flags = hub.flags /\ g.reflected = hub.reflected
        /\ g.read = hub.read /\ g.incomplete = hub.incomplete
    BY <1>1 DEF CleanedUp, CheckForCompletion, HubFields
  <2>   QED BY <1>3, <2>1, <2>2
<1>10. ASSUME HubStops PROVE Allowed
  <2>1. hub' = [hub EXCEPT !.phase = "done"]
    BY <1>10 DEF HubStops
  <2>   QED BY <1>1, <1>3, <2>1, Zenon DEF HubFields
<1>11. ASSUME Stopped \/ UNCHANGED hub PROVE Allowed
  BY <1>3, <1>11 DEF Stopped
<1>12. 0 .. SpokeWindow \subseteq Nat /\ Ticks \subseteq Nat
  BY StarConstants, HubConstants, Sizes
<1>   HIDE DEF Allowed
<1>13. ASSUME \E p \in Players, ack \in Ticks : HubReceivedGameData(p, ack, FALSE, 0, 0)
       PROVE  Allowed
  BY <1>5, <1>13
<1>14. ASSUME \E p \in Players, ack \in Ticks, start \in Ticks, count \in 0 .. SpokeWindow :
                HubReceivedGameData(p, ack, TRUE, start, count)
       PROVE  Allowed
  BY <1>5, <1>12, <1>14
<1>15. Allowed
  BY <1>4, <1>6, <1>7, <1>8, <1>9, <1>10, <1>11, <1>13, <1>14 DEF Next
<1> QED BY <1>15 DEF Allowed

LEMMA InitFlags == Init => FlagsInv(hub)
<1> SUFFICES ASSUME NEW present \in SUBSET Players PROVE FlagsInv(InitialHub(present))
  BY DEF Init
<1> DEFINE h == InitialHub(present)
<1>1. /\ h.connected = present /\ h.incomplete = 0 /\ h.read = 0
      /\ h.netDeadTick = [p \in Players |-> -1]
      /\ h.flags = [p \in Players |-> [t \in Ticks |-> None]]
      /\ h.reflected = [t \in Ticks |-> {}]
  BY DEF InitialHub
<1> HIDE DEF h
<1>2. Reflected(h)
  BY <1>1 DEF Reflected, None, MadeUp
<1>3. Undead(h)
  BY <1>1 DEF Undead
<1> QED BY <1>2, <1>3 DEF FlagsInv, h

\* The invariant the properties below need, besides that of StarHubProofs.
LEMMA FlagsInvariant == Spec => []FlagsInv(hub)
<1>1. Init => FlagsInv(hub)  BY InitFlags
<1>2. HubInvariant /\ FlagsInv(hub) /\ [Next]_hub => FlagsInv(hub)'
  BY StepAllowed DEF HubInvariant, FlagsInv, Reflected, Undead
<1> QED BY <1>1, <1>2, HubConsistent, PTL DEF Spec

\* A spoke gets its own flags back for the complete ticks the hub made them up
\* for, and for those only: see sPlayerReflectedFlags.
THEOREM HubMadeUpFlagsReflected == Spec => []MadeUpFlagsReflected
<1>1. HubInvariant /\ FlagsInv(hub) => MadeUpFlagsReflected
  <2> SUFFICES ASSUME Consistent(hub), Reflected(hub),
                      NEW t \in hub.read .. hub.incomplete - 1
               PROVE  hub.reflected[t] = {p \in Players : hub.flags[p][t] = MadeUp}
    BY DEF HubInvariant, FlagsInv, MadeUpFlagsReflected
  <2>1. hub.read \in Nat /\ hub.incomplete \in Nat /\ hub.incomplete <= MaxTick
    BY Numbers, Sizes DEF Consistent
  <2>2. t \in Ticks /\ hub.read <= t
    BY <2>1, Sizes
  <2> QED BY <2>2 DEF Reflected
<1> QED BY <1>1, HubConsistent, FlagsInvariant, PTL

\* A player is dropped once and for good, from a tick that has not been sent:
\* see make_player_netdead.
THEOREM HubNetDeadTickFinal == Spec => NetDeadTickFinal
<1>1. HubInvariant /\ FlagsInv(hub) /\ [Next]_hub =>
        [\A p \in Players :
           /\ p \notin hub.connected => /\ p \notin hub'.connected
                                        /\ hub'.netDeadTick[p] = hub.netDeadTick[p]
           /\ p \in hub.connected \ hub'.connected =>
                hub'.netDeadTick[p] \in hub.sendTimeWrite .. hub.flagsWrite[p]]_hub
  BY StepAllowed DEF HubInvariant, DropsFinally
<1> QED BY <1>1, HubConsistent, FlagsInvariant, PTL DEF Spec, NetDeadTickFinal

\* Flags are made up for a minority of remote players only: see
\* make_up_flags_for_first_incomplete_tick and where hub_tick calls it.
THEOREM HubOnlyMinorityMadeUp == Spec => OnlyMinorityMadeUp
<1>1. HubInvariant /\ FlagsInv(hub) /\ [Next]_hub =>
        [\A p \in Players, t \in Ticks :
           hub'.flags[p][t] = MadeUp /\ hub.flags[p][t] # MadeUp =>
             /\ p # LocalPlayer
             /\ 2 * Cardinality({q \in hub.connected : hub.flagsWrite[q] > t})
                  > Cardinality(hub.connected)]_hub
  BY StepAllowed DEF HubInvariant, MakesUpForMinority
<1> QED BY <1>1, HubConsistent, FlagsInvariant, PTL DEF Spec, OnlyMinorityMadeUp
=============================================================================
