-------------------------- MODULE WorldUpdateProofs --------------------------
(***************************************************************************)
(* For any number of players, any sizes of the queues and any length of    *)
(* the levels: the action queues lose nothing, and prediction leaves no    *)
(* trace in the world, if the game is ready before the pregame ticks are   *)
(* over.                                                                   *)
(*                                                                         *)
(* WorldInv is inductive.  It relates the words in both queues of a player *)
(* to the words that were confirmed, index by index; and it says that there*)
(* is room for the words of a tick of which some players have got theirs.  *)
(***************************************************************************)
EXTENDS WorldUpdate, ActionQueuesProofs, SequenceTheorems

AllMoves == [Players -> Int]

TypeInv ==
  /\ confirmed \in [Players -> Seq(Int)]
  /\ next \in Players
  /\ pregame \in Nat
  /\ {read, write, unconfirmed} \subseteq Int
  /\ real \in [Players -> Queues(Int)]
  /\ game \in [Players -> Queues(Int)]
  /\ recent \in AllMoves
  /\ players \in Seq(AllMoves)
  /\ saved \in Seq(AllMoves)
  /\ ticks \in Nat
  /\ predicted \in Nat
  /\ pc \in Places

\* Until the queues are reset nothing happens.
ResetInv ==
  pc = "reset" =>
    /\ pregame > 0
    /\ next = 0
    /\ confirmed = [q \in Players |-> <<>>]
    /\ ticks = 0 /\ players = <<>>

\* Words g in the game's queues, and r in the real ones, of which t were played.
Balanced(g, r, t) ==
  \A q \in Alive :
    /\ Len(confirmed[q]) = t + Count(g[q]) + Count(r[q])
    /\ \A i \in 1 .. Count(g[q]) : Contents(g[q])[i] = confirmed[q][t + i]
    /\ \A i \in 1 .. Count(r[q]) : Contents(r[q])[i] = confirmed[q][t + Count(g[q]) + i]

\* The game's queues hold one word each, or none.
Even(g) ==
  /\ Count(g[0]) \in {0, 1}
  /\ \A q \in Players : Count(g[q]) = Count(g[0])
  /\ \A q \in Zombies : \A i \in 1 .. Count(g[q]) : Contents(g[q])[i] = NoFlags

RoomInv == next # 0 => \A q \in Alive : q >= next => AvailableCapacity(real[q]) > 0

PlayersInv ==
  /\ Len(RealPlayers) = ticks
  /\ \A t \in 1 .. ticks : \A q \in Players : RealPlayers[t][q] = Confirmed(q, t)

LevelInv ==
  InLevel =>
    /\ Even(game)
    /\ RoomInv
    /\ Balanced(game, real, ticks)
    /\ PlayersInv

WorldInv == TypeInv /\ ResetInv /\ LevelInv

Assumptions == ReadyInTime /\ PregameTicks > 0

-----------------------------------------------------------------------------
LEMMA FewFacts ==
  /\ 0 \in Players
  /\ Players \subseteq Nat
  /\ Me \in Alive
  /\ Alive \subseteq Players
  /\ Zombies \subseteq Players
  /\ N \in Nat
  /\ PregameTicks \in Nat
BY WorldConstants DEF Players, Alive

LEMMA NextPlayer ==
  ASSUME NEW p \in Players
  PROVE  (p + 1) % N = IF p + 1 < N THEN p + 1 ELSE 0
<1>1. N \in Nat \ {0} /\ p \in 0 .. N - 1  BY WorldConstants DEF Players
<1>2. CASE p + 1 < N  BY <1>1, <1>2, SMT
<1>3. CASE p + 1 = N  BY <1>1, <1>3, SMT
<1>   QED BY <1>1, <1>2, <1>3

\* The initial states.
LEMMA InitInv == ASSUME Assumptions, Init PROVE WorldInv
<1>1. \A q \in Players : NewQueue \in Queues(Int)
  <2>1. 0 \in Indexes /\ NoFlags \in Int  BY QueueConstants DEF Indexes, NoFlags
  <2>   QED BY <2>1 DEF NewQueue, Queues
<1>2. TypeInv
  <2>1. confirmed \in [Players -> Seq(Int)]  BY DEF Init
  <2>2. real \in [Players -> Queues(Int)] /\ game \in [Players -> Queues(Int)]
    BY <1>1 DEF Init
  <2>3. recent \in AllMoves  BY DEF Init, AllMoves, NoFlags
  <2>4. players \in Seq(AllMoves) /\ saved \in Seq(AllMoves)  BY DEF Init
  <2>5. /\ next \in Players /\ pregame \in Nat /\ {read, write, unconfirmed} \subseteq Int
        /\ ticks \in Nat /\ predicted \in Nat /\ pc \in Places
    BY FewFacts DEF Init, Places, PregameAfterSync
  <2>   QED BY <2>1, <2>2, <2>3, <2>4, <2>5 DEF TypeInv
<1>3. ResetInv  BY DEF Init, ResetInv, PregameAfterSync, Assumptions
<1>4. LevelInv  BY DEF Init, LevelInv, InLevel
<1>   QED BY <1>2, <1>3, <1>4 DEF WorldInv

-----------------------------------------------------------------------------
\* The spoke's thread puts a word into a queue that has room for it, and the
\* balance holds with the longer list of confirmed words.
LEMMA ReceiveFlagsInv ==
  ASSUME Assumptions, WorldInv, ReceiveFlags PROVE WorldInv'
<1>   USE DEF WorldInv
<1>1. /\ pc # "reset" /\ pc \in Places /\ Synced
      /\ next \in Players
      /\ next' = IF next + 1 < N THEN next + 1 ELSE 0
      /\ pc' = pc
  BY NextPlayer DEF ReceiveFlags, TypeInv, ResetInv
<1>2. InLevel
  BY <1>1 DEF InLevel, Synced, Places
<1>3. /\ Even(game) /\ RoomInv /\ Balanced(game, real, ticks) /\ PlayersInv
  BY <1>2 DEF LevelInv
<1>4. \A q \in Alive : q >= next => AvailableCapacity(real[q]) > 0
  <2>1. next = 0 => RoomForATick  BY DEF ReceiveFlags
  <2>   QED BY <1>3, <2>1, Zenon DEF RoomInv, RoomForATick
<1>5. ResetInv'
  BY <1>1 DEF ResetInv
<1>6. next' \in Players
  BY <1>1, WorldConstants DEF Players
<1>7. CASE next \in Zombies
  <2>1. UNCHANGED <<confirmed, unconfirmed, real, pregame, read, write, game, recent, players,
                    ticks, saved, predicted, pc>>
    BY <1>7 DEF ReceiveFlags
  <2>2. TypeInv'
    BY <2>1, <1>6 DEF TypeInv
  <2>3. RoomInv'
    BY <2>1, <1>1, <1>4, FewFacts DEF RoomInv
  <2>4. Even(game)' /\ Balanced(game, real, ticks)' /\ PlayersInv'
    BY <2>1, <1>3, ZenonT(40) DEF Even, Balanced, PlayersInv, RealPlayers, Confirmed
  <2>   QED BY <1>5, <2>2, <2>3, <2>4 DEF LevelInv
<1>8. CASE next \notin Zombies
  <2>1. next \in Alive  BY <1>1, <1>8 DEF Alive
  <2>2. PICK flags \in WordsFor(next) :
          /\ real' = Enqueued(next, flags)
          /\ confirmed' = [confirmed EXCEPT ![next] = Append(@, flags)]
          /\ unconfirmed' = IF next = Me THEN unconfirmed + 1 ELSE unconfirmed
    BY <1>8 DEF ReceiveFlags
  <2>3. UNCHANGED <<pregame, read, write, game, recent, players, ticks, saved, predicted, pc>>
    BY DEF ReceiveFlags
  <2>4. flags \in Int
    BY <2>2, <1>1 DEF WordsFor, TypeInv, MadeUp
  <2>5. AvailableCapacity(real[next]) > 0  BY <2>1, <1>1, <1>4, FewFacts
  <2>6. /\ real[next] \in Queues(Int)
        /\ Enqueue(real[next], flags) \in Queues(Int)
        /\ Count(Enqueue(real[next], flags)) = Count(real[next]) + 1
        /\ Contents(Enqueue(real[next], flags)) = Append(Contents(real[next]), flags)
    BY <2>4, <2>5, <1>1, EnqueueAppends DEF TypeInv
  <2>7. /\ real' \in [Players -> Queues(Int)]
        /\ real'[next] = Enqueue(real[next], flags)
        /\ \A q \in Players : q # next => real'[q] = real[q]
    BY <2>2, <2>6, <1>1 DEF Enqueued, TypeInv
  <2>8. /\ confirmed' \in [Players -> Seq(Int)]
        /\ confirmed'[next] = Append(confirmed[next], flags)
        /\ \A q \in Players : q # next => confirmed'[q] = confirmed[q]
    BY <2>2, <2>4, <1>1 DEF TypeInv
  <2>9. TypeInv'
    BY <2>2, <2>3, <2>7, <2>8, <1>6 DEF TypeInv
  <2>10. RoomInv'
    BY <2>7, <1>1, <1>4, FewFacts DEF RoomInv
  <2>11. Balanced(game, real, ticks)'
    <3>   SUFFICES ASSUME NEW q \in Alive
                   PROVE  /\ Len(confirmed'[q]) = ticks + Count(game[q]) + Count(real'[q])
                          /\ \A i \in 1 .. Count(game[q]) :
                               Contents(game[q])[i] = confirmed'[q][ticks + i]
                          /\ \A i \in 1 .. Count(real'[q]) :
                               Contents(real'[q])[i] = confirmed'[q][ticks + Count(game[q]) + i]
      BY <2>3 DEF Balanced
    <3>1. /\ Len(confirmed[q]) = ticks + Count(game[q]) + Count(real[q])
          /\ \A i \in 1 .. Count(game[q]) : Contents(game[q])[i] = confirmed[q][ticks + i]
          /\ \A i \in 1 .. Count(real[q]) :
               Contents(real[q])[i] = confirmed[q][ticks + Count(game[q]) + i]
      BY <1>3 DEF Balanced
    <3>2. CASE q # next  BY <3>1, <3>2, <2>7, <2>8, FewFacts
    <3>3. CASE q = next
      <4>1. /\ confirmed[q] \in Seq(Int)
            /\ game[q] \in Queues(Int)
            /\ Contents(real[q]) \in Seq(Int)
            /\ Len(Contents(real[q])) = Count(real[q])
            /\ Count(real[q]) \in Nat /\ Count(game[q]) \in Nat
            /\ ticks \in Nat
        BY <3>3, <2>6, <1>1, ContentsValue, CountValue DEF TypeInv, Indexes
      <4>   DEFINE len == Len(confirmed[q])
                   held == Contents(real[q])
      <4>2. /\ confirmed'[q] = Append(confirmed[q], flags)
            /\ Contents(real'[q]) = Append(held, flags)
            /\ Count(real'[q]) = Count(real[q]) + 1
        BY <3>3, <2>6, <2>7, <2>8
      <4>3. /\ Len(confirmed'[q]) = len + 1
            /\ \A i \in 1 .. len : confirmed'[q][i] = confirmed[q][i]
            /\ confirmed'[q][len + 1] = flags
        BY <4>1, <4>2, <2>4
      <4>4. /\ \A i \in 1 .. Count(real[q]) : Contents(real'[q])[i] = held[i]
            /\ Contents(real'[q])[Count(real[q]) + 1] = flags
        BY <4>1, <4>2, <2>4
      <4>5. len = ticks + Count(game[q]) + Count(real[q])  BY <3>1
      <4>   HIDE DEF len, held
      <4>6. Len(confirmed'[q]) = ticks + Count(game[q]) + Count(real'[q])
        BY <4>1, <4>2, <4>3, <4>5
      <4>7. ASSUME NEW i \in 1 .. Count(game[q])
            PROVE  Contents(game[q])[i] = confirmed'[q][ticks + i]
        <5>1. ticks + i \in 1 .. len  BY <4>1, <4>5
        <5>   QED BY <5>1, <4>3, <3>1
      <4>8. ASSUME NEW i \in 1 .. Count(real'[q])
            PROVE  Contents(real'[q])[i] = confirmed'[q][ticks + Count(game[q]) + i]
        <5>1. CASE i = Count(real[q]) + 1
          BY <5>1, <4>1, <4>3, <4>4, <4>5
        <5>2. CASE i # Count(real[q]) + 1
          <6>1. i \in 1 .. Count(real[q])  BY <5>2, <4>1, <4>2
          <6>2. ticks + Count(game[q]) + i \in 1 .. len  BY <6>1, <4>1, <4>5
          <6>   QED BY <6>1, <6>2, <4>3, <4>4, <3>1 DEF held
        <5>   QED BY <5>1, <5>2
      <4>   QED BY <4>6, <4>7, <4>8
    <3>   QED BY <3>2, <3>3
  <2>12. PlayersInv'
    <3>1. RealPlayers' = RealPlayers  BY <2>3 DEF RealPlayers
    <3>2. ASSUME NEW t \in 1 .. ticks, NEW q \in Players
          PROVE  Confirmed(q, t)' = Confirmed(q, t)
      <4>1. CASE q = next
        <5>1. /\ Len(confirmed[q]) = ticks + Count(game[q]) + Count(real[q])
              /\ Count(game[q]) \in Nat /\ Count(real[q]) \in Nat /\ ticks \in Nat
              /\ confirmed[q] \in Seq(Int)
          BY <4>1, <2>1, <1>3, CountValue DEF Balanced, TypeInv, Indexes
        <5>   QED BY <5>1, <4>1, <2>4, <2>8 DEF Confirmed
      <4>2. CASE q # next  BY <4>2, <2>8 DEF Confirmed
      <4>   QED BY <4>1, <4>2
    <3>   QED BY <3>1, <3>2, <2>3, <1>3 DEF PlayersInv
  <2>13. Even(game)'  BY <2>3, <1>3 DEF Even
  <2>   QED BY <1>5, <2>9, <2>10, <2>11, <2>12, <2>13 DEF LevelInv
<1>   QED BY <1>7, <1>8

-----------------------------------------------------------------------------
\* Putting a tick's worth into the game's queues keeps the balance.
LEMMA Stocking ==
  ASSUME WorldInv, InLevel
  PROVE  /\ StockedGame \in [Players -> Queues(Int)]
         /\ StockedReal \in [Players -> Queues(Int)]
         /\ Even(StockedGame)
         /\ Balanced(StockedGame, StockedReal, ticks)
         /\ \A q \in Alive : Count(StockedReal[q]) <= Count(real[q])
         /\ Stocked \/ MayStock => Count(StockedGame[0]) = 1
<1>1. /\ Even(game) /\ Balanced(game, real, ticks)
      /\ game \in [Players -> Queues(Int)] /\ real \in [Players -> Queues(Int)]
      /\ confirmed \in [Players -> Seq(Int)] /\ ticks \in Nat
  BY DEF WorldInv, LevelInv, TypeInv
<1>2. \A q \in Players : Count(game[q]) \in Nat /\ Count(real[q]) \in Nat
  BY <1>1, CountValue DEF Indexes
<1>3. CASE ~ MayStock
  <2>1. StockedGame = game /\ StockedReal = real  BY <1>3 DEF StockedGame, StockedReal
  <2>2. Stocked \/ MayStock => Count(game[0]) = 1
    BY <1>1, <1>3 DEF Stocked, Even
  <2>   QED BY <2>1, <2>2, <1>1, <1>2, FewFacts
<1>4. CASE MayStock
  <2>   DEFINE word(q) == IF q \in Zombies THEN NoFlags ELSE Peek(real[q])
  <2>1. /\ StockedGame = [q \in Players |-> Enqueue(game[q], word(q))]
        /\ StockedReal = [q \in Players |-> IF q \in Zombies THEN real[q] ELSE Dequeue(real[q])]
    BY <1>4 DEF StockedGame, StockedReal
  <2>2. \A q \in Players : Count(game[q]) = 0
    BY <1>1, <1>2, <1>4, FewFacts DEF MayStock, Stocked, Even
  <2>3. \A q \in Alive : Count(real[q]) > 0
    BY <1>4 DEF MayStock, HaveFlagsForAllPlayers
  <2>4. \A q \in Players : AvailableCapacity(game[q]) > 0
    <3>1. Count(real[Me]) \in Indexes /\ Count(real[Me]) > 0
      BY <1>1, <2>3, CountValue, FewFacts
    <3>   QED BY <3>1, <2>2, QueueConstants DEF AvailableCapacity, Indexes
  <2>5. \A q \in Alive :
          /\ Dequeue(real[q]) \in Queues(Int)
          /\ Count(Dequeue(real[q])) = Count(real[q]) - 1
          /\ Peek(real[q]) = Contents(real[q])[1]
          /\ \A i \in 1 .. Count(real[q]) - 1 :
               Contents(Dequeue(real[q]))[i] = Contents(real[q])[i + 1]
    BY <1>1, <2>3, DequeueTakesFirst, FewFacts
  <2>6. \A q \in Alive : Peek(real[q]) = confirmed[q][ticks + 1]
    <3>1. \A q \in Alive : 1 \in 1 .. Count(real[q])  BY <1>2, <2>3, FewFacts
    <3>   QED BY <3>1, <1>1, <2>2, <2>5, FewFacts DEF Balanced
  <2>7. \A q \in Players : word(q) \in Int
    <3>1. \A q \in Alive : ticks + 1 \in 1 .. Len(confirmed[q])
      BY <1>1, <1>2, <2>2, <2>3, FewFacts, SMTT(30) DEF Balanced
    <3>2. \A q \in Alive : confirmed[q][ticks + 1] \in Int
      BY <3>1, <1>1, FewFacts
    <3>   QED BY <3>2, <2>6 DEF Alive, NoFlags
  <2>8. ASSUME NEW q \in Players
        PROVE  /\ Enqueue(game[q], word(q)) \in Queues(Int)
               /\ Count(Enqueue(game[q], word(q))) = 1
               /\ Contents(Enqueue(game[q], word(q)))[1] = word(q)
    <3>   DEFINE w == word(q)
    <3>1. w \in Int  BY <2>7
    <3>   HIDE DEF w
    <3>2. /\ Enqueue(game[q], w) \in Queues(Int)
          /\ Count(Enqueue(game[q], w)) = Count(game[q]) + 1
          /\ Contents(Enqueue(game[q], w)) = Append(Contents(game[q]), w)
      BY <3>1, <1>1, <2>4, EnqueueAppends
    <3>3. Contents(game[q]) \in Seq(Int) /\ Len(Contents(game[q])) = 0
      BY <1>1, <2>2, ContentsValue
    <3>4. Append(Contents(game[q]), w)[1] = w  BY <3>1, <3>3
    <3>   QED BY <3>2, <3>4, <2>2 DEF w
  <2>   HIDE DEF word
  <2>9. StockedGame \in [Players -> Queues(Int)]
    BY <2>1, <2>8
  <2>10. StockedReal \in [Players -> Queues(Int)]
    BY <2>1, <2>5, <1>1 DEF Alive
  <2>11. \A q \in Players : /\ Count(StockedGame[q]) = 1
                            /\ Contents(StockedGame[q])[1] = word(q)
    BY <2>1, <2>8
  <2>12. Even(StockedGame)
    <3>1. \A q \in Zombies : word(q) = NoFlags  BY DEF word
    <3>   QED BY <3>1, <2>11, FewFacts DEF Even
  <2>13. \A q \in Alive : StockedReal[q] = Dequeue(real[q]) /\ word(q) = Peek(real[q])
    BY <2>1 DEF word, Alive
  <2>14. Balanced(StockedGame, StockedReal, ticks)
    <3>   SUFFICES ASSUME NEW q \in Alive
                   PROVE  /\ Len(confirmed[q]) =
                               ticks + Count(StockedGame[q]) + Count(StockedReal[q])
                          /\ \A i \in 1 .. Count(StockedGame[q]) :
                               Contents(StockedGame[q])[i] = confirmed[q][ticks + i]
                          /\ \A i \in 1 .. Count(StockedReal[q]) :
                               Contents(StockedReal[q])[i]
                                 = confirmed[q][ticks + Count(StockedGame[q]) + i]
      BY DEF Balanced
    <3>1. /\ Count(StockedGame[q]) = 1
          /\ Contents(StockedGame[q])[1] = confirmed[q][ticks + 1]
          /\ Count(StockedReal[q]) = Count(real[q]) - 1
          /\ Count(real[q]) \in Nat
          /\ q \in Players
      BY <2>5, <2>6, <2>11, <2>13, <1>2, FewFacts
    <3>2. /\ Len(confirmed[q]) = ticks + Count(real[q])
          /\ \A i \in 1 .. Count(real[q]) : Contents(real[q])[i] = confirmed[q][ticks + i]
      BY <1>1, <2>2, <3>1, SMTT(30) DEF Balanced
    <3>3. ASSUME NEW i \in 1 .. Count(StockedReal[q])
          PROVE  Contents(StockedReal[q])[i] = confirmed[q][ticks + 1 + i]
      <4>1. i + 1 \in 1 .. Count(real[q]) /\ i \in 1 .. Count(real[q]) - 1  BY <3>1
      <4>2. Contents(StockedReal[q])[i] = Contents(real[q])[i + 1]
        BY <4>1, <2>5, <2>13
      <4>3. ticks + (i + 1) = ticks + 1 + i  BY <1>1
      <4>   QED BY <4>1, <4>2, <4>3, <3>2
    <3>   QED BY <3>1, <3>2, <3>3, <1>1
  <2>15. \A q \in Alive : Count(StockedReal[q]) <= Count(real[q])
    BY <2>5, <2>13, <1>2, FewFacts
  <2>   QED BY <2>9, <2>10, <2>12, <2>14, <2>15, <2>11, FewFacts
<1>   QED BY <1>3, <1>4

-----------------------------------------------------------------------------
\* The loop advances the world by words that were confirmed for its next tick.
LEMMA RealTickInv ==
  ASSUME Assumptions, WorldInv, NEW lastOfLevel \in BOOLEAN, RealTick(lastOfLevel)
  PROVE  WorldInv'
<1>   DEFINE moves == [q \in Players |-> Peek(StockedGame[q])]
<1>1. /\ pc = "update" /\ InLevel
      /\ Stocked \/ MayStock
      /\ real' = StockedReal
      /\ game' = [q \in Players |-> Dequeue(StockedGame[q])]
      /\ recent' = moves
      /\ players' = Append(RestoredPlayers, moves)
      /\ predicted' = 0
      /\ ticks' = ticks + 1
      /\ pc' \in {"leave", "update"}
      /\ UNCHANGED <<pregame, confirmed, next, read, write, unconfirmed, saved>>
  BY DEF RealTick, MayUpdate, InLevel, spoke
<1>2. /\ RoomInv /\ PlayersInv /\ TypeInv
  BY <1>1 DEF WorldInv, LevelInv
<1>3. /\ StockedGame \in [Players -> Queues(Int)]
      /\ StockedReal \in [Players -> Queues(Int)]
      /\ Even(StockedGame)
      /\ Balanced(StockedGame, StockedReal, ticks)
      /\ \A q \in Alive : Count(StockedReal[q]) <= Count(real[q])
      /\ Count(StockedGame[0]) = 1
  BY <1>1, Stocking
<1>4. \A q \in Players : Count(StockedGame[q]) = 1  BY <1>3 DEF Even
<1>5. \A q \in Players :
        /\ Dequeue(StockedGame[q]) \in Queues(Int)
        /\ Count(Dequeue(StockedGame[q])) = 0
        /\ Peek(StockedGame[q]) = Contents(StockedGame[q])[1]
  BY <1>3, <1>4, DequeueTakesFirst
<1>6. \A q \in Players : moves[q] = Confirmed(q, ticks + 1)
  <2>1. \A q \in Alive : Contents(StockedGame[q])[1] = confirmed[q][ticks + 1]
    BY <1>3, <1>4, FewFacts DEF Balanced
  <2>2. \A q \in Zombies : Contents(StockedGame[q])[1] = NoFlags
    BY <1>3, <1>4, FewFacts DEF Even
  <2>   QED BY <2>1, <2>2, <1>5 DEF Confirmed, Alive
<1>7. moves \in AllMoves
  <2>2. ASSUME NEW q \in Players PROVE Contents(StockedGame[q])[1] \in Int
    <3>1. StockedGame[q] \in Queues(Int)  BY <1>3
    <3>2. Contents(StockedGame[q]) \in Seq(Int) /\ Len(Contents(StockedGame[q])) = 1
      BY <3>1, <1>4, ContentsValue
    <3>   QED BY <3>2
  <2>   QED BY <1>5, <2>2 DEF AllMoves
<1>8. RestoredPlayers = RealPlayers /\ RealPlayers \in Seq(AllMoves)
  BY <1>2 DEF RestoredPlayers, RealPlayers, TypeInv
<1>   HIDE DEF moves
<1>9. TypeInv'
  <2>1. game' \in [Players -> Queues(Int)]  BY <1>1, <1>5
  <2>2. players' \in Seq(AllMoves)  BY <1>1, <1>7, <1>8
  <2>3. ticks' \in Nat /\ pc' \in Places /\ predicted' \in Nat
    BY <1>1, <1>2 DEF TypeInv, Places
  <2>   QED BY <2>1, <2>2, <2>3, <1>1, <1>2, <1>3, <1>7 DEF TypeInv
<1>10. ResetInv'  BY <1>1 DEF ResetInv
<1>11. Even(game)'
  <2>1. \A q \in Players : Count(game'[q]) = 0  BY <1>1, <1>5
  <2>   QED BY <2>1, FewFacts DEF Even
<1>12. RoomInv'
  <2>1. \A q \in Alive : /\ real[q] \in Queues(Int) /\ real'[q] \in Queues(Int)
                         /\ Count(real'[q]) <= Count(real[q])
    BY <1>1, <1>2, <1>3, FewFacts DEF TypeInv
  <2>2. \A q \in Alive : Count(real[q]) \in Nat /\ Count(real'[q]) \in Nat
    BY <2>1, CountValue DEF Indexes
  <2>   QED BY <2>1, <2>2, <1>1, <1>2, QueueConstants DEF RoomInv, AvailableCapacity
<1>13. Balanced(game, real, ticks)'
  <2>   SUFFICES ASSUME NEW q \in Alive
                 PROVE  /\ Len(confirmed[q]) = ticks + 1 + Count(game'[q]) + Count(StockedReal[q])
                        /\ \A i \in 1 .. Count(game'[q]) :
                             Contents(game'[q])[i] = confirmed[q][ticks + 1 + i]
                        /\ \A i \in 1 .. Count(StockedReal[q]) :
                             Contents(StockedReal[q])[i]
                               = confirmed[q][ticks + 1 + Count(game'[q]) + i]
    BY <1>1, SMTT(30) DEF Balanced
  <2>1. Count(game'[q]) = 0 /\ Count(StockedGame[q]) = 1 /\ ticks \in Nat
    BY <1>1, <1>2, <1>4, <1>5, FewFacts DEF TypeInv
  <2>2. /\ Len(confirmed[q]) = ticks + 1 + Count(StockedReal[q])
        /\ \A i \in 1 .. Count(StockedReal[q]) :
             Contents(StockedReal[q])[i] = confirmed[q][ticks + 1 + i]
    BY <1>3, <2>1 DEF Balanced
  <2>3. Count(StockedReal[q]) \in Nat
    BY <1>3, FewFacts, CountValue DEF Indexes
  <2>   QED BY <2>1, <2>2, <2>3
<1>14. PlayersInv'
  <2>   DEFINE old == RealPlayers
  <2>1. /\ RealPlayers' = Append(old, moves)
        /\ ticks' = ticks + 1 /\ ticks \in Nat
        /\ old \in Seq(AllMoves) /\ Len(old) = ticks
        /\ \A t \in 1 .. ticks : \A q \in Players : old[t][q] = Confirmed(q, t)
    BY <1>1, <1>2, <1>8 DEF RealPlayers, PlayersInv, TypeInv
  <2>2. \A q, t : Confirmed(q, t)' = Confirmed(q, t)
    BY <1>1 DEF Confirmed
  <2>   HIDE DEF old
  <2>3. Len(Append(old, moves)) = ticks + 1
    BY <2>1, <1>7
  <2>4. ASSUME NEW t \in 1 .. ticks + 1, NEW q \in Players
        PROVE  Append(old, moves)[t][q] = Confirmed(q, t)
    <3>1. CASE t = ticks + 1  BY <3>1, <2>1, <1>6, <1>7
    <3>2. CASE t # ticks + 1
      <4>1. t \in 1 .. ticks  BY <3>2, <2>1
      <4>2. Append(old, moves)[t] = old[t]  BY <4>1, <2>1, <1>7
      <4>   QED BY <4>1, <4>2, <2>1
    <3>   QED BY <3>1, <3>2
  <2>   QED BY <2>1, <2>2, <2>3, <2>4 DEF PlayersInv
<1>   QED BY <1>9, <1>10, <1>11, <1>12, <1>13, <1>14 DEF WorldInv, LevelInv

\* The iteration that ends the loop only moves words between the queues.
LEMMA EndTicksInv == ASSUME Assumptions, WorldInv, EndTicks PROVE WorldInv'
<1>1. /\ pc = "update" /\ InLevel
      /\ real' = StockedReal /\ game' = StockedGame
      /\ pc' \in {"confirm", "update"}
      /\ UNCHANGED <<pregame, confirmed, next, read, write, unconfirmed, recent, players,
                     ticks, saved, predicted>>
  BY DEF EndTicks, InLevel, spoke
<1>2. TypeInv /\ RoomInv /\ PlayersInv
  BY <1>1 DEF WorldInv, LevelInv
<1>3. /\ StockedGame \in [Players -> Queues(Int)]
      /\ StockedReal \in [Players -> Queues(Int)]
      /\ Even(StockedGame)
      /\ Balanced(StockedGame, StockedReal, ticks)
      /\ \A q \in Alive : Count(StockedReal[q]) <= Count(real[q])
  BY <1>1, Stocking
<1>4. TypeInv'  BY <1>1, <1>2, <1>3 DEF TypeInv, Places
<1>5. ResetInv'  BY <1>1 DEF ResetInv
<1>6. RoomInv'
  <2>1. \A q \in Alive : /\ real[q] \in Queues(Int) /\ real'[q] \in Queues(Int)
                         /\ Count(real'[q]) <= Count(real[q])
    BY <1>1, <1>2, <1>3, FewFacts DEF TypeInv
  <2>2. \A q \in Alive : Count(real[q]) \in Nat /\ Count(real'[q]) \in Nat
    BY <2>1, CountValue DEF Indexes
  <2>   QED BY <2>1, <2>2, <1>1, <1>2, QueueConstants DEF RoomInv, AvailableCapacity
<1>7. Even(game)' /\ Balanced(game, real, ticks)'
  BY <1>1, <1>3 DEF Even, Balanced
<1>8. PlayersInv'  BY <1>1, <1>2 DEF PlayersInv, RealPlayers, Confirmed
<1>   QED BY <1>4, <1>5, <1>6, <1>7, <1>8 DEF WorldInv, LevelInv

\* A predicted tick comes after the players were saved.
LEMMA PredictTickInv == ASSUME Assumptions, WorldInv, PredictTick PROVE WorldInv'
<1>1. /\ pc = "predict" /\ pc' = pc /\ InLevel
      /\ saved' = SavedPlayers
      /\ players' = Append(players, [recent EXCEPT ![Me] = OwnFlags])
      /\ predicted' = predicted + 1
      /\ UNCHANGED <<pregame, confirmed, next, read, write, unconfirmed, real, game, recent,
                     ticks>>
  BY DEF PredictTick, InLevel, spoke
<1>2. TypeInv /\ Even(game) /\ RoomInv /\ Balanced(game, real, ticks) /\ PlayersInv
  BY <1>1 DEF WorldInv, LevelInv
<1>3. [recent EXCEPT ![Me] = OwnFlags] \in AllMoves
  <2>1. OwnFlags \in Int  BY <1>2 DEF TypeInv, OwnFlags
  <2>   QED BY <2>1, <1>2 DEF TypeInv, AllMoves
<1>4. TypeInv'
  BY <1>1, <1>2, <1>3 DEF TypeInv, SavedPlayers
<1>5. ResetInv'  BY <1>1 DEF ResetInv
<1>6. RealPlayers' = RealPlayers
  BY <1>1, <1>2 DEF RealPlayers, SavedPlayers, TypeInv
<1>7. PlayersInv'
  BY <1>1, <1>2, <1>6 DEF PlayersInv, Confirmed
<1>8. Even(game)' /\ RoomInv' /\ Balanced(game, real, ticks)'
  BY <1>1, <1>2 DEF Even, RoomInv, Balanced
<1>   QED BY <1>4, <1>5, <1>7, <1>8 DEF WorldInv, LevelInv

\* Resetting the queues throws nothing away, as nothing was confirmed yet.
LEMMA ResetActionQueuesInv == ASSUME Assumptions, WorldInv, ResetActionQueues PROVE WorldInv'
<1>1. /\ pc = "reset" /\ pc' = "update"
      /\ real' = [q \in Players |-> Reset(real[q])]
      /\ game' = [q \in Players |-> Reset(game[q])]
      /\ recent' = [q \in Players |-> NoFlags]
      /\ predicted' = 0
      /\ UNCHANGED <<pregame, confirmed, next, read, write, unconfirmed, players, ticks, saved>>
  BY DEF ResetActionQueues, PredictedAfterReset, spoke
<1>2. TypeInv /\ next = 0 /\ confirmed = [q \in Players |-> <<>>] /\ ticks = 0 /\ players = <<>>
  BY <1>1 DEF WorldInv, ResetInv
<1>3. /\ \A q \in Players : real'[q] \in Queues(Int) /\ Count(real'[q]) = 0
      /\ \A q \in Players : game'[q] \in Queues(Int) /\ Count(game'[q]) = 0
  BY <1>1, <1>2, ResetEmpties DEF TypeInv
<1>4. TypeInv'
  <2>1. real' \in [Players -> Queues(Int)] /\ game' \in [Players -> Queues(Int)]
    BY <1>1, <1>3
  <2>2. recent' \in AllMoves  BY <1>1 DEF AllMoves, NoFlags
  <2>   QED BY <2>1, <2>2, <1>1, <1>2 DEF TypeInv, Places
<1>5. ResetInv'  BY <1>1 DEF ResetInv
<1>6. Even(game)' /\ RoomInv'
  BY <1>1, <1>2, <1>3, FewFacts DEF Even, RoomInv
<1>7. Balanced(game, real, ticks)'
  <2>1. \A q \in Alive : Len(confirmed'[q]) = 0  BY <1>1, <1>2, FewFacts
  <2>   QED BY <2>1, <1>1, <1>2, <1>3, FewFacts DEF Balanced
<1>8. PlayersInv'
  BY <1>1, <1>2 DEF PlayersInv, RealPlayers
<1>   QED BY <1>4, <1>5, <1>6, <1>7, <1>8 DEF WorldInv, LevelInv

-----------------------------------------------------------------------------
\* The other steps, and stuttering, leave the queues of a level and its players
\* alone.
LEMMA OtherStepsInv ==
  ASSUME Assumptions, WorldInv,
         \/ ProvideFlags \/ ReceivePregame \/ Heartbeat \/ DequeueConfirmed
         \/ EndPrediction \/ Quit \/ LeaveLevel \/ EnterLevel
         \/ UNCHANGED vars
  PROVE  WorldInv'
<1>1. CASE EnterLevel
  <2>1. /\ pc' = "reset" /\ pregame' = PregameTicks /\ next' = 0
        /\ confirmed' = [q \in Players |-> <<>>]
        /\ read' = 1 /\ write' = 1 /\ unconfirmed' = 1
        /\ real' = [q \in Players |-> Reset(real[q])]
        /\ players' = <<>> /\ ticks' = 0
        /\ UNCHANGED <<game, recent, saved, predicted>>
    BY <1>1 DEF EnterLevel, PregameAfterSync
  <2>2. TypeInv  BY DEF WorldInv
  <2>3. real' \in [Players -> Queues(Int)]
    BY <2>1, <2>2, ResetEmpties DEF TypeInv
  <2>4. confirmed' \in [Players -> Seq(Int)] /\ players' \in Seq(AllMoves)
    BY <2>1
  <2>5. TypeInv'
    BY <2>1, <2>2, <2>3, <2>4, FewFacts DEF TypeInv, Places
  <2>6. ResetInv'  BY <2>1 DEF ResetInv, Assumptions
  <2>7. LevelInv'  BY <2>1 DEF LevelInv, InLevel
  <2>   QED BY <2>5, <2>6, <2>7 DEF WorldInv
<1>2. ASSUME /\ UNCHANGED <<confirmed, next, real, game, recent, players, ticks, saved,
                            predicted>>
             /\ {read', write', unconfirmed'} \subseteq Int
             /\ pregame' \in Nat
             /\ pc' \in Places
             /\ pc' = "reset" => pc = "reset" /\ pregame' > 0
             /\ InLevel' => InLevel
      PROVE  WorldInv'
  <2>1. TypeInv'  BY <1>2 DEF WorldInv, TypeInv
  <2>2. ResetInv'  BY <1>2 DEF WorldInv, ResetInv
  <2>3. RealPlayers' = RealPlayers  BY <1>2 DEF RealPlayers
  <2>4. LevelInv'
    BY <1>2, <2>3 DEF WorldInv, LevelInv, Even, RoomInv, Balanced, PlayersInv, Confirmed
  <2>   QED BY <2>1, <2>2, <2>4 DEF WorldInv
<1>3. CASE ProvideFlags
  BY <1>2, <1>3 DEF ProvideFlags, WorldInv, TypeInv, ResetInv, InLevel
<1>4. CASE ReceivePregame
  BY <1>2, <1>4 DEF ReceivePregame, WorldInv, TypeInv, ResetInv, InLevel, Assumptions
<1>5. CASE Heartbeat
  BY <1>2, <1>5 DEF Heartbeat, spoke, WorldInv, TypeInv, ResetInv, InLevel
<1>6. CASE DequeueConfirmed
  BY <1>2, <1>6 DEF DequeueConfirmed, ConfirmedRead, WorldInv, TypeInv, InLevel, Places
<1>7. CASE EndPrediction
  BY <1>2, <1>7 DEF EndPrediction, spoke, WorldInv, TypeInv, InLevel, Places
<1>8. CASE Quit
  BY <1>2, <1>8 DEF Quit, spoke, WorldInv, TypeInv, InLevel, Places
<1>9. CASE LeaveLevel
  BY <1>2, <1>9 DEF LeaveLevel, spoke, WorldInv, TypeInv, InLevel, Places
<1>10. CASE UNCHANGED vars
  BY <1>2, <1>10 DEF vars, spoke, WorldInv, TypeInv, ResetInv, InLevel
<1>   QED BY <1>1, <1>3, <1>4, <1>5, <1>6, <1>7, <1>8, <1>9, <1>10

\* WorldInv is an invariant of the specification.
LEMMA Invariance == ASSUME Assumptions PROVE Spec => []WorldInv
<1>1. Init => WorldInv  BY InitInv
<1>2. ASSUME WorldInv, [Next]_vars PROVE WorldInv'
  <2>1. CASE ReceiveFlags  BY <1>2, <2>1, ReceiveFlagsInv
  <2>2. CASE \E lastOfLevel \in BOOLEAN : RealTick(lastOfLevel)
    BY <1>2, <2>2, RealTickInv
  <2>3. CASE EndTicks  BY <1>2, <2>3, EndTicksInv
  <2>4. CASE PredictTick  BY <1>2, <2>4, PredictTickInv
  <2>5. CASE ResetActionQueues  BY <1>2, <2>5, ResetActionQueuesInv
  <2>6. CASE \/ ProvideFlags \/ ReceivePregame \/ Heartbeat \/ DequeueConfirmed
             \/ EndPrediction \/ Quit \/ LeaveLevel \/ EnterLevel
             \/ UNCHANGED vars
    BY <1>2, <2>6, OtherStepsInv
  <2>   QED BY <1>2, <2>1, <2>2, <2>3, <2>4, <2>5, <2>6 DEF Next, Update
<1>   QED BY <1>1, <1>2, PTL DEF Spec

-----------------------------------------------------------------------------
\* Two sequences that continue each other as in a third one.
LEMMA Pieces ==
  ASSUME NEW S, NEW s \in Seq(S), NEW t \in Seq(S), NEW w \in Seq(S),
         \A i \in 1 .. Len(s) : s[i] = w[i],
         \A i \in 1 .. Len(t) : t[i] = w[Len(s) + i]
  PROVE  /\ s \o t \in Seq(S) /\ Len(s \o t) = Len(s) + Len(t)
         /\ \A i \in 1 .. Len(s) + Len(t) : (s \o t)[i] = w[i]
<1>1. Len(s) \in Nat /\ Len(t) \in Nat  OBVIOUS
<1>2. s \o t \in Seq(S) /\ Len(s \o t) = Len(s) + Len(t)  OBVIOUS
<1>3. ASSUME NEW i \in 1 .. Len(s) + Len(t)
      PROVE  (s \o t)[i] = w[i]
  <2>1. CASE i <= Len(s)  BY <2>1, <1>1
  <2>2. CASE i > Len(s)
    <3>1. i - Len(s) \in 1 .. Len(t) /\ Len(s) + (i - Len(s)) = i  BY <2>2, <1>1
    <3>2. (s \o t)[i] = t[i - Len(s)]  BY <2>2, <3>1, <1>1
    <3>   QED BY <3>1, <3>2
  <2>   QED BY <2>1, <2>2, <1>1
<1>   QED BY <1>2, <1>3

\* Prediction leaves no trace: the world is what the confirmed words make of it.
THEOREM WorldConfirmed == ASSUME Assumptions PROVE Spec => []WorldIsConfirmed
<1>1. ASSUME WorldInv PROVE WorldIsConfirmed
  <2>   SUFFICES ASSUME InLevel
                 PROVE  RealPlayers =
                          [tick \in 1 .. ticks |-> [q \in Players |-> Confirmed(q, tick)]]
    BY DEF WorldIsConfirmed
  <2>1. /\ RealPlayers \in Seq(AllMoves) /\ Len(RealPlayers) = ticks
        /\ \A t \in 1 .. ticks : \A q \in Players : RealPlayers[t][q] = Confirmed(q, t)
    BY <1>1 DEF WorldInv, LevelInv, PlayersInv, TypeInv, RealPlayers
  <2>2. \A t \in 1 .. ticks : RealPlayers[t] \in AllMoves
    BY <2>1
  <2>3. \A t \in 1 .. ticks : RealPlayers[t] = [q \in Players |-> Confirmed(q, t)]
    BY <2>1, <2>2 DEF AllMoves
  <2>   QED BY <2>1, <2>3
<1>   QED BY <1>1, Invariance, PTL

\* The action queues lose, double and reorder nothing.
THEOREM FlagsKept == ASSUME Assumptions PROVE Spec => []NoFlagsLost
<1>1. ASSUME WorldInv PROVE NoFlagsLost
  <2>   SUFFICES ASSUME InLevel, NEW q \in Alive
                 PROVE  SubSeq(confirmed[q], 1, ticks) \o Contents(game[q]) \o Contents(real[q])
                          = confirmed[q]
    BY DEF NoFlagsLost
  <2>   DEFINE played == SubSeq(confirmed[q], 1, ticks)
               g == Contents(game[q])
               r == Contents(real[q])
  <2>1. /\ Len(confirmed[q]) = ticks + Count(game[q]) + Count(real[q])
        /\ \A i \in 1 .. Count(game[q]) : g[i] = confirmed[q][ticks + i]
        /\ \A i \in 1 .. Count(real[q]) : r[i] = confirmed[q][ticks + Count(game[q]) + i]
    BY <1>1 DEF WorldInv, LevelInv, Balanced
  <2>2. /\ confirmed[q] \in Seq(Int) /\ ticks \in Nat
        /\ game[q] \in Queues(Int) /\ real[q] \in Queues(Int)
    BY <1>1, FewFacts DEF WorldInv, TypeInv
  <2>3. /\ Count(game[q]) \in Nat /\ Count(real[q]) \in Nat
        /\ g \in Seq(Int) /\ Len(g) = Count(game[q])
        /\ r \in Seq(Int) /\ Len(r) = Count(real[q])
    BY <2>2, ContentsValue, CountValue DEF Indexes
  <2>4. /\ played \in Seq(Int) /\ Len(played) = ticks
        /\ \A i \in 1 .. ticks : played[i] = confirmed[q][i]
    BY <2>1, <2>2, <2>3
  <2>   HIDE DEF played, g, r
  <2>5. /\ played \o g \in Seq(Int) /\ Len(played \o g) = ticks + Count(game[q])
        /\ \A i \in 1 .. ticks + Count(game[q]) : (played \o g)[i] = confirmed[q][i]
    <3>   DEFINE w == confirmed[q]
    <3>1. /\ \A i \in 1 .. Len(played) : played[i] = w[i]
          /\ \A i \in 1 .. Len(g) : g[i] = w[Len(played) + i]
      BY <2>1, <2>3, <2>4
    <3>2. w \in Seq(Int)  BY <2>2
    <3>   HIDE DEF w
    <3>3. /\ played \o g \in Seq(Int) /\ Len(played \o g) = Len(played) + Len(g)
          /\ \A i \in 1 .. Len(played) + Len(g) : (played \o g)[i] = w[i]
      <4>1. played \in Seq(Int) /\ g \in Seq(Int)  BY <2>3, <2>4
      <4>2. played \o g \in Seq(Int) /\ Len(played \o g) = Len(played) + Len(g)  BY <4>1
      <4>3. \A i \in 1 .. Len(played) + Len(g) : (played \o g)[i] = w[i]
        BY <4>1, <3>1, <3>2, Pieces
      <4>   QED BY <4>2, <4>3
    <3>   QED BY <2>3, <2>4, <3>3 DEF w
  <2>   DEFINE front == played \o g
               n == ticks + Count(game[q])
  <2>6. /\ front \in Seq(Int) /\ Len(front) = n /\ n \in Nat
        /\ \A i \in 1 .. n : front[i] = confirmed[q][i]
    BY <2>5, <2>2, <2>3
  <2>7. Len(confirmed[q]) = n + Count(real[q])
        /\ \A i \in 1 .. Count(real[q]) : r[i] = confirmed[q][n + i]
    BY <2>1, <2>2, <2>3
  <2>   HIDE DEF front, n
  <2>8. /\ front \o r \in Seq(Int) /\ Len(front \o r) = Len(confirmed[q])
        /\ \A i \in 1 .. Len(confirmed[q]) : (front \o r)[i] = confirmed[q][i]
    <3>   DEFINE w == confirmed[q]
    <3>1. /\ \A i \in 1 .. Len(front) : front[i] = w[i]
          /\ \A i \in 1 .. Len(r) : r[i] = w[Len(front) + i]
      BY <2>3, <2>6, <2>7
    <3>2. w \in Seq(Int)  BY <2>2
    <3>   HIDE DEF w
    <3>3. /\ front \o r \in Seq(Int) /\ Len(front \o r) = Len(front) + Len(r)
          /\ \A i \in 1 .. Len(front) + Len(r) : (front \o r)[i] = w[i]
      <4>1. front \in Seq(Int) /\ r \in Seq(Int)  BY <2>3, <2>6
      <4>2. front \o r \in Seq(Int) /\ Len(front \o r) = Len(front) + Len(r)  BY <4>1
      <4>3. \A i \in 1 .. Len(front) + Len(r) : (front \o r)[i] = w[i]
        BY <4>1, <3>1, <3>2, Pieces
      <4>   QED BY <4>2, <4>3
    <3>   QED BY <2>3, <2>6, <2>7, <3>3 DEF w
  <2>9. front \o r = confirmed[q]
    <3>   DEFINE whole == front \o r
                 w == confirmed[q]
    <3>1. /\ whole \in Seq(Int) /\ w \in Seq(Int) /\ Len(whole) = Len(w)
          /\ \A i \in 1 .. Len(w) : whole[i] = w[i]
      BY <2>2, <2>8
    <3>   HIDE DEF whole, w
    <3>2. whole = w  BY <3>1, SeqEqual
    <3>   QED BY <3>2 DEF whole, w
  <2>   QED BY <2>9 DEF front, played, g, r
<1>   QED BY <1>1, Invariance, PTL

\* Nothing is thrown away when a level is entered, if the game is ready in time.
THEOREM EntryDiscardsNothing == ASSUME Assumptions PROVE Spec => []NothingDiscarded
<1>1. ASSUME WorldInv PROVE NothingDiscarded
  BY <1>1, FewFacts DEF WorldInv, ResetInv, NothingDiscarded
<1>   QED BY <1>1, Invariance, PTL

-----------------------------------------------------------------------------
(***************************************************************************)
(* What a prediction starts from, and what it is made of.                  *)
(***************************************************************************)

\* With prediction the loop takes out of the game's queues whatever it put in.
NothingStranded == InLevel /\ wanted => Count(game[0]) = 0

LEMMA NothingStrandedStep ==
  ASSUME WorldInv, NothingStranded, [Next]_vars PROVE NothingStranded'
<1>1. wanted' = wanted
  BY DEF Next, Update, vars, spoke, ProvideFlags, ReceivePregame, ReceiveFlags, Heartbeat, RealTick,
         EndTicks, DequeueConfirmed, PredictTick, EndPrediction, Quit, LeaveLevel, EnterLevel,
         ResetActionQueues
<1>2. ASSUME game' = game, InLevel' => InLevel
      PROVE  NothingStranded'
  BY <1>1, <1>2 DEF NothingStranded
<1>3. CASE ProvideFlags \/ ReceivePregame \/ ReceiveFlags \/ Heartbeat
  BY <1>2, <1>3 DEF ProvideFlags, ReceivePregame, ReceiveFlags, Heartbeat, spoke, InLevel
<1>4. CASE DequeueConfirmed \/ PredictTick \/ EndPrediction \/ Quit \/ LeaveLevel \/ EnterLevel
  BY <1>2, <1>4 DEF DequeueConfirmed, PredictTick, EndPrediction, Quit, LeaveLevel, EnterLevel,
                    spoke, InLevel
<1>5. CASE UNCHANGED vars
  BY <1>2, <1>5 DEF vars, InLevel
<1>6. CASE ResetActionQueues
  <2>1. game[0] \in Queues(Int)  BY FewFacts DEF WorldInv, TypeInv
  <2>2. game'[0] = Reset(game[0])  BY <1>6, FewFacts DEF ResetActionQueues
  <2>   QED BY <2>1, <2>2, ResetEmpties DEF NothingStranded
<1>7. CASE EndTicks
  <2>1. InLevel /\ game' = StockedGame /\ ~ MayUpdate
    BY <1>7 DEF EndTicks, InLevel
  <2>2. wanted => ~ MayStock
    BY <2>1 DEF MayUpdate, WithinLimit
  <2>   QED BY <1>1, <2>1, <2>2 DEF StockedGame, NothingStranded
<1>8. CASE \E lastOfLevel \in BOOLEAN : RealTick(lastOfLevel)
  <2>1. /\ InLevel /\ (Stocked \/ MayStock)
        /\ game' = [q \in Players |-> Dequeue(StockedGame[q])]
    BY <1>8 DEF RealTick, MayUpdate, InLevel
  <2>2. StockedGame \in [Players -> Queues(Int)] /\ Count(StockedGame[0]) = 1
    BY <2>1, Stocking
  <2>3. StockedGame[0] \in Queues(Int) /\ game'[0] = Dequeue(StockedGame[0])
    BY <2>1, <2>2, FewFacts
  <2>   QED BY <2>2, <2>3, DequeueTakesFirst DEF NothingStranded
<1>   QED BY <1>3, <1>4, <1>5, <1>6, <1>7, <1>8 DEF Next, Update

\* The game's queues are stocked evenly, and empty when the prediction begins.
THEOREM GameQueueEven == ASSUME Assumptions PROVE Spec => []GameQueueStocked
<1>1. Init => NothingStranded  BY DEF Init, NothingStranded, InLevel
<1>2. WorldInv /\ NothingStranded /\ [Next]_vars => NothingStranded'
  BY NothingStrandedStep
<1>3. WorldInv /\ NothingStranded => GameQueueStocked
  BY DEF WorldInv, LevelInv, Even, NothingStranded, GameQueueStocked
<1>   QED BY <1>1, <1>2, <1>3, Invariance, PTL DEF Spec

\* What was predicted lies before what will be predicted next.
PredictionInv ==
  /\ read <= write
  /\ InLevel =>
       /\ Len(players) = ticks + predicted
       /\ \A i \in 1 .. predicted : players[ticks + i][Me] < read + predicted
       /\ OwnFlagsPredictedOnce

LEMMA PredictionInvStep ==
  ASSUME WorldInv, PredictionInv, [Next]_vars PROVE PredictionInv'
<1>1. TypeInv /\ {read, write, unconfirmed} \subseteq Int /\ predicted \in Nat /\ ticks \in Nat
  BY DEF WorldInv, TypeInv
<1>2. ASSUME UNCHANGED <<players, ticks, predicted>>, InLevel' => InLevel,
             read' \in Int, write' \in Int, read' >= read, read' <= write'
      PROVE  PredictionInv'
  <2>1. ASSUME InLevel'
        PROVE  \A i \in 1 .. predicted : players[ticks + i][Me] < read' + predicted
    <3>1. ASSUME NEW i \in 1 .. predicted PROVE players[ticks + i][Me] \in Int
      <4>1. ticks + i \in 1 .. Len(players) /\ players \in Seq(AllMoves)
        BY <1>1, <1>2, <2>1, SMTT(30) DEF PredictionInv, TypeInv
      <4>2. players[ticks + i] \in AllMoves  BY <4>1
      <4>   QED BY <4>2, WorldConstants DEF AllMoves
    <3>   QED BY <3>1, <1>1, <1>2, <2>1, SMTT(30) DEF PredictionInv
  <2>   QED BY <1>2, <2>1 DEF PredictionInv, OwnFlagsPredictedOnce, OwnPredictions
<1>3. CASE ProvideFlags
  BY <1>1, <1>2, <1>3 DEF ProvideFlags, PredictionInv, InLevel
<1>4. CASE ReceivePregame \/ ReceiveFlags \/ Heartbeat \/ EndTicks \/ EndPrediction \/ Quit
           \/ LeaveLevel
  BY <1>1, <1>2, <1>4 DEF ReceivePregame, ReceiveFlags, Heartbeat, EndTicks, EndPrediction, Quit,
                          LeaveLevel, spoke, PredictionInv, InLevel
<1>5. CASE UNCHANGED vars
  BY <1>1, <1>2, <1>5 DEF vars, spoke, PredictionInv, InLevel
<1>6. CASE DequeueConfirmed
  BY <1>1, <1>2, <1>6 DEF DequeueConfirmed, ConfirmedRead, PredictionInv, InLevel
<1>7. CASE EnterLevel
  BY <1>7 DEF EnterLevel, PredictionInv, InLevel
<1>8. ASSUME predicted' = 0, Len(players') = ticks', ticks' \in Nat, UNCHANGED <<read, write>>
      PROVE  PredictionInv'
  BY <1>8 DEF PredictionInv, OwnFlagsPredictedOnce
<1>9. CASE ResetActionQueues
  <2>1. ticks = 0 /\ players = <<>>
    BY <1>9 DEF ResetActionQueues, WorldInv, ResetInv
  <2>   QED BY <1>8, <1>9, <2>1 DEF ResetActionQueues, PredictedAfterReset, spoke
<1>10. CASE \E lastOfLevel \in BOOLEAN : RealTick(lastOfLevel)
  <2>   DEFINE moves == [q \in Players |-> Peek(StockedGame[q])]
  <2>1. /\ InLevel /\ predicted' = 0 /\ ticks' = ticks + 1 /\ UNCHANGED <<read, write>>
        /\ players' = Append(RestoredPlayers, moves)
    BY <1>10 DEF RealTick, InLevel, spoke
  <2>2. RestoredPlayers = RealPlayers /\ RealPlayers \in Seq(AllMoves) /\ Len(RealPlayers) = ticks
    BY <1>1, <2>1 DEF RestoredPlayers, RealPlayers, TypeInv, WorldInv, LevelInv, PlayersInv
  <2>   HIDE DEF moves
  <2>3. Len(players') = ticks'
    BY <2>1, <2>2
  <2>   QED BY <1>1, <1>8, <2>1, <2>3
<1>11. CASE PredictTick
  <2>   DEFINE move == [recent EXCEPT ![Me] = read + predicted]
  <2>1. /\ InLevel
        /\ players' = Append(players, move)
        /\ predicted' = predicted + 1
        /\ UNCHANGED <<read, write, ticks>>
    BY <1>11 DEF PredictTick, OwnFlags, InLevel, spoke
  <2>2. move \in AllMoves /\ move[Me] = read + predicted
    BY <1>1, WorldConstants DEF TypeInv, AllMoves
  <2>3. players \in Seq(AllMoves) /\ Len(players) = ticks + predicted
    BY <1>1, <2>1 DEF TypeInv, PredictionInv
  <2>   HIDE DEF move
  <2>4. /\ Len(players') = ticks + predicted + 1
        /\ players'[ticks + predicted + 1] = move
        /\ \A i \in 1 .. ticks + predicted : players'[i] = players[i]
    BY <1>1, <2>1, <2>2, <2>3, SMTT(30)
  <2>5. ASSUME NEW i \in 1 .. predicted
        PROVE  /\ players'[ticks + i] = players[ticks + i]
               /\ players[ticks + i][Me] \in Int
               /\ players[ticks + i][Me] < read + predicted
    <3>1. ticks + i \in 1 .. ticks + predicted  BY <1>1
    <3>2. players[ticks + i] \in AllMoves  BY <2>3, <3>1
    <3>   QED BY <2>1, <2>4, <3>1, <3>2, WorldConstants DEF AllMoves, PredictionInv
  <2>6. \A i \in 1 .. predicted + 1 : players'[ticks + i][Me] < read + (predicted + 1)
    <3>   TAKE i \in 1 .. predicted + 1
    <3>1. CASE i = predicted + 1
      <4>1. ticks + i = ticks + predicted + 1  BY <1>1, <3>1
      <4>   QED BY <4>1, <1>1, <2>2, <2>4
    <3>2. CASE i # predicted + 1
      <4>1. i \in 1 .. predicted  BY <1>1, <3>2
      <4>   QED BY <4>1, <1>1, <2>5
    <3>   QED BY <3>1, <3>2
  <2>7. \A i, j \in 1 .. predicted + 1 :
          i < j => players'[ticks + i][Me] < players'[ticks + j][Me]
    <3>   SUFFICES ASSUME NEW i \in 1 .. predicted + 1, NEW j \in 1 .. predicted + 1, i < j
                   PROVE  players'[ticks + i][Me] < players'[ticks + j][Me]
      OBVIOUS
    <3>1. i \in 1 .. predicted  BY <1>1
    <3>2. CASE j = predicted + 1
      <4>1. ticks + j = ticks + predicted + 1  BY <1>1, <3>2
      <4>   QED BY <3>1, <4>1, <2>2, <2>4, <2>5
    <3>3. CASE j # predicted + 1
      <4>1. j \in 1 .. predicted  BY <1>1, <3>3
      <4>2. players[ticks + i][Me] < players[ticks + j][Me]
        BY <2>1, <3>1, <4>1 DEF PredictionInv, OwnFlagsPredictedOnce, OwnPredictions
      <4>   QED BY <3>1, <4>1, <4>2, <2>5
    <3>   QED BY <3>2, <3>3
  <2>8. OwnFlagsPredictedOnce'
    BY <2>1, <2>7 DEF OwnFlagsPredictedOnce, OwnPredictions
  <2>9. /\ Len(players') = ticks' + predicted'
        /\ \A i \in 1 .. predicted' : players'[ticks' + i][Me] < read' + predicted'
    <3>1. ticks' = ticks /\ read' = read /\ predicted' = predicted + 1  BY <2>1
    <3>2. Len(players') = ticks + (predicted + 1)  BY <1>1, <2>4
    <3>   QED BY <3>1, <3>2, <2>6
  <2>10. read' <= write'  BY <2>1 DEF PredictionInv
  <2>   QED BY <2>8, <2>9, <2>10 DEF PredictionInv
<1>   QED BY <1>3, <1>4, <1>5, <1>6, <1>7, <1>9, <1>10, <1>11 DEF Next, Update

\* A prediction uses each of the local player's words once, in their order.
THEOREM FlagsPredictedOnce == ASSUME Assumptions PROVE Spec => []OwnFlagsPredictedOnce
<1>1. Init => PredictionInv  BY DEF Init, PredictionInv, InLevel
<1>2. WorldInv /\ PredictionInv /\ [Next]_vars => PredictionInv'
  BY PredictionInvStep
<1>3. PredictionInv => OwnFlagsPredictedOnce
  BY DEF PredictionInv, OwnFlagsPredictedOnce
<1>   QED BY <1>1, <1>2, <1>3, Invariance, PTL DEF Spec

-----------------------------------------------------------------------------
(***************************************************************************)
(* The types of the main loop's variables: that all ticks and words stay   *)
(* within the level, and the cursors within their queues, for any number   *)
(* of players and any bounds.                                              *)
(*                                                                         *)
(* A word is a tick of the level because the words of all players are      *)
(* enqueued in rounds, and because as many of the local player's words are *)
(* taken for confirmed as have come back, made up or not (Rounded).        *)
(***************************************************************************)
\* Complete rounds of words when it is a player's turn; in a round that is not
\* complete the players before that one have got theirs.
RoundsOf(words, turn) == Len(words[Me]) - (IF Me < turn THEN 1 ELSE 0)

RoundedWith(words, turn, back) ==
  /\ back = Len(words[Me]) + 1
  /\ \A q \in Alive : Len(words[q]) = RoundsOf(words, turn) + (IF q < turn THEN 1 ELSE 0)
  /\ RoundsOf(words, turn) + (IF turn = 0 THEN 0 ELSE 1) <= MaxTick

Rounds == RoundsOf(confirmed, next)
Rounded == RoundedWith(confirmed, next, unconfirmed)

\* The last level of the bound is not left.
NotTheLast == pc = "leave" => level < MaxLevel

Typed == WorldTypeOK /\ Rounded /\ NotTheLast

-----------------------------------------------------------------------------
LEMMA FlagsFacts ==
  /\ MaxTick \in Nat \ {0} /\ UnconfirmedSize \in Nat \ {0} /\ MaxLevel \in Nat \ {0}
  /\ NoFlags \in Flags /\ MadeUp \in Flags
  /\ Flags \subseteq Int
  /\ \A i \in Int : 1 <= i /\ i <= MaxTick => i \in Flags
  /\ Predicting \subseteq BOOLEAN
BY WorldConstants DEF Flags, Ticks, NoFlags, MadeUp

\* What the operations on a queue preserve, however full it is.
LEMMA QueueOperations ==
  ASSUME NEW queue \in Queues(Flags), NEW flags \in Flags
  PROVE  /\ Enqueue(queue, flags) \in Queues(Flags)
         /\ Dequeue(queue) \in Queues(Flags)
         /\ Reset(queue) \in Queues(Flags)
         /\ Peek(queue) \in Flags
<1>1. /\ queue.buffer \in [Indexes -> Flags]
      /\ queue.read \in Indexes /\ queue.write \in Indexes
  BY DEF Queues
<1>2. \A i \in Indexes : (i + 1) % QueueSize \in Indexes
  BY Wrap, QueueConstants DEF Indexes
<1>3. Enqueue(queue, flags) \in Queues(Flags)
  BY <1>1, <1>2, Zenon DEF Enqueue, Queues
<1>4. Dequeue(queue) \in Queues(Flags)
  BY <1>1, <1>2, Zenon DEF Dequeue, Queues
<1>5. Reset(queue) \in Queues(Flags)
  BY ResetEmpties
<1>6. Peek(queue) \in Flags
  BY <1>1, FlagsFacts DEF Peek
<1>   QED BY <1>3, <1>4, <1>5, <1>6

LEMMA PlayerFacts == Me \in Players /\ Me \in Nat /\ \A q \in Players : q \in Nat /\ q < N /\ N \in Nat
BY WorldConstants DEF Players

\* The number of rounds without the conditional.
LEMMA RoundsValue ==
  ASSUME NEW words \in [Players -> Seq(Flags)], NEW turn \in Players, NEW back,
         RoundedWith(words, turn, back)
  PROVE  /\ RoundsOf(words, turn) \in Int /\ Len(words[Me]) \in Nat
         /\ turn = 0 => RoundsOf(words, turn) <= MaxTick
         /\ turn # 0 => RoundsOf(words, turn) + 1 <= MaxTick
         /\ Len(words[Me]) <= MaxTick
         /\ \A q \in Alive : Len(words[q]) \in Nat
         /\ \A q \in Alive : q < turn => Len(words[q]) = RoundsOf(words, turn) + 1
         /\ \A q \in Alive : ~ q < turn => Len(words[q]) = RoundsOf(words, turn)
<1>   DEFINE n == RoundsOf(words, turn)
<1>1. Len(words[Me]) \in Nat /\ \A q \in Alive : Len(words[q]) \in Nat
  BY PlayerFacts, FewFacts
<1>2. /\ n \in Int
      /\ Me < turn => Len(words[Me]) = n + 1
      /\ ~ Me < turn => Len(words[Me]) = n
  <2>1. CASE Me < turn
    <3>1. n = Len(words[Me]) - 1  BY <2>1 DEF RoundsOf
    <3>   QED BY <3>1, <2>1, <1>1
  <2>2. CASE ~ Me < turn
    <3>1. n = Len(words[Me]) - 0  BY <2>2 DEF RoundsOf
    <3>   QED BY <3>1, <2>2, <1>1
  <2>   QED BY <2>1, <2>2
<1>   HIDE DEF n
<1>3. /\ turn = 0 => n <= MaxTick
      /\ turn # 0 => n + 1 <= MaxTick
  BY <1>2, FlagsFacts DEF RoundedWith, n
<1>4. Len(words[Me]) <= MaxTick
  BY <1>1, <1>2, <1>3, PlayerFacts, FlagsFacts
<1>5. /\ \A q \in Alive : q < turn => Len(words[q]) = n + 1
      /\ \A q \in Alive : ~ q < turn => Len(words[q]) = n
  BY <1>2 DEF RoundedWith, n
<1>   QED BY <1>1, <1>2, <1>3, <1>4, <1>5 DEF n

\* Back to the definition.
LEMMA RoundedValue ==
  ASSUME NEW words \in [Players -> Seq(Flags)], NEW turn \in Players, NEW back, NEW n \in Int,
         back = Len(words[Me]) + 1,
         \A q \in Alive : q < turn => Len(words[q]) = n + 1,
         \A q \in Alive : ~ q < turn => Len(words[q]) = n,
         turn = 0 => n <= MaxTick,
         turn # 0 => n + 1 <= MaxTick
  PROVE  RoundedWith(words, turn, back)
<1>1. RoundsOf(words, turn) = n
  <2>1. CASE Me < turn
    <3>1. RoundsOf(words, turn) = Len(words[Me]) - 1  BY <2>1 DEF RoundsOf
    <3>   QED BY <3>1, <2>1, FewFacts
  <2>2. CASE ~ Me < turn
    <3>1. RoundsOf(words, turn) = Len(words[Me]) - 0  BY <2>2 DEF RoundsOf
    <3>   QED BY <3>1, <2>2, FewFacts
  <2>   QED BY <2>1, <2>2
<1>2. \A q \in Alive : Len(words[q]) = n + (IF q < turn THEN 1 ELSE 0)
  OBVIOUS
<1>3. n + (IF turn = 0 THEN 0 ELSE 1) <= MaxTick
  OBVIOUS
<1>   QED BY <1>1, <1>2, <1>3 DEF RoundedWith

LEMMA InitTyped == Init => Typed
<1>   SUFFICES ASSUME Init PROVE Typed  OBVIOUS
<1>1. NewQueue \in Queues(Flags)
  <2>1. 0 \in Indexes  BY QueueConstants DEF Indexes
  <2>   QED BY <2>1, FlagsFacts DEF NewQueue, Queues
<1>2. /\ confirmed = [q \in Players |-> <<>>] /\ next = 0
      /\ real = [q \in Players |-> NewQueue] /\ game = [q \in Players |-> NewQueue]
      /\ recent = [q \in Players |-> NoFlags]
      /\ read = 1 /\ write = 1 /\ unconfirmed = 1
      /\ pregame = PregameTicks /\ wanted \in Predicting /\ allowed = 0
      /\ players = <<>> /\ saved = <<>> /\ ticks = 0 /\ predicted = 0
      /\ pc = "reset" /\ level = 1
  BY DEF Init, PregameAfterSync
<1>3. WorldTypeOK
  <2>1. real \in [Players -> Queues(Flags)] /\ game \in [Players -> Queues(Flags)]
    BY <1>1, <1>2
  <2>2. confirmed \in [Players -> Seq(Flags)] /\ recent \in Moves
    BY <1>2, FlagsFacts DEF Moves
  <2>3. {players, saved} \subseteq Seq(Moves)  BY <1>2
  <2>4. /\ {read, write, unconfirmed} \subseteq Ticks \cup {MaxTick + 1}
        /\ write - read \in 0 .. UnconfirmedSize
        /\ allowed \in 0 .. MaxTick /\ ticks \in 0 .. MaxTick
        /\ predicted \in 0 .. UnconfirmedSize /\ level \in 1 .. MaxLevel
        /\ pregame \in 0 .. PregameTicks /\ next \in Players
    BY <1>2, FlagsFacts, FewFacts DEF Ticks
  <2>   QED BY <1>2, <2>1, <2>2, <2>3, <2>4 DEF WorldTypeOK, Places
<1>4. Rounded
  <2>1. \A q \in Players : Len(confirmed[q]) = 0 /\ ~ q < next
    BY <1>2, FewFacts
  <2>   QED BY <1>2, <2>1, FewFacts, FlagsFacts DEF Rounded, Rounds, RoundedWith, RoundsOf
<1>   QED BY <1>2, <1>3, <1>4 DEF Typed, NotTheLast

-----------------------------------------------------------------------------
\* The spoke enqueues a word of the level.
LEMMA ReceiveFlagsTyped ==
  ASSUME Typed, ReceiveFlags PROVE Typed'
<1>   USE DEF Typed, NotTheLast
<1>1. /\ next \in Players
      /\ next' = IF next + 1 < N THEN next + 1 ELSE 0
      /\ next = 0 => Len(confirmed[Me]) < MaxTick
      /\ UNCHANGED <<pregame, read, write, wanted, allowed, game, recent, players, ticks, saved,
                     predicted, pc, level>>
  BY NextPlayer DEF ReceiveFlags, WorldTypeOK
<1>2. next' \in Players /\ next \in Int /\ Me \in Int /\ Players \subseteq Int
  BY <1>1, WorldConstants DEF Players
<1>3. /\ confirmed \in [Players -> Seq(Flags)] /\ real \in [Players -> Queues(Flags)]
      /\ read \in Int /\ write \in Int /\ unconfirmed \in Int
      /\ read >= 1 /\ write <= MaxTick + 1
  BY FlagsFacts, SMTT(30) DEF WorldTypeOK, Ticks
<1>4. \A q \in Players : Len(confirmed[q]) \in Nat
  BY <1>3
<1>5. /\ Rounds \in Int
      /\ next # 0 => Rounds + 1 <= MaxTick
      /\ \A q \in Alive : q < next => Len(confirmed[q]) = Rounds + 1
      /\ \A q \in Alive : ~ q < next => Len(confirmed[q]) = Rounds
  BY <1>1, <1>3, RoundsValue DEF Rounded, Rounds
<1>   HIDE DEF Typed
<1>6. Rounds < MaxTick /\ Rounds \in Int
  BY <1>1, <1>5, PlayerFacts, FewFacts, FlagsFacts
<1>7. ASSUME confirmed' \in [Players -> Seq(Flags)],
             \A q \in Alive : q = next => Len(confirmed'[q]) = Len(confirmed[q]) + 1,
             \A q \in Alive : q # next => Len(confirmed'[q]) = Len(confirmed[q]),
             unconfirmed' = Len(confirmed'[Me]) + 1
      PROVE  Rounded'
  <2>1. ASSUME NEW q \in Alive PROVE q <= next => Len(confirmed'[q]) = Rounds + 1
    <3>1. q \in Nat /\ next \in Int  BY <1>2, PlayerFacts, FewFacts
    <3>2. CASE q = next
      <4>1. Len(confirmed[q]) = Rounds  BY <3>1, <3>2, <1>5
      <4>   QED BY <4>1, <3>2, <1>7
    <3>3. CASE q # next
      <4>1. q <= next => Len(confirmed[q]) = Rounds + 1  BY <3>1, <3>3, <1>5
      <4>   QED BY <4>1, <3>3, <1>7
    <3>   QED BY <3>2, <3>3
  <2>2. ASSUME NEW q \in Alive PROVE ~ q <= next => Len(confirmed'[q]) = Rounds
    <3>1. q \in Nat /\ next \in Int  BY <1>2, PlayerFacts, FewFacts
    <3>2. ~ q <= next => q # next /\ Len(confirmed[q]) = Rounds  BY <3>1, <1>5
    <3>   QED BY <3>2, <1>7
  <2>3. CASE next + 1 < N
    <3>1. next' = next + 1  BY <2>3, <1>1
    <3>2. /\ \A q \in Alive : q < next' => Len(confirmed'[q]) = Rounds + 1
          /\ \A q \in Alive : ~ q < next' => Len(confirmed'[q]) = Rounds
      BY <2>1, <2>2, <3>1, <1>1, PlayerFacts, FewFacts
    <3>3. next' # 0 /\ Rounds + 1 <= MaxTick
      BY <3>1, <1>1, <1>6, PlayerFacts, FlagsFacts
    <3>   QED BY <3>2, <3>3, <1>2, <1>6, <1>7, RoundedValue DEF Rounded
  <2>4. CASE ~ next + 1 < N
    <3>1. next' = 0 /\ \A q \in Alive : q <= next /\ ~ q < next'
      BY <2>4, <1>1, PlayerFacts, FewFacts
    <3>2. \A q \in Alive : ~ q < next' => Len(confirmed'[q]) = Rounds + 1
      BY <2>1, <3>1
    <3>3. Rounds + 1 \in Int /\ Rounds + 1 <= MaxTick  BY <1>6, FlagsFacts
    <3>   QED BY <3>1, <3>2, <3>3, <1>2, <1>7, RoundedValue DEF Rounded
  <2>   QED BY <2>3, <2>4
<1>8. CASE next \in Zombies
  <2>1. UNCHANGED <<confirmed, unconfirmed, real>>  BY <1>8 DEF ReceiveFlags
  <2>2. \A q \in Alive : q # next  BY <1>8 DEF Alive
  <2>3. Rounded'  BY <1>3, <1>7, <2>1, <2>2 DEF Typed, Rounded, RoundedWith
  <2>4. WorldTypeOK'  BY <1>1, <1>2, <2>1 DEF Typed, WorldTypeOK
  <2>   QED BY <1>1, <2>3, <2>4 DEF Typed
<1>9. CASE next \notin Zombies
  <2>1. PICK flags \in WordsFor(next) :
          /\ real' = Enqueued(next, flags)
          /\ confirmed' = [confirmed EXCEPT ![next] = Append(@, flags)]
          /\ unconfirmed' = IF next = Me THEN unconfirmed + 1 ELSE unconfirmed
    BY <1>9 DEF ReceiveFlags
  <2>2. next \in Alive  BY <1>1, <1>9 DEF Alive
  <2>3. Len(confirmed[next]) = Rounds  BY <2>2, <1>2, <1>5
  <2>4. flags \in Flags
    <3>1. CASE next # Me
      <4>1. flags = Len(confirmed[next]) + 1  BY <2>1, <3>1 DEF WordsFor
      <4>   QED BY <4>1, <2>3, <1>1, <1>4, <1>6, FlagsFacts
    <3>2. CASE flags = MadeUp  BY <3>2, FlagsFacts
    <3>3. CASE flags = unconfirmed /\ unconfirmed < write
      <4>1. unconfirmed >= 1  BY <1>4, FewFacts DEF Typed, Rounded, RoundedWith
      <4>   QED BY <3>3, <4>1, <1>3, FlagsFacts
    <3>   QED BY <2>1, <3>1, <3>2, <3>3 DEF WordsFor
  <2>5. /\ confirmed' \in [Players -> Seq(Flags)]
        /\ \A q \in Players : q = next => Len(confirmed'[q]) = Len(confirmed[q]) + 1
        /\ \A q \in Players : q # next => Len(confirmed'[q]) = Len(confirmed[q])
    <3>1. Append(confirmed[next], flags) \in Seq(Flags)
          /\ Len(Append(confirmed[next], flags)) = Len(confirmed[next]) + 1
      BY <2>4, <1>1, <1>3
    <3>   QED BY <3>1, <2>1, <1>1, <1>3, <1>4
  <2>6. real' \in [Players -> Queues(Flags)]
    <3>1. Enqueue(real[next], flags) \in Queues(Flags)
      BY <2>4, <1>1, <1>3, QueueOperations
    <3>   QED BY <3>1, <2>1, <1>3 DEF Enqueued
  <2>7. unconfirmed' = Len(confirmed'[Me]) + 1
    BY <2>1, <2>5, <1>4, FewFacts DEF Typed, Rounded, RoundedWith
  <2>8. Rounded'  BY <1>7, <2>5, <2>7, FewFacts
  <2>9. unconfirmed' \in Ticks \cup {MaxTick + 1}
    <3>1. Len(confirmed'[Me]) <= MaxTick /\ Len(confirmed'[Me]) \in Nat
      BY <2>5, <2>8, <1>2, RoundsValue DEF Rounded
    <3>   QED BY <3>1, <2>7, FlagsFacts DEF Ticks
  <2>10. WorldTypeOK'
    BY <1>1, <1>2, <2>5, <2>6, <2>9 DEF Typed, WorldTypeOK
  <2>   QED BY <1>1, <2>8, <2>10 DEF Typed
<1>   QED BY <1>8, <1>9

-----------------------------------------------------------------------------
\* What stocking the game's queue leaves behind.
LEMMA StockingTyped ==
  ASSUME WorldTypeOK
  PROVE  StockedGame \in [Players -> Queues(Flags)] /\ StockedReal \in [Players -> Queues(Flags)]
<1>1. game \in [Players -> Queues(Flags)] /\ real \in [Players -> Queues(Flags)]
  BY DEF WorldTypeOK
<1>2. ASSUME NEW q \in Players
      PROVE  /\ Enqueue(game[q], IF q \in Zombies THEN NoFlags ELSE Peek(real[q])) \in Queues(Flags)
             /\ Dequeue(real[q]) \in Queues(Flags)
  <2>1. Peek(real[q]) \in Flags /\ Dequeue(real[q]) \in Queues(Flags)
    BY <1>1, FlagsFacts, QueueOperations
  <2>   QED BY <2>1, <1>1, FlagsFacts, QueueOperations
<1>3. StockedGame \in [Players -> Queues(Flags)]  BY <1>1, <1>2 DEF StockedGame
<1>4. StockedReal \in [Players -> Queues(Flags)]  BY <1>1, <1>2 DEF StockedReal
<1>   QED BY <1>3, <1>4

\* A tick is played for which there was a confirmed word.
LEMMA RealTickTyped ==
  ASSUME WorldInv, Typed, NEW lastOfLevel \in BOOLEAN, RealTick(lastOfLevel) PROVE Typed'
<1>   DEFINE moves == [q \in Players |-> Peek(StockedGame[q])]
<1>1. /\ pc = "update" /\ MayUpdate
      /\ real' = StockedReal
      /\ game' = [q \in Players |-> Dequeue(StockedGame[q])]
      /\ recent' = moves
      /\ players' = Append(RestoredPlayers, moves)
      /\ predicted' = 0 /\ ticks' = ticks + 1
      /\ pc' \in {"leave", "update"}
      /\ pc' = "leave" => level < MaxLevel
      /\ UNCHANGED <<spoke, wanted, allowed, saved, level>>
  BY DEF RealTick
<1>2. StockedGame \in [Players -> Queues(Flags)] /\ StockedReal \in [Players -> Queues(Flags)]
  BY StockingTyped DEF Typed
<1>3. \A q \in Players : Dequeue(StockedGame[q]) \in Queues(Flags) /\ Peek(StockedGame[q]) \in Flags
  BY <1>2, FlagsFacts, QueueOperations
<1>4. moves \in Moves  BY <1>3 DEF Moves
<1>5. RestoredPlayers \in Seq(Moves)
  BY DEF RestoredPlayers, Typed, WorldTypeOK
<1>6. players' \in Seq(Moves)
  BY <1>1, <1>4, <1>5
<1>7. ticks + 1 <= MaxTick
  <2>1. InLevel /\ (Stocked \/ MayStock)  BY <1>1 DEF MayUpdate, InLevel
  <2>2. /\ Even(StockedGame) /\ Balanced(StockedGame, StockedReal, ticks)
        /\ Count(StockedGame[0]) = 1
    BY <2>1, Stocking
  <2>3. Count(StockedGame[Me]) = 1 /\ Count(StockedReal[Me]) \in Nat
    BY <2>2, <1>2, FewFacts, CountValue DEF Even, Indexes
  <2>4. Len(confirmed[Me]) = ticks + 1 + Count(StockedReal[Me])
    BY <2>2, <2>3, FewFacts DEF Balanced
  <2>5. Len(confirmed[Me]) <= MaxTick
    BY RoundsValue DEF Rounded, Rounds, Typed, WorldTypeOK
  <2>6. ticks \in Nat  BY DEF WorldInv, TypeInv
  <2>   QED BY <2>3, <2>4, <2>5, <2>6, FlagsFacts
<1>8. Rounded'
  BY <1>1 DEF Typed, Rounded, Rounds, RoundedWith, RoundsOf, spoke
<1>9. WorldTypeOK'
  <2>1. real' \in [Players -> Queues(Flags)] /\ game' \in [Players -> Queues(Flags)]
    BY <1>1, <1>2, <1>3
  <2>2. recent' \in Moves  BY <1>1, <1>4
  <2>3. ticks' \in 0 .. MaxTick /\ predicted' \in 0 .. UnconfirmedSize
    BY <1>1, <1>7, FlagsFacts DEF Typed, WorldTypeOK
  <2>   QED BY <1>1, <1>6, <2>1, <2>2, <2>3 DEF Typed, WorldTypeOK, spoke, Places
<1>   QED BY <1>1, <1>8, <1>9 DEF Typed, NotTheLast

\* A prediction uses a word that was provided.
LEMMA PredictTickTyped ==
  ASSUME Typed, PredictTick PROVE Typed'
<1>1. /\ predicted < write - read
      /\ saved' = SavedPlayers
      /\ players' = Append(players, [recent EXCEPT ![Me] = OwnFlags])
      /\ predicted' = predicted + 1
      /\ UNCHANGED <<spoke, real, wanted, allowed, game, recent, ticks, pc, level>>
  BY DEF PredictTick
<1>2. /\ read \in Int /\ write \in Int /\ read >= 1 /\ write <= MaxTick + 1
      /\ predicted \in Nat /\ write - read <= UnconfirmedSize
      /\ recent \in Moves /\ players \in Seq(Moves) /\ saved \in Seq(Moves)
  BY FlagsFacts, SMTT(30) DEF Typed, WorldTypeOK, Ticks
<1>3. OwnFlags \in Flags
  BY <1>1, <1>2, FlagsFacts DEF OwnFlags
<1>4. [recent EXCEPT ![Me] = OwnFlags] \in Moves
  BY <1>2, <1>3 DEF Moves
<1>5. players' \in Seq(Moves) /\ saved' \in Seq(Moves)
  BY <1>1, <1>2, <1>4 DEF SavedPlayers
<1>6. predicted' \in 0 .. UnconfirmedSize
  BY <1>1, <1>2, FlagsFacts
<1>7. WorldTypeOK'
  BY <1>1, <1>5, <1>6 DEF Typed, WorldTypeOK, spoke
<1>8. Rounded'
  BY <1>1 DEF Typed, Rounded, Rounds, RoundedWith, RoundsOf, spoke
<1>   QED BY <1>1, <1>7, <1>8 DEF Typed, NotTheLast

\* The game's thread takes out what is confirmed, and no more than there is.
LEMMA DequeueConfirmedTyped ==
  ASSUME Typed, DequeueConfirmed PROVE Typed'
<1>1. /\ read' = ConfirmedRead
      /\ pc' = "predict"
      /\ UNCHANGED <<pregame, confirmed, next, write, unconfirmed, real, wanted, allowed, game,
                     recent, players, ticks, saved, predicted, level>>
  BY DEF DequeueConfirmed
<1>2. /\ {read, write, unconfirmed} \subseteq Ticks \cup {MaxTick + 1}
      /\ write - read \in 0 .. UnconfirmedSize
  BY DEF Typed, WorldTypeOK
<1>3. ConfirmedRead \in Ticks \cup {MaxTick + 1} /\ write - ConfirmedRead \in 0 .. UnconfirmedSize
  <2>1. read \in Int /\ write \in Int /\ unconfirmed \in Int /\ MaxTick \in Int
    BY <1>2, FlagsFacts DEF Ticks
  <2>   QED BY <1>2, <2>1, FlagsFacts DEF ConfirmedRead
<1>4. WorldTypeOK'
  BY <1>1, <1>2, <1>3 DEF Typed, WorldTypeOK, Places
<1>5. Rounded'
  BY <1>1 DEF Typed, Rounded, Rounds, RoundedWith, RoundsOf
<1>   QED BY <1>1, <1>4, <1>5 DEF Typed, NotTheLast

\* A new level starts from nothing; its queues have been in use before.
LEMMA NewLevelTyped ==
  ASSUME Typed, EnterLevel \/ ResetActionQueues PROVE Typed'
<1>1. /\ game \in [Players -> Queues(Flags)] /\ real \in [Players -> Queues(Flags)]
      /\ WorldTypeOK
  BY DEF Typed, WorldTypeOK
<1>2. \A q \in Players : Reset(real[q]) \in Queues(Flags) /\ Reset(game[q]) \in Queues(Flags)
  BY <1>1, FlagsFacts, QueueOperations
<1>3. CASE EnterLevel
  <2>1. /\ pc' = "reset" /\ pregame' = PregameTicks
        /\ confirmed' = [q \in Players |-> <<>>] /\ next' = 0
        /\ read' = 1 /\ write' = 1 /\ unconfirmed' = 1
        /\ real' = [q \in Players |-> Reset(real[q])]
        /\ players' = <<>> /\ ticks' = 0 /\ allowed' = 0
        /\ UNCHANGED <<wanted, game, recent, saved, predicted, level>>
    BY <1>3 DEF EnterLevel, PregameAfterSync
  <2>2. Rounded'
    <3>1. \A q \in Players : Len(confirmed'[q]) = 0 /\ ~ q < next'
      BY <2>1, FewFacts
    <3>   QED BY <2>1, <3>1, FewFacts, FlagsFacts DEF Rounded, Rounds, RoundedWith, RoundsOf
  <2>3. WorldTypeOK'
    <3>1. real' \in [Players -> Queues(Flags)]  BY <2>1, <1>2
    <3>2. confirmed' \in [Players -> Seq(Flags)] /\ players' \in Seq(Moves)  BY <2>1
    <3>3. /\ {read', write', unconfirmed'} \subseteq Ticks \cup {MaxTick + 1}
          /\ write' - read' \in 0 .. UnconfirmedSize
          /\ allowed' \in 0 .. MaxTick /\ ticks' \in 0 .. MaxTick
          /\ pregame' \in 0 .. PregameTicks /\ next' \in Players
      BY <2>1, FlagsFacts, FewFacts DEF Ticks
    <3>   QED BY <2>1, <3>1, <3>2, <3>3, <1>1 DEF WorldTypeOK, Places
  <2>   QED BY <2>1, <2>2, <2>3 DEF Typed, NotTheLast
<1>4. CASE ResetActionQueues
  <2>1. /\ pc' = "update" /\ predicted' = 0
        /\ real' = [q \in Players |-> Reset(real[q])]
        /\ game' = [q \in Players |-> Reset(game[q])]
        /\ recent' = [q \in Players |-> NoFlags]
        /\ UNCHANGED <<spoke, wanted, allowed, players, ticks, saved, level>>
    BY <1>4 DEF ResetActionQueues, PredictedAfterReset
  <2>2. real' \in [Players -> Queues(Flags)] /\ game' \in [Players -> Queues(Flags)]
    BY <2>1, <1>2
  <2>3. recent' \in Moves /\ predicted' \in 0 .. UnconfirmedSize
    BY <2>1, FlagsFacts DEF Moves
  <2>4. WorldTypeOK'
    BY <1>1, <2>1, <2>2, <2>3 DEF WorldTypeOK, spoke, Places
  <2>5. Rounded'
    BY <2>1 DEF Typed, Rounded, Rounds, RoundedWith, RoundsOf, spoke
  <2>   QED BY <2>1, <2>4, <2>5 DEF Typed, NotTheLast
<1>   QED BY <1>3, <1>4

\* The actions that move one cursor or the program counter.
LEMMA SmallStepsTyped ==
  ASSUME Typed, \/ ProvideFlags \/ ReceivePregame \/ Heartbeat \/ EndTicks
                \/ EndPrediction \/ LeaveLevel \/ Quit \/ UNCHANGED vars
  PROVE  Typed'
<1>   USE DEF Typed, Rounded, Rounds, RoundedWith, RoundsOf, NotTheLast, spoke
<1>1. CASE ProvideFlags
  <2>1. /\ write <= MaxTick /\ write - read < UnconfirmedSize /\ write' = write + 1
        /\ read \in Int /\ write \in Ticks \cup {MaxTick + 1}
        /\ write - read \in 0 .. UnconfirmedSize
    BY <1>1, FlagsFacts DEF ProvideFlags, WorldTypeOK, Ticks
  <2>2. write' \in Ticks \cup {MaxTick + 1} /\ write' - read \in 0 .. UnconfirmedSize
    BY <2>1, FlagsFacts DEF Ticks
  <2>   QED BY <1>1, <2>2 DEF ProvideFlags, WorldTypeOK
<1>2. CASE ReceivePregame
  <2>1. pregame' \in 0 .. PregameTicks
    BY <1>2, FewFacts DEF ReceivePregame, WorldTypeOK
  <2>   QED BY <1>2, <2>1 DEF ReceivePregame, WorldTypeOK
<1>3. CASE Heartbeat
  <2>1. allowed' \in 0 .. MaxTick
    BY <1>3, FlagsFacts DEF Heartbeat, WorldTypeOK
  <2>   QED BY <1>3, <2>1 DEF Heartbeat, WorldTypeOK
<1>4. CASE EndTicks
  BY <1>4, StockingTyped DEF EndTicks, WorldTypeOK, Places
<1>5. CASE EndPrediction \/ Quit
  BY <1>5 DEF EndPrediction, Quit, WorldTypeOK, Places
<1>7. CASE LeaveLevel
  <2>1. level' \in 1 .. MaxLevel  BY <1>7, FlagsFacts DEF LeaveLevel, WorldTypeOK
  <2>   QED BY <1>7, <2>1 DEF LeaveLevel, WorldTypeOK, Places
<1>6. CASE UNCHANGED vars
  BY <1>6 DEF vars, WorldTypeOK
<1>   QED BY <1>1, <1>2, <1>3, <1>4, <1>5, <1>6, <1>7

-----------------------------------------------------------------------------
LEMMA StepTyped == WorldInv /\ Typed /\ [Next]_vars => Typed'
<1>   SUFFICES ASSUME WorldInv, Typed, [Next]_vars PROVE Typed'  OBVIOUS
<1>1. CASE ProvideFlags \/ ReceivePregame \/ Heartbeat \/ EndTicks
           \/ EndPrediction \/ LeaveLevel \/ Quit \/ UNCHANGED vars
  BY <1>1, SmallStepsTyped
<1>2. CASE ReceiveFlags  BY <1>2, ReceiveFlagsTyped
<1>3. CASE \E lastOfLevel \in BOOLEAN : RealTick(lastOfLevel)  BY <1>3, RealTickTyped
<1>4. CASE DequeueConfirmed  BY <1>4, DequeueConfirmedTyped
<1>5. CASE PredictTick  BY <1>5, PredictTickTyped
<1>6. CASE EnterLevel \/ ResetActionQueues  BY <1>6, NewLevelTyped
<1>   QED BY <1>1, <1>2, <1>3, <1>4, <1>5, <1>6 DEF Next, Update

\* All words and ticks are those of the level, all cursors are in their queues.
THEOREM WorldTyped == ASSUME Assumptions PROVE Spec => []WorldTypeOK
<1>1. Typed => WorldTypeOK  BY DEF Typed
<1>   QED BY <1>1, InitTyped, StepTyped, Invariance, PTL DEF Spec
=============================================================================
