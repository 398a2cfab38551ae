----------------------------- MODULE WorldUpdate -----------------------------
(***************************************************************************)
(* The main loop of a machine in a network game: update_world in           *)
(* Source_Files/GameWorld/marathon2.cpp, with the action queues between it *)
(* and the thread of the spoke (Source_Files/Network/network_star_spoke.cpp*)
(* with the adapters of StarGameProtocol.cpp).                             *)
(*                                                                         *)
(* The spoke's thread puts the words of action flags of all players into   *)
(* the "real" action queues, one after the other.  The game's thread takes *)
(* them out when there is one for everybody, and advances the world by a   *)
(* tick.  When there are no more it predicts: it advances the players, but *)
(* not the rest of the world, by the local player's flags that are not     *)
(* confirmed yet.  Before the next tick the players are put back.          *)
(*                                                                         *)
(* The state of the players is abstracted to the words they were advanced  *)
(* with, and the rest of the world to the number of its ticks; both start  *)
(* anew in every level.  The word of a player for a tick is the tick, or   *)
(* MadeUp when the hub made it up for a local player that was too late.    *)
(* Lua scripts, which may overlay flags, and a spoke that is alone are     *)
(* left out.  Without prediction (one player, or a replay) the words are   *)
(* those of the keyboard or of a recording, and not held back by the spoke.*)
(***************************************************************************)
EXTENDS ActionQueues

CONSTANTS
  N,                  \* number of players
  Me,                 \* local_player_index
  Zombies,            \* players nobody plays
  Predicting,         \* is prediction wanted? (TRUE in a network game)
  UnconfirmedSize,    \* kDefaultOutgoingFlagsQueueSize
  MaxTick,            \* bound: ticks of a level
  MaxLevel,           \* bound: levels, of all games
  PregameTicks,       \* kPregameTicks
  ReadyInTime         \* assumption: the game is ready before they are over

Players == 0 .. N - 1

ASSUME WorldConstants ==
  /\ N \in Nat \ {0}
  /\ Me \in Players
  /\ Zombies \subseteq Players \ {Me}
  /\ {UnconfirmedSize, MaxTick, MaxLevel} \subseteq Nat \ {0}
  /\ Predicting \subseteq BOOLEAN
  /\ PregameTicks \in Nat
  /\ ReadyInTime \in BOOLEAN

MadeUp == -1
Ticks == 1 .. MaxTick
Flags == Ticks \cup {NoFlags, MadeUp}

VARIABLES
  \* the spoke
  pregame,      \* pregame ticks it has yet to receive
  confirmed,    \* the words it has put into the real queues
  next,         \* the player whose word it puts there next
  read,         \* sUnconfirmedFlags
  write,
  unconfirmed,  \* sSmallestUnconfirmedTick
  \* shared by both threads
  real,         \* sRealActionQueues
  \* the game
  wanted,       \* sPredictionWanted
  allowed,      \* the speed limit: NetGetNetTime or get_heartbeat_count
  game,         \* GameQueue
  recent,       \* sMostRecentFlagsForPlayer
  players,      \* what the players were advanced with
  ticks,        \* how often everything else was
  saved,        \* sSavedPlayerData and the like
  predicted,    \* sPredictedTicks
  pc,           \* where in its loop the game is
  level         \* the number of levels played

spoke == <<pregame, confirmed, next, read, write, unconfirmed>>
vars == <<spoke, real, wanted, allowed, game, recent, players, ticks, saved,
          predicted, pc, level>>

Places == {"update", "confirm", "predict", "leave", "enter", "reset"}

Alive == Players \ Zombies

\* What advances all players by a tick.
Moves == [Players -> Flags]

WorldTypeOK ==
  /\ pregame \in 0 .. PregameTicks
  /\ confirmed \in [Players -> Seq(Flags)]
  /\ next \in Players
  /\ {read, write, unconfirmed} \subseteq Ticks \cup {MaxTick + 1}
  /\ write - read \in 0 .. UnconfirmedSize
  /\ real \in [Players -> Queues(Flags)]
  /\ wanted \in Predicting
  /\ allowed \in 0 .. MaxTick
  /\ game \in [Players -> Queues(Flags)]
  /\ recent \in Moves
  /\ {players, saved} \subseteq Seq(Moves)
  /\ ticks \in 0 .. MaxTick
  /\ predicted \in 0 .. UnconfirmedSize
  /\ pc \in Places
  /\ level \in 1 .. MaxLevel

\* Mutant: the first tick is a real one.
PregameAfterSync_None == 0

\* The pregame ticks a spoke starts with.
PregameAfterSync == PregameTicks

Init ==
  /\ pregame = PregameAfterSync
  /\ confirmed = [q \in Players |-> <<>>] /\ next = 0
  /\ read = 1 /\ write = 1 /\ unconfirmed = 1
  /\ real = [q \in Players |-> NewQueue]
  /\ wanted \in Predicting
  /\ allowed = 0
  /\ game = [q \in Players |-> NewQueue]
  /\ recent = [q \in Players |-> NoFlags]
  /\ players = <<>> /\ ticks = 0 /\ saved = <<>> /\ predicted = 0
  /\ pc = "reset" /\ level = 1

-----------------------------------------------------------------------------
(***************************************************************************)
(* The spoke's thread                                                      *)
(***************************************************************************)

\* Is the spoke running?
Synced == pc \notin {"leave", "enter"}

\* spoke_tick provides a word of flags, as long as there is room.
ProvideFlags ==
  /\ Synced
  /\ write <= MaxTick /\ write - read < UnconfirmedSize
  /\ write' = write + 1
  /\ UNCHANGED <<pregame, confirmed, next, read, unconfirmed, real, wanted, allowed, game,
                 recent, players, ticks, saved, predicted, pc, level>>

\* The words of a pregame tick go nowhere.
ReceivePregame ==
  /\ Synced
  /\ pregame > 0
  /\ ReadyInTime /\ pregame = 1 => pc # "reset"
  /\ pregame' = pregame - 1
  /\ UNCHANGED <<confirmed, next, read, write, unconfirmed, real, wanted, allowed, game,
                 recent, players, ticks, saved, predicted, pc, level>>

\* The least room in the action queues lets the spoke read another tick.
RoomForATick == \A q \in Alive : AvailableCapacity(real[q]) > 0

\* The words player q may get: the local player's own one, if it has provided
\* it, or the one of a packet, where the hub may have made it up.
WordsFor(q) ==
  IF q # Me THEN {Len(confirmed[q]) + 1}
  ELSE {MadeUp} \cup (IF unconfirmed < write THEN {unconfirmed} ELSE {})

\* process_action_flags
Enqueued(q, flags) == [real EXCEPT ![q] = Enqueue(@, flags)]

\* process_game_data_packet_from_hub goes on to the next player in a tick.
ReceiveFlags ==
  /\ Synced
  /\ pregame = 0
  /\ next = 0 => RoomForATick /\ Len(confirmed[Me]) < MaxTick
  /\ next' = (next + 1) % N
  /\ IF next \in Zombies THEN UNCHANGED <<confirmed, unconfirmed, real>>
     ELSE \E flags \in WordsFor(next) :
       /\ real' = Enqueued(next, flags)
       /\ confirmed' = [confirmed EXCEPT ![next] = Append(@, flags)]
       /\ unconfirmed' = IF next = Me THEN unconfirmed + 1 ELSE unconfirmed
  /\ UNCHANGED <<pregame, read, write, wanted, allowed, game, recent, players, ticks, saved,
                 predicted, pc, level>>

\* The net time, or the heartbeat count, goes on.
Heartbeat ==
  /\ ~ wanted /\ allowed < MaxTick
  /\ allowed' = allowed + 1
  /\ UNCHANGED <<spoke, real, wanted, game, recent, players, ticks, saved, predicted,
                 pc, level>>

-----------------------------------------------------------------------------
(***************************************************************************)
(* The game's thread: update_world                                         *)
(***************************************************************************)

HaveFlagsForAllPlayers == \A q \in Alive : Count(real[q]) > 0

\* Is there a tick's worth in the game's queue, or can it be put there?
Stocked == Count(game[0]) > 0
MayStock == ~ Stocked /\ HaveFlagsForAllPlayers

\* overlay_queue_with_queue_into_queue; the real queue of a zombie always
\* yields no flags.
StockedGame ==
  IF ~ MayStock THEN game
  ELSE [q \in Players |->
          Enqueue(game[q], IF q \in Zombies THEN NoFlags ELSE Peek(real[q]))]
StockedReal ==
  IF ~ MayStock THEN real
  ELSE [q \in Players |-> IF q \in Zombies THEN real[q] ELSE Dequeue(real[q])]

\* Mutant: the speed limit is for games with prediction, too.
WithinLimit_Always == ticks < allowed

\* Mutant: no ticks in predictive mode.
WithinLimit_NotPredicting == predicted = 0 /\ (wanted \/ ticks < allowed)

\* The speed limit.
WithinLimit == wanted \/ ticks < allowed

MayUpdate == (Stocked \/ MayStock) /\ WithinLimit

\* exit_predictive_mode
RestoredPlayers == IF predicted > 0 THEN saved ELSE players

\* An iteration of the loop that advances the world, and the players by the
\* words in the game's queue.  The level may end with it.  (Bound: not the last.)
RealTick(lastOfLevel) ==
  LET moves == [q \in Players |-> Peek(StockedGame[q])]
  IN  /\ pc = "update" /\ MayUpdate
      /\ lastOfLevel => level < MaxLevel
      /\ real' = StockedReal
      /\ game' = [q \in Players |-> Dequeue(StockedGame[q])]
      /\ recent' = moves
      /\ players' = Append(RestoredPlayers, moves)
      /\ predicted' = 0
      /\ ticks' = ticks + 1
      /\ pc' = IF lastOfLevel THEN "leave" ELSE "update"
      /\ UNCHANGED <<spoke, wanted, allowed, saved, level>>

\* The iteration that ends the loop, which may have stocked the game's queue.
EndTicks ==
  /\ pc = "update" /\ ~ MayUpdate
  /\ real' = StockedReal
  /\ game' = StockedGame
  /\ pc' = IF wanted THEN "confirm" ELSE "update"
  /\ UNCHANGED <<spoke, wanted, allowed, recent, players, ticks, saved, predicted, level>>

\* Mutant: what was made up for ticks yet to be provided is dequeued, too.
ConfirmedRead_Unbounded == IF read < unconfirmed THEN unconfirmed ELSE read

\* StarGameProtocol::UpdateUnconfirmedActionFlags dequeues what was confirmed.
ConfirmedRead ==
  IF unconfirmed >= write THEN write ELSE IF read < unconfirmed THEN unconfirmed ELSE read

DequeueConfirmed ==
  /\ pc = "confirm"
  /\ read' = ConfirmedRead
  /\ pc' = "predict"
  /\ UNCHANGED <<pregame, confirmed, next, write, unconfirmed, real, wanted, allowed, game, recent,
                 players, ticks, saved, predicted, level>>

\* enter_predictive_mode
SavedPlayers == IF predicted = 0 THEN players ELSE saved

\* Mutant: always the first of the local flags.
OwnFlags_First == read

\* PeekUnconfirmedActionFlag
OwnFlags == read + predicted

\* The players are advanced by a local word that was not used yet.
PredictTick ==
  /\ pc = "predict" /\ predicted < write - read
  /\ saved' = SavedPlayers
  /\ players' = Append(players, [recent EXCEPT ![Me] = OwnFlags])
  /\ predicted' = predicted + 1
  /\ UNCHANGED <<spoke, real, wanted, allowed, game, recent, ticks, pc, level>>

\* update_world returns, and will be called again.
EndPrediction ==
  /\ pc = "predict" /\ predicted >= write - read
  /\ pc' = "update"
  /\ UNCHANGED <<spoke, real, wanted, allowed, game, recent, players, ticks, saved,
                 predicted, level>>

-----------------------------------------------------------------------------
(***************************************************************************)
(* Levels and games                                                        *)
(***************************************************************************)

\* The game is over in a tick, or it is quit between two calls of update_world:
\* finish_game.  (Bound: not the last game.)
Quit ==
  /\ pc = "update" /\ level < MaxLevel
  /\ pc' = "leave"
  /\ UNCHANGED <<spoke, real, wanted, allowed, game, recent, players, ticks, saved,
                 predicted, level>>

\* NetUnSync; the spoke has stopped.
LeaveLevel ==
  /\ pc = "leave"
  /\ pc' = "enter" /\ level' = level + 1
  /\ UNCHANGED <<spoke, real, wanted, allowed, game, recent, players, ticks, saved,
                 predicted>>

\* NetSync: the spoke starts again, with new adapters, which reset the queues.
EnterLevel ==
  /\ pc = "enter"
  /\ pc' = "reset"
  /\ pregame' = PregameAfterSync
  /\ confirmed' = [q \in Players |-> <<>>] /\ next' = 0
  /\ read' = 1 /\ write' = 1 /\ unconfirmed' = 1
  /\ real' = [q \in Players |-> Reset(real[q])]
  /\ players' = <<>> /\ ticks' = 0 /\ allowed' = 0
  /\ UNCHANGED <<wanted, game, recent, saved, predicted, level>>

\* Mutant: the new level starts in the predictive mode of the old one.
PredictedAfterReset_Kept == predicted

\* What reset_intermediate_action_queues does to sPredictedTicks.
PredictedAfterReset == 0

\* reset_action_queues
ResetActionQueues ==
  /\ pc = "reset"
  /\ pc' = "update"
  /\ real' = [q \in Players |-> Reset(real[q])]
  /\ game' = [q \in Players |-> Reset(game[q])]
  /\ recent' = [q \in Players |-> NoFlags]
  /\ predicted' = PredictedAfterReset
  /\ UNCHANGED <<spoke, wanted, allowed, players, ticks, saved, level>>

Update ==
  \/ \E lastOfLevel \in BOOLEAN : RealTick(lastOfLevel)
  \/ EndTicks
  \/ DequeueConfirmed
  \/ PredictTick
  \/ EndPrediction
  \/ LeaveLevel
  \/ EnterLevel
  \/ ResetActionQueues

Next == ProvideFlags \/ ReceivePregame \/ ReceiveFlags \/ Heartbeat \/ Update \/ Quit

Spec == Init /\ [][Next]_vars

\* The game's thread runs again and again, and time goes on.
FairSpec == Spec /\ WF_vars(Update) /\ WF_vars(Heartbeat)

-----------------------------------------------------------------------------
(***************************************************************************)
(* Properties                                                              *)
(***************************************************************************)

\* The word that was confirmed for player q in a tick of the level.
Confirmed(q, tick) == IF q \in Zombies THEN NoFlags ELSE confirmed[q][tick]

\* The players without what was predicted.
RealPlayers == IF predicted > 0 THEN saved ELSE players

InLevel == pc \in {"update", "confirm", "predict"}

\* Prediction leaves no trace: once it is undone, the players have been advanced
\* in every tick with the words that were confirmed for it, the same as those
\* of all other machines, and with nothing else (the out of sync error the
\* comments before enter_predictive_mode and exit_predictive_mode fear).
WorldIsConfirmed ==
  InLevel => RealPlayers = [tick \in 1 .. ticks |-> [q \in Players |-> Confirmed(q, tick)]]

\* The ring buffers lose, double and reorder nothing: what was confirmed is
\* what was played, then what waits in the game's queue, then what waits in
\* the real queue ("blew player's queue" never happens).
NoFlagsLost ==
  InLevel =>
    \A q \in Alive :
      SubSeq(confirmed[q], 1, ticks) \o Contents(game[q]) \o Contents(real[q]) = confirmed[q]

\* "GameQueue should be stocked evenly", and as the speed limit is not used in
\* predictive mode, "there cannot be flags stranded in the GameQueue".
GameQueueStocked ==
  InLevel =>
    /\ \A q \in Players : Count(game[q]) = Count(game[0])
    /\ wanted => \A q \in Players : Count(game[q]) = 0

\* The local player's words that the current prediction is made of.
OwnPredictions == [i \in 1 .. predicted |-> players[ticks + i][Me]]

\* A word of the local player is used once in a prediction, and in its order
\* ("loop while local player has flags we haven't used for prediction").
OwnFlagsPredictedOnce ==
  InLevel => \A i, j \in 1 .. predicted : i < j => OwnPredictions[i] < OwnPredictions[j]

\* What is confirmed for everybody is played, unless the level ends before,
\* however the prediction goes: predictive mode is always left again.
GameCatchesUp ==
  \A tick \in Ticks :
    (InLevel /\ \A q \in Alive : Len(confirmed[q]) >= tick) ~> (ticks >= tick \/ ~ InLevel)

\* No confirmed word is thrown away when the queues are reset, after the spoke
\* has started ("Calling this from entering map would bone us").
NothingDiscarded == pc = "reset" => \A q \in Alive : confirmed[q] = <<>>
=============================================================================
