-------------------------------- MODULE Star --------------------------------
(***************************************************************************)
(* What the hub and the spokes of the star network game protocol share     *)
(* (Source_Files/Network/network_star.h).                                  *)
(*                                                                         *)
(* Ticks are counted from the first pregame tick.  A word of action flags  *)
(* is abstracted to the tick its player generated it for; the hub makes up *)
(* MadeUp, and NetDead stands for NET_DEAD_ACTION_FLAG.                    *)
(***************************************************************************)
EXTENDS Integers, FiniteSets

CONSTANTS
  NumPlayers,           \* players of the game, indices 0..NumPlayers-1
  LocalPlayer,          \* the player on the hub's machine (sLocalPlayerIndex)
  MaxTick,              \* bound: ticks below it are played
  RealGameTick          \* sSmallestRealGameTick (kPregameTicks)

Players == 0 .. NumPlayers - 1
Ticks   == 0 .. MaxTick

ASSUME StarConstants ==
  /\ NumPlayers \in Nat \ {0}
  /\ LocalPlayer \in Players
  /\ {MaxTick, RealGameTick} \subseteq Nat

Larger(a, b)  == IF a >= b THEN a ELSE b
Smaller(a, b) == IF a <= b THEN a ELSE b

\* What an element of a flags queue holds besides a tick.
None    == -1
MadeUp  == -2
NetDead == -3
=============================================================================
