------------------------------ MODULE Lockstep ------------------------------
(***************************************************************************)
(* What a network game promises its players, whatever the protocol: the    *)
(* action flags of all players are decided once, tick by tick, and every   *)
(* machine that takes part feeds its game with just these, in order.       *)
(*                                                                         *)
(* A player that has left stays out, and all its later flags are NetDead.  *)
(***************************************************************************)
EXTENDS Star, SequencesExt

VARIABLES
  live,     \* the players whose own flags still count
  group,    \* those of them whose machines take part
  stream,   \* for each player, the flags decided so far
  view      \* for each player in the group, what its machine has got of stream

vars == <<live, group, stream, view>>

\* A machine has the start of what was decided, for every player.
Follows(p) == \A q \in Players : IsPrefix(view[p][q], stream[q])

Init ==
  /\ group \subseteq live /\ live \subseteq Players
  /\ stream = [q \in Players |-> <<>>]
  /\ \A p \in group : Follows(p)

\* No player comes back.
SomeLeave == live' \subseteq live /\ group' \subseteq group

\* Flags are appended to the stream, the same ticks for everybody; they are
\* NetDead for the dead, and for nobody else.
SomeDecided ==
  \/ UNCHANGED stream
  \/ \A q \in Players :
       LET old == stream[q]
           new == stream'[q]
       IN  /\ IsPrefix(old, new)
           /\ Len(new) = Len(stream'[LocalPlayer])
           /\ \A i \in Len(old) + 1 .. Len(new) :
                IF new[i] = <<q, NetDead>> THEN q \notin live' ELSE q \in live

\* A machine gets some more of the stream, if anything; nothing is taken back.
SomePlayed ==
  \A p \in group' :
    \/ view'[p] = view[p]
    \/ /\ \A q \in Players : IsPrefix(view[p][q], view'[p][q])
       /\ Follows(p)'

Next == SomeLeave /\ SomeDecided /\ SomePlayed

Spec == Init /\ [][Next]_vars
=============================================================================
