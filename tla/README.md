# A TLA+ model of Aleph One's network game

Aleph One plays a network game in lockstep: every machine simulates the whole
world, and the only thing that crosses the network during play is each player's
*action flags*, one 32-bit word per player and tick (30 ticks a second). The
simulation is deterministic, so the game is correct if all machines feed it the
same words in the same order. That is what these modules are about: how players
are gathered, how their words reach everybody, how threads and queues carry
them into the main loop, and how a game ends.

Source files are named relative to `src/Source_Files/`. "The hub" is
`Network/network_star_hub.cpp`, "the spoke" `Network/network_star_spoke.cpp`,
"the ring" `Network/RingGameProtocol.cpp`.

1. [The system](#1-the-system)
2. [The modules](#2-the-modules)
3. [The runs](#3-the-runs)
4. [The proofs](#4-the-proofs)
5. [Disagreements between code and comments](#5-disagreements-between-code-and-comments)
6. [What is left out](#6-what-is-left-out)
7. [The plan](#7-the-plan)

## 1. The system

### Modelled

| part | state | operations | talks to |
| --- | --- | --- | --- |
| **Session set-up** `Network/network.cpp`, `Network/network_dialogs.cpp` | the topology; a state machine per client of the gatherer, and one of each joiner | `NetCheckForNewJoiner`, `NetGatherPlayer`, `NetStart`, `NetDistributeTopology`, `NetUpdateJoinState`, the message handlers | the other side, by message channels |
| **Message channels** `TCPMess/CommunicationsChannel.cpp` | what is enqueued, and whether the connection is still there | `enqueueOutgoingMessage`, `pump`, `dispatchIncomingMessages`, `disconnect` | session set-up |
| **Hub** `Network/network_star_hub.cpp` | per player a queue of flags and one of late flags, its acknowledged tick, net dead tick, address; per tick who is still waited for (`sPlayerDataDisposition`), whose flags are made up (`sPlayerReflectedFlags`), when it was sent | `hub_initialize`, `hub_received_network_packet` (identification, game data), `hub_tick`, `hub_cleanup` | spokes, by UDP; the spoke on its own machine, by direct calls |
| **Spoke** `Network/network_star_spoke.cpp` | flags the hub has not acknowledged (`sOutgoingFlags`), flags not yet confirmed (`sUnconfirmedFlags`), the first tick not received, who is connected or dead from when on | `spoke_initialize`, `spoke_received_network_packet`, `spoke_tick`, `spoke_cleanup` | the hub; the action queues of the game |
| **Star game protocol** `StarGameProtocol.cpp` | which side is local, the adapters to the action queues | `Sync`, `UnSync`, `PacketHandler`, `UpdateUnconfirmedActionFlags` | the game's own thread on one side, hub and spoke on the other |
| **Ring game protocol** `Network/RingGameProtocol.cpp` | one packet that goes round; at each player its neighbours, the last sequence number, what was sent last, whether it is the server | `Sync`, `UnSync`, `PacketHandler`, `NetServerTask`, `NetCheckResendRingPacket` | its two neighbours, by UDP; the action queues |
| **Periodic tasks** `CSeries/mytm_sdl.cpp` | a thread per task with `mKeepRunning`, `mIsRunning`, `mResetTime`; one mutex for all callbacks | `myTMSetup`, `myTMRemove`, `myTMReset`, `myTMCleanup`, `thread_loop` | hub, spoke and ring, which it calls |
| **UDP layer** `Network/network_udp.cpp` | a receiving thread and its flag `sKeepListening` | `NetDDPOpenSocket`, `NetDDPCloseSocket`, `receive_thread_function` | the protocols' packet handlers, under the tasks' mutex |
| **Tick-based queues** `GameWorld/TickBasedCircularQueue.h` | a read and a write tick, contents | `enqueue`, `dequeue`, `peek` | inside hub and spoke; the unconfirmed flags also from the game's thread |
| **Action queues** `Misc/ActionQueues.cpp` | a ring buffer per player | `enqueueActionFlags`, `dequeueActionFlags`, `peekActionFlags` | filled by the spoke, emptied by `update_world` |
| **Main loop and prediction** `GameWorld/marathon2.cpp` | `sPredictedTicks`, the saved players, `GameQueue`, `sMostRecentFlagsForPlayer` | `update_world`, `enter_predictive_mode`, `exit_predictive_mode`, `entering_map`, `leaving_map` | the action queues and the unconfirmed flags |

How a tick gets played with the star protocol: a spoke samples its player's
flags in `spoke_tick` and sends everything the hub has not acknowledged. The hub
files the words in the player's queue; a tick is *complete* when every connected
player has provided it. Complete ticks go to everybody in `send_packets`, again
and again until acknowledged, and leave the hub's queues when everybody has. The
spoke takes the ticks of a packet in order, puts one word per player into the
action queues, and acknowledges. A player that is silent for too long, or a whole
queue behind, is dropped from the first incomplete tick on; from there everybody
plays `NET_DEAD_ACTION_FLAG` for it. With *bandwidth reduction* the hub does not
wait for a minority that lags: it makes their flags up, and *reflects* the result
to the laggard itself, whose own machine must play what the others play. A packet
does not say whose words it contains, and it does not contain the receiver's own
words unless some were made up. Both sides work out from what they believe about
connected, dead and reflected players which word is whose.

With the older ring protocol one packet goes round. Whoever gets it plays
everybody's words in it, replaces its own and sends it on, and resends it until its
neighbour has acknowledged. A neighbour that has not done so after 50 retries, some two seconds, is dropped from
the ring, also if it was only slow; if it was the server, the player that dropped it becomes the server.

The main loop plays the words that are there for everybody. While it waits for
more it *predicts*: it advances the players, but nothing else, by the local
player's own words that are not confirmed yet, and undoes that before the next real tick.

What makes this hard: UDP loses, repeats and reorders; four threads are involved
(the hub's timer, the spoke's timer, the receiver, the game), and the flags that stop
them are shared without synchronisation; hub and spoke give up on each other
independently; several players can be dropped in one tick; flags that come after
they were made up have to be fitted in; joiners come and go while the gatherer
iterates over them.

What makes it correct: all machines start with the same players, numbered alike; they
get the same words in the same order; the hub never loses a word somebody still
needs, and never waits for somebody who cannot answer; no word is played in
another tick than its own; made-up flags are reflected, only for a minority, never for the
hub's player; a prediction leaves no trace; no thread runs on data that is gone;
the game goes on, and ending it ends.

### Not modelled

| part | state and operations | why not, and what would make it correct |
| --- | --- | --- |
| **Connection pool** `Network/ConnectPool.cpp` | slots with a connecting thread each | a single flag polled by one user; correct if the result is seen whole. Session takes a connection that is there |
| **Service discovery** `Network/SSLP_limited.cpp` | found services with time-outs, hints and their retries | offers addresses; the game does not depend on it. A service is found while it is offered, and forgotten after |
| **Metaserver client** `Network/Metaserver/` | a login and a room dialogue | the server is not in the repository |
| **Network audio** `Network/network_speaker_*.cpp` | queues between network and audio callback | I/O; no effect on the flags |
| **Recording** `Misc/vbl.cpp` | run-length chunks of flags, heads and tails | recording and replaying should be inverse; sequential, see section 7 |
| **World simulation** `GameWorld/` | monsters, weapons, platforms, physics, map | geometry, deterministic in its inputs by design; the model counts its ticks |
| **Interface, files, sound, rendering, Lua, XML, libraries** | | outside the protocol; what the interface does to the network is in the modules above |

The hazards at their lines, with the properties that are aimed at them, are listed in
`PROJECT.json`; so is every component with what its modules leave out. All but a small part
of the repository's lines are in the second table: the modules model
the network game and not the engine, and section 6 says what of the network game is missing.

## 2. The modules

```
Star                what hub and spoke share: players, ticks, marks in a queue
 |-- Lockstep       abstract: what a network game promises, whatever the protocol
 |-- StarHub        the hub and everything a spoke might send it
 |    `-- StarHubProofs
 |-- StarSpoke      one spoke (operators only, no actions)
      StarGame      EXTENDS StarHub, StarSpoke: hub, network, spokes; implements Lockstep
       `-- StarPacketsProofs     EXTENDS StarHubProofs, too: packets and their readers
            `-- StarGameProofs   hub, spokes and packets together; the refinement

TokenRing           all players of a ring and their network
 `-- TokenRingProofs

PeriodicTasks       tasks, their threads and the mutex
 `-- GameThreads    EXTENDS PeriodicTasks: main thread and receiver of one machine, any protocol
      `-- GameThreadsProofs

ActionQueues        the ring buffer of one player (operators only)
 |-- ActionQueuesProofs
 `-- WorldUpdate    EXTENDS ActionQueues: the spoke's thread and update_world
      `-- WorldUpdateProofs   EXTENDS ActionQueuesProofs, too

Session             gatherer, joiners and the channels between them
 `-- SessionProofs
```

The modules meet at a few places. What `Session` promises (`StartedAlike`: everybody has the
same players) is what `StarGame` and `TokenRing` start from. What `StarGame` puts into
`s.queue` is what `ReceiveFlags` of `WorldUpdate` puts into the real queues, there with
the ring buffers and the thread that empties them. `GameThreads` justifies that handlers and ticks
exclude each other, which the protocol modules take for granted, and that their data is there.
Configurations of the runs are the `.cfg` files of the same names; all constants are plain
values, so no module of definitions for TLC is needed.

### Words, ticks, clocks

A word of action flags is abstracted to the tick it was generated for (with its
player, once it reaches a spoke), or to `MadeUp`, or to `NetDead`; in the ring to its number
among its player's words. That is what the
properties have to tell apart: a word in the wrong tick or for the wrong player.
Ticks count from the first pregame tick; `RealGameTick` is the first whose flags
go to the game (`kPregameTicks`).

The code's clocks are compared only with each other, so the model has ages
instead: `h.silence[p]` is `sNetworkTicker - mLastNetworkTickHeard`, capped one above
the largest limit it is compared with. Elsewhere a time-out is a step that may be taken any time,
or when what is waited for cannot come any more.

### StarHub

The statics of the C++ file are the fields of one record, `hub`, each with its
name in a comment of `IsHub`. The functions of the file are operators from hub
state to hub state, so that they compose as the calls do:
`MakePlayerNetDead` applies `PlayerAcknowledged` to the result of
`PlayerProvided`, as `make_player_netdead` calls the one after the other.

| action | code |
| --- | --- |
| `HubReceivedIdentification` | `hub_received_identification_packet` |
| `HubReceivedGameData` | `hub_received_network_packet` and `hub_received_game_data_packet_v1`, with the acknowledgement, the redundant, late and new parts of the flags, and a `send_packets` if a tick became complete |
| `BeginHubTick`, `ScanPlayer`, `FinishHubTick` | `hub_tick`: the loop over the players, one iteration per step, then making up flags and sending. The mutex keeps handlers out until the last step |
| `HubCleanup`, `HubStops` | `hub_cleanup`: its signal, and the end of its wait |
| `Stopped` | nothing; the hub has stopped |

Assertions are recorded: `h.failed` collects the names of those that did not
hold. The release build goes on after them, and so does the model. (A queue
that is overrun, or read out of range, has no defined content; the runs show
that this does not happen where an invariant says so.)

The packets offered to `HubReceivedGameData` are all those that meet three
assumptions: the sender has heard from the hub, acknowledges no more than was
sent, and starts its flags no later than the hub acknowledged to it. They may be late,
repeated or never come. `StarGame` checks these assumptions against real spokes
(`HubAssumptionsMet`).

### StarSpoke

Again the statics are the fields of a record and the functions are operators.
`s.queue[q]` is everything that was ever put into q's action queue; the room left
in it is a parameter, `room`, because it depends on the game. How many flags a tick
provides (`n`) is a free choice up to `MaxProvided`: in the code it depends on the
timing adjustment, which is not modelled, so the model allows whatever it may ask for
up to that bound.

`FlagsReceived` treats a packet as a whole, where the code reads it word by word:
`Slots` are the pairs of tick and player it expects a word for, in order. If the
packet ends in the middle of a tick the code logs "OOS is likely"; the model
records `outOfSync`.

### StarGame

Hub, network and the spokes of the players in `Observed`. `toHub[p]` and `toSpoke[p]`
are the sets of packets that may still arrive: delivering does not remove one, so a
packet may come again; the set has no order; and a packet that never arrives is lost.
`NetworkCapacity` bounds each set; what exceeds it is lost, any choice of it.

A hub packet to its own machine, and a packet of the spoke there, is handled by the
other right after the handler that sent it, as `check_send_packet_to_spoke` and
`check_send_packet_to_hub` do. A whole `hub_tick` is one step here.

A player neither observed nor absent is played by `HubReceivesOther`: it provides the next
word or stops to. That is enough to have a third player that is complete,
lagging or dropped at any moment without its whole state.

| action | code |
| --- | --- |
| `SpokeTick` | `spoke_tick`, and for the local player the hub's handling of its packet |
| `HubTick` | `hub_tick`, and the local spoke's handling of the packet |
| `HubReceives`, `SpokeReceives` | `StarGameProtocol::PacketHandler` |
| `UpdateUnconfirmed` | `UpdateUnconfirmedActionFlags`, from the game's thread |
| `SpokeCleanup` | a remote player leaves (`spoke_cleanup`, with its last packet) |
| `HubIdentifies`, `HubReceivesOther` | the packets of spokes as above |

### Lockstep

The abstract specification knows no hub, queue or packet. Each player has a `stream` of
words decided so far; a step may append to all streams, alike in length; the words of
players that left are `NetDead`, and of no others; nobody comes back; and each machine
in the `group` has, for every player, a prefix of the stream that only grows.
`StarGame!InLockstep` instantiates it: the stream is what the hub's queues hold
below the first incomplete tick, cut off at the net dead tick; the view is the content of the
action queues. A machine is in the group as long as it is connected, listening, and
not the last one.

### TokenRing

`status[p]` is the `NetStatus` of a player with its network state and `ringFrame`, the packet it
would resend; `net` is everything that was ever sent, to be delivered any number of times, in any order,
or never. So a resend is no action of its own. `made` and `played` are history: the words each player has
contributed, and what it has put on its action queues.

| action | code |
| --- | --- |
| `Sync`, `SyncTimesOut`, `UnSyncBegins`, `UnSyncEnds`, `UnSyncTimesOut` | `RingGameProtocol::Sync`, `UnSync` |
| `ReceiveAck` | `PacketHandler`, acknowledgement |
| `ReceiveLate`, `ReceiveTooLate` | the same for packets it has had, or that come when it has left the ring |
| `ReceiveSync`, `ReceiveTime`, `ReceiveFlags`, `ReceiveAtServer`, `ReceiveAndWait`, `ReceiveUnsync`, `IgnoreUnsync` | `NetProcessIncomingBuffer` by type of packet, and the handler it calls |
| `ServerTaskEarly`, `ServerTaskForwards` | `NetServerTask`, before or after the packet has come back |
| `DropUpring`, `GiveUp` | `NetCheckResendRingPacket` after `kRETRIES`, in the game or on the way out |
| `Crash` | the machine of a player in `MayCrash` is gone |

The code drops a neighbour on nothing but 50 retries (`kRETRIES`), and so does the model: `Unanswered` is that what was sent
last is not acknowledged. The neighbour may have crashed; it may be suspended, or cut off for two seconds, and
go on afterwards, as the comment at lines 1093-1102 has it; or it may be the server, which has the packet and keeps it unacknowledged.
`Hopeless` says that there was reason to drop it: it is out of the game, takes no more packets, or ignores the "unsync".
No step depends on that; it decides what is written down in `hasty`, the players that were dropped or given up
and could still answer, which some properties speak of, and what fairness asks for. `Dropped` are those a neighbour has dropped, for whatever
reason.

`Moved` is what the two `memmove`s do to the words of the players after the one whose words are taken out or put in. The
count of a player that is marked dead already is -1 (`NET_DEAD_ACTION_FLAG_COUNT`), and they then come one place
too late (`OneLate`); the word that is read in the first place, which is not theirs, is `Alien`.

### PeriodicTasks, GameThreads

`task[t]` is a task block: the three flags that its users and its thread share, and where its thread is.
Every access of `thread_loop` to a shared flag is a step, because nothing protects them.
`lateCalls` and `resetDue` are history. The steps of the thread are `LoopTest`, `Wake`,
`DoubleCheck`, `CallBegins`, `CallEnds`, `ThreadEnds`; the operators `myXTMSetup`, `myTMRemove`, `myTMReset`
and `Swept`/`Kept` (one turn of the loop of `myTMCleanup(true)`) are what its users do.

`GameThreads` is one machine: the program's own thread (`main`), the receiver of packets, and the tasks of
the protocol that is played, chosen at the start among `Setups`. What packets contain is left out;
data is there or not (`hubData`, `spokeData`).

| action | code |
| --- | --- |
| `NetEnter`, `SyncHub`, `SyncSpoke`, `SyncRing` | `NetEnter` with `NetDDPOpenSocket`; `Sync` of both protocols |
| `SocketsChecked`, `Received`, `HandlerBegins`, `LastAcknowledged`, `RingPacket`, `HandlerEnds` | `receive_thread_function` and the handler it calls |
| `TickBegins`, `LastDropped` | `hub_tick`, `spoke_tick` and the ring's tasks, as far as threads are concerned |
| `SpokeCleanup`, `SpokeCleared`, `HubCheck`, `HubStopped`, `HubCleared`, `UnSyncRing` | `UnSync`: `spoke_cleanup`, `hub_cleanup(true, ...)`; the ring |
| `NetExit`, `CloseSocket`, `SocketClosed`, `Sweep` | `NetExit`: removing the ring's tasks, `myTMCleanup(true)`, `NetDDPCloseSocket` |

### ActionQueues, WorldUpdate

`ActionQueues` translates the ring buffer with its indices and their modulus. There is no test for a full queue
in the code and none in `Enqueue`.

`WorldUpdate` has the spoke's thread (`ProvideFlags`, `ReceivePregame`, `ReceiveFlags`, a player at a time as
the code enqueues them), the clock (`Heartbeat`), and the game's thread with its place in `update_world`, `pc`:

| action | code |
| --- | --- |
| `RealTick`, `EndTicks` | an iteration of `update_world`'s first loop, with the overlay queue, the speed limit and leaving predictive mode |
| `DequeueConfirmed` | `NetUpdateUnconfirmedActionFlags` |
| `PredictTick`, `EndPrediction` | an iteration of its second loop, with `enter_predictive_mode` |
| `Quit`, `LeaveLevel`, `EnterLevel`, `ResetActionQueues` | `leaving_map` with `NetUnSync`; `NetSync` and `entering_map` with `reset_action_queues` |

The state of the players is the list of the words they were advanced with, which makes "the same state" a
comparison of lists. Other constants are in the code: queues of 1024 (`ACTION_QUEUE_BUFFER_DIAMETER`) and
unconfirmed flags of `kDefaultOutgoingFlagsQueueSize`.

`ReadyInTime` is an assumption about time. The spoke starts in `NetSync`; `entering_map` resets the action
queues some time later. What protects the words in between are the pregame ticks,
`kPregameTicks` of them (three seconds), whose words are not enqueued. With the assumption, the last
pregame tick is not over before the game is ready.

### Session

`client[c]` is the gatherer's `Client` with its channel, `joiner[j]` the other side; joiners are numbered by
`stream_id`, and one that comes back is another one. `NetCheckForNewJoiner` visits a client per step (`visit`),
because what a client's message or its end does to the topology happens in the middle of that loop.

| action | code |
| --- | --- |
| `CheckForNewJoiner`, `VisitConnected`, `VisitLost`, `Show` | `NetCheckForNewJoiner`: accept, pump and dispatch, `Client::drop` and erase, show |
| `JoinerInfo`, `CapabilitiesReply`, `AcceptJoin` (in `Pump`) | the handlers of `Client` |
| `GatherPlayer`, `StartGame`, `CancelGather` | the gather dialog: `NetGatherPlayer`, `NetDoneGathering` and `NetStart`, `NetCancelGather` and `NetExit` |
| `DistributeGameData`, `ProcessMessagesInGame` | `NetDistributeGameDataToAllPlayers`, `NetProcessMessagesInGame` |
| `Connect`, `Receive`, `LoseConnection`, `Leave` | the joiner: `NetGameJoin`, `NetUpdateJoinState`, `NetReceiveGameData` and the handlers |

How the gatherer's program can end otherwise is part of its state: a client that is looked up and not found
(`"no_client"`), an assertion (`"aborted"`), a null socket (`"crashed"`). `Client`'s constructor does not set
its state: `Uninitialized` is what it may be. Erasing from a map under the loop's iterator is undefined;
`DropAndErase` goes on, ends the loop or crashes. No property forbids that crash, which the code does not
exclude either; the properties are about what happens when it goes on.

## 3. The runs

All passing runs explore their whole state space. State counts are of distinct states.

| run | states | instance | shows |
| --- | --- | --- | --- |
| `hub_safety` | 341,945 | 3 players, 2 ticks, queues of 2, bandwidth reduction | the hub's invariants, under any packets, and that its shutdown ends |
| `game_spokes` | 261,974 | 2 spokes, an absent third player, a pregame tick, packets that overtake each other, a game that may leave its word unread | no assertion of a spoke fails, packets are read in step, `HubAssumptionsMet`, the refinement of Lockstep |
| `game_reduced` | 60,272 | 2 spokes and a third player that may be dropped, bandwidth reduction, packets with two words | the same with made-up flags |
| `ring` | 147,195 | 3 players, 2 words each; the server may crash, and one player may be dropped without need | the ring from `Sync` to `UnSync`; one server whoever is dropped, the rest until somebody is dropped without need |
| `threads` | 11,886 | 4 tasks, all three kinds of machine, any number of games | threads and data, shutdown |
| `world` | 183,650 | 2 players and a zombie, 2 levels of 3 ticks, queues of 3 | main loop, prediction, queues |
| `session` | 382,820 | 3 joiners, one may leave, one may be ungatherable | set-up from connecting to playing |
| `hub_two_deaths`, `game_early_quit`, `hub_teardown`, `ring_early_ack`, `session_late_accept` | stop at the error | | section 5 |

`CHECK_DEADLOCK FALSE` is in the ring and session runs only: a ring that everybody has left, and a
set-up that has become a game, do stop.

### Properties

*Of the hub.* `WaitingSetsExact`: the disposition bits are exactly the
connected players that have not acknowledged a complete tick, or not provided an
incomplete one, and no queued tick waits for nobody. This is what the drop
of a player can get wrong, and it decides whether the game goes on.
`SendableFlagsQueued`: whatever `send_packets` may still have to read for
a connected player is in the queues. `FlagsInTheirTick`: no
late, repeated or partly redundant packet shifts a stream. `MadeUpFlagsReflected`: the reflected bits
name exactly the made-up words. `NetDeadTickFinal`: a drop is for good and at
a tick nobody was sent yet. `OnlyMinorityMadeUp`: only while most of the
connected players have provided theirs. `AssertionsHold`: the assertions
of the file, but for one that fails (section 5) and the late queue, of which the
code says it should be checked for capacity and is not. `GracefulCleanupEnds`: the wait for the last
acknowledgements ends.

*Of the game.* `SpokesInStep`: no assertion of a spoke fails, in its queues included (no word is dequeued that was never
provided, `outgoingQueued`), and none loses step with a packet. Made-up flags, with the acknowledgements ahead of a
spoke's own flags and the reflected packets that they bring, are in `game_reduced` only; `game_spokes` has no bandwidth reduction. `HubAssumptionsMet`: see StarHub above. `InLockstep`: the refinement.

*Of the ring.* `OneServer`: of the players that take packets and that nobody has dropped, at most one is server, whoever
crashes, and whoever is dropped, for a reason or because it was slow; those that were dropped and go on are not counted, and one of them may well
take itself for the server (section 5). `AckMeansReceived` and `RingTypeOK` hold whoever is dropped, too. The three others are
about the ring until somebody is dropped that could still answer (`hasty`), after which they do not hold (section 5).
`StreamsAgree` is two: all machines still there play the same words in the same order, those of a
player that crashed in the middle of a lap included (`SameStreams`); and what is played of a player that is in the ring is the
beginning of what it made, with nothing twice and nothing left out, also when a packet comes again or the ring is
repaired (`WordsInOrder`). `AckMeansReceived`: who stops resending has a
neighbour that has the packet.
`NothingLeftBehind`: who leaves in good order has played all words of everybody, in the
order they were made. `RingTypeOK` says of words and
packets that nobody sends or plays a word that its player has not made, but for `Alien`, and that no packet holds more of them than a lap asks for. `RingGoesOn`: whatever is
lost or repeated, the game gets to its end, unless a player took the packet with it, or one was dropped that could still answer.

*Of the threads.* `OneLateCall`, `DataOutlivesTicks`: a task that was removed may run once more, but never on data that is
cleared. `RemovedTasksGone`: no thread is left after leaving the network. `ResetFound`: a reset is found by
the thread. (One that falls between the function's decision to end and the clearing of `mIsRunning` is lost;
`myTMReset` says so itself, and the property leaves it out.) `ShutdownEnds`: nobody waits for a thread that waits for him.

*Of the main loop.* `WorldIsConfirmed`: without the prediction, the players were advanced with exactly the
confirmed words. `NoFlagsLost`: played, waiting in the game's queue and waiting in the real queue make up what was confirmed.
`OwnFlagsPredictedOnce`: a prediction uses each unconfirmed word once, in order. `GameQueueStocked`: the game's
queues are stocked evenly, and nothing is stranded in them when prediction begins. `NothingDiscarded`: resetting the queues
throws nothing away. `GameCatchesUp`: what is confirmed for everybody is played.

*Of the session.* `MembersAreClients`: whoever is in the topology is a live client, once, with an identifier of its own.
`EverybodyUpToDate`: what a joiner knows when it has read what is on its way is the gatherer's topology.
`StartedAlike`: who starts is in the game, with the players the gatherer has. `LeaversDropped`, `StartReachesAll`: a leaver
is taken out, and a start reaches everybody.

The type invariants are `TypeOK`, `GameTypeOK`, `RingTypeOK`, `ThreadsTypeOK`, `WorldTypeOK` and `SessionTypeOK`.

Each property has a mutant in `PROJECT.json`: a definition with a plausible mistake
(`..._LateToo`, `..._Half`, ...), placed before the one it spoils and used by no action, with which the
property fails.

### Bounds, and why they are enough

*Star.*

- *Two ticks and queues of two* (`MaxTick`, `QueueSize`; three in `game_spokes`): one tick can be complete
  and unacknowledged, the next incomplete and partly provided; the queues fill up and
  empty. Tick numbers only enter comparisons and differences, never a modulus,
  because the queues are indexed by tick. Past `MaxTick` no more flags come in and
  the hub goes on ticking, sending and dropping.
- *Three players*: one that lags, one that does not, and the hub's own, which is
  the least for a majority, and enough for two drops in one `hub_tick`.
- *Limits of 1* for silence, periods and windows: both sides of each comparison are reached.
- *SpokeWindow 2* in the hub run: a packet can have redundant, late and new flags in any two of the three parts.
- *NetworkCapacity* 2 in `game_spokes`, which is what overtaking takes, and 1 in `game_reduced`, with which a packet
  can still be repeated after it was handled, arrive late, or be lost.
- *turn*: the timers of the hub and of the spoke on its machine have the same period, so
  the model lets them alternate. Remote spokes tick at any time.
- *OutgoingQueueSize* 1 in `game_spokes`: a second tick is provided when the first is acknowledged; 2 in `game_reduced`, where
  one packet repeats a word and has a new one.
- *MostUnread* (1 in `game_spokes`, 0 in `game_reduced`): the game leaves at most this many words in an action queue; with 0 it has
  taken the confirmed flags as soon as they are there (`Drained`).
- *ObservedStay*, a constraint of `game_reduced`: what happens until an observed
  machine and the hub part. Lockstep says nothing of a machine after that;
  `game_spokes` goes on after it.
- *FullUpdate*, *RecentFlags*: ticks in one packet with bandwidth reduction, 1, so that
  both kinds of update are partial.

*Ring.* Three players are the least that leaves a ring when one is dropped; two words and at most one a lap (`MaxWords`,
`MaxRequired`) give a lap that starts, one in the middle, and the two laps of the end. The one that may crash is the server,
which needs the crowning as well. `MaxHasty` 1: one player, any, is dropped or given up without need, before or after the server has crashed, so that a
server that was dropped answers again beside the crowned one, and goes on or crashes after that. `QuitSplit` FALSE: a game in
which somebody was dropped without need is not left, which would add nothing to what such a game can violate but many states. The proofs
are for all values of both. A player that is left alone plays without packets; its laps are left out.

*Threads.* No bound but that a run's games are of one kind, that a task block is gone before there is another of
its name, and that a machine is one of three kinds.

*World.* Queues of 3 hold two words, so that two are waiting while a third comes; three ticks and two unconfirmed flags
allow a prediction of two, a confirmation of some of them and a prediction from there; two levels for everything that is to be
reset between them. A zombie takes the place the code gives it in the loops.

*Session.* Three joiners, of which one leaves at any moment, one is perhaps not gatherable, and one stays: positions in
the topology shift, and the list of the dialog has holes.

### Fairness

- *Hub* (`Fairness` in StarHub): the timer thread goes
  on (`BeginHubTick`; the loop of a tick ends), `hub_cleanup` polls, and, for each remote
  player the hub can still route packets of, again and again one arrives that acknowledges what
  was sent and provides the next word, *or* the player is eventually
  not routed any more. The code justifies it: a spoke repeats everything unacknowledged
  at least every `mRecoverySendPeriod`, and one that stops is dropped for silence, by the timer.
  It is *not* assumed that packets arrive at any time, that no
  player is dropped, or that the dropped ones say goodbye.
  It is written with `[]<>` instead of `WF`, to the same effect, because TLC evaluates
  `ENABLED` of these actions very slowly.
- *Ring*: weak fairness of "somebody gets on". What a player sends it sends again every so often until it is
  acknowledged, so some of it comes through, and the tasks run. One disjunction is enough, as no two of these
  steps undo each other. Packets of a player that is gone need not arrive.
A neighbour need only be dropped if it is `Hopeless`, as 50 retries are sure to be used up only then; and nothing is asked for once somebody
was dropped without need, when two parts of the ring may drop each other's packets.
- *Threads*: weak fairness of every thread, and strong fairness of taking the mutex, since those who hold it let go
  again and again and sleep in between. `LastDropped` (the hub hears or drops the last player) is what
  `GracefulCleanupEnds` shows.
- *World*: weak fairness of the game's thread and of the clock. The spoke's thread and the user owe nothing.
- *Session*: weak fairness of the gatherer's dialog and of each joiner's, which are called again and again; nothing about
  what users do.

## 4. The proofs

### The hub

`StarHubProofs` proves for every number of players and ticks, every queue size, window,
limit and period, with and without bandwidth reduction, and for any packets that meet StarHub's
assumptions:

| theorem | property |
| --- | --- |
| `HubConsistent` | the inductive invariant below |
| `HubTypeOK` | `TypeOK` |
| `HubAssertionsHold` | `AssertionsHold` |
| `HubWaitingSetsExact` | `WaitingSetsExact` |
| `HubSendableFlagsQueued` | `SendableFlagsQueued` |
| `HubFlagsInTheirTick` | `FlagsInTheirTick` |

From `StarConstants` (the local player is a player, bounds are natural numbers)
and `HubConstants` (likewise; queue size and send period are positive) and nothing else.

*The invariant.* None of the properties is inductive alone. Whether the assertion in
`player_acknowledged_up_to_tick` holds depends on the waiting sets being exact; these
depend on the order of the cursors; that nothing overruns depends on the queues being
aligned; and that the sender is connected on who is in the address map. `Consistent(h)` has them together:

- `Ordered`: read <= acknowledged <= incomplete <= flags provided <= write for connected
  players, write - read <= queue size, each flags queue read up to the common read tick,
  late queues within the flags queues, net dead ticks within the flags;
- `Waiting`: the waiting sets, and that with nobody connected nothing is incomplete;
- `Routed`: whoever has been sent something and is in the address map is connected;
- `Filled` and `Asserted`: `FlagsInTheirTick` and `AssertionsHold`.

*The argument.* One lemma per function of the C++ file: from a state in which it is called to
what its caller relies on. For most that is "`Consistent` to `Consistent`".
Two functions are also called by `make_player_netdead` in the middle of its own update,
where the waiting sets still contain the player that is not connected any more, and their
lemmas therefore start from less: `ReadyToAcknowledge` and, for `PlayerProvided`,
a description of its result. One fact carries the rest: the ticks an
acknowledgement empties, and the ticks that provided flags complete, are
initial segments (`InitialSegment`, by well-founded induction on numbers), because a
player that has acknowledged a tick has acknowledged all before it. `NextConsistent` puts
the lemmas together, one step per action.

On top of it, what the hub does with the words it makes up and the players it drops:

| theorem | property |
| --- | --- |
| `HubMadeUpFlagsReflected` | `MadeUpFlagsReflected` |
| `HubNetDeadTickFinal` | `NetDeadTickFinal` |
| `HubOnlyMinorityMadeUp` | `OnlyMinorityMadeUp` |

Its invariant, `FlagsInv`, is `Reflected` (what is made up is reflected, and from the first incomplete
tick on nothing is made up or reflected: without this a tick could come to be complete with a stale mark) and `Undead` (a connected player has
no net dead tick). Most functions leave the three things alone, which the relations `SamePlayers`,
`SameMadeUp` and `Harmless` say one function at a time; two lemmas are left that say something, for
`make_player_netdead` and `make_up_flags_for_first_incomplete_tick`. That a player is dropped from a tick nobody has
been sent yet, and that ticks are emptied in a row, comes from `HubConsistent`.

### The game of hub and spokes

`StarGameProofs`, with the lemmas of `StarPacketsProofs`, proves for every number of players, of modelled spokes and
of absent players, every size of queues and network, any periods and time-outs, with and without bandwidth reduction and
prediction, and whatever is lost, repeated or overtaken:

| theorem | property |
| --- | --- |
| `GameInvariant` | the inductive invariant below |
| `GameTypes` | `GameTypeOK` |
| `SpokesStayInStep` | `SpokesInStep` |
| `SpokesKeepAssumptions` | `HubAssumptionsMet` |
| `MachinesInLockstep` | `InLockstep`, the refinement of Lockstep |

*The hypothesis.* All five are about `GameSpec /\ []Undisturbed`. The hub is undisturbed as long as it has not
processed a packet of a player it had dropped (`SenderConnected`, which the code asserts and does not ensure: section 5),
and has not dropped its own player. What they say holds of every game up to the moment it is disturbed, for such a start of a
behaviour can go on with stuttering steps. What comes after is model-checked: in `game_spokes` there is no
such hypothesis. Nothing else is assumed but the constants' types: players may be dropped at any moment, the spokes may give up
and leave at any moment, flags are made up.

*The invariant*, `GameInv`, says of every packet under way what it means to the one it is for.

- `HubOK`: the hub's own two invariants, and that a dead player's net dead tick is not after the first incomplete one.
- `SpokeOK`: the spoke's cursors are in order (`Cursors`) and behind the hub's (`Behind`: what it has received was sent, what
  it takes for acknowledged the hub has, what the hub has is made up or was provided);
  it takes for dead only who is, from the right tick on, and everybody who died before what it has received (`KnowsDead`); and its queues
  hold just what the hub has decided (`InOrder`), unless it is the last one there and on the hub's machine (`PlaysAlone`).
- `ToHubOK`: a packet to the hub has nothing the spoke does not have by now, and starts no later than the hub's flags end.
- `PacketOK`: a packet of the hub covers some ticks that were sent while the receiver was in the game
  (`Covers`), has each word at the place that the number of words due before it gives (`WordsInPlace`), and tells of every
  death before its last tick that the receiver does not know of (`DeathsTold`).

*The argument.* That hub and spoke agree on whose words are in a packet is a fact about counting: the hub enumerates pairs
of tick and player (`Nth`), the spoke reads player by player and tick by tick, and both find a word at the position
`Cardinality` of the pairs before it (`Position`, `HubWords`, `WordReadIs`). `SpokeReceivedOK` shows
that it ends with the queues as the hub decided them, for any packet that is `PacketOK`, old ones
included. `Advances` is what the hub may do to its state between two packets, which leaves everything already decided
as it is; each function of the hub is shown to do no more, so that what spokes
and packets under way rely on stays true (`AdvancesGameOK`). The refinement needs one fact more about a step: that no
machine goes back (`GameGoesOn`). Then the stream of Lockstep is extended (`StreamGoesOn`), and what a machine has of it too (`QueuesGoOn`).

The inductive invariant was checked with TLC on the instance of `game_spokes` before it was proved.

### The action queues and the main loop

`ActionQueuesProofs` has the ring buffer on its own, for every size and whatever the indices are:
`EnqueueAppends` (where there is capacity, the contents get the word at their end), `DequeueTakesFirst`,
and `EnqueueBlows` (in a full queue one word more loses all, which is why the spoke must test first).
`WorldUpdateProofs` rests on them and proves, for every number of players and zombies, every size of the
queues, any length and number of levels, with and without prediction:

| theorem | property |
| --- | --- |
| `WorldConfirmed` | `WorldIsConfirmed` |
| `FlagsKept` | `NoFlagsLost` |
| `EntryDiscardsNothing` | `NothingDiscarded` |
| `GameQueueEven` | `GameQueueStocked` |
| `FlagsPredictedOnce` | `OwnFlagsPredictedOnce` |
| `WorldTyped` | `WorldTypeOK` |

*The invariant.* `WorldInv` relates the words in the two ring buffers of a player to the words
that were confirmed, index by index (`Balanced`); says that the game's queues hold one word each or none (`Even`); that the players
who have yet to get their word of a tick have room for it (`RoomInv`: the spoke tests once a tick, for all players,
and between its test and the last word the game's thread only takes words out); that without the prediction the players are what the
confirmed words make of them (`PlayersInv`); and that nothing has been confirmed until the queues are reset (`ResetInv`).
`Assumptions`, `ReadyInTime /\ PregameTicks > 0`, are needed for the last part alone: otherwise a word may be
confirmed and then thrown away.
Two further invariants are proved on top of it: `NothingStranded` (with prediction the game's queues
are empty between ticks) for `GameQueueEven`, and `PredictionInv` (what was predicted lies before the next word
to be predicted with) for `FlagsPredictedOnce`. `WorldTyped` needs an invariant of its own, `Typed`, which adds that the spoke enqueues
in rounds, one word for each player, and has taken as many of its own words for confirmed as came back (`Rounded`): only so does no tick
exceed the last one of the level.

### The session

`SessionProofs` proves for any number of joiners, in the topology or not, that come, accept and leave at any moment:

| theorem | property |
| --- | --- |
| `SessionTyped` | `SessionTypeOK` |
| `TopologyIsClients` | `MembersAreClients` |
| `GameStartedAlike` | `StartedAlike` |
| `EverybodyIsTold` | `EverybodyUpToDate` |

They have one hypothesis, `NewClients`: the state that `Client`'s constructor leaves uninitialized is `connecting`, `ungatherable`
or `disconnect`. By chance it could be any other value, and that case nothing here covers. It is stronger than need be:
a joiner's first message is its joiner information, which sets the state, so that of the values left out
only `connected_but_not_yet_shown`, with which a client is listed before it has said anything, would be another case than `connecting`.

*The invariant.* `SessionInv` has to say what is still on its way (`OnWay`): an identifier is given to one
joiner, be it that the joiner has it or that the message that gives it is still underway (`IdsInv`); what the gatherer will hear accepted
is the identifier that joiner has (`AcceptInv`); those in the topology have the identifiers they accepted (`PlayersInv`);
a client begins anew only by the first message of its joiner (`BeginsInv`: otherwise a joiner in
the topology could become one that is not); and a topology that starts the game, handled or underway, is the gatherer's
(`StartInv`). *The argument.* One lemma per action of the gatherer's loop and its user. What a message does to a client is
in `Handled`, so that `PumpInv` is proved once for both callers of `pump`; all steps of a joiner are
instances of `Stepped`. That `Client::drop` takes out the right player, and only that one, is
`RemovedValue`; that sorting adds or doubles nobody is `SortedValue`.
`ToldInv`, on top of it, is about all that is on its way to a joiner: the last topology among it, or the one the joiner has if there is none,
is the gatherer's, and no topology comes after the start of the game.

### The threads

`GameThreadsProofs` proves, for each choice of `Setups`:

| theorem | property |
| --- | --- |
| `ThreadsInvariant` | the inductive invariant below |
| `ThreadsTypes` | `ThreadsTypeOK` |
| `RemovedIsCalledOnce` | `OneLateCall` |
| `TicksHaveData` | `DataOutlivesTicks` |
| `NothingRunsOn` | `RemovedTasksGone` |

The tasks are the four of the code and the state space is finite, so the run `threads` covers these properties as
well; what the proof adds is the reason. *The invariant*, `ThreadsInv`: what `mytm_sdl.cpp` keeps true of a task block whoever uses it
(`BlocksOK`: its flags fit the place of its thread, a block that was not removed has no late call, nor has one whose thread
is between the loop's test and the mutex; the vector holds each block once); who has the mutex (`MutexOK`); which blocks there are and which were removed at each
place of the program's own thread (`Phases`); and that the blocks before the cursor of `myTMCleanup` are those that stay
(`Passed`), so that nothing that was removed is left when its loop ends, although a packet may add a block meanwhile. A
spoke's packet is handled only while `sSpokeActive`, which `spoke_cleanup` clears with the mutex; the hub's end has no such
step, which is the disagreement that `hub_teardown` shows.

### The ring

`TokenRingProofs` proves for any number of players, of which any may crash or be dropped at any moment, and whatever
the network loses, repeats, delays and reorders (the last column says where more is assumed):

| theorem | property | as long as |
| --- | --- | --- |
| `RingInvariant` | the inductive invariant below | |
| `CrownsOne` | `OneServer` | |
| `AcksAreTrue` | `AckMeansReceived` | |
| `RingTypes` | `RingTypeOK` | |
| `StreamsStayAlike` | `SameStreams` | `OnlyOneOut` |
| `OrderInvariant` | the inductive invariant of a game in order | `AllHere` |
| `NothingLost` | `NothingLeftBehind` | (`AllHere`, in the property) |
| `StreamsSameInOrder`, `WordsPlayedInOrder` | `SameStreams` and `WordsInOrder` | `AllHere` or `OnlyOneOut` |
| `StreamsAgreeInOrder` | their conjunction `StreamsAgree` | the same |

`AllHere`: nobody has gone; `OnlyOneOut`: at most one player has begun and takes no packets any more; and, in both, nobody was
dropped or given up that could still answer (`hasty = {}`). The code does not ensure that last part, since it drops on retries
alone; without it the streams may part (section 5). The theorems that need it say so, the others hold whoever is dropped.

*The invariant*, `RingInv`, is made of facts that stay true once they are (`Grows`): who has begun has begun, who takes no
packets any more never will, who was dropped stays dropped, what has been received stays received. `Lost` are those that take no packets any more or that
somebody has dropped, be they alive or not. `Between`: all between a player and its up-ring neighbour
are lost. `WasServer`: everybody who is named as the server, by a player or in a packet that was ever sent, is the first
server or comes before it with nobody in between who is not lost. Of two such players one is lost
(`OnlyOneWasServer`); and who drops the neighbour he knows as the server comes before the first one as
it did (`WasServerToo`), however old the packet was from which he knows it. `MessageOK`: what was acknowledged was received, or its
receiver has left. All of it holds as soon as everybody has begun; before, a player who has not would be taken for one that
is out. `FirstLap` says that until then there is only the "sync", which has come no farther than everybody has begun, so that
nobody drops anybody.

*The argument.* `StepKeeps` reduces a step to the player that takes it and to what it sends; `MinorStep` and `PassStep` are the
steps that send nothing but acknowledgements, and those that pass a packet on.
The invariant was checked with TLC before, for three players all of which may crash.

*The words.* `StreamsStayAlike` is `Spec => [](OnlyOneOut => SameStreams)`: at most one player is out,
whichever it is and wherever the packet was when it went. (`OnlyOneBefore`: once two are out they stay out, and `hasty` only
grows, so nothing is asked of the past.) Its invariant, `StreamInv`, says what everybody has
played by following the packet. `RingAt(h)`: player h got it last, keeps it (`Waiting`) or has sent it on. `TokenOK`: for every
player q there is a stream that all in the ring have played, followed by q's words in the packet for those the packet has passed
since q put them in (`StreamOf`); of a player known to be dead each has added as many `NetDead` as laps asked for; what the one
that is out has played is a prefix. `HeadOK`, `Ahead`: nobody but h may keep the packet, and everybody else that has sent it was overtaken by
its neighbour, for which it is late when it is sent again. `BackOK`: as long as nobody is out, what the player before h sent last
fits the streams of all but h, so that it can take the lap up when h goes with the packet and whatever h has
added. `FreshOK`: a packet that would still be taken comes from h, or is the last one of the player that is out,
and then ends the game or adds to what h has nothing but the words of that player, of whom all in the ring have played the same.

Each action is one of six ways to go on: nobody gets or sends the packet (`StillStep`), somebody
but h goes out (`OtherGoesOut`), h goes out (`HeadGoesOut`), the packet moves (`MovesStep`), h sends what it kept (`ForwardStep`), h
drops its neighbour and sends again (`BuryStep`). The hypothesis ends when a second player goes out. It cannot be left
out: see sections 5 and 6. That the second one may also leave in good order is what the next invariant is for.
This invariant, too, was checked with TLC before, for two to four players all of which may crash.

*To the last flag.* `WordsOK`, for `RingTypes`, says what is true whoever goes and whoever is dropped: in every packet that is kept, sent or on its way, the words of a
player are some that it has made, or `Alien`, and no more of them than a lap asks for (`Fits`); and whom it marks as dead somebody has dropped.
`NothingLost` needs more: that the
end of a game goes in order. `OrderInv` is about a game that nobody has gone from; everybody may leave it by the
packet that ends it. Until then it is `Orderly(h)`: all are in the ring with the neighbours they began with, the one server keeps the
packet if anybody does, what may still be taken is what h has sent, and for every player q the stream that all have
played, followed by q's words in the packet, is what q has made, from the first word to the last (`AllWords`). A lap that asks for no words
empties the packet as it goes (`LapOK`: of those it has passed it has none); what those have in their own `ringFrame` is empty as
well (`Blank`), and later than what the ones before them have (`Behind`). When the server gets that packet back, everybody has played
everything, and no packet that may still be taken, from the network or sent again by anybody, has words in it: `Drained`. That no
step undoes, whoever leaves, gives up, drops a neighbour that has left, or crashes then, in any order (`DrainedOn`), so that the order in
which the "unsync" empties the ring does not matter. `OrderStep` goes by the kinds of steps: those that leave
the packets as they are (`MinorTo`), and those that take one and pass one on (`PassTo`).

*A player's own words.* `StreamInv` says that the streams are alike, not that they are right: a lap that was played twice by all would
do. `OwnInv` adds what a player knows of its own words: all it has made it has played itself, but for those in what it sent last
(`OwnPlayed`); and whoever got the packet later than it has those words of it (`SameFlags`). With it, what comes back to a player is what
it put in (`TakenHasOwn`), as nobody in the ring has got a later packet than h (`HeadIsLast`, by the distance to h: the
one nearest to h of those that had would be followed by one still nearer, `NextIsNearer`). So the words in the
packet and the stream before them are the player's words in order (`WordsOfPlayer`).

TLC has checked `OrderInv` for two and three players (2,732 and 56,346 states) and `OwnInv` as long as `OnlyOneOut` for two and three
players all of which may crash (3,178 and, with up to two words a lap, 271,659 states), before either was proved.

*Only model-checked:* what is alive: `GracefulCleanupEnds`, `RingGoesOn`, `ResetFound`, `ShutdownEnds`, `GameCatchesUp`,
`LeaversDropped`, `StartReachesAll` (liveness is beyond the proof system's reach, as is ENABLED); `StreamsAgree`
of TokenRing once somebody has gone and a second player is out; and StarGame once it is disturbed.
Induction over data is also out of reach of the installed provers. Where a proof needs it over a bounded range (the loop of `hub_tick`,
the ticks a spoke provides at once), it goes by the largest number for which all is well.

## 5. Disagreements between code and comments

Five places where the code does something else than its own comments or assertions
say. Each has a run that stops with a shortest behaviour.

- **An acknowledgement before sending** (`hub_two_deaths`). `player_acknowledged_up_to_tick`
  asserts that the tick was sent (line 824). `hub_tick` drops all silent players first and sends
  later. The first drop may complete a tick, which the second drop marks as
  acknowledged. The send-time queue is then dequeued past its write tick.
- **Unconnected players in the address map** (`game_early_quit`). "Unconnected players should
  not have entries" (line 624). A late identification makes one (lines 653-654), and the last packet of
  `spoke_cleanup`, which is sent even if the spoke never heard from the hub, then fails the
  assertion after that comment.
- **Clearing what a packet is processed with** (`hub_teardown`). "We know it's not in the middle of
  processing one because we take the mutex" (hub, lines 533-535). The graceful branch of `hub_cleanup` does
  not take it; it waits for a flag that the receiving thread clears in the middle of a packet.
- **An early acknowledgement** (`ring_early_ack`). "This should never happen" (ring, line 991). It does when a player crashes
  after passing the packet on and before acknowledging it.
- **A player added to a running game** (`session_late_accept`). `NetDistributeTopology` asserts that the gatherer
  still gathers (`network.cpp`, line 2401). A joiner that was gathered and not waited for may accept after the start.

Smaller ones, that were met on the way and have no run:

- The hub's comment "all-0 address is cue for local spoke" (line 453): the address of a player that never
  identified itself is all zeros, too, and dropping it erases the entry of the local spoke (line 1082).
- "(we are alone) implies (no flags in packet)" (spoke, line 522): the test compares with the acknowledged tick, not with what
  the spoke has received, so words of a dead player may still be in the packet.
- "Modify the ring packet to zero out the players action flags" (ring, lines 2094 and 2117), of a neighbour that is dropped: a player
  does so in the packet that it sent last. If the neighbour had passed the packet on before it crashed, and only its
  acknowledgement is missing, another packet goes round. It keeps the words of the crashed player, which nobody replaces, and they
  are played again in every lap, by all alike. (TLC shows it with the constants of `ring`, in 18 states. `WordsInOrder` is
  about those in the ring only.)
- "It's not a fatal crash" (ring, lines 1093-1102): A drops B within two seconds, B recovers, and the packets it sends
  are ignored as they come from the wrong person. So they are, but B does not know that it was dropped. It goes on taking packets
  for as long as it has a neighbour, and if it was the server it remains one beside the player that was crowned for it. TLC has two
  such servers after 10 states of `ring`, and the others play B as net dead meanwhile. B, whose packets are ignored,
  drops its own neighbour after 50 retries, and the next one takes B for its new neighbour (lines 999-1008). `OneServer` therefore
  counts only those that nobody has dropped.
- A server that got the packet before its timer was ready keeps it (lines 2332-2345). When it then
  drops its up-ring neighbour, whose acknowledgement is missing, it sends that player's successor the packet of the lap before, under the next
  number (`drop_upring_player`). If the neighbour had passed that packet on, and it had gone round, others play its words a second
  time: the streams part. (TLC: 20 states. The neighbour needs only to have been alive; hence `hasty` in `StreamsAgree`.)
- `drop_upring_player` and `NetAddFlagsToPacket` move the words of the players that come later by the count of the one they
  take out or put in (lines 1404 and 2142). For one who is marked as dead already the count is -1, not 0, and the words of the others come one place
  too late. This happens when a player drops its neighbour in a packet in which that is dead already, for which two
  adjacent players must have gone, or when one that was dropped gets a packet again; `Moved` has it.
- "CRC failure; discarding packet" (hub, line 610): the hub logs this and goes on to process the packet. The spoke
  (line 437) returns.
- "Won't start running again after this returns" (hub, line 543; spoke, line 289): a thread past its second test of
  `mKeepRunning` calls the function once more. `OneLateCall` and `DataOutlivesTicks` show that it is once, and harmless.
- `NetCancelGather` "tells all players in the game that the game has been cancelled" (`network.cpp`, line 1409): the
  message is enqueued, and `NetExit` deletes the channels before they are pumped. A joiner finds its connection closed.
- "Calling this from entering map would bone us" (`player.cpp`, lines 529-530), of resetting the queues; `entering_map` does so
  (`marathon2.cpp`, line 638). See `ReadyInTime`.

## 6. What is left out

*Of the star protocol.* The timing adjustment: the hub's measurement (`mNthElementFinder`, `mSmallestUnheardTick`) and
the message; its effect on the spoke, how many flags a tick provides, is a free choice, so the
safety properties hold whatever it asks for, within the bound. The lossy byte stream (chat and audio on the side)
and latency display: no influence on the flags. Malformed packets and packets that fail the CRC. What a queue holds after it
was overrun, or read where it is not set. The hub's own machine leaving during play in StarGame (in StarHub it
does). The content of flags, including what is collapsed out of the late queue into a made-up word
and the random decay of the last flags: a made-up word is `MadeUp`. Reading the words of a packet that turns out to be out
of step: what the loop has enqueued before it finds out.

*Of the ring.* Net time, adaptive latency, ditching of flags and smearing when a player has too many or too few, lossy distribution.
The laps of a player left alone. Three consequences of the code are visible in the model and are no property of it: the packet is
lost for good when a player crashes that has acknowledged and not yet sent on (`TokenLost`); when the player
that was crowned crashes as well, the others still hold the old server for the server; and when two neighbours crash, with four
players, streams may part. Say 1 is gone, the server 0 drops it, starts a lap with its words and sends them to 2, and
crashes before they arrive. Then 3 drops 0 and, as it hears nothing, 1, and sends 2 the packet of the lap before. That one is above 2's
last number, and so is 0's afterwards: a change of the ring is taken from anybody. With three players, all of which may crash, TLC finds no
such behaviour.

*Of threads and network.* How long a task sleeps (after a reset the next call may come up to two periods later); the one packet
buffer that the UDP layer uses for both directions; connecting, and the pool of connecting threads.

*Of the main loop.* Scripts that overlay flags or take zombies over; `modifyActionFlags`; a spoke that is alone or has lost the hub
and puts its flags into its own queue without a test for room; the effect of a word on the world.

*Of the session.* Chat, names, colours, teams, resumed games, versions, the metaserver. Messages that arrive in parts. Three things the
code does not handle are outside its properties: the number of players is tested when one is gathered and not when it accepts, so that
several acceptances under way may exceed the maximum; a joiner that was not gathered when the game starts is not told; and a game
resumed with more saved players than present ones looks for channels that are not there.

*The rest of the engine*, by far the most of its lines, is sequential code about geometry, presentation and files; see section 1.
A transition system of it would have no interleaving, fault or protocol to check, and its data (fixed-point geometry, textures,
sound) is out of reach of explicit states.

## 7. The plan

What remains, in order:

1. **Timing adjustment**: hub measurement, message, spoke; packets late and reordered.
   That an adjustment is applied once; the Nth-element window (`NthElementFinder`) against its definition
   as a pure algorithm. With it the late queue's capacity.
2. **Recording**: run-length chunks, replay is the inverse, over bounded inputs.
3. **Playing on alone or disconnected** in WorldUpdate: a spoke that fills its own queue without a test.
4. **The ring as an implementation of Lockstep**, with its crowning; two crashes.
5. **Message channels in parts**, and the connection pool's slots.
6. **Service discovery** with its retries.

Theorems, in order: `StreamsAgree` of a ring of three that one player has gone from while the others leave (with four it is
false, section 6); the game of
hub and spokes after the hub has dropped its own player, and after a late packet of a dropped one.
