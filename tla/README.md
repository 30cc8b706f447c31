# crossing_consoles in TLA+

`crossing_consoles` is a multiplayer terminal game written in C++. One server
holds the world; every client is a process that shows it and sends changes.
Between them the program assumes nothing but a serial-line-like byte stream that
may damage bytes, and brings its own transport: frames with a checksum, a
handshake, sequence numbers, acknowledges, resends, keep-alives, timeouts and a
close handshake. Paths below are relative to `src/src/`; `connection/` stands for
`communication/connection_layer/connection/`.

The project models the stack from the bytes of a frame to the characters on the
screen: the framing, the transport, the sessions that run on it, the server's game
rules, the client's threads, what it draws, and the generator of the world. TLC
checks all of it on small instances; TLAPS proves the theorems listed below.

## The system

| Component | State | Operations | Talks to | What makes it correct |
| --- | --- | --- | --- | --- |
| Byte layer: sockets, mock streams, `ConnectionSimulatorFlaky` | file descriptors, `receive_deque`, the simulator's counters | `Send`, `Read`, `ReadToDeque`, `Filter` | operating system | a FIFO of bytes, some damaged |
| Message layer: `MessageCoder`, `MessageInputStream`, `CRCHandler` | partly read frame | `ReceiveMessage`, `SendMessage`, `Encode`, `Decode` | byte layer below, connection above | a frame arrives as it was sent, or as `InvalidMessageException`; after damage the next start is found |
| `Connection` | `connection_state`, sequence counters, `unacknowledged_sent_message`, two queues, resend timer | `BlockingEstablish`, `SendMessage`, `ReceiveMessage`, `Handle` | two message streams; one manager | exactly-once, in-order delivery; the handshake ends on both sides; nothing is lost to damage |
| `ConnectionManager`, `ClientSide-`, `ServerSideConnectionManager` | `connection_map`, `timestamp_last_received`, `event_queue` | `HandleConnections`, `ReceiveMessages`, `SendDataToConnection`, `CloseConnection`, `Broadcast` | its connections; one owner | connections end for a reason and on both sides; one event per thing that happened |
| `GameServer` | world, timers, players by partner id | `RunIteration`, `HandleEvent` | manager, `GameLogic` | every player has a connection, no client can end the server |
| `GameClient` | two threads, flags, timers, its world copy | `Run`, `RunMainThread`, `ProcessInput`, `HandleOwnChange`; communication thread, `HandleEvent` | manager, terminal, compositor | it drives its own player, its copy catches up, no update or key is forgotten, `Run` returns |
| `GameLogic`, `World`, `Player`, `Projectile`, `Spawner`, `ItemGenerator` | players, projectiles, items, walls | `HandleChange`, `HandleProjectiles`, `HandlePlayerRespawn`, `GenerateItem` | called by `GameServer` | the rules of `game_world_rules.md` |
| `Change`, `SerializationUtils` | none | (de)serialise | message payloads | round trip |
| `RandomWorldGenerator`, `HeightMap` | the walls so far | `GenerateHeight`, `GenerateBuildings`, `GenerateDoors` | called once by the server | one can walk around everything and into every building |
| Rendering: `Renderer`, `Compositor`, `ColoredCharMatrix`, `Table` and its users | `game_output`, which is never cleared | `RenderWorld`, `CompositeViewport` | reads the world copy | a frame shows the ring shaped world and nothing of the frame before |
| Terminal: `RealTerminal` | waiting bytes, the last screen | `HasInput`, `GetInput`, `SetScreen` | operating system | no key is lost or waited for, the screen is redrawn when it must be |
| Connection statistics, `main_*` | counters; none | | | |

Both processes are loops. `GameServer::RunIteration` is one thread: it receives
from every connection, handles the events, then makes the calls whose interval has
passed (projectiles 50 ms, items 2 s, respawns and the world update 25 ms). The
client has a main thread (keyboard, rendering) and a communication thread; both
use the manager, under `communication_mutex`, and share the world, under
`world_mutex`, and two flags that ask for a frame, under none.

What is hard to test here, and where: two ends that are never in the same state
at the same time (handshake, both closing at once, a resend that crosses its
acknowledge); frames damaged at the worst moment; a counter that wraps; events
that are handled after the connection they speak of is gone; processes that die;
a timed loop over projectiles that move one after the other; players who leave
or die while their projectiles fly; an update that arrives while a frame is drawn;
a key that is kept for later; a frame buffer and a terminal that remember. `PROJECT.json` lists the hazards with
their lines and the properties that watch them.

## Modules

### Connection

The two `Connection` objects of one link. Each message (`RESPONSE`, `PAYLOAD`,
`KEEP_ALIVE`, `CONNECTION_RESET`) has the next sequence number, as has each
`ACKNOWLEDGE` and `NOT_ACKNOWLEDGE`. Variables keep the source's names, one value
per side; `stream[s]` is the FIFO of frames on their way to `s`; `pc[s]` says how
far `s` is in `ReceiveMessage`; `sent` and `delivered` count what the owner
handed over and what it was returned.

| Action | Code |
| --- | --- |
| `ClientSendsRequest`, `HandshakeResend`, `HandshakeTimeout` | `BlockingEstablish`, `TryEstablish`, `ReceiveWithTimeout` |
| `TryReceive` | one frame through `ReceiveAll`: damaged, acknowledge, not-acknowledge or message, with every reply and state change it causes |
| `Return` | `ReceiveMessage` pops `receive_message_queue` |
| `Handle` | `Connection::Handle`: the resend timer, then the next queued message |
| `SendMessage` | `SendMessage`, guarded by its assertion |
| `DamageFrame` | the flaky byte stream (external): a frame becomes invalid |

Abstracted: time stamps (a timer has elapsed or not), message contents (a payload
is the number of the call that sent it), statistics.

`ReliableLink` is the abstract specification: each end opens once, and the n-th
message of an end is delivered once and in order, if both ends are open.
`MCConnection` instantiates it (`open` is the set of sides that have been `READY`).

### MessageStream

What `Connection` assumes of the layers below it, one direction: messages are
encoded, the flaky simulator damages their bytes, the socket holds a limited number
of them, and the decoder takes one byte per step.

| Action | Code |
| --- | --- |
| `Sends` (`Encode`, `Escaped`, `Covered`) | `MessageOutputStream::SendMessage`, `MessageCoder::Encode`; `Filter` and `FilterNext` are `ConnectionSimulatorFlaky`'s; what the socket does not take is lost, since nobody reads what `send` returns |
| `ReadsDeque`, `ReadsSocket` | `SocketByteStream::Read` from `receive_deque`, or after `ReadToDeque` |
| `ReadsNothing` | a read within a frame that finds no byte: `Decode` goes on with what its variable holds, the zero it was initialised with or, after an escape, the escape |
| `DecodeByte`, `AfterField`, `InField`, `CheckCrc` | `MessageCoder::Decode`, field by field |

The checksum is ideal: one element of the stream that knows the bytes it covers.
`place`, an element's position in its frame, serves the proofs only.
`MayRunOn(k)`: a frame that was cut or hit twice may leave the decoder within the frame after it,
and it stays within frames as long as each of them is damaged.
The properties say when a frame may be lost and when an exception may be thrown; both are what
`DamageFrame` of `Connection` is allowed to do, with one exception: a frame may raise
more than two exceptions when its payload holds flags.

### ConnectionManager and Sessions

`ConnectionManager` extends `Connection` by the map entry, the age of the last
message, the removals `ReceiveMessages` collects and the events it queues.
`phase[s]` is where the owner's loop is: `ReceiveMessages`, the per-connection
`ReceiveMessage` loop, the removals, `Handle`, then the owner. `timestamp_last_received`
is one of "fresh", "quiet" (the keep-alive interval has passed) and "late" (the
timeout has).

`Sessions` adds the owners: greeting (client sends name and colour, server id and
world), `HandleEvent` on both sides, `ClientExits`, the server's refusal of a
client when it is full, `ServerSendsWorld`, and a client process that is killed.
The client's main thread sends between any two steps that hold no mutex.

### GameLogic

The server's world. `projectiles` is `World::projectiles` as a function from
numbers that grow along the list, so that the list's order and the identity of a
projectile are both kept. A player who leaves is forgotten; ids are not reused.

| Action | Code |
| --- | --- |
| `PlayerJoins`, `PlayerLeaves` | `GameServer::HandleEvent`, CONNECT and DISCONNECT, with `GenerateSpawnPosition` |
| `MovePlayer`, `Shoot`, `Strike`, `Turn` | `GameLogic::HandleChange` and what it calls; `USE_ITEM` and `USE_UP` etc. differ only in the direction |
| `HandleProjectiles`, `MoveProjectile(n)`, `RemoveDestroyed` | the start, each turn and the end of the loop in `GameLogic::HandleProjectiles` |
| `GenerateItem`, `ResurrectPlayer` | `ItemGenerator::GenerateItem`, `HandlePlayerRespawn` with `World::ResurrectPlayer` |

`HandleProjectiles` searches with `std::find_if(world.GetProjectiles().begin(),
world.GetProjectiles().end(), ...)`. `GetProjectiles` returns a copy: the
iterator that is found outlives its list and reads a freed node. What it reads
depends on the allocator: with g++ and glibc, at `-O0` and `-O2`, the right
element while the list has up to three elements, and from four or five on, when the
freed nodes have been reused for the third copy, often another element of the list. `ReadsFreedNodes` chooses: if
TRUE, `MeetProjectile` may compare with any projectile.

An assertion that fails (`assert` is active unless a build type that defines
`NDEBUG` is asked for) and an exception nobody catches set `exception` and stop
the process.

### GameClient

One client with its keyboard, and the server as it sees it. The main thread's
`main` is where `RunMainThread` is; everything it does without a mutex is a step
of its own. `player_objects` is what the `shared_ptr`s point to: the copy that is
rendered shares them with the world. Payloads travel as `ReliableLink` promises.

| Action | Code |
| --- | --- |
| `Poll`, `ReadKey`, `Escape`, `ReadBracket`, `Bracketed`, `ReadLetter`, `HandleOldKey` | `ProcessInput`, each call of `HasInput` and `GetInput` a step |
| `HandleOwnChange` | `HandleOwnChange` |
| `DecideFrame`, `ClearFlags`, `CopyWorld`, `Draw` | the second half of `RunMainThread`'s loop |
| `HandleEvent` | `GameClient::HandleEvent` of the communication thread: SET_OWN_ID, SET_WORLD, UPDATE_WORLD, and the end of the process upon DISCONNECT |
| `ServerConnects`, `ServerHandlesPayload`, `Broadcast` | `GameServer::HandleEvent` and `RunIteration` for this client |
| `OtherJoins`, `OtherLeaves`, `OtherMoves`, `WorldMoves` | the same for everybody else, and the timed calls |
| `Type`, `Interrupt` | the terminal driver, SIGINT |

### WorldGenerator, ColoredCharMatrix and Screen

`WorldGenerator` is `RandomWorldGenerator`: the noise is any of `Noises`, a random
number any of its range. `GenerateHeight`, `GenerateBuilding`, `GenerateDoors` and
`GenerateWorldReturns` are its loops' bodies. `ColoredCharMatrix` has no
state: inserting pieces one after the other is a function in which the last piece
covers the others (`InsertMatrix`), and pieces of one layer, which the renderer takes from an
unordered map, must not depend on their order (`InsertLayers`).

`Screen` extends both. `CompositeViewport` composes `RenderWorld`, header, trailer,
tables and the notice of the dead into `game_output` as it is, and fails when an
assertion of `InsertMatrix` would; `SetScreen` prints it unless it equals the last
one and the terminal has its old size. Three named assumptions say what the program
gets from outside: sizes and strings (`ScreenAssumption`), players apart and within the
world (`ContentAssumption`), tables and notice that are narrower than the frame
(`LayoutAssumption`; the player list may be too long for it, and
`NothingOverflows` watches that). Between two frames the world changes,
a table is toggled or the terminal resized. A sprite is a block of one
character, a text a few characters: how they look is left out, where they are put
is not.

## Runs

| Run | Module | Question |
| --- | --- | --- |
| `ConnectionSafe` | MCConnection | Handshake, two messages each way, of which any may be a reset on either side, a damaged frame anywhere, resends, handshakes that time out, the client's counter wraps: no protocol exception, nothing lost, one message outstanding, both ends agree about the handshake, a side that believes everything acknowledged is right, and `ReliableLink` is implemented |
| `ConnectionLive` | MCConnection | The handshake completes, every message is delivered, the fair link is implemented |
| `ConnectionWrapStalls` | MCConnection | (violation) delivery across the wrap |
| `SessionSafe` | Sessions | Leaving, being refused, both at once: no half-open connection, no lost connection without reason, every player has a connection when the world is sent, none is removed twice but with an exception |
| `SessionLive` | Sessions | `Run` returns; the server forgets every client, also one that is killed |
| `SessionLeavesEarly` | Sessions | (violation) see Findings |
| `GameRules` | MCGameLogic | Types, players apart, projectiles end, scores change only for a reason, the dead rest |
| `StreamSafe` | MCMessageStream | What is returned was sent, in order; a loss stays local and is reported, and nothing else is |
| `ClientSafe` | MCGameClient | Own player kept, the copy catches up, no update forgotten, no wait for a key that was not typed |
| `ClientLive` | MCGameClient | A kept key is handled; the screen shows the server's world in the end |
| `Screen` | MCScreen | Walls and doors of the generated world; every frame fits, shows the ring shaped world, owes nothing to the last one, and is what the terminal shows |
| `BuildingClosed` | MCScreen | (violation) see Findings |

### Bounds

- Sequence numbers: `SequenceModulus` 64 with room below the wrap shows the normal
  case, as 1200 and 3400 of 65536 do; 16 and 8 with late first numbers make the
  client's counter wrap within the run, so `ConnectionSafe` has both: a server that is far
  from the wrap and a client that crosses it. The protocol compares numbers only for equality
  with a successor, so the distance to the wrap is all that matters.
- `MaxSent` 1 or 2 messages per side: stop-and-wait keeps one outstanding; the
  second message is the one that could be confused with it. The handshake adds
  one message and one acknowledge of its own.
- `MaxErrors` 1 damaged frame: any frame or acknowledge, while the timers resend
  the others.
- `MaxBacklog`: a resend timer (100 ms) elapses only while at most so many frames
  are on the way. 1 lets a resend cross an answer; the live runs use 0, since both loops drain their input
  in well under 100 ms.
- Sessions: a KEEP_ALIVE that is queued behind a waiting reset takes four messages of a
  side. `SessionSafe` with `MaxSent` 4, `MaxErrors` 0, `Traffic` 1 and `MayTick` TRUE reaches it and holds
  (3.7 million states); it is no run of its own because the proofs cover it together with damage.
- `Greeting` 1, `Traffic` 0 or 2: owners send on their own account while they have
  sent less. Each owner still reacts to everything it receives.
- One client: clients share nothing in the connection layer but the server's
  loop. What several clients do to each other is in `GameLogic`, and in the plan.
- `GameRules`: a world of 2 x 2 fields, the first row a ring of two, the second
  walls: a projectile comes back to its shooter or hits a wall, and players and
  items can fill the world. Two players, two projectiles at a time. Hits take one of
  two lives and the score counts modulo 2, so that every hit changes it and it
  wraps. `GunRange` 2 lets a shot go once round the ring and end.
- `StreamSafe`: eleven byte values of which three are special, fields of one byte;
  three messages of every type, an empty payload and one that holds the special bytes; an error of one
  or two bytes in the first frame or a later one, and again every nine bytes, that
  may turn a byte into a special one or back; a socket too small for two long frames, reads of at most
  two bytes, and one read that comes too early. Three frames are needed: the first can be damaged
  so that the decoder runs on into the second, and the second so that it swallows the third.
- `ClientSafe`: ids modulo 4 for at most three partners, two players; keys are
  typed at once, as the sequences that differ for `ProcessInput`; one act of the others and one
  update under way, since an update replaces what the one before said.
- `Screen`: a world of 5 x 5 with one building and rock at its edge, seen from two
  corners through a viewport of 15 x 4 blocks of one character, more than the world in
  one direction and of even height, as the client's 51 x 18 is;
  three frames: the buffer and the terminal remember one.

### Fairness

`ConnectionLive` assumes of each side: it sends the request, reads what has
arrived (weak fairness), and that the resend timer, the return to the owner and
`Handle` happen if they can again and again (strong fairness: arriving frames
disable them, but `ReceiveAll` reads until the stream is empty, which happens
much more often than the timers elapse). `SessionLive` assumes that both loops
run and that time passes. The killed client is exempt. `ClientLive` assumes that both threads of the
client run (neither holds a mutex for long, and no thread waits for another but
for a mutex), that its three intervals pass, and that the server handles payloads
and sends updates, as its loop does every 25 ms. Damage ends: `errors` is bounded, as a stream that
damages every frame is a broken line and ends in the timeout.

## What is proved

`LinkProofs`, one side alone, for every modulus, first sequence numbers and bounds:

- `TypeCorrect`: `Spec => []TypeOK`.
- `OutstandingBounded`: `Spec => []OneOutstanding`, at most one message waits
  for its acknowledge.

`TypeOK` is not inductive by itself. The handlers append to and filter
`unacknowledged_sent_message`; what a filter leaves of a list of any length is
a fold for which the prover has no rule. The invariant `IInv` is `TypeOK`
and `ListShape`: in each state the list is one of empty, a message, an
acknowledge, or both in either order. Lists are then at most two long, the
filter computes, and every action preserves the shape. Assumptions: the constants' types only.

and both sides together, for every modulus above 1 (wraps included) and any number of
messages and damaged frames:

- `NoProtocolError`, `SidesAgree`, `QueueBounded`, `DeliveredWhenReady`, `NothingIsLost`:
  the invariants of `ConnectionSafe`.
- `ConnectionIsReliableLink`: `Connection` implements `ReliableLink`; every step is one
  of its steps or a stutter.

Their invariant is `LinkInv`. What makes the transport safe is which of a side's
unacknowledged frames the peer has handled, and no variable says it: the side learns it only from an
acknowledge that may still be under way or be damaged. `LinkInv` says that there is a count `read[s]`
of them for each side, such that

- the rest of the list is on the peer's receive queue, in order, or not accepted yet,
  and the sequences continue from the peer's last one to the side's counter (`Flow`);
- a frame on the stream is damaged, old, or one of the list (`Streamed`);
- an acknowledge not handled yet answers the message its receiver waits for,
  and that one has been handled (`Answers`);
- payloads handed out, queued, listed and waiting in `send_message_queue` are 1, 2, 3, ... (`InOrder`);
- the two states and the frames under way fit the handshake and the close (`Handshake`).

Each handler then gets one lemma that gives the new `read`, e.g. `read + 1` for
`ReceiveMessage` and 0 after an acknowledge empties the list. TLC checked
the invariant on the bounds of `ConnectionSafe` and with moduli 2 and 3, which wrap.
After a wrap the link is safe but stalls, see Findings.

`SessionProofs`, which extends `LinkProofs`, for sessions of any length, with any number of
messages, damaged frames, keep-alives and a process killed at any point, for all three kinds of
message (`SessionAssumption`):

- `SessionTypeCorrect`, `NoHalfOpenConnection`, `PlayersAreConnected`, `DisconnectsHaveReasons`,
  `RemovalsAreSingle`: the invariants of `SessionSafe`.

Every step of a session is, for the two connections, a step of `Connection`, an exception or
nothing, so that `LinkInv` holds here too (`SessionLink`); the connections below the managers
are reliable links also in a session. `SessionInv` adds

- where the reset of a side is: queued, with only KEEP_ALIVEs behind it, or sent, and then it is the message
  the side waits for (`Resets`). With `LinkInv`: when it is acknowledged, the peer's owner
  has it and everything before it;
- that a returned reset is on the removal list, or the connection is gone (`Acted`), and
  in which phases a removal may be listed and a closed connection still be in the map (`Removal`);
- what a listed removal is due to (`Reason`): before the checks that the peer's reset was
  returned, which happens once and makes the connection fresh, so that the timeout
  cannot list it as well;
- what the server has heard of its client (`Events`): nothing, a CONNECT not handled yet, or more; and
  that its connection sends nothing before CONNECT is handled, so that a refusal leaves
  at once (`Refusal`).

A step of an owner that returns, lists and removes nothing needs no more than `CalmStep`; the steps of
`ReceiveMessages` have a lemma each.

`GameLogicProofs`, for every world, number of players, damage, range and list of
projectiles, and whatever the freed nodes hold:

- `GameTypeCorrect`. `TypeInv` adds to `GameTypeOK` that ids are given in order,
  that no health falls to `-MaxHealth`, that distance and remaining range add up
  and that the loop's lists are empty outside it. Without the last, a projectile
  removed by a player's step could remain on a list; without the third, the
  distance has no bound.
- `PlayersStandApart` from `ApartInv`: fields are given out free and items are
  put on fields without player.
- `ProjectilesFlyOn` from `WallsHit`: a projectile in a wall is on
  `destroy_projectile_list`; uses `PlayersApart`, since a shot starts where its
  shooter stands.
- `TheDeadRest`: needs `DamageAssumption` (one hit costs at most `MaxHealth`,
  1 and 2 of 8 in the code), since a respawn adds `max_health` to what is left.
- `ScoresAreEarned`.

`ScreenProofs`, first about the generator, for every size of the world, every noise and all sizes of
buildings:

- `EdgesFree`: the smoothed height is 0 at the last column and row, the lowest
  block type begins above it (`HeightAssumption`; the lowest is set for 10), and
  a building ends before them.
- `DoorsLeadSomewhere`: the invariant adds that a building that waits for its
  doors has a free room of at least one field within its walls and lies within
  the edges (`Stands`). A field in front of it that is beyond the first column
  or row is then the free one at the other edge.

then about the frames, for every size of the world, the viewport, the blocks and the tables, and all
contents and players the rules allow. The invariant `ShowInv` is the generator's, and

- `WorldInv`, `FrameInv`: while frames are drawn the world is complete, and the
  frame keeps its size;
- `FrameIsFresh` itself: the frame is what the same pieces make of an empty one;
- `TerminalInv`: what `SetScreen` remembers is what it printed, unless the terminal was resized.

From it follow

- `FrameOwesNothing`: header, trailer, rendered world and border cover every character of the frame,
  so that the frame they are put on makes no difference;
- `TerminalShows`: strings keep the colours that were set at their start, so printing only the changes
  of colours shows every character in its own;
- `NothingFails`, if the list of players fits (`TableHasRoom`): each sprite, line,
  table and notice lies within the matrix it is put into. The own player's repetitions
  of the world are cut off where the viewport ends;
- `ViewportShows`: the repetitions reach every field of the viewport, a field is the place of one
  position of one of them only, and the later layer wins: items, players, projectiles,
  walls. Players stand apart, so the order of the map makes no difference.

`GameClientProofs`, for every number of players and keys:

- `OwnPlayerIsKept`, if `MaxId < IdModulus`: partner ids fit the one byte of
  SET_OWN_ID, which the server does not ensure. The invariant `KeptInv` describes
  what is under way to the client: SET_OWN_ID first and once, then only worlds that hold
  its player, or DISCONNECT alone.
- `InputIsAlwaysThere`, for all keys, which are sequences of bytes. `InputInv` relates what
  `HasInput` has counted to what is in the kernel's and in `getchar`'s buffer: all of it is in
  one of the two, and the count is exact when the main thread is about to read.
- `ScreenAlwaysShowsWorld`, which needs no hypothesis. `ScreenInv`: when neither flag asks for a
  frame, the world is on the screen, or about to be copied, or copied and about to be drawn. It holds
  although the copy shares its players with the world, since each change of
  them comes with `world_updated`; the exception, `SET_OWN_ID`, renames a player that
  is alone and looks the same (`AloneInv`).
- `CopyIsAlwaysSent` and `CopyAlwaysCatchesUp`, if `MaxId < IdModulus`. `CopyInv` extends `KeptInv`: the
  last payload under way is the server's world as it is transmitted, or, if nothing is under way,
  the client has it. The second says that it is the server's world itself, which also needs that
  `AddProjectile` takes no two projectiles of a list for one; without it
  the client has one of them, as the first theorem says.

`MessageCoderProofs` and `StreamProofs`, for every flag, escape and end marker, all widths of the
fields, messages of any number and length that fit them, every error the simulator makes, any
room in the socket and any split of the bytes over the reads:

- `EscapedOnce`: no two sequences of bytes are escaped alike;
- `OnlySent`, `LossStaysLocal`, `LossReported`, `FalseReportsNone`: the four properties of `MessageStream`.

`MessageCoderProofs` is about the encoder and the decoder, without the line. A decoder
within a frame has parsed some bytes `raw`, and what it has covered is `raw` escaped, followed by an escape
if one is open (`Parse`). Hence, if the checksum fits, the bytes of two messages are escaped alike, and with
`EscapedOnce` the message decoded is the one sent (`DecodeWhole`); each element of a frame
is taken as it was meant (`ExactStep`), and of a damaged one the flag or the end marker
brings the decoder out (`ChecksumDamaged`, `FlagDamaged`, `MarkerDamaged`).

`StreamInv` relates the decoder to what is still to come, `Line`, the deque and the wire:

- `LineInv`: the line holds what is left of the frames in their order, a frame hit
  once with one damaged element;
- `OrderInv`: what was returned, and what waits for its end marker, was sent before all
  checksums on the line, so that a checksum that fits brings a later message;
- `FrameInv`: the decoder is within the frame whose rest is on the line, or it ran on from one
  of those before (`MayRunOn`);
- `WithinInv`: of a frame that is not damaged yet the decoder has read a beginning exactly; once the damage
  is behind, it will come out at the end;
- `ReadInv`, `UnreadInv`: a frame that has been read was returned or reported, a whole one
  not reported; nothing is reported over a frame before its first byte.

A sent frame changes nothing for those before it (`AddsKeeps`), a byte that is read has one
lemma for each part of the invariant, and a read that finds nothing counts as a hit
(`NothingKeeps`). TLC checked its parts first, on bounds like those of `StreamSafe`; it
showed that a short read within an escape repeats the escape, and that a decoder can run on through more
than two frames, which `MayRunOn` now allows.

`FoldLemmas` holds what several modules need about numbers: induction over a set of
numbers, which follows from < being well-founded and needs no operator as a parameter,
maximum and minimum of a finite set, and the existence of folds.

Only model-checked:

- what a filter leaves of a list of any length (`LinkProofs` needs lists of at most two);
- all liveness: TLAPS proves nothing about fairness or ENABLED.

## Findings

- `ConnectionWrapStalls`: `TryReceive` expects the `int` successor of the last
  sequence number, 65536 after 65535, while the sender's 16-bit counter gives 0.
  The connection stalls until the timeout.
- `SessionLeavesEarly`: a client that leaves at once is removed before its
  CONNECT is handled, and the server's reply throws `UnknownPartnerException`.
- `BuildingClosed`: `GenerateDoors` promises to "repeat if no door has been placed";
  when the field right of the building is blocked, the `continue`
  (`game/world/RandomWorldGenerator.cpp:150`) skips that check and the building may stay closed.

Seen while modelling and not run:

- Transport: when both sides close, one `ReceiveMessages` may list the connection
  twice, and the second removal throws (`connection/ConnectionManager.cpp:107`);
  `RemovedOnce` allows that exception. A keep-alive that falls due while the reset
  waits for its acknowledge fails the assertion of `SendMessage`
  (`connection/Connection.cpp:169`). A payload of 2^16 bytes or more is sent with its
  length modulo 2^16 (`MessageCoder.cpp:102`). A frame cut by a full socket, or hit in both its flags, swallows the next one, and if an error turns
  the checksum of that one into an escape, the one after it as well.
- Client: bytes typed while others wait are counted again by each `HasInput`
  (`game/terminal/RealTerminal.cpp:35`), and the main thread then waits in `getchar`
  until keys are pressed; `InputIsThere` speaks of keys typed at once.
- Rules: `game_world_rules.md` promises points for every hit, but a player who walks into a
  projectile earns the shooter none (`game/GameLogic.cpp:92`); a sword on a dead player
  leaves the projectiles there alone (`:185`) and does not reach across the
  border (`:51`); a score is reset at the respawn, not at the death
  (`game/world/World.cpp:245`), and wraps (`game/world/Player.cpp:111`). EAST, WEST, EAST
  from one field between two projectile updates gives two equal projectiles and
  fails an assertion (`game/GameLogic.cpp:225`), since `AddProjectile` looks only at the first
  projectile on the field.
- Screen: a viewport of even height (18, `game/GameClient.cpp:38`) never fills its last row.
  The player list has room for 52 players: with a bigger limit `InsertMatrix` would fail.
- Generator: only the corners of a new building are looked at, so it may stand
  across an older one; both loops may try for ever in a full world.

## Not modelled, and why

- The single-player mode of `GameClient`, the Windows half of the terminal and the
  sockets, terminal modes, opening and closing of sockets: calls of the
  operating system without a state the rest depends on.
- Perlin noise (any noise is allowed instead), sprites and wording, and the
  bytes of numbers, strings and colours in payloads: data no property is about.
- Connection statistics: counters that are only displayed.
- Several clients' entries in one manager: entries share nothing but the server's
  loop; what the clients do to each other is in `GameLogic` and `GameClient`.
  That a silent new client blocks the loop is a matter of time and a listed hazard.
- Mock streams and terminal, `main_*`: test doubles, and loops around `Run` and
  `RunIteration`.

## Plan

1. `Lives`: an abstract specification of a player's life (alive, dead, respawned,
   points) refined by `GameLogic`.
2. `FrameLine`: an abstract specification of the line as `Connection` sees it, frames that
   arrive whole or raise exceptions, implemented by `MessageStream`, so that the two modules meet in
   a theorem.
