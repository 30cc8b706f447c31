----------------------------- MODULE GameClient -----------------------------
(***************************************************************************)
(* One multiplayer client (game/GameClient.cpp) with its terminal          *)
(* (game/terminal/RealTerminal.cpp), and the server as the client sees it  *)
(* (game/GameServer.cpp): SET_OWN_ID and SET_WORLD upon its CONNECT,       *)
(* UPDATE_WORLD every 25 ms.  Other clients are players who come, go and   *)
(* act.  Payloads travel in order and arrive once, which is what           *)
(* Connection promises (ReliableLink).                                     *)
(*                                                                         *)
(* The main thread reads keys, sends changes and draws; the communication  *)
(* thread applies what the server sends.  They share the world, its        *)
(* players and the flags that ask for a frame.  How a session ends is in   *)
(* Sessions; what a change does to the world is in GameLogic: here it      *)
(* moves the player.                                                       *)
(***************************************************************************)
EXTENDS Integers, SequencesExt

CONSTANTS
  IdModulus,        \* 256: SET_OWN_ID holds the partner id in one byte
  MaxId,            \* bound: partner ids the server gives out
  MaxPlayers,       \* max_player_count
  ProjectileLists,  \* lists of projectiles GameLogic produces
  Keys,             \* what is typed: sequences of bytes
  MaxTyped,         \* bound: keys typed
  MayInterrupt,     \* whether the process may get SIGINT
  MaxChanges,       \* bound: what the other players do
  MaxBacklog        \* bound: updates are sent while fewer are on the way

ASSUME ClientAssumption ==
  /\ IdModulus \in Nat \ {0} /\ MaxId \in Nat \ {0}
  /\ MaxPlayers \in Nat /\ MaxTyped \in Nat /\ MaxChanges \in Nat
  /\ MaxBacklog \in Nat /\ MayInterrupt \in BOOLEAN

VARIABLES
  (* the server *)
  server,           \* its world
  next_partner_id,
  partner,          \* the client's id there, 0 before CONNECT
  dirty,            \* its world has changed since the last UPDATE_WORLD
  inbox, outbox,    \* payloads to and from the client
  changes,          \* counted for the bound
  (* the client's two threads *)
  own_id, server_initialised,
  world,            \* players: the ids in the list; walls, items, projectiles
  player_objects,   \* what the shared_ptrs point to, by player id
  world_updated, updated,
  world_render_copy,
  keep_running, failure,
  main,             \* where the main thread is
  change,           \* the Change that ProcessInput returned
  next_move_type, next_item_usage_type,
  move_elapsed, item_usage_elapsed, draw_elapsed,  \* intervals
  show,             \* the table that is shown, if any
  screen,           \* the frame the terminal shows, if any
  (* the terminal's input *)
  tty,              \* bytes in the kernel
  stdin,            \* bytes in getchar's buffer
  remaining_bytes_waiting,
  typed

serverVars == <<server, next_partner_id, partner, dirty, changes>>
copyVars == <<own_id, server_initialised, world, player_objects>>
inputVars == <<tty, stdin, remaining_bytes_waiting, typed>>
delayVars == <<next_move_type, next_item_usage_type>>
timerVars == <<move_elapsed, item_usage_elapsed, draw_elapsed>>
clientVars == <<serverVars, inbox, outbox, copyVars, world_updated, updated,
                world_render_copy, keep_running, failure, main, change,
                delayVars, timerVars, show, screen, inputVars>>

-----------------------------------------------------------------------------
(* Worlds and payloads. *)

Ids == 1 .. MaxId
None == "none"
LocalId == 999    \* the id main_client gives the player
NoWalls == 0      \* the client's own world is empty
Walls == 1

Player == [named : BOOLEAN, place : 0 .. 1]

\* World::AddPlayer
AddPlayer(players, id, p) ==
  [i \in DOMAIN players \cup {id} |-> IF i = id THEN p ELSE players[i]]

\* World::AddProjectile: not next to an equal one, if that is the first there
AddProjectile(list, p) ==
  LET first == SelectInSeq(list, LAMBDA q : q.position = p.position)
  IN IF first # 0 /\ list[first].direction = p.direction THEN list
     ELSE Append(list, p)

\* World::SerializeUpdate and DeserializeUpdate
Transmitted(w) ==
  [players |-> w.players, items |-> w.items,
   projectiles |-> FoldLeft(AddProjectile, <<>>, w.projectiles)]

SetOwnId(id) == [type |-> "SET_OWN_ID", id |-> id % IdModulus]
SetWorld(w) ==
  [type |-> "SET_WORLD", walls |-> Walls, world |-> Transmitted(w)]
UpdateWorld(w) == [type |-> "UPDATE_WORLD", world |-> Transmitted(w)]
Disconnect == [type |-> "DISCONNECT"]

-----------------------------------------------------------------------------
\* Others have joined before.
ClientInit ==
  /\ \E others \in 0 .. MaxPlayers :
       /\ server = [players |-> [id \in 1 .. others |->
                                  [named |-> TRUE, place |-> 0]],
                    items |-> 0, projectiles |-> <<>>]
       /\ next_partner_id = others + 1
  /\ partner = 0 /\ dirty = FALSE /\ changes = 0
  /\ inbox = <<>>
  /\ outbox = <<"SET_NAME">>      \* and SET_COLOR, from the constructor
  /\ own_id = LocalId /\ server_initialised = FALSE
  /\ world = [players |-> {LocalId}, walls |-> NoWalls, items |-> 0,
              projectiles |-> <<>>]
  /\ player_objects = [id \in {LocalId} |-> [named |-> TRUE, place |-> 0]]
  /\ world_updated = TRUE         \* AddPlayer
  /\ updated = FALSE
  /\ world_render_copy = [players |-> {}, walls |-> NoWalls, items |-> 0,
                          projectiles |-> <<>>]
  /\ keep_running = TRUE /\ failure = None
  /\ main = "poll" /\ change = None
  /\ next_move_type = None /\ next_item_usage_type = None
  /\ move_elapsed = TRUE /\ item_usage_elapsed = TRUE /\ draw_elapsed = TRUE
  /\ show = None /\ screen = <<>>
  /\ tty = <<>> /\ stdin = <<>> /\ remaining_bytes_waiting = 0 /\ typed = 0

-----------------------------------------------------------------------------
(* The server: GameServer::HandleEvent and RunIteration. *)

\* Everything but the client's own variables.
ServerOnly == UNCHANGED <<copyVars, world_updated, updated, world_render_copy,
                          keep_running, failure, main, change, delayVars,
                          timerVars, show, screen, inputVars>>

\* The client's CONNECT.  A full server closes the connection.
ServerConnects ==
  /\ partner = 0 /\ next_partner_id <= MaxId
  /\ partner' = next_partner_id
  /\ next_partner_id' = next_partner_id + 1
  /\ IF Cardinality(DOMAIN server.players) >= MaxPlayers
     THEN inbox' = Append(inbox, Disconnect) /\ UNCHANGED <<server, dirty>>
     ELSE /\ \E place \in 0 .. 1 :
               server' = [server EXCEPT !.players =
                 AddPlayer(@, next_partner_id, [named |-> FALSE, place |-> place])]
          /\ inbox' = inbox \o <<SetOwnId(partner'), SetWorld(server')>>
          /\ dirty' = TRUE
  /\ UNCHANGED <<outbox, changes>> /\ ServerOnly

\* What others do to the world.
OthersAct(new) ==
  /\ changes < MaxChanges
  /\ changes' = changes + 1
  /\ server' = new
  /\ dirty' = TRUE
  /\ UNCHANGED <<partner, inbox, outbox>> /\ ServerOnly

OtherJoins ==
  /\ next_partner_id <= MaxId
  /\ Cardinality(DOMAIN server.players) < MaxPlayers
  /\ next_partner_id' = next_partner_id + 1
  /\ OthersAct([server EXCEPT !.players =
       AddPlayer(@, next_partner_id, [named |-> TRUE, place |-> 0])])

OtherLeaves(id) ==
  /\ OthersAct([server EXCEPT !.players =
       [i \in DOMAIN @ \ {id} |-> @[i]]])
  /\ UNCHANGED next_partner_id

OtherMoves(id) ==
  /\ OthersAct([server EXCEPT !.players[id].place = 1 - @])
  /\ UNCHANGED next_partner_id

\* Projectiles fly, items and colored fields come and go.
WorldMoves(list) ==
  /\ OthersAct([server EXCEPT !.projectiles = list, !.items = 1 - @])
  /\ UNCHANGED next_partner_id

\* A change of the client.  Without a player it is not looked at.
ServerHandlesPayload ==
  /\ partner # 0 /\ outbox # <<>>
  /\ outbox' = Tail(outbox)
  /\ IF partner \in DOMAIN server.players
     THEN /\ server' = IF Head(outbox) = "SET_NAME"
                       THEN [server EXCEPT !.players[partner].named = TRUE]
                       ELSE [server EXCEPT !.players[partner].place = 1 - @]
          /\ dirty' = TRUE
     ELSE UNCHANGED <<server, dirty>>
  /\ UNCHANGED <<next_partner_id, partner, inbox, changes>> /\ ServerOnly

\* Every 25 ms, changed or not.
Broadcast ==
  /\ partner \in DOMAIN server.players
  /\ Len(inbox) < MaxBacklog
  /\ inbox' = Append(inbox, UpdateWorld(server))
  /\ dirty' = FALSE
  /\ UNCHANGED <<server, next_partner_id, partner, outbox, changes>>
  /\ ServerOnly

ServerNext ==
  \/ ServerConnects \/ ServerHandlesPayload \/ Broadcast
  \/ OtherJoins
  \/ \E id \in DOMAIN server.players \ {partner} :
       OtherLeaves(id) \/ OtherMoves(id)
  \/ \E list \in ProjectileLists : WorldMoves(list)

-----------------------------------------------------------------------------
(* The communication thread: GameClient::HandleEvent, under world_mutex. *)

\* Mutant: players are added and modified, never removed.
UpdateWithoutRemoval(old, w) ==
  [old EXCEPT !.players = @ \cup DOMAIN w.players, !.items = w.items,
              !.projectiles = w.projectiles]

\* The objects when these players have been assigned to or made.
Assigned(players, objects) ==
  [i \in DOMAIN players \cup DOMAIN objects |->
     IF i \in DOMAIN players THEN players[i] ELSE objects[i]]

\* World::UpdateWithoutWalls.  A known player is assigned to in place, a new
\* one is a new object.
UpdateWithoutWalls(old, w) ==
  [old EXCEPT !.players = DOMAIN w.players, !.items = w.items,
              !.projectiles = w.projectiles]

Apply(w, walls) ==
  IF ~server_initialised
  THEN UNCHANGED <<world, player_objects, world_updated, failure>>
  ELSE /\ world' = UpdateWithoutWalls([world EXCEPT !.walls = walls], w)
       /\ player_objects' = Assigned(w.players, player_objects)
       /\ world_updated' = TRUE
       /\ failure' = IF own_id \in DOMAIN w.players THEN failure
                     ELSE "own player removed"

\* Mutant: the first byte is read, which is the type of the change.
ReadOwnIdFirst(m) == 0

ReadOwnId(m) == m.id

Renamed(ids, id) == IF own_id \in ids THEN (ids \ {own_id}) \cup {id} ELSE ids

\* The player is one object: all who point to it see the new id.
HandleSetOwnId(m) ==
  LET id == ReadOwnId(m)
  IN /\ own_id' = id
     /\ server_initialised' = TRUE
     /\ player_objects' = Assigned([i \in {id} |-> player_objects[own_id]],
                                   player_objects)
     /\ world' = [world EXCEPT !.players = Renamed(@, id)]
     /\ world_render_copy' =
          [world_render_copy EXCEPT !.players = Renamed(@, id)]
     /\ UNCHANGED <<world_updated, failure>>

HandleEvent ==
  /\ keep_running /\ failure = None /\ inbox # <<>>
  /\ inbox' = Tail(inbox)
  /\ LET m == Head(inbox) IN
     \/ m.type = "SET_OWN_ID" /\ HandleSetOwnId(m)
     \/ /\ m.type \in {"SET_WORLD", "UPDATE_WORLD"}
        /\ Apply(m.world, IF m.type = "SET_WORLD" THEN m.walls ELSE world.walls)
        /\ UNCHANGED <<own_id, server_initialised, world_render_copy>>
     \/ /\ m.type = "DISCONNECT"     \* exit(1)
        /\ failure' = "refused"
        /\ UNCHANGED <<copyVars, world_updated, world_render_copy>>
  /\ UNCHANGED <<serverVars, outbox, updated, keep_running, main, change,
                 delayVars, timerVars, show, screen, inputVars>>

-----------------------------------------------------------------------------
(* The terminal: RealTerminal::HasInput and GetInput. *)

Type(key) ==
  /\ typed < MaxTyped
  /\ typed' = typed + 1
  /\ tty' = tty \o key
  /\ UNCHANGED <<serverVars, inbox, outbox, copyVars, world_updated, updated,
                 world_render_copy, keep_running, failure, main, change,
                 delayVars, timerVars, show, screen, stdin,
                 remaining_bytes_waiting>>

\* FIONREAD counts what is in the kernel, again in each call.
HasInput(yes, no) ==
  /\ remaining_bytes_waiting' = remaining_bytes_waiting + Len(tty)
  /\ main' = IF remaining_bytes_waiting' > 0 THEN yes ELSE no
  /\ UNCHANGED <<tty, stdin, typed>>

\* Mutant: the count is not lowered.
GetInputUncounted(byte) ==
  /\ IF stdin # <<>>
     THEN byte = Head(stdin) /\ stdin' = Tail(stdin) /\ UNCHANGED tty
     ELSE /\ tty # <<>> /\ byte = Head(tty)
          /\ stdin' = Tail(tty) /\ tty' = <<>>
  /\ UNCHANGED <<typed, remaining_bytes_waiting>>

\* getchar takes all the kernel has, or waits for it, when its buffer is empty.
GetInput(byte) ==
  /\ remaining_bytes_waiting' = remaining_bytes_waiting - 1
  /\ IF stdin # <<>>
     THEN byte = Head(stdin) /\ stdin' = Tail(stdin) /\ UNCHANGED tty
     ELSE /\ tty # <<>> /\ byte = Head(tty)
          /\ stdin' = Tail(tty) /\ tty' = <<>>
  /\ UNCHANGED typed

-----------------------------------------------------------------------------
(* The main thread: ProcessInput, HandleOwnChange and drawing. *)

Movement == {"w", "a", "s", "d"}
ItemUsage == {" ", "i", "j", "k", "l"}
Bytes == Movement \cup ItemUsage \cup {"y", "x", "c", "ESC", "[", "A"}

ASSUME KeyAssumption == Keys \subseteq Seq(Bytes)

\* What the steps that read and send leave alone.
Reads(at) ==
  /\ main = at /\ failure = None
  /\ UNCHANGED <<serverVars, inbox, copyVars, world_updated,
                 world_render_copy, failure, draw_elapsed, screen>>

\* What a key leaves alone that has no change.
NoChange == UNCHANGED <<outbox, change, delayVars, move_elapsed,
                        item_usage_elapsed>>
OnlyRead == NoChange /\ UNCHANGED <<show, updated, keep_running>>

\* Y and X show a table in place of the other.
Toggle(table) ==
  /\ show' = IF show = table THEN None ELSE table
  /\ updated' = TRUE
  /\ main' = "frame"
  /\ NoChange

\* A key with a change: at once if its interval has passed, else it is kept in
\* place of one that was kept before.
KeepOrSend(key) ==
  /\ IF key \in Movement /\ ~move_elapsed
     THEN /\ next_move_type' = key /\ main' = "frame"
          /\ UNCHANGED <<next_item_usage_type, change, move_elapsed,
                         item_usage_elapsed>>
     ELSE IF key \in ItemUsage /\ ~item_usage_elapsed
     THEN /\ next_item_usage_type' = key /\ main' = "frame"
          /\ UNCHANGED <<next_move_type, change, move_elapsed,
                         item_usage_elapsed>>
     ELSE /\ change' = key /\ main' = "own"
          /\ move_elapsed' = (move_elapsed /\ key \notin Movement)
          /\ item_usage_elapsed' = (item_usage_elapsed /\ key \notin ItemUsage)
          /\ UNCHANGED delayVars
  /\ UNCHANGED <<outbox, show, updated>>

\* C replaces the connection simulator: nothing of this module.
HandleKey(key) ==
  CASE key = "y" -> Toggle("players")
    [] key = "x" -> Toggle("statistics")
    [] key \in Movement \cup ItemUsage -> KeepOrSend(key)
    [] OTHER -> main' = "frame" /\ NoChange /\ UNCHANGED <<show, updated>>

\* ProcessInput
Poll == Reads("poll") /\ keep_running /\ HasInput("key", "old") /\ OnlyRead

ReadKey ==
  /\ Reads("key")
  /\ \E byte \in Bytes :
       /\ GetInput(byte)
       /\ IF byte = "ESC"
          THEN main' = "escape" /\ NoChange /\ UNCHANGED <<show, updated>>
          ELSE HandleKey(byte)
  /\ UNCHANGED keep_running

\* The escape key leaves the game, if nothing follows it.
Escape ==
  /\ Reads("escape")
  /\ HasInput("bracket", "frame")
  /\ keep_running' = (keep_running /\ main' = "bracket")
  /\ NoChange /\ UNCHANGED <<show, updated>>

ReadBracket ==
  /\ Reads("bracket")
  /\ \E byte \in Bytes :
       GetInput(byte) /\ main' = IF byte = "[" THEN "bracketed" ELSE "frame"
  /\ OnlyRead

Bracketed == Reads("bracketed") /\ HasInput("letter", "frame") /\ OnlyRead

\* The arrow keys are the keys i, j, k and l.
ReadLetter ==
  /\ Reads("letter")
  /\ \E byte \in Bytes :
       GetInput(byte) /\ HandleKey(IF byte = "A" THEN "i" ELSE "other")
  /\ UNCHANGED keep_running

MoveReady == next_move_type # None /\ move_elapsed

\* Mutant: asks for the other kept key.
ItemUsageReadyIfMove == next_move_type # None /\ item_usage_elapsed

ItemUsageReady == next_item_usage_type # None /\ item_usage_elapsed

\* No key: one that was kept is handled when its interval has passed.
HandleOldKey ==
  /\ Reads("old")
  /\ \/ /\ MoveReady
        /\ change' = next_move_type /\ next_move_type' = None
        /\ main' = "own"
        /\ UNCHANGED next_item_usage_type
     \/ /\ ~MoveReady /\ ItemUsageReady
        /\ change' = next_item_usage_type /\ next_item_usage_type' = None
        /\ main' = "own"
        /\ UNCHANGED next_move_type
     \/ /\ ~MoveReady /\ ~ItemUsageReady
        /\ main' = "frame" /\ UNCHANGED <<change, delayVars>>
  /\ UNCHANGED <<outbox, move_elapsed, item_usage_elapsed, show, updated,
                 keep_running, inputVars>>

HandleOwnChange ==
  /\ Reads("own")
  /\ outbox' = Append(outbox, change)
  /\ move_elapsed' = (move_elapsed /\ change \notin Movement)
  /\ item_usage_elapsed' = (item_usage_elapsed /\ change \notin ItemUsage)
  /\ change' = None /\ main' = "frame"
  /\ UNCHANGED <<delayVars, show, updated, keep_running, inputVars>>

\* What the steps that draw leave alone.
Draws(at) ==
  /\ main = at /\ failure = None
  /\ UNCHANGED <<serverVars, inbox, outbox, copyVars, keep_running, failure,
                 change, delayVars, move_elapsed, item_usage_elapsed, show,
                 inputVars>>

\* Mutant: the world's flag is forgotten.
FrameIfOwnUpdate == updated

FrameNeeded == world_updated \/ updated

\* At most one frame in 30 ms.
DecideFrame ==
  /\ Draws("frame")
  /\ IF FrameNeeded /\ draw_elapsed
     THEN main' = "clear" /\ draw_elapsed' = FALSE
     ELSE main' = "poll" /\ UNCHANGED draw_elapsed
  /\ UNCHANGED <<world_updated, updated, world_render_copy, screen>>

ClearFlags ==
  /\ Draws("clear")
  /\ world_updated' = FALSE /\ updated' = FALSE
  /\ main' = "copy"
  /\ UNCHANGED <<draw_elapsed, world_render_copy, screen>>

\* Under world_mutex.  The copied list points to the same players.
CopyWorld ==
  /\ Draws("copy")
  /\ world_render_copy' = world
  /\ main' = "draw"
  /\ UNCHANGED <<world_updated, updated, draw_elapsed, screen>>

\* Ids are not shown; the own player is in the middle.
Picture(w) ==
  [w EXCEPT !.players = [own |-> player_objects[own_id],
    all |-> [p \in Player |->
               Cardinality({id \in w.players : player_objects[id] = p})]]]

\* Mutant: the flags are cleared when the frame has been drawn.
DrawThenClear ==
  /\ Draws("draw")
  /\ screen' = <<[picture |-> Picture(world_render_copy), show |-> show]>>
  /\ world_updated' = FALSE /\ updated' = FALSE
  /\ main' = "poll"
  /\ UNCHANGED <<draw_elapsed, world_render_copy>>

\* CompositeViewport and SetScreen
Draw ==
  /\ Draws("draw")
  /\ screen' = <<[picture |-> Picture(world_render_copy), show |-> show]>>
  /\ main' = "poll"
  /\ UNCHANGED <<world_updated, updated, draw_elapsed, world_render_copy>>

\* RunMainThread returns; the other thread ends with its loop.
Leave == /\ main = "poll" /\ ~keep_running /\ main' = "left"
         /\ UNCHANGED <<serverVars, inbox, outbox, copyVars, world_updated,
                        updated, world_render_copy, keep_running, failure,
                        change, delayVars, timerVars, show, screen, inputVars>>

\* SIGINT: SignalHandler calls StartExit.
Interrupt == /\ MayInterrupt /\ keep_running /\ keep_running' = FALSE
             /\ UNCHANGED <<serverVars, inbox, outbox, copyVars, world_updated,
                            updated, world_render_copy, failure, main, change,
                            delayVars, timerVars, show, screen, inputVars>>

MainNext ==
  \/ Poll \/ ReadKey \/ Escape \/ ReadBracket \/ Bracketed \/ ReadLetter
  \/ HandleOldKey \/ HandleOwnChange
  \/ DecideFrame \/ ClearFlags \/ CopyWorld \/ Draw \/ Leave

\* An interval passes.
OnlyTime == UNCHANGED <<serverVars, inbox, outbox, copyVars, world_updated,
                        updated, world_render_copy, keep_running, failure, main,
                        change, delayVars, show, screen, inputVars>>
MoveElapses ==
  /\ ~move_elapsed /\ move_elapsed' = TRUE
  /\ UNCHANGED <<item_usage_elapsed, draw_elapsed>> /\ OnlyTime
ItemUsageElapses ==
  /\ ~item_usage_elapsed /\ item_usage_elapsed' = TRUE
  /\ UNCHANGED <<move_elapsed, draw_elapsed>> /\ OnlyTime
DrawElapses ==
  /\ ~draw_elapsed /\ draw_elapsed' = TRUE
  /\ UNCHANGED <<move_elapsed, item_usage_elapsed>> /\ OnlyTime

ClientNext ==
  \/ ServerNext \/ HandleEvent \/ MainNext \/ Interrupt
  \/ MoveElapses \/ ItemUsageElapses \/ DrawElapses
  \/ \E key \in Keys : Type(key)

ClientSpec == ClientInit /\ [][ClientNext]_clientVars

\* Both threads run, time passes, and the server sends and handles.
FairClientSpec ==
  /\ ClientSpec
  /\ WF_clientVars(MainNext) /\ WF_clientVars(HandleEvent)
  /\ WF_clientVars(MoveElapses) /\ WF_clientVars(ItemUsageElapses)
  /\ WF_clientVars(DrawElapses)
  /\ WF_clientVars(ServerHandlesPayload) /\ WF_clientVars(Broadcast)

-----------------------------------------------------------------------------
(* Properties. *)

\* The client drives the player the server made for it, and that player is in
\* every world it is sent (the assertions in HandleEvent).
OwnPlayerKept ==
  /\ failure \in {None, "refused"}
  /\ server_initialised => own_id = partner /\ own_id \in world.players

\* When all that was sent is applied and the server has sent all, the client's
\* world is the server's: who left is gone, and nothing was merged on the way.
CopyCatchesUp ==
  (server_initialised /\ inbox = <<>> /\ ~dirty) =>
    /\ [id \in world.players |-> player_objects[id]] = server.players
    /\ world = [players |-> DOMAIN server.players, walls |-> Walls,
                items |-> server.items, projectiles |-> server.projectiles]

\* Before it looks for keys, the main thread has either drawn the world as it
\* is or knows that it has to: an update that arrives between any two steps of
\* drawing is not forgotten.
ScreenShowsWorld ==
  (main = "poll" /\ failure = None /\ ~world_updated /\ ~updated) =>
    screen = <<[picture |-> Picture(world), show |-> show]>>

\* What has been typed in one go is read to its end without waiting in getchar.
\* (What is typed while other bytes wait is counted once more by each HasInput,
\* and the thread may wait for bytes that are not there.)
InputIsThere ==
  (main \in {"key", "bracket", "letter"} /\ typed <= 1) =>
    tty # <<>> \/ stdin # <<>>

\* The main thread waits in getchar.
Waits == main \in {"key", "bracket", "letter"} /\ tty = <<>> /\ stdin = <<>>

Ends == failure # None \/ ~keep_running

\* A kept key is handled when no more keys are typed, however many frames and
\* other keys come in between.
KeptKeyHandled ==
  /\ (next_move_type # None) ~> (next_move_type = None \/ Ends \/ Waits)
  /\ (next_item_usage_type # None) ~>
       (next_item_usage_type = None \/ Ends \/ Waits)

ServerPicture ==
  [walls |-> Walls, items |-> server.items, projectiles |-> server.projectiles,
   players |-> [own |-> server.players[partner],
     all |-> [p \in Player |->
       Cardinality({id \in DOMAIN server.players : server.players[id] = p})]]]

\* What the server has in its world is on the screen in the end, and stays
\* there: no update is lost between the threads, the flags and the intervals.
ScreenCatchesUp ==
  <>[](partner \notin DOMAIN server.players \/ Ends \/ Waits \/
       (screen # <<>> /\ screen[1].picture = ServerPicture))
=============================================================================
