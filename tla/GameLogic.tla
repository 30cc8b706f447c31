------------------------------ MODULE GameLogic ------------------------------
(***************************************************************************)
(* The server's World and the rules that change it: GameLogic.cpp,         *)
(* world/World.cpp, Player.cpp, Projectile.cpp, Spawner.cpp, the items and *)
(* the calls GameServer::RunIteration makes.  The server is one thread; it *)
(* takes the clients' changes in any order and number between two of its   *)
(* own, timed, steps.  HandleProjectiles, a loop over the projectiles with *)
(* removals at its end, takes one step per projectile.                     *)
(*                                                                         *)
(* Left out: names, colours, statistics and the coloured fields, which are *)
(* only drawn.                                                             *)
(***************************************************************************)
EXTENDS Integers, FiniteSets

CONSTANTS
  Width, Height,      \* the size of the world, a torus
  Walls,              \* its walled fields
  MaxId,              \* clients that ever connect: a bound
  MaxPlayers,         \* max_player_count, 25
  MaxHealth,          \* 8
  GunDamage,          \* 1, of every gun
  GunRange,           \* 20, of every gun
  SwordDamage,        \* 2
  Healing,            \* 1
  PointsValue,        \* 10
  ScoreModulus,       \* 2^16
  MaxItems,           \* max_items_in_world, 40
  MaxProjectiles,     \* shots until no projectile is left: a bound
  ItemTypes,          \* the items generated: all four
  Directions,         \* the directions used: all four
  ReadsFreedNodes     \* whether the freed list nodes that HandleProjectiles
                      \* reads hold other elements

Ids == 1 .. MaxId
Fields == (0 .. Width - 1) \X (0 .. Height - 1)
Movement == [NORTH |-> <<0, -1>>, EAST |-> <<1, 0>>,
             SOUTH |-> <<0, 1>>, WEST |-> <<-1, 0>>]

ASSUME GameAssumption ==
  /\ Width \in Nat \ {0} /\ Height \in Nat \ {0} /\ Walls \subseteq Fields
  /\ MaxId \in Nat /\ MaxPlayers \in Nat /\ MaxHealth \in Nat \ {0}
  /\ GunDamage \in Nat \ {0} /\ SwordDamage \in Nat \ {0} /\ GunRange \in Nat
  /\ Healing \in Nat /\ PointsValue \in Nat /\ ScoreModulus \in Nat \ {0}
  /\ MaxItems \in Nat /\ MaxProjectiles \in Nat
  /\ ItemTypes \subseteq {"GUN", "SWORD", "HEART", "POINTS"}
  /\ Directions \subseteq DOMAIN Movement
  /\ ReadsFreedNodes \in BOOLEAN

\* One hit costs no more than all of a player's health: 1 and 2 of 8.
ASSUME DamageAssumption == GunDamage <= MaxHealth /\ SwordDamage <= MaxHealth

VARIABLES
  players,      \* the ids in world.players
  next_id,      \* the next partner id
  position, direction, health, score, item,   \* of each player
  items,        \* the items that lie in the world, by field
  projectiles,  \* the list, a function from numbers that grow along it
  handling,     \* HandleProjectiles is in its loop
  unmoved,      \* projectiles its loop has not come to
  destroy_projectile_list,
  projectile_collision_list,
  exception     \* what has ended the server

playerVars == <<players, next_id, position, direction, health, score, item>>
loopVars == <<handling, unmoved, destroy_projectile_list,
              projectile_collision_list>>
gameVars == <<playerVars, items, projectiles, loopVars, exception>>

Projectile == [shooter : Ids, position : Fields, direction : Directions,
               range : 0 .. GunRange + 1, distance : 0 .. GunRange + 1]

\* Between two calls of the server's loop.
Idle == exception = "none" /\ ~handling

-----------------------------------------------------------------------------
(* World. *)

IsAlive(p) == health[p] > 0

PlayersAt(field) == {p \in players : position[p] = field}

IsBlocked(field) == field \in Walls \/ PlayersAt(field) # {}

\* Mutant: as IsBlocked, the items are forgotten.
IsBlockedForItemNoItems(field) == IsBlocked(field)

IsBlockedForItem(field) == IsBlocked(field) \/ field \in DOMAIN items

\* GenerateSpawnPosition: a random field, or the next that is free.
SpawnPositions == {field \in Fields : ~IsBlockedForItem(field)}

\* The loop over the fields has come round.
NoSpace ==
  /\ SpawnPositions = {}
  /\ exception' = "NoSpaceException"
  /\ UNCHANGED <<playerVars, items, projectiles, loopVars>>

ProjectilesAt(field) ==
  {n \in DOMAIN projectiles : projectiles[n].position = field}

\* find_if: the first in the list.
First(numbers) == CHOOSE n \in numbers : \A m \in numbers : n <= m

RemoveProjectiles(numbers) ==
  projectiles' = [n \in DOMAIN projectiles \ numbers |-> projectiles[n]]

\* The number of the next push_back.
PushBack(n) ==
  /\ n \in 1 .. MaxProjectiles
  /\ \A m \in DOMAIN projectiles : m < n
  /\ n = 1 \/ n - 1 \in DOMAIN projectiles

PositionFromMovement(field, d) ==
  <<(field[1] + Movement[d][1]) % Width, (field[2] + Movement[d][2]) % Height>>

\* Not wrapped at the border.
AttackedPosition(field, d) ==
  <<field[1] + Movement[d][1], field[2] + Movement[d][2]>>

\* CanCollideWithPlayer: the shooter is safe from a fresh shot.
CanCollide(shot, p) == p # shot.shooter \/ shot.distance > 2

AddScore(p, points) ==
  score' = [score EXCEPT ![p] = (@ + points) % ScoreModulus]

\* Mutant: max_health is forgotten.
HealedAlways(h, healing) == h + healing

\* IncreaseHealth
Healed(h, healing) ==
  IF h + healing > MaxHealth THEN MaxHealth ELSE h + healing

-----------------------------------------------------------------------------
GameInit ==
  /\ players = {} /\ next_id = 1
  /\ position = [p \in Ids |-> <<0, 0>>]
  /\ direction = [p \in Ids |-> "NORTH"]
  /\ health = [p \in Ids |-> MaxHealth]
  /\ score = [p \in Ids |-> 0]
  /\ item = [p \in Ids |-> "NONE"]
  /\ items = [field \in {} |-> "NONE"]
  /\ projectiles = [n \in {} |-> 0]
  /\ handling = FALSE /\ unmoved = {}
  /\ destroy_projectile_list = {} /\ projectile_collision_list = {}
  /\ exception = "none"

(* GameServer: CONNECT and DISCONNECT. *)

\* A client the server takes gets the next id, which no other player had.
PlayerJoins ==
  /\ Idle /\ next_id \in Ids /\ Cardinality(players) < MaxPlayers
  /\ \/ /\ \E field \in SpawnPositions :
             position' = [position EXCEPT ![next_id] = field]
        /\ players' = players \cup {next_id}
        /\ next_id' = next_id + 1
        /\ UNCHANGED <<direction, health, score, item, items, projectiles,
                       loopVars, exception>>
     \/ NoSpace

\* A player who leaves is forgotten; his projectiles fly on.
PlayerLeaves(p) ==
  /\ Idle /\ p \in players
  /\ players' = players \ {p}
  /\ position' = [position EXCEPT ![p] = <<0, 0>>]
  /\ direction' = [direction EXCEPT ![p] = "NORTH"]
  /\ health' = [health EXCEPT ![p] = MaxHealth]
  /\ score' = [score EXCEPT ![p] = 0]
  /\ item' = [item EXCEPT ![p] = "NONE"]
  /\ UNCHANGED <<next_id, items, projectiles, loopVars, exception>>

-----------------------------------------------------------------------------
(* HandleChange. *)

\* Mutant: the dead may act.
MayActAlways(p) == Idle /\ p \in players

\* A change of a living player.
MayAct(p) == Idle /\ p \in players /\ IsAlive(p)

\* MOVE_UP and the like.  What lies on the player's field is picked up; the
\* first projectile on the field he moved to, or could not move to, hits him.
MovePlayer(p, d) ==
  LET new_position == PositionFromMovement(position[p], d)
      moved == IF IsBlocked(new_position) THEN position[p] ELSE new_position
      found == IF moved \in DOMAIN items THEN items[moved] ELSE "NONE"
      picked == IF found = "HEART" THEN Healed(health[p], Healing)
                ELSE health[p]
      hit == {n \in ProjectilesAt(new_position) :
                /\ n = First(ProjectilesAt(new_position))
                /\ CanCollide(projectiles[n], p)}
  IN /\ MayAct(p)
     /\ position' = [position EXCEPT ![p] = moved]
     /\ direction' = [direction EXCEPT ![p] = d]
     /\ items' = [field \in DOMAIN items \ {moved} |-> items[field]]
     /\ item' = IF found \in {"GUN", "SWORD"}
                THEN [item EXCEPT ![p] = found] ELSE item
     /\ AddScore(p, IF found = "POINTS" THEN PointsValue ELSE 0)
     /\ health' = [health EXCEPT
                     ![p] = picked - IF hit = {} THEN 0 ELSE GunDamage]
     /\ RemoveProjectiles(hit)
     /\ UNCHANGED <<players, next_id, loopVars, exception>>

\* USE_ITEM, in the player's direction, and USE_UP and the like.
Aims(p, d) ==
  /\ MayAct(p)
  /\ direction' = [direction EXCEPT ![p] = d]

\* A projectile that is on the list already, as far as AddProjectile looks.
Merged(shot) ==
  LET there == ProjectilesAt(shot.position)
  IN there # {} /\ projectiles[First(there)].direction = shot.direction

\* UseWeapon, GUN: AddProjectile adds no second shot of the same player, and
\* asserts that it is his.
Shoot(p, d) ==
  LET shot == [shooter |-> p, position |-> position[p], direction |-> d,
               range |-> GunRange + 1, distance |-> 0]
  IN /\ Aims(p, d) /\ item[p] = "GUN"
     /\ \/ /\ ~Merged(shot)
           /\ \E n \in 1 .. MaxProjectiles :
                /\ PushBack(n)
                /\ projectiles' =
                     [m \in DOMAIN projectiles \cup {n} |->
                        IF m = n THEN shot ELSE projectiles[m]]
           /\ UNCHANGED exception
        \/ /\ Merged(shot)
           /\ exception' =
                IF projectiles[First(ProjectilesAt(position[p]))].shooter = p
                THEN "none" ELSE "AssertionFailed"
           /\ UNCHANGED projectiles
     /\ UNCHANGED <<players, next_id, position, health, score, item, items,
                    loopVars>>

\* UseWeapon, SWORD: the player on the attacked field, or the projectiles
\* there; nothing happens to them when he is dead.
Strike(p, d) ==
  LET attacked == AttackedPosition(position[p], d)
  IN /\ Aims(p, d) /\ item[p] = "SWORD"
     /\ \/ /\ PlayersAt(attacked) = {}
           /\ RemoveProjectiles(ProjectilesAt(attacked))
           /\ UNCHANGED <<health, score>>
        \/ \E q \in PlayersAt(attacked) :
             /\ IsAlive(q)
             /\ health' = [health EXCEPT ![q] = @ - SwordDamage]
             /\ AddScore(p, 1)
             /\ RemoveProjectiles(ProjectilesAt(attacked))
        \/ \E q \in PlayersAt(attacked) :
             /\ ~IsAlive(q)
             /\ UNCHANGED <<health, score, projectiles>>
     /\ UNCHANGED <<players, next_id, position, item, items, loopVars,
                    exception>>

\* Without a weapon he only turns.
Turn(p, d) ==
  /\ Aims(p, d) /\ item[p] = "NONE"
  /\ UNCHANGED <<players, next_id, position, health, score, item, items,
                 projectiles, loopVars, exception>>

-----------------------------------------------------------------------------
(* HandleProjectiles. *)

\* The copy of the list is taken; an empty one is handled by doing nothing.
HandleProjectiles ==
  /\ Idle /\ DOMAIN projectiles # {}
  /\ handling' = TRUE /\ unmoved' = DOMAIN projectiles
  /\ destroy_projectile_list' = {} /\ projectile_collision_list' = {}
  /\ UNCHANGED <<playerVars, items, projectiles, exception>>

\* MoveProjectile: SetPosition and DecreaseRange.
Flown(shot) ==
  [shooter |-> shot.shooter, direction |-> shot.direction,
   position |-> PositionFromMovement(shot.position, shot.direction),
   range |-> shot.range - 1, distance |-> shot.distance + 1]

\* Mutant: the dead are hit too.
ShotPlayersDead(shot) ==
  {p \in PlayersAt(shot.position) : CanCollide(shot, p)}

\* The players a projectile can harm where it has come.
ShotPlayers(shot) ==
  {p \in PlayersAt(shot.position) : IsAlive(p) /\ CanCollide(shot, p)}

\* The shooter, if he is still there and has not hit himself.
Scorers(shot, p) == ({shot.shooter} \cap players) \ {p}

\* HandleProjectileCollisionWithPlayer, when there is one to be harmed.
HitPlayer(n, shot) ==
  \E p \in ShotPlayers(shot) :
    /\ health' = [health EXCEPT ![p] = @ - GunDamage]
    /\ score' = [q \in Ids |-> IF q \in Scorers(shot, p)
                               THEN (score[q] + 1) % ScoreModulus
                               ELSE score[q]]
    /\ destroy_projectile_list' = destroy_projectile_list \cup {n}
    /\ UNCHANGED projectile_collision_list

\* ... or a wall.
HitWall(n, shot) ==
  /\ ShotPlayers(shot) = {} /\ shot.position \in Walls
  /\ destroy_projectile_list' = destroy_projectile_list \cup {n}
  /\ UNCHANGED <<health, score, projectile_collision_list>>

\* Otherwise the first projectile on the field is looked for, n itself
\* included.  GetProjectiles returns a copy, so the search ends in a list that
\* no longer exists: which element is read from its node depends on the
\* allocator, with g++ and glibc on the length of the list from four elements
\* on.
MeetProjectile(n, shot) ==
  LET there == ProjectilesAt(shot.position) \cup {n}
  IN /\ ShotPlayers(shot) = {} /\ shot.position \notin Walls
     /\ \E m \in DOMAIN projectiles :
          /\ m = First(there) \/ ReadsFreedNodes
          /\ projectile_collision_list' =
               IF m = n \/ m \in destroy_projectile_list
               THEN projectile_collision_list
               ELSE projectile_collision_list \cup {<<n, m>>}
     /\ UNCHANGED <<health, score, destroy_projectile_list>>

\* One turn of the loop.
MoveProjectile(n) ==
  /\ handling /\ exception = "none"
  /\ n \in unmoved /\ n = First(unmoved)
  /\ unmoved' = unmoved \ {n}
  /\ \/ /\ projectiles[n].range = 0
        /\ destroy_projectile_list' = destroy_projectile_list \cup {n}
        /\ UNCHANGED <<health, score, projectiles, projectile_collision_list>>
     \/ /\ projectiles[n].range > 0
        /\ projectiles' = [projectiles EXCEPT ![n] = Flown(@)]
        /\ \/ HitPlayer(n, Flown(projectiles[n]))
           \/ HitWall(n, Flown(projectiles[n]))
           \/ MeetProjectile(n, Flown(projectiles[n]))
  /\ UNCHANGED <<players, next_id, position, direction, item, items, handling,
                 exception>>

Opposite(d) == CASE d = "NORTH" -> "SOUTH" [] d = "SOUTH" -> "NORTH"
                 [] d = "WEST" -> "EAST" [] d = "EAST" -> "WEST"

\* HandleProjectileCollision: on the same field both are destroyed, after
\* passing each other the first.
Collided(n, m) ==
  IF projectiles[n].position = projectiles[m].position THEN {n, m}
  ELSE IF projectiles[n].direction = Opposite(projectiles[m].direction)
       THEN {n} ELSE {}

\* What HandleProjectileCollision asserts AddProjectile to have prevented.
SameShot(n, m) ==
  /\ projectiles[n].position = projectiles[m].position
  /\ projectiles[n].direction = projectiles[m].direction
  /\ projectiles[n].shooter = projectiles[m].shooter

\* Mutant: destroy_projectile_list is forgotten.
DestroyedByCollision ==
  UNION {Collided(pair[1], pair[2]) : pair \in projectile_collision_list}

\* The projectiles the loop has found to be removed.
Destroyed ==
  destroy_projectile_list
    \cup UNION {Collided(pair[1], pair[2]) : pair \in projectile_collision_list}

\* After the loop; a failed assertion ends the server before the removals.
RemoveDestroyed ==
  /\ handling /\ exception = "none" /\ unmoved = {}
  /\ handling' = \E pair \in projectile_collision_list : SameShot(pair[1], pair[2])
  /\ exception' = IF handling' THEN "AssertionFailed" ELSE "none"
  /\ RemoveProjectiles(IF handling' THEN {} ELSE Destroyed)
  /\ destroy_projectile_list' = IF handling' THEN destroy_projectile_list ELSE {}
  /\ projectile_collision_list' =
       IF handling' THEN projectile_collision_list ELSE {}
  /\ UNCHANGED <<playerVars, items, unmoved>>

-----------------------------------------------------------------------------
(* The other timed calls of RunIteration. *)

GenerateItem ==
  /\ Idle /\ Cardinality(DOMAIN items) # MaxItems
  /\ \/ \E field \in SpawnPositions, type \in ItemTypes :
          /\ items' = [f \in DOMAIN items \cup {field} |->
                         IF f = field THEN type ELSE items[f]]
          /\ UNCHANGED <<playerVars, projectiles, loopVars, exception>>
     \/ NoSpace

\* HandlePlayerRespawn, respawn_time after the death, and World's
\* ResurrectPlayer, which looks for a field last.
ResurrectPlayer(p) ==
  /\ Idle /\ p \in players /\ ~IsAlive(p)
  /\ health' = [health EXCEPT ![p] = Healed(@, MaxHealth)]
  /\ item' = [item EXCEPT ![p] = "NONE"]
  /\ score' = [score EXCEPT ![p] = 0]
  /\ \/ /\ \E field \in SpawnPositions :
             position' = [position EXCEPT ![p] = field]
        /\ UNCHANGED exception
     \/ /\ SpawnPositions = {}
        /\ exception' = "NoSpaceException"
        /\ UNCHANGED position
  /\ UNCHANGED <<players, next_id, direction, items, projectiles, loopVars>>

GameNext ==
  \/ PlayerJoins
  \/ HandleProjectiles
  \/ RemoveDestroyed
  \/ GenerateItem
  \/ \E p \in Ids : PlayerLeaves(p) \/ ResurrectPlayer(p)
  \/ \E p \in Ids, d \in Directions :
       MovePlayer(p, d) \/ Shoot(p, d) \/ Strike(p, d) \/ Turn(p, d)
  \/ \E n \in DOMAIN projectiles : MoveProjectile(n)

GameSpec == GameInit /\ [][GameNext]_gameVars

-----------------------------------------------------------------------------
(* Properties. *)

GameTypeOK ==
  /\ players \subseteq Ids /\ next_id \in 1 .. MaxId + 1
  /\ position \in [Ids -> Fields] /\ direction \in [Ids -> DOMAIN Movement]
  /\ health \in [Ids -> Int] /\ \A p \in Ids : health[p] <= MaxHealth
  /\ score \in [Ids -> 0 .. ScoreModulus - 1]
  /\ item \in [Ids -> {"NONE", "GUN", "SWORD"}]
  /\ DOMAIN items \subseteq Fields
  /\ \A field \in DOMAIN items : items[field] \in ItemTypes
  /\ DOMAIN projectiles \subseteq 1 .. MaxProjectiles
  /\ \A n \in DOMAIN projectiles : projectiles[n] \in Projectile
  /\ handling \in BOOLEAN
  /\ unmoved \subseteq DOMAIN projectiles
  /\ destroy_projectile_list \subseteq DOMAIN projectiles
  /\ projectile_collision_list \subseteq
       (DOMAIN projectiles) \X (DOMAIN projectiles)
  /\ exception \in {"none", "NoSpaceException", "AssertionFailed"}

\* game_world_rules.md: players can walk neither through walls nor through
\* other players, dead ones included - whoever moves, joins or respawns; and
\* nobody stands on an item he has not picked up.
PlayersApart ==
  \A p \in players :
    /\ position[p] \notin Walls
    /\ position[p] \notin DOMAIN items
    /\ \A q \in players \ {p} : position[q] # position[p]

\* game_world_rules.md: points can be obtained by hitting other players, and
\* by picking up POINTS; otherwise a score is only reset, by a respawn or when
\* its player leaves.
ScoreEarned ==
  [][\A p \in Ids :
       score'[p] # score[p] =>
         \/ \E q \in Ids \ {p} : IsAlive(q) /\ health'[q] < health[q]
         \/ IsAlive(p) /\ items' # items
         \/ score'[p] = 0 /\ (~IsAlive(p) \/ p \notin players')]_gameVars

\* game_world_rules.md: dead players can not invoke any changes to the world,
\* and nothing harms or moves them until they respawn without a weapon.
DeadPlayersRest ==
  [][\A p \in players \cap players' :
       ~IsAlive(p) =>
         /\ \/ health'[p] = health[p] /\ position'[p] = position[p]
            \/ IsAlive(p)' /\ item'[p] = "NONE"
         /\ \A n \in DOMAIN projectiles' \ DOMAIN projectiles :
              projectiles'[n].shooter # p]_gameVars

\* A projectile flies GunRange + 1 fields at most, and none rests in a wall.
ProjectilesFly ==
  \A n \in DOMAIN projectiles :
    /\ projectiles[n].distance + projectiles[n].range = GunRange + 1
    /\ ~handling => projectiles[n].position \notin Walls
=============================================================================
