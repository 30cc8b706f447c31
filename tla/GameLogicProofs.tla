-------------------------- MODULE GameLogicProofs --------------------------
(***************************************************************************)
(* Players stand apart from walls, from each other and from items, in a    *)
(* world of any size with any number of players: whoever is given a field  *)
(* is given one that IsBlocked or IsBlockedForItem finds free, an item is  *)
(* only ever put on a field without player, and who walks onto an item     *)
(* takes it.                                                               *)
(***************************************************************************)
EXTENDS GameLogic, TLAPS

\* PlayersApart with what it needs to be inductive: every player in the world
\* has a position.
Placed == players \subseteq Ids /\ DOMAIN position = Ids

ApartInv == Placed /\ PlayersApart

LEMMA InitApart == GameInit => ApartInv
BY DEF GameInit, ApartInv, Placed, PlayersApart

\* A player put on a field that is neither walled nor taken, on which no item
\* is left, stands apart from all others.
LEMMA PutApart ==
  ASSUME ApartInv, NEW p \in Ids, NEW field,
         field \notin Walls, field \notin DOMAIN items',
         \A q \in players \ {p} : position[q] # field,
         DOMAIN items' \subseteq DOMAIN items,
         players' \subseteq players \cup {p},
         position' = [position EXCEPT ![p] = field]
  PROVE  ApartInv'
<1>1. Placed'
  BY DEF ApartInv, Placed
<1>2. position'[p] = field /\ \A q \in Ids \ {p} : position'[q] = position[q]
  BY DEF ApartInv, Placed
<1>3. PlayersApart'
  <2>1. SUFFICES ASSUME NEW q \in players'
                 PROVE  /\ position'[q] \notin Walls
                        /\ position'[q] \notin DOMAIN items'
                        /\ \A r \in players' \ {q} : position'[r] # position'[q]
    BY DEF PlayersApart
  <2>2. CASE q = p
    BY <1>2, <2>2 DEF ApartInv, Placed
  <2>3. CASE q # p
    BY <1>2, <2>3 DEF ApartInv, Placed, PlayersApart
  <2>4. QED BY <2>2, <2>3
<1>4. QED BY <1>1, <1>3 DEF ApartInv

\* A field to spawn on is free of walls, players and items.
LEMMA SpawnApart ==
  ASSUME NEW field \in SpawnPositions
  PROVE  /\ field \notin Walls /\ field \notin DOMAIN items
         /\ \A q \in players : position[q] # field
BY DEF SpawnPositions, IsBlockedForItem, IsBlocked, PlayersAt

\* A step that moves nobody and puts no item under a player keeps him apart.
LEMMA StayApart ==
  ASSUME ApartInv, players' \subseteq players,
         \A q \in players' : position'[q] = position[q],
         DOMAIN position' = DOMAIN position,
         \A q \in players' : position[q] \notin DOMAIN items'
  PROVE  ApartInv'
BY DEF ApartInv, Placed, PlayersApart

LEMMA StepApart == ApartInv /\ [GameNext]_gameVars => ApartInv'
<1> SUFFICES ASSUME ApartInv, [GameNext]_gameVars PROVE ApartInv'
  OBVIOUS
<1>1. CASE PlayerJoins
  <2>1. CASE \E field \in SpawnPositions :
               position' = [position EXCEPT ![next_id] = field]
    <3>1. PICK field \in SpawnPositions :
            position' = [position EXCEPT ![next_id] = field]
      BY <2>1
    <3>2. next_id \in Ids /\ items' = items
      BY <1>1, <2>1 DEF PlayerJoins, NoSpace
    <3>3. players' \subseteq players \cup {next_id}
      BY <1>1 DEF PlayerJoins, NoSpace, playerVars
    <3>4. QED BY <3>1, <3>2, <3>3, SpawnApart, PutApart
  <2>2. CASE NoSpace
    BY <2>2, StayApart DEF NoSpace, playerVars, ApartInv, PlayersApart
  <2>3. QED BY <1>1, <2>1, <2>2 DEF PlayerJoins
<1>2. ASSUME NEW p \in Ids, PlayerLeaves(p) PROVE ApartInv'
  <2>1. players' = players \ {p} /\ items' = items
    BY <1>2 DEF PlayerLeaves
  <2>2. DOMAIN position' = DOMAIN position
    BY <1>2 DEF PlayerLeaves
  <2>3. \A q \in players' : position'[q] = position[q]
    BY <1>2, <2>1 DEF PlayerLeaves, ApartInv, Placed
  <2>4. QED BY <2>1, <2>2, <2>3, StayApart DEF ApartInv, PlayersApart
<1>3. ASSUME NEW p \in Ids, ResurrectPlayer(p) PROVE ApartInv'
  <2>1. players' = players /\ items' = items /\ p \in players
    BY <1>3 DEF ResurrectPlayer
  <2>2. CASE \E field \in SpawnPositions :
               position' = [position EXCEPT ![p] = field]
    BY <2>1, <2>2, SpawnApart, PutApart
  <2>3. CASE position' = position
    BY <2>1, <2>3, StayApart DEF ApartInv, PlayersApart
  <2>4. QED BY <1>3, <2>2, <2>3 DEF ResurrectPlayer
<1>4. ASSUME NEW p \in Ids, NEW d \in Directions, MovePlayer(p, d)
      PROVE  ApartInv'
  <2> DEFINE new_position == PositionFromMovement(position[p], d)
             moved == IF IsBlocked(new_position) THEN position[p]
                      ELSE new_position
  <2>1. /\ p \in players /\ players' = players
        /\ position' = [position EXCEPT ![p] = moved]
        /\ DOMAIN items' = DOMAIN items \ {moved}
    BY <1>4 DEF MovePlayer, MayAct
  <2>2. moved \notin Walls /\ \A q \in players \ {p} : position[q] # moved
    BY <2>1 DEF ApartInv, PlayersApart, IsBlocked, PlayersAt
  <2>3. QED
    <3> HIDE DEF moved
    <3> QED BY <2>1, <2>2, PutApart
<1>5. CASE GenerateItem
  <2>1. players' = players /\ position' = position
    BY <1>5 DEF GenerateItem, NoSpace, playerVars
  <2>2. \A q \in players : position[q] \notin DOMAIN items'
    <3>1. CASE NoSpace
      BY <3>1 DEF NoSpace, ApartInv, PlayersApart
    <3>2. CASE \E field \in SpawnPositions :
                 DOMAIN items' = DOMAIN items \cup {field}
      BY <3>2, SpawnApart DEF ApartInv, PlayersApart
    <3>3. QED BY <1>5, <3>1, <3>2 DEF GenerateItem
  <2>3. QED BY <2>1, <2>2, StayApart
<1>6. ASSUME UNCHANGED <<players, position, items>> PROVE ApartInv'
  BY <1>6, StayApart DEF ApartInv, PlayersApart
<1>7. CASE HandleProjectiles \/ RemoveDestroyed
  BY <1>6, <1>7 DEF HandleProjectiles, RemoveDestroyed, playerVars
<1>8. ASSUME NEW p \in Ids, NEW d \in Directions,
             Shoot(p, d) \/ Strike(p, d) \/ Turn(p, d)
      PROVE  ApartInv'
  BY <1>6, <1>8 DEF Shoot, Strike, Turn
<1>9. ASSUME NEW n \in DOMAIN projectiles, MoveProjectile(n) PROVE ApartInv'
  BY <1>6, <1>9 DEF MoveProjectile
<1>10. CASE UNCHANGED gameVars
  BY <1>6, <1>10 DEF gameVars, playerVars
<1>11. QED
  BY <1>1, <1>2, <1>3, <1>4, <1>5, <1>7, <1>8, <1>9, <1>10 DEF GameNext

\* Whatever the players and the server's timers do, in a world of any size, no
\* player ever stands in a wall, on another player or on an item.
THEOREM PlayersStandApart == GameSpec => []PlayersApart
<1>1. ApartInv => PlayersApart
  BY DEF ApartInv
<1>2. QED BY <1>1, InitApart, StepApart, PTL DEF GameSpec

-----------------------------------------------------------------------------
(* Types, with what makes them inductive. *)

\* Ids are given out in order.
IdsGiven == \A p \in players : p < next_id

\* Whoever dies, dies of one hit.
HealthBound == \A p \in Ids : health[p] > 0 - MaxHealth

\* What a projectile has flown and what it has left.
RangeKept ==
  \A n \in DOMAIN projectiles :
    projectiles[n].distance + projectiles[n].range = GunRange + 1

\* Outside its loop HandleProjectiles keeps nothing.
LoopEmpty ==
  ~handling => /\ unmoved = {} /\ destroy_projectile_list = {}
               /\ projectile_collision_list = {}

TypeInv == GameTypeOK /\ IdsGiven /\ HealthBound /\ RangeKept /\ LoopEmpty

LEMMA ConstantTypes ==
  /\ Width \in Nat \ {0} /\ Height \in Nat \ {0}
  /\ MaxId \in Nat /\ MaxHealth \in Nat \ {0} /\ GunDamage \in Nat
  /\ SwordDamage \in Nat /\ GunRange \in Nat /\ Healing \in Nat
  /\ PointsValue \in Nat /\ ScoreModulus \in Nat \ {0}
  /\ MaxProjectiles \in Nat /\ Directions \subseteq DOMAIN Movement
  /\ GunDamage <= MaxHealth /\ SwordDamage <= MaxHealth
BY GameAssumption, DamageAssumption

LEMMA MovementType ==
  ASSUME NEW d \in DOMAIN Movement
  PROVE  Movement[d][1] \in Int /\ Movement[d][2] \in Int
BY DEF Movement

\* Nobody walks or flies off the world.
LEMMA PositionType ==
  ASSUME NEW field \in Fields, NEW d \in Directions
  PROVE  PositionFromMovement(field, d) \in Fields
<1>1. /\ field[1] \in Int /\ field[2] \in Int
      /\ Movement[d][1] \in Int /\ Movement[d][2] \in Int
  BY MovementType, ConstantTypes DEF Fields
<1>2. /\ (field[1] + Movement[d][1]) % Width \in 0 .. Width - 1
      /\ (field[2] + Movement[d][2]) % Height \in 0 .. Height - 1
  BY <1>1, ConstantTypes
<1>3. QED BY <1>2 DEF PositionFromMovement, Fields

LEMMA ScoreType ==
  ASSUME NEW a \in Nat, NEW b \in Nat
  PROVE  (a + b) % ScoreModulus \in 0 .. ScoreModulus - 1
BY ConstantTypes

\* IncreaseHealth stays within max_health and never takes any.
LEMMA HealedType ==
  ASSUME NEW h \in Int, h <= MaxHealth, NEW healing \in Nat
  PROVE  /\ Healed(h, healing) \in Int /\ Healed(h, healing) <= MaxHealth
         /\ Healed(h, healing) >= h
BY ConstantTypes DEF Healed

\* MoveProjectile keeps a projectile in its bounds.
LEMMA FlownType ==
  ASSUME NEW shot \in Projectile, shot.range > 0,
         shot.distance + shot.range = GunRange + 1
  PROVE  /\ Flown(shot) \in Projectile
         /\ Flown(shot).distance + Flown(shot).range = GunRange + 1
<1>1. PositionFromMovement(shot.position, shot.direction) \in Fields
  BY PositionType DEF Projectile
<1>2. QED BY <1>1, ConstantTypes DEF Flown, Projectile

LEMMA InitType == GameInit => TypeInv
<1> SUFFICES ASSUME GameInit PROVE TypeInv
  OBVIOUS
<1> USE DEF GameInit
<1>1. position \in [Ids -> Fields] /\ direction \in [Ids -> DOMAIN Movement]
  BY ConstantTypes DEF Fields, Movement
<1>2. /\ health \in [Ids -> Int] /\ HealthBound
      /\ \A p \in Ids : health[p] <= MaxHealth
  BY ConstantTypes DEF HealthBound
<1>3. /\ score \in [Ids -> 0 .. ScoreModulus - 1]
      /\ item \in [Ids -> {"NONE", "GUN", "SWORD"}]
  BY ConstantTypes
<1>4. DOMAIN items = {} /\ DOMAIN projectiles = {}
  OBVIOUS
<1>5. next_id \in 1 .. MaxId + 1
  BY ConstantTypes
<1>6. GameTypeOK
  BY <1>1, <1>2, <1>3, <1>4, <1>5 DEF GameTypeOK
<1>7. QED
  BY <1>2, <1>4, <1>6 DEF TypeInv, IdsGiven, RangeKept, LoopEmpty

\* TypeInv, by what it is about.
PlayerTypes ==
  /\ players \subseteq Ids /\ next_id \in 1 .. MaxId + 1
  /\ position \in [Ids -> Fields] /\ direction \in [Ids -> DOMAIN Movement]
  /\ health \in [Ids -> Int] /\ \A p \in Ids : health[p] <= MaxHealth
  /\ score \in [Ids -> 0 .. ScoreModulus - 1]
  /\ item \in [Ids -> {"NONE", "GUN", "SWORD"}]
  /\ IdsGiven /\ HealthBound

LyingTypes ==
  /\ DOMAIN items \subseteq Fields
  /\ \A field \in DOMAIN items : items[field] \in ItemTypes

ShotTypes ==
  /\ DOMAIN projectiles \subseteq 1 .. MaxProjectiles
  /\ \A n \in DOMAIN projectiles : projectiles[n] \in Projectile
  /\ RangeKept

LoopTypes ==
  /\ handling \in BOOLEAN
  /\ unmoved \subseteq DOMAIN projectiles
  /\ destroy_projectile_list \subseteq DOMAIN projectiles
  /\ projectile_collision_list \subseteq
       (DOMAIN projectiles) \X (DOMAIN projectiles)
  /\ exception \in {"none", "NoSpaceException", "AssertionFailed"}
  /\ LoopEmpty

LEMMA TypeParts ==
  /\ TypeInv => PlayerTypes /\ LyingTypes /\ ShotTypes /\ LoopTypes
  /\ PlayerTypes' /\ LyingTypes' /\ ShotTypes' /\ LoopTypes' => TypeInv'
BY DEF TypeInv, GameTypeOK, PlayerTypes, LyingTypes, ShotTypes, LoopTypes

\* A part nothing of which changes stays as it is.
LEMMA TypesKept ==
  /\ PlayerTypes /\ UNCHANGED playerVars => PlayerTypes'
  /\ LyingTypes /\ UNCHANGED items => LyingTypes'
  /\ ShotTypes /\ UNCHANGED projectiles => ShotTypes'
  /\ LoopTypes /\ UNCHANGED <<projectiles, loopVars, exception>> => LoopTypes'
BY DEF PlayerTypes, IdsGiven, HealthBound, playerVars, LyingTypes, ShotTypes,
       RangeKept, LoopTypes, LoopEmpty, loopVars

\* Removing projectiles while the loop is not running.
LEMMA RemoveTypes ==
  ASSUME ShotTypes, LoopTypes, ~handling, NEW numbers,
         RemoveProjectiles(numbers), UNCHANGED <<loopVars, exception>>
  PROVE  ShotTypes' /\ LoopTypes'
BY DEF ShotTypes, RangeKept, LoopTypes, LoopEmpty, RemoveProjectiles, loopVars

\* An exception stops everything as it is.
LEMMA NoSpaceTypes == TypeInv /\ NoSpace => TypeInv'
BY TypeParts DEF NoSpace, TypeInv, GameTypeOK, IdsGiven, HealthBound, RangeKept,
   LoopEmpty, playerVars, loopVars

LEMMA JoinTypes == TypeInv /\ PlayerJoins => TypeInv'
<1> SUFFICES ASSUME TypeInv, PlayerJoins PROVE TypeInv'
  OBVIOUS
<1>1. CASE NoSpace
  BY <1>1, NoSpaceTypes
<1>2. CASE ~NoSpace
  <2>1. PICK field \in SpawnPositions :
          position' = [position EXCEPT ![next_id] = field]
    BY <1>2 DEF PlayerJoins
  <2>2. /\ next_id \in Ids /\ players' = players \cup {next_id}
        /\ next_id' = next_id + 1
        /\ UNCHANGED <<direction, health, score, item, items, projectiles,
                       loopVars, exception>>
    BY <1>2 DEF PlayerJoins
  <2>3. PlayerTypes'
    BY <2>1, <2>2, TypeParts, ConstantTypes
       DEF PlayerTypes, IdsGiven, HealthBound, SpawnPositions, Ids
  <2>4. QED BY <2>2, <2>3, TypeParts, TypesKept
<1>3. QED BY <1>1, <1>2

LEMMA LeaveTypes ==
  ASSUME TypeInv, NEW p \in Ids, PlayerLeaves(p)
  PROVE  TypeInv'
<1>1. <<0, 0>> \in Fields /\ "NORTH" \in DOMAIN Movement
  BY ConstantTypes DEF Fields, Movement
<1>2. PlayerTypes'
  BY <1>1, TypeParts, ConstantTypes
     DEF PlayerLeaves, PlayerTypes, IdsGiven, HealthBound
<1>3. QED BY <1>2, TypeParts, TypesKept DEF PlayerLeaves

LEMMA MoveTypes ==
  ASSUME TypeInv, NEW p \in Ids, NEW d \in Directions, MovePlayer(p, d)
  PROVE  TypeInv'
<1> DEFINE new_position == PositionFromMovement(position[p], d)
           moved == IF IsBlocked(new_position) THEN position[p]
                    ELSE new_position
           found == IF moved \in DOMAIN items THEN items[moved] ELSE "NONE"
           picked == IF found = "HEART" THEN Healed(health[p], Healing)
                     ELSE health[p]
           hit == {n \in ProjectilesAt(new_position) :
                     /\ n = First(ProjectilesAt(new_position))
                     /\ CanCollide(projectiles[n], p)}
           damage == IF hit = {} THEN 0 ELSE GunDamage
           points == IF found = "POINTS" THEN PointsValue ELSE 0
<1>1. /\ position' = [position EXCEPT ![p] = moved]
      /\ direction' = [direction EXCEPT ![p] = d]
      /\ items' = [field \in DOMAIN items \ {moved} |-> items[field]]
      /\ item' = IF found \in {"GUN", "SWORD"}
                 THEN [item EXCEPT ![p] = found] ELSE item
      /\ score' = [score EXCEPT ![p] = (@ + points) % ScoreModulus]
      /\ health' = [health EXCEPT ![p] = picked - damage]
      /\ UNCHANGED <<players, next_id, loopVars, exception>>
  BY DEF MovePlayer, AddScore
<1>2. ~handling /\ health[p] > 0 /\ RemoveProjectiles(hit)
  BY DEF MovePlayer, MayAct, Idle, IsAlive
<1>3. moved \in Fields
  BY PositionType, TypeParts DEF PlayerTypes
<1>4. picked \in Int /\ picked <= MaxHealth /\ picked > 0
  <2>1. health[p] \in Int /\ health[p] <= MaxHealth
    BY TypeParts DEF PlayerTypes
  <2>2. /\ Healed(health[p], Healing) \in Int
        /\ Healed(health[p], Healing) <= MaxHealth
        /\ Healed(health[p], Healing) >= health[p]
    BY <2>1, HealedType, ConstantTypes
  <2> HIDE DEF found
  <2>3. QED BY <1>2, <2>1, <2>2
<1>5. damage \in Nat /\ damage <= MaxHealth
  <2> HIDE DEF hit
  <2>1. QED BY ConstantTypes
<1>6. (score[p] + points) % ScoreModulus \in 0 .. ScoreModulus - 1
  <2> HIDE DEF found
  <2>1. score[p] \in Nat /\ points \in Nat
    BY TypeParts, ConstantTypes DEF PlayerTypes
  <2>2. QED BY <2>1, ScoreType
<1> HIDE DEF moved, found, picked, damage, points, hit
<1>7. item' \in [Ids -> {"NONE", "GUN", "SWORD"}]
  BY <1>1, TypeParts DEF PlayerTypes
<1>8. health' \in [Ids -> Int] /\ \A q \in Ids : /\ health'[q] <= MaxHealth
                                               /\ health'[q] > 0 - MaxHealth
  BY <1>1, <1>4, <1>5, TypeParts, ConstantTypes DEF PlayerTypes, HealthBound
<1>9. score' \in [Ids -> 0 .. ScoreModulus - 1]
  BY <1>1, <1>6, TypeParts DEF PlayerTypes
<1>10. PlayerTypes'
  BY <1>1, <1>3, <1>7, <1>8, <1>9, TypeParts, ConstantTypes
     DEF PlayerTypes, IdsGiven, HealthBound
<1>11. LyingTypes'
  BY <1>1, TypeParts DEF LyingTypes
<1>12. ShotTypes' /\ LoopTypes'
  BY <1>1, <1>2, RemoveTypes, TypeParts
<1>13. QED BY <1>10, <1>11, <1>12, TypeParts

\* Turning is all that happens to the player who uses his item.
LEMMA AimTypes ==
  ASSUME TypeInv, NEW p \in Ids, NEW d \in Directions, Aims(p, d),
         UNCHANGED <<players, next_id, position, health, score, item>>
  PROVE  PlayerTypes'
BY TypeParts, ConstantTypes DEF Aims, PlayerTypes, IdsGiven, HealthBound

LEMMA ShootTypes ==
  ASSUME TypeInv, NEW p \in Ids, NEW d \in Directions, Shoot(p, d)
  PROVE  TypeInv'
<1> DEFINE shot == [shooter |-> p, position |-> position[p], direction |-> d,
                    range |-> GunRange + 1, distance |-> 0]
<1>1. PlayerTypes' /\ LyingTypes'
  BY AimTypes, TypeParts, TypesKept DEF Shoot
<1>2. ~handling /\ UNCHANGED loopVars
  BY DEF Shoot, Aims, MayAct, Idle
<1>3. CASE UNCHANGED projectiles
  <2>1. exception' \in {"none", "NoSpaceException", "AssertionFailed"}
    BY TypeParts DEF Shoot, LoopTypes
  <2>2. ShotTypes' /\ LoopTypes'
    BY <1>2, <1>3, <2>1, TypeParts
       DEF ShotTypes, RangeKept, LoopTypes, LoopEmpty, loopVars
  <2>3. QED BY <1>1, <2>2, TypeParts
<1>4. ASSUME NEW n \in 1 .. MaxProjectiles,
             projectiles' = [m \in DOMAIN projectiles \cup {n} |->
                               IF m = n THEN shot ELSE projectiles[m]],
             UNCHANGED exception
      PROVE  TypeInv'
  <2>1. shot \in Projectile /\ shot.distance + shot.range = GunRange + 1
    BY TypeParts, ConstantTypes DEF PlayerTypes, Projectile
  <2> HIDE DEF shot
  <2>2. ShotTypes'
    BY <1>4, <2>1, TypeParts DEF ShotTypes, RangeKept
  <2>3. LoopTypes'
    BY <1>2, <1>4, TypeParts DEF LoopTypes, LoopEmpty, loopVars
  <2>4. QED BY <1>1, <2>2, <2>3, TypeParts
<1>5. QED BY <1>3, <1>4 DEF Shoot

LEMMA StrikeTypes ==
  ASSUME TypeInv, NEW p \in Ids, NEW d \in Directions, Strike(p, d)
  PROVE  TypeInv'
<1> DEFINE attacked == AttackedPosition(position[p], d)
<1>1. /\ ~handling /\ LyingTypes'
      /\ UNCHANGED <<players, next_id, position, item, loopVars, exception>>
  BY TypeParts, TypesKept DEF Strike, Aims, MayAct, Idle
<1>2. ShotTypes' /\ LoopTypes'
  <2>1. CASE RemoveProjectiles(ProjectilesAt(attacked))
    BY <1>1, <2>1, RemoveTypes, TypeParts
  <2>2. CASE UNCHANGED projectiles
    BY <1>1, <2>2, TypesKept, TypeParts
  <2>3. QED BY <2>1, <2>2 DEF Strike
<1>3. CASE UNCHANGED <<health, score>>
  BY <1>1, <1>2, <1>3, AimTypes, TypeParts DEF Strike
<1>4. ASSUME NEW q \in PlayersAt(attacked), IsAlive(q),
             health' = [health EXCEPT ![q] = @ - SwordDamage], AddScore(p, 1)
      PROVE  TypeInv'
  <2>1. q \in Ids /\ health[q] > 0
    BY <1>4, TypeParts DEF PlayersAt, PlayerTypes, IsAlive
  <2>2. health' \in [Ids -> Int] /\ \A r \in Ids : /\ health'[r] <= MaxHealth
                                                 /\ health'[r] > 0 - MaxHealth
    BY <1>4, <2>1, TypeParts, ConstantTypes DEF PlayerTypes, HealthBound
  <2>3. score' \in [Ids -> 0 .. ScoreModulus - 1]
    <3>1. score[p] \in Nat
      BY TypeParts, ConstantTypes DEF PlayerTypes
    <3>2. (score[p] + 1) % ScoreModulus \in 0 .. ScoreModulus - 1
      BY <3>1, ScoreType
    <3>3. QED BY <1>4, <3>2, TypeParts DEF AddScore, PlayerTypes
  <2>4. direction' \in [Ids -> DOMAIN Movement]
    BY TypeParts, ConstantTypes DEF Strike, Aims, PlayerTypes
  <2>5. PlayerTypes'
    BY <1>1, <2>2, <2>3, <2>4, TypeParts DEF PlayerTypes, IdsGiven, HealthBound
  <2>6. QED BY <1>1, <1>2, <2>5, TypeParts
<1>5. QED BY <1>3, <1>4 DEF Strike

LEMMA TurnTypes ==
  ASSUME TypeInv, NEW p \in Ids, NEW d \in Directions, Turn(p, d)
  PROVE  TypeInv'
BY AimTypes, TypeParts, TypesKept DEF Turn

LEMMA GenerateTypes == TypeInv /\ GenerateItem => TypeInv'
<1> SUFFICES ASSUME TypeInv, GenerateItem PROVE TypeInv'
  OBVIOUS
<1>1. CASE NoSpace
  BY <1>1, NoSpaceTypes
<1>2. ASSUME NEW field \in SpawnPositions, NEW type \in ItemTypes,
             items' = [f \in DOMAIN items \cup {field} |->
                         IF f = field THEN type ELSE items[f]],
             UNCHANGED <<playerVars, projectiles, loopVars, exception>>
      PROVE  TypeInv'
  <2>1. LyingTypes'
    BY <1>2, TypeParts DEF LyingTypes, SpawnPositions
  <2>2. QED BY <1>2, <2>1, TypeParts, TypesKept
<1>3. QED BY <1>1, <1>2 DEF GenerateItem

LEMMA ResurrectTypes ==
  ASSUME TypeInv, NEW p \in Ids, ResurrectPlayer(p)
  PROVE  TypeInv'
<1>1. LyingTypes' /\ ShotTypes'
  BY TypeParts, TypesKept DEF ResurrectPlayer
<1>2. LoopTypes'
  <2>1. exception' \in {"none", "NoSpaceException", "AssertionFailed"}
    BY TypeParts DEF ResurrectPlayer, LoopTypes
  <2>2. QED
    BY <2>1, TypeParts DEF ResurrectPlayer, LoopTypes, LoopEmpty, loopVars
<1>3. position' \in [Ids -> Fields]
  BY TypeParts DEF ResurrectPlayer, PlayerTypes, SpawnPositions
<1>4. /\ Healed(health[p], MaxHealth) \in Int
      /\ Healed(health[p], MaxHealth) <= MaxHealth
      /\ Healed(health[p], MaxHealth) >= health[p]
  BY HealedType, TypeParts, ConstantTypes DEF PlayerTypes
<1>5. health' \in [Ids -> Int] /\ \A q \in Ids : /\ health'[q] <= MaxHealth
                                               /\ health'[q] > 0 - MaxHealth
  BY <1>4, TypeParts, ConstantTypes
     DEF ResurrectPlayer, PlayerTypes, HealthBound
<1>6. PlayerTypes'
  BY <1>3, <1>5, TypeParts, ConstantTypes
     DEF ResurrectPlayer, PlayerTypes, IdsGiven, HealthBound
<1>7. QED BY <1>1, <1>2, <1>6, TypeParts

LEMMA HandleTypes == TypeInv /\ HandleProjectiles => TypeInv'
<1> SUFFICES ASSUME TypeInv, HandleProjectiles PROVE TypeInv'
  OBVIOUS
<1>1. LoopTypes'
  BY TypeParts DEF HandleProjectiles, LoopTypes, LoopEmpty
<1>2. QED BY <1>1, TypeParts, TypesKept DEF HandleProjectiles

LEMMA RemoveDestroyedTypes == TypeInv /\ RemoveDestroyed => TypeInv'
<1> SUFFICES ASSUME TypeInv, RemoveDestroyed PROVE TypeInv'
  OBVIOUS
<1>1. PlayerTypes' /\ LyingTypes'
  BY TypeParts, TypesKept DEF RemoveDestroyed
<1>2. ShotTypes'
  <2>1. PICK numbers : RemoveProjectiles(numbers)
    BY DEF RemoveDestroyed
  <2>2. QED BY <2>1, TypeParts DEF RemoveProjectiles, ShotTypes, RangeKept
<1>3. LoopTypes'
  <2>1. CASE handling'
    <3>1. DOMAIN projectiles' = DOMAIN projectiles
      BY <2>1 DEF RemoveDestroyed, RemoveProjectiles
    <3>2. handling /\ handling' \in BOOLEAN
      BY DEF RemoveDestroyed
    <3>3. QED BY <2>1, <3>1, <3>2, TypeParts DEF RemoveDestroyed, LoopTypes, LoopEmpty
  <2>2. CASE ~handling'
    <3>1. handling' \in BOOLEAN
      BY DEF RemoveDestroyed
    <3>2. QED BY <2>2, <3>1 DEF RemoveDestroyed, LoopTypes, LoopEmpty
  <2>3. QED BY <2>1, <2>2
<1>4. QED BY <1>1, <1>2, <1>3, TypeParts

LEMMA MoveProjectileTypes ==
  ASSUME TypeInv, NEW n \in DOMAIN projectiles, MoveProjectile(n)
  PROVE  TypeInv'
<1> DEFINE shot == Flown(projectiles[n])
<1>1. /\ handling /\ n \in unmoved /\ unmoved' = unmoved \ {n}
      /\ UNCHANGED <<players, next_id, position, direction, item, items,
                     handling, exception>>
  BY DEF MoveProjectile
<1>2. LyingTypes'
  BY <1>1, TypeParts, TypesKept
<1>3. ShotTypes' /\ DOMAIN projectiles' = DOMAIN projectiles
  <2>1. CASE UNCHANGED projectiles
    BY <2>1, TypeParts, TypesKept
  <2>2. CASE /\ projectiles[n].range > 0
             /\ projectiles' = [projectiles EXCEPT ![n] = shot]
    <3>1. shot \in Projectile /\ shot.distance + shot.range = GunRange + 1
      BY <2>2, FlownType, TypeParts DEF ShotTypes, RangeKept
    <3> HIDE DEF shot
    <3>2. QED BY <2>2, <3>1, TypeParts DEF ShotTypes, RangeKept
  <2>3. QED BY <2>1, <2>2 DEF MoveProjectile
<1>4. destroy_projectile_list' \subseteq DOMAIN projectiles
  BY TypeParts DEF MoveProjectile, LoopTypes, HitPlayer, HitWall, MeetProjectile
<1>5. projectile_collision_list'
        \subseteq (DOMAIN projectiles) \X (DOMAIN projectiles)
  BY TypeParts DEF MoveProjectile, LoopTypes, HitPlayer, HitWall, MeetProjectile
<1>6. LoopTypes'
  BY <1>1, <1>3, <1>4, <1>5, TypeParts DEF LoopTypes, LoopEmpty
<1>7. PlayerTypes'
  <2>1. CASE UNCHANGED <<health, score>>
    BY <1>1, <2>1, TypeParts, TypesKept DEF playerVars
  <2>2. CASE HitPlayer(n, shot)
    <3>1. PICK p \in ShotPlayers(shot) :
            /\ health' = [health EXCEPT ![p] = @ - GunDamage]
            /\ score' = [q \in Ids |-> IF q \in Scorers(shot, p)
                                       THEN (score[q] + 1) % ScoreModulus
                                       ELSE score[q]]
      BY <2>2 DEF HitPlayer
    <3>2. p \in Ids /\ health[p] > 0
      BY TypeParts DEF ShotPlayers, PlayersAt, PlayerTypes, IsAlive
    <3>3. health' \in [Ids -> Int] /\ \A q \in Ids : /\ health'[q] <= MaxHealth
                                                   /\ health'[q] > 0 - MaxHealth
      BY <3>1, <3>2, TypeParts, ConstantTypes DEF PlayerTypes, HealthBound
    <3>4. score' \in [Ids -> 0 .. ScoreModulus - 1]
      <4>1. \A q \in Ids : (score[q] + 1) % ScoreModulus \in 0 .. ScoreModulus - 1
        <5>1. \A q \in Ids : score[q] \in Nat
          BY TypeParts, ConstantTypes DEF PlayerTypes
        <5>2. QED BY <5>1, ScoreType
      <4>2. QED BY <3>1, <4>1, TypeParts DEF PlayerTypes
    <3>5. QED
      BY <1>1, <3>3, <3>4, TypeParts DEF PlayerTypes, IdsGiven, HealthBound
  <2>3. QED BY <2>1, <2>2 DEF MoveProjectile, HitWall, MeetProjectile
<1>8. QED BY <1>2, <1>3, <1>6, <1>7, TypeParts

LEMMA StepType == TypeInv /\ [GameNext]_gameVars => TypeInv'
<1> SUFFICES ASSUME TypeInv, [GameNext]_gameVars PROVE TypeInv'
  OBVIOUS
<1>1. CASE PlayerJoins
  BY <1>1, JoinTypes
<1>2. CASE HandleProjectiles
  BY <1>2, HandleTypes
<1>3. CASE RemoveDestroyed
  BY <1>3, RemoveDestroyedTypes
<1>4. CASE GenerateItem
  BY <1>4, GenerateTypes
<1>5. ASSUME NEW p \in Ids, PlayerLeaves(p) \/ ResurrectPlayer(p)
      PROVE  TypeInv'
  BY <1>5, LeaveTypes, ResurrectTypes
<1>6. ASSUME NEW p \in Ids, NEW d \in Directions,
             MovePlayer(p, d) \/ Shoot(p, d) \/ Strike(p, d) \/ Turn(p, d)
      PROVE  TypeInv'
  BY <1>6, MoveTypes, ShootTypes, StrikeTypes, TurnTypes
<1>7. ASSUME NEW n \in DOMAIN projectiles, MoveProjectile(n) PROVE TypeInv'
  BY <1>7, MoveProjectileTypes
<1>8. CASE UNCHANGED gameVars
  BY <1>8, TypeParts, TypesKept DEF gameVars
<1>9. QED
  BY <1>1, <1>2, <1>3, <1>4, <1>5, <1>6, <1>7, <1>8 DEF GameNext

THEOREM TypeInvariant == GameSpec => []TypeInv
BY InitType, StepType, PTL DEF GameSpec

\* In a world of any size, healths, scores, items and projectiles stay what
\* their types say: nobody leaves the world, no health exceeds max_health, no
\* score reaches 2^16, and HandleProjectiles names no projectile that is gone.
THEOREM GameTypeCorrect == GameSpec => []GameTypeOK
<1>1. TypeInv => GameTypeOK
  BY DEF TypeInv
<1>2. QED BY <1>1, TypeInvariant, PTL

-----------------------------------------------------------------------------
(* Projectiles. *)

\* A projectile in a wall is one that the loop is about to remove.
WallsHit ==
  \A n \in DOMAIN projectiles :
    projectiles[n].position \in Walls => n \in destroy_projectile_list

LEMMA InitWalls == GameInit => WallsHit
BY DEF GameInit, WallsHit

LEMMA StepWalls ==
  TypeInv /\ PlayersApart /\ WallsHit /\ [GameNext]_gameVars => WallsHit'
<1> SUFFICES ASSUME TypeInv, PlayersApart, WallsHit, [GameNext]_gameVars
             PROVE  WallsHit'
  OBVIOUS
<1>1. ASSUME UNCHANGED projectiles,
             destroy_projectile_list \subseteq destroy_projectile_list'
      PROVE  WallsHit'
  BY <1>1 DEF WallsHit
<1>2. CASE PlayerJoins \/ GenerateItem
  BY <1>1, <1>2 DEF PlayerJoins, GenerateItem, NoSpace, loopVars
<1>3. CASE HandleProjectiles
  BY <1>1, <1>3, TypeParts DEF HandleProjectiles, LoopTypes, LoopEmpty, Idle
<1>4. ASSUME NEW p \in Ids, PlayerLeaves(p) \/ ResurrectPlayer(p)
      PROVE  WallsHit'
  BY <1>1, <1>4 DEF PlayerLeaves, ResurrectPlayer, loopVars
<1>5. ASSUME NEW numbers, RemoveProjectiles(numbers),
             \A n \in destroy_projectile_list :
               n \in destroy_projectile_list' \/ n \in numbers
      PROVE  WallsHit'
  BY <1>5 DEF WallsHit, RemoveProjectiles
<1>6. CASE RemoveDestroyed
  BY <1>5, <1>6 DEF RemoveDestroyed, Destroyed
<1>7. ASSUME NEW p \in Ids, NEW d \in Directions, MovePlayer(p, d)
      PROVE  WallsHit'
  BY <1>5, <1>7 DEF MovePlayer, loopVars
<1>8. ASSUME NEW p \in Ids, NEW d \in Directions, Strike(p, d) \/ Turn(p, d)
      PROVE  WallsHit'
  BY <1>1, <1>5, <1>8 DEF Strike, Turn, loopVars
<1>9. ASSUME NEW p \in Ids, NEW d \in Directions, Shoot(p, d)
      PROVE  WallsHit'
  <2> DEFINE shot == [shooter |-> p, position |-> position[p],
                      direction |-> d, range |-> GunRange + 1, distance |-> 0]
  <2>1. shot.position \notin Walls
    BY <1>9 DEF Shoot, Aims, MayAct, PlayersApart
  <2>2. destroy_projectile_list' = destroy_projectile_list
    BY <1>9 DEF Shoot, loopVars
  <2>3. CASE UNCHANGED projectiles
    BY <1>1, <2>2, <2>3
  <2>4. ASSUME NEW n, projectiles' = [m \in DOMAIN projectiles \cup {n} |->
                                        IF m = n THEN shot ELSE projectiles[m]]
        PROVE  WallsHit'
    <3> HIDE DEF shot
    <3>1. QED BY <2>1, <2>2, <2>4 DEF WallsHit
  <2>5. QED BY <1>9, <2>3, <2>4 DEF Shoot
<1>10. ASSUME NEW n \in DOMAIN projectiles, MoveProjectile(n) PROVE WallsHit'
  <2> DEFINE shot == Flown(projectiles[n])
  <2>1. destroy_projectile_list \subseteq destroy_projectile_list'
    BY <1>10 DEF MoveProjectile, HitPlayer, HitWall, MeetProjectile
  <2>2. CASE UNCHANGED projectiles
    BY <1>1, <2>1, <2>2
  <2>3. CASE /\ projectiles' = [projectiles EXCEPT ![n] = shot]
             /\ HitPlayer(n, shot) \/ HitWall(n, shot) \/ MeetProjectile(n, shot)
    <3>1. shot.position \in Walls => n \in destroy_projectile_list'
      BY <2>3 DEF HitPlayer, HitWall, MeetProjectile
    <3> HIDE DEF shot
    <3>2. QED BY <2>1, <2>3, <3>1 DEF WallsHit
  <2>4. QED BY <1>10, <2>2, <2>3 DEF MoveProjectile
<1>11. CASE UNCHANGED gameVars
  BY <1>1, <1>11 DEF gameVars, loopVars
<1>12. QED
  BY <1>2, <1>3, <1>4, <1>6, <1>7, <1>8, <1>9, <1>10, <1>11 DEF GameNext

\* A projectile flies as far as its gun carries and no further, and none is
\* left in a wall when HandleProjectiles returns.
THEOREM ProjectilesFlyOn == GameSpec => []ProjectilesFly
<1>1. TypeInv /\ WallsHit => ProjectilesFly
  BY DEF TypeInv, RangeKept, LoopEmpty, WallsHit, ProjectilesFly
<1>2. GameSpec => []WallsHit
  BY InitWalls, StepWalls, TypeInvariant, PlayersStandApart, PTL DEF GameSpec
<1>3. QED BY <1>1, <1>2, TypeInvariant, PTL

-----------------------------------------------------------------------------
(* The dead. *)

\* A dead player is neither harmed, healed nor moved, and shoots nothing.
LEMMA StepRest ==
  ASSUME TypeInv, [GameNext]_gameVars, NEW p \in players \cap players',
         ~IsAlive(p)
  PROVE  /\ \/ health'[p] = health[p] /\ position'[p] = position[p]
            \/ IsAlive(p)' /\ item'[p] = "NONE"
         /\ \A n \in DOMAIN projectiles' \ DOMAIN projectiles :
              projectiles'[n].shooter # p
<1> DEFINE Untouched == health'[p] = health[p] /\ position'[p] = position[p]
           NoShot == \A n \in DOMAIN projectiles' \ DOMAIN projectiles :
                       projectiles'[n].shooter # p
           Woken == IsAlive(p)' /\ item'[p] = "NONE"
<1> SUFFICES (Untouched \/ Woken) /\ NoShot
  OBVIOUS
<1>1. p \in Ids /\ PlayerTypes
  BY TypeParts DEF PlayerTypes
<1>2. ASSUME UNCHANGED <<health, position>> PROVE Untouched
  BY <1>2
<1>3. ASSUME DOMAIN projectiles' \subseteq DOMAIN projectiles PROVE NoShot
  BY <1>3
<1>4. CASE PlayerJoins
  <2>1. p # next_id
    BY <1>1 DEF PlayerTypes, IdsGiven, Ids
  <2>2. QED
    BY <1>1, <1>3, <1>4, <2>1 DEF PlayerJoins, NoSpace, playerVars, PlayerTypes
<1>5. CASE HandleProjectiles \/ GenerateItem
  BY <1>2, <1>3, <1>5 DEF HandleProjectiles, GenerateItem, NoSpace, playerVars
<1>6. CASE RemoveDestroyed
  BY <1>2, <1>3, <1>6 DEF RemoveDestroyed, RemoveProjectiles, playerVars
<1>7. ASSUME NEW q \in Ids, PlayerLeaves(q) PROVE Untouched /\ NoShot
  <2>1. p # q
    BY <1>7 DEF PlayerLeaves
  <2>2. QED BY <1>1, <1>3, <1>7, <2>1 DEF PlayerLeaves, PlayerTypes
<1>8. ASSUME NEW q \in Ids, ResurrectPlayer(q)
      PROVE  (Untouched \/ Woken) /\ NoShot
  <2>1. CASE q = p
    <3>1. health'[p] = Healed(health[p], MaxHealth) /\ item'[p] = "NONE"
      BY <1>1, <1>8, <2>1 DEF ResurrectPlayer, PlayerTypes
    <3>2. Healed(health[p], MaxHealth) > 0
      BY <1>1, ConstantTypes DEF Healed, PlayerTypes, HealthBound
    <3>3. QED BY <1>3, <1>8, <3>1, <3>2 DEF ResurrectPlayer, IsAlive
  <2>2. CASE q # p
    BY <1>1, <1>3, <1>8, <2>2 DEF ResurrectPlayer, PlayerTypes
  <2>3. QED BY <2>1, <2>2
<1>9. ASSUME NEW q \in Ids, NEW d \in Directions, MovePlayer(q, d)
      PROVE  Untouched /\ NoShot
  <2>1. p # q
    BY <1>9 DEF MovePlayer, MayAct
  <2>2. health'[p] = health[p] /\ position'[p] = position[p]
    BY <1>1, <1>9, <2>1 DEF MovePlayer, PlayerTypes
  <2>3. DOMAIN projectiles' \subseteq DOMAIN projectiles
    BY <1>9 DEF MovePlayer, RemoveProjectiles
  <2>4. QED BY <1>3, <2>2, <2>3
<1>10. ASSUME NEW q \in Ids, NEW d \in Directions, Shoot(q, d)
       PROVE  Untouched /\ NoShot
  <2>1. p # q
    BY <1>10 DEF Shoot, Aims, MayAct
  <2>2. Untouched
    BY <1>10 DEF Shoot
  <2>3. \A n \in DOMAIN projectiles' \ DOMAIN projectiles :
          projectiles'[n].shooter = q
    <3>1. CASE UNCHANGED projectiles
      BY <3>1
    <3> DEFINE shot == [shooter |-> q, position |-> position[q],
                        direction |-> d, range |-> GunRange + 1,
                        distance |-> 0]
    <3>2. shot.shooter = q
      OBVIOUS
    <3>3. ASSUME NEW k, projectiles' = [m \in DOMAIN projectiles \cup {k} |->
                                          IF m = k THEN shot ELSE projectiles[m]]
          PROVE  \A n \in DOMAIN projectiles' \ DOMAIN projectiles :
                   projectiles'[n].shooter = q
      <4> HIDE DEF shot
      <4>1. QED BY <3>2, <3>3
    <3>4. QED BY <1>10, <3>1, <3>3 DEF Shoot
  <2>4. QED BY <2>1, <2>2, <2>3
<1>11. ASSUME NEW q \in Ids, NEW d \in Directions, Strike(q, d)
       PROVE  Untouched /\ NoShot
  <2>1. DOMAIN projectiles' \subseteq DOMAIN projectiles
    BY <1>11 DEF Strike, RemoveProjectiles
  <2>2. health'[p] = health[p] /\ position'[p] = position[p]
    BY <1>1, <1>11 DEF Strike, PlayerTypes
  <2>3. QED BY <1>3, <2>1, <2>2
<1>12. ASSUME NEW q \in Ids, NEW d \in Directions, Turn(q, d)
       PROVE  Untouched /\ NoShot
  BY <1>2, <1>3, <1>12 DEF Turn
<1>13. ASSUME NEW n \in DOMAIN projectiles, MoveProjectile(n)
       PROVE  Untouched /\ NoShot
  <2>1. health'[p] = health[p]
    BY <1>1, <1>13
       DEF MoveProjectile, HitPlayer, HitWall, MeetProjectile, ShotPlayers,
           PlayerTypes
  <2>2. UNCHANGED position /\ DOMAIN projectiles' \subseteq DOMAIN projectiles
    BY <1>13 DEF MoveProjectile
  <2>3. QED BY <1>3, <2>1, <2>2
<1>14. CASE UNCHANGED gameVars
  BY <1>2, <1>3, <1>14 DEF gameVars, playerVars
<1>15. QED
  BY <1>4, <1>5, <1>6, <1>7, <1>8, <1>9, <1>10, <1>11, <1>12, <1>13, <1>14
     DEF GameNext

\* Between his death and his respawn, whatever the others do, nothing happens to
\* a player and nothing comes from him; a respawn gives him his life back, since
\* no single hit costs more than max_health.
THEOREM TheDeadRest == GameSpec => DeadPlayersRest
<1>1. TypeInv /\ [GameNext]_gameVars =>
        [\A p \in players \cap players' :
           ~IsAlive(p) =>
             /\ \/ health'[p] = health[p] /\ position'[p] = position[p]
                \/ IsAlive(p)' /\ item'[p] = "NONE"
             /\ \A n \in DOMAIN projectiles' \ DOMAIN projectiles :
                  projectiles'[n].shooter # p]_gameVars
  BY StepRest
<1>2. QED BY <1>1, TypeInvariant, PTL DEF GameSpec, DeadPlayersRest

-----------------------------------------------------------------------------
(* Scores. *)

\* Nobody reaches himself with a sword.
LEMMA AttackedApart ==
  ASSUME NEW field \in Fields, NEW d \in Directions
  PROVE  AttackedPosition(field, d) # field
<1>1. field[1] \in Int /\ field[2] \in Int
  BY ConstantTypes DEF Fields
<1>2. d \in {"NORTH", "EAST", "SOUTH", "WEST"}
  BY ConstantTypes DEF Movement
<1>3. Movement[d][1] \in {-1, 1} \/ Movement[d][2] \in {-1, 1}
  BY <1>2 DEF Movement
<1>4. field[1] + Movement[d][1] # field[1] \/ field[2] + Movement[d][2] # field[2]
  BY <1>1, <1>2, <1>3, MovementType DEF Movement
<1>5. QED BY <1>4 DEF AttackedPosition

LEMMA ScoreNothing ==
  ASSUME NEW a \in 0 .. ScoreModulus - 1
  PROVE  (a + 0) % ScoreModulus = a
BY ConstantTypes

\* What ScoreEarned allows to be the reason that p's score changes.
Earned(p) ==
  \/ \E q \in Ids \ {p} : IsAlive(q) /\ health'[q] < health[q]
  \/ IsAlive(p) /\ items' # items
  \/ score'[p] = 0 /\ (~IsAlive(p) \/ p \notin players')

LEMMA StepScore ==
  ASSUME TypeInv, [GameNext]_gameVars, NEW p \in Ids, score'[p] # score[p]
  PROVE  Earned(p)
<1>1. PlayerTypes
  BY TypeParts
<1>2. ~UNCHANGED score
  OBVIOUS
<1>3. ASSUME NEW q \in Ids, PlayerLeaves(q) \/ ResurrectPlayer(q)
      PROVE  Earned(p)
  <2>1. score' = [score EXCEPT ![q] = 0] /\ (~IsAlive(q) \/ q \notin players')
    BY <1>3 DEF PlayerLeaves, ResurrectPlayer
  <2>2. QED BY <1>1, <2>1 DEF Earned, PlayerTypes
<1>4. ASSUME NEW q \in Ids, NEW d \in Directions, MovePlayer(q, d)
      PROVE  Earned(p)
  <2> DEFINE new_position == PositionFromMovement(position[q], d)
             moved == IF IsBlocked(new_position) THEN position[q]
                      ELSE new_position
             found == IF moved \in DOMAIN items THEN items[moved] ELSE "NONE"
             points == IF found = "POINTS" THEN PointsValue ELSE 0
  <2>1. /\ score' = [score EXCEPT ![q] = (@ + points) % ScoreModulus]
        /\ items' = [field \in DOMAIN items \ {moved} |-> items[field]]
        /\ IsAlive(q)
    BY <1>4 DEF MovePlayer, MayAct, AddScore
  <2> HIDE DEF moved
  <2>2. p = q
    BY <1>1, <2>1 DEF PlayerTypes
  <2>3. found = "POINTS"
    BY <1>1, <2>1, <2>2, ScoreNothing DEF PlayerTypes
  <2>4. moved \in DOMAIN items
    BY <2>3
  <2>5. items' # items
    BY <2>1, <2>4
  <2>6. QED BY <2>1, <2>2, <2>5 DEF Earned
<1>5. ASSUME NEW q \in Ids, NEW d \in Directions, Strike(q, d)
      PROVE  Earned(p)
  <2>1. PICK r \in PlayersAt(AttackedPosition(position[q], d)) :
          /\ IsAlive(r) /\ AddScore(q, 1)
          /\ health' = [health EXCEPT ![r] = @ - SwordDamage]
    BY <1>2, <1>5 DEF Strike
  <2>2. p = q
    BY <1>1, <2>1 DEF AddScore, PlayerTypes
  <2>3. r \in Ids /\ r # q
    BY <1>1, <2>1, AttackedApart DEF PlayersAt, PlayerTypes
  <2>4. health'[r] < health[r]
    BY <1>1, <2>1, <2>3, GameAssumption DEF PlayerTypes
  <2>5. QED BY <2>1, <2>2, <2>3, <2>4 DEF Earned
<1>6. ASSUME NEW n \in DOMAIN projectiles, MoveProjectile(n) PROVE Earned(p)
  <2> DEFINE shot == Flown(projectiles[n])
  <2>1. HitPlayer(n, shot)
    BY <1>2, <1>6 DEF MoveProjectile, HitWall, MeetProjectile
  <2>2. PICK q \in ShotPlayers(shot) :
          /\ health' = [health EXCEPT ![q] = @ - GunDamage]
          /\ score' = [r \in Ids |-> IF r \in Scorers(shot, q)
                                     THEN (score[r] + 1) % ScoreModulus
                                     ELSE score[r]]
    BY <2>1 DEF HitPlayer
  <2>3. p # q
    BY <2>2 DEF Scorers
  <2>4. q \in Ids /\ IsAlive(q) /\ health'[q] < health[q]
    BY <1>1, <2>2, GameAssumption DEF ShotPlayers, PlayersAt, PlayerTypes
  <2>5. QED BY <2>3, <2>4 DEF Earned
<1>7. QED
  BY <1>2, <1>3, <1>4, <1>5, <1>6
     DEF GameNext, PlayerJoins, HandleProjectiles, RemoveDestroyed, GenerateItem,
         NoSpace, Shoot, Turn, playerVars, gameVars

\* Nobody earns points but by harming a living player other than himself or by
\* picking something up, however many projectiles he shoots.
THEOREM ScoresAreEarned == GameSpec => ScoreEarned
<1>1. TypeInv /\ [GameNext]_gameVars =>
        [\A p \in Ids :
           score'[p] # score[p] =>
             \/ \E q \in Ids \ {p} : IsAlive(q) /\ health'[q] < health[q]
             \/ IsAlive(p) /\ items' # items
             \/ score'[p] = 0 /\ (~IsAlive(p) \/ p \notin players')]_gameVars
  BY StepScore DEF Earned
<1>2. QED BY <1>1, TypeInvariant, PTL DEF GameSpec, ScoreEarned
=============================================================================
