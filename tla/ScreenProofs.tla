---------------------------- MODULE ScreenProofs ----------------------------
(***************************************************************************)
(* What a client shows, for every size of the world, of the viewport, of   *)
(* blocks and tables, and for all players and contents that the rules      *)
(* allow: the frame is composed of the world and what lies over it alone,  *)
(* every field of the viewport shows what is there on the ring, nothing    *)
(* reaches out of the frame, and the terminal shows the frame.             *)
(***************************************************************************)
EXTENDS Screen, FoldLemmas

-----------------------------------------------------------------------------
(***************************************************************************)
(* The generated world, whatever its size, the noise and the sizes of its  *)
(* buildings: free edges, and doors that lead somewhere.                   *)
(***************************************************************************)

\* A building that stands: wide and high enough for a room, not in the last
\* column or row, and its room is free.
Stands(b) ==
  /\ b.start \in Nat \X Nat /\ b.end \in Nat \X Nat
  /\ \A i \in 1 .. 2 : b.start[i] + 3 <= b.end[i] /\ b.end[i] < WorldSize[i]
  /\ Inside(b, 1) \cap DOMAIN walls = {}

GeneratorInv ==
  /\ DOMAIN walls \subseteq Positions
  /\ EdgesStayFree
  /\ generating = "height" => building = NoBuilding
  /\ building # NoBuilding => Stands(building)

-----------------------------------------------------------------------------
LEMMA LeastIsZero ==
  ASSUME NEW S \in SUBSET Nat, 0 \in S
  PROVE  Min(S) = 0
<1>1. \A x \in S : x >= 0
  OBVIOUS
<1>2. \A x \in S : (\A y \in S : x <= y) => x = 0
  OBVIOUS
<1> QED BY <1>1, <1>2 DEF Min

LEMMA NothingSmoothed ==
  ASSUME NEW n \in Nat \ {0}, NEW z \in Int
  PROVE  (z * 0) \div n = 0
OBVIOUS

\* The last column and the last row are smoothed to nothing.
LEMMA EdgesAreEmpty ==
  ASSUME NEW noise \in Noises, NEW p \in Positions,
         p[1] = WorldSize[1] - 1 \/ p[2] = WorldSize[2] - 1
  PROVE  GetType(Height(noise, p)) = "EMPTY_BLOCK"
<1> DEFINE distance == Min({p[1], WorldSize[1] - p[1] - 1,
                            p[2], WorldSize[2] - p[2] - 1})
<1>1. p[1] \in Nat /\ p[2] \in Nat /\ WorldSize[1] \in Nat /\ WorldSize[2] \in Nat
      /\ p[1] < WorldSize[1] /\ p[2] < WorldSize[2]
  BY GeneratorAssumption DEF Positions
<1>2. distance = 0
  <2> DEFINE distances == {p[1], WorldSize[1] - p[1] - 1,
                           p[2], WorldSize[2] - p[2] - 1}
  <2>1. distances \in SUBSET Nat /\ 0 \in distances
    BY <1>1
  <2> HIDE DEF distances
  <2>2. Min(distances) = 0
    BY <2>1, LeastIsZero
  <2> QED
    BY <2>2 DEF distances
<1>3. noise[p] \in Int
  BY HeightAssumption
<1>4. Height(noise, p) = 0
  BY <1>2, <1>3, NothingSmoothed, GeneratorAssumption DEF Height
<1>5. {h \in DOMAIN HeightTypes : h <= 0} = {}
  BY HeightAssumption
<1> QED BY <1>4, <1>5 DEF GetType

-----------------------------------------------------------------------------
LEMMA InitInv == GeneratorInit => GeneratorInv
BY DEF GeneratorInit, GeneratorInv, EdgesStayFree

LEMMA HeightInv ==
  ASSUME GeneratorInv, GenerateHeight
  PROVE  GeneratorInv'
<1> PICK noise \in Noises :
      LET rock == {p \in Positions : GetType(Height(noise, p)) # "EMPTY_BLOCK"}
      IN walls' = [p \in rock |-> GetType(Height(noise, p))]
  BY DEF GenerateHeight
<1> DEFINE rock == {p \in Positions : GetType(Height(noise, p)) # "EMPTY_BLOCK"}
<1>1. DOMAIN walls' = rock
  OBVIOUS
<1>2. \A p \in rock : p[1] # WorldSize[1] - 1 /\ p[2] # WorldSize[2] - 1
  BY EdgesAreEmpty
<1>3. \A p \in rock : p[1] < WorldSize[1] - 1 /\ p[2] < WorldSize[2] - 1
  BY <1>2, GeneratorAssumption DEF Positions
<1>4. EdgesStayFree'
  BY <1>1, <1>3 DEF EdgesStayFree
<1>5. building' = NoBuilding
  BY DEF GeneratorInv, GenerateHeight
<1> QED
  BY <1>1, <1>4, <1>5 DEF GeneratorInv

LEMMA BuildingInv ==
  ASSUME GeneratorInv, GenerateBuilding
  PROVE  GeneratorInv'
<1> PICK x \in StartRange(1), y \in StartRange(2),
         w \in building_size_min[1] .. building_size_max[1],
         h \in building_size_min[2] .. building_size_max[2] :
      LET b == [start |-> <<x, y>>, end |-> <<x + w, y + h>>]
      IN /\ building' = b
         /\ walls' = [p \in (DOMAIN walls \cup Inside(b, 0)) \ Inside(b, 1) |->
                        IF p \in Inside(b, 0) THEN "WALL_BRICK" ELSE walls[p]]
  BY DEF GenerateBuilding
<1> DEFINE b == [start |-> <<x, y>>, end |-> <<x + w, y + h>>]
<1>1. DOMAIN walls' = (DOMAIN walls \cup Inside(b, 0)) \ Inside(b, 1)
  OBVIOUS
<1>2. /\ x \in Nat /\ y \in Nat /\ w \in Nat /\ h \in Nat
      /\ WorldSize[1] \in Nat /\ WorldSize[2] \in Nat
      /\ w >= 3 /\ h >= 3
      /\ x + w < WorldSize[1] /\ y + h < WorldSize[2]
  BY GeneratorAssumption DEF StartRange
<1>3. Stands(b)'
  BY <1>1, <1>2 DEF Stands
<1>4. \A p \in Inside(b, 0) :
        p \in Positions /\ p[1] < WorldSize[1] - 1 /\ p[2] < WorldSize[2] - 1
  BY <1>2 DEF Inside, Positions
<1>5. DOMAIN walls' \subseteq Positions /\ EdgesStayFree'
  BY <1>1, <1>4 DEF GeneratorInv, EdgesStayFree
<1>6. generating' = "buildings"
  BY DEF GenerateBuilding
<1> QED
  BY <1>3, <1>5, <1>6 DEF GeneratorInv

LEMMA DoorsInv ==
  ASSUME GeneratorInv, GenerateDoors
  PROVE  GeneratorInv'
<1>1. DOMAIN walls' \subseteq DOMAIN walls
  BY DEF GenerateDoors, Restrict
<1>2. building' = NoBuilding
  BY DEF GenerateDoors
<1> QED
  BY <1>1, <1>2 DEF GeneratorInv, EdgesStayFree

LEMMA StepInv ==
  ASSUME GeneratorInv, [GeneratorNext]_generatorVars
  PROVE  GeneratorInv'
<1>1. CASE GenerateHeight
  BY <1>1, HeightInv
<1>2. CASE GenerateBuilding
  BY <1>2, BuildingInv
<1>3. CASE GenerateDoors
  BY <1>3, DoorsInv
<1>4. CASE GenerateWorldReturns
  BY <1>4 DEF GenerateWorldReturns, GeneratorInv, EdgesStayFree, Stands, Inside
<1>5. CASE UNCHANGED generatorVars
  BY <1>5 DEF generatorVars, GeneratorInv, EdgesStayFree, Stands, Inside
<1> QED
  BY <1>1, <1>2, <1>3, <1>4, <1>5 DEF GeneratorNext

THEOREM GeneratorInvariant == GeneratorSpec => []GeneratorInv
<1>1. GeneratorInit => GeneratorInv
  BY InitInv
<1>2. GeneratorInv /\ [GeneratorNext]_generatorVars => GeneratorInv'
  BY StepInv
<1> QED
  BY <1>1, <1>2, PTL DEF GeneratorSpec

\* In every generated world, whatever its size and the noise, one can walk
\* around everything: the last column and the last row are free.
THEOREM EdgesFree == GeneratorSpec => []EdgesStayFree
<1>1. GeneratorInv => EdgesStayFree
  BY DEF GeneratorInv
<1> QED
  BY <1>1, GeneratorInvariant, PTL

-----------------------------------------------------------------------------
(* Doors. *)

LEMMA Wraps ==
  ASSUME NEW n \in Nat \ {0}
  PROVE  /\ (-1) % n = n - 1
         /\ \A x \in 0 .. n - 1 : x % n = x
OBVIOUS

\* A field beside a building that stands is free in the ring shaped world, if
\* it is not in walls.
LEMMA FrontIsFree ==
  ASSUME GeneratorInv, NEW p \in Int \X Int, ~IsBlocked(p),
         p[1] \in -1 .. WorldSize[1] - 1, p[2] \in -1 .. WorldSize[2] - 1
  PROVE  ~IsBlocked(Torus(p))
<1>1. WorldSize[1] \in Nat \ {0} /\ WorldSize[2] \in Nat \ {0}
  BY GeneratorAssumption
<1>2. CASE p[1] = -1
  <2>1. Torus(p)[1] = WorldSize[1] - 1
    BY <1>1, <1>2, Wraps DEF Torus
  <2> QED
    BY <2>1, <1>1 DEF GeneratorInv, EdgesStayFree, IsBlocked
<1>3. CASE p[2] = -1
  <2>1. Torus(p)[2] = WorldSize[2] - 1
    BY <1>1, <1>3, Wraps DEF Torus
  <2> QED
    BY <2>1, <1>1 DEF GeneratorInv, EdgesStayFree, IsBlocked
<1>4. CASE p[1] # -1 /\ p[2] # -1
  <2>1. p[1] % WorldSize[1] = p[1] /\ p[2] % WorldSize[2] = p[2]
    BY <1>1, <1>4, Wraps
  <2>2. Torus(p) = p
    BY <2>1 DEF Torus
  <2> QED
    BY <2>2
<1> QED
  BY <1>2, <1>3, <1>4

\* A door has its room behind it and a free field before it.
LEMMA DoorLeadsOut ==
  ASSUME GeneratorInv, NEW b, Stands(b),
         NEW side \in {"up", "down", "left", "right"},
         NEW door \in Doors(b, side)
  PROVE  /\ door \in Inside(b, 0) \ Inside(b, 1)
         /\ \E p \in Steps(door) \cap Inside(b, 1) : ~IsBlocked(p)
         /\ \E p \in Steps(door) \ Inside(b, 0) : ~IsBlocked(Torus(p))
<1> DEFINE xs == b.start[1] + 1 .. b.end[1] - 2
           ys == b.start[2] + 1 .. b.end[2] - 2
<1>1. /\ b.start[1] \in Nat /\ b.start[2] \in Nat
      /\ b.end[1] \in Nat /\ b.end[2] \in Nat
      /\ b.start[1] + 3 <= b.end[1] /\ b.start[2] + 3 <= b.end[2]
      /\ b.end[1] < WorldSize[1] /\ b.end[2] < WorldSize[2]
      /\ WorldSize[1] \in Nat /\ WorldSize[2] \in Nat
      /\ \A p \in Inside(b, 1) : ~IsBlocked(p)
  BY GeneratorAssumption DEF Stands, IsBlocked
\* Enough: a field in the room and one in front, next to the door.
<1>2. SUFFICES \E inner, front \in Int \X Int :
        /\ door \in Inside(b, 0) \ Inside(b, 1)
        /\ inner \in Steps(door) \cap Inside(b, 1)
        /\ front \in Steps(door) \ Inside(b, 0)
        /\ ~IsBlocked(front)
        /\ front[1] \in -1 .. WorldSize[1] - 1
        /\ front[2] \in -1 .. WorldSize[2] - 1
  BY <1>1, FrontIsFree
<1>3. CASE side = "up"
  <2> PICK x \in xs : door = <<x, b.start[2]>> /\ ~IsBlocked(<<x, b.start[2] - 1>>)
    BY <1>3 DEF Doors
  <2>1. x \in Int
    BY <1>1
  <2> USE <1>1, <2>1
  <2> WITNESS <<x, b.start[2] + 1>> \in Int \X Int,
              <<x, b.start[2] - 1>> \in Int \X Int
  <2> QED
    BY <1>1 DEF Inside, Steps
<1>4. CASE side = "down"
  <2> PICK x \in xs : door = <<x, b.end[2] - 1>> /\ ~IsBlocked(<<x, b.end[2]>>)
    BY <1>4 DEF Doors
  <2>1. x \in Int
    BY <1>1
  <2> USE <1>1, <2>1
  <2> WITNESS <<x, b.end[2] - 2>> \in Int \X Int,
              <<x, b.end[2]>> \in Int \X Int
  <2> QED
    BY <1>1 DEF Inside, Steps
<1>5. CASE side = "left"
  <2> PICK y \in ys : door = <<b.start[1], y>> /\ ~IsBlocked(<<b.start[1] - 1, y>>)
    BY <1>5 DEF Doors
  <2>1. y \in Int
    BY <1>1
  <2> USE <1>1, <2>1
  <2> WITNESS <<b.start[1] + 1, y>> \in Int \X Int,
              <<b.start[1] - 1, y>> \in Int \X Int
  <2> QED
    BY <1>1 DEF Inside, Steps
<1>6. CASE side = "right"
  <2> PICK y \in ys : door = <<b.end[1] - 1, y>> /\ ~IsBlocked(<<b.end[1], y>>)
    BY <1>6 DEF Doors
  <2>1. y \in Int
    BY <1>1
  <2> USE <1>1, <2>1
  <2> WITNESS <<b.end[1] - 2, y>> \in Int \X Int,
              <<b.end[1], y>> \in Int \X Int
  <2> QED
    BY <1>1 DEF Inside, Steps
<1> QED
  BY <1>3, <1>4, <1>5, <1>6

\* A door remains a way out when other doors are placed.
LEMMA DoorsStepLeadsOut ==
  ASSUME GeneratorInv, GenerateDoors,
         NEW b, b = building,
         NEW door \in DOMAIN walls \ DOMAIN walls'
  PROVE  LeadsOut(b, door)'
<1>1. Stands(b)
  BY DEF GeneratorInv, GenerateDoors
<1>2. DOMAIN walls' \subseteq DOMAIN walls
  BY DEF GenerateDoors, Restrict
<1>3. PICK side \in {"up", "down", "left", "right"} :
        door \in Doors(building, side)
  <2> PICK sides \in SUBSET {"up", "down", "left", "right"} :
        \E doors \in [sides -> UNION {Doors(building, side) : side \in sides}] :
          /\ \A side \in sides : doors[side] \in Doors(building, side)
          /\ walls' = Restrict(walls, DOMAIN walls \ Range(doors))
    BY Zenon DEF GenerateDoors
  <2> PICK doors \in [sides -> UNION {Doors(building, side) : side \in sides}] :
        /\ \A side \in sides : doors[side] \in Doors(building, side)
        /\ walls' = Restrict(walls, DOMAIN walls \ Range(doors))
    BY Zenon
  <2>1. door \in Range(doors)
    BY DEF Restrict
  <2>2. PICK side \in DOMAIN doors : door = doors[side]
    BY <2>1, Zenon DEF Range
  <2>3. side \in sides
    BY <2>2, Zenon
  <2> QED
    BY <2>2, <2>3, Zenon
<1>4. /\ door \in Inside(b, 0) \ Inside(b, 1)
      /\ \E p \in Steps(door) \cap Inside(b, 1) : ~IsBlocked(p)
      /\ \E p \in Steps(door) \ Inside(b, 0) : ~IsBlocked(Torus(p))
  BY <1>1, <1>3, DoorLeadsOut
<1> QED
  BY <1>2, <1>4 DEF LeadsOut, IsBlocked

\* In every generated world each door leads somewhere: the field behind it and
\* the field before it are free.
THEOREM DoorsLeadSomewhere == GeneratorSpec => DoorsLeadOut
<1> DEFINE A == generating = "buildings" /\ building # NoBuilding
                  => \E b \in {building} :
                       \A door \in DOMAIN walls \ DOMAIN walls' :
                         LeadsOut(b, door)'
<1>1. ASSUME GeneratorInv, [GeneratorNext]_generatorVars
      PROVE  [A]_generatorVars
  <2>1. ASSUME generating = "buildings", building # NoBuilding,
               generatorVars' # generatorVars,
               NEW b \in {building},
               NEW door \in DOMAIN walls \ DOMAIN walls'
        PROVE  LeadsOut(b, door)'
    <3>1. GenerateDoors
      BY <1>1, <2>1 DEF GeneratorNext, GenerateHeight, GenerateBuilding,
                        GenerateWorldReturns, generatorVars
    <3>2. b = building
      OBVIOUS
    <3> QED
      BY <1>1, <3>1, <3>2, DoorsStepLeadsOut, Zenon
  <2> QED
    BY <2>1, Zenon
<1> QED
  BY <1>1, GeneratorInvariant, PTL DEF GeneratorSpec, DoorsLeadOut

-----------------------------------------------------------------------------
(* Numbers. *)

\* A block of w numbers further on.
LEMMA Less ==
  ASSUME NEW a \in Int, NEW b \in Int, NEW w \in Nat \ {0}, a < b
  PROVE  a * w + w <= b * w
<1>1. b * w = a * w + (b - a) * w
  OBVIOUS
<1>2. (b - a) * w >= w
  <2> DEFINE k == b - a
  <2>1. k \in Int /\ k >= 1
    OBVIOUS
  <2> HIDE DEF k
  <2>2. k * w >= w
    BY <2>1
  <2> QED
    BY <2>2 DEF k
<1> QED
  BY <1>1, <1>2

\* What division and remainder are of each other.
LEMMA Floor ==
  ASSUME NEW a \in Int, NEW w \in Nat \ {0}
  PROVE  /\ a \div w \in Int /\ a % w \in 0 .. w - 1
         /\ a = ((a \div w) * w) + (a % w)
OBVIOUS

\* A number counted in lines of w, and its place in its line.
LEMMA Parts ==
  ASSUME NEW w \in Nat \ {0}, NEW x \in 0 .. w - 1, NEW y \in Int
  PROVE  (y * w + x) \div w = y /\ (y * w + x) % w = x
<1> DEFINE a == y * w + x
           q == a \div w
           r == a % w
<1>1. a \in Int
  OBVIOUS
<1>2. q \in Int /\ r \in 0 .. w - 1 /\ a = q * w + r
  <2> HIDE DEF a
  <2> QED
    BY <1>1, Floor
<1>3. y * w + x = q * w + r
  BY <1>2
<1> HIDE DEF a, q, r
<1>4. ~(q < y)
  <2>1. q < y => q * w + w <= y * w
    BY <1>2, Less
  <2>2. q * w \in Int /\ y * w \in Int
    BY <1>2
  <2> QED
    BY <1>2, <1>3, <2>1, <2>2
<1>5. ~(y < q)
  <2>1. y < q => y * w + w <= q * w
    BY <1>2, Less
  <2>2. q * w \in Int /\ y * w \in Int
    BY <1>2
  <2> QED
    BY <1>2, <1>3, <2>1, <2>2
<1>6. q = y
  BY <1>2, <1>4, <1>5
<1>7. r = x
  <2>1. y * w \in Int
    OBVIOUS
  <2> QED
    BY <1>2, <1>3, <1>6, <2>1
<1> QED
  BY <1>6, <1>7 DEF q, r, a

-----------------------------------------------------------------------------
(* Matrices, strings and pieces. *)

IsColored(c) == c = ColoredChar(c.character, c.foreground, c.background)

\* A string whose characters are of a set.
IsText(string) == \E S : string \in Seq(S) /\ \A c \in S : IsColored(c)

IsMatrix(m) ==
  /\ m.size \in Nat \X Nat
  /\ m = [size |-> m.size, characters |-> m.characters]
  /\ \A p \in Region(m.size) : IsColored(m.characters[p])

IsPiece(piece) == piece.offset \in Int \X Int /\ IsMatrix(piece.matrix)
ArePieces(pieces) == \E S : pieces \in Seq(S) /\ \A q \in S : IsPiece(q)

\* The character at p when the layers are inserted, and when the pieces are.
InLayers(m, layers, p) ==
  LET covering == {i \in DOMAIN layers : \E piece \in layers[i] : Covers(piece, p)}
  IN IF covering = {} THEN m.characters[p]
     ELSE CharAt(CHOOSE piece \in layers[Max(covering)] : Covers(piece, p), p)
OnTop(m, pieces, p) ==
  LET covering == {i \in DOMAIN pieces : Covers(pieces[i], p)}
  IN IF covering = {} THEN m.characters[p] ELSE CharAt(pieces[Max(covering)], p)

\* What InsertLayers makes of a matrix.
LEMMA Layered ==
  ASSUME NEW m, m = [size |-> m.size, characters |-> m.characters], NEW layers
  PROVE  /\ InsertLayers(m, layers)
              = [size |-> m.size, characters |-> InsertLayers(m, layers).characters]
         /\ DOMAIN InsertLayers(m, layers).characters = Region(m.size)
         /\ InsertLayers(m, layers).characters
              = [p \in Region(m.size) |-> InsertLayers(m, layers).characters[p]]
         /\ \A p \in Region(m.size) :
             InsertLayers(m, layers).characters[p] = InLayers(m, layers, p)
<1> DEFINE c == [p \in Region(m.size) |-> InLayers(m, layers, p)]
<1>1. InsertLayers(m, layers) = [m EXCEPT !.characters = c]
  BY Zenon DEF InsertLayers, InLayers
<1>2. \A p \in Region(m.size) : c[p] = InLayers(m, layers, p)
  BY Zenon
<1>3. DOMAIN c = Region(m.size) /\ c = [p \in Region(m.size) |-> c[p]]
  OBVIOUS
<1> HIDE DEF c
<1>4. [m EXCEPT !.characters = c] = [size |-> m.size, characters |-> c]
  BY SMT
<1>5. InsertLayers(m, layers).characters = c
  BY <1>1, <1>4
<1>6. InsertLayers(m, layers)
        = [size |-> m.size, characters |-> InsertLayers(m, layers).characters]
  BY <1>1, <1>4, <1>5
<1> QED
  BY <1>2, <1>3, <1>5, <1>6, Zenon

\* The character of a piece at a place that it covers.
LEMMA Covered ==
  ASSUME NEW piece, IsPiece(piece), NEW p \in Int \X Int, Covers(piece, p)
  PROVE  /\ Minus(p, piece.offset) \in Region(piece.matrix.size)
         /\ IsColored(CharAt(piece, p))
<1>1. /\ piece.offset[1] \in Int /\ piece.offset[2] \in Int
      /\ p[1] \in Int /\ p[2] \in Int
      /\ piece.matrix.size[1] \in Nat /\ piece.matrix.size[2] \in Nat
  BY DEF IsPiece, IsMatrix
<1>2. Minus(p, piece.offset) \in Region(piece.matrix.size)
  BY <1>1 DEF Covers, Minus, Region, IsLessOrEqual
<1> QED
  BY <1>2 DEF CharAt, IsPiece, IsMatrix

\* InsertLayers keeps a matrix a matrix of its size.
LEMMA LayersInserted ==
  ASSUME NEW m, IsMatrix(m), NEW n \in Nat, NEW layers, DOMAIN layers = 1 .. n,
         \A i \in 1 .. n : \A piece \in layers[i] : IsPiece(piece)
  PROVE  /\ IsMatrix(InsertLayers(m, layers))
         /\ InsertLayers(m, layers).size = m.size
         /\ DOMAIN InsertLayers(m, layers).characters = Region(m.size)
<1> DEFINE l == InsertLayers(m, layers)
<1>1. /\ l = [size |-> m.size, characters |-> l.characters]
      /\ DOMAIN l.characters = Region(m.size)
      /\ \A p \in Region(m.size) :
           l.characters[p] = InLayers(m, layers, p)
  BY Layered DEF IsMatrix
<1> HIDE DEF l
<1>2. l.size = m.size
  BY <1>1
<1>3. ASSUME NEW p \in Region(m.size)
      PROVE  IsColored(l.characters[p])
  <2> DEFINE covering == {i \in DOMAIN layers :
                            \E piece \in layers[i] : Covers(piece, p)}
  <2>1. CASE covering = {}
    BY <1>1, <2>1, Zenon DEF IsMatrix, InLayers
  <2>2. CASE covering # {}
    <3> DEFINE top == CHOOSE piece \in layers[Max(covering)] : Covers(piece, p)
    <3>1. covering \in SUBSET (1 .. n)
      OBVIOUS
    <3>2. Max(covering) \in covering
      <4> HIDE DEF covering
      <4> QED
        BY <2>2, <3>1, MaxOf
    <3>3. Max(covering) \in 1 .. n /\ \E piece \in layers[Max(covering)] : Covers(piece, p)
      BY <3>2
    <3>4. top \in layers[Max(covering)] /\ Covers(top, p)
      BY <3>3, Zenon
    <3>5. l.characters[p] = CharAt(top, p)
      BY <1>1, <2>2, Zenon DEF InLayers
    <3> HIDE DEF top, covering
    <3>6. IsPiece(top)
      BY <3>3, <3>4
    <3>7. p \in Int \X Int
      BY DEF Region, IsMatrix
    <3> QED
      BY <3>4, <3>5, <3>6, <3>7, Covered
  <2> QED
    BY <2>1, <2>2, Zenon
<1>4. IsMatrix(l)
  BY <1>1, <1>2, <1>3 DEF IsMatrix
<1> QED
  BY <1>1, <1>2, <1>4 DEF l

\* What InsertMatrix makes of a matrix.
LEMMA Inserted ==
  ASSUME NEW m, m = [size |-> m.size, characters |-> m.characters],
         NEW n \in Nat, NEW pieces, DOMAIN pieces = 1 .. n
  PROVE  /\ InsertMatrix(m, pieces)
              = [size |-> m.size, characters |-> InsertMatrix(m, pieces).characters]
         /\ InsertMatrix(m, pieces).characters
              = [p \in Region(m.size) |-> InsertMatrix(m, pieces).characters[p]]
         /\ \A p \in Region(m.size) :
             InsertMatrix(m, pieces).characters[p] = OnTop(m, pieces, p)
<1> DEFINE layers == [i \in DOMAIN pieces |-> {pieces[i]}]
           l == InsertLayers(m, layers)
<1>1. InsertMatrix(m, pieces) = l
  BY DEF InsertMatrix
<1>2. DOMAIN layers = DOMAIN pieces /\ \A i \in DOMAIN pieces : layers[i] = {pieces[i]}
  OBVIOUS
<1> HIDE DEF layers
<1>3. /\ l = [size |-> m.size, characters |-> l.characters]
      /\ l.characters = [p \in Region(m.size) |-> l.characters[p]]
      /\ \A p \in Region(m.size) :
           l.characters[p] = InLayers(m, layers, p)
  BY Layered
<1> HIDE DEF l
<1>4. ASSUME NEW p \in Region(m.size)
      PROVE  l.characters[p] = OnTop(m, pieces, p)
  <2> DEFINE covering == {i \in DOMAIN pieces : Covers(pieces[i], p)}
             covers == {i \in DOMAIN layers :
                          \E piece \in layers[i] : Covers(piece, p)}
  <2>1. covers = covering
    BY <1>2
  <2>2. l.characters[p] = IF covers = {} THEN m.characters[p]
                          ELSE CharAt(CHOOSE piece \in layers[Max(covers)] :
                                        Covers(piece, p), p)
    BY <1>3, Zenon DEF InLayers
  <2>3. ASSUME covering # {}
        PROVE  (CHOOSE piece \in layers[Max(covering)] : Covers(piece, p))
                 = pieces[Max(covering)]
    <3>1. covering \in SUBSET (1 .. n)
      OBVIOUS
    <3>2. Max(covering) \in covering
      <4> HIDE DEF covering
      <4> QED
        BY <2>3, <3>1, MaxOf
    <3>3. layers[Max(covering)] = {pieces[Max(covering)]}
          /\ Covers(pieces[Max(covering)], p)
      BY <1>2, <3>2
    <3> HIDE DEF covering
    <3> QED
      BY <3>3
  <2> HIDE DEF covering, covers
  <2>4. l.characters[p] = IF covering = {} THEN m.characters[p]
                          ELSE CharAt(pieces[Max(covering)], p)
    BY <2>1, <2>2, <2>3, Zenon
  <2> QED
    BY <2>4, Zenon DEF covering, OnTop
<1> QED
  BY <1>1, <1>3, <1>4, Zenon

\* So does InsertMatrix.
LEMMA PiecesInserted ==
  ASSUME NEW m, IsMatrix(m), NEW pieces, ArePieces(pieces)
  PROVE  /\ IsMatrix(InsertMatrix(m, pieces))
         /\ InsertMatrix(m, pieces).size = m.size
         /\ DOMAIN InsertMatrix(m, pieces).characters = Region(m.size)
<1> DEFINE layers == [i \in DOMAIN pieces |-> {pieces[i]}]
<1>1. PICK S : pieces \in Seq(S) /\ \A q \in S : IsPiece(q)
  BY Zenon DEF ArePieces
<1>2. Len(pieces) \in Nat /\ DOMAIN layers = 1 .. Len(pieces)
  BY <1>1
<1>3. ASSUME NEW i \in 1 .. Len(pieces), NEW piece \in layers[i]
      PROVE  IsPiece(piece)
  BY <1>1, <1>3
<1>4. InsertMatrix(m, pieces) = InsertLayers(m, layers)
  BY DEF InsertMatrix
<1> HIDE DEF layers
<1> QED
  BY <1>2, <1>3, <1>4, LayersInserted

\* What is built with ColoredChar has a character and two colours.
LEMMA Colored ==
  /\ \A a, b, c : IsColored(ColoredChar(a, b, c))
  /\ \A a : IsColored(Char(a))
  /\ IsColored(Blank)
<1>1. \A a, b, c : IsColored(ColoredChar(a, b, c))
  BY DEF IsColored, ColoredChar
<1> QED
  BY <1>1 DEF Char, Blank

\* A matrix filled with one character.
LEMMA FilledMatrix ==
  ASSUME NEW size \in Nat \X Nat, NEW char, IsColored(char)
  PROVE  IsMatrix(Filled(size, char)) /\ Filled(size, char).size = size
<1> DEFINE f == [p \in Region(size) |-> char]
<1>1. \A p \in Region(size) : f[p] = char
  BY Zenon
<1> HIDE DEF f
<1> DEFINE m == [size |-> size, characters |-> f]
<1>2. m.size = size /\ m.characters = f
  BY SMT
<1>3. Filled(size, char) = m
  BY Zenon DEF Filled, f
<1> HIDE DEF m
<1>4. m = [size |-> m.size, characters |-> m.characters]
  BY <1>2, Zenon DEF m
<1> QED
  BY <1>1, <1>2, <1>3, <1>4, Zenon DEF IsMatrix

\* A string set into a line.
LEMMA TextLine ==
  ASSUME NEW string, IsText(string), NEW width \in Nat
  PROVE  IsMatrix(Line(width, string)) /\ Line(width, string).size = <<width, 1>>
<1> DEFINE size == <<width, 1>>
           f == [p \in Region(size) |->
                   IF p[1] < Len(string) THEN string[p[1] + 1] ELSE Blank]
<1>1. PICK S : string \in Seq(S) /\ \A c \in S : IsColored(c)
  BY Zenon DEF IsText
<1>2. ASSUME NEW p \in Region(size)
      PROVE  IsColored(f[p])
  <2>1. f[p] = IF p[1] < Len(string) THEN string[p[1] + 1] ELSE Blank
    BY Zenon
  <2> HIDE DEF f
  <2>2. p[1] \in Nat
    BY DEF Region
  <2>3. p[1] < Len(string) => string[p[1] + 1] \in S
    BY <1>1, <2>2
  <2> QED
    BY <1>1, <2>1, <2>3, Colored
<1> HIDE DEF f
<1> DEFINE m == [size |-> size, characters |-> f]
<1>3. m.size = size /\ m.characters = f
  BY SMT
<1>4. Line(width, string) = m
  BY Zenon DEF Line, f
<1>5. size \in Nat \X Nat
  OBVIOUS
<1> HIDE DEF m, size
<1>6. m = [size |-> m.size, characters |-> m.characters]
  BY <1>3, Zenon DEF m
<1>7. IsMatrix(m)
  BY <1>2, <1>3, <1>5, <1>6, Zenon DEF IsMatrix
<1> QED
  BY <1>3, <1>4, <1>7, Zenon DEF size

\* Strings one after the other are a string.
LEMMA TextJoined ==
  ASSUME NEW s, IsText(s), NEW t, IsText(t)
  PROVE  IsText(s \o t) /\ Len(s \o t) = Len(s) + Len(t)
<1>1. PICK S : s \in Seq(S) /\ \A c \in S : IsColored(c)
  BY Zenon DEF IsText
<1>2. PICK T : t \in Seq(T) /\ \A c \in T : IsColored(c)
  BY Zenon DEF IsText
<1>3. s \in Seq(S \cup T) /\ t \in Seq(S \cup T)
  BY <1>1, <1>2
<1>4. s \o t \in Seq(S \cup T) /\ Len(s \o t) = Len(s) + Len(t)
  BY <1>3
<1>5. \A c \in S \cup T : IsColored(c)
  BY <1>1, <1>2
<1> QED
  BY <1>4, <1>5 DEF IsText

\* A sequence of coloured characters is a string.
LEMMA TextOf ==
  ASSUME NEW S, NEW string \in Seq(S), \A c \in S : IsColored(c)
  PROVE  IsText(string)
BY DEF IsText

\* A sequence of pieces, likewise.
LEMMA PiecesOf ==
  ASSUME NEW S, NEW pieces \in Seq(S), \A q \in S : IsPiece(q)
  PROVE  ArePieces(pieces)
BY DEF ArePieces

\* Strings of one and of two characters.
LEMMA ShortText ==
  ASSUME NEW a, IsColored(a)
  PROVE  /\ IsText(<<a>>) /\ Len(<<a>>) = 1
         /\ \A b : IsColored(b) => IsText(<<a, b>>) /\ Len(<<a, b>>) = 2
<1>1. <<a>> \in Seq({a})
  OBVIOUS
<1>2. ASSUME NEW b, IsColored(b)
      PROVE  IsText(<<a, b>>)
  <2> DEFINE s == <<a, b>>
             S == {a, b}
  <2>1. s \in Seq(S) /\ \A c \in S : IsColored(c)
    BY <1>2
  <2> HIDE DEF s, S
  <2>2. IsText(s)
    BY <2>1, TextOf
  <2> QED
    BY <2>2 DEF s
<1>3. \A c \in {a} : IsColored(c)
  OBVIOUS
<1> QED
  BY <1>1, <1>2, <1>3 DEF IsText

\* A string that is repeated.
LEMMA TextRepeated ==
  ASSUME NEW string, IsText(string), NEW n \in Nat
  PROVE  IsText(Repeated(string, n)) /\ Len(Repeated(string, n)) = n * Len(string)
<1>1. PICK S : string \in Seq(S) /\ \A c \in S : IsColored(c)
  BY Zenon DEF IsText
<1> DEFINE k == n * Len(string)
           f == [i \in 1 .. k |-> string[1 + ((i - 1) % Len(string))]]
<1>2. k \in Nat /\ (k # 0 => Len(string) # 0)
  BY <1>1
<1>3. ASSUME NEW i \in 1 .. k
      PROVE  string[1 + ((i - 1) % Len(string))] \in S
  <2>1. Len(string) \in Nat \ {0} /\ i - 1 \in Int
    BY <1>1, <1>2
  <2>2. (i - 1) % Len(string) \in 0 .. Len(string) - 1
    BY <2>1, Floor
  <2> HIDE DEF k
  <2> QED
    BY <1>1, <2>1, <2>2
<1>4. f \in [1 .. k -> S]
  BY <1>3
<1>5. f = Repeated(string, n)
  BY DEF Repeated
<1> HIDE DEF f, k
<1>6. f \in Seq(S) /\ Len(f) = k
  BY <1>2, <1>4
<1> QED
  BY <1>1, <1>5, <1>6 DEF IsText, k

\* Lists of pieces one after the other.
LEMMA PiecesJoined ==
  ASSUME NEW s, ArePieces(s), NEW t, ArePieces(t)
  PROVE  ArePieces(s \o t)
<1>1. PICK S : s \in Seq(S) /\ \A q \in S : IsPiece(q)
  BY Zenon DEF ArePieces
<1>2. PICK T : t \in Seq(T) /\ \A q \in T : IsPiece(q)
  BY Zenon DEF ArePieces
<1>3. s \in Seq(S \cup T) /\ t \in Seq(S \cup T)
  BY <1>1, <1>2
<1>4. s \o t \in Seq(S \cup T)
  BY <1>3
<1>5. \A q \in S \cup T : IsPiece(q)
  BY <1>1, <1>2
<1> QED
  BY <1>4, <1>5 DEF ArePieces

\* Lists of up to three pieces.
LEMMA FewPieces ==
  ASSUME NEW a, IsPiece(a)
  PROVE  /\ ArePieces(<<>>) /\ ArePieces(<<a>>)
         /\ \A b : IsPiece(b) => ArePieces(<<a, b>>)
         /\ \A b, c : IsPiece(b) /\ IsPiece(c) => ArePieces(<<a, b, c>>)
<1>1. ArePieces(<<>>)
  <2> DEFINE s == <<>>
             S == {}
  <2>1. s \in Seq(S) /\ \A q \in S : IsPiece(q)
    OBVIOUS
  <2> HIDE DEF s, S
  <2>2. ArePieces(s)
    BY <2>1, PiecesOf
  <2> QED
    BY <2>2 DEF s
<1>2. ArePieces(<<a>>)
  <2> DEFINE s == <<a>>
             S == {a}
  <2>1. s \in Seq(S) /\ \A q \in S : IsPiece(q)
    OBVIOUS
  <2> HIDE DEF s, S
  <2>2. ArePieces(s)
    BY <2>1, PiecesOf
  <2> QED
    BY <2>2 DEF s
<1>3. ASSUME NEW b, IsPiece(b)
      PROVE  ArePieces(<<a, b>>)
  <2> DEFINE s == <<a, b>>
             S == {a, b}
  <2>1. s \in Seq(S) /\ \A q \in S : IsPiece(q)
    BY <1>3
  <2> HIDE DEF s, S
  <2>2. ArePieces(s)
    BY <2>1, PiecesOf
  <2> QED
    BY <2>2 DEF s
<1>4. ASSUME NEW b, NEW c, IsPiece(b), IsPiece(c)
      PROVE  ArePieces(<<a, b, c>>)
  <2> DEFINE s == <<a, b, c>>
             S == {a, b, c}
  <2>1. s \in Seq(S) /\ \A q \in S : IsPiece(q)
    BY <1>4
  <2> HIDE DEF s, S
  <2>2. ArePieces(s)
    BY <2>1, PiecesOf
  <2> QED
    BY <2>2 DEF s
<1> QED
  BY <1>1, <1>2, <1>3, <1>4

\* What is inserted, and where.
LEMMA OnePiece ==
  ASSUME NEW matrix, NEW offset
  PROVE  /\ Piece(matrix, offset).matrix = matrix
         /\ Piece(matrix, offset).offset = offset
         /\ IsMatrix(matrix) /\ offset \in Int \X Int => IsPiece(Piece(matrix, offset))
BY DEF Piece, IsPiece

\* A string that is inserted.
LEMMA TextPiece ==
  ASSUME NEW string, IsText(string), NEW offset \in Int \X Int
  PROVE  IsPiece(Text(string, offset))
<1>1. Len(string) \in Nat
  BY DEF IsText
<1> QED
  BY <1>1, TextLine, OnePiece DEF Text

-----------------------------------------------------------------------------
(* Sizes. *)

\* So is the width before a column.
LEMMA WidthIsNatural ==
  ASSUME NEW widths \in Seq(Nat), NEW n \in 0 .. Len(widths)
  PROVE  WidthBefore(widths, n) \in Nat
<1> DEFINE list == SubSeq(widths, 1, n)
<1>1. list \in Seq(Nat) /\ n \in Nat
  OBVIOUS
<1> HIDE DEF list
<1>2. FoldLeft(+, n, list) \in Nat
  BY <1>1, SumIsNatural
<1> QED
  BY <1>2 DEF WidthBefore, list

\* The sizes of the frame and of the viewport in it.
LEMMA Sizes ==
  /\ game_character_count \in (Nat \ {0}) \X (Nat \ {0})
  /\ game_output_size = <<game_character_count[1] + 2, game_character_count[2] + 9>>
  /\ game_output_size \in (Nat \ {0}) \X (Nat \ {0})
  /\ Len(RespawnMessage) \in Nat /\ IsText(RespawnMessage)
<1>1. /\ ViewportSize[1] \in Nat \ {0} /\ ViewportSize[2] \in Nat \ {0}
      /\ BlockSize[1] \in Nat \ {0} /\ BlockSize[2] \in Nat \ {0}
  BY ScreenAssumption
<1>2. ASSUME NEW a \in Nat \ {0}, NEW b \in Nat \ {0}
      PROVE  a * b \in Nat \ {0}
  OBVIOUS
<1>3. game_character_count \in (Nat \ {0}) \X (Nat \ {0})
  BY <1>1, <1>2 DEF game_character_count, Times
<1>4. game_output_size = <<game_character_count[1] + 2, game_character_count[2] + 9>>
  <2>1. game_character_count[1] \in Nat /\ game_character_count[2] \in Nat
    BY <1>3
  <2> QED
    BY <2>1 DEF game_output_size, border_size_x, header_height, trailer_height
<1>5. game_output_size \in (Nat \ {0}) \X (Nat \ {0})
  BY <1>3, <1>4
<1>6. Len(RespawnMessage) \in Nat /\ IsText(RespawnMessage)
  <2>1. /\ RespawnMessage \in Seq(Range(RespawnMessage))
        /\ \A c \in Range(RespawnMessage) : IsColored(c)
    BY ScreenAssumption DEF IsString, IsColored
  <2> HIDE DEF Range
  <2> QED
    BY <2>1, TextOf
<1> QED
  BY <1>3, <1>4, <1>5, <1>6

\* A matrix that is composed of pieces has the size it was made with.
LEMMA Composed ==
  ASSUME NEW size \in Nat \X Nat, NEW pieces, ArePieces(pieces)
  PROVE  /\ IsMatrix(InsertMatrix(Matrix(size), pieces))
         /\ InsertMatrix(Matrix(size), pieces).size = size
<1>1. IsMatrix(Matrix(size)) /\ Matrix(size).size = size
  BY FilledMatrix, Colored DEF Matrix
<1> QED
  BY <1>1, PiecesInserted

\* Pieces given one by one.
LEMMA PiecesGiven ==
  ASSUME NEW n \in Nat, NEW pieces, pieces = [i \in 1 .. n |-> pieces[i]],
         \A i \in 1 .. n : IsPiece(pieces[i])
  PROVE  ArePieces(pieces)
<1> DEFINE S == {pieces[i] : i \in 1 .. n}
<1>1. pieces \in [1 .. n -> S]
  OBVIOUS
<1>2. \A q \in S : IsPiece(q)
  OBVIOUS
<1> HIDE DEF S
<1>3. pieces \in Seq(S)
  BY <1>1
<1> QED
  BY <1>2, <1>3, PiecesOf

-----------------------------------------------------------------------------
(* Tables. *)

\* A row of a table is a line of its width.
LEMMA Row ==
  ASSUME NEW widths \in Seq(Nat), NEW texts,
         \A i \in 1 .. Len(widths) : IsText(texts[i])
  PROVE  /\ IsMatrix(RenderRow(widths, texts))
         /\ RenderRow(widths, texts).size = <<CalculateTotalWidth(widths), 1>>
         /\ CalculateTotalWidth(widths) \in Nat
<1> DEFINE n == Len(widths)
           pieces == [i \in 1 .. n |->
                        Piece(Line(widths[i], texts[i]),
                              <<WidthBefore(widths, i - 1) + 1, 0>>)]
           size == <<CalculateTotalWidth(widths), 1>>
           char == Char("line")
<1>1. n \in Nat /\ DOMAIN widths = 1 .. n
  OBVIOUS
<1>2. CalculateTotalWidth(widths) \in Nat
  <2>1. n \in 0 .. n
    OBVIOUS
  <2>2. WidthBefore(widths, n) \in Nat
    BY <2>1, WidthIsNatural
  <2> QED
    BY <2>2 DEF CalculateTotalWidth
<1>3. ASSUME NEW i \in 1 .. n
      PROVE  IsPiece(pieces[i])
  <2>1. IsMatrix(Line(widths[i], texts[i]))
    <3>1. widths[i] \in Nat
      OBVIOUS
    <3> QED
      BY <3>1, TextLine
  <2>2. <<WidthBefore(widths, i - 1) + 1, 0>> \in Int \X Int
    <3>1. i - 1 \in 0 .. n
      OBVIOUS
    <3>2. WidthBefore(widths, i - 1) \in Nat
      BY <3>1, WidthIsNatural
    <3> QED
      BY <3>2
  <2> QED
    BY <2>1, <2>2, OnePiece
<1>4. pieces = [i \in 1 .. n |-> pieces[i]]
  OBVIOUS
<1>5. RenderRow(widths, texts) = InsertMatrix(Filled(size, char), pieces)
  BY <1>1 DEF RenderRow
<1> HIDE DEF pieces
<1>6. ArePieces(pieces)
  BY <1>1, <1>3, <1>4, PiecesGiven
<1>7. size \in Nat \X Nat
  BY <1>2
<1>8. IsColored(char)
  BY Colored
<1> HIDE DEF size, char
<1>9. IsMatrix(Filled(size, char)) /\ Filled(size, char).size = size
  BY <1>7, <1>8, FilledMatrix
<1> QED
  BY <1>2, <1>5, <1>6, <1>9, PiecesInserted DEF size

\* A table has a line more than its four own ones for each of its rows, and
\* all of them fit.
LEMMA Table ==
  ASSUME NEW widths \in Seq(Nat), NEW titles, NEW R, NEW rows \in Seq(R),
         \A i \in 1 .. Len(widths) : IsText(titles[i]),
         \A row \in R : \A i \in 1 .. Len(widths) : IsText(row[i])
  PROVE  LET table == RenderTable(widths, titles, rows)
         IN /\ IsMatrix(table.matrix)
            /\ table.matrix.size = <<CalculateTotalWidth(widths), 4 + Len(rows)>>
            /\ CalculateTotalWidth(widths) \in Nat
            /\ table.fits
<1> DEFINE divider == MakeDivider(widths)
           title == RenderRow(widths, titles)
           body == [i \in DOMAIN rows |-> RenderRow(widths, rows[i])]
           lines == <<divider, title, divider>> \o body \o <<divider>>
           pieces == [i \in DOMAIN lines |-> Piece(lines[i], <<0, i - 1>>)]
           n == Len(rows)
           w == CalculateTotalWidth(widths)
           S == {divider, title} \cup {RenderRow(widths, row) : row \in R}
<1>1. w \in Nat /\ IsMatrix(title) /\ title.size = <<w, 1>>
  BY Row
<1>2. IsMatrix(divider) /\ divider.size = <<w, 1>>
  <2>1. <<w, 1>> \in Nat \X Nat
    BY <1>1
  <2>2. IsColored(Char("divider"))
    BY Colored
  <2> QED
    BY <2>1, <2>2, FilledMatrix DEF MakeDivider
<1>3. ASSUME NEW m \in S
      PROVE  IsMatrix(m) /\ m.size = <<w, 1>>
  <2>1. ASSUME NEW row \in R
        PROVE  IsMatrix(RenderRow(widths, row)) /\ RenderRow(widths, row).size = <<w, 1>>
    BY Row
  <2> HIDE DEF divider, title, w
  <2> QED
    BY <1>1, <1>2, <2>1
<1>4. body \in Seq(S) /\ Len(body) = n
  <2>1. DOMAIN rows = 1 .. n /\ n \in Nat
    OBVIOUS
  <2>2. body \in [1 .. n -> S]
    BY <2>1
  <2> HIDE DEF S, n, body
  <2> QED
    BY <2>1, <2>2
<1>5. lines \in Seq(S) /\ Len(lines) = 4 + n
  <2>1. divider \in S /\ title \in S /\ n \in Nat
    OBVIOUS
  <2> HIDE DEF divider, title, S, n, body
  <2> QED
    BY <1>4, <2>1
<1> DEFINE k == 4 + n
           size == <<w, k>>
<1>6. n \in Nat /\ k \in Nat
  OBVIOUS
<1>7. /\ DOMAIN lines = 1 .. k
      /\ \A i \in 1 .. k : IsMatrix(lines[i]) /\ lines[i].size = <<w, 1>>
  <2> HIDE DEF lines, S, n, w
  <2> QED
    BY <1>3, <1>5, <1>6
<1>8. divider.size[1] = w
  BY <1>2, <1>1
<1>9. RenderTable(widths, titles, rows)
        = [matrix |-> InsertMatrix(Matrix(<<divider.size[1], TableHeight(rows)>>), pieces),
           fits |-> \A i \in DOMAIN pieces :
                      Fits(Matrix(<<divider.size[1], TableHeight(rows)>>), pieces[i])]
  BY Zenon DEF RenderTable
<1>10. <<divider.size[1], TableHeight(rows)>> = size
  BY <1>8 DEF TableHeight
<1>11. /\ DOMAIN pieces = 1 .. k
       /\ \A i \in 1 .. k : pieces[i] = Piece(lines[i], <<0, i - 1>>)
       /\ pieces = [i \in 1 .. k |-> pieces[i]]
  BY <1>7
<1> HIDE DEF pieces, lines, divider
<1>12. ASSUME NEW i \in 1 .. k
       PROVE  IsPiece(pieces[i])
  <2>1. <<0, i - 1>> \in Int \X Int
    OBVIOUS
  <2>2. pieces[i] = Piece(lines[i], <<0, i - 1>>) /\ IsMatrix(lines[i])
    BY <1>7, <1>11, Zenon
  <2>3. IsPiece(Piece(lines[i], <<0, i - 1>>))
    BY <2>1, <2>2, OnePiece
  <2> QED
    BY <2>2, <2>3
<1>13. ArePieces(pieces)
  <2> HIDE DEF k
  <2> QED
    BY <1>6, <1>11, <1>12, PiecesGiven
<1>14. size \in Nat \X Nat
  BY <1>1, <1>6
<1>15. IsMatrix(InsertMatrix(Matrix(size), pieces))
       /\ InsertMatrix(Matrix(size), pieces).size = size
  <2> HIDE DEF size
  <2> QED
    BY <1>13, <1>14, Composed
<1>16. Matrix(size).size = size
  <2> HIDE DEF size
  <2> QED
    BY <1>14, FilledMatrix, Colored DEF Matrix
<1>17. ASSUME NEW i \in 1 .. k
       PROVE  Fits(Matrix(size), pieces[i])
  <2>1. pieces[i].offset = <<0, i - 1>> /\ pieces[i].matrix.size = <<w, 1>>
    <3>1. pieces[i] = Piece(lines[i], <<0, i - 1>>) /\ lines[i].size = <<w, 1>>
      BY <1>7, <1>11, Zenon
    <3>2. /\ Piece(lines[i], <<0, i - 1>>).matrix = lines[i]
          /\ Piece(lines[i], <<0, i - 1>>).offset = <<0, i - 1>>
      BY OnePiece
    <3> QED
      BY <3>1, <3>2
  <2>2. <<0, i - 1>> \in Nat \X Nat
    BY <1>6
  <2> HIDE DEF w
  <2>3. IsLessOrEqual(Plus(<<0, i - 1>>, <<w, 1>>), size)
    BY <1>1, <1>6 DEF IsLessOrEqual, Plus
  <2> QED
    BY <1>16, <2>1, <2>2, <2>3 DEF Fits
<1> DEFINE table == RenderTable(widths, titles, rows)
<1>18. /\ table.matrix = InsertMatrix(Matrix(size), pieces)
       /\ table.fits = \A i \in DOMAIN pieces : Fits(Matrix(size), pieces[i])
  <2> DEFINE a == <<divider.size[1], TableHeight(rows)>>
             fits == \A i \in DOMAIN pieces : Fits(Matrix(a), pieces[i])
             matrix == InsertMatrix(Matrix(a), pieces)
  <2>1. table = [matrix |-> matrix, fits |-> fits]
    BY <1>9
  <2> HIDE DEF matrix, fits, table
  <2>2. table.matrix = matrix /\ table.fits = fits
    BY <2>1, Zenon
  <2>3. a = size
    BY <1>10
  <2> HIDE DEF a, size
  <2> QED
    BY <2>2, <2>3, Zenon DEF matrix, fits
<1>19. IsMatrix(table.matrix) /\ table.matrix.size = size /\ table.fits
  <2> HIDE DEF size, k, table
  <2> QED
    BY <1>11, <1>15, <1>17, <1>18
<1> QED
  BY <1>1, <1>19

\* What the rules make of the players, for the list that is shown.
LEMMA PlayersAre ==
  ASSUME players \in PlayerLists
  PROVE  /\ players \in Seq(Range(players))
         /\ Len(players) \in Nat \ {0} /\ DOMAIN players = 1 .. Len(players)
         /\ \A i \in 1 .. Len(players) :
              players[i].position \in Positions /\ players[i].health \in 0 .. max_health
         /\ \A i, j \in 1 .. Len(players) :
              players[i].position = players[j].position => i = j
         /\ Own.position \in Positions /\ Own.health \in 0 .. max_health
         /\ max_health \in Nat
<1>1. /\ players \in Seq(Range(players)) /\ players # <<>>
      /\ \A i \in DOMAIN players :
           players[i].position \in Positions /\ players[i].health \in 0 .. max_health
      /\ \A i, j \in DOMAIN players :
           players[i].position = players[j].position => i = j
  BY ContentAssumption
<1>2. Len(players) \in Nat \ {0} /\ DOMAIN players = 1 .. Len(players)
  <2> DEFINE S == Range(players)
  <2>1. players \in Seq(S) /\ players # <<>>
    BY <1>1
  <2> HIDE DEF S
  <2> QED
    BY <2>1
<1>3. 1 \in 1 .. Len(players)
  BY <1>2
<1> QED
  BY <1>1, <1>2, <1>3, ScreenAssumption DEF Own

\* The hearts of a player who has no more health than there is.
LEMMA HeartsAreText ==
  ASSUME NEW health \in 0 .. max_health
  PROVE  IsText(Hearts(health))
<1> DEFINE full == <<ColoredChar("heart", "RED", "BLACK"), Blank>>
           empty == <<ColoredChar("heart", "GREY", "BLACK"), Blank>>
<1>1. health \in Nat /\ max_health - health \in Nat
  BY ScreenAssumption
<1>2. IsText(full) /\ IsText(empty)
  BY Colored, ShortText
<1> HIDE DEF full, empty
<1>3. IsText(Repeated(full, health)) /\ IsText(Repeated(empty, max_health - health))
  BY <1>1, <1>2, TextRepeated
<1>4. IsText(Repeated(full, health) \o Repeated(empty, max_health - health))
  BY <1>3, TextJoined
<1> QED
  BY <1>4 DEF Hearts, full, empty

\* Texts of one and two plain characters.
LEMMA CharIsText ==
  /\ \A a : IsText(<<Char(a)>>)
  /\ \A a, b : IsText(<<Char(a), Char(b)>>)
<1>1. ASSUME NEW a
      PROVE  IsText(<<Char(a)>>)
  BY Colored, ShortText
<1>2. ASSUME NEW a, NEW b
      PROVE  IsText(<<Char(a), Char(b)>>)
  BY Colored, ShortText
<1> QED
  BY <1>1, <1>2

\* The fields of a row, one by one.
LEMMA Fields ==
  ASSUME NEW a, NEW b, NEW c, NEW d, NEW e,
         IsText(a), IsText(b), IsText(c), IsText(d)
  PROVE  /\ \A i \in 1 .. 4 : IsText(<<a, b, c, d>>[i])
         /\ IsText(e) => \A i \in 1 .. 5 : IsText(<<a, b, c, d, e>>[i])
<1>1. ASSUME NEW i \in 1 .. 4
      PROVE  IsText(<<a, b, c, d>>[i])
  <2>1. i = 1 \/ i = 2 \/ i = 3 \/ i = 4
    OBVIOUS
  <2> QED
    BY <2>1
<1>2. ASSUME IsText(e), NEW i \in 1 .. 5
      PROVE  IsText(<<a, b, c, d, e>>[i])
  <2>1. i = 1 \/ i = 2 \/ i = 3 \/ i = 4 \/ i = 5
    OBVIOUS
  <2> QED
    BY <1>2, <2>1
<1> QED
  BY <1>1, <1>2

\* A function on 1 .. n as a sequence.
LEMMA ListOf ==
  ASSUME NEW n \in Nat, NEW S, NEW f \in [1 .. n -> S]
  PROVE  f \in Seq(S) /\ Len(f) = n
OBVIOUS

\* The tables are matrices of these sizes, with room for all of their rows.
LEMMA PlayerListTable ==
  ASSUME players \in PlayerLists
  PROVE  /\ IsMatrix(PlayerList.matrix)
         /\ PlayerList.matrix.size
              = <<CalculateTotalWidth(PlayerColumnWidths), 4 + Len(players)>>
         /\ CalculateTotalWidth(PlayerColumnWidths) \in Nat
         /\ PlayerList.fits
<1> DEFINE n == Len(players)
           titles == << <<Char("name")>>, <<Char("health")>>, <<Char("score")>>,
                        <<Char("packet loss")>>, <<Char("ping")>> >>
           row(i) == << <<ColoredChar("ellipse", players[i].color, "BLACK"), Blank,
                          Char(players[i].name)>>,
                        Hearts(players[i].health), <<Char("number")>>,
                        <<Char("number")>>, <<Char("number")>> >>
           rows == [i \in DOMAIN players |-> row(i)]
           R == {row(i) : i \in DOMAIN players}
<1>1. /\ n \in Nat /\ DOMAIN players = 1 .. n
      /\ \A i \in 1 .. n : players[i].health \in 0 .. max_health
  BY PlayersAre
<1>2. \A i \in 1 .. 5 : IsText(titles[i])
  BY CharIsText, Fields
<1>3. ASSUME NEW j \in 1 .. n
      PROVE  \A i \in 1 .. 5 : IsText(row(j)[i])
  <2>1. IsText(Hearts(players[j].health))
    BY <1>1, HeartsAreText
  <2>2. IsText(<<ColoredChar("ellipse", players[j].color, "BLACK"), Blank,
                 Char(players[j].name)>>)
    <3> DEFINE a == ColoredChar("ellipse", players[j].color, "BLACK")
               b == Blank
               c == Char(players[j].name)
               s == <<a, b, c>>
               S == {a, b, c}
    <3>1. IsColored(a) /\ IsColored(b) /\ IsColored(c)
      BY Colored
    <3> HIDE DEF a, b, c
    <3>2. s \in Seq(S) /\ \A d \in S : IsColored(d)
      BY <3>1
    <3> HIDE DEF s, S
    <3>3. IsText(s)
      BY <3>2, TextOf
    <3> QED
      BY <3>3 DEF s, a, b, c
  <2>3. IsText(<<Char("number")>>)
    BY CharIsText
  <2> QED
    BY <2>1, <2>2, <2>3, Fields
<1>4. \A r \in R : \A i \in 1 .. 5 : IsText(r[i])
  <2> HIDE DEF row
  <2> QED
    BY <1>1, <1>3
<1>5. rows \in Seq(R) /\ Len(rows) = n
  <2>1. rows \in [1 .. n -> R]
    <3> HIDE DEF row
    <3> QED
      BY <1>1
  <2> HIDE DEF rows, R, n
  <2> QED
    BY <1>1, <2>1
<1>6. PlayerColumnWidths \in Seq(Nat) /\ Len(PlayerColumnWidths) = 5
  BY ScreenAssumption
<1>7. PlayerList = RenderTable(PlayerColumnWidths, titles, rows)
  BY DEF PlayerList
<1> HIDE DEF rows, R, titles, row
<1> DEFINE table == RenderTable(PlayerColumnWidths, titles, rows)
<1>8. /\ IsMatrix(table.matrix)
      /\ table.matrix.size
           = <<CalculateTotalWidth(PlayerColumnWidths), 4 + Len(rows)>>
      /\ CalculateTotalWidth(PlayerColumnWidths) \in Nat
      /\ table.fits
  BY <1>2, <1>4, <1>5, <1>6, Table
<1> HIDE DEF table
<1> QED
  BY <1>5, <1>7, <1>8 DEF table

\* The same for the table of the statistics, with its sum.
LEMMA Statistics ==
  LET width == CalculateTotalWidth([i \in 1 .. 4 |-> StatisticsColumnWidth])
  IN /\ IsMatrix(StatisticsTable.matrix)
     /\ StatisticsTable.matrix.size = <<width, 5 + MessageTypeCount>>
     /\ width \in Nat
     /\ StatisticsTable.fits
<1> DEFINE widths == [i \in 1 .. 4 |-> StatisticsColumnWidth]
           titles == << <<Char("message type")>>, <<Char("received")>>, <<Char("sent")>>,
                        <<Char("sent and acknowledged")>> >>
           row(name) == << <<Char(name)>>, <<Char("number")>>, <<Char("number")>>,
                           <<Char("number")>> >>
           n == MessageTypeCount
           types == [i \in 1 .. n |-> row("type")]
           rows == types \o <<row("SUM")>>
           R == {row("type"), row("SUM")}
<1>1. n \in Nat /\ StatisticsColumnWidth \in Nat
  BY ScreenAssumption
<1>2. \A i \in 1 .. 4 : IsText(titles[i])
  BY CharIsText, Fields
<1>3. ASSUME NEW name
      PROVE  \A i \in 1 .. 4 : IsText(row(name)[i])
  BY CharIsText, Fields
<1> HIDE DEF row, titles
<1>4. \A r \in R : \A i \in 1 .. 4 : IsText(r[i])
  BY <1>3
<1>5. rows \in Seq(R) /\ Len(rows) = n + 1
  <2>1. types \in [1 .. n -> R]
    OBVIOUS
  <2>2. types \in Seq(R) /\ Len(types) = n
    <3> HIDE DEF types, R, n
    <3> QED
      BY <1>1, <2>1
  <2>3. row("SUM") \in R
    OBVIOUS
  <2> HIDE DEF types, R, n
  <2> QED
    BY <1>1, <2>2, <2>3
<1>6. widths \in Seq(Nat) /\ Len(widths) = 4
  <2>1. widths \in [1 .. 4 -> Nat]
    BY <1>1
  <2> HIDE DEF widths
  <2> QED
    BY <2>1, ListOf
<1>7. StatisticsTable = RenderTable(widths, titles, rows)
  BY DEF StatisticsTable, row, titles
<1> HIDE DEF rows, R
<1> DEFINE table == RenderTable(widths, titles, rows)
<1>8. /\ IsMatrix(table.matrix)
      /\ table.matrix.size = <<CalculateTotalWidth(widths), 4 + Len(rows)>>
      /\ CalculateTotalWidth(widths) \in Nat
      /\ table.fits
  <2> HIDE DEF widths
  <2> QED
    BY <1>2, <1>4, <1>5, <1>6, Table
<1>9. 4 + Len(rows) = 5 + n
  BY <1>1, <1>5
<1> HIDE DEF table, widths
<1> QED
  BY <1>7, <1>8, <1>9 DEF table, widths

-----------------------------------------------------------------------------
(* Header, trailer, borders, notice and world. *)

\* A separator line has the width it was made with.
LEMMA Separator ==
  ASSUME NEW width \in Nat, width >= 2
  PROVE  /\ IsMatrix(GenerateSeparatorLine(width))
         /\ GenerateSeparatorLine(width).size = <<width, 1>>
<1> DEFINE first == <<Char("line start")>>
           middle == Repeated(<<Char("=")>>, width - 2)
           end == <<Char("line end")>>
<1>1. IsText(first) /\ IsText(end)
  BY CharIsText
<1>2. IsText(middle)
  <2>1. width - 2 \in Nat /\ IsText(<<Char("=")>>)
    BY CharIsText
  <2> QED
    BY <2>1, TextRepeated
<1>3. GenerateSeparatorLine(width) = Line(width, first \o middle \o end)
  BY DEF GenerateSeparatorLine
<1> HIDE DEF first, middle, end
<1>4. IsText(first \o middle)
  BY <1>1, <1>2, TextJoined
<1>5. IsText((first \o middle) \o end)
  BY <1>1, <1>4, TextJoined
<1> QED
  BY <1>3, <1>5, TextLine

\* Where the two border lines stand.
LEMMA Borders ==
  ASSUME NEW width \in Nat, NEW first \in Int, NEW last \in Int, first <= last + 1
  PROVE  LET borders == SetBorderLines(width, first, last)
         IN /\ ArePieces(borders) /\ Len(borders) = 2
            /\ IsPiece(borders[1]) /\ IsPiece(borders[2])
            /\ borders[1].matrix.size = <<1, last - first + 1>>
            /\ borders[2].matrix.size = <<1, last - first + 1>>
            /\ borders[1].offset = <<0, first>>
            /\ borders[2].offset = <<width - 1, first>>
<1> DEFINE size == <<1, last - first + 1>>
           line == Filled(size, Char("border"))
           a == Piece(line, <<0, first>>)
           b == Piece(line, <<width - 1, first>>)
<1>1. IsMatrix(line) /\ line.size = size
  <2>1. size \in Nat \X Nat
    OBVIOUS
  <2> HIDE DEF size
  <2> QED
    BY <2>1, Colored, FilledMatrix
<1>2. SetBorderLines(width, first, last) = <<a, b>>
  BY DEF SetBorderLines
<1> HIDE DEF line
<1>3. /\ IsPiece(a) /\ a.matrix = line /\ a.offset = <<0, first>>
      /\ IsPiece(b) /\ b.matrix = line /\ b.offset = <<width - 1, first>>
  <2>1. <<0, first>> \in Int \X Int /\ <<width - 1, first>> \in Int \X Int
    OBVIOUS
  <2> QED
    BY <1>1, <2>1, OnePiece
<1> HIDE DEF a, b, size
<1>4. ArePieces(<<a, b>>)
  BY <1>3, FewPieces
<1> QED
  BY <1>1, <1>2, <1>3, <1>4 DEF size

\* They can be inserted.
LEMMA BorderPieces ==
  ASSUME NEW width \in Nat, NEW first \in Nat, NEW last \in Nat, first <= last
  PROVE  ArePieces(SetBorderLines(width, first, last))
<1>1. first \in Int /\ last \in Int /\ first <= last + 1
  OBVIOUS
<1> QED
  BY <1>1, Borders

\* So can a separator line.
LEMMA LinePiece ==
  ASSUME NEW width \in Nat, width >= 2, NEW y \in Int
  PROVE  IsPiece(Piece(GenerateSeparatorLine(width), <<0, y>>))
<1>1. <<0, y>> \in Int \X Int
  OBVIOUS
<1> QED
  BY <1>1, Separator, OnePiece

\* The header is as wide as the frame.
LEMMA Header ==
  ASSUME players \in PlayerLists
  PROVE  /\ IsMatrix(CompositeHeader)
         /\ CompositeHeader.size = <<game_output_size[1], 6>>
<1> DEFINE width == game_output_size[1]
           middle == width \div 2
           line(y) == Piece(GenerateSeparatorLine(width), <<0, y>>)
           a == <<line(0), Text(<<Char("TITLE")>>, <<middle, 1>>),
                  Text(<<Char("TITLE")>>, <<middle, 2>>)>>
           b == SetBorderLines(width, 1, 2)
           c == <<line(3), Text(<<Char("SCORE"), Char(Own.score)>>, <<1, 4>>),
                  Text(<<Char("ITEM")>>, <<middle - 4, 4>>)>>
           d == IF Own.item = "none" THEN <<>>
                ELSE <<Text(<<Char(Own.item)>>, <<middle + 2, 4>>)>>
           e == <<Piece(Line(2 * max_health, Hearts(Own.health)),
                        <<width - 2 * max_health - 2, 4>>)>>
           f == SetBorderLines(width, 4, 4)
           g == <<line(5)>>
<1>1. CompositeHeader
        = InsertMatrix(Matrix(<<width, 6>>), a \o b \o c \o d \o e \o f \o g)
  BY DEF CompositeHeader, header_height
<1>2. width \in Nat /\ width >= 2 /\ middle \in Int
  BY Sizes
<1>3. max_health \in Nat /\ Own.health \in 0 .. max_health
  BY PlayersAre
<1> HIDE DEF width, middle
<1>4. IsPiece(line(0)) /\ IsPiece(line(3)) /\ IsPiece(line(5))
  BY <1>2, LinePiece
<1> HIDE DEF line
<1>5. ArePieces(a)
  <2>1. <<middle, 1>> \in Int \X Int /\ <<middle, 2>> \in Int \X Int
    BY <1>2
  <2>2. /\ IsPiece(Text(<<Char("TITLE")>>, <<middle, 1>>))
        /\ IsPiece(Text(<<Char("TITLE")>>, <<middle, 2>>))
    BY <2>1, CharIsText, TextPiece
  <2> QED
    BY <1>4, <2>2, FewPieces
<1>6. ArePieces(b) /\ ArePieces(f)
  BY <1>2, BorderPieces
<1>7. ArePieces(c)
  <2>1. <<1, 4>> \in Int \X Int /\ <<middle - 4, 4>> \in Int \X Int
    BY <1>2
  <2>2. /\ IsPiece(Text(<<Char("SCORE"), Char(Own.score)>>, <<1, 4>>))
        /\ IsPiece(Text(<<Char("ITEM")>>, <<middle - 4, 4>>))
    BY <2>1, CharIsText, TextPiece
  <2> QED
    BY <1>4, <2>2, FewPieces
<1>8. ArePieces(d)
  <2>1. <<middle + 2, 4>> \in Int \X Int
    BY <1>2
  <2>2. IsPiece(Text(<<Char(Own.item)>>, <<middle + 2, 4>>))
    BY <2>1, CharIsText, TextPiece
  <2>3. ArePieces(<<>>) /\ ArePieces(<<Text(<<Char(Own.item)>>, <<middle + 2, 4>>)>>)
    BY <2>2, FewPieces
  <2> QED
    BY <2>3
<1>9. ArePieces(e)
  <2>1. <<width - 2 * max_health - 2, 4>> \in Int \X Int /\ 2 * max_health \in Nat
    BY <1>2, <1>3
  <2>2. IsMatrix(Line(2 * max_health, Hearts(Own.health)))
    BY <1>3, <2>1, HeartsAreText, TextLine
  <2>3. IsPiece(Piece(Line(2 * max_health, Hearts(Own.health)),
                      <<width - 2 * max_health - 2, 4>>))
    BY <2>1, <2>2, OnePiece
  <2> QED
    BY <2>3, FewPieces
<1>10. ArePieces(g)
  BY <1>4, FewPieces
<1> HIDE DEF a, b, c, d, e, f, g
<1>11. ArePieces(a \o b \o c \o d)
  BY <1>5, <1>6, <1>7, <1>8, PiecesJoined
<1>12. ArePieces(a \o b \o c \o d \o e \o f \o g)
  BY <1>6, <1>9, <1>10, <1>11, PiecesJoined
<1>13. <<width, 6>> \in Nat \X Nat
  BY <1>2
<1> QED
  BY <1>1, <1>12, <1>13, Composed DEF width

\* So is the trailer.
LEMMA Trailer ==
  ASSUME players \in PlayerLists
  PROVE  /\ IsMatrix(CompositeTrailer)
         /\ CompositeTrailer.size = <<game_output_size[1], 3>>
<1> DEFINE width == game_output_size[1]
           hint(text, color) == ColoredChar(text, color, "BLACK")
           h1 == Char("Movement")
           h2 == hint("Use Item", IF Own.item = "none" THEN "GREY" ELSE "WHITE")
           h3 == Char("Player Info")
           h4 == hint("Simulate", IF "bad connection" \in shows
                                  THEN "ORANGE" ELSE "WHITE")
           hints == <<h1, h2, h3, h4>>
           line(y) == Piece(GenerateSeparatorLine(width), <<0, y>>)
           a == <<line(0), Text(hints, <<(width \div 2) - 2, 1>>)>>
           b == SetBorderLines(width, 1, 1)
           c == <<line(2)>>
<1>1. CompositeTrailer = InsertMatrix(Matrix(<<width, 3>>), a \o b \o c)
  BY DEF CompositeTrailer, trailer_height
<1>2. width \in Nat /\ width >= 2 /\ (width \div 2) - 2 \in Int
  BY Sizes
<1> HIDE DEF width
<1>3. IsPiece(line(0)) /\ IsPiece(line(2))
  BY <1>2, LinePiece
<1> HIDE DEF line
<1>4. IsText(hints)
  <2> DEFINE S == {h1, h2, h3, h4}
  <2>1. IsColored(h1) /\ IsColored(h2) /\ IsColored(h3) /\ IsColored(h4)
    BY Colored
  <2> HIDE DEF h1, h2, h3, h4
  <2>2. hints \in Seq(S) /\ \A h \in S : IsColored(h)
    BY <2>1
  <2> HIDE DEF hints, S
  <2> QED
    BY <2>2, TextOf
<1> HIDE DEF hints
<1>5. ArePieces(a)
  <2>1. <<(width \div 2) - 2, 1>> \in Int \X Int
    BY <1>2
  <2>2. IsPiece(Text(hints, <<(width \div 2) - 2, 1>>))
    BY <1>4, <2>1, TextPiece
  <2> QED
    BY <1>3, <2>2, FewPieces
<1>6. ArePieces(b)
  BY <1>2, BorderPieces
<1>7. ArePieces(c)
  BY <1>3, FewPieces
<1> HIDE DEF a, b, c
<1>8. ArePieces(a \o b \o c)
  BY <1>5, <1>6, <1>7, PiecesJoined
<1>9. <<width, 3>> \in Nat \X Nat
  BY <1>2
<1> QED
  BY <1>1, <1>8, <1>9, Composed DEF width

\* SetAllColors keeps the size.
LEMMA Recolored ==
  ASSUME NEW m, IsMatrix(m), NEW foreground, NEW background
  PROVE  /\ IsMatrix(SetAllColors(m, foreground, background))
         /\ SetAllColors(m, foreground, background).size = m.size
<1> DEFINE c == [p \in Region(m.size) |->
                   ColoredChar(m.characters[p].character, foreground, background)]
           l == SetAllColors(m, foreground, background)
<1>1. l = [m EXCEPT !.characters = c]
  BY Zenon DEF SetAllColors
<1>2. \A p \in Region(m.size) : IsColored(c[p])
  BY Colored
<1> HIDE DEF c, l
<1>3. m = [size |-> m.size, characters |-> m.characters]
  BY DEF IsMatrix
<1>4. l = [size |-> m.size, characters |-> c]
  BY <1>1, <1>3
<1>5. l.size = m.size /\ l.characters = c /\ l = [size |-> l.size, characters |-> l.characters]
  BY <1>4
<1>6. IsMatrix(l)
  BY <1>2, <1>5 DEF IsMatrix
<1> QED
  BY <1>5, <1>6 DEF l

\* The notice is inside the frame.
LEMMA Notice ==
  /\ IsPiece(RespawnPiece)
  /\ RespawnPiece.offset \in Nat \X Nat
  /\ IsLessOrEqual(Plus(RespawnPiece.offset, RespawnPiece.matrix.size), game_output_size)
  /\ IsLessOrEqual(<<0, header_height>>, RespawnPiece.offset)
<1> DEFINE message == RespawnMessage
           n == Len(message)
           width == n + 2
           line(y) == Piece(GenerateSeparatorLine(width), <<0, y>>)
           a == <<line(0), line(2)>>
           b == SetBorderLines(width, 1, 1)
           c == <<Text(message, <<1, 1>>)>>
           w == game_character_count[1]
           h == game_character_count[2]
           offset == <<(game_output_size[1] \div 2) - (n \div 2),
                       (h \div 2) + header_height>>
           notice == SetAllColors(DrawFrame(message), "RED", "BLACK")
<1>1. DrawFrame(message) = InsertMatrix(Matrix(<<width, 3>>), a \o b \o c)
  BY DEF DrawFrame
<1>2. n \in Nat /\ IsText(message) /\ width \in Nat /\ width >= 2
  BY Sizes
<1>3. w \in Nat \ {0} /\ h \in Nat \ {0} /\ game_output_size = <<w + 2, h + 9>>
  BY Sizes
<1>4. n + 2 <= w
  BY LayoutAssumption
<1>5. RespawnPiece = Piece(notice, offset)
  BY DEF RespawnPiece
<1>6. ArePieces(a) /\ ArePieces(c)
  <2>1. IsPiece(line(0)) /\ IsPiece(line(2))
    BY <1>2, LinePiece
  <2>2. <<1, 1>> \in Int \X Int
    OBVIOUS
  <2>3. IsPiece(Text(message, <<1, 1>>))
    BY <1>2, <2>2, TextPiece
  <2> HIDE DEF line
  <2> QED
    BY <2>1, <2>3, FewPieces
<1>7. ArePieces(b)
  BY <1>2, BorderPieces
<1> HIDE DEF a, b, c
<1>8. ArePieces(a \o b \o c)
  BY <1>6, <1>7, PiecesJoined
<1>9. <<width, 3>> \in Nat \X Nat
  BY <1>2
<1>10. IsMatrix(DrawFrame(message)) /\ DrawFrame(message).size = <<width, 3>>
  BY <1>1, <1>8, <1>9, Composed
<1>11. IsMatrix(notice) /\ notice.size = <<width, 3>>
  BY <1>10, Recolored
<1> HIDE DEF notice, message
<1>12. /\ offset[1] \in Nat /\ offset[2] \in Nat /\ 6 <= offset[2]
       /\ offset[1] + (n + 2) <= w + 2 /\ offset[2] + 3 <= h + 9
  <2>1. offset = <<((w + 2) \div 2) - (n \div 2), (h \div 2) + 6>>
    BY <1>3 DEF header_height
  <2> HIDE DEF n, w, h
  <2> QED
    BY <1>2, <1>3, <1>4, <2>1
<1>13. offset \in Nat \X Nat /\ offset \in Int \X Int
  <2>1. offset = <<offset[1], offset[2]>>
    OBVIOUS
  <2> HIDE DEF offset
  <2> QED
    BY <1>12, <2>1
<1>14. /\ RespawnPiece.offset = offset /\ RespawnPiece.matrix = notice
       /\ IsPiece(RespawnPiece)
  <2> HIDE DEF offset
  <2> QED
    BY <1>5, <1>11, <1>13, OnePiece
<1>15. IsLessOrEqual(Plus(offset, <<width, 3>>), game_output_size)
  <2> HIDE DEF offset, n, w, h
  <2> QED
    BY <1>3, <1>12 DEF IsLessOrEqual, Plus
<1>16. IsLessOrEqual(<<0, header_height>>, offset)
  <2> HIDE DEF offset
  <2> QED
    BY <1>12 DEF IsLessOrEqual, header_height
<1> QED
  BY <1>11, <1>13, <1>14, <1>15, <1>16

\* The viewport as numbers.
LEMMA Viewport ==
  ASSUME players \in PlayerLists
  PROVE  /\ viewport_size_delta[1] \in Nat /\ viewport_size_delta[2] \in Nat
         /\ 2 * viewport_size_delta[1] < ViewportSize[1]
         /\ 2 * viewport_size_delta[2] < ViewportSize[2]
         /\ Own.position \in Positions
         /\ Own.position[1] \in Nat /\ Own.position[2] \in Nat
         /\ viewport_start = <<Own.position[1] - viewport_size_delta[1],
                               Own.position[2] - viewport_size_delta[2]>>
         /\ viewport_end = <<Own.position[1] + viewport_size_delta[1],
                             Own.position[2] + viewport_size_delta[2]>>
         /\ viewport_start \in Int \X Int /\ viewport_end \in Int \X Int
         /\ WorldSize[1] \in Nat \ {0} /\ WorldSize[2] \in Nat \ {0}
<1>1. ViewportSize[1] \in Nat \ {0} /\ ViewportSize[2] \in Nat \ {0}
  BY ScreenAssumption
<1>2. WorldSize[1] \in Nat \ {0} /\ WorldSize[2] \in Nat \ {0}
  BY GeneratorAssumption
<1>3. Own.position \in Positions
  BY PlayersAre
<1>4. Own.position[1] \in Nat /\ Own.position[2] \in Nat
  BY <1>2, <1>3 DEF Positions
<1>5. viewport_size_delta
        = <<(ViewportSize[1] - 1) \div 2, (ViewportSize[2] - 1) \div 2>>
  BY DEF viewport_size_delta
<1>6. /\ viewport_size_delta[1] \in Nat /\ viewport_size_delta[2] \in Nat
      /\ 2 * viewport_size_delta[1] < ViewportSize[1]
      /\ 2 * viewport_size_delta[2] < ViewportSize[2]
  BY <1>1, <1>5
<1>7. /\ viewport_start = <<Own.position[1] - viewport_size_delta[1],
                            Own.position[2] - viewport_size_delta[2]>>
      /\ viewport_end = <<Own.position[1] + viewport_size_delta[1],
                          Own.position[2] + viewport_size_delta[2]>>
  BY DEF viewport_start, viewport_end, Plus, Minus
<1>8. viewport_start \in Int \X Int /\ viewport_end \in Int \X Int
  BY <1>4, <1>6, <1>7
<1> QED
  BY <1>2, <1>3, <1>4, <1>6, <1>7, <1>8

\* int division gives an int.
LEMMA Quotient ==
  ASSUME NEW a \in Int, NEW w \in Nat \ {0}
  PROVE  Divide(a, w) \in Int
<1>1. (-a) \div w \in Int /\ a \div w \in Int
  OBVIOUS
<1> QED
  BY <1>1 DEF Divide

\* Where an element is drawn.
LEMMA Rendered ==
  ASSUME players \in PlayerLists, NEW position \in Positions,
         NEW place \in RenderedAt(position)
  PROVE  \E factor \in Int \X Int :
           LET p == <<position[1] + WorldSize[1] * factor[1],
                      position[2] + WorldSize[2] * factor[2]>>
           IN /\ p \in Int \X Int
              /\ place = <<(p[1] - viewport_start[1]) * BlockSize[1],
                           (p[2] - viewport_start[2]) * BlockSize[2]>>
              /\ place \in Int \X Int
<1>1. PICK factor \in Repetitions(viewport_start, viewport_end) :
        place = Times(Minus(Plus(position, Times(WorldSize, factor)), viewport_start),
                      BlockSize)
  BY DEF RenderedAt
<1>2. /\ WorldSize[1] \in Nat \ {0} /\ WorldSize[2] \in Nat \ {0}
      /\ viewport_start[1] \in Int /\ viewport_start[2] \in Int
      /\ viewport_end[1] \in Int /\ viewport_end[2] \in Int
      /\ BlockSize[1] \in Nat /\ BlockSize[2] \in Nat
      /\ position[1] \in Int /\ position[2] \in Int
  BY Viewport, ScreenAssumption DEF Positions
<1>3. factor \in Int \X Int
  <2> DEFINE before == viewport_start[1] < 0 \/ viewport_start[2] < 0
             after == viewport_end[1] >= WorldSize[1] \/ viewport_end[2] >= WorldSize[2]
             first(i) == IF before
                         THEN Divide(viewport_start[i] - WorldSize[i], WorldSize[i]) ELSE 0
             last(i) == IF after
                        THEN Divide(viewport_end[i] + WorldSize[i], WorldSize[i]) ELSE 1
  <2>1. Repetitions(viewport_start, viewport_end)
          = (first(1) .. last(1) - 1) \X (first(2) .. last(2) - 1)
    BY DEF Repetitions
  <2>2. /\ first(1) \in Int /\ first(2) \in Int
        /\ last(1) \in Int /\ last(2) \in Int
    <3>1. /\ viewport_start[1] - WorldSize[1] \in Int
          /\ viewport_start[2] - WorldSize[2] \in Int
          /\ viewport_end[1] + WorldSize[1] \in Int
          /\ viewport_end[2] + WorldSize[2] \in Int
      BY <1>2
    <3>2. /\ Divide(viewport_start[1] - WorldSize[1], WorldSize[1]) \in Int
          /\ Divide(viewport_start[2] - WorldSize[2], WorldSize[2]) \in Int
          /\ Divide(viewport_end[1] + WorldSize[1], WorldSize[1]) \in Int
          /\ Divide(viewport_end[2] + WorldSize[2], WorldSize[2]) \in Int
      BY <1>2, <3>1, Quotient
    <3> QED
      BY <3>2
  <2> HIDE DEF first, last
  <2> QED
    BY <2>1, <2>2
<1> DEFINE p == <<position[1] + WorldSize[1] * factor[1],
                  position[2] + WorldSize[2] * factor[2]>>
<1>4. place = <<(p[1] - viewport_start[1]) * BlockSize[1],
                (p[2] - viewport_start[2]) * BlockSize[2]>>
  BY <1>1 DEF Plus, Minus, Times
<1>5. p[1] \in Int /\ p[2] \in Int /\ p \in Int \X Int
  BY <1>2, <1>3
<1>6. place \in Int \X Int
  <2> HIDE DEF p
  <2>1. \A a, b \in Int : a * b \in Int
    OBVIOUS
  <2>2. /\ p[1] - viewport_start[1] \in Int /\ p[2] - viewport_start[2] \in Int
        /\ BlockSize[1] \in Int /\ BlockSize[2] \in Int
    BY <1>2, <1>5
  <2> QED
    BY <1>4, <2>1, <2>2
<1> QED
  BY <1>3, <1>4, <1>5, <1>6

\* Everything there is in the world has a place in it.
InWorld ==
  /\ players \in PlayerLists /\ content \in Contents
  /\ DOMAIN walls \subseteq Positions

\* An element is drawn with its sprite at one of its places.
LEMMA Element ==
  ASSUME InWorld, NEW position \in Positions, NEW type, NEW color,
         NEW piece \in RenderElement(position, type, color)
  PROVE  /\ IsPiece(piece)
         /\ piece.offset \in RenderedAt(position)
         /\ piece.matrix = Sprite(type, color) /\ piece.matrix.size = BlockSize
<1>1. PICK place \in RenderedAt(position) : piece = Piece(Sprite(type, color), place)
  BY DEF RenderElement
<1>2. place \in Int \X Int
  BY Rendered DEF InWorld
<1>3. BlockSize \in Nat \X Nat
  BY ScreenAssumption
<1>4. IsMatrix(Sprite(type, color)) /\ Sprite(type, color).size = BlockSize
  BY <1>3, Colored, FilledMatrix DEF Sprite
<1> QED
  BY <1>1, <1>2, <1>4, OnePiece

\* All layers consist of pieces.
LEMMA ElementsArePieces ==
  ASSUME InWorld
  PROVE  /\ DOMAIN Elements = 1 .. 4
         /\ \A i \in 1 .. 4 : \A piece \in Elements[i] : IsPiece(piece)
<1>1. DOMAIN Elements = 1 .. 4
  BY DEF Elements
<1>2. ASSUME NEW piece \in Elements[1]
      PROVE  IsPiece(piece)
  <2>1. PICK p \in DOMAIN walls : piece \in RenderElement(p, walls[p], "WHITE")
    BY DEF Elements
  <2>2. p \in Positions
    BY DEF InWorld
  <2> QED
    BY <2>1, <2>2, Element
<1>3. ASSUME NEW piece \in Elements[2]
      PROVE  IsPiece(piece)
  <2>1. PICK p \in content.projectiles : piece \in RenderElement(p, "PROJECTILE", "WHITE")
    BY DEF Elements
  <2>2. p \in Positions
    BY ContentAssumption DEF InWorld
  <2> QED
    BY <2>1, <2>2, Element
<1>4. ASSUME NEW piece \in Elements[3]
      PROVE  IsPiece(piece)
  <2>1. PICK p \in Range(players) : piece \in RenderElement(p.position, p.type, p.color)
    BY DEF Elements
  <2>2. p.position \in Positions
    BY PlayersAre DEF InWorld, Range
  <2> QED
    BY <2>1, <2>2, Element
<1>5. ASSUME NEW piece \in Elements[4]
      PROVE  IsPiece(piece)
  <2>1. PICK p \in content.items : piece \in RenderElement(p, "ITEM", "WHITE")
    BY DEF Elements
  <2>2. p \in Positions
    BY ContentAssumption DEF InWorld
  <2> QED
    BY <2>1, <2>2, Element
<1>6. \A i \in 1 .. 4 : i = 1 \/ i = 2 \/ i = 3 \/ i = 4
  OBVIOUS
<1> QED
  BY <1>1, <1>2, <1>3, <1>4, <1>5, <1>6

\* What SetBackgroundColorInRegions makes of a matrix.
LEMMA Regions ==
  ASSUME NEW m, IsMatrix(m), NEW positions, NEW size, NEW background
  PROVE  LET l == SetBackgroundColorInRegions(m, positions, size, background)
         IN /\ IsMatrix(l) /\ l.size = m.size
            /\ \A p \in Region(m.size) :
                 /\ l.characters[p].character = m.characters[p].character
                 /\ l.characters[p].background
                      = IF \E q \in positions : Minus(p, q) \in Region(size)
                        THEN background ELSE m.characters[p].background
<1> DEFINE d(p) == IF \E q \in positions : Minus(p, q) \in Region(size)
                   THEN [m.characters[p] EXCEPT !.background = background]
                   ELSE m.characters[p]
           c == [p \in Region(m.size) |-> d(p)]
           l == SetBackgroundColorInRegions(m, positions, size, background)
<1>1. l = [m EXCEPT !.characters = c]
  BY Zenon DEF SetBackgroundColorInRegions
<1>2. ASSUME NEW p \in Region(m.size)
      PROVE  /\ IsColored(c[p]) /\ c[p].character = m.characters[p].character
             /\ c[p].background
                  = IF \E q \in positions : Minus(p, q) \in Region(size)
                    THEN background ELSE m.characters[p].background
  <2>1. c[p] = d(p)
    BY Zenon
  <2>2. m.characters[p] = ColoredChar(m.characters[p].character,
                            m.characters[p].foreground, m.characters[p].background)
    BY Zenon DEF IsMatrix, IsColored
  <2> DEFINE e == [m.characters[p] EXCEPT !.background = background]
  <2>3. e = ColoredChar(m.characters[p].character, m.characters[p].foreground, background)
    BY <2>2 DEF ColoredChar
  <2>4. /\ IsColored(e) /\ e.character = m.characters[p].character
        /\ e.background = background /\ IsColored(m.characters[p])
    BY <2>2, <2>3 DEF IsColored, ColoredChar
  <2> HIDE DEF c, e
  <2> QED
    BY <2>1, <2>4, Zenon DEF e
<1> HIDE DEF c, l
<1>3. m = [size |-> m.size, characters |-> m.characters]
  BY DEF IsMatrix
<1>4. l = [size |-> m.size, characters |-> c]
  BY <1>1, <1>3
<1>5. l.size = m.size /\ l.characters = c /\ l = [size |-> l.size, characters |-> l.characters]
  BY <1>4
<1>6. IsMatrix(l)
  BY <1>2, <1>5 DEF IsMatrix
<1> QED
  BY <1>2, <1>5, <1>6, Zenon DEF l

\* The Renderer fills its part of the frame.
LEMMA WorldMatrix ==
  ASSUME InWorld
  PROVE  IsMatrix(RenderWorld) /\ RenderWorld.size = game_character_count
<1> DEFINE m == Matrix(game_character_count)
           l == InsertLayers(m, Elements)
<1>1. IsMatrix(m) /\ m.size = game_character_count
  <2>1. game_character_count \in Nat \X Nat
    BY Sizes
  <2> QED
    BY <2>1, FilledMatrix, Colored DEF Matrix
<1>2. IsMatrix(l) /\ l.size = game_character_count
  <2> HIDE DEF m
  <2>1. 4 \in Nat
    OBVIOUS
  <2> QED
    BY <1>1, <2>1, ElementsArePieces, LayersInserted
<1> HIDE DEF l
<1> QED
  BY <1>2, Regions DEF RenderWorld, l

-----------------------------------------------------------------------------
(* What CompositeViewport inserts. *)

\* The elements of two sequences, one after the other.
LEMMA Joined ==
  ASSUME NEW S, NEW s \in Seq(S), NEW t \in Seq(S)
  PROVE  /\ s \o t \in Seq(S) /\ Len(s \o t) = Len(s) + Len(t)
         /\ Len(s) \in Nat /\ Len(t) \in Nat
         /\ \A i \in 1 .. Len(s) + Len(t) :
              (s \o t)[i] = IF i <= Len(s) THEN s[i] ELSE t[i - Len(s)]
OBVIOUS

\* A list goes on with pieces of R after its first four.
LEMMA GoesOn ==
  ASSUME NEW S, NEW R, NEW s \in Seq(S), NEW t \in Seq(S), Len(s) >= 4,
         \A i \in 5 .. Len(s) : s[i] \in R, \A i \in 1 .. Len(t) : t[i] \in R
  PROVE  /\ s \o t \in Seq(S) /\ Len(s \o t) >= 4
         /\ \A i \in 1 .. 4 : (s \o t)[i] = s[i]
         /\ \A i \in 5 .. Len(s \o t) : (s \o t)[i] \in R
<1>1. /\ s \o t \in Seq(S) /\ Len(s \o t) = Len(s) + Len(t)
      /\ Len(s) \in Nat /\ Len(t) \in Nat
  BY Joined
<1>2. \A i \in 1 .. Len(s) + Len(t) :
        (s \o t)[i] = IF i <= Len(s) THEN s[i] ELSE t[i - Len(s)]
  BY Joined
<1>3. \A i \in 1 .. 4 : (s \o t)[i] = s[i]
  BY <1>1, <1>2
<1>4. ASSUME NEW i \in 5 .. Len(s \o t)
      PROVE  (s \o t)[i] \in R
  <2>1. CASE i <= Len(s)
    BY <1>1, <1>2, <2>1
  <2>2. CASE i > Len(s)
    <3>1. i - Len(s) \in 1 .. Len(t)
      BY <1>1, <2>2
    <3> QED
      BY <1>1, <1>2, <2>2, <3>1
  <2> QED
    BY <1>1, <2>1, <2>2
<1> QED
  BY <1>1, <1>3, <1>4

\* A list that has one piece of R or none.
LEMMA NoneOrOne ==
  ASSUME NEW S, NEW R, R \subseteq S, NEW q \in R, NEW t, t = <<>> \/ t = <<q>>
  PROVE  t \in Seq(S) /\ \A i \in 1 .. Len(t) : t[i] \in R
<1>1. CASE t = <<>>
  BY <1>1
<1>2. CASE t = <<q>>
  <2>1. t \in Seq(S) /\ Len(t) = 1 /\ t[1] = q
    BY <1>2
  <2> QED
    BY <2>1
<1> QED
  BY <1>1, <1>2

Over == {TablePiece(PlayerList), TablePiece(StatisticsTable), RespawnPiece}

\* What CompositeViewport inserts: header, world and borders first, the trailer last,
\* tables and the notice between them.
LEMMA InOrder ==
  ASSUME InWorld
  PROVE  /\ Len(Pieces) \in Nat /\ Len(Pieces) >= 5
         /\ DOMAIN Pieces = 1 .. Len(Pieces)
         /\ ArePieces(Pieces)
         /\ Pieces[1] = Piece(CompositeHeader, <<0, 0>>)
         /\ Pieces[2] = Piece(RenderWorld, <<1, 6>>)
         /\ Pieces[3].offset = <<0, 6>>
         /\ Pieces[3].matrix.size = <<1, game_character_count[2]>>
         /\ Pieces[4].offset = <<game_character_count[1] + 1, 6>>
         /\ Pieces[4].matrix.size = <<1, game_character_count[2]>>
         /\ Pieces[Len(Pieces)]
              = Piece(CompositeTrailer, <<0, game_character_count[2] + 6>>)
         /\ \A i \in 5 .. Len(Pieces) - 1 : Pieces[i] \in Over
<1> DEFINE h == Piece(CompositeHeader, <<0, 0>>)
           w == Piece(RenderWorld, <<1, 6>>)
           b == SetBorderLines(game_output_size[1], 6, 6 + game_character_count[2] - 1)
           p == IF "players" \in shows THEN <<TablePiece(PlayerList)>> ELSE <<>>
           s == IF "statistics" \in shows THEN <<TablePiece(StatisticsTable)>> ELSE <<>>
           r == IF Own.type = "PLAYER_DEAD" THEN <<RespawnPiece>> ELSE <<>>
           t == Piece(CompositeTrailer, <<0, game_character_count[2] + 6>>)
           S == {h, w, b[1], b[2], t} \cup Over
<1>1. /\ game_character_count[1] \in Nat \ {0} /\ game_character_count[2] \in Nat \ {0}
      /\ game_output_size = <<game_character_count[1] + 2, game_character_count[2] + 9>>
  BY Sizes
<1>2. Pieces = <<h, w>> \o b \o p \o s \o r \o <<t>>
  <2>1. game_output_size[2] - trailer_height = game_character_count[2] + 6
    BY <1>1 DEF trailer_height
  <2> QED
    BY <2>1 DEF Pieces, header_height, border_size_x
<1>3. /\ b = <<b[1], b[2]>> /\ IsPiece(b[1]) /\ IsPiece(b[2])
      /\ b[1].matrix.size = <<1, game_character_count[2]>>
      /\ b[2].matrix.size = <<1, game_character_count[2]>>
      /\ b[1].offset = <<0, 6>>
      /\ b[2].offset = <<game_character_count[1] + 1, 6>>
  <2> DEFINE width == game_output_size[1]
             first == 6
             last == 6 + game_character_count[2] - 1
  <2>1. /\ width \in Nat /\ first \in Int /\ last \in Int /\ first <= last + 1
        /\ width - 1 = game_character_count[1] + 1
        /\ last - first + 1 = game_character_count[2]
    BY <1>1
  <2>2. b = SetBorderLines(width, first, last) /\ first = 6
    OBVIOUS
  <2> HIDE DEF width, first, last, b
  <2>3. /\ ArePieces(b) /\ Len(b) = 2
        /\ IsPiece(b[1]) /\ IsPiece(b[2])
        /\ b[1].matrix.size = <<1, last - first + 1>>
        /\ b[2].matrix.size = <<1, last - first + 1>>
        /\ b[1].offset = <<0, first>>
        /\ b[2].offset = <<width - 1, first>>
    BY <2>1, <2>2, Borders
  <2>4. b = <<b[1], b[2]>>
    BY <2>3 DEF ArePieces
  <2> QED
    BY <2>1, <2>2, <2>3, <2>4
<1>4. IsPiece(h) /\ IsPiece(w) /\ IsPiece(t)
  <2>1. /\ <<0, 0>> \in Int \X Int /\ <<1, 6>> \in Int \X Int
        /\ <<0, game_character_count[2] + 6>> \in Int \X Int
    BY <1>1
  <2> QED
    BY <2>1, Header, WorldMatrix, Trailer, OnePiece DEF InWorld
<1>5. \A q \in Over : IsPiece(q)
  <2>1. table_output_offset \in Int \X Int
    BY DEF table_output_offset, border_size_x, header_height
  <2>2. IsPiece(TablePiece(PlayerList)) /\ IsPiece(TablePiece(StatisticsTable))
    BY <2>1, PlayerListTable, Statistics, OnePiece DEF TablePiece, InWorld
  <2> QED
    BY <2>2, Notice DEF Over
<1> HIDE DEF h, w, b, t
<1>6. \A q \in S : IsPiece(q)
  BY <1>3, <1>4, <1>5
<1>7. /\ p \in Seq(S) /\ s \in Seq(S) /\ r \in Seq(S)
      /\ \A i \in 1 .. Len(p) : p[i] \in Over
      /\ \A i \in 1 .. Len(s) : s[i] \in Over
      /\ \A i \in 1 .. Len(r) : r[i] \in Over
  <2>1. /\ Over \subseteq S /\ TablePiece(PlayerList) \in Over
        /\ TablePiece(StatisticsTable) \in Over /\ RespawnPiece \in Over
    BY DEF Over
  <2>2. /\ p = <<>> \/ p = <<TablePiece(PlayerList)>>
        /\ s = <<>> \/ s = <<TablePiece(StatisticsTable)>>
        /\ r = <<>> \/ r = <<RespawnPiece>>
    OBVIOUS
  <2> HIDE DEF p, s, r, S
  <2> QED
    BY <2>1, <2>2, NoneOrOne
<1> DEFINE f == <<h, w>> \o b
<1>8. /\ f \in Seq(S) /\ Len(f) = 4
      /\ f[1] = h /\ f[2] = w /\ f[3] = b[1] /\ f[4] = b[2]
  <2> DEFINE hw == <<h, w>>
             bb == <<b[1], b[2]>>
  <2>1. /\ hw \in Seq(S) /\ Len(hw) = 2 /\ hw[1] = h /\ hw[2] = w
        /\ bb \in Seq(S) /\ Len(bb) = 2 /\ bb[1] = b[1] /\ bb[2] = b[2]
    OBVIOUS
  <2> HIDE DEF hw, bb, S
  <2>2. /\ hw \o bb \in Seq(S) /\ Len(hw \o bb) = 4
        /\ (hw \o bb)[1] = h /\ (hw \o bb)[2] = w
        /\ (hw \o bb)[3] = b[1] /\ (hw \o bb)[4] = b[2]
    <3>1. /\ hw \o bb \in Seq(S) /\ Len(hw \o bb) = Len(hw) + Len(bb)
          /\ \A i \in 1 .. Len(hw) + Len(bb) :
               (hw \o bb)[i] = IF i <= Len(hw) THEN hw[i] ELSE bb[i - Len(hw)]
      BY <2>1, Joined
    <3>2. Len(hw) = 2 /\ Len(bb) = 2
      BY <2>1
    <3>3. \A i \in 1 .. 4 : (hw \o bb)[i] = IF i <= 2 THEN hw[i] ELSE bb[i - 2]
      BY <3>1, <3>2
    <3> QED
      BY <2>1, <3>1, <3>3
  <2>3. f = hw \o bb
    BY <1>3 DEF hw, bb
  <2> HIDE DEF f
  <2> QED
    BY <2>2, <2>3
<1> DEFINE k == f \o p \o s \o r
<1>9. /\ k \in Seq(S) /\ Len(k) >= 4
      /\ \A i \in 1 .. 4 : k[i] = f[i]
      /\ \A i \in 5 .. Len(k) : k[i] \in Over
  <2> HIDE DEF f, p, s, r, S, Over
  <2>1. Len(f) >= 4 /\ f \in Seq(S) /\ \A i \in 5 .. Len(f) : f[i] \in Over
    BY <1>8
  <2> DEFINE fp == f \o p
  <2>2. /\ fp \in Seq(S) /\ Len(fp) >= 4
        /\ \A i \in 1 .. 4 : fp[i] = f[i]
        /\ \A i \in 5 .. Len(fp) : fp[i] \in Over
    BY <1>7, <2>1, GoesOn
  <2> HIDE DEF fp
  <2> DEFINE fps == fp \o s
  <2>3. /\ fps \in Seq(S) /\ Len(fps) >= 4
        /\ \A i \in 1 .. 4 : fps[i] = fp[i]
        /\ \A i \in 5 .. Len(fps) : fps[i] \in Over
    BY <1>7, <2>2, GoesOn
  <2> HIDE DEF fps
  <2> DEFINE fpsr == fps \o r
  <2>4. /\ fpsr \in Seq(S) /\ Len(fpsr) >= 4
        /\ \A i \in 1 .. 4 : fpsr[i] = fps[i]
        /\ \A i \in 5 .. Len(fpsr) : fpsr[i] \in Over
    BY <1>7, <2>3, GoesOn
  <2>5. k = fpsr
    BY DEF fp, fps
  <2> HIDE DEF k, fpsr
  <2> QED
    BY <2>2, <2>3, <2>4, <2>5
<1>10. Pieces = k \o <<t>>
  BY <1>2
<1>11. t \in S
  OBVIOUS
<1> HIDE DEF k, S, f
<1>12. /\ k \o <<t>> \in Seq(S) /\ Len(k \o <<t>>) = Len(k) + 1 /\ Len(k) \in Nat
       /\ (k \o <<t>>)[Len(k) + 1] = t
       /\ \A i \in 1 .. Len(k) : (k \o <<t>>)[i] = k[i]
  BY <1>9, <1>11
<1>13. /\ Len(Pieces) = Len(k) + 1 /\ Pieces \in Seq(S)
       /\ Pieces[Len(Pieces)] = t
       /\ \A i \in 1 .. Len(k) : Pieces[i] = k[i]
  BY <1>10, <1>12
<1>14. ArePieces(Pieces)
  BY <1>6, <1>13, PiecesOf
<1>15. /\ Pieces[1] = h /\ Pieces[2] = w /\ Pieces[3] = b[1] /\ Pieces[4] = b[2]
  BY <1>8, <1>9, <1>12, <1>13
<1>16. \A i \in 5 .. Len(Pieces) - 1 : Pieces[i] \in Over
  BY <1>9, <1>12, <1>13
<1>17. Len(Pieces) \in Nat /\ Len(Pieces) >= 5 /\ DOMAIN Pieces = 1 .. Len(Pieces)
  BY <1>9, <1>12, <1>13
<1> QED
  BY <1>3, <1>13, <1>14, <1>15, <1>16, <1>17 DEF h, w, t

\* Together the pieces leave nothing of the frame before.
LEMMA AllCovered ==
  ASSUME InWorld, NEW p \in Region(game_output_size)
  PROVE  \E i \in DOMAIN Pieces : Covers(Pieces[i], p)
<1> DEFINE w == game_character_count[1]
           h == game_character_count[2]
           n == Len(Pieces)
<1>1. w \in Nat \ {0} /\ h \in Nat \ {0} /\ game_output_size = <<w + 2, h + 9>>
  BY Sizes
<1>2. /\ n \in Nat /\ n >= 5 /\ DOMAIN Pieces = 1 .. n
      /\ Pieces[1].offset = <<0, 0>> /\ Pieces[1].matrix.size = <<w + 2, 6>>
      /\ Pieces[2].offset = <<1, 6>> /\ Pieces[2].matrix.size = <<w, h>>
      /\ Pieces[3].offset = <<0, 6>> /\ Pieces[3].matrix.size = <<1, h>>
      /\ Pieces[4].offset = <<w + 1, 6>> /\ Pieces[4].matrix.size = <<1, h>>
      /\ Pieces[n].offset = <<0, h + 6>> /\ Pieces[n].matrix.size = <<w + 2, 3>>
  <2>1. /\ CompositeHeader.size = <<w + 2, 6>> /\ CompositeTrailer.size = <<w + 2, 3>>
        /\ RenderWorld.size = <<w, h>>
    <3>1. game_output_size[1] = w + 2 /\ game_character_count = <<w, h>>
      BY <1>1, Sizes
    <3>2. CompositeHeader.size = <<game_output_size[1], 6>>
      BY Header DEF InWorld
    <3>3. CompositeTrailer.size = <<game_output_size[1], 3>>
      BY Trailer DEF InWorld
    <3>4. RenderWorld.size = game_character_count
      BY WorldMatrix
    <3> HIDE DEF w, h
    <3> QED
      BY <3>1, <3>2, <3>3, <3>4
  <2> HIDE DEF w, h
  <2>2. /\ n \in Nat /\ n >= 5 /\ DOMAIN Pieces = 1 .. n
        /\ Pieces[1] = Piece(CompositeHeader, <<0, 0>>)
        /\ Pieces[2] = Piece(RenderWorld, <<1, 6>>)
        /\ Pieces[3].offset = <<0, 6>> /\ Pieces[3].matrix.size = <<1, h>>
        /\ Pieces[4].offset = <<w + 1, 6>> /\ Pieces[4].matrix.size = <<1, h>>
        /\ Pieces[n] = Piece(CompositeTrailer, <<0, h + 6>>)
    BY InOrder DEF w, h
  <2> HIDE DEF n
  <2> QED
    BY <2>1, <2>2, OnePiece
<1>3. p[1] \in 0 .. w + 1 /\ p[2] \in 0 .. h + 8
  <2> HIDE DEF w, h
  <2> QED
    BY <1>1 DEF Region
<1> HIDE DEF w, h, n
<1>4. CASE p[2] < 6
  <2>1. Covers(Pieces[1], p)
    BY <1>1, <1>2, <1>3, <1>4 DEF Covers, IsLessOrEqual
  <2> QED
    BY <1>2, <2>1
<1>5. CASE p[2] >= h + 6
  <2>1. Covers(Pieces[n], p)
    BY <1>1, <1>2, <1>3, <1>5 DEF Covers, IsLessOrEqual
  <2> QED
    BY <1>2, <2>1
<1>6. CASE p[2] >= 6 /\ p[2] < h + 6 /\ p[1] = 0
  <2>1. Covers(Pieces[3], p)
    BY <1>1, <1>2, <1>3, <1>6 DEF Covers, IsLessOrEqual
  <2> QED
    BY <1>2, <2>1
<1>7. CASE p[2] >= 6 /\ p[2] < h + 6 /\ p[1] = w + 1
  <2>1. Covers(Pieces[4], p)
    BY <1>1, <1>2, <1>3, <1>7 DEF Covers, IsLessOrEqual
  <2> QED
    BY <1>2, <2>1
<1>8. CASE p[2] >= 6 /\ p[2] < h + 6 /\ p[1] # 0 /\ p[1] # w + 1
  <2>1. Covers(Pieces[2], p)
    BY <1>1, <1>2, <1>3, <1>8 DEF Covers, IsLessOrEqual
  <2> QED
    BY <1>2, <2>1
<1> QED
  BY <1>1, <1>3, <1>4, <1>5, <1>6, <1>7, <1>8

\* So the frame before makes no difference.
LEMMA Refreshed ==
  ASSUME InWorld, NEW m, m = [size |-> m.size, characters |-> m.characters],
         m.size = game_output_size
  PROVE  InsertMatrix(m, Pieces) = InsertMatrix(Matrix(game_output_size), Pieces)
<1> DEFINE blank == Matrix(game_output_size)
           n == Len(Pieces)
<1>1. /\ blank = [size |-> blank.size, characters |-> blank.characters]
      /\ blank.size = game_output_size
  <2>1. game_output_size \in Nat \X Nat
    BY Sizes
  <2> QED
    BY <2>1, FilledMatrix, Colored DEF Matrix, IsMatrix
<1>2. n \in Nat /\ DOMAIN Pieces = 1 .. n
  BY InOrder
<1> HIDE DEF blank, n
<1> DEFINE R == Region(game_output_size)
           a == InsertMatrix(m, Pieces)
           b == InsertMatrix(blank, Pieces)
<1>3. /\ a = [size |-> game_output_size, characters |-> a.characters]
      /\ a.characters = [p \in R |-> a.characters[p]]
      /\ \A p \in R : a.characters[p] = OnTop(m, Pieces, p)
  BY <1>2, Inserted
<1>4. /\ b = [size |-> game_output_size, characters |-> b.characters]
      /\ b.characters = [p \in R |-> b.characters[p]]
      /\ \A p \in R : b.characters[p] = OnTop(blank, Pieces, p)
  BY <1>1, <1>2, Inserted
<1>5. ASSUME NEW p \in R
      PROVE  OnTop(m, Pieces, p) = OnTop(blank, Pieces, p)
  <2> DEFINE covering == {i \in DOMAIN Pieces : Covers(Pieces[i], p)}
  <2>1. covering # {}
    BY AllCovered
  <2> QED
    BY <2>1, Zenon DEF OnTop
<1> HIDE DEF a, b, R
<1>6. a.characters = b.characters
  BY <1>3, <1>4, <1>5
<1>7. a = b
  BY <1>3, <1>4, <1>6
<1> QED
  BY <1>7 DEF a, b, blank

\* The players' table is lower than the frame.
TableHasRoom ==
  \A list \in PlayerLists :
    table_output_offset[2] + Len(list) + 4 <= game_output_size[2]

\* No piece reaches out of the frame.
LEMMA AllFit ==
  ASSUME InWorld, TableHasRoom, game_output.size = game_output_size
  PROVE  AssertionsHold(Pieces)
<1> DEFINE w == game_character_count[1]
           h == game_character_count[2]
           n == Len(Pieces)
           Inside2(piece) == Fits(game_output, piece)
<1>1. w \in Nat \ {0} /\ h \in Nat \ {0} /\ game_output_size = <<w + 2, h + 9>>
      /\ game_output_size[1] = w + 2 /\ game_character_count = <<w, h>>
  BY Sizes
<1>2. PlayerList.fits /\ StatisticsTable.fits
  BY PlayerListTable, Statistics DEF InWorld
<1>3. /\ n \in Nat /\ n >= 5 /\ DOMAIN Pieces = 1 .. n
      /\ Pieces[1] = Piece(CompositeHeader, <<0, 0>>)
      /\ Pieces[2] = Piece(RenderWorld, <<1, 6>>)
      /\ Pieces[3].offset = <<0, 6>> /\ Pieces[3].matrix.size = <<1, h>>
      /\ Pieces[4].offset = <<w + 1, 6>> /\ Pieces[4].matrix.size = <<1, h>>
      /\ Pieces[n] = Piece(CompositeTrailer, <<0, h + 6>>)
      /\ \A i \in 5 .. n - 1 : Pieces[i] \in Over
  BY InOrder
<1>4. /\ CompositeHeader.size = <<w + 2, 6>> /\ CompositeTrailer.size = <<w + 2, 3>>
      /\ RenderWorld.size = <<w, h>>
  <2>1. CompositeHeader.size = <<game_output_size[1], 6>>
    BY Header DEF InWorld
  <2>2. CompositeTrailer.size = <<game_output_size[1], 3>>
    BY Trailer DEF InWorld
  <2>3. RenderWorld.size = game_character_count
    BY WorldMatrix
  <2> HIDE DEF w, h
  <2> QED
    BY <1>1, <2>1, <2>2, <2>3
<1> HIDE DEF w, h, n
<1>5. ASSUME NEW piece, NEW x \in Nat, NEW y \in Nat, NEW a \in Nat, NEW b \in Nat,
             piece.offset = <<x, y>>, piece.matrix.size = <<a, b>>,
             x + a <= w + 2, y + b <= h + 9
      PROVE  Fits(game_output, piece)
  <2>1. IsLessOrEqual(Plus(<<x, y>>, <<a, b>>), <<w + 2, h + 9>>)
    BY <1>5 DEF IsLessOrEqual, Plus
  <2> QED
    BY <1>1, <1>5, <2>1 DEF Fits
<1>6. Fits(game_output, Pieces[1])
  <2>1. Pieces[1].offset = <<0, 0>> /\ Pieces[1].matrix.size = <<w + 2, 6>>
    BY <1>3, <1>4, OnePiece
  <2>2. w + 2 \in Nat /\ 0 + (w + 2) <= w + 2 /\ 0 + 6 <= h + 9
    BY <1>1
  <2> QED
    BY <1>5, <2>1, <2>2
<1>7. Fits(game_output, Pieces[2])
  <2>1. Pieces[2].offset = <<1, 6>> /\ Pieces[2].matrix.size = <<w, h>>
    BY <1>3, <1>4, OnePiece
  <2>2. 1 + w <= w + 2 /\ 6 + h <= h + 9
    BY <1>1
  <2> QED
    BY <1>1, <1>5, <2>1, <2>2
<1>8. Fits(game_output, Pieces[3])
  <2>1. 0 + 1 <= w + 2 /\ 6 + h <= h + 9
    BY <1>1
  <2> QED
    BY <1>1, <1>3, <1>5, <2>1
<1>9. Fits(game_output, Pieces[4])
  <2>1. (w + 1) + 1 <= w + 2 /\ 6 + h <= h + 9 /\ w + 1 \in Nat
    BY <1>1
  <2> QED
    BY <1>1, <1>3, <1>5, <2>1
<1>10. Fits(game_output, Pieces[n])
  <2>1. Pieces[n].offset = <<0, h + 6>> /\ Pieces[n].matrix.size = <<w + 2, 3>>
    BY <1>3, <1>4, OnePiece
  <2>2. w + 2 \in Nat /\ h + 6 \in Nat /\ 0 + (w + 2) <= w + 2 /\ (h + 6) + 3 <= h + 9
    BY <1>1
  <2> QED
    BY <1>5, <2>1, <2>2
<1>11. table_output_offset = <<3, 7>>
  BY DEF table_output_offset, border_size_x, header_height
<1>12. Fits(game_output, TablePiece(PlayerList))
  <2> DEFINE a == CalculateTotalWidth(PlayerColumnWidths)
             b == 4 + Len(players)
  <2>1. /\ TablePiece(PlayerList).offset = <<3, 7>>
        /\ TablePiece(PlayerList).matrix = PlayerList.matrix
    BY <1>11, OnePiece DEF TablePiece
  <2>2. PlayerList.matrix.size = <<a, b>> /\ a \in Nat
    BY PlayerListTable DEF InWorld
  <2>3. 3 + a <= w + 2
    BY <1>1, <1>11, LayoutAssumption
  <2>4. Len(players) \in Nat
    BY PlayersAre DEF InWorld
  <2>5. b \in Nat /\ 7 + b <= h + 9
    BY <1>1, <1>11, <2>4 DEF TableHasRoom, InWorld
  <2> HIDE DEF a, b
  <2> QED
    BY <1>5, <2>1, <2>2, <2>3, <2>5
<1>13. Fits(game_output, TablePiece(StatisticsTable))
  <2> DEFINE widths == [i \in 1 .. 4 |-> StatisticsColumnWidth]
             a == CalculateTotalWidth(widths)
             b == 5 + MessageTypeCount
  <2>1. /\ TablePiece(StatisticsTable).offset = <<3, 7>>
        /\ TablePiece(StatisticsTable).matrix = StatisticsTable.matrix
    BY <1>11, OnePiece DEF TablePiece
  <2>2. StatisticsTable.matrix.size = <<a, b>> /\ a \in Nat
    BY Statistics
  <2>3. 3 + a <= w + 2
    <3> HIDE DEF widths
    <3> QED
      BY <1>1, <1>11, LayoutAssumption DEF widths
  <2>4. MessageTypeCount \in Nat
    BY ScreenAssumption
  <2>5. b \in Nat /\ 7 + b <= h + 9
    BY <1>1, <1>11, <2>4, LayoutAssumption
  <2> HIDE DEF a, b
  <2> QED
    BY <1>5, <2>1, <2>2, <2>3, <2>5
<1>14. Fits(game_output, RespawnPiece)
  BY Notice DEF Fits
<1>15. ASSUME NEW i \in 1 .. n
       PROVE  Fits(game_output, Pieces[i])
  <2>1. CASE i \in 5 .. n - 1
    BY <1>3, <1>12, <1>13, <1>14, <2>1 DEF Over
  <2>2. CASE i \notin 5 .. n - 1
    <3>1. i = 1 \/ i = 2 \/ i = 3 \/ i = 4 \/ i = n
      BY <1>3, <2>2
    <3> QED
      BY <1>6, <1>7, <1>8, <1>9, <1>10, <3>1
  <2> QED
    BY <2>1, <2>2
<1> QED
  BY <1>2, <1>3, <1>15 DEF AssertionsHold

-----------------------------------------------------------------------------
(* The invariant. *)

\* Once there is something to show, the world is complete and as the rules
\* allow it.
WorldInv ==
  drawing # "start" =>
    /\ generating = "done" /\ players \in PlayerLists /\ content \in Contents

\* The frame that is never cleared keeps its size.
FrameInv ==
  /\ IsMatrix(game_output) /\ game_output.size = game_output_size
  /\ game_output.characters
       = [p \in Region(game_output_size) |-> game_output.characters[p]]

\* What SetScreen remembers is what it has printed last, unless the terminal
\* has been resized since then.
TerminalInv ==
  /\ drawing = "wait" => last_screen_content = <<game_output>>
  /\ (terminal = terminal_size /\ last_screen_content # <<>>) =>
       shown = <<Printed(last_screen_content[1])>>

ShowInv == GeneratorInv /\ WorldInv /\ FrameInv /\ FrameIsFresh /\ TerminalInv

\* Before the first frame.
LEMMA ShowInit == ScreenInit => ShowInv
<1> SUFFICES ASSUME ScreenInit
             PROVE  ShowInv
  OBVIOUS
<1>1. GeneratorInv
  BY InitInv DEF ScreenInit
<1>2. WorldInv /\ FrameIsFresh /\ TerminalInv
  BY DEF ScreenInit, WorldInv, FrameIsFresh, TerminalInv
<1>3. FrameInv
  <2>1. game_output = Filled(game_output_size, Blank)
    BY DEF ScreenInit, Matrix
  <2>2. game_output_size \in Nat \X Nat /\ IsColored(Blank)
    BY Sizes, Colored
  <2>3. IsMatrix(game_output) /\ game_output.size = game_output_size
    BY <2>1, <2>2, FilledMatrix
  <2>4. game_output.characters = [p \in Region(game_output_size) |-> Blank]
    BY <2>1, Zenon DEF Filled
  <2> QED
    BY <2>3, <2>4, Zenon DEF FrameInv
<1> QED
  BY <1>1, <1>2, <1>3 DEF ShowInv

\* What is composed depends on the world and on what is to be shown alone.
LEMMA SamePieces ==
  ASSUME UNCHANGED <<walls, content, players, shows>>
  PROVE  Pieces' = Pieces
<1>1. Own' = Own
  BY DEF Own
<1>2. viewport_start' = viewport_start /\ viewport_end' = viewport_end
  BY <1>1 DEF viewport_start, viewport_end
<1>3. \A p : RenderedAt(p)' = RenderedAt(p)
  BY <1>2 DEF RenderedAt
<1>4. \A p, type, color :
        RenderElement(p, type, color)' = RenderElement(p, type, color)
  BY <1>3 DEF RenderElement
<1>5. Elements' = Elements
  BY <1>4 DEF Elements
<1>6. RenderWorld' = RenderWorld
  BY <1>3, <1>5 DEF RenderWorld
<1>7. PlayerList' = PlayerList
  BY DEF PlayerList
<1>8. StatisticsTable' = StatisticsTable
  BY DEF StatisticsTable
<1>9. CompositeHeader' = CompositeHeader /\ CompositeTrailer' = CompositeTrailer
  BY <1>1 DEF CompositeHeader, CompositeTrailer
<1>10. RespawnPiece' = RespawnPiece
  BY DEF RespawnPiece
<1> QED
  BY <1>1, <1>6, <1>7, <1>8, <1>9, <1>10 DEF Pieces

\* Every step keeps the invariant.
LEMMA ShowStep ==
  ASSUME ShowInv, [ScreenNext]_<<generatorVars, screenVars>>
  PROVE  ShowInv'
<1>1. GeneratorInv'
  <2>1. TogglePlayers \/ ToggleStatistics \/ ToggleSimulator => UNCHANGED generatorVars
    BY Zenon DEF TogglePlayers, ToggleStatistics, ToggleSimulator, Key, NextFrame
  <2>2. CompositeViewport => UNCHANGED generatorVars
    BY DEF CompositeViewport
  <2>3. SetScreen => UNCHANGED generatorVars
    BY DEF SetScreen
  <2>4. WorldChanges \/ Resize => UNCHANGED generatorVars
    BY DEF WorldChanges, Resize, NextFrame
  <2>5. [GeneratorNext]_generatorVars
    BY <2>1, <2>2, <2>3, <2>4 DEF ScreenNext
  <2> QED
    BY <2>5, StepInv DEF ShowInv
<1>2. CASE GeneratorNext /\ UNCHANGED screenVars
  <2>1. generating # "done"
    BY <1>2 DEF GeneratorNext, GenerateHeight, GenerateBuilding, GenerateDoors,
                GenerateWorldReturns
  <2>2. drawing = "start" /\ drawing' = "start"
    BY <1>2, <2>1 DEF ShowInv, WorldInv, screenVars
  <2>3. WorldInv' /\ FrameIsFresh'
    BY <2>2 DEF WorldInv, FrameIsFresh
  <2>4. FrameInv' /\ TerminalInv'
    BY <1>2 DEF ShowInv, FrameInv, TerminalInv, screenVars
  <2> QED
    BY <1>1, <2>3, <2>4 DEF ShowInv
<1>3. CASE WorldChanges
  <2>1. WorldInv' /\ FrameIsFresh'
    BY <1>3 DEF WorldChanges, NextFrame, generatorVars, WorldInv, FrameIsFresh
  <2>2. FrameInv' /\ TerminalInv'
    BY <1>3 DEF ShowInv, FrameInv, TerminalInv, WorldChanges, NextFrame
  <2> QED
    BY <1>1, <2>1, <2>2 DEF ShowInv
<1>4. CASE TogglePlayers \/ ToggleStatistics \/ ToggleSimulator
  <2>1. drawing = "wait" /\ UNCHANGED <<content, players, terminal, shown>> /\ NextFrame
    BY <1>4, Zenon DEF TogglePlayers, ToggleStatistics, ToggleSimulator, Key
  <2>2. WorldInv' /\ FrameIsFresh'
    BY <2>1 DEF NextFrame, generatorVars, ShowInv, WorldInv, FrameIsFresh
  <2>3. FrameInv' /\ TerminalInv'
    BY <2>1 DEF ShowInv, FrameInv, TerminalInv, NextFrame
  <2> QED
    BY <1>1, <2>2, <2>3 DEF ShowInv
<1>5. CASE Resize
  <2>1. WorldInv' /\ FrameIsFresh'
    BY <1>5 DEF Resize, NextFrame, generatorVars, ShowInv, WorldInv, FrameIsFresh
  <2>2. FrameInv'
    BY <1>5 DEF ShowInv, FrameInv, Resize, NextFrame
  <2>3. terminal' # terminal_size' /\ drawing' # "wait"
    BY <1>5 DEF Resize, NextFrame
  <2>4. TerminalInv'
    BY <2>3 DEF TerminalInv
  <2> QED
    BY <1>1, <2>1, <2>2, <2>4 DEF ShowInv
<1>6. CASE SetScreen
  <2>1. WorldInv' /\ FrameIsFresh'
    BY <1>6 DEF SetScreen, generatorVars, ShowInv, WorldInv, FrameIsFresh
  <2>2. FrameInv' /\ game_output' = game_output
    BY <1>6 DEF ShowInv, FrameInv, SetScreen
  <2>3. last_screen_content' = <<game_output>>
    BY <1>6 DEF SetScreen
  <2>4. last_screen_content'[1] = game_output
    BY <2>3
  <2>5. shown' = <<Printed(game_output)>>
    <3>1. CASE ~RedrawNeeded /\ last_screen_content = <<game_output>>
      <4>1. terminal = terminal_size /\ last_screen_content # <<>>
        BY <3>1 DEF RedrawNeeded
      <4>2. last_screen_content[1] = game_output
        BY <3>1
      <4>3. shown' = shown
        BY <1>6, <3>1 DEF SetScreen
      <4> QED
        BY <4>1, <4>2, <4>3 DEF ShowInv, TerminalInv
    <3>2. CASE ~(~RedrawNeeded /\ last_screen_content = <<game_output>>)
      BY <1>6, <3>2 DEF SetScreen
    <3> QED
      BY <3>1, <3>2
  <2>6. TerminalInv'
    BY <2>2, <2>3, <2>4, <2>5 DEF TerminalInv
  <2> QED
    BY <1>1, <2>1, <2>2, <2>6 DEF ShowInv
<1>7. CASE CompositeViewport
  <2>1. /\ UNCHANGED <<walls, content, players, shows>>
        /\ UNCHANGED <<generating, terminal, terminal_size, last_screen_content, shown>>
        /\ drawing = "composite" /\ drawing' \in {"print", "composite"}
        /\ drawing' = "print" => game_output' = InsertMatrix(game_output, Pieces)
        /\ game_output' = game_output \/ game_output' = InsertMatrix(game_output, Pieces)
    BY <1>7 DEF CompositeViewport, generatorVars
  <2>2. InWorld
    BY <2>1 DEF ShowInv, WorldInv, GeneratorInv, InWorld
  <2>3. Len(Pieces) \in Nat /\ DOMAIN Pieces = 1 .. Len(Pieces) /\ ArePieces(Pieces)
    BY <2>2, InOrder
  <2>4. IsMatrix(game_output) /\ game_output.size = game_output_size
    BY DEF ShowInv, FrameInv
  <2>5. FrameInv'
    <3> DEFINE m == InsertMatrix(game_output, Pieces)
    <3>1. IsMatrix(m) /\ m.size = game_output_size
      BY <2>3, <2>4, PiecesInserted
    <3>2. m.characters = [p \in Region(game_output_size) |-> m.characters[p]]
      BY <2>3, <2>4, Inserted DEF IsMatrix
    <3>3. CASE game_output' = m
      <4> HIDE DEF m
      <4> QED
        BY <3>1, <3>2, <3>3 DEF FrameInv
    <3>4. CASE game_output' = game_output
      BY <3>4 DEF ShowInv, FrameInv
    <3> QED
      BY <2>1, <3>3, <3>4
  <2>6. FrameIsFresh'
    <3>1. Pieces' = Pieces
      BY <2>1, SamePieces
    <3>2. InsertMatrix(game_output, Pieces)
            = InsertMatrix(Matrix(game_output_size), Pieces)
      BY <2>2, <2>4, Refreshed DEF IsMatrix
    <3> QED
      BY <2>1, <3>1, <3>2 DEF FrameIsFresh
  <2>7. WorldInv' /\ TerminalInv'
    BY <2>1 DEF ShowInv, WorldInv, TerminalInv
  <2> QED
    BY <1>1, <2>5, <2>6, <2>7 DEF ShowInv
<1>8. CASE UNCHANGED <<generatorVars, screenVars>>
  <2>1. Pieces' = Pieces
    BY <1>8, SamePieces DEF generatorVars, screenVars
  <2>2. WorldInv' /\ FrameInv' /\ TerminalInv'
    BY <1>8 DEF ShowInv, WorldInv, FrameInv, TerminalInv, generatorVars,
                screenVars
  <2>3. FrameIsFresh'
    BY <1>8, <2>1 DEF ShowInv, FrameIsFresh, screenVars
  <2> QED
    BY <1>1, <2>2, <2>3 DEF ShowInv
<1> QED
  BY <1>2, <1>3, <1>4, <1>5, <1>6, <1>7, <1>8 DEF ScreenNext

\* The world, the frame, and what SetScreen remembers of it, always belong together.
THEOREM ShowInvariant == ScreenSpec => []ShowInv
BY ShowInit, ShowStep, PTL DEF ScreenSpec

\* Nothing of the frame before is left in a frame, although game_output is
\* never cleared.
THEOREM FrameOwesNothing == ScreenSpec => []FrameIsFresh
<1>1. ShowInv => FrameIsFresh
  BY DEF ShowInv
<1> QED
  BY <1>1, ShowInvariant, PTL

-----------------------------------------------------------------------------
(* What the terminal shows. *)

\* Since the last start of a string the colours have stayed the same.
LEMMA SinceStart ==
  ASSUME NEW n \in Nat, NEW chars, NEW i \in 1 .. n,
         NEW starts, starts = {s \in 1 .. n :
           s = 1 \/ ~SameColors(chars[s - 1], chars[s])}
  PROVE  LET start == Max({s \in starts : s <= i})
         IN start \in 1 .. n /\ SameColors(chars[start], chars[i])
<1> DEFINE before == {s \in starts : s <= i}
           start == Max(before)
<1>1. before \in SUBSET (1 .. n) /\ 1 \in before
  OBVIOUS
<1> HIDE DEF before
<1>2. start \in before /\ \A s \in before : s <= start
  BY <1>1, MaxOf
<1>3. start \in 1 .. n /\ start <= i
  BY <1>2 DEF before
<1> HIDE DEF start
<1> DEFINE T == {k \in Nat : start + k <= i => SameColors(chars[start], chars[start + k])}
<1>4. 0 \in T
  BY <1>3 DEF SameColors
<1>5. ASSUME NEW k \in T
      PROVE  k + 1 \in T
  <2>1. SUFFICES ASSUME start + (k + 1) <= i
                 PROVE  SameColors(chars[start], chars[start + (k + 1)])
    OBVIOUS
  <2> DEFINE s == start + (k + 1)
  <2>2. k \in Nat /\ s \in 1 .. n /\ s > start /\ s <= i /\ s - 1 = start + k /\ s # 1
    BY <1>3, <2>1
  <2>3. SameColors(chars[start], chars[s - 1])
    BY <2>2
  <2> HIDE DEF s
  <2>4. s \notin before
    BY <1>2, <1>3, <2>2
  <2>5. SameColors(chars[s - 1], chars[s])
    BY <2>2, <2>4 DEF before
  <2>6. SameColors(chars[start], chars[s])
    BY <2>3, <2>5 DEF SameColors
  <2> QED
    BY <2>6 DEF s
<1>6. T = Nat
  <2>1. T \subseteq Nat
    OBVIOUS
  <2> HIDE DEF T
  <2> QED
    BY <1>4, <1>5, <2>1, SetInduction
<1>7. i - start \in Nat /\ start + (i - start) = i
  BY <1>3
<1>8. SameColors(chars[start], chars[i])
  <2> DEFINE k == i - start
  <2>1. k \in T /\ start + k = i
    <3> HIDE DEF T
    <3> QED
      BY <1>6, <1>7
  <2> HIDE DEF k
  <2>2. start + k <= i => SameColors(chars[start], chars[start + k])
    BY <2>1
  <2> QED
    BY <2>1, <2>2
<1> QED
  BY <1>3, <1>8 DEF before, start

\* Strings that go on over the ends of lines show every character as it is.
LEMMA PrintedIs ==
  ASSUME NEW m, IsMatrix(m), m.size \in (Nat \ {0}) \X (Nat \ {0}),
         m.characters = [p \in Region(m.size) |-> m.characters[p]]
  PROVE  Printed(m) = m.characters
<1> DEFINE width == m.size[1]
           height == m.size[2]
           n == width * height
           chars == [i \in 1 .. n |->
                       m.characters[<<(i - 1) % width, (i - 1) \div width>>]]
           starts == {i \in DOMAIN chars :
                        i = 1 \/ ~SameColors(chars[i - 1], chars[i])}
           string(i) == chars[Max({s \in starts : s <= i})]
           index(p) == p[2] * width + p[1] + 1
           shownAt(p) == ColoredChar(chars[index(p)].character,
                                     string(index(p)).foreground,
                                     string(index(p)).background)
<1>1. Printed(m) = [p \in Region(m.size) |-> shownAt(p)]
  BY Zenon DEF Printed
<1>2. width \in Nat \ {0} /\ height \in Nat \ {0} /\ n \in Nat
  OBVIOUS
<1>3. starts = {i \in 1 .. n : i = 1 \/ ~SameColors(chars[i - 1], chars[i])}
  OBVIOUS
<1>4. ASSUME NEW p \in Region(m.size)
      PROVE  shownAt(p) = m.characters[p]
  <2> DEFINE i == index(p)
  <2>1. p[1] \in 0 .. width - 1 /\ p[2] \in 0 .. height - 1 /\ p = <<p[1], p[2]>>
    BY <1>2 DEF Region
  <2>2. i \in 1 .. n /\ i - 1 = p[2] * width + p[1]
    <3>1. p[2] * width + width <= height * width
      BY <1>2, <2>1, Less
    <3>2. p[2] * width \in Nat /\ height * width = n
      BY <1>2, <2>1
    <3> HIDE DEF n, width, height
    <3> QED
      BY <1>2, <2>1, <3>1, <3>2
  <2>3. (i - 1) \div width = p[2] /\ (i - 1) % width = p[1]
    <3>1. /\ (p[2] * width + p[1]) \div width = p[2]
          /\ (p[2] * width + p[1]) % width = p[1]
      <4> HIDE DEF width, height
      <4> QED
        BY <1>2, <2>1, Parts
    <3> HIDE DEF i, width
    <3> QED
      BY <2>2, <3>1
  <2> HIDE DEF i
  <2>4. chars[i] = m.characters[p]
    <3> DEFINE q == <<(i - 1) % width, (i - 1) \div width>>
    <3>1. chars[i] = m.characters[q]
      BY <2>2, Zenon
    <3>2. q = p
      <4> HIDE DEF width
      <4> QED
        BY <2>1, <2>3
    <3> QED
      BY <3>1, <3>2
  <2> DEFINE start == Max({s \in starts : s <= i})
  <2>5. SameColors(chars[start], chars[i])
    <3> HIDE DEF chars, n, starts
    <3> QED
      BY <1>2, <1>3, <2>2, SinceStart
  <2>6. string(i) = chars[start]
    OBVIOUS
  <2>7. IsColored(m.characters[p])
    BY DEF IsMatrix
  <2> HIDE DEF chars, start, string
  <2>8. shownAt(p) = ColoredChar(chars[i].character, string(i).foreground,
                                 string(i).background)
    BY DEF i
  <2> HIDE DEF shownAt
  <2> QED
    BY <2>4, <2>5, <2>6, <2>7, <2>8 DEF SameColors, IsColored
<1> HIDE DEF shownAt
<1> QED
  BY <1>1, <1>4

\* Unless the terminal has been resized since, it shows the frame: whatever was
\* printed before, and whatever SetScreen has left out.
THEOREM TerminalShows == ScreenSpec => []TerminalShowsFrame
<1>1. ASSUME ShowInv, drawing = "wait", terminal = terminal_size
      PROVE  shown = <<game_output.characters>>
  <2>1. last_screen_content = <<game_output>>
    BY <1>1 DEF ShowInv, TerminalInv
  <2>2. last_screen_content # <<>> /\ last_screen_content[1] = game_output
    BY <2>1
  <2>3. shown = <<Printed(game_output)>>
    BY <1>1, <2>2 DEF ShowInv, TerminalInv
  <2>4. game_output.size \in (Nat \ {0}) \X (Nat \ {0})
    BY <1>1, Sizes DEF ShowInv, FrameInv
  <2>5. Printed(game_output) = game_output.characters
    BY <1>1, <2>4, PrintedIs DEF ShowInv, FrameInv
  <2> QED
    BY <2>3, <2>5
<1>2. ShowInv => TerminalShowsFrame
  BY <1>1 DEF TerminalShowsFrame
<1> QED
  BY <1>2, ShowInvariant, PTL

-----------------------------------------------------------------------------
(* Assertions. *)

\* With room for the players' table no assertion on the way to a frame fails.
THEOREM NothingFails == ASSUME TableHasRoom PROVE ScreenSpec => []NothingOverflows
<1>1. ScreenInit => NothingOverflows
  BY DEF ScreenInit, NothingOverflows
<1>2. ASSUME ShowInv, NothingOverflows, [ScreenNext]_<<generatorVars, screenVars>>
      PROVE  NothingOverflows'
  <2>1. CASE CompositeViewport
    <3>1. InWorld
      BY <1>2, <2>1
      DEF CompositeViewport, ShowInv, WorldInv, GeneratorInv, InWorld
    <3>2. AssertionsHold(Pieces)
      BY <1>2, <3>1, AllFit DEF ShowInv, FrameInv
    <3> QED
      BY <2>1, <3>2, Zenon DEF CompositeViewport, NothingOverflows
  <2>2. CASE TogglePlayers \/ ToggleStatistics \/ ToggleSimulator
    <3>1. failed' = failed
      BY <2>2, Zenon
      DEF TogglePlayers, ToggleStatistics, ToggleSimulator, Key, NextFrame
    <3> QED
      BY <1>2, <3>1 DEF NothingOverflows
  <2>3. CASE WorldChanges \/ Resize \/ SetScreen
    BY <1>2, <2>3 DEF WorldChanges, Resize, NextFrame, SetScreen, NothingOverflows
  <2>4. CASE UNCHANGED screenVars
    BY <1>2, <2>4 DEF screenVars, NothingOverflows
  <2> QED
    BY <1>2, <2>1, <2>2, <2>3, <2>4 DEF ScreenNext
<1> QED
  BY <1>1, <1>2, ShowInvariant, PTL DEF ScreenSpec

-----------------------------------------------------------------------------
(* The world in the viewport. *)

\* A quotient is not below k if the number is not below k times w,
LEMMA AtLeast ==
  ASSUME NEW q \in Int, NEW k \in Int, NEW w \in Nat \ {0}, k * w <= q
  PROVE  k <= q \div w
<1> DEFINE f == q \div w
           r == q % w
<1>1. f \in Int /\ r \in 0 .. w - 1 /\ q = f * w + r
  BY Floor
<1> HIDE DEF f, r
<1>2. f < k => f * w + w <= k * w
  BY <1>1, Less
<1>3. f * w \in Int /\ k * w \in Int
  BY <1>1
<1>4. k <= f
  BY <1>1, <1>2, <1>3
<1> QED
  BY <1>4 DEF f

\* and below it if the number is.
LEMMA Below ==
  ASSUME NEW q \in Int, NEW k \in Int, NEW w \in Nat \ {0}, q < k * w
  PROVE  q \div w <= k - 1
<1> DEFINE f == q \div w
           r == q % w
<1>1. f \in Int /\ r \in 0 .. w - 1 /\ q = f * w + r
  BY Floor
<1> HIDE DEF f, r
<1>2. k <= f => k * w <= f * w
  <2>1. k < f => k * w + w <= f * w
    BY <1>1, Less
  <2>2. f * w \in Int /\ k * w \in Int
    BY <1>1
  <2> QED
    BY <1>1, <2>1, <2>2
<1>3. f * w \in Int /\ k * w \in Int
  BY <1>1
<1>4. f <= k - 1
  BY <1>1, <1>2, <1>3
<1> QED
  BY <1>4 DEF f

\* The repetitions that are looked at are all that the viewport can reach.
LEMMA Reached ==
  ASSUME NEW w \in Nat \ {0}, NEW own \in 0 .. w - 1, NEW delta \in Nat,
         NEW q \in own - delta .. own + delta,
         NEW before, own - delta < 0 => before,
         NEW after, own + delta >= w => after
  PROVE  /\ q \div w \in Int
         /\ (IF before THEN Divide((own - delta) - w, w) ELSE 0) <= q \div w
         /\ q \div w <= (IF after THEN Divide((own + delta) + w, w) ELSE 1) - 1
<1>1. q \in Int /\ q \div w \in Int
  BY Floor
<1>2. before => Divide((own - delta) - w, w) <= q \div w
  <2> DEFINE a == w - (own - delta)
             k == a \div w
             r == a % w
  <2>1. a \in Nat \ {0} /\ a >= 1
    OBVIOUS
  <2>2. k \in Int /\ r \in 0 .. w - 1 /\ a = k * w + r
    <3> HIDE DEF a
    <3> QED
      BY <2>1, Floor
  <2>3. Divide((own - delta) - w, w) = -k
    <3>1. (own - delta) - w < 0 /\ -((own - delta) - w) = a
      BY <2>1
    <3> QED
      BY <3>1 DEF Divide
  <2>4. (-k) * w <= q
    <3>1. k * w + r = w - (own - delta)
      BY <2>2
    <3> HIDE DEF a, k, r
    <3>2. (-k) * w = -(k * w) /\ k * w \in Int
      BY <2>2
    <3> QED
      BY <2>2, <3>1, <3>2
  <2> DEFINE l == -k
  <2>5. l \in Int /\ l * w <= q
    BY <2>2, <2>4
  <2> HIDE DEF k, l
  <2>6. l <= q \div w
    BY <1>1, <2>5, AtLeast
  <2> QED
    BY <2>3, <2>6 DEF l
<1>3. ~before => 0 <= q \div w
  <2>1. ~before => 0 * w <= q
    OBVIOUS
  <2> QED
    BY <1>1, <2>1, AtLeast
<1>4. after => q \div w <= Divide((own + delta) + w, w) - 1
  <2> DEFINE a == (own + delta) + w
             k == a \div w
             r == a % w
  <2>1. a \in Nat
    OBVIOUS
  <2>2. k \in Int /\ r \in 0 .. w - 1 /\ a = k * w + r
    <3> HIDE DEF a
    <3> QED
      BY <2>1, Floor
  <2>3. Divide((own + delta) + w, w) = k
    BY <2>1 DEF Divide
  <2>4. q < k * w
    <3>1. k * w + r = (own + delta) + w
      BY <2>2
    <3> HIDE DEF a, k, r
    <3>2. k * w \in Int
      BY <2>2
    <3> QED
      BY <2>2, <3>1, <3>2
  <2> HIDE DEF k
  <2>5. q \div w <= k - 1
    BY <1>1, <2>2, <2>4, Below
  <2> QED
    BY <2>3, <2>5
<1>5. ~after => q \div w <= 1 - 1
  <2>1. ~after => q < 1 * w
    OBVIOUS
  <2> QED
    BY <1>1, <2>1, Below
<1> QED
  BY <1>1, <1>2, <1>3, <1>4, <1>5

\* A character in a block is in no other block.
LEMMA SameBlock ==
  ASSUME NEW b \in Nat \ {0}, NEW x \in Int, NEW y \in Int
  PROVE  x * b - y * b \in 0 .. b - 1 <=> x = y
<1>1. x < y => x * b + b <= y * b
  BY Less
<1>2. y < x => y * b + b <= x * b
  BY Less
<1>3. x * b \in Int /\ y * b \in Int
  OBVIOUS
<1>4. x = y => x * b - y * b = 0
  BY <1>3
<1> QED
  BY <1>1, <1>2, <1>3, <1>4

\* The field and the character of the viewport at this distance from the own
\* player.
FieldAt(dx, dy) == Plus(Own.position, <<dx, dy>>)
CharacterAt(dx, dy) == Times(Plus(<<dx, dy>>, viewport_size_delta), BlockSize)

\* Both as numbers.
LEMMA Distances ==
  ASSUME players \in PlayerLists,
         NEW dx \in -viewport_size_delta[1] .. viewport_size_delta[1],
         NEW dy \in -viewport_size_delta[2] .. viewport_size_delta[2]
  PROVE  /\ dx \in Int /\ dy \in Int
         /\ FieldAt(dx, dy) = <<Own.position[1] + dx, Own.position[2] + dy>>
         /\ FieldAt(dx, dy) \in Int \X Int
         /\ FieldAt(dx, dy)[1] \in Own.position[1] - viewport_size_delta[1]
                                    .. Own.position[1] + viewport_size_delta[1]
         /\ FieldAt(dx, dy)[2] \in Own.position[2] - viewport_size_delta[2]
                                    .. Own.position[2] + viewport_size_delta[2]
         /\ CharacterAt(dx, dy)
              = <<(FieldAt(dx, dy)[1] - viewport_start[1]) * BlockSize[1],
                  (FieldAt(dx, dy)[2] - viewport_start[2]) * BlockSize[2]>>
<1>1. /\ viewport_size_delta[1] \in Nat /\ viewport_size_delta[2] \in Nat
      /\ Own.position[1] \in Nat /\ Own.position[2] \in Nat
      /\ viewport_start = <<Own.position[1] - viewport_size_delta[1],
                            Own.position[2] - viewport_size_delta[2]>>
  BY Viewport
<1>2. dx \in Int /\ dy \in Int
  BY <1>1
<1>3. FieldAt(dx, dy) = <<Own.position[1] + dx, Own.position[2] + dy>>
  BY DEF FieldAt, Plus
<1>4. /\ FieldAt(dx, dy)[1] = Own.position[1] + dx
      /\ FieldAt(dx, dy)[2] = Own.position[2] + dy
  BY <1>3
<1>5. /\ FieldAt(dx, dy)[1] - viewport_start[1] = dx + viewport_size_delta[1]
      /\ FieldAt(dx, dy)[2] - viewport_start[2] = dy + viewport_size_delta[2]
  BY <1>1, <1>2, <1>4
<1>6. CharacterAt(dx, dy) = <<(dx + viewport_size_delta[1]) * BlockSize[1],
                              (dy + viewport_size_delta[2]) * BlockSize[2]>>
  BY DEF CharacterAt, Plus, Times
<1>7. /\ FieldAt(dx, dy) \in Int \X Int
      /\ FieldAt(dx, dy)[1] \in Own.position[1] - viewport_size_delta[1]
                                 .. Own.position[1] + viewport_size_delta[1]
      /\ FieldAt(dx, dy)[2] \in Own.position[2] - viewport_size_delta[2]
                                 .. Own.position[2] + viewport_size_delta[2]
  BY <1>1, <1>2, <1>3, <1>4
<1> QED
  BY <1>2, <1>3, <1>5, <1>6, <1>7

\* An element is drawn over a field of the viewport if it is on this field of
\* the ring, and only then.
LEMMA DrawnThere ==
  ASSUME players \in PlayerLists, NEW position \in Positions,
         NEW dx \in -viewport_size_delta[1] .. viewport_size_delta[1],
         NEW dy \in -viewport_size_delta[2] .. viewport_size_delta[2],
         NEW place \in RenderedAt(position),
         Minus(CharacterAt(dx, dy), place) \in Region(BlockSize)
  PROVE  position = Torus(FieldAt(dx, dy))
<1> DEFINE q == FieldAt(dx, dy)
<1>1. PICK factor \in Int \X Int :
        LET p == <<position[1] + WorldSize[1] * factor[1],
                   position[2] + WorldSize[2] * factor[2]>>
        IN /\ p \in Int \X Int
           /\ place = <<(p[1] - viewport_start[1]) * BlockSize[1],
                        (p[2] - viewport_start[2]) * BlockSize[2]>>
  BY Rendered
<1> DEFINE p == <<position[1] + WorldSize[1] * factor[1],
                  position[2] + WorldSize[2] * factor[2]>>
<1>2. /\ q \in Int \X Int
      /\ CharacterAt(dx, dy) = <<(q[1] - viewport_start[1]) * BlockSize[1],
                                 (q[2] - viewport_start[2]) * BlockSize[2]>>
  BY Distances
<1>3. /\ WorldSize[1] \in Nat \ {0} /\ WorldSize[2] \in Nat \ {0}
      /\ viewport_start[1] \in Int /\ viewport_start[2] \in Int
      /\ BlockSize[1] \in Nat \ {0} /\ BlockSize[2] \in Nat \ {0}
      /\ position[1] \in 0 .. WorldSize[1] - 1 /\ position[2] \in 0 .. WorldSize[2] - 1
      /\ position = <<position[1], position[2]>>
  BY Viewport, ScreenAssumption DEF Positions
<1>4. p[1] \in Int /\ p[2] \in Int /\ q[1] \in Int /\ q[2] \in Int
  BY <1>1, <1>2
<1> HIDE DEF p, q
<1> DEFINE a == q[1] - viewport_start[1]
           b == q[2] - viewport_start[2]
           c == p[1] - viewport_start[1]
           d == p[2] - viewport_start[2]
<1>5. a \in Int /\ b \in Int /\ c \in Int /\ d \in Int
  BY <1>3, <1>4
<1>6. place = <<c * BlockSize[1], d * BlockSize[2]>>
  BY <1>1 DEF p
<1>7. CharacterAt(dx, dy) = <<a * BlockSize[1], b * BlockSize[2]>>
  BY <1>2
<1> HIDE DEF a, b, c, d
<1>8. /\ a * BlockSize[1] - c * BlockSize[1] \in 0 .. BlockSize[1] - 1
      /\ b * BlockSize[2] - d * BlockSize[2] \in 0 .. BlockSize[2] - 1
  BY <1>6, <1>7 DEF Minus, Region
<1>9. a = c /\ b = d
  BY <1>3, <1>5, <1>8, SameBlock
<1>10. q[1] = p[1] /\ q[2] = p[2]
  BY <1>3, <1>4, <1>9 DEF a, b, c, d
<1>11. /\ q[1] = factor[1] * WorldSize[1] + position[1]
       /\ q[2] = factor[2] * WorldSize[2] + position[2]
  <2>1. /\ p[1] = position[1] + WorldSize[1] * factor[1]
        /\ p[2] = position[2] + WorldSize[2] * factor[2]
    BY DEF p
  <2>2. factor[1] \in Int /\ factor[2] \in Int
    OBVIOUS
  <2> QED
    BY <1>3, <1>10, <2>1, <2>2
<1>12. q[1] % WorldSize[1] = position[1] /\ q[2] % WorldSize[2] = position[2]
  <2>1. factor[1] \in Int /\ factor[2] \in Int
    OBVIOUS
  <2>2. ASSUME NEW w \in Nat \ {0}, NEW x \in 0 .. w - 1, NEW f \in Int,
               NEW r, r = f * w + x
        PROVE  r % w = x
    BY <2>2, Parts
  <2>3. q[1] % WorldSize[1] = position[1]
    BY <1>3, <1>11, <2>1, <2>2
  <2>4. q[2] % WorldSize[2] = position[2]
    BY <1>3, <1>11, <2>1, <2>2
  <2> QED
    BY <2>3, <2>4
<1> QED
  BY <1>3, <1>12 DEF Torus, q

\* The Renderer does not miss a repetition.
LEMMA DrawnIfThere ==
  ASSUME players \in PlayerLists, NEW position \in Positions,
         NEW dx \in -viewport_size_delta[1] .. viewport_size_delta[1],
         NEW dy \in -viewport_size_delta[2] .. viewport_size_delta[2],
         position = Torus(FieldAt(dx, dy))
  PROVE  \E place \in RenderedAt(position) :
           Minus(CharacterAt(dx, dy), place) \in Region(BlockSize)
<1> DEFINE q == FieldAt(dx, dy)
           factor == <<q[1] \div WorldSize[1], q[2] \div WorldSize[2]>>
           place == CharacterAt(dx, dy)
<1>1. /\ q \in Int \X Int /\ q = <<q[1], q[2]>>
      /\ q[1] \in Own.position[1] - viewport_size_delta[1]
                   .. Own.position[1] + viewport_size_delta[1]
      /\ q[2] \in Own.position[2] - viewport_size_delta[2]
                   .. Own.position[2] + viewport_size_delta[2]
      /\ place = <<(q[1] - viewport_start[1]) * BlockSize[1],
                   (q[2] - viewport_start[2]) * BlockSize[2]>>
  BY Distances
<1>2. /\ WorldSize[1] \in Nat \ {0} /\ WorldSize[2] \in Nat \ {0}
      /\ viewport_size_delta[1] \in Nat /\ viewport_size_delta[2] \in Nat
      /\ Own.position \in Positions
      /\ viewport_start = <<Own.position[1] - viewport_size_delta[1],
                            Own.position[2] - viewport_size_delta[2]>>
      /\ viewport_end = <<Own.position[1] + viewport_size_delta[1],
                          Own.position[2] + viewport_size_delta[2]>>
      /\ BlockSize[1] \in Nat \ {0} /\ BlockSize[2] \in Nat \ {0}
  BY Viewport, ScreenAssumption
<1>3. /\ Own.position[1] \in 0 .. WorldSize[1] - 1
      /\ Own.position[2] \in 0 .. WorldSize[2] - 1
  BY <1>2 DEF Positions
<1> HIDE DEF q
<1>4. factor \in Repetitions(viewport_start, viewport_end)
  <2> DEFINE before == viewport_start[1] < 0 \/ viewport_start[2] < 0
             after == viewport_end[1] >= WorldSize[1] \/ viewport_end[2] >= WorldSize[2]
             first(i) == IF before
                         THEN Divide(viewport_start[i] - WorldSize[i], WorldSize[i]) ELSE 0
             last(i) == IF after
                        THEN Divide(viewport_end[i] + WorldSize[i], WorldSize[i]) ELSE 1
  <2>1. Repetitions(viewport_start, viewport_end)
          = (first(1) .. last(1) - 1) \X (first(2) .. last(2) - 1)
    BY DEF Repetitions
  <2>2. /\ viewport_start[1] = Own.position[1] - viewport_size_delta[1]
        /\ viewport_start[2] = Own.position[2] - viewport_size_delta[2]
        /\ viewport_end[1] = Own.position[1] + viewport_size_delta[1]
        /\ viewport_end[2] = Own.position[2] + viewport_size_delta[2]
    BY <1>2
  <2>3. /\ Own.position[1] - viewport_size_delta[1] < 0 => before
        /\ Own.position[2] - viewport_size_delta[2] < 0 => before
        /\ Own.position[1] + viewport_size_delta[1] >= WorldSize[1] => after
        /\ Own.position[2] + viewport_size_delta[2] >= WorldSize[2] => after
    BY <2>2
  <2> HIDE DEF before, after
  <2>4. /\ q[1] \div WorldSize[1] \in Int
        /\ first(1) <= q[1] \div WorldSize[1] /\ q[1] \div WorldSize[1] <= last(1) - 1
    BY <1>1, <1>2, <1>3, <2>2, <2>3, Reached
  <2>5. /\ q[2] \div WorldSize[2] \in Int
        /\ first(2) <= q[2] \div WorldSize[2] /\ q[2] \div WorldSize[2] <= last(2) - 1
    BY <1>1, <1>2, <1>3, <2>2, <2>3, Reached
  <2>6. /\ q[1] \div WorldSize[1] \in first(1) .. last(1) - 1
        /\ q[2] \div WorldSize[2] \in first(2) .. last(2) - 1
    <3>1. /\ first(1) \in Int /\ first(2) \in Int /\ last(1) \in Int /\ last(2) \in Int
      <4>1. /\ viewport_start[1] - WorldSize[1] \in Int
            /\ viewport_start[2] - WorldSize[2] \in Int
            /\ viewport_end[1] + WorldSize[1] \in Int
            /\ viewport_end[2] + WorldSize[2] \in Int
        BY <1>2, <1>3, <2>2
      <4>2. /\ Divide(viewport_start[1] - WorldSize[1], WorldSize[1]) \in Int
            /\ Divide(viewport_start[2] - WorldSize[2], WorldSize[2]) \in Int
            /\ Divide(viewport_end[1] + WorldSize[1], WorldSize[1]) \in Int
            /\ Divide(viewport_end[2] + WorldSize[2], WorldSize[2]) \in Int
        BY <1>2, <4>1, Quotient
      <4> QED
        BY <4>2
    <3> HIDE DEF first, last
    <3> QED
      BY <2>4, <2>5, <3>1
  <2> HIDE DEF first, last
  <2> QED
    BY <2>1, <2>6
<1>5. Plus(position, Times(WorldSize, factor)) = q
  <2>1. /\ position[1] = q[1] % WorldSize[1] /\ position[2] = q[2] % WorldSize[2]
    BY DEF Torus, q
  <2>2. /\ q[1] = ((q[1] \div WorldSize[1]) * WorldSize[1]) + (q[1] % WorldSize[1])
        /\ q[2] = ((q[2] \div WorldSize[2]) * WorldSize[2]) + (q[2] % WorldSize[2])
        /\ factor[1] \in Int /\ factor[2] \in Int
        /\ position[1] \in Int /\ position[2] \in Int
    <3>1. q[1] \in Int /\ q[2] \in Int
      BY <1>1
    <3>2. ASSUME NEW a \in Int, NEW w \in Nat \ {0}
          PROVE  /\ a \div w \in Int /\ a % w \in Int
                 /\ a = ((a \div w) * w) + (a % w)
      BY Floor
    <3>3. /\ q[1] = ((q[1] \div WorldSize[1]) * WorldSize[1]) + (q[1] % WorldSize[1])
          /\ q[1] \div WorldSize[1] \in Int /\ q[1] % WorldSize[1] \in Int
      BY <1>2, <3>1, <3>2, Zenon
    <3>4. /\ q[2] = ((q[2] \div WorldSize[2]) * WorldSize[2]) + (q[2] % WorldSize[2])
          /\ q[2] \div WorldSize[2] \in Int /\ q[2] % WorldSize[2] \in Int
      BY <1>2, <3>1, <3>2, Zenon
    <3>5. factor[1] = q[1] \div WorldSize[1] /\ factor[2] = q[2] \div WorldSize[2]
      OBVIOUS
    <3> HIDE DEF factor
    <3> QED
      BY <2>1, <3>3, <3>4, <3>5
  <2>3. q[1] = factor[1] * WorldSize[1] + position[1]
        /\ q[2] = factor[2] * WorldSize[2] + position[2]
    BY <2>1, <2>2
  <2> HIDE DEF factor
  <2>4. /\ q[1] = position[1] + WorldSize[1] * factor[1]
        /\ q[2] = position[2] + WorldSize[2] * factor[2]
    BY <1>2, <2>2, <2>3
  <2> QED
    BY <1>1, <2>4 DEF Plus, Times
<1>6. IsLessOrEqual(viewport_start, q) /\ IsLessOrEqual(q, viewport_end)
  BY <1>1, <1>2 DEF IsLessOrEqual
<1>7. place = Times(Minus(q, viewport_start), BlockSize)
  BY <1>1 DEF Minus, Times
<1> HIDE DEF factor, place
<1>8. place \in RenderedAt(position)
  BY <1>4, <1>5, <1>6, <1>7 DEF RenderedAt
<1>9. Minus(place, place) \in Region(BlockSize)
  <2>1. place[1] \in Int /\ place[2] \in Int
    <3>1. /\ q[1] - viewport_start[1] \in Int /\ q[2] - viewport_start[2] \in Int
          /\ BlockSize[1] \in Int /\ BlockSize[2] \in Int
      BY <1>1, <1>2, <1>3
    <3>2. \A x, y \in Int : x * y \in Int
      OBVIOUS
    <3> QED
      BY <1>1, <3>1, <3>2
  <2> QED
    BY <1>2, <2>1 DEF Minus, Region
<1> QED
  BY <1>8, <1>9 DEF place

\* An element covers the characters of its field, with its sprite.
LEMMA ElementOver ==
  ASSUME InWorld, NEW position \in Positions, NEW type, NEW color,
         NEW dx \in -viewport_size_delta[1] .. viewport_size_delta[1],
         NEW dy \in -viewport_size_delta[2] .. viewport_size_delta[2]
  PROVE  LET r == CharacterAt(dx, dy)
             pieces == RenderElement(position, type, color)
         IN /\ \A piece \in pieces : Covers(piece, r) =>
                 /\ position = Torus(FieldAt(dx, dy))
                 /\ CharAt(piece, r) = ColoredChar(type, color, "BLACK")
            /\ position = Torus(FieldAt(dx, dy)) => \E piece \in pieces : Covers(piece, r)
<1> DEFINE r == CharacterAt(dx, dy)
           pieces == RenderElement(position, type, color)
<1>1. r[1] \in Int /\ r[2] \in Int /\ BlockSize[1] \in Nat /\ BlockSize[2] \in Nat
  <2>1. /\ FieldAt(dx, dy)[1] - viewport_start[1] \in Int
        /\ FieldAt(dx, dy)[2] - viewport_start[2] \in Int
    <3>1. FieldAt(dx, dy) \in Int \X Int /\ viewport_start \in Int \X Int
      BY Distances, Viewport DEF InWorld
    <3> QED
      BY <3>1
  <2>2. r = <<(FieldAt(dx, dy)[1] - viewport_start[1]) * BlockSize[1],
              (FieldAt(dx, dy)[2] - viewport_start[2]) * BlockSize[2]>>
    BY Distances DEF InWorld
  <2>3. BlockSize[1] \in Nat /\ BlockSize[2] \in Nat
    BY ScreenAssumption
  <2>4. \A x, y \in Int : x * y \in Int
    OBVIOUS
  <2> QED
    BY <2>1, <2>2, <2>3, <2>4
<1> HIDE DEF r
<1>2. ASSUME NEW place \in RenderedAt(position)
      PROVE  LET piece == Piece(Sprite(type, color), place)
             IN /\ Covers(piece, r) <=> Minus(r, place) \in Region(BlockSize)
                /\ Minus(r, place) \in Region(BlockSize)
                     => CharAt(piece, r) = ColoredChar(type, color, "BLACK")
  <2> DEFINE piece == Piece(Sprite(type, color), place)
  <2>1. place[1] \in Int /\ place[2] \in Int
    BY Rendered DEF InWorld
  <2>2. piece.offset = place /\ piece.matrix = Sprite(type, color)
    BY OnePiece
  <2>3. /\ Sprite(type, color).size = BlockSize
        /\ Sprite(type, color).characters
             = [p \in Region(BlockSize) |-> ColoredChar(type, color, "BLACK")]
    BY Zenon DEF Sprite, Filled
  <2> HIDE DEF piece
  <2>4. Covers(piece, r) <=> Minus(r, place) \in Region(BlockSize)
    BY <1>1, <2>1, <2>2, <2>3 DEF Covers, IsLessOrEqual, Minus, Region
  <2>5. ASSUME Minus(r, place) \in Region(BlockSize)
        PROVE  CharAt(piece, r) = ColoredChar(type, color, "BLACK")
    <3>1. CharAt(piece, r) = Sprite(type, color).characters[Minus(r, place)]
      BY <2>2 DEF CharAt
    <3> QED
      BY <2>3, <2>5, <3>1, Zenon
  <2> QED
    BY <2>4, <2>5 DEF piece
<1>3. ASSUME NEW piece \in pieces, Covers(piece, r)
      PROVE  /\ position = Torus(FieldAt(dx, dy))
             /\ CharAt(piece, r) = ColoredChar(type, color, "BLACK")
  <2>1. PICK place \in RenderedAt(position) : piece = Piece(Sprite(type, color), place)
    BY DEF RenderElement
  <2>2. Minus(r, place) \in Region(BlockSize)
    BY <1>2, <1>3, <2>1
  <2>3. CharAt(piece, r) = ColoredChar(type, color, "BLACK")
    BY <1>2, <2>1, <2>2
  <2> QED
    BY <2>2, <2>3, DrawnThere DEF InWorld, r
<1>4. ASSUME position = Torus(FieldAt(dx, dy))
      PROVE  \E piece \in pieces : Covers(piece, r)
  <2>1. PICK place \in RenderedAt(position) : Minus(r, place) \in Region(BlockSize)
    BY <1>4, DrawnIfThere DEF InWorld, r
  <2>2. Piece(Sprite(type, color), place) \in pieces
    BY DEF RenderElement
  <2>3. Covers(Piece(Sprite(type, color), place), r)
    BY <1>2, <2>1
  <2> QED
    BY <2>2, <2>3
<1> QED
  BY <1>3, <1>4 DEF r

\* The layers over a character of the viewport, and what they have there.
LEMMA LayersOver ==
  ASSUME InWorld,
         NEW dx \in -viewport_size_delta[1] .. viewport_size_delta[1],
         NEW dy \in -viewport_size_delta[2] .. viewport_size_delta[2]
  PROVE  LET r == CharacterAt(dx, dy)
             p == Torus(FieldAt(dx, dy))
             over(i) == \E piece \in Elements[i] : Covers(piece, r)
             all(i, char) == \A piece \in Elements[i] :
                               Covers(piece, r) => CharAt(piece, r) = char
         IN /\ over(1) <=> p \in DOMAIN walls
            /\ all(1, ColoredChar(walls[p], "WHITE", "BLACK"))
            /\ over(2) <=> p \in content.projectiles
            /\ all(2, ColoredChar("PROJECTILE", "WHITE", "BLACK"))
            /\ over(3) <=> \E j \in DOMAIN players : players[j].position = p
            /\ \A j \in DOMAIN players : players[j].position = p =>
                 all(3, ColoredChar(players[j].type, players[j].color, "BLACK"))
            /\ over(4) <=> p \in content.items
            /\ all(4, ColoredChar("ITEM", "WHITE", "BLACK"))
<1> DEFINE r == CharacterAt(dx, dy)
           p == Torus(FieldAt(dx, dy))
           over(i) == \E piece \in Elements[i] : Covers(piece, r)
           all(i, char) == \A piece \in Elements[i] :
                             Covers(piece, r) => CharAt(piece, r) = char
<1>1. /\ DOMAIN walls \subseteq Positions
      /\ content.projectiles \subseteq Positions /\ content.items \subseteq Positions
      /\ \A j \in DOMAIN players : players[j].position \in Positions
  BY ContentAssumption, PlayersAre DEF InWorld
<1>2. ASSUME NEW position \in Positions, NEW type, NEW color,
             NEW piece \in RenderElement(position, type, color), Covers(piece, r)
      PROVE  position = p /\ CharAt(piece, r) = ColoredChar(type, color, "BLACK")
  BY <1>2, ElementOver
<1>3. ASSUME p \in Positions, NEW type, NEW color
      PROVE  \E piece \in RenderElement(p, type, color) : Covers(piece, r)
  BY <1>3, ElementOver
<1>4. /\ Elements[1] = UNION {RenderElement(q, walls[q], "WHITE") : q \in DOMAIN walls}
      /\ Elements[2] = UNION {RenderElement(q, "PROJECTILE", "WHITE") :
                                q \in content.projectiles}
      /\ Elements[3] = UNION {RenderElement(q.position, q.type, q.color) :
                                q \in Range(players)}
      /\ Elements[4] = UNION {RenderElement(q, "ITEM", "WHITE") : q \in content.items}
  BY DEF Elements
<1> HIDE DEF r, p
<1>5. (over(1) <=> p \in DOMAIN walls) /\ all(1, ColoredChar(walls[p], "WHITE", "BLACK"))
  <2>1. ASSUME NEW piece \in Elements[1], Covers(piece, r)
        PROVE  /\ p \in DOMAIN walls
               /\ CharAt(piece, r) = ColoredChar(walls[p], "WHITE", "BLACK")
    <3>1. PICK q \in DOMAIN walls : piece \in RenderElement(q, walls[q], "WHITE")
      BY <1>4
    <3>2. q = p /\ CharAt(piece, r) = ColoredChar(walls[q], "WHITE", "BLACK")
      BY <1>1, <1>2, <2>1, <3>1
    <3> QED
      BY <3>2
  <2>2. ASSUME p \in DOMAIN walls
        PROVE  over(1)
    <3>1. PICK piece \in RenderElement(p, walls[p], "WHITE") : Covers(piece, r)
      BY <1>1, <1>3, <2>2
    <3>2. piece \in Elements[1]
      BY <1>4, <2>2, <3>1
    <3> QED
      BY <3>1, <3>2
  <2> QED
    BY <2>1, <2>2
<1>6. (over(2) <=> p \in content.projectiles)
      /\ all(2, ColoredChar("PROJECTILE", "WHITE", "BLACK"))
  <2>1. ASSUME NEW piece \in Elements[2], Covers(piece, r)
        PROVE  /\ p \in content.projectiles
               /\ CharAt(piece, r) = ColoredChar("PROJECTILE", "WHITE", "BLACK")
    <3>1. PICK q \in content.projectiles :
            piece \in RenderElement(q, "PROJECTILE", "WHITE")
      BY <1>4
    <3>2. q = p /\ CharAt(piece, r) = ColoredChar("PROJECTILE", "WHITE", "BLACK")
      BY <1>1, <1>2, <2>1, <3>1
    <3> QED
      BY <3>2
  <2>2. ASSUME p \in content.projectiles
        PROVE  over(2)
    <3>1. PICK piece \in RenderElement(p, "PROJECTILE", "WHITE") : Covers(piece, r)
      BY <1>1, <1>3, <2>2
    <3>2. piece \in Elements[2]
      BY <1>4, <2>2, <3>1
    <3> QED
      BY <3>1, <3>2
  <2> QED
    BY <2>1, <2>2
<1>7. /\ over(3) <=> \E j \in DOMAIN players : players[j].position = p
      /\ \A j \in DOMAIN players : players[j].position = p =>
           all(3, ColoredChar(players[j].type, players[j].color, "BLACK"))
  <2>1. ASSUME NEW piece \in Elements[3], Covers(piece, r)
        PROVE  \E j \in DOMAIN players :
                 /\ players[j].position = p
                 /\ CharAt(piece, r)
                      = ColoredChar(players[j].type, players[j].color, "BLACK")
    <3>1. PICK q \in Range(players) :
            piece \in RenderElement(q.position, q.type, q.color)
      BY <1>4
    <3>2. PICK j \in DOMAIN players : players[j] = q
      BY DEF Range
    <3>3. q.position \in Positions
      BY <1>1, <3>2
    <3>4. q.position = p /\ CharAt(piece, r) = ColoredChar(q.type, q.color, "BLACK")
      BY <1>2, <2>1, <3>1, <3>3
    <3> QED
      BY <3>2, <3>4
  <2>2. ASSUME NEW j \in DOMAIN players, players[j].position = p
        PROVE  over(3)
    <3>1. p \in Positions
      BY <1>1, <2>2
    <3>2. PICK piece \in RenderElement(p, players[j].type, players[j].color) :
            Covers(piece, r)
      BY <1>3, <3>1
    <3>3. players[j] \in Range(players)
      BY DEF Range
    <3>4. piece \in Elements[3]
      BY <1>4, <2>2, <3>2, <3>3
    <3> QED
      BY <3>2, <3>4
  <2>3. ASSUME NEW i \in DOMAIN players, NEW j \in DOMAIN players,
               players[i].position = p, players[j].position = p
        PROVE  i = j
    BY <2>3, PlayersAre DEF InWorld
  <2>4. ASSUME NEW j \in DOMAIN players, players[j].position = p,
               NEW piece \in Elements[3], Covers(piece, r)
        PROVE  CharAt(piece, r) = ColoredChar(players[j].type, players[j].color, "BLACK")
    <3>1. PICK i \in DOMAIN players :
            /\ players[i].position = p
            /\ CharAt(piece, r) = ColoredChar(players[i].type, players[i].color, "BLACK")
      BY <2>1, <2>4
    <3>2. i = j
      BY <2>3, <2>4, <3>1
    <3> QED
      BY <3>1, <3>2
  <2> QED
    BY <2>1, <2>2, <2>4
<1>8. (over(4) <=> p \in content.items) /\ all(4, ColoredChar("ITEM", "WHITE", "BLACK"))
  <2>1. ASSUME NEW piece \in Elements[4], Covers(piece, r)
        PROVE  /\ p \in content.items
               /\ CharAt(piece, r) = ColoredChar("ITEM", "WHITE", "BLACK")
    <3>1. PICK q \in content.items : piece \in RenderElement(q, "ITEM", "WHITE")
      BY <1>4
    <3>2. q = p /\ CharAt(piece, r) = ColoredChar("ITEM", "WHITE", "BLACK")
      BY <1>1, <1>2, <2>1, <3>1
    <3> QED
      BY <3>2
  <2>2. ASSUME p \in content.items
        PROVE  over(4)
    <3>1. PICK piece \in RenderElement(p, "ITEM", "WHITE") : Covers(piece, r)
      BY <1>1, <1>3, <2>2
    <3>2. piece \in Elements[4]
      BY <1>4, <2>2, <3>1
    <3> QED
      BY <3>1, <3>2
  <2> QED
    BY <2>1, <2>2
<1> QED
  BY <1>5, <1>6, <1>7, <1>8 DEF r, p

\* The last layer over a character decides.
LEMMA LastLayer ==
  ASSUME NEW m, NEW n \in Nat, NEW layers, DOMAIN layers = 1 .. n, NEW r,
         NEW i \in 1 .. n, \E piece \in layers[i] : Covers(piece, r),
         \A j \in i + 1 .. n : ~\E piece \in layers[j] : Covers(piece, r),
         NEW char, \A piece \in layers[i] : Covers(piece, r) => CharAt(piece, r) = char
  PROVE  InLayers(m, layers, r) = char
<1> DEFINE covering == {j \in DOMAIN layers : \E piece \in layers[j] : Covers(piece, r)}
           top == CHOOSE piece \in layers[Max(covering)] : Covers(piece, r)
<1>1. InLayers(m, layers, r) = IF covering = {} THEN m.characters[r] ELSE CharAt(top, r)
  BY Zenon DEF InLayers
<1>2. covering \in SUBSET (1 .. n) /\ i \in covering /\ \A j \in covering : j <= i
  BY SMT
<1>3. Max(covering) = i
  <2> DEFINE last == Max(covering)
  <2> HIDE DEF covering
  <2>1. last \in covering /\ \A j \in covering : j <= last
    BY <1>2, MaxOf
  <2> HIDE DEF last
  <2>2. last \in 1 .. n /\ i <= last /\ last <= i
    BY <1>2, <2>1
  <2>3. last = i
    BY <2>2
  <2> QED
    BY <2>3 DEF last
<1>4. top = CHOOSE piece \in layers[i] : Covers(piece, r)
  BY <1>3
<1> HIDE DEF covering, top
<1>5. top \in layers[i] /\ Covers(top, r)
  BY <1>4
<1> QED
  BY <1>1, <1>2, <1>5

\* It is the one that the rules see on the field.
LEMMA Sees ==
  ASSUME InWorld, NEW m,
         NEW dx \in -viewport_size_delta[1] .. viewport_size_delta[1],
         NEW dy \in -viewport_size_delta[2] .. viewport_size_delta[2],
         m.characters[CharacterAt(dx, dy)] = Blank
  PROVE  LET char == InLayers(m, Elements, CharacterAt(dx, dy))
         IN char.character = Seen(Torus(FieldAt(dx, dy))) /\ char.background = "BLACK"
<1> DEFINE r == CharacterAt(dx, dy)
           p == Torus(FieldAt(dx, dy))
           over(i) == \E piece \in Elements[i] : Covers(piece, r)
           all(i, char) == \A piece \in Elements[i] :
                             Covers(piece, r) => CharAt(piece, r) = char
           char == InLayers(m, Elements, r)
<1>1. DOMAIN Elements = 1 .. 4
  BY ElementsArePieces
<1>2. /\ over(1) <=> p \in DOMAIN walls
      /\ all(1, ColoredChar(walls[p], "WHITE", "BLACK"))
      /\ over(2) <=> p \in content.projectiles
      /\ all(2, ColoredChar("PROJECTILE", "WHITE", "BLACK"))
      /\ over(3) <=> \E j \in DOMAIN players : players[j].position = p
      /\ \A j \in DOMAIN players : players[j].position = p =>
           all(3, ColoredChar(players[j].type, players[j].color, "BLACK"))
      /\ over(4) <=> p \in content.items
      /\ all(4, ColoredChar("ITEM", "WHITE", "BLACK"))
  BY LayersOver, Zenon
<1> HIDE DEF r, p
<1>3. ASSUME NEW i \in 1 .. 4, over(i), \A j \in i + 1 .. 4 : ~over(j),
             NEW c, all(i, c)
      PROVE  char = c
  BY <1>1, <1>3, LastLayer
<1> HIDE DEF over, all, char
<1>4. CASE over(4)
  <2>1. char = ColoredChar("ITEM", "WHITE", "BLACK")
    BY <1>2, <1>3, <1>4
  <2>2. Seen(p) = "ITEM"
    BY <1>2, <1>4, Zenon DEF Seen
  <2> QED
    BY <2>1, <2>2 DEF ColoredChar, char, r, p
<1>5. CASE ~over(4) /\ over(3)
  <2> DEFINE j == CHOOSE i \in DOMAIN players : players[i].position = p
  <2>1. j \in DOMAIN players /\ players[j].position = p
    BY <1>2, <1>5
  <2>2. Seen(p) = players[j].type
    BY <1>2, <1>5, Zenon DEF Seen
  <2> HIDE DEF j
  <2>3. char = ColoredChar(players[j].type, players[j].color, "BLACK")
    <3>1. \A k \in 3 + 1 .. 4 : k = 4
      OBVIOUS
    <3>2. all(3, ColoredChar(players[j].type, players[j].color, "BLACK"))
      BY <1>2, <2>1
    <3> QED
      BY <1>3, <1>5, <3>1, <3>2
  <2> QED
    BY <2>2, <2>3 DEF ColoredChar, char, r, p
<1>6. CASE ~over(4) /\ ~over(3) /\ over(2)
  <2>1. \A k \in 2 + 1 .. 4 : k = 3 \/ k = 4
    OBVIOUS
  <2>2. char = ColoredChar("PROJECTILE", "WHITE", "BLACK")
    BY <1>2, <1>3, <1>6, <2>1
  <2>3. Seen(p) = "PROJECTILE"
    BY <1>2, <1>6, Zenon DEF Seen
  <2> QED
    BY <2>2, <2>3 DEF ColoredChar, char, r, p
<1>7. CASE ~over(4) /\ ~over(3) /\ ~over(2) /\ over(1)
  <2>1. \A k \in 1 + 1 .. 4 : k = 2 \/ k = 3 \/ k = 4
    OBVIOUS
  <2>2. char = ColoredChar(walls[p], "WHITE", "BLACK")
    BY <1>2, <1>3, <1>7, <2>1
  <2>3. Seen(p) = walls[p]
    BY <1>2, <1>7, Zenon DEF Seen
  <2> QED
    BY <2>2, <2>3 DEF ColoredChar, char, r, p
<1>8. CASE ~over(4) /\ ~over(3) /\ ~over(2) /\ ~over(1)
  <2>1. {i \in DOMAIN Elements : over(i)} = {}
    <3>1. \A i \in 1 .. 4 : i = 1 \/ i = 2 \/ i = 3 \/ i = 4
      OBVIOUS
    <3> QED
      BY <1>1, <1>8, <3>1
  <2>2. char = m.characters[r]
    BY <2>1, Zenon DEF InLayers, char, over
  <2>3. char = Blank
    BY <2>2 DEF r
  <2>4. Seen(p) = " "
    BY <1>2, <1>8, Zenon DEF Seen
  <2>5. char.character = " " /\ char.background = "BLACK"
    BY <2>3, Zenon DEF ColoredChar, Blank, Char
  <2> QED
    BY <2>4, <2>5, Zenon DEF char, r, p
<1> QED
  BY <1>4, <1>5, <1>6, <1>7, <1>8

\* The characters of the viewport are in its matrix.
LEMMA InViewport ==
  ASSUME players \in PlayerLists,
         NEW dx \in -viewport_size_delta[1] .. viewport_size_delta[1],
         NEW dy \in -viewport_size_delta[2] .. viewport_size_delta[2]
  PROVE  CharacterAt(dx, dy) \in Region(game_character_count)
<1> DEFINE x == dx + viewport_size_delta[1]
           y == dy + viewport_size_delta[2]
<1>1. /\ x \in Nat /\ y \in Nat /\ x < ViewportSize[1] /\ y < ViewportSize[2]
      /\ ViewportSize[1] \in Nat \ {0} /\ ViewportSize[2] \in Nat \ {0}
      /\ BlockSize[1] \in Nat \ {0} /\ BlockSize[2] \in Nat \ {0}
  <2>1. /\ ViewportSize[1] \in Nat \ {0} /\ ViewportSize[2] \in Nat \ {0}
        /\ BlockSize[1] \in Nat \ {0} /\ BlockSize[2] \in Nat \ {0}
    BY ScreenAssumption
  <2>2. /\ viewport_size_delta[1] \in Nat /\ viewport_size_delta[2] \in Nat
        /\ 2 * viewport_size_delta[1] < ViewportSize[1]
        /\ 2 * viewport_size_delta[2] < ViewportSize[2]
    BY Viewport
  <2>3. x \in Nat /\ x <= 2 * viewport_size_delta[1]
    BY <2>2
  <2>4. y \in Nat /\ y <= 2 * viewport_size_delta[2]
    BY <2>2
  <2> HIDE DEF x, y
  <2> QED
    BY <2>1, <2>2, <2>3, <2>4
<1>2. CharacterAt(dx, dy) = <<x * BlockSize[1], y * BlockSize[2]>>
  BY DEF CharacterAt, Plus, Times
<1>3. game_character_count
        = <<ViewportSize[1] * BlockSize[1], ViewportSize[2] * BlockSize[2]>>
  BY DEF game_character_count, Times
<1> HIDE DEF x, y
<1>4. /\ x * BlockSize[1] + BlockSize[1] <= ViewportSize[1] * BlockSize[1]
      /\ y * BlockSize[2] + BlockSize[2] <= ViewportSize[2] * BlockSize[2]
  BY <1>1, Less
<1>5. \A a, b \in Nat : a * b \in Nat
  OBVIOUS
<1> DEFINE a == x * BlockSize[1]
           b == y * BlockSize[2]
           c == ViewportSize[1] * BlockSize[1]
           d == ViewportSize[2] * BlockSize[2]
<1>6. a \in Nat /\ b \in Nat /\ c \in Nat /\ d \in Nat
  BY <1>1, <1>5
<1>7. /\ CharacterAt(dx, dy) = <<a, b>> /\ game_character_count = <<c, d>>
      /\ a + BlockSize[1] <= c /\ b + BlockSize[2] <= d
  BY <1>2, <1>3, <1>4
<1> HIDE DEF a, b, c, d
<1> QED
  BY <1>1, <1>6, <1>7 DEF Region

\* The matrix of the Renderer shows the field at this distance.
LEMMA WorldShown ==
  ASSUME InWorld,
         NEW dx \in -viewport_size_delta[1] .. viewport_size_delta[1],
         NEW dy \in -viewport_size_delta[2] .. viewport_size_delta[2]
  PROVE  LET char == RenderWorld.characters[CharacterAt(dx, dy)]
             p == Torus(FieldAt(dx, dy))
         IN /\ char.character = Seen(p)
            /\ (char.background = "LIGHT_RED") = (p \in content.colored_fields)
<1> DEFINE r == CharacterAt(dx, dy)
           p == Torus(FieldAt(dx, dy))
           m == Matrix(game_character_count)
           drawn == InsertLayers(m, Elements)
           positions == UNION {RenderedAt(q) : q \in content.colored_fields}
           l == SetBackgroundColorInRegions(drawn, positions, BlockSize, "LIGHT_RED")
<1>1. r \in Region(game_character_count)
  BY InViewport DEF InWorld
<1>2. /\ IsMatrix(m) /\ m.size = game_character_count
      /\ m.characters = [q \in Region(game_character_count) |-> Blank]
  <2>1. game_character_count \in Nat \X Nat
    BY Sizes
  <2>2. m = Filled(game_character_count, Blank)
    BY DEF Matrix
  <2> HIDE DEF m
  <2>3. IsMatrix(m) /\ m.size = game_character_count
    BY <2>1, <2>2, FilledMatrix, Colored
  <2>4. m.characters = [q \in Region(game_character_count) |-> Blank]
    BY <2>2, Zenon DEF Filled
  <2> QED
    BY <2>3, <2>4
<1>3. m.characters[r] = Blank
  BY <1>1, <1>2, Zenon
<1> HIDE DEF m
<1>4. IsMatrix(drawn) /\ drawn.size = game_character_count
  BY <1>2, ElementsArePieces, LayersInserted
<1>5. drawn.characters[r] = InLayers(m, Elements, r)
  <2>1. m = [size |-> m.size, characters |-> m.characters]
    BY <1>2 DEF IsMatrix
  <2>2. \A q \in Region(m.size) :
          InsertLayers(m, Elements).characters[q] = InLayers(m, Elements, q)
    BY <2>1, Layered
  <2> QED
    BY <1>1, <1>2, <2>2, Zenon
<1>6. drawn.characters[r].character = Seen(p) /\ drawn.characters[r].background = "BLACK"
  BY <1>3, <1>5, Sees
<1>7. (\E q \in positions : Minus(r, q) \in Region(BlockSize))
        <=> p \in content.colored_fields
  <2>1. content.colored_fields \subseteq Positions
    BY ContentAssumption DEF InWorld
  <2>2. ASSUME NEW q \in positions, Minus(r, q) \in Region(BlockSize)
        PROVE  p \in content.colored_fields
    <3>1. PICK field \in content.colored_fields : q \in RenderedAt(field)
      OBVIOUS
    <3>2. field = p
      BY <2>1, <2>2, <3>1, DrawnThere DEF InWorld
    <3> QED
      BY <3>2
  <2>3. ASSUME p \in content.colored_fields
        PROVE  \E q \in positions : Minus(r, q) \in Region(BlockSize)
    <3>1. PICK q \in RenderedAt(p) : Minus(r, q) \in Region(BlockSize)
      BY <2>1, <2>3, DrawnIfThere DEF InWorld
    <3>2. q \in positions
      BY <2>3
    <3> QED
      BY <3>1, <3>2
  <2> QED
    BY <2>2, <2>3
<1> HIDE DEF r, p, drawn, positions
<1>8. /\ l.characters[r].character = drawn.characters[r].character
      /\ l.characters[r].background
           = IF \E q \in positions : Minus(r, q) \in Region(BlockSize)
             THEN "LIGHT_RED" ELSE drawn.characters[r].background
  BY <1>1, <1>4, Regions
<1> HIDE DEF l
<1>9. l.characters[r].character = Seen(p)
  BY <1>6, <1>8
<1>10. (l.characters[r].background = "LIGHT_RED") = (p \in content.colored_fields)
  <2>1. CASE p \in content.colored_fields
    BY <1>7, <1>8, <2>1
  <2>2. CASE p \notin content.colored_fields
    <3>1. l.characters[r].background = "BLACK"
      BY <1>6, <1>7, <1>8, <2>2
    <3> QED
      BY <2>2, <3>1
  <2> QED
    BY <2>1, <2>2
<1>11. RenderWorld = l
  BY DEF RenderWorld, l, drawn, positions, m
<1> QED
  BY <1>9, <1>10, <1>11 DEF r, p

\* Nothing but the world and what lies over it is at a character of the viewport.
LEMMA WorldOnTop ==
  ASSUME InWorld, NEW m,
         NEW dx \in -viewport_size_delta[1] .. viewport_size_delta[1],
         NEW dy \in -viewport_size_delta[2] .. viewport_size_delta[2],
         Uncovered(Plus(<<1, 6>>, CharacterAt(dx, dy)), Pieces)
  PROVE  /\ Plus(<<1, 6>>, CharacterAt(dx, dy)) \in Region(game_output_size)
         /\ OnTop(m, Pieces, Plus(<<1, 6>>, CharacterAt(dx, dy)))
              = RenderWorld.characters[CharacterAt(dx, dy)]
<1> DEFINE r == CharacterAt(dx, dy)
           c == Plus(<<1, 6>>, r)
           w == game_character_count[1]
           h == game_character_count[2]
           covering == {i \in DOMAIN Pieces : Covers(Pieces[i], c)}
<1>1. r \in Region(game_character_count)
  BY InViewport DEF InWorld
<1>2. w \in Nat \ {0} /\ h \in Nat \ {0} /\ game_output_size = <<w + 2, h + 9>>
  BY Sizes
<1>3. r[1] \in 0 .. w - 1 /\ r[2] \in 0 .. h - 1 /\ r = <<r[1], r[2]>>
  BY <1>1, <1>2 DEF Region
<1> HIDE DEF r
<1>4. c = <<1 + r[1], 6 + r[2]>>
  BY DEF Plus
<1>5. /\ Len(Pieces) \in Nat /\ Len(Pieces) >= 5 /\ DOMAIN Pieces = 1 .. Len(Pieces)
      /\ Pieces[1].offset = <<0, 0>>
      /\ Pieces[1].matrix.size[2] = 6
      /\ Pieces[2].offset = <<1, 6>> /\ Pieces[2].matrix = RenderWorld
      /\ RenderWorld.size = game_character_count
  <2>1. /\ Pieces[1] = Piece(CompositeHeader, <<0, 0>>)
        /\ Pieces[2] = Piece(RenderWorld, <<1, 6>>)
        /\ Len(Pieces) \in Nat /\ Len(Pieces) >= 5 /\ DOMAIN Pieces = 1 .. Len(Pieces)
    BY InOrder
  <2>2. CompositeHeader.size = <<game_output_size[1], 6>>
    BY Header DEF InWorld
  <2>3. RenderWorld.size = game_character_count
    BY WorldMatrix
  <2> QED
    BY <2>1, <2>2, <2>3, OnePiece
<1> HIDE DEF w, h
<1>6. c \in Region(game_output_size)
  BY <1>2, <1>3, <1>4 DEF Region
<1>7. ~Covers(Pieces[1], c)
  BY <1>3, <1>4, <1>5 DEF Covers
<1>8. Covers(Pieces[2], c)
  <2>1. /\ Pieces[2].offset[1] = 1 /\ Pieces[2].offset[2] = 6
        /\ Pieces[2].matrix.size[1] = w /\ Pieces[2].matrix.size[2] = h
    BY <1>5 DEF w, h
  <2>2. c[1] = 1 + r[1] /\ c[2] = 6 + r[2]
    BY <1>4
  <2> HIDE DEF c
  <2> QED
    BY <1>2, <1>3, <2>1, <2>2 DEF Covers, IsLessOrEqual
<1>9. \A i \in DOMAIN Pieces \ {1, 2} : ~Covers(Pieces[i], c)
  BY DEF Uncovered, r
<1>10. covering = {2}
  BY <1>5, <1>7, <1>8, <1>9
<1>11. OnTop(m, Pieces, c) = CharAt(Pieces[Max(covering)], c)
  BY <1>10, Zenon DEF OnTop
<1>12. Max(covering) = 2
  <2>1. {2} \in SUBSET (1 .. 2) /\ {2} # {}
    OBVIOUS
  <2>2. Max({2}) \in {2}
    BY <2>1, MaxOf
  <2> QED
    BY <1>10, <2>2
<1> HIDE DEF covering
<1>13. CharAt(Pieces[2], c) = RenderWorld.characters[r]
  <2>1. Minus(c, <<1, 6>>) = r
    BY <1>3, <1>4 DEF Minus
  <2> QED
    BY <1>5, <2>1 DEF CharAt
<1> QED
  BY <1>6, <1>11, <1>12, <1>13 DEF r

\* The viewport shows the ring shaped world as it is, on all sides of the own
\* player and over its borders, where no table or notice lies over it.
THEOREM ViewportShows == ScreenSpec => []ViewportShowsWorld
<1>1. ASSUME ShowInv, drawing = "print",
             NEW dx \in -viewport_size_delta[1] .. viewport_size_delta[1],
             NEW dy \in -viewport_size_delta[2] .. viewport_size_delta[2],
             Uncovered(Plus(<<1, 6>>, CharacterAt(dx, dy)), Pieces)
      PROVE  LET char == game_output.characters[Plus(<<1, 6>>, CharacterAt(dx, dy))]
                 p == Torus(FieldAt(dx, dy))
             IN /\ char.character = Seen(p)
                /\ (char.background = "LIGHT_RED") = (p \in content.colored_fields)
  <2> DEFINE c == Plus(<<1, 6>>, CharacterAt(dx, dy))
             m == Matrix(game_output_size)
  <2>1. InWorld
    BY <1>1 DEF ShowInv, WorldInv, GeneratorInv, InWorld
  <2>2. game_output = InsertMatrix(m, Pieces)
    BY <1>1 DEF ShowInv, FrameIsFresh
  <2>3. m = [size |-> m.size, characters |-> m.characters] /\ m.size = game_output_size
    <3>1. game_output_size \in Nat \X Nat
      BY Sizes
    <3> QED
      BY <3>1, FilledMatrix, Colored DEF Matrix, IsMatrix
  <2> HIDE DEF m
  <2>4. c \in Region(game_output_size)
        /\ OnTop(m, Pieces, c) = RenderWorld.characters[CharacterAt(dx, dy)]
    BY <1>1, <2>1, WorldOnTop
  <2>5. game_output.characters[c] = OnTop(m, Pieces, c)
    <3>1. Len(Pieces) \in Nat /\ DOMAIN Pieces = 1 .. Len(Pieces)
      BY <2>1, InOrder
    <3> QED
      BY <2>2, <2>3, <2>4, <3>1, Inserted
  <2>6. game_output.characters[c] = RenderWorld.characters[CharacterAt(dx, dy)]
    BY <2>4, <2>5
  <2> HIDE DEF c
  <2>7. LET char == RenderWorld.characters[CharacterAt(dx, dy)]
            p == Torus(FieldAt(dx, dy))
        IN /\ char.character = Seen(p)
           /\ (char.background = "LIGHT_RED") = (p \in content.colored_fields)
    BY <2>1, WorldShown
  <2> QED
    BY <2>6, <2>7, Zenon DEF c
<1>2. <<border_size_x, header_height>> = <<1, 6>>
  BY DEF border_size_x, header_height
<1>3. ShowInv => ViewportShowsWorld
  BY <1>1, <1>2, Zenon DEF ViewportShowsWorld, FieldAt, CharacterAt
<1> QED
  BY <1>3, ShowInvariant, PTL
=============================================================================
