-------------------------- MODULE ColoredCharMatrix --------------------------
(***************************************************************************)
(* Rectangles of coloured characters (game/visual/ColoredCharMatrix.cpp).  *)
(* A position is <<x, y>>, counted from the top left corner.               *)
(***************************************************************************)
EXTENDS Integers, SequencesExt

ColoredChar(character, foreground, background) ==
  [character |-> character, foreground |-> foreground,
   background |-> background]

\* The default colours.
Char(character) == ColoredChar(character, "WHITE", "BLACK")
Blank == Char(" ")

Plus(p, q) == <<p[1] + q[1], p[2] + q[2]>>
Minus(p, q) == <<p[1] - q[1], p[2] - q[2]>>
Times(p, q) == <<p[1] * q[1], p[2] * q[2]>>
IsLessOrEqual(p, q) == p[1] <= q[1] /\ p[2] <= q[2]

Region(size) == (0 .. size[1] - 1) \X (0 .. size[2] - 1)

Filled(size, char) ==
  [size |-> size, characters |-> [p \in Region(size) |-> char]]
Matrix(size) == Filled(size, Blank)

\* A string set into a line of this width: what does not fit would go on in
\* the next line, and nothing is set below a matrix.
Line(width, string) ==
  [size |-> <<width, 1>>,
   characters |-> [p \in Region(<<width, 1>>) |->
     IF p[1] < Len(string) THEN string[p[1] + 1] ELSE Blank]]

\* A matrix to be inserted, and where.
Piece(matrix, offset) == [matrix |-> matrix, offset |-> offset]
Text(string, offset) == Piece(Line(Len(string), string), offset)

Covers(piece, p) ==
  /\ IsLessOrEqual(piece.offset, p)
  /\ p[1] < piece.offset[1] + piece.matrix.size[1]
  /\ p[2] < piece.offset[2] + piece.matrix.size[2]
CharAt(piece, p) == piece.matrix.characters[Minus(p, piece.offset)]

\* The assertion in InsertMatrix, and that nothing is put to the left or above.
Fits(m, piece) ==
  /\ piece.offset \in Nat \X Nat
  /\ IsLessOrEqual(Plus(piece.offset, piece.matrix.size), m.size)

\* Mutant: blanks let through what was there before.
InsertTransparent(m, pieces) ==
  [m EXCEPT !.characters =
     [p \in Region(m.size) |->
        LET covering == {i \in DOMAIN pieces :
              Covers(pieces[i], p) /\ CharAt(pieces[i], p) # Blank}
        IN IF covering = {} THEN m.characters[p]
           ELSE CharAt(pieces[Max(covering)], p)]]

\* InsertMatrix for all of one layer after the other: the last covers the
\* others, and no two of a layer differ where both of them are.
InsertLayers(m, layers) ==
  [m EXCEPT !.characters =
     [p \in Region(m.size) |->
        LET covering == {i \in DOMAIN layers :
                           \E piece \in layers[i] : Covers(piece, p)}
        IN IF covering = {} THEN m.characters[p]
           ELSE CharAt(CHOOSE piece \in layers[Max(covering)] :
                         Covers(piece, p), p)]]

\* InsertMatrix of one piece after the other.
InsertMatrix(m, pieces) == InsertLayers(m, [i \in DOMAIN pieces |-> {pieces[i]}])

SetAllColors(m, foreground, background) ==
  [m EXCEPT !.characters =
     [p \in Region(m.size) |->
        ColoredChar(m.characters[p].character, foreground, background)]]

\* For the regions of this size at each of the positions.
SetBackgroundColorInRegions(m, positions, size, background) ==
  [m EXCEPT !.characters =
     [p \in Region(m.size) |->
        IF \E q \in positions : Minus(p, q) \in Region(size)
        THEN [m.characters[p] EXCEPT !.background = background]
        ELSE m.characters[p]]]
=============================================================================
