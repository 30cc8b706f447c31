------------------------------- MODULE Screen -------------------------------
(***************************************************************************)
(* What a client shows of the world (game/visual/ and the output half of   *)
(* terminal/RealTerminal.cpp): the Renderer draws the part of the ring     *)
(* shaped world around the own player, the Compositor puts it between      *)
(* header and trailer and covers it with tables and a notice, and          *)
(* SetScreen prints the frame if it is not on the terminal already.  The   *)
(* walls are those of WorldGenerator.                                      *)
(*                                                                         *)
(* A block is BlockSize characters of its type, a text a few characters:   *)
(* how they look is left out, where they are put is not.                   *)
(***************************************************************************)
EXTENDS ColoredCharMatrix, WorldGenerator

CONSTANTS
  ViewportSize,     \* game_viewport_size, in blocks: <<51, 18>>
  BlockSize,        \* <<3, 3>>
  max_health,
  PlayerColumnWidths,     \* <<18, 2 * max_health, 5, 11, 10>>
  StatisticsColumnWidth,  \* 21
  MessageTypeCount,       \* rows of the statistics, but the sum
  RespawnMessage,   \* the notice: a string of characters
  Contents,         \* what else is in the world
  PlayerLists,      \* the players, the own one first
  TerminalSizes,
  MaxFrames         \* bound: frames drawn

VARIABLES
  content,          \* projectiles, items and colored_fields: positions
  players,
  shows,            \* which of the tables and hints are shown
  drawing,          \* what the main thread is about to do
  game_output,      \* the last frame, kept by the Compositor
  failed,           \* an assertion has failed
  frames,           \* how many have been drawn
  terminal, terminal_size,   \* its size, and the size SetScreen last saw
  last_screen_content,       \* what SetScreen printed last, if anything
  shown             \* what is on the terminal, if it is in order

screenVars == <<content, players, shows, drawing, game_output, failed,
                frames, terminal, terminal_size, last_screen_content, shown>>

\* A string of coloured characters.
IsString(string) ==
  /\ string \in Seq(Range(string))
  /\ \A c \in Range(string) :
       c = ColoredChar(c.character, c.foreground, c.background)

ASSUME ScreenAssumption ==
  /\ ViewportSize \in (Nat \ {0}) \X (Nat \ {0})
  /\ BlockSize \in (Nat \ {0}) \X (Nat \ {0})
  /\ max_health \in Nat /\ MessageTypeCount \in Nat
  /\ StatisticsColumnWidth \in Nat
  /\ PlayerColumnWidths \in Seq(Nat) /\ Len(PlayerColumnWidths) = 5
  /\ IsString(RespawnMessage)

\* The rules keep the players apart, and everything inside the world.
ASSUME ContentAssumption ==
  /\ \A c \in Contents :
       c.projectiles \cup c.items \cup c.colored_fields \subseteq Positions
  /\ \A list \in PlayerLists :
       /\ list \in Seq(Range(list)) /\ list # <<>>
       /\ \A i \in DOMAIN list : /\ list[i].position \in Positions
                                 /\ list[i].health \in 0 .. max_health
       /\ \A i, j \in DOMAIN list :
            list[i].position = list[j].position => i = j

border_size_x == 1
header_height == 6
trailer_height == 3
game_character_count == Times(ViewportSize, BlockSize)
game_output_size ==
  <<game_character_count[1] + 2 * border_size_x,
    game_character_count[2] + header_height + trailer_height>>
table_output_offset == <<border_size_x + 2, header_height + 1>>

-----------------------------------------------------------------------------
(* Renderer. *)

Own == players[1]

\* int division
Divide(a, b) == IF a < 0 THEN -((-a) \div b) ELSE a \div b

\* Mutant: the world is not repeated to the right and below.
RepetitionsBeforeOnly(start, end) ==
  (Divide(start[1] - WorldSize[1], WorldSize[1]) .. 0)
    \X (Divide(start[2] - WorldSize[2], WorldSize[2]) .. 0)

\* How often the world repeats in the viewport, in each direction.
Repetitions(start, end) ==
  LET before == start[1] < 0 \/ start[2] < 0
      after == end[1] >= WorldSize[1] \/ end[2] >= WorldSize[2]
      first(i) == IF before THEN Divide(start[i] - WorldSize[i], WorldSize[i])
                  ELSE 0
      last(i) == IF after THEN Divide(end[i] + WorldSize[i], WorldSize[i])
                 ELSE 1
  IN (first(1) .. last(1) - 1) \X (first(2) .. last(2) - 1)

viewport_size_delta == <<(ViewportSize[1] - 1) \div 2, (ViewportSize[2] - 1) \div 2>>
viewport_start == Minus(Own.position, viewport_size_delta)
viewport_end == Plus(Own.position, viewport_size_delta)

\* Where an element is drawn in the viewport.
RenderedAt(position) ==
  LET repeated == {Plus(position, Times(WorldSize, factor)) :
                     factor \in Repetitions(viewport_start, viewport_end)}
  IN {Times(Minus(p, viewport_start), BlockSize) :
        p \in {p \in repeated : /\ IsLessOrEqual(viewport_start, p)
                                /\ IsLessOrEqual(p, viewport_end)}}

Sprite(type, color) == Filled(BlockSize, ColoredChar(type, color, "BLACK"))

\* The sprite of an element, wherever it is in the viewport.
RenderElement(position, type, color) ==
  {Piece(Sprite(type, color), place) : place \in RenderedAt(position)}

\* What is drawn later covers what is drawn first.
Elements ==
  << UNION {RenderElement(p, walls[p], "WHITE") : p \in DOMAIN walls},
     UNION {RenderElement(p, "PROJECTILE", "WHITE") : p \in content.projectiles},
     UNION {RenderElement(p.position, p.type, p.color) : p \in Range(players)},
     UNION {RenderElement(p, "ITEM", "WHITE") : p \in content.items} >>

RenderWorld ==
  SetBackgroundColorInRegions(
    InsertLayers(Matrix(game_character_count), Elements),
    UNION {RenderedAt(p) : p \in content.colored_fields},
    BlockSize, "LIGHT_RED")

-----------------------------------------------------------------------------
(* Table, PlayerList, StatisticsTable and HealthDisplay. *)

Repeated(string, n) ==
  [i \in 1 .. n * Len(string) |-> string[1 + ((i - 1) % Len(string))]]

\* The widths of the first n columns and the lines before each of them.
WidthBefore(widths, n) == FoldLeft(+, n, SubSeq(widths, 1, n))
CalculateTotalWidth(widths) == WidthBefore(widths, Len(widths)) + 1

\* A row of the table: line, field, line, field, ..., line.
RenderRow(widths, texts) ==
  InsertMatrix(Filled(<<CalculateTotalWidth(widths), 1>>, Char("line")),
    [i \in DOMAIN widths |->
       Piece(Line(widths[i], texts[i]), <<WidthBefore(widths, i - 1) + 1, 0>>)])

MakeDivider(widths) ==
  Filled(<<CalculateTotalWidth(widths), 1>>, Char("divider"))

\* Mutant: no room for the last divider.
TableHeightShort(rows) == 3 + Len(rows)

TableHeight(rows) == 4 + Len(rows)

\* The title, then the rows; fits is false if a row does not.
RenderTable(widths, titles, rows) ==
  LET divider == MakeDivider(widths)
      lines == <<divider, RenderRow(widths, titles), divider>>
               \o [i \in DOMAIN rows |-> RenderRow(widths, rows[i])]
               \o <<divider>>
      pieces == [i \in DOMAIN lines |-> Piece(lines[i], <<0, i - 1>>)]
      table == Matrix(<<divider.size[1], TableHeight(rows)>>)
  IN [matrix |-> InsertMatrix(table, pieces),
      fits |-> \A i \in DOMAIN pieces : Fits(table, pieces[i])]

Hearts(health) ==
  Repeated(<<ColoredChar("heart", "RED", "BLACK"), Blank>>, health)
  \o Repeated(<<ColoredChar("heart", "GREY", "BLACK"), Blank>>,
              max_health - health)

PlayerList ==
  RenderTable(PlayerColumnWidths,
    << <<Char("name")>>, <<Char("health")>>, <<Char("score")>>,
       <<Char("packet loss")>>, <<Char("ping")>> >>,
    [i \in DOMAIN players |->
       << <<ColoredChar("ellipse", players[i].color, "BLACK"), Blank,
            Char(players[i].name)>>,
          Hearts(players[i].health), <<Char("number")>>, <<Char("number")>>,
          <<Char("number")>> >>])

StatisticsTable ==
  LET widths == [i \in 1 .. 4 |-> StatisticsColumnWidth]
      row(name) == << <<Char(name)>>, <<Char("number")>>, <<Char("number")>>,
                      <<Char("number")>> >>
  IN RenderTable(widths,
       << <<Char("message type")>>, <<Char("received")>>, <<Char("sent")>>,
          <<Char("sent and acknowledged")>> >>,
       [i \in 1 .. MessageTypeCount |-> row("type")] \o <<row("SUM")>>)

\* The tables and the notice are smaller than the frame.
ASSUME LayoutAssumption ==
  /\ Len(RespawnMessage) + 2 <= game_character_count[1]
  /\ \A widths \in {PlayerColumnWidths, [i \in 1 .. 4 |-> StatisticsColumnWidth]} :
       table_output_offset[1] + CalculateTotalWidth(widths)
         <= game_output_size[1]
  /\ table_output_offset[2] + MessageTypeCount + 5 <= game_output_size[2]

-----------------------------------------------------------------------------
(* Compositor. *)

GenerateSeparatorLine(width) ==
  Line(width, <<Char("line start")>> \o Repeated(<<Char("=")>>, width - 2)
              \o <<Char("line end")>>)

\* SetBorderLines for lines first to last of a matrix of this width.
SetBorderLines(width, first, last) ==
  <<Piece(Filled(<<1, last - first + 1>>, Char("border")), <<0, first>>),
    Piece(Filled(<<1, last - first + 1>>, Char("border")),
          <<width - 1, first>>)>>

CompositeHeader ==
  LET width == game_output_size[1]
      middle == width \div 2
      line(y) == Piece(GenerateSeparatorLine(width), <<0, y>>)
  IN InsertMatrix(Matrix(<<width, header_height>>),
       <<line(0), Text(<<Char("TITLE")>>, <<middle, 1>>),
         Text(<<Char("TITLE")>>, <<middle, 2>>)>>
       \o SetBorderLines(width, 1, 2)
       \o <<line(3), Text(<<Char("SCORE"), Char(Own.score)>>, <<1, 4>>),
            Text(<<Char("ITEM")>>, <<middle - 4, 4>>)>>
       \o (IF Own.item = "none" THEN <<>>
           ELSE <<Text(<<Char(Own.item)>>, <<middle + 2, 4>>)>>)
       \o <<Piece(Line(2 * max_health, Hearts(Own.health)),
                  <<width - 2 * max_health - 2, 4>>)>>
       \o SetBorderLines(width, 4, 4) \o <<line(5)>>)

CompositeTrailer ==
  LET width == game_output_size[1]
      hint(text, color) == ColoredChar(text, color, "BLACK")
      hints == <<Char("Movement"),
                 hint("Use Item", IF Own.item = "none" THEN "GREY" ELSE "WHITE"),
                 Char("Player Info"),
                 hint("Simulate", IF "bad connection" \in shows
                                  THEN "ORANGE" ELSE "WHITE")>>
      line(y) == Piece(GenerateSeparatorLine(width), <<0, y>>)
  IN InsertMatrix(Matrix(<<width, trailer_height>>),
       <<line(0), Text(hints, <<(width \div 2) - 2, 1>>)>>
       \o SetBorderLines(width, 1, 1) \o <<line(2)>>)

\* A frame of its own around a string.
DrawFrame(string) ==
  LET width == Len(string) + 2
      line(y) == Piece(GenerateSeparatorLine(width), <<0, y>>)
  IN InsertMatrix(Matrix(<<width, 3>>),
       <<line(0), line(2)>> \o SetBorderLines(width, 1, 1)
       \o <<Text(string, <<1, 1>>)>>)

\* The notice for a dead player.
RespawnPiece ==
  Piece(SetAllColors(DrawFrame(RespawnMessage), "RED", "BLACK"),
        <<(game_output_size[1] \div 2) - (Len(RespawnMessage) \div 2),
          (game_character_count[2] \div 2) + header_height>>)

TablePiece(table) == Piece(table.matrix, table_output_offset)

\* What CompositeViewport inserts into game_output, in this order.
Pieces ==
  <<Piece(CompositeHeader, <<0, 0>>),
    Piece(RenderWorld, <<border_size_x, header_height>>)>>
  \o SetBorderLines(game_output_size[1], header_height,
                    header_height + game_character_count[2] - 1)
  \o (IF "players" \in shows THEN <<TablePiece(PlayerList)>> ELSE <<>>)
  \o (IF "statistics" \in shows THEN <<TablePiece(StatisticsTable)>> ELSE <<>>)
  \o (IF Own.type = "PLAYER_DEAD" THEN <<RespawnPiece>> ELSE <<>>)
  \o <<Piece(CompositeTrailer, <<0, game_output_size[2] - trailer_height>>)>>

\* The assertions on the way.
AssertionsHold(pieces) ==
  /\ \A i \in DOMAIN pieces :
       Fits(game_output, pieces[i])
  /\ "players" \in shows => PlayerList.fits
  /\ "statistics" \in shows => StatisticsTable.fits

CompositeViewport ==
  /\ drawing = "composite" /\ ~failed
  /\ LET pieces == Pieces
         hold == AssertionsHold(pieces)
     IN /\ failed' = ~hold
        /\ game_output' = IF hold THEN InsertMatrix(game_output, pieces)
                          ELSE game_output
        /\ drawing' = IF hold THEN "print" ELSE "composite"
  /\ UNCHANGED <<generatorVars, content, players, shows, frames, terminal,
                 terminal_size, last_screen_content, shown>>

-----------------------------------------------------------------------------
(* RealTerminal::SetScreen. *)

\* A string goes on while the colours stay the same, over the ends of lines.
SameColors(char, next) ==
  char.foreground = next.foreground /\ char.background = next.background

\* What a terminal shows that prints these strings from its top left corner:
\* every character has the colours its string starts with.
Printed(m) ==
  LET width == m.size[1]
      chars == [i \in 1 .. width * m.size[2] |->
                  m.characters[<<(i - 1) % width, (i - 1) \div width>>]]
      starts == {i \in DOMAIN chars :
                   i = 1 \/ ~SameColors(chars[i - 1], chars[i])}
      string(i) == chars[Max({s \in starts : s <= i})]
  IN [p \in Region(m.size) |->
        LET i == p[2] * width + p[1] + 1
        IN ColoredChar(chars[i].character, string(i).foreground,
                       string(i).background)]

\* Mutant: the terminal's size is not looked at.
RedrawNever == FALSE

RedrawNeeded == terminal # terminal_size

SetScreen ==
  /\ drawing = "print"
  /\ terminal_size' = terminal
  /\ IF ~RedrawNeeded /\ last_screen_content = <<game_output>>
     THEN UNCHANGED <<last_screen_content, shown>>
     ELSE /\ last_screen_content' = <<game_output>>
          /\ shown' = <<Printed(game_output)>>
  /\ drawing' = "wait"
  /\ UNCHANGED <<generatorVars, content, players, shows, game_output, failed,
                 frames, terminal>>

-----------------------------------------------------------------------------
(* What changes between two frames. *)

NextFrame ==
  /\ frames < MaxFrames /\ frames' = frames + 1
  /\ drawing' = "composite"
  /\ UNCHANGED <<generatorVars, game_output, failed, terminal_size,
                 last_screen_content>>

\* The world moves on, or has arrived at all.  Players and items are on free
\* fields.
WorldChanges ==
  /\ generating = "done" /\ drawing \in {"start", "wait"}
  /\ \E c \in Contents, list \in PlayerLists :
       /\ \A p \in {list[i].position : i \in DOMAIN list} \cup c.items :
            ~IsBlocked(p)
       /\ content' = c /\ players' = list
  /\ UNCHANGED <<shows, terminal, shown>> /\ NextFrame

Key(toggled) ==
  /\ drawing = "wait"
  /\ shows' = toggled
  /\ UNCHANGED <<content, players, terminal, shown>> /\ NextFrame

\* The keys y, x and c.  The tables replace each other.
TogglePlayers ==
  Key(IF "players" \in shows THEN shows \ {"players"}
      ELSE (shows \ {"statistics"}) \cup {"players"})
ToggleStatistics ==
  Key(IF "statistics" \in shows THEN shows \ {"statistics"}
      ELSE (shows \ {"players"}) \cup {"statistics"})
ToggleSimulator == Key(SymDiff(shows, {"bad connection"}))

\* The terminal rearranges what it shows.  Bound: once between two frames.
Resize ==
  /\ drawing = "wait" /\ terminal = terminal_size
  /\ \E size \in TerminalSizes \ {terminal} : terminal' = size
  /\ shown' = <<>>
  /\ UNCHANGED <<content, players, shows>> /\ NextFrame

ScreenInit ==
  /\ GeneratorInit
  /\ content = [projectiles |-> {}, items |-> {}, colored_fields |-> {}]
  /\ players = <<>> /\ shows = {} /\ drawing = "start"
  /\ failed = FALSE /\ frames = 0
  /\ game_output = Matrix(game_output_size)
  /\ terminal \in TerminalSizes /\ terminal_size = <<0, 0>>
  /\ last_screen_content = <<>> /\ shown = <<>>

ScreenNext ==
  \/ GeneratorNext /\ UNCHANGED screenVars
  \/ WorldChanges \/ TogglePlayers \/ ToggleStatistics \/ ToggleSimulator
  \/ CompositeViewport \/ SetScreen \/ Resize

ScreenSpec == ScreenInit /\ [][ScreenNext]_<<generatorVars, screenVars>>

-----------------------------------------------------------------------------
(* Properties. *)

\* No frame makes an assertion of InsertMatrix fail: rows fit into their table,
\* and every table, the notice and the trailer into game_output, whatever is
\* shown over the world.
NothingOverflows == ~failed

\* What stands on a field of the ring shaped world, as the rules see it.
Seen(p) ==
  IF p \in content.items THEN "ITEM"
  ELSE IF \E i \in DOMAIN players : players[i].position = p
  THEN players[CHOOSE i \in DOMAIN players : players[i].position = p].type
  ELSE IF p \in content.projectiles THEN "PROJECTILE"
  ELSE IF p \in DOMAIN walls THEN walls[p]
  ELSE " "

\* A character of the frame that is not covered by a table or the notice.
Uncovered(c, pieces) ==
  \A i \in DOMAIN pieces \ {1, 2} :
    ~Covers(pieces[i], c)

\* Every field of the viewport shows what is there in the world, that goes on
\* beyond its borders as it does for whoever walks there: as far as the
\* viewport reaches the same way on both sides of the own player.
ViewportShowsWorld ==
  drawing = "print" =>
    LET pieces == Pieces IN
    \A dx \in -viewport_size_delta[1] .. viewport_size_delta[1],
       dy \in -viewport_size_delta[2] .. viewport_size_delta[2] :
      LET p == Torus(Plus(Own.position, <<dx, dy>>))
          c == Plus(<<border_size_x, header_height>>,
                    Times(Plus(<<dx, dy>>, viewport_size_delta), BlockSize))
      IN Uncovered(c, pieces) =>
           /\ game_output.characters[c].character = Seen(p)
           /\ (game_output.characters[c].background = "LIGHT_RED")
                = (p \in content.colored_fields)

\* A frame owes nothing to the frame before: no table, notice or player that
\* is gone remains in game_output, which is never cleared.
FrameIsFresh ==
  drawing = "print" =>
    game_output = InsertMatrix(Matrix(game_output_size), Pieces)

\* After SetScreen the terminal shows the frame, whatever was printed before,
\* whatever was left out and whether it has been resized or not.
TerminalShowsFrame ==
  (drawing = "wait" /\ terminal = terminal_size) =>
    shown = <<game_output.characters>>
=============================================================================
