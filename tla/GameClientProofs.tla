-------------------------- MODULE GameClientProofs --------------------------
(***************************************************************************)
(* What a client does with what the server and the player send, for every  *)
(* number of players and everything that is typed and done: it drives the  *)
(* player the server made for it (as long as partner ids fit the one byte  *)
(* SET_OWN_ID has for them), its copy of the world is the last one sent,   *)
(* its screen shows that copy, and no character it asked for is missing.   *)
(***************************************************************************)
EXTENDS GameClient, FoldLemmas

\* Payloads to the client are about its own player.  SET_OWN_ID is the first
\* of all, and the last DISCONNECT is the only one.
Addressed(m, id) ==
  /\ m.type \in {"SET_OWN_ID", "SET_WORLD", "UPDATE_WORLD", "DISCONNECT"}
  /\ m.type = "SET_OWN_ID" => m.id = id
  /\ m.type \in {"SET_WORLD", "UPDATE_WORLD"} =>
       id \in DOMAIN m.world.players

IsSequence(q) == \E S : q \in Seq(S)

InboxInv ==
  /\ IsSequence(inbox)
  /\ \A i \in 1 .. Len(inbox) : Addressed(inbox[i], partner)
  /\ \A i \in 1 .. Len(inbox) :
       inbox[i].type = "SET_OWN_ID" => i = 1 /\ ~server_initialised
  /\ partner \in DOMAIN server.players /\ ~server_initialised =>
       inbox # <<>> /\ inbox[1].type = "SET_OWN_ID"
  /\ partner \notin DOMAIN server.players =>
       \A i \in 1 .. Len(inbox) : i = 1 /\ inbox[i].type = "DISCONNECT"
  /\ partner \in DOMAIN server.players =>
       \A i \in 1 .. Len(inbox) : inbox[i].type # "DISCONNECT"

\* Ids are given out in order.
IdsInv ==
  /\ next_partner_id \in Nat \ {0}
  /\ DOMAIN server.players \subseteq 1 .. next_partner_id - 1
  /\ partner \in 0 .. next_partner_id - 1 /\ partner <= MaxId
  /\ partner = 0 => inbox = <<>> /\ ~server_initialised

OwnInv ==
  /\ "players" \in DOMAIN server /\ "players" \in DOMAIN world
  /\ failure \in {None, "refused"}
  /\ own_id \in world.players
  /\ server_initialised => own_id = partner /\ partner \in DOMAIN server.players

KeptInv == InboxInv /\ IdsInv /\ OwnInv

-----------------------------------------------------------------------------
LEMMA TransmittedPlayers ==
  ASSUME NEW w
  PROVE  Transmitted(w).players = w.players
BY DEF Transmitted

LEMMA OneMore ==
  ASSUME NEW S, NEW q \in Seq(S), NEW m
  PROVE  /\ Append(q, m) \in Seq(S \cup {m})
         /\ Len(Append(q, m)) = Len(q) + 1
         /\ \A i \in 1 .. Len(q) : Append(q, m)[i] = q[i]
         /\ Append(q, m)[Len(q) + 1] = m
         /\ Len(q) \in Nat
<1>1. q \in Seq(S \cup {m}) /\ m \in S \cup {m}
  OBVIOUS
<1> QED
  BY <1>1

LEMMA OneLess ==
  ASSUME NEW S, NEW q \in Seq(S), q # <<>>
  PROVE  /\ Tail(q) \in Seq(S)
         /\ Len(Tail(q)) = Len(q) - 1
         /\ \A i \in 1 .. Len(q) - 1 : Tail(q)[i] = q[i + 1]
         /\ Head(q) = q[1]
         /\ Len(q) \in Nat \ {0}
OBVIOUS

LEMMA InitKept == ClientInit => KeptInv
<1> SUFFICES ASSUME ClientInit
             PROVE  KeptInv
  OBVIOUS
<1>1. inbox = <<>> /\ inbox \in Seq({})
  BY DEF ClientInit
<1>2. InboxInv
  <2>1. IsSequence(inbox)
    BY <1>1, Zenon DEF IsSequence
  <2> QED
    BY <1>1, <2>1 DEF ClientInit, InboxInv
<1>3. IdsInv
  BY <1>1, ClientAssumption DEF ClientInit, IdsInv
<1>4. OwnInv
  BY DEF ClientInit, OwnInv, None
<1> QED
  BY <1>2, <1>3, <1>4 DEF KeptInv

\* What the steps of the client's main thread, the terminal and the clock
\* leave alone.
Kept == UNCHANGED <<inbox, partner, server, next_partner_id, server_initialised,
                    failure, own_id, world>>

LEMMA KeptAlone ==
  ASSUME KeptInv, Kept
  PROVE  KeptInv'
BY DEF KeptInv, Kept, InboxInv, IdsInv, OwnInv, Addressed

LEMMA MainKept ==
  ASSUME MainNext \/ Interrupt \/ MoveElapses \/ ItemUsageElapses \/ DrawElapses
           \/ \E key \in Keys : Type(key)
  PROVE  Kept
<1> USE DEF Kept, serverVars, copyVars
<1>1. CASE Poll \/ ReadKey \/ Escape \/ ReadBracket \/ Bracketed \/ ReadLetter
             \/ HandleOldKey \/ HandleOwnChange
  BY <1>1, Zenon DEF Poll, ReadKey, Escape, ReadBracket, Bracketed, ReadLetter,
                     HandleOldKey, HandleOwnChange, Reads
<1>2. CASE DecideFrame \/ ClearFlags \/ CopyWorld \/ Draw
  BY <1>2, Zenon DEF DecideFrame, ClearFlags, CopyWorld, Draw, Draws
<1>3. CASE Leave \/ Interrupt \/ \E key \in Keys : Type(key)
  BY <1>3, Zenon DEF Leave, Interrupt, Type
<1>4. CASE MoveElapses \/ ItemUsageElapses \/ DrawElapses
  BY <1>4, Zenon DEF MoveElapses, ItemUsageElapses, DrawElapses, OnlyTime
<1> QED
  BY <1>1, <1>2, <1>3, <1>4 DEF MainNext

-----------------------------------------------------------------------------
(* The server. *)

LEMMA ServerConnectsKept ==
  ASSUME KeptInv, ServerConnects, MaxId < IdModulus
  PROVE  KeptInv'
<1>1. /\ partner = 0 /\ inbox = <<>> /\ ~server_initialised
      /\ partner' = next_partner_id /\ next_partner_id' = next_partner_id + 1
      /\ next_partner_id \in Nat \ {0} /\ next_partner_id <= MaxId
      /\ DOMAIN server.players \subseteq 1 .. next_partner_id - 1
      /\ UNCHANGED <<server_initialised, own_id, world, failure>>
  BY DEF KeptInv, IdsInv, ServerConnects, ServerOnly, copyVars
<1>2. "players" \in DOMAIN server' => OwnInv'
  BY <1>1 DEF KeptInv, OwnInv
<1>3. CASE Cardinality(DOMAIN server.players) >= MaxPlayers
  <2>1. inbox' = <<Disconnect>> /\ server' = server
    BY <1>1, <1>3 DEF ServerConnects
  <2>2. inbox' \in Seq({Disconnect}) /\ Len(inbox') = 1
        /\ inbox'[1] = Disconnect
    BY <2>1
  <2>3. InboxInv'
    <3>1. IsSequence(inbox')
      BY <2>2, Zenon DEF IsSequence
    <3> QED
      BY <1>1, <2>1, <2>2, <3>1 DEF InboxInv, Addressed, Disconnect
  <2>4. IdsInv'
    BY <1>1, <2>1, ClientAssumption DEF IdsInv
  <2> QED
    BY <1>2, <2>1, <2>3, <2>4 DEF KeptInv, OwnInv
<1>4. CASE ~(Cardinality(DOMAIN server.players) >= MaxPlayers)
  <2>1. PICK p : server' = [server EXCEPT !.players =
                              AddPlayer(server.players, next_partner_id, p)]
    BY <1>4, Zenon DEF ServerConnects
  <2>2. /\ DOMAIN server'.players = DOMAIN server.players \cup {next_partner_id}
        /\ "players" \in DOMAIN server'
    BY <2>1 DEF AddPlayer, KeptInv, OwnInv
  <2> DEFINE own == SetOwnId(partner')
             new == SetWorld(server')
  <2>3. inbox' = <<own, new>>
    BY <1>1, <1>4 DEF ServerConnects
  <2>4. own.type = "SET_OWN_ID" /\ own.id = partner'
    <3>1. partner' % IdModulus = partner'
      BY <1>1, ClientAssumption
    <3> QED
      BY <3>1 DEF SetOwnId
  <2>5. new.type = "SET_WORLD" /\ new.world.players = server'.players
    BY TransmittedPlayers DEF SetWorld
  <2> HIDE DEF own, new
  <2>6. inbox' \in Seq({own, new}) /\ Len(inbox') = 2
        /\ inbox'[1] = own /\ inbox'[2] = new
    BY <2>3
  <2>7. InboxInv'
    <3>1. IsSequence(inbox')
      BY <2>6, Zenon DEF IsSequence
    <3>2. \A i \in 1 .. Len(inbox') : inbox'[i] = (IF i = 1 THEN own ELSE new)
      BY <2>6
    <3>3. \A i \in 1 .. Len(inbox') : Addressed(inbox'[i], partner')
      BY <1>1, <2>2, <2>4, <2>5, <3>2 DEF Addressed
    <3>4. inbox' # <<>> /\ partner' \in DOMAIN server'.players
      BY <1>1, <2>2, <2>3
    <3>5. inbox'[1] = own /\ 1 .. Len(inbox') = {1, 2}
      BY <2>6
    <3> QED
      BY <1>1, <2>4, <2>5, <3>1, <3>2, <3>3, <3>4, <3>5 DEF InboxInv
  <2>8. IdsInv'
    BY <1>1, <2>2, ClientAssumption DEF IdsInv
  <2> QED
    BY <1>2, <2>2, <2>7, <2>8 DEF KeptInv
<1> QED
  BY <1>3, <1>4

\* Others come and go; the client's player and what it is sent remain.
LEMMA OthersKept ==
  ASSUME KeptInv,
         UNCHANGED <<inbox, partner, server_initialised, failure, own_id, world>>,
         next_partner_id' \in {next_partner_id, next_partner_id + 1},
         DOMAIN server'.players \subseteq 1 .. next_partner_id' - 1,
         "players" \in DOMAIN server',
         partner \in DOMAIN server'.players <=> partner \in DOMAIN server.players
  PROVE  KeptInv'
<1>1. InboxInv'
  BY DEF KeptInv, InboxInv, Addressed
<1>2. IdsInv'
  BY DEF KeptInv, IdsInv
<1>3. OwnInv'
  BY DEF KeptInv, OwnInv
<1> QED
  BY <1>1, <1>2, <1>3 DEF KeptInv

LEMMA BroadcastKept ==
  ASSUME KeptInv, Broadcast
  PROVE  KeptInv'
<1> DEFINE m == UpdateWorld(server)
<1>1. /\ inbox' = Append(inbox, m) /\ partner \in DOMAIN server.players
      /\ UNCHANGED <<server, next_partner_id, partner, server_initialised,
                     failure, own_id, world>>
  BY DEF Broadcast, ServerOnly, copyVars
<1>2. m.type = "UPDATE_WORLD" /\ m.world.players = server.players
  BY TransmittedPlayers DEF UpdateWorld
<1> HIDE DEF m
<1>3. PICK S : inbox \in Seq(S)
  BY DEF KeptInv, InboxInv, IsSequence
<1>4. /\ inbox' \in Seq(S \cup {m}) /\ Len(inbox') = Len(inbox) + 1
      /\ \A i \in 1 .. Len(inbox) : inbox'[i] = inbox[i]
      /\ inbox'[Len(inbox) + 1] = m /\ Len(inbox) \in Nat
  BY <1>1, <1>3, OneMore
<1>5. inbox # <<>> => Len(inbox) > 0
  BY <1>3
<1>6. InboxInv'
  <2>1. IsSequence(inbox')
    BY <1>4, Zenon DEF IsSequence
  <2>2. \A i \in 1 .. Len(inbox') :
          (i \in 1 .. Len(inbox) /\ inbox'[i] = inbox[i]) \/ inbox'[i] = m
    BY <1>4
  <2>3. \A i \in 1 .. Len(inbox') : Addressed(inbox'[i], partner')
    BY <1>1, <1>2, <2>2 DEF KeptInv, InboxInv, Addressed
  <2>4. inbox' # <<>> /\ (inbox # <<>> => inbox'[1] = inbox[1])
    BY <1>4, <1>5
  <2> QED
    BY <1>1, <1>2, <2>1, <2>2, <2>3, <2>4 DEF KeptInv, InboxInv
<1>7. IdsInv'
  BY <1>1 DEF KeptInv, IdsInv
<1>8. OwnInv'
  BY <1>1 DEF KeptInv, OwnInv
<1> QED
  BY <1>6, <1>7, <1>8 DEF KeptInv

LEMMA ServerKept ==
  ASSUME KeptInv, ServerNext, MaxId < IdModulus
  PROVE  KeptInv'
<1> USE DEF ServerOnly, copyVars, KeptInv, IdsInv, OwnInv
<1>1. CASE ServerConnects
  BY <1>1, ServerConnectsKept
<1>2. CASE ServerHandlesPayload
  <2>1. /\ UNCHANGED <<inbox, partner, server_initialised, failure, own_id, world,
                       next_partner_id>>
        /\ DOMAIN server'.players = DOMAIN server.players
        /\ DOMAIN server' = DOMAIN server
    BY <1>2 DEF ServerHandlesPayload
  <2> QED
    BY <2>1, OthersKept
<1>3. CASE Broadcast
  BY <1>3, BroadcastKept
<1>4. CASE OtherJoins
  <2>1. /\ UNCHANGED <<inbox, partner, server_initialised, failure, own_id, world>>
        /\ next_partner_id' = next_partner_id + 1
        /\ DOMAIN server'.players = DOMAIN server.players \cup {next_partner_id}
        /\ DOMAIN server' = DOMAIN server
    BY <1>4 DEF OtherJoins, OthersAct, AddPlayer
  <2> QED
    BY <2>1, OthersKept
<1>5. ASSUME NEW id \in DOMAIN server.players \ {partner},
             OtherLeaves(id) \/ OtherMoves(id)
      PROVE  KeptInv'
  <2>1. /\ UNCHANGED <<inbox, partner, server_initialised, failure, own_id, world,
                       next_partner_id>>
        /\ DOMAIN server'.players \in
             {DOMAIN server.players, DOMAIN server.players \ {id}}
        /\ DOMAIN server' = DOMAIN server
    BY <1>5 DEF OtherLeaves, OtherMoves, OthersAct
  <2> QED
    BY <1>5, <2>1, OthersKept
<1>6. ASSUME NEW list \in ProjectileLists, WorldMoves(list)
      PROVE  KeptInv'
  <2>1. /\ UNCHANGED <<inbox, partner, server_initialised, failure, own_id, world,
                       next_partner_id>>
        /\ server'.players = server.players
        /\ DOMAIN server' = DOMAIN server
    BY <1>6 DEF WorldMoves, OthersAct
  <2> QED
    BY <2>1, OthersKept
<1> QED
  BY <1>1, <1>2, <1>3, <1>4, <1>5, <1>6 DEF ServerNext

-----------------------------------------------------------------------------
(* The communication thread. *)

LEMMA HandleEventKept ==
  ASSUME KeptInv, HandleEvent
  PROVE  KeptInv'
<1> DEFINE m == Head(inbox)
<1>1. /\ failure = None /\ inbox # <<>> /\ inbox' = Tail(inbox)
      /\ UNCHANGED <<server, next_partner_id, partner>>
  BY DEF HandleEvent, serverVars
<1>2. PICK S : inbox \in Seq(S)
  BY DEF KeptInv, InboxInv, IsSequence
<1>3. /\ inbox' \in Seq(S) /\ Len(inbox') = Len(inbox) - 1
      /\ \A i \in 1 .. Len(inbox) - 1 : inbox'[i] = inbox[i + 1]
      /\ m = inbox[1] /\ Len(inbox) \in Nat \ {0}
  BY <1>1, <1>2, OneLess
<1> HIDE DEF m
<1>4. IsSequence(inbox')
  BY <1>3, Zenon DEF IsSequence
<1>5. \A i \in 1 .. Len(inbox') :
        i + 1 \in 2 .. Len(inbox) /\ inbox'[i] = inbox[i + 1]
  BY <1>3
<1>6. Addressed(m, partner) /\ partner # 0
  BY <1>1, <1>3 DEF KeptInv, InboxInv, IdsInv
\* SET_OWN_ID comes first, and no other follows it.
<1>7. /\ \A i \in 1 .. Len(inbox') :
           /\ Addressed(inbox'[i], partner')
           /\ inbox'[i].type # "SET_OWN_ID"
      /\ partner \in DOMAIN server.players =>
           /\ m.type # "DISCONNECT"
           /\ ~server_initialised => m.type = "SET_OWN_ID"
           /\ \A i \in 1 .. Len(inbox') : inbox'[i].type # "DISCONNECT"
      /\ partner \notin DOMAIN server.players =>
           m.type = "DISCONNECT" /\ Len(inbox') = 0
  <2>1. /\ \A i \in 1 .. Len(inbox') : Addressed(inbox'[i], partner')
        /\ \A i \in 1 .. Len(inbox') : inbox'[i].type # "SET_OWN_ID"
    BY <1>1, <1>3, <1>5 DEF KeptInv, InboxInv
  <2>2. ASSUME partner \in DOMAIN server.players
        PROVE  /\ m.type # "DISCONNECT"
               /\ ~server_initialised => m.type = "SET_OWN_ID"
               /\ \A i \in 1 .. Len(inbox') : inbox'[i].type # "DISCONNECT"
    BY <1>3, <1>5, <2>2 DEF KeptInv, InboxInv
  <2>3. ASSUME partner \notin DOMAIN server.players
        PROVE  m.type = "DISCONNECT" /\ Len(inbox') = 0
    <3>1. m.type = "DISCONNECT"
      BY <1>3, <2>3 DEF KeptInv, InboxInv
    <3>2. ASSUME Len(inbox') # 0
          PROVE  FALSE
      <4>1. 2 \in 1 .. Len(inbox)
        BY <1>3, <3>2
      <4> QED
        BY <2>3, <4>1 DEF KeptInv, InboxInv
    <3> QED
      BY <3>1, <3>2
  <2> QED
    BY <2>1, <2>2, <2>3
\* What is left of the inbox, whatever the payload does.
<1>8. ASSUME partner \in DOMAIN server.players => server_initialised'
      PROVE  InboxInv' /\ IdsInv'
  <2>1. InboxInv'
    BY <1>1, <1>4, <1>7, <1>8 DEF InboxInv
  <2>2. IdsInv'
    BY <1>1, <1>6 DEF KeptInv, IdsInv
  <2> QED
    BY <2>1, <2>2
<1>9. CASE m.type = "SET_OWN_ID"
  <2>1. HandleSetOwnId(m)
    BY <1>9 DEF HandleEvent, m
  <2>2. m.id = partner /\ partner \in DOMAIN server.players
    BY <1>6, <1>7, <1>9 DEF Addressed
  <2>3. own_id' = partner /\ server_initialised' /\ failure' = failure
        /\ world' = [world EXCEPT !.players = Renamed(world.players, partner)]
    BY <2>1, <2>2 DEF HandleSetOwnId, ReadOwnId
  <2>4. world'.players = Renamed(world.players, partner)
        /\ "players" \in DOMAIN world'
    BY <2>3 DEF KeptInv, OwnInv
  <2>5. partner \in Renamed(world.players, partner)
    BY DEF Renamed, KeptInv, OwnInv
  <2>6. OwnInv'
    BY <1>1, <2>2, <2>3, <2>4, <2>5 DEF KeptInv, OwnInv
  <2> QED
    BY <1>8, <2>3, <2>6 DEF KeptInv
<1>10. CASE m.type \in {"SET_WORLD", "UPDATE_WORLD"}
  <2>1. PICK walls : Apply(m.world, walls)
    BY <1>10 DEF HandleEvent, m
  <2>2. UNCHANGED <<own_id, server_initialised>>
    BY <1>10 DEF HandleEvent, m
  <2>3. /\ server_initialised /\ own_id = partner
        /\ partner \in DOMAIN server.players
        /\ own_id \in DOMAIN m.world.players
    BY <1>6, <1>7, <1>10 DEF Addressed, KeptInv, OwnInv
  <2>4. failure' = failure
        /\ world' = UpdateWithoutWalls([world EXCEPT !.walls = walls], m.world)
    BY <2>1, <2>3 DEF Apply
  <2>5. world'.players = DOMAIN m.world.players /\ "players" \in DOMAIN world'
    BY <2>4 DEF UpdateWithoutWalls, KeptInv, OwnInv
  <2>6. OwnInv'
    BY <1>1, <2>2, <2>3, <2>4, <2>5 DEF KeptInv, OwnInv
  <2> QED
    BY <1>8, <2>2, <2>3, <2>6 DEF KeptInv
<1>11. CASE m.type = "DISCONNECT"
  <2>1. failure' = "refused" /\ UNCHANGED <<own_id, server_initialised, world>>
    BY <1>11 DEF HandleEvent, m, copyVars
  <2>2. OwnInv'
    BY <1>1, <2>1 DEF KeptInv, OwnInv
  <2> QED
    BY <1>7, <1>8, <1>11, <2>2 DEF KeptInv
<1> QED
  BY <1>6, <1>9, <1>10, <1>11 DEF Addressed

-----------------------------------------------------------------------------
LEMMA StepKept ==
  ASSUME KeptInv, [ClientNext]_clientVars, MaxId < IdModulus
  PROVE  KeptInv'
<1>1. CASE ServerNext
  BY <1>1, ServerKept
<1>2. CASE HandleEvent
  BY <1>2, HandleEventKept
<1>3. CASE MainNext \/ Interrupt \/ MoveElapses \/ ItemUsageElapses \/ DrawElapses
             \/ \E key \in Keys : Type(key)
  BY <1>3, MainKept, KeptAlone
<1>4. CASE UNCHANGED clientVars
  BY <1>4, KeptAlone DEF clientVars, serverVars, copyVars, Kept
<1> QED
  BY <1>1, <1>2, <1>3, <1>4 DEF ClientNext

\* The client drives the player the server made for it and has that player in
\* its world from SET_OWN_ID on (the assertions in GameClient::HandleEvent),
\* as long as partner ids fit the byte that carries them.
THEOREM OwnPlayerIsKept ==
  ASSUME MaxId < IdModulus
  PROVE  ClientSpec => []OwnPlayerKept
<1>1. ClientInit => KeptInv
  BY InitKept
<1>2. KeptInv /\ [ClientNext]_clientVars => KeptInv'
  BY StepKept
<1>3. KeptInv => OwnPlayerKept
  BY DEF KeptInv, OwnInv, OwnPlayerKept
<1> QED
  BY <1>1, <1>2, <1>3, PTL DEF ClientSpec
-----------------------------------------------------------------------------
(* The terminal's input. *)

Reading == {"key", "bracket", "letter"}

\* What was typed in one go is either not counted yet, or counted and in the
\* kernel with the thread about to read, or counted and in getchar's buffer.
InputInv ==
  /\ typed \in Nat /\ remaining_bytes_waiting \in Int
  /\ tty \in Seq(Bytes) /\ stdin \in Seq(Bytes)
  /\ typed = 0 =>
       /\ tty = <<>> /\ stdin = <<>> /\ remaining_bytes_waiting = 0
       /\ main \notin Reading
  /\ typed = 1 =>
       \/ /\ remaining_bytes_waiting = 0 /\ stdin = <<>> /\ main \notin Reading
       \/ /\ remaining_bytes_waiting = Len(tty) /\ stdin = <<>>
          /\ tty # <<>> /\ main \in Reading
       \/ /\ remaining_bytes_waiting = Len(stdin) /\ tty = <<>>
          /\ main \in Reading => stdin # <<>>

LEMMA InitInput == ClientInit => InputInv
BY DEF ClientInit, InputInv, Reading

LEMMA TypeInput ==
  ASSUME InputInv, NEW key \in Keys, Type(key)
  PROVE  InputInv'
<1>1. /\ typed' = typed + 1 /\ tty' = tty \o key /\ key \in Seq(Bytes)
      /\ UNCHANGED <<main, stdin, remaining_bytes_waiting>>
  BY KeyAssumption DEF Type
<1>2. tty' \in Seq(Bytes)
  BY <1>1 DEF InputInv
<1> QED
  BY <1>1, <1>2 DEF InputInv

LEMMA HasInputInput ==
  ASSUME InputInv, NEW yes \in Reading, NEW no, no \notin Reading,
         main \notin Reading, HasInput(yes, no)
  PROVE  InputInv'
<1>1. Len(tty) \in Nat /\ Len(stdin) \in Nat
      /\ (tty = <<>> <=> Len(tty) = 0) /\ (stdin = <<>> <=> Len(stdin) = 0)
  BY DEF InputInv
<1>2. /\ UNCHANGED <<tty, stdin, typed>>
      /\ remaining_bytes_waiting' = remaining_bytes_waiting + Len(tty)
      /\ main' = IF remaining_bytes_waiting' > 0 THEN yes ELSE no
  BY DEF HasInput
<1>3. CASE typed = 0
  BY <1>1, <1>2, <1>3 DEF InputInv
<1>4. CASE typed = 1
  BY <1>1, <1>2, <1>4 DEF InputInv
<1> QED
  BY <1>1, <1>2, <1>3, <1>4 DEF InputInv

LEMMA GetInputInput ==
  ASSUME InputInv, NEW byte, main \in Reading, main' \notin Reading,
         GetInput(byte)
  PROVE  InputInv'
<1>1. /\ typed' = typed
      /\ remaining_bytes_waiting' = remaining_bytes_waiting - 1
  BY DEF GetInput
<1>2. CASE stdin # <<>>
  <2>1. stdin' = Tail(stdin) /\ tty' = tty
    BY <1>2 DEF GetInput
  <2>2. stdin' \in Seq(Bytes) /\ Len(stdin') = Len(stdin) - 1
    BY <1>2, <2>1, OneLess DEF InputInv
  <2>3. typed # 0 /\ tty' \in Seq(Bytes) /\ remaining_bytes_waiting' \in Int
    BY <1>1, <2>1 DEF InputInv
  <2>4. ASSUME typed = 1
        PROVE  remaining_bytes_waiting' = Len(stdin') /\ tty' = <<>>
    BY <1>1, <1>2, <2>1, <2>2, <2>4 DEF InputInv
  <2> QED
    BY <1>1, <2>2, <2>3, <2>4 DEF InputInv
<1>3. CASE stdin = <<>>
  <2>1. tty # <<>> /\ stdin' = Tail(tty) /\ tty' = <<>>
    BY <1>3 DEF GetInput
  <2>2. stdin' \in Seq(Bytes) /\ Len(stdin') = Len(tty) - 1
    BY <2>1, OneLess DEF InputInv
  <2>3. typed # 0 /\ tty' \in Seq(Bytes) /\ remaining_bytes_waiting' \in Int
    BY <1>1, <2>1 DEF InputInv
  <2>4. ASSUME typed = 1
        PROVE  remaining_bytes_waiting' = Len(stdin')
    BY <1>1, <1>3, <2>1, <2>2, <2>4 DEF InputInv
  <2> QED
    BY <1>1, <2>1, <2>2, <2>3, <2>4 DEF InputInv
<1> QED
  BY <1>2, <1>3

\* What a key does after it has been read: what it changes on the screen asks
\* for a frame.
LEMMA KeyRead ==
  ASSUME NEW key, HandleKey(key)
  PROVE  /\ main' \in {"frame", "own"}
         /\ updated' = TRUE \/ UNCHANGED <<updated, show>>
<1>1. CASE key = "y"
  <2>1. Toggle("players")
    BY <1>1, Zenon DEF HandleKey, Movement, ItemUsage
  <2> QED
    BY <2>1, Zenon DEF Toggle
<1>2. CASE key = "x"
  <2>1. Toggle("statistics")
    BY <1>2, Zenon DEF HandleKey, Movement, ItemUsage
  <2> QED
    BY <2>1, Zenon DEF Toggle
<1>3. CASE key \in Movement \cup ItemUsage
  <2>1. key # "y" /\ key # "x"
    BY <1>3, Zenon DEF Movement, ItemUsage
  <2>2. KeepOrSend(key)
    BY <1>3, <2>1, Zenon DEF HandleKey
  <2> QED
    BY <2>2, Zenon DEF KeepOrSend
<1>4. CASE key \notin {"y", "x"} \cup Movement \cup ItemUsage
  <2>1. main' = "frame" /\ UNCHANGED <<updated, show>>
    BY <1>4, Zenon DEF HandleKey
  <2> QED
    BY <2>1
<1> QED
  BY <1>1, <1>2, <1>3, <1>4

LEMMA MainInput ==
  ASSUME InputInv, MainNext
  PROVE  InputInv'
<1>1. CASE Poll
  <2>1. HasInput("key", "old") /\ main = "poll"
    BY <1>1 DEF Poll, Reads
  <2> QED
    BY <2>1, HasInputInput DEF Reading
<1>2. CASE Escape
  <2>1. HasInput("bracket", "frame") /\ main = "escape"
    BY <1>2 DEF Escape, Reads
  <2> QED
    BY <2>1, HasInputInput DEF Reading
<1>3. CASE Bracketed
  <2>1. HasInput("letter", "frame") /\ main = "bracketed"
    BY <1>3 DEF Bracketed, Reads
  <2> QED
    BY <2>1, HasInputInput DEF Reading
<1>4. CASE ReadKey
  <2>1. PICK byte \in Bytes :
          /\ GetInput(byte)
          /\ IF byte = "ESC" THEN main' = "escape" ELSE HandleKey(byte)
    BY <1>4, Zenon DEF ReadKey
  <2>2. main \in Reading /\ main' \notin Reading
    BY <1>4, <2>1, KeyRead DEF ReadKey, Reads, Reading
  <2> QED
    BY <2>1, <2>2, GetInputInput
<1>5. CASE ReadBracket
  <2>1. PICK byte \in Bytes :
          /\ GetInput(byte)
          /\ main' = IF byte = "[" THEN "bracketed" ELSE "frame"
    BY <1>5, Zenon DEF ReadBracket
  <2>2. main \in Reading /\ main' \notin Reading
    BY <1>5, <2>1 DEF ReadBracket, Reads, Reading
  <2> QED
    BY <2>1, <2>2, GetInputInput
<1>6. CASE ReadLetter
  <2>1. PICK byte \in Bytes :
          GetInput(byte) /\ HandleKey(IF byte = "A" THEN "i" ELSE "other")
    BY <1>6, Zenon DEF ReadLetter
  <2>2. main \in Reading /\ main' \notin Reading
    BY <1>6, <2>1, KeyRead DEF ReadLetter, Reads, Reading
  <2> QED
    BY <2>1, <2>2, GetInputInput
<1>7. CASE HandleOldKey \/ HandleOwnChange \/ DecideFrame \/ ClearFlags
             \/ CopyWorld \/ Draw \/ Leave
  <2>1. UNCHANGED inputVars /\ main \notin Reading /\ main' \notin Reading
    <3>1. CASE HandleOldKey
      BY <3>1 DEF HandleOldKey, Reads, Reading
    <3>2. CASE HandleOwnChange
      BY <3>2 DEF HandleOwnChange, Reads, Reading
    <3>3. CASE DecideFrame \/ ClearFlags
      BY <3>3 DEF DecideFrame, ClearFlags, Draws, Reading
    <3>4. CASE CopyWorld \/ Draw \/ Leave
      BY <3>4 DEF CopyWorld, Draw, Leave, Draws, Reading
    <3> QED
      BY <1>7, <3>1, <3>2, <3>3, <3>4
  <2> QED
    BY <2>1 DEF InputInv, inputVars
<1> QED
  BY <1>1, <1>2, <1>3, <1>4, <1>5, <1>6, <1>7 DEF MainNext

LEMMA StepInput ==
  ASSUME InputInv, [ClientNext]_clientVars
  PROVE  InputInv'
<1>1. CASE MainNext
  BY <1>1, MainInput
<1>2. CASE \E key \in Keys : Type(key)
  BY <1>2, TypeInput
<1>3. CASE UNCHANGED <<main, inputVars>>
  BY <1>3 DEF InputInv, inputVars
<1>4. ASSUME ServerNext
      PROVE  UNCHANGED <<main, inputVars>>
  BY <1>4, Zenon DEF ServerNext, ServerConnects, ServerHandlesPayload,
       Broadcast, OtherJoins, OtherLeaves, OtherMoves, WorldMoves, OthersAct,
       ServerOnly
<1>5. ASSUME HandleEvent \/ Interrupt \/ MoveElapses \/ ItemUsageElapses
               \/ DrawElapses \/ UNCHANGED clientVars
      PROVE  UNCHANGED <<main, inputVars>>
  BY <1>5, Zenon DEF HandleEvent, Interrupt, MoveElapses, ItemUsageElapses,
       DrawElapses, OnlyTime, clientVars
<1> QED
  BY <1>1, <1>2, <1>3, <1>4, <1>5 DEF ClientNext

\* The bytes of a key that was typed in one go are read to the end without
\* waiting in getchar (RealTerminal::HasInput and GetInput), whatever keys
\* there are.
THEOREM InputIsAlwaysThere == ClientSpec => []InputIsThere
<1>1. InputInv => InputIsThere
  BY DEF InputInv, InputIsThere, Reading
<1> QED
  BY <1>1, InitInput, StepInput, PTL DEF ClientSpec
-----------------------------------------------------------------------------
(* The screen. *)

\* SET_OWN_ID is the first payload to the client and is sent once.
FirstInv ==
  /\ IsSequence(inbox)
  /\ \A i \in 1 .. Len(inbox) :
       inbox[i].type = "SET_OWN_ID" => i = 1 /\ ~server_initialised
  /\ next_partner_id \in Nat \ {0} /\ 0 \notin DOMAIN server.players
  /\ "players" \in DOMAIN server
  /\ partner = 0 => inbox = <<>> /\ ~server_initialised

\* Until it arrives there is one player.
AloneInv ==
  /\ "players" \in DOMAIN world
  /\ ~server_initialised =>
       /\ own_id = LocalId /\ world.players = {LocalId}
       /\ DOMAIN player_objects = {LocalId}

\* As long as no flag asks for a frame, the world is on the screen, or about
\* to be copied, or copied and about to be drawn.
FrameInv ==
  (failure = None /\ ~world_updated /\ ~updated) =>
    /\ main # "clear"
    /\ main = "draw" => world_render_copy = world
    /\ main \notin {"copy", "draw"} =>
         screen = <<[picture |-> Picture(world), show |-> show]>>

ScreenInv == FirstInv /\ AloneInv /\ FrameInv

LEMMA InitScreen == ClientInit => ScreenInv
<1> SUFFICES ASSUME ClientInit
             PROVE  ScreenInv
  OBVIOUS
<1>1. inbox = <<>> /\ inbox \in Seq({})
  BY DEF ClientInit
<1>2. FirstInv
  <2>1. IsSequence(inbox)
    BY <1>1, Zenon DEF IsSequence
  <2>2. /\ next_partner_id \in Nat \ {0} /\ 0 \notin DOMAIN server.players
        /\ "players" \in DOMAIN server /\ ~server_initialised
    BY ClientAssumption DEF ClientInit
  <2> QED
    BY <1>1, <2>1, <2>2 DEF FirstInv
<1>3. AloneInv
  BY DEF ClientInit, AloneInv
<1>4. FrameInv
  BY DEF ClientInit, FrameInv
<1> QED
  BY <1>2, <1>3, <1>4 DEF ScreenInv

\* The rest of FirstInv is about the server's world.
LEMMA FirstAppended ==
  ASSUME FirstInv, NEW m, m.type # "SET_OWN_ID", inbox' = Append(inbox, m),
         partner' # 0, UNCHANGED server_initialised,
         next_partner_id' \in Nat \ {0}, 0 \notin DOMAIN server'.players,
         "players" \in DOMAIN server'
  PROVE  FirstInv'
<1>1. PICK S : inbox \in Seq(S)
  BY DEF FirstInv, IsSequence
<1>2. /\ inbox' \in Seq(S \cup {m}) /\ Len(inbox') = Len(inbox) + 1
      /\ \A i \in 1 .. Len(inbox) : inbox'[i] = inbox[i]
      /\ inbox'[Len(inbox) + 1] = m /\ Len(inbox) \in Nat
  BY <1>1, OneMore
<1>3. IsSequence(inbox')
  BY <1>2, Zenon DEF IsSequence
<1>4. \A i \in 1 .. Len(inbox') :
        (i \in 1 .. Len(inbox) /\ inbox'[i] = inbox[i]) \/ inbox'[i] = m
  BY <1>2
<1> QED
  BY <1>3, <1>4 DEF FirstInv

LEMMA FirstRest ==
  ASSUME FirstInv, UNCHANGED <<inbox, partner, server_initialised>>,
         next_partner_id' \in {next_partner_id, next_partner_id + 1},
         DOMAIN server'.players \subseteq
           DOMAIN server.players \cup {next_partner_id},
         "players" \in DOMAIN server'
  PROVE  FirstInv'
BY DEF FirstInv

LEMMA ServerFirst ==
  ASSUME FirstInv, ServerNext
  PROVE  FirstInv'
<1> USE DEF FirstInv, ServerOnly, copyVars
<1>1. CASE ServerConnects
  <2>1. /\ partner = 0 /\ inbox = <<>> /\ UNCHANGED server_initialised
        /\ partner' = next_partner_id /\ next_partner_id' = next_partner_id + 1
    BY <1>1 DEF ServerConnects
  <2>2. CASE Cardinality(DOMAIN server.players) >= MaxPlayers
    <3>1. inbox' = Append(inbox, Disconnect) /\ server' = server
      BY <1>1, <2>2 DEF ServerConnects
    <3>2. Disconnect.type # "SET_OWN_ID"
      BY DEF Disconnect
    <3>3. /\ partner' # 0 /\ next_partner_id' \in Nat \ {0}
          /\ 0 \notin DOMAIN server'.players /\ "players" \in DOMAIN server'
      BY <2>1, <3>1
    <3> QED
      BY <2>1, <3>1, <3>2, <3>3, FirstAppended
  <2>3. CASE ~(Cardinality(DOMAIN server.players) >= MaxPlayers)
    <3>1. PICK p : server' = [server EXCEPT !.players =
                                AddPlayer(server.players, next_partner_id, p)]
      BY <1>1, <2>3, Zenon DEF ServerConnects
    <3>2. /\ DOMAIN server'.players = DOMAIN server.players \cup {next_partner_id}
          /\ "players" \in DOMAIN server'
      BY <3>1 DEF AddPlayer
    <3> DEFINE own == SetOwnId(partner')
               new == SetWorld(server')
    <3>3. inbox' = <<own, new>>
      BY <1>1, <2>1, <2>3 DEF ServerConnects
    <3>4. new.type # "SET_OWN_ID"
      BY DEF SetWorld
    <3> HIDE DEF own, new
    <3>5. inbox' \in Seq({own, new}) /\ Len(inbox') = 2
          /\ inbox'[1] = own /\ inbox'[2] = new
      BY <3>3
    <3>6. IsSequence(inbox')
      BY <3>5, Zenon DEF IsSequence
    <3>7. \A i \in 1 .. Len(inbox') : i = 1 \/ inbox'[i] = new
      BY <3>5
    <3>8. /\ partner' # 0 /\ next_partner_id' \in Nat \ {0}
          /\ 0 \notin DOMAIN server'.players
      BY <2>1, <3>2
    <3> QED
      BY <2>1, <3>2, <3>4, <3>6, <3>7, <3>8
  <2> QED
    BY <2>2, <2>3
<1>2. CASE Broadcast
  <2>1. /\ inbox' = Append(inbox, UpdateWorld(server)) /\ partner' # 0
        /\ UNCHANGED <<server, next_partner_id, server_initialised>>
    BY <1>2 DEF Broadcast
  <2>2. UpdateWorld(server).type # "SET_OWN_ID"
    BY DEF UpdateWorld
  <2> QED
    BY <2>1, <2>2, FirstAppended
<1>3. CASE ServerHandlesPayload
  BY <1>3, FirstRest DEF ServerHandlesPayload
<1>4. CASE OtherJoins
  BY <1>4, FirstRest DEF OtherJoins, OthersAct, AddPlayer
<1>5. ASSUME NEW id \in DOMAIN server.players \ {partner},
             OtherLeaves(id) \/ OtherMoves(id)
      PROVE  FirstInv'
  BY <1>5, FirstRest DEF OtherLeaves, OtherMoves, OthersAct
<1>6. ASSUME NEW list \in ProjectileLists, WorldMoves(list)
      PROVE  FirstInv'
  BY <1>6, FirstRest DEF WorldMoves, OthersAct
<1> HIDE DEF FirstInv
<1> QED
  BY <1>1, <1>2, <1>3, <1>4, <1>5, <1>6 DEF ServerNext

\* The client's variables that the invariants of the screen speak of.
drawnVars == <<copyVars, world_updated, updated, world_render_copy, failure,
               main, show, screen>>

LEMMA DrawnAlone ==
  ASSUME AloneInv, FrameInv, UNCHANGED drawnVars
  PROVE  AloneInv' /\ FrameInv'
BY DEF AloneInv, FrameInv, Picture, drawnVars, copyVars

\* The rename of the only player is not seen: ids are not shown.
LEMMA RenameNotSeen ==
  ASSUME AloneInv, ~server_initialised, NEW m, HandleSetOwnId(m)
  PROVE  Picture(world)' = Picture(world)
<1> DEFINE object == player_objects[LocalId]
           seen(ids, objects, own) ==
             [own |-> objects[own],
              all |-> [p \in Player |-> Cardinality({id \in ids : objects[id] = p})]]
<1>1. /\ own_id = LocalId /\ world.players = {LocalId}
      /\ own_id' = m.id
      /\ player_objects' =
           Assigned([i \in {m.id} |-> player_objects[own_id]], player_objects)
      /\ world' = [world EXCEPT !.players = Renamed(world.players, m.id)]
  BY DEF AloneInv, HandleSetOwnId, ReadOwnId
<1>2. player_objects'[m.id] = object
  BY <1>1 DEF Assigned
<1>3. Renamed(world.players, m.id) = {m.id}
  BY <1>1 DEF Renamed
<1>4. world'.players = {m.id}
  BY <1>1, <1>3 DEF AloneInv
<1> HIDE DEF object
<1>5. ASSUME NEW p \in Player
      PROVE  Cardinality({id \in {m.id} : player_objects'[id] = p})
               = Cardinality({id \in {LocalId} : player_objects[id] = p})
  <2>1. CASE object = p
    <3>1. /\ {id \in {m.id} : player_objects'[id] = p} = {m.id}
          /\ {id \in {LocalId} : player_objects[id] = p} = {LocalId}
      BY <1>2, <2>1 DEF object
    <3> QED
      BY <3>1, FS_Singleton
  <2>2. CASE object # p
    <3>1. /\ {id \in {m.id} : player_objects'[id] = p} = {}
          /\ {id \in {LocalId} : player_objects[id] = p} = {}
      BY <1>2, <2>2 DEF object
    <3> QED
      BY <3>1
  <2> QED
    BY <2>1, <2>2
<1>6. seen({m.id}, player_objects', m.id) = seen({LocalId}, player_objects, LocalId)
  BY <1>2, <1>5 DEF object
<1>7. /\ Picture(world)' =
           [world' EXCEPT !.players = seen({m.id}, player_objects', m.id)]
      /\ Picture(world) =
           [world EXCEPT !.players = seen({LocalId}, player_objects, LocalId)]
  BY <1>1, <1>4 DEF Picture
<1> HIDE DEF seen
<1>8. \A a, b : [[world EXCEPT !.players = a] EXCEPT !.players = b]
                  = [world EXCEPT !.players = b]
  OBVIOUS
<1> QED
  BY <1>1, <1>3, <1>6, <1>7, <1>8
LEMMA HandleEventScreen ==
  ASSUME ScreenInv, HandleEvent
  PROVE  ScreenInv'
<1> DEFINE m == Head(inbox)
<1>1. /\ failure = None /\ inbox # <<>> /\ inbox' = Tail(inbox)
      /\ UNCHANGED <<server, next_partner_id, partner, updated, main, show,
                     screen>>
  BY DEF HandleEvent, serverVars
<1>2. PICK S : inbox \in Seq(S)
  BY DEF ScreenInv, FirstInv, IsSequence
<1>3. /\ inbox' \in Seq(S) /\ Len(inbox') = Len(inbox) - 1
      /\ \A i \in 1 .. Len(inbox) - 1 : inbox'[i] = inbox[i + 1]
      /\ m = inbox[1] /\ Len(inbox) \in Nat \ {0}
  BY <1>1, <1>2, OneLess
<1> HIDE DEF m
<1>4. FirstInv'
  <2>1. IsSequence(inbox')
    BY <1>3, Zenon DEF IsSequence
  <2>2. \A i \in 1 .. Len(inbox') :
          i + 1 \in 2 .. Len(inbox) /\ inbox'[i] = inbox[i + 1]
    BY <1>3
  <2>3. \A i \in 1 .. Len(inbox') : inbox'[i].type # "SET_OWN_ID"
    BY <2>2 DEF ScreenInv, FirstInv
  <2> QED
    BY <1>1, <2>1, <2>3 DEF ScreenInv, FirstInv
<1>5. CASE m.type = "SET_OWN_ID"
  <2>1. HandleSetOwnId(m)
    BY <1>5 DEF HandleEvent, m
  <2>2. ~server_initialised
    BY <1>3, <1>5 DEF ScreenInv, FirstInv
  <2>3. /\ server_initialised' /\ UNCHANGED <<world_updated, failure>>
        /\ world' = [world EXCEPT !.players = Renamed(world.players, m.id)]
        /\ world_render_copy' = [world_render_copy EXCEPT !.players =
                                   Renamed(world_render_copy.players, m.id)]
    BY <2>1 DEF HandleSetOwnId, ReadOwnId
  <2>4. Picture(world)' = Picture(world)
    BY <2>1, <2>2, RenameNotSeen DEF ScreenInv
  <2>5. AloneInv'
    BY <2>3 DEF ScreenInv, AloneInv
  <2>6. FrameInv'
    <3>1. world_render_copy = world => world_render_copy' = world'
      BY <2>3
    <3> QED
      BY <1>1, <2>3, <2>4, <3>1 DEF ScreenInv, FrameInv
  <2> QED
    BY <1>4, <2>5, <2>6 DEF ScreenInv
<1>6. CASE m.type \in {"SET_WORLD", "UPDATE_WORLD"}
  <2>1. PICK walls : Apply(m.world, walls)
    BY <1>6 DEF HandleEvent, m
  <2>2. UNCHANGED <<own_id, server_initialised, world_render_copy>>
    BY <1>6 DEF HandleEvent, m
  <2>3. CASE server_initialised
    <3>1. world_updated' = TRUE
          /\ world' = UpdateWithoutWalls([world EXCEPT !.walls = walls], m.world)
      BY <2>1, <2>3 DEF Apply
    <3>2. "players" \in DOMAIN world'
      BY <3>1 DEF UpdateWithoutWalls, ScreenInv, AloneInv
    <3> QED
      BY <1>4, <2>2, <2>3, <3>1, <3>2 DEF ScreenInv, AloneInv, FrameInv
  <2>4. CASE ~server_initialised
    <3>1. UNCHANGED drawnVars
      BY <1>1, <2>1, <2>2, <2>4 DEF Apply, drawnVars, copyVars
    <3> QED
      BY <1>4, <3>1, DrawnAlone DEF ScreenInv
  <2> QED
    BY <2>3, <2>4
<1>7. CASE m.type = "DISCONNECT"
  <2>1. failure' = "refused" /\ UNCHANGED <<copyVars, world_render_copy>>
    BY <1>7 DEF HandleEvent, m
  <2>2. AloneInv' /\ FrameInv'
    BY <2>1 DEF ScreenInv, AloneInv, FrameInv, copyVars, None
  <2> QED
    BY <1>4, <2>2 DEF ScreenInv
<1>8. m.type \in {"SET_OWN_ID", "SET_WORLD", "UPDATE_WORLD", "DISCONNECT"}
  BY DEF HandleEvent, m
<1> QED
  BY <1>5, <1>6, <1>7, <1>8

\* The steps of the main thread that draw.
Drawing == {"clear", "copy", "draw"}

LEMMA ReadsScreen ==
  ASSUME FrameInv, UNCHANGED <<copyVars, world_updated, failure, screen>>,
         main \notin Drawing, main' \notin Drawing,
         updated' = TRUE \/ UNCHANGED <<updated, show>>
  PROVE  FrameInv'
BY DEF FrameInv, Picture, copyVars, Drawing

LEMMA MainFrame ==
  ASSUME FrameInv, MainNext
  PROVE  FrameInv'
<1>1. ASSUME Poll \/ Escape \/ ReadBracket \/ Bracketed \/ HandleOldKey
               \/ HandleOwnChange
      PROVE  FrameInv'
  <2>1. UNCHANGED <<copyVars, world_updated, failure, screen, updated, show>>
    BY <1>1, Zenon DEF Poll, Escape, ReadBracket, Bracketed, HandleOldKey,
                       HandleOwnChange, Reads, OnlyRead
  <2>2. main \notin Drawing
    BY <1>1, Zenon DEF Poll, Escape, ReadBracket, Bracketed, HandleOldKey,
                       HandleOwnChange, Reads, Drawing
  <2>3. main' \in {"key", "old", "bracket", "frame", "bracketed", "letter", "own"}
    <3>1. CASE Poll \/ Escape \/ Bracketed
      BY <3>1 DEF Poll, Escape, Bracketed, HasInput
    <3>2. CASE ReadBracket \/ HandleOldKey \/ HandleOwnChange
      BY <3>2 DEF ReadBracket, HandleOldKey, HandleOwnChange
    <3> QED
      BY <1>1, <3>1, <3>2
  <2>4. main' \notin Drawing
    BY <2>3 DEF Drawing
  <2> QED
    BY <2>1, <2>2, <2>4, ReadsScreen
<1>2. ASSUME ReadKey \/ ReadLetter
      PROVE  FrameInv'
  <2>1. UNCHANGED <<copyVars, world_updated, failure, screen>>
    BY <1>2, Zenon DEF ReadKey, ReadLetter, Reads
  <2>2. main \notin Drawing
    BY <1>2, Zenon DEF ReadKey, ReadLetter, Reads, Drawing
  <2>3. \/ \E key : HandleKey(key)
        \/ main' = "escape" /\ UNCHANGED <<updated, show>>
    BY <1>2, Zenon DEF ReadKey, ReadLetter
  <2>4. /\ main' \in {"frame", "own", "escape"}
        /\ updated' = TRUE \/ UNCHANGED <<updated, show>>
    BY <2>3, KeyRead
  <2>5. main' \notin Drawing
    BY <2>4 DEF Drawing
  <2> QED
    BY <2>1, <2>2, <2>4, <2>5, ReadsScreen
<1>3. CASE DecideFrame
  BY <1>3 DEF DecideFrame, Draws, FrameNeeded, FrameInv, Picture, copyVars
<1>4. CASE ClearFlags
  BY <1>4 DEF ClearFlags, Draws, FrameInv
<1>5. CASE CopyWorld
  BY <1>5 DEF CopyWorld, Draws, FrameInv, Picture, copyVars
<1>6. CASE Draw
  BY <1>6 DEF Draw, Draws, FrameInv, Picture, copyVars
<1>7. CASE Leave
  BY <1>7 DEF Leave, FrameInv, Picture, copyVars
<1> QED
  BY <1>1, <1>2, <1>3, <1>4, <1>5, <1>6, <1>7 DEF MainNext

LEMMA StepScreen ==
  ASSUME ScreenInv, [ClientNext]_clientVars
  PROVE  ScreenInv'
<1>1. CASE ServerNext
  <2>1. UNCHANGED drawnVars
    BY <1>1, Zenon DEF ServerNext, ServerConnects, ServerHandlesPayload,
         Broadcast, OtherJoins, OtherLeaves, OtherMoves, WorldMoves, OthersAct,
         ServerOnly, drawnVars
  <2> QED
    BY <1>1, <2>1, ServerFirst, DrawnAlone DEF ScreenInv
<1>2. CASE HandleEvent
  BY <1>2, HandleEventScreen
<1>3. CASE MainNext \/ Interrupt \/ MoveElapses \/ ItemUsageElapses \/ DrawElapses
             \/ (\E key \in Keys : Type(key)) \/ UNCHANGED clientVars
  <2>1. Kept /\ UNCHANGED copyVars
    BY <1>3, MainKept, Zenon DEF MainNext, Poll, ReadKey, Escape, ReadBracket,
         Bracketed, ReadLetter, HandleOldKey, HandleOwnChange, Reads,
         DecideFrame, ClearFlags, CopyWorld, Draw, Draws, Leave, Interrupt,
         MoveElapses, ItemUsageElapses, DrawElapses, OnlyTime, Type,
         clientVars, serverVars, copyVars, Kept
  <2>2. FirstInv' /\ AloneInv'
    BY <2>1 DEF Kept, ScreenInv, FirstInv, AloneInv, copyVars
  <2>3. CASE MainNext
    BY <2>2, <2>3, MainFrame DEF ScreenInv
  <2>4. CASE ~MainNext
    <3>1. UNCHANGED drawnVars
      BY <1>3, <2>4, Zenon DEF Interrupt, MoveElapses, ItemUsageElapses,
           DrawElapses, OnlyTime, Type, clientVars, drawnVars
    <3> QED
      BY <2>2, <3>1, DrawnAlone DEF ScreenInv
  <2> QED
    BY <2>3, <2>4
<1> QED
  BY <1>1, <1>2, <1>3 DEF ClientNext

\* Between two frames the screen shows the world as it is, or a flag asks for
\* the next one, whatever arrives between any two steps of RunMainThread and
\* whatever is typed.
THEOREM ScreenAlwaysShowsWorld == ClientSpec => []ScreenShowsWorld
<1>1. ScreenInv => ScreenShowsWorld
  BY DEF ScreenInv, FrameInv, ScreenShowsWorld
<1> QED
  BY <1>1, InitScreen, StepScreen, PTL DEF ClientSpec
-----------------------------------------------------------------------------
(* The projectiles on the way. *)

\* AddProjectile takes none of the list for another: the first before it on
\* its field, if there is one, flies in another direction.
KeptApart(list) ==
  \A i \in 1 .. Len(list) : \A j \in 1 .. i - 1 :
    /\ list[j].position = list[i].position
    /\ \A k \in 1 .. j - 1 : list[k].position # list[i].position
    => list[j].direction # list[i].direction

LEMMA ProjectileAdded ==
  ASSUME NEW S, NEW list \in Seq(S), NEW p
  PROVE  /\ AddProjectile(list, p) \in {list, Append(list, p)}
         /\ \/ AddProjectile(list, p) = Append(list, p)
            \/ \E j \in 1 .. Len(list) :
                 /\ list[j].position = p.position
                 /\ \A k \in 1 .. j - 1 : list[k].position # p.position
                 /\ list[j].direction = p.direction
<1> DEFINE I == {i \in 1 .. Len(list) : list[i].position = p.position}
           first == IF I # {} THEN Min(I) ELSE 0
<1>1. AddProjectile(list, p) =
        IF first # 0 /\ list[first].direction = p.direction THEN list
        ELSE Append(list, p)
  BY Zenon DEF AddProjectile, SelectInSeq
<1>2. CASE I = {}
  BY <1>1, <1>2
<1>3. CASE I # {}
  <2>1. Min(I) \in I /\ \A y \in I : Min(I) <= y
    <3>1. Len(list) \in Nat /\ I \in SUBSET (1 .. Len(list))
      OBVIOUS
    <3> HIDE DEF I
    <3> QED
      BY <1>3, <3>1, MinOf
  <2>2. /\ Min(I) \in 1 .. Len(list) /\ list[Min(I)].position = p.position
        /\ \A k \in 1 .. Min(I) - 1 : list[k].position # p.position
    <3>1. ASSUME NEW k \in 1 .. Min(I) - 1
          PROVE  list[k].position # p.position
      <4>1. k \in 1 .. Len(list) /\ ~(Min(I) <= k)
        BY <2>1
      <4>2. k \notin I
        BY <2>1, <4>1
      <4> QED
        BY <4>1, <4>2
    <3> QED
      BY <2>1, <3>1
  <2>3. first = Min(I)
    BY <1>3
  <2> HIDE DEF I, first
  <2> QED
    BY <1>1, <2>2, <2>3
<1> QED
  BY <1>2, <1>3

\* DeserializeUpdate adds one projectile after the other.
LEMMA AddedOneByOne ==
  ASSUME NEW S, NEW list \in Seq(S)
  PROVE  \E g :
           /\ g[{}] = <<>>
           /\ \A k \in 1 .. Len(list) :
                g[1 .. k] = AddProjectile(g[1 .. k - 1], list[k])
           /\ FoldLeft(AddProjectile, <<>>, list) = g[1 .. Len(list)]
<1> DEFINE n == Len(list)
           Step(g, s) == IF s = {} THEN <<>>
                         ELSE AddProjectile(g[s \ {Max(s)}], list[Max(s)])
           F == [x \in (1 .. n) \X Seq(S) |-> AddProjectile(x[2], list[x[1]])]
           iter == CHOOSE g : g = [s \in SUBSET (1 .. n) |-> Step(g, s)]
<1>1. FoldLeft(AddProjectile, <<>>, list) = iter[1 .. n]
  <2>1. DOMAIN list = 1 .. n
    OBVIOUS
  <2>2. FoldLeft(AddProjectile, <<>>, list) =
          LET it == CHOOSE g : g = [s \in SUBSET DOMAIN list |-> Step(g, s)]
          IN it[DOMAIN list]
    BY DEF FoldLeft, MapThenFoldSet
  <2> QED
    BY <2>1, <2>2, Zenon
<1>2. n \in Nat /\ <<>> \in Seq(S)
  OBVIOUS
<1>3. F \in [(1 .. n) \X Seq(S) -> Seq(S)]
  <2>1. ASSUME NEW q \in Seq(S), NEW p \in S
        PROVE  AddProjectile(q, p) \in Seq(S)
    <3>1. Append(q, p) \in Seq(S)
      OBVIOUS
    <3> QED
      BY <3>1, ProjectileAdded
  <2>2. \A x \in (1 .. n) \X Seq(S) : x[2] \in Seq(S) /\ list[x[1]] \in S
    OBVIOUS
  <2> QED
    BY <2>1, <2>2
<1>4. \E g : IsFold(g, n, Seq(S), <<>>, F)
  <2> HIDE DEF F, n
  <2> QED
    BY <1>2, <1>3, FoldExists
<1>5. PICK g \in [SUBSET (1 .. n) -> Seq(S)] : \A s \in SUBSET (1 .. n) :
        g[s] = IF s = {} THEN <<>> ELSE F[<<Max(s), g[s \ {Max(s)}]>>]
  BY <1>4, Zenon DEF IsFold
<1>6. ASSUME NEW s \in SUBSET (1 .. n)
      PROVE  g[s] = Step(g, s)
  <2>1. CASE s = {}
    BY <1>5, <2>1
  <2>2. CASE s # {}
    <3>1. Max(s) \in 1 .. n
      BY <1>2, <2>2, MaxOf
    <3>2. <<Max(s), g[s \ {Max(s)}]>> \in (1 .. n) \X Seq(S)
      BY <1>5, <3>1
    <3> QED
      BY <1>5, <2>2, <3>2
  <2> QED
    BY <2>1, <2>2
<1>7. g = [s \in SUBSET (1 .. n) |-> Step(g, s)]
  <2> HIDE DEF Step
  <2> QED
    BY <1>5, <1>6
<1>8. iter = [s \in SUBSET (1 .. n) |-> Step(iter, s)]
  <2> HIDE DEF Step
  <2> QED
    BY <1>7, Zenon
<1> HIDE DEF iter
<1>9. \A s \in SUBSET (1 .. n) : iter[s] = Step(iter, s)
  <2> HIDE DEF Step
  <2> QED
    BY <1>8
<1>10. iter[{}] = <<>>
  BY <1>9
<1>11. ASSUME NEW k \in 1 .. n
       PROVE  iter[1 .. k] = AddProjectile(iter[1 .. k - 1], list[k])
  <2>1. /\ k \in Nat /\ k \in 1 .. k
        /\ 1 .. k \in SUBSET (1 .. n) /\ 1 .. k \in SUBSET (1 .. k)
        /\ 1 .. k # {} /\ (1 .. k) \ {k} = 1 .. k - 1
    BY <1>2
  <2>2. Max(1 .. k) \in 1 .. k /\ k <= Max(1 .. k)
    BY <2>1, MaxOf
  <2>3. Max(1 .. k) = k
    BY <2>2
  <2> QED
    BY <1>9, <2>1, <2>3
<1> QED
  BY <1>1, <1>10, <1>11, Zenon

\* A list whose projectiles are kept apart arrives as it was sent.
LEMMA ListArrives ==
  ASSUME NEW S, NEW list \in Seq(S), KeptApart(list)
  PROVE  FoldLeft(AddProjectile, <<>>, list) = list
<1>1. PICK g : /\ g[{}] = <<>>
               /\ \A k \in 1 .. Len(list) :
                    g[1 .. k] = AddProjectile(g[1 .. k - 1], list[k])
               /\ FoldLeft(AddProjectile, <<>>, list) = g[1 .. Len(list)]
  BY AddedOneByOne, Zenon
<1> DEFINE P(k) == k <= Len(list) => g[1 .. k] = SubSeq(list, 1, k)
           K == {k \in Nat : P(k)}
<1>2. P(0)
  <2>1. 1 .. 0 = {} /\ SubSeq(list, 1, 0) = <<>>
    OBVIOUS
  <2> QED
    BY <1>1, <2>1
<1>3. ASSUME NEW k \in Nat, P(k)
      PROVE  P(k + 1)
  <2>1. SUFFICES ASSUME k + 1 <= Len(list)
                 PROVE  g[1 .. k + 1] = SubSeq(list, 1, k + 1)
    OBVIOUS
  <2> DEFINE before == SubSeq(list, 1, k)
             p == list[k + 1]
  <2>2. k + 1 \in 1 .. Len(list) /\ k + 1 - 1 = k /\ k <= Len(list)
    BY <2>1
  <2>3. g[1 .. k + 1] = AddProjectile(before, p)
    <3>1. g[1 .. k + 1] = AddProjectile(g[1 .. k + 1 - 1], list[k + 1])
      BY <1>1, <2>2
    <3>2. g[1 .. k] = before
      BY <1>3, <2>2
    <3> QED
      BY <2>2, <3>1, <3>2, Zenon
  <2>4. /\ before \in Seq(S) /\ Len(before) = k
        /\ \A j \in 1 .. k : before[j] = list[j]
    BY <2>2
  <2>5. SubSeq(list, 1, k + 1) = Append(before, p)
    BY <2>2
  <2> HIDE DEF before, p
  <2>6. ASSUME NEW j \in 1 .. k, before[j].position = p.position,
               \A i \in 1 .. j - 1 : before[i].position # p.position
        PROVE  before[j].direction # p.direction
    <3>1. j \in 1 .. (k + 1) - 1 /\ \A i \in 1 .. j - 1 : i \in 1 .. k
      OBVIOUS
    <3>2. /\ list[j].position = list[k + 1].position
          /\ \A i \in 1 .. j - 1 : list[i].position # list[k + 1].position
      BY <2>4, <2>6, <3>1 DEF p
    <3> QED
      BY <2>2, <2>4, <3>1, <3>2 DEF KeptApart, p
  <2>7. AddProjectile(before, p) = Append(before, p)
    BY <2>4, <2>6, ProjectileAdded
  <2> QED
    BY <2>3, <2>5, <2>7
<1> HIDE DEF P
<1>4. K = Nat
  <2>1. /\ K \subseteq Nat /\ 0 \in K
        /\ \A k \in K : k + 1 \in K
    BY <1>2, <1>3
  <2> QED
    BY <2>1, SetInduction
<1>5. P(Len(list))
  BY <1>4
<1>6. g[1 .. Len(list)] = SubSeq(list, 1, Len(list))
  BY <1>5 DEF P
<1> QED
  BY <1>1, <1>6

-----------------------------------------------------------------------------
(* The client's copy of the world. *)

IsFcn(f) == f = [x \in DOMAIN f |-> f[x]]

\* The worlds have their fields, and the server's lists are such that arrive.
ShapeInv ==
  /\ DOMAIN server = {"players", "items", "projectiles"} /\ IsFcn(server)
  /\ IsFcn(server.players)
  /\ DOMAIN world = {"players", "walls", "items", "projectiles"} /\ IsFcn(world)
  /\ server.projectiles \in ProjectileLists \cup {<<>>}

\* What the client has of a world that was sent.
HasCopy(w) ==
  /\ [id \in world.players |-> player_objects[id]] = w.players
  /\ world.items = w.items /\ world.projectiles = w.projectiles

IsWorld(m) == m.type \in {"SET_WORLD", "UPDATE_WORLD"}

\* As long as the server's world stays as it was sent, it is the last of the
\* payloads on the way, or it has been applied.
CatchInv ==
  (partner \in DOMAIN server.players /\ ~dirty) =>
    /\ inbox = <<>> => HasCopy(Transmitted(server))
    /\ inbox # <<>> => /\ IsWorld(inbox[Len(inbox)])
                       /\ inbox[Len(inbox)].world = Transmitted(server)

\* The walls come with SET_WORLD, which follows SET_OWN_ID.
WallsInv ==
  /\ \A i \in 1 .. Len(inbox) :
       inbox[i].type = "SET_WORLD" => inbox[i].walls = Walls
  /\ partner \in DOMAIN server.players =>
       /\ server_initialised =>
            \/ world.walls = Walls
            \/ inbox # <<>> /\ inbox[1].type = "SET_WORLD"
       /\ ~server_initialised =>
            Len(inbox) >= 2 /\ inbox[2].type = "SET_WORLD"

CopyInv == KeptInv /\ ShapeInv /\ CatchInv /\ WallsInv

LEMMA InitCopy == ClientInit => CopyInv
<1> SUFFICES ASSUME ClientInit
             PROVE  CopyInv
  OBVIOUS
<1>1. KeptInv
  BY InitKept
<1>2. inbox = <<>> /\ Len(inbox) = 0
  BY DEF ClientInit
<1>3. partner = 0 /\ partner \notin DOMAIN server.players
  BY DEF ClientInit
<1>4. ShapeInv
  <2>1. PICK players : /\ server = [players |-> players, items |-> 0,
                                    projectiles |-> <<>>]
                       /\ IsFcn(players)
    BY DEF ClientInit, IsFcn
  <2>2. world = [players |-> {LocalId}, walls |-> NoWalls, items |-> 0,
                 projectiles |-> <<>>]
    BY DEF ClientInit
  <2> QED
    BY <2>1, <2>2 DEF ShapeInv, IsFcn
<1>5. CatchInv /\ WallsInv
  BY <1>2, <1>3 DEF CatchInv, WallsInv
<1> QED
  BY <1>1, <1>4, <1>5 DEF CopyInv

\* Steps that leave the server, its payloads and the client's copy alone.
LEMMA CopyAlone ==
  ASSUME CopyInv, KeptInv', UNCHANGED <<server, partner, dirty, inbox, copyVars>>
  PROVE  CopyInv'
BY DEF CopyInv, ShapeInv, CatchInv, WallsInv, HasCopy, Transmitted, IsFcn,
       IsWorld, copyVars

\* Steps after which the server's world is not the one that was sent last.
LEMMA CopyDirty ==
  ASSUME CopyInv, KeptInv', UNCHANGED <<partner, inbox, copyVars>>, ShapeInv',
         dirty' \/ partner \notin DOMAIN server'.players,
         partner \in DOMAIN server'.players => partner \in DOMAIN server.players
  PROVE  CopyInv'
<1>1. CatchInv'
  BY DEF CatchInv
<1>2. WallsInv'
  BY DEF CopyInv, WallsInv, copyVars
<1> QED
  BY <1>1, <1>2 DEF CopyInv

\* The server's world keeps its fields.
LEMMA PlayersShape ==
  ASSUME ShapeInv, NEW p, IsFcn(p), server' = [server EXCEPT !.players = p],
         UNCHANGED copyVars
  PROVE  ShapeInv' /\ server'.players = p
<1>1. /\ DOMAIN server' = DOMAIN server /\ server'.players = p
      /\ server'.projectiles = server.projectiles /\ IsFcn(server')
  BY DEF ShapeInv, IsFcn
<1> QED
  BY <1>1 DEF ShapeInv, copyVars

LEMMA ServerConnectsCopy ==
  ASSUME CopyInv, KeptInv', ServerConnects
  PROVE  CopyInv'
<1>1. /\ partner = 0 /\ inbox = <<>> /\ ~server_initialised
      /\ partner' = next_partner_id /\ UNCHANGED copyVars
      /\ next_partner_id \notin DOMAIN server.players
  BY DEF CopyInv, KeptInv, IdsInv, ServerConnects, ServerOnly
<1>2. CASE Cardinality(DOMAIN server.players) >= MaxPlayers
  <2>1. /\ inbox' = <<Disconnect>> /\ UNCHANGED <<server, dirty>>
        /\ partner' \notin DOMAIN server'.players
    BY <1>1, <1>2 DEF ServerConnects
  <2>2. \A i \in 1 .. Len(inbox') : inbox'[i].type = "DISCONNECT"
    BY <2>1 DEF Disconnect
  <2>3. ShapeInv'
    BY <1>1, <2>1 DEF CopyInv, ShapeInv, copyVars
  <2> QED
    BY <2>1, <2>2, <2>3 DEF CopyInv, CatchInv, WallsInv
<1>3. CASE ~(Cardinality(DOMAIN server.players) >= MaxPlayers)
  <2>1. PICK p : server' = [server EXCEPT !.players =
                              AddPlayer(server.players, next_partner_id, p)]
    BY <1>3, Zenon DEF ServerConnects
  <2>2. IsFcn(AddPlayer(server.players, next_partner_id, p))
    BY DEF AddPlayer, IsFcn
  <2>3. ShapeInv'
    BY <1>1, <2>1, <2>2, PlayersShape DEF CopyInv
  <2> DEFINE own == SetOwnId(partner')
             new == SetWorld(server')
  <2>4. inbox' = <<own, new>> /\ dirty'
    BY <1>1, <1>3 DEF ServerConnects
  <2>5. own.type = "SET_OWN_ID" /\ new.type = "SET_WORLD" /\ new.walls = Walls
    BY DEF SetOwnId, SetWorld
  <2> HIDE DEF own, new
  <2>6. /\ Len(inbox') = 2 /\ inbox'[2] = new
        /\ \A i \in 1 .. Len(inbox') : inbox'[i] = own \/ inbox'[i] = new
    BY <2>4
  <2>7. WallsInv'
    BY <1>1, <2>5, <2>6 DEF WallsInv, copyVars
  <2>8. CatchInv'
    BY <2>4 DEF CatchInv
  <2> QED
    BY <2>3, <2>7, <2>8 DEF CopyInv
<1> QED
  BY <1>2, <1>3

LEMMA BroadcastCopy ==
  ASSUME CopyInv, KeptInv', Broadcast
  PROVE  CopyInv'
<1> DEFINE m == UpdateWorld(server)
<1>1. /\ inbox' = Append(inbox, m) /\ partner \in DOMAIN server.players
      /\ UNCHANGED <<server, partner, copyVars>>
  BY DEF Broadcast, ServerOnly
<1>2. m.type = "UPDATE_WORLD" /\ m.world = Transmitted(server)
  BY DEF UpdateWorld
<1> HIDE DEF m
<1>3. PICK S : inbox \in Seq(S)
  BY DEF CopyInv, KeptInv, InboxInv, IsSequence
<1>4. /\ Len(inbox') = Len(inbox) + 1
      /\ \A i \in 1 .. Len(inbox) : inbox'[i] = inbox[i]
      /\ inbox'[Len(inbox) + 1] = m /\ Len(inbox) \in Nat
      /\ inbox' # <<>> /\ (inbox # <<>> => Len(inbox) >= 1)
  BY <1>1, <1>3, OneMore
<1>5. ShapeInv'
  BY <1>1 DEF CopyInv, ShapeInv, copyVars
<1>6. CatchInv'
  <2>1. inbox'[Len(inbox')] = m
    BY <1>4
  <2>2. Transmitted(server)' = Transmitted(server)
    BY <1>1 DEF Transmitted
  <2> QED
    BY <1>2, <1>4, <2>1, <2>2 DEF CatchInv, IsWorld
<1>7. WallsInv'
  <2>1. \A i \in 1 .. Len(inbox') :
          (i \in 1 .. Len(inbox) /\ inbox'[i] = inbox[i]) \/ inbox'[i] = m
    BY <1>4
  <2>2. \A i \in 1 .. Len(inbox') :
          inbox'[i].type = "SET_WORLD" => inbox'[i].walls = Walls
    BY <1>2, <2>1 DEF CopyInv, WallsInv
  <2>3. ASSUME server_initialised'
        PROVE  \/ world'.walls = Walls
               \/ inbox' # <<>> /\ inbox'[1].type = "SET_WORLD"
    BY <1>1, <1>4, <2>3 DEF CopyInv, WallsInv, copyVars
  <2>4. ASSUME ~server_initialised'
        PROVE  Len(inbox') >= 2 /\ inbox'[2].type = "SET_WORLD"
    BY <1>1, <1>4, <2>4 DEF CopyInv, WallsInv, copyVars
  <2> QED
    BY <2>2, <2>3, <2>4 DEF WallsInv
<1> QED
  BY <1>5, <1>6, <1>7 DEF CopyInv

LEMMA ServerCopy ==
  ASSUME CopyInv, KeptInv', ServerNext
  PROVE  CopyInv'
<1>1. CASE ServerConnects
  BY <1>1, ServerConnectsCopy
<1>2. CASE Broadcast
  BY <1>2, BroadcastCopy
<1>3. CASE ServerHandlesPayload
  <2>1. UNCHANGED <<partner, inbox, copyVars>>
    BY <1>3 DEF ServerHandlesPayload, ServerOnly
  <2>2. CASE partner \notin DOMAIN server.players
    BY <1>3, <2>1, <2>2, CopyAlone DEF ServerHandlesPayload
  <2>3. CASE partner \in DOMAIN server.players
    <3> DEFINE players == server.players
    <3>1. dirty' /\ \E q : server' = [server EXCEPT !.players =
                                        [players EXCEPT ![partner] = q]]
      <4>1. CASE Head(outbox) = "SET_NAME"
        <5>1. server' = [server EXCEPT !.players =
                [players EXCEPT ![partner] = [players[partner] EXCEPT !.named = TRUE]]]
          BY <1>3, <2>3, <4>1, Zenon DEF ServerHandlesPayload
        <5> QED
          BY <1>3, <2>3, <5>1, Zenon DEF ServerHandlesPayload
      <4>2. CASE Head(outbox) # "SET_NAME"
        <5>1. server' = [server EXCEPT !.players =
                [players EXCEPT ![partner] =
                   [players[partner] EXCEPT !.place = 1 - players[partner].place]]]
          BY <1>3, <2>3, <4>2, Zenon DEF ServerHandlesPayload
        <5> QED
          BY <1>3, <2>3, <5>1, Zenon DEF ServerHandlesPayload
      <4> QED
        BY <4>1, <4>2
    <3>2. PICK q : server' = [server EXCEPT !.players =
                                [players EXCEPT ![partner] = q]]
      BY <3>1
    <3>3. IsFcn([players EXCEPT ![partner] = q])
      BY DEF IsFcn
    <3>4. ShapeInv'
      BY <2>1, <3>2, <3>3, PlayersShape DEF CopyInv
    <3> QED
      BY <2>1, <2>3, <3>1, <3>4, CopyDirty
  <2> QED
    BY <2>2, <2>3
<1>4. CASE OtherJoins
  <2> DEFINE players == AddPlayer(server.players, next_partner_id,
                                  [named |-> TRUE, place |-> 0])
  <2>1. /\ server' = [server EXCEPT !.players = players] /\ dirty'
        /\ UNCHANGED <<partner, inbox, copyVars>>
    BY <1>4, Zenon DEF OtherJoins, OthersAct, ServerOnly
  <2>2. IsFcn(players) /\ DOMAIN players = DOMAIN server.players \cup {next_partner_id}
    BY DEF AddPlayer, IsFcn
  <2>3. partner # next_partner_id
    BY DEF CopyInv, KeptInv, IdsInv
  <2> HIDE DEF players
  <2>4. ShapeInv' /\ server'.players = players
    BY <2>1, <2>2, PlayersShape DEF CopyInv
  <2> QED
    BY <2>1, <2>2, <2>3, <2>4, CopyDirty
<1>5. ASSUME NEW id \in DOMAIN server.players \ {partner},
             OtherLeaves(id) \/ OtherMoves(id)
      PROVE  CopyInv'
  <2>1. UNCHANGED <<partner, inbox, copyVars>> /\ dirty'
    BY <1>5, Zenon DEF OtherLeaves, OtherMoves, OthersAct, ServerOnly
  <2>2. \E q : /\ server' = [server EXCEPT !.players = q]
               /\ IsFcn(q) /\ DOMAIN q \subseteq DOMAIN server.players
    <3>1. CASE OtherLeaves(id)
      <4> DEFINE q == [i \in DOMAIN server.players \ {id} |-> server.players[i]]
      <4>1. server' = [server EXCEPT !.players = q]
        BY <3>1, Zenon DEF OtherLeaves, OthersAct
      <4>2. IsFcn(q) /\ DOMAIN q \subseteq DOMAIN server.players
        BY DEF IsFcn
      <4> QED
        BY <4>1, <4>2, Zenon
    <3>2. CASE OtherMoves(id)
      <4> DEFINE q == [server.players EXCEPT ![id] =
                         [server.players[id] EXCEPT !.place =
                            1 - server.players[id].place]]
      <4>1. server' = [server EXCEPT !.players = q]
        BY <3>2, Zenon DEF OtherMoves, OthersAct
      <4>2. IsFcn(q) /\ DOMAIN q \subseteq DOMAIN server.players
        BY DEF IsFcn
      <4> QED
        BY <4>1, <4>2, Zenon
    <3> QED
      BY <1>5, <3>1, <3>2
  <2>3. PICK q : /\ server' = [server EXCEPT !.players = q]
                 /\ IsFcn(q) /\ DOMAIN q \subseteq DOMAIN server.players
    BY <2>2
  <2>4. ShapeInv' /\ server'.players = q
    BY <2>1, <2>3, PlayersShape DEF CopyInv
  <2> QED
    BY <2>1, <2>3, <2>4, CopyDirty
<1>6. ASSUME NEW list \in ProjectileLists, WorldMoves(list)
      PROVE  CopyInv'
  <2>1. /\ UNCHANGED <<partner, inbox, copyVars>> /\ dirty'
        /\ server' = [server EXCEPT !.projectiles = list, !.items = 1 - @]
    BY <1>6, Zenon DEF WorldMoves, OthersAct, ServerOnly
  <2>2. /\ DOMAIN server' = DOMAIN server /\ server'.players = server.players
        /\ server'.projectiles = list /\ IsFcn(server')
    BY <2>1 DEF CopyInv, ShapeInv, IsFcn
  <2>3. ShapeInv'
    BY <2>1, <2>2 DEF CopyInv, ShapeInv, copyVars
  <2> QED
    BY <2>1, <2>2, <2>3, CopyDirty
<1> QED
  BY <1>1, <1>2, <1>3, <1>4, <1>5, <1>6 DEF ServerNext

LEMMA HandleEventCopy ==
  ASSUME CopyInv, KeptInv', HandleEvent
  PROVE  CopyInv'
<1> DEFINE m == Head(inbox)
           joined == partner \in DOMAIN server.players
<1>1. /\ inbox # <<>> /\ inbox' = Tail(inbox)
      /\ UNCHANGED <<server, partner, dirty>>
  BY DEF HandleEvent, serverVars
<1>2. PICK S : inbox \in Seq(S)
  BY DEF CopyInv, KeptInv, InboxInv, IsSequence
<1>3. /\ Len(inbox') = Len(inbox) - 1 /\ inbox' \in Seq(S)
      /\ \A i \in 1 .. Len(inbox) - 1 : inbox'[i] = inbox[i + 1]
      /\ m = inbox[1] /\ Len(inbox) \in Nat \ {0}
  BY <1>1, <1>2, OneLess
<1>4. inbox' = <<>> <=> Len(inbox) = 1
  BY <1>3
<1> HIDE DEF m
<1>5. /\ joined /\ ~server_initialised => m.type = "SET_OWN_ID"
      /\ ~joined => m.type = "DISCONNECT"
      /\ joined => m.type # "DISCONNECT"
      /\ m.type = "SET_OWN_ID" => ~server_initialised
      /\ server_initialised => joined
  BY <1>1, <1>3 DEF CopyInv, KeptInv, InboxInv, OwnInv
\* The payloads that are left.
<1>6. \A i \in 1 .. Len(inbox') :
        inbox'[i].type = "SET_WORLD" => inbox'[i].walls = Walls
  <2>1. \A i \in 1 .. Len(inbox') :
          i + 1 \in 1 .. Len(inbox) /\ inbox'[i] = inbox[i + 1]
    BY <1>3
  <2> QED
    BY <2>1 DEF CopyInv, WallsInv
<1>7. ASSUME inbox' # <<>>
      PROVE  CatchInv'
  <2>1. inbox'[Len(inbox')] = inbox[Len(inbox)]
    BY <1>3, <1>4, <1>7
  <2>2. Transmitted(server)' = Transmitted(server)
    BY <1>1 DEF Transmitted
  <2> QED
    BY <1>1, <1>7, <2>1, <2>2 DEF CopyInv, CatchInv, IsWorld
<1>8. CASE m.type = "SET_OWN_ID"
  <2>1. HandleSetOwnId(m)
    BY <1>8 DEF HandleEvent, m
  <2>2. /\ server_initialised'
        /\ world' = [world EXCEPT !.players = Renamed(world.players, m.id)]
    BY <2>1 DEF HandleSetOwnId, ReadOwnId
  <2>3. /\ DOMAIN world' = DOMAIN world /\ IsFcn(world')
        /\ world'.walls = world.walls
    BY <2>2 DEF CopyInv, ShapeInv, IsFcn
  <2>4. ShapeInv'
    BY <1>1, <2>3 DEF CopyInv, ShapeInv
  <2>5. joined /\ ~server_initialised
    BY <1>5, <1>8
  <2>6. Len(inbox) >= 2 /\ inbox[2].type = "SET_WORLD"
    BY <2>5 DEF CopyInv, WallsInv
  <2>7. inbox' # <<>> /\ inbox'[1].type = "SET_WORLD"
    BY <1>3, <1>4, <2>6
  <2>8. WallsInv'
    BY <1>6, <2>2, <2>7 DEF WallsInv
  <2> QED
    BY <1>7, <2>4, <2>7, <2>8 DEF CopyInv
<1>9. CASE IsWorld(m)
  <2> DEFINE w == m.world
             walls == IF m.type = "SET_WORLD" THEN m.walls ELSE world.walls
  <2>1. Apply(w, walls) /\ UNCHANGED server_initialised
    BY <1>9 DEF HandleEvent, m, IsWorld
  <2>2. joined /\ server_initialised
    BY <1>5, <1>9 DEF IsWorld
  <2> HIDE DEF walls
  <2>3. /\ world' = UpdateWithoutWalls([world EXCEPT !.walls = walls], w)
        /\ player_objects' = Assigned(w.players, player_objects)
    BY <2>1, <2>2 DEF Apply
  <2>4. /\ DOMAIN world' = DOMAIN world /\ IsFcn(world')
        /\ world'.players = DOMAIN w.players /\ world'.items = w.items
        /\ world'.projectiles = w.projectiles /\ world'.walls = walls
    <3>1. /\ "players" \in DOMAIN world /\ "walls" \in DOMAIN world
          /\ "items" \in DOMAIN world /\ "projectiles" \in DOMAIN world
      BY DEF CopyInv, ShapeInv
    <3> QED
      BY <2>3, <3>1 DEF UpdateWithoutWalls, IsFcn
  <2>5. ShapeInv'
    BY <1>1, <2>4 DEF CopyInv, ShapeInv
  <2>6. WallsInv'
    <3>1. walls = Walls
      BY <1>1, <1>3, <2>2 DEF walls, CopyInv, WallsInv
    <3> QED
      BY <1>6, <2>1, <2>2, <2>4, <3>1 DEF WallsInv
  <2>7. ASSUME inbox' = <<>>, ~dirty
        PROVE  HasCopy(Transmitted(server))'
    <3>1. w = Transmitted(server)
      BY <1>1, <1>3, <1>4, <2>2, <2>7 DEF CopyInv, CatchInv
    <3>2. IsFcn(w.players)
      BY <3>1 DEF CopyInv, ShapeInv, Transmitted
    <3>3. \A id \in DOMAIN w.players : player_objects'[id] = w.players[id]
      BY <2>3 DEF Assigned
    <3>4. [id \in world'.players |-> player_objects'[id]] = w.players
      BY <2>4, <3>2, <3>3 DEF IsFcn
    <3>5. Transmitted(server)' = w
      BY <1>1, <3>1 DEF Transmitted
    <3> QED
      BY <2>4, <3>4, <3>5 DEF HasCopy
  <2>8. CatchInv'
    BY <1>1, <1>7, <2>7 DEF CatchInv
  <2> QED
    BY <2>5, <2>6, <2>8 DEF CopyInv
<1>10. CASE m.type = "DISCONNECT"
  <2>1. UNCHANGED copyVars /\ ~joined
    BY <1>5, <1>10 DEF HandleEvent, m
  <2>2. ShapeInv' /\ CatchInv'
    BY <1>1, <2>1 DEF CopyInv, ShapeInv, CatchInv, copyVars
  <2>3. WallsInv'
    BY <1>1, <1>6, <2>1 DEF WallsInv
  <2> QED
    BY <2>2, <2>3 DEF CopyInv
<1>11. m.type \in {"SET_OWN_ID", "SET_WORLD", "UPDATE_WORLD", "DISCONNECT"}
  BY DEF HandleEvent, m
<1> QED
  BY <1>8, <1>9, <1>10, <1>11 DEF IsWorld

LEMMA StepCopy ==
  ASSUME CopyInv, [ClientNext]_clientVars, MaxId < IdModulus
  PROVE  CopyInv'
<1>1. KeptInv'
  BY StepKept DEF CopyInv
<1>2. CASE ServerNext
  BY <1>1, <1>2, ServerCopy
<1>3. CASE HandleEvent
  BY <1>1, <1>3, HandleEventCopy
<1>4. CASE MainNext \/ Interrupt \/ MoveElapses \/ ItemUsageElapses \/ DrawElapses
             \/ (\E key \in Keys : Type(key)) \/ UNCHANGED clientVars
  <2>1. UNCHANGED <<serverVars, copyVars, inbox>>
    BY <1>4, Zenon DEF MainNext, Poll, ReadKey, Escape, ReadBracket,
         Bracketed, ReadLetter, HandleOldKey, HandleOwnChange, Reads,
         DecideFrame, ClearFlags, CopyWorld, Draw, Draws, Leave, Interrupt,
         MoveElapses, ItemUsageElapses, DrawElapses, OnlyTime, Type, clientVars
  <2> QED
    BY <1>1, <2>1, CopyAlone DEF serverVars
<1> QED
  BY <1>2, <1>3, <1>4 DEF ClientNext

\* When all payloads are applied and the server has sent what it has, the
\* client's world is what World::Serialize and World::DeserializeUpdate make
\* of the server's: its players with what they are, its items, its
\* projectiles as they are added one by one, and the walls.
CopyIsSent ==
  (server_initialised /\ inbox = <<>> /\ ~dirty) =>
    HasCopy(Transmitted(server)) /\ world.walls = Walls

THEOREM CopyIsAlwaysSent ==
  ASSUME MaxId < IdModulus
  PROVE  ClientSpec => []CopyIsSent
<1>1. ClientInit => CopyInv
  BY InitCopy
<1>2. CopyInv /\ [ClientNext]_clientVars => CopyInv'
  BY StepCopy
<1>3. CopyInv => CopyIsSent
  BY DEF CopyInv, KeptInv, OwnInv, CatchInv, WallsInv, CopyIsSent
<1> QED
  BY <1>1, <1>2, <1>3, PTL DEF ClientSpec

\* The client's world becomes the server's, walls, players and all
\* (World::UpdateWithoutWalls removes who has left), as long as ids fit their
\* byte and no two projectiles of a list are taken for one.
THEOREM CopyAlwaysCatchesUp ==
  ASSUME MaxId < IdModulus,
         \A list \in ProjectileLists : IsSequence(list) /\ KeptApart(list)
  PROVE  ClientSpec => []CopyCatchesUp
<1>1. ClientInit => CopyInv
  BY InitCopy
<1>2. CopyInv /\ [ClientNext]_clientVars => CopyInv'
  BY StepCopy
<1>3. CopyInv => CopyCatchesUp
  <2> SUFFICES ASSUME CopyInv, server_initialised, inbox = <<>>, ~dirty
               PROVE  CopyCatchesUp
    BY DEF CopyCatchesUp
  <2> DEFINE w == Transmitted(server)
  <2>1. HasCopy(w) /\ world.walls = Walls
    BY DEF CopyInv, KeptInv, OwnInv, CatchInv, WallsInv
  <2>2. FoldLeft(AddProjectile, <<>>, server.projectiles) = server.projectiles
    <3>1. IsSequence(server.projectiles) /\ KeptApart(server.projectiles)
      <4>1. IsSequence(<<>>) /\ KeptApart(<<>>)
        <5>1. <<>> \in Seq({})
          OBVIOUS
        <5>2. IsSequence(<<>>)
          BY <5>1, Zenon DEF IsSequence
        <5> QED
          BY <5>2 DEF KeptApart
      <4> QED
        BY <4>1 DEF CopyInv, ShapeInv
    <3> QED
      BY <3>1, ListArrives, Zenon DEF IsSequence
  <2>3. /\ w.players = server.players /\ w.items = server.items
        /\ w.projectiles = server.projectiles
    BY <2>2 DEF Transmitted
  <2> HIDE DEF w
  <2>4. [id \in world.players |-> player_objects[id]] = server.players
    BY <2>1, <2>3 DEF HasCopy
  <2>5. world.players = DOMAIN server.players
    BY <2>4
  <2>6. world.items = server.items /\ world.projectiles = server.projectiles
    BY <2>1, <2>3 DEF HasCopy
  <2>7. world = [players |-> DOMAIN server.players, walls |-> Walls,
                 items |-> server.items, projectiles |-> server.projectiles]
    BY <2>1, <2>5, <2>6 DEF CopyInv, ShapeInv, IsFcn
  <2> QED
    BY <2>4, <2>7 DEF CopyCatchesUp
<1> QED
  BY <1>1, <1>2, <1>3, PTL DEF ClientSpec
=============================================================================
