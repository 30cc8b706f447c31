------------------------------ MODULE Sessions ------------------------------
(***************************************************************************)
(* One client's session with the server: the owners of the two             *)
(* ConnectionManagers, GameClient (constructor, Run, the communication     *)
(* thread, HandleEvent, HandleOwnChange) and GameServer (RunIteration,     *)
(* HandleEvent), as far as they use them.  What the payloads say is left   *)
(* out.                                                                    *)
(*                                                                         *)
(* The client's two threads share the manager under communication_mutex:   *)
(* the main thread sends a change only between two HandleConnections of    *)
(* the communication thread, before or after that thread's HandleEvent.    *)
(***************************************************************************)
EXTENDS ConnectionManager

CONSTANTS
  Greeting,   \* messages each owner sends first: 2
  Traffic,    \* messages a side may have sent when its owner sends another
  MayExit,    \* whether the client's player may leave (StartExit)
  MayRefuse,  \* whether the server may have max_player_count players
  MayTick,    \* whether the intervals of the managers may pass
  Killable    \* the sides whose process may be killed

ASSUME SessionAssumption ==
  /\ Kinds = {"PAYLOAD", "KEEP_ALIVE", "CONNECTION_RESET"}
  /\ Greeting \in Nat /\ Traffic \in Nat
  /\ MayExit \in BOOLEAN /\ MayRefuse \in BOOLEAN /\ MayTick \in BOOLEAN
  /\ Killable \subseteq Sides

VARIABLES
  player,   \* the client has a Player in the server's world
  exiting,  \* the client has called CloseConnectionWithServer
  refused   \* the server has called CloseConnection

ownerVars == <<player, exiting, refused>>
allVars == <<connectionVars, managerVars, ownerVars>>

SessionInit ==
  /\ Init /\ InitManagers
  /\ player = FALSE /\ exiting = FALSE /\ refused = FALSE

-----------------------------------------------------------------------------
(* BlockingEstablish: GameClient's constructor and the server's            *)
(* HandleConnections wait in it.                                           *)
Establish(s) ==
  /\ phase[s] = "establish" /\ state[s] # "READY"
  /\ ClientSendsRequest(s) \/ HandshakeResend(s) \/ HandshakeTimeout(s)
       \/ TryReceive(s) \/ Return(s)
  /\ UNCHANGED <<managerVars, ownerVars>>

\* The client sends its name and its colour, the server the client's id and
\* the world.
Greet(s) ==
  /\ Alive(s) /\ phase[s] = "greet"
  /\ \/ /\ sent[s] < Greeting
        /\ SendMessageToConnection(s, "PAYLOAD")
        /\ UNCHANGED phase
     \/ /\ sent[s] >= Greeting
        /\ EnterPhase(s, IF s = "client" THEN "owner" ELSE "events")
        /\ UNCHANGED connectionVars
  /\ UNCHANGED <<connection_map, timestamp_last_received,
                 connection_remove_list, event_queue, ownerVars>>

-----------------------------------------------------------------------------
(* GameClient. *)

\* HandleOwnChange, in the main thread.
ClientSendsChange ==
  /\ Alive("client") /\ phase["client"] \in {"owner", "events"} /\ ~exiting
  /\ sent["client"] < Traffic
  /\ SendMessageToConnection("client", "PAYLOAD")
  /\ UNCHANGED <<managerVars, ownerVars>>

\* One event per iteration; DISCONNECT ends the process.  After
\* CloseConnectionWithServer no event is popped: Run only waits until the
\* manager has no connection.
ClientHandlesEvent ==
  /\ Alive("client") /\ phase["client"] = "events"
  /\ \/ /\ ~exiting /\ event_queue["client"] # <<>>
        /\ event_queue' = [event_queue EXCEPT !["client"] = Tail(@)]
        /\ EnterPhase("client", IF Head(event_queue["client"]) = "DISCONNECT"
                                THEN "done" ELSE "owner")
     \/ /\ exiting \/ event_queue["client"] = <<>>
        /\ EnterPhase("client", IF exiting /\ ~Managed("client")
                                THEN "done" ELSE "owner")
        /\ UNCHANGED event_queue
  /\ UNCHANGED <<connectionVars, connection_map, timestamp_last_received,
                 connection_remove_list, ownerVars>>

\* keep_running is false and both threads are joined.
ClientExits ==
  /\ MayExit /\ Alive("client") /\ phase["client"] = "owner" /\ ~exiting
  /\ exiting' = TRUE
  /\ SendMessageToConnection("client", "CONNECTION_RESET")
  /\ UNCHANGED <<managerVars, player, refused>>

-----------------------------------------------------------------------------
(* GameServer. *)

ServerConnectEvent ==
  /\ Head(event_queue["server"]) = "CONNECT"
  /\ \/ /\ MayRefuse
        /\ refused' = TRUE
        /\ SendMessageToConnection("server", "CONNECTION_RESET")
        /\ UNCHANGED <<player, phase>>
     \/ /\ player' = TRUE
        /\ EnterPhase("server", "greet")
        /\ UNCHANGED <<connectionVars, refused>>

ServerDisconnectEvent ==
  /\ Head(event_queue["server"]) = "DISCONNECT"
  /\ player' = FALSE
  /\ UNCHANGED <<connectionVars, phase, refused>>

\* A change of a client without a player is ignored; other changes are the
\* game's.
ServerPayloadEvent ==
  /\ Head(event_queue["server"]) = "PAYLOAD"
  /\ UNCHANGED <<connectionVars, phase, player, refused>>

\* Mutant: one event per iteration, as in the client.
ServerHandlesOneEvent ==
  /\ Alive("server") /\ phase["server"] = "events"
  /\ EnterPhase("server", "owner")
  /\ event_queue' =
       [event_queue EXCEPT !["server"] = IF @ = <<>> THEN @ ELSE Tail(@)]
  /\ player' = IF event_queue["server"] = <<>> THEN player
               ELSE CASE Head(event_queue["server"]) = "CONNECT" -> TRUE
                      [] Head(event_queue["server"]) = "DISCONNECT" -> FALSE
                      [] OTHER -> player
  /\ UNCHANGED <<connectionVars, connection_map, timestamp_last_received,
                 connection_remove_list, exiting, refused>>

\* Every event there is, before the iteration goes on.
ServerHandlesEvents ==
  /\ Alive("server") /\ phase["server"] = "events"
  /\ \/ /\ event_queue["server"] # <<>>
        /\ event_queue' = [event_queue EXCEPT !["server"] = Tail(@)]
        /\ \/ ServerConnectEvent
           \/ ServerDisconnectEvent
           \/ ServerPayloadEvent
     \/ /\ event_queue["server"] = <<>>
        /\ EnterPhase("server", "owner")
        /\ UNCHANGED <<connectionVars, event_queue, player, refused>>
  /\ UNCHANGED <<connection_map, timestamp_last_received,
                 connection_remove_list, exiting>>

\* Every send_world_interval: the statistics of every player's connection,
\* then Broadcast to the usable connections.
ServerSendsWorld ==
  /\ Alive("server") /\ phase["server"] = "owner"
  /\ \/ player /\ ~Managed("server") /\ Fail("server", "UnknownPartnerException")
     \/ /\ Managed("server")
        /\ state["server"] \in {"READY", "WAITING_FOR_ACKNOWLEDGE"}
        /\ sent["server"] < Traffic
        /\ SendOnConnection("server", "PAYLOAD")
  /\ UNCHANGED <<managerVars, ownerVars>>

-----------------------------------------------------------------------------
(* The environment. *)

\* A frame on an established connection is damaged (handshakes with damage
\* are Connection's).
Damage(s) ==
  /\ Managed(s) /\ DamageFrame(s)
  /\ UNCHANGED <<managerVars, ownerVars>>

TimePasses(s) ==
  /\ MayTick /\ Tick(s)
  /\ UNCHANGED ownerVars

Kill(s) ==
  /\ s \in Killable /\ Managed(s) /\ Alive(s) /\ phase[s] # "done"
  /\ Fail(s, "Killed")
  /\ UNCHANGED <<managerVars, ownerVars>>

-----------------------------------------------------------------------------
\* connection->ReceiveMessage returns, or BlockingEstablish's receive does.
ReceiveReturns(s) ==
  \/ (MessageReturned(s) \/ NoMessageReturned(s)) /\ UNCHANGED ownerVars
  \/ phase[s] = "establish" /\ state[s] # "READY" /\ Return(s)
     /\ UNCHANGED <<managerVars, ownerVars>>

\* The steps of a manager.
ManagerStep(s) ==
  /\ AddConnection(s) \/ ReceivingMessage(s) \/ MessageReturned(s)
       \/ NoMessageReturned(s) \/ CheckConnection(s) \/ RemoveConnections(s)
  /\ UNCHANGED ownerVars

ClientLoop ==
  \/ ClientHandles /\ UNCHANGED ownerVars
  \/ ClientHandlesEvent

ServerLoop ==
  \/ (ServerStarts \/ ServerHandles) /\ UNCHANGED ownerVars
  \/ ServerHandlesEvents

\* What a side does on its own, whatever its owner wishes.
Loop(s) ==
  \/ Establish(s) \/ Greet(s) \/ ManagerStep(s)
  \/ s = "client" /\ ClientLoop
  \/ s = "server" /\ ServerLoop

SessionNext ==
  \/ \E s \in Sides :
       Loop(s) \/ Damage(s) \/ TimePasses(s) \/ Kill(s)
  \/ ClientSendsChange
  \/ ClientExits
  \/ ServerSendsWorld

SessionSpec == SessionInit /\ [][SessionNext]_allVars

\* Both processes keep running their loops and read what has arrived;
\* ReceiveAll, much faster than the resend timers, ends; and time passes.
SessionFairness ==
  \A s \in Sides :
    /\ WF_allVars(Loop(s))
    /\ WF_allVars(TryReceive(s) /\ Establish(s))
    /\ SF_allVars(ReceiveReturns(s))
    /\ SF_allVars(TimePasses(s))

FairSessionSpec == SessionSpec /\ SessionFairness

-----------------------------------------------------------------------------
(* Properties. *)

\* Every variable of the connections, the managers and the owners keeps its
\* type.
SessionTypeOK ==
  /\ TypeOK
  /\ connection_map \subseteq Sides
  /\ timestamp_last_received \in [Sides -> Age]
  /\ connection_remove_list \in [Sides -> Nat]
  /\ event_queue \in [Sides -> Seq(EventType)]
  /\ phase \in [Sides -> Phases]
  /\ player \in BOOLEAN /\ exiting \in BOOLEAN /\ refused \in BOOLEAN

\* No half-open connection: once a side's CONNECTION_RESET is acknowledged,
\* the other side has removed the connection or is about to, and everything
\* the owner sent has been returned to it.  Only KEEP_ALIVEs that were queued
\* behind the reset are never sent.
ClosedOnBothSides ==
  \A s \in Sides :
    state[s] = "CLOSED" =>
      /\ Peer(s) \notin connection_map \/ connection_remove_list[Peer(s)] > 0
      /\ delivered[Peer(s)] =
           [n \in 1 .. sent[s] - Len(send_message_queue[s]) |-> n]
      /\ \A k \in 1 .. Len(send_message_queue[s]) :
           send_message_queue[s][k].type = "KEEP_ALIVE"

\* A connection disappears from a map only for a reason: one of the owners
\* has closed it, or nothing has arrived for the whole timeout.  Damaged
\* frames, resends and keep-alives never cost a connection.
DisconnectHasReason ==
  \A s \in Sides :
    phase[s] # "establish" /\ ~Managed(s) =>
      exiting \/ refused \/ timestamp_last_received[s] = "late"

\* When the server sends the world, every player has a connection (or
\* GetStatisticsFromPartnerConnection throws) and every connection a player,
\* unless it was refused.
PlayersHaveConnections ==
  phase["server"] = "owner" /\ Alive("server") =>
    /\ player => Managed("server")
    /\ Managed("server") => player \/ refused

\* The client's Run returns after the player has left, unless the process has
\* ended otherwise: killed, or by the assertion in Connection::SendMessage that
\* a KEEP_ALIVE fails while the CONNECTION_RESET is unacknowledged.
ClientTerminates ==
  exiting ~> phase["client"] = "done" \/ exception["client"] # "none"

\* However a client's process ends, the server forgets it, unless the server
\* has ended itself (SessionLeavesEarly).
ServerForgetsClient ==
  phase["client"] = "done" \/ exception["client"] # "none"
    ~> ~Managed("server") /\ (player => exception["server"] # "none")

\* close_connection.md: "the connection is removed from their connection
\* list" when it is closed.  One ReceiveMessages lists a partner twice, and the
\* second RemoveConnection throws, only if both sides have closed: the peer's
\* CONNECTION_RESET and the acknowledge of the own one arrive together.
RemovedOnce ==
  \A s \in Sides :
    connection_remove_list[s] <= 1 \/ (exiting /\ refused)

\* A client that leaves before it was "fully connected" (GameServer.cpp on
\* DISCONNECT) does not end the server.
ServerKnowsPartners == exception["server"] # "UnknownPartnerException"
=============================================================================
