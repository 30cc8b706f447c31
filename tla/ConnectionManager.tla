-------------------------- MODULE ConnectionManager --------------------------
(***************************************************************************)
(* The ConnectionManagers of one client and of the server                  *)
(* (connection/ConnectionManager.cpp, ClientSideConnectionManager.cpp,     *)
(* ServerSideConnectionManager.cpp) on top of the two Connections between  *)
(* them.  This module has the managers' state and operations; Sessions has *)
(* the owners that call them, the initial state and the next-state         *)
(* relation.                                                               *)
(*                                                                         *)
(* A manager runs ReceiveMessages in a loop: it takes every message its    *)
(* connection returns, turns payloads into events, sends a KEEP_ALIVE when *)
(* nothing has arrived for keep_alive_interval, and removes the connection *)
(* on a received CONNECTION_RESET, on its own acknowledged one, and when   *)
(* nothing has arrived for timeout.  The server's map holds the one        *)
(* connection to this client: entries of other clients share nothing with  *)
(* it but the thread.                                                      *)
(*                                                                         *)
(* Left out: payload contents and the statistics.  Of time, only which of  *)
(* the two intervals has passed since the last message arrived.            *)
(***************************************************************************)
EXTENDS Connection

VARIABLES
  connection_map,           \* the sides that hold their end in their map
  timestamp_last_received,  \* how long ago a message arrived
  connection_remove_list,   \* removals ReceiveMessages has listed so far
  event_queue,              \* events not handled yet
  phase                     \* where the owner's loop is

connectionVars == vars
managerVars == <<connection_map, timestamp_last_received,
                 connection_remove_list, event_queue, phase>>

\* Since the last message: less than keep_alive_interval, less than timeout
\* but not less than keep_alive_interval, or not less than timeout.
Age == {"fresh", "quiet", "late"}

EventType == {"CONNECT", "PAYLOAD", "DISCONNECT"}

Phases == {"establish",   \* BlockingEstablish
           "greet",       \* the owner's first messages
           "owner",       \* between two iterations of the loop
           "receive",     \* ReceiveMessages, in its do-while
           "check",       \* ... after it: closed, timeout, keep-alive
           "remove",      \* ... removing what is listed
           "handle",      \* the server's loop over Handle
           "events",      \* the owner handles events
           "done"}        \* the owner's process has ended

Managed(s) == s \in connection_map

EnterPhase(s, next) == phase' = [phase EXCEPT ![s] = next]

\* An exception or a failed assertion, which nothing catches.
Fail(s, what) ==
  /\ exception' = [exception EXCEPT ![s] = what]
  /\ UNCHANGED <<state, sequence_counter, last_send_sequence,
                 last_received_sequence_counter, unacknowledged_sent_message,
                 send_message_queue, receive_message_queue, stream, pc, sent,
                 delivered, errors>>

-----------------------------------------------------------------------------
(* AddConnection, RemoveConnection, SendMessageToConnection.               *)

InitManagers ==
  /\ connection_map = {}
  /\ timestamp_last_received = [s \in Sides |-> "fresh"]
  /\ connection_remove_list = [s \in Sides |-> 0]
  /\ event_queue = [s \in Sides |-> <<>>]
  /\ phase = [s \in Sides |-> "establish"]

AddConnection(s) ==
  /\ Alive(s) /\ phase[s] = "establish" /\ state[s] = "READY"
  /\ connection_map' = connection_map \cup {s}
  /\ timestamp_last_received' = [timestamp_last_received EXCEPT ![s] = "fresh"]
  /\ event_queue' = [event_queue EXCEPT ![s] = Append(@, "CONNECT")]
  /\ EnterPhase(s, IF s = "client" THEN "greet" ELSE "receive")
  /\ UNCHANGED <<connectionVars, connection_remove_list>>

\* connection->SendMessage: nothing when CLOSED, an assertion when the
\* connection waits for the acknowledge of its CONNECTION_RESET.
SendOnConnection(s, type) ==
  \/ /\ state[s] = "CLOSED"
     /\ UNCHANGED connectionVars
  \/ /\ state[s] \notin {"CLOSED", "READY", "WAITING_FOR_ACKNOWLEDGE"}
     /\ Fail(s, "AssertionFailed")
  \/ \E elapsed \in BOOLEAN : SendMessage(s, type, elapsed)

\* SendMessageToConnection; SendDataToConnection and CloseConnection are this
\* with a PAYLOAD and with a CONNECTION_RESET.
SendMessageToConnection(s, type) ==
  \/ Managed(s) /\ SendOnConnection(s, type)
  \/ ~Managed(s) /\ Fail(s, "UnknownPartnerException")

-----------------------------------------------------------------------------
(* ReceiveMessages: "now" is read once, before the loop.                   *)

\* A step inside connection->ReceiveMessage.
ReceivingMessage(s) ==
  /\ phase[s] = "receive" /\ Managed(s)
  /\ TryReceive(s)
  /\ UNCHANGED managerVars

\* Mutant: every message becomes an event (no default case).
EventsOfAll(type) == <<type>>

\* The event a returned message becomes, if any.
EventsOf(type) == IF type = "PAYLOAD" THEN <<"PAYLOAD">> ELSE <<>>

\* Mutant: the case PAYLOAD falls through to the next.
RemovalsOfFallThrough(type) ==
  IF type \in {"PAYLOAD", "CONNECTION_RESET"} THEN 1 ELSE 0

\* Mutant: a received CONNECTION_RESET is acknowledged and ignored.
RemovalsOfNothing(type) == 0

\* The removal a returned message asks for, if any.
RemovalsOf(type) == IF type = "CONNECTION_RESET" THEN 1 ELSE 0

\* connection->ReceiveMessage returns a message.
MessageReturned(s) ==
  /\ phase[s] = "receive" /\ Managed(s)
  /\ ReceiveAcknowledge(s) \/ ReceiveOther(s)
  /\ timestamp_last_received' = [timestamp_last_received EXCEPT ![s] = "fresh"]
  /\ event_queue' =
       [event_queue EXCEPT ![s] = @ \o EventsOf(Received(s).type)]
  /\ connection_remove_list' =
       [connection_remove_list EXCEPT ![s] = @ + RemovalsOf(Received(s).type)]
  /\ UNCHANGED <<connection_map, phase>>

\* connection->ReceiveMessage returns nullptr, or the map is empty.
NoMessageReturned(s) ==
  /\ Alive(s) /\ phase[s] = "receive"
  /\ Managed(s) /\ state[s] # "CLOSED" =>
       ReceivedAll(s) /\ receive_message_queue[s] = <<>>
  /\ pc' = [pc EXCEPT ![s] = "idle"]
  /\ EnterPhase(s, "check")
  /\ UNCHANGED <<state, sequence_counter, last_send_sequence,
                 last_received_sequence_counter, unacknowledged_sent_message,
                 send_message_queue, receive_message_queue, stream, exception,
                 sent, delivered, errors, connection_map,
                 timestamp_last_received, connection_remove_list, event_queue>>

\* keep_alive_interval has passed, but not timeout.
KeepAliveDue(s) == timestamp_last_received[s] = "quiet"

\* Mutant: an acknowledged CONNECTION_RESET is not noticed.
ListedOnlyLate(s) == IF timestamp_last_received[s] = "late" THEN 1 ELSE 0

\* Mutant: a connection is removed when the keep-alive is due.
ListedQuiet(s) ==
  (IF state[s] = "CLOSED" THEN 1 ELSE 0)
    + (IF timestamp_last_received[s] # "fresh" THEN 1 ELSE 0)

\* Mutant: the timeout is not checked.
ListedOnlyClosed(s) == IF state[s] = "CLOSED" THEN 1 ELSE 0

\* What the checks after the do-while list for removal.
Listed(s) ==
  (IF state[s] = "CLOSED" THEN 1 ELSE 0)
    + (IF timestamp_last_received[s] = "late" THEN 1 ELSE 0)

\* The bound on KEEP_ALIVEs: one SendMessage call is kept for the owner's
\* CONNECTION_RESET; further KEEP_ALIVEs would queue behind those sent.
KeepAliveBound(s) == sent[s] >= MaxSent - 1

CheckConnection(s) ==
  /\ Alive(s) /\ phase[s] = "check"
  /\ EnterPhase(s, "remove")
  /\ connection_remove_list' =
       [connection_remove_list EXCEPT
          ![s] = @ + IF Managed(s) THEN Listed(s) ELSE 0]
  /\ \/ /\ Managed(s) /\ KeepAliveDue(s)
        /\ ~KeepAliveBound(s) \/ state[s] \notin {"READY",
                                                 "WAITING_FOR_ACKNOWLEDGE"}
        /\ SendOnConnection(s, "KEEP_ALIVE")
     \/ /\ Managed(s) => \/ ~KeepAliveDue(s)
                         \/ /\ KeepAliveBound(s)
                            /\ state[s] \in {"READY",
                                            "WAITING_FOR_ACKNOWLEDGE"}
        /\ UNCHANGED connectionVars
  /\ UNCHANGED <<connection_map, timestamp_last_received, event_queue>>

\* After ReceiveMessages the server handles its connections, the client has
\* done so before.
AfterReceiveMessages(s) == IF s = "client" THEN "events" ELSE "handle"

\* The loop over connection_remove_list: RemoveConnection finds the partner
\* once; listed twice, the second call throws.
RemoveConnections(s) ==
  /\ Alive(s) /\ phase[s] = "remove"
  /\ connection_remove_list' = [connection_remove_list EXCEPT ![s] = 0]
  /\ \/ /\ connection_remove_list[s] = 0
        /\ UNCHANGED <<connection_map, event_queue, connectionVars>>
     \/ /\ connection_remove_list[s] > 0
        /\ connection_map' = connection_map \ {s}
        /\ event_queue' = [event_queue EXCEPT ![s] = Append(@, "DISCONNECT")]
        /\ \/ connection_remove_list[s] = 1 /\ UNCHANGED connectionVars
           \/ /\ connection_remove_list[s] > 1
              /\ Fail(s, "UnknownPartnerException")
  /\ EnterPhase(s, AfterReceiveMessages(s))
  /\ UNCHANGED timestamp_last_received

-----------------------------------------------------------------------------
(* HandleConnections.                                                      *)

\* One Handle for every connection in the map.
HandleAll(s) ==
  \/ Managed(s) /\ \E elapsed \in BOOLEAN : Handle(s, elapsed)
  \/ ~Managed(s) /\ UNCHANGED connectionVars

\* The client: Handle, then ReceiveMessages.
ClientHandles ==
  /\ Alive("client") /\ phase["client"] = "owner"
  /\ HandleAll("client")
  /\ EnterPhase("client", "receive")
  /\ UNCHANGED <<connection_map, timestamp_last_received,
                 connection_remove_list, event_queue>>

\* The server: ReceiveMessages, then Handle.
ServerStarts ==
  /\ Alive("server") /\ phase["server"] = "owner"
  /\ EnterPhase("server", "receive")
  /\ UNCHANGED <<connectionVars, connection_map, timestamp_last_received,
                 connection_remove_list, event_queue>>

ServerHandles ==
  /\ Alive("server") /\ phase["server"] = "handle"
  /\ HandleAll("server")
  /\ EnterPhase("server", "events")
  /\ UNCHANGED <<connection_map, timestamp_last_received,
                 connection_remove_list, event_queue>>

\* Time passes without a message.
Tick(s) ==
  /\ Alive(s) /\ Managed(s)
  /\ phase[s] \in {"greet", "owner", "handle", "events"}
  /\ timestamp_last_received[s] # "late"
  /\ timestamp_last_received' =
       [timestamp_last_received EXCEPT
          ![s] = IF @ = "fresh" THEN "quiet" ELSE "late"]
  /\ UNCHANGED <<connectionVars, connection_map, connection_remove_list,
                 event_queue, phase>>
=============================================================================
