---------------------------- MODULE ReliableLink ----------------------------
(***************************************************************************)
(* What the connection layer promises its owners ("provide TCP services:   *)
(* send and receive messages"): a full-duplex link on which every message  *)
(* handed to one side is returned to the other side's owner exactly once   *)
(* and in order, after the link has been established by both, and on which *)
(* a side that has closed is told nothing any more.  Connection implements *)
(* it over streams that damage frames.                                     *)
(*                                                                         *)
(* The n-th message of a side is the number n.                             *)
(***************************************************************************)
EXTENDS Integers, Sequences

CONSTANTS Ends,          \* the two ends of the link
          Opposite(_)    \* the other end

VARIABLES open,          \* the ends whose owner may use the link
          sent,          \* messages taken from each end's owner
          delivered      \* messages returned to each end's owner

linkVars == <<open, sent, delivered>>

Init == /\ open = {}
        /\ sent = [e \in Ends |-> 0]
        /\ delivered = [e \in Ends |-> <<>>]

\* An end is opened, once.
Open(e) == /\ e \notin open
           /\ open' = open \cup {e}
           /\ UNCHANGED <<sent, delivered>>

\* The owner of an open end hands over its next message.
Send(e) == /\ e \in open
           /\ sent' = [sent EXCEPT ![e] = @ + 1]
           /\ UNCHANGED <<open, delivered>>

\* The owner of an end is returned the oldest message not returned yet.
Deliver(e) == /\ open = Ends
              /\ Len(delivered[e]) < sent[Opposite(e)]
              /\ delivered' = [delivered EXCEPT ![e] = Append(@, Len(@) + 1)]
              /\ UNCHANGED <<open, sent>>

Next == \E e \in Ends : Open(e) \/ Send(e) \/ Deliver(e)

Spec == Init /\ [][Next]_linkVars

\* Both ends open, and nothing that was sent stays on the way for ever.
FairSpec == Spec /\ \A e \in Ends : WF_linkVars(Open(e)) /\ WF_linkVars(Deliver(e))
=============================================================================
