---------------------------- MODULE MCConnection ----------------------------
(***************************************************************************)
(* Connection for TLC, and the link it implements.                         *)
(***************************************************************************)
EXTENDS Connection

\* An end of the link is open once its connection has been READY.
Established == {s \in Sides : state[s] \in OpenStates \cup {"CLOSED"}}

Link == INSTANCE ReliableLink WITH
          Ends <- Sides, Opposite <- Peer, open <- Established

\* A connection is a reliable link: its steps are steps of the link or leave
\* the link unchanged (exactly once, in order, only between established ends).
ImplementsLink == Link!Spec

\* ... and, when both sides keep running and frames stop being damaged, it is
\* a link that is established and loses nothing.
ImplementsFairLink == Link!FairSpec
=============================================================================
