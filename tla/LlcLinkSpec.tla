----------------------------- MODULE LlcLinkSpec -----------------------------
(***************************************************************************)
(* What a basic link promises in one direction (llc.h: "LLC entity -       *)
(* stop-and-wait per endpoint"): SDUs are numbered in the order they are   *)
(* sent, at most one is outstanding, the receiver accepts every SDU        *)
(* exactly once and in order, and the sender takes an SDU for acknowledged *)
(* only when the receiver has accepted it.                                 *)
(***************************************************************************)
EXTENDS Naturals, Sequences

CONSTANT Ids   \* the links

VARIABLES
  sent,      \* [id] -> number of SDUs handed to the link
  accepted,  \* [id] -> the SDUs the receiver took, in order
  acked      \* [id] -> number of SDUs the sender knows to be accepted

linkVars == <<sent, accepted, acked>>

Init ==
  /\ sent = [id \in Ids |-> 0]
  /\ accepted = [id \in Ids |-> <<>>]
  /\ acked = [id \in Ids |-> 0]

Send(id) ==
  /\ acked[id] = sent[id]
  /\ sent' = [sent EXCEPT ![id] = @ + 1]
  /\ UNCHANGED <<accepted, acked>>

Accept(id) ==
  /\ Len(accepted[id]) < sent[id]
  /\ accepted' = [accepted EXCEPT ![id] = Append(@, Len(@) + 1)]
  /\ UNCHANGED <<sent, acked>>

Acknowledge(id) ==
  /\ acked[id] < Len(accepted[id])
  /\ acked' = [acked EXCEPT ![id] = @ + 1]
  /\ UNCHANGED <<sent, accepted>>

(* What a step may do to link id, whatever it does to the others.          *)
LinkStep(id) ==
  \/ Send(id) \/ Accept(id) \/ Acknowledge(id)
  \/ UNCHANGED <<sent[id], accepted[id], acked[id]>>

Next == \E id \in Ids : Send(id) \/ Accept(id) \/ Acknowledge(id)

Spec == Init /\ [][Next]_linkVars
=============================================================================
