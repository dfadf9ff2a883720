--------------------------------- MODULE Llc ---------------------------------
(***************************************************************************)
(* The LLC entity, sw/llc/llc.c: a table of endpoints, each running a      *)
(* modulo-2 stop-and-wait link in both directions, between the MAC below   *)
(* (TmaSap, High bucket of the bus) and the MLE above (TleSap, Normal      *)
(* bucket).  Every handler runs to completion inside one bus dispatch or   *)
(* one call of the main loop, so a handler is one action; what interleaves *)
(* is the radio, the mobile stations and the consumers of the two buckets. *)
(*                                                                         *)
(* The mobile stations and the radio are external: a mobile station is a   *)
(* stop-and-wait peer that repeats its SDU and, at any time, its last      *)
(* acknowledgement; the radio is FIFO per endpoint and loses or corrupts   *)
(* frames.  SDU bodies are the numbers 1, 2, ... in the order their sender *)
(* handed them over; 0 is the body of a frame that carries no numbered SDU. *)
(***************************************************************************)
EXTENDS Integers, Sequences

CONSTANTS
  Ids,        \* endpoint ids the MAC reports
  NoId,       \* the id field of an endpoint never allocated
  MaxEp,      \* LLC_MAX_ENDPOINTS
  DownCap,    \* queue_cap_per_prio of the High bucket
  UpCap,      \* queue_cap_per_prio of the Normal bucket
  PeerKinds,  \* the <<type, fcs>> pairs of a mobile station's data frames
  OtherTypes, \* the types of frames outside the link a mobile station may send
  TleTypes,   \* pdu types that upper layers hand to on_tle_msg_from_mle
  MaxUp,      \* bound: SDUs a mobile station sends
  MaxDown,    \* bound: SDUs handed to the LLC per endpoint
  AirCap      \* bound: frames on the radio per endpoint and direction

Slot == 1 .. MaxEp

ASSUME NoIdAssumption == NoId \notin Ids
ASSUME MaxEpAssumption == MaxEp \in Nat \ {0}
ASSUME BucketAssumption == DownCap \in Nat \ {0} /\ UpCap \in Nat \ {0}
ASSUME BoundAssumption == MaxUp \in Nat /\ MaxDown \in Nat /\ AirCap \in Nat

(* LlcPduType.  "RSVD" is any 4-bit value llc_pdu_type_is_valid rejects.    *)
DataTypes == {"DATA", "ADATA"}
LlcPduType == DataTypes \cup {"UDATA", "ACK", "SETUP", "RSVD"}

ASSUME PeerAssumption ==
  /\ PeerKinds \subseteq DataTypes \X {"none", "ok"}
  /\ OtherTypes \subseteq {"UDATA", "SETUP", "RSVD"}
ASSUME TleAssumption == TleTypes \subseteq LlcPduType

(* fcs: no FCS field, a matching one, or one the radio damaged.             *)
LlcPdu == [type : LlcPduType, ns : {0, 1}, nr : {0, 1},
           fcs : {"none", "ok", "bad"}, body : Nat]

Pdu(type, ns, nr, fcs, body) ==
  [type |-> type, ns |-> ns, nr |-> nr, fcs |-> fcs, body |-> body]

VARIABLES
  endpoints,  \* llc->endpoints
  down,       \* TmaUnitdataReqs in the High bucket
  up,         \* number of TleSapMsgs in the Normal bucket
  accepted,   \* history: SDUs of id taken as in-sequence
  given,      \* history: number of SDUs the endpoint of id took to send
  overlap,    \* history: the endpoint of id took one while it awaited an ack
  uair, dair, \* the radio: uplink and downlink frames of id
  ms          \* the mobile stations

llcVars == <<endpoints, down, up, accepted, given, overlap>>
vars == <<llcVars, uair, dair, ms>>

FreshEndpoint(id) == [in_use |-> TRUE, id |-> id, ns |-> 0, nr |-> 0, aw |-> FALSE]

Init ==
  /\ endpoints = [s \in Slot |->
       [in_use |-> FALSE, id |-> NoId, ns |-> 0, nr |-> 0, aw |-> FALSE]]
  /\ down = <<>> /\ up = 0
  /\ accepted = [id \in Ids |-> <<>>]
  /\ given = [id \in Ids |-> 0]
  /\ overlap = [id \in Ids |-> FALSE]
  /\ uair = [id \in Ids |-> <<>>]
  /\ dair = [id \in Ids |-> <<>>]
  /\ ms = [id \in Ids |->
       [ns |-> 0, nr |-> 0, aw |-> FALSE, last |-> Pdu("DATA", 0, 0, "none", 0),
        sent |-> 0, got |-> <<>>]]

-----------------------------------------------------------------------------
(* The endpoint table.                                                     *)

First(S) == CHOOSE s \in S : \A t \in S : s <= t

EndpointFind(id) == {s \in Slot : endpoints[s].in_use /\ endpoints[s].id = id}
Free == {s \in Slot : ~endpoints[s].in_use}

(* Mutant: the table is not searched before a slot is allocated.           *)
LookupAllocates(id) ==
  IF Free # {} THEN First(Free)
  ELSE IF EndpointFind(id) # {} THEN First(EndpointFind(id)) ELSE 0

(* The slot llc_endpoint_lookup returns, 0 when the table is full.         *)
Lookup(id) ==
  IF EndpointFind(id) # {} THEN First(EndpointFind(id))
  ELSE IF Free # {} THEN First(Free) ELSE 0

(* The table after llc_endpoint_lookup.                                    *)
Opened(id) ==
  IF Lookup(id) \in Free
  THEN [endpoints EXCEPT ![Lookup(id)] = FreshEndpoint(id)]
  ELSE endpoints

-----------------------------------------------------------------------------
(* Posts.  A full bucket refuses the message.                              *)

CanPostDown == Len(down) < DownCap
PostDown(id, p) ==
  down' = IF CanPostDown THEN Append(down, [id |-> id, pdu |-> p]) ELSE down

CanPostUp == up < UpCap
PostUp == up' = IF CanPostUp THEN up + 1 ELSE up

BlAck(nr) == Pdu("ACK", 0, nr, "none", 0)

-----------------------------------------------------------------------------
(* llc_handle_tma_unitdata_ind.                                            *)

(* Mutant: the FCS verdict is not looked at.                               *)
DiscardedOnType(p) == p.type = "RSVD"

(* An unknown type or a bad FCS: no endpoint is looked up.                 *)
Discarded(p) == p.type = "RSVD" \/ p.fcs = "bad"

RxDiscard(id, p) ==
  /\ Discarded(p)
  /\ UNCHANGED <<endpoints, down, up, accepted>>

RxNoEndpoint(id, p) ==
  /\ ~Discarded(p)
  /\ Lookup(id) = 0
  /\ UNCHANGED <<endpoints, down, up, accepted>>

(* Data with the expected number: the number advances, the SDU is posted   *)
(* upward and an acknowledgement downward; neither post's result is seen.  *)
RxInSequence(id, p) ==
  LET s == Lookup(id)  t == Opened(id) IN
  /\ ~Discarded(p) /\ s # 0
  /\ p.type \in DataTypes /\ p.ns = t[s].nr
  /\ endpoints' = [t EXCEPT ![s].nr = 1 - @]
  /\ PostUp
  /\ accepted' = [accepted EXCEPT ![id] = Append(@, p.body)]
  /\ PostDown(id, BlAck(1 - t[s].nr))

(* Mutant: a repeated frame is dropped without a new acknowledgement.      *)
RxRepeatedSilent(id, p) ==
  LET s == Lookup(id)  t == Opened(id) IN
  /\ ~Discarded(p) /\ s # 0
  /\ p.type \in DataTypes /\ p.ns # t[s].nr
  /\ endpoints' = t
  /\ UNCHANGED <<down, up, accepted>>

(* Data with the other number: only the acknowledgement is repeated.       *)
RxRepeated(id, p) ==
  LET s == Lookup(id)  t == Opened(id) IN
  /\ ~Discarded(p) /\ s # 0
  /\ p.type \in DataTypes /\ p.ns # t[s].nr
  /\ endpoints' = t
  /\ PostDown(id, BlAck(t[s].nr))
  /\ UNCHANGED <<up, accepted>>

(* Mutant: any acknowledgement ends the wait.                              *)
AckMatchesAny(e, p) == e.aw

AckMatches(e, p) == e.aw /\ p.nr = e.ns

(* A BL-ACK ends the wait if it carries the next number to send.  The NR   *)
(* of a BL-ADATA is not looked at (RxInSequence, RxRepeated).              *)
RxAck(id, p) ==
  LET s == Lookup(id)  t == Opened(id) IN
  /\ ~Discarded(p) /\ s # 0
  /\ p.type = "ACK"
  /\ endpoints' = IF AckMatches(t[s], p) THEN [t EXCEPT ![s].aw = FALSE] ELSE t
  /\ UNCHANGED <<down, up, accepted>>

RxStateless(id, p) ==
  /\ ~Discarded(p) /\ Lookup(id) # 0
  /\ p.type \in {"UDATA", "SETUP"}
  /\ endpoints' = Opened(id)
  /\ PostUp
  /\ UNCHANGED <<down, accepted>>

RxInd(id) ==
  /\ uair[id] # <<>>
  /\ uair' = [uair EXCEPT ![id] = Tail(@)]
  /\ LET p == Head(uair[id]) IN
       \/ RxDiscard(id, p)
       \/ RxNoEndpoint(id, p)
       \/ RxInSequence(id, p)
       \/ RxRepeated(id, p)
       \/ RxAck(id, p)
       \/ RxStateless(id, p)
  /\ UNCHANGED <<given, overlap, dair, ms>>

-----------------------------------------------------------------------------
(* The two ways down.                                                      *)

(* An endpoint after it sent a data frame.  (last_sent and retx_count are  *)
(* written there too, and read nowhere.)                                   *)
Sent(e) == [e EXCEPT !.aw = TRUE, !.ns = 1 - @]

(* llc_send_bl_data.  Without an endpoint (ENOSPC), while an SDU is        *)
(* unacknowledged (EBUSY) or when the bucket is full (ENOSPC) the caller   *)
(* keeps its SDU; only the endpoint may have been allocated.               *)
SendBlData(id) ==
  LET s == Lookup(id)  t == Opened(id) IN
  /\ given[id] < MaxDown
  /\ \/ /\ ~(s # 0 /\ ~t[s].aw /\ CanPostDown)
        /\ endpoints' = t
        /\ UNCHANGED <<down, given>>
     \/ /\ s # 0 /\ ~t[s].aw /\ CanPostDown
        /\ PostDown(id, Pdu("DATA", t[s].ns, 0, "none", given[id] + 1))
        /\ endpoints' = [t EXCEPT ![s] = Sent(@)]
        /\ given' = [given EXCEPT ![id] = @ + 1]
  /\ UNCHANGED <<up, accepted, overlap, uair, dair, ms>>

(* on_tle_msg_from_mle for a data PDU: no look at awaiting_ack, and the    *)
(* endpoint moves on whether or not the post succeeded.  Without an        *)
(* endpoint the PDU is dropped.                                            *)
OnTleData(id, type) ==
  LET s == Lookup(id)  t == Opened(id) IN
  /\ type \in DataTypes
  /\ given[id] < MaxDown
  /\ \/ /\ s = 0
        /\ UNCHANGED <<endpoints, down, given, overlap>>
     \/ /\ s # 0
        /\ PostDown(id, Pdu(type, t[s].ns, t[s].nr, "none", given[id] + 1))
        /\ endpoints' = [t EXCEPT ![s] = Sent(@)]
        /\ given' = [given EXCEPT ![id] = @ + 1]
        /\ overlap' = [overlap EXCEPT ![id] = @ \/ t[s].aw]
  /\ UNCHANGED <<up, accepted, uair, dair, ms>>

(* on_tle_msg_from_mle for any other PDU: send and forget.  A PDU that     *)
(* cannot be encoded ("RSVD") is dropped after the endpoint lookup.        *)
OnTleOther(id, type) ==
  LET s == Lookup(id)  t == Opened(id) IN
  /\ type \notin DataTypes
  /\ endpoints' = t
  /\ IF s # 0 /\ type # "RSVD"
     THEN PostDown(id, Pdu(type, 0, IF type = "ACK" THEN t[s].nr ELSE 0, "none", 0))
     ELSE UNCHANGED down
  /\ UNCHANGED <<up, accepted, given, overlap, uair, dair, ms>>

OnTle(id) == \E type \in TleTypes : OnTleData(id, type) \/ OnTleOther(id, type)

-----------------------------------------------------------------------------
(* The neighbours of the LLC (external).                                   *)

(* The MAC takes a request and transmits it.                               *)
MacTx ==
  /\ down # <<>>
  /\ LET m == Head(down) IN
       /\ Len(dair[m.id]) < AirCap
       /\ dair' = [dair EXCEPT ![m.id] = Append(@, m.pdu)]
  /\ down' = Tail(down)
  /\ UNCHANGED <<endpoints, up, accepted, given, overlap, uair, ms>>

(* The Normal bucket is served.                                            *)
UpperTake ==
  /\ up > 0
  /\ up' = up - 1
  /\ UNCHANGED <<endpoints, down, accepted, given, overlap, uair, dair, ms>>

UplinkSend(id, p) ==
  /\ Len(uair[id]) < AirCap
  /\ uair' = [uair EXCEPT ![id] = Append(@, p)]

(* A mobile station sends its next SDU, repeats an unacknowledged one, or  *)
(* sends a frame outside the stop-and-wait link.                           *)
MsSend(id) ==
  /\ ~ms[id].aw /\ ms[id].sent < MaxUp
  /\ \E k \in PeerKinds :
       LET p == Pdu(k[1], ms[id].ns, ms[id].nr, k[2], ms[id].sent + 1) IN
         /\ UplinkSend(id, p)
         /\ ms' = [ms EXCEPT ![id].aw = TRUE, ![id].ns = 1 - @,
                             ![id].sent = @ + 1, ![id].last = p]
  /\ UNCHANGED <<llcVars, dair>>

MsRetransmit(id) ==
  /\ ms[id].aw
  /\ UplinkSend(id, ms[id].last)
  /\ UNCHANGED <<llcVars, dair, ms>>

MsOther(id) ==
  /\ \E type \in OtherTypes : UplinkSend(id, Pdu(type, 0, 0, "none", 0))
  /\ UNCHANGED <<llcVars, dair, ms>>

(* It acknowledges again what it has taken so far: an acknowledgement that *)
(* is repeated, or comes long after another one for the same SDU.          *)
MsReAck(id) ==
  /\ UplinkSend(id, BlAck(ms[id].nr))
  /\ UNCHANGED <<llcVars, dair, ms>>

(* A mobile station receives: it takes new data and acknowledges data, and *)
(* an NR that is its next number ends its wait.                            *)
MsRx(id) ==
  /\ dair[id] # <<>>
  /\ LET p == Head(dair[id])
         new == p.type \in DataTypes /\ p.ns = ms[id].nr
         acks == p.type \in {"ACK", "ADATA"} /\ p.nr = ms[id].ns
         after == [ms[id] EXCEPT !.nr = IF new THEN 1 - @ ELSE @,
                                 !.got = IF new THEN Append(@, p.body) ELSE @,
                                 !.aw = @ /\ ~acks]
     IN /\ ms' = [ms EXCEPT ![id] = after]
        /\ IF p.type \in DataTypes
           THEN UplinkSend(id, BlAck(after.nr))
           ELSE UNCHANGED uair
  /\ dair' = [dair EXCEPT ![id] = Tail(@)]
  /\ UNCHANGED llcVars

(* The radio loses a frame, or damages one whose FCS then fails.           *)
Lose(id) ==
  /\ \/ /\ uair[id] # <<>>
        /\ uair' = [uair EXCEPT ![id] = Tail(@)]
        /\ UNCHANGED dair
     \/ /\ uair[id] # <<>> /\ Head(uair[id]).fcs = "ok"
        /\ uair' = [uair EXCEPT ![id][1].fcs = "bad", ![id][1].body = 0]
        /\ UNCHANGED dair
     \/ /\ dair[id] # <<>>
        /\ dair' = [dair EXCEPT ![id] = Tail(@)]
        /\ UNCHANGED uair
  /\ UNCHANGED <<llcVars, ms>>

-----------------------------------------------------------------------------
Next ==
  \/ MacTx
  \/ UpperTake
  \/ \E id \in Ids :
       \/ RxInd(id) \/ SendBlData(id) \/ OnTle(id)
       \/ MsSend(id) \/ MsRetransmit(id) \/ MsOther(id) \/ MsReAck(id)
       \/ MsRx(id) \/ Lose(id)

Spec == Init /\ [][Next]_vars

(* Both buckets are served by every timer tick, a mobile station repeats   *)
(* until it is acknowledged (other frames on the radio delay but do not    *)
(* starve it), and the radio does not lose every copy of a frame: data     *)
(* that keeps arriving at a receiver is received.                          *)
DataArrives(id) ==
  /\ uair[id] # <<>>
  /\ Head(uair[id]).type \in DataTypes /\ Head(uair[id]).fcs # "bad"
AckArrives(id) == dair[id] # <<>> /\ Head(dair[id]).type = "ACK"

Fairness ==
  /\ WF_vars(MacTx) /\ WF_vars(UpperTake)
  /\ \A id \in Ids :
       /\ SF_vars(MsRetransmit(id)) /\ SF_vars(MsRx(id)) /\ WF_vars(RxInd(id))
       /\ SF_vars(DataArrives(id) /\ RxInd(id))
       /\ SF_vars(AckArrives(id) /\ MsRx(id))

FairSpec == Spec /\ Fairness

-----------------------------------------------------------------------------
(* Properties.                                                             *)

(* Every variable keeps its type; in particular the buckets keep their     *)
(* capacity and NS, NR stay single bits.                                   *)
TypeOK ==
  /\ endpoints \in [Slot -> [in_use : BOOLEAN, id : Ids \cup {NoId},
                             ns : {0, 1}, nr : {0, 1}, aw : BOOLEAN]]
  /\ down \in Seq([id : Ids, pdu : LlcPdu]) /\ Len(down) <= DownCap
  /\ up \in 0 .. UpCap
  /\ accepted \in [Ids -> Seq(Nat)]
  /\ given \in [Ids -> 0 .. MaxDown]
  /\ overlap \in [Ids -> BOOLEAN]
  /\ uair \in [Ids -> Seq(LlcPdu)]
  /\ dair \in [Ids -> Seq(LlcPdu)]
  /\ ms \in [Ids -> [ns : {0, 1}, nr : {0, 1}, aw : BOOLEAN, last : LlcPdu,
                     sent : 0 .. MaxUp, got : Seq(Nat)]]

(* endpoint_find and endpoint_alloc together never give one link two       *)
(* endpoints, and slots are handed out from the front: whatever mix of     *)
(* received frames and sends first touched a link, its numbers are kept in *)
(* one place.                                                              *)
EndpointTable ==
  /\ \A s, t \in Slot :
       endpoints[s].in_use /\ endpoints[t].in_use /\ endpoints[s].id = endpoints[t].id
         => s = t
  /\ \A s, t \in Slot : s < t /\ endpoints[t].in_use => endpoints[s].in_use

(* The link of id as its mobile station sees it going up ...               *)
Uplink == INSTANCE LlcLinkSpec WITH
  sent <- [id \in Ids |-> ms[id].sent],
  accepted <- accepted,
  acked <- [id \in Ids |-> IF ms[id].aw THEN ms[id].sent - 1 ELSE ms[id].sent]

(* ... and as the LLC sees it going down.                                  *)
Awaiting(id) == \E s \in EndpointFind(id) : endpoints[s].aw
Downlink == INSTANCE LlcLinkSpec WITH
  sent <- given,
  accepted <- [id \in Ids |-> ms[id].got],
  acked <- [id \in Ids |-> IF Awaiting(id) THEN given[id] - 1 ELSE given[id]]

(* llc_handle_tma_unitdata_ind's receive side keeps the promise of a basic *)
(* link whatever the radio loses, damages or the mobile station repeats:   *)
(* every SDU is taken exactly once, in order, and the mobile station is    *)
(* told so only afterwards.                                                *)
UplinkImplements == Uplink!Spec

(* Both senders, llc_send_bl_data and on_tle_msg_from_mle, and the BL-ACK  *)
(* branch keep the promise downward on every link on which no SDU was sent *)
(* over an unacknowledged one: SDUs arrive in order and once, and however  *)
(* late or often a mobile station acknowledges, awaiting_ack is cleared    *)
(* only when it really took the SDU.  llc_send_bl_data never overlaps; for *)
(* on_tle_msg_from_mle, which may, the overlap is thereby shown to be the  *)
(* only way to a false acknowledgement.                                    *)
DownlinkImplements ==
  /\ Downlink!Init
  /\ [][\A id \in Ids : ~overlap'[id] => Downlink!LinkStep(id)]_vars

(* The repeated acknowledgement of the out-of-sequence branch is what      *)
(* keeps an uplink alive: a mobile station that repeats its SDU is         *)
(* eventually acknowledged, although every BL-ACK may be lost once or find *)
(* the bucket full.                                                        *)
UplinkProgress == \A id \in Ids : ms[id].aw ~> ~ms[id].aw

(* Does not hold when the Normal bucket is full.  llc.c:230 says of an     *)
(* in-sequence frame "forward to MLE, advance nr_expected, send BL-ACK":   *)
(* an SDU that is taken, and so acknowledged, is forwarded.  The result of *)
(* the forward is not looked at.                                           *)
AckedIsForwarded ==
  [][\A id \in Ids : accepted'[id] # accepted[id] => up' = up + 1]_vars

(* Does not hold with on_tle_msg_from_mle (TleTypes = {"DATA"}).           *)
(* llc.c:235 says of a matching BL-ACK "our last frame was accepted":      *)
(* awaiting_ack is cleared only when the SDU was taken.  That handler      *)
(* sends a second frame while the first is outstanding, and an old         *)
(* acknowledgement matches.                                                *)
AckedIsTaken ==
  \A id \in Ids : EndpointFind(id) # {} /\ ~Awaiting(id)
                    => Len(ms[id].got) = given[id]

(* Does not hold.  llc.c:238 says of an unacknowledged SDU "we will        *)
(* retransmit on our timer if awaiting_ack is still set": it is            *)
(* acknowledged one day.  No timer looks at awaiting_ack.                  *)
DownlinkProgress == \A id \in Ids : Awaiting(id) ~> ~Awaiting(id)
=============================================================================
