-------------------------------- MODULE Stack --------------------------------
(***************************************************************************)
(* The signalling stack as tetra_d wires it: which handler the bus calls   *)
(* for which (dest, sap) pair, in which bucket, and what the timer tick of *)
(* the main loop makes of it.  The routes (sw/tetra_d.c starts LLC, MLE,   *)
(* MM, CMCE in this order):                                                *)
(*                                                                         *)
(*   (TmaSap, TmaSap)  High    LLC's requests to the MAC -> LLC's receiver *)
(*   (TmaSap, TleSap)  Normal  CMCE's PDUs -> LLC's sender, then MLE       *)
(*   (TleSap, TleSap)  Normal  PDUs the LLC forwards -> CMCE               *)
(*                                                                         *)
(* so that the LLC receives every frame it sends, and what it forwards     *)
(* reaches the CMCE and nobody else.  The main loop hands every uplink     *)
(* frame to endpoint 1 with address 0, and all downlink PDUs go to         *)
(* endpoint 1 too: one endpoint and one peer are all there is.             *)
(*                                                                         *)
(* The daemon is one thread: uplink frames arrive between ticks, a tick    *)
(* dispatches at most Budget messages.                                     *)
(***************************************************************************)
EXTENDS CmceFsm, Sequences

CONSTANTS
  HighCap, NormCap,  \* queue_cap_per_prio of the two buckets
  Budget,            \* dispatches per tick (64)
  Period,            \* nwrk_bcast_period_multiframes
  UlBodies,          \* bodies of uplink frames
  MaxRx              \* bound: uplink frames between two ticks

ASSUME StackCapAssumption == HighCap \in Nat \ {0} /\ NormCap \in Nat \ {0}
ASSUME StackBudgetAssumption == Budget \in Nat \ {0} /\ Period \in Nat \ {0}
ASSUME StackBoundAssumption == MaxRx \in Nat
ASSUME StackPeerAssumption == "ms" \in Peers
ASSUME StackBodyAssumption ==
  UlBodies \subseteq [pd : {"none", "mm", "cmce"}, code : 0 .. 31,
                      call : 0 .. 16383, full : BOOLEAN]

(* An LLC body: the MLE protocol discriminator in front (3 bits) or none,  *)
(* the 5-bit (CMCE) or 4-bit (MM) type code, the 14-bit call identifier,   *)
(* and whether it is as long as its type demands.                          *)
Body(pd, code, call, full) == [pd |-> pd, code |-> code, call |-> call, full |-> full]
CmceBody(type, call) == Body("none", TypeCode[type], call, TRUE)

(* D-NWRK-BROADCAST is 19 bits that start with 0x5655 = 01010...           *)
BroadcastBody == Body("none", 10, 0, FALSE)

(* The first 5 bits of a body, whatever it is.                             *)
Peek5(b) ==
  CASE b.pd = "none" -> b.code
    [] b.pd = "mm"   -> 4 + b.code \div 4
    [] b.pd = "cmce" -> 8 + b.code \div 8

LooksCmce(b) == \E t \in CmceTypes : TypeCode[t] = Peek5(b)

(* Mutant: the discriminator is dropped without realigning the rest.       *)
MmTypeUnaligned(b) == IF b.pd = "mm" THEN b.code ELSE b.code % 4

(* What strip_mle_pd and mm_iep_decode read as the MM type when the first  *)
(* 3 bits say MM: the next 4 bits.                                         *)
MmType(b) ==
  IF b.pd = "mm" THEN b.code ELSE (b.code % 4) * 4 + b.call \div 4096

(* handle_mm_pdu goes on only with U-LOCATION-UPDATE-DEMAND and U-ATTACH-  *)
(* DETACH-GROUP-IDENTITY.                                                  *)
MleTakes(b) == Peek5(b) \div 4 = 1 /\ MmType(b) \in {2, 7}

VARIABLES
  ep,     \* endpoint 1 of the LLC
  high,   \* the High bucket: frames, all of them sent by the LLC
  norm,   \* the Normal bucket: [to, body, own]; own: it is the daemon's PDU
  table,  \* cmce->calls
  since,  \* mf_now - last_bcast_tick_mf, capped at Period
  left,   \* dispatches left in the running tick; 0 between ticks
  rx,     \* uplink frames since the last tick
  mm      \* history: an MM demand was forwarded / reached the MLE

vars == <<ep, high, norm, table, since, left, rx, mm>>

Init ==
  /\ ep = [ns |-> 0, nr |-> 0, aw |-> FALSE]
  /\ high = <<>> /\ norm = <<>>
  /\ table = [i \in CallSlot |-> FreeSlot]
  /\ since = 0 /\ left = 0 /\ rx = 0
  /\ mm = [up |-> FALSE, mle |-> FALSE]

(* A handler's post: the entry being dispatched still holds its slot, so   *)
(* room is judged by the bucket before it is popped; q is what will be     *)
(* left of the bucket.                                                     *)
PostHigh(q, m) == high' = IF Len(high) < HighCap THEN Append(q, m) ELSE q
PostNorm(q, m) == norm' = IF Len(norm) < NormCap THEN Append(q, m) ELSE q

Frame(type, n, body) == [type |-> type, n |-> n, body |-> body]
NoBody == Body("none", 0, 0, FALSE)

-----------------------------------------------------------------------------
(* llc_handle_tma_unitdata_ind on endpoint 1, for a frame off the air or   *)
(* one of our own; q is what is left of the High bucket, for the BL-ACK.   *)
(* In-sequence data is forwarded and acknowledged, other data acknowledged *)
(* again, BL-ACK ends a wait, and what is left is only forwarded.          *)
LlcReceive(f, own, q) ==
  \/ /\ f.type = "DATA" /\ f.n = ep.nr
     /\ ep' = [ep EXCEPT !.nr = 1 - @]
     /\ PostNorm(norm, [to |-> "cmce", body |-> f.body, own |-> own])
     /\ PostHigh(q, Frame("ACK", 1 - ep.nr, NoBody))
     /\ mm' = [mm EXCEPT !.up = @ \/ (~own /\ MleTakes(f.body))]
  \/ /\ f.type = "DATA" /\ f.n # ep.nr
     /\ PostHigh(q, Frame("ACK", ep.nr, NoBody))
     /\ UNCHANGED <<ep, norm, mm>>
  \/ /\ f.type = "ACK"
     /\ ep' = IF f.n = ep.ns THEN [ep EXCEPT !.aw = FALSE] ELSE ep
     /\ high' = q
     /\ UNCHANGED <<norm, mm>>
  \/ /\ f.type \in {"UDATA", "SETUP"}
     /\ PostNorm(norm, [to |-> "cmce", body |-> f.body, own |-> own])
     /\ high' = q
     /\ mm' = [mm EXCEPT !.up = @ \/ (~own /\ MleTakes(f.body))]
     /\ UNCHANGED ep

(* A TMA-RX frame: ml_dispatch_tma_rx calls the LLC at once.               *)
DmaRx(f) ==
  /\ left = 0 /\ rx < MaxRx
  /\ rx' = rx + 1
  /\ LlcReceive(f, FALSE, high)
  /\ UNCHANGED <<table, since, left>>

(* The timer: count the multiframes, send the broadcast when it is due,    *)
(* then dispatch.  cmce_nwrk_bcast_tick takes the broadcast for sent even  *)
(* if the post fails.                                                      *)
Tick(expirations) ==
  LET now == since + expirations IN
  /\ left = 0
  /\ left' = Budget /\ rx' = 0
  /\ \/ /\ now < Period
        /\ since' = now
        /\ UNCHANGED norm
     \/ /\ now >= Period
        /\ since' = 0
        /\ PostNorm(norm, [to |-> "llc", body |-> BroadcastBody, own |-> TRUE])
  /\ UNCHANGED <<ep, high, table, mm>>

(* High bucket first: the LLC receives a frame it sent.                    *)
DispatchHigh ==
  /\ left > 0 /\ high # <<>>
  /\ left' = left - 1
  /\ LlcReceive(Head(high), TRUE, Tail(high))
  /\ UNCHANGED <<table, since, rx>>

(* on_tle_msg_from_mle sends BL-DATA, then MLE's on_tle_msg looks at the   *)
(* same message.                                                           *)
DispatchDown ==
  LET b == Head(norm).body IN
  /\ left > 0 /\ high = <<>>
  /\ norm # <<>> /\ Head(norm).to = "llc"
  /\ left' = left - 1
  /\ norm' = Tail(norm)
  /\ PostHigh(high, Frame("DATA", ep.ns, b))
  /\ ep' = [ep EXCEPT !.ns = 1 - @, !.aw = TRUE]
  /\ mm' = [mm EXCEPT !.mle = @ \/ MleTakes(b)]
  /\ UNCHANGED <<table, since, rx>>

(* on_tle_upcall: a body that looks like CMCE and decodes goes through the *)
(* call table, and the answer is posted to the LLC.                        *)
DispatchUp ==
  LET b == Head(norm).body
      type == CHOOSE t \in CmceTypes : TypeCode[t] = Peek5(b)
      call == IF type = "Setup" THEN 0 ELSE b.call
      h == HandleTleMsg(table, type, call, "ms")
  IN
  /\ left > 0 /\ high = <<>>
  /\ norm # <<>> /\ Head(norm).to = "cmce"
  /\ left' = left - 1
  /\ \/ /\ LooksCmce(b) /\ b.full
        /\ table' = h.calls
        /\ IF h.resp = "none" THEN norm' = Tail(norm)
           ELSE PostNorm(Tail(norm), [to |-> "llc", own |-> TRUE,
                                      body |-> CmceBody(h.resp, call)])
     \/ /\ ~(LooksCmce(b) /\ b.full)
        /\ norm' = Tail(norm)
        /\ UNCHANGED table
  /\ UNCHANGED <<ep, high, since, rx, mm>>

(* The bus is empty: the tick ends early.                                  *)
TickEnd ==
  /\ left > 0 /\ high = <<>> /\ norm = <<>>
  /\ left' = 0
  /\ UNCHANGED <<ep, high, norm, table, since, rx, mm>>

(* What may come off the air: BL-DATA (BL-ADATA differs only in an NR that *)
(* is not read), BL-ACK, BL-UDATA and AL-SETUP, which carries no body.     *)
(* Frames that do not decode or fail their FCS change nothing.             *)
UlFrames == {Frame("DATA", n, b) : n \in {0, 1}, b \in UlBodies}
            \cup {Frame("ACK", n, NoBody) : n \in {0, 1}}
            \cup {Frame("UDATA", 0, b) : b \in UlBodies}
            \cup {Frame("SETUP", 0, NoBody)}

Next ==
  \/ \E f \in UlFrames : DmaRx(f)
  \/ \E e \in 1 .. 2 : Tick(e)
  \/ DispatchHigh \/ DispatchDown \/ DispatchUp \/ TickEnd

Spec == Init /\ [][Next]_vars

(* The timer fires for ever and a tick runs to its end.                    *)
FairSpec ==
  /\ Spec
  /\ WF_vars(\E e \in 1 .. 2 : Tick(e))
  /\ WF_vars(DispatchHigh \/ DispatchDown \/ DispatchUp \/ TickEnd)

-----------------------------------------------------------------------------
(* Both buckets keep their capacity and the endpoint its single bits.      *)
TypeOK ==
  /\ ep \in [ns : {0, 1}, nr : {0, 1}, aw : BOOLEAN]
  /\ Len(high) <= HighCap /\ Len(norm) <= NormCap
  /\ \A i \in CallSlot : table[i].state \in CmceCallState
  /\ since \in 0 .. Period /\ left \in 0 .. Budget /\ rx \in 0 .. MaxRx
  /\ mm \in [up : BOOLEAN, mle : BOOLEAN]

(* Although the LLC receives its own frames, acknowledges them, forwards   *)
(* them to the CMCE and the CMCE answers some, the echoes die out: a tick  *)
(* that started with at most MaxRx uplink frames ends with an empty bus,   *)
(* inside its budget of dispatches (ml_timer_tick).                        *)
TickDrains == left = 0 /\ rx = 0 => high = <<>> /\ norm = <<>>

(* MLE's on_tle_msg sees every PDU the CMCE sends down (it is registered   *)
(* on the LLC's own pair), and a D-RELEASE does start with the bits of the *)
(* MM discriminator: still none of them reads as a mobility demand, for    *)
(* any call identifier.                                                    *)
DownlinkIsNoDemand == ~mm.mle

(* Does not hold.  llc.h:249 calls TmaUnitdataReq the "TMA-SAP TX          *)
(* primitive (LLC -> MAC)": what the daemon sends is not taken for an      *)
(* uplink PDU, so no call changes because of it.  A D-RELEASE that comes   *)
(* back releases the call opened meanwhile.                                *)
OwnPdusChangeNoCall ==
  [][norm # <<>> /\ Head(norm).own /\ norm' # norm => table' = table]_vars

(* llc.h:272 says the LLC will "forward the decoded PDU to MLE via         *)
(* TleSap": a mobility demand the LLC accepted reaches the MLE.            *)
DemandReachesMle == mm.up ~> mm.mle
=============================================================================
