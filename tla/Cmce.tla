-------------------------------- MODULE Cmce --------------------------------
(***************************************************************************)
(* The CMCE entity on its own: mobile stations' PDUs arrive through        *)
(* cmce_handle_tle_msg while the base station drives the same calls with   *)
(* cmce_call_alloc (a BS-initiated call) and cmce_fsm_apply (the D-CALL-   *)
(* PROCEEDING, D-CONNECT, D-TX-GRANTED, D-RELEASE it sends), as cmce.c     *)
(* lines 190-199 leave to the daemon.  The handlers are synchronous; what  *)
(* interleaves is the two sides.                                           *)
(***************************************************************************)
EXTENDS CmceFsm

CONSTANT CallIds  \* call identifiers in use; 0 is what a U-SETUP decodes to

ASSUME CallIdsAssumption == 0 \in CallIds /\ CallIds \subseteq Nat

VARIABLES
  calls,  \* cmce->calls
  last    \* history: the last uplink PDU handled and the answer posted

cmceVars == <<calls, last>>

NoPdu == [type |-> "none", call |-> 0, resp |-> "none"]

CmceInit ==
  /\ calls = [i \in CallSlot |-> FreeSlot]
  /\ last = NoPdu

(* decode_u_setup reads no call identifier: the decoded PDU says 0.        *)
DecodedCall(type, c) == IF type = "Setup" THEN 0 ELSE c

(* The upcall.  A PDU whose type is no uplink type is refused.             *)
OnTleUpcall(type, c, peer) ==
  LET d == DecodedCall(type, c)
      h == HandleTleMsg(calls, type, d, peer)
  IN /\ calls' = h.calls
     /\ last' = [type |-> type, call |-> d, resp |-> h.resp]

(* A BS-initiated call (cmce_call_alloc) ...                               *)
OpenCall(c, peer) ==
  /\ CallAlloc(calls, c) # 0
  /\ calls' = NewCall(calls, CallAlloc(calls, c), c, peer)
  /\ last' = NoPdu

(* ... and a downlink PDU applied to a call by the base station.           *)
ApplyDownlink(i, type) ==
  /\ calls[i].in_use
  /\ calls' = FsmApply(calls, i, type)
  /\ last' = NoPdu

CmceNext ==
  \/ \E type \in CmceTypes, c \in CallIds, peer \in Peers : OnTleUpcall(type, c, peer)
  \/ \E c \in CallIds, peer \in Peers : OpenCall(c, peer)
  \/ \E i \in CallSlot, type \in CmceTypes \ {"TxDemand"} : ApplyDownlink(i, type)

CmceSpec == CmceInit /\ [][CmceNext]_cmceVars

-----------------------------------------------------------------------------
(* Every variable keeps its type; the slots hold only identifiers that     *)
(* cmce_pdu_decode or the base station produced.                           *)
CmceTypeOK ==
  /\ calls \in [CallSlot -> [in_use : BOOLEAN, call : CallIds,
                             state : CmceCallState, peer : Peers \cup {NoPeer}]]
  /\ last \in [type : CmceTypes \cup {"none"}, call : CallIds,
               resp : CmceTypes \cup {"none"}]

(* One slot per active call identifier (cmce.h:12), and a slot is in use   *)
(* exactly while its call is not Idle: U-SETUPs, BS-initiated calls and    *)
(* releases from both sides never leave two slots for a call, or a free    *)
(* slot that still looks like one.                                         *)
CallTable ==
  /\ \A i, j \in CallSlot :
       calls[i].in_use /\ calls[j].in_use /\ calls[i].call = calls[j].call => i = j
  /\ \A i \in CallSlot : calls[i].in_use <=> calls[i].state # "Idle"
  /\ \A i \in CallSlot : ~calls[i].in_use => calls[i].call = 0

(* A U-RELEASE always ends its call, also when it crosses a D-RELEASE of   *)
(* the base station and finds the slot in Releasing (cmce.c:225-236): the  *)
(* release applied for the answer neither leaves the slot behind nor hits  *)
(* a slot that is already free.                                            *)
ReleaseFrees == last.type = "Release" => CallLookup(calls, last.call) = 0

(* Does not hold.  cmce_fsm.c:177 says "transition only if we were         *)
(* Connected. Out-of-state TxDemand is a drop": a D-TX-GRANTED is sent     *)
(* only for a call that holds the grant.  cmce.c:213 answers every U-TX-   *)
(* DEMAND.                                                                 *)
GrantIsHeld ==
  last.resp = "TxGranted" =>
    \E i \in CallSlot : calls[i].in_use /\ calls[i].call = last.call
                          /\ calls[i].state = "TxGranted"

(* Does not hold.  cmce_fsm.c:38 says a "U-SETUP from a peer with an       *)
(* existing call_identifier is treated as an error and ignored (FSM        *)
(* drop)".  cmce_fsm.c:149 sets SetupPending all the same.                 *)
RepeatedSetupIgnored ==
  [][\A i \in CallSlot :
       calls[i].in_use /\ last'.type = "Setup" /\ last'.call = calls[i].call
         => calls'[i] = calls[i]]_cmceVars
=============================================================================
