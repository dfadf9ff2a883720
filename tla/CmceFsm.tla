------------------------------- MODULE CmceFsm -------------------------------
(***************************************************************************)
(* The CMCE call table and the per-call state machine, as functions on the *)
(* table: sw/cmce/cmce_fsm.c and the synchronous part of                   *)
(* cmce_handle_tle_msg (sw/cmce/cmce.c).  The state modules Cmce and Stack *)
(* are built from these operators.                                         *)
(***************************************************************************)
EXTENDS Naturals

CONSTANTS
  MaxCalls,  \* CMCE_MAX_CALLS
  Peers,     \* addresses of mobile stations
  NoPeer     \* peer_addr of a slot never used

ASSUME MaxCallsAssumption == MaxCalls \in Nat \ {0}
ASSUME NoPeerAssumption == NoPeer \notin Peers

CallSlot == 1 .. MaxCalls

CmceCallState ==
  {"Idle", "SetupPending", "Proceeding", "Connected", "TxGranted", "Releasing"}

(* CmcePduType: the wire codes (cmce.h) and their names here.              *)
CmceTypes ==
  {"Setup", "CallProceeding", "Connect", "TxDemand", "TxGranted", "Release"}
TypeCode ==
  [t \in CmceTypes |->
     CASE t = "Setup" -> 7 [] t = "CallProceeding" -> 1 [] t = "Connect" -> 2
       [] t = "TxDemand" -> 10 [] t = "TxGranted" -> 11 [] t = "Release" -> 6]

(* cmce_pdu_decode in the uplink direction: the D- PDUs are refused.       *)
UplinkTypes == {"Setup", "TxDemand", "Release"}

FreeSlot == [in_use |-> FALSE, call |-> 0, state |-> "Idle", peer |-> NoPeer]

(* The slot cmce_call_lookup returns, 0 for NULL.                          *)
CallLookup(calls, c) ==
  LET hits == {i \in CallSlot : calls[i].in_use /\ calls[i].call = c} IN
    IF hits = {} THEN 0 ELSE CHOOSE i \in hits : \A j \in hits : i <= j

(* Mutant: the table is not searched for the identifier first.             *)
CallAllocBlind(calls, c) ==
  LET free == {i \in CallSlot : ~calls[i].in_use} IN
    IF free = {} THEN 0
    ELSE CHOOSE i \in free : \A j \in free : i <= j

(* The slot cmce_call_alloc takes for a new identifier, 0 for NULL.        *)
CallAlloc(calls, c) ==
  LET free == {i \in CallSlot : ~calls[i].in_use} IN
    IF CallLookup(calls, c) # 0 \/ free = {} THEN 0
    ELSE CHOOSE i \in free : \A j \in free : i <= j

NewCall(calls, i, c, peer) ==
  [calls EXCEPT ![i] =
     [in_use |-> TRUE, call |-> c, state |-> "SetupPending", peer |-> peer]]

(* cmce_call_release leaves peer_addr in place.                            *)
CallRelease(calls, i) ==
  [calls EXCEPT ![i].in_use = FALSE, ![i].state = "Idle", ![i].call = 0]

(* The state changes of cmce_fsm_apply; every other pair is a drop.  A     *)
(* Setup resets whatever state the slot is in, in both directions.         *)
Transitions ==
  {<<s, "Setup", "SetupPending">> : s \in CmceCallState}
  \cup {<<"SetupPending", "CallProceeding", "Proceeding">>,
        <<"SetupPending", "Connect", "Connected">>,
        <<"Proceeding", "Connect", "Connected">>,
        <<"Connected", "TxDemand", "TxGranted">>,
        <<"Connected", "TxGranted", "TxGranted">>}
  \cup {<<s, "Release", "Releasing">> : s \in CmceCallState \ {"Idle", "Releasing"}}

(* cmce_fsm_apply on slot i: a Release of a Releasing slot frees it.       *)
FsmApply(calls, i, type) ==
  LET to == {e[3] : e \in {f \in Transitions : f[1] = calls[i].state /\ f[2] = type}}
  IN IF ~calls[i].in_use THEN calls
     ELSE IF calls[i].state = "Releasing" /\ type = "Release" THEN CallRelease(calls, i)
     ELSE IF to = {} THEN calls
     ELSE [calls EXCEPT ![i].state = CHOOSE s \in to : TRUE]

(* Mutant: the D-RELEASE just sent is not applied to the slot.             *)
AnsweredOnce(calls, i, type) == FsmApply(calls, i, type)

(* The table after a decoded uplink PDU met slot i: a Release is applied   *)
(* twice, the second time for the D-RELEASE sent in answer.                *)
Answered(calls, i, type) ==
  IF type = "Release" THEN FsmApply(FsmApply(calls, i, type), i, type)
  ELSE FsmApply(calls, i, type)

(* The answer cmce_handle_tle_msg posts, whatever the state machine did.   *)
Response ==
  [t \in UplinkTypes |->
     CASE t = "Setup" -> "CallProceeding" [] t = "TxDemand" -> "TxGranted"
       [] t = "Release" -> "Release"]

(* Mutant: a Release of an unknown call is answered too.                   *)
HandleAnswersUnknown(calls, type, c, peer) ==
  LET i == CallLookup(calls, c)
      j == CallAlloc(calls, c)
  IN IF type \notin UplinkTypes THEN [calls |-> calls, resp |-> "none"]
     ELSE IF i # 0
     THEN [calls |-> Answered(calls, i, type), resp |-> Response[type]]
     ELSE IF type = "Setup" /\ j # 0
     THEN [calls |-> Answered(NewCall(calls, j, c, peer), j, type),
           resp |-> Response[type]]
     ELSE [calls |-> calls, resp |-> IF type = "Release" THEN "Release" ELSE "none"]

(* cmce_handle_tle_msg: the table and the answer ("none") after an uplink  *)
(* PDU.  Only a Setup opens a slot; an unknown call or a full table drops. *)
HandleTleMsg(calls, type, c, peer) ==
  LET i == CallLookup(calls, c)
      j == CallAlloc(calls, c)
      dropped == [calls |-> calls, resp |-> "none"]
  IN IF type \notin UplinkTypes THEN dropped
     ELSE IF i # 0
     THEN [calls |-> Answered(calls, i, type), resp |-> Response[type]]
     ELSE IF type = "Setup" /\ j # 0
     THEN [calls |-> Answered(NewCall(calls, j, c, peer), j, type),
           resp |-> Response[type]]
     ELSE dropped
=============================================================================
