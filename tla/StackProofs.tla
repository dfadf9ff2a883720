------------------------------ MODULE StackProofs ------------------------------
(***************************************************************************)
(* Proofs about the call table of the CMCE, on its own (Cmce) and as the   *)
(* daemon wires it (Stack).  For every number of slots, set of call        *)
(* identifiers and set of peers the table holds one slot per call, and a   *)
(* U-RELEASE always ends its call.  For all bodies a mobile station may    *)
(* send and every size of the buckets, no PDU of the daemon reads as a     *)
(* mobility demand, and a tick that may dispatch 6 messages for each       *)
(* uplink frame and 8 more empties the bus.                                *)
(***************************************************************************)
EXTENDS Cmce, Stack, SequenceTheorems, WellFoundedInduction, TLAPS

(* A non-empty set of numbers has a least element.                         *)
LEMMA LeastExists ==
  ASSUME NEW S, S \subseteq Nat, S # {}
  PROVE  \E i \in S : \A j \in S : i <= j
<1> DEFINE R == {ss \in Nat \X Nat : ss[1] < ss[2]}
<1>1. IsWellFoundedOn(R, Nat)
  BY NatLessThanWellFounded DEF OpToRel
<1>2. ASSUME NEW i \in S, NEW j \in S, ~(<<j, i>> \in R)
      PROVE  i <= j
  <2>1. i \in Nat /\ j \in Nat
    OBVIOUS
  <2>2. ~(j < i)
    BY <1>2, <2>1
  <2> QED
    BY <2>1, <2>2
<1> HIDE DEF R
<1>3. \E i \in S : \A j \in S : ~(<<j, i>> \in R)
  BY <1>1, WFMin
<1> QED
  BY <1>2, <1>3

-----------------------------------------------------------------------------
(* What cmce_call_lookup and cmce_call_alloc find.                         *)

Hits(t, c) == {i \in CallSlot : t[i].in_use /\ t[i].call = c}

(* A lookup returns a slot of the call, or 0 when there is none.           *)
LEMMA LookupFinds ==
  ASSUME NEW t, NEW c
  PROVE  /\ CallLookup(t, c) = 0 <=> Hits(t, c) = {}
         /\ CallLookup(t, c) # 0 => CallLookup(t, c) \in Hits(t, c)
<1> DEFINE S == Hits(t, c)
<1>0. CallLookup(t, c) = IF S = {} THEN 0 ELSE CHOOSE i \in S : \A j \in S : i <= j
  BY Zenon DEF CallLookup, Hits
<1>1. S \subseteq Nat /\ 0 \notin S
  BY MaxCallsAssumption DEF Hits, CallSlot
<1> HIDE DEF S
<1>2. CASE S = {}
  BY <1>0, <1>2 DEF S
<1>3. CASE S # {}
  <2>1. (CHOOSE i \in S : \A j \in S : i <= j) \in S
    BY <1>1, <1>3, LeastExists
  <2> QED
    BY <1>0, <1>1, <1>3, <2>1 DEF S
<1> QED
  BY <1>2, <1>3

(* An allocation takes a free slot, and only for a new identifier.         *)
LEMMA AllocFinds ==
  ASSUME NEW t, NEW c, CallAlloc(t, c) # 0
  PROVE  /\ CallAlloc(t, c) \in CallSlot
         /\ ~t[CallAlloc(t, c)].in_use
         /\ Hits(t, c) = {}
<1> DEFINE F == {i \in CallSlot : ~t[i].in_use}
<1>0. CallAlloc(t, c) = IF CallLookup(t, c) # 0 \/ F = {} THEN 0
                        ELSE CHOOSE i \in F : \A j \in F : i <= j
  BY Zenon DEF CallAlloc
<1>1. F \subseteq Nat
  BY MaxCallsAssumption DEF CallSlot
<1>2. \A i \in F : i \in CallSlot /\ ~t[i].in_use
  OBVIOUS
<1> HIDE DEF F
<1>3. CallLookup(t, c) = 0 /\ F # {}
  BY <1>0
<1>4. CallAlloc(t, c) \in F
  BY <1>0, <1>1, <1>3, LeastExists
<1> QED
  BY <1>2, <1>3, <1>4, LookupFinds

-----------------------------------------------------------------------------
(* The inductive invariant, as a statement about a table: the handlers     *)
(* apply several of the functions of CmceFsm one after the other.          *)

SlotType(ids) == [in_use : BOOLEAN, call : ids, state : CmceCallState,
                  peer : Peers \cup {NoPeer}]

Table(t, ids) ==
  /\ t \in [CallSlot -> SlotType(ids)]
  /\ \A i, j \in CallSlot : t[i].in_use /\ t[j].in_use /\ t[i].call = t[j].call => i = j
  /\ \A i \in CallSlot : t[i].in_use <=> t[i].state # "Idle"
  /\ \A i \in CallSlot : ~t[i].in_use => t[i].call = 0

(* cmce_call_alloc keeps the table.                                        *)
LEMMA NewCallTable ==
  ASSUME NEW ids, 0 \in ids, NEW t, Table(t, ids), NEW c \in ids,
         NEW peer \in Peers, CallAlloc(t, c) # 0
  PROVE  Table(NewCall(t, CallAlloc(t, c), c, peer), ids)
<1> DEFINE k == CallAlloc(t, c)
           u == NewCall(t, k, c, peer)
<1>1. k \in CallSlot /\ ~t[k].in_use /\ \A i \in CallSlot : ~(t[i].in_use /\ t[i].call = c)
  BY AllocFinds DEF Hits
<1>2. t \in [CallSlot -> SlotType(ids)]
  BY DEF Table
<1>3. /\ u \in [CallSlot -> SlotType(ids)]
      /\ u[k] = [in_use |-> TRUE, call |-> c, state |-> "SetupPending", peer |-> peer]
      /\ \A i \in CallSlot \ {k} : u[i] = t[i]
  BY <1>1, <1>2 DEF NewCall, SlotType, CmceCallState
<1> HIDE DEF k, u
<1>4. Table(u, ids)
  BY <1>1, <1>3 DEF Table
<1> QED
  BY <1>4 DEF u, k

(* cmce_fsm_apply keeps the table and touches no other slot.  A Release    *)
(* takes a slot in use to Releasing, a Releasing one out of use.           *)
LEMMA FsmApplyTable ==
  ASSUME NEW ids, 0 \in ids, NEW t, Table(t, ids), NEW i \in CallSlot, NEW type \in CmceTypes
  PROVE  /\ Table(FsmApply(t, i, type), ids)
         /\ \A j \in CallSlot \ {i} : FsmApply(t, i, type)[j] = t[j]
         /\ FsmApply(t, i, type)[i].in_use => FsmApply(t, i, type)[i].call = t[i].call
         /\ type = "Release" =>
              IF t[i].in_use /\ t[i].state # "Releasing"
              THEN FsmApply(t, i, type)[i].in_use /\ FsmApply(t, i, type)[i].state = "Releasing"
              ELSE ~FsmApply(t, i, type)[i].in_use
<1> DEFINE u == FsmApply(t, i, type)
           to == {e[3] : e \in {f \in Transitions : f[1] = t[i].state /\ f[2] = type}}
<1>0. u = IF ~t[i].in_use THEN t
          ELSE IF t[i].state = "Releasing" /\ type = "Release" THEN CallRelease(t, i)
          ELSE IF to = {} THEN t
          ELSE [t EXCEPT ![i].state = CHOOSE s \in to : TRUE]
  BY Zenon DEF FsmApply
<1>1. t \in [CallSlot -> SlotType(ids)]
  BY DEF Table
<1>2. to \subseteq CmceCallState \ {"Idle"}
  BY DEF Transitions, CmceCallState
<1>3. type = "Release" /\ t[i].state \notin {"Idle", "Releasing"} => to = {"Releasing"}
  <2> SUFFICES ASSUME type = "Release", t[i].state \notin {"Idle", "Releasing"}
               PROVE  to = {"Releasing"}
    OBVIOUS
  <2>1. t[i].state \in CmceCallState \ {"Idle", "Releasing"}
    BY <1>1 DEF SlotType
  <2>2. <<t[i].state, "Release", "Releasing">> \in Transitions
    BY <2>1 DEF Transitions
  <2>3. \A e \in Transitions : e[2] = "Release" => e[3] = "Releasing"
    BY DEF Transitions
  <2> QED
    BY <2>2, <2>3
<1> HIDE DEF u, to
<1>4. CASE ~t[i].in_use
  BY <1>0, <1>4 DEF u
<1>5. CASE t[i].in_use /\ t[i].state = "Releasing" /\ type = "Release"
  <2>1. /\ u \in [CallSlot -> SlotType(ids)]
        /\ u[i] = [t[i] EXCEPT !.in_use = FALSE, !.state = "Idle", !.call = 0]
        /\ \A j \in CallSlot \ {i} : u[j] = t[j]
    BY <1>0, <1>1, <1>5 DEF CallRelease, SlotType, CmceCallState
  <2>2. ~u[i].in_use /\ u[i].state = "Idle" /\ u[i].call = 0
    BY <1>1, <2>1 DEF SlotType
  <2>3. Table(u, ids)
    BY <2>1, <2>2 DEF Table
  <2> QED
    BY <1>5, <2>1, <2>2, <2>3 DEF u
<1>6. CASE t[i].in_use /\ ~(t[i].state = "Releasing" /\ type = "Release") /\ to = {}
  <2>1. u = t
    BY <1>0, <1>6
  <2>2. type # "Release"
    BY <1>3, <1>6 DEF Table
  <2> QED
    BY <2>1, <2>2 DEF u
<1>7. CASE t[i].in_use /\ ~(t[i].state = "Releasing" /\ type = "Release") /\ to # {}
  <2> DEFINE s == CHOOSE s \in to : TRUE
  <2>1. s \in to
    BY <1>7
  <2>2. s \in CmceCallState /\ s # "Idle"
    BY <1>2, <2>1
  <2>3. type = "Release" => s = "Releasing"
    BY <1>3, <1>7, <2>1 DEF Table
  <2>4. u = [t EXCEPT ![i].state = s]
    BY <1>0, <1>7
  <2> HIDE DEF s
  <2>5. /\ u \in [CallSlot -> SlotType(ids)]
        /\ u[i] = [t[i] EXCEPT !.state = s]
        /\ \A j \in CallSlot \ {i} : u[j] = t[j]
    BY <1>1, <2>2, <2>4 DEF SlotType
  <2>6. u[i].in_use /\ u[i].state = s /\ u[i].call = t[i].call
    BY <1>1, <1>7, <2>5 DEF SlotType
  <2>7. Table(u, ids)
    <3>1. ASSUME NEW j \in CallSlot, NEW k \in CallSlot,
                 u[j].in_use, u[k].in_use, u[j].call = u[k].call
          PROVE  j = k
      <4>1. t[j].in_use /\ t[j].call = u[j].call
        BY <1>7, <2>5, <2>6, <3>1
      <4>2. t[k].in_use /\ t[k].call = u[k].call
        BY <1>7, <2>5, <2>6, <3>1
      <4> QED
        BY <3>1, <4>1, <4>2 DEF Table
    <3>2. \A j \in CallSlot : u[j].in_use <=> u[j].state # "Idle"
      BY <1>7, <2>2, <2>5, <2>6 DEF Table
    <3>3. \A j \in CallSlot : ~u[j].in_use => u[j].call = 0
      BY <1>7, <2>5, <2>6 DEF Table
    <3> QED
      BY <2>5, <3>1, <3>2, <3>3 DEF Table
  <2> QED
    BY <1>7, <2>3, <2>5, <2>6, <2>7 DEF u
<1> QED
  BY <1>4, <1>5, <1>6, <1>7

(* cmce_handle_tle_msg after the slot is known: one or two applications.   *)
LEMMA AnsweredTable ==
  ASSUME NEW ids, 0 \in ids, NEW t, Table(t, ids), NEW i \in CallSlot, NEW type \in UplinkTypes
  PROVE  /\ Table(Answered(t, i, type), ids)
         /\ \A j \in CallSlot \ {i} : Answered(t, i, type)[j] = t[j]
         /\ type = "Release" => ~Answered(t, i, type)[i].in_use
<1> DEFINE u == FsmApply(t, i, type)
           v == FsmApply(u, i, type)
<1>0. type \in CmceTypes
  BY DEF UplinkTypes, CmceTypes
<1>1. /\ Table(u, ids)
      /\ \A j \in CallSlot \ {i} : u[j] = t[j]
      /\ type = "Release" => (u[i].in_use => u[i].state = "Releasing")
  BY <1>0, FsmApplyTable
<1> HIDE DEF u
<1>2. /\ Table(v, ids)
      /\ \A j \in CallSlot \ {i} : v[j] = u[j]
      /\ type = "Release" /\ ~(u[i].in_use /\ u[i].state # "Releasing") => ~v[i].in_use
  BY <1>0, <1>1, FsmApplyTable
<1>3. Answered(t, i, type) = IF type = "Release" THEN v ELSE u
  BY DEF Answered, u
<1> HIDE DEF v
<1> QED
  BY <1>1, <1>2, <1>3

(* The whole handler keeps the table, changes it only with an answer, and  *)
(* leaves no slot for the call of a Release.                               *)
Answers == {"CallProceeding", "TxGranted", "Release"}

Handled(t, type, c, ids, h) ==
  /\ Table(h.calls, ids)
  /\ h.resp \in Answers \cup {"none"}
  /\ h.resp = "none" => h.calls = t
  /\ h.resp # "none" => type \in UplinkTypes
  /\ type = "Release" => Hits(h.calls, c) = {}
  /\ type = "Release" /\ h.resp # "none" => c \in ids /\ Hits(t, c) # {}

LEMMA HandleTable ==
  ASSUME NEW ids, 0 \in ids, NEW t, Table(t, ids), NEW type \in CmceTypes,
         NEW c, type = "Setup" => c \in ids, NEW peer \in Peers
  PROVE  Handled(t, type, c, ids, HandleTleMsg(t, type, c, peer))
<1> DEFINE i == CallLookup(t, c)
           j == CallAlloc(t, c)
           h == HandleTleMsg(t, type, c, peer)
           n == NewCall(t, j, c, peer)
<1>0. h = IF type \notin UplinkTypes THEN [calls |-> t, resp |-> "none"]
          ELSE IF i # 0 THEN [calls |-> Answered(t, i, type), resp |-> Response[type]]
          ELSE IF type = "Setup" /\ j # 0
          THEN [calls |-> Answered(n, j, type), resp |-> Response[type]]
          ELSE [calls |-> t, resp |-> "none"]
  BY Zenon DEF HandleTleMsg
<1>1. type \in UplinkTypes => Response[type] \in Answers /\ Response[type] # "none"
  BY DEF Response, UplinkTypes, Answers
<1>2. /\ i = 0 <=> Hits(t, c) = {}
      /\ i # 0 => i \in Hits(t, c)
  BY LookupFinds
<1>3. type = "Setup" /\ j # 0 => j \in CallSlot /\ Table(n, ids)
  BY AllocFinds, NewCallTable
<1> HIDE DEF i, j, h, n
<1>4. CASE type \notin UplinkTypes
  <2>1. type # "Release"
    BY <1>4 DEF UplinkTypes
  <2> QED
    BY <1>0, <1>4, <2>1 DEF h, Handled
<1>5. CASE type \in UplinkTypes /\ i # 0
  <2>1. i \in CallSlot /\ t[i].in_use /\ t[i].call = c /\ c \in ids
    BY <1>2, <1>5 DEF Hits, Table, SlotType
  <2>2. h.calls = Answered(t, i, type) /\ h.resp = Response[type]
    BY <1>0, <1>5
  <2>3. Table(h.calls, ids) /\ \A k \in CallSlot \ {i} : h.calls[k] = t[k]
    BY <1>5, <2>1, <2>2, AnsweredTable
  <2>4. ASSUME type = "Release" PROVE Hits(h.calls, c) = {}
    <3>1. ~h.calls[i].in_use
      BY <1>5, <2>1, <2>2, <2>4, AnsweredTable
    <3>2. \A k \in CallSlot \ {i} : ~(t[k].in_use /\ t[k].call = c)
      BY <2>1 DEF Table
    <3> QED
      BY <2>3, <3>1, <3>2 DEF Hits
  <2> QED
    BY <1>1, <1>2, <1>5, <2>1, <2>2, <2>3, <2>4 DEF h, Handled
<1>6. CASE type \in UplinkTypes /\ i = 0 /\ type = "Setup" /\ j # 0
  <2>1. h.calls = Answered(n, j, type) /\ h.resp = Response[type]
    BY <1>0, <1>6
  <2>2. Table(h.calls, ids)
    BY <1>3, <1>6, <2>1, AnsweredTable
  <2> QED
    BY <1>1, <1>6, <2>1, <2>2 DEF h, Handled
<1>7. CASE type \in UplinkTypes /\ i = 0 /\ ~(type = "Setup" /\ j # 0)
  <2>1. h.calls = t /\ h.resp = "none"
    BY <1>0, <1>7
  <2> QED
    BY <1>2, <1>7, <2>1 DEF h, Handled
<1> QED
  BY <1>4, <1>5, <1>6, <1>7

-----------------------------------------------------------------------------
CmceIInv == CmceTypeOK /\ CallTable /\ ReleaseFrees

LEMMA CmceIInvIsTable ==
  CmceIInv <=>
    /\ Table(calls, CallIds)
    /\ last \in [type : CmceTypes \cup {"none"}, call : CallIds,
                 resp : CmceTypes \cup {"none"}]
    /\ last.type = "Release" => Hits(calls, last.call) = {}
<1>1. CallLookup(calls, last.call) = 0 <=> Hits(calls, last.call) = {}
  BY LookupFinds
<1> QED
  BY <1>1 DEF CmceIInv, CmceTypeOK, CallTable, ReleaseFrees, Table, SlotType

LEMMA InitTable == CmceInit => CmceIInv
<1> SUFFICES ASSUME CmceInit PROVE CmceIInv
  OBVIOUS
<1>1. Table(calls, CallIds)
  BY CallIdsAssumption DEF CmceInit, Table, FreeSlot, SlotType, CmceCallState
<1>2. last = [type |-> "none", call |-> 0, resp |-> "none"]
  BY DEF CmceInit, NoPdu
<1> QED
  BY <1>1, <1>2, CallIdsAssumption, CmceIInvIsTable

(* An uplink PDU: the table after the handler, and what became of its call.*)
LEMMA UpcallTable ==
  ASSUME CmceIInv, NEW type \in CmceTypes, NEW c \in CallIds, NEW peer \in Peers,
         OnTleUpcall(type, c, peer)
  PROVE  CmceIInv'
<1> DEFINE d == DecodedCall(type, c)
           h == HandleTleMsg(calls, type, d, peer)
<1>1. d \in CallIds
  BY CallIdsAssumption DEF DecodedCall
<1>2. Table(calls, CallIds)
  BY CmceIInvIsTable
<1>3. /\ Table(h.calls, CallIds)
      /\ h.resp \in Answers \cup {"none"}
      /\ type = "Release" => Hits(h.calls, d) = {}
  BY <1>1, <1>2, CallIdsAssumption, HandleTable DEF Handled
<1>4. calls' = h.calls /\ last' = [type |-> type, call |-> d, resp |-> h.resp]
  BY DEF OnTleUpcall
<1> HIDE DEF d, h
<1>5. Table(calls', CallIds)
  BY <1>3, <1>4
<1>6. last' \in [type : CmceTypes \cup {"none"}, call : CallIds,
                 resp : CmceTypes \cup {"none"}]
  BY <1>1, <1>3, <1>4 DEF Answers, CmceTypes
<1>7. last'.type = "Release" => Hits(calls', last'.call) = {}
  BY <1>3, <1>4
<1>8. CallLookup(calls', last'.call) = 0 <=> Hits(calls', last'.call) = {}
  BY LookupFinds
<1> QED
  BY <1>5, <1>6, <1>7, <1>8 DEF CmceIInv, CmceTypeOK, CallTable, ReleaseFrees, Table, SlotType

(* A call opened or driven by the base station: the table is kept, and no  *)
(* Release is the last uplink PDU.                                         *)
LEMMA BaseStationTable ==
  ASSUME CmceIInv, Table(calls', CallIds), last' = NoPdu
  PROVE  CmceIInv'
<1>1. /\ last' \in [type : CmceTypes \cup {"none"}, call : CallIds,
                    resp : CmceTypes \cup {"none"}]
      /\ last'.type # "Release"
  BY CallIdsAssumption DEF NoPdu
<1> QED
  BY <1>1 DEF CmceIInv, CmceTypeOK, CallTable, ReleaseFrees, Table, SlotType

LEMMA NextTable == CmceIInv /\ [CmceNext]_cmceVars => CmceIInv'
<1> SUFFICES ASSUME CmceIInv, [CmceNext]_cmceVars PROVE CmceIInv'
  OBVIOUS
<1>0. Table(calls, CallIds) /\ 0 \in CallIds
  BY CmceIInvIsTable, CallIdsAssumption
<1>1. ASSUME NEW type \in CmceTypes, NEW c \in CallIds, NEW peer \in Peers,
             OnTleUpcall(type, c, peer)
      PROVE  CmceIInv'
  BY <1>1, UpcallTable
<1>2. ASSUME NEW c \in CallIds, NEW peer \in Peers, OpenCall(c, peer)
      PROVE  CmceIInv'
  BY <1>0, <1>2, NewCallTable, BaseStationTable DEF OpenCall
<1>3. ASSUME NEW i \in CallSlot, NEW type \in CmceTypes, ApplyDownlink(i, type)
      PROVE  CmceIInv'
  BY <1>0, <1>3, FsmApplyTable, BaseStationTable DEF ApplyDownlink
<1>4. CASE UNCHANGED cmceVars
  BY <1>4 DEF cmceVars, CmceIInv, CmceTypeOK, CallTable, ReleaseFrees
<1> QED
  BY <1>1, <1>2, <1>3, <1>4 DEF CmceNext

LEMMA AlwaysTable == CmceSpec => []CmceIInv
<1> QED
  BY InitTable, NextTable, PTL DEF CmceSpec

(* For every table size and whatever both sides do to the calls: one slot  *)
(* per active call identifier, and in_use says the same as the state       *)
(* (cmce_fsm.c, cmce_handle_tle_msg).                                      *)
THEOREM OneSlotPerCall == CmceSpec => []CallTable
<1>1. CmceIInv => CallTable
  BY DEF CmceIInv
<1> QED
  BY <1>1, AlwaysTable, PTL

(* For every table size: after a U-RELEASE no slot of its call is in use,  *)
(* also when it crosses a D-RELEASE (cmce_handle_tle_msg).                 *)
THEOREM ReleaseEndsCall == CmceSpec => []ReleaseFrees
<1>1. CmceIInv => ReleaseFrees
  BY DEF CmceIInv
<1> QED
  BY <1>1, AlwaysTable, PTL

(* The slots hold only identifiers, states and addresses of their types.   *)
THEOREM CmceTypeCorrect == CmceSpec => []CmceTypeOK
<1>1. CmceIInv => CmceTypeOK
  BY DEF CmceIInv
<1> QED
  BY <1>1, AlwaysTable, PTL
-----------------------------------------------------------------------------
(* The wired stack.  What the daemon itself sends is an answer of the CMCE *)
(* or the broadcast, and a call that a mobile station opened has the       *)
(* identifier 0.                                                           *)

Ids14 == 0 .. 16383

Bodies == [pd : {"none", "mm", "cmce"}, code : 0 .. 31, call : Ids14, full : BOOLEAN]

Own(b) ==
  /\ b.pd = "none"
  /\ b.code \in {TypeCode[t] : t \in Answers} \/ (b.code = 10 /\ b.full = FALSE)

HighSet ==
  {f \in [type : {"DATA", "ACK"}, n : {0, 1}, body : Bodies] : f.type = "DATA" => Own(f.body)}
NormSet ==
  {m \in [to : {"llc", "cmce"}, body : Bodies, own : BOOLEAN] :
     /\ m.to = "llc" => m.own
     /\ m.own => Own(m.body)}

Types ==
  /\ ep \in [ns : {0, 1}, nr : {0, 1}, aw : BOOLEAN]
  /\ high \in Seq(HighSet) /\ Len(high) <= HighCap
  /\ norm \in Seq(NormSet) /\ Len(norm) <= NormCap
  /\ Table(table, {0})
  /\ since \in 0 .. Period - 1 /\ left \in 0 .. Budget /\ rx \in 0 .. MaxRx
  /\ mm \in [up : BOOLEAN, mle : {FALSE}]

LEMMA Codes ==
  /\ TypeCode["Setup"] = 7 /\ TypeCode["CallProceeding"] = 1 /\ TypeCode["Connect"] = 2
  /\ TypeCode["TxDemand"] = 10 /\ TypeCode["TxGranted"] = 11 /\ TypeCode["Release"] = 6
BY DEF TypeCode, CmceTypes

LEMMA OwnCodes ==
  ASSUME NEW b, Own(b)
  PROVE  b.pd = "none" /\ b.code \in {1, 6, 10, 11} /\ (b.code = 10 => ~b.full)
BY Codes DEF Own, Answers

(* A D-RELEASE starts with the MM discriminator, and then reads as MM type *)
(* 8 or more.                                                              *)
LEMMA OwnIsNoDemand ==
  ASSUME NEW b \in Bodies, Own(b)
  PROVE  ~MleTakes(b)
<1>1. b.pd = "none" /\ b.code \in {1, 6, 10, 11}
  BY OwnCodes
<1>2. Peek5(b) = b.code
  BY <1>1 DEF Peek5
<1>3. MmType(b) = (b.code % 4) * 4 + b.call \div 4096
  BY <1>1 DEF MmType
<1>4. b.call \div 4096 \in Nat
  <2>1. b.call \in Ids14
    BY DEF Bodies
  <2>2. \A c \in Ids14 : c \div 4096 \in Nat
    BY DEF Ids14
  <2> QED
    BY <2>1, <2>2
<1>5. CASE b.code = 6
  BY <1>3, <1>4, <1>5 DEF MleTakes
<1>6. CASE b.code # 6
  BY <1>1, <1>2, <1>6 DEF MleTakes
<1> QED
  BY <1>5, <1>6

(* What on_tle_upcall takes a body for.                                    *)
TypeOf(b) == CHOOSE t \in CmceTypes : TypeCode[t] = Peek5(b)

LEMMA TypeOfBody ==
  ASSUME NEW b, LooksCmce(b)
  PROVE  TypeOf(b) \in CmceTypes /\ TypeCode[TypeOf(b)] = Peek5(b)
BY DEF LooksCmce, TypeOf

(* Of the daemon's own PDUs only the D-RELEASE has an uplink type.         *)
LEMMA TypeOfOwn ==
  ASSUME NEW b, Own(b), LooksCmce(b), b.full, TypeOf(b) \in UplinkTypes
  PROVE  TypeOf(b) = "Release"
<1>1. Peek5(b) = b.code
  BY OwnCodes DEF Peek5
<1>2. TypeCode[TypeOf(b)] \in {1, 6, 11}
  BY <1>1, OwnCodes, TypeOfBody
<1> QED
  BY <1>2, Codes DEF UplinkTypes

LEMMA OwnBodies ==
  /\ \A resp \in Answers, c \in Ids14 : CmceBody(resp, c) \in Bodies /\ Own(CmceBody(resp, c))
  /\ BroadcastBody \in Bodies /\ Own(BroadcastBody)
  /\ NoBody \in Bodies
<1>0. 0 \in Ids14
  BY DEF Ids14
<1>1. ASSUME NEW resp \in Answers, NEW c \in Ids14
      PROVE  CmceBody(resp, c) \in Bodies /\ Own(CmceBody(resp, c))
  <2>1. TypeCode[resp] \in 0 .. 31
    BY Codes DEF Answers
  <2> QED
    BY <2>1 DEF CmceBody, Body, Bodies, Own
<1>2. BroadcastBody \in Bodies /\ Own(BroadcastBody)
  BY <1>0 DEF BroadcastBody, Body, Bodies, Own
<1>3. NoBody \in Bodies
  BY <1>0 DEF NoBody, Body, Bodies
<1> QED
  BY <1>1, <1>2, <1>3

(* A post, whether or not there is room.                                   *)
LEMMA PostTypes ==
  ASSUME Types
  PROVE  /\ \A q \in Seq(HighSet), f \in HighSet :
              Len(q) <= Len(high) /\ PostHigh(q, f) => high' \in Seq(HighSet) /\ Len(high') <= HighCap
         /\ \A q \in Seq(NormSet), m \in NormSet :
              Len(q) <= Len(norm) /\ PostNorm(q, m) => norm' \in Seq(NormSet) /\ Len(norm') <= NormCap
<1>1. ASSUME NEW q \in Seq(HighSet), NEW f \in HighSet, Len(q) <= Len(high), PostHigh(q, f)
      PROVE  high' \in Seq(HighSet) /\ Len(high') <= HighCap
  BY <1>1, StackCapAssumption DEF PostHigh, Types
<1>2. ASSUME NEW q \in Seq(NormSet), NEW m \in NormSet, Len(q) <= Len(norm), PostNorm(q, m)
      PROVE  norm' \in Seq(NormSet) /\ Len(norm') <= NormCap
  BY <1>2, StackCapAssumption DEF PostNorm, Types
<1> QED
  BY <1>1, <1>2

LEMMA AckFrame ==
  ASSUME NEW n \in {0, 1}
  PROVE  Frame("ACK", n, NoBody) \in HighSet
BY OwnBodies DEF Frame, HighSet

UlTypes == {"DATA", "ACK", "UDATA", "SETUP"}

(* The LLC receives a frame: off the air, or one of its own.               *)
LEMMA ReceiveTypes ==
  ASSUME Types, NEW f \in [type : UlTypes, n : {0, 1}, body : Bodies],
         NEW own \in BOOLEAN, own => f \in HighSet,
         NEW q \in Seq(HighSet), Len(q) <= Len(high), LlcReceive(f, own, q)
  PROVE  /\ ep' \in [ns : {0, 1}, nr : {0, 1}, aw : BOOLEAN]
         /\ high' \in Seq(HighSet) /\ Len(high') <= HighCap
         /\ norm' \in Seq(NormSet) /\ Len(norm') <= NormCap
         /\ mm' \in [up : BOOLEAN, mle : {FALSE}]
<1>0. high \in Seq(HighSet) /\ norm \in Seq(NormSet) /\ Len(high) <= HighCap
  BY DEF Types
<1>1. /\ ep \in [ns : {0, 1}, nr : {0, 1}, aw : BOOLEAN]
      /\ norm \in Seq(NormSet) /\ Len(norm) <= NormCap /\ Len(norm) <= Len(norm)
      /\ Len(q) <= HighCap
      /\ mm \in [up : BOOLEAN, mle : {FALSE}]
  <2>1. Len(norm) \in Nat /\ Len(high) \in Nat /\ Len(q) \in Nat
    BY <1>0
  <2>2. Len(q) <= HighCap
    BY <1>0, <2>1, StackCapAssumption
  <2>3. /\ ep \in [ns : {0, 1}, nr : {0, 1}, aw : BOOLEAN]
        /\ Len(norm) <= NormCap /\ mm \in [up : BOOLEAN, mle : {FALSE}]
    BY Zenon DEF Types
  <2>4. Len(norm) <= Len(norm)
    BY <2>1
  <2> QED
    BY <1>0, <2>2, <2>3, <2>4
<1>2. ep.nr \in {0, 1} /\ 1 - ep.nr \in {0, 1}
  BY <1>1
<1>3. CASE /\ f.type = "DATA" /\ f.n = ep.nr
           /\ ep' = [ep EXCEPT !.nr = 1 - @]
           /\ PostNorm(norm, [to |-> "cmce", body |-> f.body, own |-> own])
           /\ PostHigh(q, Frame("ACK", 1 - ep.nr, NoBody))
           /\ mm' = [mm EXCEPT !.up = @ \/ (~own /\ MleTakes(f.body))]
  <2>1. [to |-> "cmce", body |-> f.body, own |-> own] \in NormSet
    BY <1>3 DEF NormSet, HighSet
  <2>2. norm' \in Seq(NormSet) /\ Len(norm') <= NormCap
    BY <1>1, <1>3, <2>1, PostTypes
  <2>3. high' \in Seq(HighSet) /\ Len(high') <= HighCap
    BY <1>2, <1>3, AckFrame, PostTypes
  <2>4. ep' \in [ns : {0, 1}, nr : {0, 1}, aw : BOOLEAN]
    BY <1>1, <1>2, <1>3
  <2>5. mm' \in [up : BOOLEAN, mle : {FALSE}]
    BY <1>1, <1>3 DEF MleTakes
  <2> QED
    BY <2>2, <2>3, <2>4, <2>5
<1>4. CASE /\ f.type = "DATA" /\ f.n # ep.nr
           /\ PostHigh(q, Frame("ACK", ep.nr, NoBody))
           /\ UNCHANGED <<ep, norm, mm>>
  <2>1. high' \in Seq(HighSet) /\ Len(high') <= HighCap
    BY <1>2, <1>4, AckFrame, PostTypes
  <2> QED
    BY <1>1, <1>4, <2>1
<1>5. CASE /\ f.type = "ACK"
           /\ ep' = IF f.n = ep.ns THEN [ep EXCEPT !.aw = FALSE] ELSE ep
           /\ high' = q
           /\ UNCHANGED <<norm, mm>>
  <2>1. ep' \in [ns : {0, 1}, nr : {0, 1}, aw : BOOLEAN]
    BY <1>1, <1>5
  <2> QED
    BY <1>1, <1>5, <2>1
<1>6. CASE /\ f.type \in {"UDATA", "SETUP"}
           /\ PostNorm(norm, [to |-> "cmce", body |-> f.body, own |-> own])
           /\ high' = q
           /\ mm' = [mm EXCEPT !.up = @ \/ (~own /\ MleTakes(f.body))]
           /\ UNCHANGED ep
  <2>0. ~own
    BY <1>6 DEF HighSet
  <2>1. [to |-> "cmce", body |-> f.body, own |-> own] \in NormSet
    BY <2>0 DEF NormSet
  <2>2. norm' \in Seq(NormSet) /\ Len(norm') <= NormCap
    BY <1>1, <1>6, <2>1, PostTypes
  <2>3. mm' \in [up : BOOLEAN, mle : {FALSE}]
    BY <1>1, <1>6 DEF MleTakes
  <2> QED
    BY <1>1, <1>6, <2>2, <2>3
<1> QED
  BY <1>3, <1>4, <1>5, <1>6 DEF LlcReceive

LEMMA InitStackTypes == Init => Types
<1> SUFFICES ASSUME Init PROVE Types
  OBVIOUS
<1>1. Table(table, {0})
  BY DEF Init, Table, FreeSlot, SlotType, CmceCallState
<1>2. high \in Seq(HighSet) /\ norm \in Seq(NormSet) /\ Len(high) = 0 /\ Len(norm) = 0
  BY DEF Init
<1> QED
  BY <1>1, <1>2, StackCapAssumption, StackBudgetAssumption, StackBoundAssumption DEF Init, Types

LEMMA UplinkFrame ==
  ASSUME NEW f \in UlFrames
  PROVE  f \in [type : UlTypes, n : {0, 1}, body : Bodies]
<1>1. UlBodies \subseteq Bodies
  <2> DEFINE D == [pd : {"none", "mm", "cmce"}, code : 0 .. 31, call : 0 .. 16383, full : BOOLEAN]
  <2>1. Bodies = D
    BY DEF Bodies, Ids14
  <2>2. UlBodies \subseteq D
    BY StackBodyAssumption
  <2> HIDE DEF D
  <2> QED
    BY <2>1, <2>2
<1>2. CASE \E n \in {0, 1}, b \in UlBodies : f = Frame("DATA", n, b)
  <2>1. PICK n \in {0, 1}, b \in UlBodies : f = Frame("DATA", n, b)
    BY <1>2
  <2>2. b \in Bodies
    BY <1>1
  <2> QED
    BY <2>1, <2>2 DEF Frame, UlTypes
<1>3. CASE \E n \in {0, 1} : f = Frame("ACK", n, NoBody)
  <2>1. PICK n \in {0, 1} : f = Frame("ACK", n, NoBody)
    BY <1>3
  <2>2. NoBody \in Bodies
    BY OwnBodies
  <2> QED
    BY <2>1, <2>2 DEF Frame, UlTypes
<1>4. CASE \E b \in UlBodies : f = Frame("UDATA", 0, b)
  <2>1. PICK b \in UlBodies : f = Frame("UDATA", 0, b)
    BY <1>4
  <2>2. b \in Bodies
    BY <1>1
  <2> QED
    BY <2>1, <2>2 DEF Frame, UlTypes
<1>5. CASE f = Frame("SETUP", 0, NoBody)
  <2>1. NoBody \in Bodies
    BY OwnBodies
  <2> QED
    BY <1>5, <2>1 DEF Frame, UlTypes
<1> QED
  <2>1. \/ \E n \in {0, 1}, b \in UlBodies : f = Frame("DATA", n, b)
        \/ \E n \in {0, 1} : f = Frame("ACK", n, NoBody)
        \/ \E b \in UlBodies : f = Frame("UDATA", 0, b)
        \/ f = Frame("SETUP", 0, NoBody)
    BY SMT DEF UlFrames
  <2> QED
    BY <1>2, <1>3, <1>4, <1>5, <2>1

LEMMA DmaRxTypes ==
  ASSUME Types, NEW f \in UlFrames, DmaRx(f)
  PROVE  Types'
<1>1. /\ LlcReceive(f, FALSE, high) /\ UNCHANGED <<table, since, left>>
      /\ rx < MaxRx /\ rx' = rx + 1
  BY DEF DmaRx
<1>2. high \in Seq(HighSet) /\ rx \in 0 .. MaxRx
  BY DEF Types
<1>3. Len(high) <= Len(high) /\ f \in [type : UlTypes, n : {0, 1}, body : Bodies]
  BY <1>2, UplinkFrame
<1>4. /\ ep' \in [ns : {0, 1}, nr : {0, 1}, aw : BOOLEAN]
      /\ high' \in Seq(HighSet) /\ Len(high') <= HighCap
      /\ norm' \in Seq(NormSet) /\ Len(norm') <= NormCap
      /\ mm' \in [up : BOOLEAN, mle : {FALSE}]
  BY <1>1, <1>2, <1>3, ReceiveTypes
<1>5. rx' \in 0 .. MaxRx
  BY <1>1, <1>2, StackBoundAssumption
<1> QED
  BY <1>1, <1>4, <1>5 DEF Types, Table

LEMMA TickTypes ==
  ASSUME Types, NEW e \in 1 .. 2, Tick(e)
  PROVE  Types'
<1>1. norm \in Seq(NormSet) /\ since \in 0 .. Period - 1
  BY DEF Types
<1>2. [to |-> "llc", body |-> BroadcastBody, own |-> TRUE] \in NormSet
  BY OwnBodies DEF NormSet
<1>3. Len(norm) <= Len(norm) /\ Len(norm) <= NormCap
  BY <1>1 DEF Types
<1>4. left' \in 0 .. Budget /\ rx' \in 0 .. MaxRx
  BY StackBudgetAssumption, StackBoundAssumption DEF Tick
<1>5. CASE since + e < Period
  <2>1. since' = since + e /\ norm' = norm
    BY <1>1, <1>5, StackBudgetAssumption DEF Tick
  <2>2. since' \in 0 .. Period - 1
    BY <1>1, <1>5, <2>1, StackBudgetAssumption
  <2> QED
    BY <1>1, <1>3, <1>4, <2>1, <2>2 DEF Types, Tick, Table
<1>6. CASE since + e >= Period
  <2>1. since' = 0 /\ PostNorm(norm, [to |-> "llc", body |-> BroadcastBody, own |-> TRUE])
    BY <1>1, <1>6, StackBudgetAssumption DEF Tick
  <2>2. norm' \in Seq(NormSet) /\ Len(norm') <= NormCap
    BY <1>1, <1>2, <1>3, <2>1, PostTypes
  <2>3. since' \in 0 .. Period - 1
    BY <2>1, StackBudgetAssumption
  <2> QED
    BY <1>4, <2>2, <2>3 DEF Types, Tick, Table
<1> QED
  BY <1>1, <1>5, <1>6, StackBudgetAssumption

LEMMA HighTypes ==
  ASSUME Types, DispatchHigh
  PROVE  Types'
<1> DEFINE f == Head(high)
           q == Tail(high)
<1>1. high \in Seq(HighSet) /\ high # <<>> /\ left > 0 /\ left \in 0 .. Budget
  BY DEF Types, DispatchHigh
<1>2. f \in HighSet /\ q \in Seq(HighSet) /\ Len(q) <= Len(high)
  BY <1>1
<1>3. LlcReceive(f, TRUE, q)
  BY DEF DispatchHigh
<1>4. f \in [type : UlTypes, n : {0, 1}, body : Bodies]
  BY <1>2 DEF HighSet, UlTypes
<1> HIDE DEF f, q
<1>5. /\ ep' \in [ns : {0, 1}, nr : {0, 1}, aw : BOOLEAN]
      /\ high' \in Seq(HighSet) /\ Len(high') <= HighCap
      /\ norm' \in Seq(NormSet) /\ Len(norm') <= NormCap
      /\ mm' \in [up : BOOLEAN, mle : {FALSE}]
  BY <1>2, <1>3, <1>4, ReceiveTypes
<1>6. left' \in 0 .. Budget
  BY <1>1, StackBudgetAssumption DEF DispatchHigh
<1> QED
  BY <1>5, <1>6 DEF Types, DispatchHigh, Table

LEMMA DownTypes ==
  ASSUME Types, DispatchDown
  PROVE  Types'
<1> DEFINE m == Head(norm)
<1>1. /\ norm \in Seq(NormSet) /\ norm # <<>> /\ Len(norm) <= NormCap
      /\ high \in Seq(HighSet) /\ left > 0 /\ left \in 0 .. Budget
      /\ ep \in [ns : {0, 1}, nr : {0, 1}, aw : BOOLEAN]
      /\ mm \in [up : BOOLEAN, mle : {FALSE}]
  BY DEF Types, DispatchDown
<1>2. m \in NormSet /\ Tail(norm) \in Seq(NormSet) /\ Len(Tail(norm)) <= NormCap
  BY <1>1, StackCapAssumption
<1>3. m.to = "llc"
  BY DEF DispatchDown
<1>4. m.body \in Bodies /\ Own(m.body)
  BY <1>2, <1>3 DEF NormSet
<1>5. Frame("DATA", ep.ns, m.body) \in HighSet
  BY <1>1, <1>4 DEF Frame, HighSet
<1>6. /\ PostHigh(high, Frame("DATA", ep.ns, m.body))
      /\ norm' = Tail(norm)
      /\ ep' = [ep EXCEPT !.ns = 1 - @, !.aw = TRUE]
      /\ mm' = [mm EXCEPT !.mle = @ \/ MleTakes(m.body)]
      /\ left' = left - 1
      /\ UNCHANGED <<table, since, rx>>
  BY DEF DispatchDown
<1> HIDE DEF m
<1>7. Len(high) <= Len(high)
  BY <1>1
<1>8. high' \in Seq(HighSet) /\ Len(high') <= HighCap
  BY <1>1, <1>5, <1>6, <1>7, PostTypes
<1>9. ep' \in [ns : {0, 1}, nr : {0, 1}, aw : BOOLEAN]
  <2>1. 1 - ep.ns \in {0, 1}
    BY <1>1
  <2> QED
    BY <1>1, <1>6, <2>1
<1>10. mm' \in [up : BOOLEAN, mle : {FALSE}]
  <2>1. ~MleTakes(m.body)
    BY <1>4, OwnIsNoDemand
  <2> QED
    BY <1>1, <1>6, <2>1
<1>11. left' \in 0 .. Budget
  BY <1>1, <1>6, StackBudgetAssumption
<1> QED
  BY <1>2, <1>6, <1>8, <1>9, <1>10, <1>11 DEF Types, Table

(* What the CMCE makes of the body at the head of the Normal bucket.       *)
Upcall(b) ==
  HandleTleMsg(table, TypeOf(b), IF TypeOf(b) = "Setup" THEN 0 ELSE b.call, "ms")
Reply(b) ==
  [to |-> "llc", own |-> TRUE,
   body |-> CmceBody(Upcall(b).resp, IF TypeOf(b) = "Setup" THEN 0 ELSE b.call)]

(* The three ways of on_tle_upcall: nothing known, no answer, an answer.   *)
LEMMA UpCases ==
  ASSUME DispatchUp
  PROVE  LET b == Head(norm).body IN
         \/ norm' = Tail(norm) /\ table' = table
         \/ /\ LooksCmce(b) /\ b.full
            /\ table' = Upcall(b).calls /\ Upcall(b).resp = "none"
            /\ norm' = Tail(norm)
         \/ /\ LooksCmce(b) /\ b.full
            /\ table' = Upcall(b).calls /\ Upcall(b).resp # "none"
            /\ PostNorm(Tail(norm), Reply(b))
BY Zenon DEF DispatchUp, Upcall, Reply, TypeOf

LEMMA UpcallTable1 ==
  ASSUME Types, NEW b \in Bodies, LooksCmce(b)
  PROVE  /\ Table(Upcall(b).calls, {0})
         /\ Upcall(b).resp \in Answers \cup {"none"}
         /\ Upcall(b).resp = "none" => Upcall(b).calls = table
         /\ Upcall(b).resp # "none" => TypeOf(b) \in UplinkTypes
         /\ TypeOf(b) = "Release" /\ Upcall(b).resp # "none" =>
              /\ \E i \in CallSlot : table[i].in_use
              /\ \A i \in CallSlot : ~Upcall(b).calls[i].in_use
<1> DEFINE type == TypeOf(b)
           c == IF type = "Setup" THEN 0 ELSE b.call
           h == HandleTleMsg(table, type, c, "ms")
<1>1. type \in CmceTypes
  BY TypeOfBody
<1>2. Table(table, {0})
  BY DEF Types
<1> HIDE DEF type
<1> DEFINE ids == {0}
<1>7. 0 \in ids /\ (type = "Setup" => c \in ids) /\ Table(table, ids)
  BY <1>2
<1> HIDE DEF c, ids
<1>8. Handled(table, type, c, ids, h)
  BY <1>1, <1>7, StackPeerAssumption, HandleTable
<1>3. /\ Table(h.calls, {0})
      /\ h.resp \in Answers \cup {"none"}
      /\ h.resp = "none" => h.calls = table
      /\ h.resp # "none" => type \in UplinkTypes
  BY Zenon, <1>8 DEF ids, Handled
<1>0. /\ type = "Release" => Hits(h.calls, c) = {}
      /\ type = "Release" /\ h.resp # "none" => c \in {0} /\ Hits(table, c) # {}
  BY Zenon, <1>8 DEF ids, Handled
<1>4. Upcall(b) = h
  BY DEF Upcall, type, c
<1> HIDE DEF h
<1>5. ASSUME type = "Release", h.resp # "none", NEW i \in CallSlot
      PROVE  ~h.calls[i].in_use
  <2>1. c = 0 /\ i \notin Hits(h.calls, c)
    BY <1>0, <1>5
  <2>2. h.calls[i].call = 0
    BY <1>3 DEF Table, SlotType
  <2> QED
    BY <2>1, <2>2 DEF Hits
<1>6. ASSUME type = "Release", h.resp # "none"
      PROVE  \E i \in CallSlot : table[i].in_use
  BY <1>0, <1>6 DEF Hits
<1> QED
  BY <1>3, <1>4, <1>5, <1>6 DEF type

LEMMA UpTypes ==
  ASSUME Types, DispatchUp
  PROVE  Types'
<1> DEFINE m == Head(norm)
           b == m.body
<1>1. /\ norm \in Seq(NormSet) /\ norm # <<>> /\ Len(norm) <= NormCap
      /\ left > 0 /\ left \in 0 .. Budget
  BY DEF Types, DispatchUp
<1>2. /\ m \in NormSet /\ Tail(norm) \in Seq(NormSet)
      /\ Len(Tail(norm)) <= NormCap /\ Len(Tail(norm)) <= Len(norm)
  BY <1>1, StackCapAssumption
<1>3. b \in Bodies /\ b.call \in Ids14 /\ 0 \in Ids14
  <2>1. b \in Bodies /\ b.call \in Ids14
    BY <1>2 DEF NormSet, Bodies
  <2>2. 0 \in Ids14
    BY DEF Ids14
  <2> QED
    BY <2>1, <2>2
<1>4. \/ norm' = Tail(norm) /\ table' = table
      \/ /\ LooksCmce(b) /\ b.full
         /\ table' = Upcall(b).calls /\ Upcall(b).resp = "none"
         /\ norm' = Tail(norm)
      \/ /\ LooksCmce(b) /\ b.full
         /\ table' = Upcall(b).calls /\ Upcall(b).resp # "none"
         /\ PostNorm(Tail(norm), Reply(b))
  BY UpCases
<1> HIDE DEF b, m
<1>5. Table(table', {0})
  <2>1. Table(table, {0})
    BY DEF Types
  <2> QED
    BY <1>3, <1>4, <2>1, UpcallTable1
<1>6. norm' \in Seq(NormSet) /\ Len(norm') <= NormCap
  <2>1. CASE norm' = Tail(norm)
    BY <1>2, <2>1
  <2>2. CASE LooksCmce(b) /\ Upcall(b).resp # "none" /\ PostNorm(Tail(norm), Reply(b))
    <3>1. Upcall(b).resp \in Answers
      BY <1>3, <2>2, UpcallTable1
    <3>2. Reply(b) \in NormSet
      BY <1>3, <3>1, OwnBodies DEF Reply, NormSet
    <3> QED
      BY <1>2, <2>2, <3>2, PostTypes
  <2> QED
    BY <1>4, <2>1, <2>2
<1>7. left' \in 0 .. Budget
  BY <1>1, StackBudgetAssumption DEF DispatchUp
<1> QED
  BY <1>5, <1>6, <1>7 DEF Types, DispatchUp, Table

LEMMA NextStackTypes == Types /\ [Next]_vars => Types'
<1> SUFFICES ASSUME Types, [Next]_vars PROVE Types'
  OBVIOUS
<1>1. CASE \E f \in UlFrames : DmaRx(f)
  BY <1>1, DmaRxTypes
<1>2. CASE \E e \in 1 .. 2 : Tick(e)
  BY <1>2, TickTypes
<1>3. CASE DispatchHigh
  BY <1>3, HighTypes
<1>4. CASE DispatchDown
  BY <1>4, DownTypes
<1>5. CASE DispatchUp
  BY <1>5, UpTypes
<1>6. CASE TickEnd
  <2>1. left' \in 0 .. Budget
    BY <1>6, StackBudgetAssumption DEF TickEnd
  <2> QED
    BY <1>6, <2>1 DEF TickEnd, Types, Table
<1>7. CASE UNCHANGED vars
  BY <1>7 DEF vars, Types, Table
<1> QED
  BY <1>1, <1>2, <1>3, <1>4, <1>5, <1>6, <1>7 DEF Next

LEMMA AlwaysStackTypes == Spec => []Types
<1> QED
  BY InitStackTypes, NextStackTypes, PTL DEF Spec

(* For every size of the buckets, every budget and all bodies that mobile  *)
(* stations may send: none of the PDUs the daemon sends down, which the    *)
(* MLE sees too, reads as a mobility demand (strip_mle_pd, mm_iep_decode). *)
THEOREM OwnPdusAreNoDemands == Spec => []DownlinkIsNoDemand
<1>1. Types => DownlinkIsNoDemand
  BY DEF Types, DownlinkIsNoDemand
<1> QED
  BY <1>1, AlwaysStackTypes, PTL

(* The buckets keep their capacity, the endpoint its single bits, and the  *)
(* call table its states, as wired.                                        *)
THEOREM StackTypeCorrect == Spec => []TypeOK
<1>1. ASSUME Types PROVE TypeOK
  <2>1. \A i \in CallSlot : table[i].state \in CmceCallState
    BY <1>1 DEF Types, Table, SlotType
  <2>2. since \in 0 .. Period
    BY <1>1, StackBudgetAssumption DEF Types
  <2>3. mm \in [up : BOOLEAN, mle : BOOLEAN]
    BY <1>1 DEF Types
  <2> QED
    BY <1>1, <2>1, <2>2, <2>3 DEF Types, TypeOK
<1> QED
  BY <1>1, AlwaysStackTypes, PTL

-----------------------------------------------------------------------------
(* The echoes die out.  Every message in the buckets is given the number   *)
(* of dispatches it can still cause; suffix sums keep the total without a  *)
(* recursive definition.                                                   *)

Weighs(q, w, n) ==
  \E sum \in [1 .. Len(q) + 1 -> Nat] :
    /\ sum[1] = n
    /\ sum[Len(q) + 1] = 0
    /\ \A i \in 1 .. Len(q) : sum[i] = w[q[i]] + sum[i + 1]

LEMMA WeighsEmpty ==
  ASSUME NEW w
  PROVE  Weighs(<<>>, w, 0)
<1> DEFINE sum == [i \in 1 .. 1 |-> 0]
<1>1. Len(<<>>) = 0
  OBVIOUS
<1>2. /\ sum \in [1 .. 0 + 1 -> Nat] /\ sum[1] = 0 /\ sum[0 + 1] = 0
      /\ \A i \in 1 .. 0 : sum[i] = w[<<>>[i]] + sum[i + 1]
  OBVIOUS
<1> HIDE DEF sum
<1> QED
  BY <1>1, <1>2 DEF Weighs

LEMMA WeighsNat ==
  ASSUME NEW S, NEW q \in Seq(S), NEW w \in [S -> Nat \ {0}], NEW n, Weighs(q, w, n)
  PROVE  n \in Nat /\ (n = 0 => q = <<>>)
<1>1. PICK sum \in [1 .. Len(q) + 1 -> Nat] :
        /\ sum[1] = n
        /\ \A i \in 1 .. Len(q) : sum[i] = w[q[i]] + sum[i + 1]
  BY DEF Weighs
<1>2. Len(q) \in Nat
  OBVIOUS
<1>3. n \in Nat
  BY <1>1, <1>2
<1>4. ASSUME q # <<>> PROVE n # 0
  <2>1. 1 \in 1 .. Len(q) /\ 2 \in 1 .. Len(q) + 1
    BY <1>2, <1>4
  <2>2. w[q[1]] \in Nat \ {0} /\ sum[2] \in Nat
    BY <2>1
  <2>3. n = w[q[1]] + sum[2]
    BY <1>1, <2>1
  <2> QED
    BY <2>2, <2>3
<1> QED
  BY <1>3, <1>4

LEMMA WeighsAppend ==
  ASSUME NEW S, NEW q \in Seq(S), NEW m \in S, NEW w \in [S -> Nat \ {0}],
         NEW n \in Nat, Weighs(q, w, n)
  PROVE  Weighs(Append(q, m), w, n + w[m])
<1> DEFINE k == Len(q)
           r == Append(q, m)
<1>1. PICK sum \in [1 .. k + 1 -> Nat] :
        /\ sum[1] = n
        /\ sum[k + 1] = 0
        /\ \A i \in 1 .. k : sum[i] = w[q[i]] + sum[i + 1]
  BY DEF Weighs
<1> DEFINE new == [i \in 1 .. k + 2 |-> IF i = k + 2 THEN 0 ELSE sum[i] + w[m]]
<1>2. k \in Nat /\ w[m] \in Nat
  OBVIOUS
<1>3. Len(r) = k + 1 /\ r[k + 1] = m /\ \A i \in 1 .. k : r[i] = q[i]
  OBVIOUS
<1>4. \A i \in 1 .. k : w[q[i]] \in Nat
  OBVIOUS
<1> HIDE DEF k, r
<1>5. new \in [1 .. k + 2 -> Nat]
  BY <1>2
<1>6. new[1] = n + w[m] /\ new[k + 2] = 0
  BY <1>1, <1>2
<1>7. ASSUME NEW i \in 1 .. k + 1
      PROVE  new[i] = w[r[i]] + new[i + 1]
  <2>1. CASE i = k + 1
    <3>1. new[i] = sum[k + 1] + w[m] /\ new[i + 1] = 0
      BY <1>2, <2>1
    <3> QED
      BY <1>1, <1>2, <1>3, <2>1, <3>1
  <2>2. CASE i \in 1 .. k
    <3>1. new[i] = sum[i] + w[m] /\ new[i + 1] = sum[i + 1] + w[m]
      BY <1>2, <2>2
    <3>2. sum[i] = w[q[i]] + sum[i + 1] /\ sum[i + 1] \in Nat /\ w[q[i]] \in Nat
      BY <1>1, <1>2, <1>4, <2>2
    <3>3. w[r[i]] = w[q[i]]
      BY <1>3, <2>2
    <3> HIDE DEF new
    <3> QED
      BY <1>2, <3>1, <3>2, <3>3
  <2> QED
    BY <1>2, <2>1, <2>2
<1> HIDE DEF new
<1>8. Len(r) + 1 = k + 2
  BY <1>2, <1>3
<1>9. Weighs(r, w, n + w[m])
  BY <1>3, <1>5, <1>6, <1>7, <1>8 DEF Weighs
<1> QED
  BY <1>9 DEF r

LEMMA WeighsTail ==
  ASSUME NEW S, NEW q \in Seq(S), q # <<>>, NEW w \in [S -> Nat \ {0}],
         NEW n \in Nat, Weighs(q, w, n)
  PROVE  n - w[Head(q)] \in Nat /\ Weighs(Tail(q), w, n - w[Head(q)])
<1> DEFINE k == Len(q)
           r == Tail(q)
<1>1. PICK sum \in [1 .. k + 1 -> Nat] :
        /\ sum[1] = n
        /\ sum[k + 1] = 0
        /\ \A i \in 1 .. k : sum[i] = w[q[i]] + sum[i + 1]
  BY DEF Weighs
<1> DEFINE new == [i \in 1 .. k |-> sum[i + 1]]
<1>2. k \in Nat \ {0} /\ w[Head(q)] \in Nat /\ Head(q) = q[1]
  OBVIOUS
<1>3. Len(r) = k - 1 /\ \A i \in 1 .. k - 1 : r[i] = q[i + 1]
  OBVIOUS
<1> HIDE DEF k, r
<1>4. sum[2] \in Nat /\ n = w[Head(q)] + sum[2]
  BY <1>1, <1>2
<1>5. n - w[Head(q)] = sum[2]
  BY <1>2, <1>4
<1>6. new \in [1 .. k -> Nat] /\ new[1] = sum[2] /\ new[k] = 0
  BY <1>1, <1>2
<1>7. ASSUME NEW i \in 1 .. k - 1
      PROVE  new[i] = w[r[i]] + new[i + 1]
  <2>1. i \in 1 .. k /\ i + 1 \in 1 .. k
    BY <1>2
  <2>2. new[i] = sum[i + 1] /\ new[i + 1] = sum[(i + 1) + 1]
    BY <2>1
  <2>3. sum[i + 1] = w[q[i + 1]] + sum[(i + 1) + 1]
    BY <1>1, <2>1
  <2> QED
    BY <1>3, <2>2, <2>3
<1> HIDE DEF new
<1>8. Len(r) + 1 = k /\ Len(r) = k - 1
  BY <1>2, <1>3
<1>9. Weighs(r, w, sum[2])
  <2>1. /\ new \in [1 .. Len(r) + 1 -> Nat] /\ new[1] = sum[2] /\ new[Len(r) + 1] = 0
        /\ \A i \in 1 .. Len(r) : new[i] = w[r[i]] + new[i + 1]
    BY <1>6, <1>7, <1>8
  <2> QED
    BY <2>1 DEF Weighs
<1> QED
  BY <1>4, <1>5, <1>9 DEF r

(* What a message can still cause, itself included.  A BL-ACK is received  *)
(* and done with; a BL-DATA of our own is acknowledged and forwarded to    *)
(* the CMCE, which does not answer it; a PDU for the LLC becomes such a    *)
(* BL-DATA; an uplink PDU may be answered with one PDU for the LLC.        *)
HighCost == [f \in HighSet |-> IF f.type = "ACK" THEN 1 ELSE 3]
NormCost == [m \in NormSet |-> IF m.to = "llc" THEN 4 ELSE IF m.own THEN 1 ELSE 5]

Loads(h, n, room) ==
  \E a, b \in Nat : Weighs(h, HighCost, a) /\ Weighs(n, NormCost, b) /\ a + b <= room

LEMMA Costs ==
  /\ HighCost \in [HighSet -> Nat \ {0}]
  /\ NormCost \in [NormSet -> Nat \ {0}]
  /\ \A f \in HighSet : (f.type = "ACK" => HighCost[f] = 1) /\ (f.type = "DATA" => HighCost[f] = 3)
  /\ \A m \in NormSet :
       /\ m.to = "llc" => NormCost[m] = 4
       /\ m.to = "cmce" /\ m.own => NormCost[m] = 1
       /\ m.to = "cmce" /\ ~m.own => NormCost[m] = 5
BY DEF HighCost, NormCost

LEMMA AddHigh ==
  ASSUME NEW q \in Seq(HighSet), NEW f \in HighSet, NEW a \in Nat,
         Weighs(q, HighCost, a), PostHigh(q, f)
  PROVE  \E n \in Nat : Weighs(high', HighCost, n) /\ n <= a + HighCost[f]
<1>1. HighCost \in [HighSet -> Nat \ {0}] /\ HighCost[f] \in Nat
  BY Costs
<1>2. CASE high' = q
  BY <1>1, <1>2
<1>3. CASE high' = Append(q, f)
  <2>1. Weighs(high', HighCost, a + HighCost[f])
    BY <1>1, <1>3, WeighsAppend
  <2>2. a + HighCost[f] \in Nat /\ a + HighCost[f] <= a + HighCost[f]
    BY <1>1
  <2> QED
    BY <2>1, <2>2
<1> QED
  BY <1>2, <1>3 DEF PostHigh

LEMMA AddNorm ==
  ASSUME NEW q \in Seq(NormSet), NEW m \in NormSet, NEW b \in Nat,
         Weighs(q, NormCost, b), PostNorm(q, m)
  PROVE  \E n \in Nat : Weighs(norm', NormCost, n) /\ n <= b + NormCost[m]
<1>1. NormCost \in [NormSet -> Nat \ {0}] /\ NormCost[m] \in Nat
  BY Costs
<1>2. CASE norm' = q
  BY <1>1, <1>2
<1>3. CASE norm' = Append(q, m)
  <2>1. Weighs(norm', NormCost, b + NormCost[m])
    BY <1>1, <1>3, WeighsAppend
  <2>2. b + NormCost[m] \in Nat /\ b + NormCost[m] <= b + NormCost[m]
    BY <1>1
  <2> QED
    BY <2>1, <2>2
<1> QED
  BY <1>2, <1>3 DEF PostNorm

(* Between ticks only uplink PDUs wait in the Normal bucket, and in a tick *)
(* the PDUs of the daemon queue up behind them.                            *)
Uplink(q) == \E i \in 1 .. Len(q) : ~q[i].own
OwnLast(q) == \A i, j \in 1 .. Len(q) : i < j /\ q[i].own => q[j].own
AllUplink(q) == \A i \in 1 .. Len(q) : ~q[i].own

LEMMA OrderTail ==
  ASSUME NEW q \in Seq(NormSet), q # <<>>, OwnLast(q)
  PROVE  /\ OwnLast(Tail(q))
         /\ Uplink(Tail(q)) => Uplink(q)
         /\ Head(q).own => ~Uplink(q)
         /\ ~Head(q).own => Uplink(q)
<1> DEFINE r == Tail(q)
<1>1. /\ Len(q) \in Nat \ {0} /\ Len(r) = Len(q) - 1 /\ Head(q) = q[1]
      /\ \A i \in 1 .. Len(r) : r[i] = q[i + 1]
  OBVIOUS
<1> HIDE DEF r
<1>2. \A i \in 1 .. Len(r) : i + 1 \in 1 .. Len(q)
  BY <1>1
<1>3. ASSUME NEW i \in 1 .. Len(r), NEW j \in 1 .. Len(r), i < j, r[i].own
      PROVE  r[j].own
  <2>1. i + 1 < j + 1
    BY <1>3
  <2> QED
    BY <1>1, <1>2, <1>3, <2>1 DEF OwnLast
<1>4. Uplink(r) => Uplink(q)
  BY <1>1, <1>2 DEF Uplink
<1>5. ASSUME Head(q).own, NEW i \in 1 .. Len(q) PROVE q[i].own
  <2>1. CASE i = 1
    BY <1>1, <1>5, <2>1
  <2>2. CASE 1 < i
    <3>1. 1 \in 1 .. Len(q) /\ q[1].own
      BY <1>1, <1>5
    <3> QED
      BY <2>2, <3>1 DEF OwnLast
  <2> QED
    BY <2>1, <2>2
<1>6. ~Head(q).own => Uplink(q)
  BY <1>1 DEF Uplink
<1> QED
  BY <1>3, <1>4, <1>5, <1>6 DEF OwnLast, Uplink, r

LEMMA OrderAppend ==
  ASSUME NEW q \in Seq(NormSet), NEW m \in NormSet, OwnLast(q)
  PROVE  /\ m.own => OwnLast(Append(q, m)) /\ (Uplink(Append(q, m)) => Uplink(q))
         /\ ~m.own /\ AllUplink(q) => OwnLast(Append(q, m)) /\ AllUplink(Append(q, m))
<1> DEFINE r == Append(q, m)
           k == Len(q)
<1>1. /\ k \in Nat /\ Len(r) = k + 1 /\ r[k + 1] = m
      /\ \A i \in 1 .. k : r[i] = q[i]
  OBVIOUS
<1>0. OwnLast(q) <=> \A i, j \in 1 .. k : i < j /\ q[i].own => q[j].own
  BY DEF OwnLast
<1>2. Uplink(q) <=> \E i \in 1 .. k : ~q[i].own
  BY DEF Uplink
<1>3. AllUplink(q) <=> \A i \in 1 .. k : ~q[i].own
  BY DEF AllUplink
<1> HIDE DEF r, k
<1>4. \A i \in 1 .. k + 1 : i \in 1 .. k \/ i = k + 1
  BY <1>1
<1>5. ASSUME m.own PROVE OwnLast(r)
  <2>1. ASSUME NEW i \in 1 .. k + 1, NEW j \in 1 .. k + 1, i < j, r[i].own
        PROVE  r[j].own
    <3>1. CASE j = k + 1
      BY <1>1, <1>5, <3>1
    <3>2. CASE j \in 1 .. k
      <4>1. i \in 1 .. k
        BY <1>1, <2>1, <3>2
      <4> QED
        BY <1>0, <1>1, <2>1, <3>2, <4>1
    <3> QED
      BY <1>4, <3>1, <3>2
  <2> QED
    BY <1>1, <2>1 DEF OwnLast
<1>6. ASSUME m.own, Uplink(r) PROVE Uplink(q)
  BY <1>1, <1>2, <1>4, <1>6 DEF Uplink
<1>7. ASSUME ~m.own, AllUplink(q) PROVE \A i \in 1 .. k + 1 : ~r[i].own
  BY <1>1, <1>3, <1>4, <1>7
<1>8. ASSUME ~m.own, AllUplink(q) PROVE OwnLast(r) /\ AllUplink(r)
  BY <1>1, <1>7, <1>8 DEF OwnLast, AllUplink
<1> QED
  BY <1>5, <1>6, <1>8 DEF r

(* The own D-RELEASE is the one echo the CMCE may answer, and only if it   *)
(* finds a call: 4 dispatches are kept back while there is, or may yet be, *)
(* one in the table.                                                       *)
InUse(t) == \E i \in CallSlot : t[i].in_use
Kept(t, q) == IF InUse(t) \/ Uplink(q) THEN 4 ELSE 0

Drain ==
  /\ OwnLast(norm)
  /\ left = 0 => AllUplink(norm) /\ Loads(high, norm, 6 * rx)
  /\ left > 0 => Loads(high, norm, left - Kept(table, norm))

LEMMA LoadsFits ==
  ASSUME NEW h, NEW n, NEW room, NEW a \in Nat, NEW b \in Nat,
         Weighs(h, HighCost, a), Weighs(n, NormCost, b), a + b <= room
  PROVE  Loads(h, n, room)
BY DEF Loads

(* A dispatch spends at least one, and never keeps back more than before.  *)
LEMMA Spend ==
  ASSUME NEW a \in Nat, NEW b \in Nat, NEW c \in Nat \ {0}, NEW l \in Nat,
         NEW k \in Nat, NEW j \in Nat, a + b <= l - k, j <= k
  PROVE  a + (b - c) <= l - 1 - j
OBVIOUS

LEMMA NoRoomEmpties ==
  ASSUME NEW h \in Seq(HighSet), NEW n \in Seq(NormSet), NEW room \in Int, room <= 0,
         Loads(h, n, room)
  PROVE  h = <<>> /\ n = <<>>
<1>1. PICK a \in Nat, b \in Nat :
        Weighs(h, HighCost, a) /\ Weighs(n, NormCost, b) /\ a + b <= room
  BY DEF Loads
<1>2. a = 0 /\ b = 0
  BY <1>1
<1> QED
  BY <1>1, <1>2, Costs, WeighsNat

LEMMA EmptyLoads ==
  ASSUME NEW room \in Nat
  PROVE  Loads(<<>>, <<>>, room)
<1>1. Weighs(<<>>, HighCost, 0) /\ Weighs(<<>>, NormCost, 0) /\ 0 + 0 <= room /\ 0 \in Nat
  BY WeighsEmpty
<1> QED
  BY <1>1 DEF Loads

(* Every dispatch takes one from the budget; the last one leaves nothing.  *)
LEMMA DispatchDrains ==
  ASSUME Types, Types', left > 0, left' = left - 1, OwnLast(norm'),
         Loads(high', norm', left - 1 - Kept(table', norm'))
  PROVE  Drain'
<1> DEFINE room == left - 1 - Kept(table', norm')
<1>1. left \in Nat /\ rx' \in Nat /\ high' \in Seq(HighSet) /\ norm' \in Seq(NormSet)
  BY StackBudgetAssumption, StackBoundAssumption DEF Types
<1>2. Kept(table', norm') \in {0, 4}
  BY DEF Kept
<1>3. room \in Int
  BY <1>1, <1>2
<1>4. CASE left - 1 = 0
  <2>1. room <= 0
    BY <1>1, <1>2, <1>4
  <2> HIDE DEF room
  <2>2. high' = <<>> /\ norm' = <<>>
    BY <1>1, <1>3, <2>1, NoRoomEmpties DEF room
  <2>3. AllUplink(norm')
    BY <2>2 DEF AllUplink
  <2>4. 6 * rx' \in Nat
    <3>1. \A r \in Nat : 6 * r \in Nat
      OBVIOUS
    <3> QED
      BY <1>1, <3>1
  <2>5. Loads(high', norm', 6 * rx')
    BY <2>2, <2>4, EmptyLoads
  <2>6. left' = 0 /\ ~(left' > 0)
    BY <1>4
  <2> QED
    BY <2>3, <2>5, <2>6 DEF Drain
<1>5. CASE left - 1 # 0
  <2>1. left' # 0 /\ Loads(high', norm', left' - Kept(table', norm'))
    BY <1>5
  <2> QED
    BY <2>1 DEF Drain
<1> QED
  BY <1>4, <1>5

LEMMA InitDrains == Init => Drain
<1> SUFFICES ASSUME Init PROVE Drain
  OBVIOUS
<1>1. high = <<>> /\ norm = <<>> /\ left = 0 /\ rx = 0
  BY DEF Init
<1>2. Loads(high, norm, 6 * rx)
  BY <1>1, EmptyLoads
<1>3. AllUplink(norm) /\ OwnLast(norm)
  BY <1>1 DEF AllUplink, OwnLast
<1> QED
  BY <1>1, <1>2, <1>3 DEF Drain

(* An uplink frame costs at most 6: its BL-ACK and its PDU.                *)
LEMMA DmaRxDrains ==
  ASSUME Types, Types', Drain, NEW f \in UlFrames, DmaRx(f)
  PROVE  Drain'
<1>1. /\ LlcReceive(f, FALSE, high)
      /\ left = 0 /\ left' = 0 /\ rx' = rx + 1
  BY DEF DmaRx
<1>2. /\ high \in Seq(HighSet) /\ norm \in Seq(NormSet) /\ rx \in Nat /\ ep.nr \in {0, 1}
  BY StackBoundAssumption DEF Types
<1>3. OwnLast(norm) /\ AllUplink(norm) /\ Loads(high, norm, 6 * rx)
  BY <1>1 DEF Drain
<1>4. PICK a \in Nat, b \in Nat :
        Weighs(high, HighCost, a) /\ Weighs(norm, NormCost, b) /\ a + b <= 6 * rx
  BY <1>3 DEF Loads
<1> DEFINE Ack(n) == Frame("ACK", n, NoBody)
<1>5. ASSUME NEW n \in {0, 1}
      PROVE  Ack(n) \in HighSet /\ HighCost[Ack(n)] = 1
  BY AckFrame, Costs DEF Frame
<1> HIDE DEF Ack
<1>6. 1 - ep.nr \in {0, 1}
  BY <1>2
<1> SUFFICES ASSUME TRUE
             PROVE  OwnLast(norm') /\ AllUplink(norm') /\ Loads(high', norm', 6 * rx')
  BY <1>1 DEF Drain
<1>7. CASE /\ f.type = "DATA" /\ f.n = ep.nr
           /\ PostNorm(norm, [to |-> "cmce", body |-> f.body, own |-> FALSE])
           /\ PostHigh(high, Ack(1 - ep.nr))
  <2> DEFINE m == [to |-> "cmce", body |-> f.body, own |-> FALSE]
  <2>1. m \in NormSet /\ m.own = FALSE /\ m.to = "cmce"
    BY UplinkFrame DEF NormSet
  <2>2. NormCost[m] = 5
    BY <2>1, Costs
  <2> HIDE DEF m
  <2>3. PICK c \in Nat : Weighs(high', HighCost, c) /\ c <= a + 1
    BY <1>2, <1>4, <1>5, <1>6, <1>7, AddHigh
  <2>4. PICK d \in Nat : Weighs(norm', NormCost, d) /\ d <= b + 5
    BY <1>2, <1>4, <1>7, <2>1, <2>2, AddNorm DEF m
  <2>5. c + d <= 6 * rx'
    BY <1>1, <1>2, <1>4, <2>3, <2>4
  <2>6. norm' = norm \/ norm' = Append(norm, m)
    BY <1>7 DEF PostNorm, m
  <2>7. OwnLast(norm') /\ AllUplink(norm')
    BY <1>2, <1>3, <2>1, <2>6, OrderAppend
  <2> QED
    BY <2>3, <2>4, <2>5, <2>7, LoadsFits, Zenon
<1>8. CASE PostHigh(high, Ack(ep.nr)) /\ norm' = norm
  <2>1. PICK c \in Nat : Weighs(high', HighCost, c) /\ c <= a + 1
    BY <1>2, <1>4, <1>5, <1>8, AddHigh
  <2>2. c + b <= 6 * rx'
    BY <1>1, <1>2, <1>4, <2>1
  <2> QED
    BY <1>3, <1>4, <1>8, <2>1, <2>2, LoadsFits, Zenon
<1>9. CASE high' = high /\ norm' = norm
  <2>1. a + b <= 6 * rx'
    BY <1>1, <1>2, <1>4
  <2> QED
    BY <1>3, <1>4, <1>9, <2>1, LoadsFits, Zenon
<1>10. CASE PostNorm(norm, [to |-> "cmce", body |-> f.body, own |-> FALSE]) /\ high' = high
  <2> DEFINE m == [to |-> "cmce", body |-> f.body, own |-> FALSE]
  <2>1. m \in NormSet /\ m.own = FALSE /\ m.to = "cmce"
    BY UplinkFrame DEF NormSet
  <2>2. NormCost[m] = 5
    BY <2>1, Costs
  <2> HIDE DEF m
  <2>3. PICK d \in Nat : Weighs(norm', NormCost, d) /\ d <= b + 5
    BY <1>2, <1>4, <1>10, <2>1, <2>2, AddNorm DEF m
  <2>4. a + d <= 6 * rx'
    BY <1>1, <1>2, <1>4, <2>3
  <2>5. norm' = norm \/ norm' = Append(norm, m)
    BY <1>10 DEF PostNorm, m
  <2>6. OwnLast(norm') /\ AllUplink(norm')
    BY <1>2, <1>3, <2>1, <2>5, OrderAppend
  <2> QED
    BY <1>4, <1>10, <2>3, <2>4, <2>6, LoadsFits, Zenon
<1> QED
  BY <1>1, <1>7, <1>8, <1>9, <1>10 DEF LlcReceive, Ack

(* A tick starts with what the uplink frames left, adds a broadcast (4)    *)
(* and keeps 4 back.                                                       *)
LEMMA TickDrained ==
  ASSUME Budget >= 6 * MaxRx + 8, Types, Types', Drain, NEW e \in 1 .. 2, Tick(e)
  PROVE  Drain'
<1> DEFINE m == [to |-> "llc", body |-> BroadcastBody, own |-> TRUE]
<1>1. /\ left = 0 /\ left' = Budget /\ high' = high
      /\ norm' = norm \/ PostNorm(norm, m)
  BY DEF Tick
<1>2. /\ high \in Seq(HighSet) /\ norm \in Seq(NormSet) /\ rx \in Nat /\ rx <= MaxRx
      /\ MaxRx \in Nat /\ Budget \in Nat \ {0}
  BY StackBoundAssumption, StackBudgetAssumption DEF Types
<1>3. OwnLast(norm) /\ Loads(high, norm, 6 * rx)
  BY <1>1 DEF Drain
<1>4. PICK a \in Nat, b \in Nat :
        Weighs(high, HighCost, a) /\ Weighs(norm, NormCost, b) /\ a + b <= 6 * rx
  BY <1>3 DEF Loads
<1>5. m \in NormSet /\ m.own = TRUE /\ m.to = "llc"
  BY OwnBodies DEF NormSet
<1>6. NormCost[m] = 4
  BY <1>5, Costs
<1> HIDE DEF m
<1>7. PICK d \in Nat : Weighs(norm', NormCost, d) /\ d <= b + 4
  BY <1>1, <1>2, <1>4, <1>5, <1>6, AddNorm
<1>8. OwnLast(norm')
  BY <1>1, <1>2, <1>3, <1>5, OrderAppend DEF PostNorm
<1>9. Kept(table', norm') \in {0, 4}
  BY DEF Kept
<1>10. a + d <= left' - Kept(table', norm')
  BY <1>1, <1>2, <1>4, <1>7, <1>9
<1>11. left' # 0
  BY <1>1, <1>2
<1>12. Loads(high', norm', left' - Kept(table', norm'))
  BY <1>1, <1>4, <1>7, <1>10, LoadsFits, Zenon
<1> QED
  BY <1>8, <1>11, <1>12 DEF Drain

(* A BL-DATA of our own (3) leaves an acknowledgement and an own PDU for   *)
(* the CMCE, a BL-ACK (1) nothing.                                         *)
LEMMA HighDrains ==
  ASSUME Types, Types', Drain, DispatchHigh
  PROVE  Drain'
<1> DEFINE f == Head(high)
           q == Tail(high)
<1>1. /\ left > 0 /\ left' = left - 1 /\ high # <<>> /\ table' = table
      /\ LlcReceive(f, TRUE, q)
  BY DEF DispatchHigh
<1>2. /\ high \in Seq(HighSet) /\ norm \in Seq(NormSet) /\ left \in Nat /\ ep.nr \in {0, 1}
  BY StackBudgetAssumption DEF Types
<1>3. OwnLast(norm) /\ Loads(high, norm, left - Kept(table, norm))
  BY <1>1 DEF Drain
<1>4. PICK a \in Nat, b \in Nat :
        /\ Weighs(high, HighCost, a) /\ Weighs(norm, NormCost, b)
        /\ a + b <= left - Kept(table, norm)
  BY <1>3 DEF Loads
<1>5. f \in HighSet /\ q \in Seq(HighSet)
  BY <1>1, <1>2
<1>6. a - HighCost[f] \in Nat /\ Weighs(q, HighCost, a - HighCost[f])
  BY <1>1, <1>2, <1>4, Costs, WeighsTail
<1> HIDE DEF f, q
<1> DEFINE Ack(n) == Frame("ACK", n, NoBody)
<1>7. ASSUME NEW n \in {0, 1}
      PROVE  Ack(n) \in HighSet /\ HighCost[Ack(n)] = 1
  BY AckFrame, Costs DEF Frame
<1> HIDE DEF Ack
<1>8. 1 - ep.nr \in {0, 1}
  BY <1>2
<1>9. Kept(table, norm) \in {0, 4}
  BY DEF Kept
<1> SUFFICES OwnLast(norm') /\ Loads(high', norm', left - 1 - Kept(table', norm'))
  BY <1>1, DispatchDrains
<1>10. CASE /\ f.type = "DATA"
            /\ PostNorm(norm, [to |-> "cmce", body |-> f.body, own |-> TRUE])
            /\ PostHigh(q, Ack(1 - ep.nr))
  <2> DEFINE m == [to |-> "cmce", body |-> f.body, own |-> TRUE]
  <2>1. m \in NormSet /\ m.own = TRUE /\ m.to = "cmce"
    BY <1>5, <1>10 DEF NormSet, HighSet
  <2>2. NormCost[m] = 1 /\ HighCost[f] = 3
    BY <1>5, <1>10, <2>1, Costs
  <2> HIDE DEF m
  <2>3. a - 3 \in Nat /\ Weighs(q, HighCost, a - 3)
    BY <1>6, <2>2
  <2>4. PICK c \in Nat : Weighs(high', HighCost, c) /\ c <= (a - 3) + 1
    BY <1>5, <1>7, <1>8, <1>10, <2>3, AddHigh
  <2>5. PICK d \in Nat : Weighs(norm', NormCost, d) /\ d <= b + 1
    BY <1>2, <1>4, <1>10, <2>1, <2>2, AddNorm DEF m
  <2>6. norm' = norm \/ norm' = Append(norm, m)
    BY <1>10 DEF PostNorm, m
  <2>7. OwnLast(norm') /\ (Uplink(norm') => Uplink(norm))
    BY <1>2, <1>3, <2>1, <2>6, OrderAppend
  <2>8. Kept(table', norm') \in {0, 4} /\ Kept(table', norm') <= Kept(table, norm)
    BY <1>1, <2>7 DEF Kept
  <2>9. c + d <= left - 1 - Kept(table', norm')
    BY <1>2, <1>4, <1>9, <2>4, <2>5, <2>8
  <2> QED
    BY <2>4, <2>5, <2>7, <2>9, LoadsFits, Zenon
<1>11. CASE f.type = "DATA" /\ PostHigh(q, Ack(ep.nr)) /\ norm' = norm
  <2>1. HighCost[f] = 3
    BY <1>5, <1>11, Costs
  <2>2. a - 3 \in Nat /\ Weighs(q, HighCost, a - 3)
    BY <1>6, <2>1
  <2>3. PICK c \in Nat : Weighs(high', HighCost, c) /\ c <= (a - 3) + 1
    BY <1>2, <1>5, <1>7, <1>11, <2>2, AddHigh
  <2>4. c + b <= left - 1 - Kept(table, norm)
    BY <1>2, <1>4, <1>9, <2>3
  <2> QED
    BY <1>1, <1>3, <1>4, <1>11, <2>3, <2>4, LoadsFits, Zenon
<1>12. CASE f.type = "ACK" /\ high' = q /\ norm' = norm
  <2>1. HighCost[f] = 1
    BY <1>5, <1>12, Costs
  <2>2. a - 1 \in Nat /\ Weighs(q, HighCost, a - 1)
    BY <1>6, <2>1
  <2>3. (a - 1) + b <= left - 1 - Kept(table, norm)
    BY <1>2, <1>4, <1>9, <2>2
  <2> QED
    BY <1>1, <1>3, <1>4, <1>12, <2>2, <2>3, LoadsFits, Zenon
<1>13. f.type \in {"DATA", "ACK"}
  BY <1>5 DEF HighSet
<1> QED
  BY <1>1, <1>10, <1>11, <1>12, <1>13 DEF LlcReceive, Ack

(* A PDU for the LLC (4) becomes a BL-DATA (3).                            *)
LEMMA DownDrains ==
  ASSUME Types, Types', Drain, DispatchDown
  PROVE  Drain'
<1> DEFINE m == Head(norm)
           f == Frame("DATA", ep.ns, m.body)
<1>1. /\ left > 0 /\ left' = left - 1 /\ norm # <<>> /\ table' = table
      /\ m.to = "llc" /\ norm' = Tail(norm)
      /\ PostHigh(high, f)
  BY DEF DispatchDown
<1>2. /\ high \in Seq(HighSet) /\ norm \in Seq(NormSet) /\ left \in Nat /\ ep.ns \in {0, 1}
  BY StackBudgetAssumption DEF Types
<1>3. OwnLast(norm) /\ Loads(high, norm, left - Kept(table, norm))
  BY <1>1 DEF Drain
<1>4. PICK a \in Nat, b \in Nat :
        /\ Weighs(high, HighCost, a) /\ Weighs(norm, NormCost, b)
        /\ a + b <= left - Kept(table, norm)
  BY <1>3 DEF Loads
<1>5. m \in NormSet
  BY <1>1, <1>2
<1>6. b - NormCost[m] \in Nat /\ Weighs(Tail(norm), NormCost, b - NormCost[m])
  BY <1>1, <1>2, <1>4, Costs, WeighsTail
<1>7. OwnLast(Tail(norm)) /\ (Uplink(Tail(norm)) => Uplink(norm))
  BY <1>1, <1>2, <1>3, OrderTail
<1> HIDE DEF m
<1>8. NormCost[m] = 4
  BY <1>1, <1>5, Costs
<1>9. f \in HighSet /\ f.type = "DATA"
  BY <1>1, <1>2, <1>5 DEF Frame, HighSet, NormSet
<1>10. HighCost[f] = 3
  BY <1>9, Costs
<1> HIDE DEF f
<1>11. PICK c \in Nat : Weighs(high', HighCost, c) /\ c <= a + 3
  BY <1>1, <1>2, <1>4, <1>9, <1>10, AddHigh
<1>12. b - 4 \in Nat /\ Weighs(norm', NormCost, b - 4)
  BY <1>1, <1>6, <1>8
<1>13. /\ Kept(table', norm') \in {0, 4} /\ Kept(table, norm) \in {0, 4}
       /\ Kept(table', norm') <= Kept(table, norm)
  BY <1>1, <1>7 DEF Kept
<1>14. c + (b - 4) <= left - 1 - Kept(table', norm')
  BY <1>2, <1>4, <1>11, <1>12, <1>13
<1>15. Loads(high', norm', left - 1 - Kept(table', norm'))
  BY <1>11, <1>12, <1>14, LoadsFits, Zenon
<1>16. OwnLast(norm')
  BY <1>1, <1>7
<1> QED
  BY <1>1, <1>15, <1>16, DispatchDrains

(* A PDU for the CMCE: an uplink one (5) may be answered (4), an own one   *)
(* (1) is answered only if it is a D-RELEASE that finds a call, which ends *)
(* the last call with no uplink PDU left that could open another.          *)
LEMMA UpDrains ==
  ASSUME Types, Types', Drain, DispatchUp
  PROVE  Drain'
<1> DEFINE m == Head(norm)
           p == m.body
           r == Tail(norm)
<1>1. /\ left > 0 /\ left' = left - 1 /\ norm # <<>> /\ m.to = "cmce" /\ high' = high
  BY DEF DispatchUp
<1>2. /\ high \in Seq(HighSet) /\ norm \in Seq(NormSet) /\ left \in Nat
  BY StackBudgetAssumption DEF Types
<1>3. OwnLast(norm) /\ Loads(high, norm, left - Kept(table, norm))
  BY <1>1 DEF Drain
<1>4. PICK a \in Nat, b \in Nat :
        /\ Weighs(high, HighCost, a) /\ Weighs(norm, NormCost, b)
        /\ a + b <= left - Kept(table, norm)
  BY <1>3 DEF Loads
<1>5. m \in NormSet /\ r \in Seq(NormSet)
  BY <1>1, <1>2
<1>6. b - NormCost[m] \in Nat /\ Weighs(r, NormCost, b - NormCost[m])
  BY <1>1, <1>2, <1>4, Costs, WeighsTail
<1>7. /\ OwnLast(r) /\ (Uplink(r) => Uplink(norm))
      /\ m.own => ~Uplink(norm)
      /\ ~m.own => Uplink(norm)
  BY <1>1, <1>2, <1>3, OrderTail
<1>8. \/ norm' = r /\ table' = table
      \/ /\ LooksCmce(p) /\ p.full
         /\ table' = Upcall(p).calls /\ Upcall(p).resp = "none"
         /\ norm' = r
      \/ /\ LooksCmce(p) /\ p.full
         /\ table' = Upcall(p).calls /\ Upcall(p).resp # "none"
         /\ PostNorm(r, Reply(p))
  BY UpCases
<1>9. p \in Bodies /\ p.call \in Ids14 /\ (m.own => Own(p))
  BY <1>5 DEF NormSet, Bodies
<1> HIDE DEF m, p, r
<1>10. Kept(table, norm) \in {0, 4} /\ Kept(table', norm') \in {0, 4}
  BY DEF Kept
<1> SUFFICES OwnLast(norm') /\ Loads(high', norm', left - 1 - Kept(table', norm'))
  BY <1>1, DispatchDrains
<1>11. CASE norm' = r /\ table' = table
  <2>1. NormCost[m] \in Nat \ {0}
    BY <1>5, Costs
  <2>2. Kept(table', norm') <= Kept(table, norm)
    BY <1>7, <1>11 DEF Kept
  <2>3. a + (b - NormCost[m]) <= left - 1 - Kept(table', norm')
    <3>1. Kept(table, norm) \in Nat /\ Kept(table', norm') \in Nat
      BY <1>10
    <3> QED
      BY <1>2, <1>4, <2>1, <2>2, <3>1, Spend, Zenon
  <2>4. Loads(high, r, left - 1 - Kept(table', norm'))
    BY <1>4, <1>6, <2>3, LoadsFits, Zenon
  <2> QED
    BY <1>1, <1>7, <1>11, <2>4, Zenon
<1>12. CASE LooksCmce(p) /\ Upcall(p).resp = "none" /\ table' = Upcall(p).calls /\ norm' = r
  <2>1. table' = table
    BY <1>9, <1>12, UpcallTable1
  <2> QED
    BY <1>11, <1>12, <2>1
<1>13. CASE /\ LooksCmce(p) /\ p.full
            /\ table' = Upcall(p).calls /\ Upcall(p).resp # "none"
            /\ PostNorm(r, Reply(p))
  <2>1. Upcall(p).resp \in Answers /\ TypeOf(p) \in UplinkTypes
    BY <1>9, <1>13, UpcallTable1
  <2>2. Reply(p) \in NormSet /\ Reply(p).own = TRUE /\ Reply(p).to = "llc"
    <3>1. 0 \in Ids14
      BY DEF Ids14
    <3> QED
      BY <1>9, <2>1, <3>1, OwnBodies DEF Reply, NormSet
  <2>3. NormCost[Reply(p)] = 4
    BY <2>2, Costs
  <2>4. norm' = r \/ norm' = Append(r, Reply(p))
    BY <1>13 DEF PostNorm
  <2>5. OwnLast(norm') /\ (Uplink(norm') => Uplink(r))
    BY <1>5, <1>7, <2>2, <2>4, OrderAppend
  <2>6. PICK d \in Nat : Weighs(norm', NormCost, d) /\ d <= (b - NormCost[m]) + 4
    BY <1>5, <1>6, <1>13, <2>2, <2>3, AddNorm
  <2>7. CASE ~m.own
    <3>1. NormCost[m] = 5
      BY <1>1, <1>5, <2>7, Costs DEF m
    <3>2. Kept(table, norm) = 4
      BY <1>7, <2>7 DEF Kept
    <3>3. a + d <= left - 1 - Kept(table', norm')
      BY <1>2, <1>4, <1>10, <2>6, <3>1, <3>2
    <3> QED
      BY <1>1, <1>4, <2>5, <2>6, <3>3, LoadsFits, Zenon
  <2>8. CASE m.own
    <3>1. NormCost[m] = 1
      BY <1>1, <1>5, <2>8, Costs DEF m
    <3>2. TypeOf(p) = "Release"
      BY <1>9, <1>13, <2>1, <2>8, TypeOfOwn
    <3>3. InUse(table) /\ ~InUse(table')
      BY <1>9, <1>13, <3>2, UpcallTable1 DEF InUse
    <3>4. ~Uplink(norm')
      BY <1>7, <2>5, <2>8
    <3>5. Kept(table, norm) = 4 /\ Kept(table', norm') = 0
      BY <3>3, <3>4 DEF Kept
    <3>6. a + d <= left - 1 - Kept(table', norm')
      BY <1>2, <1>4, <2>6, <3>1, <3>5
    <3> QED
      BY <1>1, <1>4, <2>5, <2>6, <3>6, LoadsFits, Zenon
  <2> QED
    BY <2>7, <2>8
<1> QED
  BY <1>8, <1>11, <1>12, <1>13

LEMMA NextDrains ==
  ASSUME Budget >= 6 * MaxRx + 8, Types, Types', Drain, [Next]_vars
  PROVE  Drain'
<1>1. CASE \E f \in UlFrames : DmaRx(f)
  BY <1>1, DmaRxDrains
<1>2. CASE \E e \in 1 .. 2 : Tick(e)
  BY <1>2, TickDrained
<1>3. CASE DispatchHigh
  BY <1>3, HighDrains
<1>4. CASE DispatchDown
  BY <1>4, DownDrains
<1>5. CASE DispatchUp
  BY <1>5, UpDrains
<1>6. CASE TickEnd
  <2>1. high' = <<>> /\ norm' = <<>> /\ left' = 0 /\ rx' \in Nat
    BY <1>6, StackBoundAssumption DEF TickEnd, Types
  <2>2. 6 * rx' \in Nat
    <3>1. \A n \in Nat : 6 * n \in Nat
      OBVIOUS
    <3> QED
      BY <2>1, <3>1
  <2>3. Loads(high', norm', 6 * rx')
    BY <2>1, <2>2, EmptyLoads
  <2>4. AllUplink(norm') /\ OwnLast(norm')
    BY <2>1 DEF AllUplink, OwnLast
  <2> QED
    BY <2>1, <2>3, <2>4 DEF Drain
<1>7. CASE UNCHANGED vars
  BY <1>7 DEF vars, Drain
<1> QED
  BY <1>1, <1>2, <1>3, <1>4, <1>5, <1>6, <1>7 DEF Next

(* For every size of the buckets, every table and all bodies that mobile   *)
(* stations may send: a budget of 6 dispatches for each uplink frame since *)
(* the last tick and 8 more is enough for a tick to empty the bus, its own *)
(* echoes included (ml_timer_tick).                                        *)
THEOREM TicksDrain == ASSUME Budget >= 6 * MaxRx + 8 PROVE Spec => []TickDrains
<1>1. Init => Types /\ Drain
  BY InitStackTypes, InitDrains
<1>2. Types /\ Drain /\ [Next]_vars => (Types /\ Drain)'
  BY NextStackTypes, NextDrains
<1>3. Types /\ Drain => TickDrains
  <2> SUFFICES ASSUME Types, Drain, left = 0, rx = 0
               PROVE  high = <<>> /\ norm = <<>>
    BY DEF TickDrains
  <2>1. high \in Seq(HighSet) /\ norm \in Seq(NormSet)
    BY DEF Types
  <2>2. Loads(high, norm, 0)
    BY DEF Drain
  <2> QED
    BY <2>1, <2>2, NoRoomEmpties
<1> QED
  BY <1>1, <1>2, <1>3, PTL DEF Spec
=============================================================================
