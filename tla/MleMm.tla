-------------------------------- MODULE MleMm --------------------------------
(***************************************************************************)
(* Registration: the MLE (sw/mle/mle.c, mle_fsm.c) with its session table  *)
(* and the subscriber database it enrols into, and the MM entity           *)
(* (sw/mm/mm.c) that answers a demand.  MLE and MM talk through the Normal *)
(* bucket of the bus; each handler is one action.                          *)
(*                                                                         *)
(* The MM PDUs come from the LLC (module Stack shows what the daemon's own *)
(* wiring makes of that; here they arrive as mle_handle_tle_msg expects    *)
(* them).  mle_init also registers a handler for a confirmation on TnmmSap *)
(* that no code in the repository posts (on_mm_request does not): the      *)
(* handler is an action a poster outside may cause, for any subscriber and *)
(* any type, and no property rests on its being taken.                     *)
(***************************************************************************)
EXTENDS Naturals, Sequences

CONSTANTS
  Issis,          \* subscribers' addresses
  NoIssi,         \* address field of an entry never used
  MaxSessions,    \* MLE_SESSION_MAX
  MaxEntities,    \* TETRA_DB_ENTITY_COUNT
  Profiles,       \* ids of valid profiles
  DefaultProfile, \* cfg.default_profile_id
  NoProfile,      \* the built-in defaults, when no profile is found
  AcceptUnknown,  \* cfg.accept_unknown
  BusCap,         \* queue_cap_per_prio of the Normal bucket
  MaxDemands      \* bound: MM PDUs received

Session == 1 .. MaxSessions
Entity == 1 .. MaxEntities

ASSUME NoIssiAssumption == NoIssi \notin Issis
ASSUME DefaultProfileAssumption == DefaultProfile \in Profiles /\ NoProfile \notin Profiles
ASSUME SizeAssumption == MaxSessions \in Nat \ {0} /\ MaxEntities \in Nat /\ BusCap \in Nat
ASSUME SwitchAssumption == AcceptUnknown \in BOOLEAN

MleState == {"Idle", "AttachPending", "Registered", "GroupAttach", "Detaching"}

(* What mm_iep_decode makes of an uplink MM PDU; it refuses U-ITSI-DETACH  *)
(* like every other type.  A wide group demand asks for groups whose       *)
(* acknowledgement is longer than an LLC body (four groups with address    *)
(* extensions: module Codec has the bits).                                 *)
MmPduUl == {"Demand", "GroupDemand", "WideGroupDemand", "ItsiDetach"}
Decodable == {"Demand", "GroupDemand", "WideGroupDemand"}

(* The event of mle_fsm_step for a PDU.                                    *)
Event(type) == IF type = "WideGroupDemand" THEN "GroupDemand" ELSE type

VARIABLES
  sessions,   \* mle->sessions
  entities,   \* the database's entity table
  known,      \* history: the addresses in the database at the start
  norm,       \* Normal bucket: requests to MM, answers to the LLC
  demanded,   \* history: <<issi, type>> decoded by the MLE
  answered,   \* history: <<issi, type, profile>> that reached the LLC
  refused,    \* history: <<issi, type>> whose message found the bucket full
  open,       \* history: numbers of the demands (wide ones left out) neither
              \* answered nor counted as lost
  received    \* number of PDUs received, which numbers them

vars == <<sessions, entities, known, norm, demanded, answered, refused, open, received>>

FreeSession == [in_use |-> FALSE, issi |-> NoIssi, state |-> "Idle", profile |-> NoProfile]
FreeEntity == [valid |-> FALSE, issi |-> NoIssi, profile |-> DefaultProfile]

(* The database file holds each address once, the entries in any slots.    *)
Init ==
  /\ sessions = [s \in Session |-> FreeSession]
  /\ entities \in {t \in [Entity -> {FreeEntity} \cup
                            [valid : {TRUE}, issi : Issis, profile : Profiles]] :
                     \A i, j \in Entity : t[i].valid /\ t[j].valid /\ t[i].issi = t[j].issi
                                            => i = j}
  /\ known = {entities[i].issi : i \in {j \in Entity : entities[j].valid}}
  /\ norm = <<>>
  /\ demanded = {} /\ answered = {} /\ refused = {} /\ open = {} /\ received = 0

First(S) == CHOOSE i \in S : \A j \in S : i <= j

-----------------------------------------------------------------------------
SessionLookup(issi) == {s \in Session : sessions[s].in_use /\ sessions[s].issi = issi}
FreeSessions == {s \in Session : ~sessions[s].in_use}

(* Mutant: a free slot is taken without looking for the subscriber's own.  *)
SessionAllocBlind(issi) ==
  IF FreeSessions # {} THEN First(FreeSessions)
  ELSE IF SessionLookup(issi) # {} THEN First(SessionLookup(issi)) ELSE 0

(* The session mle_session_alloc returns, 0 when the table is full.        *)
SessionAlloc(issi) ==
  IF SessionLookup(issi) # {} THEN First(SessionLookup(issi))
  ELSE IF FreeSessions # {} THEN First(FreeSessions) ELSE 0

LookupEntity(table, issi) == {i \in Entity : table[i].valid /\ table[i].issi = issi}
FreeEntities == {i \in Entity : ~entities[i].valid}

(* The database after maybe_auto_enroll; its verdict is not used.          *)
AutoEnroll(issi) ==
  IF LookupEntity(entities, issi) = {} /\ AcceptUnknown /\ FreeEntities # {}
  THEN [entities EXCEPT ![First(FreeEntities)] =
          [valid |-> TRUE, issi |-> issi, profile |-> DefaultProfile]]
  ELSE entities

(* The profile refresh_session_from_db and lookup_profile_defaults find.   *)
ProfileOf(table, issi) ==
  LET hits == LookupEntity(table, issi) IN
    IF hits = {} THEN NoProfile ELSE table[First(hits)].profile

(* mle_fsm_step; an event with no entry leaves the state.                  *)
FsmTransitions ==
  {<<"Idle", "Demand", "AttachPending">>,
   <<"AttachPending", "AcceptSent", "Registered">>,
   <<"Registered", "GroupDemand", "GroupAttach">>,
   <<"Registered", "Demand", "AttachPending">>,
   <<"GroupAttach", "GroupAckSent", "Registered">>}
  \cup {<<s, "ItsiDetach", "Detaching">> : s \in {"AttachPending", "Registered", "GroupAttach"}}
  \cup {<<"Detaching", "DetachComplete", "Idle">>}

FsmStep(state, event) ==
  LET to == {t[3] : t \in {u \in FsmTransitions : u[1] = state /\ u[2] = event}} IN
    IF to = {} THEN state ELSE CHOOSE s \in to : TRUE

-----------------------------------------------------------------------------
(* mle_handle_tle_msg with the MM discriminator, handle_mm_pdu.            *)

MleReject(issi, type) ==
  /\ received < MaxDemands
  /\ received' = received + 1
  /\ type \notin Decodable \/ SessionAlloc(issi) = 0
  /\ UNCHANGED <<sessions, entities, known, norm, demanded, answered, refused, open>>

(* A session is found or opened, the address enrolled, the state machine   *)
(* stepped, and the request forwarded to MM if the bucket has room.        *)
MleDemand(issi, type) ==
  LET s == SessionAlloc(issi)
      old == IF sessions[s].in_use THEN sessions[s] ELSE FreeSession
      table == AutoEnroll(issi)
  IN
  /\ received < MaxDemands
  /\ received' = received + 1
  /\ type \in Decodable /\ s # 0
  /\ entities' = table
  /\ sessions' = [sessions EXCEPT ![s] =
       [in_use |-> TRUE, issi |-> issi, state |-> FsmStep(old.state, Event(type)),
        profile |-> IF LookupEntity(table, issi) = {} THEN old.profile
                    ELSE ProfileOf(table, issi)]]
  /\ norm' = IF Len(norm) < BusCap
             THEN Append(norm, [to |-> "mm", issi |-> issi, type |-> type,
                                profile |-> NoProfile, n |-> received'])
             ELSE norm
  /\ refused' = refused \cup {d \in {<<issi, type>>} : Len(norm) >= BusCap}
  /\ open' = open \cup {n \in {received'} : Len(norm) < BusCap /\ type # "WideGroupDemand"}
  /\ demanded' = demanded \cup {<<issi, type>>}
  /\ UNCHANGED <<known, answered>>

(* Mutant: the profile of the first entry of the database is used.         *)
AnswerProfileFirst(m) ==
  IF m.type = "Demand" /\ MaxEntities > 0 /\ entities[1].valid
  THEN entities[1].profile ELSE NoProfile

(* The accept carries the subscriber's profile, the group acknowledgement  *)
(* none.                                                                   *)
AnswerProfile(m) ==
  IF m.type = "Demand" THEN ProfileOf(entities, m.issi) ELSE NoProfile

(* Mutant: a group demand is not answered.                                 *)
HasAnswerDemandOnly(m) == m.type = "Demand"

(* prepend_mle_disc_mm refuses an answer that is too long for an LLC body  *)
(* and on_mm_request returns without a word.                               *)
HasAnswer(m) == m.type # "WideGroupDemand"

(* on_mm_request builds the answer and posts it for the LLC; the request   *)
(* still holds its slot of the bucket meanwhile.                           *)
MmRequest ==
  LET m == Head(norm)
      answer == [to |-> "llc", issi |-> m.issi, type |-> m.type,
                 profile |-> AnswerProfile(m), n |-> m.n]
      room == Len(norm) < BusCap
  IN
  /\ norm # <<>> /\ m.to = "mm"
  /\ norm' = IF HasAnswer(m) /\ room THEN Append(Tail(norm), answer) ELSE Tail(norm)
  /\ refused' = refused \cup {d \in {<<m.issi, m.type>>} : HasAnswer(m) /\ ~room}
  /\ open' = open \ {n \in {m.n} : HasAnswer(m) /\ ~room}
  /\ UNCHANGED <<sessions, entities, known, demanded, answered, received>>

(* The answer reaches the LLC.                                             *)
LlcTake ==
  LET m == Head(norm) IN
  /\ norm # <<>> /\ m.to = "llc"
  /\ answered' = answered \cup {<<m.issi, m.type, m.profile>>}
  /\ open' = open \ {m.n}
  /\ norm' = Tail(norm)
  /\ UNCHANGED <<sessions, entities, known, demanded, refused, received>>

(* The event a confirmation stands for.                                    *)
ConfirmEvent ==
  [Demand |-> "AcceptSent", GroupDemand |-> "GroupAckSent", ItsiDetach |-> "DetachComplete"]

(* mle_handle_tla_msg steps the state machine of the subscriber's session; *)
(* a subscriber without one is refused.  TnmmSap is the one SAP of the Low *)
(* bucket (sap_prio_default): it is served when Normal is empty.           *)
Confirm(issi, type) ==
  LET hits == SessionLookup(issi) IN
  /\ norm = <<>> /\ hits # {}
  /\ sessions' = [sessions EXCEPT ![First(hits)].state = FsmStep(@, ConfirmEvent[type])]
  /\ UNCHANGED <<entities, known, norm, demanded, answered, refused, open, received>>

Next ==
  \/ \E issi \in Issis, type \in MmPduUl : MleReject(issi, type) \/ MleDemand(issi, type)
  \/ \E issi \in Issis, type \in DOMAIN ConfirmEvent : Confirm(issi, type)
  \/ MmRequest \/ LlcTake

Spec == Init /\ [][Next]_vars

(* The bus is served by every timer tick; nobody has to confirm anything.  *)
FairSpec == Spec /\ WF_vars(MmRequest) /\ WF_vars(LlcTake)

-----------------------------------------------------------------------------
(* Every variable keeps its type: sessions and entities carry a profile    *)
(* that exists (maybe_auto_enroll), the bucket its capacity.               *)
TypeOK ==
  /\ sessions \in [Session -> [in_use : BOOLEAN, issi : Issis \cup {NoIssi},
                               state : MleState, profile : Profiles \cup {NoProfile}]]
  /\ entities \in [Entity -> [valid : BOOLEAN, issi : Issis \cup {NoIssi},
                              profile : Profiles]]
  /\ Len(norm) <= BusCap

(* mle_session_alloc and maybe_auto_enroll keep one session and one        *)
(* database entry per subscriber, however demands and answers interleave,  *)
(* and a session's cached profile is the database's.                       *)
OnePerSubscriber ==
  /\ \A s, t \in Session :
       sessions[s].in_use /\ sessions[t].in_use /\ sessions[s].issi = sessions[t].issi
         => s = t
  /\ \A i, j \in Entity :
       entities[i].valid /\ entities[j].valid /\ entities[i].issi = entities[j].issi
         => i = j
  /\ \A s \in Session :
       sessions[s].in_use => sessions[s].profile = ProfileOf(entities, sessions[s].issi)

(* An answer that reaches the LLC belongs to a demand of the same          *)
(* subscriber and carries that subscriber's own profile, although          *)
(* on_mm_request looks the profile up again after other subscribers were   *)
(* enrolled.                                                               *)
AnswersFit ==
  \A a \in answered :
    /\ <<a[1], a[2]>> \in demanded
    /\ a[3] = IF a[2] = "Demand" THEN ProfileOf(entities, a[1]) ELSE NoProfile

(* Each demand is accounted for once.  One that handle_mm_pdu forwarded    *)
(* and that is neither answered nor counted as lost (-ENOSPC) is exactly   *)
(* one message of the bucket, as a request or as its answer, and no other  *)
(* message is there: a station that repeats a demand because the answer is *)
(* late gets one more answer, never an answer twice and never none without *)
(* a trace, also when on_mm_request finds the bucket full behind the       *)
(* request it is serving.  (Wide group demands: see EveryDemandAnswered.)  *)
OneAnswerEach ==
  /\ \A i, j \in 1 .. Len(norm) : norm[i].n = norm[j].n => i = j
  /\ \A i \in 1 .. Len(norm) : norm[i].type # "WideGroupDemand" <=> norm[i].n \in open
  /\ \A n \in open : \E i \in 1 .. Len(norm) : norm[i].n = n

(* No demand vanishes between MLE and MM: one that handle_mm_pdu forwarded *)
(* is answered, or the bus counted the message it lost (-ENOSPC), however  *)
(* the demands of several subscribers queue up.  (Wide group demands are   *)
(* the exception, see EveryDemandAnswered.)                                *)
DemandAnswered ==
  \A issi \in Issis, type \in Decodable \ {"WideGroupDemand"} :
    <<issi, type>> \in demanded
      ~> (\E a \in answered : a[1] = issi /\ a[2] = type) \/ <<issi, type>> \in refused

(* Does not hold.  mm.h:296 says "MM builds the accept/ack": the wide      *)
(* group demand is answered too, or its loss counted.  The parser takes    *)
(* four groups with address extensions (246 bits), their acknowledgement   *)
(* is 254 bits and does not fit behind the 3-bit discriminator (256).      *)
EveryDemandAnswered ==
  \A issi \in Issis :
    <<issi, "WideGroupDemand">> \in demanded
      ~> \/ \E a \in answered : a[1] = issi /\ a[2] = "WideGroupDemand"
         \/ <<issi, "WideGroupDemand">> \in refused

(* Does not hold with AcceptUnknown = FALSE (the daemon sets it to TRUE).  *)
(* mle.c:105 says maybe_auto_enroll "returns true if enrolled (or already  *)
(* known), false if rejected": with accept_unknown off, an address that is *)
(* not in the database gets no accept.  Its verdict is thrown away.        *)
UnknownIsRejected ==
  ~AcceptUnknown => \A a \in answered : a[1] \in known

(* Does not hold.  mm.h:297 says MM "(separately) signals success back to  *)
(* MLE via TnmmSap": an accepted subscriber is registered one day.  No     *)
(* code posts it: Confirm's poster is outside and need not exist.          *)
AcceptedIsRegistered ==
  \A issi \in Issis :
    (\E a \in answered : a[1] = issi /\ a[2] = "Demand")
      ~> (\E s \in SessionLookup(issi) : sessions[s].state \in {"Registered", "GroupAttach"})
=============================================================================
