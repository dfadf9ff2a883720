------------------------------ MODULE MleMmProofs ------------------------------
(***************************************************************************)
(* Proofs about MleMm for every number of sessions and database entries,   *)
(* every set of subscribers and every initial database: one session and    *)
(* one entry per subscriber, answers that carry the subscriber's own       *)
(* profile, and every demand accounted for exactly once.                   *)
(***************************************************************************)
EXTENDS MleMm, SequenceTheorems, WellFoundedInduction, TLAPS

(* A non-empty set of numbers has a least element.                         *)
LEMMA LeastExists ==
  ASSUME NEW S, S \subseteq Nat, S # {}
  PROVE  \E i \in S : \A j \in S : i <= j
<1> DEFINE R == {ss \in Nat \X Nat : ss[1] < ss[2]}
<1>1. IsWellFoundedOn(R, Nat)
  BY NatLessThanWellFounded DEF OpToRel
<1>2. ASSUME NEW i \in S, NEW j \in S, ~(<<j, i>> \in R)
      PROVE  i <= j
  <2>1. i \in Nat /\ j \in Nat
    OBVIOUS
  <2>2. ~(j < i)
    BY <1>2, <2>1
  <2> QED
    BY <2>1, <2>2
<1> HIDE DEF R
<1>3. \E i \in S : \A j \in S : ~(<<j, i>> \in R)
  BY <1>1, WFMin
<1> QED
  BY <1>2, <1>3

(* The first slot of a non-empty set of slots is one of them.              *)
LEMMA FirstIsMember ==
  ASSUME NEW S, S \subseteq Nat, S # {}
  PROVE  First(S) \in S
<1>1. \E i \in S : \A j \in S : i <= j
  BY LeastExists
<1> QED
  BY <1>1 DEF First

-----------------------------------------------------------------------------
(* The tables.                                                             *)

(* mle_session_alloc returns the subscriber's own session, or a free one   *)
(* when there is none.                                                     *)
LEMMA SessionAllocFinds ==
  ASSUME NEW issi, SessionAlloc(issi) # 0
  PROVE  /\ SessionAlloc(issi) \in Session
         /\ \/ SessionAlloc(issi) \in SessionLookup(issi)
            \/ SessionLookup(issi) = {} /\ ~sessions[SessionAlloc(issi)].in_use
<1>1. Session \subseteq Nat
  BY DEF Session
<1>2. SessionLookup(issi) \subseteq Session /\ FreeSessions \subseteq Session
  BY DEF SessionLookup, FreeSessions
<1>3. CASE SessionLookup(issi) # {}
  BY <1>1, <1>2, <1>3, FirstIsMember DEF SessionAlloc
<1>4. CASE SessionLookup(issi) = {}
  <2>1. FreeSessions # {} /\ SessionAlloc(issi) = First(FreeSessions)
    BY <1>4 DEF SessionAlloc
  <2>2. SessionAlloc(issi) \in FreeSessions
    BY <1>1, <1>2, <2>1, FirstIsMember
  <2> QED
    BY <1>4, <2>2 DEF FreeSessions
<1> QED
  BY <1>3, <1>4

EntityType == [valid : BOOLEAN, issi : Issis \cup {NoIssi}, profile : Profiles]

Unique(t) ==
  /\ t \in [Entity -> EntityType]
  /\ \A i, j \in Entity : t[i].valid /\ t[j].valid /\ t[i].issi = t[j].issi => i = j

(* Nothing maybe_auto_enroll may still do changes what the database says   *)
(* of x: x is in it, unknown addresses are not enrolled, or it is full.    *)
Settled(t, x) ==
  LookupEntity(t, x) # {} \/ ~AcceptUnknown \/ \A i \in Entity : t[i].valid

LEMMA FirstEntity ==
  ASSUME NEW S, S \subseteq Entity, S # {}
  PROVE  First(S) \in S
<1>1. Entity \subseteq Nat
  BY DEF Entity
<1> QED
  BY <1>1, FirstIsMember

(* maybe_auto_enroll keeps one entry per address, settles the address, and *)
(* changes the profile of no settled or other address.                     *)
LEMMA EnrollKeeps ==
  ASSUME Unique(entities), NEW issi \in Issis
  PROVE  /\ Unique(AutoEnroll(issi))
         /\ Settled(AutoEnroll(issi), issi)
         /\ \A x : x # issi \/ Settled(entities, x) =>
                     LookupEntity(AutoEnroll(issi), x) = LookupEntity(entities, x)
         /\ \A x : x # issi \/ Settled(entities, x) =>
                     ProfileOf(AutoEnroll(issi), x) = ProfileOf(entities, x)
         /\ \A x : Settled(entities, x) => Settled(AutoEnroll(issi), x)
<1> DEFINE t == AutoEnroll(issi)
           k == First(FreeEntities)
<1>1. CASE LookupEntity(entities, issi) = {} /\ AcceptUnknown /\ FreeEntities # {}
  <2>1. k \in Entity /\ ~entities[k].valid
    BY <1>1, FirstEntity DEF FreeEntities
  <2>2. t = [entities EXCEPT ![k] = [valid |-> TRUE, issi |-> issi, profile |-> DefaultProfile]]
    BY <1>1 DEF AutoEnroll
  <2>3. entities \in [Entity -> EntityType]
    BY DEF Unique
  <2> HIDE DEF t, k
  <2>4. /\ t \in [Entity -> EntityType]
        /\ t[k] = [valid |-> TRUE, issi |-> issi, profile |-> DefaultProfile]
        /\ \A i \in Entity \ {k} : t[i] = entities[i]
    BY <2>1, <2>2, <2>3, DefaultProfileAssumption DEF EntityType
  <2>5. \A i \in Entity : ~(entities[i].valid /\ entities[i].issi = issi)
    BY <1>1 DEF LookupEntity
  <2>6. Unique(t)
    BY <2>1, <2>4, <2>5 DEF Unique
  <2>7. k \in LookupEntity(t, issi)
    BY <2>1, <2>4 DEF LookupEntity
  <2>8. ~Settled(entities, issi)
    BY <1>1, <2>1 DEF Settled
  <2>9. ASSUME NEW x, x # issi
        PROVE  /\ LookupEntity(t, x) = LookupEntity(entities, x)
               /\ ProfileOf(t, x) = ProfileOf(entities, x)
               /\ Settled(entities, x) => Settled(t, x)
    <3>1. LookupEntity(t, x) = LookupEntity(entities, x)
      BY <2>1, <2>4, <2>9 DEF LookupEntity
    <3>2. \A i \in LookupEntity(entities, x) : t[i] = entities[i]
      BY <2>1, <2>4 DEF LookupEntity
    <3>3. LookupEntity(entities, x) # {} => First(LookupEntity(entities, x)) \in LookupEntity(entities, x)
      BY FirstEntity DEF LookupEntity
    <3>4. ProfileOf(t, x) = ProfileOf(entities, x)
      BY <3>1, <3>2, <3>3 DEF ProfileOf
    <3>5. Settled(entities, x) => Settled(t, x)
      BY <2>1, <3>1 DEF Settled
    <3> QED
      BY <3>1, <3>4, <3>5
  <2>10. Settled(t, issi)
    BY <2>7 DEF Settled
  <2> QED
    BY <2>6, <2>8, <2>9, <2>10 DEF t
<1>2. CASE ~(LookupEntity(entities, issi) = {} /\ AcceptUnknown /\ FreeEntities # {})
  <2>1. t = entities
    BY <1>2 DEF AutoEnroll
  <2>2. Settled(entities, issi)
    BY <1>2 DEF Settled, FreeEntities
  <2> QED
    BY <2>1, <2>2
<1> QED
  BY <1>1, <1>2

-----------------------------------------------------------------------------
(* The inductive invariant.                                                *)

AnyProfile == Profiles \cup {NoProfile}
SessionType == [in_use : BOOLEAN, issi : Issis \cup {NoIssi}, state : MleState,
                profile : AnyProfile]
Message == [to : {"mm", "llc"}, issi : Issis, type : Decodable, profile : AnyProfile,
            n : Nat]

Types ==
  /\ TypeOK
  /\ norm \in Seq(Message) /\ received \in Nat
  /\ demanded \subseteq Issis \X Decodable
  /\ answered \subseteq Issis \X Decodable \X AnyProfile

(* Whoever has demanded is settled in the database.                        *)
DemandedSettled == \A d \in demanded : Settled(entities, d[1])

(* The answer to a demand, as AnswersFit wants it.                         *)
Fit(d, t, issi, type, profile) ==
  /\ <<issi, type>> \in d
  /\ profile = IF type = "Demand" THEN ProfileOf(t, issi) ELSE NoProfile

(* A message on the bus belongs to a demand; an answer fits already.       *)
InTransit ==
  \A i \in 1 .. Len(norm) :
    /\ <<norm[i].issi, norm[i].type>> \in demanded
    /\ norm[i].to = "llc" =>
         Fit(demanded, entities, norm[i].issi, norm[i].type, norm[i].profile)

(* The numbers in use are those of PDUs received: the next one is fresh.   *)
NumbersPast ==
  /\ \A i \in 1 .. Len(norm) : norm[i].n \in 0 .. received
  /\ open \subseteq 0 .. received

IInv ==
  /\ Types
  /\ OnePerSubscriber
  /\ DemandedSettled
  /\ InTransit
  /\ AnswersFit
  /\ NumbersPast
  /\ OneAnswerEach

LEMMA InitIInv == Init => IInv
<1> SUFFICES ASSUME Init PROVE IInv
  OBVIOUS
<1>1. Types
  <2>1. sessions \in [Session -> SessionType]
    BY DEF Init, FreeSession, SessionType, MleState, AnyProfile
  <2>2. entities \in [Entity -> EntityType]
    <3>1. {FreeEntity} \cup [valid : {TRUE}, issi : Issis, profile : Profiles] \subseteq EntityType
      <4>1. FreeEntity \in EntityType
        BY DefaultProfileAssumption DEF FreeEntity, EntityType
      <4>2. [valid : {TRUE}, issi : Issis, profile : Profiles] \subseteq EntityType
        BY DEF EntityType
      <4> QED
        BY <4>1, <4>2
    <3>2. entities \in [Entity -> {FreeEntity} \cup [valid : {TRUE}, issi : Issis, profile : Profiles]]
      BY DEF Init
    <3> QED
      BY <3>1, <3>2
  <2>3. Len(norm) <= BusCap
    BY SizeAssumption DEF Init
  <2> QED
    BY <2>1, <2>2, <2>3 DEF Init, Types, TypeOK, SessionType, EntityType, AnyProfile
<1>2. \A s \in Session : ~sessions[s].in_use
  BY DEF Init, FreeSession
<1>3. OnePerSubscriber
  BY <1>2 DEF OnePerSubscriber, Init
<1>4. DemandedSettled /\ InTransit /\ AnswersFit /\ NumbersPast /\ OneAnswerEach
  BY DEF DemandedSettled, InTransit, AnswersFit, NumbersPast, OneAnswerEach, Init
<1> QED
  BY <1>1, <1>3, <1>4 DEF IInv

(* mle_fsm_step yields a state.                                            *)
LEMMA FsmStepIsState ==
  ASSUME NEW s \in MleState, NEW e
  PROVE  FsmStep(s, e) \in MleState
<1> DEFINE to == {t[3] : t \in {u \in FsmTransitions : u[1] = s /\ u[2] = e}}
<1>1. FsmStep(s, e) = IF to = {} THEN s ELSE CHOOSE x \in to : TRUE
  BY Zenon DEF FsmStep
<1>2. to \subseteq MleState
  BY DEF FsmTransitions, MleState
<1> HIDE DEF to
<1> QED
  BY <1>1, <1>2

(* A demand: a session found or opened, the address enrolled, the request  *)
(* queued for MM.                                                          *)
LEMMA DemandIInv ==
  ASSUME IInv, NEW issi \in Issis, NEW type \in MmPduUl, MleDemand(issi, type)
  PROVE  IInv'
<1> DEFINE s == SessionAlloc(issi)
           old == IF sessions[s].in_use THEN sessions[s] ELSE FreeSession
           table == AutoEnroll(issi)
           new == [in_use |-> TRUE, issi |-> issi, state |-> FsmStep(old.state, Event(type)),
                   profile |-> IF LookupEntity(table, issi) = {} THEN old.profile
                               ELSE ProfileOf(table, issi)]
           m == [to |-> "mm", issi |-> issi, type |-> type, profile |-> NoProfile,
                 n |-> received + 1]
<1>0. /\ type \in Decodable /\ s # 0
      /\ entities' = table
      /\ sessions' = [sessions EXCEPT ![s] = new]
      /\ norm' = IF Len(norm) < BusCap THEN Append(norm, m) ELSE norm
      /\ demanded' = demanded \cup {<<issi, type>>}
      /\ received' = received + 1
      /\ open' = open \cup {n \in {received + 1} : Len(norm) < BusCap /\ type # "WideGroupDemand"}
      /\ UNCHANGED answered
  BY DEF MleDemand
<1>1. /\ sessions \in [Session -> SessionType]
      /\ Unique(entities)
      /\ norm \in Seq(Message) /\ Len(norm) <= BusCap /\ received \in Nat
  BY DEF IInv, Types, TypeOK, SessionType, AnyProfile, Unique, EntityType, OnePerSubscriber
<1>2. /\ s \in Session
      /\ \/ sessions[s].in_use /\ sessions[s].issi = issi
         \/ ~sessions[s].in_use /\ \A r \in Session : ~(sessions[r].in_use /\ sessions[r].issi = issi)
  BY <1>0, SessionAllocFinds DEF SessionLookup
<1>3. /\ Unique(table)
      /\ Settled(table, issi)
      /\ \A x : x # issi \/ Settled(entities, x) =>
                  LookupEntity(table, x) = LookupEntity(entities, x)
      /\ \A x : x # issi \/ Settled(entities, x) =>
                  ProfileOf(table, x) = ProfileOf(entities, x)
      /\ \A x : Settled(entities, x) => Settled(table, x)
  BY <1>1, EnrollKeeps
<1>4. LookupEntity(table, issi) = {} => LookupEntity(entities, issi) = {}
  <2>1. CASE Settled(entities, issi)
    BY <1>3, <2>1
  <2>2. CASE ~Settled(entities, issi)
    BY <2>2 DEF Settled
  <2> QED
    BY <2>1, <2>2
<1>5. /\ old \in SessionType
      /\ ~sessions[s].in_use => old.profile = NoProfile /\ old.state = "Idle"
      /\ sessions[s].in_use => old = sessions[s]
  BY <1>1, <1>2 DEF FreeSession, SessionType, AnyProfile, MleState
<1>6. ProfileOf(table, issi) \in AnyProfile
  <2>1. CASE LookupEntity(table, issi) = {}
    BY <2>1 DEF ProfileOf, AnyProfile
  <2>2. CASE LookupEntity(table, issi) # {}
    <3>1. First(LookupEntity(table, issi)) \in LookupEntity(table, issi)
      BY <2>2, FirstEntity DEF LookupEntity
    <3>2. First(LookupEntity(table, issi)) \in Entity
      BY <3>1 DEF LookupEntity
    <3> QED
      BY <1>3, <2>2, <3>2 DEF ProfileOf, Unique, EntityType, AnyProfile
  <2> QED
    BY <2>1, <2>2
<1>8. old.state \in MleState
  BY <1>5 DEF SessionType
<1>9. new \in SessionType
  <2>1. FsmStep(old.state, Event(type)) \in MleState
    BY <1>8, FsmStepIsState
  <2>2. old.profile \in AnyProfile
    BY <1>5 DEF SessionType
  <2> QED
    BY <1>6, <2>1, <2>2 DEF SessionType
<1>11. new.profile = ProfileOf(table, issi)
  <2>1. CASE LookupEntity(table, issi) # {}
    BY <2>1
  <2>2. CASE LookupEntity(table, issi) = {}
    <3>1. ProfileOf(table, issi) = NoProfile /\ ProfileOf(entities, issi) = NoProfile
      BY <1>4, <2>2 DEF ProfileOf
    <3>2. old.profile = NoProfile
      BY <1>2, <1>5, <3>1 DEF IInv, OnePerSubscriber
    <3> QED
      BY <2>2, <3>1, <3>2
  <2> QED
    BY <2>1, <2>2
<1>12. new.in_use /\ new.issi = issi
  OBVIOUS
<1> HIDE DEF s, old, table, new
<1>13. /\ sessions' \in [Session -> SessionType]
       /\ sessions'[s] = new
       /\ \A r \in Session \ {s} : sessions'[r] = sessions[r]
  BY <1>0, <1>1, <1>2, <1>9
<1>14. /\ norm' \in Seq(Message) /\ Len(norm') <= BusCap
       /\ \A i \in 1 .. Len(norm) : i \in 1 .. Len(norm') /\ norm'[i] = norm[i]
       /\ \/ norm' = norm /\ open' = open
          \/ /\ Len(norm') = Len(norm) + 1 /\ norm'[Len(norm) + 1] = m
             /\ open' = open \cup {n \in {received + 1} : type # "WideGroupDemand"}
  <2>1. m \in Message
    BY <1>0, <1>1 DEF Message, AnyProfile
  <2> HIDE DEF m
  <2>2. CASE Len(norm) < BusCap
    <3>1. /\ norm' = Append(norm, m) /\ norm' \in Seq(Message)
          /\ Len(norm') = Len(norm) + 1
          /\ \A i \in 1 .. Len(norm) : norm'[i] = norm[i]
          /\ norm'[Len(norm) + 1] = m
      BY <1>0, <1>1, <2>1, <2>2, AppendProperties
    <3>2. open' = open \cup {n \in {received + 1} : type # "WideGroupDemand"}
      BY <1>0, <2>2
    <3> QED
      BY <1>1, <2>2, <3>1, <3>2, SizeAssumption
  <2>3. CASE ~(Len(norm) < BusCap)
    BY <1>0, <1>1, <2>3
  <2> QED
    BY <2>2, <2>3
<1>15. Types'
  <2>1. entities' \in [Entity -> EntityType]
    BY <1>0, <1>3 DEF Unique
  <2>2. TypeOK'
    BY <1>13, <1>14, <2>1 DEF TypeOK, SessionType, EntityType, AnyProfile
  <2> QED
    BY <1>0, <1>1, <1>14, <2>2 DEF IInv, Types
<1>16. OnePerSubscriber'
  <2>1. ASSUME NEW p \in Session, NEW q \in Session,
               sessions'[p].in_use, sessions'[q].in_use, sessions'[p].issi = sessions'[q].issi
        PROVE  p = q
    BY <1>2, <1>12, <1>13, <2>1 DEF IInv, OnePerSubscriber
  <2>2. ASSUME NEW p \in Session, sessions'[p].in_use
        PROVE  sessions'[p].profile = ProfileOf(entities', sessions'[p].issi)
    <3>1. CASE p = s
      BY <1>0, <1>11, <1>12, <1>13, <3>1
    <3>2. CASE p # s
      <4>1. sessions'[p] = sessions[p] /\ sessions[p].issi # issi
        BY <1>2, <1>13, <2>2, <3>2 DEF IInv, OnePerSubscriber
      <4>2. sessions[p].profile = ProfileOf(entities, sessions[p].issi)
        BY <2>2, <4>1 DEF IInv, OnePerSubscriber
      <4> QED
        BY <1>0, <1>3, <4>1, <4>2
    <3> QED
      BY <3>1, <3>2
  <2>3. \A i, j \in Entity :
          entities'[i].valid /\ entities'[j].valid /\ entities'[i].issi = entities'[j].issi => i = j
    BY <1>0, <1>3 DEF Unique
  <2> QED
    BY <2>1, <2>2, <2>3 DEF OnePerSubscriber
<1>17. DemandedSettled'
  <2>1. ASSUME NEW d \in demanded' PROVE Settled(entities', d[1])
    <3>1. CASE d \in demanded
      BY <1>0, <1>3, <3>1 DEF IInv, DemandedSettled
    <3>2. CASE d = <<issi, type>>
      BY <1>0, <1>3, <3>2
    <3> QED
      BY <1>0, <2>1, <3>1, <3>2
  <2> QED
    BY <2>1 DEF DemandedSettled, Settled
<1>18. \A x, y, z : Fit(demanded, entities, x, y, z) => Fit(demanded', entities', x, y, z)
  <2> SUFFICES ASSUME NEW x, NEW y, NEW z, Fit(demanded, entities, x, y, z)
               PROVE  Fit(demanded', entities', x, y, z)
    OBVIOUS
  <2>1. Settled(entities, x)
    BY DEF Fit, IInv, DemandedSettled
  <2> QED
    BY <1>0, <1>3, <2>1 DEF Fit
<1>19. InTransit'
  <2>1. m.to = "mm" /\ m.issi = issi /\ m.type = type
    OBVIOUS
  <2> HIDE DEF m
  <2> SUFFICES ASSUME NEW i \in 1 .. Len(norm')
               PROVE  /\ <<norm'[i].issi, norm'[i].type>> \in demanded'
                      /\ norm'[i].to = "llc" =>
                           Fit(demanded', entities', norm'[i].issi, norm'[i].type, norm'[i].profile)
    BY DEF InTransit
  <2>2. CASE i \in 1 .. Len(norm)
    BY <1>0, <1>14, <1>18, <2>2 DEF IInv, InTransit
  <2>3. CASE norm'[i] = m
    BY <1>0, <2>1, <2>3
  <2> QED
    BY <1>1, <1>14, <2>2, <2>3
<1>20. AnswersFit'
  <2>1. \A a \in answered : Fit(demanded, entities, a[1], a[2], a[3])
    BY DEF IInv, AnswersFit, Fit
  <2>2. \A a \in answered' : Fit(demanded', entities', a[1], a[2], a[3])
    BY <1>0, <1>18, <2>1
  <2> QED
    BY <2>2 DEF AnswersFit, Fit
<1>21. NumbersPast' /\ OneAnswerEach'
  <2>0. m.n = received + 1 /\ m.type = type
    OBVIOUS
  <2> HIDE DEF m
  <2>1. CASE norm' = norm /\ open' = open
    <3>1. NumbersPast'
      <4>1. received' = received + 1 /\ 0 .. received \subseteq 0 .. received + 1
        BY <1>0, <1>1
      <4> QED
        BY <2>1, <4>1 DEF IInv, NumbersPast
    <3>2. OneAnswerEach'
      BY <2>1 DEF IInv, OneAnswerEach
    <3> QED
      BY <3>1, <3>2
  <2>2. CASE /\ Len(norm') = Len(norm) + 1 /\ norm'[Len(norm) + 1] = m
             /\ open' = open \cup {n \in {received + 1} : type # "WideGroupDemand"}
    <3>1. Len(norm) \in Nat
      BY <1>1
    <3>2. \A i \in 1 .. Len(norm') : i \in 1 .. Len(norm) \/ i = Len(norm) + 1
      BY <2>2, <3>1
    <3>3. Len(norm) + 1 \in 1 .. Len(norm')
      BY <2>2, <3>1
    <3>4. NumbersPast'
      <4>1. \A i \in 1 .. Len(norm') : norm'[i].n \in 0 .. received + 1
        <5>1. 0 .. received \subseteq 0 .. received + 1 /\ received + 1 \in 0 .. received + 1
          BY <1>1
        <5>2. \A i \in 1 .. Len(norm) : norm[i].n \in 0 .. received + 1
          BY <5>1 DEF IInv, NumbersPast
        <5> SUFFICES ASSUME NEW i \in 1 .. Len(norm') PROVE norm'[i].n \in 0 .. received + 1
          OBVIOUS
        <5>3. CASE i \in 1 .. Len(norm)
          BY <1>14, <5>2, <5>3
        <5>4. CASE i = Len(norm) + 1
          BY <2>0, <2>2, <5>1, <5>4
        <5> QED
          BY <3>2, <5>3, <5>4
      <4>2. open' \subseteq 0 .. received + 1
        <5>1. open \subseteq 0 .. received + 1 /\ received + 1 \in 0 .. received + 1
          <6>1. 0 .. received \subseteq 0 .. received + 1 /\ received + 1 \in 0 .. received + 1
            BY <1>1
          <6> QED
            BY <6>1 DEF IInv, NumbersPast
        <5>2. open' \subseteq open \cup {received + 1}
          BY <2>2
        <5> QED
          BY <5>1, <5>2
      <4> QED
        BY <1>0, <4>1, <4>2 DEF NumbersPast
    <3>5. \A i, j \in 1 .. Len(norm') : norm'[i].n = norm'[j].n => i = j
      <4>1. \A i \in 1 .. Len(norm) : norm[i].n # received + 1
        BY <1>1, <3>1 DEF IInv, NumbersPast
      <4> QED
        BY <1>14, <2>0, <2>2, <3>2, <4>1 DEF IInv, OneAnswerEach
    <3>6. \A i \in 1 .. Len(norm') : norm'[i].type # "WideGroupDemand" <=> norm'[i].n \in open'
      <4>1. \A i \in 1 .. Len(norm) : norm[i].n # received + 1
        BY <1>1, <3>1 DEF IInv, NumbersPast
      <4>2. received + 1 \notin open
        BY <1>1 DEF IInv, NumbersPast
      <4> QED
        BY <1>14, <2>0, <2>2, <3>2, <4>1, <4>2 DEF IInv, OneAnswerEach
    <3>7. \A n \in open' : \E i \in 1 .. Len(norm') : norm'[i].n = n
      <4> SUFFICES ASSUME NEW n \in open' PROVE \E i \in 1 .. Len(norm') : norm'[i].n = n
        OBVIOUS
      <4>1. CASE n \in open
        <5>1. PICK i \in 1 .. Len(norm) : norm[i].n = n
          BY <4>1 DEF IInv, OneAnswerEach
        <5> QED
          BY <1>14, <5>1
      <4>2. CASE n = received + 1
        BY <2>0, <2>2, <3>3, <4>2
      <4> QED
        BY <2>2, <4>1, <4>2
    <3> QED
      BY <3>4, <3>5, <3>6, <3>7 DEF OneAnswerEach
  <2> QED
    BY <1>14, <2>1, <2>2
<1> QED
  BY <1>15, <1>16, <1>17, <1>19, <1>20, <1>21 DEF IInv

(* The head leaves the bus, and maybe another message joins its end.       *)
LEMMA PoppedNorm ==
  ASSUME norm \in Seq(Message), norm # <<>>, Len(norm) <= BusCap, NEW m \in Message
  PROVE  /\ Len(norm) \in Nat \ {0}
         /\ norm' = Tail(norm) =>
              /\ norm' \in Seq(Message) /\ Len(norm') = Len(norm) - 1 /\ Len(norm') <= BusCap
              /\ \A i \in 1 .. Len(norm') : norm'[i] = norm[i + 1]
         /\ norm' = Append(Tail(norm), m) =>
              /\ norm' \in Seq(Message) /\ Len(norm') = Len(norm) /\ Len(norm') <= BusCap
              /\ \A i \in 1 .. Len(norm) - 1 : norm'[i] = norm[i + 1]
              /\ norm'[Len(norm)] = m
<1> DEFINE t == Tail(norm)
<1>1. /\ t \in Seq(Message) /\ Len(t) = Len(norm) - 1 /\ Len(norm) \in Nat \ {0}
      /\ \A i \in 1 .. Len(t) : t[i] = norm[i + 1]
  BY HeadTailProperties
<1> HIDE DEF t
<1>2. ASSUME norm' = t
      PROVE  /\ norm' \in Seq(Message) /\ Len(norm') = Len(norm) - 1 /\ Len(norm') <= BusCap
             /\ \A i \in 1 .. Len(norm') : norm'[i] = norm[i + 1]
  BY <1>1, <1>2, SizeAssumption
<1>3. ASSUME norm' = Append(t, m)
      PROVE  /\ norm' \in Seq(Message) /\ Len(norm') = Len(norm) /\ Len(norm') <= BusCap
             /\ \A i \in 1 .. Len(norm) - 1 : norm'[i] = norm[i + 1]
             /\ norm'[Len(norm)] = m
  <2>1. /\ norm' \in Seq(Message) /\ Len(norm') = Len(t) + 1
        /\ \A i \in 1 .. Len(t) : norm'[i] = t[i]
        /\ norm'[Len(t) + 1] = m
    BY <1>1, <1>3, AppendProperties
  <2> QED
    BY <1>1, <2>1
<1> QED
  BY <1>1, <1>2, <1>3 DEF t

(* A message leaves the bus for good: its number is closed, or it was a    *)
(* wide group demand, which has none to close.                             *)
LEMMA PoppedKeeps ==
  ASSUME IInv, norm # <<>>, norm' = Tail(norm), UNCHANGED received,
         \/ open' = open \ {Head(norm).n}
         \/ open' = open /\ Head(norm).type = "WideGroupDemand"
  PROVE  NumbersPast' /\ OneAnswerEach'
<1> DEFINE m == Head(norm)
<1>1. norm \in Seq(Message) /\ Len(norm) <= BusCap /\ received \in Nat
  BY DEF IInv, Types, TypeOK
<1>2. m = norm[1] /\ m \in Message
  BY <1>1
<1>3. /\ Len(norm') = Len(norm) - 1 /\ Len(norm) \in Nat \ {0}
      /\ \A i \in 1 .. Len(norm') : norm'[i] = norm[i + 1]
  BY <1>1, <1>2, PoppedNorm
<1>4. open' = open \ {m.n} \/ (open' = open /\ m.type = "WideGroupDemand")
  OBVIOUS
<1> HIDE DEF m
<1>5. \A i \in 1 .. Len(norm') : i + 1 \in 1 .. Len(norm)
  BY <1>3
<1>6. \A i \in 1 .. Len(norm) : i = 1 \/ (i - 1 \in 1 .. Len(norm') /\ norm'[i - 1] = norm[i])
  BY <1>3
<1>7. 1 \in 1 .. Len(norm)
  BY <1>3
<1>8. NumbersPast'
  BY <1>3, <1>4, <1>5 DEF IInv, NumbersPast
<1>9. \A i, j \in 1 .. Len(norm') : norm'[i].n = norm'[j].n => i = j
  <2> SUFFICES ASSUME NEW i \in 1 .. Len(norm'), NEW j \in 1 .. Len(norm'),
                      norm'[i].n = norm'[j].n
               PROVE  i = j
    OBVIOUS
  <2>1. i + 1 = j + 1
    BY <1>3, <1>5 DEF IInv, OneAnswerEach
  <2> QED
    BY <2>1
<1>10. \A i \in 1 .. Len(norm') : norm'[i].type # "WideGroupDemand" <=> norm'[i].n \in open'
  <2> SUFFICES ASSUME NEW i \in 1 .. Len(norm')
               PROVE  norm'[i].type # "WideGroupDemand" <=> norm'[i].n \in open'
    OBVIOUS
  <2>1. i + 1 # 1
    BY <1>3
  <2>2. norm[i + 1].n # m.n
    BY <1>2, <1>5, <1>7, <2>1 DEF IInv, OneAnswerEach
  <2>3. norm[i + 1].type # "WideGroupDemand" <=> norm[i + 1].n \in open
    BY <1>5 DEF IInv, OneAnswerEach
  <2> QED
    BY <1>3, <1>4, <2>2, <2>3
<1>11. \A n \in open' : \E i \in 1 .. Len(norm') : norm'[i].n = n
  <2> SUFFICES ASSUME NEW n \in open' PROVE \E i \in 1 .. Len(norm') : norm'[i].n = n
    OBVIOUS
  <2>1. n \in open
    BY <1>4
  <2>2. PICK i \in 1 .. Len(norm) : norm[i].n = n
    BY <2>1 DEF IInv, OneAnswerEach
  <2>3. m.type = "WideGroupDemand" => m.n \notin open
    BY <1>2, <1>7 DEF IInv, OneAnswerEach
  <2>4. n # m.n
    BY <1>4, <2>1, <2>3
  <2>5. i # 1
    BY <1>2, <2>2, <2>4
  <2> QED
    BY <1>6, <2>2, <2>5
<1> QED
  BY <1>8, <1>9, <1>10, <1>11 DEF OneAnswerEach

(* on_mm_request: the answer is built from the database as it is now.      *)
LEMMA RequestIInv ==
  ASSUME IInv, MmRequest
  PROVE  IInv'
<1> DEFINE m == Head(norm)
           answer == [to |-> "llc", issi |-> m.issi, type |-> m.type,
                      profile |-> AnswerProfile(m), n |-> m.n]
<1>0. /\ norm # <<>> /\ m.to = "mm"
      /\ \/ norm' = Tail(norm) /\ open' = open \ {m.n}
         \/ norm' = Tail(norm) /\ open' = open /\ m.type = "WideGroupDemand"
         \/ norm' = Append(Tail(norm), answer) /\ open' = open
      /\ UNCHANGED <<sessions, entities, demanded, answered, received>>
  BY DEF MmRequest, HasAnswer
<1>1. norm \in Seq(Message) /\ Len(norm) <= BusCap /\ received \in Nat
  BY DEF IInv, Types, TypeOK
<1>2. m = norm[1] /\ 1 \in 1 .. Len(norm) /\ m \in Message
  BY <1>0, <1>1
<1>3. ProfileOf(entities, m.issi) \in AnyProfile
  <2>1. CASE LookupEntity(entities, m.issi) = {}
    BY <2>1 DEF ProfileOf, AnyProfile
  <2>2. CASE LookupEntity(entities, m.issi) # {}
    <3>1. First(LookupEntity(entities, m.issi)) \in LookupEntity(entities, m.issi)
      BY <2>2, FirstEntity DEF LookupEntity
    <3>2. First(LookupEntity(entities, m.issi)) \in Entity
      BY <3>1 DEF LookupEntity
    <3> QED
      BY <2>2, <3>2 DEF ProfileOf, AnyProfile, IInv, Types, TypeOK
  <2> QED
    BY <2>1, <2>2
<1>4. <<m.issi, m.type>> \in demanded
  BY <1>2 DEF IInv, InTransit
<1>5. /\ answer \in Message
      /\ answer.to = "llc" /\ answer.issi = m.issi /\ answer.type = m.type /\ answer.n = m.n
      /\ Fit(demanded, entities, answer.issi, answer.type, answer.profile)
  BY <1>2, <1>3, <1>4 DEF Message, AnswerProfile, AnyProfile, Fit
<1> HIDE DEF m, answer
<1>6. /\ norm' \in Seq(Message) /\ Len(norm') <= BusCap
      /\ \A i \in 1 .. Len(norm') : (\E j \in 1 .. Len(norm) : norm'[i] = norm[j]) \/ norm'[i] = answer
  <2>1. CASE norm' = Tail(norm)
    BY <1>0, <1>1, <1>2, <2>1, PoppedNorm
  <2>2. CASE norm' = Append(Tail(norm), answer)
    <3>1. /\ norm' \in Seq(Message) /\ Len(norm') = Len(norm) /\ Len(norm') <= BusCap
          /\ \A i \in 1 .. Len(norm) - 1 : norm'[i] = norm[i + 1]
          /\ norm'[Len(norm)] = answer /\ Len(norm) \in Nat \ {0}
      BY <1>0, <1>1, <1>5, <2>2, PoppedNorm
    <3> QED
      BY <3>1
  <2> QED
    BY <1>0, <2>1, <2>2
<1>7. Types'
  <2>1. TypeOK'
    BY <1>0, <1>6 DEF IInv, Types, TypeOK
  <2> QED
    BY <1>0, <1>6, <2>1 DEF IInv, Types
<1>8. InTransit'
  <2> SUFFICES ASSUME NEW i \in 1 .. Len(norm')
               PROVE  /\ <<norm'[i].issi, norm'[i].type>> \in demanded'
                      /\ norm'[i].to = "llc" =>
                           Fit(demanded', entities', norm'[i].issi, norm'[i].type, norm'[i].profile)
    BY DEF InTransit
  <2>1. CASE \E j \in 1 .. Len(norm) : norm'[i] = norm[j]
    BY <1>0, <2>1 DEF IInv, InTransit
  <2>2. CASE norm'[i] = answer
    BY <1>0, <1>4, <1>5, <2>2
  <2> QED
    BY <1>6, <2>1, <2>2
<1>9. NumbersPast' /\ OneAnswerEach'
  <2>1. CASE /\ norm' = Tail(norm)
             /\ open' = open \ {m.n} \/ (open' = open /\ m.type = "WideGroupDemand")
    BY <1>0, <1>1, <1>2, <2>1, PoppedKeeps
  <2>2. CASE norm' = Append(Tail(norm), answer) /\ open' = open
    <3>1. /\ Len(norm') = Len(norm)
          /\ \A i \in 1 .. Len(norm) - 1 : norm'[i] = norm[i + 1]
          /\ norm'[Len(norm)] = answer /\ Len(norm) \in Nat \ {0}
      BY <1>0, <1>1, <1>5, <2>2, PoppedNorm
    <3> DEFINE from(i) == IF i = Len(norm) THEN 1 ELSE i + 1
               to(i) == IF i = 1 THEN Len(norm) ELSE i - 1
    <3>2. ASSUME NEW i \in 1 .. Len(norm')
          PROVE  /\ from(i) \in 1 .. Len(norm)
                 /\ norm'[i].n = norm[from(i)].n /\ norm'[i].type = norm[from(i)].type
      BY <1>2, <1>5, <3>1
    <3>3. \A i, j \in 1 .. Len(norm') : from(i) = from(j) => i = j
      BY <3>1
    <3>4. \A i \in 1 .. Len(norm) : to(i) \in 1 .. Len(norm') /\ from(to(i)) = i
      BY <3>1
    <3> HIDE DEF from, to
    <3>5. NumbersPast'
      BY <1>0, <2>2, <3>2 DEF IInv, NumbersPast
    <3>6. \A i, j \in 1 .. Len(norm') : norm'[i].n = norm'[j].n => i = j
      BY <3>2, <3>3 DEF IInv, OneAnswerEach
    <3>7. \A i \in 1 .. Len(norm') : norm'[i].type # "WideGroupDemand" <=> norm'[i].n \in open'
      <4> SUFFICES ASSUME NEW i \in 1 .. Len(norm')
                   PROVE  norm'[i].type # "WideGroupDemand" <=> norm'[i].n \in open'
        OBVIOUS
      <4>1. norm[from(i)].type # "WideGroupDemand" <=> norm[from(i)].n \in open
        BY <3>2 DEF IInv, OneAnswerEach
      <4> QED
        BY <2>2, <3>2, <4>1
    <3>8. \A n \in open' : \E i \in 1 .. Len(norm') : norm'[i].n = n
      <4> SUFFICES ASSUME NEW n \in open' PROVE \E i \in 1 .. Len(norm') : norm'[i].n = n
        OBVIOUS
      <4>1. PICK i \in 1 .. Len(norm) : norm[i].n = n
        BY <2>2 DEF IInv, OneAnswerEach
      <4>2. to(i) \in 1 .. Len(norm') /\ norm'[to(i)].n = norm[i].n
        BY <3>2, <3>4
      <4> QED
        BY <4>1, <4>2
    <3> QED
      BY <3>5, <3>6, <3>7, <3>8 DEF OneAnswerEach
  <2> QED
    BY <1>0, <2>1, <2>2
<1>10. OnePerSubscriber' /\ DemandedSettled' /\ AnswersFit'
  <2>1. OnePerSubscriber'
    BY <1>0 DEF IInv, OnePerSubscriber
  <2>2. DemandedSettled'
    BY <1>0 DEF IInv, DemandedSettled
  <2>3. AnswersFit'
    BY <1>0 DEF IInv, AnswersFit
  <2> QED
    BY <2>1, <2>2, <2>3
<1> QED
  BY <1>7, <1>8, <1>9, <1>10 DEF IInv

(* The LLC takes an answer.                                                *)
LEMMA TakeIInv ==
  ASSUME IInv, LlcTake
  PROVE  IInv'
<1> DEFINE m == Head(norm)
<1>0. /\ norm # <<>> /\ m.to = "llc" /\ norm' = Tail(norm)
      /\ answered' = answered \cup {<<m.issi, m.type, m.profile>>}
      /\ open' = open \ {m.n}
      /\ UNCHANGED <<sessions, entities, demanded, received>>
  BY DEF LlcTake
<1>1. norm \in Seq(Message) /\ Len(norm) <= BusCap
  BY DEF IInv, Types, TypeOK
<1>2. m = norm[1] /\ 1 \in 1 .. Len(norm) /\ m \in Message
  BY <1>0, <1>1
<1>3. Fit(demanded, entities, m.issi, m.type, m.profile)
  BY <1>0, <1>2 DEF IInv, InTransit
<1> HIDE DEF m
<1>4. /\ norm' \in Seq(Message) /\ Len(norm') <= BusCap
      /\ \A i \in 1 .. Len(norm') : \E j \in 1 .. Len(norm) : norm'[i] = norm[j]
  <2>1. /\ norm' \in Seq(Message) /\ Len(norm') <= BusCap /\ Len(norm') = Len(norm) - 1
        /\ \A i \in 1 .. Len(norm') : norm'[i] = norm[i + 1]
        /\ Len(norm) \in Nat \ {0}
    BY <1>0, <1>1, <1>2, PoppedNorm
  <2> QED
    BY <2>1
<1>5. Types'
  <2>1. <<m.issi, m.type, m.profile>> \in Issis \X Decodable \X AnyProfile
    BY <1>2 DEF Message
  <2> QED
    BY <1>0, <1>4, <2>1 DEF IInv, Types, TypeOK
<1>6. InTransit'
  BY <1>0, <1>4 DEF IInv, InTransit
<1>7. AnswersFit'
  <2> SUFFICES ASSUME NEW a \in answered'
               PROVE  Fit(demanded, entities, a[1], a[2], a[3])
    BY <1>0 DEF AnswersFit, Fit
  <2>1. CASE a \in answered
    BY <2>1 DEF IInv, AnswersFit, Fit
  <2>2. CASE a = <<m.issi, m.type, m.profile>>
    BY <1>3, <2>2
  <2> QED
    BY <1>0, <2>1, <2>2
<1>8. NumbersPast' /\ OneAnswerEach'
  BY <1>0, PoppedKeeps DEF m
<1>9. OnePerSubscriber' /\ DemandedSettled'
  <2>1. OnePerSubscriber'
    BY <1>0 DEF IInv, OnePerSubscriber
  <2>2. DemandedSettled'
    BY <1>0 DEF IInv, DemandedSettled
  <2> QED
    BY <2>1, <2>2
<1> QED
  BY <1>5, <1>6, <1>7, <1>8, <1>9 DEF IInv

(* A confirmation moves a session's state machine and nothing else.        *)
LEMMA ConfirmIInv ==
  ASSUME IInv, NEW issi \in Issis, NEW type \in DOMAIN ConfirmEvent, Confirm(issi, type)
  PROVE  IInv'
<1> DEFINE k == First(SessionLookup(issi))
           st == FsmStep(sessions[k].state, ConfirmEvent[type])
<1>0. /\ SessionLookup(issi) # {}
      /\ sessions' = [sessions EXCEPT ![k].state = st]
      /\ UNCHANGED <<entities, norm, demanded, answered, open, received>>
  BY DEF Confirm
<1>1. sessions \in [Session -> SessionType]
  BY DEF IInv, Types, TypeOK, SessionType, AnyProfile
<1>2. k \in Session
  <2>1. SessionLookup(issi) \subseteq Nat
    BY DEF SessionLookup, Session
  <2>2. k \in SessionLookup(issi)
    BY <1>0, <2>1, FirstIsMember
  <2> QED
    BY <2>2 DEF SessionLookup
<1>3. st \in MleState
  BY <1>1, <1>2, FsmStepIsState DEF SessionType
<1> HIDE DEF k, st
<1>4. /\ sessions' \in [Session -> SessionType]
      /\ \A s \in Session : /\ sessions'[s].in_use = sessions[s].in_use
                            /\ sessions'[s].issi = sessions[s].issi
                            /\ sessions'[s].profile = sessions[s].profile
  <2>1. sessions' \in [Session -> SessionType]
    BY <1>0, <1>1, <1>2, <1>3 DEF SessionType
  <2>2. \A s \in Session : /\ sessions'[s].in_use = sessions[s].in_use
                           /\ sessions'[s].issi = sessions[s].issi
                           /\ sessions'[s].profile = sessions[s].profile
    BY <1>0, <1>1, <1>2 DEF SessionType
  <2> QED
    BY <2>1, <2>2
<1>5. Types'
  BY <1>0, <1>4 DEF IInv, Types, TypeOK, SessionType, AnyProfile
<1>6. OnePerSubscriber'
  <2>1. \A s, t \in Session :
          sessions'[s].in_use /\ sessions'[t].in_use /\ sessions'[s].issi = sessions'[t].issi
            => s = t
    BY <1>4 DEF IInv, OnePerSubscriber
  <2>2. \A s \in Session :
          sessions'[s].in_use => sessions'[s].profile = ProfileOf(entities, sessions'[s].issi)
    BY <1>4 DEF IInv, OnePerSubscriber
  <2> QED
    BY <1>0, <2>1, <2>2 DEF IInv, OnePerSubscriber
<1>7. DemandedSettled' /\ InTransit' /\ AnswersFit'
  <2>1. DemandedSettled'
    BY <1>0 DEF IInv, DemandedSettled
  <2>2. InTransit'
    BY <1>0 DEF IInv, InTransit
  <2>3. AnswersFit'
    BY <1>0 DEF IInv, AnswersFit
  <2> QED
    BY <2>1, <2>2, <2>3
<1>8. NumbersPast' /\ OneAnswerEach'
  BY <1>0 DEF IInv, NumbersPast, OneAnswerEach
<1> QED
  BY <1>5, <1>6, <1>7, <1>8 DEF IInv

LEMMA NextIInv == IInv /\ [Next]_vars => IInv'
<1> SUFFICES ASSUME IInv, [Next]_vars PROVE IInv'
  OBVIOUS
<1> DEFINE same == UNCHANGED <<sessions, entities, norm, demanded, answered, open, received>>
<1>0. ASSUME same PROVE IInv'
  <2>1. Types'
    BY <1>0 DEF IInv, Types, TypeOK
  <2>2. OnePerSubscriber'
    BY <1>0 DEF IInv, OnePerSubscriber
  <2>3. DemandedSettled' /\ AnswersFit'
    BY <1>0 DEF IInv, DemandedSettled, AnswersFit
  <2>4. InTransit'
    BY <1>0 DEF IInv, InTransit
  <2>5. NumbersPast' /\ OneAnswerEach'
    BY <1>0 DEF IInv, NumbersPast, OneAnswerEach
  <2> QED
    BY <2>1, <2>2, <2>3, <2>4, <2>5 DEF IInv
<1>1. ASSUME NEW issi \in Issis, NEW type \in MmPduUl, MleReject(issi, type)
      PROVE  IInv'
  <2>1. received \in Nat /\ norm \in Seq(Message)
    BY DEF IInv, Types
  <2>2. /\ received' = received + 1
        /\ UNCHANGED <<sessions, entities, norm, demanded, answered, open>>
    BY <1>1 DEF MleReject
  <2>3. NumbersPast'
    BY <2>1, <2>2 DEF IInv, NumbersPast
  <2>4. Types'
    BY <2>1, <2>2 DEF IInv, Types, TypeOK
  <2>5. OnePerSubscriber' /\ DemandedSettled' /\ AnswersFit'
    BY <2>2 DEF IInv, OnePerSubscriber, DemandedSettled, AnswersFit
  <2>6. InTransit' /\ OneAnswerEach'
    BY <2>2 DEF IInv, InTransit, OneAnswerEach
  <2> QED
    BY <2>3, <2>4, <2>5, <2>6 DEF IInv
<1>2. ASSUME NEW issi \in Issis, NEW type \in MmPduUl, MleDemand(issi, type)
      PROVE  IInv'
  BY <1>2, DemandIInv
<1>3. CASE MmRequest
  BY <1>3, RequestIInv
<1>4. CASE LlcTake
  BY <1>4, TakeIInv
<1>5. ASSUME NEW issi \in Issis, NEW type \in DOMAIN ConfirmEvent, Confirm(issi, type)
      PROVE  IInv'
  BY <1>5, ConfirmIInv
<1>6. CASE UNCHANGED vars
  BY <1>0, <1>6 DEF vars
<1> QED
  BY <1>1, <1>2, <1>3, <1>4, <1>5, <1>6 DEF Next

LEMMA AlwaysIInv == Spec => []IInv
<1> QED
  BY InitIInv, NextIInv, PTL DEF Spec

(* For every table size and every order of demands and answers: one        *)
(* session and one database entry per subscriber, and the session's cached *)
(* profile is the database's (mle_session_alloc, maybe_auto_enroll).       *)
THEOREM OneSessionOneEntry == Spec => []OnePerSubscriber
<1>1. IInv => OnePerSubscriber
  BY DEF IInv
<1> QED
  BY <1>1, AlwaysIInv, PTL

(* For every number of subscribers: an answer at the LLC belongs to a      *)
(* demand and carries that subscriber's profile (on_mm_request).           *)
THEOREM AnswersCarryOwnProfile == Spec => []AnswersFit
<1>1. IInv => AnswersFit
  BY DEF IInv
<1> QED
  BY <1>1, AlwaysIInv, PTL

(* For every bus capacity and every number of demands: a demand that was   *)
(* forwarded and is neither answered nor counted as lost is exactly one    *)
(* message of the bucket, so none is answered twice and none vanishes      *)
(* (forward_mm_request, on_mm_request).                                    *)
THEOREM DemandsAccounted == Spec => []OneAnswerEach
<1>1. IInv => OneAnswerEach
  BY DEF IInv
<1> QED
  BY <1>1, AlwaysIInv, PTL
=============================================================================
