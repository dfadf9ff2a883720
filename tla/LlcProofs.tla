------------------------------- MODULE LlcProofs -------------------------------
(***************************************************************************)
(* Proofs about Llc for every number of links and endpoints, every bucket  *)
(* capacity and every mix of frames: one endpoint per link, and the        *)
(* stop-and-wait link implements what LlcLinkSpec promises although the    *)
(* radio loses and damages frames and both sides repeat them.              *)
(***************************************************************************)
EXTENDS Llc, SequenceTheorems, WellFoundedInduction, TLAPS

(* A non-empty set of numbers has a least element.                         *)
LEMMA LeastExists ==
  ASSUME NEW S, S \subseteq Nat, S # {}
  PROVE  \E i \in S : \A j \in S : i <= j
<1> DEFINE R == {ss \in Nat \X Nat : ss[1] < ss[2]}
<1>1. IsWellFoundedOn(R, Nat)
  BY NatLessThanWellFounded DEF OpToRel
<1>2. ASSUME NEW i \in S, NEW j \in S, ~(<<j, i>> \in R)
      PROVE  i <= j
  <2>1. i \in Nat /\ j \in Nat
    OBVIOUS
  <2>2. ~(j < i)
    BY <1>2, <2>1
  <2> QED
    BY <2>1, <2>2
<1> HIDE DEF R
<1>3. \E i \in S : \A j \in S : ~(<<j, i>> \in R)
  BY <1>1, WFMin
<1> QED
  BY <1>2, <1>3

(* The first of a non-empty set of slots is one of them, and none of them  *)
(* is before it.                                                           *)
LEMMA FirstIsLeast ==
  ASSUME NEW S, S \subseteq Slot, S # {}
  PROVE  First(S) \in S /\ \A t \in S : First(S) <= t
<1>1. Slot \subseteq Nat
  BY DEF Slot
<1>2. \E i \in S : \A j \in S : i <= j
  BY <1>1, LeastExists
<1> QED
  BY <1>2 DEF First

-----------------------------------------------------------------------------
(* The endpoint table.                                                     *)

Endpoint == [in_use : BOOLEAN, id : Ids \cup {NoId}, ns : {0, 1}, nr : {0, 1}, aw : BOOLEAN]

(* EndpointTable as a statement about any table.                           *)
Table(t) ==
  /\ t \in [Slot -> Endpoint]
  /\ \A r, s \in Slot : t[r].in_use /\ t[s].in_use /\ t[r].id = t[s].id => r = s
  /\ \A r, s \in Slot : r < s /\ t[s].in_use => t[r].in_use

(* Slot s of table t belongs to link id.                                   *)
Holds(t, s, id) == s \in Slot /\ t[s].in_use /\ t[s].id = id

(* The endpoint of link id: the one in the table, or the one               *)
(* llc_endpoint_lookup would make of a free slot.                          *)
Ep(t, id) ==
  IF \E s \in Slot : Holds(t, s, id) THEN t[CHOOSE s \in Slot : Holds(t, s, id)]
  ELSE FreshEndpoint(id)

LEMMA EpIsHeld ==
  ASSUME NEW t, Table(t), NEW id, NEW s \in Slot, Holds(t, s, id)
  PROVE  Ep(t, id) = t[s]
<1> DEFINE r == CHOOSE x \in Slot : Holds(t, x, id)
<1>1. r \in Slot /\ Holds(t, r, id)
  OBVIOUS
<1>2. Ep(t, id) = t[r]
  BY DEF Ep
<1> HIDE DEF r
<1>3. r = s
  BY <1>1 DEF Table, Holds
<1> QED
  BY <1>2, <1>3

LEMMA EpIsFresh ==
  ASSUME NEW t, NEW id, \A s \in Slot : ~Holds(t, s, id)
  PROVE  Ep(t, id) = FreshEndpoint(id)
BY DEF Ep

Put(t, s, e) == [t EXCEPT ![s] = e]

(* A slot of link id is rewritten: its endpoint is the new one, the other  *)
(* links keep theirs.                                                      *)
LEMMA SlotRewritten ==
  ASSUME NEW t, Table(t), NEW id \in Ids, NEW s \in Slot, Holds(t, s, id),
         NEW e \in Endpoint, e.in_use, e.id = id
  PROVE  /\ Table(Put(t, s, e))
         /\ Holds(Put(t, s, e), s, id)
         /\ Ep(Put(t, s, e), id) = e
         /\ \A x \in Ids \ {id} : Ep(Put(t, s, e), x) = Ep(t, x)
<1> DEFINE u == Put(t, s, e)
<1>1. u \in [Slot -> Endpoint] /\ u[s] = e /\ \A r \in Slot \ {s} : u[r] = t[r]
  BY DEF Table, Put
<1> HIDE DEF u
<1>2. Table(u)
  BY <1>1 DEF Table, Holds
<1>3. Holds(u, s, id)
  BY <1>1 DEF Holds
<1>4. Ep(u, id) = e
  BY <1>1, <1>2, <1>3, EpIsHeld
<1>5. ASSUME NEW x \in Ids \ {id} PROVE Ep(u, x) = Ep(t, x)
  <2>1. \A r \in Slot : Holds(u, r, x) <=> Holds(t, r, x) /\ r # s
    BY <1>1 DEF Holds
  <2>2. \A r \in Slot : Holds(t, r, x) => r # s
    BY DEF Holds
  <2>3. CASE \E r \in Slot : Holds(t, r, x)
    <3>1. PICK r \in Slot : Holds(t, r, x)
      BY <2>3
    <3>2. Ep(t, x) = t[r] /\ Ep(u, x) = u[r] /\ u[r] = t[r]
      BY <1>1, <1>2, <2>1, <2>2, <3>1, EpIsHeld
    <3> QED
      BY <3>2
  <2>4. CASE ~\E r \in Slot : Holds(t, r, x)
    BY <2>1, <2>4, EpIsFresh
  <2> QED
    BY <2>3, <2>4
<1> QED
  BY <1>2, <1>3, <1>4, <1>5 DEF u

(* llc_endpoint_lookup: the slot it returns holds the link, and no link's  *)
(* endpoint changes, because a fresh one is what it would have been.       *)
LEMMA LookupFinds ==
  ASSUME Table(endpoints), NEW id \in Ids
  PROVE  /\ Table(Opened(id))
         /\ Lookup(id) # 0 => Lookup(id) \in Slot /\ Holds(Opened(id), Lookup(id), id)
         /\ \A x \in Ids : Ep(Opened(id), x) = Ep(endpoints, x)
<1> DEFINE s == Lookup(id)
           t == Opened(id)
<1>0. /\ EndpointFind(id) \subseteq Slot /\ Free \subseteq Slot
      /\ \A r \in Slot : r \in EndpointFind(id) <=> Holds(endpoints, r, id)
      /\ \A r \in Slot : r \in Free <=> ~endpoints[r].in_use
      /\ 0 \notin Slot
  BY DEF EndpointFind, Free, Holds, Slot
<1>1. CASE EndpointFind(id) # {}
  <2>1. s = First(EndpointFind(id)) /\ s \in EndpointFind(id)
    BY <1>0, <1>1, FirstIsLeast DEF Lookup
  <2>2. s \notin Free
    BY <1>0, <2>1 DEF Holds
  <2>3. t = endpoints
    BY <2>2 DEF Opened
  <2> QED
    BY <1>0, <2>1, <2>3
<1>2. CASE EndpointFind(id) = {} /\ Free # {}
  <2>1. s = First(Free) /\ s \in Free /\ \A r \in Free : s <= r
    BY <1>0, <1>2, FirstIsLeast DEF Lookup
  <2>2. t = [endpoints EXCEPT ![s] = FreshEndpoint(id)]
    BY <2>1 DEF Opened
  <2>3. FreshEndpoint(id) \in Endpoint
    BY DEF FreshEndpoint, Endpoint
  <2>4. s \in Slot
    BY <1>0, <2>1
  <2> HIDE DEF s, t
  <2>5. /\ t \in [Slot -> Endpoint]
        /\ t[s] = FreshEndpoint(id)
        /\ \A r \in Slot \ {s} : t[r] = endpoints[r]
    BY <2>2, <2>3, <2>4 DEF Table
  <2>6. FreshEndpoint(id).in_use /\ FreshEndpoint(id).id = id
    BY DEF FreshEndpoint
  <2>7. \A r \in Slot : ~Holds(endpoints, r, id)
    BY <1>0, <1>2
  <2>8. Table(t)
    <3>1. \A q, r \in Slot : t[q].in_use /\ t[r].in_use /\ t[q].id = t[r].id => q = r
      BY <2>5, <2>6, <2>7 DEF Table, Holds
    <3>2. \A q, r \in Slot : q < r /\ t[r].in_use => t[q].in_use
      <4> SUFFICES ASSUME NEW q \in Slot, NEW r \in Slot, q < r, t[r].in_use, q # s
                   PROVE  endpoints[q].in_use
        BY <2>5, <2>6
      <4>1. CASE r = s
        <5>1. ~(s <= q)
          BY <4>1, <2>4 DEF Slot
        <5> QED
          BY <1>0, <2>1, <5>1
      <4>2. CASE r # s
        BY <2>5, <4>2 DEF Table
      <4> QED
        BY <4>1, <4>2
    <3> QED
      BY <2>5, <3>1, <3>2 DEF Table
  <2>9. Holds(t, s, id)
    BY <2>4, <2>5, <2>6 DEF Holds
  <2>10. Ep(t, id) = Ep(endpoints, id)
    BY <2>4, <2>5, <2>7, <2>8, <2>9, EpIsHeld, EpIsFresh
  <2>11. ASSUME NEW x \in Ids, x # id PROVE Ep(t, x) = Ep(endpoints, x)
    <3>1. \A r \in Slot : Holds(t, r, x) <=> Holds(endpoints, r, x)
      BY <1>0, <2>1, <2>5, <2>6, <2>11 DEF Holds
    <3>2. \A r \in Slot : Holds(t, r, x) => t[r] = endpoints[r]
      BY <2>5, <2>6, <2>11 DEF Holds
    <3>3. CASE \E r \in Slot : Holds(t, r, x)
      BY <2>8, <3>1, <3>2, <3>3, EpIsHeld
    <3>4. CASE ~\E r \in Slot : Holds(t, r, x)
      BY <3>1, <3>4, EpIsFresh
    <3> QED
      BY <3>3, <3>4
  <2> QED
    BY <2>4, <2>8, <2>9, <2>10, <2>11 DEF s, t
<1>3. CASE EndpointFind(id) = {} /\ Free = {}
  <2>1. s = 0 /\ t = endpoints
    BY <1>0, <1>3 DEF Lookup, Opened
  <2> QED
    BY <2>1
<1> QED
  BY <1>1, <1>2, <1>3

-----------------------------------------------------------------------------
(* Channels.  What travels down to link id is first a request in the High  *)
(* bucket q, among those of other links, then a frame d on the radio; an   *)
(* uplink frame is only ever on the radio (q is empty).                    *)

Request == [id : Ids, pdu : LlcPdu]
NoRequests == <<>>

(* No frame of S is under way.                                             *)
Clear(id, d, q, S) ==
  /\ \A i \in 1 .. Len(d) : d[i] \notin S
  /\ \A i \in 1 .. Len(q) : q[i].id = id => q[i].pdu \notin S

(* No frame of O is behind a frame of N.                                   *)
InOrder(id, d, q, O, N) ==
  /\ \A i, j \in 1 .. Len(d) : i < j /\ d[i] \in N => d[j] \notin O
  /\ \A i \in 1 .. Len(d), j \in 1 .. Len(q) : d[i] \in N /\ q[j].id = id => q[j].pdu \notin O
  /\ \A i, j \in 1 .. Len(q) :
       i < j /\ q[i].id = id /\ q[j].id = id /\ q[i].pdu \in N => q[j].pdu \notin O

(* From d, q to e, r nothing is added and nothing overtakes.               *)
Kept(id, d, q, e, r) ==
  /\ \A S : Clear(id, d, q, S) => Clear(id, e, r, S)
  /\ \A O, N : InOrder(id, d, q, O, N) => InOrder(id, e, r, O, N)

(* From d, q to e, r frame p is added at the end, or nothing.              *)
Grown(id, d, q, e, r, p) ==
  /\ \A S : Clear(id, d, q, S) /\ p \notin S => Clear(id, e, r, S)
  /\ \A O, N : InOrder(id, d, q, O, N) /\ (p \notin O \/ Clear(id, d, q, N))
                 => InOrder(id, e, r, O, N)

LEMMA KeptIsGrown ==
  ASSUME NEW id, NEW d, NEW q, NEW e, NEW r, NEW p, Kept(id, d, q, e, r)
  PROVE  Grown(id, d, q, e, r, p)
BY DEF Kept, Grown

LEMMA SameIsKept ==
  ASSUME NEW id, NEW d, NEW q
  PROVE  Kept(id, d, q, d, q)
BY DEF Kept

LEMMA ClearSubset ==
  ASSUME NEW id, NEW d, NEW q, NEW S, NEW R, R \subseteq S, Clear(id, d, q, S)
  PROVE  Clear(id, d, q, R)
BY DEF Clear

LEMMA ClearIsInOrder ==
  ASSUME NEW id, NEW d, NEW q, NEW O, NEW N, Clear(id, d, q, N)
  PROVE  InOrder(id, d, q, O, N)
BY DEF Clear, InOrder

(* The first frame is received or lost.                                    *)
LEMMA PopKeeps ==
  ASSUME NEW id, NEW d \in Seq(LlcPdu), d # <<>>, NEW q \in Seq(Request)
  PROVE  /\ Kept(id, d, q, Tail(d), q)
         /\ \A S : Clear(id, d, q, S) => Head(d) \notin S
         /\ \A O, N : InOrder(id, d, q, O, N) /\ Head(d) \in N => Clear(id, Tail(d), q, O)
<1> DEFINE e == Tail(d)
<1>1. /\ Len(d) \in Nat \ {0} /\ Len(e) = Len(d) - 1
      /\ Head(d) = d[1] /\ \A i \in 1 .. Len(e) : e[i] = d[i + 1]
  BY HeadTailProperties
<1> HIDE DEF e
<1>2. ASSUME NEW S, Clear(id, d, q, S) PROVE Clear(id, e, q, S)
  BY <1>1, <1>2 DEF Clear
<1>3. ASSUME NEW O, NEW N, InOrder(id, d, q, O, N) PROVE InOrder(id, e, q, O, N)
  <2>1. \A i, j \in 1 .. Len(e) : i < j /\ e[i] \in N => e[j] \notin O
    <3> SUFFICES ASSUME NEW i \in 1 .. Len(e), NEW j \in 1 .. Len(e), i < j, e[i] \in N
                 PROVE  e[j] \notin O
      OBVIOUS
    <3>1. /\ i + 1 \in 1 .. Len(d) /\ j + 1 \in 1 .. Len(d) /\ i + 1 < j + 1
          /\ e[i] = d[i + 1] /\ e[j] = d[j + 1]
      BY <1>1
    <3> QED
      BY <1>3, <3>1 DEF InOrder
  <2>2. \A i \in 1 .. Len(e), j \in 1 .. Len(q) : e[i] \in N /\ q[j].id = id => q[j].pdu \notin O
    <3>1. \A i \in 1 .. Len(e) : i + 1 \in 1 .. Len(d) /\ e[i] = d[i + 1]
      BY <1>1
    <3> QED
      BY <1>3, <3>1 DEF InOrder
  <2> QED
    BY <1>3, <2>1, <2>2 DEF InOrder
<1>4. ASSUME NEW O, NEW N, InOrder(id, d, q, O, N), Head(d) \in N PROVE Clear(id, e, q, O)
  <2>1. \A i \in 1 .. Len(e) : i + 1 \in 1 .. Len(d) /\ 1 < i + 1 /\ e[i] = d[i + 1]
    BY <1>1
  <2>2. 1 \in 1 .. Len(d) /\ d[1] \in N
    BY <1>1, <1>4
  <2> QED
    BY <1>4, <2>1, <2>2 DEF Clear, InOrder
<1>5. ASSUME NEW S, Clear(id, d, q, S) PROVE Head(d) \notin S
  BY <1>1, <1>5 DEF Clear
<1> QED
  BY <1>2, <1>3, <1>4, <1>5 DEF e, Kept

(* The MAC transmits the first request.                                    *)
LEMMA MoveKeeps ==
  ASSUME NEW id, NEW d \in Seq(LlcPdu), NEW q \in Seq(Request), q # <<>>, NEW e,
         e = IF Head(q).id = id THEN Append(d, Head(q).pdu) ELSE d
  PROVE  Kept(id, d, q, e, Tail(q))
<1> DEFINE r == Tail(q)
           m == Head(q)
<1>1. /\ Len(q) \in Nat \ {0} /\ Len(r) = Len(q) - 1
      /\ m = q[1] /\ \A i \in 1 .. Len(r) : r[i] = q[i + 1]
  BY HeadTailProperties
<1>2. m.pdu \in LlcPdu
  <2>1. m \in Request
    BY HeadTailProperties
  <2> QED
    BY <2>1 DEF Request
<1>3. Len(d) \in Nat
  OBVIOUS
<1> HIDE DEF r, m
<1>4. \A i \in 1 .. Len(r) : i + 1 \in 1 .. Len(q) /\ 1 < i + 1 /\ r[i] = q[i + 1]
  BY <1>1
<1>5. 1 \in 1 .. Len(q)
  BY <1>1
<1>6. CASE m.id = id
  <2>1. /\ Len(e) = Len(d) + 1
        /\ \A i \in 1 .. Len(d) : e[i] = d[i]
        /\ e[Len(d) + 1] = m.pdu
    BY <1>2, <1>6, AppendProperties DEF m
  <2>2. \A i \in 1 .. Len(e) : (i \in 1 .. Len(d) /\ e[i] = d[i]) \/ (i = Len(d) + 1 /\ e[i] = m.pdu)
    BY <1>3, <2>1
  <2>3. ASSUME NEW S, Clear(id, d, q, S) PROVE Clear(id, e, r, S)
    BY <1>1, <1>4, <1>5, <1>6, <2>2, <2>3 DEF Clear
  <2>4. ASSUME NEW O, NEW N, InOrder(id, d, q, O, N) PROVE InOrder(id, e, r, O, N)
    <3>1. \A i, j \in 1 .. Len(e) : i < j /\ e[i] \in N => e[j] \notin O
      <4> SUFFICES ASSUME NEW i \in 1 .. Len(e), NEW j \in 1 .. Len(e), i < j, e[i] \in N
                   PROVE  e[j] \notin O
        OBVIOUS
      <4>1. i \in 1 .. Len(d) /\ e[i] = d[i]
        BY <1>3, <2>1, <2>2
      <4>2. CASE j \in 1 .. Len(d) /\ e[j] = d[j]
        BY <2>4, <4>1, <4>2 DEF InOrder
      <4>3. CASE e[j] = m.pdu
        BY <1>1, <1>5, <1>6, <2>4, <4>1, <4>3 DEF InOrder
      <4> QED
        BY <2>2, <4>2, <4>3
    <3>2. \A i \in 1 .. Len(e), j \in 1 .. Len(r) : e[i] \in N /\ r[j].id = id => r[j].pdu \notin O
      <4> SUFFICES ASSUME NEW i \in 1 .. Len(e), NEW j \in 1 .. Len(r), e[i] \in N, r[j].id = id
                   PROVE  r[j].pdu \notin O
        OBVIOUS
      <4>1. CASE i \in 1 .. Len(d) /\ e[i] = d[i]
        BY <1>4, <2>4, <4>1 DEF InOrder
      <4>2. CASE e[i] = m.pdu
        <5>1. j + 1 \in 1 .. Len(q) /\ 1 < j + 1 /\ r[j] = q[j + 1] /\ q[1].id = id /\ q[1].pdu \in N
          BY <1>1, <1>4, <1>6, <4>2
        <5> QED
          BY <1>5, <2>4, <5>1 DEF InOrder
      <4> QED
        BY <2>2, <4>1, <4>2
    <3>3. \A i, j \in 1 .. Len(r) :
            i < j /\ r[i].id = id /\ r[j].id = id /\ r[i].pdu \in N => r[j].pdu \notin O
      <4> SUFFICES ASSUME NEW i \in 1 .. Len(r), NEW j \in 1 .. Len(r), i < j,
                          r[i].id = id, r[j].id = id, r[i].pdu \in N
                   PROVE  r[j].pdu \notin O
        OBVIOUS
      <4>1. /\ i + 1 \in 1 .. Len(q) /\ j + 1 \in 1 .. Len(q) /\ i + 1 < j + 1
            /\ r[i] = q[i + 1] /\ r[j] = q[j + 1]
        BY <1>1
      <4> QED
        BY <2>4, <4>1 DEF InOrder
    <3> QED
      BY <3>1, <3>2, <3>3 DEF InOrder
  <2> QED
    BY <2>3, <2>4 DEF Kept, r
<1>7. CASE m.id # id
  <2>1. e = d
    BY <1>7 DEF m
  <2>2. ASSUME NEW S, Clear(id, d, q, S) PROVE Clear(id, d, r, S)
    BY <1>4, <2>2 DEF Clear
  <2>3. ASSUME NEW O, NEW N, InOrder(id, d, q, O, N) PROVE InOrder(id, d, r, O, N)
    <3>1. \A i, j \in 1 .. Len(r) :
            i < j /\ r[i].id = id /\ r[j].id = id /\ r[i].pdu \in N => r[j].pdu \notin O
      <4> SUFFICES ASSUME NEW i \in 1 .. Len(r), NEW j \in 1 .. Len(r), i < j,
                          r[i].id = id, r[j].id = id, r[i].pdu \in N
                   PROVE  r[j].pdu \notin O
        OBVIOUS
      <4>1. /\ i + 1 \in 1 .. Len(q) /\ j + 1 \in 1 .. Len(q) /\ i + 1 < j + 1
            /\ r[i] = q[i + 1] /\ r[j] = q[j + 1]
        BY <1>1
      <4> QED
        BY <2>3, <4>1 DEF InOrder
    <3>2. \A i \in 1 .. Len(d), j \in 1 .. Len(r) : d[i] \in N /\ r[j].id = id => r[j].pdu \notin O
      BY <1>4, <2>3 DEF InOrder
    <3> QED
      BY <2>3, <3>1, <3>2 DEF InOrder
  <2> QED
    BY <2>1, <2>2, <2>3 DEF Kept, r
<1> QED
  BY <1>6, <1>7

(* A request is posted: for this link, it is the last frame under way.     *)
LEMMA PostGrows ==
  ASSUME NEW id, NEW d \in Seq(LlcPdu), NEW q \in Seq(Request), NEW m \in Request
  PROVE  /\ m.id = id => Grown(id, d, q, d, Append(q, m), m.pdu)
         /\ m.id # id => Kept(id, d, q, d, Append(q, m))
<1> DEFINE r == Append(q, m)
<1>1. /\ Len(r) = Len(q) + 1 /\ Len(q) \in Nat
      /\ \A i \in 1 .. Len(q) : r[i] = q[i]
      /\ r[Len(q) + 1] = m
  BY AppendProperties
<1> HIDE DEF r
<1>2. \A i \in 1 .. Len(r) : (i \in 1 .. Len(q) /\ r[i] = q[i]) \/ (i = Len(q) + 1 /\ r[i] = m)
  BY <1>1
<1>3. ASSUME NEW S, Clear(id, d, q, S), m.id = id => m.pdu \notin S PROVE Clear(id, d, r, S)
  BY <1>2, <1>3 DEF Clear
<1>4. ASSUME NEW O, NEW N, InOrder(id, d, q, O, N),
             m.id # id \/ m.pdu \notin O \/ Clear(id, d, q, N)
      PROVE  InOrder(id, d, r, O, N)
  <2>1. \A i \in 1 .. Len(d), j \in 1 .. Len(r) : d[i] \in N /\ r[j].id = id => r[j].pdu \notin O
    BY <1>2, <1>4 DEF InOrder, Clear
  <2>2. \A i, j \in 1 .. Len(r) :
          i < j /\ r[i].id = id /\ r[j].id = id /\ r[i].pdu \in N => r[j].pdu \notin O
    <3> SUFFICES ASSUME NEW i \in 1 .. Len(r), NEW j \in 1 .. Len(r), i < j,
                        r[i].id = id, r[j].id = id, r[i].pdu \in N
                 PROVE  r[j].pdu \notin O
      OBVIOUS
    <3>1. i \in 1 .. Len(q) /\ r[i] = q[i]
      BY <1>1, <1>2
    <3>2. CASE j \in 1 .. Len(q) /\ r[j] = q[j]
      BY <1>4, <3>1, <3>2 DEF InOrder
    <3>3. CASE r[j] = m
      BY <1>4, <3>1, <3>3 DEF Clear
    <3> QED
      BY <1>2, <3>2, <3>3
  <2> QED
    BY <1>4, <2>1, <2>2 DEF InOrder
<1> QED
  BY <1>3, <1>4 DEF Grown, Kept, r

(* A mobile station transmits.                                             *)
LEMMA AirGrows ==
  ASSUME NEW id, NEW d \in Seq(LlcPdu), NEW p \in LlcPdu
  PROVE  Grown(id, d, NoRequests, Append(d, p), NoRequests, p)
<1> DEFINE e == Append(d, p)
<1>1. /\ Len(e) = Len(d) + 1 /\ Len(d) \in Nat
      /\ \A i \in 1 .. Len(d) : e[i] = d[i]
      /\ e[Len(d) + 1] = p
  BY AppendProperties
<1> HIDE DEF e
<1>2. \A i \in 1 .. Len(e) : (i \in 1 .. Len(d) /\ e[i] = d[i]) \/ (i = Len(d) + 1 /\ e[i] = p)
  BY <1>1
<1>3. ASSUME NEW S, Clear(id, d, NoRequests, S), p \notin S PROVE Clear(id, e, NoRequests, S)
  BY <1>2, <1>3 DEF Clear, NoRequests
<1>4. ASSUME NEW O, NEW N, InOrder(id, d, NoRequests, O, N), p \notin O \/ Clear(id, d, NoRequests, N)
      PROVE  InOrder(id, e, NoRequests, O, N)
  <2>1. \A i, j \in 1 .. Len(e) : i < j /\ e[i] \in N => e[j] \notin O
    <3> SUFFICES ASSUME NEW i \in 1 .. Len(e), NEW j \in 1 .. Len(e), i < j, e[i] \in N
                 PROVE  e[j] \notin O
      OBVIOUS
    <3>1. i \in 1 .. Len(d) /\ e[i] = d[i]
      BY <1>1, <1>2
    <3>2. CASE j \in 1 .. Len(d) /\ e[j] = d[j]
      BY <1>4, <3>1, <3>2 DEF InOrder, NoRequests
    <3>3. CASE e[j] = p
      BY <1>4, <3>1, <3>3 DEF Clear, NoRequests
    <3> QED
      BY <1>2, <3>2, <3>3
  <2> QED
    BY <2>1 DEF InOrder, NoRequests
<1> QED
  BY <1>3, <1>4 DEF Grown, e

(* The radio damages the first frame into p.                               *)
LEMMA DamageKeeps ==
  ASSUME NEW id, NEW d \in Seq(LlcPdu), d # <<>>, NEW p \in LlcPdu, NEW e,
         e = [d EXCEPT ![1] = p]
  PROVE  /\ \A S : Clear(id, d, NoRequests, S) /\ (p \in S => Head(d) \in S)
                     => Clear(id, e, NoRequests, S)
         /\ \A O, N : InOrder(id, d, NoRequests, O, N) /\ (p \in N => Head(d) \in N)
                        => InOrder(id, e, NoRequests, O, N)
<1>1. 1 \in 1 .. Len(d) /\ Head(d) = d[1]
  OBVIOUS
<1>2. e \in Seq(LlcPdu) /\ Len(e) = Len(d) /\ \A j \in 1 .. Len(d) : e[j] = IF j = 1 THEN p ELSE d[j]
  BY <1>1, ExceptSeq
<1>3. ASSUME NEW S, Clear(id, d, NoRequests, S), p \in S => Head(d) \in S PROVE Clear(id, e, NoRequests, S)
  BY <1>1, <1>2, <1>3 DEF Clear, NoRequests
<1>4. ASSUME NEW O, NEW N, InOrder(id, d, NoRequests, O, N), p \in N => Head(d) \in N
      PROVE  InOrder(id, e, NoRequests, O, N)
  <2>1. \A i, j \in 1 .. Len(e) : i < j /\ e[i] \in N => e[j] \notin O
    <3> SUFFICES ASSUME NEW i \in 1 .. Len(e), NEW j \in 1 .. Len(e), i < j, e[i] \in N
                 PROVE  e[j] \notin O
      OBVIOUS
    <3>1. e[j] = d[j] /\ i \in 1 .. Len(d) /\ j \in 1 .. Len(d)
      BY <1>2
    <3>2. d[i] \in N
      BY <1>1, <1>2, <1>4
    <3> QED
      BY <1>4, <3>1, <3>2 DEF InOrder, NoRequests
  <2> QED
    BY <2>1 DEF InOrder, NoRequests
<1> QED
  BY <1>3, <1>4

-----------------------------------------------------------------------------
(* One direction of a link.  The sender's next number is ns, it waits if   *)
(* aw and has sent sent SDUs; the receiver expects nr and has taken taken  *)
(* SDUs.  Data travels on d, q, acknowledgements on a, b.  F are the FCS   *)
(* verdicts the receiver does not discard, T the types whose NR the sender *)
(* reads.                                                                  *)

(* Copies of the SDU sent last (number 1 - ns), and of the one before.     *)
DataNew(F, ns) == {p \in LlcPdu : p.type \in DataTypes /\ p.fcs \in F /\ p.ns # ns}
DataOld(F, ns) == {p \in LlcPdu : p.type \in DataTypes /\ p.fcs \in F /\ p.ns = ns}

(* Acknowledgements of the SDU sent last, and of the one before.           *)
AckNew(T, ns) == {p \in LlcPdu : p.type \in T /\ p.nr = ns}
AckOld(T, ns) == {p \in LlcPdu : p.type \in T /\ p.nr # ns}

(* The receiver is level with the sender, or one SDU behind a sender that  *)
(* waits.                                                                  *)
Counts(ns, aw, sent, nr, taken) ==
  /\ aw => sent > 0
  /\ ~aw => nr = ns
  /\ taken = IF nr = ns THEN sent ELSE sent - 1

(* The new copies carry the SDU sent last, come after the old ones, and    *)
(* are alone once it was taken.                                            *)
DataChannel(id, d, q, F, ns, nr, sent) ==
  /\ Clear(id, d, q, {p \in DataNew(F, ns) : p.body # sent})
  /\ nr = ns => Clear(id, d, q, DataOld(F, ns))
  /\ InOrder(id, d, q, DataOld(F, ns), DataNew(F, ns))

(* The SDU sent last is acknowledged only once it was taken, its           *)
(* acknowledgements come after the old ones, and are alone when the sender *)
(* does not wait.                                                          *)
AckChannel(id, a, b, T, ns, nr, aw) ==
  /\ nr # ns => Clear(id, a, b, AckNew(T, ns))
  /\ ~aw => Clear(id, a, b, AckOld(T, ns))
  /\ InOrder(id, a, b, AckOld(T, ns), AckNew(T, ns))

LEMMA DataKept ==
  ASSUME NEW id, NEW d, NEW q, NEW e, NEW r, NEW F, NEW ns, NEW nr, NEW sent,
         Kept(id, d, q, e, r), DataChannel(id, d, q, F, ns, nr, sent)
  PROVE  DataChannel(id, e, r, F, ns, nr, sent)
BY DEF Kept, DataChannel

(* A repeated copy, or a frame that is no data at all.                     *)
LEMMA DataRepeated ==
  ASSUME NEW id, NEW d, NEW q, NEW e, NEW r, NEW F, NEW ns, NEW nr, NEW sent, NEW p,
         Grown(id, d, q, e, r, p), DataChannel(id, d, q, F, ns, nr, sent),
         p \notin DataOld(F, ns), p \in DataNew(F, ns) => p.body = sent
  PROVE  DataChannel(id, e, r, F, ns, nr, sent)
<1>1. p \notin {x \in DataNew(F, ns) : x.body # sent}
  OBVIOUS
<1> QED
  BY <1>1 DEF Grown, DataChannel

(* The next SDU is sent: the copies under way are now the old ones.        *)
LEMMA DataSent ==
  ASSUME NEW id, NEW d, NEW q, NEW e, NEW r, NEW F, NEW ns \in {0, 1}, NEW sent, NEW p,
         Grown(id, d, q, e, r, p), DataChannel(id, d, q, F, ns, ns, sent),
         NEW next, p.body = next
  PROVE  DataChannel(id, e, r, F, 1 - ns, ns, next)
<1>1. DataNew(F, 1 - ns) = DataOld(F, ns)
  BY DEF DataNew, DataOld, LlcPdu
<1>2. Clear(id, d, q, DataNew(F, 1 - ns))
  BY <1>1 DEF DataChannel
<1>3. Clear(id, e, r, {x \in DataNew(F, 1 - ns) : x.body # next})
  <2>1. Clear(id, d, q, {x \in DataNew(F, 1 - ns) : x.body # next})
    BY <1>2, ClearSubset
  <2>2. p \notin {x \in DataNew(F, 1 - ns) : x.body # next}
    OBVIOUS
  <2> QED
    BY <2>1, <2>2 DEF Grown
<1>4. InOrder(id, d, q, DataOld(F, 1 - ns), DataNew(F, 1 - ns))
  BY <1>2, ClearIsInOrder
<1>5. InOrder(id, e, r, DataOld(F, 1 - ns), DataNew(F, 1 - ns))
  BY <1>2, <1>4 DEF Grown
<1>6. ns # 1 - ns
  OBVIOUS
<1> QED
  BY <1>3, <1>5, <1>6 DEF DataChannel

(* The first frame is a copy of the SDU sent last, the receiver was one    *)
(* behind, and only new copies are left.                                   *)
Takes(id, d, q, F, ns, nr, sent) ==
  /\ nr # ns /\ Head(d).body = sent
  /\ DataChannel(id, Tail(d), q, F, ns, ns, sent)

(* So it is when the first frame is data with the expected number.         *)
LEMMA DataTaken ==
  ASSUME NEW id, NEW d \in Seq(LlcPdu), d # <<>>, NEW q \in Seq(Request),
         NEW F, NEW ns \in {0, 1}, NEW nr \in {0, 1}, NEW sent,
         DataChannel(id, d, q, F, ns, nr, sent),
         Head(d).type \in DataTypes, Head(d).fcs \in F, Head(d).ns = nr
  PROVE  Takes(id, d, q, F, ns, nr, sent)
<1>1. Head(d) \in LlcPdu
  BY HeadTailProperties
<1>2. nr # ns
  <2>1. Head(d) \in DataOld(F, nr)
    BY <1>1 DEF DataOld
  <2> QED
    BY <2>1, PopKeeps DEF DataChannel
<1>3. Head(d) \in DataNew(F, ns)
  BY <1>1, <1>2 DEF DataNew
<1>4. Head(d).body = sent
  BY <1>3, PopKeeps DEF DataChannel
<1>5. Clear(id, Tail(d), q, DataOld(F, ns))
  BY <1>3, PopKeeps DEF DataChannel
<1>6. DataChannel(id, Tail(d), q, F, ns, nr, sent)
  BY PopKeeps, DataKept
<1> QED
  BY <1>2, <1>4, <1>5, <1>6 DEF DataChannel, Takes

LEMMA AckKept ==
  ASSUME NEW id, NEW a, NEW b, NEW c, NEW e, NEW T, NEW ns, NEW nr, NEW aw,
         Kept(id, a, b, c, e), AckChannel(id, a, b, T, ns, nr, aw)
  PROVE  AckChannel(id, c, e, T, ns, nr, aw)
BY DEF Kept, AckChannel

(* The receiver acknowledges what it expects now (or sends something else, *)
(* or nothing).                                                            *)
LEMMA AckRepeated ==
  ASSUME NEW id, NEW a, NEW b, NEW c, NEW e, NEW T, NEW ns, NEW nr, NEW aw, NEW p,
         Grown(id, a, b, c, e, p), AckChannel(id, a, b, T, ns, nr, aw),
         ~aw => nr = ns, p.type \in T => p.nr = nr
  PROVE  AckChannel(id, c, e, T, ns, nr, aw)
<1>1. CASE nr = ns
  <2>1. p \notin AckOld(T, ns)
    BY <1>1 DEF AckOld
  <2> QED
    BY <1>1, <2>1 DEF Grown, AckChannel
<1>2. CASE nr # ns
  <2>1. p \notin AckNew(T, ns) /\ aw
    BY <1>2 DEF AckNew
  <2> QED
    BY <1>2, <2>1 DEF Grown, AckChannel
<1> QED
  BY <1>1, <1>2

(* The next SDU is sent: the acknowledgements under way are old now.       *)
LEMMA AckSent ==
  ASSUME NEW id, NEW a, NEW b, NEW T, NEW ns \in {0, 1},
         AckChannel(id, a, b, T, ns, ns, FALSE)
  PROVE  AckChannel(id, a, b, T, 1 - ns, ns, TRUE)
<1>1. AckNew(T, 1 - ns) = AckOld(T, ns)
  BY DEF AckNew, AckOld, LlcPdu
<1>2. Clear(id, a, b, AckNew(T, 1 - ns))
  BY <1>1 DEF AckChannel
<1>3. InOrder(id, a, b, AckOld(T, 1 - ns), AckNew(T, 1 - ns))
  BY <1>2, ClearIsInOrder
<1> QED
  BY <1>2, <1>3 DEF AckChannel

(* The receiver took the SDU sent last and acknowledges it.                *)
LEMMA AckTaken ==
  ASSUME NEW id, NEW a, NEW b, NEW c, NEW e, NEW T, NEW ns, NEW nr, nr # ns, NEW aw, aw,
         NEW p, Grown(id, a, b, c, e, p), AckChannel(id, a, b, T, ns, nr, aw),
         p.type \in T => p.nr = ns
  PROVE  AckChannel(id, c, e, T, ns, ns, aw)
<1>1. p \notin AckOld(T, ns)
  BY DEF AckOld
<1> QED
  BY <1>1 DEF Grown, AckChannel

(* The SDU sent last was taken, and behind the first frame there are only  *)
(* acknowledgements of it.                                                 *)
Ends(id, a, b, T, ns, nr) ==
  nr = ns /\ AckChannel(id, Tail(a), b, T, ns, nr, FALSE)

(* So it is when the first frame acknowledges that SDU.                    *)
LEMMA AckEnds ==
  ASSUME NEW id, NEW a \in Seq(LlcPdu), a # <<>>, NEW b \in Seq(Request),
         NEW T, NEW ns, NEW nr, NEW aw,
         AckChannel(id, a, b, T, ns, nr, aw), Head(a).type \in T, Head(a).nr = ns
  PROVE  Ends(id, a, b, T, ns, nr)
<1>1. Head(a) \in LlcPdu
  BY HeadTailProperties
<1>2. Head(a) \in AckNew(T, ns)
  BY <1>1 DEF AckNew
<1>3. nr = ns
  BY <1>2, PopKeeps DEF AckChannel
<1>4. Clear(id, Tail(a), b, AckOld(T, ns))
  BY <1>2, PopKeeps DEF AckChannel
<1>5. AckChannel(id, Tail(a), b, T, ns, nr, aw)
  BY PopKeeps, AckKept
<1> QED
  BY <1>3, <1>4, <1>5 DEF AckChannel, Ends

-----------------------------------------------------------------------------
(* The inductive invariants of the two directions of link id.              *)

UpFcs == {"none", "ok"}
UpAcks == {"ACK", "ADATA"}
DownFcs == {"none", "ok", "bad"}
DownAcks == {"ACK"}

UpCounts(id) ==
  Counts(ms[id].ns, ms[id].aw, ms[id].sent, Ep(endpoints, id).nr, Len(accepted[id]))
UpData(id) ==
  DataChannel(id, uair[id], NoRequests, UpFcs, ms[id].ns, Ep(endpoints, id).nr, ms[id].sent)
UpAck(id) ==
  AckChannel(id, dair[id], down, UpAcks, ms[id].ns, Ep(endpoints, id).nr, ms[id].aw)

(* What a mobile station repeats is the SDU it sent last.                  *)
UpLast(id) ==
  ms[id].aw => ms[id].last \in DataNew(UpFcs, ms[id].ns) /\ ms[id].last.body = ms[id].sent

UpLink(id) == UpCounts(id) /\ UpData(id) /\ UpAck(id) /\ UpLast(id)
UpInv == \A id \in Ids : UpLink(id)

DownCounts(id) ==
  Counts(Ep(endpoints, id).ns, Ep(endpoints, id).aw, given[id], ms[id].nr, Len(ms[id].got))
DownData(id) ==
  DataChannel(id, dair[id], down, DownFcs, Ep(endpoints, id).ns, ms[id].nr, given[id])
DownAck(id) ==
  AckChannel(id, uair[id], NoRequests, DownAcks, Ep(endpoints, id).ns, ms[id].nr, Ep(endpoints, id).aw)

DownLink(id) == DownCounts(id) /\ DownData(id) /\ DownAck(id)
DownInv == \A id \in Ids : ~overlap[id] => DownLink(id)

-----------------------------------------------------------------------------
(* What the handlers do to the table and the High bucket.                  *)

LEMMA EpTyped ==
  ASSUME NEW t, Table(t), NEW id \in Ids
  PROVE  Ep(t, id) \in Endpoint /\ Ep(t, id).in_use /\ Ep(t, id).id = id
<1>1. CASE \E s \in Slot : Holds(t, s, id)
  <2>1. PICK s \in Slot : Holds(t, s, id)
    BY <1>1
  <2>2. Ep(t, id) = t[s]
    BY <2>1, EpIsHeld
  <2> QED
    BY <2>1, <2>2 DEF Holds, Table
<1>2. CASE ~\E s \in Slot : Holds(t, s, id)
  <2>1. Ep(t, id) = FreshEndpoint(id)
    BY <1>2, EpIsFresh
  <2> QED
    BY <2>1 DEF FreshEndpoint, Endpoint
<1> QED
  BY <1>1, <1>2

(* The endpoint llc_endpoint_lookup returned is the link's ...             *)
LEMMA LookupHolds ==
  ASSUME Table(endpoints), NEW id \in Ids, Lookup(id) # 0
  PROVE  Opened(id)[Lookup(id)] = Ep(endpoints, id)
<1>1. /\ Table(Opened(id)) /\ Lookup(id) \in Slot /\ Holds(Opened(id), Lookup(id), id)
      /\ \A x \in Ids : Ep(Opened(id), x) = Ep(endpoints, x)
  BY LookupFinds
<1> QED
  BY <1>1, EpIsHeld

(* From table t to table u link id's endpoint becomes f, and no other      *)
(* link's changes.                                                         *)
Updated(t, u, id, f) ==
  /\ Table(u)
  /\ Ep(u, id) = f
  /\ \A x \in Ids \ {id} : Ep(u, x) = Ep(t, x)

(* ... and may be rewritten.                                               *)
LEMMA LookupRewritten ==
  ASSUME Table(endpoints), NEW id \in Ids, Lookup(id) # 0,
         NEW f \in Endpoint, f.in_use, f.id = id, NEW u, u = Put(Opened(id), Lookup(id), f)
  PROVE  Updated(endpoints, u, id, f)
<1>1. /\ Table(Opened(id)) /\ Lookup(id) \in Slot /\ Holds(Opened(id), Lookup(id), id)
      /\ \A x \in Ids : Ep(Opened(id), x) = Ep(endpoints, x)
  BY LookupFinds
<1> QED
  BY <1>1, SlotRewritten DEF Updated

LEMMA LookupUpdates ==
  ASSUME Table(endpoints), NEW id \in Ids
  PROVE  /\ Updated(endpoints, Opened(id), id, Ep(endpoints, id))
         /\ Updated(endpoints, endpoints, id, Ep(endpoints, id))
BY LookupFinds DEF Updated

LEMMA TableHolds == TypeOK /\ EndpointTable <=> Table(endpoints) /\ TypeOK
BY DEF TypeOK, EndpointTable, Table, Endpoint

(* p is posted downward for id, or nothing is.                             *)
MayPost(q, r, id, p) == r = q \/ r = Append(q, [id |-> id, pdu |-> p])

LEMMA PostFits ==
  ASSUME TypeOK, NEW id, NEW p, PostDown(id, p)
  PROVE  MayPost(down, down', id, p) /\ Len(down') <= DownCap
<1>1. Len(down) \in Nat /\ Len(down) <= DownCap /\ DownCap \in Nat
  BY BucketAssumption DEF TypeOK
<1>2. CASE CanPostDown
  <2>1. Len(Append(down, [id |-> id, pdu |-> p])) = Len(down) + 1
    BY DEF TypeOK
  <2> QED
    BY <1>1, <1>2, <2>1 DEF PostDown, CanPostDown, MayPost
<1>3. CASE ~CanPostDown
  BY <1>1, <1>3 DEF PostDown, MayPost
<1> QED
  BY <1>2, <1>3

(* llc_handle_tma_unitdata_ind.  The frame is taken, or the endpoint stays *)
(* and its number may be acknowledged again, or the wait ends.             *)
RxTakes(id, p, e) ==
  /\ p.type \in DataTypes /\ p.fcs # "bad" /\ p.ns = e.nr
  /\ Updated(endpoints, endpoints', id, [e EXCEPT !.nr = 1 - e.nr])
  /\ accepted' = [accepted EXCEPT ![id] = Append(accepted[id], p.body)]
  /\ MayPost(down, down', id, BlAck(1 - e.nr))
RxStays(id, e) ==
  /\ Updated(endpoints, endpoints', id, e)
  /\ accepted' = accepted
  /\ MayPost(down, down', id, BlAck(e.nr))
RxEnds(id, p, e) ==
  /\ p.type = "ACK" /\ e.aw /\ p.nr = e.ns
  /\ Updated(endpoints, endpoints', id, [e EXCEPT !.aw = FALSE])
  /\ accepted' = accepted /\ down' = down

LEMMA RxEffect ==
  ASSUME TypeOK, Table(endpoints), NEW id \in Ids, RxInd(id)
  PROVE  LET p == Head(uair[id])
             e == Ep(endpoints, id)
         IN /\ uair[id] # <<>> /\ uair' = [uair EXCEPT ![id] = Tail(uair[id])]
            /\ UNCHANGED <<given, overlap, dair, ms>>
            /\ Len(down') <= DownCap /\ up' \in 0 .. UpCap
            /\ RxTakes(id, p, e) \/ RxStays(id, e) \/ RxEnds(id, p, e)
<1> DEFINE p == Head(uair[id])
           e == Ep(endpoints, id)
           s == Lookup(id)
           t == Opened(id)
<1>1. /\ uair[id] # <<>> /\ uair' = [uair EXCEPT ![id] = Tail(uair[id])]
      /\ UNCHANGED <<given, overlap, dair, ms>>
  BY DEF RxInd, TypeOK
<1>2. Updated(endpoints, t, id, e) /\ Updated(endpoints, endpoints, id, e)
  BY LookupUpdates
<1>3. e \in Endpoint /\ e.in_use /\ e.id = id
  BY EpTyped
<1>4. s # 0 => t[s] = e
  BY LookupHolds
<1>5. Len(down) \in Nat /\ Len(down) <= DownCap /\ up \in 0 .. UpCap /\ DownCap \in Nat /\ UpCap \in Nat
  BY BucketAssumption DEF TypeOK
<1>6. ASSUME NEW x, PostDown(id, x) PROVE MayPost(down, down', id, x) /\ Len(down') <= DownCap
  BY <1>6, PostFits
<1>7. PostUp => up' \in 0 .. UpCap
  BY <1>5 DEF PostUp, CanPostUp
<1> HIDE DEF p, e, s, t
<1>8. CASE RxDiscard(id, p) \/ RxNoEndpoint(id, p)
  BY <1>1, <1>2, <1>5, <1>8 DEF RxDiscard, RxNoEndpoint, RxStays, MayPost, p, e
<1>9. CASE RxInSequence(id, p)
  <2>1. /\ s # 0 /\ p.type \in DataTypes /\ p.fcs # "bad" /\ p.ns = t[s].nr
        /\ endpoints' = [t EXCEPT ![s].nr = 1 - t[s].nr]
        /\ PostUp /\ PostDown(id, BlAck(1 - t[s].nr))
        /\ accepted' = [accepted EXCEPT ![id] = Append(accepted[id], p.body)]
    BY <1>9 DEF RxInSequence, Discarded, s, t
  <2> DEFINE f == [e EXCEPT !.nr = 1 - e.nr]
  <2>2. endpoints' = Put(t, s, f)
    BY <1>4, <2>1 DEF Put
  <2>3. f \in Endpoint /\ f.in_use /\ f.id = id
    BY <1>3 DEF Endpoint
  <2> HIDE DEF f
  <2>4. Updated(endpoints, endpoints', id, f)
    BY <2>1, <2>2, <2>3, LookupRewritten DEF s, t
  <2>5. RxTakes(id, p, e)
    BY <1>4, <1>6, <2>1, <2>4 DEF f, RxTakes
  <2> QED
    BY <1>1, <1>6, <1>7, <2>1, <2>5 DEF p, e
<1>10. CASE RxRepeated(id, p)
  <2>1. /\ s # 0 /\ endpoints' = t /\ PostDown(id, BlAck(t[s].nr))
        /\ UNCHANGED <<up, accepted>>
    BY <1>10 DEF RxRepeated, s, t
  <2> QED
    BY <1>1, <1>2, <1>4, <1>5, <1>6, <2>1 DEF p, e, RxStays
<1>11. CASE RxAck(id, p)
  <2>1. /\ s # 0 /\ p.type = "ACK"
        /\ endpoints' = IF AckMatches(t[s], p) THEN [t EXCEPT ![s].aw = FALSE] ELSE t
        /\ UNCHANGED <<down, up, accepted>>
    BY <1>11 DEF RxAck, s, t
  <2>2. CASE ~AckMatches(t[s], p)
    BY <1>1, <1>2, <1>5, <2>1, <2>2 DEF p, e, MayPost, RxStays
  <2>3. CASE AckMatches(t[s], p)
    <3> DEFINE f == [e EXCEPT !.aw = FALSE]
    <3>1. endpoints' = Put(t, s, f)
      BY <1>4, <2>1, <2>3 DEF Put
    <3>2. f \in Endpoint /\ f.in_use /\ f.id = id
      BY <1>3 DEF Endpoint
    <3>3. e.aw /\ p.nr = e.ns
      BY <1>4, <2>1, <2>3 DEF AckMatches
    <3> HIDE DEF f
    <3>4. Updated(endpoints, endpoints', id, f)
      BY <2>1, <3>1, <3>2, LookupRewritten DEF s, t
    <3> QED
      BY <1>1, <1>5, <2>1, <3>3, <3>4 DEF f, p, e, RxEnds
  <2> QED
    BY <2>2, <2>3
<1>12. CASE RxStateless(id, p)
  <2>1. endpoints' = t /\ PostUp /\ UNCHANGED <<down, accepted>>
    BY <1>12 DEF RxStateless, t
  <2> QED
    BY <1>1, <1>2, <1>5, <1>7, <2>1 DEF p, e, MayPost, RxStays
<1> QED
  BY <1>8, <1>9, <1>10, <1>11, <1>12 DEF RxInd, p

(* llc_send_bl_data and on_tle_msg_from_mle.  A frame that acknowledges    *)
(* anything acknowledges what the endpoint expects.                        *)
HandsDown(id, e) ==
  \E p \in LlcPdu, f \in Endpoint :
    /\ Updated(endpoints, endpoints', id, f) /\ f.nr = e.nr
    /\ MayPost(down, down', id, p)
    /\ p.type \in UpAcks => p.nr = e.nr

(* An SDU that waits for its acknowledgement: the endpoint moves on.       *)
Sends(id, e) ==
  /\ e.aw => overlap'[id]
  /\ Updated(endpoints, endpoints', id, [e EXCEPT !.ns = 1 - e.ns, !.aw = TRUE])
  /\ \E p \in LlcPdu : MayPost(down, down', id, p) /\ p.ns = e.ns /\ p.body = given[id] + 1
  /\ given' = [given EXCEPT ![id] = given[id] + 1]

(* An overlap is never forgotten.                                          *)
Overlaps ==
  /\ overlap' \in [Ids -> BOOLEAN]
  /\ \A x \in Ids : overlap[x] => overlap'[x]

(* Anything else: the endpoint stays.                                      *)
SendsNoData(id, e) ==
  /\ Updated(endpoints, endpoints', id, e)
  /\ \E p \in LlcPdu : MayPost(down, down', id, p) /\ p.type \notin DataTypes
  /\ given' = given

LEMMA SentKeeps ==
  ASSUME NEW id, NEW e \in Endpoint, e.in_use, e.id = id,
         NEW f, f = [e EXCEPT !.ns = 1 - e.ns, !.aw = TRUE]
  PROVE  f \in Endpoint /\ f.in_use /\ f.id = id /\ f.nr = e.nr
<1>1. 1 - e.ns \in {0, 1}
  BY DEF Endpoint
<1>2. f \in Endpoint
  BY <1>1 DEF Endpoint
<1>3. f.in_use
  BY DEF Endpoint
<1>4. f.id = id /\ f.nr = e.nr
  BY DEF Endpoint
<1> QED
  BY <1>2, <1>3, <1>4

LEMMA SendEffect ==
  ASSUME TypeOK, Table(endpoints), NEW id \in Ids, SendBlData(id)
  PROVE  /\ HandsDown(id, Ep(endpoints, id))
         /\ Sends(id, Ep(endpoints, id)) \/ SendsNoData(id, Ep(endpoints, id))
         /\ Len(down') <= DownCap /\ given' \in [Ids -> 0 .. MaxDown] /\ Overlaps
         /\ UNCHANGED <<up, accepted, uair, dair, ms>>
<1> DEFINE e == Ep(endpoints, id)
           s == Lookup(id)
           t == Opened(id)
           quiet == Pdu("UDATA", 0, 0, "none", 0)
           p == Pdu("DATA", e.ns, 0, "none", given[id] + 1)
<1>1. Updated(endpoints, t, id, e)
  BY LookupUpdates
<1>2. e \in Endpoint /\ e.in_use /\ e.id = id
  BY EpTyped
<1>3. s # 0 => t[s] = e
  BY LookupHolds
<1>4. quiet \in LlcPdu /\ quiet.type \notin DataTypes /\ quiet.type \notin UpAcks
  BY DEF Pdu, LlcPdu, LlcPduType, DataTypes, UpAcks
<1>5. UNCHANGED <<up, accepted, overlap, uair, dair, ms>> /\ given[id] < MaxDown /\ Overlaps
  BY DEF SendBlData, TypeOK, Overlaps
<1> HIDE DEF e, s, t, quiet
<1>6. CASE endpoints' = t /\ UNCHANGED <<down, given>>
  <2>1. MayPost(down, down', id, quiet)
    BY <1>6 DEF MayPost
  <2>2. HandsDown(id, e) /\ SendsNoData(id, e)
    BY <1>1, <1>2, <1>4, <1>6, <2>1 DEF HandsDown, SendsNoData
  <2> QED
    BY <1>5, <1>6, <2>2 DEF TypeOK, e
<1>7. CASE /\ s # 0 /\ ~t[s].aw /\ CanPostDown
           /\ PostDown(id, Pdu("DATA", t[s].ns, 0, "none", given[id] + 1))
           /\ endpoints' = [t EXCEPT ![s] = Sent(t[s])]
           /\ given' = [given EXCEPT ![id] = given[id] + 1]
  <2> DEFINE f == [e EXCEPT !.ns = 1 - e.ns, !.aw = TRUE]
  <2>1. Sent(e) = f
    BY <1>2 DEF Sent, Endpoint
  <2>0. f = [e EXCEPT !.ns = 1 - e.ns, !.aw = TRUE]
    OBVIOUS
  <2> HIDE DEF f
  <2>2. f \in Endpoint /\ f.in_use /\ f.id = id /\ f.nr = e.nr
    <3>1. f \in Endpoint
      BY <1>2, <2>0, SentKeeps
    <3>2. f.in_use
      BY <1>2, <2>0, SentKeeps
    <3>3. f.id = id /\ f.nr = e.nr
      BY <1>2, <2>0 DEF Endpoint
    <3> QED
      BY <3>1, <3>2, <3>3
  <2> HIDE DEF f
  <2>3. endpoints' = Put(t, s, f)
    BY <1>3, <1>7, <2>1 DEF Put
  <2>4. Updated(endpoints, endpoints', id, f)
    BY <1>7, <2>2, <2>3, LookupRewritten DEF s, t
  <2>5. given[id] \in 0 .. MaxDown
    BY DEF TypeOK
  <2>6. given' \in [Ids -> 0 .. MaxDown]
    BY <1>5, <1>7, <2>5, BoundAssumption DEF TypeOK
  <2>7. p \in LlcPdu /\ p.type \notin UpAcks
    BY <1>2, <2>5, BoundAssumption DEF Pdu, LlcPdu, LlcPduType, DataTypes, UpAcks, Endpoint
  <2>8. ~e.aw /\ p.ns = e.ns /\ p.body = given[id] + 1
    BY <1>3, <1>7 DEF Pdu
  <2>9. MayPost(down, down', id, p) /\ Len(down') <= DownCap
    BY <1>3, <1>7, PostFits
  <2>10. HandsDown(id, e)
    BY <2>2, <2>4, <2>7, <2>9 DEF HandsDown
  <2> HIDE DEF p
  <2>11. Sends(id, e)
    BY <1>7, <2>0, <2>4, <2>7, <2>8, <2>9 DEF Sends
  <2> QED
    BY <1>5, <2>6, <2>9, <2>10, <2>11 DEF e
<1> QED
  BY <1>6, <1>7 DEF SendBlData, s, t

LEMMA TleEffect ==
  ASSUME TypeOK, Table(endpoints), NEW id \in Ids, OnTle(id)
  PROVE  /\ HandsDown(id, Ep(endpoints, id))
         /\ Sends(id, Ep(endpoints, id)) \/ SendsNoData(id, Ep(endpoints, id))
         /\ Len(down') <= DownCap /\ given' \in [Ids -> 0 .. MaxDown] /\ Overlaps
         /\ UNCHANGED <<up, accepted, uair, dair, ms>>
<1> DEFINE e == Ep(endpoints, id)
           s == Lookup(id)
           t == Opened(id)
           quiet == Pdu("UDATA", 0, 0, "none", 0)
<1>1. Updated(endpoints, t, id, e) /\ Updated(endpoints, endpoints, id, e)
  BY LookupUpdates
<1>2. e \in Endpoint /\ e.in_use /\ e.id = id
  BY EpTyped
<1>3. s # 0 => t[s] = e
  BY LookupHolds
<1>4. quiet \in LlcPdu /\ quiet.type \notin DataTypes /\ quiet.type \notin UpAcks
  BY DEF Pdu, LlcPdu, LlcPduType, DataTypes, UpAcks
<1>5. PICK type \in TleTypes : OnTleData(id, type) \/ OnTleOther(id, type)
  BY DEF OnTle
<1>6. type \in LlcPduType
  BY TleAssumption
<1>7. /\ Len(down) <= DownCap /\ given \in [Ids -> 0 .. MaxDown]
      /\ overlap \in [Ids -> BOOLEAN]
  BY DEF TypeOK
<1> HIDE DEF e, s, t, quiet
<1>8. CASE OnTleData(id, type)
  <2>1. /\ type \in DataTypes /\ given[id] < MaxDown
        /\ UNCHANGED <<up, accepted, uair, dair, ms>>
        /\ \/ UNCHANGED <<endpoints, down, given, overlap>>
           \/ /\ s # 0
              /\ PostDown(id, Pdu(type, t[s].ns, t[s].nr, "none", given[id] + 1))
              /\ endpoints' = [t EXCEPT ![s] = Sent(t[s])]
              /\ given' = [given EXCEPT ![id] = given[id] + 1]
              /\ overlap' = [overlap EXCEPT ![id] = overlap[id] \/ t[s].aw]
    BY <1>8 DEF OnTleData, s, t
  <2>2. given[id] + 1 \in 0 .. MaxDown /\ given[id] + 1 \in Nat
    BY <1>7, <2>1, BoundAssumption
  <2>4. CASE UNCHANGED <<endpoints, down, given, overlap>>
    <3>1. MayPost(down, down', id, quiet)
      BY <2>4 DEF MayPost
    <3>2. HandsDown(id, e) /\ SendsNoData(id, e)
      BY <1>1, <1>2, <1>4, <2>4, <3>1 DEF HandsDown, SendsNoData
    <3> QED
      BY <1>7, <2>1, <2>4, <3>2 DEF e, Overlaps
  <2>5. CASE /\ s # 0
             /\ PostDown(id, Pdu(type, t[s].ns, t[s].nr, "none", given[id] + 1))
             /\ endpoints' = [t EXCEPT ![s] = Sent(t[s])]
             /\ given' = [given EXCEPT ![id] = given[id] + 1]
             /\ overlap' = [overlap EXCEPT ![id] = overlap[id] \/ t[s].aw]
    <3> DEFINE f == [e EXCEPT !.ns = 1 - e.ns, !.aw = TRUE]
               p == Pdu(type, e.ns, e.nr, "none", given[id] + 1)
    <3>1. Sent(e) = f
      BY <1>2 DEF Sent, Endpoint
    <3>0. f = [e EXCEPT !.ns = 1 - e.ns, !.aw = TRUE]
      OBVIOUS
    <3> HIDE DEF f
    <3>2. f \in Endpoint /\ f.in_use /\ f.id = id /\ f.nr = e.nr
      <4>1. f \in Endpoint
        BY <1>2, <3>0, SentKeeps
      <4>2. f.in_use
        BY <1>2, <3>0, SentKeeps
      <4>3. f.id = id /\ f.nr = e.nr
        BY <1>2, <3>0 DEF Endpoint
      <4> QED
        BY <4>1, <4>2, <4>3
    <3>3. p \in LlcPdu /\ p.nr = e.nr /\ p.ns = e.ns /\ p.body = given[id] + 1
      BY <1>2, <1>6, <2>2 DEF Pdu, LlcPdu, Endpoint
    <3> HIDE DEF f
    <3>4. endpoints' = Put(t, s, f)
      BY <1>3, <2>5, <3>1 DEF Put
    <3>5. Updated(endpoints, endpoints', id, f)
      BY <2>5, <3>2, <3>4, LookupRewritten DEF s, t
    <3>6. MayPost(down, down', id, p) /\ Len(down') <= DownCap
      BY <1>3, <2>5, PostFits
    <3> HIDE DEF p
    <3>7. HandsDown(id, e)
      BY <3>2, <3>3, <3>5, <3>6 DEF HandsDown
    <3>8. /\ overlap' \in [Ids -> BOOLEAN] /\ overlap'[id] = (overlap[id] \/ e.aw)
          /\ \A x \in Ids \ {id} : overlap'[x] = overlap[x]
      <4>1. e.aw \in BOOLEAN
        BY <1>2 DEF Endpoint
      <4> QED
        BY <1>3, <1>7, <2>5, <4>1
    <3>9. Overlaps
      BY <3>8 DEF Overlaps
    <3>10. Sends(id, e)
      BY <2>5, <3>0, <3>3, <3>5, <3>6, <3>8 DEF Sends
    <3>11. given' \in [Ids -> 0 .. MaxDown]
      BY <1>7, <2>2, <2>5
    <3> QED
      BY <2>1, <3>6, <3>7, <3>9, <3>10, <3>11 DEF e
  <2> QED
    BY <2>1, <2>4, <2>5
<1>9. CASE OnTleOther(id, type)
  <2> DEFINE p == Pdu(type, 0, IF type = "ACK" THEN e.nr ELSE 0, "none", 0)
  <2>1. /\ type \notin DataTypes /\ endpoints' = t
        /\ UNCHANGED <<up, accepted, given, overlap, uair, dair, ms>>
        /\ down' = down \/ PostDown(id, p)
    BY <1>3, <1>9 DEF OnTleOther, s, t
  <2>2. p \in LlcPdu /\ p.type \notin DataTypes /\ (p.type \in UpAcks => p.nr = e.nr)
    BY <1>2, <1>6, <2>1 DEF Pdu, LlcPdu, Endpoint, UpAcks, DataTypes
  <2>3. MayPost(down, down', id, p) /\ Len(down') <= DownCap
    BY <1>7, <2>1, PostFits DEF MayPost
  <2> HIDE DEF p
  <2>4. HandsDown(id, e) /\ SendsNoData(id, e)
    BY <1>1, <1>2, <2>1, <2>2, <2>3 DEF HandsDown, SendsNoData
  <2> QED
    BY <1>7, <2>1, <2>3, <2>4 DEF e, Overlaps
<1> QED
  BY <1>5, <1>8, <1>9

-----------------------------------------------------------------------------
(* What the mobile stations and the radio do.                              *)

Station == [ns : {0, 1}, nr : {0, 1}, aw : BOOLEAN, last : LlcPdu,
            sent : 0 .. MaxUp, got : Seq(Nat)]

LEMMA MsSendEffect ==
  ASSUME TypeOK, NEW id \in Ids, MsSend(id)
  PROVE  \E p \in LlcPdu :
           /\ ~ms[id].aw
           /\ p.type \in DataTypes /\ p.fcs \in UpFcs
           /\ p.ns = ms[id].ns /\ p.body = ms[id].sent + 1
           /\ uair' = [uair EXCEPT ![id] = Append(uair[id], p)]
           /\ ms' \in [Ids -> Station]
           /\ \A x \in Ids \ {id} : ms'[x] = ms[x]
           /\ ms'[id].aw /\ ms'[id].ns = 1 - ms[id].ns /\ ms'[id].sent = ms[id].sent + 1
           /\ ms'[id].last = p /\ ms'[id].nr = ms[id].nr /\ ms'[id].got = ms[id].got
           /\ UNCHANGED <<llcVars, dair>>
<1>1. PICK k \in PeerKinds :
        LET p == Pdu(k[1], ms[id].ns, ms[id].nr, k[2], ms[id].sent + 1) IN
          /\ UplinkSend(id, p)
          /\ ms' = [ms EXCEPT ![id].aw = TRUE, ![id].ns = 1 - @, ![id].sent = @ + 1, ![id].last = p]
  BY DEF MsSend
<1>2. k[1] \in DataTypes /\ k[2] \in UpFcs
  BY PeerAssumption DEF UpFcs
<1>3. ms \in [Ids -> Station] /\ ms[id] \in Station
  BY DEF TypeOK, Station
<1>4. ~ms[id].aw /\ ms[id].sent < MaxUp /\ UNCHANGED <<llcVars, dair>>
  BY DEF MsSend
<1>5. ms[id].sent + 1 \in 0 .. MaxUp /\ ms[id].sent + 1 \in Nat
  BY <1>3, <1>4, BoundAssumption DEF Station
<1> DEFINE p == Pdu(k[1], ms[id].ns, ms[id].nr, k[2], ms[id].sent + 1)
           new == [ms[id] EXCEPT !.aw = TRUE, !.ns = 1 - ms[id].ns,
                                 !.sent = ms[id].sent + 1, !.last = p]
<1>6. /\ p \in LlcPdu /\ p.type \in DataTypes /\ p.fcs \in UpFcs
      /\ p.ns = ms[id].ns /\ p.body = ms[id].sent + 1
  BY <1>2, <1>3, <1>5 DEF Pdu, LlcPdu, LlcPduType, UpFcs, Station
<1>7. ms' = [ms EXCEPT ![id] = new] /\ UplinkSend(id, p)
  BY <1>1, <1>3
<1> HIDE DEF p
<1>8. 1 - ms[id].ns \in {0, 1}
  BY <1>3 DEF Station
<1>9. new \in Station
  BY <1>3, <1>5, <1>6, <1>8 DEF Station
<1>10. /\ new.aw /\ new.ns = 1 - ms[id].ns /\ new.sent = ms[id].sent + 1
       /\ new.last = p /\ new.nr = ms[id].nr /\ new.got = ms[id].got
  BY <1>3 DEF Station
<1> HIDE DEF new
<1>11. /\ ms' \in [Ids -> Station] /\ ms'[id] = new
       /\ \A x \in Ids \ {id} : ms'[x] = ms[x]
  BY <1>3, <1>7, <1>9
<1>12. uair' = [uair EXCEPT ![id] = Append(uair[id], p)]
  BY <1>7 DEF UplinkSend
<1> QED
  BY <1>4, <1>6, <1>10, <1>11, <1>12

(* A mobile station receives p: new data is taken, data acknowledged, an   *)
(* acknowledgement of its own SDU ends the wait.                           *)
LEMMA MsRxEffect ==
  ASSUME TypeOK, NEW id \in Ids, MsRx(id)
  PROVE  LET p == Head(dair[id])
             new == p.type \in DataTypes /\ p.ns = ms[id].nr
             acks == p.type \in UpAcks /\ p.nr = ms[id].ns
         IN /\ dair[id] # <<>> /\ dair' = [dair EXCEPT ![id] = Tail(dair[id])]
            /\ ms' \in [Ids -> Station]
            /\ \A x \in Ids \ {id} : ms'[x] = ms[x]
            /\ ms'[id].ns = ms[id].ns /\ ms'[id].sent = ms[id].sent /\ ms'[id].last = ms[id].last
            /\ ms'[id].aw <=> ms[id].aw /\ ~acks
            /\ new => /\ ms'[id].nr = 1 - ms[id].nr
                      /\ ms'[id].got = Append(ms[id].got, p.body)
            /\ ~new => ms'[id].nr = ms[id].nr /\ ms'[id].got = ms[id].got
            /\ \/ uair' = uair
               \/ uair' = [uair EXCEPT ![id] = Append(uair[id], BlAck(ms'[id].nr))]
            /\ UNCHANGED llcVars
<1> DEFINE p == Head(dair[id])
           new == p.type \in DataTypes /\ p.ns = ms[id].nr
           acks == p.type \in UpAcks /\ p.nr = ms[id].ns
           after == [ms[id] EXCEPT !.nr = IF new THEN 1 - ms[id].nr ELSE ms[id].nr,
                                   !.got = IF new THEN Append(ms[id].got, p.body) ELSE ms[id].got,
                                   !.aw = ms[id].aw /\ ~acks]
<1>1. ms \in [Ids -> Station] /\ ms[id] \in Station /\ dair[id] \in Seq(LlcPdu)
  BY DEF TypeOK, Station
<1>2. /\ dair[id] # <<>> /\ dair' = [dair EXCEPT ![id] = Tail(dair[id])]
      /\ ms' = [ms EXCEPT ![id] = after]
      /\ \/ uair' = uair
         \/ uair' = [uair EXCEPT ![id] = Append(uair[id], BlAck(after.nr))]
      /\ UNCHANGED llcVars
  BY DEF MsRx, UplinkSend, UpAcks
<1>3. p \in LlcPdu
  BY <1>1, <1>2, HeadTailProperties
<1> HIDE DEF p
<1>4. /\ (IF new THEN 1 - ms[id].nr ELSE ms[id].nr) \in {0, 1}
      /\ (IF new THEN Append(ms[id].got, p.body) ELSE ms[id].got) \in Seq(Nat)
      /\ (ms[id].aw /\ ~acks) \in BOOLEAN
  <2>1. p.body \in Nat
    BY <1>3 DEF LlcPdu
  <2>2. ms[id].nr \in {0, 1} /\ ms[id].got \in Seq(Nat)
    BY <1>1 DEF Station
  <2>3. Append(ms[id].got, p.body) \in Seq(Nat)
    BY <2>1, <2>2, AppendProperties
  <2> QED
    BY <2>2, <2>3
<1> HIDE DEF new, acks
<1>5. after \in Station
  BY <1>1, <1>4 DEF Station
<1>6. /\ after.ns = ms[id].ns /\ after.sent = ms[id].sent /\ after.last = ms[id].last
      /\ after.nr = IF new THEN 1 - ms[id].nr ELSE ms[id].nr
      /\ after.got = IF new THEN Append(ms[id].got, p.body) ELSE ms[id].got
  BY <1>1 DEF Station
<1>7. after.aw <=> ms[id].aw /\ ~acks
  BY <1>1 DEF Station
<1> HIDE DEF after
<1>8. /\ ms' \in [Ids -> Station] /\ ms'[id] = after
      /\ \A x \in Ids \ {id} : ms'[x] = ms[x]
  BY <1>1, <1>2, <1>5
<1>9. ms'[id].aw <=> ms[id].aw /\ ~acks
  BY <1>7, <1>8
<1> QED
  BY <1>2, <1>6, <1>8, <1>9 DEF new, acks, p

LEMMA PostTyped ==
  ASSUME NEW q \in Seq(Request), NEW id \in Ids, NEW p \in LlcPdu, NEW r, MayPost(q, r, id, p)
  PROVE  r \in Seq(Request)
<1>1. [id |-> id, pdu |-> p] \in Request
  BY DEF Request
<1> QED
  BY <1>1, AppendProperties DEF MayPost

LEMMA AckTyped ==
  ASSUME NEW n \in {0, 1}
  PROVE  BlAck(n) \in LlcPdu /\ BlAck(n).type = "ACK" /\ BlAck(n).nr = n
BY DEF BlAck, Pdu, LlcPdu, LlcPduType

(* The radio loses the first frame, or damages an uplink frame with an     *)
(* FCS.                                                                    *)
LEMMA LoseEffect ==
  ASSUME TypeOK, NEW id \in Ids, Lose(id)
  PROVE  /\ UNCHANGED <<llcVars, ms>>
         /\ uair' \in [Ids -> Seq(LlcPdu)] /\ dair' \in [Ids -> Seq(LlcPdu)]
         /\ \/ /\ uair[id] # <<>> /\ uair' = [uair EXCEPT ![id] = Tail(uair[id])]
               /\ UNCHANGED dair
            \/ /\ uair[id] # <<>> /\ Head(uair[id]).fcs = "ok"
               /\ \E p \in LlcPdu :
                    /\ p.type = Head(uair[id]).type /\ p.nr = Head(uair[id]).nr /\ p.fcs = "bad"
                    /\ uair' = [uair EXCEPT ![id] = [uair[id] EXCEPT ![1] = p]]
               /\ UNCHANGED dair
            \/ /\ dair[id] # <<>> /\ dair' = [dair EXCEPT ![id] = Tail(dair[id])]
               /\ UNCHANGED uair
<1>1. /\ uair \in [Ids -> Seq(LlcPdu)] /\ dair \in [Ids -> Seq(LlcPdu)]
      /\ uair[id] \in Seq(LlcPdu) /\ dair[id] \in Seq(LlcPdu)
  BY DEF TypeOK
<1>2. UNCHANGED <<llcVars, ms>>
  BY DEF Lose
<1>3. CASE uair[id] # <<>> /\ uair' = [uair EXCEPT ![id] = Tail(uair[id])] /\ UNCHANGED dair
  BY <1>1, <1>2, <1>3, HeadTailProperties
<1>4. CASE dair[id] # <<>> /\ dair' = [dair EXCEPT ![id] = Tail(dair[id])] /\ UNCHANGED uair
  BY <1>1, <1>2, <1>4, HeadTailProperties
<1>5. CASE /\ uair[id] # <<>> /\ Head(uair[id]).fcs = "ok"
           /\ uair' = [uair EXCEPT ![id][1].fcs = "bad", ![id][1].body = 0]
           /\ UNCHANGED dair
  <2> DEFINE d == uair[id]
             p == [d[1] EXCEPT !.fcs = "bad", !.body = 0]
  <2>1. d \in Seq(LlcPdu) /\ 1 \in 1 .. Len(d) /\ Head(d) = d[1] /\ d[1] \in LlcPdu
    BY <1>1, <1>5
  <2>2. p \in LlcPdu /\ p.type = d[1].type /\ p.nr = d[1].nr /\ p.fcs = "bad"
    BY <2>1 DEF LlcPdu
  <2>3. uair' = [uair EXCEPT ![id] = [d EXCEPT ![1] = p]]
    BY <1>1, <1>5, <2>1 DEF LlcPdu
  <2> HIDE DEF p
  <2>4. [d EXCEPT ![1] = p] \in Seq(LlcPdu)
    BY <2>1, <2>2, ExceptSeq
  <2>5. uair' \in [Ids -> Seq(LlcPdu)]
    BY <1>1, <2>3, <2>4
  <2> QED
    BY <1>1, <1>2, <1>5, <2>1, <2>2, <2>3, <2>5
<1> QED
  BY <1>3, <1>4, <1>5 DEF Lose

-----------------------------------------------------------------------------
(* Types and the table.                                                    *)

TableInv == TypeOK /\ Table(endpoints)

LEMMA InitTable == Init => TableInv
<1> SUFFICES ASSUME Init PROVE TableInv
  OBVIOUS
<1>1. Table(endpoints)
  BY DEF Init, Table, Endpoint
<1>2. ms \in [Ids -> Station]
  <2>1. Pdu("DATA", 0, 0, "none", 0) \in LlcPdu
    BY DEF Pdu, LlcPdu, LlcPduType, DataTypes
  <2>2. 0 \in 0 .. MaxUp
    BY BoundAssumption
  <2>3. [ns |-> 0, nr |-> 0, aw |-> FALSE, last |-> Pdu("DATA", 0, 0, "none", 0),
         sent |-> 0, got |-> <<>>] \in Station
    BY <2>1, <2>2 DEF Station
  <2> QED
    BY <2>3 DEF Init
<1>3. given \in [Ids -> 0 .. MaxDown] /\ up \in 0 .. UpCap /\ Len(down) <= DownCap
  BY BoundAssumption, BucketAssumption DEF Init
<1>4. /\ down \in Seq(Request) /\ accepted \in [Ids -> Seq(Nat)]
      /\ overlap \in [Ids -> BOOLEAN]
  BY DEF Init
<1>5. uair \in [Ids -> Seq(LlcPdu)] /\ dair \in [Ids -> Seq(LlcPdu)]
  BY DEF Init
<1> QED
  BY <1>1, <1>2, <1>3, <1>4, <1>5 DEF TableInv, TypeOK, Table, Endpoint, Station, Request

LEMMA TypeParts ==
  TypeOK <=> /\ endpoints \in [Slot -> Endpoint]
             /\ down \in Seq(Request) /\ Len(down) <= DownCap
             /\ up \in 0 .. UpCap
             /\ accepted \in [Ids -> Seq(Nat)]
             /\ given \in [Ids -> 0 .. MaxDown] /\ overlap \in [Ids -> BOOLEAN]
             /\ uair \in [Ids -> Seq(LlcPdu)] /\ dair \in [Ids -> Seq(LlcPdu)]
             /\ ms \in [Ids -> Station]
BY DEF TypeOK, Endpoint, Request, Station

LEMMA RxTable ==
  ASSUME TableInv, NEW id \in Ids, RxInd(id)
  PROVE  TableInv'
<1> DEFINE p == Head(uair[id])
           e == Ep(endpoints, id)
<1>1. /\ uair[id] # <<>> /\ uair' = [uair EXCEPT ![id] = Tail(uair[id])]
      /\ UNCHANGED <<given, overlap, dair, ms>>
      /\ Len(down') <= DownCap /\ up' \in 0 .. UpCap
      /\ RxTakes(id, p, e) \/ RxStays(id, e) \/ RxEnds(id, p, e)
  BY RxEffect DEF TableInv
<1>2. /\ uair[id] \in Seq(LlcPdu) /\ down \in Seq(Request)
      /\ accepted \in [Ids -> Seq(Nat)]
  BY TypeParts DEF TableInv
<1>3. p \in LlcPdu /\ p.body \in Nat /\ Tail(uair[id]) \in Seq(LlcPdu)
  <2>1. p \in LlcPdu /\ Tail(uair[id]) \in Seq(LlcPdu)
    BY <1>1, <1>2, HeadTailProperties
  <2>2. p.body \in Nat
    BY <2>1 DEF LlcPdu
  <2> QED
    BY <2>1, <2>2
<1>4. e.nr \in {0, 1} /\ 1 - e.nr \in {0, 1}
  BY EpTyped DEF TableInv, Endpoint
<1> HIDE DEF p, e
<1>5. Table(endpoints') /\ endpoints' \in [Slot -> Endpoint]
  BY <1>1 DEF RxTakes, RxStays, RxEnds, Updated, Table
<1>6. down' \in Seq(Request)
  <2>1. BlAck(e.nr) \in LlcPdu /\ BlAck(1 - e.nr) \in LlcPdu
    BY <1>4, AckTyped
  <2>2. \/ MayPost(down, down', id, BlAck(e.nr))
        \/ MayPost(down, down', id, BlAck(1 - e.nr))
        \/ down' = down
    BY <1>1 DEF RxTakes, RxStays, RxEnds
  <2> QED
    BY <1>2, <2>1, <2>2, PostTyped
<1>7. Append(accepted[id], p.body) \in Seq(Nat)
  BY <1>2, <1>3, AppendProperties
<1>8. accepted' \in [Ids -> Seq(Nat)]
  BY <1>1, <1>2, <1>7 DEF RxTakes, RxStays, RxEnds
<1>9. uair' \in [Ids -> Seq(LlcPdu)]
  <2>1. uair \in [Ids -> Seq(LlcPdu)]
    BY TypeParts DEF TableInv
  <2> QED
    BY <1>1, <1>3, <2>1
<1> QED
  BY <1>1, <1>5, <1>6, <1>8, <1>9 DEF TableInv, TypeOK, Endpoint, Request, Station

LEMMA DownTable ==
  ASSUME TableInv, NEW id \in Ids, SendBlData(id) \/ OnTle(id)
  PROVE  TableInv'
<1>1. /\ HandsDown(id, Ep(endpoints, id))
      /\ Len(down') <= DownCap /\ given' \in [Ids -> 0 .. MaxDown] /\ Overlaps
      /\ UNCHANGED <<up, accepted, uair, dair, ms>>
  BY SendEffect, TleEffect DEF TableInv
<1>2. PICK p \in LlcPdu, f \in Endpoint :
        Updated(endpoints, endpoints', id, f) /\ MayPost(down, down', id, p)
  BY <1>1 DEF HandsDown
<1>3. down' \in Seq(Request)
  BY <1>2, PostTyped, TypeParts DEF TableInv
<1>4. Table(endpoints') /\ endpoints' \in [Slot -> Endpoint]
  BY <1>2 DEF Updated, Table
<1> QED
  BY <1>1, <1>3, <1>4 DEF TableInv, TypeOK, Endpoint, Request, Station, Overlaps

LEMMA NextTable == TableInv /\ [Next]_vars => TableInv'
<1> SUFFICES ASSUME TableInv, [Next]_vars PROVE TableInv'
  OBVIOUS
<1>0. /\ down \in Seq(Request) /\ Len(down) <= DownCap /\ up \in 0 .. UpCap
      /\ uair \in [Ids -> Seq(LlcPdu)] /\ dair \in [Ids -> Seq(LlcPdu)]
      /\ ms \in [Ids -> Station]
  BY TypeParts DEF TableInv
<1>1. CASE MacTx
  <2>1. /\ down # <<>> /\ down' = Tail(down)
        /\ dair' = [dair EXCEPT ![Head(down).id] = Append(dair[Head(down).id], Head(down).pdu)]
        /\ UNCHANGED <<endpoints, up, accepted, given, overlap, uair, ms>>
    BY <1>1 DEF MacTx
  <2>2. Head(down) \in Request /\ down' \in Seq(Request) /\ Len(down') = Len(down) - 1
    BY <1>0, <2>1, HeadTailProperties
  <2>3. Len(down) \in Nat /\ Len(down') <= DownCap
    BY <1>0, <2>2, BucketAssumption
  <2>4. Head(down).id \in Ids /\ Head(down).pdu \in LlcPdu
    BY <2>2 DEF Request
  <2>5. dair' \in [Ids -> Seq(LlcPdu)]
    BY <1>0, <2>1, <2>4, AppendProperties
  <2> QED
    BY <2>1, <2>2, <2>3, <2>5 DEF TableInv, TypeOK, Endpoint, Request, Station
<1>2. CASE UpperTake
  <2>1. up' \in 0 .. UpCap /\ UNCHANGED <<endpoints, down, accepted, given, overlap, uair, dair, ms>>
    BY <1>0, <1>2, BucketAssumption DEF UpperTake
  <2> QED
    BY <2>1 DEF TableInv, TypeOK, Endpoint, Request, Station
<1>3. ASSUME NEW id \in Ids, RxInd(id) PROVE TableInv'
  BY <1>3, RxTable
<1>4. ASSUME NEW id \in Ids, SendBlData(id) \/ OnTle(id) PROVE TableInv'
  BY <1>4, DownTable
<1>5. ASSUME NEW id \in Ids, MsSend(id) PROVE TableInv'
  <2>1. PICK p \in LlcPdu :
          /\ uair' = [uair EXCEPT ![id] = Append(uair[id], p)]
          /\ ms' \in [Ids -> Station] /\ UNCHANGED <<llcVars, dair>>
    BY <1>5, MsSendEffect DEF TableInv
  <2>2. uair' \in [Ids -> Seq(LlcPdu)]
    BY <1>0, <2>1, AppendProperties
  <2> QED
    BY <2>1, <2>2 DEF TableInv, TypeOK, Endpoint, Request, Station, llcVars
<1>6. ASSUME NEW id \in Ids, MsRetransmit(id) \/ MsOther(id) \/ MsReAck(id) PROVE TableInv'
  <2>1. PICK p \in LlcPdu :
          uair' = [uair EXCEPT ![id] = Append(uair[id], p)] /\ UNCHANGED <<llcVars, dair, ms>>
    <3>1. CASE MsRetransmit(id)
      <4>1. ms[id].last \in LlcPdu
        BY <1>0 DEF Station
      <4> QED
        BY <3>1, <4>1 DEF MsRetransmit, UplinkSend
    <3>2. CASE MsOther(id)
      <4>1. \A type \in OtherTypes : Pdu(type, 0, 0, "none", 0) \in LlcPdu
        BY PeerAssumption DEF Pdu, LlcPdu, LlcPduType
      <4> QED
        BY <3>2, <4>1 DEF MsOther, UplinkSend
    <3>3. CASE MsReAck(id)
      <4>1. BlAck(ms[id].nr) \in LlcPdu
        BY <1>0, AckTyped DEF Station
      <4> QED
        BY <3>3, <4>1 DEF MsReAck, UplinkSend
    <3> QED
      BY <1>6, <3>1, <3>2, <3>3
  <2>2. uair' \in [Ids -> Seq(LlcPdu)]
    BY <1>0, <2>1, AppendProperties
  <2> QED
    BY <2>1, <2>2 DEF TableInv, TypeOK, Endpoint, Request, Station, llcVars
<1>7. ASSUME NEW id \in Ids, MsRx(id) PROVE TableInv'
  <2>1. /\ dair[id] # <<>> /\ dair' = [dair EXCEPT ![id] = Tail(dair[id])]
        /\ ms' \in [Ids -> Station]
        /\ \/ uair' = uair
           \/ uair' = [uair EXCEPT ![id] = Append(uair[id], BlAck(ms'[id].nr))]
        /\ UNCHANGED llcVars
    BY <1>7, MsRxEffect DEF TableInv
  <2>2. BlAck(ms'[id].nr) \in LlcPdu
    <3>1. ms'[id].nr \in {0, 1}
      BY <2>1 DEF Station
    <3> QED
      BY <3>1, AckTyped
  <2>3. uair' \in [Ids -> Seq(LlcPdu)]
    <3>1. \A p \in LlcPdu : Append(uair[id], p) \in Seq(LlcPdu)
      BY <1>0, AppendProperties
    <3>2. Append(uair[id], BlAck(ms'[id].nr)) \in Seq(LlcPdu)
      BY <2>2, <3>1
    <3> QED
      BY <1>0, <2>1, <3>2
  <2>4. dair' \in [Ids -> Seq(LlcPdu)]
    BY <1>0, <2>1, HeadTailProperties
  <2> QED
    BY <2>1, <2>3, <2>4 DEF TableInv, TypeOK, Endpoint, Request, Station, llcVars
<1>8. ASSUME NEW id \in Ids, Lose(id) PROVE TableInv'
  <2>1. UNCHANGED <<llcVars, ms>> /\ uair' \in [Ids -> Seq(LlcPdu)] /\ dair' \in [Ids -> Seq(LlcPdu)]
    BY <1>0, <1>8, LoseEffect DEF TableInv
  <2> QED
    BY <2>1 DEF TableInv, TypeOK, Endpoint, Request, Station, llcVars
<1>9. CASE UNCHANGED vars
  <2>1. UNCHANGED <<endpoints, down, up, accepted, given, overlap, uair, dair, ms>>
    BY <1>9 DEF vars, llcVars
  <2> QED
    BY <2>1 DEF TableInv, TypeOK, Endpoint, Request, Station
<1> QED
  BY <1>1, <1>2, <1>3, <1>4, <1>5, <1>6, <1>7, <1>8, <1>9 DEF Next

(* For every number of endpoints and links: one endpoint per link, slots   *)
(* handed out from the front (endpoint_find, endpoint_alloc).              *)
THEOREM OneEndpointPerLink == Spec => []EndpointTable
<1>1. TableInv => EndpointTable
  BY TableHolds DEF TableInv
<1> QED
  BY <1>1, InitTable, NextTable, PTL DEF Spec

(* Buckets keep their capacity, NS and NR their width (llc.c, msgbus.c).   *)
THEOREM TypeCorrect == Spec => []TypeOK
<1>1. TableInv => TypeOK
  BY DEF TableInv
<1> QED
  BY <1>1, InitTable, NextTable, PTL DEF Spec

-----------------------------------------------------------------------------
(* The uplink.                                                             *)

LEMMA PostChannel ==
  ASSUME NEW x, NEW d \in Seq(LlcPdu), NEW q \in Seq(Request), NEW r,
         NEW id \in Ids, NEW p \in LlcPdu, MayPost(q, r, id, p)
  PROVE  /\ Grown(x, d, q, d, r, p)
         /\ id # x => Kept(x, d, q, d, r)
<1> DEFINE m == [id |-> id, pdu |-> p]
<1>1. m \in Request /\ m.id = id /\ m.pdu = p
  BY DEF Request
<1>2. r = q \/ r = Append(q, m)
  BY DEF MayPost
<1> HIDE DEF m
<1>3. CASE r = q
  BY <1>3, SameIsKept, KeptIsGrown
<1>4. CASE r = Append(q, m)
  <2>1. CASE id = x
    BY <1>1, <1>4, <2>1, PostGrows
  <2>2. CASE id # x
    BY <1>1, <1>4, <2>2, PostGrows, KeptIsGrown
  <2> QED
    BY <2>1, <2>2
<1> QED
  BY <1>2, <1>3, <1>4

(* A step that neither sends nor takes an SDU of link x nor ends a wait.   *)
LEMMA UpStays ==
  ASSUME NEW x \in Ids, UpLink(x), ms'[x] = ms[x], accepted'[x] = accepted[x],
         Ep(endpoints', x).nr = Ep(endpoints, x).nr,
         NEW p, Grown(x, uair[x], NoRequests, uair'[x], NoRequests, p), p \notin DataOld(UpFcs, ms[x].ns),
         p \in DataNew(UpFcs, ms[x].ns) => p.body = ms[x].sent,
         NEW a, Grown(x, dair[x], down, dair'[x], down', a),
         a.type \in UpAcks => a.nr = Ep(endpoints, x).nr
  PROVE  UpLink(x)'
<1>1. UpCounts(x)'
  BY DEF UpLink, UpCounts
<1>2. UpData(x)'
  BY DataRepeated DEF UpLink, UpData
<1>3. UpAck(x)'
  <2>1. ~ms[x].aw => Ep(endpoints, x).nr = ms[x].ns
    BY DEF UpLink, UpCounts, Counts
  <2> QED
    BY <2>1, AckRepeated DEF UpLink, UpAck
<1>4. UpLast(x)'
  BY DEF UpLink, UpLast
<1> QED
  BY <1>1, <1>2, <1>3, <1>4 DEF UpLink

(* The channels of the links a step does not touch.                        *)
LEMMA UpUntouched ==
  ASSUME NEW x \in Ids, UpLink(x), ms'[x] = ms[x], accepted'[x] = accepted[x],
         Ep(endpoints', x).nr = Ep(endpoints, x).nr,
         Kept(x, uair[x], NoRequests, uair'[x], NoRequests), Kept(x, dair[x], down, dair'[x], down')
  PROVE  UpLink(x)'
<1> DEFINE p == Pdu("UDATA", 0, 0, "none", 0)
<1>1. p.type \notin DataTypes /\ p.type \notin UpAcks
  BY DEF Pdu, DataTypes, UpAcks
<1> HIDE DEF p
<1>2. p \notin DataOld(UpFcs, ms[x].ns) /\ p \notin DataNew(UpFcs, ms[x].ns)
  BY <1>1 DEF DataOld, DataNew
<1>3. Grown(x, uair[x], NoRequests, uair'[x], NoRequests, p) /\ Grown(x, dair[x], down, dair'[x], down', p)
  BY KeptIsGrown
<1> QED
  BY <1>1, <1>2, <1>3, UpStays

LEMMA RxUp ==
  ASSUME TableInv, UpInv, NEW id \in Ids, RxInd(id)
  PROVE  UpInv'
<1> DEFINE p == Head(uair[id])
           e == Ep(endpoints, id)
<1>1. /\ uair[id] # <<>> /\ uair' = [uair EXCEPT ![id] = Tail(uair[id])]
      /\ UNCHANGED <<given, overlap, dair, ms>>
      /\ RxTakes(id, p, e) \/ RxStays(id, e) \/ RxEnds(id, p, e)
  BY RxEffect DEF TableInv
<1>2. /\ uair \in [Ids -> Seq(LlcPdu)] /\ down \in Seq(Request) /\ dair \in [Ids -> Seq(LlcPdu)]
      /\ accepted \in [Ids -> Seq(Nat)] /\ ms \in [Ids -> Station]
  BY TypeParts DEF TableInv
<1>3. p \in LlcPdu
  BY <1>1, <1>2, HeadTailProperties
<1>4. e \in Endpoint /\ e.nr \in {0, 1} /\ 1 - e.nr \in {0, 1}
  <2>1. e \in Endpoint
    BY EpTyped DEF TableInv
  <2> QED
    BY <2>1 DEF Endpoint
<1>5. uair'[id] = Tail(uair[id]) /\ \A x \in Ids \ {id} : uair'[x] = uair[x]
  BY <1>1, <1>2
<1>6. BlAck(e.nr) \in LlcPdu /\ BlAck(e.nr).type = "ACK" /\ BlAck(e.nr).nr = e.nr
  BY <1>4, AckTyped
<1>7. BlAck(1 - e.nr) \in LlcPdu /\ BlAck(1 - e.nr).nr = 1 - e.nr
  BY <1>4, AckTyped
<1>8. \E a \in LlcPdu : MayPost(down, down', id, a)
  BY <1>1, <1>6, <1>7 DEF RxTakes, RxStays, RxEnds, MayPost
<1> HIDE DEF p, e
<1>9. ASSUME NEW x \in Ids, x # id PROVE UpLink(x)'
  <2>1. Ep(endpoints', x) = Ep(endpoints, x)
    BY <1>1, <1>9 DEF RxTakes, RxStays, RxEnds, Updated
  <2>2. accepted'[x] = accepted[x]
    BY <1>1, <1>2, <1>9 DEF RxTakes, RxStays, RxEnds
  <2>3. Kept(x, dair[x], down, dair'[x], down')
    <3>1. dair[x] \in Seq(LlcPdu)
      BY <1>2
    <3> QED
      BY <1>1, <1>2, <1>8, <1>9, <3>1, PostChannel
  <2>4. Kept(x, uair[x], NoRequests, uair'[x], NoRequests)
    BY <1>5, <1>9, SameIsKept
  <2> QED
    BY <1>1, <2>1, <2>2, <2>3, <2>4, UpUntouched DEF UpInv
<1>10. UpLink(id)
  BY DEF UpInv
<1>11. /\ Kept(id, uair[id], NoRequests, uair'[id], NoRequests)
       /\ uair[id] \in Seq(LlcPdu) /\ dair[id] \in Seq(LlcPdu) /\ NoRequests \in Seq(Request)
       /\ ms[id].ns \in {0, 1} /\ ms[id].sent \in Nat
       /\ accepted[id] \in Seq(Nat)
  <2>1. uair[id] \in Seq(LlcPdu) /\ dair[id] \in Seq(LlcPdu) /\ NoRequests \in Seq(Request)
    BY <1>2 DEF NoRequests
  <2>2. Kept(id, uair[id], NoRequests, Tail(uair[id]), NoRequests)
    BY <1>1, <2>1, PopKeeps
  <2> QED
    BY <1>2, <1>5, <2>1, <2>2, BoundAssumption DEF Station
<1>12. ASSUME RxTakes(id, p, e) PROVE UpLink(id)'
  <2>1. /\ p.type \in DataTypes /\ p.fcs # "bad" /\ p.ns = e.nr
        /\ Updated(endpoints, endpoints', id, [e EXCEPT !.nr = 1 - e.nr])
        /\ accepted' = [accepted EXCEPT ![id] = Append(accepted[id], p.body)]
        /\ MayPost(down, down', id, BlAck(1 - e.nr))
    BY <1>12 DEF RxTakes
  <2>2. p.fcs \in UpFcs
    BY <1>3, <2>1 DEF LlcPdu, UpFcs
  <2>3. /\ e.nr # ms[id].ns /\ p.body = ms[id].sent
        /\ DataChannel(id, Tail(uair[id]), NoRequests, UpFcs, ms[id].ns, ms[id].ns, ms[id].sent)
    <3>1. DataChannel(id, uair[id], NoRequests, UpFcs, ms[id].ns, e.nr, ms[id].sent)
      BY <1>10 DEF UpLink, UpData, e
    <3>2. Head(uair[id]).type \in DataTypes /\ Head(uair[id]).fcs \in UpFcs /\ Head(uair[id]).ns = e.nr
      BY <2>1, <2>2 DEF p
    <3> DEFINE d == uair[id]
               n == ms[id].ns
               r == e.nr
               c == ms[id].sent
    <3>3. /\ d \in Seq(LlcPdu) /\ d # <<>> /\ NoRequests \in Seq(Request)
          /\ n \in {0, 1} /\ r \in {0, 1}
          /\ DataChannel(id, d, NoRequests, UpFcs, n, r, c)
          /\ Head(d).type \in DataTypes /\ Head(d).fcs \in UpFcs /\ Head(d).ns = r
      BY <1>1, <1>4, <1>11, <3>1, <3>2
    <3> HIDE DEF d, n, r, c
    <3>4. r # n /\ Head(d).body = c /\ DataChannel(id, Tail(d), NoRequests, UpFcs, n, n, c)
      <4>1. Takes(id, d, NoRequests, UpFcs, n, r, c)
        BY <3>3, DataTaken
      <4> QED
        BY <4>1 DEF Takes
    <3> QED
      BY <3>4 DEF p, d, n, r, c
  <2>4. Ep(endpoints', id).nr = ms[id].ns /\ 1 - e.nr = ms[id].ns
    BY <1>4, <1>11, <2>1, <2>3 DEF Updated, Endpoint
  <2>5. ms[id].aw /\ ms[id].sent > 0 /\ Len(accepted[id]) = ms[id].sent - 1
    BY <1>10, <2>3 DEF UpLink, UpCounts, Counts, e
  <2>6. Len(accepted'[id]) = ms[id].sent
    BY <1>2, <1>11, <2>1, <2>5
  <2>7. UpCounts(id)'
    BY <1>1, <2>4, <2>5, <2>6 DEF UpCounts, Counts
  <2>8. UpData(id)'
    BY <1>1, <1>5, <2>3, <2>4 DEF UpData
  <2>9. UpAck(id)'
    <3>1. Grown(id, dair[id], down, dair[id], down', BlAck(1 - e.nr))
      BY <1>2, <1>7, <1>11, <2>1, PostChannel
    <3>2. AckChannel(id, dair[id], down, UpAcks, ms[id].ns, e.nr, ms[id].aw)
      BY <1>10 DEF UpLink, UpAck, e
    <3>3. AckChannel(id, dair[id], down', UpAcks, ms[id].ns, ms[id].ns, ms[id].aw)
      <4>1. BlAck(1 - e.nr).type \in UpAcks => BlAck(1 - e.nr).nr = ms[id].ns
        BY <1>7, <2>4
      <4> DEFINE a == BlAck(1 - e.nr)
                 n == ms[id].ns
                 w == ms[id].aw
                 r == e.nr
      <4>2. /\ r # n /\ w /\ (a.type \in UpAcks => a.nr = n)
            /\ Grown(id, dair[id], down, dair[id], down', a)
            /\ AckChannel(id, dair[id], down, UpAcks, n, r, w)
        BY <2>3, <2>5, <3>1, <3>2, <4>1
      <4> HIDE DEF a, n, w, r
      <4>3. AckChannel(id, dair[id], down', UpAcks, n, n, w)
        BY <4>2, AckTaken
      <4> QED
        BY <4>3 DEF n, w
    <3> QED
      BY <1>1, <2>4, <3>3 DEF UpAck
  <2>10. UpLast(id)'
    BY <1>1, <1>10 DEF UpLink, UpLast
  <2> QED
    BY <2>7, <2>8, <2>9, <2>10 DEF UpLink
<1>13. ASSUME RxStays(id, e) PROVE UpLink(id)'
  <2>1. Ep(endpoints', id) = e /\ accepted' = accepted /\ MayPost(down, down', id, BlAck(e.nr))
    BY <1>13 DEF RxStays, Updated
  <2>2. Grown(id, dair[id], down, dair'[id], down', BlAck(e.nr))
    BY <1>1, <1>2, <1>6, <1>11, <2>1, PostChannel
  <2>3. Grown(id, uair[id], NoRequests, uair'[id], NoRequests, BlAck(e.nr))
    BY <1>11, KeptIsGrown
  <2>4. BlAck(e.nr).type \notin DataTypes
    BY <1>6 DEF DataTypes
  <2>5. BlAck(e.nr) \notin DataOld(UpFcs, ms[id].ns) /\ BlAck(e.nr) \notin DataNew(UpFcs, ms[id].ns)
    BY <2>4 DEF DataOld, DataNew
  <2> QED
    BY <1>1, <1>6, <1>10, <2>1, <2>2, <2>3, <2>5, UpStays DEF e
<1>14. ASSUME RxEnds(id, p, e) PROVE UpLink(id)'
  <2>1. Ep(endpoints', id) = [e EXCEPT !.aw = FALSE] /\ accepted' = accepted /\ down' = down
    BY <1>14 DEF RxEnds, Updated
  <2>2. Ep(endpoints', id).nr = e.nr
    BY <1>4, <2>1 DEF Endpoint
  <2>3. Kept(id, dair[id], down, dair'[id], down')
    BY <1>1, <2>1, SameIsKept
  <2> QED
    BY <1>1, <1>10, <1>11, <2>1, <2>2, <2>3, UpUntouched DEF e
<1>15. UpLink(id)'
  BY <1>1, <1>12, <1>13, <1>14
<1> QED
  BY <1>9, <1>15 DEF UpInv

LEMMA DownUp ==
  ASSUME TableInv, UpInv, NEW id \in Ids, SendBlData(id) \/ OnTle(id)
  PROVE  UpInv'
<1>1. /\ HandsDown(id, Ep(endpoints, id))
      /\ UNCHANGED <<accepted, uair, dair, ms>>
  BY SendEffect, TleEffect DEF TableInv
<1>2. PICK p \in LlcPdu, f \in Endpoint :
        /\ Updated(endpoints, endpoints', id, f) /\ f.nr = Ep(endpoints, id).nr
        /\ MayPost(down, down', id, p)
        /\ p.type \in UpAcks => p.nr = Ep(endpoints, id).nr
  BY <1>1 DEF HandsDown
<1>3. down \in Seq(Request) /\ dair \in [Ids -> Seq(LlcPdu)]
  BY TypeParts DEF TableInv
<1> SUFFICES ASSUME NEW x \in Ids PROVE UpLink(x)'
  BY DEF UpInv
<1>4. Ep(endpoints', x).nr = Ep(endpoints, x).nr
  BY <1>2 DEF Updated
<1>5. Kept(x, uair[x], NoRequests, uair'[x], NoRequests) /\ UpLink(x) /\ dair[x] \in Seq(LlcPdu)
  BY <1>1, <1>3, SameIsKept DEF UpInv
<1>6. CASE x # id
  <2>1. Kept(x, dair[x], down, dair'[x], down')
    BY <1>1, <1>2, <1>3, <1>5, <1>6, PostChannel
  <2> QED
    BY <1>1, <1>4, <1>5, <2>1, UpUntouched
<1>7. CASE x = id
  <2> DEFINE q == Pdu("UDATA", 0, 0, "none", 0)
  <2>1. q.type \notin DataTypes
    BY DEF Pdu, DataTypes
  <2> HIDE DEF q
  <2>2. q \notin DataOld(UpFcs, ms[x].ns) /\ q \notin DataNew(UpFcs, ms[x].ns)
    BY <2>1 DEF DataOld, DataNew
  <2>3. Grown(x, uair[x], NoRequests, uair'[x], NoRequests, q)
    BY <1>5, KeptIsGrown
  <2>4. Grown(x, dair[x], down, dair'[x], down', p)
    BY <1>1, <1>2, <1>3, <1>5, PostChannel
  <2> QED
    BY <1>1, <1>2, <1>4, <1>5, <1>7, <2>2, <2>3, <2>4, UpStays
<1> QED
  BY <1>6, <1>7

LEMMA MacUp ==
  ASSUME TableInv, UpInv, MacTx
  PROVE  UpInv'
<1> DEFINE m == Head(down)
<1>1. /\ down # <<>> /\ down' = Tail(down)
      /\ dair' = [dair EXCEPT ![m.id] = Append(dair[m.id], m.pdu)]
      /\ UNCHANGED <<endpoints, accepted, uair, ms>>
  BY DEF MacTx
<1>2. down \in Seq(Request) /\ dair \in [Ids -> Seq(LlcPdu)]
  BY TypeParts DEF TableInv
<1>3. m.id \in Ids
  <2>1. m \in Request
    BY <1>1, <1>2, HeadTailProperties
  <2> QED
    BY <2>1 DEF Request
<1> SUFFICES ASSUME NEW x \in Ids PROVE UpLink(x)'
  BY DEF UpInv
<1>4. dair'[x] = IF Head(down).id = x THEN Append(dair[x], Head(down).pdu) ELSE dair[x]
  BY <1>1, <1>2, <1>3
<1>5. dair[x] \in Seq(LlcPdu)
  BY <1>2
<1>6. Kept(x, dair[x], down, dair'[x], down')
  BY <1>1, <1>2, <1>4, <1>5, MoveKeeps
<1>7. Kept(x, uair[x], NoRequests, uair'[x], NoRequests) /\ UpLink(x)
  BY <1>1, SameIsKept DEF UpInv
<1> QED
  BY <1>1, <1>6, <1>7, UpUntouched

LEMMA MsSendUp ==
  ASSUME TableInv, UpInv, NEW id \in Ids, MsSend(id)
  PROVE  UpInv'
<1>1. PICK p \in LlcPdu :
        /\ ~ms[id].aw
        /\ p.type \in DataTypes /\ p.fcs \in UpFcs
        /\ p.ns = ms[id].ns /\ p.body = ms[id].sent + 1
        /\ uair' = [uair EXCEPT ![id] = Append(uair[id], p)]
        /\ ms' \in [Ids -> Station]
        /\ \A x \in Ids \ {id} : ms'[x] = ms[x]
        /\ ms'[id].aw /\ ms'[id].ns = 1 - ms[id].ns /\ ms'[id].sent = ms[id].sent + 1
        /\ ms'[id].last = p /\ ms'[id].nr = ms[id].nr /\ ms'[id].got = ms[id].got
        /\ UNCHANGED <<llcVars, dair>>
  BY MsSendEffect DEF TableInv
<1>2. UNCHANGED <<endpoints, down, accepted, dair>>
  BY <1>1 DEF llcVars
<1>3. uair \in [Ids -> Seq(LlcPdu)] /\ ms \in [Ids -> Station]
  BY TypeParts DEF TableInv
<1>4. uair'[id] = Append(uair[id], p) /\ \A x \in Ids \ {id} : uair'[x] = uair[x]
  BY <1>1, <1>3
<1>5. ASSUME NEW x \in Ids, x # id PROVE UpLink(x)'
  BY <1>1, <1>2, <1>4, <1>5, SameIsKept, UpUntouched DEF UpInv
<1>6. UpLink(id) /\ ms[id].ns \in {0, 1} /\ ms[id].sent \in Nat /\ uair[id] \in Seq(LlcPdu)
  BY <1>3, BoundAssumption DEF UpInv, Station
<1>7. Ep(endpoints, id).nr = ms[id].ns /\ Len(accepted[id]) = ms[id].sent
  BY <1>1, <1>6 DEF UpLink, UpCounts, Counts
<1>8. UpCounts(id)'
  <2>1. ms[id].ns # 1 - ms[id].ns /\ ms[id].sent + 1 > 0 /\ ms[id].sent = (ms[id].sent + 1) - 1
    BY <1>6
  <2> QED
    BY <1>1, <1>2, <1>7, <2>1 DEF UpCounts, Counts
<1>9. UpData(id)'
  <2> DEFINE d == uair[id]
             n == ms[id].ns
             c == ms[id].sent
  <2>1. Grown(id, d, NoRequests, Append(d, p), NoRequests, p)
    BY <1>6, AirGrows
  <2>2. n \in {0, 1} /\ DataChannel(id, d, NoRequests, UpFcs, n, n, c) /\ p.body = c + 1
    BY <1>1, <1>6, <1>7 DEF UpLink, UpData
  <2> HIDE DEF d, n, c
  <2>3. DataChannel(id, Append(d, p), NoRequests, UpFcs, 1 - n, n, c + 1)
    BY <2>1, <2>2, DataSent
  <2> QED
    BY <1>1, <1>2, <1>4, <1>7, <2>3 DEF UpData, d, n, c
<1>10. UpAck(id)'
  <2> DEFINE n == ms[id].ns
  <2>1. n \in {0, 1} /\ AckChannel(id, dair[id], down, UpAcks, n, n, FALSE)
    BY <1>1, <1>6, <1>7 DEF UpLink, UpAck, AckChannel
  <2> HIDE DEF n
  <2>2. AckChannel(id, dair[id], down, UpAcks, 1 - n, n, TRUE)
    BY <2>1, AckSent
  <2>3. AckChannel(id, dair[id], down, UpAcks, 1 - n, n, ms'[id].aw)
    BY <1>1, <2>2 DEF AckChannel
  <2> QED
    BY <1>1, <1>2, <1>7, <2>3 DEF UpAck, n
<1>11. UpLast(id)'
  <2>1. ms[id].ns # 1 - ms[id].ns
    BY <1>6
  <2> QED
    BY <1>1, <2>1 DEF UpLast, DataNew
<1> QED
  BY <1>5, <1>8, <1>9, <1>10, <1>11 DEF UpInv, UpLink

(* A repeated SDU, or a frame outside the link.                            *)
LEMMA MsMoreUp ==
  ASSUME TableInv, UpInv, NEW id \in Ids, MsRetransmit(id) \/ MsOther(id) \/ MsReAck(id)
  PROVE  UpInv'
<1>1. uair \in [Ids -> Seq(LlcPdu)] /\ ms \in [Ids -> Station]
  BY TypeParts DEF TableInv
<1>2. PICK p \in LlcPdu :
        /\ uair' = [uair EXCEPT ![id] = Append(uair[id], p)]
        /\ p \notin DataOld(UpFcs, ms[id].ns)
        /\ p \in DataNew(UpFcs, ms[id].ns) => p.body = ms[id].sent
        /\ UNCHANGED <<llcVars, dair, ms>>
  <2>1. CASE MsRetransmit(id)
    <3>1. /\ uair' = [uair EXCEPT ![id] = Append(uair[id], ms[id].last)]
          /\ ms[id].aw /\ UNCHANGED <<llcVars, dair, ms>>
      BY <2>1 DEF MsRetransmit, UplinkSend
    <3>2. ms[id].last \in DataNew(UpFcs, ms[id].ns) /\ ms[id].last.body = ms[id].sent
      BY <3>1 DEF UpInv, UpLink, UpLast
    <3>3. ms[id].last \in LlcPdu /\ ms[id].last \notin DataOld(UpFcs, ms[id].ns)
      BY <3>2 DEF DataNew, DataOld
    <3> QED
      BY <3>1, <3>2, <3>3
  <2>2. CASE MsOther(id)
    <3>1. PICK type \in OtherTypes :
            uair' = [uair EXCEPT ![id] = Append(uair[id], Pdu(type, 0, 0, "none", 0))]
      BY <2>2 DEF MsOther, UplinkSend
    <3> DEFINE q == Pdu(type, 0, 0, "none", 0)
    <3>2. q \in LlcPdu /\ q.type \notin DataTypes
      BY PeerAssumption DEF Pdu, LlcPdu, LlcPduType, DataTypes
    <3>3. q \notin DataOld(UpFcs, ms[id].ns) /\ q \notin DataNew(UpFcs, ms[id].ns)
      BY <3>2 DEF DataOld, DataNew
    <3> QED
      BY <2>2, <3>1, <3>2, <3>3 DEF MsOther
  <2>3. CASE MsReAck(id)
    <3> DEFINE q == BlAck(ms[id].nr)
    <3>1. uair' = [uair EXCEPT ![id] = Append(uair[id], q)] /\ UNCHANGED <<llcVars, dair, ms>>
      BY <2>3 DEF MsReAck, UplinkSend
    <3>2. q \in LlcPdu /\ q.type \notin DataTypes
      <4>1. ms[id].nr \in {0, 1}
        BY <1>1 DEF Station
      <4> QED
        BY <4>1, AckTyped DEF DataTypes
    <3> HIDE DEF q
    <3>3. q \notin DataOld(UpFcs, ms[id].ns) /\ q \notin DataNew(UpFcs, ms[id].ns)
      BY <3>2 DEF DataOld, DataNew
    <3> QED
      BY <3>1, <3>2, <3>3
  <2> QED
    BY <2>1, <2>2, <2>3
<1>3. UNCHANGED <<endpoints, down, accepted, dair, ms>>
  BY <1>2 DEF llcVars
<1>4. uair'[id] = Append(uair[id], p) /\ \A x \in Ids \ {id} : uair'[x] = uair[x]
  BY <1>1, <1>2
<1>5. ASSUME NEW x \in Ids, x # id PROVE UpLink(x)'
  BY <1>3, <1>4, <1>5, SameIsKept, UpUntouched DEF UpInv
<1>6. UpLink(id)'
  <2> DEFINE q == Pdu("UDATA", 0, 0, "none", 0)
  <2>1. q.type \notin UpAcks
    BY DEF Pdu, UpAcks
  <2> HIDE DEF q
  <2>2. Grown(id, dair[id], down, dair'[id], down', q)
    BY <1>3, SameIsKept, KeptIsGrown
  <2>3. uair[id] \in Seq(LlcPdu) /\ UpLink(id)
    BY <1>1 DEF UpInv
  <2>4. Grown(id, uair[id], NoRequests, uair'[id], NoRequests, p)
    BY <1>4, <2>3, AirGrows
  <2> QED
    BY <1>2, <1>3, <2>1, <2>2, <2>3, <2>4, UpStays
<1> QED
  BY <1>5, <1>6 DEF UpInv

LEMMA MsRxUp ==
  ASSUME TableInv, UpInv, NEW id \in Ids, MsRx(id)
  PROVE  UpInv'
<1> DEFINE p == Head(dair[id])
           acks == p.type \in UpAcks /\ p.nr = ms[id].ns
<1>1. /\ dair[id] # <<>> /\ dair' = [dair EXCEPT ![id] = Tail(dair[id])]
      /\ ms' \in [Ids -> Station]
      /\ \A x \in Ids \ {id} : ms'[x] = ms[x]
      /\ ms'[id].ns = ms[id].ns /\ ms'[id].sent = ms[id].sent /\ ms'[id].last = ms[id].last
      /\ ms'[id].aw <=> ms[id].aw /\ ~acks
      /\ \/ uair' = uair
         \/ uair' = [uair EXCEPT ![id] = Append(uair[id], BlAck(ms'[id].nr))]
      /\ UNCHANGED <<endpoints, down, accepted>>
  BY MsRxEffect DEF TableInv, llcVars
<1>2. uair \in [Ids -> Seq(LlcPdu)] /\ dair \in [Ids -> Seq(LlcPdu)] /\ down \in Seq(Request)
  BY TypeParts DEF TableInv
<1>3. /\ dair'[id] = Tail(dair[id]) /\ dair[id] \in Seq(LlcPdu) /\ uair[id] \in Seq(LlcPdu)
      /\ \A x \in Ids \ {id} : dair'[x] = dair[x] /\ uair'[x] = uair[x]
      /\ uair'[id] = uair[id] \/ uair'[id] = Append(uair[id], BlAck(ms'[id].nr))
  BY <1>1, <1>2
<1>4. ASSUME NEW x \in Ids, x # id PROVE UpLink(x)'
  BY <1>1, <1>3, <1>4, SameIsKept, UpUntouched DEF UpInv
<1>5. UpLink(id)
  BY DEF UpInv
<1> HIDE DEF p, acks
<1>6. UpData(id)'
  <2> DEFINE b == BlAck(ms'[id].nr)
  <2>1. ms'[id].nr \in {0, 1}
    BY <1>1 DEF Station
  <2>2. b \in LlcPdu /\ b.type \notin DataTypes
    BY <2>1, AckTyped DEF DataTypes
  <2>3. uair'[id] = uair[id] \/ uair'[id] = Append(uair[id], b)
    BY <1>3
  <2> HIDE DEF b
  <2>4. b \notin DataOld(UpFcs, ms[id].ns) /\ b \notin DataNew(UpFcs, ms[id].ns)
    BY <2>2 DEF DataOld, DataNew
  <2>5. Grown(id, uair[id], NoRequests, uair'[id], NoRequests, b)
    BY <1>3, <2>2, <2>3, AirGrows, SameIsKept, KeptIsGrown
  <2>6. DataChannel(id, uair'[id], NoRequests, UpFcs, ms[id].ns, Ep(endpoints, id).nr, ms[id].sent)
    BY <1>5, <2>4, <2>5, DataRepeated DEF UpLink, UpData
  <2> QED
    BY <1>1, <2>6 DEF UpData
<1>7. Kept(id, dair[id], down, dair'[id], down')
  BY <1>1, <1>2, <1>3, PopKeeps
<1>8. CASE ~acks
  <2>1. ms'[id].aw <=> ms[id].aw
    BY <1>1, <1>8
  <2>2. AckChannel(id, dair'[id], down', UpAcks, ms[id].ns, Ep(endpoints, id).nr, ms[id].aw)
    BY <1>5, <1>7, AckKept DEF UpLink, UpAck
  <2>3. UpAck(id)'
    BY <1>1, <2>1, <2>2 DEF UpAck, AckChannel
  <2>4. UpCounts(id)' /\ UpLast(id)'
    BY <1>1, <1>5, <2>1 DEF UpLink, UpCounts, Counts, UpLast
  <2> QED
    BY <1>4, <1>6, <2>3, <2>4 DEF UpInv, UpLink
<1>9. CASE acks
  <2> DEFINE d == dair[id]
             n == ms[id].ns
             w == ms[id].aw
             r == Ep(endpoints, id).nr
  <2>1. /\ d \in Seq(LlcPdu) /\ d # <<>> /\ down \in Seq(Request)
        /\ AckChannel(id, d, down, UpAcks, n, r, w) /\ Head(d).type \in UpAcks /\ Head(d).nr = n
    BY <1>1, <1>2, <1>3, <1>5, <1>9 DEF UpLink, UpAck, acks, p
  <2> HIDE DEF d, n, w, r
  <2>2. Ends(id, d, down, UpAcks, n, r)
    BY <2>1, AckEnds
  <2>3. r = n /\ AckChannel(id, Tail(d), down, UpAcks, n, r, FALSE) /\ ~ms'[id].aw
    BY <1>1, <1>9, <2>2 DEF Ends
  <2>4. UpAck(id)'
    BY <1>1, <1>3, <2>3 DEF UpAck, AckChannel, d, n, r
  <2>5. UpCounts(id)' /\ UpLast(id)'
    BY <1>1, <1>5, <2>3 DEF UpLink, UpCounts, Counts, UpLast, n, r
  <2> QED
    BY <1>4, <1>6, <2>4, <2>5 DEF UpInv, UpLink
<1> QED
  BY <1>8, <1>9

LEMMA LoseUp ==
  ASSUME TableInv, UpInv, NEW id \in Ids, Lose(id)
  PROVE  UpInv'
<1>1. uair \in [Ids -> Seq(LlcPdu)] /\ dair \in [Ids -> Seq(LlcPdu)] /\ down \in Seq(Request)
  BY TypeParts DEF TableInv
<1>2. UNCHANGED <<endpoints, down, accepted, ms>>
  BY LoseEffect DEF TableInv, llcVars
<1>3. CASE uair[id] # <<>> /\ uair' = [uair EXCEPT ![id] = Tail(uair[id])] /\ UNCHANGED dair
  <2> SUFFICES ASSUME NEW x \in Ids PROVE UpLink(x)'
    BY DEF UpInv
  <2>1. NoRequests \in Seq(Request)
    BY DEF NoRequests
  <2>2. Kept(x, uair[x], NoRequests, uair'[x], NoRequests)
    BY <1>1, <1>3, <2>1, PopKeeps, SameIsKept
  <2> QED
    BY <1>2, <1>3, <2>2, SameIsKept, UpUntouched DEF UpInv
<1>4. CASE dair[id] # <<>> /\ dair' = [dair EXCEPT ![id] = Tail(dair[id])] /\ UNCHANGED uair
  <2> SUFFICES ASSUME NEW x \in Ids PROVE UpLink(x)'
    BY DEF UpInv
  <2>1. Kept(x, dair[x], down, dair'[x], down')
    BY <1>1, <1>2, <1>4, PopKeeps, SameIsKept
  <2> QED
    BY <1>2, <1>4, <2>1, SameIsKept, UpUntouched DEF UpInv
<1>5. ASSUME uair[id] # <<>>, UNCHANGED dair, NEW p \in LlcPdu, p.fcs = "bad",
             uair' = [uair EXCEPT ![id] = [uair[id] EXCEPT ![1] = p]]
      PROVE  UpInv'
  <2> DEFINE d == uair[id]
             e == [d EXCEPT ![1] = p]
  <2>1. p \notin DataNew(UpFcs, ms[id].ns) /\ p \notin DataOld(UpFcs, ms[id].ns)
    BY <1>5 DEF DataNew, DataOld, UpFcs
  <2>2. d \in Seq(LlcPdu) /\ d # <<>> /\ uair'[id] = e /\ \A x \in Ids \ {id} : uair'[x] = uair[x]
    BY <1>1, <1>5
  <2>3. /\ \A S : Clear(id, d, NoRequests, S) /\ p \notin S => Clear(id, e, NoRequests, S)
        /\ \A O, N : InOrder(id, d, NoRequests, O, N) /\ p \notin N => InOrder(id, e, NoRequests, O, N)
    BY <2>2, DamageKeeps
  <2>4. UpData(id) /\ UpLink(id)
    BY DEF UpInv, UpLink
  <2> HIDE DEF d, e
  <2>5. DataChannel(id, e, NoRequests, UpFcs, ms[id].ns, Ep(endpoints, id).nr, ms[id].sent)
    BY <2>1, <2>3, <2>4 DEF UpData, DataChannel, d
  <2>6. UpLink(id)'
    BY <1>2, <1>5, <2>2, <2>4, <2>5 DEF UpLink, UpCounts, UpData, UpAck, UpLast
  <2>7. ASSUME NEW x \in Ids, x # id PROVE UpLink(x)'
    BY <1>2, <1>5, <2>2, <2>7, SameIsKept, UpUntouched DEF UpInv
  <2> QED
    BY <2>6, <2>7 DEF UpInv
<1> QED
  BY <1>3, <1>4, <1>5, LoseEffect DEF TableInv

LEMMA NextUp == TableInv /\ UpInv /\ [Next]_vars => UpInv'
<1> SUFFICES ASSUME TableInv, UpInv, [Next]_vars PROVE UpInv'
  OBVIOUS
<1>1. ASSUME UNCHANGED <<endpoints, down, accepted, uair, dair, ms>> PROVE UpInv'
  BY <1>1, SameIsKept, UpUntouched DEF UpInv
<1>2. CASE UpperTake \/ UNCHANGED vars
  BY <1>1, <1>2 DEF UpperTake, vars, llcVars
<1> QED
  BY <1>2, RxUp, DownUp, MacUp, MsSendUp, MsMoreUp, MsRxUp, LoseUp DEF Next

LEMMA InitUp == Init => UpInv
<1> SUFFICES ASSUME Init, NEW id \in Ids PROVE UpLink(id)
  BY DEF UpInv
<1>1. Ep(endpoints, id) = FreshEndpoint(id)
  <2>1. \A s \in Slot : ~Holds(endpoints, s, id)
    BY DEF Init, Holds
  <2> QED
    BY <2>1, EpIsFresh
<1>2. /\ ms[id].ns = 0 /\ ~ms[id].aw /\ ms[id].sent = 0 /\ Ep(endpoints, id).nr = 0
      /\ uair[id] = <<>> /\ dair[id] = <<>> /\ down = <<>> /\ Len(accepted[id]) = 0
  BY <1>1 DEF Init, FreshEndpoint
<1>3. UpCounts(id) /\ UpLast(id)
  BY <1>2 DEF UpCounts, Counts, UpLast
<1>4. \A S : Clear(id, <<>>, <<>>, S)
  BY DEF Clear
<1>5. \A O, N : InOrder(id, <<>>, <<>>, O, N)
  BY DEF InOrder
<1>6. UpData(id)
  BY <1>2, <1>4, <1>5 DEF UpData, DataChannel, NoRequests
<1>7. UpAck(id)
  BY <1>2, <1>4, <1>5 DEF UpAck, AckChannel
<1> QED
  BY <1>3, <1>6, <1>7 DEF UpLink

-----------------------------------------------------------------------------
(* The uplink implements LlcLinkSpec: SDUs are sent by MsSend, accepted by *)
(* RxInSequence, acknowledged by MsRx; every other step stutters.          *)

UpSent == [id \in Ids |-> ms[id].sent]
UpAcked == [id \in Ids |-> IF ms[id].aw THEN ms[id].sent - 1 ELSE ms[id].sent]

LEMMA UpStep ==
  ASSUME TableInv, UpInv, TableInv', [Next]_vars
  PROVE  [Uplink!Next]_(Uplink!linkVars)
<1>0. /\ ms \in [Ids -> Station] /\ accepted \in [Ids -> Seq(Nat)]
      /\ uair \in [Ids -> Seq(LlcPdu)] /\ dair \in [Ids -> Seq(LlcPdu)] /\ down \in Seq(Request)
  BY TypeParts DEF TableInv
<1>1. ASSUME UpSent' = UpSent, UpAcked' = UpAcked, accepted' = accepted
      PROVE  UNCHANGED Uplink!linkVars
  BY <1>1 DEF Uplink!linkVars, UpSent, UpAcked
<1>2. ASSUME UNCHANGED <<accepted, ms>> PROVE UNCHANGED Uplink!linkVars
  BY <1>1, <1>2 DEF UpSent, UpAcked
<1>3. ASSUME NEW id \in Ids, RxInd(id)
      PROVE  Uplink!Accept(id) \/ UNCHANGED Uplink!linkVars
  <2> DEFINE p == Head(uair[id])
             e == Ep(endpoints, id)
  <2>1. /\ uair[id] # <<>> /\ UNCHANGED ms
        /\ RxTakes(id, p, e) \/ RxStays(id, e) \/ RxEnds(id, p, e)
    BY <1>3, RxEffect DEF TableInv
  <2>2. CASE RxStays(id, e) \/ RxEnds(id, p, e)
    BY <1>2, <2>1, <2>2 DEF RxStays, RxEnds
  <2>3. CASE RxTakes(id, p, e)
    <3>1. /\ p.type \in DataTypes /\ p.fcs # "bad" /\ p.ns = e.nr
          /\ accepted' = [accepted EXCEPT ![id] = Append(accepted[id], p.body)]
      BY <2>3 DEF RxTakes
    <3>2. p \in LlcPdu
      BY <1>0, <2>1, HeadTailProperties
    <3>3. p.fcs \in UpFcs
      BY <3>1, <3>2 DEF LlcPdu, UpFcs
    <3> DEFINE d == uair[id]
               n == ms[id].ns
               r == e.nr
               c == ms[id].sent
    <3>4. e \in Endpoint
      BY EpTyped DEF TableInv
    <3>5. /\ d \in Seq(LlcPdu) /\ d # <<>> /\ NoRequests \in Seq(Request)
          /\ n \in {0, 1} /\ r \in {0, 1}
          /\ DataChannel(id, d, NoRequests, UpFcs, n, r, c)
          /\ Head(d).type \in DataTypes /\ Head(d).fcs \in UpFcs /\ Head(d).ns = r
      <4>1. DataChannel(id, d, NoRequests, UpFcs, n, r, c)
        BY DEF UpInv, UpLink, UpData
      <4>2. n \in {0, 1} /\ r \in {0, 1}
        BY <1>0, <3>4 DEF Station, Endpoint
      <4> QED
        BY <1>0, <2>1, <3>1, <3>3, <4>1, <4>2 DEF NoRequests
    <3> HIDE DEF d, n, r, c
    <3>6. Takes(id, d, NoRequests, UpFcs, n, r, c)
      BY <3>5, DataTaken
    <3>7. p.body = ms[id].sent /\ e.nr # ms[id].ns
      BY <3>6 DEF Takes, d, n, r, c
    <3>8. Len(accepted[id]) = ms[id].sent - 1 /\ ms[id].sent \in Nat /\ ms[id].sent > 0
      BY <1>0, <3>7, BoundAssumption DEF UpInv, UpLink, UpCounts, Counts, Station
    <3>9. /\ Len(accepted[id]) < UpSent[id]
          /\ accepted' = [accepted EXCEPT ![id] = Append(accepted[id], Len(accepted[id]) + 1)]
          /\ UpSent' = UpSent /\ UpAcked' = UpAcked
      <4>1. UpSent' = UpSent /\ UpAcked' = UpAcked
        BY <2>1 DEF UpSent, UpAcked
      <4>2. UpSent[id] = ms[id].sent
        BY DEF UpSent
      <4>3. p.body = Len(accepted[id]) + 1
        <5> HIDE DEF p, e
        <5> QED
          BY <1>0, <3>7, <3>8
      <4>4. Len(accepted[id]) < UpSent[id]
        BY <1>0, <3>8, <4>2
      <4> QED
        BY <3>1, <4>1, <4>3, <4>4
    <3>10. Uplink!Accept(id)
      BY <3>9 DEF Uplink!Accept, UpSent, UpAcked
    <3> QED
      BY <3>10
  <2> QED
    BY <2>1, <2>2, <2>3
<1>4. ASSUME NEW id \in Ids, MsSend(id)
      PROVE  Uplink!Send(id)
  <2>1. /\ ~ms[id].aw /\ ms' \in [Ids -> Station]
        /\ \A x \in Ids \ {id} : ms'[x] = ms[x]
        /\ ms'[id].aw /\ ms'[id].sent = ms[id].sent + 1
        /\ accepted' = accepted
    BY <1>4, MsSendEffect DEF TableInv, llcVars
  <2>2. ms[id].sent \in Nat
    BY <1>0, BoundAssumption DEF Station
  <2>3. UpSent' = [UpSent EXCEPT ![id] = UpSent[id] + 1]
    BY <2>1 DEF UpSent
  <2>4. UpAcked' = UpAcked
    BY <2>1, <2>2 DEF UpAcked
  <2>5. UpAcked[id] = UpSent[id]
    BY <2>1 DEF UpSent, UpAcked
  <2> QED
    BY <2>1, <2>3, <2>4, <2>5 DEF Uplink!Send, UpSent, UpAcked
<1>5. ASSUME NEW id \in Ids, MsRx(id)
      PROVE  Uplink!Acknowledge(id) \/ UNCHANGED Uplink!linkVars
  <2> DEFINE p == Head(dair[id])
             acks == p.type \in UpAcks /\ p.nr = ms[id].ns
  <2>1. /\ dair[id] # <<>> /\ ms' \in [Ids -> Station]
        /\ \A x \in Ids \ {id} : ms'[x] = ms[x]
        /\ ms'[id].sent = ms[id].sent
        /\ ms'[id].aw <=> ms[id].aw /\ ~acks
        /\ accepted' = accepted
    BY <1>5, MsRxEffect DEF TableInv, llcVars
  <2>2. UpSent' = UpSent
    BY <2>1 DEF UpSent
  <2>3. CASE ~(acks /\ ms[id].aw)
    <3>1. ms'[id].aw <=> ms[id].aw
      BY <2>1, <2>3
    <3>2. UpAcked' = UpAcked
      BY <2>1, <3>1 DEF UpAcked
    <3> QED
      BY <1>1, <2>1, <2>2, <3>2
  <2>4. CASE acks /\ ms[id].aw
    <3> DEFINE d == dair[id]
               n == ms[id].ns
               w == ms[id].aw
               r == Ep(endpoints, id).nr
    <3>1. /\ d \in Seq(LlcPdu) /\ d # <<>> /\ down \in Seq(Request)
          /\ AckChannel(id, d, down, UpAcks, n, r, w) /\ Head(d).type \in UpAcks /\ Head(d).nr = n
      BY <1>0, <2>1, <2>4 DEF UpInv, UpLink, UpAck
    <3> HIDE DEF d, n, w, r
    <3>2. Ends(id, d, down, UpAcks, n, r)
      BY <3>1, AckEnds
    <3>3. Ep(endpoints, id).nr = ms[id].ns
      BY <3>2 DEF Ends, n, r
    <3>4. Len(accepted[id]) = ms[id].sent /\ ms[id].sent \in Nat
      BY <1>0, <3>3, BoundAssumption DEF UpInv, UpLink, UpCounts, Counts, Station
    <3>5. ~ms'[id].aw
      BY <2>1, <2>4
    <3>6. UpAcked' = [UpAcked EXCEPT ![id] = UpAcked[id] + 1] /\ UpAcked[id] < Len(accepted[id])
      <4>1. UpAcked[id] = ms[id].sent - 1
        BY <2>4 DEF UpAcked
      <4>2. UpAcked'[id] = ms[id].sent
        BY <2>1, <3>5 DEF UpAcked
      <4>3. UpAcked'[id] = UpAcked[id] + 1 /\ UpAcked[id] < Len(accepted[id])
        BY <3>4, <4>1, <4>2
      <4>4. \A x \in Ids \ {id} : UpAcked'[x] = UpAcked[x]
        BY <2>1 DEF UpAcked
      <4>5. UpAcked' = [UpAcked EXCEPT ![id] = UpAcked'[id]]
        BY <4>4 DEF UpAcked
      <4> QED
        BY <4>3, <4>5
    <3>7. Uplink!Acknowledge(id)
      BY <2>1, <2>2, <3>6 DEF Uplink!Acknowledge, UpSent, UpAcked
    <3> QED
      BY <3>7
  <2> QED
    BY <2>3, <2>4
<1>6. ASSUME NEW id \in Ids, SendBlData(id) \/ OnTle(id) PROVE UNCHANGED Uplink!linkVars
  <2>1. UNCHANGED <<accepted, ms>>
    BY <1>6, SendEffect, TleEffect DEF TableInv
  <2> QED
    BY <1>2, <2>1
<1>7. ASSUME NEW id \in Ids, MsRetransmit(id) \/ MsOther(id) \/ MsReAck(id) \/ Lose(id)
      PROVE  UNCHANGED Uplink!linkVars
  BY <1>2, <1>7 DEF MsRetransmit, MsOther, MsReAck, Lose, llcVars
<1>8. CASE MacTx \/ UpperTake \/ UNCHANGED vars
  BY <1>2, <1>8 DEF MacTx, UpperTake, vars, llcVars
<1> QED
  BY <1>3, <1>4, <1>5, <1>6, <1>7, <1>8 DEF Next, Uplink!Next

(* For every number of links and every capacity, whatever frames the radio *)
(* loses or damages, the mobile stations repeat and the upper layers send: *)
(* the receive side of llc_handle_tma_unitdata_ind takes every SDU once    *)
(* and in order, and no BL-ACK ends a wait too early.                      *)
THEOREM UplinkKeepsPromise == Spec => UplinkImplements
<1>1. Init => Uplink!Init
  <2> SUFFICES ASSUME Init PROVE Uplink!Init
    OBVIOUS
  <2>1. \A id \in Ids : ms[id].sent = 0 /\ ms[id].aw = FALSE
    BY DEF Init
  <2> QED
    BY <2>1 DEF Init, Uplink!Init
<1>2. TableInv /\ UpInv /\ TableInv' /\ [Next]_vars => [Uplink!Next]_(Uplink!linkVars)
  BY UpStep
<1> QED
  BY <1>1, <1>2, InitTable, NextTable, InitUp, NextUp, PTL DEF Spec, UplinkImplements, Uplink!Spec

-----------------------------------------------------------------------------
(* The downlink.  DownLink says of a link on which nothing was sent over   *)
(* an unacknowledged SDU that sender and receiver are level or one SDU     *)
(* apart, and where old and new data and acknowledgements are on the way.  *)
(* Every step keeps it, whichever of the two senders takes it, unless the  *)
(* step is the overlap.                                                    *)

(* A step that neither sends nor takes an SDU of link x nor ends a wait.   *)
LEMMA DownStays ==
  ASSUME NEW x \in Ids, DownLink(x), ms'[x].nr = ms[x].nr, ms'[x].got = ms[x].got,
         given'[x] = given[x],
         Ep(endpoints', x).ns = Ep(endpoints, x).ns, Ep(endpoints', x).aw = Ep(endpoints, x).aw,
         NEW p, Grown(x, dair[x], down, dair'[x], down', p), p.type \notin DataTypes,
         NEW a, Grown(x, uair[x], NoRequests, uair'[x], NoRequests, a),
         a.type \in DownAcks => a.nr = ms[x].nr
  PROVE  DownLink(x)'
<1>1. DownCounts(x)'
  BY DEF DownLink, DownCounts
<1>2. DownData(x)'
  <2>1. p \notin DataOld(DownFcs, Ep(endpoints, x).ns) /\ p \notin DataNew(DownFcs, Ep(endpoints, x).ns)
    BY DEF DataOld, DataNew
  <2> QED
    BY <2>1, DataRepeated DEF DownLink, DownData
<1>3. DownAck(x)'
  <2>1. ~Ep(endpoints, x).aw => ms[x].nr = Ep(endpoints, x).ns
    BY DEF DownLink, DownCounts, Counts
  <2> QED
    BY <2>1, AckRepeated DEF DownLink, DownAck
<1> QED
  BY <1>1, <1>2, <1>3 DEF DownLink

LEMMA QuietFrame ==
  \E p : p \in LlcPdu /\ p.type \notin DataTypes /\ p.type \notin DownAcks
<1> DEFINE p == Pdu("UDATA", 0, 0, "none", 0)
<1>1. p \in LlcPdu /\ p.type = "UDATA"
  BY DEF Pdu, LlcPdu, LlcPduType
<1>2. p.type \notin DataTypes /\ p.type \notin DownAcks
  BY <1>1 DEF DataTypes, DownAcks
<1> HIDE DEF p
<1> QED
  BY <1>1, <1>2

(* The channels of the links a step does not touch.                        *)
LEMMA DownUntouched ==
  ASSUME NEW x \in Ids, DownLink(x), ms'[x].nr = ms[x].nr, ms'[x].got = ms[x].got,
         given'[x] = given[x],
         Ep(endpoints', x).ns = Ep(endpoints, x).ns, Ep(endpoints', x).aw = Ep(endpoints, x).aw,
         Kept(x, dair[x], down, dair'[x], down'), Kept(x, uair[x], NoRequests, uair'[x], NoRequests)
  PROVE  DownLink(x)'
<1>1. PICK p : p.type \notin DataTypes /\ p.type \notin DownAcks
  BY QuietFrame
<1>2. Grown(x, uair[x], NoRequests, uair'[x], NoRequests, p) /\ Grown(x, dair[x], down, dair'[x], down', p)
  BY KeptIsGrown
<1> QED
  BY <1>1, <1>2, DownStays

LEMMA RxDown ==
  ASSUME TableInv, NEW id \in Ids, RxInd(id), NEW x \in Ids, DownLink(x)
  PROVE  DownLink(x)'
<1> DEFINE p == Head(uair[id])
           e == Ep(endpoints, id)
<1>1. /\ uair[id] # <<>> /\ uair' = [uair EXCEPT ![id] = Tail(uair[id])]
      /\ UNCHANGED <<given, overlap, dair, ms>>
      /\ RxTakes(id, p, e) \/ RxStays(id, e) \/ RxEnds(id, p, e)
  BY RxEffect DEF TableInv
<1>2. /\ uair \in [Ids -> Seq(LlcPdu)] /\ down \in Seq(Request) /\ dair \in [Ids -> Seq(LlcPdu)]
      /\ NoRequests \in Seq(Request)
  BY TypeParts DEF TableInv, NoRequests
<1>3. e \in Endpoint
  BY EpTyped DEF TableInv
<1>4. uair'[id] = Tail(uair[id]) /\ \A y \in Ids \ {id} : uair'[y] = uair[y]
  BY <1>1, <1>2
<1>5. PICK a \in LlcPdu : MayPost(down, down', id, a) /\ a.type \notin DataTypes
  <2>1. e.nr \in {0, 1} /\ 1 - e.nr \in {0, 1}
    BY <1>3 DEF Endpoint
  <2>2. BlAck(e.nr) \in LlcPdu /\ BlAck(e.nr).type \notin DataTypes
    BY <2>1, AckTyped DEF DataTypes
  <2>3. BlAck(1 - e.nr) \in LlcPdu /\ BlAck(1 - e.nr).type \notin DataTypes
    BY <2>1, AckTyped DEF DataTypes
  <2> QED
    BY <1>1, <2>2, <2>3 DEF RxTakes, RxStays, RxEnds, MayPost
<1> HIDE DEF p, e
<1>6. /\ uair[x] \in Seq(LlcPdu) /\ dair[x] \in Seq(LlcPdu)
      /\ Kept(x, uair[x], NoRequests, uair'[x], NoRequests)
      /\ Grown(x, dair[x], down, dair'[x], down', a)
  <2>1. uair[x] \in Seq(LlcPdu) /\ dair[x] \in Seq(LlcPdu)
    BY <1>2
  <2>2. Kept(x, uair[x], NoRequests, uair'[x], NoRequests)
    BY <1>1, <1>2, <1>4, <2>1, PopKeeps, SameIsKept
  <2>3. Grown(x, dair[x], down, dair'[x], down', a)
    BY <1>1, <1>2, <1>5, <2>1, PostChannel
  <2> QED
    BY <2>1, <2>2, <2>3
<1>7. ASSUME Ep(endpoints', x).ns = Ep(endpoints, x).ns, Ep(endpoints', x).aw = Ep(endpoints, x).aw
      PROVE  DownLink(x)'
  <2>1. PICK b : b.type \notin DownAcks
    BY QuietFrame
  <2>2. Grown(x, uair[x], NoRequests, uair'[x], NoRequests, b)
    BY <1>6, KeptIsGrown
  <2> QED
    BY <1>1, <1>5, <1>6, <1>7, <2>1, <2>2, DownStays
<1>8. CASE x # id
  <2>1. Ep(endpoints', x) = Ep(endpoints, x)
    BY <1>1, <1>8 DEF RxTakes, RxStays, RxEnds, Updated
  <2> QED
    BY <1>7, <2>1
<1>9. ASSUME x = id, RxTakes(id, p, e) PROVE DownLink(x)'
  <2>1. Ep(endpoints', id) = [e EXCEPT !.nr = 1 - e.nr]
    BY <1>9 DEF RxTakes, Updated
  <2>2. Ep(endpoints', id).ns = e.ns
    BY <1>3, <2>1 DEF Endpoint
  <2>3. Ep(endpoints', id).aw = e.aw
    BY <1>3, <2>1 DEF Endpoint
  <2> QED
    BY <1>7, <1>9, <2>2, <2>3 DEF e
<1>10. ASSUME x = id, RxStays(id, e) PROVE DownLink(x)'
  BY <1>7, <1>10 DEF RxStays, Updated, e
<1>11. ASSUME x = id, RxEnds(id, p, e) PROVE DownLink(x)'
  <2>1. p.type = "ACK" /\ p.nr = e.ns /\ Ep(endpoints', id) = [e EXCEPT !.aw = FALSE] /\ down' = down
    BY <1>11 DEF RxEnds, Updated
  <2>2. Ep(endpoints', id).ns = e.ns
    BY <1>3, <2>1 DEF Endpoint
  <2>3. ~Ep(endpoints', id).aw
    BY <1>3, <2>1 DEF Endpoint
  <2> DEFINE d == uair[id]
             n == e.ns
             w == e.aw
             r == ms[id].nr
  <2>4. /\ d \in Seq(LlcPdu) /\ d # <<>> /\ NoRequests \in Seq(Request)
        /\ AckChannel(id, d, NoRequests, DownAcks, n, r, w)
        /\ Head(d).type \in DownAcks /\ Head(d).nr = n
    BY <1>1, <1>2, <1>6, <1>11, <2>1 DEF DownLink, DownAck, DownAcks, p, e
  <2> HIDE DEF d, n, w, r
  <2>5. Ends(id, d, NoRequests, DownAcks, n, r)
    BY <2>4, AckEnds
  <2>6. r = n /\ AckChannel(id, Tail(d), NoRequests, DownAcks, n, r, FALSE)
    BY <2>5 DEF Ends
  <2>7. DownAck(id)'
    BY <1>1, <1>4, <2>2, <2>3, <2>6 DEF DownAck, AckChannel, d, n, r
  <2>8. DownCounts(id)'
    BY <1>1, <1>11, <2>2, <2>3, <2>6 DEF DownLink, DownCounts, Counts, n, r, e
  <2>9. DownData(id)'
    BY <1>1, <1>11, <2>1, <2>2 DEF DownLink, DownData, e
  <2> QED
    BY <1>11, <2>7, <2>8, <2>9 DEF DownLink
<1> QED
  BY <1>1, <1>8, <1>9, <1>10, <1>11

LEMMA SendDown ==
  ASSUME TableInv, NEW id \in Ids, SendBlData(id) \/ OnTle(id),
         NEW x \in Ids, DownLink(x), ~overlap'[x]
  PROVE  DownLink(x)'
<1> DEFINE e == Ep(endpoints, id)
<1>1. /\ Sends(id, e) \/ SendsNoData(id, e)
      /\ UNCHANGED <<uair, dair, ms>>
  BY SendEffect, TleEffect DEF TableInv
<1>2. /\ down \in Seq(Request) /\ dair \in [Ids -> Seq(LlcPdu)] /\ given \in [Ids -> 0 .. MaxDown]
      /\ MaxDown \in Nat /\ ms \in [Ids -> Station]
  BY TypeParts, BoundAssumption DEF TableInv
<1>3. e \in Endpoint
  BY EpTyped DEF TableInv
<1> HIDE DEF e
<1>4. /\ Kept(x, uair[x], NoRequests, uair'[x], NoRequests)
      /\ dair[x] \in Seq(LlcPdu)
  BY <1>1, <1>2, SameIsKept
<1>5. CASE SendsNoData(id, e)
  <2>1. PICK p \in LlcPdu : MayPost(down, down', id, p) /\ p.type \notin DataTypes
    BY <1>5 DEF SendsNoData
  <2>2. Ep(endpoints', x) = Ep(endpoints, x) /\ given' = given
    BY <1>5 DEF SendsNoData, Updated, e
  <2>3. Grown(x, dair[x], down, dair'[x], down', p)
    BY <1>1, <1>2, <1>4, <2>1, PostChannel
  <2>4. PICK b : b.type \notin DownAcks
    BY QuietFrame
  <2>5. Grown(x, uair[x], NoRequests, uair'[x], NoRequests, b)
    BY <1>4, KeptIsGrown
  <2> QED
    BY <1>1, <1>4, <2>1, <2>2, <2>3, <2>4, <2>5, DownStays
<1>6. CASE Sends(id, e)
  <2> DEFINE f == [e EXCEPT !.ns = 1 - e.ns, !.aw = TRUE]
             n == e.ns
             c == given[id]
  <2>1. /\ e.aw => overlap'[id]
        /\ Updated(endpoints, endpoints', id, f) /\ given' = [given EXCEPT ![id] = c + 1]
    BY <1>6 DEF Sends
  <2>2. n \in {0, 1} /\ c \in Nat
    BY <1>2, <1>3 DEF Endpoint
  <2>3. PICK p \in LlcPdu : MayPost(down, down', id, p) /\ p.body = c + 1
    BY <1>6 DEF Sends
  <2>4. f.ns = 1 - n
    BY <1>3 DEF Endpoint
  <2>5. f.aw
    BY <1>3 DEF Endpoint
  <2>6. Ep(endpoints', id) = f /\ \A y \in Ids \ {id} : Ep(endpoints', y) = Ep(endpoints, y)
    BY <2>1 DEF Updated
  <2>7. given'[id] = c + 1 /\ \A y \in Ids \ {id} : given'[y] = given[y]
    BY <1>2, <2>1
  <2> HIDE DEF f
  <2>8. CASE x # id
    <3>1. Kept(x, dair[x], down, dair'[x], down')
      BY <1>1, <1>2, <1>4, <2>3, <2>8, PostChannel
    <3> QED
      BY <1>1, <1>4, <2>6, <2>7, <2>8, <3>1, DownUntouched
  <2>0. SUFFICES ASSUME x = id PROVE DownLink(id)'
    BY <2>8
  <2>9. ~e.aw /\ DownLink(id) /\ ms[id].nr = n /\ Len(ms[id].got) = c
    BY <2>0, <2>1 DEF DownLink, DownCounts, Counts, e
  <2>10. DownCounts(id)'
    <3>1. n # 1 - n /\ c + 1 > 0 /\ c = (c + 1) - 1
      BY <2>2
    <3> QED
      BY <1>1, <2>4, <2>5, <2>6, <2>7, <2>9, <3>1 DEF DownCounts, Counts
  <2>11. DownData(id)'
    <3>1. Grown(id, dair[id], down, dair[id], down', p)
      BY <1>2, <1>4, <2>0, <2>3, PostChannel
    <3>2. DataChannel(id, dair[id], down, DownFcs, n, n, c)
      BY <2>9 DEF DownLink, DownData, e
    <3> HIDE DEF n, c
    <3>3. DataChannel(id, dair[id], down', DownFcs, 1 - n, n, c + 1)
      BY <2>2, <2>3, <3>1, <3>2, DataSent
    <3> QED
      BY <1>1, <2>4, <2>6, <2>7, <2>9, <3>3 DEF DownData
  <2>12. DownAck(id)'
    <3>1. AckChannel(id, uair[id], NoRequests, DownAcks, n, n, FALSE)
      BY <2>9 DEF DownLink, DownAck, AckChannel, e
    <3> HIDE DEF n
    <3>2. AckChannel(id, uair[id], NoRequests, DownAcks, 1 - n, n, TRUE)
      BY <2>2, <3>1, AckSent
    <3>3. AckChannel(id, uair[id], NoRequests, DownAcks, 1 - n, n, f.aw)
      BY <2>5, <3>2 DEF AckChannel
    <3> QED
      BY <1>1, <2>4, <2>6, <2>9, <3>3 DEF DownAck
  <2> QED
    BY <2>10, <2>11, <2>12 DEF DownLink
<1> QED
  BY <1>1, <1>5, <1>6

LEMMA MacDown ==
  ASSUME TableInv, MacTx, NEW x \in Ids, DownLink(x)
  PROVE  DownLink(x)'
<1> DEFINE m == Head(down)
<1>1. /\ down # <<>> /\ down' = Tail(down)
      /\ dair' = [dair EXCEPT ![m.id] = Append(dair[m.id], m.pdu)]
      /\ UNCHANGED <<endpoints, given, uair, ms>>
  BY DEF MacTx
<1>2. down \in Seq(Request) /\ dair \in [Ids -> Seq(LlcPdu)]
  BY TypeParts DEF TableInv
<1>3. m.id \in Ids
  <2>1. m \in Request
    BY <1>1, <1>2, HeadTailProperties
  <2> QED
    BY <2>1 DEF Request
<1>4. dair'[x] = IF Head(down).id = x THEN Append(dair[x], Head(down).pdu) ELSE dair[x]
  BY <1>1, <1>2, <1>3
<1>5. dair[x] \in Seq(LlcPdu)
  BY <1>2
<1>6. Kept(x, dair[x], down, dair'[x], down')
  BY <1>1, <1>2, <1>4, <1>5, MoveKeeps
<1>7. Kept(x, uair[x], NoRequests, uair'[x], NoRequests)
  BY <1>1, SameIsKept
<1> QED
  BY <1>1, <1>6, <1>7, DownUntouched

(* The mobile station sends, repeats or sends something else: if that      *)
(* acknowledges anything, it is what the mobile station has taken.         *)
LEMMA MsSendDown ==
  ASSUME TableInv, UpInv, NEW id \in Ids,
         MsSend(id) \/ MsRetransmit(id) \/ MsOther(id) \/ MsReAck(id),
         NEW x \in Ids, DownLink(x)
  PROVE  DownLink(x)'
<1>1. uair \in [Ids -> Seq(LlcPdu)]
  BY TypeParts DEF TableInv
<1>2. PICK p \in LlcPdu :
        /\ uair' = [uair EXCEPT ![id] = Append(uair[id], p)]
        /\ p.type \in DownAcks => p.nr = ms[id].nr
        /\ \A y \in Ids : ms'[y].nr = ms[y].nr /\ ms'[y].got = ms[y].got
        /\ UNCHANGED <<endpoints, down, given, dair>>
  <2>1. CASE MsSend(id)
    <3>1. PICK p \in LlcPdu :
            /\ p.type \in DataTypes
            /\ uair' = [uair EXCEPT ![id] = Append(uair[id], p)]
            /\ \A y \in Ids \ {id} : ms'[y] = ms[y]
            /\ ms'[id].nr = ms[id].nr /\ ms'[id].got = ms[id].got
            /\ UNCHANGED <<llcVars, dair>>
      BY <2>1, MsSendEffect DEF TableInv
    <3>2. p.type \notin DownAcks
      BY <3>1 DEF DataTypes, DownAcks
    <3> QED
      BY <3>1, <3>2 DEF llcVars
  <2>2. CASE MsRetransmit(id)
    <3>1. /\ uair' = [uair EXCEPT ![id] = Append(uair[id], ms[id].last)]
          /\ ms[id].aw /\ UNCHANGED <<llcVars, dair, ms>>
      BY <2>2 DEF MsRetransmit, UplinkSend
    <3>2. ms[id].last \in LlcPdu /\ ms[id].last.type \in DataTypes
      BY <3>1 DEF UpInv, UpLink, UpLast, DataNew
    <3>3. ms[id].last.type \notin DownAcks
      BY <3>2 DEF DataTypes, DownAcks
    <3> QED
      BY <3>1, <3>2, <3>3 DEF llcVars
  <2>3. CASE MsOther(id)
    <3>1. PICK type \in OtherTypes :
            uair' = [uair EXCEPT ![id] = Append(uair[id], Pdu(type, 0, 0, "none", 0))]
      BY <2>3 DEF MsOther, UplinkSend
    <3> DEFINE q == Pdu(type, 0, 0, "none", 0)
    <3>2. q \in LlcPdu /\ q.type \notin DownAcks
      BY PeerAssumption DEF Pdu, LlcPdu, LlcPduType, DownAcks
    <3> QED
      BY <2>3, <3>1, <3>2 DEF MsOther, llcVars
  <2>4. CASE MsReAck(id)
    <3>1. ms[id].nr \in {0, 1}
      BY TypeParts DEF TableInv, Station
    <3>2. BlAck(ms[id].nr) \in LlcPdu /\ BlAck(ms[id].nr).nr = ms[id].nr
      BY <3>1, AckTyped
    <3> QED
      BY <2>4, <3>2 DEF MsReAck, UplinkSend, llcVars
  <2> QED
    BY <2>1, <2>2, <2>3, <2>4
<1>3. uair'[id] = Append(uair[id], p) /\ \A y \in Ids \ {id} : uair'[y] = uair[y]
  BY <1>1, <1>2
<1>4. uair[x] \in Seq(LlcPdu)
  BY <1>1
<1>5. PICK b : b.type \notin DataTypes /\ b.type \notin DownAcks
  BY QuietFrame
<1>6. Grown(x, dair[x], down, dair'[x], down', b)
  BY <1>2, SameIsKept, KeptIsGrown
<1>7. CASE x = id
  <2>1. Grown(x, uair[x], NoRequests, uair'[x], NoRequests, p)
    BY <1>3, <1>4, <1>7, AirGrows
  <2> QED
    BY <1>2, <1>5, <1>6, <1>7, <2>1, DownStays
<1>8. CASE x # id
  <2>1. Grown(x, uair[x], NoRequests, uair'[x], NoRequests, b)
    BY <1>3, <1>8, SameIsKept, KeptIsGrown
  <2> QED
    BY <1>2, <1>5, <1>6, <2>1, DownStays
<1> QED
  BY <1>7, <1>8

(* What a mobile station receives and answers.                             *)
LEMMA MsRxDown ==
  ASSUME TableInv, NEW id \in Ids, MsRx(id), NEW y \in Ids, DownLink(y)
  PROVE  DownLink(y)'
<1> DEFINE p == Head(dair[id])
           new == p.type \in DataTypes /\ p.ns = ms[id].nr
           b == BlAck(ms'[id].nr)
           e == Ep(endpoints, id)
<1>1. /\ dair[id] # <<>> /\ dair' = [dair EXCEPT ![id] = Tail(dair[id])]
      /\ ms' \in [Ids -> Station]
      /\ \A x \in Ids \ {id} : ms'[x] = ms[x]
      /\ new => ms'[id].nr = 1 - ms[id].nr /\ ms'[id].got = Append(ms[id].got, p.body)
      /\ ~new => ms'[id].nr = ms[id].nr /\ ms'[id].got = ms[id].got
      /\ \/ uair' = uair
         \/ uair' = [uair EXCEPT ![id] = Append(uair[id], b)]
      /\ UNCHANGED <<endpoints, down, given>>
  BY MsRxEffect DEF TableInv, llcVars
<1>2. /\ uair \in [Ids -> Seq(LlcPdu)] /\ dair \in [Ids -> Seq(LlcPdu)] /\ down \in Seq(Request)
      /\ ms \in [Ids -> Station] /\ given \in [Ids -> 0 .. MaxDown] /\ MaxDown \in Nat
  BY TypeParts, BoundAssumption DEF TableInv
<1>3. /\ dair'[id] = Tail(dair[id]) /\ dair[id] \in Seq(LlcPdu) /\ uair[id] \in Seq(LlcPdu)
      /\ \A x \in Ids \ {id} : dair'[x] = dair[x] /\ uair'[x] = uair[x]
      /\ uair'[id] = uair[id] \/ uair'[id] = Append(uair[id], b)
  BY <1>1, <1>2
<1>4. p \in LlcPdu
  BY <1>1, <1>2, HeadTailProperties
<1>5. /\ ms[id].nr \in {0, 1} /\ ms'[id].nr \in {0, 1} /\ ms[id].got \in Seq(Nat) /\ given[id] \in Nat
  BY <1>1, <1>2 DEF Station
<1>6. b \in LlcPdu /\ b.nr = ms'[id].nr
  BY <1>5, AckTyped
<1>7. e \in Endpoint /\ e.ns \in {0, 1}
  <2>1. e \in Endpoint
    BY EpTyped DEF TableInv
  <2> QED
    BY <2>1 DEF Endpoint
<1> HIDE DEF p, b, e
<1>9. CASE y # id
  BY <1>1, <1>3, <1>9, SameIsKept, DownUntouched
<1>8. SUFFICES ASSUME y = id, DownLink(id) PROVE DownLink(id)'
  BY <1>9
<1>10. Grown(id, uair[id], NoRequests, uair'[id], NoRequests, b)
  BY <1>3, <1>6, AirGrows, SameIsKept, KeptIsGrown
<1>11. Kept(id, dair[id], down, dair'[id], down')
  BY <1>1, <1>2, <1>3, PopKeeps
<1>12. CASE ~new
  <2>1. ms'[id].nr = ms[id].nr /\ ms'[id].got = ms[id].got
    BY <1>1, <1>12
  <2>2. DownCounts(id)'
    BY <1>1, <1>8, <2>1 DEF DownLink, DownCounts
  <2>3. DownData(id)'
    BY <1>1, <1>8, <1>11, <2>1, DataKept DEF DownLink, DownData
  <2>4. DownAck(id)'
    <3>1. ~Ep(endpoints, id).aw => ms[id].nr = Ep(endpoints, id).ns
      BY <1>8 DEF DownLink, DownCounts, Counts
    <3> QED
      BY <1>1, <1>6, <1>8, <1>10, <2>1, <3>1, AckRepeated DEF DownLink, DownAck
  <2> QED
    BY <2>2, <2>3, <2>4 DEF DownLink
<1>13. CASE new
  <2> DEFINE d == dair[id]
             n == e.ns
             w == e.aw
             r == ms[id].nr
             c == given[id]
  <2>1. /\ d \in Seq(LlcPdu) /\ d # <<>> /\ n \in {0, 1} /\ r \in {0, 1}
        /\ DataChannel(id, d, down, DownFcs, n, r, c)
        /\ Head(d).type \in DataTypes /\ Head(d).fcs \in DownFcs /\ Head(d).ns = r
    <3>1. DataChannel(id, d, down, DownFcs, n, r, c)
      BY <1>8 DEF DownLink, DownData, e
    <3>2. p.fcs \in DownFcs
      BY <1>4 DEF LlcPdu, DownFcs
    <3> QED
      BY <1>1, <1>3, <1>5, <1>7, <1>13, <3>1, <3>2 DEF p
  <2>2. DownLink(id) /\ Counts(n, w, c, r, Len(ms[id].got)) /\ AckChannel(id, uair[id], NoRequests, DownAcks, n, r, w)
    BY <1>8 DEF DownLink, DownCounts, DownAck, e
  <2> HIDE DEF d, n, w, r, c
  <2>3. Takes(id, d, down, DownFcs, n, r, c)
    BY <1>2, <2>1, DataTaken
  <2>4. r # n /\ DataChannel(id, Tail(d), down, DownFcs, n, n, c)
    BY <2>3 DEF Takes
  <2>5. w /\ c > 0 /\ Len(ms[id].got) = c - 1
    BY <2>2, <2>4 DEF Counts
  <2>6. ms'[id].nr = n
    BY <1>1, <1>13, <2>1, <2>4 DEF r
  <2>7. Len(ms'[id].got) = c
    <3>1. ms'[id].got = Append(ms[id].got, p.body)
      BY <1>1, <1>13
    <3>2. c \in Nat
      BY <1>5 DEF c
    <3> QED
      BY <1>5, <2>5, <3>1, <3>2
  <2>8. DownCounts(id)'
    BY <1>1, <2>5, <2>6, <2>7 DEF DownCounts, Counts, n, w, c, e
  <2>9. DownData(id)'
    BY <1>1, <1>3, <2>4, <2>6 DEF DownData, d, n, c, e
  <2>10. AckChannel(id, uair'[id], NoRequests, DownAcks, n, n, w)
    BY <1>6, <1>10, <2>2, <2>4, <2>5, <2>6, AckTaken
  <2>11. DownAck(id)'
    BY <1>1, <2>6, <2>10 DEF DownAck, n, w, e
  <2> QED
    BY <2>8, <2>9, <2>11 DEF DownLink
<1> QED
  BY <1>12, <1>13

LEMMA LoseDown ==
  ASSUME TableInv, NEW id \in Ids, Lose(id), NEW x \in Ids, DownLink(x)
  PROVE  DownLink(x)'
<1>1. uair \in [Ids -> Seq(LlcPdu)] /\ dair \in [Ids -> Seq(LlcPdu)] /\ down \in Seq(Request)
  BY TypeParts DEF TableInv
<1>2. UNCHANGED <<endpoints, down, given, ms>>
  BY LoseEffect DEF TableInv, llcVars
<1>3. CASE uair[id] # <<>> /\ uair' = [uair EXCEPT ![id] = Tail(uair[id])] /\ UNCHANGED dair
  <2>1. NoRequests \in Seq(Request)
    BY DEF NoRequests
  <2>2. Kept(x, uair[x], NoRequests, uair'[x], NoRequests)
    BY <1>1, <1>3, <2>1, PopKeeps, SameIsKept
  <2> QED
    BY <1>2, <1>3, <2>2, SameIsKept, DownUntouched
<1>4. CASE dair[id] # <<>> /\ dair' = [dair EXCEPT ![id] = Tail(dair[id])] /\ UNCHANGED uair
  <2>1. Kept(x, dair[x], down, dair'[x], down')
    BY <1>1, <1>2, <1>4, PopKeeps, SameIsKept
  <2> QED
    BY <1>2, <1>4, <2>1, SameIsKept, DownUntouched
<1>5. ASSUME uair[id] # <<>>, UNCHANGED dair, NEW p \in LlcPdu,
             p.type = Head(uair[id]).type, p.nr = Head(uair[id]).nr,
             uair' = [uair EXCEPT ![id] = [uair[id] EXCEPT ![1] = p]]
      PROVE  DownLink(x)'
  <2> DEFINE d == uair[id]
             f == [d EXCEPT ![1] = p]
             n == Ep(endpoints, id).ns
  <2>1. d \in Seq(LlcPdu) /\ d # <<>> /\ uair'[id] = f /\ \A y \in Ids \ {id} : uair'[y] = uair[y]
    BY <1>1, <1>5
  <2>2. Head(d) \in LlcPdu
    BY <2>1, HeadTailProperties
  <2>3. /\ p \in AckNew(DownAcks, n) => Head(d) \in AckNew(DownAcks, n)
        /\ p \in AckOld(DownAcks, n) => Head(d) \in AckOld(DownAcks, n)
    BY <1>5, <2>2 DEF AckNew, AckOld
  <2>4. /\ \A S : Clear(id, d, NoRequests, S) /\ (p \in S => Head(d) \in S)
                     => Clear(id, f, NoRequests, S)
        /\ \A O, N : InOrder(id, d, NoRequests, O, N) /\ (p \in N => Head(d) \in N)
                        => InOrder(id, f, NoRequests, O, N)
    <3>1. f = [d EXCEPT ![1] = p]
      OBVIOUS
    <3> HIDE DEF d, f
    <3> QED
      BY <2>1, <3>1, DamageKeeps
  <2> HIDE DEF d, f
  <2>8. CASE x # id
    BY <1>2, <1>5, <2>1, <2>8, SameIsKept, DownUntouched
  <2>5. SUFFICES ASSUME x = id, DownLink(id) PROVE DownLink(id)'
    BY <2>8
  <2>6. AckChannel(id, f, NoRequests, DownAcks, n, ms[id].nr, Ep(endpoints, id).aw)
    BY <2>3, <2>4, <2>5 DEF DownLink, DownAck, AckChannel, d
  <2>7. DownLink(id)'
    BY <1>2, <1>5, <2>1, <2>5, <2>6 DEF DownLink, DownCounts, DownData, DownAck
  <2> QED
    BY <2>7
<1> QED
  BY <1>3, <1>4, <1>5, LoseEffect DEF TableInv

LEMMA NextOverlaps ==
  ASSUME TableInv, Next, NEW x \in Ids, overlap[x]
  PROVE  overlap'[x]
<1>1. ASSUME NEW id \in Ids, SendBlData(id) \/ OnTle(id) PROVE overlap'[x]
  BY <1>1, SendEffect, TleEffect DEF TableInv, Overlaps
<1>2. CASE ~\E id \in Ids : SendBlData(id) \/ OnTle(id)
  BY <1>2 DEF Next, llcVars, MacTx, UpperTake, RxInd, MsSend, MsRetransmit,
              MsOther, MsReAck, MsRx, Lose
<1> QED
  BY <1>1, <1>2

LEMMA NextDown == TableInv /\ UpInv /\ DownInv /\ [Next]_vars => DownInv'
<1> SUFFICES ASSUME TableInv, UpInv, DownInv, [Next]_vars, NEW x \in Ids, ~overlap'[x]
             PROVE  DownLink(x)'
  BY DEF DownInv
<1>4. ~overlap[x] /\ DownLink(x)
  <2>1. CASE Next
    BY <2>1, NextOverlaps DEF DownInv
  <2>2. CASE UNCHANGED vars
    BY <2>2 DEF DownInv, vars, llcVars
  <2> QED
    BY <2>1, <2>2
<1>5. CASE UpperTake \/ UNCHANGED vars
  <2>1. UNCHANGED <<endpoints, down, given, uair, dair, ms>>
    BY <1>5 DEF UpperTake, vars, llcVars
  <2> QED
    BY <1>4, <2>1, SameIsKept, DownUntouched
<1> QED
  BY <1>4, <1>5, RxDown, SendDown, MacDown, MsSendDown, MsRxDown, LoseDown DEF Next

LEMMA InitDown == Init => DownInv
<1> SUFFICES ASSUME Init, NEW id \in Ids PROVE DownLink(id)
  BY DEF DownInv
<1>1. Ep(endpoints, id) = FreshEndpoint(id)
  <2>1. \A s \in Slot : ~Holds(endpoints, s, id)
    BY DEF Init, Holds
  <2> QED
    BY <2>1, EpIsFresh
<1>2. /\ ms[id].nr = 0 /\ given[id] = 0 /\ Ep(endpoints, id).ns = 0 /\ ~Ep(endpoints, id).aw
      /\ uair[id] = <<>> /\ dair[id] = <<>> /\ down = <<>> /\ Len(ms[id].got) = 0
  BY <1>1 DEF Init, FreshEndpoint
<1>3. DownCounts(id)
  BY <1>2 DEF DownCounts, Counts
<1>4. \A S : Clear(id, <<>>, <<>>, S)
  BY DEF Clear
<1>5. \A O, N : InOrder(id, <<>>, <<>>, O, N)
  BY DEF InOrder
<1>6. DownData(id)
  BY <1>2, <1>4, <1>5 DEF DownData, DataChannel
<1>7. DownAck(id)
  BY <1>2, <1>4, <1>5 DEF DownAck, AckChannel, NoRequests
<1> QED
  BY <1>3, <1>6, <1>7 DEF DownLink

-----------------------------------------------------------------------------
(* The downlink implements LlcLinkSpec: SDUs are sent by llc_send_bl_data, *)
(* accepted by MsRx, acknowledged by RxAck; every other step stutters.     *)

DownGot == [id \in Ids |-> ms[id].got]
DownAcked == [id \in Ids |-> IF Awaiting(id) THEN given[id] - 1 ELSE given[id]]

LEMMA AwaitingIsAw ==
  ASSUME NEW t, Table(t), NEW id \in Ids
  PROVE  (\E s \in {r \in Slot : t[r].in_use /\ t[r].id = id} : t[s].aw) <=> Ep(t, id).aw
<1>1. CASE \E s \in Slot : Holds(t, s, id)
  <2>1. PICK s \in Slot : Holds(t, s, id)
    BY <1>1
  <2>2. Ep(t, id) = t[s]
    BY <2>1, EpIsHeld
  <2>3. \A r \in Slot : t[r].in_use /\ t[r].id = id => r = s
    BY <2>1 DEF Table, Holds
  <2> QED
    BY <2>1, <2>2, <2>3 DEF Holds
<1>2. CASE ~\E s \in Slot : Holds(t, s, id)
  <2>1. ~Ep(t, id).aw
    BY <1>2, EpIsFresh DEF FreshEndpoint
  <2> QED
    BY <1>2, <2>1 DEF Holds
<1> QED
  BY <1>1, <1>2

LEMMA DownStep ==
  ASSUME TableInv, TableInv', [Next]_vars, NEW z \in Ids, DownLink(z), ~overlap'[z]
  PROVE  Downlink!LinkStep(z)
<1>0. /\ ms \in [Ids -> Station] /\ given \in [Ids -> 0 .. MaxDown] /\ MaxDown \in Nat
      /\ uair \in [Ids -> Seq(LlcPdu)] /\ dair \in [Ids -> Seq(LlcPdu)] /\ down \in Seq(Request)
  BY TypeParts, BoundAssumption DEF TableInv
<1>1. /\ \A x \in Ids : Awaiting(x) <=> Ep(endpoints, x).aw
      /\ \A x \in Ids : Awaiting(x)' <=> Ep(endpoints', x).aw
  BY AwaitingIsAw DEF Awaiting, EndpointFind, TableInv
<1>2. /\ DownAcked = [x \in Ids |-> IF Ep(endpoints, x).aw THEN given[x] - 1 ELSE given[x]]
      /\ DownAcked' = [x \in Ids |-> IF Ep(endpoints', x).aw THEN given'[x] - 1 ELSE given'[x]]
  BY <1>1 DEF DownAcked
<1>3. ASSUME given'[z] = given[z], ms'[z].got = ms[z].got,
             Ep(endpoints', z).aw <=> Ep(endpoints, z).aw
      PROVE  Downlink!LinkStep(z)
  <2>1. DownGot'[z] = DownGot[z]
    BY <1>3 DEF DownGot
  <2>2. DownAcked'[z] = DownAcked[z]
    BY <1>2, <1>3
  <2> QED
    BY <1>3, <2>1, <2>2 DEF Downlink!LinkStep, DownGot, DownAcked
<1>4. ASSUME UNCHANGED <<endpoints, given>>, ms'[z].got = ms[z].got
      PROVE  Downlink!LinkStep(z)
  BY <1>3, <1>4
<1>6. ASSUME NEW id \in Ids, RxInd(id) PROVE Downlink!LinkStep(z)
  <2> DEFINE p == Head(uair[id])
             e == Ep(endpoints, id)
  <2>1. /\ uair[id] # <<>> /\ UNCHANGED <<given, ms>>
        /\ RxTakes(id, p, e) \/ RxStays(id, e) \/ RxEnds(id, p, e)
    BY <1>6, RxEffect DEF TableInv
  <2>2. e \in Endpoint
    BY EpTyped DEF TableInv
  <2>3. DownGot' = DownGot
    BY <2>1 DEF DownGot
  <2>4. CASE RxStays(id, e) \/ RxTakes(id, p, e)
    <3>1. \A x \in Ids \ {id} : Ep(endpoints', x) = Ep(endpoints, x)
      BY <2>4 DEF RxStays, RxTakes, Updated
    <3>2. Ep(endpoints', id) = e \/ Ep(endpoints', id) = [e EXCEPT !.nr = 1 - e.nr]
      BY <2>4 DEF RxStays, RxTakes, Updated
    <3>3. Ep(endpoints', id).aw = e.aw
      BY <2>2, <3>2 DEF Endpoint
    <3> QED
      BY <1>3, <2>1, <3>1, <3>3
  <2>5. CASE RxEnds(id, p, e)
    <3>1. /\ p.type \in DownAcks /\ e.aw /\ p.nr = e.ns
          /\ Updated(endpoints, endpoints', id, [e EXCEPT !.aw = FALSE])
      BY <2>5 DEF RxEnds, DownAcks
    <3>2. \A x \in Ids \ {id} : Ep(endpoints', x) = Ep(endpoints, x)
      BY <3>1 DEF Updated
    <3>3. ~Ep(endpoints', id).aw
      BY <2>2, <3>1 DEF Updated, Endpoint
    <3>0. SUFFICES ASSUME z = id PROVE Downlink!LinkStep(z)
      BY <1>3, <2>1, <3>2
    <3> DEFINE d == uair[id]
               n == e.ns
               w == e.aw
               r == ms[id].nr
    <3>4. /\ d \in Seq(LlcPdu) /\ d # <<>> /\ NoRequests \in Seq(Request)
          /\ AckChannel(id, d, NoRequests, DownAcks, n, r, w)
          /\ Head(d).type \in DownAcks /\ Head(d).nr = n
      <4>1. AckChannel(id, d, NoRequests, DownAcks, n, r, w)
        BY <3>0 DEF DownLink, DownAck
      <4>2. NoRequests \in Seq(Request)
        BY DEF NoRequests
      <4> QED
        BY <1>0, <2>1, <3>1, <4>1, <4>2
    <3> HIDE DEF d, n, w, r
    <3>5. Ends(id, d, NoRequests, DownAcks, n, r)
      BY <3>4, AckEnds
    <3>6. ms[id].nr = e.ns
      BY <3>5 DEF Ends, n, r
    <3>7. Len(ms[id].got) = given[id] /\ given[id] \in Nat
      BY <1>0, <3>0, <3>6 DEF DownLink, DownCounts, Counts
    <3>8. DownAcked[id] = given[id] - 1
      BY <1>2, <3>1
    <3>9. DownAcked'[id] = given[id]
      BY <1>2, <2>1, <3>3
    <3>10. DownAcked'[id] = DownAcked[id] + 1 /\ DownAcked[id] < Len(ms[id].got)
      BY <3>7, <3>8, <3>9
    <3>11. \A x \in Ids \ {id} : DownAcked'[x] = DownAcked[x]
      BY <1>2, <2>1, <3>2
    <3>12. DownAcked' = [DownAcked EXCEPT ![id] = DownAcked[id] + 1]
      <4>1. DownAcked' = [DownAcked EXCEPT ![id] = DownAcked'[id]]
        BY <3>11 DEF DownAcked
      <4> QED
        BY <3>10, <4>1
    <3>13. DownGot[id] = ms[id].got
      BY DEF DownGot
    <3>14. Downlink!Acknowledge(id)
      BY <2>1, <2>3, <3>10, <3>12, <3>13 DEF Downlink!Acknowledge, DownGot, DownAcked
    <3> QED
      BY <3>0, <3>14 DEF Downlink!LinkStep
  <2> QED
    BY <2>1, <2>4, <2>5
<1>7. ASSUME NEW id \in Ids, SendBlData(id) \/ OnTle(id)
      PROVE  Downlink!LinkStep(z)
  <2> DEFINE e == Ep(endpoints, id)
  <2>1. /\ Sends(id, e) \/ SendsNoData(id, e)
        /\ UNCHANGED ms
    BY <1>7, SendEffect, TleEffect DEF TableInv
  <2>2. e \in Endpoint
    BY EpTyped DEF TableInv
  <2>3. CASE SendsNoData(id, e)
    <3>1. given' = given /\ \A x \in Ids : Ep(endpoints', x) = Ep(endpoints, x)
      BY <2>3 DEF SendsNoData, Updated
    <3> QED
      BY <1>3, <2>1, <3>1
  <2>4. CASE Sends(id, e)
    <3>1. /\ e.aw => overlap'[id]
          /\ given' = [given EXCEPT ![id] = given[id] + 1]
          /\ Updated(endpoints, endpoints', id, [e EXCEPT !.ns = 1 - e.ns, !.aw = TRUE])
      BY <2>4 DEF Sends
    <3>2. \A x \in Ids \ {id} : Ep(endpoints', x) = Ep(endpoints, x)
      BY <3>1 DEF Updated
    <3>3. Ep(endpoints', id).aw
      BY <2>2, <3>1 DEF Updated, Endpoint
    <3>4. given[id] \in Nat /\ given'[id] = given[id] + 1 /\ \A x \in Ids \ {id} : given'[x] = given[x]
      BY <1>0, <3>1
    <3>0. SUFFICES ASSUME z = id PROVE Downlink!LinkStep(z)
      BY <1>3, <2>1, <3>2, <3>4
    <3>5. DownAcked[id] = given[id] /\ DownAcked'[id] = given[id]
      <4>1. DownAcked[id] = given[id]
        BY <1>2, <3>0, <3>1
      <4>2. DownAcked'[id] = given'[id] - 1
        BY <1>2, <3>3
      <4> QED
        BY <3>4, <4>1, <4>2
    <3>6. \A x \in Ids \ {id} : DownAcked'[x] = DownAcked[x]
      BY <1>2, <3>2, <3>4
    <3>7. DownAcked' = DownAcked
      BY <3>5, <3>6 DEF DownAcked
    <3>8. DownGot' = DownGot
      BY <2>1 DEF DownGot
    <3>9. Downlink!Send(id)
      BY <3>1, <3>5, <3>7, <3>8 DEF Downlink!Send, DownGot, DownAcked
    <3> QED
      BY <3>0, <3>9 DEF Downlink!LinkStep
  <2> QED
    BY <2>1, <2>3, <2>4
<1>8. ASSUME NEW id \in Ids, MsRx(id) PROVE Downlink!LinkStep(z)
  <2> DEFINE p == Head(dair[id])
             new == p.type \in DataTypes /\ p.ns = ms[id].nr
             e == Ep(endpoints, id)
  <2>1. /\ dair[id] # <<>>
        /\ \A x \in Ids \ {id} : ms'[x] = ms[x]
        /\ new => ms'[id].got = Append(ms[id].got, p.body)
        /\ ~new => ms'[id].got = ms[id].got
        /\ UNCHANGED <<endpoints, given>>
    BY <1>8, MsRxEffect DEF TableInv, llcVars
  <2>2. CASE z # id \/ ~new
    BY <1>4, <2>1, <2>2
  <2>3. CASE z = id /\ new
    <3>1. p \in LlcPdu
      BY <1>0, <2>1, HeadTailProperties
    <3>2. e \in Endpoint
      BY EpTyped DEF TableInv
    <3> DEFINE d == dair[id]
               n == e.ns
               r == ms[id].nr
               c == given[id]
    <3>3. /\ d \in Seq(LlcPdu) /\ d # <<>> /\ n \in {0, 1} /\ r \in {0, 1}
          /\ DataChannel(id, d, down, DownFcs, n, r, c)
          /\ Head(d).type \in DataTypes /\ Head(d).fcs \in DownFcs /\ Head(d).ns = r
      <4>1. DataChannel(id, d, down, DownFcs, n, r, c)
        BY <2>3 DEF DownLink, DownData
      <4>2. n \in {0, 1} /\ r \in {0, 1}
        BY <1>0, <3>2 DEF Station, Endpoint
      <4>3. p.fcs \in DownFcs
        BY <3>1 DEF LlcPdu, DownFcs
      <4> QED
        BY <1>0, <2>1, <2>3, <4>1, <4>2, <4>3
    <3> HIDE DEF d, n, r, c
    <3>4. Takes(id, d, down, DownFcs, n, r, c)
      BY <1>0, <3>3, DataTaken
    <3>5. p.body = given[id] /\ ms[id].nr # e.ns
      BY <3>4 DEF Takes, d, n, r, c
    <3>6. Len(ms[id].got) = given[id] - 1 /\ given[id] \in Nat
      BY <1>0, <2>3, <3>5 DEF DownLink, DownCounts, Counts
    <3>7. p.body = Len(ms[id].got) + 1 /\ Len(ms[id].got) < given[id]
      <4> HIDE DEF p, e
      <4> QED
        BY <3>5, <3>6
    <3>8. ms'[id].got = Append(ms[id].got, Len(ms[id].got) + 1)
      BY <2>1, <2>3, <3>7
    <3>9. DownGot' = [DownGot EXCEPT ![id] = Append(DownGot[id], Len(DownGot[id]) + 1)]
      BY <2>1, <3>8 DEF DownGot
    <3>10. DownAcked' = DownAcked
      BY <1>2, <2>1
    <3>11. DownGot[id] = ms[id].got
      BY DEF DownGot
    <3>12. Downlink!Accept(id)
      BY <2>1, <3>7, <3>9, <3>10, <3>11 DEF Downlink!Accept, DownGot, DownAcked
    <3> QED
      BY <2>3, <3>12 DEF Downlink!LinkStep
  <2> QED
    BY <2>2, <2>3
<1>9. ASSUME NEW id \in Ids, MsSend(id) PROVE Downlink!LinkStep(z)
  <2>1. ms'[z].got = ms[z].got
    BY <1>9, MsSendEffect DEF TableInv
  <2> QED
    BY <1>4, <1>9, <2>1 DEF MsSend, llcVars
<1>10. ASSUME NEW id \in Ids, MsRetransmit(id) \/ MsOther(id) \/ MsReAck(id) \/ Lose(id)
      PROVE  Downlink!LinkStep(z)
  BY <1>4, <1>10 DEF MsRetransmit, MsOther, MsReAck, Lose, llcVars
<1>11. CASE MacTx \/ UpperTake \/ UNCHANGED vars
  BY <1>4, <1>11 DEF MacTx, UpperTake, vars, llcVars
<1> QED
  BY <1>6, <1>7, <1>8, <1>9, <1>10, <1>11 DEF Next

(* For every number of links and every capacity, whatever the radio loses, *)
(* whichever of llc_send_bl_data and on_tle_msg_from_mle sends and however *)
(* late and often a mobile station repeats its acknowledgement: on a link  *)
(* on which no SDU was sent over an unacknowledged one, SDUs arrive once   *)
(* and in order, and the BL-ACK branch clears awaiting_ack only when the   *)
(* mobile station took the SDU.                                            *)
THEOREM DownlinkKeepsPromise == Spec => DownlinkImplements
<1> DEFINE Step == \A id \in Ids : ~overlap'[id] => Downlink!LinkStep(id)
<1>1. Init => Downlink!Init
  <2> SUFFICES ASSUME Init PROVE Downlink!Init
    OBVIOUS
  <2>1. \A id \in Ids : ms[id].got = <<>> /\ given[id] = 0 /\ ~Awaiting(id)
    BY DEF Init, Awaiting, EndpointFind
  <2> QED
    BY <2>1 DEF Init, Downlink!Init
<1>2. TableInv /\ DownInv /\ TableInv' /\ [Next]_vars => [Step]_vars
  <2> SUFFICES ASSUME TableInv, DownInv, TableInv', Next, NEW id \in Ids, ~overlap'[id]
               PROVE  Downlink!LinkStep(id)
    OBVIOUS
  <2>1. ~overlap[id]
    BY NextOverlaps
  <2> QED
    BY <2>1, DownStep DEF DownInv
<1> HIDE DEF Step
<1>3. Init /\ [][Next]_vars => Downlink!Init /\ [][Step]_vars
  BY <1>1, <1>2, InitTable, NextTable, InitUp, NextUp, InitDown, NextDown, PTL
<1> QED
  BY <1>3 DEF Spec, DownlinkImplements, Step
=============================================================================
