---------------------------- MODULE MsgBusProofs ----------------------------
(***************************************************************************)
(* Proofs about MsgBus for every capacity, number of priorities, set of    *)
(* keys, handlers and messages: the rings stay consistent, a running       *)
(* handler's payload is never overwritten, and the rings implement the     *)
(* FIFO-per-priority bus of MsgBusSpec.                                    *)
(***************************************************************************)
EXTENDS MsgBus, SequenceTheorems, TLAPS

(* Advancing a ring index adds one and wraps at Cap.                       *)
LEMMA AdvanceWraps ==
  ASSUME NEW i \in Slot
  PROVE  Advance(i) = IF i + 1 = Cap THEN 0 ELSE i + 1
<1>1. CASE i + 1 = Cap
  BY <1>1, CapAssumption DEF Slot, Advance
<1>2. CASE i + 1 # Cap
  BY <1>2, CapAssumption DEF Slot, Advance
<1> QED
  BY <1>1, <1>2

(* The inductive invariant: types, ring indices and the dispatch frame.    *)
IInv == TypeOK /\ RingInv /\ FrameInv

LEMMA InitIInv == Init => IInv
<1> SUFFICES ASSUME Init PROVE IInv
  OBVIOUS
<1> USE NPrioAssumption, CapAssumption, MaxPayloadAssumption
<1>1. TypeOK
  BY DEF Init, TypeOK, Prio, Slot, Idle
<1>2. RingInv
  BY DEF Init, RingInv, Prio, Slot, Dist
<1>3. FrameInv
  BY DEF Init, FrameInv, Idle
<1> QED
  BY <1>1, <1>2, <1>3 DEF IInv

(* msgbus_register touches neither the rings nor the dispatch frame.       *)
LEMMA RegisterIInv ==
  ASSUME IInv, NEW k, NEW f \in Cbs, Register(k, f)
  PROVE  IInv'
<1>1. TypeOK'
  <2>1. regs' \in Seq([key : Keys, cb : Cbs])
    <3>1. regs \in Seq([key : Keys, cb : Cbs])
      BY DEF IInv, TypeOK
    <3>2. CASE UNCHANGED regs
      BY <3>1, <3>2
    <3>3. CASE k \in Keys /\ regs' = Append(regs, [key |-> k, cb |-> f])
      BY <3>1, <3>3
    <3> QED
      BY <3>2, <3>3 DEF Register
  <2>2. rc' \in {"0", "EINVAL", "E2BIG", "ENOSPC"}
    BY DEF Register
  <2>3. UNCHANGED <<entries, payloads, head, tail, count, drops>>
        /\ UNCHANGED <<cur, slot, key, len, next, cb>>
    BY DEF Register, ring, frame
  <2> QED
    BY <2>1, <2>2, <2>3 DEF IInv, TypeOK
<1>2. RingInv'
  BY DEF IInv, RingInv, Dist, Register, ring
<1>3. FrameInv'
  BY DEF IInv, FrameInv, Register, ring, frame
<1> QED
  BY <1>1, <1>2, <1>3 DEF IInv

(* An accepted post fills the first free slot, which is not the slot a     *)
(* running dispatch points to.                                             *)
LEMMA EnqueueIInv ==
  ASSUME IInv, NEW p \in Prio, NEW m \in Inputs, m.key \in Keys,
         m.len <= MaxPayload, count[p] # Cap, Enqueue(p, m),
         rc' = "0", UNCHANGED <<head, drops, regs, frame>>
  PROVE  IInv'
<1> USE NPrioAssumption, CapAssumption, MaxPayloadAssumption, NullAssumption
<1> USE DEF IInv
<1>m. m \in SapMsg /\ m.len \in 0 .. MaxPayload /\ (m.len > 0 => m.data \in Data)
  BY InputsAssumption DEF SapMsg
<1>t. tail[p] \in Slot /\ count[p] \in 0 .. (Cap - 1) /\ head[p] \in Slot
  BY DEF TypeOK
<1>a. Advance(tail[p]) = IF tail[p] + 1 = Cap THEN 0 ELSE tail[p] + 1
  BY <1>t, AdvanceWraps
<1>a2. Advance(tail[p]) \in Slot
  BY <1>t, <1>a DEF Slot
<1>e. /\ tail' = [tail EXCEPT ![p] = Advance(tail[p])]
      /\ count' = [count EXCEPT ![p] = count[p] + 1]
  BY DEF Enqueue
<1>d. Dist(p, tail[p]) = count[p]
  BY <1>t DEF RingInv, Dist, Slot
<1>1. TypeOK'
  <2>1. entries' \in [Prio -> [Slot ->
          [key : Keys \cup {BadKey}, len : 0 .. MaxPayload, in_use : BOOLEAN]]]
    BY <1>m, <1>t DEF TypeOK, Enqueue
  <2>2. payloads' \in [Prio -> [Slot -> Data \cup {Null}]]
    BY <1>m, <1>t DEF TypeOK, Enqueue
  <2>3. tail' \in [Prio -> Slot]
    BY <1>a2, <1>e DEF TypeOK
  <2>4. count' \in [Prio -> 0 .. Cap]
    <3>1. count[p] + 1 \in 0 .. Cap
      BY <1>t
    <3> QED
      BY <3>1, <1>e DEF TypeOK
  <2> QED
    BY <2>1, <2>2, <2>3, <2>4 DEF TypeOK, frame
<1>2. RingInv'
  <2>1. ASSUME NEW r \in Prio
        PROVE  tail'[r] = IF head'[r] + count'[r] < Cap
                          THEN head'[r] + count'[r]
                          ELSE head'[r] + count'[r] - Cap
    <3>1. tail \in [Prio -> Slot] /\ count \in [Prio -> 0 .. Cap]
      BY DEF TypeOK
    <3>2. CASE r = p
      <4>1. tail'[r] = Advance(tail[p]) /\ count'[r] = count[p] + 1
            /\ head'[r] = head[p]
        BY <3>1, <3>2, <1>e
      <4>2. tail[p] = IF head[p] + count[p] < Cap THEN head[p] + count[p]
                      ELSE head[p] + count[p] - Cap
        BY DEF RingInv
      <4>3. /\ head[p] \in Int /\ count[p] \in Int /\ tail[p] \in Int /\ Cap \in Int
            /\ 0 <= head[p] /\ head[p] < Cap /\ 0 <= count[p] /\ count[p] < Cap
        BY <1>t DEF Slot
      <4>4. CASE head[p] + count[p] + 1 < Cap
        BY <4>1, <4>2, <4>3, <4>4, <1>a
      <4>5. CASE head[p] + count[p] + 1 = Cap
        BY <4>1, <4>2, <4>3, <4>5, <1>a
      <4>6. CASE head[p] + count[p] + 1 > Cap
        <5>1. tail[p] = head[p] + count[p] - Cap
          BY <4>2, <4>3, <4>6
        <5>2. Advance(tail[p]) = head[p] + count[p] + 1 - Cap
          BY <4>3, <5>1, <1>a
        <5> QED
          BY <4>1, <4>3, <4>6, <5>2
      <4> QED
        BY <4>3, <4>4, <4>5, <4>6
    <3>3. CASE r # p
      BY <3>1, <3>3, <1>e DEF RingInv
    <3> QED
      BY <3>2, <3>3
  <2>2. ASSUME NEW r \in Prio, NEW s \in Slot
        PROVE  /\ entries'[r][s].in_use <=> Dist(r, s)' < count'[r]
               /\ entries'[r][s].in_use =>
                    /\ entries'[r][s].key \in Keys
                    /\ entries'[r][s].len > 0 => payloads'[r][s] \in Data
    <3>0. Dist(r, s)' = Dist(r, s)
      BY DEF Dist
    <3>1. CASE r = p /\ s = tail[p]
      <4>1. entries'[r][s] = [key |-> m.key, len |-> m.len, in_use |-> TRUE]
        BY <3>1, <1>t DEF Enqueue, TypeOK
      <4>2. count'[r] = count[p] + 1
        BY <3>1 DEF Enqueue, TypeOK
      <4>3. m.len > 0 => payloads'[r][s] = m.data
        BY <3>1, <1>t DEF Enqueue, TypeOK
      <4> QED
        BY <3>0, <3>1, <4>1, <4>2, <4>3, <1>d, <1>m, <1>t
    <3>2. CASE r = p /\ s # tail[p]
      <4>1. entries'[r][s] = entries[r][s] /\ payloads'[r][s] = payloads[r][s]
        BY <3>2, <1>t DEF Enqueue, TypeOK
      <4>2. count'[r] = count[p] + 1
        BY <3>2 DEF Enqueue, TypeOK
      <4>3. Dist(p, s) # count[p]
        BY <3>2, <1>t DEF RingInv, Dist, Slot
      <4>4. Dist(p, s) \in Nat
        BY <1>t DEF Dist, Slot
      <4> QED
        BY <3>0, <3>2, <4>1, <4>2, <4>3, <4>4, <1>t DEF RingInv
    <3>3. CASE r # p
      <4>1. entries'[r] = entries[r] /\ payloads'[r] = payloads[r]
            /\ count'[r] = count[r]
        BY <3>3 DEF Enqueue, TypeOK
      <4> QED
        BY <3>0, <4>1 DEF RingInv
    <3> QED
      BY <3>1, <3>2, <3>3
  <2> QED
    BY <2>1, <2>2 DEF RingInv
<1>3. FrameInv'
  <2>1. cur = Idle => cb = NoCb
    BY DEF FrameInv
  <2>2. CASE cur # Idle
    <3>1. cur \in Prio /\ slot \in Slot /\ slot = head[cur] /\ count[cur] > 0
      BY <2>2 DEF FrameInv, TypeOK
    <3>2. ~ (cur = p /\ slot = tail[p])
      BY <3>1, <1>t DEF RingInv, Slot
    <3>3. entries'[cur][slot] = entries[cur][slot]
      BY <3>1, <3>2, <1>t DEF Enqueue, TypeOK
    <3>4. count'[cur] > 0
      BY <3>1, <1>t DEF Enqueue, TypeOK
    <3> QED
      BY <2>2, <3>1, <3>3, <3>4 DEF FrameInv, frame
  <2>3. CASE cur = Idle
    BY <2>1, <2>3 DEF FrameInv, frame
  <2> QED
    BY <2>2, <2>3
<1> QED
  BY <1>1, <1>2, <1>3

(* msgbus_post preserves the invariant on each of its four outcomes.       *)
LEMMA PostIInv ==
  ASSUME IInv, NEW p \in 0 .. NPrio, NEW m \in Inputs, Post(p, m)
  PROVE  IInv'
<1>1. CASE UNCHANGED ring /\ rc' \in {"EINVAL", "E2BIG"}
  <2>0. UNCHANGED <<ring, regs, frame>>
    BY <1>1 DEF Post
  <2>1. TypeOK'
    BY <1>1, <2>0 DEF IInv, TypeOK, ring, frame
  <2>2. RingInv'
    BY <2>0 DEF IInv, RingInv, Dist, ring
  <2>3. FrameInv'
    BY <2>0 DEF IInv, FrameInv, ring, frame
  <2> QED
    BY <2>1, <2>2, <2>3 DEF IInv
<1>2. CASE /\ p \in Prio
           /\ drops' = [drops EXCEPT ![p] = @ + 1]
           /\ rc' = "ENOSPC"
           /\ UNCHANGED <<entries, payloads, head, tail, count>>
  <2>0. UNCHANGED <<regs, frame>>
    BY <1>2 DEF Post
  <2>1. TypeOK'
    <3>0. drops \in [Prio -> Nat] /\ drops[p] \in Nat
      BY <1>2 DEF IInv, TypeOK
    <3>1. drops' \in [Prio -> Nat]
      BY <1>2, <3>0
    <3> QED
      BY <1>2, <2>0, <3>1 DEF IInv, TypeOK, frame
  <2>2. RingInv'
    BY <1>2, <2>0 DEF IInv, RingInv, Dist
  <2>3. FrameInv'
    BY <1>2, <2>0 DEF IInv, FrameInv, frame
  <2> QED
    BY <2>1, <2>2, <2>3 DEF IInv
<1>3. CASE /\ p \in Prio /\ m.key \in Keys /\ m.len <= MaxPayload
           /\ count[p] # Cap /\ Enqueue(p, m) /\ rc' = "0"
           /\ UNCHANGED <<head, drops>>
  BY <1>3, EnqueueIInv DEF Post
<1> QED
  BY <1>1, <1>2, <1>3 DEF Post

(* Starting a dispatch fixes the frame on the occupied head slot.          *)
LEMMA BeginIInv ==
  ASSUME IInv, NEW p \in Prio, DispatchBegin(p)
  PROVE  IInv'
<1> USE NPrioAssumption, CapAssumption DEF IInv
<1>0. head[p] \in Slot /\ entries[p][head[p]] \in
        [key : Keys \cup {BadKey}, len : 0 .. MaxPayload, in_use : BOOLEAN]
  BY DEF TypeOK
<1>1. TypeOK'
  <2>1. cur' \in Prio \cup {Idle} /\ slot' \in Slot /\ next' \in Nat \ {0}
        /\ cb' \in Cbs \cup {NoCb}
    BY <1>0 DEF DispatchBegin
  <2>2. key' \in Keys \cup {BadKey} /\ len' \in 0 .. MaxPayload
    BY <1>0 DEF DispatchBegin
  <2>3. UNCHANGED <<entries, payloads, head, tail, count, drops, regs, rc>>
    BY DEF DispatchBegin, ring
  <2> QED
    BY <2>1, <2>2, <2>3 DEF TypeOK
<1>2. RingInv'
  BY DEF RingInv, Dist, DispatchBegin, ring
<1>3. FrameInv'
  BY DEF FrameInv, DispatchBegin, NextNonempty, ring, Prio, Idle
<1> QED
  BY <1>1, <1>2, <1>3

(* Calling a handler and returning from it leave rings and slot alone.     *)
LEMMA CallIInv ==
  ASSUME IInv, NEW i \in 1 .. Len(regs), DispatchCall(i)
  PROVE  IInv'
<1> USE DEF IInv
<1>1. TypeOK'
  <2>1. regs[i] \in [key : Keys, cb : Cbs]
    <3> DEFINE Reg == [key : Keys, cb : Cbs]
    <3>1. regs \in Seq(Reg)
      BY DEF TypeOK
    <3> HIDE DEF Reg
    <3>2. regs[i] \in Reg
      BY <3>1
    <3> QED
      BY <3>2 DEF Reg
  <2>1a. i \in Nat \ {0}
    BY DEF TypeOK
  <2>2. cb' \in Cbs \cup {NoCb} /\ next' \in Nat \ {0}
    BY <2>1, <2>1a DEF DispatchCall
  <2>3. UNCHANGED <<entries, payloads, head, tail, count, drops, regs, rc>>
        /\ UNCHANGED <<cur, slot, key, len>>
    BY DEF DispatchCall, ring
  <2> QED
    BY <2>2, <2>3 DEF TypeOK
<1>2. RingInv'
  BY DEF RingInv, Dist, DispatchCall, ring
<1>3. FrameInv'
  BY DEF FrameInv, DispatchCall, ring
<1> QED
  BY <1>1, <1>2, <1>3

LEMMA ReturnIInv ==
  ASSUME IInv, HandlerReturn
  PROVE  IInv'
<1> USE DEF IInv
<1>1. TypeOK'
  BY DEF TypeOK, HandlerReturn, ring
<1>2. RingInv'
  BY DEF RingInv, Dist, HandlerReturn, ring
<1>3. FrameInv'
  BY DEF FrameInv, HandlerReturn, ring
<1> QED
  BY <1>1, <1>2, <1>3

(* Ending a dispatch frees exactly the head slot.                          *)
LEMMA EndIInv ==
  ASSUME IInv, DispatchEnd
  PROVE  IInv'
<1> USE NPrioAssumption, CapAssumption, MaxPayloadAssumption DEF IInv
<1> DEFINE q == cur
<1>0. q \in Prio /\ slot = head[q] /\ head[q] \in Slot /\ count[q] \in 1 .. Cap
  BY DEF TypeOK, FrameInv, DispatchEnd
<1>a. Advance(head[q]) = IF head[q] + 1 = Cap THEN 0 ELSE head[q] + 1
  BY <1>0, AdvanceWraps
<1>a2. Advance(head[q]) \in Slot
  BY <1>0, <1>a DEF Slot
<1>e. /\ head' = [head EXCEPT ![q] = Advance(head[q])]
      /\ count' = [count EXCEPT ![q] = count[q] - 1]
      /\ entries' = [entries EXCEPT ![q][slot].in_use = FALSE]
      /\ UNCHANGED <<payloads, tail, drops, regs, rc>>
  BY DEF DispatchEnd
<1>f. /\ head'[q] = Advance(head[q]) /\ count'[q] = count[q] - 1
      /\ \A r \in Prio : r # q => head'[r] = head[r] /\ count'[r] = count[r]
                                  /\ entries'[r] = entries[r]
      /\ \A s \in Slot : s # slot => entries'[q][s] = entries[q][s]
      /\ entries'[q][slot].in_use = FALSE
  BY <1>0, <1>e DEF TypeOK
<1>1. TypeOK'
  <2>1. head' \in [Prio -> Slot]
    BY <1>0, <1>a2, <1>e DEF TypeOK
  <2>2. count' \in [Prio -> 0 .. Cap]
    <3>1. count[q] - 1 \in 0 .. Cap
      BY <1>0
    <3> QED
      BY <3>1, <1>e DEF TypeOK
  <2>3. entries' \in [Prio -> [Slot ->
          [key : Keys \cup {BadKey}, len : 0 .. MaxPayload, in_use : BOOLEAN]]]
    <3> DEFINE Hdr == [key : Keys \cup {BadKey}, len : 0 .. MaxPayload, in_use : BOOLEAN]
    <3>1. entries[q][slot] \in Hdr
      BY <1>0 DEF TypeOK
    <3>2. [entries[q][slot] EXCEPT !.in_use = FALSE] \in Hdr
      BY <3>1
    <3>3. entries' = [entries EXCEPT ![q] =
                        [entries[q] EXCEPT ![slot] =
                           [entries[q][slot] EXCEPT !.in_use = FALSE]]]
      BY <1>e
    <3> HIDE DEF Hdr
    <3>4. entries \in [Prio -> [Slot -> Hdr]]
      BY DEF TypeOK, Hdr
    <3>5. entries' \in [Prio -> [Slot -> Hdr]]
      BY <3>2, <3>3, <3>4, <1>0
    <3> QED
      BY <3>5 DEF Hdr
  <2>4. cur' \in Prio \cup {Idle} /\ slot' \in Slot /\ next' \in Nat \ {0}
        /\ cb' \in Cbs \cup {NoCb} /\ key' \in Keys \cup {BadKey}
        /\ len' \in 0 .. MaxPayload
    BY DEF DispatchEnd, Slot
  <2> QED
    BY <2>1, <2>2, <2>3, <2>4, <1>e DEF TypeOK
<1>2. RingInv'
  <2>1. ASSUME NEW r \in Prio
        PROVE  tail'[r] = IF head'[r] + count'[r] < Cap
                          THEN head'[r] + count'[r]
                          ELSE head'[r] + count'[r] - Cap
    <3>1. CASE r = q
      <4>1. tail'[r] = IF head[q] + count[q] < Cap THEN head[q] + count[q]
                       ELSE head[q] + count[q] - Cap
        BY <3>1, <1>e DEF RingInv
      <4>2. /\ head[q] \in Int /\ count[q] \in Int /\ Cap \in Int
            /\ 0 <= head[q] /\ head[q] < Cap /\ 1 <= count[q] /\ count[q] <= Cap
        BY <1>0 DEF Slot
      <4>3. CASE head[q] + 1 = Cap
        <5>1. head'[r] = 0 /\ count'[r] = count[q] - 1
          BY <3>1, <4>3, <1>a, <1>f
        <5> QED
          BY <4>1, <4>2, <4>3, <5>1
      <4>4. CASE head[q] + 1 # Cap
        <5>1. head'[r] = head[q] + 1 /\ count'[r] = count[q] - 1
          BY <3>1, <4>4, <1>a, <1>f
        <5> QED
          BY <4>1, <4>2, <5>1
      <4> QED
        BY <4>3, <4>4
    <3>2. CASE r # q
      BY <3>2, <1>e, <1>f DEF RingInv
    <3> QED
      BY <3>1, <3>2
  <2>2. ASSUME NEW r \in Prio, NEW s \in Slot
        PROVE  /\ entries'[r][s].in_use <=> Dist(r, s)' < count'[r]
               /\ entries'[r][s].in_use =>
                    /\ entries'[r][s].key \in Keys
                    /\ entries'[r][s].len > 0 => payloads'[r][s] \in Data
    <3>0. /\ head[q] \in Int /\ count[q] \in Int /\ Cap \in Int /\ s \in Int
          /\ 0 <= head[q] /\ head[q] < Cap /\ 1 <= count[q] /\ count[q] <= Cap
          /\ 0 <= s /\ s < Cap
      BY <1>0 DEF Slot
    <3>1. CASE r = q /\ s = slot
      <4>1. Dist(r, s)' = Cap - 1
        BY <3>0, <3>1, <1>0, <1>a, <1>f DEF Dist
      <4>2. count'[r] <= Cap - 1
        BY <3>0, <3>1, <1>f
      <4>3. ~ (Dist(r, s)' < count'[r])
        BY <3>0, <3>1, <4>1, <4>2, <1>f
      <4> QED
        BY <3>1, <4>3, <1>f
    <3>2. CASE r = q /\ s # slot
      <4>1. Dist(r, s)' = Dist(r, s) - 1 /\ Dist(r, s) \in Int
        <5>1. CASE head[q] + 1 = Cap
          <6>1. head'[q] = 0
            BY <5>1, <1>a, <1>f
          <6> QED
            BY <3>0, <3>2, <5>1, <6>1, <1>0 DEF Dist
        <5>2. CASE head[q] + 1 # Cap
          <6>1. head'[q] = head[q] + 1
            BY <5>2, <1>a, <1>f
          <6> QED
            BY <3>0, <3>2, <6>1, <1>0 DEF Dist
        <5> QED
          BY <5>1, <5>2
      <4>2. entries'[r][s] = entries[r][s] /\ count'[r] = count[r] - 1
        BY <3>2, <1>f
      <4>3. Dist(r, s)' < count'[r] <=> Dist(r, s) < count[r]
        BY <3>0, <3>2, <4>1, <4>2
      <4> QED
        BY <4>2, <4>3, <1>e DEF RingInv
    <3>3. CASE r # q
      <4>1. Dist(r, s)' = Dist(r, s)
        BY <3>3, <1>f DEF Dist
      <4> QED
        BY <3>3, <4>1, <1>e, <1>f DEF RingInv
    <3> QED
      BY <3>1, <3>2, <3>3
  <2> QED
    BY <2>1, <2>2 DEF RingInv
<1>3. FrameInv'
  BY DEF FrameInv, DispatchEnd
<1> QED
  BY <1>1, <1>2, <1>3

(* Every step of the bus preserves the invariant.                          *)
LEMMA NextIInv == IInv /\ [Next]_vars => IInv'
<1> SUFFICES ASSUME IInv, [Next]_vars PROVE IInv'
  OBVIOUS
<1>1. CASE \E k \in Keys \cup {BadKey}, f \in Cbs : Register(k, f)
  BY <1>1, RegisterIInv
<1>2. CASE \E p \in 0 .. NPrio, m \in Inputs : Post(p, m)
  BY <1>2, PostIInv
<1>3. CASE \E p \in Prio : DispatchBegin(p)
  BY <1>3, BeginIInv
<1>4. CASE \E i \in 1 .. Len(regs) : DispatchCall(i)
  BY <1>4, CallIInv
<1>5. CASE HandlerReturn
  BY <1>5, ReturnIInv
<1>6. CASE DispatchEnd
  BY <1>6, EndIInv
<1>7. CASE UNCHANGED vars
  <2>0. UNCHANGED <<ring, regs, frame, rc>>
    BY <1>7 DEF vars
  <2>1. TypeOK'
    BY <2>0 DEF IInv, TypeOK, ring, frame
  <2>2. RingInv'
    BY <2>0 DEF IInv, RingInv, Dist, ring
  <2>3. FrameInv'
    BY <2>0 DEF IInv, FrameInv, ring, frame
  <2> QED
    BY <2>1, <2>2, <2>3 DEF IInv
<1> QED
  BY <1>1, <1>2, <1>3, <1>4, <1>5, <1>6, <1>7 DEF Next

(* In every reachable state the ring indices of every bucket agree, the    *)
(* in_use marks are exact and a running dispatch still owns its slot       *)
(* (msgbus_post, msgbus_dispatch_one), for every capacity.                 *)
THEOREM BusInvariant == Spec => [](TypeOK /\ RingInv /\ FrameInv)
<1>1. Init => IInv
  BY InitIInv
<1>2. IInv /\ [Next]_vars => IInv'
  BY NextIInv
<1>3. IInv => TypeOK /\ RingInv /\ FrameInv
  BY DEF IInv
<1> QED
  BY <1>1, <1>2, <1>3, PTL DEF Spec

(* While handlers run, the slot behind their payload pointer is the        *)
(* occupied head of its bucket and still carries the header that           *)
(* msgbus_dispatch_one copied.                                             *)
THEOREM FrameStaysAtHead == Spec => []FrameInv
<1>1. TypeOK /\ RingInv /\ FrameInv => FrameInv
  OBVIOUS
<1> QED
  BY <1>1, BusInvariant, PTL

(* Every field of the bus keeps its type; in particular no bucket exceeds  *)
(* queue_cap_per_prio and no stored length max_payload_bytes.              *)
THEOREM TypeCorrect == Spec => []TypeOK
<1>1. TypeOK /\ RingInv /\ FrameInv => TypeOK
  OBVIOUS
<1> QED
  BY <1>1, BusInvariant, PTL

(* The slot a running dispatch points to is never the slot a post fills.   *)
LEMMA SlotIsNotTail ==
  ASSUME IInv, NEW p \in Prio, count[p] # Cap, cur # Idle
  PROVE  ~ (cur = p /\ slot = tail[p])
<1>1. /\ cur \in Prio /\ slot = head[cur] /\ count[cur] > 0
      /\ head[p] \in Slot /\ count[p] \in 0 .. Cap
  BY DEF IInv, TypeOK, FrameInv
<1> QED
  BY <1>1, CapAssumption DEF IInv, RingInv, Slot

LEMMA PinnedStep ==
  ASSUME IInv, [Next]_vars, cur # Idle
  PROVE  payloads'[cur][slot] = payloads[cur][slot]
<1>0. cur \in Prio /\ slot \in Slot
  BY DEF IInv, TypeOK
<1>1. CASE UNCHANGED payloads
  BY <1>1
<1>2. CASE \E p \in Prio, m \in Inputs : count[p] # Cap /\ Enqueue(p, m)
  <2>1. PICK p \in Prio, m \in Inputs : count[p] # Cap /\ Enqueue(p, m)
    BY <1>2
  <2>2. ~ (cur = p /\ slot = tail[p])
    BY <2>1, SlotIsNotTail
  <2>3. tail[p] \in Slot /\ payloads \in [Prio -> [Slot -> Data \cup {Null}]]
    BY DEF IInv, TypeOK
  <2> QED
    BY <1>0, <2>1, <2>2, <2>3 DEF Enqueue
<1>3. UNCHANGED payloads \/
      \E p \in Prio, m \in Inputs : count[p] # Cap /\ Enqueue(p, m)
  <2>1. CASE \E k \in Keys \cup {BadKey}, f \in Cbs : Register(k, f)
    BY <2>1 DEF Register, ring
  <2>2. CASE \E p \in 0 .. NPrio, m \in Inputs : Post(p, m)
    BY <2>2 DEF Post, ring
  <2>3. CASE \E p \in Prio : DispatchBegin(p)
    BY <2>3 DEF DispatchBegin, ring
  <2>4. CASE \E j \in 1 .. Len(regs) : DispatchCall(j)
    BY <2>4 DEF DispatchCall, ring
  <2>5. CASE HandlerReturn
    BY <2>5 DEF HandlerReturn, ring
  <2>6. CASE DispatchEnd
    BY <2>6 DEF DispatchEnd
  <2>7. CASE UNCHANGED vars
    BY <2>7 DEF vars, ring
  <2> QED
    BY <2>1, <2>2, <2>3, <2>4, <2>5, <2>6, <2>7 DEF Next
<1> QED
  BY <1>1, <1>2, <1>3

(* From the start of a dispatch to its end the bytes behind the handlers'  *)
(* payload pointer do not change, whatever the handlers post meanwhile     *)
(* (msgbus_dispatch_one advances head only after the last handler).        *)
THEOREM PayloadNeverOverwritten == Spec => PayloadPinned
<1>1. IInv /\ [Next]_vars =>
        [cur # Idle => payloads'[cur][slot] = payloads[cur][slot]]_vars
  BY PinnedStep
<1>2. Spec => []IInv
  BY InitIInv, NextIInv, PTL DEF Spec
<1> QED
  BY <1>1, <1>2, PTL DEF Spec, PayloadPinned

-----------------------------------------------------------------------------
(* Append and Tail as functions on an index range.                         *)
LEMMA AppendAsFunction ==
  ASSUME NEW S, NEW s \in Seq(S), NEW e \in S
  PROVE  Append(s, e) =
           [i \in 1 .. Len(s) + 1 |-> IF i = Len(s) + 1 THEN e ELSE s[i]]
<1> DEFINE a == Append(s, e)
<1>1. /\ a \in Seq(S) /\ Len(a) = Len(s) + 1 /\ Len(s) \in Nat
      /\ \A i \in 1 .. Len(s) : a[i] = s[i]
      /\ a[Len(s) + 1] = e
  BY AppendProperties, LenProperties
<1>2. a \in [1 .. Len(s) + 1 -> S]
  BY <1>1, LenProperties
<1>3. ASSUME NEW i \in 1 .. Len(s) + 1
      PROVE  a[i] = IF i = Len(s) + 1 THEN e ELSE s[i]
  <2>1. CASE i = Len(s) + 1
    BY <2>1, <1>1
  <2>2. CASE i # Len(s) + 1
    <3>1. i \in 1 .. Len(s)
      BY <2>2, <1>1
    <3> QED
      BY <2>2, <3>1, <1>1
  <2> QED
    BY <2>1, <2>2
<1> HIDE DEF a
<1>4. a = [i \in 1 .. Len(s) + 1 |-> IF i = Len(s) + 1 THEN e ELSE s[i]]
  BY <1>2, <1>3
<1> QED
  BY <1>4 DEF a

LEMMA TailAsFunction ==
  ASSUME NEW S, NEW s \in Seq(S), s # <<>>
  PROVE  Tail(s) = [i \in 1 .. Len(s) - 1 |-> s[i + 1]]
<1> DEFINE a == Tail(s)
<1>1. /\ a \in Seq(S) /\ Len(a) = Len(s) - 1
      /\ \A i \in 1 .. Len(a) : a[i] = s[i + 1]
  BY HeadTailProperties
<1>2. a \in [1 .. Len(s) - 1 -> S]
  BY <1>1, LenProperties
<1> HIDE DEF a
<1>3. a = [i \in 1 .. Len(s) - 1 |-> s[i + 1]]
  BY <1>1, <1>2
<1> QED
  BY <1>3 DEF a

(* The sequence a bucket stands for has one element per occupied slot.     *)
LEMMA ContentsIsSeq ==
  ASSUME IInv, NEW p \in Prio
  PROVE  /\ Contents(p) \in Seq([key : Keys \cup {BadKey}, len : 0 .. MaxPayload,
                                 data : Data \cup {Null}])
         /\ Len(Contents(p)) = count[p]
         /\ count[p] \in 0 .. Cap
         /\ \A i \in 1 .. count[p] : At(p, i) \in Slot
<1> DEFINE M == [key : Keys \cup {BadKey}, len : 0 .. MaxPayload, data : Data \cup {Null}]
<1>1. count[p] \in 0 .. Cap /\ head[p] \in Slot /\ Cap \in Nat
  BY CapAssumption DEF IInv, TypeOK
<1>2. ASSUME NEW i \in 1 .. count[p] PROVE At(p, i) \in Slot
  BY <1>1 DEF At, Slot
<1>3. ASSUME NEW s \in Slot PROVE Cell(p, s) \in M
  BY DEF IInv, TypeOK, Cell
<1> HIDE DEF M
<1>4. Contents(p) = [i \in 1 .. count[p] |-> Cell(p, At(p, i))]
  BY DEF Contents
<1>5. Contents(p) \in [1 .. count[p] -> M]
  BY <1>2, <1>3, <1>4
<1>6. Contents(p) \in Seq(M) /\ Len(Contents(p)) = count[p]
  BY <1>1, <1>5
<1> QED
  BY <1>1, <1>2, <1>6 DEF M

(* What the handlers of a running dispatch see is the head of its bucket.  *)
LEMMA FrameIsHead ==
  ASSUME IInv, cur # Idle
  PROVE  /\ cur \in Prio
         /\ Contents(cur) # <<>>
         /\ Head(Contents(cur)) =
              [key |-> key, len |-> len,
               data |-> IF len > 0 THEN payloads[cur][slot] ELSE Null]
         /\ Head(Contents(cur)).key = key
<1>1. cur \in Prio /\ count[cur] > 0 /\ slot = head[cur] /\ slot \in Slot
      /\ key = entries[cur][slot].key /\ len = entries[cur][slot].len
  BY DEF IInv, TypeOK, FrameInv
<1>2. Len(Contents(cur)) = count[cur] /\ count[cur] \in 0 .. Cap
  BY <1>1, ContentsIsSeq
<1>3. Contents(cur) # <<>>
  BY <1>1, <1>2
<1>4. At(cur, 1) = slot
  BY <1>1, CapAssumption DEF At, Slot
<1>5. Contents(cur)[1] = Cell(cur, slot)
  BY <1>1, <1>2, <1>4 DEF Contents
<1>6. Head(Contents(cur)) = Contents(cur)[1]
  BY <1>3
<1>7. Cell(cur, slot) = [key |-> key, len |-> len,
         data |-> IF len > 0 THEN payloads[cur][slot] ELSE Null]
  BY <1>1 DEF Cell
<1> QED
  BY <1>1, <1>3, <1>5, <1>6, <1>7

(* An accepted post appends its message to the bucket's sequence.          *)
LEMMA EnqueueAppends ==
  ASSUME IInv, NEW p \in Prio, NEW m \in Inputs, m.key \in Keys,
         m.len <= MaxPayload, count[p] # Cap, Enqueue(p, m), UNCHANGED head
  PROVE  /\ Contents(p)' = Append(Contents(p), m)
         /\ \A r \in Prio : r # p => Contents(r)' = Contents(r)
<1> USE CapAssumption
<1>1. /\ tail[p] \in Slot /\ head[p] \in Slot /\ count[p] \in 0 .. (Cap - 1)
      /\ entries \in [Prio -> [Slot ->
           [key : Keys \cup {BadKey}, len : 0 .. MaxPayload, in_use : BOOLEAN]]]
      /\ payloads \in [Prio -> [Slot -> Data \cup {Null}]]
      /\ count \in [Prio -> 0 .. Cap]
  <2>1. TypeOK
    BY DEF IInv
  <2>2. head[p] \in Slot /\ tail[p] \in Slot /\ count[p] \in 0 .. Cap
    BY <2>1 DEF TypeOK
  <2>3. count[p] \in 0 .. (Cap - 1)
    BY <2>2
  <2> QED
    BY <2>1, <2>2, <2>3 DEF TypeOK
<1>2. /\ count' = [count EXCEPT ![p] = count[p] + 1]
      /\ entries' = [entries EXCEPT ![p] = [entries[p] EXCEPT ![tail[p]] =
                       [key |-> m.key, len |-> m.len, in_use |-> TRUE]]]
      /\ \/ payloads' = payloads /\ ~ (m.len > 0)
         \/ payloads' = [payloads EXCEPT ![p] = [payloads[p] EXCEPT ![tail[p]] = m.data]]
  BY DEF Enqueue
<1>3. ASSUME NEW r \in Prio, r # p
      PROVE  /\ count'[r] = count[r] /\ entries'[r] = entries[r]
             /\ payloads'[r] = payloads[r]
  BY <1>1, <1>2, <1>3
<1>4. ASSUME NEW s \in Slot, s # tail[p]
      PROVE  entries'[p][s] = entries[p][s] /\ payloads'[p][s] = payloads[p][s]
  BY <1>1, <1>2, <1>4
<1>5. /\ count'[p] = count[p] + 1
      /\ entries'[p][tail[p]] = [key |-> m.key, len |-> m.len, in_use |-> TRUE]
      /\ m.len > 0 => payloads'[p][tail[p]] = m.data
  BY <1>1, <1>2
<1>6. PICK t \in Slot : t = tail[p]
  BY <1>1
<1>7. Cell(p, t)' = m
  <2>1. m \in [key : Keys \cup {BadKey}, len : Nat, data : Data \cup {Null}]
        /\ (m.len = 0 <=> m.data = Null)
    BY InputsAssumption DEF SapMsg
  <2>2. m = [key |-> m.key, len |-> m.len,
             data |-> IF m.len > 0 THEN m.data ELSE Null]
    BY <2>1
  <2> QED
    BY <2>2, <1>5, <1>6 DEF Cell
<1>8. ASSUME NEW i \in 1 .. count[p] + 1
      PROVE  At(p, i)' = At(p, i) /\ At(p, i) \in Slot
             /\ (At(p, i) = t <=> i = count[p] + 1)
  <2>1. At(p, i)' = At(p, i)
    BY DEF At
  <2>2. tail[p] = IF head[p] + count[p] < Cap THEN head[p] + count[p]
                  ELSE head[p] + count[p] - Cap
    BY DEF IInv, RingInv
  <2>a. /\ i \in Int /\ count[p] \in Int /\ head[p] \in Int /\ Cap \in Int
        /\ 1 <= i /\ i <= count[p] + 1 /\ count[p] < Cap
        /\ 0 <= head[p] /\ head[p] < Cap
    BY <1>1 DEF Slot
  <2>3. At(p, i) \in Slot
    BY <2>a DEF At, Slot
  <2>4. At(p, i) = t <=> i = count[p] + 1
    BY <2>2, <2>a, <1>6 DEF At
  <2> QED
    BY <2>1, <2>3, <2>4
<1>9. Contents(p)' = Append(Contents(p), m)
  <2>1. Contents(p)' = [i \in 1 .. count[p] + 1 |-> Cell(p, At(p, i))']
    BY <1>5 DEF Contents
  <2>2. ASSUME NEW i \in 1 .. count[p]
        PROVE  Cell(p, At(p, i))' = Contents(p)[i]
    <3>0. i \in 1 .. count[p] + 1 /\ i # count[p] + 1
      BY <1>1
    <3>1. PICK s \in Slot : s = At(p, i)
      BY <3>0, <1>8
    <3>2. s # tail[p]
      BY <3>0, <3>1, <1>8, <1>6
    <3>3. s = At(p, i)'
      BY <3>0, <3>1, <1>8
    <3>4. Cell(p, s)' = Cell(p, s)
      BY <3>2, <1>4 DEF Cell
    <3>5. Contents(p)[i] = Cell(p, s)
      BY <3>1 DEF Contents
    <3> QED
      BY <3>3, <3>4, <3>5 DEF Cell
  <2>3. ASSUME NEW i \in 1 .. count[p] + 1, i = count[p] + 1
        PROVE  Cell(p, At(p, i))' = m
    <3>1. At(p, i)' = t
      BY <2>3, <1>8
    <3> QED
      BY <3>1, <1>7 DEF Cell
  <2>4. /\ Contents(p) \in Seq([key : Keys \cup {BadKey}, len : 0 .. MaxPayload,
                                data : Data \cup {Null}])
        /\ Len(Contents(p)) = count[p]
    BY ContentsIsSeq
  <2>4a. count[p] \in Nat
    BY <1>1
  <2>5. Append(Contents(p), m) =
          [i \in 1 .. count[p] + 1 |-> IF i = count[p] + 1 THEN m ELSE Contents(p)[i]]
    <3> DEFINE M == [key : Keys \cup {BadKey}, len : 0 .. MaxPayload,
                     data : Data \cup {Null}]
    <3>1. m \in M /\ Contents(p) \in Seq(M)
      BY <2>4, InputsAssumption, MaxPayloadAssumption DEF SapMsg
    <3> HIDE DEF M
    <3>2. Append(Contents(p), m) =
            [i \in 1 .. Len(Contents(p)) + 1 |->
               IF i = Len(Contents(p)) + 1 THEN m ELSE Contents(p)[i]]
      BY <3>1, AppendAsFunction
    <3> QED
      BY <2>4, <3>2
  <2>6. ASSUME NEW i \in 1 .. count[p] + 1
        PROVE  Cell(p, At(p, i))' = IF i = count[p] + 1 THEN m ELSE Contents(p)[i]
    <3>1. CASE i = count[p] + 1
      BY <3>1, <2>3
    <3>2. CASE i # count[p] + 1
      <4>1. i \in 1 .. count[p]
        BY <3>2, <2>4a
      <4> QED
        BY <3>2, <4>1, <2>2
    <3> QED
      BY <3>1, <3>2
  <2> QED
    BY <2>1, <2>5, <2>6
<1>10. ASSUME NEW r \in Prio, r # p
       PROVE  Contents(r)' = Contents(r)
  BY <1>3, <1>10 DEF Contents, Cell, At
<1> QED
  BY <1>9, <1>10

(* Ending a dispatch removes the head of its bucket and nothing else.      *)
LEMMA EndIsTail ==
  ASSUME IInv, DispatchEnd
  PROVE  /\ cur \in Prio
         /\ \A r \in Prio : Contents(r)' =
              IF r = cur THEN Tail(Contents(r)) ELSE Contents(r)
<1> USE CapAssumption
<1>0. PICK q \in Prio : q = cur
  BY DEF IInv, TypeOK, DispatchEnd
<1>1. slot = head[q] /\ head[q] \in Slot /\ count[q] \in 1 .. Cap
  BY <1>0 DEF IInv, TypeOK, FrameInv, DispatchEnd
<1>2. Advance(head[q]) = IF head[q] + 1 = Cap THEN 0 ELSE head[q] + 1
  BY <1>1, AdvanceWraps
<1>3. /\ head' = [head EXCEPT ![q] = Advance(head[q])]
      /\ count' = [count EXCEPT ![q] = count[q] - 1]
      /\ entries' = [entries EXCEPT ![q] = [entries[q] EXCEPT ![slot] =
                        [entries[q][slot] EXCEPT !.in_use = FALSE]]]
      /\ UNCHANGED payloads
  BY <1>0 DEF DispatchEnd
<1>4. /\ head'[q] = Advance(head[q]) /\ count'[q] = count[q] - 1
      /\ \A r \in Prio : r # q => /\ head'[r] = head[r] /\ count'[r] = count[r]
                                  /\ entries'[r] = entries[r]
  BY <1>1, <1>3 DEF IInv, TypeOK
<1>5. ASSUME NEW s \in Slot
      PROVE  /\ entries'[q][s].key = entries[q][s].key
             /\ entries'[q][s].len = entries[q][s].len
  <2>1. entries \in [Prio -> [Slot ->
           [key : Keys \cup {BadKey}, len : 0 .. MaxPayload, in_use : BOOLEAN]]]
    BY DEF IInv, TypeOK
  <2>2. CASE s = slot
    <3>1. entries'[q][s] = [entries[q][s] EXCEPT !.in_use = FALSE]
      BY <2>1, <2>2, <1>1, <1>3
    <3>2. entries[q][s] \in
            [key : Keys \cup {BadKey}, len : 0 .. MaxPayload, in_use : BOOLEAN]
      BY <2>1
    <3> QED
      BY <3>1, <3>2
  <2>3. CASE s # slot
    BY <2>1, <2>3, <1>1, <1>3
  <2> QED
    BY <2>2, <2>3
<1>6. ASSUME NEW s \in Slot
      PROVE  Cell(q, s)' = Cell(q, s)
  BY <1>3, <1>5 DEF Cell
<1>7. /\ Contents(q) \in Seq([key : Keys \cup {BadKey}, len : 0 .. MaxPayload,
                              data : Data \cup {Null}])
      /\ Len(Contents(q)) = count[q]
      /\ \A i \in 1 .. count[q] : At(q, i) \in Slot
  BY ContentsIsSeq
<1>8. Contents(q)' = Tail(Contents(q))
  <2>1. Contents(q)' = [i \in 1 .. count[q] - 1 |-> Cell(q, At(q, i))']
    BY <1>4 DEF Contents
  <2>2. Tail(Contents(q)) = [i \in 1 .. count[q] - 1 |-> Contents(q)[i + 1]]
    <3>1. Contents(q) # <<>>
      BY <1>1, <1>7
    <3> QED
      BY <3>1, <1>7, TailAsFunction
  <2>3. ASSUME NEW i \in 1 .. count[q] - 1
        PROVE  Cell(q, At(q, i))' = Contents(q)[i + 1]
    <3>0. i + 1 \in 1 .. count[q]
      BY <1>1
    <3>1. PICK s \in Slot : s = At(q, i + 1)
      BY <3>0, <1>7
    <3>2. At(q, i)' = s
      <4>0. /\ i \in Int /\ count[q] \in Int /\ head[q] \in Int /\ Cap \in Int
            /\ 1 <= i /\ i <= count[q] - 1 /\ count[q] <= Cap
            /\ 0 <= head[q] /\ head[q] < Cap
        BY <1>1 DEF Slot
      <4>1. CASE head[q] + 1 = Cap
        <5>1. head'[q] = 0
          BY <4>1, <1>2, <1>4
        <5> QED
          BY <3>1, <4>0, <4>1, <5>1 DEF At
      <4>2. CASE head[q] + 1 # Cap
        <5>1. head'[q] = head[q] + 1
          BY <4>2, <1>2, <1>4
        <5> QED
          BY <3>1, <4>0, <5>1 DEF At
      <4> QED
        BY <4>1, <4>2
    <3>3. Contents(q)[i + 1] = Cell(q, s)
      BY <3>0, <3>1 DEF Contents
    <3>4. Cell(q, s)' = Cell(q, s)
      BY <1>6
    <3> QED
      BY <3>2, <3>3, <3>4 DEF Cell
  <2> QED
    BY <2>1, <2>2, <2>3
<1>9. ASSUME NEW r \in Prio, r # q
      PROVE  Contents(r)' = Contents(r)
  BY <1>3, <1>4, <1>9 DEF Contents, Cell, At
<1> QED
  BY <1>0, <1>8, <1>9

(* A step that keeps the dispatch frame keeps what its handler sees.       *)
LEMMA SeenStays ==
  ASSUME IInv, [Next]_vars, UNCHANGED <<cur, slot, key, len, cb>>
  PROVE  Seen' = Seen
<1>1. CASE cb = NoCb
  BY <1>1 DEF Seen
<1>2. CASE cb # NoCb
  <2>1. cur # Idle
    BY <1>2 DEF IInv, FrameInv
  <2>2. payloads'[cur][slot] = payloads[cur][slot]
    BY <2>1, PinnedStep
  <2> QED
    BY <1>2, <2>2 DEF Seen
<1> QED
  BY <1>1, <1>2

(* The abstract bus may take a step whenever the concrete one may.         *)
LEMMA MayRunMaps == MayRun <=> Promise!MayRun
BY DEF MayRun, Promise!MayRun, Promise!Idle, Idle, Seen

LEMMA InitPromise == Init => Promise!Init
<1> SUFFICES ASSUME Init PROVE Promise!Init
  OBVIOUS
<1>1. ASSUME NEW p \in Prio PROVE Contents(p) = <<>>
  BY DEF Init, Contents
<1>2. [p \in Prio |-> Contents(p)] = [p \in Promise!Prio |-> <<>>]
  BY <1>1 DEF Promise!Prio, Prio
<1> QED
  BY <1>2 DEF Init, Promise!Init, Promise!Prio, Prio, Promise!Idle, Idle, Seen

(* msgbus_post maps to an append, to a counted refusal, or to a refusal    *)
(* without effect.                                                         *)
LEMMA PostMaps ==
  ASSUME IInv, [Next]_vars, NEW p \in 0 .. NPrio, NEW m \in Inputs, Post(p, m)
  PROVE  Promise!Next
<1> DEFINE Q == [r \in Prio |-> Contents(r)]
<1>0. Promise!MayRun /\ UNCHANGED <<regs, cur, next, Seen>>
  <2>1. MayRun /\ UNCHANGED <<regs, cur, slot, key, len, next, cb>>
    BY DEF Post, frame
  <2> QED
    BY <2>1, MayRunMaps, SeenStays
<1>1. CASE UNCHANGED ring /\ rc' \in {"EINVAL", "E2BIG"}
  <2>1. Q' = Q
    BY <1>1 DEF ring, Contents, Cell, At
  <2>2. UNCHANGED drops
    BY <1>1 DEF ring
  <2>3. Promise!Refuse
    BY <1>0, <1>1, <2>1, <2>2 DEF Promise!Refuse
  <2> QED
    BY <2>3 DEF Promise!Next
<1>2. CASE /\ p \in Prio /\ m.key \in Keys /\ m.len <= MaxPayload /\ count[p] = Cap
           /\ drops' = [drops EXCEPT ![p] = @ + 1]
           /\ rc' = "ENOSPC"
           /\ UNCHANGED <<entries, payloads, head, tail, count>>
  <2>1. Q' = Q
    BY <1>2 DEF Contents, Cell, At
  <2>2. Len(Q[p]) = Cap
    BY <1>2, ContentsIsSeq
  <2>3. p \in Promise!Prio /\ m \in Promise!Msg
    BY <1>2, InputsAssumption, MaxPayloadAssumption
       DEF SapMsg, Promise!Msg, Promise!Prio, Prio
  <2>4. Promise!Post(p, m)
    BY <1>0, <1>2, <2>1, <2>2 DEF Promise!Post
  <2> QED
    BY <2>3, <2>4 DEF Promise!Next
<1>3. CASE /\ p \in Prio /\ m.key \in Keys /\ m.len <= MaxPayload
           /\ count[p] # Cap /\ Enqueue(p, m) /\ rc' = "0"
           /\ UNCHANGED <<head, drops>>
  <2>1. /\ Contents(p)' = Append(Contents(p), m)
        /\ \A r \in Prio : r # p => Contents(r)' = Contents(r)
    BY <1>3, EnqueueAppends
  <2>2. Q' = [Q EXCEPT ![p] = Append(Q[p], m)]
    BY <1>3, <2>1
  <2>3. Len(Q[p]) < Cap
    <3>1. Len(Contents(p)) = count[p] /\ count[p] \in 0 .. Cap
      BY <1>3, ContentsIsSeq
    <3> QED
      BY <1>3, <3>1, CapAssumption
  <2>4. p \in Promise!Prio /\ m \in Promise!Msg
    BY <1>3, InputsAssumption, MaxPayloadAssumption
       DEF SapMsg, Promise!Msg, Promise!Prio, Prio
  <2>5. Promise!Post(p, m)
    BY <1>0, <1>3, <2>2, <2>3 DEF Promise!Post
  <2> QED
    BY <2>4, <2>5 DEF Promise!Next
<1> QED
  BY <1>1, <1>2, <1>3 DEF Post

(* The dispatch steps map to the abstract dispatch steps.                  *)
LEMMA DispatchMaps ==
  ASSUME IInv, [Next]_vars,
         \/ \E p \in Prio : DispatchBegin(p)
         \/ \E i \in 1 .. Len(regs) : DispatchCall(i)
         \/ HandlerReturn
         \/ DispatchEnd
  PROVE  Promise!Next
<1> DEFINE Q == [r \in Prio |-> Contents(r)]
<1>1. ASSUME NEW p \in Prio, DispatchBegin(p)
      PROVE  Promise!Begin(p)
  <2>1. Q' = Q
    BY <1>1 DEF DispatchBegin, ring, Contents, Cell, At
  <2>2. Q[p] # <<>>
    BY <1>1, ContentsIsSeq DEF DispatchBegin, NextNonempty
  <2>3. ASSUME NEW h \in 0 .. (p - 1) PROVE Q[h] = <<>>
    <3>1. h \in Prio
      BY NPrioAssumption DEF Prio
    <3>2. count[h] = 0
      BY <1>1 DEF DispatchBegin, NextNonempty
    <3> QED
      BY <3>1, <3>2 DEF Contents
  <2>4. Seen' = Seen
    BY <1>1 DEF DispatchBegin, Seen, IInv, FrameInv
  <2> QED
    BY <1>1, <2>1, <2>2, <2>3, <2>4
       DEF Promise!Begin, DispatchBegin, ring, Idle, Promise!Idle
<1>2. ASSUME NEW i \in 1 .. Len(regs), DispatchCall(i)
      PROVE  Promise!Call(i)
  <2>1. Q' = Q
    BY <1>2 DEF DispatchCall, ring, Contents, Cell, At
  <2>2. /\ cur \in Prio
        /\ Head(Q[cur]) = [key |-> key, len |-> len,
              data |-> IF len > 0 THEN payloads[cur][slot] ELSE Null]
        /\ Head(Q[cur]).key = key
    BY <1>2, FrameIsHead DEF DispatchCall
  <2>3. Seen = <<>> /\ Seen' = <<regs[i].cb, Head(Q[cur])>>
    <3>1. regs[i].cb # NoCb
      <4> DEFINE Reg == [key : Keys, cb : Cbs]
      <4>1. regs \in Seq(Reg)
        BY DEF IInv, TypeOK
      <4> HIDE DEF Reg
      <4>2. regs[i] \in Reg
        BY <4>1
      <4> QED
        BY <4>2, NoCbAssumption DEF Reg
    <3> QED
      BY <1>2, <2>2, <3>1 DEF DispatchCall, Seen, ring
  <2> QED
    BY <1>2, <2>1, <2>2, <2>3
       DEF Promise!Call, Promise!Matches, Matching, DispatchCall, ring,
           Idle, Promise!Idle
<1>3. ASSUME HandlerReturn
      PROVE  Promise!Return
  <2>1. Q' = Q
    BY <1>3 DEF HandlerReturn, ring, Contents, Cell, At
  <2>2. Seen # <<>> /\ Seen' = <<>>
    BY <1>3 DEF HandlerReturn, Seen
  <2> QED
    BY <1>3, <2>1, <2>2 DEF Promise!Return, HandlerReturn, ring
<1>4. ASSUME DispatchEnd
      PROVE  Promise!End
  <2>1. cur \in Prio /\ Head(Q[cur]).key = key
    BY <1>4, FrameIsHead DEF DispatchEnd
  <2>2. Q' = [Q EXCEPT ![cur] = Tail(Q[cur])]
    BY <1>4, <2>1, EndIsTail
  <2>3. Seen = <<>> /\ Seen' = <<>>
    BY <1>4 DEF DispatchEnd, Seen
  <2> QED
    BY <1>4, <2>1, <2>2, <2>3
       DEF Promise!End, Promise!Matches, Matching, DispatchEnd, Idle, Promise!Idle
<1> QED
  BY <1>1, <1>2, <1>3, <1>4 DEF Promise!Next, Promise!Prio, Prio

(* Every step of the rings is a step of the promised bus, or a stutter.    *)
LEMMA StepPromise ==
  ASSUME IInv, [Next]_vars
  PROVE  [Promise!Next]_(Promise!vars)
<1>1. ASSUME NEW k \in Keys \cup {BadKey}, NEW f \in Cbs, Register(k, f)
      PROVE  Promise!Next
  <2>0. MayRun /\ UNCHANGED <<ring, cur, slot, key, len, next, cb>>
    BY <1>1 DEF Register, frame
  <2>1. Promise!MayRun /\ UNCHANGED <<drops, cur, next, Seen>>
    BY <2>0, MayRunMaps, SeenStays DEF ring
  <2>2. [p \in Prio |-> Contents(p)]' = [p \in Prio |-> Contents(p)]
    BY <2>0 DEF ring, Contents, Cell, At
  <2>3. CASE k \in Keys
    <3>1. Promise!Register(k, f)
      BY <1>1, <2>1, <2>2, <2>3 DEF Register, Promise!Register
    <3> QED
      BY <2>3, <3>1 DEF Promise!Next
  <2>4. CASE k \notin Keys
    <3>1. Promise!Refuse
      BY <1>1, <2>1, <2>2, <2>4 DEF Register, Promise!Refuse
    <3> QED
      BY <3>1 DEF Promise!Next
  <2> QED
    BY <2>3, <2>4
<1>2. CASE UNCHANGED vars
  <2>1. UNCHANGED <<ring, regs, frame, rc>>
    BY <1>2 DEF vars
  <2>2. [p \in Prio |-> Contents(p)]' = [p \in Prio |-> Contents(p)]
    BY <2>1 DEF ring, Contents, Cell, At
  <2>3. Seen' = Seen
    BY <2>1, SeenStays DEF frame
  <2> QED
    BY <2>1, <2>2, <2>3 DEF Promise!vars, ring, frame
<1> QED
  BY <1>1, <1>2, PostMaps, DispatchMaps DEF Next

(* The ring buffers implement the bus the header promises: one bounded     *)
(* FIFO per priority, strict priority, a count of refused posts, and each  *)
(* message shown unchanged to every matching handler in registration       *)
(* order, even when handlers post into the bucket being dispatched.        *)
THEOREM BusImplementsPromise == Spec => ImplementsPromise
<1>1. Init => Promise!Init
  BY InitPromise
<1>2. IInv /\ [Next]_vars => [Promise!Next]_(Promise!vars)
  BY StepPromise
<1>3. Spec => []IInv
  BY InitIInv, NextIInv, PTL DEF Spec
<1> QED
  BY <1>1, <1>2, <1>3, PTL DEF Spec, ImplementsPromise, Promise!Spec

=============================================================================
