------------------------------- MODULE MsgBus -------------------------------
(***************************************************************************)
(* The daemon's message bus, sw/core/src/msgbus.c: per priority a ring of  *)
(* entry headers and a ring of payload slots, posts that copy into the     *)
(* slot at tail, and a dispatch that calls the handlers with a pointer     *)
(* INTO the slot at head and only then advances head.  A handler runs      *)
(* inside the dispatch and may post or register: those steps interleave    *)
(* with the dispatch's own.                                                *)
(*                                                                         *)
(* The bus is not thread-safe and no handler calls msgbus_dispatch_one     *)
(* (only the timer tick of main_loop.c does), so one dispatch frame is     *)
(* enough: cur, slot, key, len, next and cb are its locals.                *)
(***************************************************************************)
EXTENDS Integers, Sequences

CONSTANTS
  NPrio,      \* MsgPrio__Count: number of priority buckets (0 is the highest)
  Cap,        \* queue_cap_per_prio
  MaxPayload, \* max_payload_bytes
  RegCap,     \* MSGBUS_REG_CAP
  Keys,       \* the valid (dest, sap) pairs
  BadKey,     \* a pair with an invalid SapId
  Cbs,        \* handlers that may be registered
  NoCb,       \* no handler is running
  Data,       \* payload contents
  Null,       \* no payload (a message of length 0); also a slot never written
  Inputs,     \* the messages callers hand to msgbus_post
  MaxDrops    \* bound: posts on a full bucket stop after this many drops

Prio == 0 .. (NPrio - 1)
Slot == 0 .. (Cap - 1)
Idle == NPrio

(* A caller's SapMsg; its payload pointer is NULL exactly when len is 0.    *)
SapMsg ==
  {m \in [key : Keys \cup {BadKey}, len : Nat, data : Data \cup {Null}] :
     m.len = 0 <=> m.data = Null}

ASSUME NPrioAssumption == NPrio \in Nat \ {0}
ASSUME CapAssumption == Cap \in Nat \ {0}
ASSUME MaxPayloadAssumption == MaxPayload \in Nat \ {0}
ASSUME RegCapAssumption == RegCap \in Nat
ASSUME BadKeyAssumption == BadKey \notin Keys
ASSUME NoCbAssumption == NoCb \notin Cbs
ASSUME NullAssumption == Null \notin Data
ASSUME InputsAssumption == Inputs \subseteq SapMsg
ASSUME MaxDropsAssumption == MaxDrops \in Nat

VARIABLES
  entries,   \* [prio][slot] -> entry header [key, len, in_use]
  payloads,  \* [prio][slot] -> payload bytes
  head, tail, count, drops,  \* the MsgBusQueue fields, per prio
  regs,      \* regs[1 .. reg_count], in registration order
  cur,       \* bucket of the running dispatch (q), or Idle
  slot,      \* the slot e and msg.payload point to
  key, len,  \* the fields the dispatch copied into its local msg
  next,      \* the loop index i
  cb,        \* the handler being called, or NoCb
  rc         \* return code of the last msgbus_register / msgbus_post

ring == <<entries, payloads, head, tail, count, drops>>
frame == <<cur, slot, key, len, next, cb>>
vars == <<ring, regs, frame, rc>>

(* Code runs that may call the bus: outside a dispatch, or in a handler.   *)
MayRun == cur = Idle \/ cb # NoCb

(* msgbus_init zeroes both storages.                                       *)
Init ==
  /\ entries = [p \in Prio |->
                  [s \in Slot |-> [key |-> BadKey, len |-> 0, in_use |-> FALSE]]]
  /\ payloads = [p \in Prio |-> [s \in Slot |-> Null]]
  /\ head = [p \in Prio |-> 0]
  /\ tail = [p \in Prio |-> 0]
  /\ count = [p \in Prio |-> 0]
  /\ drops = [p \in Prio |-> 0]
  /\ regs = <<>>
  /\ cur = Idle /\ slot = 0 /\ key = BadKey /\ len = 0 /\ next = 1 /\ cb = NoCb
  /\ rc = "0"

Register(k, f) ==
  /\ MayRun
  /\ \/ /\ k \notin Keys
        /\ rc' = "EINVAL"
        /\ UNCHANGED regs
     \/ /\ k \in Keys
        /\ Len(regs) >= RegCap
        /\ rc' = "ENOSPC"
        /\ UNCHANGED regs
     \/ /\ k \in Keys
        /\ Len(regs) < RegCap
        /\ regs' = Append(regs, [key |-> k, cb |-> f])
        /\ rc' = "0"
  /\ UNCHANGED <<ring, frame>>

(* Mutant: the index runs past the ring's end.                             *)
AdvanceNoWrap(i) == i + 1

Advance(i) == (i + 1) % Cap

(* Copy the message into the slot at tail.  A message of length 0 leaves   *)
(* the slot's old payload bytes in place.                                  *)
Enqueue(p, m) ==
  /\ entries' = [entries EXCEPT ![p][tail[p]] =
                   [key |-> m.key, len |-> m.len, in_use |-> TRUE]]
  /\ payloads' = IF m.len > 0
                 THEN [payloads EXCEPT ![p][tail[p]] = m.data]
                 ELSE payloads
  /\ tail' = [tail EXCEPT ![p] = Advance(@)]
  /\ count' = [count EXCEPT ![p] = @ + 1]

(* Mutant: the full-bucket test is missing.                                *)
PostUnbounded(p, m) ==
  /\ MayRun
  /\ p \in Prio /\ m.key \in Keys /\ m.len <= MaxPayload
  /\ Enqueue(p, m)
  /\ rc' = "0"
  /\ UNCHANGED <<head, drops, regs, frame>>

Post(p, m) ==
  /\ MayRun
  /\ \/ /\ p \notin Prio \/ m.key \notin Keys
        /\ rc' = "EINVAL"
        /\ UNCHANGED ring
     \/ /\ p \in Prio /\ m.key \in Keys
        /\ m.len > MaxPayload
        /\ rc' = "E2BIG"
        /\ UNCHANGED ring
     \/ /\ p \in Prio /\ m.key \in Keys
        /\ m.len <= MaxPayload
        /\ count[p] = Cap
        /\ drops[p] < MaxDrops
        /\ drops' = [drops EXCEPT ![p] = @ + 1]
        /\ rc' = "ENOSPC"
        /\ UNCHANGED <<entries, payloads, head, tail, count>>
     \/ /\ p \in Prio /\ m.key \in Keys
        /\ m.len <= MaxPayload
        /\ count[p] # Cap
        /\ Enqueue(p, m)
        /\ rc' = "0"
        /\ UNCHANGED <<head, drops>>
  /\ UNCHANGED <<regs, frame>>

(* Mutant: any bucket with a message will do.                              *)
NonemptyAnyPrio(p) == count[p] > 0

(* p is the bucket next_nonempty_queue returns.                            *)
NextNonempty(p) == count[p] > 0 /\ \A h \in 0 .. (p - 1) : count[h] = 0

(* Mutant: the entry is popped before its handlers run.                    *)
DispatchBeginPop(p) ==
  /\ cur = Idle
  /\ NextNonempty(p)
  /\ cur' = p
  /\ slot' = head[p]
  /\ key' = entries[p][head[p]].key
  /\ len' = entries[p][head[p]].len
  /\ next' = 1
  /\ cb' = NoCb
  /\ entries' = [entries EXCEPT ![p][head[p]].in_use = FALSE]
  /\ head' = [head EXCEPT ![p] = Advance(@)]
  /\ count' = [count EXCEPT ![p] = @ - 1]
  /\ UNCHANGED <<payloads, tail, drops, regs, rc>>

DispatchBegin(p) ==
  /\ cur = Idle
  /\ NextNonempty(p)
  /\ cur' = p
  /\ slot' = head[p]
  /\ key' = entries[p][head[p]].key
  /\ len' = entries[p][head[p]].len
  /\ next' = 1
  /\ cb' = NoCb
  /\ UNCHANGED <<ring, regs, rc>>

Matching(i) == regs[i].key = key

(* The loop reaches the next matching registration i and calls it.         *)
DispatchCall(i) ==
  /\ cur # Idle
  /\ cb = NoCb
  /\ next <= i
  /\ Matching(i)
  /\ \A j \in next .. (i - 1) : ~ Matching(j)
  /\ cb' = regs[i].cb
  /\ next' = i + 1
  /\ UNCHANGED <<ring, regs, cur, slot, key, len, rc>>

(* Mutant: the dispatch never leaves a handler's call (next goes back).    *)
HandlerReturnRepeats ==
  /\ cb # NoCb
  /\ cb' = NoCb
  /\ next' = 1
  /\ UNCHANGED <<ring, regs, cur, slot, key, len, rc>>

HandlerReturn ==
  /\ cb # NoCb
  /\ cb' = NoCb
  /\ UNCHANGED <<ring, regs, cur, slot, key, len, next, rc>>

(* Mutant: the count is not taken down.                                    *)
DispatchEndKeepsCount ==
  /\ cur # Idle
  /\ cb = NoCb
  /\ \A j \in next .. Len(regs) : ~ Matching(j)
  /\ entries' = [entries EXCEPT ![cur][slot].in_use = FALSE]
  /\ head' = [head EXCEPT ![cur] = Advance(@)]
  /\ cur' = Idle
  /\ slot' = 0 /\ key' = BadKey /\ len' = 0 /\ next' = 1 /\ cb' = NoCb
  /\ UNCHANGED <<payloads, tail, count, drops, regs, rc>>

(* The loop ran off reg_count: free the slot and advance head.             *)
DispatchEnd ==
  /\ cur # Idle
  /\ cb = NoCb
  /\ \A j \in next .. Len(regs) : ~ Matching(j)
  /\ entries' = [entries EXCEPT ![cur][slot].in_use = FALSE]
  /\ head' = [head EXCEPT ![cur] = Advance(@)]
  /\ count' = [count EXCEPT ![cur] = @ - 1]
  /\ cur' = Idle
  /\ slot' = 0 /\ key' = BadKey /\ len' = 0 /\ next' = 1 /\ cb' = NoCb
  /\ UNCHANGED <<payloads, tail, drops, regs, rc>>

Next ==
  \/ \E k \in Keys \cup {BadKey}, f \in Cbs : Register(k, f)
  \/ \E p \in 0 .. NPrio, m \in Inputs : Post(p, m)
  \/ \E p \in Prio : DispatchBegin(p)
  \/ \E i \in 1 .. Len(regs) : DispatchCall(i)
  \/ HandlerReturn
  \/ DispatchEnd

Spec == Init /\ [][Next]_vars

(* The main loop keeps dispatching and every handler is a C function that  *)
(* returns; nothing obliges anyone to post.                                *)
Fairness ==
  /\ WF_vars(\E p \in Prio : DispatchBegin(p))
  /\ WF_vars(\E i \in 1 .. Len(regs) : DispatchCall(i))
  /\ WF_vars(HandlerReturn)
  /\ WF_vars(DispatchEnd)

FairSpec == Spec /\ Fairness

-----------------------------------------------------------------------------
(* The distance of slot s from head, going round the ring.                 *)
Dist(p, s) == IF s >= head[p] THEN s - head[p] ELSE s + Cap - head[p]

(* Every variable has its type; the dispatch frame is either idle or a     *)
(* complete set of locals (msgbus_dispatch_one).                           *)
TypeOK ==
  /\ entries \in [Prio -> [Slot ->
       [key : Keys \cup {BadKey}, len : 0 .. MaxPayload, in_use : BOOLEAN]]]
  /\ payloads \in [Prio -> [Slot -> Data \cup {Null}]]
  /\ head \in [Prio -> Slot]
  /\ tail \in [Prio -> Slot]
  /\ count \in [Prio -> 0 .. Cap]
  /\ drops \in [Prio -> Nat]
  /\ regs \in Seq([key : Keys, cb : Cbs])
  /\ cur \in Prio \cup {Idle}
  /\ slot \in Slot
  /\ key \in Keys \cup {BadKey}
  /\ len \in 0 .. MaxPayload
  /\ next \in Nat \ {0}
  /\ cb \in Cbs \cup {NoCb}
  /\ rc \in {"0", "EINVAL", "E2BIG", "ENOSPC"}

(* Post and dispatch keep the three ring indices consistent, and exactly   *)
(* the count slots from head on are marked in_use, each with a valid key   *)
(* (msgbus_post, msgbus_dispatch_one).                                     *)
RingInv ==
  /\ \A p \in Prio :
       tail[p] = IF head[p] + count[p] < Cap THEN head[p] + count[p]
                                             ELSE head[p] + count[p] - Cap
  /\ \A p \in Prio, s \in Slot :
       /\ entries[p][s].in_use <=> Dist(p, s) < count[p]
       /\ entries[p][s].in_use =>
            /\ entries[p][s].key \in Keys
            /\ entries[p][s].len > 0 => payloads[p][s] \in Data

(* While handlers run, the slot they read through msg.payload is still the *)
(* occupied head of its bucket and carries the header copied at the start: *)
(* nothing the handlers posted has reused it (msgbus_dispatch_one).        *)
FrameInv ==
  /\ cur # Idle =>
       /\ count[cur] > 0
       /\ slot = head[cur]
       /\ key = entries[cur][slot].key
       /\ len = entries[cur][slot].len
  /\ cur = Idle => cb = NoCb

(* The bytes behind the handler's payload pointer never change between     *)
(* the start of a dispatch and its end, whatever handlers post meanwhile.  *)
PayloadPinned ==
  [][cur # Idle => payloads'[cur][slot] = payloads[cur][slot]]_vars

(* The head message of the highest-priority bucket is always dispatched to *)
(* the end, however much is posted meanwhile (rings of more than one slot).   *)
HighIsServed ==
  \A s \in Slot : (count[0] > 0 /\ head[0] = s) ~> head[0] # s

-----------------------------------------------------------------------------
(* The bucket's contents, oldest first, as the sequence it stands for.     *)
Cell(p, s) ==
  [key |-> entries[p][s].key,
   len |-> entries[p][s].len,
   data |-> IF entries[p][s].len > 0 THEN payloads[p][s] ELSE Null]

At(p, i) ==
  IF head[p] + i - 1 < Cap THEN head[p] + i - 1 ELSE head[p] + i - 1 - Cap

Contents(p) == [i \in 1 .. count[p] |-> Cell(p, At(p, i))]

(* What the running handler sees through its SapMsg: the copied header and *)
(* the bytes its payload pointer points to NOW.                            *)
Seen ==
  IF cb = NoCb THEN <<>>
  ELSE <<cb, [key |-> key, len |-> len,
              data |-> IF len > 0 THEN payloads[cur][slot] ELSE Null]>>

Promise == INSTANCE MsgBusSpec WITH
  queue <- [p \in Prio |-> Contents(p)],
  call <- Seen

(* The rings implement the header's promise: bounded FIFOs, strict         *)
(* priority, every matching handler once, in order, with the posted bytes. *)
ImplementsPromise == Promise!Spec

=============================================================================
