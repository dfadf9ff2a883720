----------------------------- MODULE MsgBusSpec -----------------------------
(***************************************************************************)
(* What sw/core/include/tetra/msgbus.h promises its users: one bounded     *)
(* FIFO per priority, strict priority between the buckets, a drop counter  *)
(* per bucket, and a dispatch that shows the head message, unchanged, to   *)
(* every handler registered for its key, in registration order, and only   *)
(* then removes it.  Queues are plain sequences here; MsgBus has the ring. *)
(***************************************************************************)
EXTENDS Integers, Sequences

CONSTANTS
  NPrio,      \* MsgPrio__Count: number of priority buckets (0 is the highest)
  Cap,        \* queue_cap_per_prio
  MaxPayload, \* max_payload_bytes
  RegCap,     \* MSGBUS_REG_CAP
  Keys,       \* the valid (dest, sap) pairs
  Cbs,        \* handlers that may be registered
  Data,       \* payload contents
  Null        \* the payload of a message of length 0

VARIABLES
  queue,  \* per bucket, the accepted messages that were not removed yet
  drops,  \* per bucket, posts refused because the bucket was full
  regs,   \* the registrations, in registration order
  cur,    \* the bucket being dispatched, or Idle
  next,   \* the first registration the dispatch has not looked at yet
  call,   \* the handler call in progress: <<handler, message>>, or <<>>
  rc      \* return code of the last register / post

vars == <<queue, drops, regs, cur, next, call, rc>>

Prio == 0 .. (NPrio - 1)
Idle == NPrio          \* no bucket: no dispatch is running

(* A message: its (dest, sap) key, its length in bytes and its bytes.      *)
Msg ==
  {m \in [key : Keys, len : 0 .. MaxPayload, data : Data \cup {Null}] :
     m.len = 0 <=> m.data = Null}

Matches(r, m) == r.key = m.key

(* A thread of control is inside a handler, or outside any dispatch.       *)
MayRun == cur = Idle \/ call # <<>>

Init ==
  /\ queue = [p \in Prio |-> <<>>]
  /\ drops = [p \in Prio |-> 0]
  /\ regs = <<>>
  /\ cur = Idle
  /\ next = 1
  /\ call = <<>>
  /\ rc = "0"

Register(k, cb) ==
  /\ MayRun
  /\ \/ /\ Len(regs) < RegCap
        /\ regs' = Append(regs, [key |-> k, cb |-> cb])
        /\ rc' = "0"
     \/ /\ Len(regs) >= RegCap
        /\ rc' = "ENOSPC"
        /\ UNCHANGED regs
  /\ UNCHANGED <<queue, drops, cur, next, call>>

(* A post is accepted whole, or refused and counted.                       *)
Post(p, m) ==
  /\ MayRun
  /\ \/ /\ Len(queue[p]) < Cap
        /\ queue' = [queue EXCEPT ![p] = Append(@, m)]
        /\ rc' = "0"
        /\ UNCHANGED drops
     \/ /\ Len(queue[p]) = Cap
        /\ drops' = [drops EXCEPT ![p] = @ + 1]
        /\ rc' = "ENOSPC"
        /\ UNCHANGED queue
  /\ UNCHANGED <<regs, cur, next, call>>

(* A post with a bad argument or an oversized payload has no effect.       *)
Refuse ==
  /\ MayRun
  /\ rc' \in {"EINVAL", "E2BIG"}
  /\ UNCHANGED <<queue, drops, regs, cur, next, call>>

(* Dispatch takes the highest-priority bucket that holds a message.        *)
Begin(p) ==
  /\ cur = Idle
  /\ queue[p] # <<>>
  /\ \A h \in 0 .. (p - 1) : queue[h] = <<>>
  /\ cur' = p
  /\ next' = 1
  /\ UNCHANGED <<queue, drops, regs, call, rc>>

(* The next matching handler is called with the head message.              *)
Call(i) ==
  /\ cur # Idle
  /\ call = <<>>
  /\ next <= i
  /\ Matches(regs[i], Head(queue[cur]))
  /\ \A j \in next .. (i - 1) : ~ Matches(regs[j], Head(queue[cur]))
  /\ call' = <<regs[i].cb, Head(queue[cur])>>
  /\ next' = i + 1
  /\ UNCHANGED <<queue, drops, regs, cur, rc>>

Return ==
  /\ call # <<>>
  /\ call' = <<>>
  /\ UNCHANGED <<queue, drops, regs, cur, next, rc>>

(* No matching registration is left: the message leaves its bucket.        *)
End ==
  /\ cur # Idle
  /\ call = <<>>
  /\ \A j \in next .. Len(regs) : ~ Matches(regs[j], Head(queue[cur]))
  /\ queue' = [queue EXCEPT ![cur] = Tail(@)]
  /\ cur' = Idle
  /\ next' = 1
  /\ UNCHANGED <<drops, regs, call, rc>>

Next ==
  \/ \E k \in Keys, cb \in Cbs : Register(k, cb)
  \/ \E p \in Prio, m \in Msg : Post(p, m)
  \/ Refuse
  \/ \E p \in Prio : Begin(p)
  \/ \E i \in 1 .. Len(regs) : Call(i)
  \/ Return
  \/ End

Spec == Init /\ [][Next]_vars

=============================================================================
