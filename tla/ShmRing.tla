------------------------------- MODULE ShmRing -------------------------------
(***************************************************************************)
(* One channel of the co-simulation bridge (tb/cosim/shm_dma_bridge.c): a  *)
(* byte ring in shared memory between two processes, one that sends frames *)
(* and one that receives them, with a futex on which the receiver sleeps.  *)
(*                                                                         *)
(* The processes run on x86 (the bridge is built for the host), so every   *)
(* store goes through the store buffer of its process and reaches memory   *)
(* later, in order; a load sees the process's own buffer first.  That is   *)
(* as strong as the acquire and release operations of the code ask for.    *)
(* The futex system calls empty the buffer.                                *)
(*                                                                         *)
(* The unit of the ring is a cell: a frame is Hdr cells (the magic and the *)
(* length) and its payload.  Frames are numbered; every payload cell holds *)
(* the number of its frame, the magic too.                                 *)
(***************************************************************************)
EXTENDS Integers, Sequences

CONSTANTS
  Cap,        \* COSIM_SHM_RING_CAP, a power of two
  Wrap,       \* the range of the 32-bit cursors, a multiple of Cap
  Lengths,    \* payload lengths that are sent
  Bufs,       \* sizes of the buffers the receiver offers
  Depth,      \* bound: stores the receiver's buffer holds; the sender's holds 5
  Finite,     \* timeout_ms >= 0: the receiver's wait ends by itself
  MaxFrames   \* bound: frames handed to the sender

Hdr == 2

ASSUME ShmCapAssumption ==
  /\ Cap \in Nat /\ Cap >= Hdr
  /\ Wrap \in Nat /\ Wrap > Cap /\ Wrap % Cap = 0
ASSUME ShmLengthAssumption == Lengths \subseteq Nat /\ Bufs \subseteq Nat

VARIABLES
  mem,       \* the ring in memory, word by word
  pending,   \* pending[p]: the store buffer of process p
  spc,       \* where the sender is in cosim_shm_send_frame
  next,      \* the number of the next frame
  rpc,       \* where the receiver is in cosim_shm_recv_frame
  sent,      \* history: lengths of the frames whose send returned 0
  received   \* history: frames whose receive returned 0

vars == <<mem, pending, spc, next, rpc, sent, received>>

Procs == {"sender", "receiver"}
Words == {"head", "tail", "waiter", "buf"}
Idle == [at |-> "look", frame |-> 0, len |-> 0]

Init ==
  /\ mem = [w \in Words |-> IF w = "buf" THEN [c \in 0 .. Cap - 1 |-> 0] ELSE 0]
  /\ pending = [p \in Procs |-> <<>>]
  /\ spc = "idle" /\ next = 1
  /\ rpc = Idle
  /\ sent = <<>> /\ received = <<>>

-----------------------------------------------------------------------------
(* Memory.                                                                 *)

Store(word, v) == [word |-> word, v |-> v, at |-> 0]
Copy(at, cells) == [word |-> "buf", v |-> cells, at |-> at]

(* A process reads the youngest of its own stores to a word, or memory.    *)
Load(p, word) ==
  LET own == {i \in DOMAIN pending[p] : pending[p][i].word = word}
  IN  IF own = {} THEN mem[word]
      ELSE pending[p][CHOOSE i \in own : \A j \in own : j <= i].v

(* A process waits while its buffer has no room.                           *)
Write(p, stores) ==
  /\ Len(pending[p]) + Len(stores) <= (IF p = "sender" THEN 5 ELSE Depth)
  /\ pending' = [pending EXCEPT ![p] = @ \o stores]

(* The oldest store of a process reaches memory.                           *)
Flush(p) ==
  /\ pending[p] # <<>>
  /\ LET s == Head(pending[p]) IN
       mem' = [mem EXCEPT ![s.word] =
                 IF s.word # "buf" THEN s.v
                 ELSE [c \in 0 .. Cap - 1 |->
                         LET i == (c - s.at) % Cap IN IF i < Len(s.v) THEN s.v[i + 1] ELSE @[c]]]
  /\ pending' = [pending EXCEPT ![p] = Tail(@)]
  /\ UNCHANGED <<spc, next, rpc, sent, received>>

(* ring_used and ring_free as process p sees them.                         *)
ring_used(p) == (Load(p, "head") - Load(p, "tail")) % Wrap
ring_free(p) == Cap - ring_used(p)

(* Cells at the receiver's tail, as ring_peek and ring_pop copy them.      *)
ring_peek(n) ==
  [i \in 1 .. n |-> mem["buf"][(Load("receiver", "tail") + i - 1) % Cap]]

(* The stores of ring_push: the cells, which may wrap, then the head.      *)
ring_push(h, cells) == <<Copy(h % Cap, cells), Store("head", (h + Len(cells)) % Wrap)>>

ring_pop(n) == <<Store("tail", (Load("receiver", "tail") + n) % Wrap)>>

-----------------------------------------------------------------------------
(* cosim_shm_send_frame.                                                   *)

(* Mutant: room is asked for the payload alone.                            *)
HasRoomPayload(len) == ring_free("sender") >= len

HasRoom(len) == ring_free("sender") >= Hdr + len

(* Header and payload are pushed one after the other; a frame longer than  *)
(* the ring is refused (E2BIG).                                            *)
Push(len) ==
  LET h == Load("sender", "head") IN
  /\ spc = "idle" /\ next <= MaxFrames
  /\ Hdr + len <= Cap
  /\ HasRoom(len)
  /\ Write("sender", ring_push(h, <<next, len>>)
                       \o (IF len = 0 THEN <<>>
                           ELSE ring_push(h + Hdr, [i \in 1 .. len |-> next])))
  /\ spc' = "pushed" /\ next' = next + 1
  /\ sent' = Append(sent, [frame |-> next, len |-> len])
  /\ UNCHANGED <<mem, rpc, received>>

(* No room until the deadline: ENOSPC or ETIMEDOUT, nothing was written.   *)
GiveUp(len) ==
  /\ spc = "idle" /\ next <= MaxFrames
  /\ ~(Hdr + len <= Cap /\ HasRoom(len))
  /\ next' = next + 1
  /\ UNCHANGED <<mem, pending, spc, rpc, sent, received>>

CheckWaiter ==
  /\ spc = "pushed"
  /\ \/ /\ Load("sender", "waiter") = 0
        /\ spc' = "idle"
        /\ UNCHANGED pending
     \/ /\ Load("sender", "waiter") # 0
        /\ Write("sender", <<Store("waiter", 0)>>)
        /\ spc' = "wake"
  /\ UNCHANGED <<mem, next, rpc, sent, received>>

(* futex_wake_one.                                                         *)
Wake ==
  /\ spc = "wake" /\ pending["sender"] = <<>>
  /\ spc' = "idle"
  /\ rpc' = IF rpc.at = "asleep" THEN [rpc EXCEPT !.at = "clear"] ELSE rpc
  /\ UNCHANGED <<mem, pending, next, sent, received>>

-----------------------------------------------------------------------------
(* cosim_shm_recv_frame.                                                   *)

At(l) == rpc.at = l
Goto(l) == rpc' = [rpc EXCEPT !.at = l]

(* The whole frame is there.                                               *)
Complete(avail, plen) == avail >= Hdr + plen

(* Mutant: more than a header must be there.                               *)
HeaderThereMore(avail) == avail > Hdr

HeaderThere(avail) == avail >= Hdr

(* What the top of the loop makes of the ring, with a buffer of size n.    *)
Verdict(n) ==
  LET avail == ring_used("receiver")
      plen == ring_peek(Hdr)[2]
  IN  IF ~HeaderThere(avail) THEN "wait"
      ELSE IF plen > Cap - Hdr THEN "EBADMSG"
      ELSE IF ~Complete(avail, plen) THEN "wait"
      ELSE IF plen > n THEN "EMSGSIZE"
      ELSE "frame"

(* The header is popped.                                                   *)
PopHeader(n) ==
  LET hdr == ring_peek(Hdr) IN
  /\ At("look") /\ Verdict(n) = "frame"
  /\ Write("receiver", ring_pop(Hdr))
  /\ rpc' = [at |-> "payload", frame |-> hdr[1], len |-> hdr[2]]
  /\ UNCHANGED <<mem, spc, next, sent, received>>

(* The payload is copied out and popped; the call returns it.              *)
PopPayload ==
  /\ At("payload")
  /\ received' = Append(received, [frame |-> rpc.frame, cells |-> ring_peek(rpc.len)])
  /\ Write("receiver", IF rpc.len = 0 THEN <<>> ELSE ring_pop(rpc.len))
  /\ rpc' = Idle
  /\ UNCHANGED <<mem, spc, next, sent>>

(* An error that returns: a payload larger than the buffer stays, a length *)
(* no frame can have empties the ring.                                     *)
Refuse(n) ==
  /\ At("look") /\ Verdict(n) \in {"EMSGSIZE", "EBADMSG"}
  /\ Write("receiver", IF Verdict(n) = "EMSGSIZE" THEN <<>>
                       ELSE <<Store("tail", Load("receiver", "head"))>>)
  /\ UNCHANGED <<mem, spc, next, rpc, sent, received>>

(* Nothing to take: the intent to sleep is published, the ring looked at   *)
(* once more, and the futex entered.  (A call whose time is up returns     *)
(* instead, and the next call looks again.)                                *)
Park(n) ==
  /\ At("look") /\ Verdict(n) = "wait"
  /\ Write("receiver", <<Store("waiter", 1)>>)
  /\ Goto("recheck")
  /\ UNCHANGED <<mem, spc, next, sent, received>>

Recheck ==
  /\ At("recheck")
  /\ \/ /\ HeaderThere(ring_used("receiver"))
        /\ Write("receiver", <<Store("waiter", 0)>>)
        /\ Goto("look")
     \/ /\ ~HeaderThere(ring_used("receiver"))
        /\ Goto("enter")
        /\ UNCHANGED pending
  /\ UNCHANGED <<mem, spc, next, sent, received>>

(* FUTEX_WAIT compares the word and goes to sleep, or returns EAGAIN.      *)
Enter ==
  /\ At("enter") /\ pending["receiver"] = <<>>
  /\ Goto(IF mem["waiter"] = 1 THEN "asleep" ELSE "clear")
  /\ UNCHANGED <<mem, pending, spc, next, sent, received>>

(* ETIMEDOUT: a finite wait is cut into slices of at most a second.        *)
Timeout ==
  /\ Finite
  /\ At("asleep")
  /\ Goto("clear")
  /\ UNCHANGED <<mem, pending, spc, next, sent, received>>

Clear ==
  /\ At("clear")
  /\ Write("receiver", <<Store("waiter", 0)>>)
  /\ Goto("look")
  /\ UNCHANGED <<mem, spc, next, sent, received>>

-----------------------------------------------------------------------------
Send == \E len \in Lengths : Push(len) \/ GiveUp(len)
Receive(n) == PopHeader(n) \/ Refuse(n) \/ Park(n)
Wait == Recheck \/ Enter \/ Timeout \/ Clear

Next ==
  \/ Send \/ CheckWaiter \/ Wake
  \/ \E n \in Bufs : Receive(n)
  \/ PopPayload \/ Recheck \/ Enter \/ Timeout \/ Clear
  \/ \E p \in Procs : Flush(p)

Spec == Init /\ [][Next]_vars

(* Both processes go on, stores reach memory, and again and again the      *)
(* receiver calls with a buffer that takes any frame.                      *)
FairSpec ==
  /\ Spec
  /\ \A p \in Procs : WF_vars(Flush(p))
  /\ WF_vars(CheckWaiter) /\ WF_vars(Wake)
  /\ WF_vars(PopPayload) /\ WF_vars(Wait)
  /\ \A n \in Bufs : n >= Cap - Hdr => SF_vars(Receive(n))

-----------------------------------------------------------------------------
(* Properties.                                                             *)

Frame(s) == [frame |-> s.frame, cells |-> [i \in 1 .. s.len |-> s.frame]]

(* Whatever the two processes and their store buffers do, the receiver     *)
(* gets the frames that were sent, whole, in order, none twice, across the *)
(* end of the ring and the overflow of the cursors; an error is never      *)
(* reported for the ring's own state (a length no frame can have).         *)
InOrderAndWhole ==
  /\ \A i \in DOMAIN received : i <= Len(sent) /\ received[i] = Frame(sent[i])
  /\ \A n \in Bufs : At("look") => Verdict(n) # "EBADMSG"

(* A frame that was accepted is received, although the sender may find     *)
(* nobody waiting and the receiver may go to sleep beside a full ring: the *)
(* slices of a finite wait bring it back.                                  *)
EveryFrameArrives ==
  \A k \in 1 .. MaxFrames : Len(sent) >= k ~> Len(received) >= k

(* Does not hold.  The comment at the second look (shm_dma_bridge.c:424)   *)
(* says that it "closes the lost-wakeup race": a receiver does not sleep   *)
(* beside a complete frame that nobody will announce.  Neither process has *)
(* a full fence between its store and its load of the other's word, so the *)
(* sender may read waiter = 0 and the receiver the old head.               *)
NoLostWakeup ==
  ~(/\ At("asleep") /\ spc = "idle" /\ pending["sender"] = <<>>
    /\ ring_used("receiver") >= Hdr)
=============================================================================
