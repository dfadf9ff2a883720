-------------------------------- MODULE DmaRx --------------------------------
(***************************************************************************)
(* One channel of the DMA glue (sw/dma_io/dma_io.c): the byte stream of    *)
(* the mock back end, its writer, the reassembly buffer, and the drain     *)
(* loop of sw/main_loop.c that epoll starts when the channel is readable   *)
(* (it listens to all four, so that in the mock the daemon takes out of a  *)
(* transmit channel what it sent).  On a receive channel the framer writes *)
(* its bytes in any portions; on a transmit channel dma_send_frame writes  *)
(* a header and a payload and may find the pipe full at either.  Reads end *)
(* anywhere.                                                               *)
(*                                                                         *)
(* A unit of the stream stands for a word: a magic, a length and each part *)
(* of a payload are one unit, so the 8-byte header is two units and the    *)
(* hunt for a magic moves by one unit.  Magic is the value of a known      *)
(* magic; read as a length it is out of range, as 'TMAS' is.               *)
(***************************************************************************)
EXTENDS Naturals, Sequences, SequencesExt

CONSTANTS
  MaxPayload,  \* DMA_FRAME_MAX_PAYLOAD
  PipeCap,     \* capacity of the pipe
  Frames,      \* payloads the framer sends
  Noise,       \* runs of units that are no frame (lost beginnings, bad headers)
  MaxSent      \* bound: frames and runs of noise written

Magic == MaxPayload + 1
Units == 0 .. Magic
Header == 2

ASSUME MaxPayloadAssumption == MaxPayload \in Nat \ {0}
ASSUME PipeCapAssumption == PipeCap \in Nat
ASSUME FramesAssumption == Frames \subseteq Seq(Units)
ASSUME NoiseAssumption == Noise \subseteq Seq(Units)
ASSUME MaxSentAssumption == MaxSent \in Nat

VARIABLES
  dir,        \* "rx" or "tx": never changes
  wire,       \* what the framer still has to write of its last run
  pipe,       \* written and not yet read
  reasm,      \* the reassembly buffer
  pc,         \* "epoll", or "drain" inside ml_drain_dma_chan
  sent,       \* history: payloads framed
  count,      \* frames and runs of noise written or attempted
  harm,       \* history: runs of noise, and headers without their payload
  delivered   \* history: payloads the drain loop took out

vars == <<dir, wire, pipe, reasm, pc, sent, count, harm, delivered>>

(* Mutant: no room for the header.                                         *)
ReasmCapPayloadOnly == MaxPayload

(* DMA_REASM_CAP_BYTES: one longest frame with its header.                 *)
ReasmCap == Header + MaxPayload

(* Mutant: anything but idle units passes for a magic.                     *)
KnownMagicAny(u) == u # 0

(* frame_magic_is_known.                                                   *)
KnownMagic(u) == u = Magic

Result(rc, frame, rest) == [rc |-> rc, frame |-> frame, rest |-> rest]

(* Mutant: one unit too many is let through.                               *)
BadLengthOver(n) == n > MaxPayload + 1

(* The declared length is out of range.                                    *)
BadLength(n) == n > MaxPayload

(* Mutant: only the header is taken out.                                   *)
LeftoverHeaderOnly(b, total) == SubSeq(b, Header + 1, Len(b))

(* The buffer after a frame of total units is taken out of it.             *)
Leftover(b, total) == SubSeq(b, total + 1, Len(b))

(* reasm_try_extract: a frame, "more" (0) or "bad" (-EBADMSG).  The drain  *)
(* loop's buffer holds every payload, so -ENOSPC does not arise.           *)
Extract(b) ==
  LET total == Header + b[2]
  IN  IF Len(b) < Header THEN Result("more", <<>>, b)
      ELSE IF ~KnownMagic(b[1]) THEN Result("bad", <<>>, Tail(b))
      ELSE IF BadLength(b[2]) THEN Result("bad", <<>>, SubSeq(b, Header + 1, Len(b)))
      ELSE IF Len(b) < total THEN Result("more", <<>>, b)
      ELSE Result("frame", SubSeq(b, Header + 1, total), Leftover(b, total))

(* reasm_read_one: as much as there is and as fits.                        *)
ReadLen == Min({Len(pipe), ReasmCap - Len(reasm)})

Init ==
  /\ dir \in {"rx", "tx"}
  /\ wire = <<>> /\ pipe = <<>> /\ reasm = <<>>
  /\ pc = "epoll"
  /\ sent = <<>> /\ count = 0 /\ harm = 0 /\ delivered = <<>>

-----------------------------------------------------------------------------
(* The framer (external).                                                  *)

Begin ==
  /\ wire = <<>>
  /\ count < MaxSent
  /\ count' = count + 1

EmitFrame(payload) ==
  /\ Begin
  /\ dir = "rx"
  /\ Len(payload) <= MaxPayload
  /\ wire' = <<Magic, Len(payload)>> \o payload
  /\ sent' = Append(sent, payload)
  /\ UNCHANGED <<dir, pipe, reasm, pc, harm, delivered>>

EmitNoise(run) ==
  /\ Begin
  /\ wire' = run
  /\ harm' = harm + 1
  /\ UNCHANGED <<dir, pipe, reasm, pc, sent, delivered>>

Write ==
  /\ wire # <<>> /\ Len(pipe) < PipeCap
  /\ wire' = Tail(wire)
  /\ pipe' = Append(pipe, Head(wire))
  /\ UNCHANGED <<dir, reasm, pc, sent, count, harm, delivered>>

-----------------------------------------------------------------------------
(* dma_send_frame: two writes to a non-blocking pipe.  A write of at most  *)
(* PIPE_BUF bytes is taken whole or refused whole (EAGAIN).                *)
Fits(units) == Len(pipe) + Len(units) <= PipeCap

(* -EMSGSIZE.                                                              *)
TooLong(payload) == Len(payload) > MaxPayload

(* A receive channel is refused at once (-EINVAL), as a payload that is    *)
(* too long is; a header that does not fit refuses the frame with nothing  *)
(* written, a payload that does not fit leaves its header in the stream.   *)
dma_send_frame(payload) ==
  LET header == <<Magic, Len(payload)>>
  IN  /\ Begin
      /\ dir = "tx"
      /\ \/ /\ TooLong(payload) \/ ~Fits(header)
            /\ UNCHANGED <<pipe, sent, harm>>
         \/ /\ ~TooLong(payload) /\ Fits(header) /\ ~Fits(header \o payload)
            /\ pipe' = pipe \o header
            /\ harm' = harm + 1
            /\ UNCHANGED sent
         \/ /\ ~TooLong(payload) /\ Fits(header \o payload)
            /\ pipe' = pipe \o header \o payload
            /\ sent' = Append(sent, payload)
            /\ UNCHANGED harm
      /\ UNCHANGED <<dir, wire, reasm, pc, delivered>>

-----------------------------------------------------------------------------
(* epoll_wait reports the channel while the pipe holds something.          *)
Wake ==
  /\ pc = "epoll"
  /\ pipe # <<>>
  /\ pc' = "drain"
  /\ UNCHANGED <<dir, wire, pipe, reasm, sent, count, harm, delivered>>

(* What ml_drain_dma_chan makes of one dma_recv_frame that left the buffer *)
(* as r.rest: a frame with a payload is handed to ml_dispatch_tma_rx (the  *)
(* other channels' frames to nobody) and the loop goes on; an empty frame  *)
(* looks like a timeout and ends it, as an error does.                     *)
Drained(r) ==
  /\ reasm' = r.rest
  /\ IF r.rc = "frame" /\ r.frame # <<>>
     THEN /\ delivered' = Append(delivered, r.frame)
          /\ pc' = "drain"
     ELSE /\ pc' = "epoll"
          /\ UNCHANGED delivered

(* dma_recv_frame satisfied (or refused) from the buffer alone.            *)
RecvBuffered ==
  /\ pc = "drain"
  /\ Extract(reasm).rc # "more"
  /\ Drained(Extract(reasm))
  /\ UNCHANGED <<dir, wire, pipe, sent, count, harm>>

(* dma_recv_frame polls and finds nothing to read.                         *)
RecvTimeout ==
  /\ pc = "drain"
  /\ Extract(reasm).rc = "more"
  /\ pipe = <<>>
  /\ pc' = "epoll"
  /\ UNCHANGED <<dir, wire, pipe, reasm, sent, count, harm, delivered>>

(* dma_recv_frame reads once, then tries again.                            *)
RecvRead ==
  /\ pc = "drain"
  /\ Extract(reasm).rc = "more"
  /\ pipe # <<>>
  /\ pipe' = SubSeq(pipe, ReadLen + 1, Len(pipe))
  /\ Drained(Extract(reasm \o SubSeq(pipe, 1, ReadLen)))
  /\ UNCHANGED <<dir, wire, sent, count, harm>>

Next ==
  \/ \E f \in Frames : EmitFrame(f)
  \/ \E n \in Noise : EmitNoise(n)
  \/ Write
  \/ \E f \in Frames : dma_send_frame(f)
  \/ Wake
  \/ RecvBuffered
  \/ RecvTimeout
  \/ RecvRead

Spec == Init /\ [][Next]_vars

(* The framer finishes what it began; the loop returns to epoll_wait and   *)
(* epoll reports a readable channel.                                       *)
FairSpec ==
  /\ Spec
  /\ WF_vars(Write)
  /\ WF_vars(Wake)
  /\ WF_vars(RecvBuffered \/ RecvTimeout \/ RecvRead)

-----------------------------------------------------------------------------
(* Properties.                                                             *)

(* Every variable keeps its type; the reassembly buffer is never overrun   *)
(* (reasm_read_one).                                                       *)
TypeOK ==
  /\ wire \in Seq(Units) /\ pipe \in Seq(Units)
  /\ reasm \in Seq(Units) /\ Len(reasm) <= ReasmCap
  /\ pc \in {"epoll", "drain"}
  /\ count \in 0 .. MaxSent /\ harm \in 0 .. count

(* The stream holds nothing but whole frames so far.                       *)
Clean == harm = 0

(* The payloads of s that are not empty: of its first i, and of all of it.  *)
NonEmptyOf(s) ==
  LET kept[i \in 0 .. Len(s)] ==
        IF i = 0 THEN <<>>
        ELSE IF s[i] # <<>> THEN Append(kept[i - 1], s[i]) ELSE kept[i - 1]
  IN  kept
NonEmpty(s) == NonEmptyOf(s)[Len(s)]

(* "The function will NOT return half-frames" (dma_io.h:178): however the  *)
(* stream is cut by reads, what is dispatched is what was framed, in order *)
(* and without gaps, until the first noise.                                *)
WholeFrames == Clean => IsPrefix(delivered, NonEmpty(sent))

(* Whatever arrives, a full buffer always yields a frame or drops a unit:  *)
(* the channel cannot wedge with a full buffer and an unread pipe.         *)
NeverWedged ==
  Len(reasm) = ReasmCap => Extract(reasm).rc # "more"

(* The damage of a lost payload or of noise does not spread: unless a      *)
(* payload itself looks like a header, each of them makes the receiver     *)
(* dispatch at most one thing that nobody framed, then it finds the next   *)
(* header again (the two writes of dma_send_frame, reasm_try_extract).     *)
DamageBounded ==
  (\A f \in ToSet(sent) : Magic \notin ToSet(f)) =>
    Cardinality({i \in DOMAIN delivered : delivered[i] \notin ToSet(sent)}) <= harm

(* While the stream is clean and no frame is empty, every frame is         *)
(* dispatched, whatever the reads make of it (ml_drain_dma_chan).          *)
AllDelivered ==
  \A n \in 1 .. MaxSent :
    Len(sent) >= n ~> Len(delivered) >= n \/ ~Clean \/ NonEmpty(sent) # sent

(* Does not hold after noise.  dma_io.h:190-191: "read readiness = frame   *)
(* ready": while the loop waits in epoll, a complete frame in the buffer   *)
(* means that the channel is readable.  A dropped unit ends the drain loop *)
(* with frames left in the buffer.                                         *)
ReadyMeansReadable ==
  pc = "epoll" /\ Extract(reasm).rc = "frame" => pipe # <<>>
=============================================================================
