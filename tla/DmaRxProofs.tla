----------------------------- MODULE DmaRxProofs -----------------------------
(***************************************************************************)
(* Proofs about DmaRx for every size of payload and pipe, every set of     *)
(* frames and of noise: the reassembly buffer is never overrun, a full     *)
(* buffer always moves, and as long as the stream holds nothing but whole  *)
(* frames, what the drain loop dispatches is what was framed, in order.    *)
(* Where it holds more, each harm costs at most one frame nobody framed.   *)
(***************************************************************************)
EXTENDS DmaRx, SequenceTheorems, FiniteSetTheorems, WellFoundedInduction, TLAPS

-----------------------------------------------------------------------------
(* Sequences and numbers.                                                  *)

(* A non-empty set of numbers has a least element.                         *)
LEMMA LeastExists ==
  ASSUME NEW S, S \subseteq Nat, S # {}
  PROVE  \E i \in S : \A j \in S : i <= j
<1> DEFINE R == {ss \in Nat \X Nat : ss[1] < ss[2]}
<1>1. IsWellFoundedOn(R, Nat)
  BY NatLessThanWellFounded DEF OpToRel
<1>2. ASSUME NEW i \in S, NEW j \in S, ~(<<j, i>> \in R)
      PROVE  i <= j
  <2>1. i \in Nat /\ j \in Nat
    OBVIOUS
  <2>2. ~(j < i)
    BY <1>2, <2>1
  <2> QED
    BY <2>1, <2>2
<1> HIDE DEF R
<1>3. \E i \in S : \A j \in S : ~(<<j, i>> \in R)
  BY <1>1, WFMin
<1> QED
  BY <1>2, <1>3

(* The smaller of two numbers.                                             *)
LEMMA MinOfTwo ==
  ASSUME NEW a \in Nat, NEW b \in Nat
  PROVE  /\ Min({a, b}) \in {a, b}
         /\ Min({a, b}) <= a
         /\ Min({a, b}) <= b
<1> DEFINE S == {a, b}
           P(x) == x \in S /\ \A y \in S : x <= y
<1>1. \E x : P(x)
  <2>1. CASE a <= b
    BY <2>1
  <2>2. CASE ~(a <= b)
    BY <2>2
  <2> QED
    BY <2>1, <2>2
<1>2. Min(S) = CHOOSE x \in S : \A y \in S : x <= y
  BY DEF Min
<1>3. P(Min(S))
  BY <1>1, <1>2
<1> QED
  BY <1>3

(* The part of a sequence after its first n elements.                      *)
LEMMA Rest ==
  ASSUME NEW S, NEW s \in Seq(S), NEW n \in Nat, n <= Len(s)
  PROVE  /\ SubSeq(s, n + 1, Len(s)) \in Seq(S)
         /\ Len(SubSeq(s, n + 1, Len(s))) = Len(s) - n
         /\ \A i \in 1 .. Len(s) - n : SubSeq(s, n + 1, Len(s))[i] = s[n + i]
<1>1. Len(s) \in Nat /\ \A i \in (n + 1) .. Len(s) : s[i] \in S
  BY LenProperties, ElementOfSeq
<1>2. /\ SubSeq(s, n + 1, Len(s)) \in Seq(S)
      /\ Len(SubSeq(s, n + 1, Len(s))) = IF n + 1 <= Len(s) THEN Len(s) - (n + 1) + 1 ELSE 0
      /\ \A i \in 1 .. Len(s) - (n + 1) + 1 : SubSeq(s, n + 1, Len(s))[i] = s[(n + 1) + i - 1]
  BY <1>1, SubSeqProperties
<1> QED
  BY <1>1, <1>2

(* The first n elements of a sequence.                                     *)
LEMMA Start ==
  ASSUME NEW S, NEW s \in Seq(S), NEW n \in Nat, n <= Len(s)
  PROVE  /\ SubSeq(s, 1, n) \in Seq(S)
         /\ Len(SubSeq(s, 1, n)) = n
         /\ \A i \in 1 .. n : SubSeq(s, 1, n)[i] = s[i]
<1>1. Len(s) \in Nat /\ \A i \in 1 .. n : s[i] \in S
  BY LenProperties, ElementOfSeq
<1>2. /\ SubSeq(s, 1, n) \in Seq(S)
      /\ Len(SubSeq(s, 1, n)) = IF 1 <= n THEN n - 1 + 1 ELSE 0
      /\ \A i \in 1 .. n - 1 + 1 : SubSeq(s, 1, n)[i] = s[1 + i - 1]
  BY <1>1, SubSeqProperties
<1> QED
  BY <1>1, <1>2

(* A sequence is cut and put together again.                               *)
LEMMA CutAnywhere ==
  ASSUME NEW S, NEW s \in Seq(S), NEW n \in Nat, n <= Len(s)
  PROVE  SubSeq(s, 1, n) \o SubSeq(s, n + 1, Len(s)) = s
<1>1. Len(s) \in Nat
  BY LenProperties
<1>2. 1 \in 1 .. Len(s) + 1 /\ n \in 1 - 1 .. Len(s) /\ Len(s) \in n .. Len(s)
  BY <1>1
<1>3. SubSeq(s, 1, n) \o SubSeq(s, n + 1, Len(s)) = SubSeq(s, 1, Len(s))
  BY <1>2, ConcatAdjacentSubSeq
<1> QED
  BY <1>3, SubSeqFull

-----------------------------------------------------------------------------
(* Type correctness and a buffer that always moves.                        *)

(* What reasm_try_extract returns is made of what it was given.            *)
LEMMA ExtractTypes ==
  ASSUME NEW b \in Seq(Units)
  PROVE  /\ Extract(b).rest \in Seq(Units)
         /\ Len(Extract(b).rest) <= Len(b)
         /\ Extract(b).frame \in Seq(Units)
         /\ Extract(b).rc \in {"more", "bad", "frame"}
<1> DEFINE total == Header + b[2]
<1>0. Len(b) \in Nat
  BY LenProperties
<1>1. CASE Len(b) < Header
  <2>1. Extract(b) = Result("more", <<>>, b)
    BY <1>1 DEF Extract
  <2> QED
    BY <1>0, <2>1, EmptySeq DEF Result
<1>2. CASE ~(Len(b) < Header) /\ ~KnownMagic(b[1])
  <2>1. Extract(b) = Result("bad", <<>>, Tail(b))
    BY <1>2 DEF Extract
  <2>2. b # <<>>
    BY <1>2, EmptySeq DEF Header
  <2>3. Tail(b) \in Seq(Units) /\ Len(Tail(b)) = Len(b) - 1
    BY <2>2, HeadTailProperties
  <2> QED
    BY <1>0, <2>1, <2>3, EmptySeq DEF Result
<1>3. CASE ~(Len(b) < Header) /\ KnownMagic(b[1]) /\ BadLength(b[2])
  <2>1. Extract(b) = Result("bad", <<>>, SubSeq(b, Header + 1, Len(b)))
    BY <1>3 DEF Extract
  <2>2. Header \in Nat /\ Header <= Len(b)
    BY <1>0, <1>3 DEF Header
  <2>3. /\ SubSeq(b, Header + 1, Len(b)) \in Seq(Units)
        /\ Len(SubSeq(b, Header + 1, Len(b))) = Len(b) - Header
    BY <2>2, Rest
  <2> QED
    BY <1>0, <2>1, <2>2, <2>3, EmptySeq DEF Result
<1>4. CASE ~(Len(b) < Header) /\ KnownMagic(b[1]) /\ ~BadLength(b[2]) /\ Len(b) < total
  <2>1. Extract(b) = Result("more", <<>>, b)
    BY <1>4 DEF Extract
  <2> QED
    BY <1>0, <2>1, EmptySeq DEF Result
<1>5. CASE ~(Len(b) < Header) /\ KnownMagic(b[1]) /\ ~BadLength(b[2]) /\ ~(Len(b) < total)
  <2>1. Extract(b) = Result("frame", SubSeq(b, Header + 1, total), Leftover(b, total))
    BY <1>5 DEF Extract
  <2>2. 2 \in 1 .. Len(b) /\ Header \in Nat
    BY <1>0, <1>5 DEF Header
  <2>3. b[2] \in Nat
    BY <2>2, ElementOfSeq, MaxPayloadAssumption DEF Units, Magic
  <2>4. total \in Nat /\ total <= Len(b)
    BY <1>0, <1>5, <2>2, <2>3
  <2> HIDE DEF total
  <2>5. Leftover(b, total) \in Seq(Units) /\ Len(Leftover(b, total)) = Len(b) - total
    BY <2>4, Rest DEF Leftover
  <2>6. \A i \in (Header + 1) .. total : b[i] \in Units
    BY <1>0, <2>2, <2>4, ElementOfSeq
  <2>7. SubSeq(b, Header + 1, total) \in Seq(Units)
    BY <2>2, <2>4, <2>6, SubSeqProperties
  <2> QED
    BY <1>0, <2>1, <2>4, <2>5, <2>7 DEF Result
<1> QED
  BY <1>1, <1>2, <1>3, <1>4, <1>5

(* A buffer of the capacity of the longest frame cannot hold an unfinished *)
(* one.                                                                    *)
LEMMA FullMoves ==
  ASSUME NEW b \in Seq(Units), Len(b) = ReasmCap
  PROVE  Extract(b).rc # "more"
<1> DEFINE total == Header + b[2]
<1>1. ~(Len(b) < Header) /\ 2 \in 1 .. Len(b)
  BY MaxPayloadAssumption DEF ReasmCap, Header
<1>2. b[2] \in Nat
  BY <1>1, ElementOfSeq, MaxPayloadAssumption DEF Units, Magic
<1>3. ~BadLength(b[2]) => ~(Len(b) < total)
  BY <1>2, MaxPayloadAssumption DEF BadLength, ReasmCap, Header
<1>4. Extract(b).rc \in {"bad", "frame"}
  BY <1>1, <1>3 DEF Extract, Result
<1> QED
  BY <1>4
-----------------------------------------------------------------------------
(* The types: what the runs check, and what was framed and dispatched.     *)
Fitting(s) == s \in Seq(Seq(Units)) /\ \A i \in 1 .. Len(s) : Len(s[i]) <= MaxPayload

Types == TypeOK /\ Fitting(sent) /\ delivered \in Seq(Seq(Units))

LEMMA UnitFacts ==
  /\ Magic \in Units
  /\ MaxPayload \in Nat
  /\ \A f \in Seq(Units) : Len(f) <= MaxPayload => Len(f) \in Units
  /\ Units \subseteq Nat
  /\ ReasmCap \in Nat
<1>1. \A f \in Seq(Units) : Len(f) \in Nat
  BY LenProperties
<1> QED
  BY <1>1, MaxPayloadAssumption DEF Magic, Units, ReasmCap, Header

(* A header and a payload are units.                                       *)
LEMMA FrameIsUnits ==
  ASSUME NEW f \in Seq(Units), Len(f) <= MaxPayload
  PROVE  /\ <<Magic, Len(f)>> \in Seq(Units)
         /\ Len(<<Magic, Len(f)>>) = 2
         /\ <<Magic, Len(f)>> \o f \in Seq(Units)
<1>1. Magic \in Units /\ Len(f) \in Units
  BY UnitFacts
<1>2. <<Magic, Len(f)>> \in Seq(Units) /\ Len(<<Magic, Len(f)>>) = 2
  BY <1>1
<1> QED
  BY <1>2, ConcatProperties

(* Another frame in the list of those framed.                              *)
LEMMA AppendFitting ==
  ASSUME NEW s, Fitting(s), NEW f \in Seq(Units), Len(f) <= MaxPayload
  PROVE  Fitting(Append(s, f))
<1>0. s \in Seq(Seq(Units)) /\ \A i \in 1 .. Len(s) : Len(s[i]) <= MaxPayload
  BY DEF Fitting
<1>1. /\ Append(s, f) \in Seq(Seq(Units))
      /\ Len(Append(s, f)) = Len(s) + 1
      /\ \A i \in 1 .. Len(s) : Append(s, f)[i] = s[i]
      /\ Append(s, f)[Len(s) + 1] = f
      /\ Len(s) \in Nat
  BY <1>0, AppendProperties, LenProperties
<1> DEFINE t == Append(s, f)
<1>2. ASSUME NEW i \in 1 .. Len(t)
      PROVE  Len(t[i]) <= MaxPayload
  <2> HIDE DEF t
  <2>1. i \in 1 .. Len(s) \/ i = Len(s) + 1
    BY <1>1 DEF t
  <2>2. CASE i \in 1 .. Len(s)
    <3>1. t[i] = s[i]
      BY <1>1, <2>2 DEF t
    <3> QED
      BY <1>0, <2>2, <3>1
  <2>3. CASE i = Len(s) + 1
    <3>1. t[i] = f
      BY <1>1, <2>3 DEF t
    <3> QED
      BY <3>1
  <2> QED
    BY <2>1, <2>2, <2>3
<1> QED
  BY <1>1, <1>2 DEF Fitting

(* How much a read takes.                                                  *)
LEMMA ReadFacts ==
  ASSUME Types
  PROVE  /\ ReadLen \in Nat
         /\ ReadLen <= Len(pipe)
         /\ Len(reasm) + ReadLen <= ReasmCap
         /\ SubSeq(pipe, 1, ReadLen) \in Seq(Units)
         /\ SubSeq(pipe, ReadLen + 1, Len(pipe)) \in Seq(Units)
         /\ reasm \o SubSeq(pipe, 1, ReadLen) \in Seq(Units)
         /\ Len(reasm \o SubSeq(pipe, 1, ReadLen)) = Len(reasm) + ReadLen
<1>0. pipe \in Seq(Units) /\ reasm \in Seq(Units) /\ Len(reasm) <= ReasmCap
  BY DEF Types, TypeOK
<1>1. Len(pipe) \in Nat /\ Len(reasm) \in Nat /\ ReasmCap \in Nat
  BY <1>0, LenProperties, UnitFacts
<1>2. ReasmCap - Len(reasm) \in Nat
  BY <1>0, <1>1
<1>3. /\ ReadLen \in {Len(pipe), ReasmCap - Len(reasm)}
      /\ ReadLen <= Len(pipe)
      /\ ReadLen <= ReasmCap - Len(reasm)
  BY <1>1, <1>2, MinOfTwo DEF ReadLen
<1>4. ReadLen \in Nat /\ ReadLen <= Len(pipe) /\ Len(reasm) + ReadLen <= ReasmCap
  BY <1>1, <1>2, <1>3
<1>5. /\ SubSeq(pipe, 1, ReadLen) \in Seq(Units)
      /\ Len(SubSeq(pipe, 1, ReadLen)) = ReadLen
  BY <1>0, <1>4, Start
<1>6. SubSeq(pipe, ReadLen + 1, Len(pipe)) \in Seq(Units)
  BY <1>0, <1>4, Rest
<1>7. /\ reasm \o SubSeq(pipe, 1, ReadLen) \in Seq(Units)
      /\ Len(reasm \o SubSeq(pipe, 1, ReadLen)) = Len(reasm) + ReadLen
  BY <1>0, <1>5, ConcatProperties
<1> QED
  BY <1>4, <1>5, <1>6, <1>7

(* One dma_recv_frame out of b keeps the types of what it changes.         *)
LEMMA DrainedTypes ==
  ASSUME Types, NEW b \in Seq(Units), Len(b) <= ReasmCap, Drained(Extract(b))
  PROVE  /\ reasm' \in Seq(Units)
         /\ Len(reasm') <= ReasmCap
         /\ pc' \in {"epoll", "drain"}
         /\ delivered' \in Seq(Seq(Units))
<1> DEFINE r == Extract(b)
<1>0. Len(b) \in Nat /\ ReasmCap \in Nat /\ delivered \in Seq(Seq(Units))
  BY LenProperties, UnitFacts DEF Types
<1>1. /\ r.rest \in Seq(Units)
      /\ Len(r.rest) <= Len(b)
      /\ r.frame \in Seq(Units)
  BY ExtractTypes
<1>2. Len(r.rest) \in Nat
  BY <1>1, LenProperties
<1> HIDE DEF r
<1>3. reasm' = r.rest
  BY DEF Drained, r
<1>4. /\ pc' \in {"epoll", "drain"}
      /\ delivered' = delivered \/ delivered' = Append(delivered, r.frame)
  BY DEF Drained, r
<1>5. Append(delivered, r.frame) \in Seq(Seq(Units))
  BY <1>0, <1>1, AppendProperties
<1>6. Len(reasm') <= ReasmCap
  BY <1>0, <1>1, <1>2, <1>3
<1> QED
  BY <1>0, <1>1, <1>3, <1>4, <1>5, <1>6

LEMMA InitTypes ==
  Init => Types
<1> SUFFICES ASSUME Init PROVE Types
  OBVIOUS
<1>1. <<>> \in Seq(Units) /\ <<>> \in Seq(Seq(Units)) /\ Len(<<>>) = 0
  BY EmptySeq
<1>2. TypeOK
  BY <1>1, UnitFacts, MaxSentAssumption DEF Init, TypeOK
<1> QED
  BY <1>1, <1>2 DEF Init, Types, Fitting

LEMMA SendTypes ==
  ASSUME Types, NEW f \in Frames, dma_send_frame(f)
  PROVE  Types'
<1> DEFINE header == <<Magic, Len(f)>>
<1>0. /\ f \in Seq(Units) /\ Len(f) \in Nat /\ MaxPayload \in Nat
      /\ pipe \in Seq(Units)
      /\ count \in 0 .. MaxSent /\ harm \in 0 .. count
      /\ Fitting(sent)
  BY FramesAssumption, LenProperties, UnitFacts DEF Types, TypeOK
<1>1. /\ count < MaxSent /\ count' = count + 1
      /\ UNCHANGED <<dir, wire, reasm, pc, delivered>>
  BY DEF dma_send_frame, Begin
<1>2. \/ UNCHANGED <<pipe, sent, harm>>
      \/ ~TooLong(f) /\ pipe' = pipe \o header /\ harm' = harm + 1 /\ sent' = sent
      \/ ~TooLong(f) /\ pipe' = pipe \o header \o f /\ sent' = Append(sent, f) /\ harm' = harm
  BY DEF dma_send_frame
<1>3. ~TooLong(f) => Len(f) <= MaxPayload
  BY <1>0 DEF TooLong
<1>4. ~TooLong(f) => header \in Seq(Units)
  BY <1>0, <1>3, FrameIsUnits
<1> HIDE DEF header
<1>5. ~TooLong(f) => pipe \o header \in Seq(Units) /\ pipe \o header \o f \in Seq(Units)
  BY <1>0, <1>4, ConcatProperties
<1>6. pipe' \in Seq(Units)
  BY <1>0, <1>2, <1>5
<1>7. count' \in 0 .. MaxSent /\ harm' \in 0 .. count'
  BY <1>0, <1>1, <1>2, MaxSentAssumption
<1>8. Fitting(sent)'
  <2>1. CASE sent' = sent
    BY <1>0, <2>1 DEF Fitting
  <2>2. CASE ~TooLong(f) /\ sent' = Append(sent, f)
    <3>1. Fitting(Append(sent, f))
      BY <1>0, <1>3, <2>2, AppendFitting
    <3> QED
      BY <2>2, <3>1 DEF Fitting
  <2> QED
    BY <1>2, <2>1, <2>2
<1> QED
  BY <1>1, <1>6, <1>7, <1>8 DEF Types, TypeOK

LEMMA EmitTypes ==
  ASSUME Types, NEW f \in Frames, EmitFrame(f)
  PROVE  Types'
<1>0. /\ f \in Seq(Units) /\ Len(f) \in Nat /\ MaxPayload \in Nat
      /\ count \in 0 .. MaxSent /\ harm \in 0 .. count
      /\ Fitting(sent)
  BY FramesAssumption, LenProperties, UnitFacts DEF Types, TypeOK
<1>1. /\ count < MaxSent /\ count' = count + 1 /\ Len(f) <= MaxPayload
      /\ wire' = <<Magic, Len(f)>> \o f /\ sent' = Append(sent, f)
      /\ UNCHANGED <<dir, pipe, reasm, pc, harm, delivered>>
  BY DEF EmitFrame, Begin
<1>2. wire' \in Seq(Units)
  BY <1>0, <1>1, FrameIsUnits
<1>3. count' \in 0 .. MaxSent /\ harm' \in 0 .. count'
  BY <1>0, <1>1, MaxSentAssumption
<1>4. Fitting(Append(sent, f))
  BY <1>0, <1>1, AppendFitting
<1>5. Fitting(sent)'
  BY <1>1, <1>4 DEF Fitting
<1> QED
  BY <1>1, <1>2, <1>3, <1>5 DEF Types, TypeOK

LEMMA NextTypes ==
  ASSUME Types, [Next]_vars
  PROVE  Types'
<1>1. CASE UNCHANGED vars
  BY <1>1 DEF vars, Types, TypeOK, Fitting
<1>2. ASSUME NEW f \in Frames, EmitFrame(f)
      PROVE  Types'
  BY <1>2, EmitTypes
<1>3. ASSUME NEW n \in Noise, EmitNoise(n)
      PROVE  Types'
  <2>1. /\ n \in Seq(Units) /\ count \in 0 .. MaxSent /\ harm \in 0 .. count
    BY NoiseAssumption DEF Types, TypeOK
  <2>2. /\ count < MaxSent /\ count' = count + 1 /\ harm' = harm + 1 /\ wire' = n
        /\ UNCHANGED <<dir, pipe, reasm, pc, sent, delivered>>
    BY <1>3 DEF EmitNoise, Begin
  <2>3. count' \in 0 .. MaxSent /\ harm' \in 0 .. count'
    BY <2>1, <2>2, MaxSentAssumption
  <2> QED
    BY <2>1, <2>2, <2>3 DEF Types, TypeOK, Fitting
<1>4. CASE Write
  <2>1. wire \in Seq(Units) /\ wire # <<>> /\ pipe \in Seq(Units)
    BY <1>4 DEF Write, Types, TypeOK, Fitting
  <2>2. Head(wire) \in Units /\ Tail(wire) \in Seq(Units)
    BY <2>1, HeadTailProperties
  <2>3. Append(pipe, Head(wire)) \in Seq(Units)
    BY <2>1, <2>2, AppendProperties
  <2> QED
    BY <1>4, <2>2, <2>3 DEF Write, Types, TypeOK, Fitting
<1>5. ASSUME NEW f \in Frames, dma_send_frame(f)
      PROVE  Types'
  BY <1>5, SendTypes
<1>6. CASE Wake
  BY <1>6 DEF Wake, Types, TypeOK, Fitting
<1>7. CASE RecvBuffered
  <2>1. /\ reasm' \in Seq(Units) /\ Len(reasm') <= ReasmCap
        /\ pc' \in {"epoll", "drain"} /\ delivered' \in Seq(Seq(Units))
    <3>1. reasm \in Seq(Units) /\ Len(reasm) <= ReasmCap /\ Drained(Extract(reasm))
      BY <1>7 DEF RecvBuffered, Types, TypeOK, Fitting
    <3> QED
      BY <3>1, DrainedTypes
  <2> QED
    BY <1>7, <2>1 DEF RecvBuffered, Types, TypeOK, Fitting
<1>8. CASE RecvTimeout
  BY <1>8 DEF RecvTimeout, Types, TypeOK, Fitting
<1>9. CASE RecvRead
  <2> DEFINE b == reasm \o SubSeq(pipe, 1, ReadLen)
  <2>1. /\ b \in Seq(Units) /\ Len(b) <= ReasmCap
        /\ SubSeq(pipe, ReadLen + 1, Len(pipe)) \in Seq(Units)
    BY ReadFacts
  <2>2. Drained(Extract(b)) /\ pipe' = SubSeq(pipe, ReadLen + 1, Len(pipe))
    BY <1>9 DEF RecvRead
  <2> HIDE DEF b
  <2>3. /\ reasm' \in Seq(Units) /\ Len(reasm') <= ReasmCap
        /\ pc' \in {"epoll", "drain"} /\ delivered' \in Seq(Seq(Units))
    BY <2>1, <2>2, DrainedTypes
  <2>4. UNCHANGED <<dir, wire, sent, count, harm>>
    BY <1>9 DEF RecvRead
  <2> QED
    BY <2>1, <2>2, <2>3, <2>4 DEF Types, TypeOK, Fitting
<1> QED
  BY <1>1, <1>2, <1>3, <1>4, <1>5, <1>6, <1>7, <1>8, <1>9 DEF Next

LEMMA AlwaysTypes ==
  Spec => []Types
<1>1. Init => Types
  BY InitTypes
<1>2. Types /\ [Next]_vars => Types'
  BY NextTypes
<1> QED
  BY <1>1, <1>2, PTL DEF Spec

(* Every variable of the channel keeps its type; in particular no read     *)
(* writes past the end of the reassembly buffer (reasm_read_one).          *)
THEOREM TypeCorrect ==
  Spec => []TypeOK
<1>1. Types => TypeOK
  BY DEF Types
<1> QED
  BY <1>1, AlwaysTypes, PTL

(* Whatever bytes arrive and however the reads cut them, a full buffer     *)
(* yields a frame or drops a unit, so that reasm_read_one is never called  *)
(* without room (dma_recv_frame, reasm_try_extract).                       *)
THEOREM FullBufferMoves ==
  Spec => []NeverWedged
<1>1. Types => NeverWedged
  BY FullMoves DEF Types, TypeOK, NeverWedged
<1> QED
  BY <1>1, AlwaysTypes, PTL

-----------------------------------------------------------------------------
(* The payloads that are not empty, frame by frame.                        *)
Payloads == Seq(Units)
KeepOne(l, f) == IF f # <<>> THEN Append(l, f) ELSE l
IsKept(kept, s, n) ==
  /\ kept \in [0 .. n -> Seq(Payloads)]
  /\ kept[0] = <<>>
  /\ \A i \in 1 .. n : kept[i] = KeepOne(kept[i - 1], s[i])

LEMMA KeepOneType ==
  ASSUME NEW l \in Seq(Payloads), NEW f \in Payloads
  PROVE  /\ KeepOne(l, f) \in Seq(Payloads)
         /\ Len(l) <= Len(KeepOne(l, f))
         /\ \A j \in 1 .. Len(l) : KeepOne(l, f)[j] = l[j]
<1>1. /\ Append(l, f) \in Seq(Payloads)
      /\ Len(Append(l, f)) = Len(l) + 1
      /\ \A j \in 1 .. Len(l) : Append(l, f)[j] = l[j]
  BY AppendProperties
<1>2. Len(l) \in Nat
  BY LenProperties
<1>3. CASE f # <<>>
  <2>1. KeepOne(l, f) = Append(l, f)
    BY <1>3 DEF KeepOne
  <2> QED
    BY <1>1, <1>2, <2>1
<1>4. CASE f = <<>>
  <2>1. KeepOne(l, f) = l
    BY <1>4 DEF KeepOne
  <2> QED
    BY <1>2, <2>1
<1> QED
  BY <1>3, <1>4

(* There is such a function for every beginning of s.                      *)
LEMMA KeptExists ==
  ASSUME NEW s \in Seq(Payloads), NEW m \in 0 .. Len(s)
  PROVE  \E kept : IsKept(kept, s, m)
<1> DEFINE Without == {n \in 0 .. Len(s) : ~\E kept : IsKept(kept, s, n)}
<1> SUFFICES ASSUME Without # {} PROVE FALSE
  OBVIOUS
<1>0. Len(s) \in Nat
  BY LenProperties
<1>1. PICK n \in Without : \A k \in Without : n <= k
  <2>1. Without \subseteq Nat
    BY <1>0
  <2> HIDE DEF Without
  <2> QED
    BY <2>1, LeastExists
<1>2. n \in 0 .. Len(s) /\ n \in Nat /\ ~\E kept : IsKept(kept, s, n)
  BY <1>0, <1>1
<1>3. n # 0
  <2>1. IsKept([i \in 0 .. 0 |-> <<>>], s, 0)
    BY EmptySeq DEF IsKept
  <2> QED
    BY <1>2, <2>1
<1>4. n - 1 \in 0 .. Len(s) /\ n - 1 \notin Without
  BY <1>0, <1>1, <1>2, <1>3
<1>5. PICK old : IsKept(old, s, n - 1)
  BY <1>4
<1> DEFINE new == [i \in 0 .. n |-> IF i = n THEN KeepOne(old[n - 1], s[n]) ELSE old[i]]
<1>6. old[n - 1] \in Seq(Payloads) /\ s[n] \in Payloads
  <2>1. n - 1 \in 0 .. n - 1 /\ n \in 1 .. Len(s)
    BY <1>0, <1>2, <1>3
  <2> QED
    BY <1>5, <2>1, ElementOfSeq DEF IsKept
<1>7. KeepOne(old[n - 1], s[n]) \in Seq(Payloads)
  BY <1>6, KeepOneType
<1>8. \A i \in 0 .. n - 1 : new[i] = old[i]
  BY <1>2
<1>9. new[n] = KeepOne(old[n - 1], s[n])
  BY <1>2
<1>10. new \in [0 .. n -> Seq(Payloads)]
  <2>1. ASSUME NEW i \in 0 .. n, i # n
        PROVE  old[i] \in Seq(Payloads)
    <3>1. i \in 0 .. n - 1
      BY <1>2, <2>1
    <3> QED
      BY <1>5, <3>1 DEF IsKept
  <2> QED
    BY <1>7, <2>1
<1> HIDE DEF new
<1>11. new[0] = <<>>
  <2>1. 0 \in 0 .. n - 1
    BY <1>2, <1>3
  <2> QED
    BY <1>5, <1>8, <2>1 DEF IsKept
<1>12. ASSUME NEW i \in 1 .. n
       PROVE  new[i] = KeepOne(new[i - 1], s[i])
  <2>1. CASE i = n
    <3>1. n - 1 \in 0 .. n - 1
      BY <1>2, <1>3
    <3> QED
      BY <1>8, <1>9, <2>1, <3>1
  <2>2. CASE i # n
    <3>1. i \in 1 .. n - 1 /\ i \in 0 .. n - 1 /\ i - 1 \in 0 .. n - 1
      BY <1>2, <2>2
    <3>2. old[i] = KeepOne(old[i - 1], s[i])
      BY <1>5, <3>1 DEF IsKept
    <3> QED
      BY <1>8, <3>1, <3>2
  <2> QED
    BY <2>1, <2>2
<1>13. IsKept(new, s, n)
  BY <1>10, <1>11, <1>12 DEF IsKept
<1> QED
  BY <1>2, <1>13

(* So the recursive definition of NonEmptyOf means what it says.           *)
LEMMA KeptIs ==
  ASSUME NEW s \in Seq(Payloads)
  PROVE  IsKept(NonEmptyOf(s), s, Len(s))
<1> DEFINE n == Len(s)
           Body(kept) ==
             [i \in 0 .. n |->
                IF i = 0 THEN <<>>
                ELSE IF s[i] # <<>> THEN Append(kept[i - 1], s[i]) ELSE kept[i - 1]]
<1>0. n \in Nat /\ n \in 0 .. Len(s)
  BY LenProperties
<1>1. PICK known : IsKept(known, s, n)
  BY <1>0, KeptExists
<1>2. known = Body(known)
  <2>1. known = [i \in 0 .. n |-> known[i]]
    BY <1>1 DEF IsKept
  <2>2. ASSUME NEW i \in 0 .. n
        PROVE  known[i] = Body(known)[i]
    <3>1. CASE i = 0
      BY <1>1, <3>1 DEF IsKept
    <3>2. CASE i # 0
      <4>1. i \in 1 .. n
        BY <1>0, <3>2
      <4>2. known[i] = KeepOne(known[i - 1], s[i])
        BY <1>1, <4>1 DEF IsKept
      <4> QED
        BY <3>2, <4>2 DEF KeepOne
    <3> QED
      BY <3>1, <3>2
  <2> QED
    BY <2>1, <2>2
<1>3. NonEmptyOf(s) = CHOOSE kept : kept = Body(kept)
  BY DEF NonEmptyOf
<1> DEFINE K == NonEmptyOf(s)
<1>4. K = Body(K)
  BY <1>2, <1>3
<1>5. DOMAIN K = 0 .. n /\ K = [i \in 0 .. n |-> K[i]]
  BY <1>4
<1>6. K[0] = <<>>
  BY <1>0, <1>4
<1>7. \A i \in 1 .. n : K[i] = KeepOne(K[i - 1], s[i])
  <2> TAKE i \in 1 .. n
  <2>1. i \in 0 .. n /\ i # 0
    BY <1>0
  <2>2. K[i] = Body(K)[i]
    BY <1>4
  <2> QED
    BY <2>1, <2>2 DEF KeepOne
<1> HIDE DEF K, Body
<1>8. \A i \in 0 .. n : K[i] \in Seq(Payloads)
  <2> DEFINE Wrong == {i \in 0 .. n : K[i] \notin Seq(Payloads)}
  <2> SUFFICES ASSUME Wrong # {} PROVE FALSE
    OBVIOUS
  <2>1. PICK i \in Wrong : \A j \in Wrong : i <= j
    <3>1. Wrong \subseteq Nat
      BY <1>0
    <3> HIDE DEF Wrong
    <3> QED
      BY <3>1, LeastExists
  <2>2. i \in 0 .. n /\ K[i] \notin Seq(Payloads)
    BY <2>1
  <2>3. i # 0
    BY <1>6, <2>2, EmptySeq
  <2>4. i - 1 \in 0 .. n /\ i \in 1 .. n /\ i - 1 \notin Wrong
    BY <1>0, <2>1, <2>2, <2>3
  <2>5. K[i - 1] \in Seq(Payloads) /\ s[i] \in Payloads
    BY <2>4, ElementOfSeq
  <2> QED
    BY <1>7, <2>2, <2>4, <2>5, KeepOneType
<1>9. K \in [0 .. n -> Seq(Payloads)]
  BY <1>5, <1>8
<1> QED
  BY <1>6, <1>7, <1>9 DEF IsKept, K

(* A further frame does not change what the first ones leave.              *)
LEMMA KeptSame ==
  ASSUME NEW s \in Seq(Payloads), NEW f \in Payloads, NEW k \in 0 .. Len(s)
  PROVE  NonEmptyOf(Append(s, f))[k] = NonEmptyOf(s)[k]
<1> DEFINE t == Append(s, f)
           A == NonEmptyOf(s)
           B == NonEmptyOf(t)
           Wrong == {i \in 0 .. Len(s) : A[i] # B[i]}
<1>0. /\ t \in Seq(Payloads)
      /\ Len(s) \in Nat /\ Len(t) = Len(s) + 1
      /\ \A i \in 1 .. Len(s) : t[i] = s[i]
  BY AppendProperties, LenProperties
<1>1. IsKept(A, s, Len(s)) /\ IsKept(B, t, Len(t))
  BY <1>0, KeptIs
<1> HIDE DEF t, A, B
<1> SUFFICES ASSUME Wrong # {} PROVE FALSE
  BY DEF A, B, t
<1>2. PICK i \in Wrong : \A j \in Wrong : i <= j
  <2>1. Wrong \subseteq Nat
    BY <1>0
  <2> HIDE DEF Wrong
  <2> QED
    BY <2>1, LeastExists
<1>3. i \in 0 .. Len(s) /\ A[i] # B[i]
  BY <1>2
<1>4. i # 0
  BY <1>1, <1>3 DEF IsKept
<1>5. i \in 1 .. Len(s) /\ i \in 1 .. Len(t) /\ i - 1 \in 0 .. Len(s) /\ i - 1 \notin Wrong
  BY <1>0, <1>2, <1>3, <1>4
<1>6. A[i] = KeepOne(A[i - 1], s[i]) /\ B[i] = KeepOne(B[i - 1], t[i])
  BY <1>1, <1>5 DEF IsKept
<1>7. A[i - 1] = B[i - 1] /\ t[i] = s[i]
  BY <1>0, <1>5
<1> QED
  BY <1>3, <1>6, <1>7

(* What the first k frames leave is the beginning of what all leave.       *)
LEMMA KeptPrefix ==
  ASSUME NEW s \in Seq(Payloads), NEW k \in 0 .. Len(s)
  PROVE  IsPrefix(NonEmptyOf(s)[k], NonEmpty(s))
<1> DEFINE K == NonEmptyOf(s)
           Before(m) == /\ Len(K[k]) <= Len(K[m])
                        /\ \A j \in 1 .. Len(K[k]) : K[k][j] = K[m][j]
           Wrong == {m \in k .. Len(s) : ~Before(m)}
<1>0. Len(s) \in Nat /\ IsKept(K, s, Len(s))
  BY KeptIs, LenProperties
<1> HIDE DEF K
<1>1. \A m \in 0 .. Len(s) : K[m] \in Seq(Payloads) /\ Len(K[m]) \in Nat
  BY <1>0, LenProperties DEF IsKept
<1>2. Wrong = {}
  <2> SUFFICES ASSUME Wrong # {} PROVE FALSE
    OBVIOUS
  <2>1. Wrong \subseteq Nat
    BY <1>0
  <2>2. PICK m \in Wrong : \A j \in Wrong : m <= j
    BY <2>1, LeastExists
  <2>3. m \in k .. Len(s) /\ ~Before(m)
    BY <2>2
  <2>4. m # k
    BY <1>1, <2>3
  <2>5. m - 1 \in k .. Len(s) /\ m - 1 \in 0 .. Len(s) /\ m \in 1 .. Len(s) /\ m - 1 \notin Wrong
    BY <1>0, <2>2, <2>3, <2>4
  <2>6. Before(m - 1)
    BY <2>5
  <2>7. /\ Len(K[m - 1]) <= Len(K[m])
        /\ \A j \in 1 .. Len(K[m - 1]) : K[m][j] = K[m - 1][j]
    <3>1. K[m] = KeepOne(K[m - 1], s[m])
      BY <1>0, <2>5 DEF IsKept
    <3>2. K[m - 1] \in Seq(Payloads) /\ s[m] \in Payloads
      BY <1>1, <2>5, ElementOfSeq
    <3> DEFINE l == K[m - 1]
               u == s[m]
    <3>3. l \in Seq(Payloads) /\ u \in Payloads
      BY <3>2
    <3> HIDE DEF l, u
    <3>4. /\ Len(l) <= Len(KeepOne(l, u))
          /\ \A j \in 1 .. Len(l) : KeepOne(l, u)[j] = l[j]
      BY <3>3, KeepOneType
    <3>5. K[m] = KeepOne(l, u) /\ K[m - 1] = l
      BY <3>1 DEF l, u
    <3> QED
      BY <3>4, <3>5
  <2>8. Len(K[k]) \in Nat /\ Len(K[m]) \in Nat /\ Len(K[m - 1]) \in Nat
    BY <1>1, <2>5
  <2>9. Before(m)
    BY <2>6, <2>7, <2>8
  <2> QED
    BY <2>3, <2>9
<1>3. Len(s) \in k .. Len(s) /\ Len(s) \in 0 .. Len(s)
  BY <1>0
<1>4. Before(Len(s))
  BY <1>2, <1>3
<1> DEFINE a == K[k]
           b == K[Len(s)]
<1>5. a \in Seq(Payloads) /\ b \in Seq(Payloads) /\ Len(a) \in Nat /\ Len(b) \in Nat
  BY <1>1, <1>3
<1>6. Len(a) <= Len(b) /\ \A j \in 1 .. Len(a) : a[j] = b[j]
  BY <1>4
<1> HIDE DEF a, b
<1>7. SubSeq(a, 1, Len(a)) = a
  BY <1>5, SubSeqFull
<1>8. /\ SubSeq(b, 1, Len(a)) \in Seq(Payloads)
      /\ Len(SubSeq(b, 1, Len(a))) = Len(a)
      /\ \A j \in 1 .. Len(a) : SubSeq(b, 1, Len(a))[j] = b[j]
  BY <1>5, <1>6, Start
<1>9. a = SubSeq(b, 1, Len(a))
  BY <1>5, <1>6, <1>8, SeqEqual
<1>10. IsPrefix(a, b)
  BY <1>6, <1>7, <1>9 DEF IsPrefix
<1> QED
  BY <1>10 DEF a, b, K, NonEmpty

-----------------------------------------------------------------------------
(* A stream of whole frames.  FrameAt: the frame with payload f begins     *)
(* behind the first p units of s.  Framing: s is made of the frames of fs  *)
(* behind the k-th and of nothing else, the i-th of them ending at q[i].   *)
FrameAt(s, p, f) ==
  /\ p + 2 + Len(f) <= Len(s)
  /\ s[p + 1] = Magic
  /\ s[p + 2] = Len(f)
  /\ \A j \in 1 .. Len(f) : s[p + 2 + j] = f[j]

Framing(q, s, fs, k) ==
  /\ q \in [k .. Len(fs) -> Nat]
  /\ q[k] = 0
  /\ q[Len(fs)] = Len(s)
  /\ \A i \in k .. Len(fs) : \A j \in k .. Len(fs) : i <= j => q[i] <= q[j]
  /\ \A i \in k + 1 .. Len(fs) : q[i] = q[i - 1] + 2 + Len(fs[i])
  /\ \A i \in k + 1 .. Len(fs) : FrameAt(s, q[i - 1], fs[i])

(* A frame stays where it is when the stream goes on behind it.            *)
LEMMA FrameStays ==
  ASSUME NEW s \in Seq(Units), NEW t \in Seq(Units), NEW p \in Nat, NEW f \in Payloads,
         FrameAt(s, p, f), Len(s) <= Len(t), \A i \in 1 .. Len(s) : t[i] = s[i]
  PROVE  FrameAt(t, p, f)
<1>1. Len(s) \in Nat /\ Len(t) \in Nat /\ Len(f) \in Nat
  BY LenProperties DEF Payloads
<1>2. p + 2 + Len(f) <= Len(s) /\ s[p + 1] = Magic /\ s[p + 2] = Len(f)
  BY DEF FrameAt
<1>3. t[p + 1] = s[p + 1] /\ t[p + 2] = s[p + 2]
  <2>1. p + 1 \in 1 .. Len(s) /\ p + 2 \in 1 .. Len(s)
    BY <1>1, <1>2
  <2> QED
    BY <2>1
<1>4. ASSUME NEW j \in 1 .. Len(f)
      PROVE  t[p + 2 + j] = f[j]
  <2>1. p + 2 + j \in 1 .. Len(s)
    BY <1>1, <1>2
  <2> QED
    BY <2>1 DEF FrameAt
<1> QED
  BY <1>1, <1>2, <1>3, <1>4 DEF FrameAt

(* It moves down by d when d units before it are taken out.                *)
LEMMA FrameMoves ==
  ASSUME NEW s \in Seq(Units), NEW p \in Nat, NEW f \in Payloads, NEW d \in Nat,
         FrameAt(s, p, f), d <= p
  PROVE  FrameAt(SubSeq(s, d + 1, Len(s)), p - d, f)
<1> DEFINE t == SubSeq(s, d + 1, Len(s))
<1>1. Len(s) \in Nat /\ Len(f) \in Nat
  BY LenProperties DEF Payloads
<1>2. p + 2 + Len(f) <= Len(s) /\ s[p + 1] = Magic /\ s[p + 2] = Len(f)
  BY DEF FrameAt
<1>3. d <= Len(s)
  BY <1>1, <1>2
<1>4. Len(t) = Len(s) - d /\ \A i \in 1 .. Len(s) - d : t[i] = s[d + i]
  BY <1>3, Rest
<1> HIDE DEF t
<1>5. t[(p - d) + 1] = s[p + 1] /\ t[(p - d) + 2] = s[p + 2]
  <2>1. (p - d) + 1 \in 1 .. Len(s) - d /\ (p - d) + 2 \in 1 .. Len(s) - d
    BY <1>1, <1>2
  <2>2. d + ((p - d) + 1) = p + 1 /\ d + ((p - d) + 2) = p + 2
    OBVIOUS
  <2> QED
    BY <1>4, <2>1, <2>2
<1>6. ASSUME NEW j \in 1 .. Len(f)
      PROVE  t[(p - d) + 2 + j] = f[j]
  <2>1. (p - d) + 2 + j \in 1 .. Len(s) - d /\ d + ((p - d) + 2 + j) = p + 2 + j
    BY <1>1, <1>2
  <2>2. t[(p - d) + 2 + j] = s[p + 2 + j]
    BY <1>4, <2>1
  <2> QED
    BY <2>2 DEF FrameAt
<1>7. (p - d) + 2 + Len(f) <= Len(t)
  BY <1>1, <1>2, <1>4
<1>8. FrameAt(t, p - d, f)
  BY <1>2, <1>5, <1>6, <1>7 DEF FrameAt
<1> QED
  BY <1>8 DEF t

(* EmitFrame and dma_send_frame: one more frame at the end.                *)
LEMMA FramingGrows ==
  ASSUME NEW s \in Seq(Units), NEW fs \in Seq(Payloads), NEW k \in 0 .. Len(fs),
         NEW q, Framing(q, s, fs, k), NEW f \in Payloads, Len(f) <= MaxPayload
  PROVE  \E r : Framing(r, s \o (<<Magic, Len(f)>> \o f), Append(fs, f), k)
<1> DEFINE n == Len(fs)
           gs == Append(fs, f)
           u == <<Magic, Len(f)>> \o f
           t == s \o u
           r == [i \in k .. n + 1 |-> IF i <= n THEN q[i] ELSE Len(s) + 2 + Len(f)]
<1>0. n \in Nat /\ Len(s) \in Nat /\ Len(f) \in Nat /\ k \in Nat /\ k <= n
  BY LenProperties DEF Payloads
<1>1. /\ Len(gs) = n + 1
      /\ \A i \in 1 .. n : gs[i] = fs[i]
      /\ gs[n + 1] = f
  BY AppendProperties
<1>2. /\ u \in Seq(Units) /\ Len(u) = 2 + Len(f)
      /\ u[1] = Magic /\ u[2] = Len(f)
      /\ \A j \in 1 .. Len(f) : u[2 + j] = f[j]
  <2> DEFINE h == <<Magic, Len(f)>>
  <2>1. h \in Seq(Units) /\ Len(h) = 2 /\ f \in Seq(Units) /\ h[1] = Magic /\ h[2] = Len(f)
    BY FrameIsUnits DEF Payloads
  <2> HIDE DEF h
  <2>2. /\ h \o f \in Seq(Units)
        /\ Len(h \o f) = Len(h) + Len(f)
        /\ \A i \in 1 .. Len(h) + Len(f) : (h \o f)[i] = IF i <= Len(h) THEN h[i] ELSE f[i - Len(h)]
    BY <2>1, ConcatProperties
  <2> QED
    BY <1>0, <2>1, <2>2 DEF h
<1> HIDE DEF gs, u, t
<1>3. /\ t \in Seq(Units) /\ Len(t) = Len(s) + 2 + Len(f)
      /\ \A i \in 1 .. Len(s) : t[i] = s[i]
      /\ \A i \in 1 .. 2 + Len(f) : t[Len(s) + i] = u[i]
  <2>1. /\ t \in Seq(Units) /\ Len(t) = Len(s) + Len(u)
        /\ \A i \in 1 .. Len(s) + Len(u) : t[i] = IF i <= Len(s) THEN s[i] ELSE u[i - Len(s)]
    <3>1. u \in Seq(Units)
      BY <1>2
    <3>2. /\ s \o u \in Seq(Units)
          /\ Len(s \o u) = Len(s) + Len(u)
          /\ \A i \in 1 .. Len(s) + Len(u) : (s \o u)[i] = IF i <= Len(s) THEN s[i] ELSE u[i - Len(s)]
      BY <3>1, ConcatProperties
    <3> QED
      BY <3>2 DEF t
  <2>2. Len(t) = Len(s) + 2 + Len(f) /\ \A i \in 1 .. Len(s) : t[i] = s[i]
    BY <1>0, <1>2, <2>1
  <2>3. ASSUME NEW i \in 1 .. 2 + Len(f)
        PROVE  t[Len(s) + i] = u[i]
    <3>1. Len(s) + i \in 1 .. Len(s) + Len(u) /\ ~(Len(s) + i <= Len(s)) /\ (Len(s) + i) - Len(s) = i
      BY <1>0, <1>2
    <3> QED
      BY <2>1, <3>1
  <2> QED
    BY <2>1, <2>2, <2>3
<1>4. /\ q \in [k .. n -> Nat] /\ q[k] = 0 /\ q[n] = Len(s)
      /\ \A i \in k .. n : \A j \in k .. n : i <= j => q[i] <= q[j]
      /\ \A i \in k + 1 .. n : q[i] = q[i - 1] + 2 + Len(fs[i])
      /\ \A i \in k + 1 .. n : FrameAt(s, q[i - 1], fs[i])
  BY DEF Framing
<1>5. /\ \A i \in k .. n : r[i] = q[i]
      /\ r[n + 1] = Len(s) + 2 + Len(f)
      /\ r \in [k .. n + 1 -> Nat]
  BY <1>0, <1>4
<1> HIDE DEF r
<1>6. r[k] = 0 /\ r[Len(gs)] = Len(t) /\ r[n] = Len(s)
  <2>1. k \in k .. n /\ n \in k .. n
    BY <1>0
  <2>2. r[k] = q[k] /\ r[n] = q[n]
    BY <1>5, <2>1
  <2>3. r[Len(gs)] = Len(t)
    BY <1>1, <1>3, <1>5
  <2> QED
    BY <1>4, <2>2, <2>3
<1>7. ASSUME NEW i \in k .. n + 1, NEW j \in k .. n + 1, i <= j
      PROVE  r[i] <= r[j]
  <2>1. \A m \in k .. n : r[m] \in Nat /\ r[m] <= Len(s)
    <3> TAKE m \in k .. n
    <3>1. n \in k .. n /\ m <= n
      BY <1>0
    <3> QED
      BY <1>4, <1>5, <3>1
  <2>2. CASE j = n + 1
    BY <1>0, <1>5, <1>7, <2>1, <2>2
  <2>3. CASE j # n + 1
    BY <1>0, <1>4, <1>5, <1>7, <2>3
  <2> QED
    BY <2>2, <2>3
<1>8. ASSUME NEW i \in k + 1 .. n + 1
      PROVE  r[i] = r[i - 1] + 2 + Len(gs[i]) /\ FrameAt(t, r[i - 1], gs[i])
  <2>1. CASE i = n + 1
    <3>1. r[i - 1] = Len(s) /\ gs[i] = f
      BY <1>0, <1>1, <1>6, <2>1
    <3>2. t[Len(s) + 1] = Magic /\ t[Len(s) + 2] = Len(f)
      BY <1>0, <1>2, <1>3
    <3>3. ASSUME NEW j \in 1 .. Len(f)
          PROVE  t[Len(s) + 2 + j] = f[j]
      <4>1. 2 + j \in 1 .. 2 + Len(f) /\ Len(s) + (2 + j) = Len(s) + 2 + j
        BY <1>0
      <4> QED
        BY <1>2, <1>3, <4>1
    <3>4. FrameAt(t, Len(s), f)
      BY <1>0, <1>3, <3>2, <3>3 DEF FrameAt
    <3> QED
      BY <1>5, <2>1, <3>1, <3>4
  <2>2. CASE i # n + 1
    <3>1. i \in k + 1 .. n /\ i \in 1 .. n /\ i \in k .. n /\ i - 1 \in k .. n
      BY <1>0, <2>2
    <3>2. r[i] = q[i] /\ r[i - 1] = q[i - 1] /\ gs[i] = fs[i]
      BY <1>1, <1>5, <3>1
    <3>3. fs[i] \in Payloads /\ q[i - 1] \in Nat /\ FrameAt(s, q[i - 1], fs[i])
      BY <1>4, <3>1, ElementOfSeq
    <3>4. FrameAt(t, q[i - 1], fs[i])
      <4>1. Len(s) <= Len(t)
        BY <1>0, <1>3
      <4> QED
        BY <1>3, <3>3, <4>1, FrameStays
    <3> QED
      BY <1>4, <3>1, <3>2, <3>4
  <2> QED
    BY <2>1, <2>2
<1>9. Framing(r, t, gs, k)
  BY <1>1, <1>5, <1>6, <1>7, <1>8 DEF Framing
<1> QED
  BY <1>9 DEF t, u, gs

(* reasm_try_extract: the first frame is taken out.                        *)
LEMMA FramingTaken ==
  ASSUME NEW s \in Seq(Units), NEW fs \in Seq(Payloads), NEW k \in 0 .. Len(fs),
         NEW q, Framing(q, s, fs, k), k < Len(fs),
         NEW d, d = 2 + Len(fs[k + 1])
  PROVE  /\ FrameAt(s, 0, fs[k + 1])
         /\ d \in Nat /\ d <= Len(s)
         /\ \E r : Framing(r, SubSeq(s, d + 1, Len(s)), fs, k + 1)
<1> DEFINE n == Len(fs)
           t == SubSeq(s, d + 1, Len(s))
           r == [i \in k + 1 .. n |-> q[i] - d]
<1>0. n \in Nat /\ Len(s) \in Nat /\ k \in Nat /\ k < n
  BY LenProperties
<1>1. /\ q \in [k .. n -> Nat] /\ q[k] = 0 /\ q[n] = Len(s)
      /\ \A i \in k .. n : \A j \in k .. n : i <= j => q[i] <= q[j]
      /\ \A i \in k + 1 .. n : q[i] = q[i - 1] + 2 + Len(fs[i])
      /\ \A i \in k + 1 .. n : FrameAt(s, q[i - 1], fs[i])
  BY DEF Framing
<1>2. k + 1 \in k + 1 .. n /\ k + 1 \in 1 .. n /\ k + 1 \in k .. n /\ n \in k .. n /\ (k + 1) - 1 = k
  BY <1>0
<1>3. fs[k + 1] \in Payloads /\ Len(fs[k + 1]) \in Nat
  BY <1>2, ElementOfSeq, LenProperties DEF Payloads
<1>4. q[k + 1] = d /\ d \in Nat /\ FrameAt(s, 0, fs[k + 1])
  <2>1. q[k + 1] = q[k] + 2 + Len(fs[k + 1])
    BY <1>1, <1>2
  <2>2. FrameAt(s, q[k], fs[k + 1])
    BY <1>1, <1>2
  <2> QED
    BY <1>1, <1>3, <2>1, <2>2
<1>5. \A i \in k + 1 .. n : q[i] \in Nat /\ d <= q[i] /\ i \in k .. n
  <2> TAKE i \in k + 1 .. n
  <2>1. i \in k .. n /\ k + 1 <= i
    BY <1>0
  <2> QED
    BY <1>1, <1>2, <1>4, <2>1
<1>6. d <= Len(s)
  BY <1>1, <1>2, <1>5
<1>7. t \in Seq(Units) /\ Len(t) = Len(s) - d
  BY <1>4, <1>6, Rest
<1>8. r \in [k + 1 .. n -> Nat] /\ \A i \in k + 1 .. n : r[i] = q[i] - d
  BY <1>4, <1>5
<1> HIDE DEF r
<1>9. r[k + 1] = 0 /\ r[n] = Len(t)
  <2>1. n \in k + 1 .. n
    BY <1>0
  <2>2. r[k + 1] = q[k + 1] - d /\ r[n] = q[n] - d
    BY <1>2, <1>8, <2>1
  <2>3. d - d = 0
    BY <1>4
  <2> QED
    BY <1>1, <1>4, <1>7, <2>2, <2>3
<1>10. \A i \in k + 1 .. n : \A j \in k + 1 .. n : i <= j => r[i] <= r[j]
  <2> TAKE i \in k + 1 .. n
  <2> TAKE j \in k + 1 .. n
  <2> HAVE i <= j
  <2>1. q[i] \in Nat /\ q[j] \in Nat /\ q[i] <= q[j]
    BY <1>1, <1>5
  <2> QED
    BY <1>4, <1>8, <2>1
<1>11. ASSUME NEW i \in (k + 1) + 1 .. n
       PROVE  r[i] = r[i - 1] + 2 + Len(fs[i]) /\ FrameAt(t, r[i - 1], fs[i])
  <2>1. i \in k + 1 .. n /\ i - 1 \in k + 1 .. n /\ i \in 1 .. n
    BY <1>0
  <2>2. fs[i] \in Payloads /\ Len(fs[i]) \in Nat
    BY <2>1, ElementOfSeq, LenProperties DEF Payloads
  <2>3. q[i] = q[i - 1] + 2 + Len(fs[i]) /\ FrameAt(s, q[i - 1], fs[i])
    BY <1>1, <2>1
  <2>4. q[i] \in Nat /\ q[i - 1] \in Nat /\ d <= q[i - 1]
    BY <1>5, <2>1
  <2>5. r[i] = q[i] - d /\ r[i - 1] = q[i - 1] - d
    BY <1>8, <2>1
  <2>6. r[i] = r[i - 1] + 2 + Len(fs[i])
    <3>1. \A a \in Nat : \A c \in Nat : (a + 2 + c) - d = (a - d) + 2 + c
      BY <1>4
    <3> QED
      BY <2>2, <2>3, <2>4, <2>5, <3>1
  <2>7. FrameAt(t, q[i - 1] - d, fs[i])
    BY <1>4, <2>2, <2>3, <2>4, FrameMoves
  <2> QED
    BY <2>5, <2>6, <2>7
<1>12. Framing(r, t, fs, k + 1)
  BY <1>8, <1>9, <1>10, <1>11 DEF Framing
<1> QED
  BY <1>4, <1>6, <1>12

(* The places of two sequences in their concatenation.                     *)
LEMMA Joined ==
  ASSUME NEW s \in Seq(Units), NEW u \in Seq(Units)
  PROVE  /\ s \o u \in Seq(Units) /\ Len(s \o u) = Len(s) + Len(u)
         /\ Len(s) \in Nat /\ Len(u) \in Nat
         /\ \A j \in 1 .. Len(s) : (s \o u)[j] = s[j]
         /\ \A j \in 1 .. Len(u) : (s \o u)[Len(s) + j] = u[j]
<1>1. Len(s) \in Nat /\ Len(u) \in Nat
  BY LenProperties
<1>2. /\ s \o u \in Seq(Units) /\ Len(s \o u) = Len(s) + Len(u)
      /\ \A i \in 1 .. Len(s) + Len(u) :
           (s \o u)[i] = IF i <= Len(s) THEN s[i] ELSE u[i - Len(s)]
  BY ConcatProperties
<1>3. \A j \in 1 .. Len(s) : j \in 1 .. Len(s) + Len(u) /\ j <= Len(s)
  BY <1>1
<1>4. \A j \in 1 .. Len(u) : /\ Len(s) + j \in 1 .. Len(s) + Len(u)
                             /\ ~(Len(s) + j <= Len(s))
                             /\ (Len(s) + j) - Len(s) = j
  BY <1>1
<1> QED
  BY <1>1, <1>2, <1>3, <1>4

(* Units are taken out of the first of two.                                *)
LEMMA RestOfJoined ==
  ASSUME NEW b \in Seq(Units), NEW c \in Seq(Units), NEW d \in Nat, d <= Len(b)
  PROVE  /\ d <= Len(b \o c)
         /\ SubSeq(b, d + 1, Len(b)) \o c = SubSeq(b \o c, d + 1, Len(b \o c))
<1> DEFINE s == b \o c
           x == SubSeq(b, d + 1, Len(b))
           y == SubSeq(s, d + 1, Len(s))
           z == x \o c
<1>1. /\ s \in Seq(Units) /\ Len(s) = Len(b) + Len(c) /\ Len(b) \in Nat /\ Len(c) \in Nat
      /\ \A i \in 1 .. Len(b) : s[i] = b[i]
      /\ \A i \in 1 .. Len(c) : s[Len(b) + i] = c[i]
  BY Joined
<1> HIDE DEF s
<1>2. d <= Len(s)
  BY <1>1
<1>3. /\ x \in Seq(Units) /\ Len(x) = Len(b) - d
      /\ \A i \in 1 .. Len(b) - d : x[i] = b[d + i]
  BY Rest
<1>4. /\ y \in Seq(Units) /\ Len(y) = Len(s) - d
      /\ \A i \in 1 .. Len(s) - d : y[i] = s[d + i]
  BY <1>1, <1>2, Rest
<1> HIDE DEF x, y
<1>5. /\ z \in Seq(Units) /\ Len(z) = Len(x) + Len(c)
      /\ \A i \in 1 .. Len(x) : z[i] = x[i]
      /\ \A i \in 1 .. Len(c) : z[Len(x) + i] = c[i]
  BY <1>3, Joined
<1> HIDE DEF z
<1>6. Len(z) = Len(y)
  BY <1>1, <1>3, <1>4, <1>5
<1>7. ASSUME NEW i \in 1 .. Len(z) PROVE z[i] = y[i]
  <2>0. i \in 1 .. Len(s) - d /\ y[i] = s[d + i]
    BY <1>1, <1>4, <1>6
  <2>1. CASE i <= Len(x)
    <3>1. i \in 1 .. Len(x) /\ i \in 1 .. Len(b) - d /\ d + i \in 1 .. Len(b)
      BY <1>1, <1>3, <2>1
    <3> QED
      BY <1>1, <1>3, <1>5, <2>0, <3>1
  <2>2. CASE ~(i <= Len(x))
    <3> DEFINE j == i - Len(x)
    <3>1. j \in 1 .. Len(c) /\ i = Len(x) + j /\ d + i = Len(b) + j
      BY <1>1, <1>3, <1>5, <2>2
    <3> HIDE DEF j
    <3> QED
      BY <1>1, <1>5, <2>0, <3>1
  <2> QED
    BY <2>1, <2>2
<1>8. z = y
  BY <1>4, <1>5, <1>6, <1>7, SeqEqual
<1> QED
  BY <1>2, <1>8 DEF x, y, z, s

(* What reasm_try_extract makes of the beginning b of such a stream: it    *)
(* waits, or takes out the next frame; it never finds a bad header.        *)
LEMMA ExtractFramed ==
  ASSUME NEW b \in Seq(Units), NEW c \in Seq(Units), NEW fs, Fitting(fs),
         NEW k \in 0 .. Len(fs), NEW q, Framing(q, b \o c, fs, k)
  PROVE  \/ Extract(b) = Result("more", <<>>, b)
         \/ /\ k < Len(fs)
            /\ Extract(b).rc = "frame"
            /\ Extract(b).frame = fs[k + 1]
            /\ \E r : Framing(r, Extract(b).rest \o c, fs, k + 1)
<1> DEFINE s == b \o c
           n == Len(fs)
<1>0. /\ n \in Nat /\ k \in Nat /\ k <= n /\ Len(b) \in Nat /\ Len(c) \in Nat
      /\ fs \in Seq(Payloads) /\ MaxPayload \in Nat
  BY LenProperties, UnitFacts DEF Fitting, Payloads
<1>1. /\ s \in Seq(Units) /\ Len(s) = Len(b) + Len(c)
      /\ \A i \in 1 .. Len(s) : s[i] = IF i <= Len(b) THEN b[i] ELSE c[i - Len(b)]
  BY ConcatProperties
<1>2. Framing(q, s, fs, k)
  OBVIOUS
<1> HIDE DEF s
<1>3. \A i \in 1 .. Len(b) : s[i] = b[i]
  BY <1>0, <1>1
<1>4. CASE Len(b) < Header
  BY <1>4 DEF Extract
<1>5. CASE ~(Len(b) < Header)
  <2>1. 2 <= Len(b) /\ 2 <= Len(s)
    BY <1>0, <1>1, <1>5 DEF Header
  <2>2. k < n
    <3>1. q[k] = 0 /\ q[n] = Len(s)
      BY <1>2 DEF Framing
    <3>2. k # n
      BY <1>1, <2>1, <3>1
    <3> QED
      BY <1>0, <3>2
  <2> DEFINE f == fs[k + 1]
             d == 2 + Len(f)
  <2>3. k + 1 \in 1 .. n
    BY <1>0, <2>2
  <2>4. f \in Seq(Units) /\ Len(f) \in Nat /\ Len(f) <= MaxPayload
    BY <1>0, <2>3, ElementOfSeq, LenProperties DEF Fitting, Payloads
  <2>5. /\ FrameAt(s, 0, f)
        /\ d \in Nat /\ d <= Len(s)
        /\ \E r : Framing(r, SubSeq(s, d + 1, Len(s)), fs, k + 1)
    BY <1>0, <1>1, <1>2, <2>2, FramingTaken
  <2> HIDE DEF f
  <2>6. s[1] = Magic /\ s[2] = Len(f) /\ \A j \in 1 .. Len(f) : s[2 + j] = f[j]
    <3>1. s[0 + 1] = Magic /\ s[0 + 2] = Len(f) /\ \A j \in 1 .. Len(f) : s[0 + 2 + j] = f[j]
      BY <2>5 DEF FrameAt
    <3>2. 0 + 1 = 1 /\ 0 + 2 = 2
      OBVIOUS
    <3> QED
      BY <3>1, <3>2
  <2>7. KnownMagic(b[1]) /\ b[2] = Len(f) /\ ~BadLength(b[2])
    <3>1. 1 \in 1 .. Len(b) /\ 2 \in 1 .. Len(b)
      BY <1>0, <2>1
    <3>2. b[1] = Magic /\ b[2] = Len(f)
      BY <1>3, <2>6, <3>1
    <3> QED
      BY <1>0, <2>4, <3>2 DEF KnownMagic, BadLength
  <2>8. Header + b[2] = d
    BY <2>7 DEF Header
  <2>9. CASE Len(b) < d
    <3>1. Extract(b) = Result("more", <<>>, b)
      BY <1>5, <2>7, <2>8, <2>9 DEF Extract
    <3> QED
      BY <3>1
  <2>10. CASE ~(Len(b) < d)
    <3>1. Extract(b) = Result("frame", SubSeq(b, Header + 1, d), Leftover(b, d))
      BY <1>5, <2>7, <2>8, <2>10 DEF Extract
    <3>2. Extract(b).rc = "frame" /\ Extract(b).frame = SubSeq(b, 3, d) /\ Extract(b).rest = SubSeq(b, d + 1, Len(b))
      BY <3>1 DEF Result, Leftover, Header
    <3>3. SubSeq(b, 3, d) = f
      <4> DEFINE g == SubSeq(b, 3, d)
      <4>1. \A i \in 3 .. d : b[i] \in Units
        <5> TAKE i \in 3 .. d
        <5>1. i \in 1 .. Len(b)
          BY <1>0, <2>5, <2>10
        <5> QED
          BY <5>1, ElementOfSeq
      <4>2. /\ g \in Seq(Units)
            /\ Len(g) = IF 3 <= d THEN d - 3 + 1 ELSE 0
            /\ \A i \in 1 .. d - 3 + 1 : g[i] = b[3 + i - 1]
        BY <2>5, <4>1, SubSeqProperties
      <4> HIDE DEF g
      <4>3. Len(g) = Len(f)
        BY <2>4, <4>2
      <4>4. ASSUME NEW i \in 1 .. Len(g)
            PROVE  g[i] = f[i]
        <5>1. /\ i \in 1 .. d - 3 + 1 /\ i \in 1 .. Len(f)
              /\ 3 + i - 1 = 2 + i /\ 2 + i \in 1 .. Len(b)
          BY <1>0, <2>4, <2>10, <4>3
        <5>2. g[i] = b[2 + i]
          BY <4>2, <5>1
        <5>3. b[2 + i] = s[2 + i] /\ s[2 + i] = f[i]
          BY <1>3, <2>6, <5>1
        <5> QED
          BY <5>2, <5>3
      <4>5. g = f
        BY <2>4, <4>2, <4>3, <4>4, SeqEqual
      <4> QED
        BY <4>5 DEF g
    <3>4. SubSeq(b, d + 1, Len(b)) \o c = SubSeq(s, d + 1, Len(s))
      <4>1. d \in Nat /\ d <= Len(b)
        BY <1>0, <2>5, <2>10
      <4> HIDE DEF d
      <4> QED
        BY <4>1, RestOfJoined DEF s
    <3> QED
      BY <2>2, <2>5, <3>2, <3>3, <3>4 DEF f
  <2> QED
    BY <2>9, <2>10
<1> QED
  BY <1>4, <1>5

-----------------------------------------------------------------------------
(* The invariant behind WholeFrames.  Sound: s holds the frames of fs      *)
(* behind some k-th, and dl is what the first k of them hand over.  While  *)
(* the stream is clean this is so of the buffer, the pipe and the rest of  *)
(* the framer's run, put together.                                         *)
Sound(s, fs, dl) ==
  \E k \in 0 .. Len(fs) : (\E q : Framing(q, s, fs, k)) /\ dl = NonEmptyOf(fs)[k]

Stream == reasm \o (pipe \o wire)
StreamInv == Clean => Sound(Stream, sent, delivered)

LEMMA SoundGrows ==
  ASSUME NEW s \in Seq(Units), NEW fs, Fitting(fs), NEW dl, Sound(s, fs, dl),
         NEW f \in Seq(Units), Len(f) <= MaxPayload
  PROVE  Sound(s \o (<<Magic, Len(f)>> \o f), Append(fs, f), dl)
<1>0. fs \in Seq(Payloads) /\ f \in Payloads
  BY DEF Fitting, Payloads
<1>1. PICK k \in 0 .. Len(fs) : (\E q : Framing(q, s, fs, k)) /\ dl = NonEmptyOf(fs)[k]
  BY DEF Sound
<1>2. PICK q : Framing(q, s, fs, k)
  BY <1>1
<1>3. \E r : Framing(r, s \o (<<Magic, Len(f)>> \o f), Append(fs, f), k)
  BY <1>0, <1>2, FramingGrows
<1>4. NonEmptyOf(Append(fs, f))[k] = NonEmptyOf(fs)[k]
  BY <1>0, KeptSame
<1>5. k \in 0 .. Len(Append(fs, f))
  <2>1. Len(Append(fs, f)) = Len(fs) + 1 /\ Len(fs) \in Nat
    BY <1>0, AppendProperties, LenProperties
  <2> QED
    BY <2>1
<1> QED
  BY <1>1, <1>3, <1>4, <1>5 DEF Sound

LEMMA SoundDrained ==
  ASSUME Types, NEW b \in Seq(Units), NEW c \in Seq(Units),
         Sound(b \o c, sent, delivered), Drained(Extract(b))
  PROVE  Sound(reasm' \o c, sent, delivered')
<1>0. Fitting(sent) /\ sent \in Seq(Payloads) /\ Len(sent) \in Nat
  BY LenProperties DEF Types, Fitting, Payloads
<1>1. PICK k \in 0 .. Len(sent) :
        (\E q : Framing(q, b \o c, sent, k)) /\ delivered = NonEmptyOf(sent)[k]
  BY DEF Sound
<1>2. PICK q : Framing(q, b \o c, sent, k)
  BY <1>1
<1>3. \/ Extract(b) = Result("more", <<>>, b)
      \/ /\ k < Len(sent)
         /\ Extract(b).rc = "frame"
         /\ Extract(b).frame = sent[k + 1]
         /\ \E r : Framing(r, Extract(b).rest \o c, sent, k + 1)
  BY <1>0, <1>2, ExtractFramed
<1>4. CASE Extract(b) = Result("more", <<>>, b)
  <2>1. reasm' = b /\ delivered' = delivered
    BY <1>4 DEF Drained, Result
  <2> QED
    BY <2>1
<1>5. CASE /\ k < Len(sent)
           /\ Extract(b).rc = "frame"
           /\ Extract(b).frame = sent[k + 1]
           /\ \E r : Framing(r, Extract(b).rest \o c, sent, k + 1)
  <2>1. reasm' = Extract(b).rest
    BY DEF Drained
  <2>2. k + 1 \in 0 .. Len(sent) /\ k + 1 \in 1 .. Len(sent) /\ (k + 1) - 1 = k
    BY <1>0, <1>5
  <2>3. IsKept(NonEmptyOf(sent), sent, Len(sent))
    BY <1>0, KeptIs
  <2>4. NonEmptyOf(sent)[k + 1] = KeepOne(NonEmptyOf(sent)[k], sent[k + 1])
    BY <2>2, <2>3 DEF IsKept
  <2>5. delivered' = KeepOne(delivered, sent[k + 1])
    BY <1>5 DEF Drained, KeepOne
  <2>6. delivered' = NonEmptyOf(sent)[k + 1]
    BY <1>1, <2>4, <2>5
  <2>7. \E r : Framing(r, reasm' \o c, sent, k + 1)
    BY <1>5, <2>1
  <2> QED
    BY <2>2, <2>6, <2>7 DEF Sound
<1> QED
  BY <1>3, <1>4, <1>5

LEMMA Regroup ==
  ASSUME NEW a \in Seq(Units), NEW b \in Seq(Units), NEW c \in Seq(Units), NEW ab, ab = a \o b
  PROVE  ab \o c = a \o (b \o c)
BY ConcatAssociative

(* The same with four, and with a name the provers need not look into.     *)
Cat(a, b) == a \o b

LEMMA RegroupFour ==
  ASSUME NEW a \in Seq(Units), NEW x \in Seq(Units), NEW y \in Seq(Units), NEW w \in Seq(Units)
  PROVE  Cat(Cat(a, x), Cat(y, w)) = Cat(a, Cat(Cat(x, y), w))
<1> DEFINE z == y \o w
<1>1. z \in Seq(Units)
  BY ConcatProperties
<1>2. (x \o y) \o w = x \o z
  BY ConcatAssociative
<1> HIDE DEF z
<1>3. (a \o x) \o z = a \o (x \o z)
  BY <1>1, ConcatAssociative
<1> QED
  BY <1>2, <1>3, Zenon DEF z, Cat

(* A run u is put behind the pipe when the framer has nothing left.        *)
LEMMA PutBehind ==
  ASSUME Types, wire = <<>>, NEW u \in Seq(Units)
  PROVE  Stream \o u = reasm \o (pipe \o u)
<1>0. pipe \in Seq(Units) /\ reasm \in Seq(Units)
  BY DEF Types, TypeOK
<1>1. Stream = reasm \o pipe
  BY <1>0, ConcatEmptySeq DEF Stream
<1> HIDE DEF Stream
<1> QED
  BY <1>0, <1>1, Regroup

(* A write moves a unit from the framer into the pipe ...                  *)
LEMMA WriteMoves ==
  ASSUME pipe \in Seq(Units), wire \in Seq(Units), wire # <<>>
  PROVE  Append(pipe, Head(wire)) \o Tail(wire) = pipe \o wire
<1>1. Head(wire) \in Units /\ Tail(wire) \in Seq(Units)
  BY HeadTailProperties
<1>2. Append(pipe, Head(wire)) = pipe \o <<Head(wire)>>
  BY <1>1, AppendIsConcat
<1>3. <<Head(wire)>> \in Seq(Units)
  BY <1>1
<1>4. <<Head(wire)>> \o Tail(wire) = wire
  OBVIOUS
<1> QED
  BY <1>1, <1>2, <1>3, <1>4, ConcatAssociative

(* ... and a read moves some from the pipe into the buffer.                *)
LEMMA ReadMoves ==
  ASSUME Types
  PROVE  (reasm \o SubSeq(pipe, 1, ReadLen)) \o (SubSeq(pipe, ReadLen + 1, Len(pipe)) \o wire)
           = Stream
<1> DEFINE x == SubSeq(pipe, 1, ReadLen)
           y == SubSeq(pipe, ReadLen + 1, Len(pipe))
<1>0. wire \in Seq(Units) /\ pipe \in Seq(Units) /\ reasm \in Seq(Units)
  BY DEF Types, TypeOK
<1>1. x \in Seq(Units) /\ y \in Seq(Units)
  BY ReadFacts
<1>2. pipe = x \o y
  BY <1>0, ReadFacts, CutAnywhere
<1> HIDE DEF x, y
<1>3. Cat(Cat(reasm, x), Cat(y, wire)) = Cat(reasm, Cat(Cat(x, y), wire))
  BY <1>0, <1>1, RegroupFour
<1>4. (reasm \o x) \o (y \o wire) = reasm \o (pipe \o wire)
  BY <1>2, <1>3, Zenon DEF Cat
<1> QED
  BY <1>4, Zenon DEF Stream, x, y

LEMMA InitStream ==
  Init => StreamInv
<1> SUFFICES ASSUME Init PROVE Sound(Stream, sent, delivered)
  BY DEF StreamInv
<1>1. sent = <<>> /\ delivered = <<>> /\ Stream = <<>> /\ Len(<<>>) = 0
  <2>1. <<>> \o (<<>> \o <<>>) = <<>>
    OBVIOUS
  <2> QED
    BY <2>1 DEF Init, Stream
<1>2. NonEmptyOf(<<>>)[0] = <<>>
  <2>1. <<>> \in Seq(Payloads)
    BY EmptySeq
  <2> QED
    BY <2>1, KeptIs DEF IsKept
<1>3. Framing([i \in 0 .. 0 |-> 0], <<>>, <<>>, 0)
  BY DEF Framing
<1> QED
  BY <1>1, <1>2, <1>3 DEF Sound

LEMMA NextStream ==
  ASSUME Types, StreamInv, [Next]_vars
  PROVE  StreamInv'
<1> SUFFICES ASSUME Clean'
             PROVE  Sound(Stream, sent, delivered)'
  BY DEF StreamInv
<1>0. /\ wire \in Seq(Units) /\ pipe \in Seq(Units) /\ reasm \in Seq(Units)
      /\ harm \in Nat /\ Fitting(sent)
  BY DEF Types, TypeOK
<1>1. pipe \o wire \in Seq(Units) /\ Stream \in Seq(Units)
  BY <1>0, ConcatProperties DEF Stream
<1>2. Clean => Sound(Stream, sent, delivered)
  BY DEF StreamInv
(* A frame u put behind the pipe when the framer has nothing left.         *)
<1>3. ASSUME wire = <<>>, NEW u \in Seq(Units)
      PROVE  Stream \o u = reasm \o (pipe \o u)
  BY <1>3, PutBehind
<1>4. CASE UNCHANGED vars
  BY <1>2, <1>4 DEF vars, Clean, Sound, Stream
<1>5. ASSUME NEW f \in Frames, EmitFrame(f)
      PROVE  Sound(Stream, sent, delivered)'
  <2> DEFINE u == <<Magic, Len(f)>> \o f
  <2>1. /\ wire = <<>> /\ Len(f) <= MaxPayload /\ wire' = u /\ sent' = Append(sent, f)
        /\ UNCHANGED <<pipe, reasm, harm, delivered>>
    BY <1>5 DEF EmitFrame, Begin
  <2>2. f \in Seq(Units) /\ u \in Seq(Units)
    BY <2>1, FramesAssumption, FrameIsUnits
  <2>3. Clean
    BY <2>1 DEF Clean
  <2>4. Sound(Stream \o u, Append(sent, f), delivered)
    BY <1>0, <1>1, <1>2, <2>1, <2>2, <2>3, SoundGrows
  <2> HIDE DEF u
  <2>5. Stream' = Stream \o u
    BY <1>3, <2>1, <2>2 DEF Stream
  <2> QED
    BY <2>1, <2>4, <2>5 DEF Sound
<1>6. ASSUME NEW n \in Noise, EmitNoise(n)
      PROVE  Sound(Stream, sent, delivered)'
  <2>1. harm' = harm + 1
    BY <1>6 DEF EmitNoise
  <2> QED
    BY <1>0, <2>1 DEF Clean
<1>7. CASE Write
  <2>1. wire # <<>> /\ wire' = Tail(wire) /\ pipe' = Append(pipe, Head(wire))
    BY <1>7 DEF Write
  <2>2. UNCHANGED <<reasm, sent, harm, delivered>>
    BY <1>7 DEF Write
  <2>3. Append(pipe, Head(wire)) \o Tail(wire) = pipe \o wire
    BY <1>0, <2>1, WriteMoves
  <2>4. Stream' = Stream
    BY <2>1, <2>2, <2>3 DEF Stream
  <2> QED
    BY <1>2, <2>2, <2>4 DEF Clean, Sound
<1>8. ASSUME NEW f \in Frames, dma_send_frame(f)
      PROVE  Sound(Stream, sent, delivered)'
  <2> DEFINE header == <<Magic, Len(f)>>
  <2>1. wire = <<>> /\ UNCHANGED <<wire, reasm, delivered>>
    BY <1>8 DEF dma_send_frame, Begin
  <2>2. \/ UNCHANGED <<pipe, sent, harm>>
        \/ harm' = harm + 1
        \/ ~TooLong(f) /\ pipe' = pipe \o header \o f /\ sent' = Append(sent, f) /\ harm' = harm
    BY <1>8 DEF dma_send_frame
  <2>3. CASE UNCHANGED <<pipe, sent, harm>>
    BY <1>2, <2>1, <2>3 DEF Clean, Sound, Stream
  <2>4. CASE harm' = harm + 1
    BY <1>0, <2>4 DEF Clean
  <2>5. CASE ~TooLong(f) /\ pipe' = pipe \o header \o f /\ sent' = Append(sent, f) /\ harm' = harm
    <3>1. f \in Seq(Units) /\ Len(f) \in Nat
      BY FramesAssumption, LenProperties
    <3>2. Len(f) <= MaxPayload
      BY <2>5, <3>1, UnitFacts DEF TooLong
    <3>3. header \in Seq(Units) /\ header \o f \in Seq(Units)
      BY <3>1, <3>2, FrameIsUnits
    <3>4. Clean
      BY <2>5 DEF Clean
    <3>5. Sound(Stream \o (header \o f), Append(sent, f), delivered)
      BY <1>0, <1>1, <1>2, <3>1, <3>2, <3>4, SoundGrows
    <3> HIDE DEF header
    <3>6. pipe' = pipe \o (header \o f)
      <4> DEFINE z == pipe \o header
      <4>1. pipe' = z \o f
        BY <2>5
      <4>2. z \o f = pipe \o (header \o f)
        BY <1>0, <3>1, <3>3, Regroup
      <4> QED
        BY <4>1, <4>2
    <3>7. pipe \o (header \o f) \in Seq(Units)
      BY <1>0, <3>3, ConcatProperties
    <3>8. Stream' = Stream \o (header \o f)
      <4>1. pipe' \o wire' = pipe \o (header \o f)
        BY <2>1, <3>6, <3>7, ConcatEmptySeq
      <4> QED
        BY <1>3, <2>1, <3>3, <4>1 DEF Stream
    <3> QED
      BY <2>1, <2>5, <3>5, <3>8 DEF Sound
  <2> QED
    BY <2>2, <2>3, <2>4, <2>5
<1>9. CASE Wake
  BY <1>2, <1>9 DEF Wake, Clean, Sound, Stream
<1>10. CASE RecvBuffered
  <2>1. Drained(Extract(reasm)) /\ UNCHANGED <<wire, pipe, sent, harm>>
    BY <1>10 DEF RecvBuffered
  <2>2. Sound(reasm \o (pipe \o wire), sent, delivered)
    BY <1>2, <2>1 DEF Clean, Stream
  <2>3. Sound(reasm' \o (pipe \o wire), sent, delivered')
    BY <1>0, <1>1, <2>1, <2>2, SoundDrained
  <2> QED
    BY <2>1, <2>3 DEF Sound, Stream
<1>11. CASE RecvTimeout
  BY <1>2, <1>11 DEF RecvTimeout, Clean, Sound, Stream
<1>12. CASE RecvRead
  <2> DEFINE y == SubSeq(pipe, ReadLen + 1, Len(pipe))
             b == reasm \o SubSeq(pipe, 1, ReadLen)
  <2>1. /\ Drained(Extract(b)) /\ pipe' = y
        /\ UNCHANGED <<wire, sent, harm>>
    BY <1>12 DEF RecvRead
  <2>2. y \in Seq(Units) /\ b \in Seq(Units)
    BY ReadFacts
  <2>5. b \o (y \o wire) = Stream
    BY ReadMoves
  <2> HIDE DEF b, y
  <2>4. y \o wire \in Seq(Units)
    BY <1>0, <2>2, ConcatProperties
  <2>6. Sound(b \o (y \o wire), sent, delivered)
    BY <1>2, <2>1, <2>5 DEF Clean
  <2>7. Sound(reasm' \o (y \o wire), sent, delivered')
    BY <2>1, <2>2, <2>4, <2>6, SoundDrained
  <2> QED
    BY <2>1, <2>7 DEF Sound, Stream
<1> QED
  BY <1>4, <1>5, <1>6, <1>7, <1>8, <1>9, <1>10, <1>11, <1>12 DEF Next

(* "The function will NOT return half-frames" (dma_io.h:178), for every    *)
(* capacity and every way the stream is cut by writes and reads: until the *)
(* first noise or lost payload, what ml_drain_dma_chan dispatches is the   *)
(* beginning of what was framed, without the empty frames.                 *)
THEOREM DispatchesWhatWasFramed ==
  Spec => []WholeFrames
<1>1. Init => StreamInv
  BY InitStream
<1>2. Types /\ StreamInv /\ [Next]_vars => StreamInv'
  BY NextStream
<1>3. Types /\ StreamInv => WholeFrames
  <2> SUFFICES ASSUME Types, StreamInv, Clean
               PROVE  IsPrefix(delivered, NonEmpty(sent))
    BY DEF WholeFrames
  <2>1. PICK k \in 0 .. Len(sent) : delivered = NonEmptyOf(sent)[k]
    BY DEF StreamInv, Sound
  <2>2. sent \in Seq(Payloads)
    BY DEF Types, Fitting, Payloads
  <2> QED
    BY <2>1, <2>2, KeptPrefix
<1> QED
  BY <1>1, <1>2, <1>3, AlwaysTypes, PTL DEF Spec

-----------------------------------------------------------------------------
(* The damage.  A unit of the stream can begin a header if it is a magic   *)
(* that no other magic follows; it is wild if no framed payload is there.  *)
(* A bogus frame is one that was dispatched and never framed.              *)
Starts(s) == {i \in 1 .. Len(s) : s[i] = Magic /\ (i < Len(s) => s[i + 1] # Magic)}
Wild(s, fs) == {i \in Starts(s) : \A f \in ToSet(fs) : ~FrameAt(s, i - 1, f)}
Bogus(dl, fs) == {i \in DOMAIN dl : dl[i] \notin ToSet(fs)}

NoMagicIn(fs) == \A f \in ToSet(fs) : Magic \notin ToSet(f)

(* Each wild header is still good for one bogus frame, and none else.      *)
DamageInv ==
  NoMagicIn(sent) =>
    Cardinality(Wild(Stream, sent)) + Cardinality(Bogus(delivered, sent)) <= harm

LEMMA Finite ==
  ASSUME NEW s \in Seq(Units), NEW dl \in Seq(Payloads), NEW fs
  PROVE  /\ IsFiniteSet(Wild(s, fs)) /\ Cardinality(Wild(s, fs)) \in Nat
         /\ IsFiniteSet(Bogus(dl, fs)) /\ Cardinality(Bogus(dl, fs)) \in Nat
         /\ IsFiniteSet(Starts(s))
<1>1. Len(s) \in Nat /\ Len(dl) \in Nat /\ DOMAIN dl = 1 .. Len(dl)
  BY LenProperties
<1>2. IsFiniteSet(1 .. Len(s)) /\ IsFiniteSet(1 .. Len(dl))
  BY <1>1, FS_Interval
<1>3. Wild(s, fs) \in SUBSET (1 .. Len(s)) /\ Starts(s) \in SUBSET (1 .. Len(s))
  BY DEF Wild, Starts
<1>4. Bogus(dl, fs) \in SUBSET (1 .. Len(dl))
  BY <1>1 DEF Bogus
<1>5. IsFiniteSet(Wild(s, fs)) /\ IsFiniteSet(Bogus(dl, fs)) /\ IsFiniteSet(Starts(s))
  BY <1>2, <1>3, <1>4, FS_Subset
<1> QED
  BY <1>5, FS_CardinalityType

(* What was framed stays framed.                                           *)
LEMMA MoreFramed ==
  ASSUME NEW fs \in Seq(Payloads), NEW f \in Payloads
  PROVE  /\ ToSet(Append(fs, f)) = ToSet(fs) \cup {f}
         /\ NoMagicIn(Append(fs, f)) => NoMagicIn(fs) /\ Magic \notin ToSet(f)
         /\ \A dl : Bogus(dl, Append(fs, f)) \subseteq Bogus(dl, fs)
<1> DEFINE g == Append(fs, f)
<1>1. /\ g \in Seq(Payloads) /\ Len(g) = Len(fs) + 1 /\ Len(fs) \in Nat
      /\ \A i \in 1 .. Len(fs) : g[i] = fs[i]
      /\ g[Len(fs) + 1] = f
  BY AppendProperties, LenProperties
<1>2. DOMAIN g = 1 .. Len(fs) + 1 /\ DOMAIN fs = 1 .. Len(fs)
  BY <1>1, LenProperties
<1> HIDE DEF g
<1>3. \A i \in 1 .. Len(fs) + 1 : i \in 1 .. Len(fs) \/ i = Len(fs) + 1
  BY <1>1
<1>4. \A i \in 1 .. Len(fs) : i \in 1 .. Len(fs) + 1
  BY <1>1
<1>5. Len(fs) + 1 \in 1 .. Len(fs) + 1
  BY <1>1
<1>6. ToSet(g) = ToSet(fs) \cup {f}
  <2>1. ASSUME NEW x \in ToSet(g) PROVE x \in ToSet(fs) \cup {f}
    <3>1. PICK i \in 1 .. Len(fs) + 1 : x = g[i]
      BY <1>2 DEF ToSet
    <3> QED
      BY <1>1, <1>2, <1>3, <3>1 DEF ToSet
  <2>2. ASSUME NEW x \in ToSet(fs) PROVE x \in ToSet(g)
    <3>1. PICK i \in 1 .. Len(fs) : x = fs[i]
      BY <1>2 DEF ToSet
    <3>2. x = g[i] /\ i \in DOMAIN g
      BY <1>1, <1>2, <1>4, <3>1
    <3> QED
      BY <3>2 DEF ToSet
  <2>3. f \in ToSet(g)
    BY <1>1, <1>2, <1>5 DEF ToSet
  <2> QED
    BY <2>1, <2>2, <2>3
<1>7. NoMagicIn(g) => NoMagicIn(fs) /\ Magic \notin ToSet(f)
  BY <1>6 DEF NoMagicIn
<1>8. \A dl : Bogus(dl, g) \subseteq Bogus(dl, fs)
  BY <1>6 DEF Bogus
<1> QED
  BY <1>6, <1>7, <1>8 DEF g

(* The stream goes on: an old magic can begin no more than before.         *)
LEMMA OldStarts ==
  ASSUME NEW s \in Seq(Units), NEW u \in Seq(Units), NEW fs \in Seq(Payloads),
         NEW gs, ToSet(fs) \subseteq ToSet(gs),
         NEW i \in Wild(s \o u, gs), i <= Len(s)
  PROVE  i \in Wild(s, fs)
<1> DEFINE t == s \o u
<1>1. /\ t \in Seq(Units) /\ Len(s) \in Nat /\ Len(u) \in Nat /\ Len(t) = Len(s) + Len(u)
      /\ \A j \in 1 .. Len(s) : t[j] = s[j]
  BY ConcatProperties, LenProperties
<1> HIDE DEF t
<1>2. /\ i \in 1 .. Len(t) /\ t[i] = Magic /\ (i < Len(t) => t[i + 1] # Magic)
      /\ \A f \in ToSet(gs) : ~FrameAt(t, i - 1, f)
  BY DEF Wild, Starts, t
<1>3. i \in 1 .. Len(s) /\ i - 1 \in Nat
  BY <1>1, <1>2
<1>4. s[i] = Magic
  BY <1>1, <1>2, <1>3
<1>5. ASSUME i < Len(s) PROVE s[i + 1] # Magic
  <2>1. i + 1 \in 1 .. Len(s) /\ i < Len(t)
    BY <1>1, <1>3, <1>5
  <2> QED
    BY <1>1, <1>2, <2>1
<1>6. ASSUME NEW f \in ToSet(fs) PROVE ~FrameAt(s, i - 1, f)
  <2>1. f \in Payloads /\ f \in ToSet(gs)
    <3>1. PICK j \in DOMAIN fs : f = fs[j]
      BY DEF ToSet
    <3>2. fs[j] \in Payloads
      BY LenProperties, ElementOfSeq
    <3> QED
      BY <3>1, <3>2
  <2>2. Len(s) <= Len(t)
    BY <1>1
  <2> QED
    BY <1>1, <1>2, <1>3, <2>1, <2>2, FrameStays
<1> QED
  BY <1>3, <1>4, <1>5, <1>6 DEF Wild, Starts

(* A whole frame whose payload holds no magic adds nothing wild.           *)
LEMMA FrameAddsNone ==
  ASSUME NEW s \in Seq(Units), NEW fs \in Seq(Payloads), NEW f \in Payloads,
         Len(f) <= MaxPayload, Magic \notin ToSet(f)
  PROVE  Wild(s \o (<<Magic, Len(f)>> \o f), Append(fs, f)) \subseteq Wild(s, fs)
<1> DEFINE h == <<Magic, Len(f)>>
           u == h \o f
           t == s \o u
           gs == Append(fs, f)
<1>1. h \in Seq(Units) /\ Len(h) = 2 /\ h[1] = Magic /\ h[2] = Len(f) /\ f \in Seq(Units)
  BY FrameIsUnits DEF Payloads
<1> HIDE DEF h
<1>2. /\ u \in Seq(Units) /\ Len(u) = 2 + Len(f) /\ u[1] = Magic /\ u[2] = Len(f)
      /\ \A j \in 1 .. Len(f) : u[2 + j] = f[j]
      /\ Len(f) \in Nat /\ Len(s) \in Nat
  <2>1. /\ u \in Seq(Units) /\ Len(u) = Len(h) + Len(f) /\ Len(f) \in Nat /\ Len(s) \in Nat
        /\ \A j \in 1 .. Len(h) : u[j] = h[j]
        /\ \A j \in 1 .. Len(f) : u[Len(h) + j] = f[j]
    BY <1>1, Joined
  <2> QED
    BY <1>1, <2>1
<1> HIDE DEF u
<1>3. /\ t \in Seq(Units) /\ Len(t) = Len(s) + Len(u)
      /\ \A j \in 1 .. Len(u) : t[Len(s) + j] = u[j]
  BY <1>2, Joined
<1>4. ToSet(gs) = ToSet(fs) \cup {f}
  BY MoreFramed
<1> HIDE DEF t, gs
<1>5. Len(f) # Magic
  BY <1>2, UnitFacts DEF Magic
<1>6. FrameAt(t, Len(s), f)
  <2>1. t[Len(s) + 1] = Magic /\ t[Len(s) + 2] = Len(f)
    BY <1>2, <1>3
  <2>2. ASSUME NEW j \in 1 .. Len(f) PROVE t[Len(s) + 2 + j] = f[j]
    <3>1. 2 + j \in 1 .. Len(u) /\ Len(s) + 2 + j = Len(s) + (2 + j)
      BY <1>2
    <3> QED
      BY <1>2, <1>3, <3>1
  <2>3. Len(s) + 2 + Len(f) <= Len(t)
    BY <1>2, <1>3
  <2> QED
    BY <2>1, <2>2, <2>3 DEF FrameAt
<1>7. ASSUME NEW i \in Wild(t, gs) PROVE i <= Len(s)
  <2> SUFFICES ASSUME i > Len(s) PROVE FALSE
    BY <1>2, <1>3 DEF Wild, Starts
  <2>1. i \in 1 .. Len(t) /\ t[i] = Magic /\ ~FrameAt(t, i - 1, f)
    BY <1>4 DEF Wild, Starts
  <2> DEFINE j == i - Len(s)
  <2>2. j \in 1 .. 2 + Len(f) /\ i = Len(s) + j
    BY <1>2, <1>3, <2>1
  <2> HIDE DEF j
  <2>3. u[j] = Magic
    BY <1>2, <1>3, <2>1, <2>2
  <2>4. CASE j = 1
    <3>1. i - 1 = Len(s)
      BY <1>2, <2>2, <2>4
    <3> QED
      BY <1>6, <2>1, <3>1
  <2>5. CASE j = 2
    BY <1>2, <1>5, <2>3, <2>5
  <2>6. CASE j > 2
    <3>1. j - 2 \in 1 .. Len(f) /\ 2 + (j - 2) = j
      BY <1>2, <2>2, <2>6
    <3>2. f[j - 2] = Magic
      BY <1>2, <2>3, <3>1
    <3>3. DOMAIN f = 1 .. Len(f)
      BY <1>1, LenProperties
    <3> QED
      BY <3>1, <3>2, <3>3 DEF ToSet
  <2> QED
    BY <2>2, <2>4, <2>5, <2>6
<1>8. ASSUME NEW i \in Wild(t, gs) PROVE i \in Wild(s, fs)
  BY <1>2, <1>4, <1>7, OldStarts DEF t
<1> QED
  BY <1>8 DEF t, u, h, gs

(* Anything else that can begin one header adds at most one.               *)
LEMMA RunAddsOne ==
  ASSUME NEW s \in Seq(Units), NEW u \in Seq(Units), NEW fs \in Seq(Payloads),
         \A i, j \in Starts(u) : i = j
  PROVE  Cardinality(Wild(s \o u, fs)) <= Cardinality(Wild(s, fs)) + 1
<1> DEFINE t == s \o u
           W == Wild(s, fs)
<1>1. /\ t \in Seq(Units) /\ Len(s) \in Nat /\ Len(u) \in Nat /\ Len(t) = Len(s) + Len(u)
      /\ \A j \in 1 .. Len(u) : t[Len(s) + j] = u[j]
  BY Joined
<1>2. IsFiniteSet(W) /\ Cardinality(W) \in Nat
  BY EmptySeq, Finite
<1> HIDE DEF t
<1>3. ASSUME NEW i \in Wild(t, fs), i > Len(s) PROVE i - Len(s) \in Starts(u) /\ i \in Nat
  <2>1. i \in 1 .. Len(t) /\ t[i] = Magic /\ (i < Len(t) => t[i + 1] # Magic)
    BY DEF Wild, Starts
  <2> DEFINE j == i - Len(s)
  <2>2. j \in 1 .. Len(u) /\ i = Len(s) + j
    BY <1>1, <1>3, <2>1
  <2> HIDE DEF j
  <2>3. u[j] = Magic
    BY <1>1, <2>1, <2>2
  <2>4. ASSUME j < Len(u) PROVE u[j + 1] # Magic
    <3>1. j + 1 \in 1 .. Len(u) /\ i + 1 = Len(s) + (j + 1) /\ i < Len(t)
      BY <1>1, <2>2, <2>4
    <3> QED
      BY <1>1, <2>1, <3>1
  <2> QED
    BY <2>1, <2>2, <2>3, <2>4 DEF Starts, j
<1>4. ASSUME NEW i \in Wild(t, fs), i <= Len(s) PROVE i \in W
  BY <1>4, OldStarts DEF t
<1>5. \E x : Wild(t, fs) \subseteq W \cup {x}
  <2>1. \A i \in Wild(t, fs) : i \in Nat
    BY <1>1 DEF Wild, Starts
  <2>2. CASE \A i \in Wild(t, fs) : i <= Len(s)
    BY <1>4, <2>2
  <2>3. CASE \E i \in Wild(t, fs) : i > Len(s)
    <3>1. PICK x \in Wild(t, fs) : x > Len(s)
      BY <2>3
    <3>2. ASSUME NEW i \in Wild(t, fs), i > Len(s) PROVE i = x
      <4>1. i - Len(s) = x - Len(s) /\ i \in Nat /\ x \in Nat
        BY <1>3, <3>1, <3>2
      <4> QED
        BY <1>1, <4>1
    <3>3. \A i \in Wild(t, fs) : i <= Len(s) \/ i > Len(s)
      BY <1>1, <2>1
    <3> QED
      BY <1>4, <3>2, <3>3
  <2>4. \A i \in Wild(t, fs) : i <= Len(s) \/ i > Len(s)
    BY <1>1, <2>1
  <2> QED
    BY <2>2, <2>3, <2>4
<1>6. PICK x : Wild(t, fs) \subseteq W \cup {x}
  BY <1>5
<1> HIDE DEF W
<1>7. IsFiniteSet(W \cup {x}) /\ Cardinality(W \cup {x}) <= Cardinality(W) + 1
  <2>1. /\ IsFiniteSet(W \cup {x})
        /\ Cardinality(W \cup {x}) = IF x \in W THEN Cardinality(W) ELSE Cardinality(W) + 1
    BY <1>2, FS_AddElement
  <2> QED
    BY <1>2, <2>1
<1>8. Cardinality(Wild(t, fs)) <= Cardinality(W \cup {x})
  BY <1>6, <1>7, FS_Subset
<1>9. Cardinality(Wild(t, fs)) \in Nat /\ Cardinality(W \cup {x}) \in Nat
  BY <1>1, <1>7, EmptySeq, Finite, FS_CardinalityType
<1> QED
  BY <1>2, <1>7, <1>8, <1>9 DEF t, W

(* Units are taken out at the front: what is left is as wild as it was.    *)
LEMMA TakeOut ==
  ASSUME NEW s \in Seq(Units), NEW fs \in Seq(Payloads), NEW d \in Nat, d <= Len(s)
  PROVE  LET t == SubSeq(s, d + 1, Len(s)) IN
         /\ Cardinality(Wild(t, fs)) <= Cardinality(Wild(s, fs))
         /\ d > 0 /\ 1 \in Wild(s, fs) =>
              Cardinality(Wild(t, fs)) <= Cardinality(Wild(s, fs)) - 1
<1> DEFINE t == SubSeq(s, d + 1, Len(s))
           V == Wild(t, fs)
           W == Wild(s, fs)
           g == [i \in V |-> i + d]
<1>1. /\ t \in Seq(Units) /\ Len(t) = Len(s) - d /\ Len(s) \in Nat
      /\ \A i \in 1 .. Len(s) - d : t[i] = s[d + i]
  BY Rest, LenProperties
<1>2. ASSUME NEW i \in V PROVE i \in 1 .. Len(t) /\ i + d \in W
  <2> HIDE DEF t
  <2>1. /\ i \in 1 .. Len(t) /\ t[i] = Magic /\ (i < Len(t) => t[i + 1] # Magic)
        /\ \A f \in ToSet(fs) : ~FrameAt(t, i - 1, f)
    BY DEF Wild, Starts
  <2>2. i + d \in 1 .. Len(s) /\ i + d = d + i
    BY <1>1, <2>1
  <2>3. s[i + d] = Magic
    BY <1>1, <2>1, <2>2
  <2>4. ASSUME i + d < Len(s) PROVE s[(i + d) + 1] # Magic
    <3>1. i + 1 \in 1 .. Len(s) - d /\ i < Len(t) /\ d + (i + 1) = (i + d) + 1
      BY <1>1, <2>1, <2>4
    <3> QED
      BY <1>1, <2>1, <3>1
  <2>5. ASSUME NEW f \in ToSet(fs), FrameAt(s, (i + d) - 1, f) PROVE FALSE
    <3>1. f \in Payloads
      <4>1. PICK j \in DOMAIN fs : f = fs[j]
        BY DEF ToSet
      <4>2. fs[j] \in Payloads
        BY LenProperties, ElementOfSeq
      <4> QED
        BY <4>1, <4>2
    <3>2. (i + d) - 1 \in Nat /\ d <= (i + d) - 1 /\ ((i + d) - 1) - d = i - 1
      BY <1>1, <2>1
    <3> DEFINE p == (i + d) - 1
    <3>3. p \in Nat /\ d <= p /\ FrameAt(s, p, f) /\ p - d = i - 1
      BY <2>5, <3>2
    <3> HIDE DEF p
    <3>4. FrameAt(t, p - d, f)
      BY <3>1, <3>3, FrameMoves DEF t
    <3> QED
      BY <2>1, <3>3, <3>4
  <2> QED
    BY <2>1, <2>2, <2>3, <2>4, <2>5 DEF Wild, Starts
<1>3. IsFiniteSet(W) /\ Cardinality(W) \in Nat /\ Cardinality(V) \in Nat
  BY <1>1, EmptySeq, Finite
<1>4. ASSUME NEW X, X \subseteq W, \A i \in V : i + d \in X
      PROVE  Cardinality(V) <= Cardinality(X)
  <2>1. IsFiniteSet(X)
    BY <1>3, <1>4, FS_Subset
  <2>2. \A i, j \in V : i + d = j + d => i = j
    <3>1. \A i \in V : i \in Nat
      BY <1>1, <1>2
    <3> QED
      BY <3>1
  <2>3. g \in Injection(V, X)
    <3>1. g \in [V -> X] /\ \A i, j \in V : g[i] = g[j] => i = j
      BY <1>4, <2>2
    <3> QED
      BY <3>1 DEF Injection, IsInjective
  <2> QED
    BY <2>1, <2>3, FS_Injection
<1>5. Cardinality(V) <= Cardinality(W)
  BY <1>2, <1>4
<1>6. ASSUME d > 0, 1 \in W PROVE Cardinality(V) <= Cardinality(W) - 1
  <2>1. \A i \in V : i + d \in W \ {1}
    BY <1>1, <1>2, <1>6
  <2>2. Cardinality(W \ {1}) = Cardinality(W) - 1
    BY <1>3, <1>6, FS_RemoveElement
  <2>3. Cardinality(V) <= Cardinality(W \ {1})
    BY <1>4, <2>1
  <2> QED
    BY <2>2, <2>3
<1> QED
  BY <1>5, <1>6

(* What reasm_try_extract makes of the beginning b of any stream: it takes *)
(* units out at the front, and what it hands over was framed or begins     *)
(* with a wild header.                                                     *)
LEMMA ExtractTakes ==
  ASSUME NEW b \in Seq(Units), NEW c \in Seq(Units), NEW fs \in Seq(Payloads)
  PROVE  \E d \in Nat :
           /\ d <= Len(b \o c)
           /\ Extract(b).rest \o c = SubSeq(b \o c, d + 1, Len(b \o c))
           /\ Extract(b).rc = "frame" /\ Extract(b).frame \notin ToSet(fs) =>
                d > 0 /\ 1 \in Wild(b \o c, fs)
<1> DEFINE s == b \o c
           n == b[2]
           total == Header + n
<1>0. Len(b) \in Nat
  BY LenProperties
<1>1. CASE Extract(b) = Result("more", <<>>, b)
  <2>1. SubSeq(b, 0 + 1, Len(b)) = b
    <3>1. SubSeq(b, 1, Len(b)) = b
      BY SubSeqFull
    <3> QED
      BY <3>1
  <2>2. 0 <= Len(s) /\ b \o c = SubSeq(s, 0 + 1, Len(s))
    BY <1>0, <2>1, RestOfJoined
  <2>3. Extract(b).rest = b /\ Extract(b).rc = "more"
    BY <1>1 DEF Result
  <2> QED
    BY <2>2, <2>3
<1>2. CASE ~(Len(b) < Header) /\ ~KnownMagic(b[1])
  <2>1. Extract(b).rest = Tail(b) /\ Extract(b).rc = "bad"
    BY <1>2 DEF Extract, Result
  <2>2. 1 <= Len(b)
    BY <1>0, <1>2 DEF Header
  <2>3. Tail(b) = SubSeq(b, 1 + 1, Len(b))
    OBVIOUS
  <2>4. 1 <= Len(s) /\ SubSeq(b, 1 + 1, Len(b)) \o c = SubSeq(s, 1 + 1, Len(s))
    <3> HIDE DEF s
    <3>1. 1 \in Nat
      OBVIOUS
    <3> QED
      BY <2>2, <3>1, RestOfJoined, Zenon DEF s
  <2> QED
    BY <2>1, <2>3, <2>4
<1>3. CASE ~(Len(b) < Header) /\ KnownMagic(b[1]) /\ BadLength(b[2])
  <2>1. Extract(b).rest = SubSeq(b, Header + 1, Len(b)) /\ Extract(b).rc = "bad"
    BY <1>3 DEF Extract, Result
  <2>2. Header \in Nat /\ Header <= Len(b)
    BY <1>0, <1>3 DEF Header
  <2>3. Header <= Len(s) /\ SubSeq(b, Header + 1, Len(b)) \o c = SubSeq(s, Header + 1, Len(s))
    BY <2>2, RestOfJoined
  <2> QED
    BY <2>1, <2>2, <2>3
<1>4. CASE ~(Len(b) < Header) /\ KnownMagic(b[1]) /\ ~BadLength(b[2]) /\ ~(Len(b) < total)
  <2> DEFINE g == SubSeq(b, Header + 1, total)
  <2>1. Extract(b).rest = SubSeq(b, total + 1, Len(b)) /\ Extract(b).frame = g
    BY <1>4 DEF Extract, Result, Leftover
  <2>2. 1 \in 1 .. Len(b) /\ 2 \in 1 .. Len(b)
    BY <1>0, <1>4 DEF Header
  <2>3. n \in Nat /\ n <= MaxPayload /\ b[1] = Magic
    <3>1. n \in Nat
      BY <2>2, ElementOfSeq, UnitFacts
    <3> QED
      BY <1>4, <3>1, UnitFacts DEF BadLength, KnownMagic
  <2>4. total = 2 + n /\ total \in Nat /\ total > 0 /\ total <= Len(b)
    BY <1>0, <1>4, <2>3 DEF Header
  <2>5. total <= Len(s) /\ SubSeq(b, total + 1, Len(b)) \o c = SubSeq(s, total + 1, Len(s))
    BY <2>4, RestOfJoined
  <2>6. /\ Len(s) \in Nat /\ Len(b) <= Len(s)
        /\ \A i \in 1 .. Len(b) : s[i] = b[i]
    <3>1. /\ Len(s) = Len(b) + Len(c) /\ Len(c) \in Nat
          /\ \A i \in 1 .. Len(b) : s[i] = b[i]
      BY Joined
    <3> QED
      BY <1>0, <3>1
  <2>7. g \in Seq(Units) /\ Len(g) = n /\ \A i \in 1 .. n : g[i] = b[2 + i]
    <3>1. \A i \in 3 .. total : b[i] \in Units
      <4> TAKE i \in 3 .. total
      <4>1. i \in 1 .. Len(b)
        BY <1>0, <2>4
      <4> QED
        BY <4>1, ElementOfSeq
    <3>2. g = SubSeq(b, 3, total)
      BY DEF Header
    <3> HIDE DEF total
    <3>3. /\ SubSeq(b, 3, total) \in Seq(Units)
          /\ Len(SubSeq(b, 3, total)) = IF 3 <= total THEN total - 3 + 1 ELSE 0
          /\ \A i \in 1 .. total - 3 + 1 : SubSeq(b, 3, total)[i] = b[3 + i - 1]
      BY <2>4, <3>1, SubSeqProperties
    <3> HIDE DEF g
    <3>4. Len(g) = n
      BY <2>3, <2>4, <3>2, <3>3
    <3>5. ASSUME NEW i \in 1 .. n PROVE g[i] = b[2 + i]
      <4>1. i \in 1 .. total - 3 + 1 /\ 3 + i - 1 = 2 + i
        BY <2>3, <2>4
      <4> QED
        BY <3>2, <3>3, <4>1
    <3> QED
      BY <3>2, <3>3, <3>4, <3>5
  <2> HIDE DEF g, s, total
  <2>8. 1 \in Starts(s)
    <3>1. s[1] = Magic /\ s[2] = n /\ 1 \in 1 .. Len(s) /\ 1 + 1 = 2
      BY <1>0, <2>2, <2>3, <2>6
    <3>2. n # Magic
      BY <2>3, UnitFacts DEF Magic
    <3> QED
      BY <3>1, <3>2 DEF Starts
  <2>9. ASSUME NEW f \in ToSet(fs), FrameAt(s, 1 - 1, f) PROVE f = g
    <3>1. f \in Seq(Units)
      <4>1. PICK j \in DOMAIN fs : f = fs[j]
        BY DEF ToSet
      <4>2. fs[j] \in Payloads
        BY LenProperties, ElementOfSeq
      <4> QED
        BY <4>1, <4>2 DEF Payloads
    <3>2. s[0 + 2] = Len(f) /\ \A i \in 1 .. Len(f) : s[0 + 2 + i] = f[i]
      <4>1. 1 - 1 = 0
        OBVIOUS
      <4> QED
        BY <2>9, <4>1 DEF FrameAt
    <3>3. Len(f) = n
      BY <2>2, <2>6, <3>2
    <3>4. ASSUME NEW i \in 1 .. Len(g) PROVE g[i] = f[i]
      <4>1. i \in 1 .. n /\ 2 + i \in 1 .. Len(b) /\ 0 + 2 + i = 2 + i
        BY <1>0, <2>3, <2>4, <2>7
      <4> QED
        BY <2>6, <2>7, <3>2, <3>3, <4>1
    <3> QED
      BY <2>7, <3>1, <3>3, <3>4, SeqEqual
  <2>10. g \notin ToSet(fs) => 1 \in Wild(s, fs)
    BY <2>8, <2>9 DEF Wild
  <2> QED
    BY <2>1, <2>4, <2>5, <2>10 DEF s
<1>5. CASE \/ Len(b) < Header
           \/ KnownMagic(b[1]) /\ ~BadLength(b[2]) /\ Len(b) < total
  <2>1. Extract(b) = Result("more", <<>>, b)
    BY <1>2, <1>5 DEF Extract
  <2> QED
    BY <1>1, <2>1
<1> QED
  BY <1>2, <1>3, <1>4, <1>5

(* One dma_recv_frame: a bogus frame uses up its wild header.              *)
LEMMA DamageDrained ==
  ASSUME Types, NEW b \in Seq(Units), NEW c \in Seq(Units), Drained(Extract(b))
  PROVE  Cardinality(Wild(reasm' \o c, sent)) + Cardinality(Bogus(delivered', sent))
           <= Cardinality(Wild(b \o c, sent)) + Cardinality(Bogus(delivered, sent))
<1> DEFINE s == b \o c
           t == reasm' \o c
           r == Extract(b)
           v == Cardinality(Wild(t, sent))
           w == Cardinality(Wild(s, sent))
           B == Bogus(delivered, sent)
<1>0. sent \in Seq(Payloads) /\ delivered \in Seq(Payloads) /\ s \in Seq(Units)
  BY ConcatProperties DEF Types, Fitting, Payloads
<1>1. PICK d \in Nat :
        /\ d <= Len(s)
        /\ r.rest \o c = SubSeq(s, d + 1, Len(s))
        /\ r.rc = "frame" /\ r.frame \notin ToSet(sent) => d > 0 /\ 1 \in Wild(s, sent)
  BY <1>0, ExtractTakes
<1>2. t = SubSeq(s, d + 1, Len(s))
  BY <1>1 DEF Drained
<1>3. t \in Seq(Units)
  BY <1>0, <1>1, <1>2, Rest
<1>4. r.frame \in Payloads
  BY ExtractTypes DEF Payloads
<1>5. \/ delivered' = delivered
      \/ r.rc = "frame" /\ delivered' = Append(delivered, r.frame)
  BY DEF Drained
<1> HIDE DEF s, t, r
<1>6. v <= w /\ (d > 0 /\ 1 \in Wild(s, sent) => v <= w - 1)
  BY <1>0, <1>1, <1>2, TakeOut
<1>7. v \in Nat /\ w \in Nat /\ IsFiniteSet(B) /\ Cardinality(B) \in Nat
  BY <1>0, <1>3, Finite
<1> HIDE DEF v, w
<1>8. CASE delivered' = delivered
  <2>1. Bogus(delivered', sent) = B
    BY <1>8
  <2> QED
    BY <1>6, <1>7, <2>1 DEF v, w, s, t
<1>9. CASE r.rc = "frame" /\ delivered' = Append(delivered, r.frame)
  <2> DEFINE k == Len(delivered) + 1
             dl == Append(delivered, r.frame)
  <2>1. /\ DOMAIN dl = 1 .. k /\ DOMAIN delivered = 1 .. Len(delivered)
        /\ Len(delivered) \in Nat
        /\ \A i \in 1 .. Len(delivered) : dl[i] = delivered[i]
        /\ dl[k] = r.frame
    <3>1. /\ dl \in Seq(Payloads) /\ Len(dl) = k
          /\ \A i \in 1 .. Len(delivered) : dl[i] = delivered[i]
          /\ dl[k] = r.frame
      BY <1>0, <1>4, AppendProperties
    <3> QED
      BY <1>0, <3>1, LenProperties
  <2>2. \A i \in 1 .. k : i \in 1 .. Len(delivered) \/ i = k
    BY <2>1
  <2> HIDE DEF k, dl
  <2>3. Bogus(dl, sent) \subseteq B \cup {k}
    BY <2>1, <2>2 DEF Bogus
  <2>4. r.frame \in ToSet(sent) => Bogus(dl, sent) \subseteq B
    BY <2>1, <2>2 DEF Bogus
  <2> HIDE DEF B
  <2>5. /\ IsFiniteSet(B \cup {k})
        /\ Cardinality(B \cup {k}) = IF k \in B THEN Cardinality(B) ELSE Cardinality(B) + 1
    BY <1>7, FS_AddElement
  <2>6. Bogus(dl, sent) = Bogus(delivered', sent)
    BY <1>9 DEF dl
  <2> DEFINE x == Cardinality(Bogus(dl, sent))
  <2>7. x \in Nat
    <3>1. IsFiniteSet(Bogus(dl, sent))
      BY <2>3, <2>5, FS_Subset
    <3> QED
      BY <3>1, FS_CardinalityType
  <2>8. CASE r.frame \in ToSet(sent)
    <3>1. x <= Cardinality(B)
      BY <1>7, <2>4, <2>8, FS_Subset
    <3> HIDE DEF x
    <3>2. v + x <= w + Cardinality(B)
      BY <1>6, <1>7, <2>7, <3>1
    <3> QED
      BY <2>6, <3>2 DEF x, v, w, s, t, B
  <2>9. CASE r.frame \notin ToSet(sent)
    <3>1. x <= Cardinality(B \cup {k})
      BY <2>3, <2>5, FS_Subset
    <3>2. v <= w - 1
      BY <1>1, <1>6, <1>9, <2>9
    <3> HIDE DEF x
    <3>3. x <= Cardinality(B) + 1
      BY <1>7, <2>5, <2>7, <3>1
    <3>4. v + x <= w + Cardinality(B)
      BY <1>7, <2>7, <3>2, <3>3
    <3> QED
      BY <2>6, <3>4 DEF x, v, w, s, t, B
  <2> QED
    BY <2>8, <2>9
<1> QED
  BY <1>5, <1>8, <1>9

LEMMA InitDamage ==
  Init => DamageInv
<1> SUFFICES ASSUME Init PROVE DamageInv
  OBVIOUS
<1>1. sent = <<>> /\ delivered = <<>> /\ Stream = <<>> /\ Len(<<>>) = 0 /\ harm = 0
  <2>1. <<>> \o (<<>> \o <<>>) = <<>>
    OBVIOUS
  <2> QED
    BY <2>1 DEF Init, Stream
<1>2. Wild(Stream, sent) = {} /\ Bogus(delivered, sent) = {}
  BY <1>1 DEF Wild, Starts, Bogus
<1>3. Cardinality({}) = 0 /\ 0 + 0 <= 0
  BY FS_EmptySet
<1>4. Cardinality(Wild(Stream, sent)) + Cardinality(Bogus(delivered, sent)) <= harm
  BY Zenon, <1>1, <1>2, <1>3
<1> QED
  BY <1>4 DEF DamageInv

(* A run u comes into the stream: a whole frame, or one damage.            *)
LEMMA RunDamage ==
  ASSUME Types, NEW u \in Seq(Units), DamageInv, Stream' = Stream \o u,
         UNCHANGED delivered,
         \/ /\ \E f \in Payloads : /\ Len(f) <= MaxPayload /\ u = <<Magic, Len(f)>> \o f
                                   /\ sent' = Append(sent, f)
            /\ harm' = harm
         \/ /\ \A i, j \in Starts(u) : i = j
            /\ sent' = sent /\ harm' = harm + 1
  PROVE  DamageInv'
<1> SUFFICES ASSUME NoMagicIn(sent')
             PROVE  Cardinality(Wild(Stream', sent')) + Cardinality(Bogus(delivered, sent')) <= harm'
  BY DEF DamageInv
<1> DEFINE w == Cardinality(Wild(Stream, sent))
           x == Cardinality(Bogus(delivered, sent))
<1>0. /\ sent \in Seq(Payloads) /\ delivered \in Seq(Payloads) /\ harm \in Nat
      /\ wire \in Seq(Units) /\ pipe \in Seq(Units) /\ reasm \in Seq(Units)
  BY DEF Types, TypeOK, Fitting, Payloads
<1>1. Stream \in Seq(Units) /\ Stream \o u \in Seq(Units)
  BY <1>0, ConcatProperties DEF Stream
<1>2. /\ IsFiniteSet(Wild(Stream, sent)) /\ w \in Nat
      /\ IsFiniteSet(Bogus(delivered, sent)) /\ x \in Nat
  BY <1>0, <1>1, Finite
<1>3. NoMagicIn(sent) => w + x <= harm
  BY DEF DamageInv
<1>4. ASSUME NEW f \in Payloads, Len(f) <= MaxPayload, u = <<Magic, Len(f)>> \o f,
             sent' = Append(sent, f), harm' = harm
      PROVE  Cardinality(Wild(Stream', sent')) + Cardinality(Bogus(delivered, sent')) <= harm'
  <2>1. NoMagicIn(sent) /\ Magic \notin ToSet(f)
    BY <1>0, <1>4, MoreFramed
  <2>2. Wild(Stream', sent') \subseteq Wild(Stream, sent)
    BY <1>0, <1>1, <1>4, <2>1, FrameAddsNone
  <2>3. Bogus(delivered, sent') \subseteq Bogus(delivered, sent)
    BY <1>0, <1>4, MoreFramed
  <2>4. Cardinality(Wild(Stream', sent')) <= w /\ Cardinality(Bogus(delivered, sent')) <= x
    BY <1>2, <2>2, <2>3, FS_Subset
  <2>5. Cardinality(Wild(Stream', sent')) \in Nat /\ Cardinality(Bogus(delivered, sent')) \in Nat
    BY <1>0, <1>1, Finite
  <2> DEFINE v == Cardinality(Wild(Stream', sent'))
             y == Cardinality(Bogus(delivered, sent'))
  <2>6. v \in Nat /\ y \in Nat /\ v <= w /\ y <= x /\ w + x <= harm
    BY <1>3, <2>1, <2>4, <2>5
  <2> HIDE DEF v, w, x, y
  <2>7. v + y <= harm
    BY <1>0, <1>2, <2>6
  <2> QED
    BY <1>4, <2>7 DEF v, y
<1>5. ASSUME \A i, j \in Starts(u) : i = j, sent' = sent, harm' = harm + 1
      PROVE  Cardinality(Wild(Stream', sent')) + Cardinality(Bogus(delivered, sent')) <= harm'
  <2>1. Cardinality(Wild(Stream', sent')) <= w + 1
    BY <1>0, <1>1, <1>5, RunAddsOne
  <2>2. Cardinality(Bogus(delivered, sent')) = x
    BY <1>5
  <2>3. Cardinality(Wild(Stream', sent')) \in Nat
    BY <1>0, <1>1, Finite
  <2>4. NoMagicIn(sent)
    BY <1>5
  <2> HIDE DEF w, x
  <2> QED
    BY <1>0, <1>2, <1>3, <1>5, <2>1, <2>2, <2>3, <2>4
<1> QED
  BY <1>4, <1>5

(* The damage stays where it is when the stream only moves on.             *)
LEMMA SameDamage ==
  ASSUME DamageInv, Stream' = Stream, UNCHANGED <<sent, harm, delivered>>
  PROVE  DamageInv'
BY DEF DamageInv, NoMagicIn, Wild, Bogus

LEMMA NextDamage ==
  ASSUME Types, DamageInv, [Next]_vars,
         \A u \in Noise : \A i, j \in Starts(u) : i = j
  PROVE  DamageInv'
<1>0. /\ wire \in Seq(Units) /\ pipe \in Seq(Units) /\ reasm \in Seq(Units)
      /\ harm \in Nat
  BY DEF Types, TypeOK
<1>1. pipe \o wire \in Seq(Units) /\ Stream \in Seq(Units)
  BY <1>0, ConcatProperties DEF Stream
(* A run u put behind the pipe when the framer has nothing left.           *)
<1>2. ASSUME wire = <<>>, NEW u \in Seq(Units)
      PROVE  Stream \o u = reasm \o (pipe \o u)
  BY <1>2, PutBehind
<1>3. CASE UNCHANGED vars
  BY <1>3, SameDamage DEF vars, Stream
<1>4. ASSUME NEW f \in Frames, EmitFrame(f)
      PROVE  DamageInv'
  <2> DEFINE u == <<Magic, Len(f)>> \o f
  <2>1. /\ wire = <<>> /\ Len(f) <= MaxPayload /\ wire' = u /\ sent' = Append(sent, f)
        /\ UNCHANGED <<pipe, reasm, harm, delivered>>
    BY <1>4 DEF EmitFrame, Begin
  <2>2. f \in Payloads /\ u \in Seq(Units)
    BY <2>1, FramesAssumption, FrameIsUnits DEF Payloads
  <2>3. \E g \in Payloads : Len(g) <= MaxPayload /\ u = <<Magic, Len(g)>> \o g
                            /\ sent' = Append(sent, g)
    BY <2>1, <2>2
  <2> HIDE DEF u
  <2>4. Stream' = Stream \o u
    BY <1>2, <2>1, <2>2 DEF Stream
  <2> QED
    BY <2>1, <2>2, <2>3, <2>4, RunDamage
<1>5. ASSUME NEW u \in Noise, EmitNoise(u)
      PROVE  DamageInv'
  <2>1. /\ wire = <<>> /\ wire' = u /\ harm' = harm + 1 /\ u \in Seq(Units)
        /\ UNCHANGED <<pipe, reasm, sent, delivered>>
    BY <1>5, NoiseAssumption DEF EmitNoise, Begin
  <2>2. Stream' = Stream \o u
    BY <1>2, <2>1 DEF Stream
  <2> QED
    BY <2>1, <2>2, RunDamage
<1>6. CASE Write
  <2>1. wire # <<>> /\ wire' = Tail(wire) /\ pipe' = Append(pipe, Head(wire))
    BY <1>6 DEF Write
  <2>2. UNCHANGED <<reasm, sent, harm, delivered>>
    BY <1>6 DEF Write
  <2>3. Append(pipe, Head(wire)) \o Tail(wire) = pipe \o wire
    BY <1>0, <2>1, WriteMoves
  <2>4. Stream' = Stream
    BY <2>1, <2>2, <2>3 DEF Stream
  <2> QED
    BY <2>2, <2>4, SameDamage
<1>7. ASSUME NEW f \in Frames, dma_send_frame(f)
      PROVE  DamageInv'
  <2> DEFINE header == <<Magic, Len(f)>>
             u == header \o f
  <2>1. wire = <<>> /\ UNCHANGED <<wire, reasm, delivered>>
    BY <1>7 DEF dma_send_frame, Begin
  <2>2. \/ UNCHANGED <<pipe, sent, harm>>
        \/ ~TooLong(f) /\ pipe' = pipe \o header /\ harm' = harm + 1 /\ sent' = sent
        \/ ~TooLong(f) /\ pipe' = pipe \o header \o f /\ sent' = Append(sent, f) /\ harm' = harm
    BY <1>7 DEF dma_send_frame
  <2>3. f \in Seq(Units) /\ Len(f) \in Nat /\ MaxPayload \in Nat
    BY FramesAssumption, LenProperties, UnitFacts
  <2>4. ~TooLong(f) => Len(f) <= MaxPayload
    BY <2>3 DEF TooLong
  <2>5. ASSUME NEW z \in Seq(Units), pipe' = pipe \o z PROVE Stream' = Stream \o z
    <3>1. pipe \o z \in Seq(Units)
      BY <1>0, ConcatProperties
    <3>2. pipe' \o wire' = pipe \o z
      BY <2>1, <2>5, <3>1, ConcatEmptySeq
    <3> QED
      BY <1>2, <2>1, <3>2 DEF Stream
  <2>6. CASE UNCHANGED <<pipe, sent, harm>>
    BY <2>1, <2>6, SameDamage DEF Stream
  <2>7. CASE ~TooLong(f) /\ pipe' = pipe \o header /\ harm' = harm + 1 /\ sent' = sent
    <3>1. header \in Seq(Units) /\ Len(header) = 2 /\ header[2] = Len(f)
      BY <2>3, <2>4, <2>7, FrameIsUnits
    <3>2. Len(f) # Magic
      BY <2>3, <2>4, <2>7 DEF Magic
    <3> HIDE DEF header
    <3>3. \A i \in Starts(header) : i = 1
      BY <3>1, <3>2 DEF Starts
    <3>4. Stream' = Stream \o header
      BY <2>5, <2>7, <3>1
    <3> QED
      BY <2>1, <2>7, <3>1, <3>3, <3>4, RunDamage
  <2>8. CASE ~TooLong(f) /\ pipe' = pipe \o header \o f /\ sent' = Append(sent, f) /\ harm' = harm
    <3>1. header \in Seq(Units) /\ u \in Seq(Units) /\ f \in Payloads
      BY <2>3, <2>4, <2>8, FrameIsUnits DEF Payloads
    <3>2. \E g \in Payloads : Len(g) <= MaxPayload /\ u = <<Magic, Len(g)>> \o g
                              /\ sent' = Append(sent, g)
      BY <2>4, <2>8, <3>1
    <3> HIDE DEF header
    <3>3. pipe' = pipe \o u
      <4> DEFINE z == pipe \o header
      <4>1. pipe' = z \o f
        BY <2>8
      <4>2. z \o f = pipe \o (header \o f)
        BY <1>0, <2>3, <3>1, Regroup
      <4> QED
        BY <4>1, <4>2
    <3> HIDE DEF u
    <3>4. Stream' = Stream \o u
      BY <2>5, <3>1, <3>3
    <3> QED
      BY <2>1, <2>8, <3>1, <3>2, <3>4, RunDamage
  <2> QED
    BY <2>2, <2>6, <2>7, <2>8
<1>8. CASE Wake
  BY <1>8, SameDamage DEF Wake, Stream
<1>9. ASSUME NEW b \in Seq(Units), NEW c \in Seq(Units), b \o c = Stream,
             Drained(Extract(b)), Stream' = reasm' \o c, UNCHANGED <<sent, harm>>
      PROVE  DamageInv'
  <2> DEFINE v == Cardinality(Wild(Stream', sent))
             w == Cardinality(Wild(Stream, sent))
             x == Cardinality(Bogus(delivered, sent))
             y == Cardinality(Bogus(delivered', sent))
  <2>1. v + y <= w + x
    BY <1>9, DamageDrained
  <2>2. NoMagicIn(sent) => w + x <= harm
    BY DEF DamageInv
  <2>3. v \in Nat /\ w \in Nat /\ x \in Nat /\ y \in Nat
    <3>1. Types'
      BY NextTypes
    <3>2. /\ Stream' \in Seq(Units) /\ delivered \in Seq(Payloads)
          /\ delivered' \in Seq(Payloads)
      BY <1>9, <3>1, ConcatProperties DEF Types, TypeOK, Payloads
    <3> QED
      BY <1>1, <3>2, Finite
  <2> HIDE DEF v, w, x, y
  <2>4. NoMagicIn(sent) => v + y <= harm
    BY <1>0, <2>1, <2>2, <2>3
  <2> QED
    BY <1>9, <2>4 DEF DamageInv, v, y
<1>10. CASE RecvBuffered
  <2>1. Drained(Extract(reasm)) /\ UNCHANGED <<wire, pipe, sent, harm>>
    BY <1>10 DEF RecvBuffered
  <2>2. Stream' = reasm' \o (pipe \o wire)
    BY <2>1 DEF Stream
  <2> QED
    BY <1>0, <1>1, <1>9, <2>1, <2>2 DEF Stream
<1>11. CASE RecvTimeout
  BY <1>11, SameDamage DEF RecvTimeout, Stream
<1>12. CASE RecvRead
  <2> DEFINE y == SubSeq(pipe, ReadLen + 1, Len(pipe))
             b == reasm \o SubSeq(pipe, 1, ReadLen)
  <2>1. Drained(Extract(b)) /\ pipe' = y /\ UNCHANGED <<wire, sent, harm>>
    BY <1>12 DEF RecvRead
  <2>2. b \in Seq(Units) /\ y \in Seq(Units) /\ b \o (y \o wire) = Stream
    BY ReadMoves, ReadFacts
  <2> HIDE DEF y, b
  <2>3. y \o wire \in Seq(Units)
    BY <1>0, <2>2, ConcatProperties
  <2>4. Stream' = reasm' \o (y \o wire)
    BY <2>1 DEF Stream
  <2> QED
    BY <1>9, <2>1, <2>2, <2>3, <2>4
<1> QED
  BY <1>3, <1>4, <1>5, <1>6, <1>7, <1>8, <1>10, <1>11, <1>12 DEF Next

(* For every payload limit and pipe size and every way writes and reads    *)
(* cut the stream: if no framed payload holds a magic and each run of      *)
(* noise can begin only one header, each run of noise and each header left *)
(* without its payload makes the receiver dispatch at most one frame that  *)
(* nobody framed (dma_send_frame, reasm_try_extract).                      *)
THEOREM DamageStaysBounded ==
  ASSUME \A u \in Noise : \A i, j \in Starts(u) : i = j
  PROVE  Spec => []DamageBounded
<1>1. Init => DamageInv
  BY InitDamage
<1>2. Types /\ DamageInv /\ [Next]_vars => DamageInv'
  BY NextDamage
<1>3. Types /\ DamageInv => DamageBounded
  <2> SUFFICES ASSUME Types, DamageInv, NoMagicIn(sent)
               PROVE  Cardinality(Bogus(delivered, sent)) <= harm
    BY DEF DamageBounded, NoMagicIn, Bogus
  <2>1. /\ reasm \in Seq(Units) /\ pipe \o wire \in Seq(Units) /\ harm \in Nat
        /\ delivered \in Seq(Payloads)
    BY ConcatProperties DEF Types, TypeOK, Payloads
  <2>2. Stream \in Seq(Units)
    BY <2>1, ConcatProperties DEF Stream
  <2>3. Cardinality(Wild(Stream, sent)) \in Nat /\ Cardinality(Bogus(delivered, sent)) \in Nat
    BY <2>1, <2>2, Finite
  <2>4. Cardinality(Wild(Stream, sent)) + Cardinality(Bogus(delivered, sent)) <= harm
    BY DEF DamageInv
  <2> QED
    BY <2>1, <2>3, <2>4
<1> QED
  BY <1>1, <1>2, <1>3, AlwaysTypes, PTL DEF Spec
=============================================================================
