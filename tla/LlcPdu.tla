-------------------------------- MODULE LlcPdu --------------------------------
(***************************************************************************)
(* The LLC codec (sw/llc/llc_pdu.c) and the part of                        *)
(* llc_handle_tma_unitdata_ind that finds out how long the body is.  A     *)
(* body is a sequence of bits; the CRC register is a sequence of 32 bits,  *)
(* most significant first.                                                 *)
(***************************************************************************)
EXTENDS BitBuffer

BODY_MAX_BITS == 32 * 8

LlcTypes == 0 .. 8
AL_SETUP == 8

llc_pdu_type_has_fcs(t) == t \in 4 .. 7
llc_pdu_type_has_nr(t) == t \in {0, 3, 4, 7}
llc_pdu_type_has_ns(t) == t \in {0, 1, 4, 5}

WidthIf(cond, n) == IF cond THEN n ELSE 0

Xor(s, t) == [i \in DOMAIN s |-> (s[i] + t[i]) % 2]
Ones == [i \in 1 .. 32 |-> 1]

(* 0xEDB88320                                                              *)
Poly == ToBits(60856, 16) \o ToBits(33568, 16)

CrcStep(crc, bit) ==
  LET shifted == <<0>> \o SubSeq(crc, 1, 31)
  IN  IF (bit + crc[32]) % 2 = 1 THEN Xor(shifted, Poly) ELSE shifted

(* llc_crc32 and crc32_over_bb_window: register preset to ones, inverted   *)
(* at the end.                                                             *)
llc_crc32(bits) ==
  LET crc[i \in 0 .. Len(bits)] == IF i = 0 THEN Ones ELSE CrcStep(crc[i - 1], bits[i])
  IN  Xor(crc[Len(bits)], Ones)

(* Mutant: the control bits in front of the body are left out.             *)
WindowBodyOnly(buffer, start, end) ==
  LET bits == BitsOf(buffer, end) IN SubSeq(bits, Min({end, start + 6}) + 1, end)

(* The bits the FCS covers: from the PDU type to the end of the body.      *)
Window(buffer, start, end) == SubSeq(BitsOf(buffer, end), start + 1, end)

PutBits(bb, bits) == IF bits = <<>> THEN bb ELSE bb_put_bits(bb, ToNat(bits), Len(bits))

(* put_body: eight bits at a time, then what is left.                      *)
put_body(bb, body) ==
  LET groups == (Len(body) + 7) \div 8
      group(k) == SubSeq(body, 8 * k - 7, Min({8 * k, Len(body)}))
  IN  FoldLeft(LAMBDA b, k : PutBits(b, group(k)), bb, [k \in 1 .. groups |-> k])

get_body(bb, len) ==
  LET groups == (len + 7) \div 8
      width(k) == Min({8, len - 8 * (k - 1)})
  IN  FoldLeft(LAMBDA a, k :
                 LET g == bb_get_bits(a.bb, width(k))
                 IN  [bb |-> g.bb, body |-> a.body \o ToBits(g.v, width(k))],
               [bb |-> bb, body |-> <<>>], [k \in 1 .. groups |-> k])

PutIf(cond, bb, v, n) == IF cond THEN bb_put_bits(bb, v, n) ELSE bb

(* The result of an encoder: rc "ok" with the buffer, or an error.         *)
llc_pdu_encode(bb, p) ==
  LET t == p.pdu_type
      start == bb.pos
      typed == bb_put_bits(bb, t, 4)
      nr == PutIf(llc_pdu_type_has_nr(t), typed, p.nr, 1)
      ns == PutIf(llc_pdu_type_has_ns(t), nr, p.ns, 1)
      body == put_body(ns, p.body)
      fcs == llc_crc32(Window(body.buffer, start, body.pos))
      full == IF llc_pdu_type_has_fcs(t)
              THEN PutBits(PutBits(body, SubSeq(fcs, 1, 16)), SubSeq(fcs, 17, 32))
              ELSE body
  IN  IF \/ t \notin LlcTypes
         \/ Len(p.body) > BODY_MAX_BITS
         \/ t = AL_SETUP /\ p.body # <<>>
      THEN [rc |-> "EINVAL", bb |-> bb]
      ELSE [rc |-> "ok", bb |-> full]

LlcRefused(rc) ==
  [rc |-> rc, pdu_type |-> 0, nr |-> 0, ns |-> 0, body |-> <<>>, fcs_valid |-> FALSE]

(* llc_pdu_decode with the body length the caller found.                   *)
llc_pdu_decode(bb, body_len) ==
  LET start == bb.pos
      type == bb_get_bits(bb, 4)
      t == type.v
      ctrl == WidthIf(llc_pdu_type_has_nr(t), 1) + WidthIf(llc_pdu_type_has_ns(t), 1)
      nr == IF llc_pdu_type_has_nr(t) THEN bb_get_bits(type.bb, 1) ELSE [bb |-> type.bb, v |-> 0]
      ns == IF llc_pdu_type_has_ns(t) THEN bb_get_bits(nr.bb, 1) ELSE [bb |-> nr.bb, v |-> 0]
      body == get_body(ns.bb, body_len)
      want == llc_crc32(Window(bb.buffer, start, body.bb.pos))
      high == bb_get_bits(body.bb, 16)
      low == bb_get_bits(high.bb, 16)
      Found(ok) == [rc |-> "ok", pdu_type |-> t, nr |-> nr.v, ns |-> ns.v,
                    body |-> body.body, fcs_valid |-> ok]
  IN  IF body_len > BODY_MAX_BITS THEN LlcRefused("EINVAL")
      ELSE IF bb_remaining(bb) < 4 THEN LlcRefused("EPROTO")
      ELSE IF t \notin LlcTypes THEN LlcRefused("EPROTO")
      ELSE IF t = AL_SETUP THEN [LlcRefused("ok") EXCEPT !.pdu_type = t]
      ELSE IF bb_remaining(type.bb) < ctrl THEN LlcRefused("EPROTO")
      ELSE IF bb_remaining(ns.bb) < body_len THEN LlcRefused("EPROTO")
      ELSE IF llc_pdu_type_has_fcs(t) /\ bb_remaining(body.bb) < 32 THEN LlcRefused("EPROTO")
      ELSE Found(llc_pdu_type_has_fcs(t)
                   /\ ToBits(high.v, 16) \o ToBits(low.v, 16) = want)

(* The type decides how much of the SDU is not body.                       *)
llc_handle_tma_unitdata_ind(bb) ==
  LET t == bb_get_bits(bb, 4).v
      overhead == 4 + WidthIf(llc_pdu_type_has_nr(t), 1) + WidthIf(llc_pdu_type_has_ns(t), 1)
                    + WidthIf(llc_pdu_type_has_fcs(t), 32)
      body == IF t = AL_SETUP THEN 0 ELSE bb.end - overhead
  IN  IF bb.end < 4 \/ t \notin LlcTypes \/ bb.end < overhead \/ body > BODY_MAX_BITS
      THEN LlcRefused("EPROTO")
      ELSE llc_pdu_decode(bb, body)
=============================================================================
