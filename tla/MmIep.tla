-------------------------------- MODULE MmIep --------------------------------
(***************************************************************************)
(* The MM codecs: the parser of uplink demands (sw/mm/mm_iep.c), the       *)
(* builder of downlink answers (sw/mm/mm_accept_builder.c), and what       *)
(* sw/mm/mm.c makes of the one to call the other.  An optional             *)
(* (type-2) field is <<>> or <<value>>.  A reader `r' carries the value    *)
(* read last in r.v; every error of the parser is -EPROTO in the end (an   *)
(* overrun is only tested later), so the first one sets r.bad for good.    *)
(***************************************************************************)
EXTENDS BitBuffer

MM_GIU_MAX == 4

ULocationUpdateDemand == 2
UAttachDetachGroupIdentity == 7
DLocationUpdateAccept == 5
DAttachDetachGroupIdentityAck == 11

\* Element identifiers, uplink and downlink.
GroupIdentityLocationDemand == 3
GroupReportResponse == 4
GroupIdentityUplink == 8
AuthenticationUplink == 9
ExtendedCapabilities == 11
Proprietary == 15
GroupIdentityLocationAccept == 5
GroupIdentityDownlink == 7

-----------------------------------------------------------------------------
(* The reader: `out' holds by name what was read so far.                   *)

RBuf(bits) ==
  [bits |-> bits, pos |-> 0, v |-> 0, bad |-> FALSE,
   out |-> [class_of_ms |-> <<>>, energy_saving_mode |-> <<>>, la_information |-> <<>>,
            ssi |-> <<>>, address_extension |-> <<>>, gild |-> <<>>, giu |-> <<>>]]

Bad(r) == [r EXCEPT !.bad = TRUE, !.v = 0]

rbuf_read(r, n) ==
  IF r.bad \/ r.pos + n > Len(r.bits)
  THEN Bad(r)
  ELSE [r EXCEPT !.pos = @ + n, !.v = ToNat(SubSeq(r.bits, r.pos + 1, r.pos + n))]

Keep(r, f, v) == [r EXCEPT !.out = (f :> v) @@ @]
KeepRead(r, f) == Keep(r, f, r.v)

(* One field after the other; a width may depend on the fields before it,  *)
(* and is 0 where the field is not read.                                   *)
ReadFields(r, fields, Width(_, _)) ==
  FoldLeft(LAMBDA a, f : KeepRead(rbuf_read(a, Width(f, a.out)), f), r, fields)

(* A type-2 field: the p-bit, then the value if it is 1.                   *)
Type2Value(r, f) == Keep(r, f, <<r.v>>)
Type2Rest(p, f, width) == IF p.v = 0 THEN Keep(p, f, <<>>) ELSE Type2Value(rbuf_read(p, width), f)
decode_type2_generic(r, f, width) == Type2Rest(rbuf_read(r, 1), f, width)

peek_type34(r, id) ==
  /\ r.pos + 5 <= Len(r.bits)
  /\ rbuf_read(r, 5).v = 16 + id

skip_type34_header(r) == rbuf_read(r, 5)

ElementStart(r) == KeepRead(rbuf_read(skip_type34_header(r), 11), "length")

(* An element that is consumed and not looked at.                          *)
SkipElement(r) ==
  IF r.out.length > 256 \/ r.pos + r.out.length > Len(r.bits)
  THEN Bad(r)
  ELSE [r EXCEPT !.pos = @ + r.out.length]

decode_type3_generic_skip(r, id) ==
  IF peek_type34(r, id) THEN SkipElement(ElementStart(r)) ELSE r

(* GroupIdentityUplink: which addresses follow depends on their type.      *)
GiuWidth(f, out) ==
  CASE f = "detach" -> 1
    [] f = "use" -> IF out.detach = 0 THEN 3 ELSE 2
    [] f = "type" -> 2
    [] f = "gssi" -> IF out.type \in {0, 1} THEN 24 ELSE 0
    [] f = "extension" -> IF out.type = 1 THEN 24 ELSE 0
    [] f = "vgssi" -> IF out.type = 2 THEN 24 ELSE 0

AddGiu(r) ==
  Keep(r, "giu", Append(r.out.giu,
    [is_attach |-> r.out.detach = 0, use |-> r.out.use, address_type |-> r.out.type,
     gssi |-> r.out.gssi, address_extension |-> r.out.extension, vgssi |-> r.out.vgssi]))

decode_giu(r) ==
  AddGiu(ReadFields(r, <<"detach", "use", "type", "gssi", "extension", "vgssi">>, GiuWidth))

(* The declared length counts the 6 bits of the number of elements.        *)
WrongLength(len, read) == len >= 6 /\ read # len - 6

GiuListEnd(num, r) ==
  IF num.v > MM_GIU_MAX \/ WrongLength(num.out.length, r.pos - num.pos) THEN Bad(r) ELSE r

GiuListBody(num) ==
  GiuListEnd(num, FoldLeft(LAMBDA a, i : decode_giu(a), num,
                           [i \in 1 .. Min({num.v, MM_GIU_MAX}) |-> i]))

decode_giu_list(r) ==
  IF peek_type34(r, GroupIdentityUplink)
  THEN GiuListBody(rbuf_read(ElementStart(r), 6)) ELSE r

(* The m-bit that ends the optional part; a 1 is an element nobody knows.  *)
MBitZero(r) == IF r.v # 0 THEN Bad(r) ELSE r
TrailingMBit(r) == MBitZero(rbuf_read(r, 1))

GildRest(r) ==
  IF r.out.reserved # 0 THEN Bad(r)
  ELSE IF r.out.obit = 0 THEN r
  ELSE TrailingMBit(decode_giu_list(r))

KeepGild(r) ==
  Keep(r, "gild", << [attach_detach_mode |-> r.out.attach_detach_mode, giu |-> r.out.giu] >>)

decode_gild(r) ==
  KeepGild(GildRest(ReadFields(r, <<"reserved", "attach_detach_mode", "obit">>, LAMBDA f, out : 1)))

(* Mutant: the last m-bit is read and not compared with 0.                 *)
EndOfPduLax(r) == IF r.pos < Len(r.bits) THEN rbuf_read(r, 1) ELSE r

(* The last m-bit is read if a bit is left.                                *)
EndOfPdu(r) == IF r.pos < Len(r.bits) THEN TrailingMBit(r) ELSE r

Demand(type, lut, la, cipher, com, esm, lai, ssi, ext, gild) ==
  [pdu_type |-> type, location_update_type |-> lut, request_to_append_la |-> la,
   cipher_control |-> cipher, class_of_ms |-> com, energy_saving_mode |-> esm,
   la_information |-> lai, ssi |-> ssi, address_extension |-> ext, gild |-> gild]

DemandWidth(f, out) ==
  CASE f = "pdu_type" -> 4
    [] f = "location_update_type" -> 3
    [] f = "ciphering_parameters" -> IF out.cipher_control = 1 THEN 10 ELSE 0
    [] OTHER -> 1

GildEnd(start, r) == IF r.pos - start.pos # start.out.length THEN Bad(r) ELSE r
GildBody(start) == GildEnd(start, decode_gild(start))
OptionalGild(r) ==
  IF peek_type34(r, GroupIdentityLocationDemand) THEN GildBody(ElementStart(r)) ELSE r

DemandOptions(r) ==
  EndOfPdu(
    FoldLeft(decode_type3_generic_skip,
      OptionalGild(
        FoldLeft(LAMBDA a, f : decode_type2_generic(a, f[1], f[2]), r,
          << <<"class_of_ms", 24>>, <<"energy_saving_mode", 3>>, <<"la_information", 15>>,
             <<"ssi", 24>>, <<"address_extension", 24>> >>)),
      <<GroupReportResponse, AuthenticationUplink, ExtendedCapabilities, Proprietary>>))

GroupDemandOptions(r) ==
  EndOfPdu(decode_type3_generic_skip(
             decode_giu_list(decode_type3_generic_skip(r, GroupReportResponse)), Proprietary))

(* The o-bit says whether there is an optional part.                       *)
decode_u_loc_update_demand(r) ==
  LET head == ReadFields(r, <<"pdu_type", "location_update_type", "request_to_append_la",
                              "cipher_control", "ciphering_parameters", "obit">>, DemandWidth)
  IN  IF head.out.obit = 0 THEN head ELSE DemandOptions(head)

decode_u_attach_detach_grp_id(r) ==
  LET head == ReadFields(r, <<"pdu_type", "group_identity_report", "attach_detach_mode", "obit">>,
                         DemandWidth)
  IN  IF head.out.obit = 0 THEN head ELSE GroupDemandOptions(head)

(* MmDecoded; la_information is kept without its last bit.                 *)
MmDecoded(out) ==
  IF out.pdu_type = ULocationUpdateDemand
  THEN Demand(out.pdu_type, out.location_update_type, out.request_to_append_la,
              out.cipher_control, out.class_of_ms, out.energy_saving_mode,
              [i \in DOMAIN out.la_information |-> out.la_information[i] \div 2],
              out.ssi, out.address_extension, out.gild)
  ELSE [pdu_type |-> out.pdu_type, group_identity_report |-> out.group_identity_report,
        attach_detach_mode |-> out.attach_detach_mode, giu |-> out.giu]

Verdict(r) == IF r.bad THEN [rc |-> "EPROTO"] ELSE [rc |-> "ok", out |-> MmDecoded(r.out)]

mm_iep_decode(bits) ==
  LET type == ToNat(SubSeq(bits, 1, 4))
  IN  IF Len(bits) < 4 THEN [rc |-> "EINVAL"]
      ELSE IF type = ULocationUpdateDemand THEN Verdict(decode_u_loc_update_demand(RBuf(bits)))
      ELSE IF type = UAttachDetachGroupIdentity
      THEN Verdict(decode_u_attach_detach_grp_id(RBuf(bits)))
      ELSE [rc |-> "ENOTSUP"]

-----------------------------------------------------------------------------
(* The writer: cap bits, zeroed first.  A field that does not fit sets     *)
(* `overflow' and is left out; a shorter one behind it may still fit.      *)

WBuf(cap) == [bits |-> [i \in 1 .. cap |-> 0], cap |-> cap, pos |-> 0, overflow |-> FALSE]

PatchBits(bits, at, new) ==
  [i \in DOMAIN bits |-> IF i \in at + 1 .. at + Len(new) THEN new[i - at] ELSE bits[i]]

wbuf_put(w, v, n) ==
  IF w.pos + n > w.cap
  THEN [w EXCEPT !.overflow = TRUE]
  ELSE [w EXCEPT !.bits = PatchBits(@, w.pos, ToBits(v, n)), !.pos = @ + n]

wbuf_patch_11(w, at, v) ==
  IF at + 11 > w.cap
  THEN [w EXCEPT !.overflow = TRUE]
  ELSE [w EXCEPT !.bits = PatchBits(@, at, ToBits(v, 11))]

PutAll(w, fields) == FoldLeft(LAMBDA a, f : wbuf_put(a, f[1], f[2]), w, fields)

put_gid_downlink(w, g) ==
  LET Addr(types, v) == IF g.address_type \in types THEN << <<v, 24>> >> ELSE <<>>
  IN  PutAll(w,
        (IF g.is_attach THEN << <<0, 1>>, <<g.lifetime, 2>>, <<g.class_of_usage, 3>> >>
         ELSE << <<1, 1>>, <<g.detachment_type, 2>> >>)
          \o << <<g.address_type, 2>> >>
          \o Addr({0, 1, 3}, g.gssi) \o Addr({1, 3}, g.address_extension) \o Addr({2, 3}, g.vgssi))

(* Mutant: the length field is counted as well.                            *)
ElementLengthFromField(lengthPos, pos) == pos - lengthPos

(* What the 11-bit length field at lengthPos counts: all bits behind it.   *)
ElementLength(lengthPos, pos) == pos - (lengthPos + 11)

put_gid_downlink_list(w, gids) ==
  LET head == PutAll(w, << <<1, 1>>, <<GroupIdentityDownlink, 4>> >>)
      num == PutAll(head, << <<0, 11>>, <<Len(gids), 6>> >>)
      list == FoldLeft(put_gid_downlink, num, gids)
  IN  IF gids = <<>> THEN w
      ELSE wbuf_patch_11(list, head.pos, ElementLength(head.pos, list.pos))

put_gila(w, p) ==
  LET head == PutAll(w, << <<1, 1>>, <<GroupIdentityLocationAccept, 4>> >>)
      some == p.gid # <<>>
      obit == PutAll(head, << <<0, 11>>, <<p.gila_accept_reject, 1>>, <<0, 1>>,
                              <<IF some THEN 1 ELSE 0, 1>> >>)
      body == IF some THEN wbuf_put(put_gid_downlink_list(obit, p.gid), 0, 1) ELSE obit
  IN  wbuf_patch_11(body, head.pos, ElementLength(head.pos, body.pos))

Built(w) == IF w.overflow THEN [rc |-> "ENOSPC"] ELSE [rc |-> "ok", bits |-> SubSeq(w.bits, 1, w.pos)]

mm_build_d_loc_update_accept(cap, p) ==
  LET saving == p.energy_saving_info # <<>>
      obit == saving \/ p.gila_present
      head == PutAll(WBuf(cap), << <<DLocationUpdateAccept, 4>>, <<p.accept_type, 3>>,
                                   <<IF obit THEN 1 ELSE 0, 1>> >>)
      \* absent: SSI, address extension, subscriber class; then energy saving, SCCH
      opts == PutAll(head, << <<0, 1>>, <<0, 1>>, <<0, 1>> >>
                \o (IF saving
                    THEN << <<1, 1>>, <<p.energy_saving_info[1], 3>>,
                            <<p.energy_saving_info[2], 5>>, <<p.energy_saving_info[3], 6>> >>
                    ELSE << <<0, 1>> >>)
                \o << <<0, 1>> >>)
      gila == IF p.gila_present THEN put_gila(opts, p) ELSE opts
  IN  IF cap < 16 THEN [rc |-> "EINVAL"]
      ELSE Built(IF obit THEN wbuf_put(gila, 0, 1) ELSE head)

mm_build_d_attach_detach_grp_id_ack(cap, p) ==
  LET obit == p.gid_downlink_present /\ p.gid # <<>>
      head == PutAll(WBuf(cap), << <<DAttachDetachGroupIdentityAck, 4>>, <<p.accept_reject, 1>>,
                                   <<0, 1>>, <<IF obit THEN 1 ELSE 0, 1>> >>)
  IN  IF cap < 8 THEN [rc |-> "EINVAL"]
      ELSE Built(IF obit THEN wbuf_put(put_gid_downlink_list(head, p.gid), 0, 1) ELSE head)

-----------------------------------------------------------------------------
(* MM's answer to a decoded demand (on_mm_request), up to the LLC body.    *)

MM_BODY_BITS == 512
LLC_BODY_BITS == 256

(* One group, attached with what the profile says: the first one demanded, *)
(* if it is named by a GSSI, or the fallback.                              *)
compose_accept_params(d, profile, fallback) ==
  LET named == d.gild # <<>> /\ d.gild[1].giu # <<>> /\ d.gild[1].giu[1].address_type \in {0, 1}
      gssi == IF named THEN d.gild[1].giu[1].gssi ELSE fallback
  IN  [accept_type |-> 3, energy_saving_info |-> <<0, 0, 0>>, gila_present |-> TRUE,
       gila_accept_reject |-> 0,
       gid |-> << [is_attach |-> TRUE, lifetime |-> profile.lifetime,
                   class_of_usage |-> profile.class, detachment_type |-> 0, address_type |-> 0,
                   gssi |-> gssi, address_extension |-> 0, vgssi |-> 0] >>]

(* Mutant: the detachment type is not taken over.                          *)
GidOfAttached(g) ==
  [is_attach |-> TRUE, lifetime |-> 1, class_of_usage |-> g.use, detachment_type |-> 0,
   address_type |-> g.address_type, gssi |-> g.gssi,
   address_extension |-> g.address_extension, vgssi |-> g.vgssi]

(* A group of the acknowledgement: what was asked for.                     *)
GidOf(g) ==
  [is_attach |-> g.is_attach, lifetime |-> 1,
   class_of_usage |-> IF g.is_attach THEN g.use ELSE 0,
   detachment_type |-> IF g.is_attach THEN 0 ELSE g.use,
   address_type |-> g.address_type, gssi |-> g.gssi,
   address_extension |-> g.address_extension, vgssi |-> g.vgssi]

(* The discriminator of MM in front, if all of it fits.                    *)
prepend_mle_disc_mm(b) ==
  IF b.rc # "ok" \/ 3 + Len(b.bits) > LLC_BODY_BITS THEN [rc |-> "none"]
  ELSE [rc |-> "ok", body |-> <<0, 0, 1>> \o b.bits]

on_mm_request(d, profile, fallback) ==
  prepend_mle_disc_mm(
    IF d.pdu_type = ULocationUpdateDemand
    THEN mm_build_d_loc_update_accept(MM_BODY_BITS, compose_accept_params(d, profile, fallback))
    ELSE mm_build_d_attach_detach_grp_id_ack(MM_BODY_BITS,
           [accept_reject |-> 0, gid_downlink_present |-> d.giu # <<>>,
            gid |-> [i \in DOMAIN d.giu |-> GidOf(d.giu[i])]]))
=============================================================================
