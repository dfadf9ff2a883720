-------------------------------- MODULE Codec --------------------------------
(***************************************************************************)
(* A message goes over the air: one side encodes it, the channel may cut   *)
(* it short or turn some of its bits, the other side decodes what arrives. *)
(* The base station's codecs are those of BitBuffer, LlcPdu, CmcePdu and   *)
(* MmIep.  The mobile station's side of the MM messages is external; it is *)
(* stated as a concatenation of bit strings, in which every length is the  *)
(* length of what follows, and serves as the reference the parser and the  *)
(* builder are compared with.                                              *)
(***************************************************************************)
EXTENDS LlcPdu, CmcePdu, MmIep

CONSTANTS
  FieldPos, FieldWidths,  \* where bb_put_bits is tried, and with which widths
  BodyLengths,            \* lengths of LLC bodies, in bits
  MaxChecked,             \* the longest body that is tried with an FCS
  DoubleFlips,            \* body lengths whose frames suffer two turned bits
  GroupLists,             \* lengths of group lists
  MaxCut,                 \* the longest messages that are tried cut short
  Spare                   \* how far the capacities tried go beyond what is needed

VARIABLES
  msg,    \* the message under way, <<>> between two messages
  wire,   \* [rc, bits]: what its encoder returned
  got     \* <<>>, or what the receiver made of it, with the damage done

vars == <<msg, wire, got>>

Top(n) == 2^n - 1

-----------------------------------------------------------------------------
(* The mobile station: uplink MM messages sent, downlink ones expected.    *)

Concat(seqs) == FoldLeft(LAMBDA a, s : a \o s, <<>>, seqs)

Type2(opt, n) == IF opt = <<>> THEN <<0>> ELSE <<1>> \o ToBits(opt[1], n)
Type34(id, bits) == <<1>> \o ToBits(id, 4) \o ToBits(Len(bits), 11) \o bits
List(id, elements) == Type34(id, ToBits(Len(elements), 6) \o Concat(elements))
Flag(b) == IF b THEN <<1>> ELSE <<0>>

Address(g, types) ==
  ToBits(g.address_type, 2) \o
  Concat(<<IF g.address_type \in types[1] THEN ToBits(g.gssi, 24) ELSE <<>>,
           IF g.address_type \in types[2] THEN ToBits(g.address_extension, 24) ELSE <<>>,
           IF g.address_type \in types[3] THEN ToBits(g.vgssi, 24) ELSE <<>> >>)

GiuBits(g) ==
  (IF g.is_attach THEN <<0>> \o ToBits(g.use, 3) ELSE <<1>> \o ToBits(g.use, 2))
    \o Address(g, << {0, 1}, {1}, {2} >>)

GidBits(g) ==
  (IF g.is_attach THEN <<0>> \o ToBits(g.lifetime, 2) \o ToBits(g.class_of_usage, 3)
   ELSE <<1>> \o ToBits(g.detachment_type, 2))
    \o Address(g, << {0, 1, 3}, {1, 3}, {2, 3} >>)

Map(Op(_), s) == [i \in DOMAIN s |-> Op(s[i])]

GildBits(g) ==
  <<0, g.attach_detach_mode>> \o Flag(g.giu # <<>>) \o
  (IF g.giu = <<>> THEN <<>>
   ELSE List(GroupIdentityUplink, Map(GiuBits, g.giu)) \o <<0>>)

(* d: what the parser should find; extra: elements it skips.               *)
DemandBits(d, extra) ==
  LET optional == <<d.class_of_ms, d.energy_saving_mode, d.la_information, d.ssi,
                    d.address_extension, d.gild, extra>>
      some == \E i \in DOMAIN optional : optional[i] # <<>>
  IN  ToBits(ULocationUpdateDemand, 4) \o ToBits(d.location_update_type, 3)
        \o <<d.request_to_append_la, d.cipher_control>>
        \o (IF d.cipher_control = 1 THEN ToBits(Top(10), 10) ELSE <<>>)
        \o Flag(some)
        \o (IF ~some THEN <<>>
            ELSE Type2(d.class_of_ms, 24) \o Type2(d.energy_saving_mode, 3)
                   \o Type2(Map(LAMBDA la : 2 * la, d.la_information), 15)
                   \o Type2(d.ssi, 24) \o Type2(d.address_extension, 24)
                   \o Concat(Map(LAMBDA g : Type34(GroupIdentityLocationDemand, GildBits(g)), d.gild))
                   \o Concat(Map(LAMBDA id : Type34(id, <<1, 0, 1>>), extra)) \o <<0>>)

GroupDemandBits(d, extra) ==
  LET some == d.giu # <<>> \/ extra # <<>>
  IN  ToBits(UAttachDetachGroupIdentity, 4) \o <<d.group_identity_report, d.attach_detach_mode>>
        \o Flag(some)
        \o (IF ~some THEN <<>>
            ELSE (IF d.giu = <<>> THEN <<>> ELSE List(GroupIdentityUplink, Map(GiuBits, d.giu)))
                   \o Concat(Map(LAMBDA id : Type34(id, <<1, 0, 1>>), extra)) \o <<0>>)

GroupsBits(gids) == List(GroupIdentityDownlink, Map(GidBits, gids))

AcceptBits(p) ==
  LET e == p.energy_saving_info
      groups == IF p.gid = <<>> THEN <<>> ELSE GroupsBits(p.gid) \o <<0>>
      gila == Type34(GroupIdentityLocationAccept,
                     <<p.gila_accept_reject, 0>> \o Flag(p.gid # <<>>) \o groups)
      some == e # <<>> \/ p.gila_present
  IN  ToBits(DLocationUpdateAccept, 4) \o ToBits(p.accept_type, 3) \o Flag(some)
        \o (IF ~some THEN <<>>
            ELSE <<0, 0, 0>> \o Flag(e # <<>>)
                   \o (IF e = <<>> THEN <<>>
                       ELSE ToBits(e[1], 3) \o ToBits(e[2], 5) \o ToBits(e[3], 6))
                   \o <<0>> \o (IF p.gila_present THEN gila ELSE <<>>) \o <<0>>)

AckBits(p) ==
  LET some == p.gid_downlink_present /\ p.gid # <<>>
  IN  ToBits(DAttachDetachGroupIdentityAck, 4) \o <<p.accept_reject, 0>> \o Flag(some)
        \o (IF some THEN GroupsBits(p.gid) \o <<0>> ELSE <<>>)

-----------------------------------------------------------------------------
(* The messages tried.  Values walk: every field at 0, every field at its  *)
(* largest, and one field unlike all the others.                           *)

Walk(fields) ==
  LET names == {fields[i][1] : i \in DOMAIN fields} \ {"reserved", "called_party_type_identifier"}
      width(f) == fields[CHOOSE i \in DOMAIN fields : fields[i][1] = f][2]
      Only(set, beyond) ==
        [f \in CmceFields |->
           CASE f \in beyond -> 2^width(f)
             [] f \in set -> Top(width(f))
             [] OTHER -> 0]
  IN  {Only(set, {}) : set \in {{}, names} \cup {{f} : f \in names} \cup {names \ {f} : f \in names}}
        \cup {Only({}, {f}) : f \in names \cap Checked}

Cmce(t, dir, ps) == [kind : {"cmce"}, pdu_type : {t}, dir : {dir}, p : ps]

CmceMsgs ==
  UNION {Cmce(Setup, "down", Walk(encode_d_setup)),
         UNION {LET base == [ZeroPdu EXCEPT !["called_party_type_identifier"] = c]
                IN  Cmce(Setup, "up",
                      {[p EXCEPT !["called_party_type_identifier"] = c] : p \in Walk(encode_u_setup(base))})
                : c \in {Sna, Ssi, Tsi}},
         Cmce(CallProceeding, "down", Walk(encode_d_call_proceeding)),
         Cmce(Connect, "down", Walk(encode_d_connect)),
         Cmce(TxDemand, "up", Walk(encode_u_tx_demand)),
         Cmce(TxGranted, "down", Walk(encode_d_tx_granted)),
         Cmce(Release, "up", Walk(encode_release)), Cmce(Release, "down", Walk(encode_release)),
         \* the wrong direction
         Cmce(Connect, "up", {ZeroPdu}), Cmce(TxDemand, "down", {ZeroPdu})}

NwrkFields ==
  << <<"nwrk_cell_re_select_parameters", 16>>, <<"nwrk_cell_load_ca", 2>>,
     <<"optionals_present", 1>>, <<"nwrk_p_tetra_network_time", 1>>,
     <<"nwrk_time_high", 24>>, <<"nwrk_time_low", 24>>,
     <<"nwrk_p_num_ca_neighbour_cells", 1>>, <<"nwrk_num_ca_neighbour_cells", 3>> >>

NwrkMsgs ==
  [kind : {"nwrk"},
   p : Walk(NwrkFields)
         \cup {[p EXCEPT !["nwrk_num_ca_neighbour_cells"] = n] : p \in Walk(NwrkFields), n \in {0, 8}}]

Body(n) == [i \in 1 .. n |-> IF i % 3 = 0 THEN 0 ELSE 1]

LlcMsgs ==
  {m \in [kind : {"llc"}, pdu_type : 0 .. 9, nr : Bit, ns : Bit,
          body : {Body(n) : n \in BodyLengths}] :
     llc_pdu_type_has_fcs(m.pdu_type) => Len(m.body) <= MaxChecked}

FieldMsgs ==
  {[kind |-> "field", pos |-> pos, n |-> n, v |-> v, fill |-> fill] :
     pos \in FieldPos, n \in FieldWidths, v \in {0, 1, 2}, fill \in {0, 255, 178}}

(* The value a "field" message writes: 0, all ones, or 1 0 0 ... 0 1.      *)
FieldValue(m) ==
  CASE m.v = 0 -> 0
    [] m.v = 1 -> Top(m.n)
    [] OTHER -> ToNat([i \in 1 .. m.n |-> IF i \in {1, m.n} THEN 1 ELSE 0])

Ssi24 == Top(24) - 5

(* The i-th group of a list: attached or detached, with each address type; *)
(* variants 4 .. 7 swap attached and detached.                             *)
Giu(i, k) ==
  LET type == (i + k) % 4
  IN  [is_attach |-> (i + k \div 4) % 2 = 1, use |-> 2, address_type |-> type,
       gssi |-> IF type \in {0, 1} THEN Ssi24 - i ELSE 0,
       address_extension |-> IF type = 1 THEN i ELSE 0,
       vgssi |-> IF type = 2 THEN Ssi24 ELSE 0]

Giulist(n, k) == [i \in 1 .. n |-> Giu(i, k)]

Gild(n, k) == << [attach_detach_mode |-> k % 2, giu |-> Giulist(n, k)] >>

GroupVariants == 0 .. 7

(* Every subset of the optional fields, and every list of groups.          *)
DemandMsgs ==
  LET Opt(on, v) == IF on THEN <<v>> ELSE <<>>
      D(s, cipher, gild) ==
        Demand(ULocationUpdateDemand, 3, 1, cipher, Opt(1 \in s, Top(23)), Opt(2 \in s, 5),
               Opt(3 \in s, Top(14) - 1), Opt(4 \in s, Ssi24), Opt(5 \in s, 1), gild)
      M(d, extra) == [kind |-> "demand", d |-> d, extra |-> extra]
  IN  {M(D(s, 0, gild), <<>>) : s \in SUBSET (1 .. 5), gild \in {<<>>, Gild(1, 0)}}
        \cup {M(D({4}, 1, Gild(n, k)), extra) :
                n \in GroupLists, k \in GroupVariants,
                extra \in {<<>>, <<GroupReportResponse>>, <<AuthenticationUplink, Proprietary>>}}
        \cup {M(D({}, 0, <<>>), <<GroupIdentityUplink>>)}

GroupDemandMsgs ==
  {[kind |-> "groups", extra |-> extra,
    d |-> [pdu_type |-> UAttachDetachGroupIdentity, group_identity_report |-> report,
           attach_detach_mode |-> 1 - report, giu |-> Giulist(n, k)]] :
     report \in Bit, n \in GroupLists, k \in GroupVariants, extra \in {<<>>, <<Proprietary>>}}
  \cup {[kind |-> "groups", extra |-> <<>>,
         d |-> [pdu_type |-> UAttachDetachGroupIdentity, group_identity_report |-> 0,
                attach_detach_mode |-> 0, giu |-> [i \in 1 .. n |-> Giu(1, k)]]] :
          n \in 3 .. 4, k \in 0 .. 3}

Gids(n, k) ==
  [i \in 1 .. n |->
     [is_attach |-> i % 2 = 0, lifetime |-> 1, class_of_usage |-> 4, detachment_type |-> 2,
      address_type |-> (i + k) % 4, gssi |-> Ssi24, address_extension |-> 7, vgssi |-> Ssi24 - 1]]

(* Downlink answers, with every capacity up to a little more than needed.  *)
Capped(ps, Bits(_), kind) ==
  UNION {{[kind |-> kind, p |-> p, cap |-> c] : c \in 1 .. Len(Bits(p)) + Spare} : p \in ps}

AcceptMsgs ==
  Capped([accept_type : {3}, energy_saving_info : {<<>>, <<5, 17, 33>>}, gila_present : BOOLEAN,
          gila_accept_reject : Bit, gid : {Gids(n, k) : n \in {0, 1}, k \in 0 .. 3} \cup {Gids(2, 1)}],
         AcceptBits, "accept")

AckMsgs ==
  Capped([accept_reject : Bit, gid_downlink_present : BOOLEAN,
          gid : {Gids(n, k) : n \in {0, 1}, k \in 0 .. 3} \cup {Gids(2, 1)}],
         AckBits, "ack")

-----------------------------------------------------------------------------
Zeroed(bytes) == [k \in 0 .. bytes - 1 |-> 0]

(* What an encoder working on a bit buffer leaves: its bits, or that an    *)
(* assertion stopped the program.                                          *)
Sent(e) ==
  [rc |-> IF e.bb.aborted THEN "abort" ELSE e.rc, bits |-> BitsOf(e.bb.buffer, e.bb.pos)]

(* As the callers do it: cmce.c with 32 bytes, llc.c with 40.              *)
Encode(m) ==
  CASE m.kind = "cmce" ->
         Sent(cmce_pdu_encode(bb_init_autoexpand(Zeroed(32), 256), m.pdu_type, m.p, m.dir))
    [] m.kind = "nwrk" ->
         Sent(cmce_pdu_encode_d_nwrk_broadcast(bb_init_autoexpand(Zeroed(32), 256), m.p))
    [] m.kind = "llc" -> Sent(llc_pdu_encode(bb_init_autoexpand(Zeroed(40), 320), m))
    [] m.kind = "field" ->
         [rc |-> "ok",
          bits |-> BitsOf(bb_write_at([k \in 0 .. 6 |-> m.fill], m.pos, FieldValue(m), m.n), 56)]
    [] m.kind = "demand" -> [rc |-> "ok", bits |-> DemandBits(m.d, m.extra)]
    [] m.kind = "groups" -> [rc |-> "ok", bits |-> GroupDemandBits(m.d, m.extra)]
    [] m.kind = "accept" -> mm_build_d_loc_update_accept(m.cap, m.p) @@ [bits |-> <<>>]
    [] m.kind = "ack" -> mm_build_d_attach_detach_grp_id_ack(m.cap, m.p) @@ [bits |-> <<>>]

Reader(bits) == bb_init(BytesOf(bits, (Len(bits) + 7) \div 8), Len(bits))

Decode(m, bits) ==
  CASE m.kind = "cmce" -> cmce_pdu_decode(Reader(bits), m.dir, Len(bits))
    [] m.kind = "nwrk" -> cmce_pdu_decode_d_nwrk_broadcast(Reader(bits), Len(bits))
    [] m.kind = "llc" -> llc_handle_tma_unitdata_ind(Reader(bits))
    [] m.kind = "field" -> [rc |-> "ok", v |-> bb_read_at(BytesOf(bits, 7), m.pos, m.n)]
    [] m.kind \in {"demand", "groups"} -> mm_iep_decode(bits)
    [] OTHER -> [rc |-> "external"]

Flipped(bits, flips) ==
  [i \in DOMAIN bits |-> IF i \in flips THEN 1 - bits[i] ELSE bits[i]]

Init == msg = <<>> /\ wire = <<>> /\ got = <<>>

Send(set) ==
  /\ msg = <<>>
  /\ \E m \in set : msg' = m /\ wire' = Encode(m)
  /\ got' = <<>>

SendCmce == Send(CmceMsgs \cup NwrkMsgs)
SendLlc == Send(LlcMsgs)
SendField == Send(FieldMsgs)
SendMm == Send(DemandMsgs \cup GroupDemandMsgs)
BuildMm == Send(AcceptMsgs \cup AckMsgs)

OnAir == msg # <<>> /\ got = <<>> /\ wire.rc = "ok"

Arrives(cut, flips) ==
  /\ OnAir
  /\ got' = [cut |-> cut, flips |-> flips,
             out |-> Decode(msg, SubSeq(Flipped(wire.bits, flips), 1, cut))]
  /\ UNCHANGED <<msg, wire>>

ArrivesWhole == OnAir /\ Arrives(Len(wire.bits), {})

ArrivesCut ==
  /\ OnAir /\ msg.kind \in {"cmce", "nwrk", "llc", "demand", "groups"}
  /\ Len(wire.bits) <= MaxCut
  /\ \E n \in 0 .. Len(wire.bits) - 1 : Arrives(n, {})

(* One or two turned bits in a frame with an FCS; the four bits of the PDU *)
(* type, which decide whether there is one, are spared.                    *)
ArrivesTurned ==
  /\ OnAir /\ msg.kind = "llc" /\ llc_pdu_type_has_fcs(msg.pdu_type)
  /\ \E i, j \in 5 .. Len(wire.bits) :
       /\ i = j \/ (i < j /\ Len(msg.body) \in DoubleFlips)
       /\ Arrives(Len(wire.bits), {i, j})

(* MM answers what it could read, with its built-in profile.               *)
Answer ==
  /\ got # <<>> /\ msg.kind \in {"demand", "groups"}
  /\ got.out.rc = "ok" /\ "answer" \notin DOMAIN got
  /\ got' = got @@ [answer |-> on_mm_request(got.out.out, [lifetime |-> 1, class |-> 4], 0)]
  /\ UNCHANGED <<msg, wire>>

Done ==
  /\ msg # <<>> /\ (got # <<>> \/ wire.rc # "ok")
  /\ msg' = <<>> /\ wire' = <<>> /\ got' = <<>>

Next ==
  \/ SendCmce \/ SendLlc \/ SendField \/ SendMm \/ BuildMm
  \/ ArrivesWhole \/ ArrivesCut \/ ArrivesTurned \/ Answer \/ Done

Spec == Init /\ [][Next]_vars

-----------------------------------------------------------------------------
(* Properties.                                                             *)

Whole == got # <<>> /\ got.cut = Len(wire.bits) /\ got.flips = {}
Cut == got # <<>> /\ got.cut < Len(wire.bits)
Kind(k) == msg # <<>> /\ msg.kind = k

(* The head, whole-byte and tail arithmetic of bb_write_at and bb_read_at  *)
(* is the writing and reading of a bit string: for every alignment and     *)
(* width the field takes its value, every bit beside it keeps its own, and *)
(* the value is read back.                                                 *)
BitExact ==
  Kind("field") =>
    /\ wire.bits = [i \in 1 .. 56 |->
                      IF i \in msg.pos + 1 .. msg.pos + msg.n
                      THEN ToBits(FieldValue(msg), msg.n)[i - msg.pos]
                      ELSE BitsOf([k \in 0 .. 6 |-> msg.fill], 56)[i]]
    /\ Whole => got.out.v = FieldValue(msg)

(* What a D-NWRK-BROADCAST carries of a record: optional values only where *)
(* their flags say so.                                                     *)
NwrkCarried(p) ==
  LET time == p["optionals_present"] = 1 /\ p["nwrk_p_tetra_network_time"] = 1
      num == p["optionals_present"] = 1 /\ p["nwrk_p_num_ca_neighbour_cells"] = 1
      absent == (IF p["optionals_present"] = 0
                 THEN {"nwrk_p_tetra_network_time", "nwrk_p_num_ca_neighbour_cells"} ELSE {})
                  \cup (IF time THEN {} ELSE {"nwrk_time_high", "nwrk_time_low"})
                  \cup (IF num THEN {} ELSE {"nwrk_num_ca_neighbour_cells"})
  IN  [f \in CmceFields |-> IF f \in absent THEN 0 ELSE p[f]]

(* The largest value of each field that is a number.                       *)
Largest ==
  [call_identifier |-> 16383, call_time_out |-> 15, call_time_out_set_up_phase |-> 7,
   call_priority |-> 15, transmission_grant |-> 3, area_selection |-> 15, clir_control |-> 3,
   tx_demand_priority |-> 3, disconnect_cause |-> 31]

(* A CMCE record that the encoder takes is read back field by field, the   *)
(* two tables being written independently; a value too large for its field *)
(* is refused and never spills into its neighbour; no encoder runs into an *)
(* assertion in the buffer its caller gives it.                            *)
CmceRoundTrip ==
  /\ Kind("cmce") =>
       /\ wire.rc = IF /\ Known(msg.pdu_type, msg.dir)
                       /\ \A f \in DOMAIN Largest : msg.p[f] <= Largest[f]
                    THEN "ok" ELSE "EINVAL"
       /\ Whole => got.out = [rc |-> "ok", p |-> msg.p, pdu_type |-> msg.pdu_type]
  /\ Kind("nwrk") =>
       /\ wire.rc # "abort"
       /\ Whole => got.out = [rc |-> "ok", p |-> NwrkCarried(msg.p)]

(* A CMCE PDU that lost its end is refused, wherever it was cut: a field   *)
(* that is not there is never read as 0.  A D-NWRK-BROADCAST may be        *)
(* accepted short, but only with the values that were sent.                *)
ShortIsRefused ==
  /\ Kind("cmce") /\ Cut => got.out.rc = "EPROTO"
  /\ Kind("nwrk") /\ Cut => got.out.rc = "EPROTO" \/ got.out.p = NwrkCarried(msg.p)

(* The frame check sequence, computed by the encoder over what it wrote    *)
(* and by the receiver over what it found, accepts an undamaged frame of   *)
(* every type and length as it was sent, and no frame that was cut or has  *)
(* one or two bits turned behind its type.                                 *)
FcsGuards ==
  Kind("llc") =>
    LET t == msg.pdu_type
        taken == t \in LlcTypes /\ Len(msg.body) <= 256 /\ (t = AL_SETUP => msg.body = <<>>)
    IN  /\ wire.rc = IF taken THEN "ok" ELSE "EINVAL"
        /\ Whole =>
             got.out = [rc |-> "ok", pdu_type |-> t, body |-> msg.body,
                        nr |-> IF llc_pdu_type_has_nr(t) THEN msg.nr ELSE 0,
                        ns |-> IF llc_pdu_type_has_ns(t) THEN msg.ns ELSE 0,
                        fcs_valid |-> llc_pdu_type_has_fcs(t)]
        /\ got # <<>> /\ ~Whole /\ llc_pdu_type_has_fcs(t) =>
             ~(got.out.rc = "ok" /\ got.out.fcs_valid)

(* A demand of a mobile station is understood exactly: every optional      *)
(* field and every group, in every combination, past elements that are     *)
(* skipped; a list longer than the table or an element nobody knows is     *)
(* refused.  If the end is lost, the demand is refused or read without the *)
(* element that was lost, never with another value or half a list.         *)
DemandExact ==
  /\ Kind("demand") =>
       LET d == msg.d
           known == /\ \A i \in DOMAIN d.gild : Len(d.gild[i].giu) <= MM_GIU_MAX
                    /\ msg.extra # <<GroupIdentityUplink>>
       IN  /\ Whole => got.out = IF known THEN [rc |-> "ok", out |-> d] ELSE [rc |-> "EPROTO"]
           /\ Cut /\ got.out.rc = "ok" => got.out.out \in {d, [d EXCEPT !.gild = <<>>]}
  /\ Kind("groups") =>
       LET d == msg.d
       IN  /\ Whole => got.out = IF Len(d.giu) <= MM_GIU_MAX
                                 THEN [rc |-> "ok", out |-> d] ELSE [rc |-> "EPROTO"]
           /\ Cut /\ got.out.rc = "ok" => got.out.out \in {d, [d EXCEPT !.giu = <<>>]}

(* A downlink answer is built as the mobile station expects it, bit for    *)
(* bit and with both back-filled lengths right, or not at all: in a buffer *)
(* of any capacity the builder never returns a shortened message.          *)
AcceptExact ==
  LET Fits(bits, least) ==
        IF msg.cap < Max({least, Len(bits)}) THEN wire.rc # "ok"
        ELSE wire = [rc |-> "ok", bits |-> bits]
  IN  /\ Kind("accept") => Fits(AcceptBits(msg.p), 16)
      /\ Kind("ack") => Fits(AckBits(msg.p), 8)

(* The LLC body of an accept that attaches one group.                      *)
AcceptBody(gssi) ==
  <<0, 0, 1>> \o
  AcceptBits([accept_type |-> 3, energy_saving_info |-> <<0, 0, 0>>, gila_present |-> TRUE,
              gila_accept_reject |-> 0,
              gid |-> << [is_attach |-> TRUE, lifetime |-> 1, class_of_usage |-> 4,
                          detachment_type |-> 0, address_type |-> 0, gssi |-> gssi,
                          address_extension |-> 0, vgssi |-> 0] >>])

Answered(k) == Kind(k) /\ got # <<>> /\ "answer" \in DOMAIN got

(* The groups a location update demand asks for, as MM reads it.           *)
Asked == Concat(Map(LAMBDA gild : gild.giu, got.out.out.gild))

(* The answer to a demand is the one for this demand (on_mm_request).  The *)
(* accept attaches one group.  It is the first of the demand when that one *)
(* is named by a GSSI, with or without address extension, and also when    *)
(* the station asked to detach it; when the demand has no group, or its    *)
(* first is named otherwise (address types 2 and 3), it is GSSI 0.  The    *)
(* acknowledgement has every group, in order, with the address, the class  *)
(* of usage or the kind of detachment it came with; an answer longer than  *)
(* an LLC body is given up, never shortened.                               *)
AnswerEchoes ==
  /\ Answered("demand") =>
       \/ /\ Asked # <<>> /\ Asked[1].address_type \in {0, 1}
          /\ got.answer = [rc |-> "ok", body |-> AcceptBody(Asked[1].gssi)]
       \/ /\ Asked = <<>> \/ Asked[1].address_type \in {2, 3}
          /\ got.answer = [rc |-> "ok", body |-> AcceptBody(0)]
  /\ Answered("groups") =>
       LET Gid(g) == [is_attach |-> g.is_attach, lifetime |-> 1, class_of_usage |-> g.use,
                      detachment_type |-> g.use, address_type |-> g.address_type, gssi |-> g.gssi,
                      address_extension |-> g.address_extension, vgssi |-> g.vgssi]
           bits == <<0, 0, 1>> \o AckBits([accept_reject |-> 0, gid_downlink_present |-> TRUE,
                                           gid |-> Map(Gid, got.out.out.giu)])
       IN  got.answer = IF Len(bits) <= 256 THEN [rc |-> "ok", body |-> bits] ELSE [rc |-> "none"]

(* Does not hold.  mm.c:119 says the accept's group is "from demand (or    *)
(* fallback when MS demanded none)": it is one the station asked to be     *)
(* attached to, or the station asked for no group.  A first group of       *)
(* address type 2 is answered with GSSI 0, a detached one as attached.     *)
AcceptIsAsked ==
  Answered("demand") /\ Asked # <<>> =>
    \E i \in DOMAIN Asked :
      /\ Asked[i].is_attach /\ Asked[i].address_type \in {0, 1}
      /\ got.answer.body = AcceptBody(Asked[i].gssi)

(* Does not hold.  mm.h:297 says "MM builds the accept/ack": every demand  *)
(* the parser takes has an answer.  Four groups with address extensions do *)
(* not.                                                                    *)
EveryDemandHasAnswer ==
  got # <<>> /\ "answer" \in DOMAIN got => got.answer.rc = "ok"
=============================================================================
