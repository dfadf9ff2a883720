------------------------------- MODULE CmcePdu -------------------------------
(***************************************************************************)
(* The CMCE codec (sw/cmce/cmce_pdu.c).  The encoder and the decoder of    *)
(* each PDU are tables of their own, one pair (field, width) per           *)
(* bb_put_bits or bb_get_bits, in the order of the calls; "reserved" is    *)
(* the bit written as 0 and skipped when read.  A CmcePdu is a function    *)
(* from field names to numbers; the 48-bit network time is kept in the two *)
(* halves the code writes.                                                 *)
(***************************************************************************)
EXTENDS BitBuffer

Setup == 7
CallProceeding == 1
Connect == 2
TxDemand == 10
TxGranted == 11
Release == 6

Sna == 0
Ssi == 1
Tsi == 2
Reserved == 3

CmceFields ==
  {"call_identifier", "call_time_out", "call_time_out_set_up_phase",
   "hook_method_selection", "simplex_duplex_selection", "basic_service_information",
   "transmission_grant", "transmission_request_permission", "call_priority",
   "call_ownership", "area_selection", "request_to_transmit_send_data", "clir_control",
   "called_party_type_identifier", "called_party_address_ssi",
   "called_party_short_number_address", "tx_demand_priority", "encryption_control",
   "disconnect_cause", "optionals_present", "nwrk_cell_re_select_parameters",
   "nwrk_cell_load_ca", "nwrk_p_tetra_network_time", "nwrk_time_high", "nwrk_time_low",
   "nwrk_p_num_ca_neighbour_cells", "nwrk_num_ca_neighbour_cells"}

ZeroPdu == [f \in CmceFields |-> 0]

PutFields(bb, fields, p) ==
  FoldLeft(LAMBDA b, f : bb_put_bits(b, IF f[1] = "reserved" THEN 0 ELSE p[f[1]] % 2^f[2], f[2]),
           bb, fields)

GetFields(a, fields) ==
  FoldLeft(LAMBDA r, f :
             LET g == bb_get_bits(r.bb, f[2])
             IN  [bb |-> g.bb,
                  p |-> IF f[1] = "reserved" THEN r.p ELSE [r.p EXCEPT ![f[1]] = g.v]],
           a, fields)

(* The -EINVAL checks of an encoder: the named fields fit their widths.    *)
InRange(p, fields, checked) ==
  \A i \in DOMAIN fields : fields[i][1] \in checked => p[fields[i][1]] < 2^fields[i][2]

-----------------------------------------------------------------------------
(* Encoders.                                                               *)

CalledParty(t) ==
  CASE t = Sna -> << <<"called_party_short_number_address", 8>> >>
    [] t \in {Ssi, Tsi} -> << <<"called_party_address_ssi", 24>> >>
    [] OTHER -> <<>>

encode_d_setup ==
  << <<"call_identifier", 14>>, <<"call_time_out", 4>>, <<"hook_method_selection", 1>>,
     <<"simplex_duplex_selection", 1>>, <<"basic_service_information", 8>>,
     <<"transmission_grant", 2>>, <<"transmission_request_permission", 1>>,
     <<"call_priority", 4>>, <<"optionals_present", 1>> >>

encode_u_setup(p) ==
  << <<"area_selection", 4>>, <<"hook_method_selection", 1>>,
     <<"simplex_duplex_selection", 1>>, <<"basic_service_information", 8>>,
     <<"request_to_transmit_send_data", 1>>, <<"call_priority", 4>>, <<"clir_control", 2>>,
     <<"called_party_type_identifier", 2>> >>
    \o CalledParty(p["called_party_type_identifier"]) \o << <<"optionals_present", 1>> >>

encode_d_call_proceeding ==
  << <<"call_identifier", 14>>, <<"call_time_out_set_up_phase", 3>>,
     <<"hook_method_selection", 1>>, <<"simplex_duplex_selection", 1>>,
     <<"optionals_present", 1>> >>

encode_d_connect ==
  << <<"call_identifier", 14>>, <<"call_time_out", 4>>, <<"hook_method_selection", 1>>,
     <<"simplex_duplex_selection", 1>>, <<"transmission_grant", 2>>,
     <<"transmission_request_permission", 1>>, <<"call_ownership", 1>>,
     <<"optionals_present", 1>> >>

encode_d_tx_granted ==
  << <<"call_identifier", 14>>, <<"transmission_grant", 2>>,
     <<"transmission_request_permission", 1>>, <<"encryption_control", 1>>,
     <<"reserved", 1>>, <<"optionals_present", 1>> >>

encode_u_tx_demand ==
  << <<"call_identifier", 14>>, <<"tx_demand_priority", 2>>, <<"encryption_control", 1>>,
     <<"reserved", 1>>, <<"optionals_present", 1>> >>

encode_release ==
  << <<"call_identifier", 14>>, <<"disconnect_cause", 5>>, <<"optionals_present", 1>> >>

(* The fields each encoder refuses when they are out of range; the others  *)
(* are masked.                                                             *)
Checked ==
  {"call_identifier", "call_time_out", "call_time_out_set_up_phase", "call_priority",
   "transmission_grant", "area_selection", "clir_control", "tx_demand_priority",
   "disconnect_cause"}

(* PDUs of one direction only.                                             *)
Downlink == {CallProceeding, Connect, TxGranted}
Uplink == {TxDemand}
BothWays == {Setup, Release}

Known(t, dir) == t \in BothWays \cup (IF dir = "down" THEN Downlink ELSE Uplink)

cmce_pdu_encode(bb, t, p, dir) ==
  LET fields == CASE t = Setup -> IF dir = "down" THEN encode_d_setup ELSE encode_u_setup(p)
                  [] t = CallProceeding -> encode_d_call_proceeding
                  [] t = Connect -> encode_d_connect
                  [] t = TxDemand -> encode_u_tx_demand
                  [] t = TxGranted -> encode_d_tx_granted
                  [] t = Release -> encode_release
  IN  IF Known(t, dir) /\ InRange(p, fields, Checked)
      THEN [rc |-> "ok", bb |-> PutFields(bb_put_bits(bb, t, 5), fields, p)]
      ELSE [rc |-> "EINVAL", bb |-> bb]

(* D-NWRK-BROADCAST: a count above 0 is refused after the bits before it   *)
(* are written.                                                            *)
cmce_pdu_encode_d_nwrk_broadcast(bb, p) ==
  LET Opt(flag, fields) ==
        << <<flag, 1>> >> \o (IF p[flag] = 1 THEN fields ELSE <<>>)
      fields ==
        << <<"nwrk_cell_re_select_parameters", 16>>, <<"nwrk_cell_load_ca", 2>>,
           <<"optionals_present", 1>> >>
          \o (IF p["optionals_present"] = 0 THEN <<>>
              ELSE Opt("nwrk_p_tetra_network_time",
                       << <<"nwrk_time_high", 24>>, <<"nwrk_time_low", 24>> >>)
                     \o Opt("nwrk_p_num_ca_neighbour_cells",
                            << <<"nwrk_num_ca_neighbour_cells", 3>> >>))
      counted == p["optionals_present"] = 1 /\ p["nwrk_p_num_ca_neighbour_cells"] = 1
  IN  IF p["nwrk_cell_load_ca"] > 3 \/ p["nwrk_num_ca_neighbour_cells"] > 7
      THEN [rc |-> "EINVAL", bb |-> bb]
      ELSE IF counted /\ p["nwrk_num_ca_neighbour_cells"] > 0
      THEN [rc |-> "ENOTSUP", bb |-> PutFields(bb, fields, p)]
      ELSE [rc |-> "ok", bb |-> PutFields(bb, fields, p)]

-----------------------------------------------------------------------------
(* Decoders: at least min bits, then the fields.                           *)

Short == [rc |-> "EPROTO", p |-> ZeroPdu]
Decoded(a) == [rc |-> "ok", p |-> a.p]

DecodeFixed(bb, len, min, fields) ==
  IF len < min THEN Short ELSE Decoded(GetFields([bb |-> bb, p |-> ZeroPdu], fields))

(* Mutant: grant and permission are read in the other order.               *)
decode_d_connect_swapped(bb, len) ==
  DecodeFixed(bb, len, 30,
    << <<"call_identifier", 14>>, <<"call_time_out", 4>>, <<"hook_method_selection", 1>>,
       <<"simplex_duplex_selection", 1>>, <<"transmission_request_permission", 1>>,
       <<"transmission_grant", 2>>, <<"call_ownership", 1>>, <<"optionals_present", 1>> >>)

decode_d_connect(bb, len) ==
  DecodeFixed(bb, len, 30,
    << <<"call_identifier", 14>>, <<"call_time_out", 4>>, <<"hook_method_selection", 1>>,
       <<"simplex_duplex_selection", 1>>, <<"transmission_grant", 2>>,
       <<"transmission_request_permission", 1>>, <<"call_ownership", 1>>,
       <<"optionals_present", 1>> >>)

decode_d_setup(bb, len) ==
  DecodeFixed(bb, len, 41,
    << <<"call_identifier", 14>>, <<"call_time_out", 4>>, <<"hook_method_selection", 1>>,
       <<"simplex_duplex_selection", 1>>, <<"basic_service_information", 8>>,
       <<"transmission_grant", 2>>, <<"transmission_request_permission", 1>>,
       <<"call_priority", 4>>, <<"optionals_present", 1>> >>)

decode_d_call_proceeding(bb, len) ==
  DecodeFixed(bb, len, 25,
    << <<"call_identifier", 14>>, <<"call_time_out_set_up_phase", 3>>,
       <<"hook_method_selection", 1>>, <<"simplex_duplex_selection", 1>>,
       <<"optionals_present", 1>> >>)

decode_d_tx_granted(bb, len) ==
  DecodeFixed(bb, len, 25,
    << <<"call_identifier", 14>>, <<"transmission_grant", 2>>,
       <<"transmission_request_permission", 1>>, <<"encryption_control", 1>>,
       <<"reserved", 1>>, <<"optionals_present", 1>> >>)

decode_u_tx_demand(bb, len) ==
  DecodeFixed(bb, len, 24,
    << <<"call_identifier", 14>>, <<"tx_demand_priority", 2>>, <<"encryption_control", 1>>,
       <<"reserved", 1>>, <<"optionals_present", 1>> >>)

decode_release(bb, len) ==
  DecodeFixed(bb, len, 25,
    << <<"call_identifier", 14>>, <<"disconnect_cause", 5>>, <<"optionals_present", 1>> >>)

(* Mutant: the called party is read without asking whether it is there.    *)
PartyMissingNever(bb, t) == FALSE

(* The bits left do not hold the called party and the o-bit.               *)
PartyMissing(bb, t) ==
  \/ t = Sna /\ bb_remaining(bb) < 8 + 1
  \/ t \in {Ssi, Tsi} /\ bb_remaining(bb) < 24 + 1

decode_u_setup(bb, len) ==
  LET head == GetFields([bb |-> bb, p |-> ZeroPdu],
        << <<"area_selection", 4>>, <<"hook_method_selection", 1>>,
           <<"simplex_duplex_selection", 1>>, <<"basic_service_information", 8>>,
           <<"request_to_transmit_send_data", 1>>, <<"call_priority", 4>>,
           <<"clir_control", 2>>, <<"called_party_type_identifier", 2>> >>)
      t == head.p["called_party_type_identifier"]
  IN  IF len < 30 \/ PartyMissing(head.bb, t)
      THEN Short
      ELSE Decoded(GetFields(head, CalledParty(t) \o << <<"optionals_present", 1>> >>))

cmce_pdu_decode(bb, dir, len) ==
  LET type == bb_get_bits(bb, 5)
      t == type.v
      body == CASE t = Setup -> IF dir = "down" THEN decode_d_setup(type.bb, len)
                                ELSE decode_u_setup(type.bb, len)
                [] t = CallProceeding -> decode_d_call_proceeding(type.bb, len)
                [] t = Connect -> decode_d_connect(type.bb, len)
                [] t = TxDemand -> decode_u_tx_demand(type.bb, len)
                [] t = TxGranted -> decode_d_tx_granted(type.bb, len)
                [] t = Release -> decode_release(type.bb, len)
  IN  IF len < 5 \/ ~Known(t, dir)
      THEN Short @@ [pdu_type |-> 0]
      ELSE body @@ [pdu_type |-> t]

cmce_pdu_decode_d_nwrk_broadcast(bb, len) ==
  LET fixed == GetFields([bb |-> bb, p |-> ZeroPdu],
        << <<"nwrk_cell_re_select_parameters", 16>>, <<"nwrk_cell_load_ca", 2>>,
           <<"optionals_present", 1>> >>)
      pTime == GetFields(fixed, << <<"nwrk_p_tetra_network_time", 1>> >>)
      hasTime == pTime.p["nwrk_p_tetra_network_time"] = 1
      time == IF hasTime
              THEN GetFields(pTime, << <<"nwrk_time_high", 24>>, <<"nwrk_time_low", 24>> >>)
              ELSE pTime
      pNum == GetFields(time, << <<"nwrk_p_num_ca_neighbour_cells", 1>> >>)
      num == IF pNum.p["nwrk_p_num_ca_neighbour_cells"] = 1
             THEN GetFields(pNum, << <<"nwrk_num_ca_neighbour_cells", 3>> >>) ELSE pNum
  IN  IF len < 19 THEN Short
      ELSE IF fixed.p["optionals_present"] = 0 THEN Decoded(fixed)
      ELSE IF len < 21 THEN Short
      ELSE IF hasTime /\ len < 21 + 48 THEN Short
      ELSE Decoded(num)
=============================================================================
