------------------------------ MODULE MCMsgBus ------------------------------
(* MsgBus on small rings: two handlers, two keys, messages with and        *)
(* without payload, an oversized one and one with an invalid key.          *)
EXTENDS MsgBus

CONSTANTS k1, k2, d1, d2

MCKeys == {k1, k2}
MCData == {d1, d2}
\* two messages that differ in everything, one too long, one with a bad key
MCInputs ==
  {[key |-> k1, len |-> 1, data |-> d1],
   [key |-> k2, len |-> 1, data |-> d2],
   [key |-> k1, len |-> 2, data |-> d2],
   [key |-> BadKey, len |-> 1, data |-> d1]}
=============================================================================
