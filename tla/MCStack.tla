------------------------------- MODULE MCStack -------------------------------
(* Instances of Stack for TLC.                                             *)
EXTENDS Stack

\* Uplink bodies without a discriminator, as the tests build them: every
\* CMCE type, and the largest call identifier.
MCCmceBodies ==
  {CmceBody(t, 0) : t \in {"Setup", "Connect", "TxDemand", "Release"}}
    \cup {CmceBody("Release", 16383)}

\* Uplink bodies with the discriminator a mobile station sends.
MCRealBodies == {Body("mm", 2, 0, TRUE), Body("cmce", TypeCode["Setup"], 0, TRUE)}

\* Everything at once.
MCAllBodies == MCCmceBodies \cup MCRealBodies
=============================================================================
