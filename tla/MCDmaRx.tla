------------------------------- MODULE MCDmaRx -------------------------------
(* Instances of DmaRx: payloads that contain a magic, an empty payload, and *)
(* noise that ends in, or is cut out of, a header.                          *)
EXTENDS DmaRx

MCFull == {<<1>>, <<Magic, 2>>}
MCFrames == MCFull \cup {<<>>, <<1, 1, 1>>}
MCNoNoise == {}
MCNoise == {<<0>>, <<Magic>>, <<Magic, Magic>>, <<Magic, 2>>}
=============================================================================
