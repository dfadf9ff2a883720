-------------------------------- MODULE MCLlc --------------------------------
(* Instances of Llc for TLC.                                               *)
EXTENDS Llc, TLC

\* Mobile stations with plain frames, or with every field a data frame can have.
MCPlainKinds == {<<"DATA", "none">>}
MCKinds == {<<"ADATA", "ok">>}
\* The endpoints are interchangeable.
MCSymmetry == Permutations(Ids)
=============================================================================
