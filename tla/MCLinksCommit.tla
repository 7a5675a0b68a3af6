--------------------------- MODULE MCLinksCommit ---------------------------
(***************************************************************************)
(* Two candidates, of a concept with a file and a symbol, and the pass     *)
(* ids of two of the generators.                                           *)
(***************************************************************************)
EXTENDS LinksCommit

CONSTANTS l1, l2

OneLink   == {l1}
TwoLinks  == {l1, l2}
MCPassId  == {"cross-link-v1", "cross-link-v1-openai"}
OnePassId == {"cross-link-v1"}

MCKinds == [l \in Link |-> {"concept", IF l = l1 THEN "file" ELSE "symbol"}]
=============================================================================
