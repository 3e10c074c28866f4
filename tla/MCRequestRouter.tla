--------------------------- MODULE MCRequestRouter ---------------------------
(* Small instances of the request router for TLC.                          *)
EXTENDS RequestRouterProperties, TLC

CONSTANTS c1, c2, c3, c4, arxiv, crossref

(* Three calls compete for one origin, the fourth goes to another; or two  *)
(* and two.                                                                *)
ThreeAndOne == c1 :> arxiv @@ c2 :> arxiv @@ c3 :> arxiv @@ c4 :> crossref
TwoAndTwo == c1 :> arxiv @@ c2 :> arxiv @@ c3 :> crossref @@ c4 :> crossref

(* The calls of the first instance that compete are alike.                 *)
Symmetry == Permutations({c1, c2, c3})

=============================================================================
