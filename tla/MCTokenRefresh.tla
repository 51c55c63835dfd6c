--------------------------- MODULE MCTokenRefresh ---------------------------
(* Two proxies; the first serves two requests at a time. *)
EXTENDS TokenRefresh, TLC

CONSTANTS p1, p2, h1, h2, h3, c1, c2

\* Two tokens after the first, or one and a kill.
TokensOrKills == {<<2, 0>>, <<1, 1>>}

TwoProxies == h1 :> p1 @@ h2 :> p1 @@ h3 :> p2

Symmetry == {f @@ g : f \in Permutations({h1, h2}), g \in Permutations({c1, c2})}
=============================================================================
