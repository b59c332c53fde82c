------------------------------ MODULE MCFhsEnv ------------------------------
(* Two store paths, one of them pinned or not, each with up to two of: a     *)
(* directory, a name in it and a name beside it, in bin and in lib.          *)
EXTENDS FhsEnv, FiniteSets, TLC

CONSTANTS p1, p2, d, f, g

MCList == <<p1, p2>>
MCPinLists == {<< >>, <<p2>>}
MCUnder == (d :> Top) @@ (f :> d) @@ (g :> Top)
MCShapes ==
    {s \in [Dirs -> [Names -> Kinds]] :
       /\ Cardinality({e \in Dirs \X Names : s[e[1]][e[2]] # "None"}) <= 2
       /\ \A e \in Dirs : s[e][f] # "None" => s[e][d] = "Dir"}
=============================================================================
