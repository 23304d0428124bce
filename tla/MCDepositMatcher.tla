--------------------------- MODULE MCDepositMatcher ---------------------------
(* Model-checking instances of DepositMatcher: what the chains may have done. *)
EXTENDS DepositMatcherInv

MCTwo == 1 .. 2

\* The value of a route: deposits of one route are alike, the hardest to tell apart.
MCValue(route) == CASE route = "coords" -> 1 [] route = "xtz" -> 2 [] OTHER -> 3

MCFacts(level, at, route, named, credited) ==
  [level |-> level, at |-> at, route |-> route, hash |-> MCValue(route),
   value |-> MCValue(route), named |-> named, credited |-> credited,
   outcome |-> IF route = "coords" THEN "revertable" ELSE "finished"]

MCMonotone(D, L) == {f \in [D -> L] : \A d, e \in D : d < e => f[d] <= f[e]}

\* A burst of identical EVM XTZ deposits.  Those of the levels up to `older` were
\* credited by the kernel before the derivable hashes, within the window; the named
\* credits come however late.
MCBurst ==
  {s \in {[d \in MCTwo |-> MCFacts(l[d], at[d], "xtz", l[d] > older, TRUE)] :
            l \in MCMonotone(MCTwo, 1 .. 2), at \in MCMonotone(MCTwo, 1 .. 4),
            older \in 0 .. 2} :
     \A d \in MCTwo :
       s[d].level <= s[d].at /\ (s[d].named \/ s[d].at <= s[d].level + 2)}

\* Two deposits of every pair of routes, of one level or two.
MCPairs ==
  {[d \in MCTwo |-> MCFacts(l[d], 3, r[d], named, TRUE)] :
     l \in MCMonotone(MCTwo, 1 .. 2), r \in [MCTwo -> Routes], named \in BOOLEAN}

MCMixed == MCPairs \cup MCBurst

\* Two EVM XTZ deposits alike, of which the first is never credited.
MCLost ==
  {[d \in MCTwo |-> MCFacts(d, 3, "xtz", TRUE, d = 2)]}

=============================================================================
