--------------------------- MODULE Reachability ---------------------------
(***************************************************************************)
(* Reachability in a directed graph, as the least set closed under the     *)
(* successor function.  The impredicative definition needs no recursion,   *)
(* so the provers can reason about it; TLC evaluates it over the subsets   *)
(* of the small node sets of the models.                                   *)
(***************************************************************************)

\* The set T is closed when it contains every successor of its members.
Closed(T, succ) == \A x \in T : succ[x] \subseteq T

\* The closed sets that contain S.
ClosedAround(S, succ) ==
  {T \in SUBSET DOMAIN succ : S \subseteq T /\ Closed(T, succ)}

\* The nodes that every closed superset of S contains.  (The family of closed
\* sets is bound, not named, for TLC to evaluate it once.)
Reach(S, succ) ==
  UNION {{x \in DOMAIN succ : \A T \in family : x \in T} :
           family \in {ClosedAround(r, f) : r \in {S}, f \in {succ}}}
=============================================================================
