---------------------------- MODULE Invariance ----------------------------
(***************************************************************************)
(* The entry test for invariance maps (harness/skills/invariance.py): a    *)
(* finite partial map of an axis, judged as a whole and pair by pair.  A   *)
(* behaviour adds one moved point after another.  An axis without a bound,  *)
(* where the endpoint conditions are vacuous, is left out.                 *)
(***************************************************************************)
EXTENDS Integers, FiniteSets

CONSTANTS Lo, Hi        \* the bounds of the axis; both are declared

ASSUME AxisAssumption == Lo \in Int /\ Hi \in Int

VARIABLE pts            \* the pairs of the map: a set of <<a, b>>

Points == Lo..Hi
InvarianceInit == pts = {}
Move(a, b) == (\A p \in pts : p[1] # a) /\ pts' = pts \cup {<<a, b>>}
InvarianceNext == \E a, b \in Points : Move(a, b)
InvarianceSpec == InvarianceInit /\ [][InvarianceNext]_pts

-----------------------------------------------------------------------------
\* p and q are neighbours in the list sorted by the point they move.
Neighbours(P, p, q) == p[1] < q[1] /\ \A r \in P : ~(p[1] < r[1] /\ r[1] < q[1])

StrictlyIncreasing(P) == \A p, q \in P : Neighbours(P, p, q) => p[2] < q[2]

\* fwd and inv leave a point alone that no pair moves: lo < fwd(lo) says that a pair does.
Lifts(P) == \E p \in P : p[1] = Lo /\ Lo < p[2]               \* lo < f(lo)
ReachedInside(P) == \E p \in P : p[2] = Hi /\ p[1] < Hi        \* inv(hi) < hi
LiftsBack(P) == \E p \in P : p[2] = Lo /\ Lo < p[1]           \* lo < inv(lo)
PullsInside(P) == \E p \in P : p[1] = Hi /\ p[2] < Hi          \* f(hi) < hi

\* Each needs both of its conjuncts.
Pathology(P) == (Lifts(P) /\ ReachedInside(P)) \/ (LiftsBack(P) /\ PullsInside(P))

OnAxis(P) == \A p \in P : p[1] \in Points /\ p[2] \in Points

Admissible(P) == P = {} \/ (StrictlyIncreasing(P) /\ OnAxis(P) /\ ~Pathology(P))

\* Faulty: only neighbours are looked at.
NeighbourPairs(P) == {R \in {{p, q} : p, q \in P} : \E p, q \in R : Neighbours(P, p, q)}
\* The two-element restrictions.
Pairs(P) == {R \in {{p, q} : p, q \in P} : \E p, q \in R : p # q}

AdmissiblePairwise(P) ==
    IF \A p, q \in P : p = q THEN Admissible(P) ELSE \A R \in Pairs(P) : Admissible(R)

-----------------------------------------------------------------------------
\* The FIN/USE discipline itself, over the whole map: what a reader of the theorem
\* checks by hand, for maps of the axis into itself.
Usable(P) == /\ \A p, q \in P : p[1] < q[1] => p[2] < q[2]
             /\ ~(\E p, q \in P : p[1] = Lo /\ p[2] # Lo /\ q[2] = Hi /\ q[1] # Hi)
             /\ ~(\E p, q \in P : p[2] = Lo /\ p[1] # Lo /\ q[1] = Hi /\ q[2] # Hi)

\* The local test and the global one agree on every map ("disagreement is a bug in THIS
\* module").
LocalIsGlobal == Admissible(pts) <=> AdmissiblePairwise(pts)

\* The test admits a map exactly when the theorem calls it usable.
AdmitsUsable == Admissible(pts) <=> Usable(pts)

\* The local test of an axis and the global one agree on every map, and it admits a map
\* exactly when the theorem calls it usable (admissible, admissible_pairwise).
AxisTest == LocalIsGlobal /\ AdmitsUsable
=============================================================================
