--------------------------- MODULE AccountPoolMC ---------------------------
(* Small instances of AccountPool for TLC. *)
EXTENDS AccountPool, TLC

CONSTANTS p1, p2, a1, a2

Symmetry == Permutations({p1, p2})

Both == BOOLEAN
Never == {FALSE}
Always == {TRUE}

NoReports == {}
FreeOrFull == {[p |-> "free", s |-> "free"], [p |-> "full", s |-> "free"]}
AnyReport == {[p |-> "free", s |-> "free"], [p |-> "full", s |-> "free"],
              [p |-> "free", s |-> "full"]}

=============================================================================
