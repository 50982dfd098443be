--------------------------- MODULE MCConfigReload ---------------------------
(* One tool, two callers of the manager, at most two handles and one crash.  *)
EXTENDS ConfigReload, TLC

CONSTANTS s1, s2, t1, h1, h2
MCSaver == {s1, s2}
MCTool == {t1}
MCHandle == {h1, h2}
MCOneHandle == {h1}

(* The callers of the manager are interchangeable: no action names one, and   *)
(* the run that uses this checks invariants only.                            *)
Symmetry == Permutations(MCSaver)
=============================================================================
