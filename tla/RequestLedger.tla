--------------------------- MODULE RequestLedger ---------------------------
(***************************************************************************)
(* What a holder of batch requests promises its callers, whatever it keeps *)
(* the requests in: a request is accepted or refused once, an accepted one *)
(* is pending until it leaves, and it leaves once - handed to a caller, or *)
(* dropped on an explicit Clear.                                           *)
(***************************************************************************)
CONSTANT Request          \* the request objects callers create

VARIABLE place            \* where each request is

ledgerVars == <<place>>

Place == {"new", "refused", "pending", "handed", "dropped"}

TypeOK == place \in [Request -> Place]

Init == place = [r \in Request |-> "new"]

Pending == {r \in Request : place[r] = "pending"}

\* A caller offers a request it has just created: taken, or refused.
Offer(r) ==
  /\ place[r] = "new"
  /\ \E p \in {"pending", "refused"} : place' = [place EXCEPT ![r] = p]

\* Pending requests leave together, all for the same destination.
Leave(S, p) ==
  /\ S # {}
  /\ place' = [r \in Request |-> IF r \in S THEN p ELSE place[r]]

Next ==
  \/ \E r \in Request : Offer(r)
  \/ \E S \in SUBSET Pending, p \in {"handed", "dropped"} : Leave(S, p)

Spec == Init /\ [][Next]_ledgerVars
=============================================================================
