------------------------- MODULE MCBatchSubmission -------------------------
(* Small instance of BatchQueue and of BatchSubmission over it: in some      *)
(* behaviours every method of the queue is called, and setters shrink it     *)
(* below its length; in the others two submissions race for the queue and a  *)
(* third carries its requests in its body.                                  *)
EXTENDS BatchSubmission, TLC

CONSTANTS r1, r2, r3, r4, s1, s2, s3
VARIABLE part

MCRequest == {r1, r2, r3, r4}
MCPriorityOf == r1 :> 0 @@ r2 :> 1 @@ r3 :> 1 @@ r4 :> 2
MCSizes == {0, 1, 3}
MCSubmission == {s1, s2, s3}
MCBodyOf == s1 :> {} @@ s2 :> {} @@ s3 :> {r3, r4}

vars == <<part, submitVars>>
Handling(A) == part = "submission" /\ A /\ UNCHANGED part

Init == SubmitInit /\ part \in {"queue", "submission"}
Next ==
  \/ part = "queue" /\ QueueNext /\ UNCHANGED <<part, remote, jobs, handler>>
  \/ Handling(SubmitNext)
\* With the fairness of SubmitFairSpec.
Spec ==
  /\ Init /\ [][Next]_vars
  /\ \A s \in Submission : WF_vars(Handling(Attempt(s) \/ Track(s)))
=============================================================================
