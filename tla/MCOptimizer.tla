---------------------------- MODULE MCOptimizer ----------------------------
(* Small instance: three requests that differ in model, intent, size and    *)
(* wait; a queue of one, a window of two ticks, a cache of two entries.     *)
EXTENDS Optimizer, TLC

CONSTANTS r1, r2, r3, p1, p2, p3
MCRequest == {r1, r2, r3}
MCPrompt == {p1, p2, p3}
MCModel == {"opus", "Opus"}
Req(p, m, intent, bulk, tokens, wait) ==
  [prompt |-> p, model |-> m, intent |-> intent, bulk |-> bulk,
   tokens |-> tokens, wait |-> wait]
MCInfo ==
  r1 :> Req(p1, "opus", "lookup", FALSE, 2000, 0)
  @@ r2 :> Req(p2, "opus", "batch_analysis", TRUE, 2000, 60)
  @@ r3 :> Req(p3, "Opus", "general", FALSE, 0, 0)
MCLikeness == [x \in MCPrompt \X MCPrompt |->
                 IF x[1] = x[2] THEN 100
                 ELSE IF {x[1], x[2]} = {p1, p2} THEN 95
                 ELSE IF {x[1], x[2]} = {p2, p3} THEN 87 ELSE 10]
MCPercents == {101}
=============================================================================
