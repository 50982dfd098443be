--------------------------- MODULE MCHookSession ---------------------------
(* Small instance of HookSession for TLC: prompts that raise, report success *)
(* with and without frustration, or only ask.                               *)
EXTENDS HookSession

Ask(task, frustrated, success) ==
  [kind |-> "ask", task |-> task, frustrated |-> frustrated, success |-> success]
To(target) == [kind |-> "escalate", target |-> target]

MCPrompts == {To("opus"), To("sonnet"), Meta} \cup
             {Ask("general", FALSE, TRUE), Ask("general", TRUE, TRUE),
              Ask("general", FALSE, FALSE)}
MCOutside == {"haiku", "opus"}
=============================================================================
