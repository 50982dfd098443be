------------------------ MODULE MCEscalationService ------------------------
(* Two handlers, two requests, one edit by Claude Code; a prompt that      *)
(* fires every rule and one that fires the effort rule alone.               *)
EXTENDS EscalationService, TLC

CONSTANTS w1, w2
MCWriter == {w1, w2}
MCPrompt == { [frustrated |-> TRUE, command |-> "opus", success |-> TRUE, effort |-> "high"],
              [frustrated |-> FALSE, command |-> "none", success |-> FALSE, effort |-> "low"] }
MCTarget == {"opus"}
MCModel == {"opus", "sonnet", "haiku", "claude-opus-4-7", "claude-sonnet-4-6",
            "claude-haiku-4-5-20251001"}
MCLengthOf == "opus" :> 4 @@ "sonnet" :> 6 @@ "haiku" :> 5 @@ "claude-opus-4-7" :> 15
              @@ "claude-sonnet-4-6" :> 17 @@ "claude-haiku-4-5-20251001" :> 25
=============================================================================
