-------------------------------- MODULE Prompt ---------------------------------
(***************************************************************************)
(* What the language model is asked for a lesson (services/                *)
(* llm_explanation.py): the position, the moves and lines, the facts that  *)
(* are told, and hints derived from the loss, the lines, the pattern and   *)
(* the phase.  The wording and the standing rules, which are the same for  *)
(* all lessons, are left out.                                              *)
(***************************************************************************)
EXTENDS Explanation

Severity(loss) ==
    IF loss >= 500 THEN "major"
    ELSE IF loss >= 300 THEN "serious"
    ELSE IF loss >= SignificantLoss THEN "meaningful"
    ELSE "smaller"

RefutationHint(line) ==
    CASE line = <<>> -> "none: invent nothing"
      [] Len(line) = 1 -> "first reply only"
      [] Len(line) \in {2, 3} -> "short"
      [] OTHER -> "first move, then a summary"

TacticalHint(pattern) == IF pattern = "none" THEN "calculation or position" ELSE pattern

Focus(l) ==
    {IF l.pattern = "none" THEN "priority" ELSE "motif",
     IF l.refutation = <<>> THEN "no continuation" ELSE "first refutation move",
     IF l.bestLine = <<>> THEN "practical problem" ELSE "better line",
     l.phase}
      \cup (IF l.loss >= 500 THEN {"major"} ELSE IF l.loss >= SignificantLoss THEN {"meaningful"} ELSE {})

PromptOf(l, f) ==
    [board |-> l.board, played |-> l.played, best |-> l.best,
     bestLine |-> l.bestLine, refutation |-> l.refutation, intent |-> f.intent,
     told |-> Told(f),
     hints |-> <<Severity(l.loss), RefutationHint(l.refutation), TacticalHint(l.pattern), l.phase, Focus(l)>>]
=============================================================================
