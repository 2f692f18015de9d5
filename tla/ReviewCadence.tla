--------------------------- MODULE ReviewCadence ---------------------------
(***************************************************************************)
(* The cadence rules of the code-review pipeline: given who asked for a    *)
(* review and what the executions table says of the pull request, may this *)
(* run review it?  Pure operators, translated from ValidateConfigStage.    *)
(***************************************************************************)
EXTENDS Naturals

CONSTANTS
  Cadence,         \* reviewCadence.type of the repository's configuration
  PushesToTrigger  \* reviewCadence.pushesToTrigger: reviews before a pause

CadenceTypes == {"automatic", "manual", "auto_pause"}
Origins      == {"automation", "command"}

(* ReviewCadenceState, and "none" where automaticReviewStatus is absent.   *)
CadenceStates == {"none", "automatic", "paused", "command"}

ASSUME CadenceAssumption ==
  /\ Cadence \in CadenceTypes
  /\ PushesToTrigger \in Nat \ {0}

(* The two shapes of a cadence decision.  "notice" says whether the stage   *)
(* posts the auto-pause comment on the pull request.                       *)
Proceed(state)      == [process |-> TRUE,  next |-> state, notice |-> FALSE]
Hold(state, notice) == [process |-> FALSE, next |-> state, notice |-> notice]

Decisions == [process : BOOLEAN, next : CadenceStates, notice : BOOLEAN]

\* Mutant of HandleManualMode: every push is reviewed.
HandleManualModeOpen(existing) == Proceed("automatic")

(* "existing": some execution of the pull request has succeeded.           *)
HandleManualMode(existing) ==
  IF existing THEN Hold("paused", FALSE) ELSE Proceed("automatic")

\* Mutant of HandleAutoPauseMode: one review more than pushesToTrigger.
HandleAutoPauseModeLate(existing, current, recent) ==
  CASE ~existing                                            -> Proceed("automatic")
    [] existing /\ current = "paused"                       -> Hold("paused", FALSE)
    [] existing /\ current # "paused" /\ recent > PushesToTrigger
                                                            -> Hold("paused", TRUE)
    [] OTHER                                                -> Proceed("automatic")

(* "current": state stored with the latest execution; "recent": successful  *)
(* executions created within the time window.                              *)
HandleAutoPauseMode(existing, current, recent) ==
  CASE ~existing                                            -> Proceed("automatic")
    [] existing /\ current = "paused"                       -> Hold("paused", FALSE)
    [] existing /\ current # "paused" /\ recent >= PushesToTrigger
                                                            -> Hold("paused", TRUE)
    [] OTHER                                                -> Proceed("automatic")

(* "basic": shouldExecuteReview accepts title, branches and draft state.    *)
EvaluateReviewCadence(origin, basic, existing, current, recent) ==
  CASE ~basic                                      -> Hold("none", FALSE)
    [] basic /\ origin = "command"                 -> Proceed("command")
    [] basic /\ origin # "command" /\ Cadence = "manual"
                                                   -> HandleManualMode(existing)
    [] basic /\ origin # "command" /\ Cadence = "auto_pause"
                                                   -> HandleAutoPauseMode(existing, current, recent)
    [] OTHER                                       -> Proceed("automatic")
=============================================================================
