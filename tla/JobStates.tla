------------------------------ MODULE JobStates ------------------------------
(***************************************************************************)
(* The job lifecycle of scrapequeue/core/states.py: the states a job row   *)
(* can hold, the ones that are terminal, and the transition table that     *)
(* repo.transition consults before it writes a state.                      *)
(***************************************************************************)

\* The enum JobState. PAUSED is declared and has transitions, but no code
\* ever writes it.
JobState == {"PENDING", "RUNNING", "PAUSED", "SUCCEEDED", "PARTIAL",
             "SUSPECT", "FAILED", "CANCELLED", "DEAD_LETTER"}

\* TERMINAL_STATES.
TerminalStates ==
  {"SUCCEEDED", "PARTIAL", "SUSPECT", "FAILED", "CANCELLED", "DEAD_LETTER"}

\* _TRANSITIONS: the states each state may be followed by. The six terminal
\* states are followed by nothing.
Transitions ==
  [s \in JobState |->
     CASE s = "PENDING" -> {"RUNNING", "CANCELLED", "FAILED"}
       [] s = "RUNNING" -> JobState \ {"PENDING"}
       [] s = "PAUSED"  -> {"RUNNING", "CANCELLED", "FAILED"}
       [] OTHER         -> {}]

\* Variant, wrong: the table is not consulted. Definitions marked so are not
\* used by any specification; each one breaks a property when it takes the
\* place of the definition that follows it.
CanTransitionUnchecked(current, target) == TRUE

\* can_transition, and assert_transition: a caller that is refused raises
\* IllegalTransition, so in the actions this operator is a guard.
CanTransition(current, target) == target \in Transitions[current]

=============================================================================
