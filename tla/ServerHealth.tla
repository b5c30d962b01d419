---------------------------- MODULE ServerHealth ----------------------------
(***************************************************************************)
(* When a connected language server counts as lost, and what its loss      *)
(* costs (karet-session/src/lsp/health.rs): pure operators on the verdict  *)
(* about one connection and on the restart budget of one server task.      *)
(*                                                                         *)
(* Time is abstracted: the two logs are counts of entries still in their   *)
(* window, and any number of the oldest entries may have left it.          *)
(***************************************************************************)
EXTENDS Naturals

CONSTANTS
    RestartLimit,      \* RESTART_LIMIT
    HangLimit,         \* HANG_LIMIT
    TimeoutDeathLimit  \* TIMEOUT_DEATH_LIMIT

ASSUME LimitsArePositive ==
    RestartLimit \in Nat \ {0} /\ HangLimit \in Nat \ {0}
    /\ TimeoutDeathLimit \in Nat \ {0}

-----------------------------------------------------------------------------
(* FailureTally.  The streak is counted up to its limit, where only the    *)
(* gate on having answered still matters.                                  *)

Tallies == [timeouts : 0..TimeoutDeathLimit, answered : BOOLEAN]
NewTally == [timeouts |-> 0, answered |-> FALSE]

\* A call the server answered, was refused, failed or timed out (observe, note).
Noted(tally, outcome) ==
    CASE outcome = "ok"      -> [timeouts |-> 0, answered |-> TRUE]
      [] outcome = "error"   -> [tally EXCEPT !.timeouts = 0]
      [] outcome = "refused" -> tally
      [] outcome = "timeout" ->
           [tally EXCEPT !.timeouts = IF @ < TimeoutDeathLimit THEN @ + 1 ELSE @]

\* Silence is a verdict only on a connection that has answered before.
Condemned(tally, outcome) ==
    /\ outcome = "timeout"
    /\ tally.timeouts + 1 >= TimeoutDeathLimit
    /\ tally.answered

-----------------------------------------------------------------------------
(* The restart budget: failures within RESTART_WINDOW, hangs within        *)
(* HANG_WINDOW.                                                            *)

Budgets == [failures : Nat, hangs : Nat]
FullBudget == [failures |-> 0, hangs |-> 0]

\* What is left of a log after expire.
Expired(count) == 0..count

\* What a task reports that waits for its next launch.
Verdict(count, limit) == IF count >= limit THEN "CircuitOpen" ELSE "Retrying"

\* The budgets a lost connection may leave, and the state its task reports.
Charged(budget, hung, stable) ==
    IF hung
    THEN {[budget |-> [budget EXCEPT !.hangs = IF h + 1 >= HangLimit THEN 0
                                               ELSE h + 1],
           state |-> Verdict(h + 1, HangLimit)] : h \in Expired(budget.hangs)}
    ELSE IF stable
    THEN {[budget |-> FullBudget, state |-> "Retrying"]}
    ELSE {[budget |-> [failures |-> f + 1, hangs |-> 0],
           state |-> Verdict(f + 1, RestartLimit)] : f \in Expired(budget.failures)}
=============================================================================
