---------------------------- MODULE BudgetPlanner ----------------------------
(***************************************************************************)
(* budget.py: the planner that records what each call to the model cost,   *)
(* sets tokens aside for children and decides when an agent must finalize. *)
(* One planner lives as long as one executor's run.                        *)
(***************************************************************************)
EXTENDS Integers, Sequences, FiniteSetsExt

CONSTANT MaxBudget   \* AgentSpec.max_tokens of an agent that has a budget

ASSUME BudgetAssumption == MaxBudget \in Nat \ {0}

VARIABLES
    spent,       \* _total_spent; LLMClient.usage.total_tokens is the same sum
    recent,      \* the last WindowSize of _call_costs
    reserved,    \* _reserved_for_children
    finalizing   \* _finalize_triggered

planner == <<spent, recent, reserved, finalizing>>

WindowSize == 5

Costs(s) == {s[i] : i \in 1..Len(s)}

Remaining == Max({0, MaxBudget - spent - reserved})

FinalizeReserve == MaxBudget \div 10

\* estimated_next_cost(): nothing is known before the first call.
Estimate ==
    IF recent = <<>> THEN 0
    ELSE IF Len(recent) = 1 THEN (3 * recent[1]) \div 2
    ELSE (6 * Max(Costs(recent))) \div 5

\* (a planner that keeps nothing for the last call)
CannotAffordCall == Remaining =< Estimate

\* should_finalize(): sticky; the last call costs at least what any call does.
CannotAfford == Remaining =< Estimate + Max({FinalizeReserve, Estimate})
ShouldFinalize == finalizing \/ CannotAfford

\* (a safety valve at 150 %)
HardStopLate == 100 * spent >= 150 * MaxBudget

\* The planner's hard_stop() and the token test of the executor's _check_budget(),
\* one of which truncates 1.15 * MaxBudget and compares with >, the other with >=:
\* together.
HardStop == 100 * spent >= 115 * MaxBudget

InitPlanner ==
    /\ spent = 0
    /\ recent = <<>>
    /\ reserved = 0
    /\ finalizing = FALSE

RecordCall(cost) ==
    /\ spent' = spent + cost
    /\ LET costs == Append(recent, cost)
       IN  recent' = SubSeq(costs, Max({1, Len(costs) - WindowSize + 1}), Len(costs))

\* reserve_for_child(); release_child_reservation() is called only to undo a
\* reservation in the same tool call, when the spec or the spawn is refused.
ReserveForChild(amount) ==
    /\ 0 < amount /\ amount =< Remaining
    /\ reserved' = reserved + amount
=============================================================================
