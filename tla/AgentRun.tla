------------------------------ MODULE AgentRun ------------------------------
(***************************************************************************)
(* One run() of executor.py for an agent with a token budget and the       *)
(* write_file tool: the turns of the executor, the tool loop of            *)
(* LLMClient.chat (llm.py) inside each turn, and the planner.  The model   *)
(* may answer anything at each call.  AgentLifecycle has run() as one task *)
(* state, "turn", and cancels it from outside; here it is seen from inside.*)
(*                                                                         *)
(* Kept of the conversation: how many tool calls in it have no answer.     *)
(* Left out: texts, events, health figures and clocks.  The agent's running *)
(* time may be found over at any test of it, and is then over for good; the *)
(* executor counts it from an earlier moment than chat() does.              *)
(***************************************************************************)
EXTENDS BudgetPlanner

CONSTANTS
    CallCosts,       \* what a call may cost: total_tokens of its usage
    MaxCost,         \* a bound on them
    Amounts,         \* what an agent may try to set aside for a child
    MaxBatch,        \* tool calls in one answer of the model
    MaxTurns,        \* AgentSpec.max_turns
    MaxIterations,   \* max_tool_iterations of chat()
    MaxDepth,        \* MAX_CONTINUATION_DEPTH
    MaxToolErrors,   \* MAX_TOOL_ERRORS
    MaxRepeated,     \* MAX_REPEATED_TOOL_CALLS
    MaxNoProgress,   \* MAX_NO_PROGRESS_TURNS
    Cadences,        \* _save_cadence below 50 %, from 50 % and from 80 %
    DriftInterval    \* DRIFT_CHECK_INTERVAL

ASSUME CostsAssumption ==
    /\ MaxCost \in Nat
    /\ CallCosts \subseteq 0..MaxCost
    /\ Amounts \subseteq Nat
ASSUME LimitsAssumption ==
    /\ {MaxBatch, MaxTurns, MaxIterations, DriftInterval} \subseteq Nat \ {0}
    /\ {MaxDepth, MaxToolErrors, MaxRepeated, MaxNoProgress} \subseteq Nat
    /\ Cadences \in [1..3 -> Nat \ {0}]
    /\ Cadences[2] =< Cadences[1] /\ Cadences[3] =< Cadences[1]

VARIABLES
    pc,           \* where the run is suspended
    turn,         \* the executor's turn
    chat,         \* the local variables of the chat() that is running
    stop,         \* LLMClient._stop_requested
    gate,         \* LLMClient._write_gate_active
    unsaved,      \* LLMClient._calls_since_save
    unanswered,   \* tool calls in LLMClient.messages without a tool message
    uncounted,    \* calls to the model whose tokens are added up nowhere
    reason,       \* AgentExecutor._idle_reason
    overtime,     \* history: chat() was stopped when max_runtime_seconds was over
    tripped,      \* history: a circuit breaker tripped in some turn
    finished,     \* history: the agent called finish()
    honest        \* history: no call cost more than the planner estimated

llm == <<stop, gate, unsaved, unanswered>>
history == <<overtime, tripped, finished, honest>>
vars == <<planner, pc, turn, chat, llm, uncounted, reason, history>>

\* turn: head of the executor's loop; call: head of chat()'s loop; tools: the
\* model's tool calls are executed; summary, lastWord: a call without tools;
\* finalize, farewell: the planner's last two calls; after: chat() returned.
Places == {"turn", "call", "tools", "summary", "lastWord",
           "finalize", "farewell", "after", "ended", "failed"}
Reasons == {"none", "completed", "turns", "budget", "time"}
\* gather: any tool the write gate takes away but spawn_child; look: any tool
\* it leaves but write_file and finish.
Tools == {"gather", "spawn", "look", "save", "finish"}

Chats == [iteration : Nat, depth : 0..MaxDepth, batch : 0..MaxBatch,
          errors : Nat, streak : Nat, last : Tools \cup {"none"},
          noProgress : Nat, empty : 0..1, breaker : BOOLEAN,
          isError : {"unbound", "yes", "no"}]

FreshChat == [iteration |-> 0, depth |-> 0, batch |-> 0, errors |-> 0, streak |-> 0,
              last |-> "none", noProgress |-> 0, empty |-> 0, breaker |-> FALSE,
              isError |-> "unbound"]

ScalarsOK ==
    /\ spent \in Nat /\ reserved \in Nat /\ finalizing \in BOOLEAN
    /\ pc \in Places /\ turn \in 0..MaxTurns
    /\ stop \in BOOLEAN /\ gate \in BOOLEAN
    /\ unsaved \in Nat /\ unanswered \in Nat /\ uncounted \in Nat
    /\ reason \in Reasons /\ overtime \in BOOLEAN
    /\ tripped \in BOOLEAN /\ finished \in BOOLEAN /\ honest \in BOOLEAN

TypeOK ==
    /\ ScalarsOK
    /\ recent \in Seq(CallCosts) /\ Len(recent) =< WindowSize
    /\ chat \in Chats

Init ==
    /\ InitPlanner
    /\ pc = "turn" /\ turn = 0 /\ chat = FreshChat
    /\ stop = FALSE /\ gate = FALSE /\ unsaved = 0 /\ unanswered = 0
    /\ uncounted = 0 /\ reason = "none" /\ overtime = FALSE
    /\ tripped = FALSE /\ finished = FALSE /\ honest = TRUE

SaveCadence ==
    IF 10 * spent >= 8 * MaxBudget THEN Cadences[3]
    ELSE IF 2 * spent >= MaxBudget THEN Cadences[2] ELSE Cadences[1]

-----------------------------------------------------------------------------
\* The executor's turns.

TurnStarts ==
    /\ pc = "turn" /\ turn < MaxTurns
    /\ pc' = "call"
    /\ UNCHANGED <<planner, turn, chat, llm, uncounted, reason, history>>

\* The node was suspended or terminated since the last turn.
NodeStopped ==
    /\ pc = "turn" /\ turn < MaxTurns
    /\ pc' = "ended"
    /\ UNCHANGED <<planner, turn, chat, llm, uncounted, reason, history>>

TurnsExhausted ==
    /\ pc = "turn" /\ turn = MaxTurns
    /\ pc' = "ended" /\ reason' = "turns"
    /\ UNCHANGED <<planner, turn, chat, llm, uncounted, history>>

\* The judge of drift is asked every DriftInterval turns, if there is anything
\* to judge: its failures are swallowed, its tokens not counted.
DriftChecks == IF (turn + 1) % DriftInterval = 0 THEN {0, 1} ELSE {0}

\* From 95 % of the budget on, one more call, uncounted, to save what there is;
\* it may be impossible (no answer), and its errors are swallowed.
BudgetExhausted ==
    /\ pc = "after" /\ 100 * spent >= 95 * MaxBudget
    /\ pc' = "ended" /\ reason' = "budget"
    /\ \E drift \in DriftChecks, save \in {0, 1} : uncounted' = uncounted + drift + save
    /\ UNCHANGED <<planner, turn, chat, llm, history>>

\* (a turn that goes on after a stop was requested)
ChatReturnedUnlessBudget ==
    /\ pc = "after" /\ 100 * spent < 95 * MaxBudget
    /\ \E drift \in DriftChecks : uncounted' = uncounted + drift
    /\ pc' = "turn" /\ turn' = turn + 1 /\ reason' = reason
    /\ UNCHANGED <<planner, chat, llm, history>>

\* The running time, counted from the agent's creation here, may be over even
\* if chat() did not find it so.
ChatReturned ==
    /\ pc = "after" /\ 100 * spent < 95 * MaxBudget
    /\ \E drift \in DriftChecks : uncounted' = uncounted + drift
    /\ \/ /\ pc' = "ended" /\ reason' = "time" /\ turn' = turn
       \/ /\ stop /\ ~overtime
          /\ pc' = "ended" /\ reason' = "completed" /\ turn' = turn
       \/ /\ ~stop /\ ~overtime
          /\ pc' = "turn" /\ turn' = turn + 1 /\ reason' = reason
    /\ UNCHANGED <<planner, chat, llm, history>>

-----------------------------------------------------------------------------
\* chat(): the calls to the model.  Its test of stop at the head of the loop is
\* left out: nothing sets stop and comes back there.

\* Out of the loop, nothing looks at the local variables of chat() again.
LoopLeft == chat' = FreshChat

NextCall(c) == [c EXCEPT !.iteration = @ + 1]

\* (a continuation that is not counted)
ContinueUncounted ==
    /\ pc = "call" /\ chat.iteration = MaxIterations
    /\ chat.depth < MaxDepth
    /\ chat' = [chat EXCEPT !.iteration = 0, !.empty = 0]
    /\ UNCHANGED <<planner, pc, turn, llm, uncounted, reason, history>>

\* The iterations are used up: begin again, with a nudge.
Continue ==
    /\ pc = "call" /\ chat.iteration = MaxIterations
    /\ chat.depth < MaxDepth
    /\ chat' = [chat EXCEPT !.iteration = 0, !.empty = 0, !.depth = @ + 1]
    /\ UNCHANGED <<planner, pc, turn, llm, uncounted, reason, history>>

GiveUp ==
    /\ pc = "call" /\ chat.iteration = MaxIterations
    /\ chat.depth = MaxDepth
    /\ pc' = "summary"
    /\ LoopLeft
    /\ UNCHANGED <<planner, turn, llm, uncounted, reason, history>>

\* _call_api() fails twice: RuntimeError leaves run().
CallFails ==
    /\ \/ pc \in {"summary", "lastWord", "finalize", "farewell"}
       \/ pc = "call" /\ chat.iteration < MaxIterations /\ ~ShouldFinalize
    /\ pc' = "failed"
    /\ LoopLeft
    /\ UNCHANGED <<planner, turn, llm, uncounted, reason, history>>

Honest(cost) ==
    IF recent = <<>> THEN cost + FinalizeReserve =< MaxBudget ELSE cost =< Estimate

\* A call whose tokens are added to usage and to the planner.
Counted(cost) ==
    /\ RecordCall(cost)
    /\ honest' = (honest /\ Honest(cost))
    /\ UNCHANGED <<reserved, tripped, finished>>

MayCall ==
    /\ pc = "call" /\ chat.iteration < MaxIterations
    /\ ~ShouldFinalize

\* _check_budget(), and the planner's test after it: over 115 % of the budget, or
\* the running time is over.
CheckBudget == HardStop \/ overtime

CallReturns(cost) ==
    /\ MayCall
    /\ Counted(cost)
    /\ overtime' \in {overtime, TRUE}

\* The answer is not looked at.
CallOverHardStop(cost) ==
    /\ CallReturns(cost)
    /\ CheckBudget'
    /\ stop' = TRUE /\ pc' = "after"
    /\ LoopLeft
    /\ UNCHANGED <<finalizing, turn, gate, unsaved, unanswered, uncounted, reason>>

AnswerWithTools(cost, n) ==
    /\ CallReturns(cost)
    /\ ~CheckBudget'
    /\ pc' = "tools"
    /\ chat' = [chat EXCEPT !.batch = n, !.empty = 0]
    /\ unanswered' = unanswered + n
    /\ UNCHANGED <<finalizing, turn, stop, gate, unsaved, uncounted, reason>>

AnswerWithText(cost) ==
    /\ CallReturns(cost)
    /\ ~CheckBudget'
    /\ pc' = "after"
    /\ LoopLeft
    /\ UNCHANGED <<finalizing, turn, llm, uncounted, reason>>

\* The second empty answer in a row is followed by a call without tools.
AnswerEmpty(cost) ==
    /\ CallReturns(cost)
    /\ ~CheckBudget'
    /\ IF chat.empty = 0
         THEN pc' = "call" /\ chat' = [NextCall(chat) EXCEPT !.empty = 1]
         ELSE pc' = "lastWord" /\ LoopLeft
    /\ UNCHANGED <<finalizing, turn, llm, uncounted, reason>>

\* The two calls without tools outside the planner's finalization.
LastCall ==
    /\ pc \in {"summary", "lastWord"}
    /\ pc' = "after"
    /\ uncounted' = uncounted + 1
    /\ UNCHANGED <<planner, turn, chat, llm, reason, history>>

-----------------------------------------------------------------------------
\* chat(): finalization.

StartFinalize ==
    /\ pc = "call" /\ chat.iteration < MaxIterations
    /\ ShouldFinalize
    /\ finalizing' = TRUE
    /\ gate' = TRUE
    /\ pc' = "finalize"
    /\ LoopLeft
    /\ UNCHANGED <<spent, recent, reserved, turn, stop, unsaved, unanswered,
                   uncounted, reason, history>>

\* Its tool calls, finish() among them perhaps, are all answered; neither
\* breakers nor the gate's count apply to them.
FinalizeAnswered(cost) ==
    /\ pc = "finalize"
    /\ RecordCall(cost)
    /\ \/ pc' = "after" /\ stop' = TRUE /\ finished' = finished
       \/ /\ pc' = "farewell"
          /\ \/ UNCHANGED <<stop, finished>>
             \/ stop' = TRUE /\ finished' = TRUE
    /\ honest' = (honest /\ Honest(cost))
    /\ UNCHANGED <<reserved, finalizing, turn, chat, gate, unsaved, unanswered,
                   uncounted, reason, overtime, tripped>>

Farewell(cost) ==
    /\ pc = "farewell"
    /\ Counted(cost)
    /\ stop' = TRUE /\ pc' = "after"
    /\ UNCHANGED <<finalizing, turn, chat, gate, unsaved, unanswered, uncounted, reason,
                   overtime>>

-----------------------------------------------------------------------------
\* chat(): the tools of one answer, one after the other.

\* (one more tool call than the answer held)
ExecutingMore == pc = "tools"

Executing == pc = "tools" /\ chat.batch > 0

\* (an error that is counted and not answered)
MalformedUnanswered ==
    /\ Executing
    /\ chat' = [chat EXCEPT !.batch = @ - 1, !.errors = @ + 1]
    /\ UNCHANGED <<planner, pc, turn, llm, uncounted, reason, history>>

\* Arguments that cannot be repaired: counted as an error, but the breakers
\* are not looked at and is_error keeps its value, if it has one.
Malformed ==
    /\ Executing
    /\ chat' = [chat EXCEPT !.batch = @ - 1, !.errors = @ + 1]
    /\ unanswered' = unanswered - 1
    /\ UNCHANGED <<planner, pc, turn, stop, gate, unsaved, uncounted, reason, history>>

\* Arguments that can be read and are no object: an exception leaves run().
ArgumentsNoObject ==
    /\ Executing
    /\ pc' = "failed"
    /\ LoopLeft
    /\ UNCHANGED <<planner, turn, llm, uncounted, reason, history>>

\* What a call of t leaves in chat(): a breaker ends the batch.  again: with
\* the arguments of the call before it.
AfterCall(t, again, failed) ==
    LET errors == IF failed THEN chat.errors + 1 ELSE chat.errors
        streak == IF again THEN chat.streak + 1 ELSE 1
        break == errors >= MaxToolErrors \/ streak >= MaxRepeated
    IN  [chat EXCEPT !.errors = errors, !.streak = streak, !.last = t,
                     !.noProgress = IF failed THEN @ ELSE 0,
                     !.isError = IF failed THEN "yes" ELSE "no",
                     !.breaker = @ \/ break,
                     !.batch = IF break THEN 0 ELSE @ - 1]

\* Any tool the agent has, by its name: behind the gate, the others are not
\* offered to the model, but executed if it names them.
CallTool(t, again, failed) ==
    /\ Executing
    /\ again => chat.last = t
    /\ chat' = AfterCall(t, again, failed)
    /\ tripped' = (tripped \/ chat'.breaker)
    /\ unanswered' = unanswered - 1

ToolFails(t, again) ==
    /\ CallTool(t, again, TRUE)
    /\ UNCHANGED <<planner, pc, turn, stop, gate, unsaved, uncounted, reason,
                   overtime, finished, honest>>

\* gather, and look
ToolReads(t, again) ==
    /\ t \in {"gather", "look"}
    /\ CallTool(t, again, FALSE)
    /\ unsaved' = IF t = "gather" THEN unsaved + 1 ELSE unsaved
    /\ UNCHANGED <<planner, pc, turn, stop, gate, uncounted, reason, overtime, finished,
                   honest>>

\* write_file and finish count as a save; finish asks for a stop.  A refused
\* write_file returns JSON, not "Error:", and counts too.
ToolSaves(t, again) ==
    /\ t \in {"save", "finish"}
    /\ CallTool(t, again, FALSE)
    /\ unsaved' = 0 /\ gate' = FALSE
    /\ stop' = (stop \/ t = "finish")
    /\ finished' = (finished \/ t = "finish")
    /\ UNCHANGED <<planner, pc, turn, uncounted, reason, overtime, honest>>

\* spawn_child with a budget of its own for the child, with none, or refused:
\* a refusal leaves no reservation behind, and returns JSON too.
ToolSpawns(again) ==
    /\ CallTool("spawn", again, FALSE)
    /\ unsaved' = unsaved + 1
    /\ \/ reserved' = reserved
       \/ \E amount \in Amounts : ReserveForChild(amount)
    /\ UNCHANGED <<spent, recent, finalizing, pc, turn, stop, gate, uncounted, reason,
                   overtime, finished, honest>>

-----------------------------------------------------------------------------
\* chat(): after the tools of one answer.

BatchDone == pc = "tools" /\ chat.batch = 0

\* finish() was called: chat() takes the request back and returns.
StopTakenBack ==
    /\ BatchDone /\ stop
    /\ stop' = FALSE /\ pc' = "after"
    /\ LoopLeft
    /\ UNCHANGED <<planner, turn, gate, unsaved, unanswered, uncounted, reason, history>>

\* No call of this chat() had arguments that could be read: is_error is read
\* before it is assigned, and the exception leaves run().
ErrorUnbound ==
    /\ BatchDone /\ ~stop /\ chat.isError = "unbound"
    /\ pc' = "failed"
    /\ LoopLeft
    /\ UNCHANGED <<planner, turn, llm, uncounted, reason, history>>

NoProgress == IF chat.isError = "yes" THEN chat.noProgress + 1 ELSE 0
Broken == chat.breaker \/ (chat.isError = "yes" /\ NoProgress >= MaxNoProgress)

BreakCircuit ==
    /\ BatchDone /\ ~stop /\ chat.isError # "unbound"
    /\ Broken
    /\ tripped' = TRUE
    /\ pc' = "summary"
    /\ LoopLeft
    /\ UNCHANGED <<planner, turn, llm, uncounted, reason, overtime, finished, honest>>

\* (a gate that closes one call late)
IterateLate ==
    /\ BatchDone /\ ~stop /\ chat.isError # "unbound"
    /\ ~Broken
    /\ chat' = [NextCall(chat) EXCEPT !.noProgress = NoProgress]
    /\ gate' = (gate \/ unsaved > SaveCadence)
    /\ pc' = "call"
    /\ UNCHANGED <<planner, turn, stop, unsaved, unanswered, uncounted, reason, history>>

\* (an iteration that is not counted)
IterateUncounted ==
    /\ BatchDone /\ ~stop /\ chat.isError # "unbound"
    /\ ~Broken
    /\ chat' = [chat EXCEPT !.noProgress = NoProgress]
    /\ gate' = (gate \/ unsaved >= SaveCadence)
    /\ pc' = "call"
    /\ UNCHANGED <<planner, turn, stop, unsaved, unanswered, uncounted, reason, history>>

\* The next call to the model, behind the write gate when a save is due.
Iterate ==
    /\ BatchDone /\ ~stop /\ chat.isError # "unbound"
    /\ ~Broken
    /\ chat' = [NextCall(chat) EXCEPT !.noProgress = NoProgress]
    /\ gate' = (gate \/ unsaved >= SaveCadence)
    /\ pc' = "call"
    /\ UNCHANGED <<planner, turn, stop, unsaved, unanswered, uncounted, reason, history>>

-----------------------------------------------------------------------------
\* The specification.

Turns == TurnStarts \/ NodeStopped \/ TurnsExhausted \/ BudgetExhausted \/ ChatReturned

Calls ==
    \/ Continue \/ GiveUp \/ CallFails \/ LastCall \/ StartFinalize
    \/ \E cost \in CallCosts :
          \/ CallOverHardStop(cost) \/ AnswerWithText(cost) \/ AnswerEmpty(cost)
          \/ FinalizeAnswered(cost) \/ Farewell(cost)
          \/ \E n \in 1..MaxBatch : AnswerWithTools(cost, n)

ToolCalls ==
    \/ Malformed \/ ArgumentsNoObject
    \/ StopTakenBack \/ ErrorUnbound \/ BreakCircuit \/ Iterate
    \/ \E again \in BOOLEAN :
          \/ ToolSpawns(again)
          \/ \E t \in Tools :
                ToolFails(t, again) \/ ToolReads(t, again) \/ ToolSaves(t, again)

Next == Turns \/ Calls \/ ToolCalls

Spec == Init /\ [][Next]_vars
\* A call to the model and a tool end, by an answer, an error or a timeout.
FairSpec == Spec /\ WF_vars(Next)

-----------------------------------------------------------------------------
\* Properties.

\* Whatever calls cost, an agent's counted spending ends within two calls of
\* 115 % of its budget, finalization included; and it makes no more than two
\* uncounted calls a turn, and one at the end.
OvershootBounded ==
    /\ 100 * spent < 115 * MaxBudget + 200 * MaxCost
    /\ uncounted =< 2 * MaxTurns + 1

\* As long as no call costs more than was estimated and nothing is set aside
\* for children, the reserve for the final call is there when it is made.
FinalizeFunded ==
    pc = "finalize" /\ honest /\ reserved = 0 => spent + FinalizeReserve =< MaxBudget

\* The conversation sent to the model has an answer for each tool call in it,
\* unless a circuit breaker ended a batch, in this turn or an earlier one.
EveryCallAnswered ==
    pc \notin {"tools", "failed"} /\ ~tripped => unanswered = 0

\* An agent that was not stopped by a breaker and did not call finish() is
\* never offered its data-gathering tools with a full cadence of calls unsaved,
\* in whatever turn they were made.
SaveDue ==
    pc = "call" /\ ~gate /\ ~tripped /\ ~finished => unsaved < Cadences[1]

\* The idle reason does not hide why a run was cut short: the turns ran out only
\* on an agent that was neither finalized by the planner nor stopped for its
\* time, and one that reached 95 % of its budget is told to be out of budget,
\* whatever else there was.  One stopped for its time below that is out of time.
\* "completed" is said of those that the planner finalized for want of budget and
\* that stay below 95 %, and of no others: finish() is not what brings it about,
\* whatever models.py says (see FinishCompletes).
ReasonTold ==
    pc = "ended" =>
        /\ reason = "turns" => ~finalizing
        /\ reason \in {"turns", "time", "completed"} =>
              100 * spent < 95 * MaxBudget
        /\ reason = "budget" => 100 * spent >= 95 * MaxBudget
        /\ reason = "completed" => finalizing /\ ~overtime
        /\ overtime => reason \in {"time", "budget"}

\* No mixture of tool calls, errors, empty answers, continuations and turns
\* goes on for ever, even if calls report no usage.
RunTerminates == <>(pc \in {"ended", "failed"})

\* What a run has left: turns, the way through the turn, continuations of chat(),
\* iterations, and tool calls before the next iteration.
Stage == [turn |-> 5, call |-> 4, tools |-> 4, summary |-> 3, lastWord |-> 3,
          finalize |-> 3, farewell |-> 2, after |-> 1, ended |-> 0, failed |-> 0]

Left == <<MaxTurns - turn, Stage[pc], MaxDepth - chat.depth,
          MaxIterations - chat.iteration,
          IF pc = "call" THEN MaxBatch + 1 ELSE chat.batch>>

\* The lexicographic order, which is well-founded on tuples of naturals.
Less(a, b) == \E n \in DOMAIN b : a[n] < b[n] /\ \A k \in 1..(n - 1) : a[k] = b[k]

\* Every step uses up something, for good: nothing that one loop hands back is more
\* than the loop around it has given.
RunProgresses == [][Left' \in [1..5 -> Nat] /\ Less(Left', Left)]_vars

\* The strengthening of the invariants that every step preserves, by the place
\* of the run.  InChat: a turn is under way and the planner has not given up.
InChat == {"call", "tools", "summary", "lastWord"}

Spending ==
    /\ recent = <<>> => spent = 0
    /\ pc = "turn" => 100 * spent < 95 * MaxBudget
    /\ pc \in InChat \cup {"finalize"} => 100 * spent < 115 * MaxBudget
    /\ pc = "farewell" => 100 * spent < 115 * MaxBudget + 100 * MaxCost
    /\ pc # "ended" => reason = "none"

Uncounted ==
    /\ pc \notin {"turn", "ended"} => turn < MaxTurns
    /\ pc \notin {"after", "failed", "ended"} => uncounted =< 2 * turn
    /\ pc \in {"after", "failed"} => uncounted =< 2 * turn + 1

Stops ==
    /\ pc \in {"turn", "call", "summary", "lastWord", "finalize"} => ~stop
    /\ pc = "tools" /\ stop => finished
    /\ pc \in InChat \cup {"turn"} => ~finalizing
    /\ pc \in {"finalize", "farewell"} => finalizing /\ gate
    /\ pc = "after" /\ stop => finalizing \/ overtime \/ 100 * spent >= 115 * MaxBudget
    /\ pc = "after" /\ overtime => stop
    /\ pc \notin {"after", "ended"} => ~overtime
    /\ pc = "after" /\ ~stop => ~finalizing

\* What is left after a stop was taken back or a last word came late.
StillGoing == pc \in InChat \cup {"turn", "finalize"} \/ (pc = "after" /\ ~stop)

Funds == StillGoing /\ honest /\ reserved = 0 => spent + FinalizeReserve =< MaxBudget

Answers ==
    /\ pc # "tools" => chat.batch = 0
    /\ chat.batch =< unanswered
    /\ ~tripped /\ pc # "failed" => unanswered = chat.batch

Saves ==
    pc \in {"turn", "call", "summary", "lastWord"} \/ (pc = "after" /\ ~stop) =>
        gate \/ tripped \/ finished \/ unsaved < Cadences[1]

RunInv ==
    /\ TypeOK /\ Spending /\ Uncounted /\ Stops /\ Funds /\ Answers /\ Saves
    /\ OvershootBounded /\ ReasonTold

\* A statement the code does not keep; a run refutes it.
\* models.py: "completed": "agent called finish()": an agent that called it
\* is idle as completed, and not because its turns ran out.
FinishCompletes == reason = "turns" => ~finished
=============================================================================
