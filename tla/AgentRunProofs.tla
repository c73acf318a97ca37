--------------------------- MODULE AgentRunProofs ---------------------------
(***************************************************************************)
(* Proofs about AgentRun, for every budget, every set of costs and amounts *)
(* and every limit.                                                        *)
(***************************************************************************)
EXTENDS AgentRun, SequenceTheorems, TLAPS

-----------------------------------------------------------------------------
\* The planner's arithmetic.

LEMMA MaxOfTwo ==
    ASSUME NEW a \in Int, NEW b \in Int
    PROVE  /\ Max({a, b}) \in {a, b}
           /\ Max({a, b}) >= a /\ Max({a, b}) >= b
<1>1. \E x \in {a, b} : \A y \in {a, b} : x >= y
  BY SMT
<1> QED BY <1>1 DEF Max

LEMMA CostsAreNat == \A c \in CallCosts : c \in Nat /\ c =< MaxCost
BY CostsAssumption

\* The costs in the window have a maximum.
LEMMA MaxOfRecent ==
    ASSUME TypeOK, recent # <<>>
    PROVE  Max(Costs(recent)) \in Nat
<1>1. Len(recent) \in 1..5 /\ \A i \in 1..Len(recent) : recent[i] \in Nat
  <2>1. recent \in Seq(CallCosts)
    BY DEF TypeOK
  <2>2. Len(recent) \in Nat \ {0}
    BY <2>1, EmptySeq
  <2>3. Len(recent) =< 5
    BY DEF TypeOK, WindowSize
  <2>4. \A i \in 1..Len(recent) : recent[i] \in CallCosts
    BY <2>1, ElementOfSeq
  <2>5. Len(recent) \in 1..5
    <3>1. \A n \in Nat \ {0} : n =< 5 => n \in 1..5
      OBVIOUS
    <3> QED BY <2>2, <2>3, <3>1
  <2> QED BY <2>4, <2>5, CostsAreNat
<1>2. \E x \in Costs(recent) : \A y \in Costs(recent) : x >= y
  <2>1. \E k \in 1..Len(recent) : \A i \in 1..Len(recent) : recent[k] >= recent[i]
    <3>1. CASE Len(recent) = 1 BY <1>1, <3>1
    <3>2. CASE Len(recent) = 2 BY <1>1, <3>2
    <3>3. CASE Len(recent) = 3 BY <1>1, <3>3
    <3>4. CASE Len(recent) = 4 BY <1>1, <3>4
    <3>5. CASE Len(recent) = 5 BY <1>1, <3>5
    <3> QED BY <1>1, <3>1, <3>2, <3>3, <3>4, <3>5
  <2> QED BY <2>1 DEF Costs
<1>3. Max(Costs(recent)) \in Costs(recent)
  BY <1>2 DEF Max
<1> QED BY <1>1, <1>3 DEF Costs

LEMMA PlannerIsNat ==
    ASSUME TypeOK
    PROVE  /\ Estimate \in Nat
           /\ FinalizeReserve \in Nat /\ FinalizeReserve =< MaxBudget
           /\ Remaining \in Nat
           /\ Remaining > 0 => Remaining = MaxBudget - spent - reserved
<1> USE BudgetAssumption
<1>1. Estimate \in Nat
  <2>1. CASE recent = <<>>
    BY <2>1 DEF Estimate
  <2>2. CASE recent # <<>>
    <3>1. recent[1] \in Nat
      <4>1. recent \in Seq(CallCosts) /\ Len(recent) \in Nat \ {0}
        BY <2>2, EmptySeq DEF TypeOK
      <4>2. recent[1] \in CallCosts
        BY <4>1, ElementOfSeq
      <4> QED BY <4>2, CostsAreNat
    <3>2. Max(Costs(recent)) \in Nat
      BY <2>2, MaxOfRecent
    <3> QED BY <2>2, <3>1, <3>2 DEF Estimate
  <2> QED BY <2>1, <2>2
<1>2. FinalizeReserve \in Nat /\ FinalizeReserve =< MaxBudget
  BY DEF FinalizeReserve
<1>3. MaxBudget - spent - reserved \in Int
  BY DEF TypeOK, ScalarsOK
<1>4. /\ Remaining \in {0, MaxBudget - spent - reserved}
      /\ Remaining >= 0 /\ Remaining >= MaxBudget - spent - reserved
  BY <1>3, MaxOfTwo DEF Remaining
<1>5. Remaining \in Nat /\ (Remaining > 0 => Remaining = MaxBudget - spent - reserved)
  BY <1>3, <1>4
<1> QED BY <1>1, <1>2, <1>5

\* An ordinary call is made only while the reserve and the estimate are there.
LEMMA CallIsFunded ==
    ASSUME TypeOK, ~ShouldFinalize
    PROVE  spent + reserved + Estimate + FinalizeReserve < MaxBudget
<1> DEFINE kept == Max({FinalizeReserve, Estimate})
<1>1. /\ Estimate \in Nat /\ FinalizeReserve \in Nat /\ Remaining \in Nat
      /\ Remaining > 0 => Remaining = MaxBudget - spent - reserved
  BY PlannerIsNat
<1>2. kept \in {FinalizeReserve, Estimate} /\ kept >= FinalizeReserve
  BY <1>1, MaxOfTwo
<1>3. ~(Remaining =< Estimate + kept)
  BY DEF ShouldFinalize, CannotAfford
<1>4. spent \in Nat /\ reserved \in Nat /\ MaxBudget \in Nat
  BY BudgetAssumption DEF TypeOK, ScalarsOK
<1> HIDE DEF kept
<1> QED BY <1>1, <1>2, <1>3, <1>4

LEMMA RecordKeeps ==
    ASSUME TypeOK, NEW cost \in CallCosts, RecordCall(cost)
    PROVE  /\ cost \in Nat /\ cost =< MaxCost
           /\ spent' = spent + cost /\ spent' \in Nat
           /\ recent' \in Seq(CallCosts) /\ Len(recent') =< WindowSize
           /\ recent' # <<>>
<1> DEFINE costs == Append(recent, cost)
           first == Max({1, Len(costs) - WindowSize + 1})
<1>1. cost \in Nat /\ cost =< MaxCost
  BY CostsAreNat
<1>2. costs \in Seq(CallCosts) /\ Len(costs) = Len(recent) + 1
  BY AppendProperties DEF TypeOK
<1>3. Len(recent) \in Nat /\ Len(recent) =< 5
  BY LenProperties DEF TypeOK, WindowSize
<1>4. first \in {1, Len(costs) - WindowSize + 1} /\ first >= 1
      /\ first >= Len(costs) - WindowSize + 1
  <2>1. Len(costs) - WindowSize + 1 \in Int
    BY <1>2, <1>3 DEF WindowSize
  <2>2. 1 \in Int
    OBVIOUS
  <2> QED BY <2>1, <2>2, MaxOfTwo
<1>5. recent' = SubSeq(costs, first, Len(costs))
  BY DEF RecordCall
<1> HIDE DEF costs, first
<1>6. \A i \in 1..Len(costs) : costs[i] \in CallCosts
  BY <1>2, ElementOfSeq
<1>7. first \in 1..Len(costs) /\ Len(costs) - first + 1 \in 1..5
  <2> DEFINE n == Len(costs)
  <2>1. n \in 1..6
    BY <1>2, <1>3
  <2>2. first \in {1, n - 4} /\ first >= 1 /\ first >= n - 4
    BY <1>4, <2>1 DEF WindowSize
  <2> HIDE DEF n
  <2>3. first \in 1..n /\ n - first + 1 \in 1..5
    BY <2>1, <2>2
  <2> QED BY <2>3 DEF n
<1>8. recent' \in Seq(CallCosts) /\ Len(recent') \in 1..5
  <2>1. \A i \in first..Len(costs) : costs[i] \in CallCosts
    BY <1>6, <1>7
  <2>2. /\ SubSeq(costs, first, Len(costs)) \in Seq(CallCosts)
        /\ Len(SubSeq(costs, first, Len(costs)))
             = IF first <= Len(costs) THEN Len(costs) - first + 1 ELSE 0
    <3>1. first \in Int /\ Len(costs) \in Int
      BY <1>2, <1>3, <1>7
    <3> QED BY <2>1, <3>1, SubSeqProperties
  <2> QED BY <1>5, <1>7, <2>2
<1>9. recent' # <<>>
  BY <1>8, EmptySeq
<1>10. Len(recent') =< WindowSize
  <2>1. \A n \in 1..5 : n =< WindowSize
    BY DEF WindowSize
  <2> QED BY <1>8, <2>1
<1>11. spent' = spent + cost /\ spent' \in Nat
  BY <1>1 DEF RecordCall, TypeOK, ScalarsOK
<1> QED BY <1>1, <1>8, <1>9, <1>10, <1>11

-----------------------------------------------------------------------------
\* The steps.

LEMMA FreshIsChat == FreshChat \in Chats /\ FreshChat.batch = 0 /\ MaxDepth \in Nat
BY LimitsAssumption DEF FreshChat, Chats, Tools

\* The assumptions on the constants, one by one.
LEMMA Limits ==
    /\ MaxBudget \in Nat /\ MaxBudget > 0 /\ MaxCost \in Nat
    /\ MaxTurns \in Nat /\ MaxTurns > 0
    /\ Cadences[1] \in Nat /\ Cadences[1] > 0
    /\ Cadences[2] =< Cadences[1] /\ Cadences[3] =< Cadences[1]
BY BudgetAssumption, CostsAssumption, LimitsAssumption

LEMMA InitEstablishes == Init => RunInv
<1> SUFFICES ASSUME Init PROVE RunInv
  OBVIOUS
<1>1. ScalarsOK
  <2>1. spent = 0 /\ reserved = 0 /\ turn = 0 /\ unsaved = 0 /\ unanswered = 0
        /\ uncounted = 0 /\ pc = "turn" /\ reason = "none"
    BY DEF Init, InitPlanner
  <2>2. /\ {finalizing, stop, gate, overtime, tripped, finished, honest} \subseteq BOOLEAN
    BY DEF Init, InitPlanner
  <2>3. turn \in 0..MaxTurns
    BY <2>1, Limits
  <2> QED BY <2>1, <2>2, <2>3 DEF ScalarsOK, Places, Reasons
<1>2. recent \in Seq(CallCosts) /\ Len(recent) =< WindowSize
  BY EmptySeq DEF Init, InitPlanner, WindowSize
<1>3. TypeOK
  BY <1>1, <1>2, FreshIsChat DEF TypeOK, Init
<1>4. Spending /\ OvershootBounded /\ ReasonTold
  BY Limits DEF Spending, OvershootBounded, ReasonTold, InChat, Init, InitPlanner
<1>5. Uncounted /\ Stops
  BY Limits DEF Uncounted, Stops, InChat, Init, InitPlanner
<1>6. Funds
  BY <1>3, PlannerIsNat, Limits DEF Funds, Init, InitPlanner
<1>7. Answers /\ Saves
  BY Limits, FreshIsChat DEF Answers, Saves, Init
<1> QED BY <1>3, <1>4, <1>5, <1>6, <1>7 DEF RunInv

\* Steps between turns.
LEMMA TurnsKeep ==
    ASSUME RunInv, Turns
    PROVE  RunInv'
<1>1. /\ TypeOK /\ ScalarsOK /\ Spending /\ Uncounted /\ Stops /\ Funds /\ Answers /\ Saves
      /\ OvershootBounded /\ ReasonTold
  BY DEF RunInv, TypeOK
<1>2. UNCHANGED <<planner, chat, llm, history>>
  BY DEF Turns, TurnStarts, NodeStopped, TurnsExhausted, BudgetExhausted, ChatReturned
<1>3. /\ spent' = spent /\ recent' = recent /\ reserved' = reserved
      /\ finalizing' = finalizing /\ chat' = chat /\ stop' = stop /\ gate' = gate
      /\ unsaved' = unsaved /\ unanswered' = unanswered /\ tripped' = tripped
      /\ finished' = finished /\ honest' = honest /\ overtime' = overtime
  BY <1>2 DEF planner, llm, history
<1>4. \/ /\ pc = "turn" /\ turn < MaxTurns
         /\ pc' \in {"call", "ended"} /\ turn' = turn /\ reason' = reason
         /\ uncounted' = uncounted
      \/ /\ pc = "turn" /\ turn = MaxTurns
         /\ pc' = "ended" /\ turn' = turn /\ reason' = "turns" /\ uncounted' = uncounted
      \/ /\ pc = "after"
         /\ pc' = "ended" /\ turn' = turn
         /\ \/ reason' = "budget" /\ 100 * spent >= 95 * MaxBudget
            \/ reason' = "time" /\ 100 * spent < 95 * MaxBudget
            \/ reason' = "completed" /\ stop /\ ~overtime /\ 100 * spent < 95 * MaxBudget
         /\ uncounted' \in {uncounted, uncounted + 1, uncounted + 2}
      \/ /\ pc = "after" /\ ~stop /\ ~overtime /\ 100 * spent < 95 * MaxBudget
         /\ pc' = "turn" /\ turn' = turn + 1 /\ reason' = reason
         /\ uncounted' \in {uncounted, uncounted + 1}
  <2>1. DriftChecks \subseteq {0, 1}
    BY DEF DriftChecks
  <2>2. uncounted \in Nat
    BY <1>1 DEF ScalarsOK
  <2>3. CASE TurnStarts \/ NodeStopped \/ TurnsExhausted
    BY <2>3 DEF TurnStarts, NodeStopped, TurnsExhausted
  <2>4. CASE BudgetExhausted
    BY <2>1, <2>2, <2>4 DEF BudgetExhausted
  <2>5. CASE ChatReturned
    BY <2>1, <2>2, <2>5 DEF ChatReturned
  <2> QED BY <2>3, <2>4, <2>5 DEF Turns
<1>5. TypeOK'
  <2>1. turn' \in 0..MaxTurns /\ uncounted' \in Nat
    BY <1>1, <1>4, Limits DEF ScalarsOK, Uncounted
  <2>2. pc' \in Places /\ reason' \in Reasons
    BY <1>1, <1>4 DEF ScalarsOK, Places, Reasons
  <2> QED BY <1>1, <1>3, <2>1, <2>2 DEF TypeOK, ScalarsOK
<1>6. Spending' /\ ReasonTold'
  BY <1>1, <1>3, <1>4, Limits DEF Spending, ReasonTold, Stops, InChat, ScalarsOK
<1>7. Uncounted' /\ OvershootBounded'
  BY <1>1, <1>3, <1>4, Limits DEF Uncounted, OvershootBounded, ScalarsOK
<1>8. Stops' /\ Saves' /\ Answers'
  BY <1>1, <1>3, <1>4 DEF Stops, Saves, Answers, InChat
<1>9. Funds'
  BY <1>1, <1>3, <1>4 DEF Funds, StillGoing, FinalizeReserve, InChat
<1> QED BY <1>5, <1>6, <1>7, <1>8, <1>9 DEF RunInv

\* What the steps do to the local variables of chat().
LEMMA ChatContinues ==
    ASSUME NEW c \in Chats, NEW d \in 0..MaxDepth
    PROVE  /\ [c EXCEPT !.iteration = 0, !.empty = 0, !.depth = d] \in Chats
           /\ [c EXCEPT !.iteration = 0, !.empty = 0, !.depth = d].batch = c.batch
<1>1. 0 \in Nat /\ 0 \in 0..1
  OBVIOUS
<1>2. [c EXCEPT !.iteration = 0, !.empty = 0, !.depth = d] \in Chats
  BY <1>1, Zenon DEF Chats
<1>3. [c EXCEPT !.iteration = 0, !.empty = 0, !.depth = d].batch = c.batch
  BY Zenon DEF Chats
<1> QED BY <1>2, <1>3

LEMMA ChatIterates ==
    ASSUME NEW c \in Chats, NEW m \in Nat
    PROVE  /\ [NextCall(c) EXCEPT !.empty = 1] \in Chats
           /\ [NextCall(c) EXCEPT !.empty = 1].batch = c.batch
           /\ [NextCall(c) EXCEPT !.noProgress = m] \in Chats
           /\ [NextCall(c) EXCEPT !.noProgress = m].batch = c.batch
<1> DEFINE n == c.iteration + 1
<1>1. NextCall(c) = [c EXCEPT !.iteration = n]
  BY DEF NextCall
<1>2. n \in Nat /\ 1 \in 0..1
  <2>1. c.iteration \in Nat
    BY DEF Chats
  <2> QED BY <2>1
<1> HIDE DEF n
<1>3. [c EXCEPT !.iteration = n] \in Chats /\ [c EXCEPT !.iteration = n].batch = c.batch
  BY <1>2, Zenon DEF Chats
<1>4. ASSUME NEW x \in Chats
      PROVE  /\ [x EXCEPT !.empty = 1] \in Chats /\ [x EXCEPT !.empty = 1].batch = x.batch
             /\ [x EXCEPT !.noProgress = m] \in Chats
             /\ [x EXCEPT !.noProgress = m].batch = x.batch
  <2>1. [x EXCEPT !.empty = 1] \in Chats /\ [x EXCEPT !.empty = 1].batch = x.batch
    BY <1>2, Zenon DEF Chats
  <2>2. [x EXCEPT !.noProgress = m] \in Chats /\ [x EXCEPT !.noProgress = m].batch = x.batch
    BY Zenon DEF Chats
  <2> QED BY <2>1, <2>2
<1> QED BY <1>1, <1>3, <1>4

LEMMA ChatGetsTools ==
    ASSUME NEW c \in Chats, NEW b \in 0..MaxBatch
    PROVE  /\ [c EXCEPT !.batch = b, !.empty = 0] \in Chats
           /\ [c EXCEPT !.batch = b, !.empty = 0].batch = b
<1>1. 0 \in 0..1
  OBVIOUS
<1>2. [c EXCEPT !.batch = b, !.empty = 0] \in Chats
  BY <1>1, Zenon DEF Chats
<1>3. [c EXCEPT !.batch = b, !.empty = 0].batch = b
  BY Zenon DEF Chats
<1> QED BY <1>2, <1>3

\* The steps of chat()'s loop that record no call.
QuietCalls == Continue \/ GiveUp \/ CallFails \/ LastCall \/ StartFinalize

LEMMA QuietCallsKeep ==
    ASSUME RunInv, QuietCalls
    PROVE  RunInv'
<1>1. /\ TypeOK /\ ScalarsOK /\ Spending /\ Uncounted /\ Stops /\ Funds /\ Answers /\ Saves
      /\ OvershootBounded /\ ReasonTold
  BY DEF RunInv, TypeOK
<1>2. UNCHANGED <<spent, recent, reserved, turn, stop, unsaved, unanswered, reason, history>>
  BY DEF QuietCalls, Continue, GiveUp, CallFails, LastCall, StartFinalize, planner, llm
<1>3. /\ spent' = spent /\ recent' = recent /\ reserved' = reserved /\ turn' = turn
      /\ stop' = stop /\ unsaved' = unsaved /\ unanswered' = unanswered
      /\ reason' = reason /\ tripped' = tripped /\ finished' = finished /\ honest' = honest
      /\ overtime' = overtime
  BY <1>2 DEF history
<1>4. \/ /\ pc = "call" /\ pc' \in {"call", "summary"}
         /\ gate' = gate /\ finalizing' = finalizing /\ uncounted' = uncounted
      \/ /\ pc \in {"call", "summary", "lastWord", "finalize", "farewell"} /\ pc' = "failed"
         /\ gate' = gate /\ finalizing' = finalizing /\ uncounted' = uncounted
      \/ /\ pc \in {"summary", "lastWord"} /\ pc' = "after"
         /\ gate' = gate /\ finalizing' = finalizing /\ uncounted' = uncounted + 1
      \/ /\ pc = "call" /\ pc' = "finalize"
         /\ gate' = TRUE /\ finalizing' = TRUE /\ uncounted' = uncounted
  BY DEF QuietCalls, Continue, GiveUp, CallFails, LastCall, StartFinalize, planner, llm
<1>5. chat' \in Chats /\ chat'.batch = 0
  <2>1. chat \in Chats /\ chat.batch = 0
    BY <1>1, <1>4 DEF TypeOK, Answers
  <2>2. CASE Continue
    <3>1. chat' = [chat EXCEPT !.iteration = 0, !.empty = 0, !.depth = chat.depth + 1]
      BY <2>2 DEF Continue
    <3>2. chat.depth \in 0..MaxDepth
      BY <2>1 DEF Chats
    <3>3. chat.depth + 1 \in 0..MaxDepth
      BY <2>2, <3>2, FreshIsChat DEF Continue
    <3> QED BY <2>1, <3>1, <3>3, ChatContinues
  <2>3. CASE GiveUp \/ CallFails \/ LastCall \/ StartFinalize
    BY <2>1, <2>3, FreshIsChat DEF GiveUp, CallFails, LastCall, StartFinalize, LoopLeft
  <2> QED BY <2>2, <2>3 DEF QuietCalls
<1>6. TypeOK'
  <2>1. uncounted' \in Nat
    BY <1>1, <1>4 DEF ScalarsOK
  <2>2. pc' \in Places /\ gate' \in BOOLEAN /\ finalizing' \in BOOLEAN
    BY <1>1, <1>4, Zenon DEF ScalarsOK, Places
  <2> QED BY <1>1, <1>3, <1>5, <2>1, <2>2 DEF TypeOK, ScalarsOK
<1>7. Spending' /\ ReasonTold'
  BY <1>1, <1>3, <1>4 DEF Spending, ReasonTold, Stops, InChat
<1>8. Uncounted' /\ OvershootBounded'
  BY <1>1, <1>3, <1>4, Limits DEF Uncounted, OvershootBounded, ScalarsOK
<1>9. Stops' /\ Saves'
  BY <1>1, <1>3, <1>4 DEF Stops, Saves, InChat
<1>10. Answers'
  BY <1>1, <1>3, <1>4, <1>5 DEF Answers
<1>11. Funds'
  BY <1>1, <1>3, <1>4 DEF Funds, StillGoing, FinalizeReserve, InChat, Stops
<1> QED BY <1>6, <1>7, <1>8, <1>9, <1>10, <1>11 DEF RunInv

\* A call that is recorded.
Answer(cost) ==
    \/ CallOverHardStop(cost) \/ AnswerWithText(cost) \/ AnswerEmpty(cost)
    \/ FinalizeAnswered(cost) \/ Farewell(cost)
    \/ \E n \in 1..MaxBatch : AnswerWithTools(cost, n)

LEMMA AnswersKeep ==
    ASSUME RunInv, NEW cost \in CallCosts, Answer(cost)
    PROVE  RunInv'
<1>1. /\ TypeOK /\ ScalarsOK /\ Spending /\ Uncounted /\ Stops /\ Funds /\ Answers /\ Saves
      /\ OvershootBounded /\ ReasonTold
  BY DEF RunInv, TypeOK
<1>2. /\ RecordCall(cost)
      /\ honest' = (honest /\ Honest(cost))
      /\ UNCHANGED <<reserved, finalizing, turn, gate, unsaved, uncounted, reason, tripped>>
  BY DEF Answer, CallOverHardStop, AnswerWithText, AnswerEmpty, FinalizeAnswered, Farewell,
         AnswerWithTools, CallReturns, Counted, llm
<1>3. /\ reserved' = reserved /\ finalizing' = finalizing /\ turn' = turn /\ gate' = gate
      /\ unsaved' = unsaved /\ uncounted' = uncounted /\ reason' = reason
      /\ tripped' = tripped
  BY <1>2
<1>4. /\ cost \in Nat /\ cost =< MaxCost /\ spent' = spent + cost /\ spent' \in Nat
      /\ recent' \in Seq(CallCosts) /\ Len(recent') =< WindowSize /\ recent' # <<>>
  BY <1>1, <1>2, RecordKeeps
<1>5. \/ /\ pc = "call" /\ ~ShouldFinalize
         /\ 100 * spent' >= 115 * MaxBudget \/ overtime'
         /\ pc' = "after" /\ stop' = TRUE /\ finished' = finished
         /\ overtime' \in BOOLEAN
      \/ /\ pc = "call" /\ ~ShouldFinalize
         /\ 100 * spent' < 115 * MaxBudget
         /\ pc' \in {"call", "tools", "lastWord", "after"}
         /\ stop' = stop /\ finished' = finished /\ overtime' = overtime
      \/ pc \in {"finalize", "farewell"} /\ pc' = "after" /\ stop' = TRUE
         /\ finished' = finished /\ overtime' = overtime
      \/ pc = "finalize" /\ pc' = "farewell" /\ stop' \in BOOLEAN /\ finished' \in BOOLEAN
         /\ overtime' = overtime
  <2>1. CASE CallOverHardStop(cost)
    BY <1>1, <2>1 DEF CallOverHardStop, CallReturns, MayCall, CheckBudget,
           HardStop, Counted, ScalarsOK
  <2>2. CASE AnswerWithText(cost) \/ AnswerEmpty(cost)
               \/ \E n \in 1..MaxBatch : AnswerWithTools(cost, n)
    <3>1. pc = "call" /\ ~ShouldFinalize /\ ~HardStop'
          /\ pc' \in {"call", "tools", "lastWord", "after"}
          /\ stop' = stop /\ finished' = finished /\ overtime' = overtime
      BY <2>2 DEF AnswerWithText, AnswerEmpty, AnswerWithTools, CallReturns, MayCall,
                  CheckBudget, Counted, llm
    <3> QED BY <1>4, <3>1, Limits DEF HardStop
  <2>3. CASE FinalizeAnswered(cost) \/ Farewell(cost)
    BY <1>1, <2>3 DEF FinalizeAnswered, Farewell, Counted, ScalarsOK
  <2> QED BY <2>1, <2>2, <2>3 DEF Answer
<1>6. /\ chat' \in Chats
      /\ chat'.batch \in Nat /\ unanswered' = unanswered + chat'.batch
      /\ pc' # "tools" => chat'.batch = 0
  <2>1. chat \in Chats /\ chat.batch = 0 /\ unanswered \in Nat
    BY <1>1, <1>5 DEF TypeOK, ScalarsOK, Answers
  <2>2. CASE CallOverHardStop(cost) \/ AnswerWithText(cost)
               \/ FinalizeAnswered(cost) \/ Farewell(cost)
    <3>1. chat' \in {chat, FreshChat} /\ unanswered' = unanswered
      BY <2>2 DEF CallOverHardStop, AnswerWithText, FinalizeAnswered, Farewell, LoopLeft, llm
    <3> QED BY <2>1, <3>1, FreshIsChat
  <2>3. CASE AnswerEmpty(cost)
    <3>1. unanswered' = unanswered
          /\ chat' \in {FreshChat, [NextCall(chat) EXCEPT !.empty = 1]}
      BY <2>3 DEF AnswerEmpty, LoopLeft, llm
    <3>2. [NextCall(chat) EXCEPT !.empty = 1] \in Chats
          /\ [NextCall(chat) EXCEPT !.empty = 1].batch = 0
      BY <2>1, ChatIterates
    <3>3. chat' \in Chats /\ chat'.batch = 0
      BY <3>1, <3>2, FreshIsChat
    <3> QED BY <2>1, <3>1, <3>3
  <2>4. ASSUME NEW n \in 1..MaxBatch, AnswerWithTools(cost, n)
        PROVE  /\ chat' \in Chats /\ chat'.batch = n /\ n \in Nat
               /\ unanswered' = unanswered + n /\ pc' = "tools"
    <3>1. chat' = [chat EXCEPT !.batch = n, !.empty = 0] /\ pc' = "tools"
          /\ unanswered' = unanswered + n
      BY <2>4 DEF AnswerWithTools
    <3>2. n \in Nat /\ n \in 0..MaxBatch
      BY LimitsAssumption
    <3> QED BY <2>1, <3>1, <3>2, ChatGetsTools
  <2> QED BY <2>2, <2>3, <2>4 DEF Answer
<1>7. TypeOK'
  <2>1. pc' \in Places /\ stop' \in BOOLEAN /\ finished' \in BOOLEAN
        /\ overtime' \in BOOLEAN
    BY <1>1, <1>5 DEF ScalarsOK, Places
  <2>2. honest' \in BOOLEAN /\ unanswered' \in Nat
    BY <1>1, <1>2, <1>6 DEF ScalarsOK
  <2> QED BY <1>1, <1>3, <1>4, <1>6, <2>1, <2>2 DEF TypeOK, ScalarsOK
<1>8. Spending'
  BY <1>1, <1>3, <1>4, <1>5, Limits DEF Spending, InChat, ScalarsOK
<1>9. OvershootBounded' /\ ReasonTold'
  <2>1. 100 * spent' < 115 * MaxBudget + 200 * MaxCost
    BY <1>1, <1>4, <1>5, Limits DEF Spending, InChat, ScalarsOK
  <2>2. pc' # "ended"
    BY <1>5
  <2> QED BY <1>1, <1>3, <2>1, <2>2 DEF OvershootBounded, ReasonTold
<1>10. Uncounted'
  BY <1>1, <1>3, <1>5 DEF Uncounted, ScalarsOK
<1>11. Stops' /\ Saves'
  BY <1>1, <1>3, <1>5 DEF Stops, Saves, InChat
<1>12. Answers'
  BY <1>1, <1>3, <1>5, <1>6 DEF Answers, ScalarsOK
<1>13. Funds'
  <2>1. SUFFICES ASSUME StillGoing', honest', reserved = 0
                 PROVE  spent' + FinalizeReserve =< MaxBudget
    BY <1>3 DEF Funds, FinalizeReserve
  <2>2. pc = "call" /\ ~ShouldFinalize
    BY <1>5, <2>1 DEF StillGoing, InChat
  <2>3. Honest(cost)
    BY <1>2, <2>1
  <2>4. spent \in Nat /\ FinalizeReserve \in Nat /\ Estimate \in Nat
    BY <1>1, PlannerIsNat DEF ScalarsOK
  <2>5. CASE recent = <<>>
    BY <1>1, <1>4, <2>3, <2>4, <2>5, Limits DEF Honest, Spending
  <2>6. CASE recent # <<>>
    <3>1. cost =< Estimate
      BY <2>3, <2>6 DEF Honest
    <3>2. spent + reserved + Estimate + FinalizeReserve < MaxBudget
      BY <1>1, <2>2, CallIsFunded
    <3> QED BY <1>4, <2>1, <2>4, <3>1, <3>2, Limits
  <2> QED BY <2>5, <2>6
<1> QED BY <1>7, <1>8, <1>9, <1>10, <1>11, <1>12, <1>13 DEF RunInv

LEMMA CadenceIsBounded == SaveCadence =< Cadences[1]
<1>1. Cadences[1] \in Nat /\ SaveCadence \in {Cadences[1], Cadences[2], Cadences[3]}
  BY Limits DEF SaveCadence
<1> QED BY <1>1, Limits

\* A tool of the batch is executed, or its arguments cannot be read.
LEMMA ChatAfterCall ==
    ASSUME TypeOK, Executing,
           NEW t \in Tools, NEW again \in BOOLEAN, NEW failed \in BOOLEAN
    PROVE  LET c == AfterCall(t, again, failed)
           IN  /\ c \in Chats
               /\ c.batch \in {0, chat.batch - 1}
               /\ ~c.breaker => c.batch = chat.batch - 1
<1> DEFINE c == AfterCall(t, again, failed)
           errors == IF failed THEN chat.errors + 1 ELSE chat.errors
           streak == IF again THEN chat.streak + 1 ELSE 1
           break == errors >= MaxToolErrors \/ streak >= MaxRepeated
           batch == IF break THEN 0 ELSE chat.batch - 1
           noProgress == IF failed THEN chat.noProgress ELSE 0
           isError == IF failed THEN "yes" ELSE "no"
           breaker == chat.breaker \/ break
<1>1. chat \in Chats /\ chat.batch > 0
  BY DEF TypeOK, Executing
<1>2. chat.errors \in Nat /\ chat.streak \in Nat /\ chat.noProgress \in Nat
      /\ chat.batch \in 0..MaxBatch
  BY <1>1 DEF Chats
<1>3. errors \in Nat /\ streak \in Nat
  BY <1>2
<1>4. chat.batch - 1 \in 0..MaxBatch /\ 0 \in 0..MaxBatch
  BY <1>1, <1>2, LimitsAssumption
<1>5. noProgress \in Nat /\ isError \in {"unbound", "yes", "no"}
  BY <1>2
<1>6. c = [chat EXCEPT !.errors = errors, !.streak = streak, !.last = t,
                       !.noProgress = noProgress, !.isError = isError,
                       !.breaker = breaker, !.batch = batch]
  BY DEF AfterCall
<1>7. breaker \in BOOLEAN
  BY <1>1, Zenon DEF Chats
<1>8. batch \in 0..MaxBatch /\ batch \in {0, chat.batch - 1}
      /\ (~breaker => batch = chat.batch - 1)
  BY <1>4, Zenon
<1>9. t \in Tools \cup {"none"}
  OBVIOUS
<1> HIDE DEF c, errors, streak, break, batch, noProgress, isError, breaker
<1>10. c \in Chats
  BY <1>1, <1>3, <1>5, <1>6, <1>7, <1>8, <1>9, Zenon DEF Chats
<1>11. c.batch = batch /\ c.breaker = breaker
  BY <1>1, <1>6, Zenon DEF Chats
<1> QED BY <1>8, <1>10, <1>11 DEF c

LEMMA ChatAfterMalformed ==
    ASSUME TypeOK, Executing, Malformed
    PROVE  chat' \in Chats /\ chat'.batch = chat.batch - 1
<1>1. chat \in Chats /\ chat.batch > 0
  BY DEF TypeOK, Executing
<1>2. chat.errors \in Nat /\ chat.batch \in 0..MaxBatch
  BY <1>1 DEF Chats
<1> DEFINE batch == chat.batch - 1
           errors == chat.errors + 1
<1>3. batch \in 0..MaxBatch /\ errors \in Nat
  BY <1>1, <1>2, LimitsAssumption
<1>4. chat' = [chat EXCEPT !.batch = batch, !.errors = errors]
  BY DEF Malformed
<1> HIDE DEF batch, errors
<1>5. [chat EXCEPT !.batch = batch, !.errors = errors] \in Chats
      /\ [chat EXCEPT !.batch = batch, !.errors = errors].batch = batch
  BY <1>1, <1>3, Zenon DEF Chats
<1> QED BY <1>4, <1>5 DEF batch

ToolCall(again) ==
    \/ ToolSpawns(again)
    \/ \E t \in Tools : ToolFails(t, again) \/ ToolReads(t, again) \/ ToolSaves(t, again)

LEMMA ExecutionKeeps ==
    ASSUME RunInv, Malformed \/ \E again \in BOOLEAN : ToolCall(again)
    PROVE  RunInv'
<1>1. /\ TypeOK /\ ScalarsOK /\ Spending /\ Uncounted /\ Stops /\ Funds /\ Answers /\ Saves
      /\ OvershootBounded /\ ReasonTold
  BY DEF RunInv, TypeOK
<1>2. Executing
  BY DEF Malformed, ToolCall, ToolSpawns, ToolFails, ToolReads, ToolSaves, CallTool
<1>3. /\ spent' = spent /\ recent' = recent /\ finalizing' = finalizing /\ pc' = pc
      /\ turn' = turn /\ uncounted' = uncounted /\ reason' = reason /\ honest' = honest
      /\ overtime' = overtime
  BY DEF Malformed, ToolCall, ToolSpawns, ToolFails, ToolReads, ToolSaves, CallTool,
         planner, history, ReserveForChild
<1>4. pc = "tools" /\ pc' = "tools" /\ chat.batch > 0 /\ reason = "none" /\ turn < MaxTurns
  BY <1>1, <1>2, <1>3 DEF Executing, Spending, Uncounted
<1> DEFINE ChatMoves ==
               /\ chat' \in Chats /\ chat'.batch \in {0, chat.batch - 1}
               /\ unanswered' = unanswered - 1
               /\ tripped' \in BOOLEAN /\ (tripped => tripped')
               /\ ~tripped' => chat'.batch = chat.batch - 1
           ToolEffects ==
               /\ unsaved' \in Nat /\ gate' \in BOOLEAN /\ stop' \in BOOLEAN
               /\ finished' \in BOOLEAN
               /\ reserved' \in Nat /\ (reserved' = 0 => reserved = 0)
               /\ stop' => stop \/ finished'
               /\ finished => finished'
<1>5. ChatMoves
  <2>1. CASE Malformed
    BY <1>1, <1>2, <2>1, ChatAfterMalformed DEF Malformed, history, ScalarsOK
  <2>2. ASSUME NEW t \in Tools, NEW again \in BOOLEAN, NEW failed \in BOOLEAN,
               CallTool(t, again, failed)
        PROVE  ChatMoves
    <3>1. /\ chat' = AfterCall(t, again, failed) /\ unanswered' = unanswered - 1
          /\ tripped' = (tripped \/ chat'.breaker)
      BY <2>2 DEF CallTool
    <3>2. /\ chat' \in Chats /\ chat'.batch \in {0, chat.batch - 1}
          /\ ~chat'.breaker => chat'.batch = chat.batch - 1
      BY <1>1, <1>2, <3>1, ChatAfterCall
    <3>3. chat'.breaker \in BOOLEAN /\ tripped \in BOOLEAN
      BY <1>1, <3>2 DEF Chats, ScalarsOK
    <3> QED BY <3>1, <3>2, <3>3, Zenon
  <2>3. ASSUME NEW again \in BOOLEAN, ToolCall(again)
        PROVE  \E t \in Tools, failed \in BOOLEAN : CallTool(t, again, failed)
    BY <2>3 DEF ToolCall, ToolSpawns, ToolFails, ToolReads, ToolSaves, Tools
  <2> QED BY <2>1, <2>2, <2>3
<1>6. ToolEffects
  <2>1. unsaved \in Nat /\ gate \in BOOLEAN /\ stop \in BOOLEAN /\ finished \in BOOLEAN
        /\ reserved \in Nat
    BY <1>1 DEF ScalarsOK
  <2>2. CASE Malformed
    BY <2>1, <2>2 DEF Malformed, planner, history
  <2>3. ASSUME NEW again \in BOOLEAN, ToolSpawns(again)
        PROVE  ToolEffects
    <3>1. /\ unsaved' = unsaved + 1 /\ gate' = gate /\ stop' = stop /\ finished' = finished
          /\ \/ reserved' = reserved
             \/ \E amount \in Amounts : 0 < amount /\ reserved' = reserved + amount
      BY <2>3 DEF ToolSpawns, ReserveForChild
    <3>2. \A amount \in Amounts : amount \in Nat
      BY CostsAssumption
    <3> QED BY <2>1, <3>1, <3>2
  <2>4. ASSUME NEW again \in BOOLEAN, NEW t \in Tools,
               ToolFails(t, again) \/ ToolReads(t, again)
        PROVE  ToolEffects
    <3>1. /\ unsaved' \in {unsaved, unsaved + 1} /\ gate' = gate /\ stop' = stop
          /\ finished' = finished /\ reserved' = reserved
      BY <2>4 DEF ToolFails, ToolReads, planner
    <3> QED BY <2>1, <3>1
  <2>5. ASSUME NEW again \in BOOLEAN, NEW t \in Tools, ToolSaves(t, again)
        PROVE  ToolEffects
    BY <2>1, <2>5 DEF ToolSaves, planner
  <2> QED BY <2>2, <2>3, <2>4, <2>5 DEF ToolCall
<1>7. chat'.batch \in Nat /\ chat'.batch =< chat.batch - 1 /\ chat.batch \in Nat
  <2>1. chat.batch \in Nat
    BY <1>1 DEF TypeOK, Chats
  <2> QED BY <1>4, <1>5, <2>1
<1>8. TypeOK'
  <2>1. unanswered' \in Nat
    BY <1>1, <1>4, <1>5, <1>7 DEF Answers, ScalarsOK
  <2> QED BY <1>1, <1>3, <1>5, <1>6, <2>1 DEF TypeOK, ScalarsOK
<1>9. Spending' /\ OvershootBounded' /\ ReasonTold'
  BY <1>1, <1>3, <1>4 DEF Spending, OvershootBounded, ReasonTold
<1>10. Uncounted' /\ Stops' /\ Saves'
  BY <1>1, <1>3, <1>4, <1>6 DEF Uncounted, Stops, Saves, InChat
<1>11. Answers'
  BY <1>1, <1>4, <1>5, <1>7 DEF Answers, ScalarsOK
<1>12. Funds'
  BY <1>1, <1>3, <1>4, <1>6 DEF Funds, StillGoing, FinalizeReserve, InChat
<1> QED BY <1>8, <1>9, <1>10, <1>11, <1>12 DEF RunInv

\* All the tools of a batch were executed, or a breaker or an exception ended it.
AfterBatch == ArgumentsNoObject \/ StopTakenBack \/ ErrorUnbound \/ BreakCircuit \/ Iterate

LEMMA AfterBatchKeeps ==
    ASSUME RunInv, AfterBatch
    PROVE  RunInv'
<1>1. /\ TypeOK /\ ScalarsOK /\ Spending /\ Uncounted /\ Stops /\ Funds /\ Answers /\ Saves
      /\ OvershootBounded /\ ReasonTold
  BY DEF RunInv, TypeOK
<1>2. /\ spent' = spent /\ recent' = recent /\ reserved' = reserved
      /\ finalizing' = finalizing /\ turn' = turn /\ uncounted' = uncounted
      /\ reason' = reason /\ honest' = honest /\ unsaved' = unsaved
      /\ unanswered' = unanswered /\ finished' = finished /\ overtime' = overtime
  BY DEF AfterBatch, ArgumentsNoObject, StopTakenBack, ErrorUnbound, BreakCircuit,
         Iterate, planner, llm, history
<1>3. /\ pc = "tools" /\ reason = "none" /\ turn < MaxTurns
      /\ pc' # "failed" => chat.batch = 0
  BY <1>1 DEF AfterBatch, ArgumentsNoObject, StopTakenBack, ErrorUnbound, BreakCircuit,
              Iterate, BatchDone, Executing, Spending, Uncounted
<1>4. \/ /\ pc' = "after" /\ stop /\ stop' = FALSE
         /\ gate' = gate /\ tripped' = tripped
      \/ /\ pc' = "failed" /\ stop' = stop
         /\ gate' = gate /\ tripped' = tripped
      \/ /\ pc' = "summary" /\ ~stop /\ stop' = stop
         /\ gate' = gate /\ tripped' = TRUE
      \/ /\ pc' = "call" /\ ~stop /\ stop' = stop
         /\ gate' = (gate \/ unsaved >= SaveCadence) /\ tripped' = tripped
  BY DEF AfterBatch, ArgumentsNoObject, StopTakenBack, ErrorUnbound, BreakCircuit, Iterate,
         llm, history
<1>5. chat' \in Chats /\ chat'.batch = 0
  <2>1. chat \in Chats
    BY <1>1 DEF TypeOK
  <2>2. CASE ArgumentsNoObject \/ StopTakenBack \/ ErrorUnbound \/ BreakCircuit
    BY <2>2, FreshIsChat DEF ArgumentsNoObject, StopTakenBack, ErrorUnbound, BreakCircuit,
                             LoopLeft
  <2>3. CASE Iterate
    <3>1. NoProgress \in Nat
      <4>1. chat.noProgress \in Nat
        BY <2>1 DEF Chats
      <4> QED BY <4>1 DEF NoProgress
    <3>2. chat.batch = 0
      BY <2>3 DEF Iterate, BatchDone
    <3> QED BY <2>1, <2>3, <3>1, <3>2, ChatIterates DEF Iterate
  <2> QED BY <2>2, <2>3 DEF AfterBatch
<1>6. TypeOK'
  <2>1. pc' \in Places /\ stop' \in BOOLEAN /\ gate' \in BOOLEAN /\ tripped' \in BOOLEAN
    BY <1>1, <1>4, Zenon DEF ScalarsOK, Places
  <2> QED BY <1>1, <1>2, <1>5, <2>1 DEF TypeOK, ScalarsOK
<1>7. Spending' /\ OvershootBounded' /\ ReasonTold'
  BY <1>1, <1>2, <1>3, <1>4 DEF Spending, OvershootBounded, ReasonTold, InChat
<1>8. Uncounted'
  BY <1>1, <1>2, <1>3, <1>4 DEF Uncounted, ScalarsOK
<1>9. Stops'
  BY <1>1, <1>2, <1>3, <1>4 DEF Stops, InChat
<1>10. Saves'
  <2>1. CASE pc' = "call"
    <3>1. gate' \/ unsaved < Cadences[1]
      <4>1. gate' = (gate \/ unsaved >= SaveCadence)
        BY <1>4, <2>1
      <4>2. SaveCadence \in Nat /\ SaveCadence =< Cadences[1] /\ Cadences[1] \in Nat
            /\ unsaved \in Nat
        BY <1>1, CadenceIsBounded, LimitsAssumption DEF SaveCadence, ScalarsOK
      <4>3. unsaved >= SaveCadence \/ unsaved < Cadences[1]
        BY <4>2
      <4> QED BY <4>1, <4>3
    <3> QED BY <1>2, <3>1 DEF Saves
  <2>2. CASE pc' # "call"
    BY <1>1, <1>2, <1>3, <1>4, <2>2 DEF Saves, Stops
  <2> QED BY <2>1, <2>2
<1>11. Answers'
  BY <1>1, <1>2, <1>3, <1>4, <1>5 DEF Answers, ScalarsOK
<1>12. Funds'
  BY <1>1, <1>2, <1>3, <1>4 DEF Funds, StillGoing, FinalizeReserve, InChat
<1> QED BY <1>6, <1>7, <1>8, <1>9, <1>10, <1>11, <1>12 DEF RunInv

-----------------------------------------------------------------------------
\* A run comes to its end: what its loops count is bounded, and goes one way.

\* The iteration that is under way in tools is one of those that were left.
Counting ==
    /\ chat.iteration =< MaxIterations
    /\ pc = "tools" => chat.iteration < MaxIterations

LEMMA RunLimits ==
    /\ MaxTurns \in Nat /\ MaxBatch \in Nat /\ MaxIterations \in Nat /\ MaxDepth \in Nat
    /\ MaxBatch > 0 /\ MaxIterations > 0
BY LimitsAssumption

LEMMA LeftIsNat ==
    ASSUME TypeOK, Counting
    PROVE  Left \in [1..5 -> Nat]
<1>1. MaxTurns - turn \in Nat
  BY RunLimits DEF TypeOK, ScalarsOK
<1>2. Stage[pc] \in Nat
  BY DEF TypeOK, ScalarsOK, Places, Stage
<1>3. MaxDepth - chat.depth \in Nat /\ MaxIterations - chat.iteration \in Nat
      /\ chat.batch \in Nat
  BY RunLimits DEF TypeOK, Chats, Counting
<1>4. PICK last \in Nat : last = IF pc = "call" THEN MaxBatch + 1 ELSE chat.batch
  BY <1>3, RunLimits
<1> QED BY <1>1, <1>2, <1>3, <1>4 DEF Left

\* Each way of going on, by the first number that shrinks.
LEMMA LessAt ==
    ASSUME NEW n \in 1..5, Left'[n] < Left[n], \A k \in 1..(n - 1) : Left'[k] = Left[k]
    PROVE  Less(Left', Left)
BY DEF Less, Left

LEMMA TurnUsed ==
    ASSUME MaxTurns - turn' < MaxTurns - turn
    PROVE  Less(Left', Left)
<1>1. Left'[1] < Left[1]
  BY DEF Left
<1> QED BY <1>1, LessAt

LEMMA StageUsed ==
    ASSUME turn' = turn, Stage[pc'] < Stage[pc]
    PROVE  Less(Left', Left)
<1>1. Left'[1] = Left[1] /\ Left'[2] < Left[2]
  BY DEF Left
<1> QED BY <1>1, LessAt

LEMMA DepthUsed ==
    ASSUME turn' = turn, Stage[pc'] = Stage[pc], MaxDepth - chat'.depth < MaxDepth - chat.depth
    PROVE  Less(Left', Left)
<1>1. Left'[1] = Left[1] /\ Left'[2] = Left[2] /\ Left'[3] < Left[3]
  BY DEF Left
<1> QED BY <1>1, LessAt

LEMMA IterationUsed ==
    ASSUME turn' = turn, Stage[pc'] = Stage[pc], chat'.depth = chat.depth,
           MaxIterations - chat'.iteration < MaxIterations - chat.iteration
    PROVE  Less(Left', Left)
<1>1. Left'[1] = Left[1] /\ Left'[2] = Left[2] /\ Left'[3] = Left[3] /\ Left'[4] < Left[4]
  BY DEF Left
<1> QED BY <1>1, LessAt

LEMMA ToolUsed ==
    ASSUME turn' = turn, Stage[pc'] = Stage[pc], chat'.depth = chat.depth,
           chat'.iteration = chat.iteration, pc' = "tools",
           chat'.batch < IF pc = "call" THEN MaxBatch + 1 ELSE chat.batch
    PROVE  Less(Left', Left)
<1>1. Left'[1] = Left[1] /\ Left'[2] = Left[2] /\ Left'[3] = Left[3] /\ Left'[4] = Left[4]
      /\ Left'[5] < Left[5]
  BY DEF Left
<1> QED BY <1>1, LessAt

\* What the steps do to what chat() counts.
LEMMA ChatCounts ==
    ASSUME NEW c \in Chats
    PROVE  /\ \A d \in Nat :
                 LET x == [c EXCEPT !.iteration = 0, !.empty = 0, !.depth = d]
                 IN  x.iteration = 0 /\ x.depth = d
           /\ \A m \in Nat :
                 LET x == [NextCall(c) EXCEPT !.noProgress = m]
                 IN  x.iteration = c.iteration + 1 /\ x.depth = c.depth
           /\ LET x == [NextCall(c) EXCEPT !.empty = 1]
              IN  x.iteration = c.iteration + 1 /\ x.depth = c.depth
           /\ \A n \in Nat :
                 LET x == [c EXCEPT !.batch = n, !.empty = 0]
                 IN  x.iteration = c.iteration /\ x.depth = c.depth /\ x.batch = n
           /\ \A b \in Int, m \in Nat :
                 LET x == [c EXCEPT !.batch = b, !.errors = m]
                 IN  x.iteration = c.iteration /\ x.depth = c.depth /\ x.batch = b
BY DEF Chats, NextCall

LEMMA AfterCallCounts ==
    ASSUME TypeOK, NEW t \in Tools, NEW again \in BOOLEAN, NEW failed \in BOOLEAN,
           chat.batch > 0
    PROVE  LET x == AfterCall(t, again, failed)
           IN  /\ x.iteration = chat.iteration /\ x.depth = chat.depth
               /\ x.batch \in Nat /\ x.batch < chat.batch
BY DEF AfterCall, TypeOK, Chats

LEMMA FreshCounts == FreshChat.iteration = 0 /\ FreshChat.depth = 0
BY DEF FreshChat

\* A step to a later stage of the turn.
LEMMA StageStep ==
    ASSUME TypeOK, Counting, turn' = turn, Stage[pc'] < Stage[pc], pc' # "tools",
           chat' = chat \/ LoopLeft
    PROVE  Counting' /\ Less(Left', Left)
<1>1. Counting'
  BY RunLimits, FreshCounts DEF Counting, LoopLeft
<1> QED BY <1>1, StageUsed

LEMMA TurnsUse == ASSUME RunInv, Counting, Turns PROVE Counting' /\ Less(Left', Left)
<1>1. TypeOK /\ turn \in Nat
  BY RunLimits DEF RunInv, TypeOK, ScalarsOK
<1>2. chat' = chat
  BY DEF Turns, TurnStarts, NodeStopped, TurnsExhausted, BudgetExhausted, ChatReturned
<1>3. CASE turn' = turn
  <2>1. Stage[pc'] < Stage[pc] /\ pc' # "tools"
    BY <1>1, <1>3 DEF Turns, TurnStarts, NodeStopped, TurnsExhausted, BudgetExhausted,
       ChatReturned, Stage
  <2> QED BY <1>1, <1>2, <1>3, <2>1, StageStep
<1>4. CASE turn' = turn + 1
  <2>1. pc' = "turn"
    BY <1>1, <1>4 DEF Turns, TurnStarts, NodeStopped, TurnsExhausted, BudgetExhausted,
       ChatReturned
  <2>2. Counting'
    BY <1>2, <2>1 DEF Counting
  <2>3. MaxTurns - turn' < MaxTurns - turn
    BY <1>1, <1>4, RunLimits
  <2> QED BY <2>2, <2>3, TurnUsed
<1> QED BY <1>3, <1>4 DEF Turns, TurnStarts, NodeStopped, TurnsExhausted, BudgetExhausted,
           ChatReturned

LEMMA CallsUse == ASSUME RunInv, Counting, Calls PROVE Counting' /\ Less(Left', Left)
<1>1. TypeOK /\ chat \in Chats /\ turn' = turn
  BY DEF RunInv, TypeOK, Calls, Continue, GiveUp, CallFails, LastCall, StartFinalize,
     CallOverHardStop, AnswerWithText, AnswerEmpty, FinalizeAnswered, Farewell, AnswerWithTools
<1>2. chat.iteration \in Nat /\ chat.depth \in Nat
  BY <1>1 DEF Chats
<1>3. CASE Continue
  <2>1. /\ pc = "call" /\ pc' = "call"
        /\ chat' = [chat EXCEPT !.iteration = 0, !.empty = 0, !.depth = chat.depth + 1]
    BY <1>1, <1>3 DEF Continue, Chats
  <2>2. chat'.iteration = 0 /\ chat'.depth = chat.depth + 1
    BY <1>1, <1>2, <2>1, ChatCounts
  <2>3. Counting'
    BY <2>1, <2>2, RunLimits DEF Counting
  <2>4. MaxDepth - chat'.depth < MaxDepth - chat.depth
    BY <1>2, <2>2, RunLimits
  <2> QED BY <1>1, <2>1, <2>3, <2>4, DepthUsed
<1>4. CASE GiveUp \/ CallFails \/ LastCall \/ StartFinalize
  <2>1. pc' # "tools" /\ Stage[pc'] < Stage[pc] /\ (chat' = chat \/ LoopLeft)
    BY <1>4 DEF GiveUp, CallFails, LastCall, StartFinalize, Stage
  <2> QED BY <1>1, <2>1, StageStep
<1>5. ASSUME NEW cost \in CallCosts,
             \/ CallOverHardStop(cost) \/ AnswerWithText(cost)
             \/ FinalizeAnswered(cost) \/ Farewell(cost)
      PROVE  Counting' /\ Less(Left', Left)
  <2>1. pc' # "tools" /\ Stage[pc'] < Stage[pc] /\ (chat' = chat \/ LoopLeft)
    <3>1. \/ pc = "call" /\ pc' = "after" /\ LoopLeft
          \/ pc = "finalize" /\ pc' \in {"farewell", "after"} /\ chat' = chat
          \/ pc = "farewell" /\ pc' = "after" /\ chat' = chat
      BY <1>5 DEF CallOverHardStop, AnswerWithText, FinalizeAnswered, Farewell, CallReturns,
                  MayCall
    <3> QED BY <3>1 DEF Stage
  <2> QED BY <1>1, <2>1, StageStep
<1>6. ASSUME NEW cost \in CallCosts, AnswerEmpty(cost)
      PROVE  Counting' /\ Less(Left', Left)
  <2>1. pc = "call" /\ chat.iteration < MaxIterations
    BY <1>6 DEF AnswerEmpty, CallReturns, MayCall
  <2>2. CASE chat.empty = 0
    <3>1. pc' = "call" /\ chat' = [NextCall(chat) EXCEPT !.empty = 1]
      BY <1>6, <2>2 DEF AnswerEmpty
    <3>2. chat'.iteration = chat.iteration + 1 /\ chat'.depth = chat.depth
      BY <1>1, <3>1, ChatCounts
    <3>3. Counting'
      BY <1>2, <2>1, <3>1, <3>2, RunLimits DEF Counting
    <3>4. MaxIterations - chat'.iteration < MaxIterations - chat.iteration
      BY <1>2, <3>2, RunLimits
    <3> QED BY <1>1, <2>1, <3>1, <3>2, <3>3, <3>4, IterationUsed
  <2>3. CASE chat.empty # 0
    <3>1. pc' = "lastWord" /\ LoopLeft /\ Stage[pc'] < Stage[pc]
      BY <1>6, <2>1, <2>3 DEF AnswerEmpty, Stage
    <3> QED BY <1>1, <3>1, StageStep
  <2> QED BY <2>2, <2>3
<1>7. ASSUME NEW cost \in CallCosts, NEW n \in 1..MaxBatch, AnswerWithTools(cost, n)
      PROVE  Counting' /\ Less(Left', Left)
  <2>1. /\ pc = "call" /\ pc' = "tools" /\ chat.iteration < MaxIterations
        /\ chat' = [chat EXCEPT !.batch = n, !.empty = 0]
    BY <1>7 DEF AnswerWithTools, CallReturns, MayCall
  <2>2. chat'.iteration = chat.iteration /\ chat'.depth = chat.depth /\ chat'.batch = n
    BY <1>1, <2>1, ChatCounts
  <2>3. Counting'
    BY <1>2, <2>1, <2>2, RunLimits DEF Counting
  <2>4. Stage[pc'] = Stage[pc] /\ n < MaxBatch + 1
    BY <2>1, RunLimits DEF Stage
  <2> QED BY <1>1, <2>1, <2>2, <2>3, <2>4, ToolUsed
<1> QED BY <1>3, <1>4, <1>5, <1>6, <1>7 DEF Calls

LEMMA ToolsUse == ASSUME RunInv, Counting, ToolCalls PROVE Counting' /\ Less(Left', Left)
<1>1. TypeOK /\ chat \in Chats /\ turn' = turn /\ pc = "tools"
  BY DEF RunInv, TypeOK, ToolCalls, Malformed, ArgumentsNoObject, StopTakenBack,
     ErrorUnbound, BreakCircuit,
     Iterate, BatchDone, Executing, CallTool, ToolSpawns, ToolFails, ToolReads, ToolSaves
<1>2. chat.iteration \in Nat /\ chat.depth \in Nat /\ chat.batch \in Nat
      /\ chat.errors \in Nat /\ chat.noProgress \in Nat
  BY <1>1, RunLimits DEF Chats
\* One tool call less, at least.
<1>3. ASSUME pc' = "tools", chat'.iteration = chat.iteration, chat'.depth = chat.depth,
             chat'.batch < chat.batch
      PROVE  Counting' /\ Less(Left', Left)
  <2>1. Counting'
    BY <1>1, <1>3 DEF Counting
  <2>2. Stage[pc'] = Stage[pc] /\ chat'.batch < IF pc = "call" THEN MaxBatch + 1 ELSE chat.batch
    BY <1>1, <1>3
  <2> QED BY <1>1, <1>3, <2>1, <2>2, ToolUsed
<1>4. CASE Malformed
  <2>1. /\ pc' = "tools" /\ chat.batch > 0
        /\ chat' = [chat EXCEPT !.batch = chat.batch - 1, !.errors = chat.errors + 1]
    BY <1>1, <1>4 DEF Malformed, Executing
  <2>2. chat'.iteration = chat.iteration /\ chat'.depth = chat.depth
        /\ chat'.batch = chat.batch - 1
    BY <1>1, <1>2, <2>1, ChatCounts
  <2> QED BY <1>2, <1>3, <2>1, <2>2
<1>5. ASSUME NEW t \in Tools, NEW again \in BOOLEAN, NEW failed \in BOOLEAN,
             CallTool(t, again, failed), pc' = pc
      PROVE  Counting' /\ Less(Left', Left)
  <2>1. chat.batch > 0 /\ chat' = AfterCall(t, again, failed)
    BY <1>5 DEF CallTool, Executing
  <2>2. chat'.iteration = chat.iteration /\ chat'.depth = chat.depth /\ chat'.batch < chat.batch
    BY <1>1, <2>1, AfterCallCounts
  <2> QED BY <1>1, <1>3, <1>5, <2>2
<1>6. ASSUME NEW again \in BOOLEAN,
             ToolSpawns(again) \/ \E t \in Tools :
                ToolFails(t, again) \/ ToolReads(t, again) \/ ToolSaves(t, again)
      PROVE  Counting' /\ Less(Left', Left)
  <2>1. "spawn" \in Tools
    BY DEF Tools
  <2> QED BY <1>5, <1>6, <2>1 DEF ToolSpawns, ToolFails, ToolReads, ToolSaves
<1>7. CASE ArgumentsNoObject \/ StopTakenBack \/ ErrorUnbound \/ BreakCircuit
  <2>1. pc' # "tools" /\ Stage[pc'] < Stage[pc] /\ LoopLeft
    BY <1>1, <1>7 DEF ArgumentsNoObject, StopTakenBack, ErrorUnbound, BreakCircuit, Stage
  <2> QED BY <1>1, <2>1, StageStep
<1>8. CASE Iterate
  <2>1. NoProgress \in Nat
    BY <1>2 DEF NoProgress
  <2>2. pc' = "call" /\ chat' = [NextCall(chat) EXCEPT !.noProgress = NoProgress]
    BY <1>8 DEF Iterate
  <2>3. chat'.iteration = chat.iteration + 1 /\ chat'.depth = chat.depth
    BY <1>1, <2>1, <2>2, ChatCounts
  <2>4. Counting'
    BY <1>1, <1>2, <2>2, <2>3, RunLimits DEF Counting
  <2>5. Stage[pc'] = Stage[pc]
        /\ MaxIterations - chat'.iteration < MaxIterations - chat.iteration
    BY <1>1, <1>2, <2>2, <2>3, RunLimits DEF Stage
  <2> QED BY <1>1, <2>3, <2>4, <2>5, IterationUsed
<1> QED BY <1>4, <1>6, <1>7, <1>8 DEF ToolCalls

-----------------------------------------------------------------------------
\* The theorems.

LEMMA StepKeeps == RunInv /\ [Next]_vars => RunInv'
<1> SUFFICES ASSUME RunInv, [Next]_vars PROVE RunInv'
  OBVIOUS
<1>1. CASE Turns
  BY <1>1, TurnsKeep
<1>2. CASE Calls
  BY <1>2, QuietCallsKeep, AnswersKeep DEF Calls, QuietCalls, Answer
<1>3. CASE ToolCalls
  BY <1>3, ExecutionKeeps, AfterBatchKeeps DEF ToolCalls, ToolCall, AfterBatch
<1>4. CASE UNCHANGED vars
  <2>1. UNCHANGED <<spent, recent, reserved, finalizing, pc, turn, chat, stop, gate, unsaved,
                    unanswered, uncounted, reason, overtime, tripped, finished, honest>>
    BY <1>4 DEF vars, planner, llm, history
  <2> QED BY <2>1 DEF RunInv, TypeOK, ScalarsOK, Spending, Uncounted, Stops, Funds, Answers,
                      Saves, OvershootBounded, ReasonTold, StillGoing, FinalizeReserve
<1> QED BY <1>1, <1>2, <1>3, <1>4 DEF Next

\* The inductive invariant of a run, by the places it can be in.
THEOREM Invariance == Spec => []RunInv
BY InitEstablishes, StepKeeps, PTL DEF Spec

\* Every variable of the run and of its planner keeps its type.
THEOREM RunTypeCorrect == Spec => []TypeOK
<1>1. RunInv => TypeOK
  BY DEF RunInv
<1> QED BY <1>1, Invariance, PTL

\* budget.py, llm.py: whatever the calls cost, counted spending ends within two
\* calls of 115 % of the budget, and uncounted calls are at most two a turn and one.
THEOREM BoundedOvershoot == Spec => []OvershootBounded
<1>1. RunInv => OvershootBounded
  BY DEF RunInv
<1> QED BY <1>1, Invariance, PTL

\* budget.py: the reserve for the final call is there when it is made, if the
\* estimates were right and nothing was set aside for children.
THEOREM FinalCallFunded == Spec => []FinalizeFunded
<1>1. RunInv => FinalizeFunded
  BY DEF RunInv, Funds, StillGoing, FinalizeFunded
<1> QED BY <1>1, Invariance, PTL

\* llm.py: only a circuit breaker leaves tool calls without an answer.
THEOREM CallsAnswered == Spec => []EveryCallAnswered
<1>1. RunInv => EveryCallAnswered
  BY DEF RunInv, Answers, EveryCallAnswered
<1> QED BY <1>1, Invariance, PTL

\* llm.py: the write gate closes before a full cadence of calls goes unsaved
\* into another call, but for breakers and finish().
THEOREM GateCloses == Spec => []SaveDue
<1>1. RunInv => SaveDue
  BY DEF RunInv, Saves, SaveDue
<1> QED BY <1>1, Invariance, PTL

\* executor.py: the idle reason does not hide that a run was cut short by its
\* planner, its budget or its running time.
THEOREM ReasonIsTrue == Spec => []ReasonTold
<1>1. RunInv => ReasonTold
  BY DEF RunInv
<1> QED BY <1>1, Invariance, PTL

\* Iterations stay within max_tool_iterations, and the tools of an answer within one.
THEOREM IterationsCounted == Spec => []Counting
<1>1. Init => Counting
  BY RunLimits, FreshCounts DEF Init, Counting
<1>2. RunInv /\ Counting /\ [Next]_vars => Counting'
  <2>1. RunInv /\ Counting /\ UNCHANGED vars => Counting'
    BY DEF vars, Counting
  <2> QED BY <2>1, TurnsUse, CallsUse, ToolsUse DEF Next
<1> QED BY <1>1, <1>2, Invariance, PTL DEF Spec

\* executor.py, llm.py: no run goes on for ever: each step uses up what is left of
\* turns, stages, continuations, iterations or tool calls, whatever the model
\* answers, whatever calls cost and whether or not tools fail.
THEOREM RunIsFinite == Spec => RunProgresses
<1>1. RunInv /\ Counting => Left \in [1..5 -> Nat]
  BY LeftIsNat DEF RunInv
<1>2. RunInv' /\ Counting' => Left' \in [1..5 -> Nat]
  <2>1. (RunInv /\ Counting => Left \in [1..5 -> Nat])'
    BY <1>1, PTL
  <2> QED BY <2>1
<1>3. RunInv /\ Counting /\ RunInv' /\ Counting' /\ [Next]_vars =>
         [Left' \in [1..5 -> Nat] /\ Less(Left', Left)]_vars
  BY <1>2, TurnsUse, CallsUse, ToolsUse DEF Next
<1> QED BY <1>3, Invariance, IterationsCounted, PTL DEF Spec, RunProgresses
=============================================================================
