------------------------------ MODULE AgentLoop ------------------------------
(***************************************************************************)
(* The loop of one agent invocation (runtime/agent_loop.py) on top of the  *)
(* tool executor: rounds of a model response and a batch of tool calls,    *)
(* the budgets that stop it, and the tool messages it owes its memory.     *)
(*                                                                         *)
(* rounds counts the rounds that executed a batch: any other round is the  *)
(* last one.  Tokens are a choice: any response may exceed the budget.     *)
(***************************************************************************)
EXTENDS ToolExecutor

CONSTANT MaxToolCalls    \* request.max_tool_calls

\* A message without calls executes nothing, it completes the loop.
ASSUME LoopAssumption == MaxToolCalls \in Nat /\ << >> \notin Batches

VARIABLES
    stop,         \* stop_reason, "none" while the loop runs
    tool_calls,   \* the loop's count of calls
    executed,     \* executed_tool_calls
    owed          \* calls of the last message without a tool message in memory

loopVars == <<stop, tool_calls, executed, owed>>
agentVars == <<toolVars, loopVars>>

StopReasons == {"completed", "max_rounds", "tool_budget_exceeded", "token_budget_exceeded",
                "timeout", "provider_error", "repeated_tool_call", "cancelled"}

AgentTypeOK ==
    /\ ToolTypeOK
    /\ stop \in StopReasons \cup {"none"}
    /\ tool_calls \in Nat /\ executed \in Nat /\ owed \in Nat

AgentInit == ToolInit /\ stop = "none" /\ tool_calls = 0 /\ executed = 0 /\ owed = 0

-----------------------------------------------------------------------------
Ready == stop = "none" /\ executor = "idle"

Stop(reason) == EndRun /\ stop' = reason

StopOnBudgets ==
    /\ Ready
    /\ \/ rounds = MaxRounds /\ Stop("max_rounds")
       \/ rounds < MaxRounds /\ tool_calls >= MaxToolCalls /\ Stop("tool_budget_exceeded")
    /\ UNCHANGED <<tool_calls, executed, owed>>

Chatting == Ready /\ rounds < MaxRounds /\ tool_calls < MaxToolCalls

ChatFails ==
    /\ Chatting
    /\ \E reason \in {"timeout", "provider_error"} : Stop(reason)
    /\ UNCHANGED <<tool_calls, executed, owed>>

Complete ==
    /\ Chatting
    /\ Stop("completed")
    /\ UNCHANGED <<tool_calls, executed, owed>>

\* The response is in memory, its calls included, when the tokens are counted.
ExceedTokens ==
    /\ Chatting
    /\ \E calls \in Batches \cup {<< >>} : owed' = Len(calls)
    /\ Stop("token_budget_exceeded")
    /\ UNCHANGED <<tool_calls, executed>>

Remaining == MaxToolCalls - tool_calls

\* Mutant: a batch is compared with the whole budget.
ExceedsWholeBudget(calls) == Len(calls) > MaxToolCalls

ExceedsBudget(calls) == Len(calls) > Remaining

\* Every call of the batch gets a rejection as its tool message; tool_calls is set
\* to what was left of the budget.
RejectBatch ==
    /\ Chatting
    /\ \E calls \in Batches : ExceedsBudget(calls)
    /\ tool_calls' = Remaining
    /\ Stop("tool_budget_exceeded")
    /\ UNCHANGED <<executed, owed>>

\* Mutant: the message with the calls is not appended to memory.
RequestBatchUnlogged ==
    /\ Chatting
    /\ \E calls \in Batches : ~ExceedsBudget(calls) /\ StartBatch(calls)
    /\ UNCHANGED <<stop, tool_calls, executed, owed>>

RequestBatch ==
    /\ Chatting
    /\ \E calls \in Batches :
          /\ ~ExceedsBudget(calls)
          /\ StartBatch(calls)
          /\ owed' = Len(calls)
    /\ UNCHANGED <<stop, tool_calls, executed>>

\* Mutant: the result of the last call of a batch is not delivered.
DeliverAllButLast ==
    /\ stop = "none" /\ executor = "returned"
    /\ tool_calls' = tool_calls + Len(batch)
    /\ executed' = executed + Len(batch)
    /\ owed' = 1
    /\ executor' = "idle"
    /\ UNCHANGED <<run, rounds, governanceVars, durable, saved, batchVars, results, running,
                   effects, unseen, stop>>

\* The tool messages are appended one by one; the repeated-call test after each.
DeliverResults ==
    /\ stop = "none" /\ executor = "returned"
    /\ tool_calls' = tool_calls + Len(batch)
    /\ executed' = executed + Len(batch)
    /\ IF rejections >= 2
       THEN /\ owed' = owed - 1
            /\ Stop("repeated_tool_call")
       ELSE /\ owed' = 0
            /\ executor' = "idle"
            /\ UNCHANGED <<run, rounds, governanceVars, durable, saved, batchVars, results,
                           running, effects, unseen, stop>>

\* A result that json.dumps cannot encode: its message and all later ones are missing.
DeliveryFails ==
    /\ stop = "none" /\ executor = "returned"
    /\ tool_calls' = tool_calls + Len(batch)
    /\ executed' = executed + Len(batch)
    /\ owed' \in 1..owed
    /\ Stop("provider_error")

\* ToolDurabilityError, caught as any other exception.
BatchRaises ==
    /\ stop = "none" /\ executor = "raising"
    /\ Stop("provider_error")
    /\ UNCHANGED <<tool_calls, executed, owed>>

ExecuteBatch == (BatchStep \/ ExecutionStep) /\ UNCHANGED loopVars

\* The attempt's timeout can strike while the model or a handler is awaited.
Cancelled ==
    /\ stop = "none"
    /\ CancelRun \/ (Chatting /\ EndRun)
    /\ stop' = "cancelled"
    /\ UNCHANGED <<tool_calls, executed, owed>>

ProcessDies ==
    /\ Crash
    /\ stop' = IF stop = "none" THEN "cancelled" ELSE stop
    /\ UNCHANGED <<tool_calls, executed, owed>>

Restart ==
    /\ StartRun
    /\ stop' = "none" /\ tool_calls' = 0 /\ executed' = 0 /\ owed' = 0

LoopStep ==
    \/ StopOnBudgets \/ ChatFails \/ Complete \/ ExceedTokens \/ RejectBatch \/ RequestBatch
    \/ DeliverResults \/ DeliveryFails \/ BatchRaises

AgentNext == LoopStep \/ ExecuteBatch \/ Cancelled \/ ProcessDies \/ Restart

AgentSpec == AgentInit /\ [][AgentNext]_agentVars

(* The model answers, or wait_for raises TimeoutError; handlers return.  Nothing *)
(* is asked of timeouts of the whole attempt, crashes and restarts.              *)
FairAgentSpec ==
    /\ AgentSpec
    /\ WF_agentVars(LoopStep)
    /\ WF_agentVars(ExecuteBatch)

-----------------------------------------------------------------------------
(* Properties *)

\* No run executes more calls than its budget, whatever the rounds ask for.
BudgetHolds == executed <= MaxToolCalls

\* When the loop asks the model again, and when it stops for a reason that leaves
\* the conversation whole, every tool call in memory has its tool message.
TranscriptPaired ==
    /\ stop \in {"completed", "max_rounds", "tool_budget_exceeded"} => owed = 0
    /\ Chatting => owed = 0

\* Every run stops: a batch always comes back, and rounds and calls run out.
LoopStops == stop = "none" ~> stop # "none"
=============================================================================
