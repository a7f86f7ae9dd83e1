------------------------------- MODULE AgentRun ----------------------------
(***************************************************************************)
(* The agents' model calls: BaseAgent.run of backend/app/agents/base.py,   *)
(* the chain of providers it walks (backend/app/llm/router.py), and what   *)
(* each provider's answer says of its cost (backend/app/llm/provider.py).  *)
(*                                                                         *)
(* A run asks the configured providers one after the other, its preferred  *)
(* one first, until one answers with a JSON object.  An answer that cannot *)
(* be read has been paid for all the same.  Runs interleave at each await; *)
(* the process of a run may end under it.                                  *)
(***************************************************************************)
EXTENDS Naturals, Sequences

CONSTANTS
    Run,        \* the runs
    Agents,     \* bound: the agent types that run
    Tokens,     \* bound: the amounts a provider's usage field may report
    None

\* ProviderKind.
Provider == {"deepseek", "kimi", "anthropic"}

\* AgentResult: its model and its error are None when there is none.
AgentResult ==
    [success : BOOLEAN, model : Provider \cup {None},
     error : Seq(Provider) \cup {None}, cost : Nat]

ASSUME AgentAssumption ==
    Tokens \subseteq Nat /\ None \notin Agents \cup AgentResult

VARIABLES
    keys,       \* the providers with an API key, read once by get_router
    agent,      \* [Run -> its agent type, or None before it starts]
    untried,    \* [Run -> what is left of its chain of providers]
    errors,     \* [Run -> the providers that failed it, in order]
    cost,       \* [Run -> the cost accumulated so far]
    result,     \* [Run -> its AgentResult, or None]
    lost,       \* the runs whose process ended under them
    heard       \* history: [Run -> [Provider -> the tokens its answers reported]]

agentVars == <<keys, agent, untried, errors, cost, result, lost, heard>>

-----------------------------------------------------------------------------
(* The router.                                                             *)

\* AGENT_COMPLEXITY and COMPLEXITY_PROVIDER; an unknown type counts as volume.
Preferred(a) ==
    CASE a \in {"icp_scoring", "sequence_writer"} -> "kimi"
      [] a = "reply_drafter" -> "anthropic"
      [] OTHER -> "deepseek"

\* The next one of (preferred, deepseek, kimi, anthropic), each once
\* (dict.fromkeys): what is left of the chain is a set, visited in this order.
Turn(r) ==
    IF Preferred(agent[r]) \in untried[r] THEN Preferred(agent[r])
    ELSE IF "deepseek" \in untried[r] THEN "deepseek"
    ELSE IF "kimi" \in untried[r] THEN "kimi" ELSE "anthropic"

After_Repeated(r) ==
    IF errors[r] = <<>> THEN untried[r] ELSE untried[r] \ {Turn(r)}

After(r) == untried[r] \ {Turn(r)}

-----------------------------------------------------------------------------
(* The providers.  A call that fails (an HTTP error, a timeout, a body     *)
(* without the expected fields) says nothing of what it cost.              *)

\* usage.get("prompt_tokens", 0): without usage, the answer counts as free.
DeepSeekUsage == Tokens \cup {0}

KimiUsage == Tokens \cup {0}

\* data["usage"]["input_tokens"]: without usage, the call fails.
AnthropicUsage == Tokens

Usage(p) ==
    CASE p = "deepseek" -> DeepSeekUsage
      [] p = "kimi" -> KimiUsage
      [] OTHER -> AnthropicUsage

\* cost_eur, as dollar cents per million tokens; input and output tokens are one
\* amount, and the rounding of a total to a millionth of a euro is left out.
Price(p) ==
    CASE p = "deepseek" -> 14
      [] p = "kimi" -> 60
      [] OTHER -> 300

-----------------------------------------------------------------------------
(* BaseAgent.run.                                                          *)

Running(r) == agent[r] # None /\ result[r] = None /\ r \notin lost

Failure(r, left, failed, spent) ==
    result' = [result EXCEPT ![r] =
        IF left = {} THEN [success |-> FALSE, model |-> None, error |-> failed,
                           cost |-> spent]
        ELSE None]

Start(r) ==
    /\ agent[r] = None
    /\ \E a \in Agents : agent' = [agent EXCEPT ![r] = a]
    /\ untried' = [untried EXCEPT ![r] = keys]
    /\ Failure(r, keys, <<>>, 0)
    /\ UNCHANGED <<keys, errors, cost, lost, heard>>

\* A provider answered: its tokens and its cost are counted.
Spent(r, t) == cost[r] + Price(Turn(r)) * t

Hear(r, t) == heard' = [heard EXCEPT ![r][Turn(r)] = @ + t]

\* The answer is a JSON object.
Answered(r) ==
    /\ Running(r)
    /\ \E t \in Usage(Turn(r)) :
         /\ cost' = [cost EXCEPT ![r] = Spent(r, t)]
         /\ Hear(r, t)
         /\ result' = [result EXCEPT ![r] =
                [success |-> TRUE, model |-> Turn(r), error |-> None,
                 cost |-> Spent(r, t)]]
    /\ UNCHANGED <<keys, agent, untried, errors, lost>>

\* The loop goes on with the next provider, or the run ends without one.
FailOver(r, spent) ==
    /\ untried' = [untried EXCEPT ![r] = After(r)]
    /\ errors' = [errors EXCEPT ![r] = Append(@, Turn(r))]
    /\ cost' = [cost EXCEPT ![r] = spent]
    /\ Failure(r, After(r), Append(errors[r], Turn(r)), spent)

Unparsable_Uncounted(r) ==
    /\ Running(r)
    /\ \E t \in Usage(Turn(r)) : FailOver(r, cost[r]) /\ Hear(r, t)
    /\ UNCHANGED <<keys, agent, lost>>

\* The answer is counted, and then _parse_response raises.
Unparsable(r) ==
    /\ Running(r)
    /\ \E t \in Usage(Turn(r)) : FailOver(r, Spent(r, t)) /\ Hear(r, t)
    /\ UNCHANGED <<keys, agent, lost>>

\* complete() raises.
CallFails(r) ==
    /\ Running(r)
    /\ FailOver(r, cost[r])
    /\ UNCHANGED <<keys, agent, lost, heard>>

\* The process ends: its runs, and the results nobody logged, are gone.
EndOf(runs) ==
    /\ lost' = lost \cup {r \in runs : agent[r] # None}
    /\ UNCHANGED <<keys, agent, untried, errors, cost, result, heard>>

-----------------------------------------------------------------------------

AgentInit ==
    /\ keys \in SUBSET Provider
    /\ agent = [r \in Run |-> None]
    /\ untried = [r \in Run |-> {}]
    /\ errors = [r \in Run |-> <<>>]
    /\ cost = [r \in Run |-> 0]
    /\ result = [r \in Run |-> None]
    /\ lost = {}
    /\ heard = [r \in Run |-> [p \in Provider |-> 0]]

Calls(r) == Answered(r) \/ Unparsable(r) \/ CallFails(r)

AgentNext ==
    \/ \E r \in Run : Start(r) \/ Calls(r)
    \/ \E runs \in SUBSET Run : EndOf(runs)

AgentSpec == AgentInit /\ [][AgentNext]_agentVars

-----------------------------------------------------------------------------
(* Properties.                                                             *)

\* What the answers a run received cost.
Bill(r) ==
      Price("deepseek") * heard[r]["deepseek"]
    + Price("kimi") * heard[r]["kimi"]
    + Price("anthropic") * heard[r]["anthropic"]

\* Every answer a provider gave is in the cost of the run's result, however
\* many could not be read and whichever provider succeeded in the end: "A
\* completed response can be billable even when JSON is invalid".
UsageIsComplete == \A r \in Run : result[r] # None => result[r].cost = Bill(r)

\* The providers a run has called so far, in order.
Called(r) ==
    IF result[r] # None /\ result[r].success
    THEN Append(errors[r], result[r].model) ELSE errors[r]

\* No provider is asked, and paid, twice for one run; the preferred one is asked
\* first if it is configured; a run that fails has asked all of them.
FallsBackOnce ==
    \A r \in Run :
        /\ \A i, j \in DOMAIN Called(r) : Called(r)[i] = Called(r)[j] => i = j
        /\ Called(r) # <<>> /\ Preferred(agent[r]) \in keys =>
             Called(r)[1] = Preferred(agent[r])
        /\ result[r] # None /\ ~result[r].success =>
             {Called(r)[i] : i \in DOMAIN Called(r)} = keys
=============================================================================
