------------------------------ MODULE AgentProofs --------------------------
(***************************************************************************)
(* Machine-checked proofs about AgentRun and LegacyStore, for any number   *)
(* of runs, processes and tenants.                                         *)
(*                                                                         *)
(*   AgentTypes        AgentTypeOK of AgentSpec                            *)
(*   BillIsComplete    UsageIsComplete of AgentSpec                        *)
(*   AskedOnce         FallsBackOnce of AgentSpec                          *)
(*   StoreKeepsRuns    Spec implements AgentSpec                           *)
(*   SeedStaysWhole    SeedIsWhole                                         *)
(*   CostsStayHonest   CostsAreHonest                                      *)
(***************************************************************************)
EXTENDS LegacyStore, TLAPS

\* The untried providers, the errors and the amounts have their types.
AgentTypeOK ==
    /\ keys \in SUBSET Provider
    /\ untried \in [Run -> SUBSET Provider]
    /\ errors \in [Run -> Seq(Provider)]
    /\ cost \in [Run -> Nat]
    /\ heard \in [Run -> [Provider -> Nat]]
    /\ result \in [Run -> AgentResult \cup {None}]
    /\ DOMAIN agent = Run

\* What has been accumulated is what was heard, in the result too, and a run that
\* goes on has a provider left to ask.
CostIsHeard ==
    \A r \in Run :
        /\ cost[r] = Bill(r)
        /\ result[r] # None => result[r].cost = cost[r]
        /\ Running(r) => untried[r] # {}
        /\ agent[r] = None => cost[r] = 0 /\ errors[r] = <<>>

AgentInv == AgentTypeOK /\ CostIsHeard

-----------------------------------------------------------------------------
(***************************************************************************)
(* A run.                                                                  *)
(***************************************************************************)

\* A run that goes on asks one of the configured providers it has not asked yet.
LEMMA TurnIsLeft ==
    ASSUME AgentTypeOK, NEW r \in Run, untried[r] # {}
    PROVE  Turn(r) \in untried[r] /\ Turn(r) \in Provider
  BY DEF AgentTypeOK, Turn, Provider

\* An answer adds to the bill what it adds to the cost.
LEMMA BillGrows ==
    ASSUME AgentTypeOK, NEW r \in Run, NEW t \in Nat, Turn(r) \in Provider,
           Hear(r, t), cost[r] = Bill(r)
    PROVE  /\ heard' \in [Run -> [Provider -> Nat]]
           /\ Spent(r, t) \in Nat
           /\ Bill(r)' = Spent(r, t)
           /\ \A q \in Run : q # r => Bill(q)' = Bill(q)
  <1>1. heard' \in [Run -> [Provider -> Nat]]
    BY DEF AgentTypeOK, Hear
  <1>2. /\ Price("deepseek") = 14
        /\ Price("kimi") = 60
        /\ Price("anthropic") = 300
    BY DEF Price
  <1>3. Spent(r, t) \in Nat
    BY <1>2 DEF Spent, AgentTypeOK, Provider, Price
  <1>4. \A p \in Provider : heard'[r][p] = IF p = Turn(r) THEN heard[r][p] + t ELSE heard[r][p]
    BY DEF AgentTypeOK, Hear
  <1>5. \A p \in Provider : heard[r][p] \in Nat
    BY DEF AgentTypeOK
  <1>6. Bill(r)' = Spent(r, t)
    <2>1. CASE Turn(r) = "deepseek"
      BY <1>2, <1>4, <1>5, <2>1 DEF Bill, Spent, Provider
    <2>2. CASE Turn(r) = "kimi"
      BY <1>2, <1>4, <1>5, <2>2 DEF Bill, Spent, Provider
    <2>3. CASE Turn(r) = "anthropic"
      BY <1>2, <1>4, <1>5, <2>3 DEF Bill, Spent, Provider
    <2>4. QED
      BY <2>1, <2>2, <2>3 DEF Provider
  <1>7. \A q \in Run : q # r => Bill(q)' = Bill(q)
    BY DEF AgentTypeOK, Hear, Bill
  <1>8. QED
    BY <1>1, <1>3, <1>6, <1>7

\* A run starts with nothing counted, nothing heard and, unless it ends at once, a
\* provider to ask.
LEMMA AgentInvInit == AgentInit => AgentInv
  BY DEF AgentInit, AgentInv, AgentTypeOK, CostIsHeard, Running, Bill, Provider, Price

\* Whoever takes the next step, what is counted stays what was heard.
LEMMA AgentInvStep ==
    ASSUME AgentInv, [AgentNext]_agentVars
    PROVE  AgentInv'
  <1> USE AgentAssumption DEF AgentInv
  <1>1. ASSUME NEW r \in Run, Start(r)
        PROVE  AgentInv'
    <2>1. AgentTypeOK'
      BY <1>1 DEF Start, Failure, AgentTypeOK, AgentResult
    <2>2. CostIsHeard'
      <3> SUFFICES ASSUME NEW q \in Run
                   PROVE  /\ cost'[q] = Bill(q)'
                          /\ result'[q] # None => result'[q].cost = cost'[q]
                          /\ Running(q)' => untried'[q] # {}
                          /\ agent'[q] = None => cost'[q] = 0 /\ errors'[q] = <<>>
        BY DEF CostIsHeard
      <3>1. Bill(q)' = Bill(q) /\ cost' = cost /\ errors' = errors /\ lost' = lost
        BY <1>1 DEF Start, Bill
      <3>2. CASE q = r
        <4>1. cost[r] = 0 /\ errors[r] = <<>>
          BY <1>1 DEF Start, CostIsHeard
        <4>2. untried'[r] = keys
          BY <1>1 DEF Start, AgentTypeOK
        <4>3. CASE keys = {}
          <5>1. result'[r] = [success |-> FALSE, model |-> None, error |-> <<>>, cost |-> 0]
            BY <1>1, <4>3 DEF Start, Failure, AgentTypeOK
          <5>2. result'[r] \in AgentResult
            BY <5>1 DEF AgentResult
          <5>3. result'[r] # None
            BY <5>2
          <5>4. result'[r].cost = 0
            BY <5>1
          <5>5. cost[r] = Bill(r)
            BY DEF CostIsHeard
          <5>6. QED
            BY <3>1, <3>2, <4>1, <5>3, <5>4, <5>5 DEF Running
        <4>4. CASE keys # {}
          <5>1. result'[r] = None
            BY <1>1, <4>4 DEF Start, Failure, AgentTypeOK
          <5>2. QED
            BY <3>1, <3>2, <4>1, <4>2, <4>4, <5>1 DEF CostIsHeard
        <4>5. QED
          BY <4>3, <4>4
      <3>3. CASE q # r
        <4>1. /\ agent'[q] = agent[q]
              /\ untried'[q] = untried[q]
              /\ result'[q] = result[q]
          BY <1>1, <3>3 DEF Start, Failure, AgentTypeOK
        <4>2. QED
          BY <3>1, <4>1 DEF CostIsHeard, Running
      <3>4. QED
        BY <3>2, <3>3
    <2>3. QED
      BY <2>1, <2>2
  <1>2. ASSUME NEW r \in Run, Calls(r)
        PROVE  AgentInv'
    <2>0. /\ Running(r)
          /\ Turn(r) \in untried[r]
          /\ Turn(r) \in Provider
          /\ \A t \in Usage(Turn(r)) : t \in Nat
          /\ cost[r] = Bill(r)
      <3>1. Running(r)
        BY <1>2 DEF Calls, Answered, Unparsable, CallFails
      <3>2. \A p \in Provider : \A t \in Usage(p) : t \in Nat
        BY DEF Usage, DeepSeekUsage, KimiUsage, AnthropicUsage
      <3>3. QED
        BY <3>1, <3>2, TurnIsLeft DEF CostIsHeard
    <2>1. CASE Answered(r)
      <3>1. PICK t \in Usage(Turn(r)) :
              /\ cost' = [cost EXCEPT ![r] = Spent(r, t)]
              /\ Hear(r, t)
              /\ result' = [result EXCEPT ![r] =
                   [success |-> TRUE, model |-> Turn(r), error |-> None,
                    cost |-> Spent(r, t)]]
        BY <2>1 DEF Answered
      <3>2. /\ heard' \in [Run -> [Provider -> Nat]]
            /\ Spent(r, t) \in Nat
            /\ Bill(r)' = Spent(r, t)
            /\ \A q \in Run : q # r => Bill(q)' = Bill(q)
        BY <2>0, <3>1, BillGrows
      <3>3. AgentTypeOK'
        BY <2>0, <2>1, <3>1, <3>2 DEF Answered, AgentTypeOK, AgentResult
      <3>4. CostIsHeard'
        BY <2>0, <2>1, <3>1, <3>2 DEF Answered, AgentTypeOK, CostIsHeard, Running
      <3>5. QED
        BY <3>3, <3>4
    <2>2. ASSUME NEW spent \in Nat, FailOver(r, spent), heard' \in [Run -> [Provider -> Nat]],
                 Bill(r)' = spent, \A q \in Run : q # r => Bill(q)' = Bill(q),
                 UNCHANGED <<keys, agent, lost>>
          PROVE  AgentInv'
      <3>1. AgentTypeOK'
        BY <2>0, <2>2 DEF FailOver, Failure, After, AgentTypeOK, AgentResult
      <3>2. CostIsHeard'
        <4> SUFFICES ASSUME NEW q \in Run
                     PROVE  /\ cost'[q] = Bill(q)'
                            /\ result'[q] # None => result'[q].cost = cost'[q]
                            /\ Running(q)' => untried'[q] # {}
                            /\ agent'[q] = None => cost'[q] = 0 /\ errors'[q] = <<>>
          BY DEF CostIsHeard
        <4>1. CASE q = r
          <5>1. /\ agent[r] # None
                /\ agent' = agent
                /\ cost'[r] = spent
                /\ untried'[r] = After(r)
            BY <2>0, <2>2 DEF FailOver, AgentTypeOK, Running
          <5>2. CASE After(r) = {}
            <6>1. result'[r] = [success |-> FALSE, model |-> None,
                                error |-> Append(errors[r], Turn(r)), cost |-> spent]
              BY <2>2, <5>2 DEF FailOver, Failure, AgentTypeOK
            <6>2. result'[r] \in AgentResult
              BY <2>0, <6>1 DEF AgentResult, AgentTypeOK
            <6>3. result'[r] # None
              BY <6>2
            <6>4. result'[r].cost = spent
              BY <6>1
            <6>5. QED
              BY <2>2, <4>1, <5>1, <6>3, <6>4 DEF Running
          <5>3. CASE After(r) # {}
            <6>1. result'[r] = None
              BY <2>2, <5>3 DEF FailOver, Failure, AgentTypeOK
            <6>2. QED
              BY <2>2, <4>1, <5>1, <5>3, <6>1
          <5>4. QED
            BY <5>2, <5>3
        <4>2. CASE q # r
          <5>1. /\ agent'[q] = agent[q]
                /\ untried'[q] = untried[q]
                /\ errors'[q] = errors[q]
                /\ cost'[q] = cost[q]
                /\ result'[q] = result[q]
                /\ lost' = lost
            BY <2>2, <4>2 DEF FailOver, Failure, AgentTypeOK
          <5>2. QED
            BY <2>2, <4>2, <5>1 DEF CostIsHeard, Running
        <4>3. QED
          BY <4>1, <4>2
      <3>3. QED
        BY <3>1, <3>2
    <2>3. CASE Unparsable(r)
      <3>1. PICK t \in Usage(Turn(r)) : FailOver(r, Spent(r, t)) /\ Hear(r, t)
        BY <2>3 DEF Unparsable
      <3>2. /\ heard' \in [Run -> [Provider -> Nat]]
            /\ Spent(r, t) \in Nat
            /\ Bill(r)' = Spent(r, t)
            /\ \A q \in Run : q # r => Bill(q)' = Bill(q)
        BY <2>0, <3>1, BillGrows
      <3>3. QED
        BY <2>2, <2>3, <3>1, <3>2 DEF Unparsable
    <2>4. CASE CallFails(r)
      <3>1. /\ heard' = heard
            /\ FailOver(r, cost[r])
            /\ cost[r] \in Nat
            /\ UNCHANGED <<keys, agent, lost>>
        BY <2>4 DEF CallFails, AgentTypeOK
      <3>2. \A q \in Run : Bill(q)' = Bill(q)
        BY <3>1 DEF Bill
      <3>3. QED
        BY <2>0, <2>2, <3>1, <3>2 DEF AgentTypeOK
    <2>5. QED
      BY <1>2, <2>1, <2>3, <2>4 DEF Calls
  <1>3. ASSUME NEW runs \in SUBSET Run, EndOf(runs)
        PROVE  AgentInv'
    <2>1. AgentTypeOK'
      BY <1>3 DEF EndOf, AgentTypeOK
    <2>2. CostIsHeard'
      BY <1>3 DEF EndOf, CostIsHeard, Running, Bill
    <2>3. QED
      BY <2>1, <2>2
  <1>4. CASE UNCHANGED agentVars
    <2>1. AgentTypeOK'
      BY <1>4 DEF agentVars, AgentTypeOK
    <2>2. CostIsHeard'
      BY <1>4 DEF agentVars, CostIsHeard, Running, Bill
    <2>3. QED
      BY <2>1, <2>2
  <1>5. QED
    BY <1>1, <1>2, <1>3, <1>4 DEF AgentNext

\* A run's variables keep their types, for any runs, agents and token counts.
THEOREM AgentTypes == AgentSpec => []AgentTypeOK
  <1>1. AgentInv /\ [AgentNext]_agentVars => AgentInv'
    BY AgentInvStep
  <1>2. AgentInv => AgentTypeOK
    BY DEF AgentInv
  <1>3. QED
    BY AgentInvInit, <1>1, <1>2, PTL DEF AgentSpec

\* The result of a run costs what all the answers it received cost, those that
\* could not be read included.
THEOREM BillIsComplete == AgentSpec => []UsageIsComplete
  <1>1. AgentInv /\ [AgentNext]_agentVars => AgentInv'
    BY AgentInvStep
  <1>2. AgentInv => UsageIsComplete
    BY DEF AgentInv, CostIsHeard, UsageIsComplete
  <1>3. QED
    BY AgentInvInit, <1>1, <1>2, PTL DEF AgentSpec

-----------------------------------------------------------------------------
(***************************************************************************)
(* The order of the providers.                                             *)
(***************************************************************************)

Failed(r) == {errors[r][i] : i \in DOMAIN errors[r]}

\* What a run has not tried is what has not failed it.
Asked(r) ==
    /\ agent[r] = None => errors[r] = <<>> /\ result[r] = None
    /\ agent[r] # None => untried[r] = keys \ Failed(r)
    /\ Failed(r) \subseteq keys
    /\ \A i, j \in DOMAIN errors[r] : errors[r][i] = errors[r][j] => i = j
    /\ errors[r] # <<>> /\ Preferred(agent[r]) \in keys =>
         errors[r][1] = Preferred(agent[r])
    /\ result[r] # None =>
         IF result[r].success
         THEN /\ result[r].model \in untried[r]
              /\ errors[r] = <<>> /\ Preferred(agent[r]) \in keys =>
                   result[r].model = Preferred(agent[r])
         ELSE Failed(r) = keys

AskedInv == \A r \in Run : Asked(r)

\* A provider that fails joins those that failed before, and was none of them.
LEMMA FailedGrows ==
    ASSUME AgentTypeOK, AskedInv, NEW r \in Run, Running(r), untried[r] # {},
           errors' = [errors EXCEPT ![r] = Append(@, Turn(r))], keys' = keys,
           agent' = agent
    PROVE  /\ Failed(r)' = Failed(r) \cup {Turn(r)}
           /\ Failed(r)' \subseteq keys
           /\ \A i, j \in DOMAIN errors'[r] : errors'[r][i] = errors'[r][j] => i = j
           /\ errors'[r] # <<>>
           /\ Preferred(agent[r]) \in keys => errors'[r][1] = Preferred(agent[r])
           /\ \A q \in Run : q # r => Failed(q)' = Failed(q) /\ errors'[q] = errors[q]
  <1>1. /\ Turn(r) \in untried[r]
        /\ Turn(r) \in Provider
        /\ untried[r] = keys \ Failed(r)
    BY TurnIsLeft DEF AskedInv, Asked, Running
  <1>2. /\ errors[r] \in Seq(Provider)
        /\ errors'[r] = Append(errors[r], Turn(r))
    BY DEF AgentTypeOK
  <1>3. /\ DOMAIN errors[r] = 1..Len(errors[r])
        /\ DOMAIN errors'[r] = 1..(Len(errors[r]) + 1)
        /\ Len(errors[r]) \in Nat
        /\ \A i \in 1..Len(errors[r]) : errors'[r][i] = errors[r][i]
        /\ errors'[r][Len(errors[r]) + 1] = Turn(r)
    BY <1>1, <1>2
  <1>4. Failed(r)' = Failed(r) \cup {Turn(r)}
    BY <1>3 DEF Failed
  <1>5. Failed(r)' \subseteq keys
    BY <1>1, <1>4 DEF AskedInv, Asked
  <1>6. ASSUME NEW i \in DOMAIN errors'[r], NEW j \in DOMAIN errors'[r],
               errors'[r][i] = errors'[r][j]
        PROVE  i = j
    <2>1. \A k \in 1..Len(errors[r]) : errors'[r][k] # Turn(r)
      BY <1>1, <1>3 DEF Failed
    <2>2. CASE i \in 1..Len(errors[r]) /\ j \in 1..Len(errors[r])
      BY <1>3, <1>6, <2>2 DEF AskedInv, Asked
    <2>3. CASE i = Len(errors[r]) + 1 \/ j = Len(errors[r]) + 1
      BY <1>3, <1>6, <2>1, <2>3
    <2>4. QED
      BY <1>3, <2>2, <2>3
  <1>7. errors'[r] # <<>>
    BY <1>1, <1>2
  <1>8. ASSUME Preferred(agent[r]) \in keys
        PROVE  errors'[r][1] = Preferred(agent[r])
    <2>1. CASE errors[r] = <<>>
      <3>1. Failed(r) = {}
        BY <2>1 DEF Failed
      <3>2. Turn(r) = Preferred(agent[r])
        BY <1>1, <1>8, <3>1 DEF Turn
      <3>3. QED
        BY <1>2, <2>1, <3>2
    <2>2. CASE errors[r] # <<>>
      BY <1>2, <1>3, <1>8, <2>2 DEF AskedInv, Asked
    <2>3. QED
      BY <2>1, <2>2
  <1>9. \A q \in Run : q # r => Failed(q)' = Failed(q) /\ errors'[q] = errors[q]
    BY DEF AgentTypeOK, Failed
  <1>10. QED
    BY <1>4, <1>5, <1>6, <1>7, <1>8, <1>9

\* Nothing has been asked at the beginning.
LEMMA AskedInit == AgentInit => AskedInv
  <1> SUFFICES ASSUME AgentInit, NEW r \in Run
               PROVE  Asked(r)
    BY DEF AskedInv
  <1>1. agent[r] = None /\ errors[r] = <<>> /\ result[r] = None
    BY DEF AgentInit
  <1>2. Failed(r) = {} /\ DOMAIN errors[r] = {}
    BY <1>1 DEF Failed
  <1>3. QED
    BY <1>1, <1>2 DEF Asked

\* What a run asked is settled by its own variables.
LEMMA AskedSame ==
    ASSUME NEW q \in Run, Asked(q), keys' = keys, agent'[q] = agent[q],
           errors'[q] = errors[q], untried'[q] = untried[q], result'[q] = result[q]
    PROVE  Asked(q)'
  BY DEF Asked, Failed

\* No step asks a provider again or out of turn.
LEMMA AskedStep ==
    ASSUME AgentInv, AskedInv, [AgentNext]_agentVars
    PROVE  AskedInv'
  <1> USE AgentAssumption DEF AgentInv
  <1> SUFFICES ASSUME NEW q \in Run
               PROVE  Asked(q)'
    BY DEF AskedInv
  <1>0. Asked(q)
    BY DEF AskedInv
  <1>1. ASSUME NEW r \in Run, Start(r)
        PROVE  Asked(q)'
    <2>1. CASE q = r
      <3>1. /\ errors'[r] = <<>>
            /\ untried'[r] = keys
            /\ keys' = keys
            /\ Failed(r)' = {}
        BY <1>0, <1>1, <2>1 DEF Start, AgentTypeOK, Asked, Failed
      <3>2. CASE keys = {}
        <4>1. result'[r] = [success |-> FALSE, model |-> None, error |-> <<>>, cost |-> 0]
          BY <1>1, <3>2 DEF Start, Failure, AgentTypeOK
        <4>2. ~result'[r].success
          BY <4>1
        <4>3. agent'[r] # None
          BY <1>1 DEF Start, AgentTypeOK
        <4>4. QED
          BY <2>1, <3>1, <3>2, <4>2, <4>3 DEF Asked
      <3>3. CASE keys # {}
        <4>1. result'[r] = None
          BY <1>1, <3>3 DEF Start, Failure, AgentTypeOK
        <4>2. QED
          BY <2>1, <3>1, <4>1 DEF Asked
      <3>4. QED
        BY <3>2, <3>3
    <2>2. CASE q # r
      <3>1. /\ agent'[q] = agent[q]
            /\ untried'[q] = untried[q]
            /\ result'[q] = result[q]
            /\ errors'[q] = errors[q]
            /\ keys' = keys
        BY <1>1, <2>2 DEF Start, Failure, AgentTypeOK
      <3>2. QED
        BY <1>0, <3>1, AskedSame
    <2>3. QED
      BY <2>1, <2>2
  <1>2. ASSUME NEW r \in Run, Answered(r)
        PROVE  Asked(q)'
    <2>1. CASE q = r
      <3>1. /\ untried[r] # {}
            /\ agent[r] # None
        BY <1>2 DEF Answered, Running, CostIsHeard
      <3>2. Turn(r) \in untried[r]
        BY <3>1, TurnIsLeft
      <3>3. ASSUME errors[r] = <<>>, Preferred(agent[r]) \in keys
            PROVE  Turn(r) = Preferred(agent[r])
        <4>1. Failed(r) = {}
          BY <3>3 DEF Failed
        <4>2. untried[r] = keys
          BY <1>0, <2>1, <3>1, <4>1 DEF Asked
        <4>3. QED
          BY <3>3, <4>2 DEF Turn
      <3>4. result'[r].success /\ result'[r].model = Turn(r)
        BY <1>2 DEF Answered, AgentTypeOK
      <3>5. /\ agent' = agent
            /\ errors' = errors
            /\ untried' = untried
            /\ keys' = keys
        BY <1>2 DEF Answered
      <3>6. QED
        BY <1>0, <2>1, <3>1, <3>2, <3>3, <3>4, <3>5 DEF Asked, Failed
    <2>2. CASE q # r
      <3>1. /\ agent'[q] = agent[q]
            /\ untried'[q] = untried[q]
            /\ result'[q] = result[q]
            /\ errors'[q] = errors[q]
            /\ keys' = keys
        BY <1>2, <2>2 DEF Answered, AgentTypeOK
      <3>2. QED
        BY <1>0, <3>1, AskedSame
    <2>3. QED
      BY <2>1, <2>2
  <1>3. ASSUME NEW r \in Run, NEW spent, Running(r), FailOver(r, spent), keys' = keys,
               agent' = agent
        PROVE  Asked(q)'
    <2>1. /\ untried[r] # {}
          /\ agent[r] # None
          /\ errors' = [errors EXCEPT ![r] = Append(@, Turn(r))]
          /\ untried'[r] = untried[r] \ {Turn(r)}
      BY <1>3 DEF Running, CostIsHeard, FailOver, After, AgentTypeOK
    <2>2. /\ Failed(r)' = Failed(r) \cup {Turn(r)}
          /\ Failed(r)' \subseteq keys
          /\ \A i, j \in DOMAIN errors'[r] : errors'[r][i] = errors'[r][j] => i = j
          /\ errors'[r] # <<>>
          /\ Preferred(agent[r]) \in keys => errors'[r][1] = Preferred(agent[r])
          /\ \A p \in Run : p # r => Failed(p)' = Failed(p) /\ errors'[p] = errors[p]
      BY <1>3, <2>1, FailedGrows
    <2>3. CASE q = r
      <3>1. untried[r] = keys \ Failed(r)
        BY <1>0, <2>1, <2>3 DEF Asked
      <3>2. untried'[r] = keys \ Failed(r)'
        BY <2>1, <2>2, <3>1
      <3>3. CASE After(r) = {}
        <4>1. result'[r] = [success |-> FALSE, model |-> None,
                            error |-> Append(errors[r], Turn(r)), cost |-> spent]
          BY <1>3, <3>3 DEF FailOver, Failure, AgentTypeOK
        <4>2. ~result'[r].success
          BY <4>1
        <4>3. Failed(r)' = keys
          BY <2>1, <2>2, <3>2, <3>3 DEF After
        <4>4. QED
          BY <1>3, <2>1, <2>2, <2>3, <3>2, <4>2, <4>3 DEF Asked
      <3>4. CASE After(r) # {}
        <4>1. result'[r] = None
          BY <1>3, <3>4 DEF FailOver, Failure, AgentTypeOK
        <4>2. QED
          BY <1>3, <2>1, <2>2, <2>3, <3>2, <4>1 DEF Asked
      <3>5. QED
        BY <3>3, <3>4
    <2>4. CASE q # r
      <3>1. /\ agent'[q] = agent[q]
            /\ untried'[q] = untried[q]
            /\ result'[q] = result[q]
            /\ errors'[q] = errors[q]
        BY <1>3, <2>2, <2>4 DEF FailOver, Failure, AgentTypeOK
      <3>2. QED
        BY <1>0, <1>3, <3>1, AskedSame
    <2>5. QED
      BY <2>3, <2>4
  <1>4. ASSUME NEW r \in Run, Unparsable(r)
        PROVE  Asked(q)'
    <2>1. PICK t \in Usage(Turn(r)) : FailOver(r, Spent(r, t))
      BY <1>4 DEF Unparsable
    <2>2. QED
      BY <1>3, <1>4, <2>1 DEF Unparsable
  <1>5. ASSUME NEW r \in Run, CallFails(r)
        PROVE  Asked(q)'
    BY <1>3, <1>5 DEF CallFails
  <1>6. ASSUME NEW runs \in SUBSET Run, EndOf(runs)
        PROVE  Asked(q)'
    BY <1>0, <1>6, AskedSame DEF EndOf
  <1>7. CASE UNCHANGED agentVars
    BY <1>0, <1>7, AskedSame DEF agentVars
  <1>8. QED
    BY <1>1, <1>2, <1>4, <1>5, <1>6, <1>7 DEF AgentNext, Calls

\* What a run has asked follows from its failures and its result.
LEMMA AskedSuffices ==
    ASSUME AgentTypeOK, AskedInv
    PROVE  FallsBackOnce
  <1> SUFFICES ASSUME NEW r \in Run
               PROVE  /\ \A i, j \in DOMAIN Called(r) :
                           Called(r)[i] = Called(r)[j] => i = j
                      /\ Called(r) # <<>> /\ Preferred(agent[r]) \in keys =>
                           Called(r)[1] = Preferred(agent[r])
                      /\ result[r] # None /\ ~result[r].success =>
                           {Called(r)[i] : i \in DOMAIN Called(r)} = keys
    BY DEF FallsBackOnce
  <1>0. Asked(r)
    BY DEF AskedInv
  <1>1. CASE result[r] # None /\ result[r].success
    <2>1. /\ Called(r) = Append(errors[r], result[r].model)
          /\ result[r].model \in untried[r]
          /\ errors[r] \in Seq(Provider)
          /\ result[r].model \in Provider
      BY <1>0, <1>1 DEF Called, Asked, AgentTypeOK
    <2>2. /\ DOMAIN errors[r] = 1..Len(errors[r])
          /\ Len(errors[r]) \in Nat
          /\ DOMAIN Called(r) = 1..(Len(errors[r]) + 1)
          /\ \A i \in 1..Len(errors[r]) : Called(r)[i] = errors[r][i]
          /\ Called(r)[Len(errors[r]) + 1] = result[r].model
      BY <2>1
    <2>3. \A i \in 1..Len(errors[r]) : errors[r][i] # result[r].model
      <3>1. agent[r] # None
        BY <1>0, <1>1 DEF Asked
      <3>2. untried[r] = keys \ Failed(r)
        BY <1>0, <3>1 DEF Asked
      <3>3. QED
        BY <2>1, <2>2, <3>2 DEF Failed
    <2>4. ASSUME NEW i \in DOMAIN Called(r), NEW j \in DOMAIN Called(r),
                 Called(r)[i] = Called(r)[j]
          PROVE  i = j
      <3>1. CASE i \in 1..Len(errors[r]) /\ j \in 1..Len(errors[r])
        BY <1>0, <2>2, <2>4, <3>1 DEF Asked
      <3>2. CASE i = Len(errors[r]) + 1 \/ j = Len(errors[r]) + 1
        BY <2>2, <2>3, <2>4, <3>2
      <3>3. QED
        BY <2>2, <3>1, <3>2
    <2>5. ASSUME Preferred(agent[r]) \in keys
          PROVE  Called(r)[1] = Preferred(agent[r])
      <3>1. CASE errors[r] = <<>>
        BY <1>0, <1>1, <2>1, <2>5, <3>1 DEF Asked
      <3>2. CASE errors[r] # <<>>
        BY <1>0, <2>1, <2>2, <2>5, <3>2 DEF Asked
      <3>3. QED
        BY <3>1, <3>2
    <2>6. QED
      BY <1>1, <2>4, <2>5
  <1>2. CASE ~(result[r] # None /\ result[r].success)
    <2>1. Called(r) = errors[r]
      BY <1>2 DEF Called
    <2>2. QED
      BY <1>0, <1>2, <2>1 DEF Asked, Failed
  <1>3. QED
    BY <1>1, <1>2

\* No run asks a provider twice; its preferred one is asked first, and a run that
\* fails has asked every configured one.
THEOREM AskedOnce == AgentSpec => []FallsBackOnce
  <1>1. AgentInv /\ AskedInv /\ [AgentNext]_agentVars => AgentInv' /\ AskedInv'
    BY AgentInvStep, AskedStep
  <1>2. AgentInv /\ AskedInv => FallsBackOnce
    BY AskedSuffices DEF AgentInv
  <1>3. QED
    BY AgentInvInit, AskedInit, <1>1, <1>2, PTL DEF AgentSpec

-----------------------------------------------------------------------------
(***************************************************************************)
(* The composition with the store.                                         *)
(***************************************************************************)

\* Every step of the composition is a step of the runs, or none of theirs.
LEMMA StoreStep ==
    ASSUME [Next]_vars
    PROVE  [AgentNext]_agentVars
  <1>1. ASSUME NEW p \in Process, Seed(p)
        PROVE  UNCHANGED agentVars
    BY <1>1 DEF Seed, InitDb, FindTenant, FindNoTenant, InsertTenant, InsertPlaybook, SeedFails
  <1>2. ASSUME NEW p \in Process, Restart(p)
        PROVE  AgentNext
    BY <1>2 DEF Restart, AgentNext
  <1>3. ASSUME NEW r \in Run, NEW p \in Process, StartIn(r, p)
        PROVE  AgentNext
    BY <1>3 DEF StartIn, AgentNext
  <1>4. ASSUME NEW r \in Run, Call(r)
        PROVE  AgentNext
    BY <1>4 DEF Call, AgentNext
  <1>5. ASSUME NEW r \in Run, Returns(r) \/ \E log \in Log : LogRun(r, log)
        PROVE  UNCHANGED agentVars
    BY <1>5 DEF LogRun, Returns
  <1>6. ASSUME NEW p \in Process, GetCampaignCosts(p)
        PROVE  UNCHANGED agentVars
    BY <1>6 DEF GetCampaignCosts
  <1>7. CASE UNCHANGED vars
    BY <1>7 DEF vars
  <1>8. QED
    BY <1>1, <1>2, <1>3, <1>4, <1>5, <1>6, <1>7 DEF Next

\* The runs of the composition behave as AgentRun says: what is proved of AgentSpec
\* holds where their costs are logged.
THEOREM StoreKeepsRuns == Spec => AgentSpec
  <1>1. Init => AgentInit
    BY DEF Init
  <1>2. [Next]_vars => [AgentNext]_agentVars
    BY StoreStep
  <1>3. QED
    BY <1>1, <1>2, PTL DEF Spec, AgentSpec

-----------------------------------------------------------------------------
(***************************************************************************)
(* The seed.                                                               *)
(***************************************************************************)

\* Every committed tenant has its playbook, and a process that inserts has a
\* tenant to commit.
SeedInv ==
    /\ tenants \subseteq playbooks
    /\ draft \in [Process -> Tenant \cup {None}]
    /\ given \in [Process -> DevTenant \cup {None}]
    /\ DOMAIN seeding = Process
    /\ \A p \in Process : seeding[p] = "insert" => draft[p] # None
    /\ SeedIsWhole

\* The store starts empty.
LEMMA SeedInit == Init => SeedInv
  BY DEF Init, SeedInv, SeedIsWhole

\* No step commits a tenant without its playbook, or gives one out.
LEMMA SeedStep ==
    ASSUME SeedInv, [Next]_vars
    PROVE  SeedInv'
  <1> USE StoreAssumption DEF SeedInv, SeedIsWhole, DevTenant
  <1>1. ASSUME NEW p \in Process, Seed(p)
        PROVE  SeedInv'
    <2>1. CASE InitDb(p)
      BY <2>1 DEF InitDb
    <2>2. CASE FindNoTenant(p)
      BY <2>2 DEF FindNoTenant
    <2>3. ASSUME NEW t \in Tenant, FindTenant(p, t)
          PROVE  SeedInv'
      <3>1. given'[p] = [tenant |-> t, playbook |-> TRUE]
        BY <2>3 DEF FindTenant
      <3>2. QED
        BY <2>3, <3>1 DEF FindTenant
    <2>4. ASSUME NEW t \in Tenant, InsertTenant(p, t)
          PROVE  SeedInv'
      BY <2>4 DEF InsertTenant, InsertsTenant
    <2>5. CASE InsertPlaybook(p)
      <3>1. draft[p] \in Tenant
        BY <2>5 DEF InsertPlaybook
      <3>2. given'[p] = [tenant |-> draft[p], playbook |-> TRUE]
        BY <2>5 DEF InsertPlaybook
      <3>3. QED
        BY <2>5, <3>1, <3>2 DEF InsertPlaybook
    <2>6. CASE SeedFails(p)
      BY <2>6 DEF SeedFails
    <2>7. QED
      BY <1>1, <2>1, <2>2, <2>3, <2>4, <2>5, <2>6 DEF Seed
  <1>2. ASSUME NEW p \in Process, Restart(p)
        PROVE  SeedInv'
    BY <1>2 DEF Restart
  <1>3. ASSUME NEW r \in Run, NEW p \in Process, StartIn(r, p)
        PROVE  SeedInv'
    BY <1>3 DEF StartIn, seedVars
  <1>4. ASSUME NEW r \in Run, Call(r)
        PROVE  SeedInv'
    BY <1>4 DEF Call, storeVars, seedVars
  <1>5. ASSUME NEW r \in Run, Returns(r) \/ \E log \in Log : LogRun(r, log)
        PROVE  SeedInv'
    BY <1>5 DEF LogRun, Returns, seedVars
  <1>6. ASSUME NEW p \in Process, GetCampaignCosts(p)
        PROVE  SeedInv'
    BY <1>6 DEF GetCampaignCosts, seedVars
  <1>7. CASE UNCHANGED vars
    BY <1>7 DEF vars, storeVars, seedVars
  <1>8. QED
    BY <1>1, <1>2, <1>3, <1>4, <1>5, <1>6, <1>7 DEF Next

\* The tenant a process is given is committed and has its playbook.
THEOREM SeedStaysWhole == Spec => []SeedIsWhole
  <1>1. SeedInv /\ [Next]_vars => SeedInv'
    BY SeedStep
  <1>2. SeedInv => SeedIsWhole
    BY DEF SeedInv
  <1>3. QED
    BY SeedInit, <1>1, <1>2, PTL DEF Spec

-----------------------------------------------------------------------------
(***************************************************************************)
(* The costs.                                                              *)
(***************************************************************************)

\* The row a run leaves, if it leaves one.
RowOf(r) == [run |-> r, log |-> attempted[r], cost |-> Bill(r)]

\* Processes agree on the store; the rows of SQLite are those of runs that were to
\* be logged, each at the price of all its answers, and of all those logged.
CostsInv ==
    /\ settings.url \in BOOLEAN
    /\ selected \in [Process -> {"unchecked", "supabase", "sqlite"}]
    /\ \A p \in Process : /\ selected[p] = "sqlite" => ~settings.url
                          /\ selected[p] = "supabase" => settings.url
    /\ home \in [Run -> Process \cup {None}]
    /\ \A r \in Run : agent[r] # None => home[r] # None
    /\ attempted \in [Run -> Log \cup {None}]
    /\ logged \in [Run -> Log \cup {None}]
    /\ \A r \in Run : attempted[r] # None => result[r] # None
    /\ \A r \in Run : logged[r] # None => logged[r] = attempted[r]
    /\ settings.url => local = {}
    /\ \A row \in local : \E r \in Run : attempted[r] # None /\ row = RowOf(r)
    /\ ~settings.url => \A r \in Run : logged[r] # None => RowOf(r) \in local

\* The store starts empty.
LEMMA CostsInit == Init => CostsInv
  BY StoreAssumption DEF Init, AgentInit, CostsInv

\* What a process is told of the store fits the settings.
LEMMA Selecting ==
    ASSUME CostsInv, NEW p \in Process, NEW store, Selects(p, store)
    PROVE  /\ store = "sqlite" => ~settings.url
           /\ store = "supabase" => settings.url
           /\ selected' \in [Process -> {"unchecked", "supabase", "sqlite"}]
           /\ settings' = settings =>
                \A q \in Process : /\ selected'[q] = "sqlite" => ~settings'.url
                                   /\ selected'[q] = "supabase" => settings'.url
  <1>1. store \in GetSupabase(p)
    BY DEF Selects
  <1>2. /\ store \in {"raises", "unchecked", "supabase", "sqlite"}
        /\ store # "unchecked"
        /\ store = "sqlite" => ~settings.url
        /\ store = "supabase" => settings.url
    BY <1>1 DEF GetSupabase, Unchecked, CostsInv
  <1>3. QED
    BY <1>2 DEF Selects, CostsInv

\* The bill of a run with a result is closed.
LEMMA BillIsClosed ==
    ASSUME AskedInv, [Next]_vars, NEW r \in Run, result[r] # None,
           AgentTypeOK
    PROVE  result'[r] = result[r] /\ Bill(r)' = Bill(r)
  <1>0. agent[r] # None
    BY DEF AskedInv, Asked
  <1>1. ASSUME NEW q \in Run, Start(q)
        PROVE  result'[r] = result[r] /\ heard' = heard
    BY <1>0, <1>1 DEF Start, Failure, AgentTypeOK
  <1>2. ASSUME NEW q \in Run, Calls(q)
        PROVE  result'[r] = result[r] /\ heard'[r] = heard[r]
    <2>1. q # r
      BY <1>2 DEF Calls, Answered, Unparsable, CallFails, Running
    <2>2. CASE Answered(q)
      BY <2>1, <2>2 DEF Answered, Hear, AgentTypeOK
    <2>3. CASE Unparsable(q)
      BY <2>1, <2>3 DEF Unparsable, FailOver, Failure, Hear, AgentTypeOK
    <2>4. CASE CallFails(q)
      BY <2>1, <2>4 DEF CallFails, FailOver, Failure, AgentTypeOK
    <2>5. QED
      BY <1>2, <2>2, <2>3, <2>4 DEF Calls
  <1>3. ASSUME NEW runs \in SUBSET Run, EndOf(runs)
        PROVE  result'[r] = result[r] /\ heard' = heard
    BY <1>3 DEF EndOf
  <1>4. [AgentNext]_agentVars
    BY StoreStep
  <1>5. result'[r] = result[r] /\ heard'[r] = heard[r]
    BY <1>1, <1>2, <1>3, <1>4 DEF AgentNext, agentVars
  <1>6. QED
    BY <1>5 DEF Bill

\* A step of which the store sees nothing leaves the rows as they should be.
LEMMA CostsUnlogged ==
    ASSUME AgentInv, AskedInv, CostsInv, [Next]_vars,
           UNCHANGED <<settings, local, logged, attempted>>
    PROVE  /\ \A r \in Run : attempted'[r] # None => result'[r] # None
           /\ \A row \in local' : \E r \in Run : attempted'[r] # None /\ row = RowOf(r)'
           /\ ~settings'.url => \A r \in Run : logged'[r] # None => RowOf(r)' \in local'
  <1>1. \A r \in Run : attempted[r] # None =>
          result'[r] = result[r] /\ Bill(r)' = Bill(r)
    BY BillIsClosed DEF CostsInv, AgentInv
  <1>2. \A r \in Run : attempted[r] # None => RowOf(r)' = RowOf(r)
    BY <1>1 DEF RowOf
  <1>3. QED
    BY <1>1, <1>2 DEF CostsInv

\* Every step keeps the processes of one mind and the rows complete.
LEMMA CostsStep ==
    ASSUME AgentInv, AskedInv, CostsInv, [Next]_vars
    PROVE  CostsInv'
  <1> USE StoreAssumption
  <1>1. ASSUME NEW p \in Process, Seed(p)
        PROVE  CostsInv'
    <2>1. /\ UNCHANGED <<agentVars, settings, home, local, logged, attempted>>
          /\ \/ UNCHANGED selected
             \/ \E store : Selects(p, store)
      BY <1>1 DEF Seed, InitDb, FindTenant, FindNoTenant, InsertTenant, InsertsTenant,
                  InsertPlaybook, SeedFails
    <2>2. QED
      BY <2>1, Selecting, CostsUnlogged DEF CostsInv, agentVars
  <1>2. ASSUME NEW p \in Process, Restart(p)
        PROVE  CostsInv'
    BY <1>2, CostsUnlogged DEF Restart, EndOf, CostsInv
  <1>3. ASSUME NEW r \in Run, NEW p \in Process, StartIn(r, p)
        PROVE  CostsInv'
    BY <1>3, CostsUnlogged DEF StartIn, Start, CostsInv, AgentInv, AgentTypeOK
  <1>4. ASSUME NEW r \in Run, Call(r)
        PROVE  CostsInv'
    <2>1. agent' = agent /\ UNCHANGED <<settings, home, selected, local, logged, attempted>>
      BY <1>4 DEF Call, Calls, Answered, Unparsable, CallFails, storeVars
    <2>2. QED
      BY <2>1, CostsUnlogged DEF CostsInv
  <1>5. ASSUME NEW r \in Run, NEW log \in Log, LogRun(r, log)
        PROVE  CostsInv'
    <2>1. PICK store \in {"supabase", "sqlite", "raises"} :
            /\ Selects(home[r], store)
            /\ \/ /\ store = "supabase"
                  /\ \E arrives, answers \in BOOLEAN :
                       LogToSupabase(r, log, arrives, answers)
               \/ store = "sqlite" /\ \E writes \in BOOLEAN : LogToSqlite(r, log, writes)
               \/ store = "raises" /\ UNCHANGED <<local, hosted, logged>>
      BY <1>5 DEF LogRun
    <2>2. /\ UNCHANGED <<agentVars, settings, home>>
          /\ attempted' = [attempted EXCEPT ![r] = log]
          /\ attempted[r] = None
          /\ result[r] # None
          /\ logged[r] = None
      BY <1>5 DEF LogRun, CostsInv
    <2>3. home[r] \in Process
      BY <2>2 DEF CostsInv, AskedInv, Asked
    <2>4. /\ store = "sqlite" => ~settings.url
          /\ store = "supabase" => settings.url
          /\ selected' \in [Process -> {"unchecked", "supabase", "sqlite"}]
          /\ \A q \in Process : /\ selected'[q] = "sqlite" => ~settings'.url
                                /\ selected'[q] = "supabase" => settings'.url
      BY <2>1, <2>2, <2>3, Selecting
    <2>5. /\ \A q \in Run : q # r => attempted'[q] = attempted[q] /\ RowOf(q)' = RowOf(q)
          /\ attempted'[r] = log /\ log # None
          /\ RowOf(r)' = Row(r, log)
      <3>1. \A q \in Run : Bill(q)' = Bill(q)
        BY <2>2 DEF agentVars, Bill
      <3>2. result[r].cost = Bill(r)
        BY <2>2 DEF AgentInv, CostIsHeard
      <3>3. /\ \A q \in Run : q # r => attempted'[q] = attempted[q]
            /\ attempted'[r] = log
        BY <2>2 DEF CostsInv
      <3>4. QED
        BY <3>1, <3>2, <3>3 DEF RowOf, Row
    <2>6. /\ logged' \in [Run -> Log \cup {None}]
          /\ \A q \in Run : q # r => logged'[q] = logged[q]
          /\ logged'[r] \in {log, None}
          /\ ~settings.url => logged'[r] = None
      BY <2>1, <2>2, <2>4 DEF LogToSupabase, LogToSqlite, CostsInv
    <2>7. /\ settings.url => local' = local
          /\ local' = local \/ local' = local \cup {Row(r, log)}
      BY <2>1, <2>4 DEF LogToSupabase, LogToSqlite
    <2>8. \A row \in local' : \E q \in Run : attempted'[q] # None /\ row = RowOf(q)'
      <3> SUFFICES ASSUME NEW row \in local'
                   PROVE  \E q \in Run : attempted'[q] # None /\ row = RowOf(q)'
        OBVIOUS
      <3>1. CASE row \in local
        BY <2>2, <2>5, <3>1 DEF CostsInv
      <3>2. CASE row = Row(r, log)
        BY <2>5, <3>2
      <3>3. QED
        BY <2>7, <3>1, <3>2
    <2>9. ~settings'.url => \A q \in Run : logged'[q] # None => RowOf(q)' \in local'
      BY <2>2, <2>5, <2>6, <2>7 DEF CostsInv
    <2>10. \A q \in Run : logged'[q] # None => logged'[q] = attempted'[q]
      BY <2>5, <2>6 DEF CostsInv
    <2>11. /\ attempted' \in [Run -> Log \cup {None}]
           /\ \A q \in Run : attempted'[q] # None => result'[q] # None
      BY <2>2, <2>5 DEF CostsInv, agentVars
    <2>12. QED
      BY <2>2, <2>4, <2>6, <2>7, <2>8, <2>9, <2>10, <2>11 DEF CostsInv, agentVars
  <1>9. ASSUME NEW r \in Run, Returns(r)
        PROVE  CostsInv'
    <2>1. /\ UNCHANGED <<agentVars, settings, home, selected, local, attempted>>
          /\ logged' = [logged EXCEPT ![r] = attempted[r]]
      BY <1>9 DEF Returns
    <2>2. \A q \in Run : RowOf(q)' = RowOf(q)
      BY <2>1 DEF RowOf, Bill, agentVars
    <2>3. PICK row \in local : row.run = r
      BY <1>9 DEF Returns
    <2>4. PICK q \in Run : attempted[q] # None /\ row = RowOf(q)
      BY <2>3 DEF CostsInv
    <2>5. q = r
      BY <2>3, <2>4 DEF RowOf
    <2>6. /\ logged' \in [Run -> Log \cup {None}]
          /\ \A v \in Run : logged'[v] = IF v = r THEN attempted[r] ELSE logged[v]
      BY <2>1 DEF CostsInv
    <2>7. QED
      BY <2>1, <2>2, <2>3, <2>4, <2>5, <2>6 DEF CostsInv, agentVars
  <1>6. ASSUME NEW p \in Process, GetCampaignCosts(p)
        PROVE  CostsInv'
    <2>1. /\ UNCHANGED <<agentVars, settings, home, local, logged, attempted>>
          /\ \E store : Selects(p, store)
      BY <1>6 DEF GetCampaignCosts
    <2>2. QED
      BY <2>1, Selecting, CostsUnlogged DEF CostsInv, agentVars
  <1>7. CASE UNCHANGED vars
    <2>1. UNCHANGED <<agent, settings, home, selected, local, logged, attempted>>
      BY <1>7 DEF vars, agentVars, storeVars
    <2>2. QED
      BY <2>1, CostsUnlogged DEF CostsInv
  <1>8. QED
    BY <1>1, <1>2, <1>3, <1>4, <1>5, <1>6, <1>7, <1>9 DEF Next

\* A process that answers has no hosted store.
LEMMA CostsSuffice ==
    ASSUME CostsInv
    PROVE  CostsAreHonest
  <1> SUFFICES ASSUME NEW p \in Process, NEW t \in Tenant, NEW c \in Campaign, Answers(p)
               PROVE  LET log == [tenant |-> t, campaign |-> c] IN
                      /\ \A r \in Run : logged[r] = log =>
                           [run |-> r, log |-> log, cost |-> Bill(r)] \in Summed(t, c)
                      /\ \A row \in Summed(t, c) :
                           attempted[row.run] = log /\ row.cost = Bill(row.run)
    BY DEF CostsAreHonest
  <1> DEFINE log == [tenant |-> t, campaign |-> c]
  <1>1. ~settings.url
    BY DEF Answers, GetSupabase, Unchecked, CostsInv
  <1>2. log \in Log /\ log # None
    BY StoreAssumption DEF Log
  <1> HIDE DEF log
  <1>3. ASSUME NEW r \in Run, logged[r] = log
        PROVE  [run |-> r, log |-> log, cost |-> Bill(r)] \in Summed(t, c)
    <2>1. RowOf(r) \in local /\ attempted[r] = log
      BY <1>1, <1>2, <1>3 DEF CostsInv
    <2>2. QED
      BY <2>1 DEF RowOf, Summed, log
  <1>4. ASSUME NEW row \in Summed(t, c)
        PROVE  attempted[row.run] = log /\ row.cost = Bill(row.run)
    <2>1. row \in local /\ row.log = log
      BY DEF Summed, log
    <2>2. PICK r \in Run : row = RowOf(r)
      BY <2>1 DEF CostsInv
    <2>3. QED
      BY <2>1, <2>2 DEF RowOf
  <1>5. QED
    BY <1>3, <1>4 DEF log

\* Wherever the costs of a campaign are reported, no run logged for it is missing,
\* nothing else is there, and each is there at the price of all its answers.
THEOREM CostsStayHonest == Spec => []CostsAreHonest
  <1> DEFINE I == AgentInv /\ AskedInv /\ CostsInv
  <1>1. Init => I
    BY AgentInvInit, AskedInit, CostsInit DEF Init
  <1>2. I /\ [Next]_vars => I'
    BY StoreStep, AgentInvStep, AskedStep, CostsStep
  <1>3. I => CostsAreHonest
    BY CostsSuffice
  <1>4. QED
    BY <1>1, <1>2, <1>3, PTL DEF Spec
=============================================================================
