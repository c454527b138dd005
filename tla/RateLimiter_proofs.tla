------------------------ MODULE RateLimiter_proofs -------------------------
(***************************************************************************)
(* Proofs about the rate limiter, for every period, limit and amount.      *)
(***************************************************************************)
EXTENDS RateLimiterAccounting, TLAPS

\* The part of the type invariant the accounting argument needs: the ledger
\* plays no role in it.
Counters ==
    /\ now \in Nat
    /\ LimiterTypeOK
    /\ spent \in Nat
    /\ forgiven \in Nat

AInv == Counters /\ CounterIsHonest

\* The counter the contract keeps in __RateLimiter_init, _addUsedAmount,
\* resetRateLimitAmount and resetAmountUsedInPeriod is what was withdrawn in the
\* open period less what the roles forgave, whatever they do and in any order.
THEOREM CounterHonesty == Spec => []CounterIsHonest
<1> USE RateLimiterAssumption, AccountingAssumption
<1>1. Init => AInv
  BY DEF Init, LimiterInit, AInv, Counters, LimiterTypeOK, CounterIsHonest
<1>2. AInv /\ [Next]_vars => AInv'
  <2> SUFFICES ASSUME AInv, [Next]_vars
               PROVE  AInv'
    OBVIOUS
  <2> USE DEF AInv, Counters, LimiterTypeOK, CounterIsHonest
  <2>1. ASSUME NEW a \in Amounts, Withdraw(a)
        PROVE  AInv'
    BY <2>1 DEF Withdraw, AddUsedAmount, Expired, counters
  <2>2. ASSUME NEW a \in Limits, SetLimit(a)
        PROVE  AInv'
    BY <2>2 DEF SetLimit, Excess, ResetRateLimitAmount, Expired
  <2>3. CASE ClearUsed
    BY <2>3 DEF ClearUsed, ResetAmountUsedInPeriod
  <2>4. CASE Tick
    BY <2>4 DEF Tick, counters, history
  <2>5. CASE UNCHANGED vars
    BY <2>5 DEF vars, counters, history
  <2> QED
    BY <2>1, <2>2, <2>3, <2>4, <2>5 DEF Next
<1>3. AInv => CounterIsHonest
  BY DEF AInv
<1> QED
  BY <1>1, <1>2, <1>3, PTL DEF Spec
=============================================================================
