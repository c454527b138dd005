---------------------------- MODULE RateLimiter ----------------------------
(***************************************************************************)
(* contracts/contracts/messageService/lib/RateLimiter.sol: the amount of   *)
(* ether that may leave the bridge per period.  A period opens lazily,     *)
(* with the first use after the previous one has ended.                    *)
(*                                                                         *)
(* The message services instantiate this module: AddUsedAmount is then a   *)
(* conjunct of the action that calls _addUsedAmount.  A revert is the      *)
(* absence of a step.                                                      *)
(***************************************************************************)
EXTENDS Clock

CONSTANTS
    Period,     \* periodInSeconds
    Limits      \* the values limitInWei may be given

ASSUME RateLimiterAssumption ==
    /\ Period \in Nat \ {0}     \* __RateLimiter_init: PeriodIsZero
    /\ Limits \subseteq Nat

VARIABLES
    limitInWei,
    currentPeriodEnd,
    currentPeriodAmountInWei

counters == <<limitInWei, currentPeriodEnd, currentPeriodAmountInWei>>

\* __RateLimiter_init: LimitIsZero.
LimiterInit ==
    /\ limitInWei \in Limits \ {0}
    /\ currentPeriodEnd = now + Period
    /\ currentPeriodAmountInWei = 0

\* The stored period is over: the next use opens another.
Expired == currentPeriodEnd < now

\* Mutant: the amount already used is left out of the sum that is stored.
AddUsedAmountForgetful(usedAmount) ==
    IF usedAmount = 0
    THEN UNCHANGED counters
    ELSE /\ usedAmount <= limitInWei
         /\ currentPeriodAmountInWei' = usedAmount
         /\ currentPeriodEnd' = IF Expired THEN now + Period ELSE currentPeriodEnd
         /\ UNCHANGED limitInWei

\* Mutant: a new period ends as soon as it is opened.
AddUsedAmountShortPeriod(usedAmount) ==
    IF usedAmount = 0
    THEN UNCHANGED counters
    ELSE LET total == usedAmount + IF Expired THEN 0 ELSE currentPeriodAmountInWei
         IN  /\ total <= limitInWei
             /\ currentPeriodAmountInWei' = total
             /\ currentPeriodEnd' = IF Expired THEN now ELSE currentPeriodEnd
             /\ UNCHANGED limitInWei

\* _addUsedAmount: an amount of zero is ignored, a breached limit reverts.
AddUsedAmount(usedAmount) ==
    IF usedAmount = 0
    THEN UNCHANGED counters
    ELSE LET total == usedAmount + IF Expired THEN 0 ELSE currentPeriodAmountInWei
         IN  /\ total <= limitInWei
             /\ currentPeriodAmountInWei' = total
             /\ currentPeriodEnd' = IF Expired THEN now + Period ELSE currentPeriodEnd
             /\ UNCHANGED limitInWei

\* Mutant: a used amount above the new limit is kept.
ResetRateLimitAmountKeepsUsed(amount) ==
    /\ limitInWei' = amount
    /\ currentPeriodEnd' = IF Expired THEN now + Period ELSE currentPeriodEnd
    /\ currentPeriodAmountInWei' = IF Expired THEN 0 ELSE currentPeriodAmountInWei

\* resetRateLimitAmount (RATE_LIMIT_SETTER_ROLE): a used amount above the new
\* limit is lowered to it, and an expired period is replaced by a fresh one.
ResetRateLimitAmount(amount) ==
    /\ limitInWei' = amount
    /\ currentPeriodEnd' = IF Expired THEN now + Period ELSE currentPeriodEnd
    /\ currentPeriodAmountInWei' =
          IF Expired THEN 0
          ELSE IF amount < currentPeriodAmountInWei THEN amount
          ELSE currentPeriodAmountInWei

\* resetAmountUsedInPeriod (USED_RATE_LIMIT_RESETTER_ROLE).
ResetAmountUsedInPeriod ==
    /\ currentPeriodAmountInWei' = 0
    /\ UNCHANGED <<limitInWei, currentPeriodEnd>>

\* The used amount never exceeds the limit in force, not even after the limit
\* was lowered.
LimiterTypeOK ==
    /\ limitInWei \in Nat
    /\ currentPeriodEnd \in Nat
    /\ currentPeriodAmountInWei \in 0 .. limitInWei

=============================================================================
