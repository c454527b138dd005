----------------------- MODULE RateLimiterAccounting -----------------------
(***************************************************************************)
(* The rate limiter on its own, driven by withdrawals and by the two       *)
(* roles, with a history of what it really let through.                    *)
(***************************************************************************)
EXTENDS RateLimiter, Sequences, SequencesExt

CONSTANTS
    Amounts,    \* what one withdrawal may take (fee + value)
    MaxTime,    \* bound on block.timestamp
    MaxSpent,   \* bound on what one period lets through, forgiveness included
    MaxLedger   \* bound on the withdrawals between two acts of the roles

ASSUME AccountingAssumption ==
    /\ Amounts \subseteq Nat
    /\ MaxTime \in Nat
    /\ MaxSpent \in Nat
    /\ MaxLedger \in Nat

VARIABLES
    spent,      \* withdrawn since the open period was opened
    forgiven,   \* taken off the counter by the roles since then
    ledger      \* the withdrawals, with their times, since a role last acted

history == <<spent, forgiven, ledger>>
vars == <<now, counters, history>>

Init ==
    /\ now = 0
    /\ LimiterInit
    /\ spent = 0
    /\ forgiven = 0
    /\ ledger = <<>>

Withdraw(amount) ==
    /\ spent < MaxSpent /\ Len(ledger) < MaxLedger
    /\ AddUsedAmount(amount)
    /\ spent' = amount + IF Expired /\ amount # 0 THEN 0 ELSE spent
    /\ forgiven' = IF Expired /\ amount # 0 THEN 0 ELSE forgiven
    /\ ledger' = Append(ledger, [at |-> now, amount |-> amount])
    /\ UNCHANGED now

\* What was used above a new limit: lowering the limit forgives it, no more.
Excess(limit) ==
    IF limit < currentPeriodAmountInWei THEN currentPeriodAmountInWei - limit ELSE 0

SetLimit(amount) ==
    /\ ResetRateLimitAmount(amount)
    /\ spent' = IF Expired THEN 0 ELSE spent
    /\ forgiven' = IF Expired THEN 0 ELSE forgiven + Excess(amount)
    /\ ledger' = <<>>
    /\ UNCHANGED now

ClearUsed ==
    /\ ResetAmountUsedInPeriod
    /\ forgiven' = forgiven + currentPeriodAmountInWei
    /\ ledger' = <<>>
    /\ UNCHANGED <<now, spent>>

Tick ==
    /\ now' \in now + 1 .. MaxTime
    /\ UNCHANGED <<counters, history>>

Next ==
    \/ \E a \in Amounts : Withdraw(a)
    \/ \E a \in Limits : SetLimit(a)
    \/ ClearUsed
    \/ Tick

Spec == Init /\ [][Next]_vars

-----------------------------------------------------------------------------

TypeOK ==
    /\ now \in Nat
    /\ LimiterTypeOK
    /\ spent \in Nat
    /\ forgiven \in Nat
    /\ ledger \in Seq([at : Nat, amount : Amounts])

\* The counter of the open period is exactly what was withdrawn in it less what
\* the roles took off, through every mix of lazily opened periods
\* (_addUsedAmount), lowered limits and cleared counters.
CounterIsHonest == currentPeriodAmountInWei = spent - forgiven

WithdrawnIn(from, to) ==
    FoldSeq(LAMBDA w, sum : sum + IF w.at \in from .. to THEN w.amount ELSE 0, 0, ledger)

\* While no role acts, no window of one period length, wherever it starts, lets
\* more than two limits through: the limiter's periods are fixed windows, so a
\* burst may straddle the end of one and the lazily opened start of the next,
\* and never three of them.
WindowBound ==
    \A t \in 0 .. now : WithdrawnIn(t, t + Period) <= 2 * limitInWei

=============================================================================
