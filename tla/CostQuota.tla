------------------------------ MODULE CostQuota ------------------------------
(***************************************************************************)
(* cost.py for one tenant, with the cost attribution of instrumentation.py: *)
(* callers that ask assert_within_quota, call the provider, and on the way   *)
(* out of llm_call add the cost to the day's total and check it against the *)
(* rolling baseline.  Amounts are whole units.  The quota rows change, the   *)
(* day turns, a call's pricing may be unknown and its attribution may fail,  *)
(* which the fail-open boundary swallows.                                    *)
(***************************************************************************)
EXTENDS Naturals, FiniteSets, FiniteSetsExt, Functions

CONSTANTS
    Callers,            \* host threads, one provider call at a time each
    Costs,              \* what a priced call can cost
    InitialCap,         \* the global daily cap at the start
    Caps,               \* the caps a host may set
    Prior,              \* the spend of day 1, the calls begin on day 2
    WindowDays, Multiplier,     \* of the rolling baseline
    MaxDay, MaxCalls, MaxCapChanges, MaxUnattributed,       \* bounds
    Unset

Days == 1..MaxDay

ASSUME CostAssumption ==
    /\ IsFiniteSet(Callers)
    /\ IsFiniteSet(Costs) /\ Costs # {} /\ Costs \subseteq Nat \ {0}
    /\ Caps \union {InitialCap, Prior} \subseteq Nat /\ Unset \notin Nat
    /\ WindowDays \in Nat \ {0} /\ Multiplier \in Nat
    /\ MaxDay \in Nat \ {0, 1} /\ MaxCalls \in Nat

VARIABLES
    spend,              \* TenantDailySpend.total_usd by date, Unset without a row
    own, global,        \* the QuotaConfig rows: daily_cap_usd
    today,              \* the UTC date
    caller,             \* place and locals of each caller's current call
    alerts,             \* the dates a wisetraceloom_spend_anomaly was logged for
    paid, lost,         \* history: cost of all ended calls, of those unattributed
    highestCap,         \* history: the highest cap in force so far
    calls, capChanges, unattributed     \* history, for the bounds

quota == <<spend, own, global, today, caller, alerts, paid, lost, highestCap,
          calls, capChanges, unattributed>>
history == <<paid, lost, highestCap, calls, capChanges, unattributed>>

Idle == [pc |-> "idle", cap |-> 0, amount |-> 0, date |-> 1, spent |-> 0]

QuotaInit ==
    /\ spend = [d \in Days |-> IF d = 1 /\ Prior > 0 THEN Prior ELSE Unset]
    /\ own = Unset
    /\ global = InitialCap
    /\ today = 2
    /\ caller = [c \in Callers |-> Idle]
    /\ alerts = {}
    /\ paid = 0
    /\ lost = 0
    /\ highestCap = InitialCap
    /\ calls = 0
    /\ capChanges = 0
    /\ unattributed = 0

GetDailySpend(d) == IF spend[d] = Unset THEN 0 ELSE spend[d]

\* get_rolling_baseline, as the sum it divides by WindowDays; Unset when no
\* day of the window has a row.
Window(d) == {w \in Days : w < d /\ d - w <= WindowDays /\ spend[w] # Unset}

BaselineSum(d) ==
    IF Window(d) = {} THEN Unset
    ELSE SumFunction([w \in Window(d) |-> spend[w]])

\* today_spend > baseline * threshold_multiplier, with a baseline above 0.
Anomalous(spent, sum) ==
    /\ sum # Unset
    /\ sum > 0
    /\ spent * WindowDays > sum * Multiplier

-----------------------------------------------------------------------------
\* assert_within_quota: the tenant's cap, else the global one, then the total.
StartCall(c) ==
    /\ caller[c].pc = "idle"
    /\ calls < MaxCalls
    /\ calls' = calls + 1
    /\ caller' = [caller EXCEPT ![c] =
          IF own # Unset THEN [Idle EXCEPT !.pc = "spent", !.cap = own]
          ELSE [Idle EXCEPT !.pc = "global"]]
    /\ UNCHANGED <<spend, own, global, today, alerts, paid, lost, highestCap,
                   capChanges, unattributed>>

FindGlobalCap(c) ==
    /\ caller[c].pc = "global"
    /\ caller' = [caller EXCEPT ![c] = [Idle EXCEPT !.pc = "spent", !.cap = global]]
    /\ UNCHANGED <<spend, own, global, today, alerts, history>>

CheckQuotaAbove(c) ==                \* only above the cap, not at it
    /\ caller[c].pc = "spent"
    /\ caller' = [caller EXCEPT ![c] =
          IF GetDailySpend(today) > @.cap THEN Idle ELSE [Idle EXCEPT !.pc = "provider"]]
    /\ UNCHANGED <<spend, own, global, today, alerts, history>>

\* QuotaExceededError at or above the cap; the host makes no call.
CheckQuota(c) ==
    /\ caller[c].pc = "spent"
    /\ caller' = [caller EXCEPT ![c] =
          IF GetDailySpend(today) >= @.cap THEN Idle ELSE [Idle EXCEPT !.pc = "provider"]]
    /\ UNCHANGED <<spend, own, global, today, alerts, history>>

-----------------------------------------------------------------------------
\* _attribute_cost: estimate the cost, or leave it unattributed when no pricing
\* is known.
EndCall(c) ==
    /\ caller[c].pc = "provider"
    /\ \/ caller' = [caller EXCEPT ![c] = Idle] /\ UNCHANGED paid
       \/ \E amount \in Costs :
             /\ caller' = [caller EXCEPT ![c] =
                   [Idle EXCEPT !.pc = "record", !.amount = amount, !.date = today]]
             /\ paid' = paid + amount
    /\ UNCHANGED <<spend, own, global, today, alerts, lost, highestCap, calls,
                   capChanges, unattributed>>

RecordOverwrite(c) ==                \* ON CONFLICT sets the amount
    LET d == caller[c].date IN
    /\ caller[c].pc = "record"
    /\ spend' = [spend EXCEPT ![d] = caller[c].amount]
    /\ caller' = [caller EXCEPT ![c] = [Idle EXCEPT !.pc = "check"]]
    /\ UNCHANGED <<own, global, today, alerts, history>>

RecordUnchecked(c) ==                \* the anomaly check before the record
    LET d == caller[c].date IN
    /\ caller[c].pc = "record"
    /\ spend' = [spend EXCEPT ![d] = GetDailySpend(d) + caller[c].amount]
    /\ alerts' = IF Anomalous(GetDailySpend(d), BaselineSum(d))
                 THEN alerts \union {d} ELSE alerts
    /\ caller' = [caller EXCEPT ![c] = Idle]
    /\ UNCHANGED <<own, global, today, history>>

\* record_spend: one atomic upsert, for the date the call ended on.
RecordSpend(c) ==
    LET d == caller[c].date IN
    /\ caller[c].pc = "record"
    /\ spend' = [spend EXCEPT ![d] = GetDailySpend(d) + caller[c].amount]
    /\ caller' = [caller EXCEPT ![c] = [Idle EXCEPT !.pc = "check"]]
    /\ UNCHANGED <<own, global, today, alerts, history>>

\* check_spend_anomaly, which asks for the date anew: today's total, then the
\* baseline of the days before.
CheckSpend(c) ==
    /\ caller[c].pc = "check"
    /\ caller' = [caller EXCEPT ![c] =
          [Idle EXCEPT !.pc = "baseline", !.spent = GetDailySpend(today)]]
    /\ UNCHANGED <<spend, own, global, today, alerts, history>>

CheckBaseline(c) ==
    /\ caller[c].pc = "baseline"
    /\ alerts' = IF Anomalous(caller[c].spent, BaselineSum(today))
                 THEN alerts \union {today} ELSE alerts
    /\ caller' = [caller EXCEPT ![c] = Idle]
    /\ UNCHANGED <<spend, own, global, today, history>>

\* Any step of the attribution raises; fail_open_context swallows it.
AttributionFails(c) ==
    /\ caller[c].pc \in {"record", "check", "baseline"}
    /\ unattributed < MaxUnattributed
    /\ unattributed' = unattributed + 1
    /\ lost' = IF caller[c].pc = "record" THEN lost + caller[c].amount ELSE lost
    /\ caller' = [caller EXCEPT ![c] = Idle]
    /\ UNCHANGED <<spend, own, global, today, alerts, paid, highestCap, calls,
                   capChanges>>

-----------------------------------------------------------------------------
\* set_quota_config, of the tenant's cap or the global one.
SetQuota ==
    /\ capChanges < MaxCapChanges
    /\ capChanges' = capChanges + 1
    /\ \E cap \in Caps :
          /\ \/ own' = cap /\ UNCHANGED global
             \/ global' = cap /\ UNCHANGED own
          /\ highestCap' = IF cap > highestCap THEN cap ELSE highestCap
    /\ UNCHANGED <<spend, today, caller, alerts, paid, lost, calls, unattributed>>

Midnight ==
    /\ today < MaxDay
    /\ today' = today + 1
    /\ UNCHANGED <<spend, own, global, caller, alerts, history>>

AssertWithinQuota(c) == StartCall(c) \/ FindGlobalCap(c) \/ CheckQuota(c)

AttributeCost(c) ==
    EndCall(c) \/ RecordSpend(c) \/ CheckSpend(c) \/ CheckBaseline(c)

QuotaNext ==
    \/ \E c \in Callers : AssertWithinQuota(c) \/ AttributeCost(c) \/ AttributionFails(c)
    \/ SetQuota
    \/ Midnight

QuotaSpec == QuotaInit /\ [][QuotaNext]_quota

-----------------------------------------------------------------------------
QuotaTypeOK ==
    /\ spend \in [Days -> Nat \union {Unset}]
    /\ own \in Caps \union {Unset}
    /\ global \in Caps \union {InitialCap}
    /\ today \in Days
    /\ \A c \in Callers : /\ caller[c].pc \in {"idle", "global", "spent", "provider",
                                               "record", "check", "baseline"}
                          /\ caller[c].date \in 1..today
    /\ alerts \subseteq 1..today

\* The kill-switch cannot stop what is in flight, but nothing more: whatever
\* calls overlap, across midnight too, no day's total passes the highest cap
\* in force by more than one call of each caller.
OvershootBounded ==
    \A d \in 2..MaxDay :
        GetDailySpend(d) <= (IF highestCap = 0 THEN 0 ELSE highestCap - 1)
                                + Cardinality(Callers) * Max(Costs)

\* No concurrent attribution loses another's: what the days hold is what the
\* calls cost, but for what is not recorded yet and what failed.
SpendAddsUp ==
    LET pending == {c \in Callers : caller[c].pc = "record"} IN
    SumFunction([d \in Days |-> GetDailySpend(d)]) + lost
        + SumFunction([c \in pending |-> caller[c].amount]) = Prior + paid

\* The types, and the account of the days.
QuotaInv == QuotaTypeOK /\ SpendAddsUp

\* The last attribution of a day sees the whole total: once nothing runs, the
\* day has been alerted exactly if it is past its threshold, as long as the
\* date has not turned and nothing has failed.
AnomalyAlerted ==
    (\A c \in Callers : caller[c].pc = "idle") /\ today = 2 /\ unattributed = 0 =>
        (2 \in alerts <=> Anomalous(GetDailySpend(2), BaselineSum(2)))
=============================================================================
