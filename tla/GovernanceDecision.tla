------------------------- MODULE GovernanceDecision -------------------------
(***************************************************************************)
(* POST /governance/decision from its first guard to its answer:           *)
(* execute_governance_decision and run_cgc_prefilter (app/main.py),        *)
(* execute_governance_cycle (app/modules/loop/cgc_loop.py), the kill       *)
(* switch, the tenant action policies and the monthly quota, for the       *)
(* requests of one organisation.                                           *)
(*                                                                         *)
(* The components with modules of their own appear by what they promise:   *)
(* the breaker and the limiter by their verdicts, the audit trail and the  *)
(* proof by the one record they may leave.  Scores and thresholds are an   *)
(* outcome chosen freely.  Requests run on different instances and         *)
(* interleave at their database calls, with the tenant's and the           *)
(* operator's changes to switches, policies and plan in between.           *)
(*                                                                         *)
(* An instance whose pool could not be opened when it started serves from  *)
(* JSON files for the rest of its life; its requests are the Offline ones. *)
(*                                                                         *)
(* Definitions placed just before the one they vary (KillCheckFailsOpen    *)
(* before KillCheckFails) are plausible bugs; no specification uses them.  *)
(***************************************************************************)
EXTENDS Integers, FiniteSets

CONSTANTS Requests, Apps, Null,
          Offline,        \* requests served by instances without a database pool
          Limits,         \* monthly "decisions" limits of the plans, -1 unlimited
          DefaultLimit,   \* that of the plan assumed when the lookup fails
          MaxChanges,     \* bound: changes of switches, policies and plan
          MaxMonths,      \* bound: months after the first
          MaxCrashes      \* bound: instances that die in a request

Global == "GLOBAL"   \* GLOBAL_SCOPE
Unlimited == -1

ASSUME NullAssumption == Null \notin Requests \cup Apps /\ Global \notin Apps
ASSUME OfflineAssumption == Offline \subseteq Requests
ASSUME LimitsAssumption == Limits \subseteq Nat \cup {Unlimited} /\ DefaultLimit \in Limits
ASSUME BoundsAssumption == MaxChanges \in Nat /\ MaxMonths \in Nat /\ MaxCrashes \in Nat

VARIABLES switch,   \* cgc_guard.kill_switch_state: scopes whose switch is active
          policy,   \* cgc_tenant_action_policies: each app's rule for the action
          limit,    \* the limit of the organisation's plan
          month,    \* the billing period by the clock of the instance serving each request
          usage,    \* cgc_guard.tenant_usage: decisions counted in each period
          lock,     \* holder of the advisory lock on the counter
          req,      \* each request: where it is and what it has left behind
          changes, crashes

vars == <<switch, policy, limit, month, usage, lock, req, changes, crashes>>

Months == 0..MaxMonths
Rules == {"none", "BLOCK", "REQUIRE_HUMAN_REVIEW"}
Outcomes == {"none", "ALLOW", "DENY", "APPROVE", "REQUIRE_HUMAN", "REJECT", "ERROR"}
NotCharged == [month |-> 0, nth |-> 0]

Request ==
  [pc : {"new", "guards", "kill", "breaker", "policy", "evaluate", "save", "plan", "count_free",
         "lock", "count", "charge", "over_quota", "cycle", "sign", "answer", "done"},
   app : Apps \cup {Null},      \* the app_source bound to it, Null for "unknown"
   out : Outcomes,              \* the outcome so far, while it is under way
   plan : Limits,               \* the limit reserve_quota works with
   row : Outcomes,              \* outcome in its audit row
   proof : Outcomes \cup {"null", Null},  \* governance_outcome of its proof, Null when it has none
   reply : {"none", "refused", "failed", "approved", "denied", "lost"},
   \* history: the month looked at, when it was counted, record_violation calls, what has been
   \* against it ever since it came, and whether a switch denied it
   looked : Months,
   charged : [month : Months, nth : Nat],
   strikes : Nat,
   held : SUBSET {"switch", "policy"},
   killed : BOOLEAN]

TypeOK ==
  /\ switch \subseteq {Global} \cup Apps
  /\ policy \in [Apps -> Rules]
  /\ limit \in Limits
  /\ month \in [Requests -> Months]
  /\ usage \in [Months -> Nat]
  /\ lock \in Requests \cup {Null}
  /\ req \in [Requests -> Request]
  /\ changes \in 0..MaxChanges
  /\ crashes \in 0..MaxCrashes

New == [pc |-> "new", app |-> Null, out |-> "none", plan |-> DefaultLimit, row |-> "none",
        proof |-> Null, reply |-> "none", looked |-> 0, charged |-> NotCharged, strikes |-> 0, held |-> {},
        killed |-> FALSE]

Init ==
  /\ switch = {}
  /\ policy = [a \in Apps |-> "none"]
  /\ limit \in Limits
  /\ month = [r \in Requests |-> 0]
  /\ usage = [m \in Months |-> 0]
  /\ lock = Null
  /\ req = [r \in Requests |-> New]
  /\ changes = 0
  /\ crashes = 0

-----------------------------------------------------------------------------
(* What tenants and operators change meanwhile *)

Scopes(a) == {Global} \cup (IF a = Null THEN {} ELSE {a})
Stopped(a, active) == Scopes(a) \cap active # {}
Ruled(a, rules) == a # Null /\ rules[a] # "none"

\* What is against a request of app a, given the switches and the rules.
Against(a, active, rules) ==
  (IF Stopped(a, active) THEN {"switch"} ELSE {}) \cup (IF Ruled(a, rules) THEN {"policy"} ELSE {})

Change ==
  /\ changes < MaxChanges
  /\ changes' = changes + 1
  /\ req' = [r \in Requests |->
               [req[r] EXCEPT !.held = @ \cap Against(req[r].app, switch', policy')]]
  /\ UNCHANGED <<month, usage, lock, crashes>>

\* activate_kill_switch, deactivate_kill_switch
FlipSwitch(s) ==
  /\ switch' = IF s \in switch THEN switch \ {s} ELSE switch \cup {s}
  /\ UNCHANGED <<policy, limit>>
  /\ Change

\* set_tenant_action_policy, delete_tenant_action_policy
SetPolicy(a, p) ==
  /\ policy[a] # p
  /\ policy' = [policy EXCEPT ![a] = p]
  /\ UNCHANGED <<switch, limit>>
  /\ Change

UpgradePlan(l) ==
  /\ limit # l
  /\ limit' = l
  /\ UNCHANGED <<switch, policy>>
  /\ Change

\* Every instance computes the period by its own clock, _period.
NextMonth(r) ==
  /\ month[r] < MaxMonths
  /\ month' = [month EXCEPT ![r] = @ + 1]
  /\ UNCHANGED <<switch, policy, limit, usage, lock, req, changes, crashes>>

-----------------------------------------------------------------------------
(* Steps of control *)

Online(r) == r \notin Offline

config == <<switch, policy, limit, month, changes, crashes>>
shared == <<usage, lock, config>>

At(r, p) == req[r].pc = p
Goto(r, p) == req' = [req EXCEPT ![r].pc = p]

\* The request is over; what was against it matters only if it was approved.
Leave(r, how) ==
  req' = [req EXCEPT ![r].pc = "done", ![r].reply = how, ![r].out = "none",
                     ![r].held = IF how = "approved" THEN @ ELSE {}]

\* run_cgc_prefilter has its result; it is saved next.
Verdict(r, o, strike) ==
  req' = [req EXCEPT ![r].pc = "save", ![r].out = o, ![r].strikes = @ + strike]

-----------------------------------------------------------------------------
(* The handler, up to run_cgc_prefilter *)

Arrive(r, a) ==
  /\ At(r, "new")
  /\ req' = [req EXCEPT ![r].pc = "guards", ![r].app = a, ![r].held = Against(a, switch, policy)]
  /\ UNCHANGED shared

\* 429 of a rate limit, 400 of a payload that does not parse or is rejected.
Refuse(r) ==
  /\ At(r, "guards")
  /\ Leave(r, "refused")
  /\ UNCHANGED shared

\* The guards pass; begin_intercept is allowed to fail, as the seal is later.
BeginIntercept(r) ==
  /\ At(r, "guards")
  /\ Goto(r, "kill")
  /\ UNCHANGED shared

-----------------------------------------------------------------------------
(* run_cgc_prefilter *)

KillDeniesWithStrike(r) ==
  req' = [req EXCEPT ![r].pc = "save", ![r].out = "DENY", ![r].killed = TRUE, ![r].strikes = @ + 1]

KillDenies(r) == req' = [req EXCEPT ![r].pc = "save", ![r].out = "DENY", ![r].killed = TRUE]

\* is_killed: one SELECT over GLOBAL and the app's own scope.
KillCheckDenies(r) ==
  /\ At(r, "kill")
  /\ Online(r) /\ Stopped(req[r].app, switch)
  /\ KillDenies(r)
  /\ UNCHANGED shared

KillCheckPasses(r) ==
  /\ At(r, "kill")
  /\ Online(r) => ~ Stopped(req[r].app, switch)
  /\ Goto(r, "breaker")
  /\ UNCHANGED shared

KillCheckFailsOpen(r) ==
  /\ At(r, "kill")
  /\ Online(r)
  /\ Goto(r, "breaker")
  /\ UNCHANGED shared

\* The SELECT fails: FAIL_CLOSED.
KillCheckFails(r) ==
  /\ At(r, "kill")
  /\ Online(r)
  /\ KillDenies(r)
  /\ UNCHANGED shared

BreakerDenies(r) ==
  /\ At(r, "breaker")
  /\ Online(r)
  /\ Verdict(r, "DENY", 0)
  /\ UNCHANGED shared

BreakerPasses(r) ==
  /\ At(r, "breaker")
  /\ Goto(r, "policy")
  /\ UNCHANGED shared

\* evaluate_tenant_policy fires.
PolicyHits(r) ==
  /\ At(r, "policy")
  /\ Online(r) /\ Ruled(req[r].app, policy)
  /\ Verdict(r, IF policy[req[r].app] = "REQUIRE_HUMAN_REVIEW" THEN "REQUIRE_HUMAN" ELSE "DENY", 1)
  /\ UNCHANGED shared

PolicyMissesUnlessBlock(r) ==
  /\ At(r, "policy")
  /\ ~ (Online(r) /\ req[r].app # Null /\ policy[req[r].app] = "BLOCK")
  /\ Goto(r, "evaluate")
  /\ UNCHANGED shared

PolicyMisses(r) ==
  /\ At(r, "policy")
  /\ ~ (Online(r) /\ Ruled(req[r].app, policy))
  /\ Goto(r, "evaluate")
  /\ UNCHANGED shared

\* A failed lookup is as good as no policy.
PolicyFails(r) ==
  /\ At(r, "policy")
  /\ Online(r) /\ req[r].app # Null
  /\ req' = [req EXCEPT ![r].pc = "evaluate", ![r].held = @ \ {"policy"}]
  /\ UNCHANGED shared

\* The agent does not resolve, or PreFilter.evaluate short-circuits.
EvaluateDenies(r) ==
  /\ At(r, "evaluate")
  /\ Verdict(r, "DENY", 1)
  /\ UNCHANGED shared

EvaluateAllows(r) ==
  /\ At(r, "evaluate")
  /\ Verdict(r, "ALLOW", 0)
  /\ UNCHANGED shared

\* save_prefilter_result; anything but ALLOW goes straight to the answer.
Save(r) ==
  /\ At(r, "save")
  /\ Goto(r, IF req[r].out = "ALLOW" THEN "plan" ELSE "answer")
  /\ UNCHANGED shared

\* get_agent or save_prefilter_result raises: 500, and the intercept stays
\* pending.
Raise(r) ==
  /\ At(r, "evaluate") \/ At(r, "save")
  /\ Online(r)
  /\ Leave(r, "failed")
  /\ UNCHANGED shared

-----------------------------------------------------------------------------
(* reserve_quota *)

\* _get_plan, in a transaction of its own; a failed lookup gives the default.
ReadPlan(r, l) ==
  /\ At(r, "plan")
  /\ l \in {limit, DefaultLimit}
  /\ req' = [req EXCEPT ![r].plan = l, ![r].pc = IF l = Unlimited THEN "count_free" ELSE "lock"]
  /\ UNCHANGED shared

\* One more decision in the current period: the upsert and its commit.
Charge(r) ==
  /\ usage' = [usage EXCEPT ![month[r]] = @ + 1]
  /\ req' = [req EXCEPT ![r].pc = "cycle",
                     ![r].charged = [month |-> month[r], nth |-> usage[month[r]] + 1]]

\* _increment_usage of an unlimited plan: no lock, no limit.
ChargeFree(r) ==
  /\ At(r, "count_free")
  /\ Charge(r)
  /\ UNCHANGED <<lock, config>>

LockSkipped(r) ==
  /\ At(r, "lock")
  /\ lock' = r
  /\ Goto(r, "count")
  /\ UNCHANGED <<usage, config>>

Lock(r) ==
  /\ At(r, "lock")
  /\ lock = Null
  /\ lock' = r
  /\ Goto(r, "count")
  /\ UNCHANGED <<usage, config>>

Release(r) == lock' = IF lock = r THEN Null ELSE lock

\* The count of the current period is below the limit ...
CountUnder(r) ==
  /\ At(r, "count")
  /\ usage[month[r]] < req[r].plan
  /\ req' = [req EXCEPT ![r].pc = "charge", ![r].looked = month[r]]
  /\ UNCHANGED shared

\* ... or it is not.
CountOver(r) ==
  /\ At(r, "count")
  /\ usage[month[r]] >= req[r].plan
  /\ Goto(r, "over_quota")
  /\ Release(r)
  /\ UNCHANGED <<usage, config>>

ChargeReserved(r) ==
  /\ At(r, "charge")
  /\ Charge(r)
  /\ Release(r)
  /\ UNCHANGED config

\* Rolled back, and allowed without being counted.
QuotaFails(r) ==
  /\ req[r].pc \in {"count_free", "lock", "count", "charge"}
  /\ Goto(r, "cycle")
  /\ Release(r)
  /\ UNCHANGED <<usage, config>>

-----------------------------------------------------------------------------
(* The cycle *)

\* log_decision: the row is there, or it is not and a status says so; an
\* instance without a pool has nowhere to put it.
LogDecision(r, summary) ==
  \E row \in IF Online(r) THEN {"none", summary} ELSE {"none"} :
    req' = [req EXCEPT ![r].pc = "answer", ![r].row = row,
                       ![r].out = IF req[r].pc = "over_quota" THEN "none" ELSE @]

\* Quota exceeded: logged as a REJECT, answered without an outcome.
QuotaBlocked(r) ==
  /\ At(r, "over_quota")
  /\ LogDecision(r, "REJECT")
  /\ UNCHANGED shared

\* Modules, aggregation, _make_decision.
Decide(r, o) ==
  /\ At(r, "cycle")
  /\ req' = [req EXCEPT ![r].pc = "sign", ![r].out = o]
  /\ UNCHANGED shared

CycleFailsAfterLogging(r) ==
  /\ At(r, "cycle") \/ At(r, "sign")
  /\ req' = [req EXCEPT ![r].pc = "answer", ![r].out = "ERROR", ![r].row = req[r].out]
  /\ UNCHANGED shared

\* A module or the signature raises: _create_error_artifact, no audit row.
CycleFails(r) ==
  /\ At(r, "cycle") \/ At(r, "sign")
  /\ req' = [req EXCEPT ![r].pc = "answer", ![r].out = "ERROR"]
  /\ UNCHANGED shared

\* sign_artifact, the compliance report, log_decision.
SignAndLog(r) ==
  /\ At(r, "sign")
  /\ LogDecision(r, req[r].out)
  /\ UNCHANGED shared

-----------------------------------------------------------------------------
(* The answer *)

\* seal_intercept, which is allowed to fail, the webhook, the response.
AnswerWith(r, p) ==
  req' = [req EXCEPT ![r].pc = "done", ![r].proof = p, ![r].out = "none",
                     ![r].reply = IF req[r].out = "APPROVE" THEN "approved" ELSE "denied",
                     ![r].held = IF req[r].out = "APPROVE" THEN @ ELSE {}]

Proofs(r) == {Null, IF req[r].out = "none" THEN "null" ELSE req[r].out}

AnswerCountingAgain(r) ==
  /\ At(r, "answer")
  /\ \E p \in Proofs(r) : AnswerWith(r, p)
  /\ usage' = [usage EXCEPT ![month[r]] = IF req[r].out = "APPROVE" THEN @ + 1 ELSE @]
  /\ UNCHANGED <<lock, config>>

Answer(r) ==
  /\ At(r, "answer")
  /\ \E p \in Proofs(r) : AnswerWith(r, p)
  /\ UNCHANGED shared

\* The instance dies, or is cut off at its time limit.
Crash(r) ==
  /\ crashes < MaxCrashes
  /\ crashes' = crashes + 1
  /\ req[r].pc \notin {"new", "done"}
  /\ Leave(r, "lost")
  /\ Release(r)
  /\ UNCHANGED <<switch, policy, limit, month, usage, changes>>

Done ==
  /\ \A r \in Requests : At(r, "done")
  /\ UNCHANGED vars

-----------------------------------------------------------------------------
Guards(r) == Refuse(r) \/ BeginIntercept(r)

PreFilter(r) ==
  \/ KillCheckDenies(r) \/ KillCheckPasses(r) \/ KillCheckFails(r)
  \/ BreakerDenies(r) \/ BreakerPasses(r)
  \/ PolicyHits(r) \/ PolicyMisses(r) \/ PolicyFails(r)
  \/ EvaluateDenies(r) \/ EvaluateAllows(r) \/ Save(r) \/ Raise(r)

ReserveQuota(r) ==
  \/ \E l \in Limits : ReadPlan(r, l)
  \/ ChargeFree(r) \/ CountUnder(r) \/ CountOver(r) \/ ChargeReserved(r) \/ QuotaFails(r)

Cycle(r) ==
  \/ QuotaBlocked(r)
  \/ \E o \in {"APPROVE", "REQUIRE_HUMAN", "REJECT"} : Decide(r, o)
  \/ CycleFails(r) \/ SignAndLog(r) \/ Answer(r)

Environment ==
  \/ \E s \in {Global} \cup Apps : FlipSwitch(s)
  \/ \E a \in Apps, p \in Rules : SetPolicy(a, p)
  \/ \E l \in Limits : UpgradePlan(l)
  \/ \E r \in Requests : NextMonth(r)

Next ==
  \/ \E r \in Requests :
       \/ \E a \in Apps \cup {Null} : Arrive(r, a)
       \/ Guards(r) \/ PreFilter(r) \/ Lock(r) \/ ReserveQuota(r) \/ Cycle(r) \/ Crash(r)
  \/ Environment
  \/ Done

Spec == Init /\ [][Next]_vars

-----------------------------------------------------------------------------
(* Properties *)

\* A kill switch that is active from before a request came until it is
\* answered stops it, whoever flips which scope meanwhile and whatever the
\* database does to the check, on every instance that has its pool.
SwitchStops ==
  \A r \in Requests :
    Online(r) /\ "switch" \in req[r].held => req[r].reply # "approved"

\* "Fails CLOSED on a DB error for the kill switch" (kill_switch.py, 31), stated of every
\* instance.  The code does not keep this: one that found the database unreachable when
\* it started has no pool, and without a pool no switch is asked for (66).
SwitchStopsEverywhere ==
  \A r \in Requests : "switch" \in req[r].held => req[r].reply # "approved"

\* So does a policy of the tenant, of either type, unless its lookup fails
\* (tenant_policy.py fails open).
PolicyStops ==
  \A r \in Requests :
    Online(r) /\ "policy" \in req[r].held => req[r].reply # "approved"

\* A request counts once at most towards its actor's breaker, and one that a
\* switch denied does not: an emergency stop must not leave every actor
\* locked out for a cooldown after it is lifted.
StruckOnce ==
  \A r \in Requests : req[r].strikes <= 1 /\ (req[r].killed => req[r].strikes = 0)

Counted(m) == {r \in Requests : req[r].charged.nth > 0 /\ req[r].charged.month = m}

\* A decision counted as the n-th of the month that was looked at for it had a limit of
\* n or more when its plan was read, across concurrent requests, changes of plan and the
\* turn of the month on one instance before another.  (One whose clock turned between
\* SELECT and INSERT was let in by the month before.)  In a month in which decisions were
\* counted for an unlimited plan, nothing is promised.
QuotaBound ==
  \A m \in Months :
    (\A r \in Counted(m) : req[r].plan # Unlimited) =>
      \A r \in Counted(m) : req[r].looked = m => req[r].charged.nth <= req[r].plan

\* The stored count of a month is the number of requests counted in it: none
\* is lost, and none counted twice (the two-step pattern reserve_quota
\* replaced, cgc_loop.py 421-430).
UsageIsCounted == \A m \in Months : usage[m] = Cardinality(Counted(m))

\* What is recorded of a decision agrees: its audit row, its proof and its
\* answer are of an approval, or none of them is.
RecordsAgree ==
  \A r \in Requests :
    LET q == req[r]
        answered == q.reply \in {"approved", "denied"}
    IN  /\ q.row # "none" /\ answered => (q.row = "APPROVE" <=> q.reply = "approved")
        /\ q.proof # Null /\ answered => (q.proof = "APPROVE" <=> q.reply = "approved")
        /\ q.row # "none" /\ q.proof # Null => (q.row = "APPROVE" <=> q.proof = "APPROVE")
=============================================================================
