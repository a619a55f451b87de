---------------------- MODULE GovernanceDecisionProofs ----------------------
(***************************************************************************)
(* What GovernanceDecision guarantees for any number of requests, apps,    *)
(* plans, changes, months and crashes.  The inductive invariant has two    *)
(* parts: what holds of each request on its own (RequestOK, a predicate of *)
(* its record and of the switches and rules), and what ties the requests   *)
(* together through the counter of their organisation (QuotaInv).          *)
(***************************************************************************)
EXTENDS GovernanceDecision, FiniteSetTheorems, TLAPS

Early == {"new", "guards", "kill", "breaker", "policy", "evaluate"}
Late == {"cycle", "sign", "answer", "done"}

\* A request a switch has been against all along has not passed is_killed,
\* or was denied there.
SwitchHolds(r, q) ==
  Online(r) /\ "switch" \in q.held =>
    \/ q.pc \in {"new", "guards", "kill"}
    \/ q.pc \in {"save", "answer"} /\ q.out = "DENY"

\* The same of the policies, which come two checks later.
PolicyHolds(r, q) ==
  Online(r) /\ "policy" \in q.held =>
    \/ q.pc \in {"new", "guards", "kill", "breaker", "policy"}
    \/ q.pc \in {"save", "answer"} /\ q.out \in {"DENY", "REQUIRE_HUMAN"}

\* Strikes come with a verdict, and there is one verdict.
StrikesHold(q) ==
  /\ q.pc \in Early => q.strikes = 0 /\ ~ q.killed
  /\ q.strikes <= 1
  /\ q.killed => q.strikes = 0

\* Nothing is recorded before the answer, and then what agrees with it.
RecordsHold(q) ==
  /\ q.pc # "done" => q.proof = Null /\ q.reply = "none"
  /\ q.pc \notin {"answer", "done"} => q.row = "none"
  /\ q.pc = "answer" /\ q.row # "none" => (q.row = "APPROVE" <=> q.out = "APPROVE")
  /\ q.row # "none" /\ q.reply \in {"approved", "denied"} => (q.row = "APPROVE" <=> q.reply = "approved")
  /\ q.proof # Null => /\ q.reply \in {"approved", "denied"}
                       /\ q.proof = "APPROVE" <=> q.reply = "approved"

\* Which limit leads where in reserve_quota, which counts once and last.
PlanHolds(q) ==
  /\ q.pc \in {"lock", "count", "charge"} => q.plan # Unlimited
  /\ q.pc = "count_free" => q.plan = Unlimited
  /\ q.charged.nth > 0 => q.pc \in Late

RequestOK(r, q, active, rules) ==
  /\ q \in Request
  /\ q.held \subseteq Against(q.app, active, rules)
  /\ SwitchHolds(r, q)
  /\ PolicyHolds(r, q)
  /\ StrikesHold(q)
  /\ RecordsHold(q)
  /\ PlanHolds(q)

RequestsOK == \A r \in Requests : RequestOK(r, req[r], switch, policy)

LockHeld == \A r \in Requests : req[r].pc \in {"count", "charge"} => lock = r

Unbounded(m) == \E r \in Counted(m) : req[r].plan = Unlimited

\* What the SELECT saw of its month still holds at the INSERT: the lock keeps
\* that counter, whatever month the INSERT then is of.
RoomLeft ==
  \A m \in Months : \A r \in Requests :
    req[r].pc = "charge" /\ req[r].looked = m => Unbounded(m) \/ usage[m] < req[r].plan

CountedIsFinite == \A m \in Months : IsFiniteSet(Counted(m))

QuotaInv == LockHeld /\ RoomLeft /\ QuotaBound /\ CountedIsFinite /\ UsageIsCounted

Inv == TypeOK /\ RequestsOK /\ QuotaInv

USE NullAssumption, OfflineAssumption, LimitsAssumption, BoundsAssumption

-----------------------------------------------------------------------------
(* One request: each of its moves keeps RequestOK *)

Pcs == {"new", "guards", "kill", "breaker", "policy", "evaluate", "save", "plan", "count_free",
        "lock", "count", "charge", "over_quota", "cycle", "sign", "answer", "done"}
Replies == {"none", "refused", "failed", "approved", "denied", "lost"}

\* The types of the fields of a request.
LEMMA Fields ==
  ASSUME NEW q \in Request
  PROVE  /\ q.pc \in Pcs /\ q.app \in Apps \cup {Null} /\ q.out \in Outcomes /\ q.plan \in Limits
         /\ q.row \in Outcomes /\ q.proof \in Outcomes \cup {"null", Null} /\ q.reply \in Replies
         /\ q.looked \in Months /\ q.charged \in [month : Months, nth : Nat] /\ q.strikes \in Nat
         /\ q.held \in SUBSET {"switch", "policy"} /\ q.killed \in BOOLEAN
  BY DEF Request, Pcs, Replies

\* A request that has moved on, with an outcome, is one.
LEMMA MovesOn ==
  ASSUME NEW q \in Request, NEW pc \in Pcs, NEW out \in Outcomes
  PROVE  [q EXCEPT !.pc = pc, !.out = out] \in Request
  BY DEF Request, Pcs

\* Control moves on and nothing else, guarded where the invariant needs it.
LEMMA GotoOK ==
  ASSUME NEW r \in Requests, NEW active, NEW rules, NEW q, RequestOK(r, q, active, rules),
         NEW pc,
         \/ q.pc = "guards" /\ pc = "kill"
         \/ q.pc = "kill" /\ pc = "breaker" /\ (Online(r) => ~ Stopped(q.app, active))
         \/ q.pc = "breaker" /\ pc = "policy"
         \/ q.pc = "policy" /\ pc = "evaluate" /\ ~ (Online(r) /\ Ruled(q.app, rules))
         \/ q.pc = "save" /\ q.out = "ALLOW" /\ pc = "plan"
         \/ q.pc = "save" /\ q.out # "ALLOW" /\ pc = "answer"
         \/ q.pc = "lock" /\ pc = "count"
         \/ q.pc = "count" /\ pc = "over_quota"
         \/ q.pc \in {"count_free", "lock", "count", "charge"} /\ pc = "cycle",
         NEW n, n = [q EXCEPT !.pc = pc]
  PROVE  RequestOK(r, n, active, rules)
<1>1. /\ n.pc = pc /\ n.app = q.app /\ n.out = q.out /\ n.plan = q.plan
      /\ n.row = q.row /\ n.proof = q.proof /\ n.reply = q.reply /\ n.charged = q.charged
      /\ n.strikes = q.strikes /\ n.held = q.held /\ n.killed = q.killed
  BY DEF RequestOK, Request
<1>2. n \in Request
  <2>1. q \in Request
    BY DEF RequestOK
  <2> QED
    BY <2>1 DEF Request, Outcomes
<1> QED
  BY <1>1, <1>2, Fields DEF RequestOK, SwitchHolds, PolicyHolds, StrikesHold, RecordsHold, PlanHolds,
     Against, Early, Late, Outcomes

\* A request comes, with what is against it now.
LEMMA ArriveOK ==
  ASSUME NEW r \in Requests, NEW active, NEW rules, NEW q, RequestOK(r, q, active, rules),
         NEW a \in Apps \cup {Null},
         q.pc = "new",
         NEW n, n = [q EXCEPT !.pc = "guards", !.app = a, !.held = Against(a, active, rules)]
  PROVE  RequestOK(r, n, active, rules)
<1>1. /\ n.pc = "guards" /\ n.app = a /\ n.out = q.out /\ n.plan = q.plan
      /\ n.row = q.row /\ n.proof = q.proof /\ n.reply = q.reply /\ n.charged = q.charged
      /\ n.strikes = q.strikes /\ n.held = Against(a, active, rules) /\ n.killed = q.killed
  BY DEF RequestOK, Request
<1>2. n \in Request
  <2>1. Against(a, active, rules) \in SUBSET {"switch", "policy"}
    BY DEF Against
  <2> QED
    BY <2>1 DEF RequestOK, Request
<1> QED
  BY <1>1, <1>2, Fields DEF RequestOK, SwitchHolds, PolicyHolds, StrikesHold, RecordsHold, PlanHolds,
     Against, Early, Late, Outcomes

\* It is over without an approval.
LEMMA LeaveOK ==
  ASSUME NEW r \in Requests, NEW active, NEW rules, NEW q, RequestOK(r, q, active, rules),
         NEW how \in {"refused", "failed", "lost"},
         q.pc # "done",
         NEW n, n = [q EXCEPT !.pc = "done", !.reply = how, !.out = "none", !.held = {}]
  PROVE  RequestOK(r, n, active, rules)
<1>1. /\ n.pc = "done" /\ n.app = q.app /\ n.out = "none" /\ n.plan = q.plan
      /\ n.row = q.row /\ n.proof = q.proof /\ n.reply = how /\ n.charged = q.charged
      /\ n.strikes = q.strikes /\ n.held = {} /\ n.killed = q.killed
  BY DEF RequestOK, Request
<1>2. n \in Request
  <2>1. q \in Request
    BY DEF RequestOK
  <2> QED
    BY <2>1 DEF Request, Outcomes
<1> QED
  BY <1>1, <1>2, Fields DEF RequestOK, SwitchHolds, PolicyHolds, StrikesHold, RecordsHold, PlanHolds,
     Against, Early, Late, Outcomes

\* A switch denies it.
LEMMA KillDeniesOK ==
  ASSUME NEW r \in Requests, NEW active, NEW rules, NEW q, RequestOK(r, q, active, rules),
         q.pc = "kill",
         NEW n, n = [q EXCEPT !.pc = "save", !.out = "DENY", !.killed = TRUE]
  PROVE  RequestOK(r, n, active, rules)
<1>1. /\ n.pc = "save" /\ n.app = q.app /\ n.out = "DENY" /\ n.plan = q.plan
      /\ n.row = q.row /\ n.proof = q.proof /\ n.reply = q.reply /\ n.charged = q.charged
      /\ n.strikes = q.strikes /\ n.held = q.held /\ n.killed = TRUE
  BY DEF RequestOK, Request
<1>2. n \in Request
  <2>1. q \in Request
    BY DEF RequestOK
  <2> QED
    BY <2>1 DEF Request, Outcomes
<1> QED
  BY <1>1, <1>2, Fields DEF RequestOK, SwitchHolds, PolicyHolds, StrikesHold, RecordsHold, PlanHolds,
     Against, Early, Late, Outcomes

\* PreFilter denies it, with or without a strike, or lets it pass.
LEMMA VerdictOK ==
  ASSUME NEW r \in Requests, NEW active, NEW rules, NEW q, RequestOK(r, q, active, rules),
         NEW o, NEW strike,
         \/ q.pc = "breaker" /\ o = "DENY" /\ strike = 0
         \/ q.pc = "policy" /\ o \in {"DENY", "REQUIRE_HUMAN"} /\ strike = 1
         \/ q.pc = "evaluate" /\ o = "DENY" /\ strike = 1
         \/ q.pc = "evaluate" /\ o = "ALLOW" /\ strike = 0,
         NEW n, n = [q EXCEPT !.pc = "save", !.out = o, !.strikes = @ + strike]
  PROVE  RequestOK(r, n, active, rules)
<1>1. /\ n.pc = "save" /\ n.app = q.app /\ n.out = o /\ n.plan = q.plan
      /\ n.row = q.row /\ n.proof = q.proof /\ n.reply = q.reply /\ n.charged = q.charged
      /\ n.strikes = q.strikes + strike /\ n.held = q.held /\ n.killed = q.killed
  BY DEF RequestOK, Request
<1>2. n \in Request
  <2>1. o \in Outcomes /\ q.strikes + strike \in Nat
    BY Fields DEF RequestOK, Outcomes
  <2> QED
    BY <2>1 DEF RequestOK, Request
<1> QED
  BY <1>1, <1>2, Fields DEF RequestOK, SwitchHolds, PolicyHolds, StrikesHold, RecordsHold, PlanHolds,
     Against, Early, Late, Outcomes

\* The lookup of the policy fails.
LEMMA PolicyFailsOK ==
  ASSUME NEW r \in Requests, NEW active, NEW rules, NEW q, RequestOK(r, q, active, rules),
         q.pc = "policy",
         NEW n, n = [q EXCEPT !.pc = "evaluate", !.held = @ \ {"policy"}]
  PROVE  RequestOK(r, n, active, rules)
<1>1. /\ n.pc = "evaluate" /\ n.app = q.app /\ n.out = q.out /\ n.plan = q.plan
      /\ n.row = q.row /\ n.proof = q.proof /\ n.reply = q.reply /\ n.charged = q.charged
      /\ n.strikes = q.strikes /\ n.held = q.held \ {"policy"} /\ n.killed = q.killed
  BY DEF RequestOK, Request
<1>2. n \in Request
  <2>1. q \in Request
    BY DEF RequestOK
  <2> QED
    BY <2>1 DEF Request, Outcomes
<1> QED
  BY <1>1, <1>2, Fields DEF RequestOK, SwitchHolds, PolicyHolds, StrikesHold, RecordsHold, PlanHolds,
     Against, Early, Late, Outcomes

\* It has its limit.
LEMMA ReadPlanOK ==
  ASSUME NEW r \in Requests, NEW active, NEW rules, NEW q, RequestOK(r, q, active, rules),
         NEW l \in Limits, NEW pc,
         q.pc = "plan",
         pc = IF l = Unlimited THEN "count_free" ELSE "lock",
         NEW n, n = [q EXCEPT !.plan = l, !.pc = pc]
  PROVE  RequestOK(r, n, active, rules)
<1>1. /\ n.pc = pc /\ n.app = q.app /\ n.out = q.out /\ n.plan = l
      /\ n.row = q.row /\ n.proof = q.proof /\ n.reply = q.reply /\ n.charged = q.charged
      /\ n.strikes = q.strikes /\ n.held = q.held /\ n.killed = q.killed
  BY DEF RequestOK, Request
<1>2. n \in Request
  <2>1. pc \in {"count_free", "lock"}
    OBVIOUS
  <2> QED
    BY <2>1 DEF RequestOK, Request
<1> QED
  BY <1>1, <1>2, Fields DEF RequestOK, SwitchHolds, PolicyHolds, StrikesHold, RecordsHold, PlanHolds,
     Against, Early, Late, Outcomes

\* There is room in the month it has looked at.
LEMMA CountUnderOK ==
  ASSUME NEW r \in Requests, NEW active, NEW rules, NEW q, RequestOK(r, q, active, rules),
         NEW m \in Months,
         q.pc = "count",
         NEW n, n = [q EXCEPT !.pc = "charge", !.looked = m]
  PROVE  RequestOK(r, n, active, rules)
<1>1. /\ n.pc = "charge" /\ n.app = q.app /\ n.out = q.out /\ n.plan = q.plan
      /\ n.row = q.row /\ n.proof = q.proof /\ n.reply = q.reply /\ n.charged = q.charged
      /\ n.strikes = q.strikes /\ n.held = q.held /\ n.killed = q.killed
  BY DEF RequestOK, Request
<1>2. n \in Request
  BY DEF RequestOK, Request
<1> QED
  BY <1>1, <1>2, Fields DEF RequestOK, SwitchHolds, PolicyHolds, StrikesHold, RecordsHold, PlanHolds,
     Against, Early, Late, Outcomes

\* It is counted.
LEMMA ChargeOK ==
  ASSUME NEW r \in Requests, NEW active, NEW rules, NEW q, RequestOK(r, q, active, rules),
         NEW c \in [month : Months, nth : Nat],
         q.pc \in {"count_free", "charge"},
         NEW n, n = [q EXCEPT !.pc = "cycle", !.charged = c]
  PROVE  RequestOK(r, n, active, rules)
<1>1. /\ n.pc = "cycle" /\ n.app = q.app /\ n.out = q.out /\ n.plan = q.plan
      /\ n.row = q.row /\ n.proof = q.proof /\ n.reply = q.reply /\ n.charged = c
      /\ n.strikes = q.strikes /\ n.held = q.held /\ n.killed = q.killed
  BY DEF RequestOK, Request
<1>2. n \in Request
  <2>1. q \in Request
    BY DEF RequestOK
  <2> QED
    BY <2>1 DEF Request, Outcomes
<1> QED
  BY <1>1, <1>2, Fields DEF RequestOK, SwitchHolds, PolicyHolds, StrikesHold, RecordsHold, PlanHolds,
     Against, Early, Late, Outcomes

\* The cycle has an outcome.
LEMMA DecideOK ==
  ASSUME NEW r \in Requests, NEW active, NEW rules, NEW q, RequestOK(r, q, active, rules),
         NEW o \in {"APPROVE", "REQUIRE_HUMAN", "REJECT"},
         q.pc = "cycle",
         NEW n, n = [q EXCEPT !.pc = "sign", !.out = o]
  PROVE  RequestOK(r, n, active, rules)
<1>1. /\ n.pc = "sign" /\ n.app = q.app /\ n.out = o /\ n.plan = q.plan
      /\ n.row = q.row /\ n.proof = q.proof /\ n.reply = q.reply /\ n.charged = q.charged
      /\ n.strikes = q.strikes /\ n.held = q.held /\ n.killed = q.killed
  BY DEF RequestOK, Request
<1>2. n \in Request
  <2>1. q \in Request
    BY DEF RequestOK
  <2> QED
    BY <2>1 DEF Request, Outcomes
<1> QED
  BY <1>1, <1>2, Fields DEF RequestOK, SwitchHolds, PolicyHolds, StrikesHold, RecordsHold, PlanHolds,
     Against, Early, Late, Outcomes

\* The cycle fails.
LEMMA CycleFailsOK ==
  ASSUME NEW r \in Requests, NEW active, NEW rules, NEW q, RequestOK(r, q, active, rules),
         q.pc \in {"cycle", "sign"},
         NEW n, n = [q EXCEPT !.pc = "answer", !.out = "ERROR"]
  PROVE  RequestOK(r, n, active, rules)
<1>1. /\ n.pc = "answer" /\ n.app = q.app /\ n.out = "ERROR" /\ n.plan = q.plan
      /\ n.row = q.row /\ n.proof = q.proof /\ n.reply = q.reply /\ n.charged = q.charged
      /\ n.strikes = q.strikes /\ n.held = q.held /\ n.killed = q.killed
  BY DEF RequestOK, Request
<1>2. n \in Request
  <2>1. q \in Request /\ "answer" \in Pcs /\ "ERROR" \in Outcomes
    BY DEF RequestOK, Pcs, Outcomes
  <2> QED
    BY <2>1, MovesOn
<1> QED
  BY <1>1, <1>2, Fields DEF RequestOK, SwitchHolds, PolicyHolds, StrikesHold, RecordsHold, PlanHolds,
     Against, Early, Late, Outcomes

\* It is logged, or not.
LEMMA LogOK ==
  ASSUME NEW r \in Requests, NEW active, NEW rules, NEW q, RequestOK(r, q, active, rules),
         NEW w \in Outcomes, NEW o \in Outcomes,
         \/ q.pc = "sign" /\ o = q.out /\ w \in {"none", q.out}
         \/ q.pc = "over_quota" /\ o = "none" /\ w \in {"none", "REJECT"},
         NEW n, n = [q EXCEPT !.pc = "answer", !.row = w, !.out = o]
  PROVE  RequestOK(r, n, active, rules)
<1>1. /\ n.pc = "answer" /\ n.app = q.app /\ n.out = o /\ n.plan = q.plan
      /\ n.row = w /\ n.proof = q.proof /\ n.reply = q.reply /\ n.charged = q.charged
      /\ n.strikes = q.strikes /\ n.held = q.held /\ n.killed = q.killed
  BY DEF RequestOK, Request
<1>2. n \in Request
  BY DEF RequestOK, Request
<1> QED
  BY <1>1, <1>2, Fields DEF RequestOK, SwitchHolds, PolicyHolds, StrikesHold, RecordsHold, PlanHolds,
     Against, Early, Late, Outcomes

Weakened(q, active, rules) == [q EXCEPT !.held = @ \cap Against(q.app, active, rules)]

\* What is against it is less than before.
LEMMA HeldOK ==
  ASSUME NEW r \in Requests, NEW active, NEW rules, NEW q, RequestOK(r, q, active, rules),
         NEW active2, NEW rules2,
         NEW n, n = Weakened(q, active2, rules2)
  PROVE  RequestOK(r, n, active2, rules2) /\ n.pc = q.pc
         /\ n.charged = q.charged /\ n.plan = q.plan /\ n.looked = q.looked
<1>1. /\ n.pc = q.pc /\ n.app = q.app /\ n.out = q.out /\ n.plan = q.plan
      /\ n.row = q.row /\ n.proof = q.proof /\ n.reply = q.reply /\ n.charged = q.charged
      /\ n.strikes = q.strikes /\ n.held = q.held \cap Against(q.app, active2, rules2) /\ n.killed = q.killed
      /\ n.looked = q.looked
  BY DEF RequestOK, Request, Weakened
<1>2. n \in Request
  BY DEF RequestOK, Request, Weakened
<1> QED
  BY <1>1, <1>2, Fields DEF RequestOK, SwitchHolds, PolicyHolds, StrikesHold, RecordsHold, PlanHolds,
     Early, Late, Outcomes

LEMMA AnswerType ==
  ASSUME NEW q \in Request, NEW p \in Outcomes \cup {"null", Null}, NEW how \in {"approved", "denied"},
         NEW h \in SUBSET {"switch", "policy"}
  PROVE  [q EXCEPT !.pc = "done", !.proof = p, !.out = "none", !.reply = how, !.held = h] \in Request
<1>1. "none" \in Outcomes
  BY DEF Outcomes
<1> QED
  BY <1>1 DEF Request

\* It is answered.
LEMMA AnswerOK ==
  ASSUME NEW r \in Requests, NEW active, NEW rules, NEW q, RequestOK(r, q, active, rules),
         NEW p, NEW how, NEW h,
         q.pc = "answer",
         p \in {Null, IF q.out = "none" THEN "null" ELSE q.out},
         how = IF q.out = "APPROVE" THEN "approved" ELSE "denied",
         h = IF q.out = "APPROVE" THEN q.held ELSE {},
         NEW n, n = [q EXCEPT !.pc = "done", !.proof = p, !.out = "none", !.reply = how, !.held = h]
  PROVE  RequestOK(r, n, active, rules)
<1>1. /\ n.pc = "done" /\ n.app = q.app /\ n.out = "none" /\ n.plan = q.plan
      /\ n.row = q.row /\ n.proof = p /\ n.reply = how /\ n.charged = q.charged
      /\ n.strikes = q.strikes /\ n.held = h /\ n.killed = q.killed
  BY DEF RequestOK, Request
<1>2. n \in Request
  <2>1. p \in Outcomes \cup {"null", Null} /\ how \in {"approved", "denied"}
    BY Fields DEF RequestOK
  <2>2. h \in SUBSET {"switch", "policy"}
    BY Fields DEF RequestOK
  <2> QED
    BY <2>1, <2>2, AnswerType DEF RequestOK
<1> QED
  BY <1>1, <1>2, Fields DEF RequestOK, SwitchHolds, PolicyHolds, StrikesHold, RecordsHold, PlanHolds,
     Against, Early, Late, Outcomes

-----------------------------------------------------------------------------
(* All requests *)

\* What the counter is about stays, when no request is counted or comes to
\* its INSERT without having found room.
LEMMA QuotaKept ==
  ASSUME Inv, RequestsOK', UNCHANGED usage, LockHeld',
         \A r \in Requests :
           /\ req'[r].charged = req[r].charged
           /\ req[r].pc \in Late \/ req[r].pc = "charge" =>
                req'[r].plan = req[r].plan /\ req'[r].looked = req[r].looked
           /\ req'[r].pc = "charge" /\ req[r].pc # "charge" =>
                usage[req'[r].looked] < req'[r].plan
  PROVE  QuotaInv'
<1> USE DEF Inv, QuotaInv
<1>1. \A m : Counted(m)' = Counted(m)
  BY DEF Counted
<1>2. \A m : \A r \in Counted(m) :
        r \in Requests /\ req'[r].plan = req[r].plan /\ req'[r].looked = req[r].looked
  BY DEF Counted, RequestsOK, RequestOK, PlanHolds
<1>3. \A m : Unbounded(m)' <=> Unbounded(m)
  BY <1>1, <1>2 DEF Unbounded
<1>4. CountedIsFinite' /\ UsageIsCounted'
  BY <1>1 DEF CountedIsFinite, UsageIsCounted
<1>5. RoomLeft'
  <2> SUFFICES ASSUME NEW m \in Months, NEW r \in Requests, req'[r].pc = "charge", req'[r].looked = m
               PROVE  Unbounded(m)' \/ usage[m] < req'[r].plan
    BY DEF RoomLeft
  <2>1. CASE req[r].pc = "charge"
    <3>1. req'[r].plan = req[r].plan /\ req[r].looked = m
      BY <2>1
    <3> QED
      BY <1>3, <2>1, <3>1 DEF RoomLeft
  <2> QED
    BY <2>1
<1>6. QuotaBound'
  <2> SUFFICES ASSUME NEW m \in Months, \A q \in Counted(m)' : req'[q].plan # Unlimited,
                      NEW r \in Counted(m)', req'[r].looked = m
               PROVE  req'[r].charged.nth <= req'[r].plan
    BY DEF QuotaBound
  <2>1. \A q \in Counted(m) : req[q].plan # Unlimited
    BY <1>1, <1>2
  <2>2. r \in Counted(m) /\ r \in Requests /\ req[r].looked = m
    BY <1>1, <1>2
  <2>3. req[r].charged.nth <= req[r].plan
    BY <2>1, <2>2 DEF QuotaBound
  <2> QED
    BY <1>2, <2>2, <2>3
<1> QED
  BY <1>4, <1>5, <1>6

\* One request moves, and is not counted.
LEMMA MoveInv ==
  ASSUME Inv, NEW r \in Requests, NEW n,
         req' = [req EXCEPT ![r] = n],
         RequestOK(r, n, switch, policy),
         n.charged = req[r].charged,
         req[r].pc \in Late \/ req[r].pc = "charge" => n.plan = req[r].plan /\ n.looked = req[r].looked,
         n.pc \in {"count", "charge"} => lock' = r,
         n.pc = "charge" => usage[n.looked] < n.plan,
         lock' \in Requests \cup {Null},
         \A s \in Requests : s # r /\ lock = s => lock' = s,
         UNCHANGED <<switch, policy, limit, month, usage, changes>>,
         crashes' \in 0..MaxCrashes
  PROVE  Inv'
<1>1. n \in Request
  BY DEF RequestOK
<1>2. TypeOK'
  BY <1>1 DEF Inv, TypeOK
<1>3. req'[r] = n /\ \A s \in Requests : s # r => req'[s] = req[s]
  BY DEF Inv, TypeOK
<1>4. RequestsOK'
  BY <1>3 DEF Inv, RequestsOK
<1>5. LockHeld'
  BY <1>3 DEF Inv, QuotaInv, LockHeld
<1>6. QuotaInv'
  BY <1>3, <1>4, <1>5, QuotaKept
<1> QED
  BY <1>2, <1>4, <1>6 DEF Inv

LEMMA LimitIsInt ==
  ASSUME NEW l \in Limits
  PROVE  l \in Int
  BY DEF Unlimited

\* A request is counted, under the lock with room left or without a limit.
LEMMA ChargeInv ==
  ASSUME Inv, NEW r \in Requests, Charge(r),
         \/ req[r].pc = "count_free" /\ lock' = lock
         \/ req[r].pc = "charge" /\ Release(r),
         UNCHANGED config
  PROVE  Inv'
<1> DEFINE now == month[r]
<1> DEFINE c == [month |-> now, nth |-> usage[now] + 1]
<1> DEFINE n == [req[r] EXCEPT !.pc = "cycle", !.charged = c]
<1>1. /\ TypeOK /\ now \in Months /\ \A m \in Months : usage[m] \in Nat
      /\ req[r] \in Request /\ RequestOK(r, req[r], switch, policy)
  BY DEF Inv, TypeOK, RequestsOK
<1>2. c \in [month : Months, nth : Nat] /\ c.month = now /\ c.nth = usage[now] + 1
  BY <1>1
<1>3. req' = [req EXCEPT ![r] = n]
  BY <1>1 DEF Charge, TypeOK
<1>3a. usage' = [usage EXCEPT ![now] = usage[now] + 1]
  BY DEF Charge
<1> HIDE DEF now, c
<1>4. RequestOK(r, n, switch, policy)
  BY <1>1, <1>2, ChargeOK
<1>5. /\ n \in Request /\ n.pc = "cycle" /\ n.charged = c /\ n.plan = req[r].plan
      /\ n.looked = req[r].looked
  BY <1>1, <1>4 DEF RequestOK, Request
<1> HIDE DEF n
<1>6. req'[r] = n /\ \A s \in Requests : s # r => req'[s] = req[s]
  BY <1>1, <1>3 DEF TypeOK
<1>7. \A m \in Months : usage'[m] = IF m = now THEN usage[m] + 1 ELSE usage[m]
  BY <1>1, <1>3a DEF TypeOK
<1>8. UNCHANGED <<switch, policy, limit, month, changes, crashes>>
  BY DEF config
<1>9. TypeOK'
  <2>1. usage' \in [Months -> Nat]
    BY <1>1, <1>3a DEF TypeOK
  <2>2. lock' \in Requests \cup {Null}
    BY <1>1 DEF Release, TypeOK
  <2> QED
    BY <1>1, <1>3, <1>5, <1>8, <2>1, <2>2 DEF TypeOK
<1>10. RequestsOK'
  BY <1>4, <1>6, <1>8 DEF Inv, RequestsOK
<1>11. r \notin Counted(now)
  BY <1>1 DEF Counted, RequestOK, PlanHolds, Late
<1>12. \A m \in Months : Counted(m)' = IF m = now THEN Counted(m) \cup {r} ELSE Counted(m)
  <2> SUFFICES ASSUME NEW m \in Months, NEW s
               PROVE  s \in Counted(m)' <=> s \in Counted(m) \/ (s = r /\ m = now)
    OBVIOUS
  <2>1. CASE s = r
    <3>1. req[r].charged.nth \in Nat /\ ~ req[r].charged.nth > 0
      BY <1>1, Fields DEF RequestOK, PlanHolds, Late
    <3> QED
      BY <1>1, <1>2, <1>5, <1>6, <2>1, <3>1 DEF Counted
  <2>2. CASE s # r
    BY <1>6, <2>2 DEF Counted
  <2> QED
    BY <2>1, <2>2
<1>13. \A m \in Months : \A s \in Counted(m) : s \in Requests /\ s # r /\ req'[s] = req[s]
  <2> SUFFICES ASSUME NEW m \in Months, NEW s \in Counted(m) PROVE s # r
    BY <1>6 DEF Counted
  <2> QED
    BY <1>1 DEF Counted, RequestOK, PlanHolds, Late
<1>14. LockHeld'
  BY <1>5, <1>6 DEF Inv, QuotaInv, LockHeld, Release
<1>15. \A m \in Months : Unbounded(m) => Unbounded(m)'
  <2> SUFFICES ASSUME NEW m \in Months, NEW s \in Counted(m), req[s].plan = Unlimited
               PROVE  Unbounded(m)'
    BY DEF Unbounded
  <2> QED
    BY <1>12, <1>13 DEF Unbounded
<1>16. RoomLeft'
  <2> SUFFICES ASSUME NEW m \in Months, NEW s \in Requests, req'[s].pc = "charge", req'[s].looked = m
               PROVE  Unbounded(m)' \/ usage'[m] < req'[s].plan
    BY DEF RoomLeft
  <2>1. s # r /\ req'[s] = req[s] /\ lock = s
    BY <1>5, <1>6 DEF Inv, QuotaInv, LockHeld
  \* Its lock excludes every counting but that of an unlimited plan.
  <2>2. req[r].pc = "count_free" /\ n.plan = Unlimited
    BY <1>1, <1>5, <2>1 DEF Inv, QuotaInv, LockHeld, RequestOK, PlanHolds
  <2>3. Unbounded(m) \/ usage[m] < req[s].plan
    BY <2>1 DEF Inv, QuotaInv, RoomLeft
  <2>4. CASE m = now
    <3>1. r \in Counted(m)'
      BY <1>12, <2>4
    <3> QED
      BY <1>6, <2>2, <3>1 DEF Unbounded
  <2>5. CASE m # now
    BY <1>7, <1>15, <2>1, <2>3, <2>5
  <2> QED
    BY <2>4, <2>5
<1>17. QuotaBound'
  <2> SUFFICES ASSUME NEW m \in Months, \A q \in Counted(m)' : req'[q].plan # Unlimited,
                      NEW s \in Counted(m)', req'[s].looked = m
               PROVE  req'[s].charged.nth <= req'[s].plan
    BY DEF QuotaBound
  <2>1. \A q \in Counted(m) : req[q].plan # Unlimited
    BY <1>12, <1>13
  <2>2. CASE s \in Counted(m)
    BY <1>13, <2>1, <2>2 DEF Inv, QuotaInv, QuotaBound
  <2>3. CASE s \notin Counted(m)
    <3>1. s = r /\ m = now
      BY <1>12, <2>3
    <3>2. ~ Unbounded(now)
      BY <2>1, <3>1 DEF Unbounded
    <3>3. req[r].pc = "charge"
      BY <1>1, <1>5, <1>6, <3>1 DEF RequestOK, PlanHolds
    <3>4. usage[now] < req[r].plan
      <4>1. req[r].looked = now
        BY <1>5, <1>6, <3>1
      <4> QED
        BY <1>1, <3>2, <3>3, <4>1 DEF Inv, QuotaInv, RoomLeft
    <3>5. req[r].plan \in Int
      BY <1>1, Fields, LimitIsInt
    <3> QED
      BY <1>1, <1>2, <1>5, <1>6, <3>1, <3>4, <3>5
  <2> QED
    BY <2>2, <2>3
<1>18. CountedIsFinite'
  BY <1>12, FS_AddElement DEF Inv, QuotaInv, CountedIsFinite
<1>19. UsageIsCounted'
  <2>1. IsFiniteSet(Counted(now)) /\ usage[now] = Cardinality(Counted(now))
    BY <1>1 DEF Inv, QuotaInv, CountedIsFinite, UsageIsCounted
  <2>2. Cardinality(Counted(now) \cup {r}) = Cardinality(Counted(now)) + 1
    BY <1>11, <2>1, FS_AddElement
  <2> QED
    BY <1>7, <1>12, <2>1, <2>2 DEF Inv, QuotaInv, UsageIsCounted
<1> QED
  BY <1>9, <1>10, <1>14, <1>16, <1>17, <1>18, <1>19 DEF Inv, QuotaInv

\* Switches, rules and plan change under the requests.
LEMMA ChangeInv ==
  ASSUME Inv, Change, UNCHANGED <<month, usage, lock, crashes>>,
         switch' \in SUBSET ({Global} \cup Apps), policy' \in [Apps -> Rules], limit' \in Limits
  PROVE  Inv'
<1>1. \A r \in Requests :
        req'[r] = Weakened(req[r], switch', policy')
  BY DEF Change, Weakened
<1>2. ASSUME NEW r \in Requests
      PROVE  /\ RequestOK(r, req'[r], switch', policy')
             /\ req'[r].pc = req[r].pc /\ req'[r].charged = req[r].charged
             /\ req'[r].plan = req[r].plan /\ req'[r].looked = req[r].looked
  <2>1. req[r] \in Request /\ RequestOK(r, req[r], switch, policy)
    BY DEF Inv, TypeOK, RequestsOK
  <2> QED
    BY <1>1, <2>1, HeldOK
<1>3. RequestsOK'
  BY <1>2 DEF RequestsOK
<1>4. TypeOK'
  <2>1. req' \in [Requests -> Request]
    BY <1>2 DEF RequestOK, Change
  <2>2. changes' \in 0..MaxChanges
    BY DEF Inv, TypeOK, Change
  <2> QED
    BY <2>1, <2>2 DEF Inv, TypeOK
<1>5. LockHeld'
  BY <1>2 DEF Inv, QuotaInv, LockHeld
<1>6. QuotaInv'
  BY <1>2, <1>3, <1>5, QuotaKept
<1> QED
  BY <1>3, <1>4, <1>6 DEF Inv

\* The month turns on an instance.
LEMMA NextMonthInv ==
  ASSUME Inv, NEW r \in Requests, NextMonth(r)
  PROVE  Inv'
<1>1. TypeOK'
  BY DEF Inv, TypeOK, NextMonth, Months
<1>2. UNCHANGED <<switch, policy, usage, lock, req>>
  BY DEF NextMonth
<1>3. RequestsOK' /\ LockHeld'
  BY <1>2 DEF Inv, QuotaInv, RequestsOK, LockHeld
<1>4. \A s \in Requests : req'[s] = req[s]
  BY <1>2
<1>5. QuotaInv'
  BY <1>2, <1>3, <1>4, QuotaKept
<1> QED
  BY <1>1, <1>3, <1>5 DEF Inv

LEMMA InitInv == Init => Inv
<1> SUFFICES ASSUME Init PROVE Inv
  OBVIOUS
<1>1. New \in Request /\ \A r \in Requests : req[r] = New
  BY DEF Init, New, Request, Outcomes, NotCharged, Months
<1>2. TypeOK
  BY <1>1 DEF Init, TypeOK, Months, Rules
<1>3. New.pc = "new" /\ New.strikes = 0 /\ New.killed = FALSE /\ New.held = {} /\ New.row = "none"
      /\ New.proof = Null /\ New.reply = "none" /\ New.charged.nth = 0
  BY DEF New, NotCharged
<1>4. \A r \in Requests : RequestOK(r, New, switch, policy)
  BY <1>1, <1>3 DEF RequestOK, SwitchHolds, PolicyHolds, StrikesHold, RecordsHold, PlanHolds, Early, Late
<1>5. RequestsOK
  BY <1>1, <1>4 DEF RequestsOK
<1>6. \A m \in Months : Counted(m) = {}
  BY <1>1, <1>3 DEF Counted
<1>7. LockHeld /\ RoomLeft /\ QuotaBound
  BY <1>1, <1>3, <1>6 DEF Init, LockHeld, RoomLeft, QuotaBound
<1>8. CountedIsFinite /\ UsageIsCounted
  BY <1>6, FS_EmptySet DEF Init, CountedIsFinite, UsageIsCounted
<1> QED
  BY <1>2, <1>5, <1>7, <1>8 DEF Inv, QuotaInv

-----------------------------------------------------------------------------
(* Every step *)

\* Control moves on.
LEMMA GotoInv ==
  ASSUME Inv, NEW r \in Requests, NEW pc, Goto(r, pc),
         \/ req[r].pc = "guards" /\ pc = "kill"
         \/ req[r].pc = "kill" /\ pc = "breaker" /\ (Online(r) => ~ Stopped(req[r].app, switch))
         \/ req[r].pc = "breaker" /\ pc = "policy"
         \/ req[r].pc = "policy" /\ pc = "evaluate" /\ ~ (Online(r) /\ Ruled(req[r].app, policy))
         \/ req[r].pc = "save" /\ req[r].out = "ALLOW" /\ pc = "plan"
         \/ req[r].pc = "save" /\ req[r].out # "ALLOW" /\ pc = "answer"
         \/ req[r].pc = "lock" /\ pc = "count" /\ lock' = r
         \/ req[r].pc = "count" /\ pc = "over_quota"
         \/ req[r].pc \in {"count_free", "lock", "count", "charge"} /\ pc = "cycle",
         \/ lock' = lock
         \/ lock = Null /\ lock' = r
         \/ Release(r) /\ pc \notin {"count", "charge"},
         UNCHANGED <<usage, config>>
  PROVE  Inv'
<1> DEFINE n == [req[r] EXCEPT !.pc = pc]
<1>1. TypeOK /\ RequestOK(r, req[r], switch, policy) /\ req[r] \in Request
  BY DEF Inv, TypeOK, RequestsOK
<1>2. req' = [req EXCEPT ![r] = n]
  BY <1>1 DEF TypeOK, Goto
<1>3. RequestOK(r, n, switch, policy)
  BY <1>1, GotoOK
<1>4. n.charged = req[r].charged /\ n.plan = req[r].plan /\ n.looked = req[r].looked /\ n.pc = pc
  BY <1>1 DEF Request
<1> HIDE DEF n
<1>5. pc # "charge"
  OBVIOUS
<1>6. pc \in {"count", "charge"} => lock' = r
  BY DEF Inv, QuotaInv, LockHeld
<1>7. lock' \in Requests \cup {Null} /\ \A s \in Requests : s # r /\ lock = s => lock' = s
  BY <1>1 DEF TypeOK, Release
<1> QED
  BY <1>1, <1>2, <1>3, <1>4, <1>5, <1>6, <1>7, MoveInv DEF TypeOK, config

\* There is room in the month it has looked at.
LEMMA CountUnderInv ==
  ASSUME Inv, NEW r \in Requests, CountUnder(r)
  PROVE  Inv'
<1> DEFINE now == month[r]
<1> DEFINE n == [req[r] EXCEPT !.pc = "charge", !.looked = now]
<1>1. TypeOK /\ RequestOK(r, req[r], switch, policy) /\ req[r] \in Request /\ now \in Months
  BY DEF Inv, TypeOK, RequestsOK
<1>2. req' = [req EXCEPT ![r] = n]
  BY <1>1 DEF TypeOK, CountUnder
<1>3. req[r].pc = "count" /\ usage[now] < req[r].plan /\ UNCHANGED shared
  BY DEF CountUnder, At
<1> HIDE DEF now
<1>4. RequestOK(r, n, switch, policy)
  BY <1>1, <1>3, CountUnderOK
<1>5. n.charged = req[r].charged /\ n.plan = req[r].plan /\ n.looked = now /\ n.pc = "charge"
  BY <1>1 DEF Request
<1> HIDE DEF n
<1>6. lock' = r
  BY <1>3 DEF Inv, QuotaInv, LockHeld, shared
<1>7. n.pc = "charge" => usage[n.looked] < n.plan
  BY <1>3, <1>5
<1> QED
  BY <1>1, <1>2, <1>3, <1>4, <1>5, <1>6, <1>7, MoveInv DEF TypeOK, shared, config, Late

\* A request comes.
LEMMA ArriveInv ==
  ASSUME Inv, NEW r \in Requests, NEW a \in Apps \cup {Null}, Arrive(r, a),
         UNCHANGED shared
  PROVE  Inv'
<1> DEFINE n == [req[r] EXCEPT !.pc = "guards", !.app = a, !.held = Against(a, switch, policy)]
<1>1. TypeOK /\ RequestOK(r, req[r], switch, policy) /\ req[r] \in Request
  BY DEF Inv, TypeOK, RequestsOK
<1>2. req' = [req EXCEPT ![r] = n]
  BY <1>1 DEF TypeOK, Arrive
<1>3. RequestOK(r, n, switch, policy)
  BY <1>1, ArriveOK DEF Arrive, At
<1>4. n.charged = req[r].charged /\ n.plan = req[r].plan /\ n.looked = req[r].looked
  BY <1>1 DEF Request
<1>5. n.pc \notin {"count", "charge"}
  BY <1>1 DEF Request
<1> HIDE DEF n
<1> QED
  BY <1>1, <1>2, <1>3, <1>4, <1>5, MoveInv DEF TypeOK, shared, config

\* run_cgc_prefilter has its result.
LEMMA VerdictInv ==
  ASSUME Inv, NEW r \in Requests, NEW o, NEW strike, Verdict(r, o, strike),
         \/ req[r].pc = "breaker" /\ o = "DENY" /\ strike = 0
         \/ req[r].pc = "policy" /\ o \in {"DENY", "REQUIRE_HUMAN"} /\ strike = 1
         \/ req[r].pc = "evaluate" /\ o = "DENY" /\ strike = 1
         \/ req[r].pc = "evaluate" /\ o = "ALLOW" /\ strike = 0,
         UNCHANGED shared
  PROVE  Inv'
<1> DEFINE n == [req[r] EXCEPT !.pc = "save", !.out = o, !.strikes = @ + strike]
<1>1. TypeOK /\ RequestOK(r, req[r], switch, policy) /\ req[r] \in Request
  BY DEF Inv, TypeOK, RequestsOK
<1>2. req' = [req EXCEPT ![r] = n]
  BY <1>1 DEF TypeOK, Verdict
<1>3. RequestOK(r, n, switch, policy)
  BY <1>1, VerdictOK
<1>4. n.charged = req[r].charged /\ n.plan = req[r].plan /\ n.looked = req[r].looked
  BY <1>1 DEF Request
<1>5. n.pc \notin {"count", "charge"}
  BY <1>1 DEF Request
<1> HIDE DEF n
<1> QED
  BY <1>1, <1>2, <1>3, <1>4, <1>5, MoveInv DEF TypeOK, shared, config

\* A switch, or its failed check, denies.
LEMMA KillDeniesInv ==
  ASSUME Inv, NEW r \in Requests, req[r].pc = "kill", KillDenies(r),
         UNCHANGED shared
  PROVE  Inv'
<1> DEFINE n == [req[r] EXCEPT !.pc = "save", !.out = "DENY", !.killed = TRUE]
<1>1. TypeOK /\ RequestOK(r, req[r], switch, policy) /\ req[r] \in Request
  BY DEF Inv, TypeOK, RequestsOK
<1>2. req' = [req EXCEPT ![r] = n]
  BY <1>1 DEF TypeOK, KillDenies
<1>3. RequestOK(r, n, switch, policy)
  BY <1>1, KillDeniesOK
<1>4. n.charged = req[r].charged /\ n.plan = req[r].plan /\ n.looked = req[r].looked
  BY <1>1 DEF Request
<1>5. n.pc \notin {"count", "charge"}
  BY <1>1 DEF Request
<1> HIDE DEF n
<1> QED
  BY <1>1, <1>2, <1>3, <1>4, <1>5, MoveInv DEF TypeOK, shared, config

\* The lookup of the policy fails.
LEMMA PolicyFailsInv ==
  ASSUME Inv, NEW r \in Requests, PolicyFails(r),
         UNCHANGED shared
  PROVE  Inv'
<1> DEFINE n == [req[r] EXCEPT !.pc = "evaluate", !.held = @ \ {"policy"}]
<1>1. TypeOK /\ RequestOK(r, req[r], switch, policy) /\ req[r] \in Request
  BY DEF Inv, TypeOK, RequestsOK
<1>2. req' = [req EXCEPT ![r] = n]
  BY <1>1 DEF TypeOK, PolicyFails
<1>3. RequestOK(r, n, switch, policy)
  BY <1>1, PolicyFailsOK DEF PolicyFails, At
<1>4. n.charged = req[r].charged /\ n.plan = req[r].plan /\ n.looked = req[r].looked
  BY <1>1 DEF Request
<1>5. n.pc \notin {"count", "charge"}
  BY <1>1 DEF Request
<1> HIDE DEF n
<1> QED
  BY <1>1, <1>2, <1>3, <1>4, <1>5, MoveInv DEF TypeOK, shared, config

\* The cycle has an outcome.
LEMMA DecideInv ==
  ASSUME Inv, NEW r \in Requests, NEW o \in {"APPROVE", "REQUIRE_HUMAN", "REJECT"}, Decide(r, o),
         UNCHANGED shared
  PROVE  Inv'
<1> DEFINE n == [req[r] EXCEPT !.pc = "sign", !.out = o]
<1>1. TypeOK /\ RequestOK(r, req[r], switch, policy) /\ req[r] \in Request
  BY DEF Inv, TypeOK, RequestsOK
<1>2. req' = [req EXCEPT ![r] = n]
  BY <1>1 DEF TypeOK, Decide
<1>3. RequestOK(r, n, switch, policy)
  BY <1>1, DecideOK DEF Decide, At
<1>4. n.charged = req[r].charged /\ n.plan = req[r].plan /\ n.looked = req[r].looked
  BY <1>1 DEF Request
<1>5. n.pc \notin {"count", "charge"}
  BY <1>1 DEF Request
<1> HIDE DEF n
<1> QED
  BY <1>1, <1>2, <1>3, <1>4, <1>5, MoveInv DEF TypeOK, shared, config

\* The cycle fails.
LEMMA CycleFailsInv ==
  ASSUME Inv, NEW r \in Requests, CycleFails(r),
         UNCHANGED shared
  PROVE  Inv'
<1> DEFINE n == [req[r] EXCEPT !.pc = "answer", !.out = "ERROR"]
<1>1. TypeOK /\ RequestOK(r, req[r], switch, policy) /\ req[r] \in Request
  BY DEF Inv, TypeOK, RequestsOK
<1>2. req' = [req EXCEPT ![r] = n]
  BY <1>1 DEF TypeOK, CycleFails
<1>3. RequestOK(r, n, switch, policy)
  BY <1>1, CycleFailsOK DEF CycleFails, At
<1>4. n.charged = req[r].charged /\ n.plan = req[r].plan /\ n.looked = req[r].looked
  BY <1>1 DEF Request
<1>5. n.pc \notin {"count", "charge"}
  BY <1>1 DEF Request
<1> HIDE DEF n
<1> QED
  BY <1>1, <1>2, <1>3, <1>4, <1>5, MoveInv DEF TypeOK, shared, config

\* A request ends without an approval; what it holds is released.
LEMMA LeaveInv ==
  ASSUME Inv, NEW r \in Requests, NEW how \in {"refused", "failed", "lost"}, Leave(r, how),
         req[r].pc # "done",
         lock' = lock \/ Release(r),
         UNCHANGED <<switch, policy, limit, month, usage, changes>>,
         crashes' \in 0..MaxCrashes
  PROVE  Inv'
<1> DEFINE n == [req[r] EXCEPT !.pc = "done", !.reply = how, !.out = "none", !.held = {}]
<1>1. TypeOK /\ RequestOK(r, req[r], switch, policy) /\ req[r] \in Request
  BY DEF Inv, TypeOK, RequestsOK
<1>2. req' = [req EXCEPT ![r] = n]
  BY <1>1 DEF TypeOK, Leave
<1>3. RequestOK(r, n, switch, policy)
  BY <1>1, LeaveOK
<1>4. n.charged = req[r].charged /\ n.plan = req[r].plan /\ n.looked = req[r].looked /\ n.pc = "done"
  BY <1>1 DEF Request
<1> HIDE DEF n
<1>5. lock' \in Requests \cup {Null} /\ \A s \in Requests : s # r /\ lock = s => lock' = s
  BY <1>1 DEF TypeOK, Release
<1> QED
  BY <1>1, <1>2, <1>3, <1>4, <1>5, MoveInv DEF TypeOK

\* A request has its limit.
LEMMA ReadPlanInv ==
  ASSUME Inv, NEW r \in Requests, NEW l \in Limits, ReadPlan(r, l)
  PROVE  Inv'
<1> DEFINE pc == IF l = Unlimited THEN "count_free" ELSE "lock"
<1> DEFINE n == [req[r] EXCEPT !.plan = l, !.pc = pc]
<1>1. TypeOK /\ RequestOK(r, req[r], switch, policy) /\ req[r] \in Request
  BY DEF Inv, TypeOK, RequestsOK
<1>2. req' = [req EXCEPT ![r] = n]
  BY <1>1 DEF TypeOK, ReadPlan
<1>3. req[r].pc = "plan" /\ UNCHANGED shared
  BY DEF ReadPlan, At
<1> HIDE DEF pc
<1>4. RequestOK(r, n, switch, policy)
  <2>1. pc = IF l = Unlimited THEN "count_free" ELSE "lock"
    BY DEF pc
  <2> QED
    BY <1>1, <1>3, <2>1, ReadPlanOK
<1>5. n.charged = req[r].charged /\ n.pc \in {"count_free", "lock"}
  BY <1>1 DEF Request, pc
<1> HIDE DEF n
<1> QED
  BY <1>1, <1>2, <1>3, <1>4, <1>5, MoveInv DEF TypeOK, shared, config, Late

\* A request is logged, or not.
LEMMA LogInv ==
  ASSUME Inv, NEW r \in Requests, NEW summary \in Outcomes, LogDecision(r, summary),
         \/ req[r].pc = "sign" /\ summary = req[r].out
         \/ req[r].pc = "over_quota" /\ summary = "REJECT",
         UNCHANGED shared
  PROVE  Inv'
<1>1. TypeOK /\ RequestOK(r, req[r], switch, policy) /\ req[r] \in Request
  BY DEF Inv, TypeOK, RequestsOK
<1>2. PICK row \in {"none", summary} :
        req' = [req EXCEPT ![r].pc = "answer", ![r].row = row,
                           ![r].out = IF req[r].pc = "over_quota" THEN "none" ELSE @]
  BY DEF LogDecision
<1> DEFINE out == IF req[r].pc = "over_quota" THEN "none" ELSE req[r].out
<1> DEFINE n == [req[r] EXCEPT !.pc = "answer", !.row = row, !.out = out]
<1>3. req' = [req EXCEPT ![r] = n]
  BY <1>1, <1>2 DEF TypeOK
<1>4. row \in Outcomes /\ out \in Outcomes
  BY <1>1, Fields DEF Outcomes
<1>5. \/ req[r].pc = "sign" /\ out = req[r].out /\ row \in {"none", req[r].out}
      \/ req[r].pc = "over_quota" /\ out = "none" /\ row \in {"none", "REJECT"}
  OBVIOUS
<1> HIDE DEF out
<1>6. RequestOK(r, n, switch, policy)
  BY <1>1, <1>4, <1>5, LogOK
<1>7. n.charged = req[r].charged /\ n.plan = req[r].plan /\ n.looked = req[r].looked /\ n.pc = "answer"
  BY <1>1 DEF Request
<1> HIDE DEF n
<1> QED
  BY <1>1, <1>3, <1>6, <1>7, MoveInv DEF TypeOK, shared, config

\* A request is answered.
LEMMA AnswerInv ==
  ASSUME Inv, NEW r \in Requests, Answer(r)
  PROVE  Inv'
<1>1. TypeOK /\ RequestOK(r, req[r], switch, policy) /\ req[r] \in Request
  BY DEF Inv, TypeOK, RequestsOK
<1>2. req[r].pc = "answer" /\ UNCHANGED shared
  BY DEF Answer, At
<1>3. PICK p \in Proofs(r) : AnswerWith(r, p)
  BY DEF Answer
<1> DEFINE how == IF req[r].out = "APPROVE" THEN "approved" ELSE "denied"
<1> DEFINE h == IF req[r].out = "APPROVE" THEN req[r].held ELSE {}
<1> DEFINE n == [req[r] EXCEPT !.pc = "done", !.proof = p, !.out = "none", !.reply = how, !.held = h]
<1>4. req' = [req EXCEPT ![r] = n]
  BY <1>1, <1>3 DEF TypeOK, AnswerWith
<1>5. p \in {Null, IF req[r].out = "none" THEN "null" ELSE req[r].out}
  BY DEF Proofs
<1>6. RequestOK(r, n, switch, policy)
  <2>1. how = IF req[r].out = "APPROVE" THEN "approved" ELSE "denied"
    OBVIOUS
  <2>2. h = IF req[r].out = "APPROVE" THEN req[r].held ELSE {}
    OBVIOUS
  <2> HIDE DEF how, h
  <2> QED
    BY <1>1, <1>2, <1>5, <2>1, <2>2, AnswerOK
<1> HIDE DEF how, h
<1>7. n.charged = req[r].charged /\ n.plan = req[r].plan /\ n.looked = req[r].looked /\ n.pc = "done"
  BY <1>1 DEF Request
<1> HIDE DEF n
<1> QED
  BY <1>1, <1>2, <1>4, <1>6, <1>7, MoveInv DEF TypeOK, shared, config

\* Every step preserves the invariant.
LEMMA StepInv == Inv /\ [Next]_vars => Inv'
<1> SUFFICES ASSUME Inv, [Next]_vars PROVE Inv'
  OBVIOUS
<1>1. ASSUME NEW r \in Requests, NEW a \in Apps \cup {Null}, Arrive(r, a) PROVE Inv'
  BY <1>1, ArriveInv DEF Arrive
<1>2. ASSUME NEW r \in Requests, Guards(r) PROVE Inv'
  <2>1. CASE Refuse(r)
    BY <2>1, LeaveInv DEF Refuse, At, Inv, TypeOK, shared, config
  <2>2. CASE BeginIntercept(r)
    BY <2>2, GotoInv DEF BeginIntercept, At, shared
  <2> QED
    BY <1>2, <2>1, <2>2 DEF Guards
<1>3. ASSUME NEW r \in Requests, PreFilter(r) PROVE Inv'
  <2>1. CASE KillCheckDenies(r) \/ KillCheckFails(r)
    BY <2>1, KillDeniesInv DEF KillCheckDenies, KillCheckFails, At
  <2>2. CASE KillCheckPasses(r)
    BY <2>2, GotoInv DEF KillCheckPasses, At, shared
  <2>3. CASE BreakerDenies(r)
    BY <2>3, VerdictInv DEF BreakerDenies, At
  <2>4. CASE BreakerPasses(r)
    BY <2>4, GotoInv DEF BreakerPasses, At, shared
  <2>5. CASE PolicyHits(r)
    BY <2>5, VerdictInv DEF PolicyHits, At
  <2>6. CASE PolicyMisses(r)
    BY <2>6, GotoInv DEF PolicyMisses, At, shared
  <2>7. CASE PolicyFails(r)
    BY <2>7, PolicyFailsInv DEF PolicyFails
  <2>8. CASE EvaluateDenies(r)
    BY <2>8, VerdictInv DEF EvaluateDenies, At
  <2>9. CASE EvaluateAllows(r)
    BY <2>9, VerdictInv DEF EvaluateAllows, At
  <2>10. CASE Save(r)
    BY <2>10, GotoInv DEF Save, At, shared
  <2>11. CASE Raise(r)
    BY <2>11, LeaveInv DEF Raise, At, Inv, TypeOK, shared, config
  <2> QED
    BY <1>3, <2>1, <2>2, <2>3, <2>4, <2>5, <2>6, <2>7, <2>8, <2>9, <2>10, <2>11 DEF PreFilter
<1>4. ASSUME NEW r \in Requests, Lock(r) PROVE Inv'
  BY <1>4, GotoInv DEF Lock, At
<1>5. ASSUME NEW r \in Requests, ReserveQuota(r) PROVE Inv'
  <2>1. ASSUME NEW l \in Limits, ReadPlan(r, l) PROVE Inv'
    BY <2>1, ReadPlanInv
  <2>2. CASE ChargeFree(r)
    BY <2>2, ChargeInv DEF ChargeFree, At, config
  <2>3. CASE CountUnder(r)
    BY <2>3, CountUnderInv
  <2>4. CASE CountOver(r)
    BY <2>4, GotoInv DEF CountOver, At
  <2>5. CASE ChargeReserved(r)
    BY <2>5, ChargeInv DEF ChargeReserved, At
  <2>6. CASE QuotaFails(r)
    BY <2>6, GotoInv DEF QuotaFails
  <2> QED
    BY <1>5, <2>1, <2>2, <2>3, <2>4, <2>5, <2>6 DEF ReserveQuota
<1>6. ASSUME NEW r \in Requests, Cycle(r) PROVE Inv'
  <2>1. CASE QuotaBlocked(r)
    BY <2>1, LogInv DEF QuotaBlocked, At, Outcomes
  <2>2. ASSUME NEW o \in {"APPROVE", "REQUIRE_HUMAN", "REJECT"}, Decide(r, o) PROVE Inv'
    BY <2>2, DecideInv DEF Decide
  <2>3. CASE CycleFails(r)
    BY <2>3, CycleFailsInv DEF CycleFails
  <2>4. CASE SignAndLog(r)
    <3>1. req[r].out \in Outcomes
      BY Fields DEF Inv, TypeOK
    <3> QED
      BY <2>4, <3>1, LogInv DEF SignAndLog, At
  <2>5. CASE Answer(r)
    BY <2>5, AnswerInv
  <2> QED
    BY <1>6, <2>1, <2>2, <2>3, <2>4, <2>5 DEF Cycle
<1>7. ASSUME NEW r \in Requests, Crash(r) PROVE Inv'
  <2>1. crashes' \in 0..MaxCrashes
    BY <1>7 DEF Crash, Inv, TypeOK
  <2> QED
    BY <1>7, <2>1, LeaveInv DEF Crash
<1>8. CASE Environment
  <2>1. TypeOK
    BY DEF Inv
  <2>2. ASSUME NEW s \in {Global} \cup Apps, FlipSwitch(s) PROVE Inv'
    BY <2>1, <2>2, ChangeInv DEF FlipSwitch, Change, TypeOK
  <2>3. ASSUME NEW a \in Apps, NEW p \in Rules, SetPolicy(a, p) PROVE Inv'
    BY <2>1, <2>3, ChangeInv DEF SetPolicy, Change, TypeOK
  <2>4. ASSUME NEW l \in Limits, UpgradePlan(l) PROVE Inv'
    BY <2>1, <2>4, ChangeInv DEF UpgradePlan, Change, TypeOK
  <2>5. ASSUME NEW r \in Requests, NextMonth(r) PROVE Inv'
    BY <2>5, NextMonthInv
  <2> QED
    BY <1>8, <2>2, <2>3, <2>4, <2>5 DEF Environment
<1>9. CASE UNCHANGED vars
  <2>1. \A m \in Months : Counted(m)' = Counted(m)
    BY <1>9 DEF vars, Counted
  <2> QED
    BY <1>9, <2>1 DEF vars, Inv, TypeOK, RequestsOK, QuotaInv, LockHeld, RoomLeft,
       QuotaBound, CountedIsFinite, UsageIsCounted, Unbounded
<1> QED
  BY <1>1, <1>2, <1>3, <1>4, <1>5, <1>6, <1>7, <1>8, <1>9 DEF Next, Done

-----------------------------------------------------------------------------
(* Theorems *)

LEMMA AlwaysInv == Spec => []Inv
  BY InitInv, StepInv, PTL DEF Spec

\* Every variable of the pipeline keeps its type.
THEOREM DecisionTypeCorrect == Spec => []TypeOK
  BY AlwaysInv, PTL DEF Inv

\* A kill switch active from before a request came until its answer stops the
\* request on every instance with a pool (kill_switch.py:60-97,
\* main.py:361-382), however many requests and changes interleave.
THEOREM ActiveSwitchStops == Spec => []SwitchStops
<1>1. Inv => SwitchStops
  BY DEF Inv, RequestsOK, RequestOK, SwitchHolds, RecordsHold, SwitchStops
<1> QED
  BY <1>1, AlwaysInv, PTL

\* So does a policy of the tenant, unless its lookup fails (main.py:421-443).
THEOREM StandingPolicyStops == Spec => []PolicyStops
<1>1. Inv => PolicyStops
  BY DEF Inv, RequestsOK, RequestOK, PolicyHolds, RecordsHold, PolicyStops
<1> QED
  BY <1>1, AlwaysInv, PTL

\* A request is one violation at most, and none when a switch denied it
\* (main.py:361-549).
THEOREM OneStrike == Spec => []StruckOnce
<1>1. Inv => StruckOnce
  BY DEF Inv, RequestsOK, RequestOK, StrikesHold, StruckOnce
<1> QED
  BY <1>1, AlwaysInv, PTL

\* No decision is counted, in the month that was looked at for it, beyond the
\* limit reserve_quota read for it (multi_tenant.py:253-290), whatever the
\* requests, the plans and the clocks of the instances.
THEOREM QuotaIsBound == Spec => []QuotaBound
  BY AlwaysInv, PTL DEF Inv, QuotaInv

\* The stored count of a month is the number of decisions counted in it.
THEOREM UsageIsTheCount == Spec => []UsageIsCounted
  BY AlwaysInv, PTL DEF Inv, QuotaInv

\* Audit row, proof and answer of a decision tell the same outcome
\* (cgc_loop.py:431-452, 566-732, main.py:2136-2198).
THEOREM WhatIsRecordedAgrees == Spec => []RecordsAgree
<1>1. Inv => RecordsAgree
  BY DEF Inv, RequestsOK, RequestOK, RecordsHold, RecordsAgree
<1> QED
  BY <1>1, AlwaysInv, PTL
=============================================================================
