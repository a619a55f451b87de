-------------------------------- MODULE Tenancy --------------------------------
(***************************************************************************)
(* Tenants: the API keys of an application (cgc_auth.api_keys, AuthSystem), *)
(* the self-service and administrator's routes that claim an application    *)
(* and rotate its keys (main.py), and what it pays for: the row that        *)
(* AppBillingManager keeps of it and the events Stripe sends about it.      *)
(*                                                                         *)
(* A route runs several transactions: listing the keys, revoking each,      *)
(* inserting one, and upsert_billing, whose SELECT decides between INSERT   *)
(* and UPDATE.  Stripe sends an event until it is answered, in any order,   *)
(* and may send it again.                                                   *)
(***************************************************************************)
EXTENDS Integers, Sequences, FiniteSets

CONSTANTS
    Accounts, Apps,
    KeyIds,         \* bound: keys ever issued
    Routes,         \* the route handlers that may run at once
    Plans,          \* the plans that can be bought; FREE is none of them
    Subscriptions,
    MaxEvents,      \* bound: events Stripe raises
    Operator,       \* the administrator as a creator of keys
    NoKey, NoRow, NoSubscription,
    Unset           \* a column upsert_billing is not given

ASSUME TenancyAssumption ==
    /\ MaxEvents \in Nat
    /\ "FREE" \notin Plans /\ Unset \notin Plans
    /\ Operator \notin Accounts \cup Apps

VARIABLES
    keys,       \* the row of each key
    billing,    \* the billing row of each application
    request,    \* what each handler is doing
    subs,       \* Stripe's subscriptions
    events,     \* the events Stripe raised, in order
    answered,   \* those of them that were answered with success
    applied,    \* history: the last event in the row of each application
    straight    \* history: applications whose row was written in Stripe's order

tenancyVars == <<keys, billing, request, subs, events, answered, applied, straight>>

\* verify_token gives the holder of a key an email of its own, apikey@<app>: here
\* the application itself.
Principals == Accounts \cup Apps
Creators == Principals \cup {Operator}

Key == [app : Apps, by : Creators, active : BOOLEAN]
Statuses == {"active", "past_due", "canceled"}
Row == [plan : Plans \cup {"FREE"}, sub : Subscriptions \cup {Unset}, status : Statuses]
Write == [plan : Plans \cup {"FREE", Unset}, sub : Subscriptions \cup {Unset},
          status : Statuses]
Subscription == [app : Apps, plan : Plans, status : Statuses]
ASSUME NullsAssumption == NoKey \notin Key /\ NoRow \notin Row /\ NoSubscription \notin Subscription
Event == [app : Apps, write : Write]

\* left: the keys a rotation has still to revoke.  alone is history: no other key
\* was issued to the caller since the keys were listed.
Request == [pc : {"claim", "rotate", "look", "insert"}, app : Apps, by : Principals \cup {Unset},
            left : SUBSET KeyIds, write : Write, event : 0 .. MaxEvents, alone : BOOLEAN]
NoRoute == [pc |-> "idle"]

FreeStub == [plan |-> "FREE", sub |-> Unset, status |-> "active"]

------------------------------------------------------------------------------
TenancyInit ==
    /\ keys = [k \in KeyIds |-> NoKey]
    /\ billing = [a \in Apps |-> NoRow]
    /\ request = [p \in Routes |-> NoRoute]
    /\ subs = [s \in Subscriptions |-> NoSubscription]
    /\ events = <<>>
    /\ answered = {}
    /\ applied = [a \in Apps |-> 0]
    /\ straight = Apps

KeysOf(a) == {k \in KeyIds : keys[k] # NoKey /\ keys[k].app = a}
ActiveKeys(a) == {k \in KeysOf(a) : keys[k].active}
Held(u, a) == {k \in ActiveKeys(a) : keys[k].by = u}

\* A session is there in Accounts; a key must not have been revoked.
Authenticated(u) == u \in Apps => ActiveKeys(u) # {}

\* _owns_app_source: any key ever issued to the account, or a key of the application.
Owns(u, a) == u = a \/ \E k \in KeysOf(a) : keys[k].by = u

Begin(p, pc, a, u, left, write, event) ==
    /\ request[p] = NoRoute
    /\ request' = [request EXCEPT ![p] =
           [pc |-> pc, app |-> a, by |-> u, left |-> left, write |-> write,
            event |-> event, alone |-> TRUE]]

Answer(p) == request' = [request EXCEPT ![p] = NoRoute]

\* generate_api_key; the rotations of the same caller are no longer alone.
Issued(k, a, u) ==
    /\ keys[k] = NoKey
    /\ keys' = [keys EXCEPT ![k] = [app |-> a, by |-> u, active |-> TRUE]]

Rotating(p, u, a) ==
    request[p] # NoRoute /\ request[p].pc = "rotate" /\ request[p].app = a /\ request[p].by = u

Overtaken(a, u) ==
    [q \in Routes |->
        IF Rotating(q, u, a) THEN [request[q] EXCEPT !.alone = FALSE] ELSE request[q]]

\* _revoke_api_key_row: WHERE revoked_at IS NULL.
Revoked(k) == keys' = [keys EXCEPT ![k].active = FALSE]

(***************************************************************************)
(* POST /tenants/self-signup                                               *)
(***************************************************************************)
BeginClaim(p, u, a) ==
    /\ Authenticated(u)
    /\ ActiveKeys(a) = {}
    /\ Begin(p, "claim", a, u, {}, FreeStub, 0)
    /\ UNCHANGED <<keys, billing, subs, events, answered, applied, straight>>

IssueClaimed(p, k) ==
    /\ request[p].pc = "claim"
    /\ Issued(k, request[p].app, request[p].by)
    /\ request' = [Overtaken(request[p].app, request[p].by) EXCEPT ![p].pc = "look"]
    /\ UNCHANGED <<billing, subs, events, answered, applied, straight>>

(***************************************************************************)
(* POST /tenants/my-apps/{app_source}/keys/...                             *)
(***************************************************************************)
BeginRotation(p, u, a) ==
    /\ Authenticated(u)
    /\ Owns(u, a)
    /\ Begin(p, "rotate", a, u, Held(u, a), FreeStub, 0)
    /\ UNCHANGED <<keys, billing, subs, events, answered, applied, straight>>

\* Mutant: only the newest key is revoked.
RevokeNewest(p, k) ==
    /\ request[p].pc = "rotate"
    /\ k \in request[p].left
    /\ Revoked(k)
    /\ request' = [request EXCEPT ![p].left = {}]
    /\ UNCHANGED <<billing, subs, events, answered, applied, straight>>

RevokeListed(p, k) ==
    /\ request[p].pc = "rotate"
    /\ k \in request[p].left
    /\ Revoked(k)
    /\ request' = [request EXCEPT ![p].left = @ \ {k}]
    /\ UNCHANGED <<billing, subs, events, answered, applied, straight>>

IssueRotated(p, k) ==
    /\ request[p].pc = "rotate"
    /\ request[p].left = {}
    /\ Issued(k, request[p].app, request[p].by)
    /\ request' = [Overtaken(request[p].app, request[p].by) EXCEPT ![p] = NoRoute]
    /\ UNCHANGED <<billing, subs, events, answered, applied, straight>>

\* revoke_my_key, and the administrator's routes.
RevokeOwn(u, k) ==
    /\ Authenticated(u)
    /\ keys[k] # NoKey /\ keys[k].by = u /\ keys[k].active
    /\ Revoked(k)
    /\ UNCHANGED <<billing, request, subs, events, answered, applied, straight>>

AdminRevoke(k) ==
    /\ keys[k] # NoKey /\ keys[k].active
    /\ Revoked(k)
    /\ UNCHANGED <<billing, request, subs, events, answered, applied, straight>>

AdminIssue(k, a) ==
    /\ Issued(k, a, Operator)
    /\ UNCHANGED <<billing, request, subs, events, answered, applied, straight>>

(***************************************************************************)
(* Stripe: a customer with a checkout link pays, a payment fails or comes   *)
(* through, the subscription is canceled; each raises an event.             *)
(***************************************************************************)
Raised(a, plan, s, status) ==
    /\ Len(events) < MaxEvents
    /\ events' = Append(events, [app |-> a, write |-> [plan |-> plan, sub |-> s,
                                                       status |-> status]])
    /\ UNCHANGED <<keys, billing, request, answered, applied, straight>>

\* checkout.session.completed
Subscribe(s, a, plan) ==
    /\ subs[s] = NoSubscription
    /\ \E u \in Principals : Owns(u, a) /\ Authenticated(u)
    /\ subs' = [subs EXCEPT ![s] = [app |-> a, plan |-> plan, status |-> "active"]]
    /\ Raised(a, plan, s, "active")

\* customer.subscription.updated
ChangeStatus(s) ==
    /\ subs[s] # NoSubscription /\ subs[s].status # "canceled"
    /\ LET status == IF subs[s].status = "active" THEN "past_due" ELSE "active"
       IN  /\ subs' = [subs EXCEPT ![s].status = status]
           /\ Raised(subs[s].app, Unset, s, status)

\* customer.subscription.deleted
Cancel(s) ==
    /\ subs[s] # NoSubscription /\ subs[s].status # "canceled"
    /\ subs' = [subs EXCEPT ![s].status = "canceled"]
    /\ Raised(subs[s].app, Unset, s, "canceled")

(***************************************************************************)
(* POST /billing/webhook and upsert_billing                                *)
(***************************************************************************)

\* An event comes, for the first time or again.
Deliver(p, i) ==
    /\ i <= Len(events)
    /\ Begin(p, "look", events[i].app, Unset, {}, events[i].write, i)
    /\ UNCHANGED <<keys, billing, subs, events, answered, applied, straight>>

\* Mutant: what is not passed is blanked.
Blanked(row, write) ==
    [plan |-> IF write.plan = Unset THEN "FREE" ELSE write.plan,
     sub |-> write.sub, status |-> write.status]

\* Only the fields actually passed are touched.
Merged(row, write) ==
    [plan |-> IF write.plan = Unset THEN row.plan ELSE write.plan,
     sub |-> IF write.sub = Unset THEN row.sub ELSE write.sub,
     status |-> write.status]

\* The row of the handler's application becomes "row".  A write out of Stripe's
\* order, or a claim's after Stripe's, leads it astray.
Written(p, row) ==
    LET a == request[p].app
        i == request[p].event
    IN  /\ billing' = [billing EXCEPT ![a] = row]
        /\ applied' = [applied EXCEPT ![a] = IF i > @ THEN i ELSE @]
        /\ straight' = IF /\ i >= applied[a]
                          /\ \A j \in applied[a] + 1 .. i - 1 : events[j].app # a
                       THEN straight ELSE straight \ {a}
        /\ answered' = IF i = 0 THEN answered ELSE answered \cup {i}
        /\ Answer(p)
        /\ UNCHANGED <<keys, subs, events>>

\* A row that is there stays, so the UPDATE finds what the SELECT found.
Update(p) ==
    /\ request[p].pc = "look"
    /\ billing[request[p].app] # NoRow
    /\ Written(p, Merged(billing[request[p].app], request[p].write))

LookFindsNone(p) ==
    /\ request[p].pc = "look"
    /\ billing[request[p].app] = NoRow
    /\ request' = [request EXCEPT ![p].pc = "insert"]
    /\ UNCHANGED <<keys, billing, subs, events, answered, applied, straight>>

\* Mutant: a plan that was not passed is inserted as it is.
\* Another handler may have inserted the row: the key is taken, the handler fails.
Insert(p) ==
    /\ request[p].pc = "insert"
    /\ billing[request[p].app] = NoRow
    /\ Written(p, Merged(FreeStub, request[p].write))

\* A statement raises, a conflicting INSERT among them, or the instance is killed.
\* What was committed stays; Stripe sends its event again.
Fail(p) ==
    /\ request[p] # NoRoute
    /\ Answer(p)
    /\ UNCHANGED <<keys, billing, subs, events, answered, applied, straight>>

ManageKeys(p) ==
    \/ \E u \in Principals, a \in Apps : BeginClaim(p, u, a) \/ BeginRotation(p, u, a)
    \/ \E k \in KeyIds : IssueClaimed(p, k) \/ RevokeListed(p, k) \/ IssueRotated(p, k)

TenancyNext ==
    \/ \E p \in Routes :
          \/ ManageKeys(p)
          \/ \E i \in 1 .. MaxEvents : Deliver(p, i)
          \/ Update(p) \/ LookFindsNone(p) \/ Insert(p) \/ Fail(p)
    \/ \E k \in KeyIds :
          \/ \E u \in Principals : RevokeOwn(u, k)
          \/ AdminRevoke(k)
          \/ \E a \in Apps : AdminIssue(k, a)
    \/ \E s \in Subscriptions :
          \/ \E a \in Apps, plan \in Plans : Subscribe(s, a, plan)
          \/ ChangeStatus(s) \/ Cancel(s)

TenancySpec == TenancyInit /\ [][TenancyNext]_tenancyVars
------------------------------------------------------------------------------
(***************************************************************************)
(* Properties                                                              *)
(***************************************************************************)
TenancyTypeOK ==
    /\ keys \in [KeyIds -> Key \cup {NoKey}]
    /\ billing \in [Apps -> Row \cup {NoRow}]
    /\ request \in [Routes -> Request \cup {NoRoute}]
    /\ subs \in [Subscriptions -> Subscription \cup {NoSubscription}]
    /\ events \in Seq(Event) /\ Len(events) <= MaxEvents
    /\ answered \subseteq 1 .. Len(events)
    /\ applied \in [Apps -> 0 .. Len(events)]
    /\ straight \subseteq Apps

\* "Revokes every currently-active key this account holds and issues one fresh key":
\* a rotation whose caller was issued no other key meanwhile leaves exactly one,
\* whatever else was revoked, claimed or issued between its transactions.
RotationLeavesOneKey ==
    [][\A p \in Routes, u \in Principals, a \in Apps :
          (Rotating(p, u, a) /\ request[p].alone /\ request'[p] = NoRoute /\ keys' # keys)
             => Cardinality(Held(u, a)') = 1]_tenancyVars

SubscriptionsOf(a) == {s \in Subscriptions : subs[s] # NoSubscription /\ subs[s].app = a}
Pending(a) == {i \in 1 .. Len(events) : events[i].app = a} \ answered

\* Once Stripe's events about the only subscription of an application are all answered,
\* its row says what Stripe says, whatever was repeated or failed, provided the row
\* was written in Stripe's order.
BillingAgrees ==
    \A a \in straight, s \in Subscriptions :
        SubscriptionsOf(a) = {s} /\ Pending(a) = {}
            => /\ billing[a] # NoRow
               /\ billing[a].plan = subs[s].plan
               /\ billing[a].status = subs[s].status
================================================================================
