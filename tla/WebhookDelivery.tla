--------------------------- MODULE WebhookDelivery --------------------------
(***************************************************************************)
(* Outbound webhooks: the attempt _deliver_webhook makes inside            *)
(* /governance/decision, the queue cgc_webhook_retry_queue it leaves a     *)
(* failed one in, and the runs of POST /admin/webhooks/process-retries     *)
(* that work the queue down (main.py, app/Core/db/database.py).            *)
(*                                                                         *)
(* Requests and runs are served by different instances: every SQL          *)
(* statement and every POST is a step of its own.  Runs are started by a   *)
(* ten-minute cron, by workflow_dispatch or by an administrator, and       *)
(* nothing keeps two of them apart.                                        *)
(*                                                                         *)
(* The backoff table is abstracted to its length: when a row's             *)
(* next_retry_at passes is left open (BecomeDue).                          *)
(*                                                                         *)
(* Definitions placed just before the one they vary (MissingAsDelivered    *)
(* before HookMissing) are plausible bugs; no specification uses them.     *)
(***************************************************************************)
EXTENDS Integers, Sequences, FiniteSets, SequencesExt

CONSTANTS Apps, Deliveries, Runs, Null,
          MaxAttempts,   \* WEBHOOK_RETRY_MAX_ATTEMPTS, the backoff steps; 5 in the code
          Limit,         \* rows one run takes; 50 in the code
          MaxChanges,    \* bound: registrations and removals of webhooks
          MaxCrashes     \* bound: runs and requests cut short

ASSUME NullAssumption == Null \notin Deliveries \cup Apps
ASSUME NumbersAssumption ==
  /\ MaxAttempts \in Nat \ {0}
  /\ Limit \in Nat \ {0}
  /\ MaxChanges \in Nat
  /\ MaxCrashes \in Nat

VARIABLES hook,      \* cgc_tenant_webhooks: absent, or the last delivery status
          changes,
          pc,        \* where each delivery's own request is
          app,       \* the app_source a delivery is for
          row,       \* its row in cgc_webhook_retry_queue
          due,       \* rows whose next_retry_at has passed, oldest first
          run,       \* where each run is, and what it holds
          tries,     \* history: attempts runs have finished making
          accepted,  \* history: times the endpoint has processed the event
          gone,      \* history: deliveries a run found no webhook for
          crashes

webhookVars == <<hook, changes, pc, app, row, due, run, tries, accepted, gone, crashes>>

\* Overlapping runs can each add one to a row that is already spent.
AttemptCounts == 0..(MaxAttempts + Cardinality(Runs) - 1)

\* cgc_tenant_webhooks, of each app; absent: no row.
HookStates == {"absent", "unused", "ok", "failed"}

\* cgc_webhook_retry_queue, of each delivery; none: no row.
Rows == [status : {"none", "pending", "delivered", "failed_permanently"},
         attempts : AttemptCounts]
NoRow == [status |-> "none", attempts |-> 0]
Queued == [status |-> "pending", attempts |-> 0]
Idle == [at |-> "idle", batch |-> <<>>, ok |-> FALSE, seen |-> 0]
Working(batch) == [at |-> "hook", batch |-> batch, ok |-> FALSE, seen |-> 0]

WebhookTypeOK ==
  /\ hook \in [Apps -> HookStates]
  /\ changes \in 0..MaxChanges
  /\ pc \in [Deliveries -> {"new", "post", "good", "bad", "enqueue", "done"}]
  /\ app \in [Deliveries -> Apps \cup {Null}]
  /\ \A d \in Deliveries : pc[d] # "new" => app[d] \in Apps
  /\ row \in [Deliveries -> Rows]
  /\ due \in Seq(Deliveries)
  /\ \A d \in ToSet(due) : row[d].status # "none"
  /\ run \in [Runs -> [at : {"idle", "hook", "post", "record", "write"}, batch : Seq(Deliveries),
                       ok : BOOLEAN, seen : AttemptCounts]]
  /\ tries \in [Deliveries -> Nat]
  /\ accepted \in [Deliveries -> Nat]
  /\ gone \subseteq Deliveries
  /\ crashes \in 0..MaxCrashes

WebhookInit ==
  /\ hook = [a \in Apps |-> "absent"]
  /\ changes = 0
  /\ pc = [d \in Deliveries |-> "new"]
  /\ app = [d \in Deliveries |-> Null]
  /\ row = [d \in Deliveries |-> NoRow]
  /\ due = <<>>
  /\ run = [r \in Runs |-> Idle]
  /\ tries = [d \in Deliveries |-> 0]
  /\ accepted = [d \in Deliveries |-> 0]
  /\ gone = {}
  /\ crashes = 0

-----------------------------------------------------------------------------
(* The tenant's own endpoints *)

\* get_webhook
Configured(a) == hook[a] # "absent"

\* save_webhook: an upsert, which keeps the last delivery status.
Saved(a) == [hook EXCEPT ![a] = IF Configured(a) THEN @ ELSE "unused"]

\* set_my_webhook, of an address that is safe.
SaveWebhook(a) ==
  /\ changes < MaxChanges
  /\ changes' = changes + 1
  /\ hook' = Saved(a)
  /\ UNCHANGED <<pc, app, row, due, run, tries, accepted, gone, crashes>>

DeleteWebhook(a) ==
  /\ changes < MaxChanges
  /\ changes' = changes + 1
  /\ hook' = [hook EXCEPT ![a] = "absent"]
  /\ UNCHANGED <<pc, app, row, due, run, tries, accepted, gone, crashes>>

-----------------------------------------------------------------------------
(* _deliver_webhook *)

Reach(d, p) == pc' = [pc EXCEPT ![d] = p]

\* With no webhook registered there is nothing to do.
Dispatch(d, a) ==
  /\ pc[d] = "new"
  /\ app' = [app EXCEPT ![d] = a]
  /\ Reach(d, IF Configured(a) THEN "post" ELSE "done")
  /\ UNCHANGED <<hook, changes, row, due, run, tries, accepted, gone, crashes>>

\* What becomes of one POST: "got", the endpoint processed the event; "ok", the
\* code saw a 2xx answer.  is_still_safe_to_deliver: a name that now resolves to an
\* unsafe address, or not at all, is not posted to, as if the host were unreachable.
NotPosted == [got |-> FALSE, ok |-> FALSE]
AnswerLost == [got |-> TRUE, ok |-> FALSE]
Outcomes == {NotPosted, AnswerLost, [got |-> TRUE, ok |-> TRUE]}

Accept(d, o) == accepted' = [accepted EXCEPT ![d] = IF o.got THEN @ + 1 ELSE @]

FirstPost(d, o) ==
  /\ pc[d] = "post"
  /\ Accept(d, o)
  /\ Reach(d, IF o.ok THEN "good" ELSE "bad")
  /\ UNCHANGED <<hook, changes, app, row, due, run, tries, gone, crashes>>

\* record_webhook_delivery: nothing, when the row is gone meanwhile.
Recorded(a, status) == [hook EXCEPT ![a] = IF Configured(a) THEN status ELSE @]

\* It is allowed to fail.
RecordDelivery(d) ==
  /\ pc[d] \in {"good", "bad"}
  /\ hook' \in {hook, Recorded(app[d], IF pc[d] = "good" THEN "ok" ELSE "failed")}
  /\ Reach(d, IF pc[d] = "good" THEN "done" ELSE "enqueue")
  /\ UNCHANGED <<changes, app, row, due, run, tries, accepted, gone, crashes>>

\* enqueue_webhook_retry: the original attempt is not counted.
EnqueueWebhookRetry(d) ==
  /\ pc[d] = "enqueue"
  /\ row' = [row EXCEPT ![d] = Queued]
  /\ Reach(d, "done")
  /\ UNCHANGED <<hook, changes, app, due, run, tries, accepted, gone, crashes>>

\* The instance dies, or the INSERT fails and is only logged.
RequestCut(d) ==
  /\ crashes < MaxCrashes
  /\ crashes' = crashes + 1
  /\ pc[d] \notin {"new", "done"}
  /\ Reach(d, "done")
  /\ UNCHANGED <<hook, changes, app, row, due, run, tries, accepted, gone>>

-----------------------------------------------------------------------------
(* The queue *)

Pending(d) == row[d].status = "pending"

\* next_retry_at passes.
BecomeDue(d) ==
  /\ Pending(d)
  /\ d \notin ToSet(due)
  /\ due' = Append(due, d)
  /\ UNCHANGED <<hook, changes, pc, app, row, run, tries, accepted, gone, crashes>>

DueWithSettled == SubSeq(due, 1, IF Limit < Len(due) THEN Limit ELSE Len(due))

\* The deliveries of a sequence that are in a set, in their order.
Only(sequence, wanted) ==
  LET first[i \in 0..Len(sequence)] ==
        IF i = 0 THEN <<>>
        ELSE IF sequence[i] \in wanted THEN Append(first[i - 1], sequence[i]) ELSE first[i - 1]
  IN  first[Len(sequence)]

\* get_due_webhook_retries: no row is locked or marked as taken.
DueRetries ==
  LET pending == Only(due, {d \in Deliveries : Pending(d)})
  IN  SubSeq(pending, 1, IF Limit < Len(pending) THEN Limit ELSE Len(pending))

-----------------------------------------------------------------------------
(* process_webhook_retries *)

Current(r) == run[r].batch[1]

StartRun(r) ==
  /\ run[r].at = "idle"
  /\ DueRetries # <<>>
  /\ run' = [run EXCEPT ![r] = Working(DueRetries)]
  /\ UNCHANGED <<hook, changes, pc, app, row, due, tries, accepted, gone, crashes>>

HookPresent(r) ==
  /\ run[r].at = "hook"
  /\ Configured(app[Current(r)])
  /\ run' = [run EXCEPT ![r].at = "post"]
  /\ UNCHANGED <<hook, changes, pc, app, row, due, tries, accepted, gone, crashes>>

MissingAsDelivered(r) ==
  /\ run[r].at = "hook"
  /\ ~ Configured(app[Current(r)])
  /\ run' = [run EXCEPT ![r].at = "record", ![r].ok = TRUE]
  /\ gone' = gone \cup {Current(r)}
  /\ UNCHANGED <<hook, changes, pc, app, row, due, tries, accepted, crashes>>

MissingSkipped(r) ==
  /\ run[r].at = "hook"
  /\ ~ Configured(app[Current(r)])
  /\ run' = [run EXCEPT ![r] = IF Len(@.batch) = 1 THEN Idle
                               ELSE [@ EXCEPT !.batch = Tail(@)]]
  /\ gone' = gone \cup {Current(r)}
  /\ UNCHANGED <<hook, changes, pc, app, row, due, tries, accepted, crashes>>

\* "webhook no longer configured": recorded as one more failed attempt.
HookMissing(r) ==
  /\ run[r].at = "hook"
  /\ ~ Configured(app[Current(r)])
  /\ run' = [run EXCEPT ![r].at = "record", ![r].ok = FALSE]
  /\ gone' = gone \cup {Current(r)}
  /\ UNCHANGED <<hook, changes, pc, app, row, due, tries, accepted, crashes>>

PostRetry(r, o) ==
  /\ run[r].at = "post"
  /\ Accept(Current(r), o)
  /\ run' = [run EXCEPT ![r].at = "record", ![r].ok = o.ok]
  /\ UNCHANGED <<hook, changes, pc, app, row, due, tries, gone, crashes>>

\* record_webhook_retry_attempt is done with the row: on to the next one.
NextRow(r) ==
  /\ run' = [run EXCEPT ![r] = IF Len(@.batch) = 1 THEN Idle
                               ELSE Working(Tail(@.batch))]
  /\ tries' = [tries EXCEPT ![Current(r)] = @ + 1]

\* Success: one UPDATE, whatever the row has become meanwhile.
RecordSuccess(r) ==
  /\ run[r].at = "record"
  /\ run[r].ok
  /\ row' = [row EXCEPT ![Current(r)].status = "delivered"]
  /\ NextRow(r)
  /\ UNCHANGED <<hook, changes, pc, app, due, accepted, gone, crashes>>

\* Failure: SELECT attempts, without FOR UPDATE ...
ReadAttempts(r) ==
  /\ run[r].at = "record"
  /\ ~ run[r].ok
  /\ run' = [run EXCEPT ![r].at = "write", ![r].seen = row[Current(r)].attempts]
  /\ UNCHANGED <<hook, changes, pc, app, row, due, tries, accepted, gone, crashes>>

ExhaustedEarly(n) == n + 1 >= MaxAttempts

\* new_attempts reaches the length of the backoff table.
Exhausted(n) == n >= MaxAttempts

\* ... then UPDATE with what was read plus one, whatever the row has become;
\* only a rescheduled row gets a new next_retry_at.
GiveUp(r) ==
  /\ run[r].at = "write"
  /\ LET n == run[r].seen + 1
     IN  /\ Exhausted(n)
         /\ row' = [row EXCEPT ![Current(r)] =
                      [status |-> "failed_permanently", attempts |-> n]]
  /\ NextRow(r)
  /\ UNCHANGED <<hook, changes, pc, app, due, accepted, gone, crashes>>

Reschedule(r) ==
  /\ run[r].at = "write"
  /\ ~ Exhausted(run[r].seen + 1)
  /\ row' = [row EXCEPT ![Current(r)].attempts = run[r].seen + 1]
  /\ due' = Only(due, Deliveries \ {Current(r)})
  /\ NextRow(r)
  /\ UNCHANGED <<hook, changes, pc, app, accepted, gone, crashes>>

\* The function is killed at its time limit, or recording an attempt raises:
\* what has not been recorded is not, and the rest of the batch is dropped.
RunCut(r) ==
  /\ crashes < MaxCrashes
  /\ crashes' = crashes + 1
  /\ run[r].at # "idle"
  /\ run' = [run EXCEPT ![r] = Idle]
  /\ UNCHANGED <<hook, changes, pc, app, row, due, tries, accepted, gone>>

Settled == \A d \in Deliveries : pc[d] = "done" /\ ~ Pending(d)

Done ==
  /\ Settled
  /\ \A r \in Runs : run[r].at = "idle"
  /\ UNCHANGED webhookVars

Run(r) ==
  \/ HookPresent(r) \/ HookMissing(r)
  \/ \E o \in Outcomes : PostRetry(r, o)
  \/ RecordSuccess(r) \/ ReadAttempts(r) \/ GiveUp(r) \/ Reschedule(r)

WebhookNext ==
  \/ \E a \in Apps : SaveWebhook(a) \/ DeleteWebhook(a)
  \/ \E d \in Deliveries :
       \/ \E a \in Apps : Dispatch(d, a)
       \/ \E o \in Outcomes : FirstPost(d, o)
       \/ RecordDelivery(d) \/ EnqueueWebhookRetry(d) \/ RequestCut(d) \/ BecomeDue(d)
  \/ \E r \in Runs : StartRun(r) \/ Run(r) \/ RunCut(r)
  \/ Done

WebhookSpec == WebhookInit /\ [][WebhookNext]_webhookVars

\* Time passes, the cron fires every ten minutes, and a run that is not cut
\* short goes on: every wait in it has a timeout.
Fairness ==
  /\ \A d \in Deliveries : WF_webhookVars(BecomeDue(d))
  /\ \A r \in Runs : WF_webhookVars(StartRun(r)) /\ WF_webhookVars(Run(r))

WebhookFairSpec == WebhookSpec /\ Fairness

-----------------------------------------------------------------------------
(* Properties *)

\* "delivered" is only said of an event the endpoint did process, whichever
\* runs overlap and wherever they are cut short.
DeliveredWasAccepted ==
  \A d \in Deliveries : row[d].status = "delivered" => accepted[d] >= 1

\* A row is given up only after the whole backoff schedule has been spent on
\* it: lost increments may add attempts, they never take one away.
GivesUpOnlyWhenSpent ==
  \A d \in Deliveries :
    /\ row[d].status = "failed_permanently" => tries[d] >= MaxAttempts
    /\ row[d].attempts <= tries[d]

\* "5 attempts total (including the original synchronous one), then permanently given
\* up" (database.py, 3397).  The code does not keep this: the row is queued with no
\* attempt counted, and the whole schedule follows the original attempt.
OriginalIsCounted ==
  \A d \in Deliveries : row[d].status # "none" => 1 + tries[d] <= MaxAttempts

Held(d) == \E r \in Runs : d \in ToSet(run[r].batch)

\* A settled row that no run is still holding stays as it is, is taken up by
\* no later run, and its event is never sent again: duplicates come from lost
\* answers, from overlap and from work cut short, never from a row that
\* everybody was done with.
SettledIsLeftAlone ==
  [][\A d \in Deliveries :
       row[d].status \in {"delivered", "failed_permanently"} /\ ~ Held(d) =>
         row'[d] = row[d] /\ accepted'[d] = accepted[d] /\ ~ Held(d)']_webhookVars

\* "Nothing left to retry against, stop trying" (process_webhook_retries, main.py 771):
\* a delivery whose webhook a run found removed is not queued any more once that run
\* is done with it.  The code does not keep this: it records a failed attempt, which
\* reschedules the row until the last.
RemovedStopsRetries == \A d \in gone : Held(d) \/ ~ Pending(d)

\* Every queued delivery is settled in the end, even when increments are lost
\* between overlapping runs.
QueueDrains == \A d \in Deliveries : Pending(d) ~> ~ Pending(d)
=============================================================================
