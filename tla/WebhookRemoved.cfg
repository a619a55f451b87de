SPECIFICATION WebhookSpec
CONSTANTS
  Apps = {a1}
  Deliveries = {d1}
  Runs = {r1}
  Null = Null
  MaxAttempts = 5
  Limit = 1
  MaxChanges = 2
  MaxCrashes = 0
INVARIANTS RemovedStopsRetries
