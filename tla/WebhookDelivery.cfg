SPECIFICATION WebhookFairSpec
CONSTANTS
  Apps = {a1}
  Deliveries = {d1}
  Runs = {r1, r2}
  Null = Null
  MaxAttempts = 3
  Limit = 1
  MaxChanges = 2
  MaxCrashes = 2
INVARIANTS DeliveredWasAccepted GivesUpOnlyWhenSpent
PROPERTIES SettledIsLeftAlone QueueDrains
