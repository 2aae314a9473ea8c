SPECIFICATION FairQueueSpec
CONSTANTS
  j1 = j1
  j2 = j2
  ann = ann
  bob = bob
  NoRunner = NoRunner
  JobId = {j1, j2}
  Runner = {ann, bob}
  Kind = {"certificate_html", "unknown"}
  Registered = {"certificate_html"}
  MaxAttempts = {0, 1}
  Delay = {1}
  LeaseTicks = 2
  DefaultAttempts = 2
INVARIANT
  OneLiveLease
PROPERTIES
  CompletedInTime
  KeepsContract
  JobsSettle
