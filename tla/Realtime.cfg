SPECIFICATION MCSpec
CONSTANTS
  Commands = {c1}
  Polls = {p1, p2}
  Pages = {}
  QueueSize = 2
  MaxTelemetry = 1
  MaxRequeues = 1
  MaxOutages = 1
  MaxStreams = 0
  Reported = {c1, c2}
  Open = {s1}
  Telemetry = 2
  Reconnections = 2
  c1 = c1
  c2 = c2
  p1 = p1
  p2 = p2
  s1 = s1
  MaxKeys = 2
  MaxOutput = 2
  MaxFrames = 1
  MaxLosses = 1
INVARIANTS Typed NoMissedWakeup PagesAreTold OutputInOrder OutcomeIsTrue
PROPERTIES PromptDelivery KeysInOrder ShellEnds
CHECK_DEADLOCK FALSE
