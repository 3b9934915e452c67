SPECIFICATION FairSpec
CONSTANTS
  m1 = m1
  m2 = m2
  m3 = m3
  m4 = m4
  m5 = m5
  c1 = c1
  c2 = c2
  h1 = h1
  Reminders <- FourReminders
  Clocks <- TwoClocks
  Handlers <- NoActors
  Gestures <- NoGestures
  Nudges = 2
  MaxGestures = 0
  MaxCrashes = 1
  PromptSends = TRUE
  CrashMidPlan = FALSE
INVARIANTS TypeOK LadderHeld
PROPERTIES LadderIsSequential ChasedToTheEnd
