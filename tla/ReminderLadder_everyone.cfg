SPECIFICATION Spec
CONSTANTS
  m1 = m1
  m2 = m2
  m3 = m3
  m4 = m4
  m5 = m5
  c1 = c1
  c2 = c2
  h1 = h1
  Reminders <- ThreeReminders
  Clocks <- TwoClocks
  Handlers <- OneHandler
  Gestures <- AllGestures
  Nudges = 1
  MaxGestures = 1
  MaxCrashes = 1
  PromptSends = FALSE
  CrashMidPlan = TRUE
SYMMETRY LadderSymmetry
CHECK_DEADLOCK FALSE
INVARIANT PostedOnce
