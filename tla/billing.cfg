SPECIFICATION Spec
CONSTANTS
  s1 = s1
  s2 = s2
  h1 = h1
  h2 = h2
  Subs = {s1, s2}
  Plans <- OnePlan
  Hooks = {h1, h2}
  MaxEvents = 3
  MaxFaults = 2
INVARIANTS FollowsStripe PlanFollows
CHECK_DEADLOCK FALSE
SYMMETRY HookSymmetry
