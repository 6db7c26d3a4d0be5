CONSTANTS
  Wrap = 4
  Workspaces <- MCWorkspaces
  IntWP = "isr"
  IntPC = 2
  Masks = {0, 1, 2}
SPECIFICATION Spec
INVARIANT InterruptIsVdp
