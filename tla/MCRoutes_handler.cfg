SPECIFICATION Spec
CONSTANTS
  p1 = p1
  p2 = p2
  s1 = s1
  Threads = {t1, t2}
  Procs = {p1, p2}
  Slots = {s1}
  RouteIndex <- SharedSlot
  Regs = {r1, r2}
  Chains = {c1, c2, c3}
  NoThread = NoThread
  NoProc = NoProc
  NoReg = NoReg
  NoChain = NoChain
  NoAnswer = NoAnswer
  StoreBuffering = FALSE
  AllocMayFail = FALSE
SYMMETRY Symmetric
INVARIANTS
  HandlerStateAlive
