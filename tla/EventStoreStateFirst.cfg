SPECIFICATION Spec
CONSTANTS
  p1 = p1  p2 = p2
  s1 = s1  s2 = s2
  a1 = a1  a2 = a2  a3 = a3  b = b  m = m
  ka = ka  kb = kb  km = km
  fa = fa  fx = fx  fb = fb  fm = fm
  None = None
  Proc = {p1, p2}
  Stream = {s1, s2}
  Cmd = {a1, a2, a3, b, m}
  Key = {ka, kb, km}
  Fingerprint = {fa, fx, fb, fm}
  KeyOf <- MCKeyOf
  FpOf <- MCFpOf
  StreamsOf <- MCStreamsOf
  Legal <- MCLegal
  LongRunning = {m}
  Prechecked = {a1, a2, a3}
  StateFirst = {b}
  Poison = {}
  MaxCrashes = 1
  MaxRaises = 1
SYMMETRY Symmetry
INVARIANTS
  SnapshotIsFold
