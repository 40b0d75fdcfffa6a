SPECIFICATION Spec
CONSTANTS
  User = {u1, u2}
  Role = {"lead", "employee"}
  Project = {p1}
  Token = {t1}
  Admin = {a1}
  NoUser = NoUser
  NoProject = NoProject
  MaxTerm = 2
  Call = {c1, c2, c3}
  Feature = {f1}
  Blocker = {b1}
  FeatureStatus = {DEV, QA}
  Reference = {r1}
  Matches <- MCMatches
  MaxUpdates = 2
  Pct = {40, 60}
SYMMETRY Sym
INVARIANTS
    
    HistoryIsAChain
    CompletionIsNewestCounted
