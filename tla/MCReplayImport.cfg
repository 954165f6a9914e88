\* Two concurrent requests, every fault, two imports, colliding contents.
SPECIFICATION Spec
CONSTANTS
  good = good  twin = twin  bad = bad  s1 = s1  s2 = s2  None = None
  MCImport = {i1, i2}  MCRequest = {r1, r2}
  Import = {i1, i2}
  Content <- MCContent
  Valid <- MCValid
  Session <- MCSession
  SessionOf <- MCSessionOf
  Request = {r1, r2}
SYMMETRY Symmetric
PROPERTY ImplementsLifecycle
INVARIANTS
  PublisherKeepsImport
  PublicIsComplete
  CompletedResolves
  RepliesHonest
