SPECIFICATION Spec
CONSTANTS
  s1 = s1
  s2 = s2
  alice = alice
  bob = bob
  d1 = d1
  d2 = d2
  c1 = c1
  c2 = c2
  exam1 = exam1
  none = none
  Ids = {s1, s2}
  Nodes = {d1, d2}
  Challenges = {c1, c2}
  Students = {alice}
  Exam = exam1
  NoOne = none
  NoProof = none
  Mixes <- MCMixes
  DevicePairings <- MCPairings
  NodePairings <- MCPairings
  NodeProofs <- MCNodeProofs
  ChallengeTtl = 1
  ProofPast = 2
  ProofFuture = 1
  StaleAfter = 1
  PairingTtl = 1
  NonceTtl = 2
  ChainCap = 3
  MaxSessions = 2
  MaxLegacy = 1
  SessionTtl = 2
  TokenTtl = 2
  RequireDaemon = FALSE
  HelperGrace = 1
  CallMax = 1
  MaxCalls = 1
  MaxTime = 3
SYMMETRY MCSymmetry
INVARIANTS
    TablesAgree
    SubmittedIsRecorded
    EvidenceIsKept
    VerdictFindsSession
    NodeContinuity
PROPERTIES
    NoResurrection
    EvidenceSpendsChallenge
CHECK_DEADLOCK FALSE
