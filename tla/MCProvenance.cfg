SPECIFICATION ProvenanceSpec
CONSTANTS
  n1 = n1
  n2 = n2
  OPERAND = OPERAND
  CONCEPT = CONCEPT
  FEEDS = FEEDS
  buyer = buyer
  seller = seller
  app = app
  k1 = k1
  NoNode = NoNode
  NoDigest = NoDigest
  NodeId <- MCNodeId
  NodeType <- MCNodeType
  Relation <- MCRelation
  Creator <- MCCreator
  Key <- MCKey
  Allowed <- MCAllowed
  Digest <- MCDigest
  Hash <- MCHash
  MaxEntries = 5
INVARIANTS
  GraphIntegrity
  AgentScope
  OwnEdgesReadable
  ChainIntact
  LedgerExplainsGraph
PROPERTIES
  NodeIdentityStable
  OneEntryPerChange
SYMMETRY MCSymmetry
CHECK_DEADLOCK FALSE
