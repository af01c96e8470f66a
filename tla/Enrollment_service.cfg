\* Peers on the link are adopted unattended, the others by the operator; a node
\* has one enrollment request in flight at a time.
SPECIFICATION Spec
CONSTANTS
  None = None
  Nodes = {n1, n2}
  Eids = {e1, e2, e3}
  Challenges = {c1, c2, c3}
  Workers = {w1, w2}
  AdoptPolicy = "onlink"
  OneJoinPerNode = TRUE
SYMMETRY Symmetry
INVARIANTS TypeOK IndexConsistent NoOrphan ChallengeSigned TrustedInInventory TrustIsCurrent
PROPERTIES DecommissionIsComplete ImplementsAdmission
