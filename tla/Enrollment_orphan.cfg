\* Two overlapping enrollment requests of one node.
SPECIFICATION Spec
CONSTANTS
  None = None
  Nodes = {n1, n2}
  Eids = {e1, e2}
  Challenges = {c1, c2}
  Workers = {w1, w2}
  AdoptPolicy = "off"
  OneJoinPerNode = FALSE
SYMMETRY Symmetry
PROPERTY DecommissionIsComplete
