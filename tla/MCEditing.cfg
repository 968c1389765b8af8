SPECIFICATION Spec
CONSTANTS
  Requests = {r1, r2, r3, r4}
  Items = {i1, i2}
  Configs = {c1, c2}
  Kinds = {k1, k2}
  Clients = {a1, a2}
  Proposals = {p1}
  Invitations = {l1}
  None = None
  Operations <- AllOps
SYMMETRY Symmetry
INVARIANTS AtMostOnce PicturesMatch
PROPERTIES ProposalAsReviewed NoLostUpdate CostsDeclarationCurrent
CHECK_DEADLOCK FALSE
