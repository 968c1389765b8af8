SPECIFICATION Spec
CONSTANTS
  Requests = {r1, r2, r3, r4}
  Items = {i1}
  Configs = {c1}
  Kinds = {k1}
  Clients = {a1}
  Proposals = {p1, p2}
  Invitations = {l1, l2, l3}
  None = None
  Operations <- OfferOps
SYMMETRY Symmetry
INVARIANTS OneLiveLink WithdrawnNeverAccepted AgreementBacked NoticesMatchOutcomes
PROPERTY ImplementsAgreement
CHECK_DEADLOCK FALSE
