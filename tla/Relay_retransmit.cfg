SPECIFICATION Spec
CONSTANTS
  Drafts = {d1}
  Devices = {v1}
  Nonces = {n1, n2}
  Approvals = {a1, a2, a3}
  Relays = {r1, r2}
  None = None
SYMMETRY Symmetry
INVARIANTS TypeOK AnswerIsDurable
