SPECIFICATION Spec
CONSTANTS
  Participant = {ana, pedro}
  Key = {laptop, phone, tablet}
  Proposal = {t1, t2}
  Nobody = nobody
  MaxRequests = 2
CONSTRAINT FewRequests
SYMMETRY Symmetry
CHECK_DEADLOCK FALSE
INVARIANT TypeOK
INVARIANT ActiveIsEligible
INVARIANT CommittedViewIsComplete
PROPERTY RevokedFailsClosed
PROPERTY RevocationIsFinal
