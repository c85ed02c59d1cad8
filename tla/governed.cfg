\* Four concurrent calls over either backend, two of them cut off, and a
\* log of two rows in memory.
SPECIFICATION Spec
CONSTANTS
  c1 = c1
  c2 = c2
  c3 = c3
  c4 = c4
  mail = mail
  post = post
  look = look
  nope = nope
  ap1 = ap1
  ap2 = ap2
  NoApproval = NoApproval
  Calls = {c1, c2, c3, c4}
  Names = {mail, post, look, nope}
  NameOf <- MixedCalls
  Gated = {mail, post}
  Standing <- Standing4
  Approvals = {ap1, ap2}
  ApprovedName <- EachApproved
  MaxEvents = 2
  Backends = {TRUE, FALSE}
  MaxAborts = 2
INVARIANT AnswerAudited
PROPERTY ImplementsActionLedger
