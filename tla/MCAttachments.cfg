SPECIFICATION AttachmentSpec
CONSTANTS
  u1 = u1
  u2 = u2
  d1 = d1
  Upload = {u1, u2}
  Download = {d1}
  Kind = {"pdf", "html"}
  Extension = {"pdf", "txt"}
  MaxSize = 2
  MaxSent = 4
  Matches <- MCMatches
SYMMETRY Symmetric
CHECK_DEADLOCK FALSE
INVARIANTS
  WholeUnderKey
  AnswerAgreesWithDisk
  LitterOnlyFromKills
