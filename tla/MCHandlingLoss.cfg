SPECIFICATION IntakeSpec
CONSTANTS
  mei = mei
  tao = tao
  lin = lin
  r1 = r1
  r2 = r2
  s1 = s1
  s2 = s2
  x1 = x1
  x2 = x2
  c1 = c1
  c2 = c2
  c3 = c3
  m1 = m1
  Users <- MCUsers
  RoleOf <- MCRoleOf
  RequestId = {r1}
  SampleId = {s1}
  SubsampleId = {x1, x2}
  CustodyId = {}
  MethodId = {m1}
  TaskId = {}
  RoundId = {}
  RetestId = {}
  CertificateId = {}
  Label = {"A", "B"}
  Location = {"shelf", "bench"}
  MethodCode = {"tensile"}
  Result = {}
  SeedMethod = m1
  SeedCode = "tensile"
  None = None
  Quantity <- MCQuantity
  MaxRevision = 1
  MaxSequence = 1
SYMMETRY Symmetric
CHECK_DEADLOCK FALSE
INVARIANT LossWithinTotal
