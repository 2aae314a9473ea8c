SPECIFICATION PgSpec
CONSTANTS
  mei = mei
  tao = tao
  mei2 = mei2
  tao2 = tao2
  r1 = r1
  r2 = r2
  s1 = s1
  s2 = s2
  x1 = x1
  c1 = c1
  m1 = m1
  m2 = m2
  t1 = t1
  d1 = d1
  q1 = q1
  z1 = z1
  z2 = z2
  Users <- MCUsers
  RoleOf <- MCRoleOf
  StartOf <- MCStartOf
  RequestId = {r1, r2}
  SampleId = {s1, s2}
  SubsampleId = {}
  CustodyId = {}
  MethodId = {m1, m2}
  TaskId = {}
  RoundId = {}
  RetestId = {}
  CertificateId = {}
  Label = {"A"}
  Location = {"shelf"}
  MethodCode = {"tensile"}
  Result = {410}
  SeedMethod = m1
  SeedCode = "tensile"
  None = None
  Quantity <- MCQuantity
  MaxRevision = 2
  MaxSequence = 2
  MaxVersion = 2
  MaxStarts = 2
  MaxFailures = 0
CHECK_DEADLOCK FALSE
INVARIANT SampleNumberNeverReused
