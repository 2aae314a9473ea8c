SPECIFICATION Spec
CONSTANTS
  mei = mei
  tao = tao
  rui = rui
  r1 = r1
  r2 = r2
  s1 = s1
  x1 = x1
  c1 = c1
  c2 = c2
  m1 = m1
  m2 = m2
  t1 = t1
  t2 = t2
  d1 = d1
  d2 = d2
  q1 = q1
  z1 = z1
  z2 = z2
  z3 = z3
  Users <- MCUsers
  RoleOf <- MCRoleOf
  RequestId = {r1, r2}
  SampleId = {s1}
  SubsampleId = {x1}
  CustodyId = {c1, c2}
  MethodId = {m1, m2}
  TaskId = {t1, t2}
  RoundId = {d1, d2}
  RetestId = {q1}
  CertificateId = {z1, z2, z3}
  Label = {"A"}
  Location = {"shelf"}
  MethodCode = {"tensile"}
  Result = {410, 415}
  SeedMethod = m1
  SeedCode = "tensile"
  None = None
  Quantity <- MCQuantity
  MaxRevision = 1
  MaxSequence = 1
  MaxVersion = 2
CONSTRAINT Explored
SYMMETRY Symmetric
CHECK_DEADLOCK FALSE
INVARIANT ResultOfItsRound
