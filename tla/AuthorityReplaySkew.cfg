SPECIFICATION MCSpec
CONSTANTS
  Administer = Administer
  Ann = Ann
  Ben = Ben
  Cas = Cas
  I1 = I1
  I2 = I2
  X1 = X1
  None = None
  MembersManage = MembersManage
  PoliciesCreate = PoliciesCreate
  Permission = {MembersManage, PoliciesCreate}
  Person = {Ann, Ben}
  InvitationId = {I1}
  PolicyId = {X1}
  ClockSkew = 1
  Window = 2
  Term = 2
  LastTime = 2
SYMMETRY Interchangeable
CHECK_DEADLOCK FALSE
INVARIANTS
  Portable
