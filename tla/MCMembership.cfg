SPECIFICATION Spec
CONSTANTS
  anna = anna
  boris = boris
  vera = vera
  pa = pa
  pb = pb
  pv = pv
  family = family
  club = club
  i1 = i1
  i2 = i2
  c1 = c1
  c2 = c2
  Users = {anna, boris, vera}
  Profiles = {pa, pb, pv, family, club}
  Main <- MCMain
  Invites = {i1}
  Connections = {c1, c2}
  Limit = 2
  None = None
SYMMETRY MCSymmetry
INVARIANTS
  InvitationJoinsOne
  OwnersStay
  ProfileLimit
  DefaultExists
PROPERTIES
  JoinNeedsInvitation
  OnlyLateChoices
