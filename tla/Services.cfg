\* Eight components of the server, one at a time.
CONSTANTS
  Null = Null

  Plan <- MCPlan
  Module <- MCModule
  Defaults <- MCDefaults
  FirstPlan = "STARTER"
  Hook = {a1, a2}
  Switched = {"FORMS"}
  MaxVersion = 2
  SignupTime = {1, 4}
  Unpriced = Unpriced

  Admin = {a1, a2}
  MaxCorrections = 1

  Digitize = 2
  MaxPhotos = 2
  MaxRefines = 1
  MaxCrashes = 1

  Monitoring <- MCMonitoring
  Deviations <- MCDeviations
  VerificationFields <- MCVF
  VerificationColumns <- MCVC
  RebuildMonitoring = 3
  RebuildDeviations = 2
  Input <- MCInput

  Employee = {x1, x2, x3}
  Request = {a1, a2}
  Tab = {i1, i2}
  Details = {i1, i2}
  Seats = 1
  MaxLinks = 2

  Id = {x1, x2, x3}
  Writer = {a1, a2}
  MAX_ROWS = 1

  Calls = 2
  Window = 3
  MaxTime = 9

  Leaf = {y1, y2, y3, y4, y5}

SPECIFICATION Spec
SYMMETRY MCSymmetry

INVARIANTS
  NewestEventWins
  ModulesAreDue
  CorrectionsAreTraced
  ReadingsAreOfThePhoto
  FormsAreWhole
  LinksWorkOnce
  LimitsHold
  ProofsAreSound

CHECK_DEADLOCK FALSE
