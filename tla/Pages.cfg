\* Fourteen pages with the handlers they call, one at a time.
CONSTANTS
  MaxPresses = 3
  Slot = {"s1"}
  MaxFills = 2
  MaxRows = 2
  Code = {i1, i2}
  MaxMounts = 3
  MaxCalls = 3
  Field = {f1}
  Required = {f1}
  Employee = {i1, i2}
  Transcribe = 2
  MaxUtterances = 2
  MaxAnimals = 2
  Station = {a1, a2}
  Facility = {f1}
  MAX_ATTEMPTS = 2
  MaxRequests = 2
  Tab = {a1, a2}
  MaxOrgs = 2
  MaxTries = 2
  Cell = {i1, i2}
  MaxToggles = 3
  MaxIds = 3
  MaxOptions = 3
  Admin = {a1, a2}
  Manager = {i1, i2}
  Rate = {0, 1}
  MaxSaves = 2
  Cycle = {i1, i2}
  Listed = 1
  DkHours = {1}
  MaxTime = 2
  Page = {a1, a2}
  Name = {"a", "b"}
  MaxZones = 4
  MaxEdits = 4
  Device = {f1}
  Threshold = {0, 1}
  Slug = {"built", "other"}
  MaxChanges = 1
  Null = Null

SPECIFICATION Spec
SYMMETRY MCSymmetry

INVARIANTS
  ClicksCountOnce
  DevicesAreReleased
  SpeechIsExplained
  PagesShowTheTruth
  StepsAreEarned
  ManagersAreTold
  FiguresAddUp
  OrdersAreWhole

CHECK_DEADLOCK FALSE
