-------------------------------- MODULE Pages --------------------------------
(***************************************************************************)
(* The pages of the web application that keep state of their own, with the *)
(* handlers they call, side by side: the first state chooses one of them,  *)
(* and only that one moves.  The registers carry its variables, in the     *)
(* order of its instance below.                                            *)
(***************************************************************************)
EXTENDS Naturals, Sequences, FiniteSets

CONSTANTS
  MaxPresses,                                                  \* VoiceRecorder
  Slot, MaxFills, MaxRows,                                     \* VoiceFill
  Code, MaxMounts, MaxCalls,                                   \* ScanPages, Shipments
  Field, Required, Employee, Transcribe, MaxUtterances, MaxAnimals,  \* Intake
  Station, Facility, MAX_ATTEMPTS, MaxRequests,                \* Shipments
  Tab, MaxOrgs, MaxTries,                                      \* Onboarding
  Cell, MaxToggles,                                            \* OrgModules
  MaxIds, MaxOptions,                                          \* FormBuilder
  Admin, Manager, Rate, MaxSaves,                              \* PayrollSettings
  Cycle, Listed, DkHours, MaxTime,                             \* Dashboard, FleetView
  Page, Name, MaxZones, MaxEdits,                              \* Zones
  Device, Threshold,                                           \* FleetView
  Slug, MaxChanges,                                            \* ZoneView
  Null

\* NULL is a value of no column: it is nobody, and neither true nor false.
ASSUME NullIsNoValue == Null \notin Employee /\ Null \notin BOOLEAN

VARIABLES
  subject,  \* the component this behaviour is of
  r1, r2, r3, r4, r5, r6, r7, r8, r9  \* its variables

Invite == INSTANCE InvitePage WITH
  page <- r1, awaiting <- r2, accepts <- r3, foreign <- r4
Recorder == INSTANCE VoiceRecorder WITH
  mounted <- r1, latch <- r2, starting <- r3, live <- r4, ref <- r5,
  recorder <- r6, status <- r7, filling <- r8, NoStream <- Null
Voice == INSTANCE VoiceFill WITH
  form <- r1, heard <- r2, fills <- r3, cells <- r4, blanket <- r5,
  flagged <- r6, why <- r7, rows <- r8, byHand <- r9
Scan == INSTANCE ScanPages WITH
  view <- r1, cams <- r2, timers <- r3, calls <- r4
Intaking == INSTANCE Intake WITH
  page <- r1, speech <- r2, submission <- r3, staff <- r4, used <- r5,
  animals <- r6, records <- r7, Limit <- Transcribe
Shipment == INSTANCE Shipments WITH
  page <- r1, requests <- r2, shipments <- r3, facilities <- r4,
  dashboard <- r5
Onboard == INSTANCE Onboarding WITH
  tab <- r1, user <- r2, orgs <- r3, invitations <- r4
Modules == INSTANCE OrgModules WITH
  server <- r1, shown <- r2, fetch <- r3, toggles <- r4
Builder == INSTANCE FormBuilder WITH
  sections <- r1, expanded <- r2, picker <- r3, titled <- r4,
  saved <- r5, ids <- r6
Settings == INSTANCE PayrollSettings WITH
  settings <- r1, audit <- r2, cards <- r3, requests <- r4,
  notices <- r5, standing <- r6, replaced <- r7, saves <- r8
Board == INSTANCE Dashboard WITH
  now <- r1, cycles <- r2, scope <- r3, hidden <- r4, count <- r5, page <- r6,
  Limit <- Listed
ZonesPage == INSTANCE Zones WITH
  place <- r1, slug <- r2, made <- r3, shown <- r4, request <- r5,
  order <- r6, crossed <- r7, edits <- r8
Fleet == INSTANCE FleetView WITH
  clock <- r1, device <- r2, newest <- r3, threshold <- r4, gather <- r5
Zone == INSTANCE ZoneView WITH
  slug <- r1, server <- r2, online <- r3, zones <- r4, modules <- r5,
  devices <- r6, cached <- r7, left <- r8, changes <- r9

\* What is counted is finite, a facility has its two default zones, and NULL is
\* no status, no time and no reading either.
ASSUME PageConstants ==
  /\ IsFiniteSet(Cycle) /\ IsFiniteSet(Facility) /\ IsFiniteSet(Device)
  /\ Listed \in Nat /\ DkHours \subseteq Nat
  /\ MaxZones \in Nat /\ MaxZones >= 2
  /\ Null \notin DOMAIN Board!Rank /\ Null \notin Nat /\ Null \notin Fleet!Reading
-----------------------------------------------------------------------------
Init ==
  \/ subject = "invite" /\ Invite!Init
     /\ r5 = Null /\ r6 = Null /\ r7 = Null /\ r8 = Null /\ r9 = Null
  \/ subject = "recorder" /\ Recorder!Init
     /\ r9 = Null
  \/ subject = "voice" /\ Voice!Init
  \/ subject = "scan" /\ Scan!Init
     /\ r5 = Null /\ r6 = Null /\ r7 = Null /\ r8 = Null /\ r9 = Null
  \/ subject = "intake" /\ Intaking!Init
     /\ r8 = Null /\ r9 = Null
  \/ subject = "shipment" /\ Shipment!Init
     /\ r6 = Null /\ r7 = Null /\ r8 = Null /\ r9 = Null
  \/ subject = "onboarding" /\ Onboard!Init
     /\ r5 = Null /\ r6 = Null /\ r7 = Null /\ r8 = Null /\ r9 = Null
  \/ subject = "modules" /\ Modules!Init
     /\ r5 = Null /\ r6 = Null /\ r7 = Null /\ r8 = Null /\ r9 = Null
  \/ subject = "builder" /\ Builder!Init
     /\ r7 = Null /\ r8 = Null /\ r9 = Null
  \/ subject = "settings" /\ Settings!Init
     /\ r9 = Null
  \/ subject = "dashboard" /\ Board!Init
     /\ r7 = Null /\ r8 = Null /\ r9 = Null
  \/ subject = "zones" /\ ZonesPage!Init
     /\ r9 = Null
  \/ subject = "fleet" /\ Fleet!Init
     /\ r6 = Null /\ r7 = Null /\ r8 = Null /\ r9 = Null
  \/ subject = "zone" /\ Zone!Init

\* A step of a component leaves the subject and the variables it lacks alone.
Keeps4 == UNCHANGED <<subject, r5, r6, r7, r8, r9>>
Keeps5 == UNCHANGED <<subject, r6, r7, r8, r9>>
Keeps6 == UNCHANGED <<subject, r7, r8, r9>>
Keeps7 == UNCHANGED <<subject, r8, r9>>
Keeps8 == UNCHANGED <<subject, r9>>
Keeps9 == UNCHANGED <<subject>>

InviteStep == subject = "invite" /\ Invite!Next /\ Keeps4
RecorderStep == subject = "recorder" /\ Recorder!Next /\ Keeps8
VoiceStep == subject = "voice" /\ Voice!Next /\ Keeps9
ScanStep == subject = "scan" /\ Scan!Next /\ Keeps4
IntakingStep == subject = "intake" /\ Intaking!Next /\ Keeps7
ShipmentStep == subject = "shipment" /\ Shipment!Next /\ Keeps5
OnboardStep == subject = "onboarding" /\ Onboard!Next /\ Keeps4
ModulesStep == subject = "modules" /\ Modules!Next /\ Keeps4
BuilderStep == subject = "builder" /\ Builder!Next /\ Keeps6
SettingsStep == subject = "settings" /\ Settings!Next /\ Keeps8
BoardStep == subject = "dashboard" /\ Board!Next /\ Keeps6
ZonesStep == subject = "zones" /\ ZonesPage!Next /\ Keeps8
FleetStep == subject = "fleet" /\ Fleet!Next /\ Keeps5
ZoneStep == subject = "zone" /\ Zone!Next /\ Keeps9

Next ==
  \/ InviteStep
  \/ RecorderStep
  \/ VoiceStep
  \/ ScanStep
  \/ IntakingStep
  \/ ShipmentStep
  \/ OnboardStep
  \/ ModulesStep
  \/ BuilderStep
  \/ SettingsStep
  \/ BoardStep
  \/ ZonesStep
  \/ FleetStep
  \/ ZoneStep

Spec == Init /\ [][Next]_<<subject, r1, r2, r3, r4, r5, r6, r7, r8, r9>>
-----------------------------------------------------------------------------
(* Properties: what each page's module states, of its subject.             *)

\* An invitation is accepted once a visit, and a shipment stored once for each
\* time it is submitted, however often codes collide.
ClicksCountOnce ==
  /\ subject = "invite" => Invite!OneAcceptPerVisit
  /\ subject = "shipment" => Shipment!OneRowPerSubmission

\* No microphone and no camera stays open behind a page that no longer uses it.
DevicesAreReleased ==
  /\ subject = "recorder" => Recorder!MicIsReleased
  /\ subject = "scan" => Scan!CameraIsReleased

\* What speech put into a form is explained by what was said, and no blank row
\* is left above it unless it was made on an earlier day.
SpeechIsExplained ==
  /\ subject = "voice" => Voice!AnswersAreExplained /\ Voice!NoBlankRowIsLeft
  /\ subject = "intake" => Intaking!StoredIsExplained

\* What a page shows is of what it is about: the answer of the code scanned, the
\* employee picked, the modules an organization has; and behind "Joining..." a
\* call is under way; what the form designer shows is a form that can be filled
\* in; and a zone's page is left only when a list of zones says so, and shows the
\* zone's sensors if the tenant may see them.
PagesShowTheTruth ==
  /\ subject = "invite" => Invite!JoiningEnds
  /\ subject = "scan" => Scan!AnswersAreOfTheCode
  /\ subject = "intake" => Intaking!PickedIsShown
  /\ subject = "modules" => Modules!SettledShowsTheTruth
  /\ subject = "builder" => Builder!FormIsUsable
  /\ subject = "zone" => Zone!ValidLinksStay /\ Zone!SettledShowsSensors

\* Nobody reaches a step of the signup that the server has not earned them.
StepsAreEarned == subject = "onboarding" => Onboard!StepsAreEarned

\* Whoever approves the payouts is to be told by the first save that replaces
\* them: the notice is out, or the mail service or a crash of the server is why not.
ManagersAreTold == subject = "settings" => Settings!ManagersAreTold

\* The dashboard's figures add up when nothing moved while they were counted, the
\* bins at hidden facilities apart, and no delivered cycle takes the place of one
\* under way; and the tiles and lists of the sensor fleet add up however its
\* devices report meanwhile.
FiguresAddUp ==
  /\ subject = "dashboard" => Board!RunningComeFirst /\ Board!QuietFiguresAddUp
  /\ subject = "fleet" => Fleet!TilesAddUp

\* The order of a facility's zones is one administrator's whole list.
OrdersAreWhole == subject = "zones" => ZonesPage!OrdersAreWhole
=============================================================================
