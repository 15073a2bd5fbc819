CONSTANTS
  None = None
  BaseForm = "chatty"
  OrdinaryForms = {"sunbeam_pup"}
  CalendarForms <- MCCalendarForms
  Dates = {1}
  Events <- MCEvents
  FixedEventOn <- MCNoEventOn
  AnniversaryOn <- MCNoAnniversaryOn
  Anniversary = "adoption_anniversary"
  EventForm <- MCEventForm
  MinCareMoments = 1
  MinCareDays = 1
  MinVariedDays = 0
  Cooldown = 1
  GridWidth = 2
  GridHeight = 3
  MaxNeed = 5
  MaxAffection = 2
  TicksPerDay = 4
  StarterTemplates = {"ball", "biscuit"}
  CustomTemplates = {"pebble"}
  FirstTemplates = {"ball"}
  CareKindOf <- MCCareKindOf
  NeedDelta <- MCNeedDelta
  AffectionDelta <- MCAffectionDelta
  UnlockLevel <- MCUnlockLevel
  Home <- MCHome
  MaxSpawns = 2
  MaxTicks = 4

SPECIFICATION ApproachSpec

INVARIANTS
  TypeOK
  StageIsWhole
  StageItemsAreKnown
  ClockAgrees
  MoodIsCurrent
  UnlocksFollowAffection
  CareIsPaidWithItems

PROPERTIES
  CareMeansContact
  PetWalksOnStage
  SelectionLeads
  WalksArrive
  UseWhenReadyUsesTheSelected
