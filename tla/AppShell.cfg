CONSTANTS
  None = None
  BaseForm = "chatty"
  OrdinaryForms = {"sunbeam_pup"}
  CalendarForms <- MCCalendarForms
  Dates = {1, 2}
  Events <- MCEvents
  FixedEventOn <- MCFixedEventOn
  AnniversaryOn <- MCAnniversaryOn
  Anniversary = "adoption_anniversary"
  EventForm <- MCEventForm
  MinCareMoments = 0
  MinCareDays = 0
  MinVariedDays = 0
  Cooldown = 1
  GridWidth = 4
  GridHeight = 1
  MaxNeed = 5
  MaxAffection = 0
  TicksPerDay = 4
  StarterTemplates = {"ball"}
  CustomTemplates = {"pebble"}
  FirstTemplates = {}
  CareKindOf <- MCCareKindOf
  NeedDelta <- MCNeedDelta
  AffectionDelta <- MCAffectionDelta
  UnlockLevel <- MCUnlockLevel
  Home <- MCHome
  MaxSpawns = 1
  MaxTicks = 1
  Clearings = {"erase", "reset"}
  OldSaves <- MCOldSaves
  MaxWalks = 1
  MaxWrites = 1
  MaxClearings = 2

SPECIFICATION FairShellSpec

INVARIANTS
  ShellTypeOK
  SaveRestoresTheGame
  SavedIsShown
  OnlyAnEventWaits

PROPERTIES
  RoomOpens
  ResetStartsFresh
