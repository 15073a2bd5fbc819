CONSTANTS
  None = None
  BaseForm = "chatty"
  OrdinaryForms = {"sunbeam_pup", "moonlit_bunny"}
  CalendarForms <- MCCalendarForms
  Dates <- MCDates
  Events <- MCEvents
  FixedEventOn <- MCFixedEventOn
  AnniversaryOn <- MCAnniversaryOn
  Anniversary = "adoption_anniversary"
  EventForm <- MCEventForm
  MinCareMoments = 2
  MinCareDays = 1
  MinVariedDays = 0
  Cooldown = 1
  GridWidth = 2
  GridHeight = 1
  MaxNeed = 5
  MaxAffection = 2
  TicksPerDay = 4
  StarterTemplates = {"ball", "biscuit"}
  CustomTemplates = {"pebble"}
  FirstTemplates = {"ball"}
  CareKindOf <- MCCareKindOf
  NeedDelta <- MCNeedDelta
  AffectionDelta <- MCAffectionDelta
  UnlockLevel <- MCUnlockLevel
  Home <- MCCorner
  MaxSpawns = 2
  MaxTicks = 8

SPECIFICATION Spec

PROPERTIES
  LifeCycleSpec
