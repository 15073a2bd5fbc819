CONSTANTS
  None = None
  BaseForm = "chatty"
  OrdinaryForms = {"sunbeam_pup", "moonlit_bunny"}
  CalendarForms <- MCCalendarForms
  Dates <- MCDates
  Events <- MCEvents
  FixedEventOn <- MCFixedEventOn
  AnniversaryOn <- MCAnniversaryOn
  Anniversary = "adoption_anniversary"
  EventForm <- MCEventForm
  MinCareMoments = 3
  MinCareDays = 2
  MinVariedDays = 1
  Cooldown = 2
  GivenKinds = {"playful", "calm"}
  MaxDay = 4
  MaxMoments = 4

SPECIFICATION Spec

PROPERTIES
  QueuedSurpriseIsKept
