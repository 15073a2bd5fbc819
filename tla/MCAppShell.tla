----------------------------- MODULE MCAppShell ----------------------------
(***************************************************************************)
(* A small room for AppShell: one row of cells, a toy that affection would *)
(* unlock, an item the player makes, and a calendar on which date 2 has an *)
(* event.  The first start may find the save of an app that was killed     *)
(* while it presented a surprise, or of a version of the app that knew no  *)
(* life, no moments, no custom items, no cleanliness and no affection.     *)
(***************************************************************************)
EXTENDS AppShell

MCHome == <<0, 0>>
MCCareKindOf == [ball |-> "playful", pebble |-> "companion"]
MCNoDelta == [n \in NeedNames |-> 0]
MCNeedDelta == [ball |-> MCNoDelta, pebble |-> MCNoDelta]
MCAffectionDelta == [ball |-> 1, pebble |-> 1]
MCUnlockLevel == [ball |-> 1, pebble |-> 0]

MCEvents == {"halloween", "adoption_anniversary"}
MCFixedEventOn == <<None, "halloween">>
MCAnniversaryOn == <<{}, {}>>
MCEventForm == [halloween            |-> "spooky_chatty",
                adoption_anniversary |-> "party_chatty"]
MCCalendarForms == {"spooky_chatty", "party_chatty"}

\* The app was killed while it presented the first surprise.
MCInterrupted ==
  ToJson([NewGame EXCEPT !.tickCount = 4,
                         !.dayCount  = 2,
                         !.life.adoptionDateKey                = 1,
                         !.life.lastObservedLocalDateKey       = 1,
                         !.life.ordinaryTransformationEligible = TRUE,
                         !.life.pendingTransformationFormId    = "sunbeam_pup"])

MCOldVersion ==
  [ tickCount           |-> 2,
    dayCount            |-> 1,
    timeOfDay           |-> "evening",
    items               |-> {},
    nextItemId          |-> 1,
    selectedItemId      |-> None,
    unlockedTemplateIds |-> {},
    pet                 |-> [ position     |-> MCHome,
                              mood         |-> "happy",
                              targetItemId |-> None,
                              needs        |-> [fullness |-> 5, fun |-> 4, rest |-> 4] ] ]

MCOldSaves == {MCInterrupted, MCOldVersion}

=============================================================================
