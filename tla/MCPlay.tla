------------------------------- MODULE MCPlay ------------------------------
(***************************************************************************)
(* A small stage for Play: a toy that is unlocked, a snack that affection  *)
(* unlocks, a custom item and days of four ticks.  The stage is checked on  *)
(* a date without events, the life on a calendar in which date 2 has one.  *)
(***************************************************************************)
EXTENDS Play

MCHome == <<1, 0>>
MCCorner == <<0, 0>>
MCCareKindOf == [ball |-> "playful", biscuit |-> "nourishing", pebble |-> "companion"]

NoDelta == [n \in NeedNames |-> 0]
MCNeedDelta == [ball    |-> [NoDelta EXCEPT !["fun"] = 2],
                biscuit |-> [NoDelta EXCEPT !["fullness"] = 2],
                pebble  |-> [NoDelta EXCEPT !["rest"] = 1]]
MCAffectionDelta == [ball |-> 2, biscuit |-> 1, pebble |-> 1]
MCUnlockLevel == [ball |-> 0, biscuit |-> 1, pebble |-> 0]

MCDates == 1..2
MCEvents == {"halloween", "adoption_anniversary"}
MCFixedEventOn == <<None, "halloween">>
MCAnniversaryOn == <<{}, {}>>
MCNoEventOn == <<None>>
MCNoAnniversaryOn == <<{}>>
MCEventForm == [halloween            |-> "spooky_chatty",
                adoption_anniversary |-> "party_chatty"]
MCCalendarForms == {"spooky_chatty", "party_chatty"}

=============================================================================
