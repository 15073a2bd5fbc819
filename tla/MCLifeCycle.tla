---------------------------- MODULE MCLifeCycle ----------------------------
(***************************************************************************)
(* A small calendar for LifeCycle: date 1 is an ordinary day, date 2 brings *)
(* a fixed event, and date 3 is the birthday of a Chatty adopted on date 1  *)
(* and a day like any other to one adopted later.                           *)
(***************************************************************************)
EXTENDS LifeCycle

MCDates == 1..3
MCEvents == {"halloween", "adoption_anniversary"}
MCFixedEventOn == <<None, "halloween", None>>
MCAnniversaryOn == <<{3}, {}, {}>>
MCEventForm == [halloween            |-> "spooky_chatty",
                adoption_anniversary |-> "party_chatty"]
MCCalendarForms == {"spooky_chatty", "party_chatty"}

=============================================================================
