----------------------------- MODULE PetRules ------------------------------
(***************************************************************************)
(* The grid (lib/core/grid.dart) and the rules of the pet                  *)
(* (lib/core/pet_rules.dart).  A coordinate is a pair <<x, y>>.            *)
(***************************************************************************)
EXTENDS Integers

CONSTANTS
  GridWidth,       (* 6 in the code.  *)
  GridHeight,      (* 5 in the code.  *)
  MaxNeed,         (* 5 in the code.  *)
  MaxAffection,    (* 20 in the code. *)
  TicksPerDay      (* 24 in the code. *)

ASSUME RulesAssumption ==
  /\ GridWidth \in Nat \ {0}
  /\ GridHeight \in Nat \ {0}
  /\ MaxNeed \in Nat /\ MaxNeed >= 4
  /\ MaxAffection \in Nat
  /\ TicksPerDay \in Nat \ {0}
  /\ TicksPerDay % 4 = 0

----------------------------------------------------------------------------
(* The grid. *)

Cells == (0 .. GridWidth - 1) \X (0 .. GridHeight - 1)

Gap(a, b) == IF a < b THEN b - a ELSE a - b

Distance(p, q) == Gap(p[1], q[1]) + Gap(p[2], q[2])

\* Chatty can reach what lies on its own cell or on one next to it.
InReach(p, q) == Distance(p, q) <= 1

Toward(a, b) == IF a < b THEN a + 1 ELSE a - 1

\* Columns first, then rows.
StepToward(p, q) ==
  IF p[1] # q[1] THEN <<Toward(p[1], q[1]), p[2]>>
  ELSE IF p[2] # q[2] THEN <<p[1], Toward(p[2], q[2])>>
  ELSE p

----------------------------------------------------------------------------
(* Needs, moods and the time of day. *)

NeedNames  == {"fullness", "fun", "rest", "cleanliness"}
Needs      == [NeedNames -> 0 .. MaxNeed]
Moods      == {"happy", "hungry", "sleepy", "playful", "messy", "curious",
               "grumpy", "cozy"}
TimesOfDay == <<"morning", "afternoon", "evening", "night">>
Times      == {"morning", "afternoon", "evening", "night"}

Clamp(value, max) == IF value < 0 THEN 0 ELSE IF value > max THEN max ELSE value

ClampNeed(value)      == Clamp(value, MaxNeed)
ClampAffection(value) == Clamp(value, MaxAffection)

TimeOfDayForTick(tick) ==
  TimesOfDay[1 + ((tick % TicksPerDay) \div (TicksPerDay \div 4))]

\* The first rule that applies.
DeriveMood(needs) ==
  IF needs["fullness"] <= 1 THEN "hungry"
  ELSE IF needs["rest"] <= 1 THEN "sleepy"
  ELSE IF needs["cleanliness"] <= 1 THEN "messy"
  ELSE IF needs["fun"] <= 1 THEN "grumpy"
  ELSE IF \A n \in NeedNames : needs[n] >= 4 THEN "happy"
  ELSE IF needs["rest"] >= 4 /\ needs["cleanliness"] >= 4 THEN "cozy"
  ELSE IF needs["fun"] >= 4 THEN "playful"
  ELSE "curious"

DecayPeriod == [fullness |-> 3, fun |-> 4, rest |-> 2, cleanliness |-> 5]

\* Each need drops by one at its own pace.
Decay(needs, tick) ==
  [n \in NeedNames |-> IF tick % DecayPeriod[n] = 0
                         THEN ClampNeed(needs[n] - 1)
                         ELSE needs[n]]

=============================================================================
