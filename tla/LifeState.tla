----------------------------- MODULE LifeState -----------------------------
(***************************************************************************)
(* Chatty's long-term memory (lib/core/chatty_life_state.dart), the draw   *)
(* of a form (lib/core/chatty_forms.dart) and the date surprises           *)
(* (lib/core/chatty_calendar_events.dart), as functions from a life to a   *)
(* life: the code's class is immutable and every method returns a copy.    *)
(*                                                                         *)
(* A form is one of its ids.  A local date is one of Dates.  An occurrence *)
(* of an event, the code's "<event>:<yyyy-MM-dd>", is a pair               *)
(* <<event, date>>.                                                        *)
(***************************************************************************)
EXTENDS Integers, FiniteSets

CONSTANTS
  None,            (* Dart's null.                                           *)
  BaseForm,        (* The form Chatty is born in.                            *)
  OrdinaryForms,   (* Forms an ordinary transformation draws from.           *)
  CalendarForms,   (* Forms worn for one event only.                         *)
  Dates,           (* Local dates the device can show.                       *)
  Events,          (* Calendar event ids.                                    *)
  FixedEventOn,    (* The event that falls on a date, or None.               *)
  AnniversaryOn,   (* AnniversaryOn[a]: dates that are birthdays of date a.  *)
  Anniversary,     (* The event of such a day.                               *)
  EventForm,       (* The form an event brings.                              *)
  MinCareMoments,  (* 9 in the code. *)
  MinCareDays,     (* 3 in the code. *)
  MinVariedDays,   (* 2 in the code. *)
  Cooldown         (* 3 in the code. *)

HomeForms == {BaseForm} \cup OrdinaryForms
Forms     == HomeForms \cup CalendarForms
EventKeys == Events \X Dates

ASSUME FormsAssumption ==
  /\ HomeForms \cap CalendarForms = {}
  /\ None \notin Forms
  /\ None \notin Dates
  /\ None \notin Events
  /\ None \notin EventKeys

ASSUME EventsAssumption ==
  /\ Anniversary \in Events
  /\ FixedEventOn \in [Dates -> Events \cup {None}]
  /\ AnniversaryOn \in [Dates -> SUBSET Dates]
  /\ EventForm \in [Events -> CalendarForms]

ASSUME ThresholdsAssumption ==
  /\ MinCareMoments \in Nat
  /\ MinCareDays \in Nat
  /\ MinVariedDays \in Nat
  /\ Cooldown \in Nat

CareKinds == {"playful", "calm", "nourishing", "tidy", "companion"}

Life ==
  [ activeFormId                     : Forms,
    discoveredFormIds                : SUBSET Forms,
    encounteredEventIds              : SUBSET EventKeys,
    moments                          : [CareKinds -> Nat],
    caredForDays                     : Nat,
    variedCareDays                   : Nat,
    lastCareDay                      : Nat,
    careKindsToday                   : SUBSET CareKinds,
    lastTransformationDay            : Nat,
    ordinaryTransformationEligible   : BOOLEAN,
    pendingTransformationFormId      : Forms \cup {None},
    pendingCalendarEventKey          : EventKeys \cup {None},
    pendingFormBeforeCalendarEventId : Forms \cup {None},
    activeCalendarEventKey           : EventKeys \cup {None},
    formBeforeCalendarEventId        : Forms \cup {None},
    adoptionDateKey                  : Dates \cup {None},
    lastObservedLocalDateKey         : Dates \cup {None} ]

NewLife ==
  [ activeFormId                     |-> BaseForm,
    discoveredFormIds                |-> {BaseForm},
    encounteredEventIds              |-> {},
    moments                          |-> [k \in CareKinds |-> 0],
    caredForDays                     |-> 0,
    variedCareDays                   |-> 0,
    lastCareDay                      |-> 0,
    careKindsToday                   |-> {},
    lastTransformationDay            |-> 0,
    ordinaryTransformationEligible   |-> FALSE,
    pendingTransformationFormId      |-> None,
    pendingCalendarEventKey          |-> None,
    pendingFormBeforeCalendarEventId |-> None,
    activeCalendarEventKey           |-> None,
    formBeforeCalendarEventId        |-> None,
    adoptionDateKey                  |-> None,
    lastObservedLocalDateKey         |-> None ]

TotalCareMoments(life) ==
  life.moments["playful"] + life.moments["calm"] + life.moments["nourishing"]
    + life.moments["tidy"] + life.moments["companion"]

----------------------------------------------------------------------------
(* Ordinary transformations. *)

CanConsiderOrdinaryForm(life, day) ==
  /\ TotalCareMoments(life) >= MinCareMoments
  /\ life.caredForDays >= MinCareDays
  /\ life.variedCareDays >= MinVariedDays
  /\ day - life.lastTransformationDay >= Cooldown

\* Mutation: the cooldown is forgotten.
ReviewWithoutCooldown(life, day) ==
  [life EXCEPT
     !.ordinaryTransformationEligible =
        /\ TotalCareMoments(life) >= MinCareMoments
        /\ life.caredForDays >= MinCareDays
        /\ life.variedCareDays >= MinVariedDays]

ReviewEligibility(life, day) ==
  [life EXCEPT
     !.ordinaryTransformationEligible = CanConsiderOrdinaryForm(life, day)]

IsNewCareDay(life, day) == life.lastCareDay # day

KindsToday(life, kind, day) ==
  IF IsNewCareDay(life, day) THEN {kind} ELSE life.careKindsToday \cup {kind}

\* Mutation: every later kind of the day counts again.
BecameVariedAgain(life, kind, day) ==
  ~IsNewCareDay(life, day) /\ Cardinality(KindsToday(life, kind, day)) >= 2

\* A day counts as varied on the moment its second kind of care arrives.
BecameVaried(life, kind, day) ==
  /\ ~IsNewCareDay(life, day)
  /\ Cardinality(life.careKindsToday) < 2
  /\ Cardinality(KindsToday(life, kind, day)) >= 2

RecordCare(life, kind, day) ==
  ReviewEligibility(
    [life EXCEPT
       !.moments[kind]  = @ + 1,
       !.caredForDays   = @ + (IF IsNewCareDay(life, day) THEN 1 ELSE 0),
       !.variedCareDays = @ + (IF BecameVaried(life, kind, day) THEN 1 ELSE 0),
       !.lastCareDay    = day,
       !.careKindsToday = KindsToday(life, kind, day)],
    day)

\* Every candidate has a positive weight, so each of them can be drawn.
DrawableForms(life) ==
  IF OrdinaryForms \ {life.activeFormId} = {}
    THEN OrdinaryForms
    ELSE OrdinaryForms \ {life.activeFormId}

QueueOrdinaryTransformation(life, form) ==
  [life EXCEPT !.pendingTransformationFormId = form]

\* What a tick that starts a game day does to a life: review, then perhaps
\* queue one drawn form (the code rolls 35 in 100).
DayTurns(l, day) ==
  LET reviewed == ReviewEligibility(l, day)
  IN  {reviewed} \cup
      { QueueOrdinaryTransformation(reviewed, form) :
          form \in IF /\ reviewed.ordinaryTransformationEligible
                      /\ reviewed.pendingTransformationFormId = None
                     THEN DrawableForms(reviewed)
                     ELSE {} }

----------------------------------------------------------------------------
(* Calendar events. *)

QueueCalendarTransformation(life, key) ==
  [life EXCEPT
     !.pendingTransformationFormId      = EventForm[key[1]],
     !.pendingCalendarEventKey          = key,
     !.pendingFormBeforeCalendarEventId =
        IF life.activeCalendarEventKey = None
          THEN life.activeFormId
          ELSE life.formBeforeCalendarEventId]

\* Mutation: the queue's way home is used, not the stage's.
FinishWithQueuedForm(life) ==
  IF life.activeCalendarEventKey = None THEN life ELSE
  [life EXCEPT
     !.activeFormId              = life.pendingFormBeforeCalendarEventId,
     !.activeCalendarEventKey    = None,
     !.formBeforeCalendarEventId = None]

FinishCalendarEvent(life) ==
  IF life.activeCalendarEventKey = None THEN life ELSE
  [life EXCEPT
     !.activeFormId              = IF life.formBeforeCalendarEventId = None
                                     THEN BaseForm
                                     ELSE life.formBeforeCalendarEventId,
     !.activeCalendarEventKey    = None,
     !.formBeforeCalendarEventId = None]

\* Mutation: the event slot of the queue is not cleared.
CompleteKeepingEventKey(life, day) ==
  IF life.pendingTransformationFormId = None THEN life ELSE
  [life EXCEPT
     !.activeFormId                = life.pendingTransformationFormId,
     !.lastTransformationDay       = day,
     !.pendingTransformationFormId = None,
     !.activeCalendarEventKey      = life.pendingCalendarEventKey,
     !.formBeforeCalendarEventId   = life.pendingFormBeforeCalendarEventId]

CompleteQueuedTransformation(life, day) ==
  IF life.pendingTransformationFormId = None THEN life ELSE
  [life EXCEPT
     !.activeFormId                     = life.pendingTransformationFormId,
     !.discoveredFormIds                = @ \cup {life.pendingTransformationFormId},
     !.lastTransformationDay            = day,
     !.ordinaryTransformationEligible   = FALSE,
     !.pendingTransformationFormId      = None,
     !.pendingCalendarEventKey          = None,
     !.pendingFormBeforeCalendarEventId = None,
     !.activeCalendarEventKey           = life.pendingCalendarEventKey,
     !.formBeforeCalendarEventId        =
        IF life.pendingCalendarEventKey = None
          THEN None
          ELSE life.pendingFormBeforeCalendarEventId]

\* The occurrence that today brings, or None.  A fixed event hides a birthday.
EventKeyFor(life, date) ==
  IF FixedEventOn[date] # None THEN <<FixedEventOn[date], date>>
  ELSE IF /\ life.adoptionDateKey # None
          /\ date \in AnniversaryOn[life.adoptionDateKey]
    THEN <<Anniversary, date>>
    ELSE None

Adopt(life, date) ==
  IF life.adoptionDateKey = None THEN [life EXCEPT !.adoptionDateKey = date]
                                 ELSE life

\* Mutation: an event lasts until the next one.
LeavePastEventForNext(life, key) ==
  IF key = None \/ life.activeCalendarEventKey \in {None, key}
    THEN life
    ELSE FinishCalendarEvent(life)

\* An event that is not today's is over.
LeavePastEvent(life, key) ==
  IF life.activeCalendarEventKey \in {None, key} THEN life
                                                 ELSE FinishCalendarEvent(life)

AlreadyObserved(life, date, key) ==
  /\ life.lastObservedLocalDateKey = date
  /\ \/ life.activeCalendarEventKey = key
     \/ life.pendingCalendarEventKey = key

\* Mutation: encountered occurrences are not consulted.
IsOccurrenceOffStage(life, key) ==
  /\ key # None
  /\ life.activeCalendarEventKey # key
  /\ life.pendingCalendarEventKey # key

IsNewOccurrence(life, key) ==
  /\ key # None
  /\ key \notin life.encounteredEventIds
  /\ life.activeCalendarEventKey # key
  /\ life.pendingCalendarEventKey # key

\* Mutation: the occurrence is queued and not remembered.
NoteDateForgetfully(life, date, key) ==
  LET noted == [life EXCEPT !.lastObservedLocalDateKey = date]
  IN  IF IsNewOccurrence(noted, key)
        THEN QueueCalendarTransformation(noted, key)
        ELSE noted

NoteDate(life, date, key) ==
  LET noted == [life EXCEPT !.lastObservedLocalDateKey = date]
  IN  IF IsNewOccurrence(noted, key)
        THEN QueueCalendarTransformation(
               [noted EXCEPT !.encounteredEventIds = @ \cup {key}], key)
        ELSE noted

Observe(life, date) ==
  LET adopted == Adopt(life, date)
      key     == EventKeyFor(adopted, date)
      settled == LeavePastEvent(adopted, key)
  IN  IF AlreadyObserved(settled, date, key)
        THEN settled
        ELSE NoteDate(settled, date, key)

----------------------------------------------------------------------------
(* What must hold of every life the program can reach on game day "day".   *)

\* The event slot and the form slot agree, in the queue and on stage: a
\* calendar form is queued or worn exactly while its occurrence is recorded,
\* and the form to return to afterwards is one Chatty can keep.
HasWayHome(life) ==
  /\ life.pendingCalendarEventKey # None
       <=> life.pendingTransformationFormId \in CalendarForms
  /\ life.activeCalendarEventKey # None <=> life.activeFormId \in CalendarForms
  /\ life.pendingCalendarEventKey # None
       => life.pendingFormBeforeCalendarEventId \in HomeForms
  /\ life.activeCalendarEventKey # None
       => life.formBeforeCalendarEventId \in HomeForms

\* A day is counted once, a varied day is a counted day that saw two moments,
\* and no counter runs ahead of the game's calendar.
CareAddsUp(life, day) ==
  /\ life.variedCareDays <= life.caredForDays
  /\ life.caredForDays <= life.lastCareDay
  /\ life.lastCareDay <= day
  /\ life.caredForDays + life.variedCareDays <= TotalCareMoments(life)
  /\ life.lastTransformationDay <= day

\* An ordinary form in the queue has been paid for with care and patience.
PendingIsEarned(life, day) ==
  life.pendingTransformationFormId \in OrdinaryForms
    => CanConsiderOrdinaryForm(life, day)

\* An occurrence is remembered before it is queued, and is never in the queue
\* and on stage together.
OccurrencesRecorded(life) ==
  /\ {life.pendingCalendarEventKey, life.activeCalendarEventKey} \ {None}
        \subseteq life.encounteredEventIds
  /\ life.pendingCalendarEventKey # None
       => life.pendingCalendarEventKey # life.activeCalendarEventKey

=============================================================================
