-------------------------- MODULE LifeStateProofs --------------------------
(***************************************************************************)
(* What the operations of LifeState preserve, for every set of forms,      *)
(* dates and events and every threshold.                                   *)
(***************************************************************************)
EXTENDS LifeState, FiniteSetTheorems, TLAPS

\* CareAddsUp is not inductive: when a day becomes varied, what keeps the varied
\* days below the days of care is that this day was not counted before.
UnvariedDayIsUncounted(life) ==
  Cardinality(life.careKindsToday) < 2 /\ life.lastCareDay > 0
    => life.variedCareDays < life.caredForDays

\* The inductive invariant of a life on game day "day".
SoundLife(life, day) ==
  /\ life \in Life
  /\ HasWayHome(life)
  /\ CareAddsUp(life, day)
  /\ UnvariedDayIsUncounted(life)
  /\ PendingIsEarned(life, day)
  /\ OccurrencesRecorded(life)

\* A new life is sound on the first day.
LEMMA NewLifeIsSound == SoundLife(NewLife, 1)
<1>1. NewLife \in Life
  BY FormsAssumption DEF NewLife, Life, Forms, HomeForms
<1>2. HasWayHome(NewLife)
  BY FormsAssumption DEF NewLife, HasWayHome, Forms, HomeForms
<1>3. CareAddsUp(NewLife, 1)
  BY DEF NewLife, CareAddsUp, TotalCareMoments, CareKinds
<1>4. UnvariedDayIsUncounted(NewLife)
  BY DEF NewLife, UnvariedDayIsUncounted
<1>5. PendingIsEarned(NewLife, 1)
  BY FormsAssumption DEF NewLife, PendingIsEarned, Forms, HomeForms
<1>6. OccurrencesRecorded(NewLife)
  BY DEF NewLife, OccurrencesRecorded
<1>7. QED
  BY <1>1, <1>2, <1>3, <1>4, <1>5, <1>6 DEF SoundLife

\* The review touches nothing but the flag.
LEMMA ReviewIsSound ==
  ASSUME NEW day \in Nat, NEW life, SoundLife(life, day)
  PROVE  SoundLife(ReviewEligibility(life, day), day)
<1> DEFINE next == ReviewEligibility(life, day)
<1>1. CanConsiderOrdinaryForm(life, day) \in BOOLEAN
  BY DEF CanConsiderOrdinaryForm
<1>2. next \in Life
  BY <1>1 DEF SoundLife, ReviewEligibility, Life
<1>3. HasWayHome(next)
  BY DEF SoundLife, ReviewEligibility, HasWayHome, Life
<1>4. CareAddsUp(next, day)
  BY DEF SoundLife, ReviewEligibility, CareAddsUp, TotalCareMoments, Life
<1>5. UnvariedDayIsUncounted(next)
  BY DEF SoundLife, ReviewEligibility, UnvariedDayIsUncounted, Life
<1>6. PendingIsEarned(next, day)
  BY DEF SoundLife, ReviewEligibility, PendingIsEarned, TotalCareMoments,
         CanConsiderOrdinaryForm, Life
<1>7. OccurrencesRecorded(next)
  BY DEF SoundLife, ReviewEligibility, OccurrencesRecorded, Life
<1>8. QED
  BY <1>2, <1>3, <1>4, <1>5, <1>6, <1>7 DEF SoundLife

\* A life stays sound when the game's calendar moves on.
LEMMA LaterDayIsSound ==
  ASSUME NEW day \in Nat, NEW life, SoundLife(life, day)
  PROVE  SoundLife(life, day + 1)
<1>1. CareAddsUp(life, day + 1)
  BY DEF SoundLife, CareAddsUp, Life
<1>2. PendingIsEarned(life, day + 1)
  BY ThresholdsAssumption
     DEF SoundLife, PendingIsEarned, CanConsiderOrdinaryForm, Life
<1>3. QED
  BY <1>1, <1>2 DEF SoundLife

----------------------------------------------------------------------------
(* Care. *)

\* A new moment never lowers the number of kinds seen today, and the first one
\* of a day is alone.
LEMMA KindsOfADay ==
  ASSUME NEW day \in Nat, NEW life \in Life, NEW kind \in CareKinds
  PROVE  /\ KindsToday(life, kind, day) \in SUBSET CareKinds
         /\ Cardinality(life.careKindsToday) \in Nat
         /\ Cardinality(KindsToday(life, kind, day)) \in Nat
         /\ IF IsNewCareDay(life, day)
              THEN Cardinality(KindsToday(life, kind, day)) = 1
              ELSE Cardinality(life.careKindsToday)
                     <= Cardinality(KindsToday(life, kind, day))
<1>1. IsFiniteSet(CareKinds)
  <2>1. IsFiniteSet({"playful"})
    BY FS_Singleton
  <2>2. IsFiniteSet({"playful"} \cup {"calm"})
    BY <2>1, FS_AddElement
  <2>3. IsFiniteSet({"playful"} \cup {"calm"} \cup {"nourishing"})
    BY <2>2, FS_AddElement
  <2>4. IsFiniteSet({"playful"} \cup {"calm"} \cup {"nourishing"} \cup {"tidy"})
    BY <2>3, FS_AddElement
  <2>5. IsFiniteSet({"playful"} \cup {"calm"} \cup {"nourishing"} \cup {"tidy"}
                      \cup {"companion"})
    BY <2>4, FS_AddElement
  <2>6. CareKinds = {"playful"} \cup {"calm"} \cup {"nourishing"} \cup {"tidy"}
                      \cup {"companion"}
    BY DEF CareKinds
  <2>7. QED
    BY <2>5, <2>6
<1>2. life.careKindsToday \in SUBSET CareKinds
  BY DEF Life
<1>3. KindsToday(life, kind, day) \in SUBSET CareKinds
  BY <1>2 DEF KindsToday
<1>4. /\ IsFiniteSet(life.careKindsToday)
      /\ IsFiniteSet(KindsToday(life, kind, day))
  BY <1>1, <1>2, <1>3, FS_Subset
<1>5. /\ Cardinality(life.careKindsToday) \in Nat
      /\ Cardinality(KindsToday(life, kind, day)) \in Nat
  BY <1>4, FS_CardinalityType
<1>6. CASE IsNewCareDay(life, day)
  BY <1>3, <1>5, <1>6, FS_Singleton DEF KindsToday
<1>7. CASE ~IsNewCareDay(life, day)
  <2>1. life.careKindsToday \in SUBSET KindsToday(life, kind, day)
    BY <1>7 DEF KindsToday
  <2>2. Cardinality(life.careKindsToday) <= Cardinality(KindsToday(life, kind, day))
    BY <2>1, <1>4, FS_Subset
  <2>3. QED
    BY <1>3, <1>5, <1>7, <2>2
<1>8. QED
  BY <1>6, <1>7

\* The life that recordCare reviews.
Cared(life, kind, day) ==
  [life EXCEPT
     !.moments[kind]  = @ + 1,
     !.caredForDays   = @ + (IF IsNewCareDay(life, day) THEN 1 ELSE 0),
     !.variedCareDays = @ + (IF BecameVaried(life, kind, day) THEN 1 ELSE 0),
     !.lastCareDay    = day,
     !.careKindsToday = KindsToday(life, kind, day)]

\* Care keeps a life sound.
LEMMA RecordCareIsSound ==
  ASSUME NEW day \in Nat \ {0}, NEW life, SoundLife(life, day),
         NEW kind \in CareKinds
  PROVE  SoundLife(RecordCare(life, kind, day), day)
<1> DEFINE next == Cared(life, kind, day)
<1>0. life \in Life
  BY DEF SoundLife
<1>1. next \in Life
  <2>1. KindsToday(life, kind, day) \in SUBSET CareKinds
    BY <1>0, KindsOfADay
  <2>2. [life.moments EXCEPT ![kind] = life.moments[kind] + 1] \in [CareKinds -> Nat]
    BY <1>0 DEF Life
  <2> DEFINE cared  == life.caredForDays
                         + (IF IsNewCareDay(life, day) THEN 1 ELSE 0)
             varied == life.variedCareDays
                         + (IF BecameVaried(life, kind, day) THEN 1 ELSE 0)
  <2>3. cared \in Nat /\ varied \in Nat
    BY <1>0 DEF Life
  <2>4. next = [life EXCEPT
                  !.moments        = [life.moments EXCEPT ![kind] = life.moments[kind] + 1],
                  !.caredForDays   = cared,
                  !.variedCareDays = varied,
                  !.lastCareDay    = day,
                  !.careKindsToday = KindsToday(life, kind, day)]
    BY <1>0 DEF Cared, Life
  <2> HIDE DEF next, cared, varied
  <2>5. QED
    BY <1>0, <2>1, <2>2, <2>3, <2>4 DEF Life
<1>2. /\ next.caredForDays
            = life.caredForDays + (IF IsNewCareDay(life, day) THEN 1 ELSE 0)
      /\ next.variedCareDays
            = life.variedCareDays + (IF BecameVaried(life, kind, day) THEN 1 ELSE 0)
      /\ next.lastCareDay = day
      /\ next.careKindsToday = KindsToday(life, kind, day)
      /\ next.lastTransformationDay = life.lastTransformationDay
      /\ next.pendingTransformationFormId = life.pendingTransformationFormId
  BY <1>0 DEF Cared, Life
<1>3. TotalCareMoments(next) = TotalCareMoments(life) + 1
  <2>1. life.moments \in [CareKinds -> Nat]
    BY <1>0 DEF Life
  <2>2. next.moments = [life.moments EXCEPT ![kind] = life.moments[kind] + 1]
    BY <1>0 DEF Cared, Life
  <2>3. QED
    BY <2>1, <2>2 DEF TotalCareMoments, CareKinds
<1>4. HasWayHome(next)
  BY <1>0 DEF SoundLife, Cared, HasWayHome, Life
<1>5. TotalCareMoments(life) \in Nat
  BY <1>0 DEF TotalCareMoments, CareKinds, Life
<1>6. CareAddsUp(next, day) /\ UnvariedDayIsUncounted(next)
  <2>1. /\ Cardinality(life.careKindsToday) \in Nat
        /\ Cardinality(KindsToday(life, kind, day)) \in Nat
        /\ IF IsNewCareDay(life, day)
             THEN Cardinality(KindsToday(life, kind, day)) = 1
             ELSE Cardinality(life.careKindsToday)
                    <= Cardinality(KindsToday(life, kind, day))
    BY <1>0, KindsOfADay
  <2>2. /\ life.caredForDays \in Nat
        /\ life.variedCareDays \in Nat
        /\ life.lastCareDay \in Nat
        /\ life.lastTransformationDay \in Nat
    BY <1>0 DEF Life
  <2>3. CareAddsUp(life, day) /\ UnvariedDayIsUncounted(life)
    BY DEF SoundLife
  <2>4. CASE IsNewCareDay(life, day)
    BY <1>2, <1>3, <1>5, <2>1, <2>2, <2>3, <2>4
       DEF CareAddsUp, UnvariedDayIsUncounted, BecameVaried, IsNewCareDay
  <2>5. CASE ~IsNewCareDay(life, day)
    BY <1>2, <1>3, <1>5, <2>1, <2>2, <2>3, <2>5
       DEF CareAddsUp, UnvariedDayIsUncounted, BecameVaried, IsNewCareDay
  <2>6. QED
    BY <2>4, <2>5
<1>7. PendingIsEarned(next, day)
  <2>1. /\ life.caredForDays \in Nat
        /\ life.variedCareDays \in Nat
        /\ life.lastTransformationDay \in Nat
    BY <1>0 DEF Life
  <2>2. QED
    BY <1>2, <1>3, <1>5, <2>1, ThresholdsAssumption
       DEF SoundLife, PendingIsEarned, CanConsiderOrdinaryForm
<1>8. OccurrencesRecorded(next)
  BY <1>0 DEF SoundLife, Cared, OccurrencesRecorded, Life
<1>9. SoundLife(next, day)
  BY <1>1, <1>4, <1>6, <1>7, <1>8 DEF SoundLife
<1>10. SoundLife(ReviewEligibility(next, day), day)
  BY <1>9, ReviewIsSound
<1>11. QED
  BY <1>10 DEF RecordCare, Cared

----------------------------------------------------------------------------
(* Transformations. *)

\* Queueing a drawn form over an empty queue keeps a life sound.
LEMMA QueueOrdinaryIsSound ==
  ASSUME NEW day \in Nat, NEW life, SoundLife(life, day),
         CanConsiderOrdinaryForm(life, day),
         life.pendingTransformationFormId = None,
         NEW form \in OrdinaryForms
  PROVE  SoundLife(QueueOrdinaryTransformation(life, form), day)
<1> DEFINE next == QueueOrdinaryTransformation(life, form)
<1>0. life \in Life
  BY DEF SoundLife
<1>1. next \in Life
  BY <1>0 DEF QueueOrdinaryTransformation, Life, Forms, HomeForms
<1>2. HasWayHome(next)
  BY <1>0, FormsAssumption
     DEF SoundLife, QueueOrdinaryTransformation, HasWayHome, Life, Forms, HomeForms
<1>3. CareAddsUp(next, day)
  BY <1>0 DEF SoundLife, QueueOrdinaryTransformation, CareAddsUp,
              TotalCareMoments, Life
<1>4. UnvariedDayIsUncounted(next)
  BY <1>0 DEF SoundLife, QueueOrdinaryTransformation, UnvariedDayIsUncounted, Life
<1>5. CanConsiderOrdinaryForm(next, day)
  BY <1>0 DEF QueueOrdinaryTransformation, CanConsiderOrdinaryForm,
              TotalCareMoments, Life
<1>6. OccurrencesRecorded(next)
  BY <1>0 DEF SoundLife, QueueOrdinaryTransformation, OccurrencesRecorded, Life
<1>7. QED
  BY <1>1, <1>2, <1>3, <1>4, <1>5, <1>6 DEF SoundLife, PendingIsEarned

\* Showing what is queued keeps a life sound.
LEMMA CompleteIsSound ==
  ASSUME NEW day \in Nat, NEW life, SoundLife(life, day)
  PROVE  SoundLife(CompleteQueuedTransformation(life, day), day)
<1> DEFINE next == CompleteQueuedTransformation(life, day)
<1>0. life \in Life
  BY DEF SoundLife
<1>1. CASE life.pendingTransformationFormId = None
  BY <1>1 DEF CompleteQueuedTransformation
<1>2. CASE life.pendingTransformationFormId # None
  <2>1. next \in Life
    <3> DEFINE form  == life.pendingTransformationFormId
               found == life.discoveredFormIds \cup {form}
               home  == IF life.pendingCalendarEventKey = None
                          THEN None
                          ELSE life.pendingFormBeforeCalendarEventId
    <3>1. form \in Forms /\ found \in SUBSET Forms /\ home \in Forms \cup {None}
      BY <1>0, <1>2 DEF Life
    <3>2. next = [life EXCEPT
                    !.activeFormId                     = form,
                    !.discoveredFormIds                = found,
                    !.lastTransformationDay            = day,
                    !.ordinaryTransformationEligible   = FALSE,
                    !.pendingTransformationFormId      = None,
                    !.pendingCalendarEventKey          = None,
                    !.pendingFormBeforeCalendarEventId = None,
                    !.activeCalendarEventKey           = life.pendingCalendarEventKey,
                    !.formBeforeCalendarEventId        = home]
      BY <1>0, <1>2 DEF CompleteQueuedTransformation, Life
    <3> HIDE DEF next, form, found, home
    <3>3. QED
      BY <1>0, <3>1, <3>2 DEF Life
  <2>2. HasWayHome(next)
    BY <1>0, <1>2, FormsAssumption
       DEF SoundLife, CompleteQueuedTransformation, HasWayHome, Life, Forms, HomeForms
  <2>3. CareAddsUp(next, day)
    BY <1>0, <1>2 DEF SoundLife, CompleteQueuedTransformation, CareAddsUp,
                      TotalCareMoments, Life
  <2>4. UnvariedDayIsUncounted(next)
    BY <1>0, <1>2 DEF SoundLife, CompleteQueuedTransformation,
                      UnvariedDayIsUncounted, Life
  <2>5. PendingIsEarned(next, day)
    BY <1>0, <1>2, FormsAssumption
       DEF CompleteQueuedTransformation, PendingIsEarned, Life, Forms, HomeForms
  <2>6. OccurrencesRecorded(next)
    BY <1>0, <1>2 DEF SoundLife, CompleteQueuedTransformation,
                      OccurrencesRecorded, Life
  <2>7. QED
    BY <2>1, <2>2, <2>3, <2>4, <2>5, <2>6 DEF SoundLife
<1>3. QED
  BY <1>1, <1>2

----------------------------------------------------------------------------
(* The calendar. *)

\* What a date brings is an occurrence on that date, or nothing.
LEMMA EventKeyIsOfTheDate ==
  ASSUME NEW life \in Life, NEW date \in Dates
  PROVE  /\ EventKeyFor(life, date) \in EventKeys \cup {None}
         /\ EventKeyFor(life, date) # None => EventKeyFor(life, date)[2] = date
<1>1. FixedEventOn[date] \in Events \cup {None}
  BY EventsAssumption
<1>2. QED
  BY <1>1, EventsAssumption DEF EventKeyFor, EventKeys

\* The birthday is written down once and touches nothing else.
LEMMA AdoptIsSound ==
  ASSUME NEW day \in Nat, NEW life, SoundLife(life, day), NEW date \in Dates
  PROVE  SoundLife(Adopt(life, date), day)
<1> DEFINE next == [life EXCEPT !.adoptionDateKey = date]
<1>0. life \in Life
  BY DEF SoundLife
<1>1. next \in Life
  BY <1>0 DEF Life
<1>2. HasWayHome(next) /\ OccurrencesRecorded(next) /\ UnvariedDayIsUncounted(next)
  BY <1>0 DEF SoundLife, HasWayHome, OccurrencesRecorded, UnvariedDayIsUncounted, Life
<1>3. CareAddsUp(next, day) /\ PendingIsEarned(next, day)
  BY <1>0 DEF SoundLife, CareAddsUp, PendingIsEarned, CanConsiderOrdinaryForm,
              TotalCareMoments, Life
<1>4. QED
  BY <1>1, <1>2, <1>3 DEF Adopt, SoundLife

\* Taking a costume off keeps a life sound.
LEMMA FinishIsSound ==
  ASSUME NEW day \in Nat, NEW life, SoundLife(life, day)
  PROVE  SoundLife(FinishCalendarEvent(life), day)
<1> DEFINE next == FinishCalendarEvent(life)
<1>0. life \in Life
  BY DEF SoundLife
<1>1. CASE life.activeCalendarEventKey = None
  BY <1>1 DEF FinishCalendarEvent
<1>2. CASE life.activeCalendarEventKey # None
  <2>0. /\ life.formBeforeCalendarEventId \in HomeForms
        /\ life.formBeforeCalendarEventId # None
    BY <1>2, FormsAssumption DEF SoundLife, HasWayHome, Forms
  <2>1. next \in Life
    <3>1. next = [life EXCEPT !.activeFormId              = life.formBeforeCalendarEventId,
                              !.activeCalendarEventKey    = None,
                              !.formBeforeCalendarEventId = None]
      BY <1>0, <1>2, <2>0 DEF FinishCalendarEvent, Life
    <3> HIDE DEF next
    <3>2. QED
      BY <1>0, <2>0, <3>1 DEF Life, Forms
  <2>2. HasWayHome(next)
    BY <1>0, <1>2, <2>0, FormsAssumption
       DEF SoundLife, FinishCalendarEvent, HasWayHome, Life, Forms
  <2>3. CareAddsUp(next, day) /\ PendingIsEarned(next, day)
    BY <1>0, <1>2 DEF SoundLife, FinishCalendarEvent, CareAddsUp, PendingIsEarned,
                      CanConsiderOrdinaryForm, TotalCareMoments, Life
  <2>4. OccurrencesRecorded(next) /\ UnvariedDayIsUncounted(next)
    BY <1>0, <1>2 DEF SoundLife, FinishCalendarEvent, OccurrencesRecorded,
                      UnvariedDayIsUncounted, Life
  <2>5. QED
    BY <2>1, <2>2, <2>3, <2>4 DEF SoundLife
<1>3. QED
  BY <1>1, <1>2

\* Writing a date down, and queueing what is new of it, keeps a life sound.
LEMMA NoteDateIsSound ==
  ASSUME NEW day \in Nat, NEW life, SoundLife(life, day), NEW date \in Dates,
         NEW key \in EventKeys \cup {None}
  PROVE  SoundLife(NoteDate(life, date, key), day)
<1> DEFINE noted == [life EXCEPT !.lastObservedLocalDateKey = date]
<1>0. life \in Life
  BY DEF SoundLife
<1>1. SoundLife(noted, day)
  <2>1. noted \in Life
    BY <1>0 DEF Life
  <2>2. HasWayHome(noted) /\ OccurrencesRecorded(noted) /\ UnvariedDayIsUncounted(noted)
    BY <1>0 DEF SoundLife, HasWayHome, OccurrencesRecorded,
                UnvariedDayIsUncounted, Life
  <2>3. CareAddsUp(noted, day) /\ PendingIsEarned(noted, day)
    BY <1>0 DEF SoundLife, CareAddsUp, PendingIsEarned, CanConsiderOrdinaryForm,
                TotalCareMoments, Life
  <2>4. QED
    BY <2>1, <2>2, <2>3 DEF SoundLife
<1>2. CASE ~IsNewOccurrence(noted, key)
  BY <1>1, <1>2 DEF NoteDate
<1>3. CASE IsNewOccurrence(noted, key)
  <2> DEFINE home   == IF noted.activeCalendarEventKey = None
                         THEN noted.activeFormId
                         ELSE noted.formBeforeCalendarEventId
             seen   == noted.encounteredEventIds \cup {key}
             queued == [noted EXCEPT
                          !.encounteredEventIds              = seen,
                          !.pendingTransformationFormId      = EventForm[key[1]],
                          !.pendingCalendarEventKey          = key,
                          !.pendingFormBeforeCalendarEventId = home]
  <2>1. /\ key \in EventKeys
        /\ key # None
        /\ EventForm[key[1]] \in CalendarForms
    BY <1>3, EventsAssumption DEF IsNewOccurrence, EventKeys
  <2>2. noted \in Life
    BY <1>1 DEF SoundLife
  <2>3. NoteDate(life, date, key) = queued
    BY <1>3, <2>2 DEF NoteDate, QueueCalendarTransformation, Life
  <2>4. home \in HomeForms
    BY <1>1, <2>2 DEF SoundLife, HasWayHome, Life, Forms
  <2> HIDE DEF home, noted
  <2>5. queued \in Life
    BY <2>1, <2>2, <2>4 DEF Life, Forms
  <2>6. HasWayHome(queued)
    BY <1>1, <2>1, <2>2, <2>4 DEF SoundLife, HasWayHome, Life
  <2>7. CareAddsUp(queued, day)
    BY <1>1, <2>2 DEF SoundLife, CareAddsUp, TotalCareMoments, Life
  <2>8. PendingIsEarned(queued, day)
    BY <2>1, <2>2, FormsAssumption DEF PendingIsEarned, HomeForms, Life
  <2>9. OccurrencesRecorded(queued)
    BY <1>1, <1>3, <2>1, <2>2 DEF SoundLife, OccurrencesRecorded, IsNewOccurrence, Life
  <2>10. UnvariedDayIsUncounted(queued)
    BY <1>1, <2>2 DEF SoundLife, UnvariedDayIsUncounted, Life
  <2>11. QED
    BY <2>3, <2>5, <2>6, <2>7, <2>8, <2>9, <2>10 DEF SoundLife
<1>4. QED
  BY <1>2, <1>3

\* A look at the date keeps a life sound.
LEMMA ObserveIsSound ==
  ASSUME NEW day \in Nat, NEW life, SoundLife(life, day), NEW date \in Dates
  PROVE  SoundLife(Observe(life, date), day)
<1> DEFINE adopted == Adopt(life, date)
           key     == EventKeyFor(adopted, date)
           settled == LeavePastEvent(adopted, key)
<1>1. SoundLife(adopted, day)
  BY AdoptIsSound
<1>2. key \in EventKeys \cup {None}
  BY <1>1, EventKeyIsOfTheDate DEF SoundLife
<1> HIDE DEF adopted, key
<1>3. SoundLife(settled, day)
  BY <1>1, FinishIsSound DEF LeavePastEvent
<1>4. SoundLife(NoteDate(settled, date, key), day)
  BY <1>2, <1>3, NoteDateIsSound
<1> USE DEF adopted, key
<1>5. QED
  BY <1>3, <1>4 DEF Observe

\* A game day turns a sound life into a sound life.
LEMMA DayTurnIsSound ==
  ASSUME NEW day \in Nat, NEW l, SoundLife(l, day), NEW next \in DayTurns(l, day)
  PROVE  SoundLife(next, day)
<1> DEFINE reviewed == ReviewEligibility(l, day)
<1>1. SoundLife(reviewed, day)
  BY ReviewIsSound
<1>2. CASE next = reviewed
  BY <1>1, <1>2
<1>3. CASE next # reviewed
  <2>1. PICK form \in DrawableForms(reviewed) :
             /\ reviewed.ordinaryTransformationEligible
             /\ reviewed.pendingTransformationFormId = None
             /\ next = QueueOrdinaryTransformation(reviewed, form)
    BY <1>3 DEF DayTurns
  <2>2. form \in OrdinaryForms
    BY <2>1 DEF DrawableForms
  <2>3. CanConsiderOrdinaryForm(reviewed, day)
    <3>1. l \in Life
      BY DEF SoundLife
    <3>2. reviewed.ordinaryTransformationEligible = CanConsiderOrdinaryForm(l, day)
      BY <3>1 DEF ReviewEligibility, Life
    <3>3. CanConsiderOrdinaryForm(reviewed, day) = CanConsiderOrdinaryForm(l, day)
      BY <3>1 DEF ReviewEligibility, CanConsiderOrdinaryForm, TotalCareMoments, Life
    <3>4. QED
      BY <2>1, <3>2, <3>3
  <2>4. QED
    BY <1>1, <2>1, <2>2, <2>3, QueueOrdinaryIsSound
<1>4. QED
  BY <1>2, <1>3

=============================================================================
