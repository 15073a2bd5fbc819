-------------------------- MODULE LifeCycleProofs --------------------------
(***************************************************************************)
(* LifeCycle keeps a life sound on every path, for every calendar, set of  *)
(* forms, threshold and bound.                                             *)
(***************************************************************************)
EXTENDS LifeCycle, LifeStateProofs

IInv ==
  /\ dayCount \in Nat \ {0}
  /\ today \in Dates
  /\ SoundLife(life, dayCount)

\* A new life is sound on the first day.
LEMMA InitIsSound == Init => IInv
<1>1. Init => today \in Dates /\ dayCount = 1 /\ life = NewLife
  BY DEF Init
<1>2. QED
  BY <1>1, NewLifeIsSound DEF IInv

\* No step makes a life unsound: one step of the proof for each action.
LEMMA NextIsSound == IInv /\ [Next]_vars => IInv'
<1> SUFFICES ASSUME IInv, [Next]_vars
             PROVE  IInv'
  OBVIOUS
<1>1. ASSUME NEW kind \in GivenKinds, Care(kind)
      PROVE  IInv'
  <2>1. kind \in CareKinds
    BY BoundsAssumption
  <2>2. SoundLife(RecordCare(life, kind, dayCount), dayCount)
    BY <2>1, RecordCareIsSound DEF IInv
  <2>3. QED
    BY <1>1, <2>2 DEF Care, IInv
<1>2. CASE NewDay
  <2>1. dayCount + 1 \in Nat \ {0} /\ SoundLife(life, dayCount + 1)
    BY LaterDayIsSound DEF IInv
  <2>2. SoundLife(life', dayCount + 1)
    BY <1>2, <2>1, DayTurnIsSound DEF NewDay
  <2>3. QED
    BY <1>2, <2>1, <2>2 DEF NewDay, IInv
<1>3. CASE Complete
  BY <1>3, CompleteIsSound DEF Complete, IInv
<1>4. CASE ObserveToday
  BY <1>4, ObserveIsSound DEF ObserveToday, IInv
<1>5. CASE DateChanges
  BY <1>5 DEF DateChanges, IInv
<1>6. CASE UNCHANGED vars
  BY <1>6 DEF vars, IInv
<1>7. QED
  BY <1>1, <1>2, <1>3, <1>4, <1>5, <1>6 DEF Next

\* Every reachable life is sound.
THEOREM LivesAreSound == Spec => []IInv
<1>1. QED
  BY InitIsSound, NextIsSound, PTL DEF Spec

\* Type correctness.
THEOREM LifeCycleTyped == Spec => []TypeOK
<1>1. IInv => TypeOK
  BY DEF IInv, TypeOK, SoundLife
<1>2. QED
  BY <1>1, LivesAreSound, PTL

\* No calendar, however its events overlap, leaves Chatty in a costume for ever.
THEOREM CostumeAlwaysHasWayHome == Spec => []CostumeHasWayHome
<1>1. IInv => CostumeHasWayHome
  BY DEF IInv, CostumeHasWayHome, SoundLife
<1>2. QED
  BY <1>1, LivesAreSound, PTL

\* The counters of care stay consistent for every number of days and moments.
THEOREM CareDaysAlwaysAddUp == Spec => []CareDaysAddUp
<1>1. IInv => CareDaysAddUp
  BY DEF IInv, CareDaysAddUp, SoundLife
<1>2. QED
  BY <1>1, LivesAreSound, PTL

\* For every threshold, what waits in the queue was earned.
THEOREM SurpriseAlwaysEarned == Spec => []PendingSurpriseWasEarned
<1>1. IInv => PendingSurpriseWasEarned
  BY DEF IInv, PendingSurpriseWasEarned, SoundLife
<1>2. QED
  BY <1>1, LivesAreSound, PTL

\* What is queued or worn for an event is remembered, and is in one place.
THEOREM OccurrencesAlwaysRecorded == Spec => []OccurrencesAreRecorded
<1>1. IInv => OccurrencesAreRecorded
  BY DEF IInv, OccurrencesAreRecorded, SoundLife
<1>2. QED
  BY <1>1, LivesAreSound, PTL

----------------------------------------------------------------------------
(* What a look at the date may do. *)

\* Only today's event survives a look at the date, and nothing that is
\* remembered and out of play returns.
LEMMA ObserveEndsAndNeverRepeats ==
  ASSUME NEW day \in Nat, NEW l, SoundLife(l, day), NEW date \in Dates
  PROVE  LET next == Observe(l, date) IN
         /\ \/ next.activeCalendarEventKey = None
            \/ next.activeCalendarEventKey[2] = date
         /\ \A key \in l.encounteredEventIds :
              key \notin {l.pendingCalendarEventKey, l.activeCalendarEventKey}
                => key \notin {next.pendingCalendarEventKey,
                               next.activeCalendarEventKey}
<1> DEFINE adopted == Adopt(l, date)
           brought == EventKeyFor(adopted, date)
           settled == LeavePastEvent(adopted, brought)
           next    == Observe(l, date)
<1>0. l \in Life
  BY DEF SoundLife
<1>1. /\ SoundLife(adopted, day)
      /\ adopted \in Life
      /\ adopted.encounteredEventIds = l.encounteredEventIds
      /\ adopted.pendingCalendarEventKey = l.pendingCalendarEventKey
      /\ adopted.activeCalendarEventKey = l.activeCalendarEventKey
  BY <1>0, AdoptIsSound DEF Adopt, Life, SoundLife
<1>2. brought # None => brought[2] = date
  BY <1>1, EventKeyIsOfTheDate
<1> HIDE DEF adopted, brought
<1>3. /\ settled \in Life
      /\ settled.encounteredEventIds = adopted.encounteredEventIds
      /\ settled.pendingCalendarEventKey = adopted.pendingCalendarEventKey
      /\ settled.activeCalendarEventKey \in {None, brought}
      /\ settled.activeCalendarEventKey \in {None, adopted.activeCalendarEventKey}
  <2>1. settled \in Life
    BY <1>1, FinishIsSound DEF LeavePastEvent, SoundLife
  <2>2. QED
    BY <1>1, <2>1 DEF LeavePastEvent, FinishCalendarEvent, Life
<1> HIDE DEF settled
<1>4. /\ next.activeCalendarEventKey = settled.activeCalendarEventKey
      /\ \/ next.pendingCalendarEventKey = settled.pendingCalendarEventKey
         \/ /\ next.pendingCalendarEventKey = brought
            /\ brought \notin settled.encounteredEventIds
  <2>1. next = IF AlreadyObserved(settled, date, brought)
                 THEN settled
                 ELSE NoteDate(settled, date, brought)
    BY DEF Observe, adopted, brought, settled
  <2>2. QED
    BY <1>3, <2>1 DEF NoteDate, QueueCalendarTransformation, IsNewOccurrence, Life
<1>5. \A key \in l.encounteredEventIds : key # None
  BY <1>0, FormsAssumption DEF Life
<1>6. QED
  BY <1>1, <1>2, <1>3, <1>4, <1>5

\* A late look at the date ends the events the device slept through.
THEOREM ObservingAlwaysEndsPastEvents == Spec => ObservingEndsPastEvents
<1>1. IInv /\ [Next]_vars
        => [ ObserveToday
               => \/ life'.activeCalendarEventKey = None
                  \/ life'.activeCalendarEventKey[2] = today ]_vars
  BY ObserveEndsAndNeverRepeats DEF IInv, SoundLife, ObserveToday
<1>2. QED
  BY <1>1, LivesAreSound, PTL DEF Spec, ObservingEndsPastEvents

\* An occurrence that left the queue and the stage never comes back.
THEOREM OccurrenceAlwaysStaysOver == Spec => OccurrenceStaysOver
<1> DEFINE Stays ==
      \A key \in life.encounteredEventIds :
        key \notin {life.pendingCalendarEventKey, life.activeCalendarEventKey}
          => key \notin {life'.pendingCalendarEventKey,
                         life'.activeCalendarEventKey}
<1>1. IInv /\ [Next]_vars => [Stays]_vars
  <2> SUFFICES ASSUME IInv, Next
               PROVE  Stays
    OBVIOUS
  <2>0. life \in Life
    BY DEF IInv, SoundLife
  <2>1. ASSUME NEW kind \in GivenKinds, Care(kind)
        PROVE  Stays
    BY <2>0, <2>1 DEF Care, RecordCare, ReviewEligibility, Life
  <2>2. CASE NewDay
    BY <2>0, <2>2 DEF NewDay, DayTurns, ReviewEligibility,
                      QueueOrdinaryTransformation, Life
  <2>3. CASE Complete
    BY <2>0, <2>3, FormsAssumption DEF Complete, CompleteQueuedTransformation, Life
  <2>4. CASE ObserveToday
    BY <2>0, <2>4, ObserveEndsAndNeverRepeats DEF IInv, ObserveToday
  <2>5. CASE DateChanges
    BY <2>5 DEF DateChanges
  <2>6. QED
    BY <2>1, <2>2, <2>3, <2>4, <2>5 DEF Next
<1>2. QED
  BY <1>1, LivesAreSound, PTL DEF Spec, OccurrenceStaysOver

=============================================================================
