----------------------------- MODULE LifeCycle -----------------------------
(***************************************************************************)
(* One Chatty's life through any order of care, new game days, shown       *)
(* transformations and looks at the device's date.  The reducer calls      *)
(* recordCare, reviewEligibility, queueOrdinaryTransformation and          *)
(* completeQueuedTransformation; the app calls observe after every action  *)
(* and once when a save is loaded.  The device's date may jump: the phone  *)
(* sleeps over days, and a time zone or a clock setting moves it back.     *)
(***************************************************************************)
EXTENDS LifeState

CONSTANTS
  GivenKinds,      (* Kinds of care the player gives.           *)
  MaxDay,          (* Bound on the game day.                    *)
  MaxMoments       (* Bound on the number of moments of care.   *)

ASSUME BoundsAssumption ==
  /\ GivenKinds \subseteq CareKinds
  /\ MaxDay \in Nat
  /\ MaxMoments \in Nat

VARIABLES
  life,            (* GameState.life                            *)
  dayCount,        (* GameState.dayCount                        *)
  today            (* The device's local date, DateTime.now().  *)

vars == <<life, dayCount, today>>

TypeOK ==
  /\ life \in Life
  /\ dayCount \in Nat
  /\ today \in Dates

Init ==
  /\ life = NewLife
  /\ dayCount = 1
  /\ today \in Dates

\* An item was used.
Care(kind) ==
  /\ TotalCareMoments(life) < MaxMoments
  /\ life' = RecordCare(life, kind, dayCount)
  /\ UNCHANGED <<dayCount, today>>

NewDay ==
  /\ dayCount < MaxDay
  /\ dayCount' = dayCount + 1
  /\ life' \in DayTurns(life, dayCount')
  /\ UNCHANGED today

\* The animation of a queued transformation has run.
Complete ==
  /\ life' = CompleteQueuedTransformation(life, dayCount)
  /\ UNCHANGED <<dayCount, today>>

ObserveToday ==
  /\ life' = Observe(life, today)
  /\ UNCHANGED <<dayCount, today>>

DateChanges ==
  /\ today' \in Dates \ {today}
  /\ UNCHANGED <<life, dayCount>>

Next ==
  \/ \E kind \in GivenKinds : Care(kind)
  \/ NewDay
  \/ Complete
  \/ ObserveToday
  \/ DateChanges

Spec == Init /\ [][Next]_vars

----------------------------------------------------------------------------
(* Properties. *)

\* Chatty always has a way out of a costume.  A queue that overwrote one slot
\* and not the other (queueCalendarTransformation over a queued form,
\* finishCalendarEvent before a late completion) would leave Chatty in an event
\* form for ever, or take an ordinary form away with the event.
CostumeHasWayHome == HasWayHome(life)

\* recordCare's counters tell one consistent story over any mix of days with no
\* care, one kind of care and several.
CareDaysAddUp == CareAddsUp(life, dayCount)

\* An ordinary surprise that waits to be shown was earned: the care it asks for
\* has been given, and the cooldown since the last shown transformation is over,
\* however long the queue is kept and whatever happens meanwhile.
PendingSurpriseWasEarned == PendingIsEarned(life, dayCount)

\* observe remembers an occurrence before it queues it and never queues the one
\* on stage, whatever order dates come in.
OccurrencesAreRecorded == OccurrencesRecorded(life)

\* Looking at the date ends every event that is not today's, also one that was
\* completed late, and leaves at most today's on stage.
ObservingEndsPastEvents ==
  [][ ObserveToday
        => \/ life'.activeCalendarEventKey = None
           \/ life'.activeCalendarEventKey[2] = today ]_vars

\* An occurrence is shown at most once in a life: when it is out of the queue
\* and Chatty has taken its costume off, no later date, replacement in the queue
\* or clock change brings it back.
OccurrenceStaysOver ==
  [][ \A key \in life.encounteredEventIds :
        key \notin {life.pendingCalendarEventKey, life.activeCalendarEventKey}
          => key \notin {life'.pendingCalendarEventKey,
                         life'.activeCalendarEventKey} ]_vars

\* chatty_life_state.dart:102-103 on queueOrdinaryTransformation: storing the
\* surprise "prevents an interrupted animation from losing the moment".  A
\* queued ordinary form stays queued until it is the form Chatty wears.
QueuedSurpriseIsKept ==
  [][ life.pendingTransformationFormId \in OrdinaryForms
        => \/ life'.pendingTransformationFormId = life.pendingTransformationFormId
           \/ life'.activeFormId = life.pendingTransformationFormId ]_vars

=============================================================================
