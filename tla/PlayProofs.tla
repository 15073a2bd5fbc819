----------------------------- MODULE PlayProofs ----------------------------
(***************************************************************************)
(* The stage, the clock, the mood and the care ledger hold in every game   *)
(* played, and a game in play is a life of LifeCycle: for any grid, length *)
(* of day, datapack, calendar, thresholds and bounds.                      *)
(***************************************************************************)
EXTENDS Approach, ReducerProofs

\* The inductive invariant.
PlayInv ==
  /\ SoundGame(game)
  /\ today \in Dates
  /\ game.nextItemId <= MaxSpawns + 1

\* What a step of the game may do to the life and to what is counted.
OrdinaryStep ==
  /\ game'.pet.position = game.pet.position /\ game'.tickCount = game.tickCount
  /\ game'.dayCount = game.dayCount
  /\ game'.life = game.life

\* Handlers that touch neither the pet's place nor the clock nor the life.
LEMMA StageActionsAreOrdinary ==
  ASSUME PlayInv,
         \/ \E template \in AllTemplates : DoSpawn(template)
         \/ \E template \in CustomTemplates : DoCreateCustomTemplate(template)
         \/ \E id \in ItemIds : DoSelect(id) \/ DoRemove(id)
         \/ DoClearStage
  PROVE  PlayInv' /\ OrdinaryStep /\ today' = today
<1>0. SoundGame(game) /\ SteadyGame(game) /\ game \in Game /\ MaxSpawns \in Nat
  BY PlayBoundsAssumption DEF PlayInv, SoundGame, SteadyGame
<1> USE DEF PlayInv, OrdinaryStep, Reject, RefreshPetState, SyncActivityPhase, Game, Pet
<1>1. ASSUME NEW template \in AllTemplates, DoSpawn(template)
      PROVE  PlayInv' /\ OrdinaryStep /\ today' = today
  <2>1. SoundGame(game')
    BY <1>0, <1>1, SpawnIsSound DEF SoundGame, Keeps, DoSpawn
  <2>2. CASE game' = Reject(game)
    BY <1>0, <1>1, <2>1, <2>2 DEF DoSpawn
  <2>3. CASE game' # Reject(game)
    <3>1. PICK cell \in OpenCells(game) :
            game' = RefreshPetState(
                      [game EXCEPT
                         !.items      = @ \cup {[ id         |-> game.nextItemId,
                                                  templateId |-> template,
                                                  position   |-> cell ]},
                         !.nextItemId = @ + 1])
      BY <1>1, <2>3 DEF DoSpawn, Spawn
    <3>2. QED
      BY <1>0, <1>1, <2>1, <3>1 DEF DoSpawn
  <2>4. QED
    BY <2>2, <2>3
<1>2. ASSUME NEW template \in CustomTemplates, DoCreateCustomTemplate(template)
      PROVE  PlayInv' /\ OrdinaryStep /\ today' = today
  <2>1. SoundGame(game')
    BY <1>0, <1>2, CreateIsSound DEF SoundGame, Keeps, DoCreateCustomTemplate
  <2>2. QED
    BY <1>0, <1>2, <2>1 DEF DoCreateCustomTemplate, CreateCustomTemplate
<1>3. ASSUME NEW id \in ItemIds, DoSelect(id)
      PROVE  PlayInv' /\ OrdinaryStep /\ today' = today
  <2>1. SoundGame(game')
    BY <1>0, <1>3, SelectIsSound DEF SoundGame, Keeps, DoSelect, ItemIds
  <2>2. QED
    BY <1>0, <1>3, <2>1 DEF DoSelect, SelectItem
<1>4. ASSUME NEW id \in ItemIds, DoRemove(id)
      PROVE  PlayInv' /\ OrdinaryStep /\ today' = today
  <2>1. SoundGame(game')
    BY <1>0, <1>4, RemoveIsSound DEF SoundGame, Keeps, DoRemove, ItemIds
  <2>2. QED
    BY <1>0, <1>4, <2>1 DEF DoRemove, RemoveStageItem
<1>5. CASE DoClearStage
  <2>1. SoundGame(game')
    BY <1>0, <1>5, ClearIsSound DEF SoundGame, Keeps, DoClearStage
  <2>2. QED
    BY <1>0, <1>5, <2>1 DEF DoClearStage, ClearStage
<1>6. QED
  BY <1>1, <1>2, <1>3, <1>4, <1>5

\* A new game has no item yet.
LEMMA PlayBegins == Init => PlayInv
<1>1. NewGame.nextItemId = 1
  BY DEF NewGame, RefreshPetState
<1>2. QED
  BY <1>1, NewGameIsSound, PlayBoundsAssumption DEF Init, PlayInv

\* One step for each action.
LEMMA PlayStays ==
  ASSUME PlayInv, [Next]_vars
  PROVE  PlayInv'
<1>0. SoundGame(game) /\ today \in Dates /\ game.nextItemId <= MaxSpawns + 1
  BY DEF PlayInv
<1>1. CASE DoTick
  <2>1. SoundGame(game') /\ game'.nextItemId = game.nextItemId
    BY <1>0, <1>1, TickIsSound DEF SoundGame, Keeps, DoTick
  <2>2. QED
    BY <1>0, <1>1, <2>1 DEF DoTick, PlayInv
<1>2. CASE \/ \E template \in AllTemplates : DoSpawn(template)
           \/ \E template \in CustomTemplates : DoCreateCustomTemplate(template)
           \/ \E id \in ItemIds : DoSelect(id) \/ DoRemove(id)
           \/ DoClearStage
  BY <1>2, StageActionsAreOrdinary
<1>3. ASSUME NEW id \in ItemIds \cup {None}, DoInspect(id)
      PROVE  PlayInv'
  <2>1. SoundGame(game') /\ game'.nextItemId = game.nextItemId
    BY <1>0, <1>3, InspectIsSound DEF SoundGame, Keeps, DoInspect
  <2>2. QED
    BY <1>0, <1>3, <2>1 DEF DoInspect, PlayInv
<1>4. ASSUME NEW id \in ItemIds \cup {None}, DoUse(id)
      PROVE  PlayInv'
  <2>1. SoundGame(game') /\ game'.nextItemId = game.nextItemId
    BY <1>0, <1>4, UseIsSound DEF SoundGame, Keeps, DoUse
  <2>2. QED
    BY <1>0, <1>4, <2>1 DEF DoUse, PlayInv
<1>5. CASE DoComplete
  <2>1. SoundGame(game') /\ game'.nextItemId = game.nextItemId
    BY <1>0, <1>5, CompletionIsSound DEF SoundGame, Keeps, DoComplete
  <2>2. QED
    BY <1>0, <1>5, <2>1 DEF DoComplete, PlayInv
<1>6. CASE DoObserve
  <2>1. SoundGame(game') /\ game'.nextItemId = game.nextItemId
    BY <1>0, <1>6, ObservingIsSound DEF SoundGame, Keeps, DoObserve
  <2>2. QED
    BY <1>0, <1>6, <2>1 DEF DoObserve, PlayInv
<1>7. CASE DateChanges \/ UNCHANGED vars
  BY <1>0, <1>7 DEF DateChanges, vars, PlayInv
<1>8. QED
  BY <1>1, <1>2, <1>3, <1>4, <1>5, <1>6, <1>7 DEF Next

\* Spec has PlayInv.
LEMMA PlayIsSound == Spec => []PlayInv
<1>1. PlayInv /\ [Next]_vars => PlayInv'
  BY PlayStays
<1>2. QED
  BY PlayBegins, <1>1, PTL DEF Spec

\* The reducer's game keeps its types: the pet on the grid, needs and affection in
\* their ranges, ids from 1.
THEOREM GameTyped == Spec => []TypeOK
<1>1. PlayInv => TypeOK
  BY DEF PlayInv, SoundGame, SteadyGame, TypeOK
<1>2. QED
  BY PlayIsSound, <1>1, PTL

\* The stage is whole after any order of spawning, using, removing and clearing.
THEOREM StageAlwaysWhole == Spec => []StageIsWhole
<1>1. PlayInv => StageIsWhole
  BY DEF PlayInv, SoundGame, SteadyGame, WholeStage, StageIsWhole, IdsOnStage
<1>2. QED
  BY PlayIsSound, <1>1, PTL

\* The template of every item on stage can be looked up and is unlocked.
THEOREM StageItemsAlwaysKnown == Spec => []StageItemsAreKnown
<1>1. PlayInv => StageItemsAreKnown
  BY DEF PlayInv, SoundGame, SteadyGame, KnownItems, StageItemsAreKnown
<1>2. QED
  BY PlayIsSound, <1>1, PTL

\* Day, hour and sky follow from the tick count.
THEOREM ClockAlwaysAgrees == Spec => []ClockAgrees
<1>1. PlayInv => ClockAgrees
  BY DEF PlayInv, SoundGame, SteadyGame, RightTime, RightSky, ClockAgrees
<1>2. QED
  BY PlayIsSound, <1>1, PTL

\* The mood is that of the needs after every handler.
THEOREM MoodAlwaysCurrent == Spec => []MoodIsCurrent
<1>1. PlayInv => MoodIsCurrent
  BY DEF PlayInv, SoundGame, RightMood, MoodIsCurrent
<1>2. QED
  BY PlayIsSound, <1>1, PTL

\* Affection unlocks what it should, and nothing else.
THEOREM UnlocksAlwaysFollowAffection == Spec => []UnlocksFollowAffection
<1>1. PlayInv => UnlocksFollowAffection
  BY DEF PlayInv, SoundGame, SteadyGame, RightUnlocks, UnlocksFollowAffection
<1>2. QED
  BY PlayIsSound, <1>1, PTL

\* What the player is owed an account of is at most what is counted for all items.
LEMMA PaidCareIsPaidForAll ==
  ASSUME PlayInv
  PROVE  CareIsPaidWithItems
<1> DEFINE kept == {i \in game.items : ~IsToy(i.templateId)}
<1>1. /\ IsFiniteSet(game.items)
      /\ TotalCareMoments(game.life) + Cardinality(game.items) < game.nextItemId
      /\ game.nextItemId \in Nat /\ game.life \in Life
  BY DEF PlayInv, SoundGame, SteadyGame, PaidCare, Game
<1>2. IsFiniteSet(kept) /\ Cardinality(kept) <= Cardinality(game.items)
  BY <1>1, FS_Subset
<1>3. Cardinality(kept) \in Nat /\ Cardinality(game.items) \in Nat
  BY <1>1, <1>2, FS_CardinalityType
<1>4. game.life.moments["playful"] \in Nat /\ TotalCareMoments(game.life) \in Int
  BY <1>1 DEF Life, TotalCareMoments, CareKinds
<1> HIDE DEF kept
<1>5. TotalCareMoments(game.life) - game.life.moments["playful"] + Cardinality(kept)
        < game.nextItemId
  BY <1>1, <1>2, <1>3, <1>4
<1>6. QED
  BY <1>5 DEF CareIsPaidWithItems, kept

\* An item that is not a toy is one moment of care at most.
THEOREM CareAlwaysPaid == Spec => []CareIsPaidWithItems
<1>1. PlayInv => CareIsPaidWithItems
  BY PaidCareIsPaidForAll
<1>2. QED
  BY PlayIsSound, <1>1, PTL

----------------------------------------------------------------------------
(* Steps. *)

\* What each action does to the clock, the pet's place and the life.
LEMMA StepsOfPlay ==
  ASSUME PlayInv, [Next]_vars
  PROVE  \/ /\ DoTick
            /\ today' = today
            /\ game'.tickCount = game.tickCount + 1
            /\ game'.life.moments = game.life.moments
            /\ \/ game'.dayCount = game.dayCount /\ game'.life = game.life
               \/ /\ game'.dayCount = game.dayCount + 1
                  /\ game'.life \in DayTurns(game.life, game'.dayCount)
         \/ /\ game'.pet.position = game.pet.position
            /\ game'.tickCount = game.tickCount /\ game'.dayCount = game.dayCount
            /\ \/ game'.life = game.life /\ today' \in Dates
               \/ /\ today' = today
                  /\ \E i \in game.items :
                       /\ game'.items = game.items \ {i}
                       /\ InReach(game.pet.position, i.position)
                       /\ i.templateId \in AllTemplates
                       /\ game'.life
                            = RecordCare(game.life, CareKindOf[i.templateId], game.dayCount)
               \/ /\ today' = today
                  /\ game'.life.moments = game.life.moments
                  /\ \/ game'.life = CompleteQueuedTransformation(game.life, game.dayCount)
                     \/ game'.life = Observe(game.life, today)
<1>0. SteadyGame(game) /\ today \in Dates
  BY DEF PlayInv, SoundGame
<1>1. CASE DoTick
  BY <1>0, <1>1, TickIsSound DEF DoTick
<1>2. CASE \/ \E template \in AllTemplates : DoSpawn(template)
           \/ \E template \in CustomTemplates : DoCreateCustomTemplate(template)
           \/ \E id \in ItemIds : DoSelect(id) \/ DoRemove(id)
           \/ DoClearStage
  BY <1>0, <1>2, StageActionsAreOrdinary DEF OrdinaryStep
<1>3. ASSUME NEW id \in ItemIds \cup {None}, DoInspect(id)
      PROVE  /\ game'.pet.position = game.pet.position
             /\ game'.tickCount = game.tickCount /\ game'.dayCount = game.dayCount
             /\ game'.life = game.life /\ today' \in Dates
  BY <1>0, <1>3, InspectIsSound DEF DoInspect
<1>4. ASSUME NEW id \in ItemIds \cup {None}, DoUse(id)
      PROVE  /\ game'.pet.position = game.pet.position
             /\ game'.tickCount = game.tickCount /\ game'.dayCount = game.dayCount
             /\ today' = today
             /\ \/ game'.life = game.life
                \/ \E i \in game.items :
                     /\ game'.items = game.items \ {i}
                     /\ InReach(game.pet.position, i.position)
                     /\ i.templateId \in AllTemplates
                     /\ game'.life
                          = RecordCare(game.life, CareKindOf[i.templateId], game.dayCount)
  BY <1>0, <1>4, UseIsSound DEF DoUse
<1>5. CASE DoComplete
  BY <1>0, <1>5, CompletionIsSound DEF DoComplete
<1>6. CASE DoObserve
  BY <1>0, <1>6, ObservingIsSound DEF DoObserve
<1>7. CASE DateChanges \/ UNCHANGED vars
  BY <1>0, <1>7 DEF DateChanges, vars
<1>8. QED
  BY <1>0, <1>1, <1>2, <1>3, <1>4, <1>5, <1>6, <1>7 DEF Next

\* The part of the three action properties that holds of a step of Next.
LEMMA CareIsContact ==
  ASSUME PlayInv, [Next]_vars, game'.life.moments # game.life.moments
  PROVE  \E i \in game.items :
           /\ IsUsedUp(i)
           /\ InReach(game'.pet.position, i.position)
           /\ game'.life.moments
                = [game.life.moments EXCEPT ![CareKindOf[i.templateId]] = @ + 1]
<1>1. PICK i \in game.items :
        /\ game'.pet.position = game.pet.position
        /\ game'.items = game.items \ {i}
        /\ InReach(game.pet.position, i.position)
        /\ i.templateId \in AllTemplates
        /\ game'.life = RecordCare(game.life, CareKindOf[i.templateId], game.dayCount)
  BY StepsOfPlay
<1>2. game.life \in Life /\ CareKindOf[i.templateId] \in CareKinds
  BY <1>1, TemplatesAssumption DEF PlayInv, SoundGame, SteadyGame, Game
<1>3. game'.life.moments = [game.life.moments EXCEPT ![CareKindOf[i.templateId]] = @ + 1]
  BY <1>1, <1>2, CareIsOneMoment
<1>4. IsUsedUp(i)
  BY <1>1 DEF IsUsedUp
<1>5. QED
  BY <1>1, <1>3, <1>4

LEMMA TicksAreSteps ==
  ASSUME PlayInv, PlayInv', [Next]_vars
  PROVE  /\ game'.pet.position \in Cells
         /\ Distance(game.pet.position, game'.pet.position)
              <= game'.tickCount - game.tickCount
<1>1. /\ game.pet.position \in Cells /\ game'.pet.position \in Cells
      /\ game.tickCount \in Nat
  BY DEF PlayInv, SoundGame, SteadyGame, Game, Pet
<1>2. CASE DoTick
  <2>1. /\ game'.tickCount = game.tickCount + 1
        /\ Distance(game.pet.position, game'.pet.position) <= 1
    BY <1>2, TickIsSound DEF DoTick, PlayInv, SoundGame
  <2>2. QED
    BY <1>1, <2>1
<1>3. CASE ~DoTick
  <2>1. /\ game'.pet.position = game.pet.position
        /\ game'.tickCount = game.tickCount
    BY <1>3, StepsOfPlay
  <2>2. QED
    BY <1>1, <2>1, StayingIsNoWalk
<1>4. QED
  BY <1>2, <1>3

LEMMA TicksLeadToTheSelected ==
  ASSUME PlayInv, [Next]_vars, game'.tickCount # game.tickCount
  PROVE  \A i \in ItemsWithId(game, game.selectedItemId) :
           \/ InReach(game.pet.position, i.position)
           \/ Distance(game'.pet.position, i.position)
                < Distance(game.pet.position, i.position)
<1>1. game' \in Tick(game)
  BY StepsOfPlay DEF DoTick
<1>2. QED
  BY <1>1, TickIsSound DEF PlayInv, SoundGame

\* _handleUse is the only handler that cares, once, for an item that was in reach and
\* is used up by it.
THEOREM CareAlwaysMeansContact == Spec => CareMeansContact
<1>1. PlayInv /\ [Next]_vars
        => [ game'.life.moments # game.life.moments
               => \E i \in game.items :
                    /\ IsUsedUp(i)
                    /\ InReach(game'.pet.position, i.position)
                    /\ game'.life.moments
                         = [game.life.moments EXCEPT ![CareKindOf[i.templateId]] = @ + 1] ]_vars
  BY CareIsContact
<1>2. QED
  BY PlayIsSound, <1>1, PTL DEF Spec, CareMeansContact

\* A tick is the only step of the pet, and it is a step on the grid.
THEOREM PetAlwaysOnStage == Spec => PetWalksOnStage
<1>1. PlayInv /\ PlayInv' /\ [Next]_vars
        => [ /\ game'.pet.position \in Cells
             /\ Distance(game.pet.position, game'.pet.position)
                  <= game'.tickCount - game.tickCount ]_vars
  BY TicksAreSteps
<1>2. QED
  BY PlayIsSound, <1>1, PTL DEF Spec, PetWalksOnStage

\* A tick heads for the item the player selected before any other.
THEOREM SelectionAlwaysLeads == Spec => SelectionLeads
<1>1. PlayInv /\ [Next]_vars
        => [ game'.tickCount # game.tickCount
               => \A i \in ItemsWithId(game, game.selectedItemId) :
                    \/ InReach(game.pet.position, i.position)
                    \/ Distance(game'.pet.position, i.position)
                         < Distance(game.pet.position, i.position) ]_vars
  BY TicksLeadToTheSelected
<1>2. QED
  BY PlayIsSound, <1>1, PTL DEF Spec, SelectionLeads

----------------------------------------------------------------------------
(* A game in play is a life of LifeCycle. *)

\* Few days are begun in few ticks.
LEMMA DaysAreNoMoreThanTicks ==
  ASSUME NEW t \in Nat, NEW d \in Nat \ {0}
  PROVE  t \div d <= t
<1>1. t \div d \in Nat /\ t % d \in 0 .. d - 1 /\ t = d * (t \div d) + (t % d)
  BY Dividing
<1> DEFINE q == t \div d
<1> HIDE DEF q
<1>2. q \in Nat /\ t >= d * q
  BY <1>1 DEF q
<1>3. d * q >= q
  BY <1>2
<1>4. QED
  BY <1>2, <1>3 DEF q

\* Every step of the game is a step of its life, or leaves it alone.
LEMMA StepsAreOfALife ==
  ASSUME PlayInv, PlayInv', [Next]_vars
  PROVE  Lives!Next \/ UNCHANGED Lives!vars
<1>0. /\ SteadyGame(game) /\ game \in Game /\ today \in Dates /\ today' \in Dates
      /\ game.life \in Life /\ game.dayCount \in Nat /\ game.tickCount \in Nat
  BY DEF PlayInv, SoundGame, SteadyGame, Game
<1>1. CASE /\ DoTick
           /\ today' = today
           /\ game'.dayCount = game.dayCount + 1
           /\ game'.life \in DayTurns(game.life, game'.dayCount)
  <2>1. game.dayCount < MaxTicks + 1
    <3>1. game.tickCount < MaxTicks /\ MaxTicks \in Nat
      BY <1>1, PlayBoundsAssumption DEF DoTick
    <3>2. game.dayCount = 1 + (game.tickCount \div TicksPerDay)
      BY <1>0 DEF SteadyGame, RightTime
    <3>3. /\ game.tickCount \div TicksPerDay <= game.tickCount
          /\ game.tickCount \div TicksPerDay \in Nat
      BY <1>0, RulesAssumption, DaysAreNoMoreThanTicks, Dividing
    <3>4. QED
      BY <1>0, <3>1, <3>2, <3>3
  <2>2. Lives!DayTurns(game.life, game'.dayCount) = DayTurns(game.life, game'.dayCount)
    BY DEF DayTurns, Lives!DayTurns, ReviewEligibility, Lives!ReviewEligibility,
           CanConsiderOrdinaryForm, Lives!CanConsiderOrdinaryForm,
           QueueOrdinaryTransformation, Lives!QueueOrdinaryTransformation,
           DrawableForms, Lives!DrawableForms, TotalCareMoments, Lives!TotalCareMoments
  <2>3. Lives!NewDay
    BY <1>1, <2>1, <2>2 DEF Lives!NewDay
  <2>4. QED
    BY <2>3 DEF Lives!Next
<1>2. CASE /\ game'.dayCount = game.dayCount
           /\ game'.life = game.life
  <2>1. CASE today' = today
    BY <1>2, <2>1 DEF Lives!vars
  <2>2. CASE today' # today
    BY <1>0, <1>2, <2>2 DEF Lives!DateChanges, Lives!Next
  <2>3. QED
    BY <2>1, <2>2
<1>3. ASSUME NEW i \in game.items,
             today' = today,
             game'.dayCount = game.dayCount,
             i.templateId \in AllTemplates,
             game'.life = RecordCare(game.life, CareKindOf[i.templateId], game.dayCount)
      PROVE  Lives!Next
  <2> DEFINE kind == CareKindOf[i.templateId]
  <2>1. kind \in CareKinds
    BY <1>3, TemplatesAssumption
  <2>2. TotalCareMoments(game.life) < MaxSpawns
    <3>1. /\ IsFiniteSet(game.items)
          /\ TotalCareMoments(game.life) + Cardinality(game.items) < game.nextItemId
          /\ game.nextItemId <= MaxSpawns + 1 /\ game.nextItemId \in Nat
          /\ MaxSpawns \in Nat
      BY <1>0, PlayBoundsAssumption DEF PlayInv, SteadyGame, PaidCare, Game
    <3>2. Cardinality(game.items) \in Nat /\ Cardinality(game.items) # 0
      BY <1>3, <3>1, FS_CardinalityType, FS_EmptySet
    <3>3. TotalCareMoments(game.life) \in Int
      BY <1>0 DEF Life, TotalCareMoments, CareKinds
    <3>4. QED
      BY <3>1, <3>2, <3>3
  <2>3. Lives!RecordCare(game.life, kind, game.dayCount)
          = RecordCare(game.life, kind, game.dayCount)
    <3>1. ASSUME NEW l
          PROVE  Lives!ReviewEligibility(l, game.dayCount) = ReviewEligibility(l, game.dayCount)
      BY DEF ReviewEligibility, Lives!ReviewEligibility, CanConsiderOrdinaryForm,
             Lives!CanConsiderOrdinaryForm, TotalCareMoments, Lives!TotalCareMoments
    <3>2. Lives!IsNewCareDay(game.life, game.dayCount)
            <=> IsNewCareDay(game.life, game.dayCount)
      BY DEF IsNewCareDay, Lives!IsNewCareDay
    <3>3. Lives!KindsToday(game.life, kind, game.dayCount)
            = KindsToday(game.life, kind, game.dayCount)
      BY <3>2 DEF KindsToday, Lives!KindsToday
    <3>4. Lives!BecameVaried(game.life, kind, game.dayCount)
            <=> BecameVaried(game.life, kind, game.dayCount)
      <4>1. ASSUME NEW S
            PROVE  Lives!Cardinality(S) = Cardinality(S)
        BY DEF Cardinality, Lives!Cardinality
      <4>2. QED
        BY <3>2, <3>3, <4>1 DEF BecameVaried, Lives!BecameVaried
    <3>5. QED
      BY <3>1, <3>2, <3>3, <3>4 DEF RecordCare, Lives!RecordCare
  <2> HIDE DEF kind
  <2>4. Lives!Care(kind)
    BY <1>3, <2>2, <2>3 DEF Lives!Care, kind, TotalCareMoments, Lives!TotalCareMoments
  <2>5. QED
    BY <2>1, <2>4 DEF Lives!Next
<1>4. CASE /\ today' = today
           /\ game'.dayCount = game.dayCount
           /\ game'.life = CompleteQueuedTransformation(game.life, game.dayCount)
  <2>1. Lives!CompleteQueuedTransformation(game.life, game.dayCount)
          = CompleteQueuedTransformation(game.life, game.dayCount)
    BY DEF CompleteQueuedTransformation, Lives!CompleteQueuedTransformation
  <2>2. QED
    BY <1>4, <2>1 DEF Lives!Complete, Lives!Next
<1>5. CASE /\ today' = today
           /\ game'.dayCount = game.dayCount
           /\ game'.life = Observe(game.life, today)
  <2>1. Lives!Observe(game.life, today) = Observe(game.life, today)
    BY DEF Observe, Lives!Observe, Adopt, Lives!Adopt, EventKeyFor, Lives!EventKeyFor,
           LeavePastEvent, Lives!LeavePastEvent, FinishCalendarEvent,
           Lives!FinishCalendarEvent, AlreadyObserved, Lives!AlreadyObserved,
           NoteDate, Lives!NoteDate, IsNewOccurrence, Lives!IsNewOccurrence,
           QueueCalendarTransformation, Lives!QueueCalendarTransformation
  <2>2. QED
    BY <1>5, <2>1 DEF Lives!ObserveToday, Lives!Next
<1>6. QED
  BY <1>1, <1>2, <1>3, <1>4, <1>5, StepsOfPlay

\* The reducer and the app's look at the date treat a life as LifeCycle says, so
\* what LifeCycleProofs proves of lives is true of every game played.
THEOREM PlayImplementsLifeCycle == Spec => LifeCycleSpec
<1>1. Init => Lives!Init
  <2>1. NewGame.life = NewLife /\ NewGame.dayCount = 1
    BY DEF NewGame, RefreshPetState
  <2>2. Lives!NewLife = NewLife
    BY DEF NewLife, Lives!NewLife, CareKinds, Lives!CareKinds
  <2>3. QED
    BY <2>1, <2>2 DEF Init, Lives!Init
<1>2. PlayInv /\ PlayInv' /\ [Next]_vars => [Lives!Next]_(Lives!vars)
  BY StepsAreOfALife
<1>3. QED
  BY PlayIsSound, <1>1, <1>2, PTL DEF Spec, LifeCycleSpec, Lives!Spec

----------------------------------------------------------------------------
(* Whole walks: ApproachSpec. *)

LEMMA ApproachStays ==
  ASSUME PlayInv, [ApproachNext]_vars
  PROVE  PlayInv'
<1>0. SoundGame(game) /\ today \in Dates /\ game.nextItemId <= MaxSpawns + 1
  BY DEF PlayInv
<1>1. CASE [Next]_vars
  BY <1>1, PlayStays
<1>2. CASE DoAdvance
  <2>1. Walked(game, game')
    BY <1>0, <1>2, AdvanceWalks DEF DoAdvance
  <2>2. QED
    BY <1>0, <1>2, <2>1 DEF DoAdvance, Walked, PlayInv
<1>3. CASE DoUseWhenReady
  <2>1. SoundGame(game') /\ game'.nextItemId = game.nextItemId
    BY <1>0, <1>3, UseWhenReadyUses DEF DoUseWhenReady
  <2>2. QED
    BY <1>0, <1>3, <2>1 DEF DoUseWhenReady, PlayInv
<1>4. CASE DoInspectWhenReady
  <2>1. SoundGame(game') /\ game'.nextItemId = game.nextItemId
    BY <1>0, <1>4, InspectWhenReadyWalks DEF DoInspectWhenReady
  <2>2. QED
    BY <1>0, <1>4, <2>1 DEF DoInspectWhenReady, PlayInv
<1>5. QED
  BY <1>1, <1>2, <1>3, <1>4 DEF ApproachNext

LEMMA ApproachIsSound == ApproachSpec => []PlayInv
<1>1. PlayInv /\ [ApproachNext]_vars => PlayInv'
  BY ApproachStays
<1>2. QED
  BY PlayBegins, <1>1, PTL DEF ApproachSpec

\* A walk of many ticks, with an item used or inspected at its end, keeps the stage
\* whole, its items known, the clock, the mood and the unlocks right, and care paid.
THEOREM WalksKeepTheGameSound ==
  ApproachSpec => [](/\ TypeOK /\ StageIsWhole /\ StageItemsAreKnown /\ ClockAgrees
                     /\ MoodIsCurrent /\ UnlocksFollowAffection /\ CareIsPaidWithItems)
<1>1. PlayInv
        => /\ TypeOK /\ StageIsWhole /\ StageItemsAreKnown /\ ClockAgrees
           /\ MoodIsCurrent /\ UnlocksFollowAffection /\ CareIsPaidWithItems
  <2> SUFFICES ASSUME PlayInv
               PROVE  /\ TypeOK /\ StageIsWhole /\ StageItemsAreKnown /\ ClockAgrees
                      /\ MoodIsCurrent /\ UnlocksFollowAffection /\ CareIsPaidWithItems
    OBVIOUS
  <2> USE DEF PlayInv, SoundGame, SteadyGame
  <2>1. TypeOK /\ StageIsWhole
    BY DEF TypeOK, StageIsWhole, WholeStage, IdsOnStage
  <2>2. StageItemsAreKnown
    BY DEF StageItemsAreKnown, KnownItems
  <2>3. ClockAgrees /\ MoodIsCurrent
    BY DEF ClockAgrees, RightTime, RightSky, MoodIsCurrent, RightMood
  <2>4. UnlocksFollowAffection /\ CareIsPaidWithItems
    BY PaidCareIsPaidForAll DEF UnlocksFollowAffection, RightUnlocks
  <2>5. QED
    BY <2>1, <2>2, <2>3, <2>4
<1>2. QED
  BY ApproachIsSound, <1>1, PTL

\* Walks, and what is done at their end, are ticks towards the selected item and at
\* most one moment of care, for an item in reach that is used up.
THEOREM WalksAreTicksAndOneCare ==
  ApproachSpec => CareMeansContact /\ PetWalksOnStage /\ SelectionLeads
<1>1. ASSUME PlayInv, PlayInv', [ApproachNext]_vars
      PROVE  /\ game'.life.moments # game.life.moments
                  => \E i \in game.items :
                       /\ IsUsedUp(i)
                       /\ InReach(game'.pet.position, i.position)
                       /\ game'.life.moments
                            = [game.life.moments EXCEPT ![CareKindOf[i.templateId]] = @ + 1]
             /\ game'.pet.position \in Cells
             /\ Distance(game.pet.position, game'.pet.position)
                  <= game'.tickCount - game.tickCount
             /\ game'.tickCount # game.tickCount
                  => \A i \in ItemsWithId(game, game.selectedItemId) :
                       \/ InReach(game.pet.position, i.position)
                       \/ Distance(game'.pet.position, i.position)
                            < Distance(game.pet.position, i.position)
  <2>0. SoundGame(game) /\ game'.pet.position \in Cells
    BY <1>1 DEF PlayInv, SoundGame, SteadyGame, Game, Pet
  <2>1. CASE [Next]_vars
    BY <1>1, <2>1, CareIsContact, TicksAreSteps, TicksLeadToTheSelected
  <2>2. CASE DoAdvance
    <3>1. Walked(game, game')
      BY <2>0, <2>2, AdvanceWalks DEF DoAdvance
    <3>2. QED
      BY <2>0, <3>1 DEF Walked
  <2>3. CASE DoUseWhenReady
    <3>1. game' \in UseSelectedItemWhenReady(game)
      BY <2>3 DEF DoUseWhenReady
    <3>2. Distance(game.pet.position, game'.pet.position)
            <= game'.tickCount - game.tickCount
      BY <2>0, <3>1, UseWhenReadyUses
    <3>3. CASE game.selectedItemId = None
      BY <2>0, <3>1, <3>2, <3>3, UseWhenReadyUses DEF IsUsedUp
    <3>4. CASE game.selectedItemId # None
      BY <2>0, <3>1, <3>2, <3>4, UseWhenReadyUses DEF IsUsedUp
    <3>5. QED
      BY <3>3, <3>4
  <2>4. CASE DoInspectWhenReady
    <3>1. game' \in InspectSelectedItemWhenReady(game)
      BY <2>4 DEF DoInspectWhenReady
    <3>2. QED
      BY <2>0, <3>1, InspectWhenReadyWalks
  <2>5. QED
    BY <1>1, <2>1, <2>2, <2>3, <2>4 DEF ApproachNext
<1>2. PlayInv /\ PlayInv' /\ [ApproachNext]_vars
        => [ game'.life.moments # game.life.moments
               => \E i \in game.items :
                    /\ IsUsedUp(i)
                    /\ InReach(game'.pet.position, i.position)
                    /\ game'.life.moments
                         = [game.life.moments EXCEPT ![CareKindOf[i.templateId]] = @ + 1] ]_vars
  BY <1>1
<1>3. PlayInv /\ PlayInv' /\ [ApproachNext]_vars
        => [ /\ game'.pet.position \in Cells
             /\ Distance(game.pet.position, game'.pet.position)
                  <= game'.tickCount - game.tickCount ]_vars
  BY <1>1
<1>4. PlayInv /\ PlayInv' /\ [ApproachNext]_vars
        => [ game'.tickCount # game.tickCount
               => \A i \in ItemsWithId(game, game.selectedItemId) :
                    \/ InReach(game.pet.position, i.position)
                    \/ Distance(game'.pet.position, i.position)
                         < Distance(game.pet.position, i.position) ]_vars
  BY <1>1
<1>5. ApproachSpec => CareMeansContact
  BY ApproachIsSound, <1>2, PTL DEF ApproachSpec, CareMeansContact
<1>6. ApproachSpec => PetWalksOnStage
  BY ApproachIsSound, <1>3, PTL DEF ApproachSpec, PetWalksOnStage
<1>7. ApproachSpec => SelectionLeads
  BY ApproachIsSound, <1>4, PTL DEF ApproachSpec, SelectionLeads
<1>8. QED
  BY <1>5, <1>6, <1>7

\* _handleAdvanceToSelectedItem gets there within the steps it allows itself, on any
\* grid and from any cell, whatever lies on the stage and whichever days pass.
THEOREM WalksAlwaysArrive == ApproachSpec => WalksArrive
<1>1. PlayInv
        => [ DoAdvance
               => \A i \in ItemsWithId(game, game.selectedItemId) :
                    InReach(game'.pet.position, i.position) ]_vars
  <2> SUFFICES ASSUME PlayInv, DoAdvance
               PROVE  \A i \in ItemsWithId(game, game.selectedItemId) :
                        InReach(game'.pet.position, i.position)
    OBVIOUS
  <2>1. Walked(game, game')
    BY AdvanceWalks DEF DoAdvance, PlayInv
  <2>2. QED
    BY <2>1 DEF Walked
<1>2. QED
  BY ApproachIsSound, <1>1, PTL DEF WalksArrive

\* _handleUseSelectedItemWhenReady never ends without the use, never uses another
\* item, and cares once.
THEOREM UseWhenReadyAlwaysUses == ApproachSpec => UseWhenReadyUsesTheSelected
<1>1. PlayInv
        => [ DoUseWhenReady
               => \A i \in ItemsWithId(game, game.selectedItemId) :
                    /\ IsUsedUp(i)
                    /\ game'.life.moments
                         = [game.life.moments EXCEPT ![CareKindOf[i.templateId]] = @ + 1] ]_vars
  BY UseWhenReadyUses DEF DoUseWhenReady, PlayInv, IsUsedUp
<1>2. QED
  BY ApproachIsSound, <1>1, PTL DEF UseWhenReadyUsesTheSelected

=============================================================================
