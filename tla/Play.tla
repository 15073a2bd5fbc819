-------------------------------- MODULE Play -------------------------------
(***************************************************************************)
(* A game played one reducer action at a time, with the look at the        *)
(* device's date the app takes between actions.  A tick comes from the     *)
(* player's buttons and from the app's walk towards an item.               *)
(***************************************************************************)
EXTENDS Reducer

CONSTANTS
  MaxSpawns,       (* Bound on the items ever spawned.  *)
  MaxTicks         (* Bound on the ticks ever made.     *)

ASSUME PlayBoundsAssumption ==
  /\ MaxSpawns \in Nat
  /\ MaxTicks \in Nat

VARIABLES
  game,            (* ReducerResult.state                     *)
  today            (* The device's local date, DateTime.now() *)

vars == <<game, today>>

\* Ids the player's widgets and the app may still hold: of items on stage, and
\* of items that are gone or never were.
ItemIds == 1 .. MaxSpawns

TypeOK ==
  /\ game \in Game
  /\ today \in Dates

Init ==
  /\ game = NewGame
  /\ today \in Dates

DoTick ==
  /\ game.tickCount < MaxTicks
  /\ game' \in Tick(game)
  /\ UNCHANGED today

DoSpawn(template) ==
  /\ game.nextItemId <= MaxSpawns
  /\ game' \in Spawn(game, template)
  /\ UNCHANGED today

DoCreateCustomTemplate(template) ==
  /\ game' = CreateCustomTemplate(game, template)
  /\ UNCHANGED today

DoSelect(id) ==
  /\ game' = SelectItem(game, id)
  /\ UNCHANGED today

DoInspect(requestedId) ==
  /\ game' \in Inspect(game, requestedId)
  /\ UNCHANGED today

DoUse(requestedId) ==
  /\ game' \in Use(game, requestedId)
  /\ UNCHANGED today

DoRemove(id) ==
  /\ game' = RemoveStageItem(game, id)
  /\ UNCHANGED today

DoClearStage ==
  /\ game' = ClearStage(game)
  /\ UNCHANGED today

DoComplete ==
  /\ game' = CompleteTransformation(game)
  /\ UNCHANGED today

\* The app's look at the date after an action and after a load.
DoObserve ==
  /\ game' = [game EXCEPT !.life = Observe(@, today)]
  /\ UNCHANGED today

DateChanges ==
  /\ today' \in Dates \ {today}
  /\ UNCHANGED game

Next ==
  \/ DoTick
  \/ \E template \in AllTemplates : DoSpawn(template)
  \/ \E template \in CustomTemplates : DoCreateCustomTemplate(template)
  \/ \E id \in ItemIds : DoSelect(id) \/ DoRemove(id)
  \/ \E id \in ItemIds \cup {None} : DoInspect(id) \/ DoUse(id)
  \/ DoClearStage
  \/ DoComplete
  \/ DoObserve
  \/ DateChanges

Spec == Init /\ [][Next]_vars

----------------------------------------------------------------------------
(* What holds of the stage. *)

IdsOnStage == {i.id : i \in game.items}

\* Spawning, using, removing and clearing keep the stage whole: an id stands for
\* one item and is older than the next one, no two items share a cell, and what
\* the player selected and the pet pursues is still there.
StageIsWhole ==
  /\ \A i, j \in game.items : (i.id = j.id \/ i.position = j.position) => i = j
  /\ \A i \in game.items : i.id < game.nextItemId
  /\ game.selectedItemId \in IdsOnStage \cup {None}
  /\ game.pet.targetItemId \in IdsOnStage \cup {None}

\* The reducer looks up the template of an item with "!": every item on stage
\* has one, and it was unlocked.
StageItemsAreKnown ==
  \A i \in game.items : /\ i.templateId \in game.templates
                        /\ i.templateId \in game.unlockedTemplateIds

\* Day, hour and the sky over the activity box all tell the tick count's time.
ClockAgrees ==
  /\ game.dayCount = 1 + (game.tickCount \div TicksPerDay)
  /\ game.timeOfDay = TimeOfDayForTick(game.tickCount)
  /\ game.activityPhase = SkyPhaseForTimeOfDay[game.timeOfDay]

\* The face shown is that of the needs as they are, though several handlers do
\* not refresh it.
MoodIsCurrent == game.pet.mood = DeriveMood(game.pet.needs)

\* A template is unlocked exactly from the start, by the player's making it, or
\* once the affection has reached its level, however big the steps were.
UnlocksFollowAffection ==
  \A t \in game.templates :
    t \in game.unlockedTemplateIds
      <=> \/ t \in FirstTemplates \cup CustomTemplates
          \/ UnlockLevel[t] > 0 /\ UnlockLevel[t] <= game.pet.affection

\* What is used leaves the stage.  V0_1_ACCEPTANCE.md:14 says that "toy items remain
\* after play", so nothing is claimed of a toy here: it is gone or it is still there.
IsUsedUp(i) ==
  \/ game'.items = game.items \ {i}
  \/ IsToy(i.templateId) /\ game'.items = game.items

\* An item that is not a toy is one moment of care at most: what was spawned covers
\* what is on stage and what was ever cared for, play with a toy left aside.
CareIsPaidWithItems ==
  TotalCareMoments(game.life) - game.life.moments["playful"]
    + Cardinality({i \in game.items : ~IsToy(i.templateId)}) < game.nextItemId

\* Care is recorded only for an item on stage that the pet could reach, and that is
\* used up by it; a stale id, a far item or an empty stage gives none.
CareMeansContact ==
  [][ game'.life.moments # game.life.moments
        => \E i \in game.items :
             /\ IsUsedUp(i)
             /\ InReach(game'.pet.position, i.position)
             /\ game'.life.moments
                  = [game.life.moments EXCEPT ![CareKindOf[i.templateId]] = @ + 1] ]_vars

\* V0_1_ACCEPTANCE.md:10, "pet can tick and move without leaving bounds": a tick
\* moves the pet by one cell at most, on the grid, and nothing else moves it but a
\* walk of ticks.
PetWalksOnStage ==
  [][ /\ game'.pet.position \in Cells
      /\ Distance(game.pet.position, game'.pet.position)
           <= game'.tickCount - game.tickCount ]_vars

\* Every tick brings the pet nearer to the item the player selected until it is
\* in reach, whatever the pet had in mind or lies nearer.
SelectionLeads ==
  [][ game'.tickCount # game.tickCount
        => \A i \in ItemsWithId(game, game.selectedItemId) :
             \/ InReach(game.pet.position, i.position)
             \/ Distance(game'.pet.position, i.position)
                  < Distance(game.pet.position, i.position) ]_vars

\* The life in a game is a life of LifeCycle: the reducer and the app touch it
\* in no other way.
Lives == INSTANCE LifeCycle WITH
  GivenKinds <- CareKinds,
  MaxDay     <- MaxTicks + 1,
  MaxMoments <- MaxSpawns,
  life       <- game.life,
  dayCount   <- game.dayCount

LifeCycleSpec == Lives!Spec

=============================================================================
