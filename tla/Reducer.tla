------------------------------ MODULE Reducer ------------------------------
(***************************************************************************)
(* The reducer (lib/core/reducer.dart): every action of the player and     *)
(* every tick, as a function from a game to the games it may become.       *)
(* Several outcomes stand for the cell a seed picks, the order in which a  *)
(* sort leaves items at one distance, and the day's random draw.           *)
(*                                                                         *)
(* A game is the code's GameState without its grid size (a constant), its  *)
(* words (speech, event log, recent lines) and what an activity moment     *)
(* shows, of which only the phase of the sky is kept.  Item "item_N" is N. *)
(***************************************************************************)
EXTENDS LifeState, PetRules

CONSTANTS
  StarterTemplates,   (* Templates of the starter datapack.             *)
  CustomTemplates,    (* Templates the player's sheet can make.         *)
  FirstTemplates,     (* Unlocked in a new game.                        *)
  CareKindOf,         (* The kind of care that using a template is.     *)
  NeedDelta,          (* NeedDelta[t][n]: what using it adds to need n. *)
  AffectionDelta,     (* What using it adds to the affection.           *)
  UnlockLevel,        (* The affection that unlocks it; 0: none does.   *)
  Home                (* Where a new pet stands.                        *)

AllTemplates == StarterTemplates \cup CustomTemplates

ASSUME TemplatesAssumption ==
  /\ FirstTemplates \subseteq StarterTemplates
  /\ StarterTemplates \cap CustomTemplates = {}
  /\ CareKindOf \in [AllTemplates -> CareKinds]
  /\ NeedDelta \in [AllTemplates -> [NeedNames -> Nat]]
  /\ AffectionDelta \in [AllTemplates -> Nat]
  /\ UnlockLevel \in [AllTemplates -> Nat]
  /\ \A t \in FirstTemplates \cup CustomTemplates : UnlockLevel[t] = 0
  /\ Home \in Cells
  /\ None \notin Nat

SkyPhaseForTimeOfDay ==
  [morning |-> "morning", afternoon |-> "day", evening |-> "evening", night |-> "night"]

Item == [id : Nat \ {0}, templateId : AllTemplates, position : Cells]

Pet ==
  [ position     : Cells,
    mood         : Moods,
    targetItemId : Nat \cup {None},
    needs        : Needs,
    affection    : 0 .. MaxAffection ]

Game ==
  [ tickCount           : Nat,
    dayCount            : Nat \ {0},
    timeOfDay           : Times,
    activityPhase       : {"morning", "day", "evening", "night"},
    items               : SUBSET Item,
    nextItemId          : Nat \ {0},
    selectedItemId      : Nat \cup {None},
    templates           : SUBSET AllTemplates,
    unlockedTemplateIds : SUBSET AllTemplates,
    pet                 : Pet,
    life                : Life ]

----------------------------------------------------------------------------
(* Steps that many handlers end in. *)

RefreshPetState(g) == [g EXCEPT !.pet.mood = DeriveMood(g.pet.needs)]

Reject(g) == RefreshPetState(g)

\* A new moment and a synchronised one show the sky of the hour.
SyncActivityPhase(g) ==
  [g EXCEPT !.activityPhase = SkyPhaseForTimeOfDay[g.timeOfDay]]

\* newGame, then StartNewGame.
NewGame ==
  RefreshPetState(
    [ tickCount           |-> 0,
      dayCount            |-> 1,
      timeOfDay           |-> "morning",
      activityPhase       |-> "morning",
      items               |-> {},
      nextItemId          |-> 1,
      selectedItemId      |-> None,
      templates           |-> StarterTemplates,
      unlockedTemplateIds |-> FirstTemplates,
      pet                 |-> [ position     |-> Home,
                                mood         |-> "curious",
                                targetItemId |-> None,
                                needs        |-> [n \in NeedNames |-> 4],
                                affection    |-> 0 ],
      life                |-> NewLife ])

----------------------------------------------------------------------------
(* The stage. *)

\* At most one item: ids are never used twice.
ItemsWithId(g, id) == {i \in g.items : i.id = id}

Nearest(g) ==
  {i \in g.items : \A j \in g.items :
     Distance(g.pet.position, i.position) <= Distance(g.pet.position, j.position)}

OpenCells(g) ==
  {cell \in Cells \ {g.pet.position} : \A i \in g.items : i.position # cell}

\* Mutation: locked templates are not looked at.
IsTemplate(g, template) == template \in g.templates

CanSpawn(g, template) ==
  /\ template \in g.templates
  /\ template \in g.unlockedTemplateIds

Spawn(g, template) ==
  IF ~CanSpawn(g, template) \/ OpenCells(g) = {} THEN {Reject(g)} ELSE
  { RefreshPetState(
      [g EXCEPT
         !.items      = @ \cup {[ id         |-> g.nextItemId,
                                  templateId |-> template,
                                  position   |-> cell ]},
         !.nextItemId = @ + 1]) :
      cell \in OpenCells(g) }

CreateCustomTemplate(g, template) ==
  IF template \in g.templates THEN Reject(g) ELSE
  SyncActivityPhase(RefreshPetState(
    [g EXCEPT !.templates           = @ \cup {template},
              !.unlockedTemplateIds = @ \cup {template}]))

SelectItem(g, id) ==
  IF ItemsWithId(g, id) = {} THEN Reject(g) ELSE
  RefreshPetState([g EXCEPT !.selectedItemId   = id,
                            !.pet.targetItemId = id])

Unless(id, gone) == IF id = gone THEN None ELSE id

\* Mutation: the pet keeps the removed item in mind.
RemoveAndKeepTarget(g, id) ==
  IF ItemsWithId(g, id) = {} THEN Reject(g) ELSE
  RefreshPetState(
    [g EXCEPT !.items          = @ \ ItemsWithId(g, id),
              !.selectedItemId = Unless(@, id)])

RemoveStageItem(g, id) ==
  IF ItemsWithId(g, id) = {} THEN Reject(g) ELSE
  RefreshPetState(
    [g EXCEPT !.items            = @ \ ItemsWithId(g, id),
              !.selectedItemId   = Unless(@, id),
              !.pet.targetItemId = Unless(@, id)])

ClearStage(g) ==
  IF g.items = {} THEN Reject(g) ELSE
  RefreshPetState([g EXCEPT !.items            = {},
                            !.selectedItemId   = None,
                            !.pet.targetItemId = None])

----------------------------------------------------------------------------
(* A tick. *)

Offsets == << <<0, -1>>, <<1, 0>>, <<0, 1>>, <<-1, 0>> >>

\* Mutation: the grid's edge is not looked at.
WanderOffStage(g) ==
  LET offset == Offsets[1 + (g.tickCount % 4)]
  IN  <<g.pet.position[1] + offset[1], g.pet.position[2] + offset[2]>>

\* The first free neighbour, in an order that turns with the tick count.
IdleWanderPosition(g) ==
  LET offset(n)    == Offsets[1 + ((g.tickCount + n) % 4)]
      candidate(n) == <<g.pet.position[1] + offset(n)[1],
                        g.pet.position[2] + offset(n)[2]>>
      free         == {n \in 0..3 : /\ candidate(n) \in Cells
                                    /\ \A i \in g.items : i.position # candidate(n)}
  IN  IF free = {} THEN g.pet.position
      ELSE candidate(CHOOSE n \in free : \A m \in free : n <= m)

\* Mutation: what the pet has in mind goes before what the player selected.
TargetsStubbornly(g) ==
  LET selected == ItemsWithId(g, g.selectedItemId)
      pursued  == ItemsWithId(g, g.pet.targetItemId)
  IN  IF pursued # {} THEN pursued ELSE IF selected # {} THEN selected ELSE Nearest(g)

\* The player's selection, else what the pet pursues, else a nearest item.
TickTargets(g) ==
  LET selected == ItemsWithId(g, g.selectedItemId)
      pursued  == ItemsWithId(g, g.pet.targetItemId)
  IN  IF selected # {} THEN selected ELSE IF pursued # {} THEN pursued ELSE Nearest(g)

\* One step towards an item out of reach; the pet has it in mind either way.
Pursue(g, item) ==
  [g EXCEPT !.pet.targetItemId = item.id,
            !.pet.position     = IF InReach(@, item.position)
                                   THEN @
                                   ELSE StepToward(@, item.position)]

Wander(g) == [g EXCEPT !.pet.targetItemId = None,
                       !.pet.position     = IdleWanderPosition(g)]

Moved(g) ==
  IF TickTargets(g) = {} THEN {Wander(g)} ELSE {Pursue(g, i) : i \in TickTargets(g)}

\* Mutation: the day is counted one tick late.
ClockOffByOne(g) ==
  [g EXCEPT !.tickCount = g.tickCount + 1,
            !.dayCount  = @ + (IF g.tickCount % TicksPerDay = 0 THEN 1 ELSE 0),
            !.timeOfDay = TimeOfDayForTick(g.tickCount + 1),
            !.pet.needs = Decay(@, g.tickCount + 1)]

AdvanceClock(g) ==
  LET tick == g.tickCount + 1
  IN  [g EXCEPT !.tickCount = tick,
                !.dayCount  = @ + (IF tick % TicksPerDay = 0 THEN 1 ELSE 0),
                !.timeOfDay = TimeOfDayForTick(tick),
                !.pet.needs = Decay(@, tick)]

\* Mutation: every tick is taken for a new day.
FinishEveryTick(before, after) ==
  {[after EXCEPT !.life = l] : l \in DayTurns(after.life, after.dayCount)}

\* What a new day brings to the life.
FinishTick(before, after) ==
  IF after.dayCount = before.dayCount THEN {after}
  ELSE {[after EXCEPT !.life = l] : l \in DayTurns(after.life, after.dayCount)}

\* Mutation: the mood is refreshed before the needs decay.
TickRefreshingEarly(g) ==
  LET settled == {SyncActivityPhase(AdvanceClock(RefreshPetState(moved))) :
                    moved \in Moved(g)}
  IN  UNION {FinishTick(g, after) : after \in settled}

Tick(g) ==
  LET settled == {SyncActivityPhase(RefreshPetState(AdvanceClock(moved))) :
                    moved \in Moved(g)}
  IN  UNION {FinishTick(g, after) : after \in settled}

----------------------------------------------------------------------------
(* Inspecting and using. *)

\* Mutation: distance is not looked at.
CandidatesAnywhere(g, requestedId) ==
  LET desired == IF requestedId = None THEN g.selectedItemId ELSE requestedId
  IN  IF desired = None THEN Nearest(g) ELSE ItemsWithId(g, desired)

\* The item an interaction is about, when the pet can reach it.
InteractionCandidates(g, requestedId) ==
  LET desired == IF requestedId = None THEN g.selectedItemId ELSE requestedId
      found   == IF desired = None THEN Nearest(g) ELSE ItemsWithId(g, desired)
  IN  {i \in found : InReach(g.pet.position, i.position)}

Inspect(g, requestedId) ==
  LET candidates == InteractionCandidates(g, requestedId)
  IN  IF candidates = {} THEN {Reject(g)}
      ELSE { SyncActivityPhase(RefreshPetState([g EXCEPT !.pet.targetItemId = i.id])) :
               i \in candidates }

\* Mutation: needs and affection grow without bound.
ApplyUnclamped(pet, template) ==
  [pet EXCEPT
     !.needs     = [n \in NeedNames |-> @[n] + NeedDelta[template][n]],
     !.affection = @ + AffectionDelta[template]]

ApplyTemplateEffects(pet, template) ==
  [pet EXCEPT
     !.needs     = [n \in NeedNames |-> ClampNeed(@[n] + NeedDelta[template][n])],
     !.affection = ClampAffection(@ + AffectionDelta[template])]

\* Mutation: only the level just reached.
NewUnlocksAtLevel(g) ==
  {t \in g.templates \ g.unlockedTemplateIds :
     UnlockLevel[t] > 0 /\ g.pet.affection = UnlockLevel[t]}

NewUnlocks(g) ==
  {t \in g.templates \ g.unlockedTemplateIds :
     UnlockLevel[t] > 0 /\ g.pet.affection >= UnlockLevel[t]}

\* Playing is what a toy is for (ItemKind.toy).
IsToy(template) == CareKindOf[template] = "playful"

RecordCareHistory(g, template) ==
  [g EXCEPT !.life = RecordCare(@, CareKindOf[template], g.dayCount)]

WithUnlocks(g) == [g EXCEPT !.unlockedTemplateIds = @ \cup NewUnlocks(g)]

\* Mutation: what was used remains.
ConsumeNothing(g, item) ==
  [g EXCEPT
     !.selectedItemId = Unless(@, item.id),
     !.pet            = [ApplyTemplateEffects(@, item.templateId)
                           EXCEPT !.targetItemId = None]]

\* The item leaves the stage and does the pet good.
Consume(g, item) ==
  [g EXCEPT
     !.items          = @ \ ItemsWithId(g, item.id),
     !.selectedItemId = Unless(@, item.id),
     !.pet            = [ApplyTemplateEffects(@, item.templateId)
                           EXCEPT !.targetItemId = None]]

Use(g, requestedId) ==
  LET candidates == InteractionCandidates(g, requestedId)
  IN  IF candidates = {} THEN {Reject(g)}
      ELSE LET used  == {<<i.templateId, RefreshPetState(SyncActivityPhase(Consume(g, i)))>> :
                           i \in candidates}
               cared == {RecordCareHistory(u[2], u[1]) : u \in used}
           IN  {WithUnlocks(h) : h \in cared}

----------------------------------------------------------------------------
(* Transformations. *)

CompleteTransformation(g) ==
  IF g.life.pendingTransformationFormId = None THEN g ELSE
  SyncActivityPhase(
    [g EXCEPT !.life = CompleteQueuedTransformation(@, g.dayCount)])

----------------------------------------------------------------------------
(* Walking all the way at once. *)

SelectedIsGone(g) == ItemsWithId(g, g.selectedItemId) = {}

AtSelected(g) ==
  \E i \in ItemsWithId(g, g.selectedItemId) : InReach(g.pet.position, i.position)

MaxSteps == GridWidth + GridHeight + 4

Roll(g) == IF SelectedIsGone(g) \/ AtSelected(g) THEN {g} ELSE Tick(g)

\* Mutation: as many ticks as the grid is wide.
RollTooShort(g) ==
  LET rolled[n \in 0 .. GridWidth - 1] ==
        IF n = 0 THEN {g} ELSE UNION {Roll(h) : h \in rolled[n - 1]}
  IN  rolled[GridWidth - 1]

\* Ticks until the pet can reach the selected item, at most MaxSteps.
RollAll(g) ==
  LET rolled[n \in 0 .. MaxSteps] ==
        IF n = 0 THEN {g} ELSE UNION {Roll(h) : h \in rolled[n - 1]}
  IN  rolled[MaxSteps]

\* Mutation: one tick is taken for the whole walk.
AdvanceOneTick(g) == Tick(g)

AdvanceToSelectedItem(g) ==
  IF SelectedIsGone(g) \/ AtSelected(g) THEN Tick(g)
  ELSE { IF AtSelected(h) THEN SyncActivityPhase(RefreshPetState(h)) ELSE h :
           h \in RollAll(g) }

InReachOfSelected(g) == InteractionCandidates(g, g.selectedItemId) # {}

\* The selected item is walked to unless it can be reached already.
BesideSelected(g) == IF InReachOfSelected(g) THEN {g} ELSE AdvanceToSelectedItem(g)

UseSelectedItemWhenReady(g) ==
  IF g.selectedItemId = None THEN {Reject(g)} ELSE
  UNION { IF InReachOfSelected(h) THEN Use(h, h.selectedItemId) ELSE {h} :
            h \in BesideSelected(g) }

InspectSelectedItemWhenReady(g) ==
  IF g.selectedItemId = None THEN {Reject(g)} ELSE
  UNION { IF InReachOfSelected(h) THEN Inspect(h, h.selectedItemId) ELSE {h} :
            h \in BesideSelected(g) }

=============================================================================
