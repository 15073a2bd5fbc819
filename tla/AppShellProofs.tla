--------------------------- MODULE AppShellProofs --------------------------
(***************************************************************************)
(* The world in play is the world being saved, for any games, calendars,   *)
(* walks and writes under way at once.                                     *)
(***************************************************************************)
EXTENDS AppShell, ReducerProofs, SequenceTheorems

\* Dart's null is no JSON object.
NullIsNothingElse == \A g \in Game : ToJson(g) # None

\* What a first start finds on the device is the save of a steady game.
DeviceHoldsWorlds == \A json \in OldSaves : SteadyGame(FromJson(json))

----------------------------------------------------------------------------
(* Saving and restoring. *)

\* A life is read back field by field.
LEMMA LifeIsRestored ==
  ASSUME NEW l \in Life, BaseForm \in l.discoveredFormIds
  PROVE  LifeFromJson(l) = l
<1>1. DOMAIN NewLife = DOMAIN l
  BY DEF NewLife, Life
<1>2. [field \in DOMAIN NewLife |-> Read(l, field, NewLife[field])] = l
  BY <1>1 DEF Read, Life
<1>3. l.discoveredFormIds \cup {BaseForm} = l.discoveredFormIds
  OBVIOUS
<1>4. QED
  BY <1>2, <1>3 DEF LifeFromJson, Life

\* Clamping what is in range changes nothing.
LEMMA PetIsRestored ==
  ASSUME NEW pet \in Pet
  PROVE  PetFromJson(pet) = pet
<1>1. /\ Read(pet, "mood", "curious") = pet.mood
      /\ Read(pet, "targetItemId", None) = pet.targetItemId
      /\ Read(pet, "needs", EmptyJson) = pet.needs
      /\ Read(pet, "affection", 0) = pet.affection
  BY DEF Pet, Read
<1>2. [n \in NeedNames |-> ClampNeed(Read(pet.needs, n, 4))] = pet.needs
  <2>1. pet.needs \in [NeedNames -> 0 .. MaxNeed]
    BY DEF Pet, Needs
  <2>2. ASSUME NEW n \in NeedNames
        PROVE  ClampNeed(Read(pet.needs, n, 4)) = pet.needs[n]
    BY <2>1, RulesAssumption DEF Read, ClampNeed, Clamp
  <2>3. QED
    BY <2>1, <2>2
<1>3. ClampAffection(pet.affection) = pet.affection
  BY RulesAssumption DEF Pet, ClampAffection, Clamp
<1>4. QED
  BY <1>1, <1>2, <1>3 DEF PetFromJson, Pet

\* A steady game is read back as it is.
LEMMA GameIsRestored ==
  ASSUME NEW g, SteadyGame(g)
  PROVE  FromJson(ToJson(g)) = g
<1> DEFINE json == ToJson(g)
<1>0. /\ g \in Game /\ g.life \in Life /\ g.pet \in Pet
      /\ StarterTemplates \subseteq g.templates
      /\ g.unlockedTemplateIds \subseteq g.templates
      /\ BaseForm \in g.life.discoveredFormIds
  BY DEF SteadyGame, NothingForgotten, Game
<1>1. /\ Read(json, "tickCount", 0) = g.tickCount
      /\ Read(json, "dayCount", 1) = g.dayCount
      /\ Read(json, "timeOfDay", "morning") = g.timeOfDay
      /\ PhaseFromJson(json) = g.activityPhase
      /\ Read(json, "items", {}) = g.items
      /\ Read(json, "nextItemId", 1) = g.nextItemId
      /\ Read(json, "selectedItemId", None) = g.selectedItemId
      /\ Read(json, "customTemplates", {}) = g.templates \ StarterTemplates
      /\ Read(json, "unlockedTemplateIds", {}) = g.unlockedTemplateIds
      /\ json.pet = g.pet
      /\ Read(json, "life", EmptyJson) = g.life
  BY DEF ToJson, Read, PhaseFromJson
<1> HIDE DEF json
<1>2. PetFromJson(g.pet) = g.pet /\ LifeFromJson(g.life) = g.life
  BY <1>0, PetIsRestored, LifeIsRestored
<1>3. StarterTemplates \cup (g.templates \ StarterTemplates) = g.templates
  BY <1>0
<1>4. {i \in g.items : i.templateId \in g.templates} = g.items
  BY DEF SteadyGame, KnownItems
<1>5. FirstTemplates \cup (g.unlockedTemplateIds \cap g.templates)
        \cup (g.templates \ StarterTemplates) = g.unlockedTemplateIds
  <2>1. FirstTemplates \subseteq g.unlockedTemplateIds
    BY <1>0, TemplatesAssumption DEF SteadyGame, RightUnlocks
  <2>2. g.templates \ StarterTemplates \subseteq g.unlockedTemplateIds
    BY <1>0 DEF SteadyGame, RightUnlocks, Game, AllTemplates
  <2>3. QED
    BY <1>0, <2>1, <2>2
<1>6. FromJson(json) =
        [ tickCount           |-> g.tickCount,
          dayCount            |-> g.dayCount,
          timeOfDay           |-> g.timeOfDay,
          activityPhase       |-> g.activityPhase,
          items               |-> g.items,
          nextItemId          |-> g.nextItemId,
          selectedItemId      |-> g.selectedItemId,
          templates           |-> g.templates,
          unlockedTemplateIds |-> g.unlockedTemplateIds,
          pet                 |-> g.pet,
          life                |-> g.life ]
  BY <1>1, <1>2, <1>3, <1>4, <1>5 DEF FromJson
<1>7. QED
  BY <1>0, <1>6 DEF json, Game

----------------------------------------------------------------------------
(* The invariant of the room. *)

SteadyGames == {g \in Game : SteadyGame(g)}

Writes == {Save(g) : g \in SteadyGames} \cup {Remove}

RoomTyped ==
  /\ SteadyGame(game)
  /\ today \in Dates
  /\ loading \in BOOLEAN
  /\ animating \in BOOLEAN
  /\ presenting \in Forms \cup {None}
  /\ walks \in [Purposes -> 0 .. MaxWalks]
  /\ clearing \in Seq(Clears)
  /\ cleared \in Nat

StoreTyped ==
  /\ store \in {"opening", "open"}
  /\ writes \in Seq(Writes)
  /\ disk = None \/ SteadyGame(FromJson(disk))

\* A room that loads has done nothing yet.
LoadingIsIdle ==
  loading => presenting = None /\ walks = NoWalks /\ clearing = <<>> /\ writes = <<>>

ShellInv ==
  /\ RoomTyped
  /\ StoreTyped
  /\ LoadingIsIdle
  /\ SavedIsShown
  /\ OnlyAnEventWaits

\* The last of the writes on their way saves g.
EndsInSaveOf(w, g) == w # <<>> /\ w[Len(w)] = Save(g)

\* What is saved last is what a restart would restore.
LEMMA SavedLastIsRestored ==
  ASSUME NullIsNothingElse, SteadyGame(game), EndsInSaveOf(writes, game)
  PROVE  LastWritten # None /\ FromJson(LastWritten) = game
<1>1. LastWritten = ToJson(game)
  BY DEF EndsInSaveOf, LastWritten, Save
<1>2. QED
  BY <1>1, GameIsRestored DEF NullIsNothingElse, SteadyGame

\* A look at the date leaves a steady game.
LEMMA ObservedIsSteady ==
  ASSUME NEW g, SteadyGame(g), today \in Dates
  PROVE  SteadyGame(Observed(g))
BY ObservingIsSound DEF Observed, Keeps

\* Saving a game, and again what the date changed, ends in the save of what is shown.
LEMMA ObservedIsSaved ==
  ASSUME writes \in Seq(Writes), today \in Dates, NEW g, SteadyGame(g)
  PROVE  LET w == writes \o <<Save(g)>> \o SavesOfObserving(g, Observed(g)) IN
         w \in Seq(Writes) /\ EndsInSaveOf(w, Observed(g))
<1>1. SteadyGame(Observed(g))
  BY ObservedIsSteady
<1>2. Save(g) \in Writes /\ Save(Observed(g)) \in Writes
  BY <1>1 DEF Writes, SteadyGames, SteadyGame
<1> DEFINE u == writes \o <<Save(g)>>
<1>3. u \in Seq(Writes) /\ EndsInSaveOf(u, g)
  BY <1>2 DEF EndsInSaveOf
<1> HIDE DEF u
<1>4. CASE Observed(g) = g
  <2>1. u \o <<>> = u
    BY <1>3
  <2>2. QED
    BY <1>3, <1>4, <2>1 DEF SavesOfObserving, u
<1>5. CASE Observed(g) # g
  <2>1. /\ u \o <<Save(Observed(g))>> \in Seq(Writes)
        /\ EndsInSaveOf(u \o <<Save(Observed(g))>>, Observed(g))
    BY <1>2, <1>3 DEF EndsInSaveOf
  <2>2. QED
    BY <1>5, <2>1 DEF SavesOfObserving, u
<1>6. QED
  BY <1>4, <1>5

\* After a look at the game, what is queued is presented.
LEMMA QueuedIsPresented ==
  ASSUME NEW g, g \in Game, presenting \in Forms \cup {None},
         NEW busy \in BOOLEAN, Present(g, busy)
  PROVE  /\ presenting' \in Forms \cup {None}
         /\ animating' \in BOOLEAN
         /\ presenting' = None => g.life.pendingTransformationFormId = None
BY DEF Present, Game, Life

\* What ApplyAction leaves: a steady game, saved last, with what it queued presented.
WorldIsSaved ==
  /\ SteadyGame(game')
  /\ writes' \in Seq(Writes)
  /\ EndsInSaveOf(writes', game')
  /\ presenting' \in Forms \cup {None}
  /\ animating' \in BOOLEAN
  /\ presenting' = None /\ game'.life.pendingTransformationFormId # None
       => game'.life.pendingCalendarEventKey # None

\* An action of the reducer is saved and what it queued is presented.
LEMMA ActionIsApplied ==
  ASSUME ShellInv, NEW outcomes, \A g \in outcomes : SteadyGame(g),
         NEW busy \in BOOLEAN, ApplyAction(outcomes, busy)
  PROVE  WorldIsSaved
<1>1. PICK g \in outcomes :
        /\ game' = Observed(g)
        /\ writes' = writes \o <<Save(g)>> \o SavesOfObserving(g, Observed(g))
        /\ Present(Observed(g), busy)
  BY DEF ApplyAction
<1>2. SteadyGame(g)
  BY <1>1
<1>3. SteadyGame(Observed(g)) /\ Observed(g) \in Game
  BY <1>2, ObservedIsSteady DEF ShellInv, RoomTyped, SteadyGame
<1>4. writes' \in Seq(Writes) /\ EndsInSaveOf(writes', Observed(g))
  BY <1>1, <1>2, ObservedIsSaved DEF ShellInv, RoomTyped, StoreTyped
<1>5. /\ presenting' \in Forms \cup {None}
      /\ animating' \in BOOLEAN
      /\ presenting' = None => Observed(g).life.pendingTransformationFormId = None
  BY <1>1, <1>3, QueuedIsPresented DEF ShellInv, RoomTyped
<1>6. QED
  BY <1>1, <1>3, <1>4, <1>5 DEF WorldIsSaved

\* What follows from an action applied, for the whole room.
LEMMA AppliedKeepsInv ==
  ASSUME NullIsNothingElse, ShellInv, ~loading, loading' = loading,
         today' = today, clearing' = clearing, cleared' = cleared,
         store' = store, disk' = disk,
         walks' \in [Purposes -> 0 .. MaxWalks],
         WorldIsSaved
  PROVE  ShellInv'
<1> USE DEF WorldIsSaved
<1>1. RoomTyped' /\ StoreTyped' /\ LoadingIsIdle'
  BY DEF ShellInv, RoomTyped, StoreTyped, LoadingIsIdle
<1>2. SavedIsShown'
  <2>1. LastWritten' = ToJson(game')
    BY DEF EndsInSaveOf, LastWritten, Save
  <2>2. FromJson(ToJson(game')) = game' /\ ToJson(game') # None
    BY GameIsRestored DEF NullIsNothingElse, SteadyGame
  <2>3. QED
    BY <2>1, <2>2 DEF SavedIsShown
<1>3. OnlyAnEventWaits'
  BY DEF OnlyAnEventWaits
<1>4. QED
  BY <1>1, <1>2, <1>3 DEF ShellInv

\* What the end of a load does to the room.
LEMMA LoadKeepsInv ==
  ASSUME NullIsNothingElse, ShellInv, loading, NEW g, SteadyGame(g), Loaded(g),
         store' \in {"opening", "open"}, disk' = disk,
         g = NewGame \/ (disk # None /\ g = FromJson(disk))
  PROVE  ShellInv'
<1>1. /\ presenting = None /\ writes = <<>> /\ today \in Dates
      /\ disk = None \/ SteadyGame(FromJson(disk))
      /\ presenting \in Forms \cup {None} /\ animating \in BOOLEAN
  BY DEF ShellInv, LoadingIsIdle, RoomTyped, StoreTyped
<1>2. SteadyGame(Observed(g)) /\ Observed(g) \in Game
  BY <1>1, ObservedIsSteady DEF SteadyGame
<1>3. /\ game' = Observed(g) /\ loading' = FALSE
      /\ writes' = SavesOfObserving(g, Observed(g))
      /\ Present(Observed(g), animating)
      /\ UNCHANGED <<today, walks, clearing, cleared>>
  <2>1. writes \o SavesOfObserving(g, Observed(g)) = SavesOfObserving(g, Observed(g))
    BY <1>1 DEF SavesOfObserving
  <2>2. QED
    BY <2>1 DEF Loaded
<1>4. /\ presenting' \in Forms \cup {None} /\ animating' \in BOOLEAN
      /\ presenting' = None => game'.life.pendingTransformationFormId = None
  BY <1>1, <1>2, <1>3, QueuedIsPresented
<1>5. Save(Observed(g)) \in Writes
  BY <1>2 DEF Writes, SteadyGames
<1>6. writes' \in Seq(Writes)
  BY <1>3, <1>5 DEF SavesOfObserving
<1>7. SavedIsShown'
  <2>1. CASE Observed(g) = g
    BY <1>1, <1>3, <2>1 DEF SavesOfObserving, SavedIsShown, LastWritten
  <2>2. CASE Observed(g) # g
    <3>1. writes' = <<Save(Observed(g))>>
      BY <1>3, <2>2 DEF SavesOfObserving
    <3>2. LastWritten' = ToJson(game')
      BY <1>3, <3>1 DEF LastWritten, Save
    <3>3. FromJson(ToJson(game')) = game' /\ ToJson(game') # None
      BY <1>2, <1>3, GameIsRestored DEF NullIsNothingElse
    <3>4. QED
      BY <3>2, <3>3 DEF SavedIsShown
  <2>3. QED
    BY <2>1, <2>2
<1>8. RoomTyped' /\ StoreTyped' /\ LoadingIsIdle' /\ OnlyAnEventWaits'
  BY <1>1, <1>2, <1>3, <1>4, <1>6
     DEF ShellInv, RoomTyped, StoreTyped, LoadingIsIdle, OnlyAnEventWaits
<1>9. QED
  BY <1>7, <1>8 DEF ShellInv

\* A new game is steady, and nothing waits in it.
LEMMA NewGameIsQuiet ==
  SteadyGame(NewGame) /\ NewGame.life.pendingTransformationFormId = None
<1>1. NewGame.life = NewLife
  BY DEF NewGame, RefreshPetState
<1>2. QED
  BY <1>1, NewGameIsSound DEF SoundGame, NewLife

\* A look at the date queues nothing but an event.
LEMMA OnlyEventsAreObserved ==
  ASSUME NEW l \in Life, l.pendingTransformationFormId = None, NEW date \in Dates,
         Observe(l, date).pendingTransformationFormId # None
  PROVE  Observe(l, date).pendingCalendarEventKey # None
<1> DEFINE adopted == Adopt(l, date)
           key     == EventKeyFor(adopted, date)
           settled == LeavePastEvent(adopted, key)
<1>1. adopted \in Life /\ adopted.pendingTransformationFormId = None
  BY DEF Adopt, Life
<1> HIDE DEF adopted, key
<1>2. settled.pendingTransformationFormId = None
  BY <1>1 DEF LeavePastEvent, FinishCalendarEvent, Life
<1>3. settled \in [DOMAIN adopted -> UNION {{settled[f]} : f \in DOMAIN adopted}]
  BY <1>1 DEF LeavePastEvent, FinishCalendarEvent, Life
<1> HIDE DEF settled
<1>4. Observe(l, date) \in {settled, NoteDate(settled, date, key)}
  BY DEF Observe, adopted, key, settled
<1>5. Observe(l, date) = NoteDate(settled, date, key)
  BY <1>2, <1>4
<1>6. IsNewOccurrence([settled EXCEPT !.lastObservedLocalDateKey = date], key)
  BY <1>1, <1>2, <1>3, <1>5 DEF NoteDate, Life
<1>7. QED
  BY <1>1, <1>3, <1>5, <1>6
     DEF NoteDate, QueueCalendarTransformation, IsNewOccurrence, Life

\* What the player dispatches keeps a steady game steady.
LEMMA DispatchedIsSteady ==
  ASSUME ShellInv
  PROVE  /\ \A g \in Tick(game) : SteadyGame(g)
         /\ SteadyGame(Greet(game))
         /\ \A template \in AllTemplates : \A g \in Spawn(game, template) : SteadyGame(g)
         /\ \A template \in CustomTemplates :
              SteadyGame(CreateCustomTemplate(game, template))
         /\ \A id \in Nat : /\ SteadyGame(SelectItem(game, id))
                            /\ SteadyGame(RemoveStageItem(game, id))
         /\ SteadyGame(ClearStage(game))
         /\ \A purpose : \A g \in Interaction(purpose) : SteadyGame(g)
<1>1. SteadyGame(game)
  BY DEF ShellInv, RoomTyped
<1>2. \A g \in Tick(game) : SteadyGame(g)
  BY <1>1, TickIsSound DEF Keeps
<1>3. SteadyGame(Greet(game))
  BY <1>1, SyncIsSteady DEF Greet
<1>4. \A template \in AllTemplates : \A g \in Spawn(game, template) : SteadyGame(g)
  BY <1>1, SpawnIsSound DEF Keeps
<1>5. \A template \in CustomTemplates : SteadyGame(CreateCustomTemplate(game, template))
  BY <1>1, CreateIsSound DEF Keeps
<1>6. \A id \in Nat : SteadyGame(SelectItem(game, id)) /\ SteadyGame(RemoveStageItem(game, id))
  BY <1>1, SelectIsSound, RemoveIsSound DEF Keeps
<1>7. SteadyGame(ClearStage(game))
  BY <1>1, ClearIsSound DEF Keeps
<1>8. ASSUME NEW purpose, NEW g \in Interaction(purpose)
      PROVE  SteadyGame(g)
  BY <1>1, <1>8, UseIsSound, InspectIsSound DEF Interaction, Keeps
<1>9. QED
  BY <1>2, <1>3, <1>4, <1>5, <1>6, <1>7, <1>8

\* A walk that ends, or goes on, leaves as many walks as there may be.
LEMMA WalksStayInRange ==
  ASSUME ShellInv, NEW purpose \in Purposes, walks[purpose] > 0
  PROVE  [walks EXCEPT ![purpose] = @ - 1] \in [Purposes -> 0 .. MaxWalks]
BY ShellBoundsAssumption DEF ShellInv, RoomTyped

\* Whatever the player dispatches is applied.
LEMMA DispatchIsApplied ==
  ASSUME ShellInv, Dispatch
  PROVE  WorldIsSaved
<1> USE DispatchedIsSteady, ActionIsApplied
<1>1. CASE ApplyAction(Tick(game), FALSE)
  <2>1. \A g \in Tick(game) : SteadyGame(g)
    OBVIOUS
  <2>2. QED
    BY <1>1, <2>1
<1>2. CASE ApplyAction({Greet(game)}, FALSE)
  <2>1. \A g \in {Greet(game)} : SteadyGame(g)
    OBVIOUS
  <2>2. QED
    BY <1>2, <2>1
<1>3. ASSUME NEW template \in AllTemplates, ApplyAction(Spawn(game, template), FALSE)
      PROVE  WorldIsSaved
  <2>1. \A g \in Spawn(game, template) : SteadyGame(g)
    OBVIOUS
  <2>2. QED
    BY <1>3, <2>1
<1>4. ASSUME NEW template \in CustomTemplates,
             ApplyAction({CreateCustomTemplate(game, template)}, FALSE)
      PROVE  WorldIsSaved
  <2>1. \A g \in {CreateCustomTemplate(game, template)} : SteadyGame(g)
    OBVIOUS
  <2>2. QED
    BY <1>4, <2>1
<1>5. ASSUME NEW id \in Nat, ApplyAction({SelectItem(game, id)}, FALSE)
      PROVE  WorldIsSaved
  <2>1. \A g \in {SelectItem(game, id)} : SteadyGame(g)
    OBVIOUS
  <2>2. QED
    BY <1>5, <2>1
<1>6. ASSUME NEW id \in Nat, ApplyAction({RemoveStageItem(game, id)}, FALSE)
      PROVE  WorldIsSaved
  <2>1. \A g \in {RemoveStageItem(game, id)} : SteadyGame(g)
    OBVIOUS
  <2>2. QED
    BY <1>6, <2>1
<1>7. CASE ApplyAction({ClearStage(game)}, FALSE)
  <2>1. \A g \in {ClearStage(game)} : SteadyGame(g)
    OBVIOUS
  <2>2. QED
    BY <1>7, <2>1
<1>8. ASSUME NEW purpose, ApplyAction(Interaction(purpose), FALSE)
      PROVE  WorldIsSaved
  <2>1. \A g \in Interaction(purpose) : SteadyGame(g)
    OBVIOUS
  <2>2. QED
    BY <1>8, <2>1
<1>9. ItemIds \subseteq Nat
  BY PlayBoundsAssumption DEF ItemIds
<1> HIDE DispatchedIsSteady, ActionIsApplied
<1>10. QED
  BY <1>1, <1>2, <1>3, <1>4, <1>5, <1>6, <1>7, <1>8, <1>9 DEF Dispatch

\* A walk's tick, or its end, is applied too.
LEMMA WalkKeepsInv ==
  ASSUME NullIsNothingElse, ShellInv, NEW purpose \in Purposes, WalkOn(purpose)
  PROVE  ShellInv'
<1>0. animating \in BOOLEAN /\ walks \in [Purposes -> 0 .. MaxWalks]
  BY DEF ShellInv, RoomTyped
<1>1. /\ walks[purpose] > 0
      /\ UNCHANGED <<today, loading, clearing, cleared, store, disk>>
  BY DEF WalkOn
<1>2. ~loading
  BY <1>1 DEF ShellInv, LoadingIsIdle, NoWalks
<1>3. walks' \in [Purposes -> 0 .. MaxWalks]
  <2>1. walks' = walks \/ walks' = [walks EXCEPT ![purpose] = @ - 1]
    BY DEF WalkOn
  <2>2. QED
    BY <1>0, <1>1, <2>1, WalksStayInRange
<1>4. CASE animating' = FALSE /\ UNCHANGED <<game, writes, presenting>>
  <2>1. RoomTyped' /\ StoreTyped' /\ LoadingIsIdle'
    BY <1>1, <1>2, <1>3, <1>4 DEF ShellInv, RoomTyped, StoreTyped, LoadingIsIdle
  <2>2. SavedIsShown' /\ OnlyAnEventWaits'
    BY <1>1, <1>4 DEF ShellInv, SavedIsShown, LastWritten, OnlyAnEventWaits
  <2>3. QED
    BY <2>1, <2>2 DEF ShellInv
<1>5. CASE ApplyAction(Interaction(purpose), FALSE)
  <2>1. \A g \in Interaction(purpose) : SteadyGame(g)
    BY DispatchedIsSteady
  <2>2. WorldIsSaved
    BY <1>5, <2>1, ActionIsApplied
  <2>3. QED
    BY <1>1, <1>2, <1>3, <2>2, AppliedKeepsInv
<1>6. CASE ApplyAction(Tick(game), animating)
  <2>1. \A g \in Tick(game) : SteadyGame(g)
    BY DispatchedIsSteady
  <2>2. WorldIsSaved
    BY <1>0, <1>6, <2>1, ActionIsApplied
  <2>3. QED
    BY <1>1, <1>2, <1>3, <2>2, AppliedKeepsInv
<1>7. QED
  BY <1>4, <1>5, <1>6 DEF WalkOn

\* The completion is saved; only an event that it let in may wait.
LEMMA EndKeepsInv ==
  ASSUME NullIsNothingElse, ShellInv, PresentationEnds
  PROVE  ShellInv'
<1> DEFINE g == CompleteTransformation(game)
<1>0. /\ SteadyGame(game) /\ game.life \in Life /\ today \in Dates
      /\ walks \in [Purposes -> 0 .. MaxWalks]
      /\ writes \in Seq(Writes)
  BY DEF ShellInv, RoomTyped, StoreTyped, SteadyGame, Game
<1>1. /\ SteadyGame(g)
      /\ g.life = CompleteQueuedTransformation(game.life, game.dayCount)
  BY <1>0, CompletionIsSound DEF Keeps
<1>2. /\ game' = Observed(g)
      /\ writes' = writes \o <<Save(g)>> \o SavesOfObserving(g, Observed(g))
      /\ presenting' = None /\ animating' = FALSE /\ ~loading
      /\ UNCHANGED <<today, loading, walks, clearing, cleared, store, disk>>
  BY DEF PresentationEnds, ShellInv, LoadingIsIdle
<1> HIDE DEF g
<1>3. g.life.pendingTransformationFormId = None
  BY <1>0, <1>1 DEF CompleteQueuedTransformation, Life
<1>4. g \in Game /\ g.life \in Life
  BY <1>1 DEF SteadyGame, Game
<1>5. SteadyGame(game')
  BY <1>0, <1>1, <1>2, ObservedIsSteady
<1>6. writes' \in Seq(Writes) /\ EndsInSaveOf(writes', game')
  BY <1>0, <1>1, <1>2, ObservedIsSaved
<1>7. game'.life = Observe(g.life, today)
  BY <1>2, <1>4 DEF Observed, Game
<1>8. game'.life.pendingTransformationFormId # None
        => game'.life.pendingCalendarEventKey # None
  BY <1>0, <1>3, <1>4, <1>7, OnlyEventsAreObserved
<1>9. WorldIsSaved
  BY <1>2, <1>5, <1>6, <1>8 DEF WorldIsSaved
<1>10. QED
  BY <1>0, <1>2, <1>9, AppliedKeepsInv

\* While a clear is under way nothing is claimed of what the device holds, and the
\* world begins anew when its reply comes.
LEMMA ClearingKeepsInv ==
  ASSUME NullIsNothingElse, ShellInv,
         (\E how \in Clearings : Confirm(how)) \/ EraseAll \/ StartOver
  PROVE  ShellInv'
<1>0. /\ SteadyGame(NewGame) /\ NewGame.life.pendingTransformationFormId = None
      /\ writes \in Seq(Writes)
      /\ Save(NewGame) \in Writes /\ Remove \in Writes
  BY NewGameIsQuiet DEF ShellInv, StoreTyped, Writes, SteadyGames, SteadyGame
<1>1. Append(writes, Remove) \in Seq(Writes) /\ Append(writes, Save(NewGame)) \in Seq(Writes)
  BY <1>0
<1>2. CASE (\E how \in Clearings : Confirm(how)) \/ EraseAll
  <2>0. clearing \in Seq(Clears) /\ cleared \in Nat /\ Clearings \subseteq Clears
    BY ShellBoundsAssumption DEF ShellInv, RoomTyped, Clears
  <2>1. /\ clearing' \in Seq(Clears) /\ clearing' # <<>>
        /\ ~loading
        /\ cleared' \in Nat
        /\ writes' = Append(writes, Remove)
        /\ UNCHANGED <<game, today, loading, animating, presenting, walks, store, disk>>
    <3>1. ASSUME NEW how \in Clearings, Confirm(how)
          PROVE  clearing' \in Seq(Clears) /\ clearing' # <<>> /\ ~loading /\ cleared' \in Nat
      BY <2>0, <3>1 DEF Confirm
    <3>2. CASE EraseAll
      <4>1. clearing # <<>> /\ cleared > 0 /\ cleared' = cleared - 1
        BY <3>2 DEF EraseAll, Replied
      <4>2. Tail(clearing) \in Seq(Clears) /\ "eraseAll" \in Clears
        BY <2>0, <4>1 DEF Clears
      <4>3. /\ Append(Tail(clearing), "eraseAll") \in Seq(Clears)
            /\ Append(Tail(clearing), "eraseAll") # <<>>
        <5> DEFINE rest == Tail(clearing)
        <5>1. rest \in Seq(Clears)
          BY <4>2
        <5> HIDE DEF rest
        <5>2. Append(rest, "eraseAll") \in Seq(Clears)
          BY <4>2, <5>1
        <5>3. Len(Append(rest, "eraseAll")) = Len(rest) + 1 /\ Len(rest) \in Nat
          BY <4>2, <5>1
        <5>4. Append(rest, "eraseAll") # <<>>
          BY <5>3
        <5>5. QED
          BY <5>2, <5>4 DEF rest
      <4>4. ~loading
        BY <4>1 DEF ShellInv, LoadingIsIdle
      <4>5. QED
        BY <2>0, <3>2, <4>1, <4>3, <4>4 DEF EraseAll
    <3>3. QED
      BY <1>2, <3>1, <3>2 DEF Confirm, EraseAll
  <2>2. RoomTyped' /\ StoreTyped'
    BY <1>1, <2>1 DEF ShellInv, RoomTyped, StoreTyped
  <2>3. LoadingIsIdle' /\ SavedIsShown' /\ OnlyAnEventWaits'
    BY <2>1 DEF ShellInv, LoadingIsIdle, SavedIsShown, OnlyAnEventWaits
  <2>4. QED
    BY <2>2, <2>3 DEF ShellInv
<1>3. CASE StartOver
  <2>1. clearing \in Seq(Clears) /\ clearing # <<>> /\ cleared \in Nat
        /\ cleared > 0 /\ cleared' = cleared - 1 /\ clearing' = Tail(clearing)
    BY <1>3 DEF StartOver, Replied, ShellInv, RoomTyped
  <2>2. clearing' \in Seq(Clears) /\ cleared' \in Nat
    BY <2>1
  <2>3. /\ game' = NewGame
        /\ writes' \in {writes, Append(writes, Save(NewGame))}
        /\ ~loading
        /\ UNCHANGED <<today, loading, animating, presenting, walks, store, disk>>
    BY <1>3, <2>1 DEF StartOver, ShellInv, LoadingIsIdle
  <2>4. RoomTyped' /\ StoreTyped'
    BY <1>0, <1>1, <2>2, <2>3 DEF ShellInv, RoomTyped, StoreTyped
  <2>5. LoadingIsIdle' /\ SavedIsShown' /\ OnlyAnEventWaits'
    BY <1>0, <2>3 DEF ShellInv, LoadingIsIdle, SavedIsShown, OnlyAnEventWaits
  <2>6. QED
    BY <2>4, <2>5 DEF ShellInv
<1>4. QED
  BY <1>2, <1>3

\* A write that reaches the disk does not change what was written last.
LEMMA WriteKeepsInv ==
  ASSUME NullIsNothingElse, ShellInv, WriteReachesDisk
  PROVE  ShellInv'
<1>0. writes \in Seq(Writes) /\ writes # <<>>
  BY DEF WriteReachesDisk, ShellInv, StoreTyped
<1>1. /\ writes' = Tail(writes)
      /\ disk' = IF writes[1].op = "save" THEN writes[1].json ELSE None
      /\ cleared' \in Nat
      /\ ~loading
      /\ UNCHANGED <<game, today, loading, animating, presenting, walks, clearing, store>>
  <2>1. Head(writes) = writes[1]
    BY <1>0
  <2>2. cleared' \in {cleared, cleared + 1} /\ cleared \in Nat
    BY DEF WriteReachesDisk, ShellInv, RoomTyped
  <2>3. cleared' \in Nat
    BY <2>2
  <2>4. ~loading
    BY <1>0 DEF ShellInv, LoadingIsIdle
  <2>5. QED
    BY <2>1, <2>3, <2>4 DEF WriteReachesDisk
<1>2. Tail(writes) \in Seq(Writes) /\ writes[1] \in Writes
  BY <1>0
<1>3. disk' = None \/ SteadyGame(FromJson(disk'))
  <2>1. CASE writes[1] = Remove
    BY <1>1, <2>1 DEF Remove
  <2>2. ASSUME NEW g \in SteadyGames, writes[1] = Save(g)
        PROVE  SteadyGame(FromJson(disk'))
    <3>1. disk' = ToJson(g)
      BY <1>1, <2>2 DEF Save
    <3>2. QED
      BY <3>1, GameIsRestored DEF SteadyGames
  <2>3. QED
    BY <1>2, <2>1, <2>2 DEF Writes
<1>4. LastWritten' = LastWritten
  <2>1. CASE Len(writes) = 1
    <3>1. Tail(writes) \in Seq(Writes) /\ Len(Tail(writes)) = 0
      BY <1>0, <2>1
    <3>2. Tail(writes) = <<>>
      BY <3>1, EmptySeq
    <3>3. QED
      BY <1>0, <1>1, <2>1, <3>2 DEF LastWritten
  <2>2. CASE Len(writes) # 1
    <3>1. Len(writes) \in Nat /\ Len(writes) > 1
      BY <1>0, <2>2, EmptySeq
    <3>2. Len(Tail(writes)) = Len(writes) - 1
      BY <1>0, <3>1
    <3>3. Tail(writes)[Len(writes) - 1] = writes[Len(writes)]
      BY <1>0, <3>1
    <3>4. Tail(writes) # <<>>
      BY <3>1, <3>2
    <3>5. QED
      BY <1>0, <1>1, <3>2, <3>3, <3>4 DEF LastWritten
  <2>3. QED
    BY <2>1, <2>2
<1>5. RoomTyped' /\ StoreTyped' /\ LoadingIsIdle'
  BY <1>1, <1>2, <1>3 DEF ShellInv, RoomTyped, StoreTyped, LoadingIsIdle
<1>6. SavedIsShown' /\ OnlyAnEventWaits'
  BY <1>1, <1>4 DEF ShellInv, SavedIsShown, OnlyAnEventWaits
<1>7. QED
  BY <1>5, <1>6 DEF ShellInv

\* A page that has just been made, over a device that holds a world or nothing.
LEMMA FreshIsSound ==
  ASSUME Fresh, today \in Dates, disk = None \/ SteadyGame(FromJson(disk))
  PROVE  ShellInv
<1>1. NoWalks \in [Purposes -> 0 .. MaxWalks]
  BY ShellBoundsAssumption DEF NoWalks
<1>2. <<>> \in Seq(Writes) /\ <<>> \in Seq(Clears)
  OBVIOUS
<1>3. RoomTyped /\ StoreTyped /\ LoadingIsIdle
  BY <1>1, <1>2, NewGameIsQuiet DEF Fresh, RoomTyped, StoreTyped, LoadingIsIdle
<1>4. SavedIsShown /\ OnlyAnEventWaits
  BY DEF Fresh, SavedIsShown, OnlyAnEventWaits
<1>5. QED
  BY <1>3, <1>4 DEF ShellInv

\* One step for each action.
LEMMA ShellStays ==
  ASSUME NullIsNothingElse, ShellInv, [ShellNext]_shellVars
  PROVE  ShellInv'
<1>0. /\ SteadyGame(game) /\ today \in Dates
      /\ walks \in [Purposes -> 0 .. MaxWalks]
      /\ SteadyGame(NewGame) /\ store \in {"opening", "open"}
      /\ disk = None \/ SteadyGame(FromJson(disk))
  BY NewGameIsQuiet DEF ShellInv, RoomTyped, StoreTyped
<1>1. CASE StoreOpens
  <2>1. CASE loading
    <3>1. CASE disk = None
      BY <1>0, <1>1, <2>1, <3>1, LoadKeepsInv DEF StoreOpens
    <3>2. CASE disk # None
      BY <1>0, <1>1, <2>1, <3>2, LoadKeepsInv DEF StoreOpens
    <3>3. QED
      BY <3>1, <3>2
  <2>2. CASE ~loading
    <3>1. /\ UNCHANGED <<game, today, roomVars, writes, disk>>
          /\ store' = "open"
      BY <1>1, <2>2 DEF StoreOpens
    <3>2. RoomTyped' /\ StoreTyped' /\ LoadingIsIdle'
      BY <3>1 DEF roomVars, ShellInv, RoomTyped, StoreTyped, LoadingIsIdle
    <3>3. SavedIsShown' /\ OnlyAnEventWaits'
      BY <3>1 DEF roomVars, ShellInv, SavedIsShown, LastWritten, OnlyAnEventWaits
    <3>4. QED
      BY <3>2, <3>3 DEF ShellInv
  <2>3. QED
    BY <2>1, <2>2
<1>2. CASE LoadGivesUp
  BY <1>0, <1>2, LoadKeepsInv DEF LoadGivesUp
<1>3. CASE Dispatch
  <2>1. WorldIsSaved
    BY <1>3, DispatchIsApplied
  <2>2. /\ ~loading
        /\ UNCHANGED <<today, loading, walks, clearing, cleared, store, disk>>
    BY <1>3 DEF Dispatch, CanDispatch
  <2>3. QED
    BY <1>0, <2>1, <2>2, AppliedKeepsInv
<1>4. ASSUME NEW purpose \in Purposes, StartWalk(purpose)
      PROVE  ShellInv'
  <2>1. \A g \in Tick(game) : SteadyGame(g)
    BY DispatchedIsSteady
  <2>2. WorldIsSaved
    BY <1>4, <2>1, ActionIsApplied DEF StartWalk
  <2>3. /\ ~loading
        /\ UNCHANGED <<today, loading, clearing, cleared, store, disk>>
        /\ walks' = [walks EXCEPT ![purpose] = @ + 1]
        /\ walks["advance"] + walks["use"] + walks["inspect"] < MaxWalks
    BY <1>4 DEF StartWalk, CanDispatch
  <2>4. walks' \in [Purposes -> 0 .. MaxWalks]
    BY <1>0, <2>3, ShellBoundsAssumption DEF Purposes
  <2>5. QED
    BY <2>2, <2>3, <2>4, AppliedKeepsInv
<1>5. ASSUME NEW purpose \in Purposes, WalkOn(purpose)
      PROVE  ShellInv'
  BY <1>5, WalkKeepsInv
<1>6. CASE PresentationEnds
  BY <1>6, EndKeepsInv
<1>7. CASE (\E how \in Clearings : Confirm(how)) \/ EraseAll \/ StartOver
  BY <1>7, ClearingKeepsInv
<1>8. CASE WriteReachesDisk
  BY <1>8, WriteKeepsInv
<1>9. CASE Restart
  <2>1. Fresh' /\ today' = today /\ disk' = disk
    BY <1>9 DEF Restart, Fresh
  <2>2. (SteadyGame(NewGame) /\ NewGame.life.pendingTransformationFormId = None)
    BY NewGameIsQuiet
  <2>3. RoomTyped' /\ StoreTyped' /\ LoadingIsIdle'
    <3>1. NoWalks \in [Purposes -> 0 .. MaxWalks]
      BY ShellBoundsAssumption DEF NoWalks
    <3>2. <<>> \in Seq(Writes) /\ <<>> \in Seq(Clears)
      OBVIOUS
    <3>3. QED
      BY <1>0, <2>1, <2>2, <3>1, <3>2 DEF Fresh, RoomTyped, StoreTyped, LoadingIsIdle
  <2>4. SavedIsShown' /\ OnlyAnEventWaits'
    BY <2>1 DEF Fresh, SavedIsShown, OnlyAnEventWaits
  <2>5. QED
    BY <2>3, <2>4 DEF ShellInv
<1>10. CASE ShellDateChanges
  <2>1. today' \in Dates /\ UNCHANGED <<game, roomVars, storeVars>>
    BY <1>10 DEF ShellDateChanges, DateChanges
  <2>2. RoomTyped' /\ StoreTyped' /\ LoadingIsIdle'
    BY <2>1 DEF roomVars, storeVars, ShellInv, RoomTyped, StoreTyped, LoadingIsIdle
  <2>3. SavedIsShown' /\ OnlyAnEventWaits'
    BY <2>1 DEF roomVars, storeVars, ShellInv, SavedIsShown, LastWritten,
                OnlyAnEventWaits
  <2>4. QED
    BY <2>2, <2>3 DEF ShellInv
<1>11. CASE UNCHANGED shellVars
  BY <1>11 DEF shellVars, roomVars, storeVars, ShellInv, RoomTyped, StoreTyped,
               LoadingIsIdle, SavedIsShown, LastWritten, OnlyAnEventWaits
<1>12. QED
  BY <1>1, <1>2, <1>3, <1>4, <1>5, <1>6, <1>7, <1>8, <1>9, <1>10, <1>11
     DEF ShellNext

\* ShellSpec has ShellInv.
LEMMA ShellIsSound ==
  ASSUME NullIsNothingElse, DeviceHoldsWorlds
  PROVE  ShellSpec => []ShellInv
<1>1. ShellInit => ShellInv
  <2>1. ASSUME ShellInit PROVE disk = None \/ SteadyGame(FromJson(disk))
    BY <2>1 DEF ShellInit, DeviceHoldsWorlds
  <2>2. QED
    BY <2>1, FreshIsSound DEF ShellInit
<1>2. ShellInv /\ [ShellNext]_shellVars => ShellInv'
  BY ShellStays
<1>3. QED
  BY <1>1, <1>2, PTL DEF ShellSpec

----------------------------------------------------------------------------
(* The properties of the runs. *)

\* The room keeps its types, and what is on its way to the disk or on it is a save
\* that can be read back.
THEOREM RoomAlwaysTyped ==
  ASSUME NullIsNothingElse, DeviceHoldsWorlds
  PROVE  ShellSpec => []ShellTypeOK
<1>1. ASSUME ShellInv PROVE ShellTypeOK
  <2>1. ASSUME NEW i \in DOMAIN writes
        PROVE  \/ writes[i].op = "remove"
               \/ writes[i].op = "save" /\ IsSave(writes[i].json)
    <3>1. writes[i] \in Writes
      BY <1>1, <2>1 DEF ShellInv, StoreTyped
    <3>2. CASE writes[i] = Remove
      BY <3>2 DEF Remove
    <3>3. ASSUME NEW g \in SteadyGames, writes[i] = Save(g)
          PROVE  writes[i].op = "save" /\ IsSave(writes[i].json)
      <4>1. FromJson(ToJson(g)) = g /\ g \in Game
        BY GameIsRestored DEF SteadyGames
      <4>2. QED
        BY <3>3, <4>1 DEF Save, IsSave
    <3>4. QED
      BY <3>1, <3>2, <3>3 DEF Writes
  <2>2. disk = None \/ IsSave(disk)
    BY <1>1 DEF ShellInv, StoreTyped, SteadyGame, IsSave
  <2>3. QED
    BY <1>1, <2>1, <2>2 DEF ShellInv, RoomTyped, StoreTyped, SteadyGame, ShellTypeOK, TypeOK
<1>2. QED
  BY ShellIsSound, <1>1, PTL

\* The world in play is the world being saved, whatever walks, presentations, looks
\* at the date, clears and late replies overlap.
THEOREM WorldAlwaysSaved ==
  ASSUME NullIsNothingElse, DeviceHoldsWorlds
  PROVE  ShellSpec => []SavedIsShown
<1>1. ShellInv => SavedIsShown
  BY DEF ShellInv
<1>2. QED
  BY ShellIsSound, <1>1, PTL

\* A restart would restore the game in play, whatever the game.
THEOREM SaveAlwaysRestores ==
  ASSUME NullIsNothingElse, DeviceHoldsWorlds
  PROVE  ShellSpec => []SaveRestoresTheGame
<1>1. ShellInv => SaveRestoresTheGame
  BY GameIsRestored DEF ShellInv, RoomTyped, SaveRestoresTheGame
<1>2. QED
  BY ShellIsSound, <1>1, PTL

\* No surprise is stranded: what is queued is presented, but for an event that a
\* completion let in.
THEOREM OnlyEventsEverWait ==
  ASSUME NullIsNothingElse, DeviceHoldsWorlds
  PROVE  ShellSpec => []OnlyAnEventWaits
<1>1. ShellInv => OnlyAnEventWaits
  BY DEF ShellInv
<1>2. QED
  BY ShellIsSound, <1>1, PTL

\* A reset that has come back leaves a fresh world as the last write under way.
THEOREM ResetAlwaysStartsFresh ==
  ASSUME NullIsNothingElse, DeviceHoldsWorlds
  PROVE  ShellSpec => ResetStartsFresh
<1>1. ASSUME ShellInv, [ShellNext]_shellVars
      PROVE  (clearing # <<>> /\ Head(clearing) = "reset" /\ clearing' = Tail(clearing)
                /\ ~loading')
               => LastWritten' = ToJson(NewGame)
  <2>1. SUFFICES ASSUME clearing # <<>>, Head(clearing) = "reset",
                        clearing' = Tail(clearing), ~loading'
                 PROVE  LastWritten' = ToJson(NewGame)
    OBVIOUS
  <2>2. /\ clearing \in Seq(Clears) /\ Len(clearing) \in Nat
        /\ Len(clearing') = Len(clearing) - 1
    BY <1>1, <2>1 DEF ShellInv, RoomTyped
  <2>3. clearing' # clearing
    BY <2>2
  <2>4. ASSUME NEW how \in Clearings, Confirm(how)
        PROVE  FALSE
    <3>1. how \in Clears
      BY ShellBoundsAssumption DEF Clears
    <3>2. Len(clearing') = Len(clearing) + 1
      BY <2>2, <2>4, <3>1 DEF Confirm
    <3>3. QED
      BY <2>2, <3>2
  <2>5. ~EraseAll
    BY <2>1 DEF EraseAll, Replied
  <2>6. StartOver
    BY <1>1, <2>1, <2>3, <2>4, <2>5
       DEF ShellNext, shellVars, roomVars, storeVars, StoreOpens, LoadGivesUp, Loaded,
           Dispatch, StartWalk, WalkOn, PresentationEnds,
           WriteReachesDisk, Restart, ShellDateChanges
  <2>7. writes' = Append(writes, Save(NewGame)) /\ writes \in Seq(Writes)
    BY <1>1, <2>1, <2>6 DEF StartOver, ShellInv, StoreTyped
  <2>8. Save(NewGame) \in Writes
    BY NewGameIsQuiet DEF Writes, SteadyGames, SteadyGame
  <2>9. writes' # <<>> /\ writes'[Len(writes')] = Save(NewGame)
    BY <2>7, <2>8
  <2>10. QED
    BY <2>9 DEF LastWritten, Save
<1>2. QED
  BY ShellIsSound, <1>1, PTL DEF ShellSpec, ResetStartsFresh

----------------------------------------------------------------------------
(* The room that is busy. *)

\* A timer runs for whatever keeps the player waiting.
BusyIsMoving == animating => presenting # None \/ \E p \in Purposes : walks[p] > 0

\* Each walk is counted.
WalksCounted == walks \in [Purposes -> Nat]

\* What begins a presentation or leaves _animating as it was keeps its timer.
LEMMA PresentKeepsMoving ==
  ASSUME NEW after, NEW busy, Present(after, busy),
         busy => presenting # None \/ \E p \in Purposes : walks'[p] > 0
  PROVE  BusyIsMoving'
BY DEF Present, BusyIsMoving

\* Never is the room busy with nothing: however walks, presentations, clears and restarts
\* overlap, whatever last set _animating in chatty_pet_app.dart has a timer that is still
\* running.  That the timer ends the wait is RoomOpens.
THEOREM BusyRoomIsMoving == ShellSpec => []BusyIsMoving
<1>1. ShellInit => WalksCounted /\ BusyIsMoving
  BY DEF ShellInit, Fresh, NoWalks, WalksCounted, BusyIsMoving
<1>2. WalksCounted /\ [ShellNext]_shellVars => WalksCounted'
  <2>1. SUFFICES ASSUME WalksCounted, [ShellNext]_shellVars
                 PROVE  WalksCounted'
    OBVIOUS
  <2>2. ASSUME NEW purpose \in Purposes, StartWalk(purpose) \/ WalkOn(purpose)
        PROVE  WalksCounted'
    <3>1. \/ walks' = walks
          \/ walks' = [walks EXCEPT ![purpose] = @ + 1]
          \/ walks[purpose] > 0 /\ walks' = [walks EXCEPT ![purpose] = @ - 1]
      BY <2>2 DEF StartWalk, WalkOn
    <3>2. QED
      BY <2>1, <3>1 DEF WalksCounted
  <2>3. CASE Restart
    BY <2>3 DEF Restart, NoWalks, WalksCounted
  <2>4. CASE UNCHANGED walks
    BY <2>1, <2>4 DEF WalksCounted
  <2>5. QED
    BY <2>1, <2>2, <2>3, <2>4
       DEF ShellNext, StoreOpens, LoadGivesUp, Loaded, Dispatch, PresentationEnds, Confirm,
           EraseAll, StartOver, Replied, WriteReachesDisk, ShellDateChanges, roomVars,
           shellVars
<1>3. WalksCounted /\ BusyIsMoving /\ [ShellNext]_shellVars => BusyIsMoving'
  <2>1. SUFFICES ASSUME WalksCounted, BusyIsMoving, [ShellNext]_shellVars
                 PROVE  BusyIsMoving'
    OBVIOUS
  <2>2. walks \in [Purposes -> Nat]
    BY <2>1 DEF WalksCounted
  <2>3. CASE UNCHANGED <<animating, presenting, walks>>
    BY <2>1, <2>3 DEF BusyIsMoving
  <2>4. CASE StoreOpens \/ LoadGivesUp
    BY <2>1, <2>3, <2>4, PresentKeepsMoving
       DEF StoreOpens, LoadGivesUp, Loaded, roomVars, BusyIsMoving
  <2>5. CASE Dispatch
    BY <2>5, PresentKeepsMoving DEF Dispatch, ApplyAction
  <2>6. ASSUME NEW purpose \in Purposes, StartWalk(purpose)
        PROVE  BusyIsMoving'
    <3>1. walks'[purpose] > 0
      BY <2>2, <2>6 DEF StartWalk
    <3>2. QED
      BY <2>6, <3>1, PresentKeepsMoving DEF StartWalk, ApplyAction
  <2>7. ASSUME NEW purpose \in Purposes, WalkOn(purpose)
        PROVE  BusyIsMoving'
    <3>1. CASE WalkIsOver
      <4>1. animating' = FALSE \/ ApplyAction(Interaction(purpose), FALSE)
        BY <2>7, <3>1 DEF WalkOn
      <4>2. QED
        BY <4>1, PresentKeepsMoving DEF ApplyAction, BusyIsMoving
    <3>2. CASE ~WalkIsOver
      <4>1. ApplyAction(Tick(game), animating) /\ walks' = walks
        BY <2>7, <3>2 DEF WalkOn
      <4>2. animating => presenting # None \/ \E p \in Purposes : walks'[p] > 0
        BY <2>1, <4>1 DEF BusyIsMoving
      <4>3. QED
        BY <4>1, <4>2, PresentKeepsMoving DEF ApplyAction
    <3>3. QED
      BY <3>1, <3>2
  <2>8. CASE PresentationEnds \/ Restart
    BY <2>8 DEF PresentationEnds, Restart, BusyIsMoving
  <2>9. CASE \/ \E how \in Clearings : Confirm(how)
             \/ EraseAll \/ StartOver \/ WriteReachesDisk \/ ShellDateChanges
             \/ UNCHANGED shellVars
    BY <2>3, <2>9
       DEF Confirm, EraseAll, StartOver, WriteReachesDisk, ShellDateChanges, roomVars,
           shellVars
  <2>10. QED
    BY <2>1, <2>4, <2>5, <2>6, <2>7, <2>8, <2>9 DEF ShellNext
<1>4. QED
  BY <1>1, <1>2, <1>3, PTL DEF ShellSpec

=============================================================================
