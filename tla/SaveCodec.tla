------------------------------ MODULE SaveCodec -----------------------------
(***************************************************************************)
(* What a save keeps of a game and what a restart makes of a save          *)
(* (lib/core/game_state_codec.dart with ChattyLifeState.toJson/fromJson).  *)
(* A save is a record with a field for each JSON key; a save of an older   *)
(* version of the app lacks some keys.  The event log is never saved.      *)
(***************************************************************************)
EXTENDS Reducer

\* Templates of the starter datapack are not saved, every other one is.
ToJson(g) ==
  [ tickCount           |-> g.tickCount,
    dayCount            |-> g.dayCount,
    timeOfDay           |-> g.timeOfDay,
    activityPhase       |-> g.activityPhase,
    items               |-> g.items,
    nextItemId          |-> g.nextItemId,
    selectedItemId      |-> g.selectedItemId,
    customTemplates     |-> g.templates \ StarterTemplates,
    unlockedTemplateIds |-> g.unlockedTemplateIds,
    pet                 |-> g.pet,
    life                |-> g.life ]

\* json[key] ?? fallback
Read(json, key, fallback) == IF key \in DOMAIN json THEN json[key] ELSE fallback

\* const <String, dynamic>{}
EmptyJson == [key \in {} |-> None]

\* Mutation: what waits to be shown is not read back.
LifeWithoutQueue(json) ==
  [ [field \in DOMAIN NewLife |-> Read(json, field, NewLife[field])]
      EXCEPT !.discoveredFormIds       = @ \cup {BaseForm},
             !.pendingCalendarEventKey = None ]

\* Every key that a life lacks has the value it has in a new life.
LifeFromJson(json) ==
  [ [field \in DOMAIN NewLife |-> Read(json, field, NewLife[field])]
      EXCEPT !.discoveredFormIds = @ \cup {BaseForm} ]

\* A pet without a place cannot be read; whatever else it lacks has a value of its own.
PetFromJson(json) ==
  LET needs == Read(json, "needs", EmptyJson)
  IN  [ position     |-> json.position,
        mood         |-> Read(json, "mood", "curious"),
        targetItemId |-> Read(json, "targetItemId", None),
        needs        |-> [n \in NeedNames |-> ClampNeed(Read(needs, n, 4))],
        affection    |-> ClampAffection(Read(json, "affection", 0)) ]

\* Mutation: without a moment, the sky has no phase.
PhaseAsSaved(json) == Read(json, "activityPhase", None)

\* A game without a moment is restored under a morning sky.
PhaseFromJson(json) == Read(json, "activityPhase", "morning")

FromJson(json) ==
  LET templates == StarterTemplates \cup Read(json, "customTemplates", {})
  IN  [ tickCount           |-> Read(json, "tickCount", 0),
        dayCount            |-> Read(json, "dayCount", 1),
        timeOfDay           |-> Read(json, "timeOfDay", "morning"),
        activityPhase       |-> PhaseFromJson(json),
        items               |-> {i \in Read(json, "items", {}) : i.templateId \in templates},
        nextItemId          |-> Read(json, "nextItemId", 1),
        selectedItemId      |-> Read(json, "selectedItemId", None),
        templates           |-> templates,
        unlockedTemplateIds |-> FirstTemplates
                                  \cup (Read(json, "unlockedTemplateIds", {}) \cap templates)
                                  \cup Read(json, "customTemplates", {}),
        pet                 |-> PetFromJson(json.pet),
        life                |-> LifeFromJson(Read(json, "life", EmptyJson)) ]

=============================================================================
