--------------------------- MODULE ReducerProofs ---------------------------
(***************************************************************************)
(* Every handler of the reducer keeps a game sound, for any stage, length  *)
(* of day, datapack, calendar and thresholds.                              *)
(***************************************************************************)
EXTENDS Reducer, LifeStateProofs, NaturalsInduction, WellFoundedInduction

----------------------------------------------------------------------------
(* The grid and the rules of the pet. *)

\* Division leaves a remainder.
LEMMA Dividing ==
  ASSUME NEW t \in Nat, NEW d \in Nat \ {0}
  PROVE  /\ t \div d \in Nat
         /\ t % d \in 0 .. d - 1
         /\ t = d * (t \div d) + (t % d)
OBVIOUS

\* A larger quotient is larger by the divisor at least.
LEMMA LargerQuotient ==
  ASSUME NEW d \in Nat \ {0}, NEW a \in Nat, NEW b \in Nat, a < b
  PROVE  d * b >= d * a + d
<1>1. b = a + (b - a) /\ b - a >= 1
  OBVIOUS
<1>2. d * b = d * a + d * (b - a)
  BY <1>1
<1>3. d * (b - a) >= d
  BY <1>1
<1>4. QED
  BY <1>2, <1>3

\* Quotient and remainder are determined.
LEMMA OneQuotient ==
  ASSUME NEW d \in Nat \ {0}, NEW a \in Nat, NEW b \in Nat,
         NEW r \in 0 .. d - 1, NEW s \in 0 .. d - 1,
         d * a + r = d * b + s
  PROVE  a = b /\ r = s
<1>1. d * a \in Nat /\ d * b \in Nat
  OBVIOUS
<1>2. CASE a < b
  <2>1. d * b >= d * a + d
    BY <1>2, LargerQuotient
  <2>2. QED
    BY <1>1, <2>1
<1>3. CASE b < a
  <2>1. d * a >= d * b + d
    BY <1>3, LargerQuotient
  <2>2. QED
    BY <1>1, <2>1
<1>4. CASE a = b
  BY <1>1, <1>4
<1>5. QED
  BY <1>2, <1>3, <1>4

\* A tick starts a new day exactly when the days before it divide it.
LEMMA NextDay ==
  ASSUME NEW t \in Nat, NEW d \in Nat \ {0}
  PROVE  (t + 1) \div d = (t \div d) + (IF (t + 1) % d = 0 THEN 1 ELSE 0)
<1> DEFINE a == t \div d
           b == (t + 1) \div d
           r == t % d
           s == (t + 1) % d
<1>1. a \in Nat /\ r \in 0 .. d - 1 /\ t = d * a + r
  BY Dividing
<1>2. t + 1 \in Nat
  OBVIOUS
<1>3. b \in Nat /\ s \in 0 .. d - 1 /\ t + 1 = d * b + s
  BY <1>2, Dividing
<1> HIDE DEF a, b, r, s
<1>4. CASE r = d - 1
  <2>1. a + 1 \in Nat /\ 0 \in 0 .. d - 1 /\ d * (a + 1) = d * a + d
    BY <1>1
  <2>2. d * b + s = d * (a + 1) + 0
    BY <1>1, <1>3, <1>4, <2>1
  <2>3. b = a + 1 /\ s = 0
    BY <1>3, <2>1, <2>2, OneQuotient
  <2>4. QED
    BY <2>3 DEF a, b, s
<1>5. CASE r # d - 1
  <2>1. r + 1 \in 0 .. d - 1
    BY <1>1, <1>5
  <2>2. d * b + s = d * a + (r + 1)
    BY <1>1, <1>3, <2>1
  <2>3. b = a /\ s = r + 1
    BY <1>1, <1>3, <2>1, <2>2, OneQuotient
  <2>4. s # 0 /\ b = a + 0
    BY <1>1, <2>3
  <2>5. QED
    BY <2>4 DEF a, b, s
<1>6. QED
  BY <1>4, <1>5

\* Every tick has its time of day: a day's ticks are four quarters, and no more.
LEMMA HourIsATime ==
  ASSUME NEW tick \in Nat
  PROVE  TimeOfDayForTick(tick) \in Times
<1> DEFINE q == TicksPerDay \div 4
           r == tick % TicksPerDay
           k == r \div q
<1>1. q \in Nat \ {0} /\ TicksPerDay = 4 * q
  BY RulesAssumption
<1>2. r \in 0 .. TicksPerDay - 1
  BY RulesAssumption
<1> HIDE DEF q, r
<1>3. k \in Nat /\ r % q \in 0 .. q - 1 /\ r = q * k + (r % q)
  <2>1. r \in Nat
    BY <1>2, RulesAssumption
  <2>2. QED
    BY <1>1, <2>1, Dividing
<1> HIDE DEF k
<1>4. k < 4
  <2>1. q * 4 <= q * k \/ k < 4
    <3>1. k > 4 => q * k >= q * 4 + q
      BY <1>1, <1>3, LargerQuotient
    <3>2. QED
      BY <1>1, <1>3, <3>1
  <2>2. QED
    BY <1>1, <1>2, <1>3, <2>1
<1>5. k \in 0 .. 3
  BY <1>3, <1>4
<1>6. TimesOfDay[1 + k] \in Times
  BY <1>5 DEF TimesOfDay, Times
<1>7. QED
  BY <1>6 DEF q, r, k, TimeOfDayForTick

\* Clamping an integer.
LEMMA ClampIsInRange ==
  ASSUME NEW value \in Int, NEW max \in Nat
  PROVE  Clamp(value, max) \in 0 .. max
BY DEF Clamp

\* Needs stay within their range as they decay.
LEMMA DecayIsInRange ==
  ASSUME NEW needs \in Needs, NEW tick \in Nat
  PROVE  Decay(needs, tick) \in Needs
<1>1. ASSUME NEW n \in NeedNames
      PROVE  (IF tick % DecayPeriod[n] = 0 THEN ClampNeed(needs[n] - 1) ELSE needs[n])
               \in 0 .. MaxNeed
  <2>1. needs[n] \in 0 .. MaxNeed /\ needs[n] - 1 \in Int /\ MaxNeed \in Nat
    BY <1>1, RulesAssumption DEF Needs
  <2>2. ClampNeed(needs[n] - 1) \in 0 .. MaxNeed
    BY <2>1, ClampIsInRange DEF ClampNeed
  <2>3. QED
    BY <2>1, <2>2
<1>2. QED
  BY <1>1 DEF Decay, Needs

\* Every pet has a mood.
LEMMA MoodIsAMood == ASSUME NEW needs PROVE DeriveMood(needs) \in Moods
BY DEF DeriveMood, Moods

\* A step towards what is out of reach stays on the grid, moves by one cell and
\* comes nearer.
LEMMA StepIsNearer ==
  ASSUME NEW p \in Cells, NEW q \in Cells, ~InReach(p, q)
  PROVE  /\ StepToward(p, q) \in Cells
         /\ Distance(p, StepToward(p, q)) <= 1
         /\ Distance(StepToward(p, q), q) < Distance(p, q)
<1>1. PICK px \in 0 .. GridWidth - 1, py \in 0 .. GridHeight - 1 : p = <<px, py>>
  BY DEF Cells
<1>2. PICK qx \in 0 .. GridWidth - 1, qy \in 0 .. GridHeight - 1 : q = <<qx, qy>>
  BY DEF Cells
<1>3. CASE px # qx
  BY <1>1, <1>2, <1>3, RulesAssumption DEF StepToward, Toward, Distance, Gap, Cells
<1>4. CASE px = qx /\ py # qy
  BY <1>1, <1>2, <1>4, RulesAssumption DEF StepToward, Toward, Distance, Gap, Cells
<1>5. CASE px = qx /\ py = qy
  BY <1>1, <1>2, <1>5 DEF InReach, Distance, Gap
<1>6. QED
  BY <1>3, <1>4, <1>5

\* Staying is no walk.
LEMMA StayingIsNoWalk ==
  ASSUME NEW p \in Cells
  PROVE  Distance(p, p) = 0
BY RulesAssumption DEF Distance, Gap, Cells

\* No way is shorter by a detour, and none leaves the grid.
LEMMA WaysAddUp ==
  ASSUME NEW p \in Cells, NEW q \in Cells, NEW r \in Cells
  PROVE  /\ Distance(p, q) \in 0 .. GridWidth + GridHeight - 2
         /\ Distance(p, r) <= Distance(p, q) + Distance(q, r)
BY RulesAssumption DEF Distance, Gap, Cells

----------------------------------------------------------------------------
(* What Play calls the invariants, of any game. *)

WholeStage(g) ==
  /\ \A i, j \in g.items : (i.id = j.id \/ i.position = j.position) => i = j
  /\ \A i \in g.items : i.id < g.nextItemId
  /\ g.selectedItemId \in {i.id : i \in g.items} \cup {None}
  /\ g.pet.targetItemId \in {i.id : i \in g.items} \cup {None}

KnownItems(g) ==
  \A i \in g.items : /\ i.templateId \in g.templates
                     /\ i.templateId \in g.unlockedTemplateIds

RightTime(g) ==
  /\ g.dayCount = 1 + (g.tickCount \div TicksPerDay)
  /\ g.timeOfDay = TimeOfDayForTick(g.tickCount)

RightSky(g) == g.activityPhase = SkyPhaseForTimeOfDay[g.timeOfDay]

RightMood(g) == g.pet.mood = DeriveMood(g.pet.needs)

RightUnlocks(g) ==
  \A t \in g.templates :
    t \in g.unlockedTemplateIds
      <=> \/ t \in FirstTemplates \cup CustomTemplates
          \/ UnlockLevel[t] > 0 /\ UnlockLevel[t] <= g.pet.affection

PaidCare(g) ==
  TotalCareMoments(g.life) + Cardinality(g.items) < g.nextItemId

\* No template of the datapack is missing, nothing but a template is unlocked, and
\* the form Chatty is born in stays discovered.
NothingForgotten(g) ==
  /\ StarterTemplates \subseteq g.templates
  /\ g.unlockedTemplateIds \subseteq g.templates
  /\ BaseForm \in g.life.discoveredFormIds

\* What holds before the mood and the sky are refreshed.
SteadyGame(g) ==
  /\ g \in Game
  /\ IsFiniteSet(g.items)
  /\ WholeStage(g)
  /\ KnownItems(g)
  /\ RightTime(g)
  /\ RightUnlocks(g)
  /\ NothingForgotten(g)
  /\ PaidCare(g)
  /\ SoundLife(g.life, g.dayCount)

SoundGame(g) == SteadyGame(g) /\ RightSky(g) /\ RightMood(g)

\* A handler leaves a steady game, and spoils neither its sky nor its mood.
Keeps(g, h) ==
  /\ SteadyGame(h)
  /\ RightSky(g) => RightSky(h)
  /\ RightMood(g) => RightMood(h)

\* Refreshing the mood changes nothing else.
LEMMA RefreshIsSteady ==
  ASSUME NEW g, SteadyGame(g)
  PROVE  /\ SteadyGame(RefreshPetState(g))
         /\ RightMood(RefreshPetState(g))
         /\ RightSky(g) => RightSky(RefreshPetState(g))
<1> DEFINE h == RefreshPetState(g)
<1>1. g \in Game
  BY DEF SteadyGame
<1>2. h \in Game
  BY <1>1, MoodIsAMood DEF RefreshPetState, Game, Pet
<1>3. /\ h.tickCount = g.tickCount /\ h.dayCount = g.dayCount
      /\ h.timeOfDay = g.timeOfDay /\ h.activityPhase = g.activityPhase
      /\ h.items = g.items /\ h.nextItemId = g.nextItemId
      /\ h.selectedItemId = g.selectedItemId /\ h.templates = g.templates
      /\ h.unlockedTemplateIds = g.unlockedTemplateIds /\ h.life = g.life
      /\ h.pet.targetItemId = g.pet.targetItemId /\ h.pet.affection = g.pet.affection
      /\ h.pet.needs = g.pet.needs /\ h.pet.mood = DeriveMood(g.pet.needs)
  BY <1>1 DEF RefreshPetState, Game, Pet
<1> HIDE DEF h
<1>4. SteadyGame(h)
  BY <1>2, <1>3 DEF SteadyGame, WholeStage, KnownItems, RightTime, RightUnlocks, NothingForgotten, PaidCare
<1>5. RightMood(h) /\ (RightSky(g) => RightSky(h))
  BY <1>3 DEF RightMood, RightSky
<1>6. QED
  BY <1>4, <1>5 DEF h

\* Nor does showing the sky of the hour.
LEMMA SyncIsSteady ==
  ASSUME NEW g, SteadyGame(g)
  PROVE  /\ SteadyGame(SyncActivityPhase(g))
         /\ RightSky(SyncActivityPhase(g))
         /\ RightMood(g) => RightMood(SyncActivityPhase(g))
<1> DEFINE h == SyncActivityPhase(g)
<1>1. g \in Game
  BY DEF SteadyGame
<1>2. SkyPhaseForTimeOfDay[g.timeOfDay] \in {"morning", "day", "evening", "night"}
  BY <1>1 DEF Game, SkyPhaseForTimeOfDay, Times
<1>3. h \in Game
  BY <1>1, <1>2 DEF SyncActivityPhase, Game
<1>4. /\ h.tickCount = g.tickCount /\ h.dayCount = g.dayCount
      /\ h.timeOfDay = g.timeOfDay
      /\ h.activityPhase = SkyPhaseForTimeOfDay[g.timeOfDay]
      /\ h.items = g.items /\ h.nextItemId = g.nextItemId
      /\ h.selectedItemId = g.selectedItemId /\ h.templates = g.templates
      /\ h.unlockedTemplateIds = g.unlockedTemplateIds /\ h.life = g.life
      /\ h.pet = g.pet
  BY <1>1 DEF SyncActivityPhase, Game
<1> HIDE DEF h
<1>5. SteadyGame(h)
  BY <1>3, <1>4 DEF SteadyGame, WholeStage, KnownItems, RightTime, RightUnlocks, NothingForgotten, PaidCare
<1>6. RightSky(h) /\ (RightMood(g) => RightMood(h))
  BY <1>4 DEF RightMood, RightSky
<1>7. QED
  BY <1>5, <1>6 DEF h

\* A rejected action leaves the game sound.
LEMMA RejectIsSound ==
  ASSUME NEW g, SteadyGame(g)
  PROVE  Keeps(g, Reject(g))
BY RefreshIsSteady DEF Keeps, Reject

\* A new game is sound.
LEMMA NewGameIsSound == SoundGame(NewGame)
<1> DEFINE g == [ tickCount           |-> 0,
                  dayCount            |-> 1,
                  timeOfDay           |-> "morning",
                  activityPhase       |-> "morning",
                  items               |-> {},
                  nextItemId          |-> 1,
                  selectedItemId      |-> None,
                  templates           |-> StarterTemplates,
                  unlockedTemplateIds |-> FirstTemplates,
                  pet                 |-> [ position     |-> Home,
                                            mood         |-> "curious",
                                            targetItemId |-> None,
                                            needs        |-> [n \in NeedNames |-> 4],
                                            affection    |-> 0 ],
                  life                |-> NewLife ]
<1>1. SoundLife(NewLife, 1)
  BY NewLifeIsSound
<1>2. g \in Game
  <2>1. [n \in NeedNames |-> 4] \in Needs /\ 0 \in 0 .. MaxAffection
    BY RulesAssumption DEF Needs
  <2>2. g.pet \in Pet
    BY <2>1, TemplatesAssumption DEF Pet, Moods
  <2>3. NewLife \in Life
    BY <1>1 DEF SoundLife
  <2>4. QED
    BY <2>2, <2>3, TemplatesAssumption DEF Game, Times, AllTemplates
<1>3. IsFiniteSet(g.items) /\ Cardinality(g.items) = 0
  BY FS_EmptySet
<1>4. WholeStage(g) /\ KnownItems(g)
  BY DEF WholeStage, KnownItems
<1>5. RightTime(g)
  <2>1. /\ 0 \div TicksPerDay = 0 /\ 0 % TicksPerDay = 0
        /\ TicksPerDay \div 4 \in Nat \ {0}
    BY RulesAssumption
  <2>2. 0 \div (TicksPerDay \div 4) = 0
    BY <2>1
  <2>3. QED
    BY <2>1, <2>2 DEF RightTime, TimeOfDayForTick, TimesOfDay
<1>6. RightUnlocks(g) /\ NothingForgotten(g)
  BY TemplatesAssumption DEF RightUnlocks, NothingForgotten, NewLife, AllTemplates
<1>7. PaidCare(g)
  BY <1>3 DEF PaidCare, TotalCareMoments, NewLife, CareKinds
<1>8. SteadyGame(g) /\ RightSky(g)
  BY <1>1, <1>2, <1>3, <1>4, <1>5, <1>6, <1>7
     DEF SteadyGame, RightSky, SkyPhaseForTimeOfDay
<1> HIDE DEF g
<1>9. SoundGame(RefreshPetState(g))
  BY <1>8, RefreshIsSteady DEF SoundGame
<1>10. QED
  BY <1>9 DEF g, NewGame

----------------------------------------------------------------------------
(* The stage. *)

\* A new item has a cell and an id of its own, and is paid for by the id.
LEMMA SpawnIsSound ==
  ASSUME NEW g, SteadyGame(g), NEW template \in AllTemplates,
         NEW h \in Spawn(g, template)
  PROVE  Keeps(g, h)
<1>0. g \in Game
  BY DEF SteadyGame
<1>1. CASE ~CanSpawn(g, template) \/ OpenCells(g) = {}
  BY <1>1, RejectIsSound DEF Spawn
<1>2. CASE ~(~CanSpawn(g, template) \/ OpenCells(g) = {})
  <2>1. PICK cell \in OpenCells(g) :
          h = RefreshPetState(
                [g EXCEPT
                   !.items      = @ \cup {[ id         |-> g.nextItemId,
                                            templateId |-> template,
                                            position   |-> cell ]},
                   !.nextItemId = @ + 1])
    BY <1>2 DEF Spawn
  <2> DEFINE item == [id |-> g.nextItemId, templateId |-> template, position |-> cell]
             s == [g EXCEPT !.items = @ \cup {item}, !.nextItemId = @ + 1]
  <2>2. /\ item \in Item
        /\ item.id = g.nextItemId /\ item.templateId = template
        /\ item.position = cell
    BY <1>0 DEF Item, Game, OpenCells
  <2>3. /\ template \in g.templates /\ template \in g.unlockedTemplateIds
        /\ \A i \in g.items : i.position # cell /\ i.id < g.nextItemId
    BY <1>2 DEF CanSpawn, OpenCells, SteadyGame, WholeStage
  <2> HIDE DEF item
  <2>4. s \in Game
    <3>1. g.items \cup {item} \in SUBSET Item /\ g.nextItemId + 1 \in Nat \ {0}
      BY <1>0, <2>2 DEF Game
    <3>2. QED
      BY <1>0, <3>1 DEF Game
  <2>5. /\ s.items = g.items \cup {item} /\ s.nextItemId = g.nextItemId + 1
        /\ s.tickCount = g.tickCount /\ s.dayCount = g.dayCount
        /\ s.timeOfDay = g.timeOfDay /\ s.activityPhase = g.activityPhase
        /\ s.selectedItemId = g.selectedItemId /\ s.templates = g.templates
        /\ s.unlockedTemplateIds = g.unlockedTemplateIds /\ s.life = g.life
        /\ s.pet = g.pet
    BY <1>0 DEF Game
  <2>6. g.nextItemId \in Nat /\ \A i \in g.items : i.id \in Nat
    BY <1>0 DEF Game, Item
  <2> HIDE DEF s
  <2>7. WholeStage(s)
    <3>1. \A i, j \in s.items : (i.id = j.id \/ i.position = j.position) => i = j
      BY <2>2, <2>3, <2>5, <2>6 DEF SteadyGame, WholeStage
    <3>2. \A i \in s.items : i.id < s.nextItemId
      BY <2>2, <2>3, <2>5, <2>6
    <3>3. {i.id : i \in g.items} \subseteq {i.id : i \in s.items}
      BY <2>5
    <3>4. QED
      BY <2>5, <3>1, <3>2, <3>3 DEF SteadyGame, WholeStage
  <2>8. KnownItems(s)
    BY <2>2, <2>3, <2>5 DEF SteadyGame, KnownItems
  <2>9. IsFiniteSet(s.items) /\ PaidCare(s)
    <3>1. /\ IsFiniteSet(g.items) /\ item \notin g.items
          /\ TotalCareMoments(g.life) + Cardinality(g.items) < g.nextItemId
      BY <2>2, <2>3 DEF SteadyGame, PaidCare
    <3>2. /\ Cardinality(s.items) = Cardinality(g.items) + 1
          /\ IsFiniteSet(s.items) /\ Cardinality(g.items) \in Nat
      BY <2>5, <3>1, FS_AddElement, FS_CardinalityType
    <3>3. TotalCareMoments(g.life) \in Int
      BY <1>0 DEF Game, Life, TotalCareMoments, CareKinds
    <3>4. QED
      BY <2>5, <2>6, <3>1, <3>2, <3>3 DEF PaidCare
  <2>10. /\ RightTime(s) /\ RightUnlocks(s) /\ (RightSky(g) => RightSky(s))
         /\ SoundLife(s.life, s.dayCount) /\ NothingForgotten(s)
    BY <2>5 DEF SteadyGame, RightTime, RightUnlocks, NothingForgotten, RightSky
  <2>11. SteadyGame(s) /\ (RightSky(g) => RightSky(s))
    BY <2>4, <2>7, <2>8, <2>9, <2>10 DEF SteadyGame
  <2>12. Keeps(g, RefreshPetState(s))
    BY <2>11, RefreshIsSteady DEF Keeps
  <2>13. QED
    BY <2>1, <2>12 DEF s, item
<1>3. QED
  BY <1>1, <1>2

\* What the player makes is unlocked at once.
LEMMA CreateIsSound ==
  ASSUME NEW g, SteadyGame(g), NEW template \in CustomTemplates
  PROVE  Keeps(g, CreateCustomTemplate(g, template))
<1>0. g \in Game
  BY DEF SteadyGame
<1>1. CASE template \in g.templates
  BY <1>1, RejectIsSound DEF CreateCustomTemplate
<1>2. CASE template \notin g.templates
  <2> DEFINE s == [g EXCEPT !.templates           = @ \cup {template},
                            !.unlockedTemplateIds = @ \cup {template}]
  <2>1. /\ s \in Game
        /\ s.templates = g.templates \cup {template}
        /\ s.unlockedTemplateIds = g.unlockedTemplateIds \cup {template}
        /\ s.tickCount = g.tickCount /\ s.dayCount = g.dayCount
        /\ s.timeOfDay = g.timeOfDay /\ s.activityPhase = g.activityPhase
        /\ s.items = g.items /\ s.nextItemId = g.nextItemId
        /\ s.selectedItemId = g.selectedItemId /\ s.life = g.life /\ s.pet = g.pet
    BY <1>0 DEF Game, AllTemplates
  <2> HIDE DEF s
  <2>2. RightUnlocks(s)
    BY <2>1 DEF SteadyGame, RightUnlocks
  <2>3. SteadyGame(s)
    BY <2>1, <2>2
       DEF SteadyGame, WholeStage, KnownItems, RightTime, NothingForgotten, PaidCare
  <2>4. Keeps(g, SyncActivityPhase(RefreshPetState(s)))
    BY <2>3, RefreshIsSteady, SyncIsSteady DEF Keeps
  <2>5. QED
    BY <1>2, <2>4 DEF s, CreateCustomTemplate
<1>3. QED
  BY <1>1, <1>2

\* An item that is there can be selected.
LEMMA SelectIsSound ==
  ASSUME NEW g, SteadyGame(g), NEW id \in Nat
  PROVE  Keeps(g, SelectItem(g, id))
<1>0. g \in Game
  BY DEF SteadyGame
<1>1. CASE ItemsWithId(g, id) = {}
  BY <1>1, RejectIsSound DEF SelectItem
<1>2. CASE ItemsWithId(g, id) # {}
  <2> DEFINE s == [g EXCEPT !.selectedItemId = id, !.pet.targetItemId = id]
  <2>1. /\ s \in Game
        /\ s.selectedItemId = id /\ s.pet.targetItemId = id
        /\ s.pet.needs = g.pet.needs /\ s.pet.affection = g.pet.affection
        /\ s.tickCount = g.tickCount /\ s.dayCount = g.dayCount
        /\ s.timeOfDay = g.timeOfDay /\ s.activityPhase = g.activityPhase
        /\ s.items = g.items /\ s.nextItemId = g.nextItemId
        /\ s.templates = g.templates /\ s.life = g.life
        /\ s.unlockedTemplateIds = g.unlockedTemplateIds
    BY <1>0 DEF Game, Pet
  <2>2. id \in {i.id : i \in g.items}
    BY <1>2 DEF ItemsWithId
  <2> HIDE DEF s
  <2>3. SteadyGame(s) /\ (RightSky(g) => RightSky(s))
    BY <2>1, <2>2 DEF SteadyGame, WholeStage, KnownItems, RightTime,
                      RightUnlocks, NothingForgotten, PaidCare, RightSky
  <2>4. Keeps(g, RefreshPetState(s))
    BY <2>3, RefreshIsSteady DEF Keeps
  <2>5. QED
    BY <1>2, <2>4 DEF s, SelectItem
<1>3. QED
  BY <1>1, <1>2

\* Taking items away with every mention of them leaves a whole stage.
LEMMA TakenAwayIsSteady ==
  ASSUME NEW g, SteadyGame(g), NEW h \in Game, NEW gone \in SUBSET g.items,
         h.items = g.items \ gone,
         h.selectedItemId \in {None, g.selectedItemId},
         h.pet.targetItemId \in {None, g.pet.targetItemId},
         \A i \in gone : h.selectedItemId # i.id /\ h.pet.targetItemId # i.id,
         h.nextItemId = g.nextItemId
  PROVE  /\ WholeStage(h)
         /\ IsFiniteSet(h.items)
         /\ Cardinality(h.items) \in Nat
         /\ Cardinality(h.items) <= Cardinality(g.items)
<1>1. WholeStage(h)
  BY DEF SteadyGame, WholeStage
<1>2. IsFiniteSet(g.items) /\ h.items \subseteq g.items
  BY DEF SteadyGame
<1>3. QED
  BY <1>1, <1>2, FS_Subset, FS_CardinalityType

\* Removing an item.
LEMMA RemoveIsSound ==
  ASSUME NEW g, SteadyGame(g), NEW id \in Nat
  PROVE  Keeps(g, RemoveStageItem(g, id))
<1>0. g \in Game
  BY DEF SteadyGame
<1>1. CASE ItemsWithId(g, id) = {}
  BY <1>1, RejectIsSound DEF RemoveStageItem
<1>2. CASE ItemsWithId(g, id) # {}
  <2> DEFINE s == [g EXCEPT !.items            = @ \ ItemsWithId(g, id),
                            !.selectedItemId   = Unless(@, id),
                            !.pet.targetItemId = Unless(@, id)]
  <2>1. /\ s \in Game
        /\ s.items = g.items \ ItemsWithId(g, id)
        /\ s.selectedItemId = Unless(g.selectedItemId, id)
        /\ s.pet.targetItemId = Unless(g.pet.targetItemId, id)
        /\ s.pet.needs = g.pet.needs /\ s.pet.affection = g.pet.affection
        /\ s.tickCount = g.tickCount /\ s.dayCount = g.dayCount
        /\ s.timeOfDay = g.timeOfDay /\ s.activityPhase = g.activityPhase
        /\ s.nextItemId = g.nextItemId
        /\ s.templates = g.templates /\ s.life = g.life
        /\ s.unlockedTemplateIds = g.unlockedTemplateIds
    BY <1>0 DEF Game, Pet, Unless
  <2> HIDE DEF s
  <2>2. \A i \in ItemsWithId(g, id) : s.selectedItemId # i.id /\ s.pet.targetItemId # i.id
    BY <2>1, TemplatesAssumption DEF ItemsWithId, Unless
  <2>3. /\ s.selectedItemId \in {None, g.selectedItemId}
        /\ s.pet.targetItemId \in {None, g.pet.targetItemId}
        /\ ItemsWithId(g, id) \in SUBSET g.items
    BY <2>1 DEF Unless, ItemsWithId
  <2>4. /\ WholeStage(s) /\ IsFiniteSet(s.items) /\ Cardinality(s.items) \in Nat
        /\ Cardinality(s.items) <= Cardinality(g.items)
    BY <2>1, <2>2, <2>3, TakenAwayIsSteady DEF Keeps
  <2>5. PaidCare(s)
    <3>1. /\ TotalCareMoments(g.life) \in Int /\ g.nextItemId \in Nat
          /\ Cardinality(g.items) \in Nat
      BY <1>0, FS_CardinalityType
         DEF Game, Life, TotalCareMoments, CareKinds, SteadyGame
    <3>2. QED
      BY <2>1, <2>4, <3>1 DEF PaidCare, SteadyGame
  <2>6. SteadyGame(s) /\ (RightSky(g) => RightSky(s))
    BY <2>1, <2>4, <2>5 DEF SteadyGame, KnownItems, RightTime, RightUnlocks,
                            NothingForgotten, RightSky
  <2>7. Keeps(g, RefreshPetState(s))
    BY <2>6, RefreshIsSteady DEF Keeps
  <2>8. QED
    BY <1>2, <2>7 DEF s, RemoveStageItem
<1>3. QED
  BY <1>1, <1>2

\* Clearing the stage.
LEMMA ClearIsSound ==
  ASSUME NEW g, SteadyGame(g)
  PROVE  Keeps(g, ClearStage(g))
<1>0. g \in Game
  BY DEF SteadyGame
<1>1. CASE g.items = {}
  BY <1>1, RejectIsSound DEF ClearStage
<1>2. CASE g.items # {}
  <2> DEFINE s == [g EXCEPT !.items            = {},
                            !.selectedItemId   = None,
                            !.pet.targetItemId = None]
  <2>1. /\ s \in Game
        /\ s.items = {} /\ s.selectedItemId = None /\ s.pet.targetItemId = None
        /\ s.pet.needs = g.pet.needs /\ s.pet.affection = g.pet.affection
        /\ s.tickCount = g.tickCount /\ s.dayCount = g.dayCount
        /\ s.timeOfDay = g.timeOfDay /\ s.activityPhase = g.activityPhase
        /\ s.nextItemId = g.nextItemId
        /\ s.templates = g.templates /\ s.life = g.life
        /\ s.unlockedTemplateIds = g.unlockedTemplateIds
    BY <1>0 DEF Game, Pet
  <2> HIDE DEF s
  <2>2. PaidCare(s) /\ IsFiniteSet(s.items)
    <3>1. /\ TotalCareMoments(g.life) \in Int /\ g.nextItemId \in Nat
          /\ Cardinality(g.items) \in Nat /\ Cardinality({}) = 0 /\ IsFiniteSet({})
      BY <1>0, FS_CardinalityType, FS_EmptySet
         DEF Game, Life, TotalCareMoments, CareKinds, SteadyGame
    <3>2. QED
      BY <2>1, <3>1 DEF PaidCare, SteadyGame
  <2>3. SteadyGame(s) /\ (RightSky(g) => RightSky(s))
    BY <2>1, <2>2 DEF SteadyGame, WholeStage, KnownItems, RightTime,
                      RightUnlocks, NothingForgotten, RightSky
  <2>4. Keeps(g, RefreshPetState(s))
    BY <2>3, RefreshIsSteady DEF Keeps
  <2>5. QED
    BY <1>2, <2>4 DEF s, ClearStage
<1>3. QED
  BY <1>1, <1>2

----------------------------------------------------------------------------
(* A tick. *)

\* Wandering, the pet stays on the grid and goes to a neighbouring cell at most.
LEMMA WanderStaysNear ==
  ASSUME NEW g \in Game
  PROVE  /\ IdleWanderPosition(g) \in Cells
         /\ Distance(g.pet.position, IdleWanderPosition(g)) <= 1
<1> DEFINE offset(n)    == Offsets[1 + ((g.tickCount + n) % 4)]
           candidate(n) == <<g.pet.position[1] + offset(n)[1],
                             g.pet.position[2] + offset(n)[2]>>
           free         == {n \in 0..3 : /\ candidate(n) \in Cells
                                         /\ \A i \in g.items : i.position # candidate(n)}
           first        == CHOOSE n \in free : \A m \in free : n <= m
<1>1. g.pet.position \in Cells /\ g.tickCount \in Nat
  BY DEF Game, Pet
<1>2. ASSUME NEW n \in 0..3
      PROVE  Distance(g.pet.position, candidate(n)) <= 1
  <2>1. 1 + ((g.tickCount + n) % 4) \in 1..4
    BY <1>1
  <2>2. offset(n) \in {<<0, -1>>, <<1, 0>>, <<0, 1>>, <<-1, 0>>}
    BY <2>1 DEF Offsets
  <2> HIDE DEF offset
  <2>3. PICK px \in 0 .. GridWidth - 1, py \in 0 .. GridHeight - 1 :
          g.pet.position = <<px, py>>
    BY <1>1 DEF Cells
  <2>4. QED
    BY <2>2, <2>3, RulesAssumption DEF Distance, Gap
<1> HIDE DEF candidate, offset
<1>3. CASE free = {}
  <2>1. IdleWanderPosition(g) = g.pet.position
    BY <1>3 DEF IdleWanderPosition, free, candidate, offset
  <2>2. QED
    BY <1>1, <2>1, StayingIsNoWalk
<1>4. CASE free # {}
  <2>1. \E n \in free : \A m \in free : n <= m
    BY <1>4
  <2>2. first \in free
    BY <2>1
  <2>3. IdleWanderPosition(g) = candidate(first)
    BY <1>4 DEF IdleWanderPosition, free, candidate, offset
  <2>4. QED
    BY <1>2, <2>2, <2>3
<1>5. QED
  BY <1>3, <1>4

\* What a tick heads for is on the stage, and is the selected item if there is one.
LEMMA TargetsAreOnStage ==
  ASSUME NEW g
  PROVE  /\ TickTargets(g) \subseteq g.items
         /\ ItemsWithId(g, g.selectedItemId) # {}
              => TickTargets(g) = ItemsWithId(g, g.selectedItemId)
BY DEF TickTargets, ItemsWithId, Nearest

\* The first half of a tick moves the pet by one cell at most, and towards what it
\* then has in mind.
LEMMA MoveIsSteady ==
  ASSUME NEW g, SteadyGame(g), NEW h \in Moved(g)
  PROVE  /\ SteadyGame(h)
         /\ Distance(g.pet.position, h.pet.position) <= 1
         /\ \A i \in ItemsWithId(g, g.selectedItemId) :
              \/ InReach(g.pet.position, i.position) /\ h.pet.position = g.pet.position
              \/ Distance(h.pet.position, i.position)
                   < Distance(g.pet.position, i.position)
         /\ h.tickCount = g.tickCount /\ h.dayCount = g.dayCount
         /\ h.items = g.items /\ h.selectedItemId = g.selectedItemId
         /\ h.nextItemId = g.nextItemId /\ h.life = g.life
<1>0. g \in Game
  BY DEF SteadyGame
<1>1. ASSUME NEW position \in Cells, NEW target \in {i.id : i \in g.items} \cup {None},
             h = [g EXCEPT !.pet.targetItemId = target, !.pet.position = position]
      PROVE  /\ SteadyGame(h)
             /\ h.pet.position = position
             /\ h.tickCount = g.tickCount /\ h.dayCount = g.dayCount
             /\ h.items = g.items /\ h.selectedItemId = g.selectedItemId
             /\ h.nextItemId = g.nextItemId /\ h.life = g.life
  <2>1. target \in Nat \cup {None}
    BY <1>0, <1>1 DEF Game, Item
  <2>2. /\ h \in Game
        /\ h.pet.position = position /\ h.pet.targetItemId = target
        /\ h.pet.affection = g.pet.affection
        /\ h.tickCount = g.tickCount /\ h.dayCount = g.dayCount
        /\ h.timeOfDay = g.timeOfDay
        /\ h.items = g.items /\ h.nextItemId = g.nextItemId
        /\ h.selectedItemId = g.selectedItemId /\ h.templates = g.templates
        /\ h.unlockedTemplateIds = g.unlockedTemplateIds /\ h.life = g.life
    BY <1>0, <1>1, <2>1 DEF Game, Pet
  <2>3. QED
    BY <1>1, <2>2 DEF SteadyGame, WholeStage, KnownItems, RightTime, RightUnlocks, NothingForgotten, PaidCare
<1>2. CASE TickTargets(g) = {}
  <2>1. h = [g EXCEPT !.pet.targetItemId = None,
                      !.pet.position = IdleWanderPosition(g)]
    BY <1>2 DEF Moved, Wander
  <2>2. ItemsWithId(g, g.selectedItemId) = {}
    BY <1>2, TargetsAreOnStage
  <2>3. QED
    BY <1>0, <1>1, <2>1, <2>2, WanderStaysNear
<1>3. CASE TickTargets(g) # {}
  <2>1. PICK item \in TickTargets(g) : h = Pursue(g, item)
    BY <1>3 DEF Moved
  <2> DEFINE position == IF InReach(g.pet.position, item.position)
                           THEN g.pet.position
                           ELSE StepToward(g.pet.position, item.position)
  <2>2. item \in g.items /\ item.position \in Cells /\ g.pet.position \in Cells
    BY <1>0, TargetsAreOnStage DEF Game, Item, Pet
  <2>3. /\ position \in Cells
        /\ Distance(g.pet.position, position) <= 1
        /\ \/ InReach(g.pet.position, item.position) /\ position = g.pet.position
           \/ Distance(position, item.position) < Distance(g.pet.position, item.position)
    BY <2>2, StepIsNearer, StayingIsNoWalk
  <2>4. h = [g EXCEPT !.pet.targetItemId = item.id, !.pet.position = position]
    BY <1>0, <2>1 DEF Pursue, Game, Pet
  <2>5. \A i \in ItemsWithId(g, g.selectedItemId) : i = item
    BY <2>2, TargetsAreOnStage DEF SteadyGame, WholeStage, ItemsWithId
  <2> HIDE DEF position
  <2>6. item.id \in {i.id : i \in g.items} \cup {None}
    BY <2>2
  <2>7. /\ SteadyGame(h)
        /\ h.pet.position = position
        /\ h.tickCount = g.tickCount /\ h.dayCount = g.dayCount
        /\ h.items = g.items /\ h.selectedItemId = g.selectedItemId
        /\ h.nextItemId = g.nextItemId /\ h.life = g.life
    BY <1>1, <2>3, <2>4, <2>6
  <2>8. QED
    BY <2>3, <2>5, <2>7
<1>4. QED
  BY <1>2, <1>3

\* The second half, but for what a new day brings.
LEMMA ClockAdvances ==
  ASSUME NEW g, SteadyGame(g)
  PROVE  LET h == AdvanceClock(g) IN
         /\ SteadyGame(h)
         /\ h.tickCount = g.tickCount + 1
         /\ h.dayCount \in {g.dayCount, g.dayCount + 1}
         /\ h.items = g.items /\ h.selectedItemId = g.selectedItemId
         /\ h.pet.position = g.pet.position
         /\ h.nextItemId = g.nextItemId /\ h.life = g.life
<1> DEFINE h == AdvanceClock(g)
           tick == g.tickCount + 1
           turn == IF tick % TicksPerDay = 0 THEN 1 ELSE 0
<1>0. g \in Game
  BY DEF SteadyGame
<1>1. /\ tick \in Nat /\ g.tickCount \in Nat /\ g.dayCount \in Nat \ {0}
      /\ TicksPerDay \in Nat \ {0} /\ g.pet.needs \in Needs
  BY <1>0, RulesAssumption DEF Game, Pet
<1>2. Decay(g.pet.needs, tick) \in Needs /\ TimeOfDayForTick(tick) \in Times
  BY <1>1, DecayIsInRange, HourIsATime
<1>3. g.dayCount + turn \in Nat \ {0}
  BY <1>1
<1>4. h = [g EXCEPT !.tickCount = tick, !.dayCount  = @ + turn,
                    !.timeOfDay = TimeOfDayForTick(tick),
                    !.pet.needs = Decay(@, tick)]
  BY DEF AdvanceClock
<1> HIDE DEF tick, turn, h
<1>5. /\ h \in Game
      /\ h.pet.position = g.pet.position /\ h.pet.targetItemId = g.pet.targetItemId
      /\ h.pet.affection = g.pet.affection
      /\ h.tickCount = tick /\ h.dayCount = g.dayCount + turn
      /\ h.timeOfDay = TimeOfDayForTick(tick)
      /\ h.items = g.items /\ h.nextItemId = g.nextItemId
      /\ h.selectedItemId = g.selectedItemId /\ h.templates = g.templates
      /\ h.unlockedTemplateIds = g.unlockedTemplateIds /\ h.life = g.life
  BY <1>0, <1>1, <1>2, <1>3, <1>4 DEF Game, Pet
<1>6. RightTime(h)
  <2>1. tick \div TicksPerDay = (g.tickCount \div TicksPerDay) + turn
    BY <1>1, NextDay DEF tick, turn
  <2>2. g.dayCount = 1 + (g.tickCount \div TicksPerDay)
    BY DEF SteadyGame, RightTime
  <2>3. g.tickCount \div TicksPerDay \in Nat /\ turn \in Nat
    BY <1>1, Dividing DEF turn
  <2>4. QED
    BY <1>5, <2>1, <2>2, <2>3 DEF RightTime
<1>7. SoundLife(h.life, h.dayCount)
  <2>1. SoundLife(g.life, g.dayCount) /\ SoundLife(g.life, g.dayCount + 1)
    BY <1>1, LaterDayIsSound DEF SteadyGame
  <2>2. g.dayCount + turn \in {g.dayCount, g.dayCount + 1}
    BY <1>1 DEF turn
  <2>3. QED
    BY <1>5, <2>1, <2>2
<1>8. SteadyGame(h)
  BY <1>5, <1>6, <1>7 DEF SteadyGame, WholeStage, KnownItems, RightUnlocks, NothingForgotten, PaidCare
<1>9. g.dayCount + turn \in {g.dayCount, g.dayCount + 1}
  BY <1>1 DEF turn
<1>10. QED
  BY <1>5, <1>8, <1>9 DEF h, tick

\* What only care changes, and what nothing takes away.
Remembers(next, l) ==
  /\ next.moments = l.moments
  /\ l.discoveredFormIds \subseteq next.discoveredFormIds

\* A life that a game takes over, with its moments, leaves the game sound.
LEMMA NewLifeIsTakenOver ==
  ASSUME NEW g, SteadyGame(g), NEW l, SoundLife(l, g.dayCount),
         Remembers(l, g.life)
  PROVE  LET h == [g EXCEPT !.life = l] IN
         /\ SteadyGame(h)
         /\ RightSky(g) => RightSky(h)
         /\ RightMood(g) => RightMood(h)
         /\ h.life = l
         /\ h.tickCount = g.tickCount /\ h.dayCount = g.dayCount
         /\ h.items = g.items /\ h.selectedItemId = g.selectedItemId
         /\ h.pet = g.pet /\ h.nextItemId = g.nextItemId
<1> DEFINE h == [g EXCEPT !.life = l]
<1>0. g \in Game /\ l \in Life
  BY DEF SteadyGame, SoundLife
<1>1. /\ h \in Game
      /\ h.pet = g.pet /\ h.activityPhase = g.activityPhase
      /\ h.tickCount = g.tickCount /\ h.dayCount = g.dayCount
      /\ h.timeOfDay = g.timeOfDay
      /\ h.items = g.items /\ h.nextItemId = g.nextItemId
      /\ h.selectedItemId = g.selectedItemId /\ h.templates = g.templates
      /\ h.unlockedTemplateIds = g.unlockedTemplateIds /\ h.life = l
  BY <1>0 DEF Game
<1> HIDE DEF h
<1>2. PaidCare(h)
  BY <1>1 DEF SteadyGame, PaidCare, TotalCareMoments, Remembers
<1>3. SteadyGame(h)
  BY <1>1, <1>2 DEF SteadyGame, WholeStage, KnownItems, RightTime, RightUnlocks,
                    NothingForgotten, Remembers
<1>4. (RightSky(g) => RightSky(h)) /\ (RightMood(g) => RightMood(h))
  BY <1>1 DEF RightSky, RightMood
<1> USE DEF h
<1>5. QED
  BY <1>1, <1>3, <1>4

\* A new day gives no care.
LEMMA DayTurnRemembers ==
  ASSUME NEW l \in Life, NEW day \in Nat, NEW next \in DayTurns(l, day)
  PROVE  Remembers(next, l)
BY DEF Remembers, DayTurns, ReviewEligibility, QueueOrdinaryTransformation, Life

\* A tick keeps a game sound, moves the pet by one cell at most, nearer to what the
\* player selected, and gives the life at most a new day.
LEMMA TickIsSound ==
  ASSUME NEW g, SteadyGame(g), NEW h \in Tick(g)
  PROVE  /\ Keeps(g, h)
         /\ h.tickCount = g.tickCount + 1
         /\ Distance(g.pet.position, h.pet.position) <= 1
         /\ \A i \in ItemsWithId(g, g.selectedItemId) :
              \/ InReach(g.pet.position, i.position) /\ h.pet.position = g.pet.position
              \/ Distance(h.pet.position, i.position)
                   < Distance(g.pet.position, i.position)
         /\ h.items = g.items /\ h.selectedItemId = g.selectedItemId
         /\ h.nextItemId = g.nextItemId
         /\ h.life.moments = g.life.moments
         /\ \/ h.dayCount = g.dayCount /\ h.life = g.life
            \/ h.dayCount = g.dayCount + 1 /\ h.life \in DayTurns(g.life, h.dayCount)
<1>1. PICK moved \in Moved(g) :
        h \in FinishTick(g, SyncActivityPhase(RefreshPetState(AdvanceClock(moved))))
  BY DEF Tick
<1> DEFINE late    == AdvanceClock(moved)
           settled == SyncActivityPhase(RefreshPetState(late))
<1>2. SteadyGame(g) /\ g.dayCount \in Nat /\ g.life \in Life
  BY DEF SteadyGame, Game
<1>3. /\ SteadyGame(moved)
      /\ Distance(g.pet.position, moved.pet.position) <= 1
      /\ \A i \in ItemsWithId(g, g.selectedItemId) :
           \/ /\ InReach(g.pet.position, i.position)
              /\ moved.pet.position = g.pet.position
           \/ Distance(moved.pet.position, i.position)
                < Distance(g.pet.position, i.position)
      /\ moved.items = g.items /\ moved.selectedItemId = g.selectedItemId
      /\ moved.tickCount = g.tickCount /\ moved.dayCount = g.dayCount
      /\ moved.nextItemId = g.nextItemId /\ moved.life = g.life
  BY <1>2, MoveIsSteady
<1>4. /\ SteadyGame(late)
      /\ late.tickCount = moved.tickCount + 1
      /\ late.dayCount \in {moved.dayCount, moved.dayCount + 1}
      /\ late.items = moved.items /\ late.selectedItemId = moved.selectedItemId
      /\ late.pet.position = moved.pet.position
      /\ late.nextItemId = moved.nextItemId /\ late.life = moved.life
  BY <1>3, ClockAdvances
<1> HIDE DEF late
<1>5. /\ Keeps(g, settled)
      /\ settled.tickCount = late.tickCount /\ settled.dayCount = late.dayCount
      /\ settled.items = late.items /\ settled.selectedItemId = late.selectedItemId
      /\ settled.pet.position = late.pet.position
      /\ settled.nextItemId = late.nextItemId /\ settled.life = late.life
  <2>1. Keeps(g, settled)
    BY <1>4, RefreshIsSteady, SyncIsSteady DEF Keeps
  <2>2. late \in Game
    BY <1>4 DEF SteadyGame
  <2>3. QED
    BY <2>1, <2>2 DEF SyncActivityPhase, RefreshPetState, Game, Pet
<1>6. h \in FinishTick(g, settled)
  BY <1>1 DEF late
<1> HIDE DEF settled
<1>7. CASE settled.dayCount = g.dayCount
  BY <1>3, <1>4, <1>5, <1>6, <1>7 DEF FinishTick
<1>8. CASE settled.dayCount # g.dayCount
  <2>1. settled.dayCount = g.dayCount + 1 /\ settled.dayCount \in Nat
    BY <1>2, <1>3, <1>4, <1>5, <1>8
  <2>2. PICK l \in DayTurns(settled.life, settled.dayCount) :
          h = [settled EXCEPT !.life = l]
    BY <1>6, <1>8 DEF FinishTick
  <2>3. SteadyGame(settled) /\ SoundLife(settled.life, settled.dayCount)
    BY <1>5 DEF Keeps, SteadyGame
  <2>4. SoundLife(l, settled.dayCount)
    BY <2>1, <2>2, <2>3, DayTurnIsSound
  <2>5. Remembers(l, settled.life)
    BY <2>1, <2>2, <2>3, DayTurnRemembers DEF SoundLife
  <2>6. /\ Keeps(g, h)
        /\ h.life = l
        /\ h.tickCount = settled.tickCount /\ h.dayCount = settled.dayCount
        /\ h.items = settled.items /\ h.selectedItemId = settled.selectedItemId
        /\ h.pet = settled.pet /\ h.nextItemId = settled.nextItemId
    BY <1>5, <2>2, <2>3, <2>4, <2>5, NewLifeIsTakenOver DEF Keeps
  <2>7. QED
    BY <1>3, <1>4, <1>5, <2>1, <2>2, <2>5, <2>6 DEF Remembers
<1>9. QED
  BY <1>7, <1>8

----------------------------------------------------------------------------
(* Inspecting and using. *)

\* What an interaction is about lies on the stage, in reach.
LEMMA CandidatesAreInReach ==
  ASSUME NEW g, NEW requestedId, NEW i \in InteractionCandidates(g, requestedId)
  PROVE  i \in g.items /\ InReach(g.pet.position, i.position)
BY DEF InteractionCandidates, Nearest, ItemsWithId

\* Inspecting puts an item that is there in the pet's mind.
LEMMA InspectIsSound ==
  ASSUME NEW g, SteadyGame(g), NEW requestedId, NEW h \in Inspect(g, requestedId)
  PROVE  /\ Keeps(g, h)
         /\ h.pet.position = g.pet.position /\ h.tickCount = g.tickCount
         /\ h.dayCount = g.dayCount /\ h.life = g.life /\ h.nextItemId = g.nextItemId
<1>0. g \in Game
  BY DEF SteadyGame
<1>1. CASE InteractionCandidates(g, requestedId) = {}
  <2>1. h = Reject(g)
    BY <1>1 DEF Inspect
  <2>2. QED
    BY <1>0, <2>1, RejectIsSound DEF Reject, RefreshPetState, Game, Pet
<1>2. CASE InteractionCandidates(g, requestedId) # {}
  <2>1. PICK i \in InteractionCandidates(g, requestedId) :
          h = SyncActivityPhase(RefreshPetState([g EXCEPT !.pet.targetItemId = i.id]))
    BY <1>2 DEF Inspect
  <2> DEFINE s == [g EXCEPT !.pet.targetItemId = i.id]
  <2>2. i \in g.items /\ i.id \in Nat
    BY <1>0, CandidatesAreInReach DEF Game, Item
  <2>3. /\ s \in Game
        /\ s.pet.targetItemId = i.id /\ s.pet.position = g.pet.position
        /\ s.pet.needs = g.pet.needs /\ s.pet.affection = g.pet.affection
        /\ s.tickCount = g.tickCount /\ s.dayCount = g.dayCount
        /\ s.timeOfDay = g.timeOfDay /\ s.items = g.items
        /\ s.nextItemId = g.nextItemId /\ s.selectedItemId = g.selectedItemId
        /\ s.templates = g.templates /\ s.life = g.life
        /\ s.unlockedTemplateIds = g.unlockedTemplateIds
    BY <1>0, <2>2 DEF Game, Pet
  <2> HIDE DEF s
  <2>4. SteadyGame(s)
    BY <2>2, <2>3 DEF SteadyGame, WholeStage, KnownItems, RightTime,
                      RightUnlocks, NothingForgotten, PaidCare
  <2>5. Keeps(g, SyncActivityPhase(RefreshPetState(s)))
    BY <2>4, RefreshIsSteady, SyncIsSteady DEF Keeps
  <2>6. h = SyncActivityPhase(RefreshPetState(s))
    BY <2>1 DEF s
  <2>7. QED
    BY <2>3, <2>5, <2>6 DEF SyncActivityPhase, RefreshPetState, Game, Pet
<1>3. QED
  BY <1>1, <1>2

\* A moment of care is one moment.
LEMMA CareIsOneMoment ==
  ASSUME NEW l \in Life, NEW kind \in CareKinds, NEW day
  PROVE  LET next == RecordCare(l, kind, day) IN
         /\ next.moments = [l.moments EXCEPT ![kind] = @ + 1]
         /\ TotalCareMoments(next) = TotalCareMoments(l) + 1
<1> DEFINE next == RecordCare(l, kind, day)
<1>1. next.moments = [l.moments EXCEPT ![kind] = @ + 1]
  BY DEF RecordCare, ReviewEligibility, Life
<1>2. l.moments \in [CareKinds -> Nat]
  BY DEF Life
<1> HIDE DEF next
<1>3. TotalCareMoments(next) = TotalCareMoments(l) + 1
  BY <1>1, <1>2 DEF TotalCareMoments, CareKinds
<1>4. QED
  BY <1>1, <1>3 DEF next

\* Using an item does the pet good, within bounds.
LEMMA EffectsAreInRange ==
  ASSUME NEW pet \in Pet, NEW template \in AllTemplates
  PROVE  LET fed == ApplyTemplateEffects(pet, template) IN
         /\ fed \in Pet
         /\ fed.position = pet.position
         /\ fed.affection >= pet.affection
<1> DEFINE needs     == [n \in NeedNames |-> ClampNeed(pet.needs[n] + NeedDelta[template][n])]
           affection == ClampAffection(pet.affection + AffectionDelta[template])
<1>1. needs \in Needs
  <2>1. ASSUME NEW n \in NeedNames
        PROVE  ClampNeed(pet.needs[n] + NeedDelta[template][n]) \in 0 .. MaxNeed
    <3>1. NeedDelta[template][n] \in Nat /\ pet.needs[n] \in Nat /\ MaxNeed \in Nat
      BY <2>1, TemplatesAssumption, RulesAssumption DEF Pet, Needs
    <3>2. pet.needs[n] + NeedDelta[template][n] \in Int
      BY <3>1
    <3>3. QED
      BY <3>1, <3>2, ClampIsInRange DEF ClampNeed
  <2>2. QED
    BY <2>1 DEF Needs
<1>2. affection \in 0 .. MaxAffection /\ affection >= pet.affection
  <2>1. /\ pet.affection \in 0 .. MaxAffection /\ AffectionDelta[template] \in Nat
        /\ MaxAffection \in Nat
    BY TemplatesAssumption, RulesAssumption DEF Pet
  <2>2. QED
    BY <2>1 DEF ClampAffection, Clamp
<1>3. ApplyTemplateEffects(pet, template)
        = [pet EXCEPT !.needs = needs, !.affection = affection]
  BY DEF ApplyTemplateEffects
<1> HIDE DEF needs, affection
<1>4. QED
  BY <1>1, <1>2, <1>3 DEF Pet

\* What is consumed leaves the stage, the selection and the pet's mind.
LEMMA ConsumeTakesAway ==
  ASSUME NEW g, SteadyGame(g), NEW i \in g.items
  PROVE  LET h == Consume(g, i) IN
         /\ h \in Game
         /\ h.items = g.items \ {i}
         /\ WholeStage(h) /\ IsFiniteSet(h.items)
         /\ Cardinality(h.items) = Cardinality(g.items) - 1
         /\ h.pet.position = g.pet.position
         /\ h.pet.affection >= g.pet.affection
         /\ h.tickCount = g.tickCount /\ h.dayCount = g.dayCount
         /\ h.timeOfDay = g.timeOfDay /\ h.nextItemId = g.nextItemId
         /\ h.templates = g.templates /\ h.life = g.life
         /\ h.unlockedTemplateIds = g.unlockedTemplateIds
<1> DEFINE h   == Consume(g, i)
           fed == ApplyTemplateEffects(g.pet, i.templateId)
<1>0. g \in Game /\ g.pet \in Pet /\ i.templateId \in AllTemplates
  BY DEF SteadyGame, Game, Item
<1>1. fed \in Pet /\ fed.position = g.pet.position /\ fed.affection >= g.pet.affection
  BY <1>0, EffectsAreInRange
<1>2. h = [g EXCEPT !.items          = @ \ ItemsWithId(g, i.id),
                    !.selectedItemId = Unless(@, i.id),
                    !.pet            = [fed EXCEPT !.targetItemId = None]]
  BY DEF Consume
<1> HIDE DEF h, fed
<1>3. ItemsWithId(g, i.id) = {i}
  BY DEF ItemsWithId, SteadyGame, WholeStage
<1>4. /\ [fed EXCEPT !.targetItemId = None] \in Pet
      /\ Unless(g.selectedItemId, i.id) \in Nat \cup {None}
  BY <1>0, <1>1 DEF Pet, Unless, Game
<1>5. /\ h \in Game
      /\ h.items = g.items \ {i}
      /\ h.selectedItemId = Unless(g.selectedItemId, i.id)
      /\ h.pet = [fed EXCEPT !.targetItemId = None]
      /\ h.tickCount = g.tickCount /\ h.dayCount = g.dayCount
      /\ h.timeOfDay = g.timeOfDay /\ h.nextItemId = g.nextItemId
      /\ h.templates = g.templates /\ h.life = g.life
      /\ h.unlockedTemplateIds = g.unlockedTemplateIds
  BY <1>0, <1>2, <1>3, <1>4 DEF Game
<1>6. /\ h.pet.targetItemId = None /\ h.pet.position = g.pet.position
      /\ h.pet.affection >= g.pet.affection
  BY <1>1, <1>5 DEF Pet
<1>7. /\ h.selectedItemId # i.id /\ h.pet.targetItemId # i.id
      /\ h.selectedItemId \in {None, g.selectedItemId}
  BY <1>0, <1>5, <1>6, TemplatesAssumption DEF Unless, Game, Item
<1>8. WholeStage(h)
  <2>1. {i} \in SUBSET g.items /\ \A j \in {i} : /\ h.selectedItemId # j.id
                                                 /\ h.pet.targetItemId # j.id
    BY <1>7
  <2>2. QED
    BY <1>5, <1>6, <1>7, <2>1, TakenAwayIsSteady
<1>9. IsFiniteSet(h.items) /\ Cardinality(h.items) = Cardinality(g.items) - 1
  BY <1>5, FS_RemoveElement DEF SteadyGame
<1>10. QED
  BY <1>5, <1>6, <1>8, <1>9 DEF h

\* Using an item in reach, or nothing at all.
LEMMA UseIsSound ==
  ASSUME NEW g, SteadyGame(g), NEW requestedId, NEW h \in Use(g, requestedId)
  PROVE  /\ Keeps(g, h)
         /\ h.pet.position = g.pet.position /\ h.tickCount = g.tickCount
         /\ h.dayCount = g.dayCount /\ h.nextItemId = g.nextItemId
         /\ \/ h.life = g.life /\ InteractionCandidates(g, requestedId) = {}
            \/ \E i \in InteractionCandidates(g, requestedId) :
                 /\ i \in g.items
                 /\ h.items = g.items \ {i}
                 /\ InReach(g.pet.position, i.position)
                 /\ i.templateId \in AllTemplates
                 /\ h.life = RecordCare(g.life, CareKindOf[i.templateId], g.dayCount)
<1>0. g \in Game
  BY DEF SteadyGame
<1>1. CASE InteractionCandidates(g, requestedId) = {}
  <2>1. h = Reject(g)
    BY <1>1 DEF Use
  <2>2. QED
    BY <1>0, <1>1, <2>1, RejectIsSound DEF Reject, RefreshPetState, Game, Pet
<1>2. CASE InteractionCandidates(g, requestedId) # {}
  <2>1. PICK i \in InteractionCandidates(g, requestedId) :
          h = WithUnlocks(RecordCareHistory(
                RefreshPetState(SyncActivityPhase(Consume(g, i))), i.templateId))
    BY <1>2 DEF Use
  <2> DEFINE eaten == Consume(g, i)
             shown == RefreshPetState(SyncActivityPhase(eaten))
             kind  == CareKindOf[i.templateId]
             cared == RecordCareHistory(shown, i.templateId)
  <2>2. /\ i \in g.items /\ InReach(g.pet.position, i.position)
        /\ i.templateId \in AllTemplates /\ kind \in CareKinds
        /\ g.life \in Life /\ g.dayCount \in Nat \ {0}
    BY <1>0, CandidatesAreInReach, TemplatesAssumption DEF Game, Item
  <2>3. /\ eaten \in Game
        /\ eaten.items = g.items \ {i}
        /\ WholeStage(eaten) /\ IsFiniteSet(eaten.items)
        /\ Cardinality(eaten.items) = Cardinality(g.items) - 1
        /\ eaten.pet.position = g.pet.position
        /\ eaten.pet.affection >= g.pet.affection
        /\ eaten.tickCount = g.tickCount /\ eaten.dayCount = g.dayCount
        /\ eaten.timeOfDay = g.timeOfDay /\ eaten.nextItemId = g.nextItemId
        /\ eaten.templates = g.templates /\ eaten.life = g.life
        /\ eaten.unlockedTemplateIds = g.unlockedTemplateIds
    BY <2>2, ConsumeTakesAway DEF Keeps
  <2> HIDE DEF eaten
  <2>4. /\ shown \in Game
        /\ shown.activityPhase = SkyPhaseForTimeOfDay[eaten.timeOfDay]
        /\ shown.pet.mood = DeriveMood(shown.pet.needs)
        /\ shown.items = eaten.items /\ shown.selectedItemId = eaten.selectedItemId
        /\ shown.pet.position = eaten.pet.position
        /\ shown.pet.affection = eaten.pet.affection
        /\ shown.pet.targetItemId = eaten.pet.targetItemId
        /\ shown.tickCount = eaten.tickCount /\ shown.dayCount = eaten.dayCount
        /\ shown.timeOfDay = eaten.timeOfDay /\ shown.nextItemId = eaten.nextItemId
        /\ shown.templates = eaten.templates /\ shown.life = eaten.life
        /\ shown.unlockedTemplateIds = eaten.unlockedTemplateIds
    <3>1. SkyPhaseForTimeOfDay[eaten.timeOfDay] \in {"morning", "day", "evening", "night"}
      BY <2>3 DEF Game, SkyPhaseForTimeOfDay, Times
    <3>2. SyncActivityPhase(eaten) \in Game
      BY <2>3, <3>1 DEF SyncActivityPhase, Game
    <3>3. shown \in Game
      BY <3>2, MoodIsAMood DEF RefreshPetState, Game, Pet
    <3>4. QED
      BY <2>3, <3>2, <3>3 DEF RefreshPetState, SyncActivityPhase, Game, Pet
  <2> HIDE DEF shown
  <2>5. SoundLife(RecordCare(g.life, kind, g.dayCount), g.dayCount)
    BY <2>2, RecordCareIsSound DEF SteadyGame
  <2>6. /\ cared \in Game
        /\ cared.life = RecordCare(g.life, kind, g.dayCount)
        /\ cared.activityPhase = shown.activityPhase /\ cared.pet = shown.pet
        /\ cared.items = shown.items /\ cared.selectedItemId = shown.selectedItemId
        /\ cared.tickCount = shown.tickCount /\ cared.dayCount = shown.dayCount
        /\ cared.timeOfDay = shown.timeOfDay /\ cared.nextItemId = shown.nextItemId
        /\ cared.templates = shown.templates
        /\ cared.unlockedTemplateIds = shown.unlockedTemplateIds
    <3>1. cared = [shown EXCEPT !.life = RecordCare(g.life, kind, g.dayCount)]
      BY <2>3, <2>4 DEF RecordCareHistory
    <3>2. RecordCare(g.life, kind, g.dayCount) \in Life
      BY <2>5 DEF SoundLife
    <3>3. QED
      BY <2>4, <3>1, <3>2 DEF Game
  <2> HIDE DEF cared
  <2>7. h = [cared EXCEPT !.unlockedTemplateIds = @ \cup NewUnlocks(cared)]
    BY <2>1 DEF WithUnlocks, cared, shown, eaten
  <2>8. /\ h \in Game
        /\ h.unlockedTemplateIds = cared.unlockedTemplateIds \cup NewUnlocks(cared)
        /\ h.life = cared.life
        /\ h.activityPhase = cared.activityPhase /\ h.pet = cared.pet
        /\ h.items = cared.items /\ h.selectedItemId = cared.selectedItemId
        /\ h.tickCount = cared.tickCount /\ h.dayCount = cared.dayCount
        /\ h.timeOfDay = cared.timeOfDay /\ h.nextItemId = cared.nextItemId
        /\ h.templates = cared.templates
    <3>1. cared.unlockedTemplateIds \cup NewUnlocks(cared) \in SUBSET AllTemplates
      BY <2>6 DEF NewUnlocks, Game
    <3>2. QED
      BY <2>6, <2>7, <3>1 DEF Game
  <2>9. RightUnlocks(h)
    <3>1. /\ h.pet.affection = cared.pet.affection /\ h.templates = g.templates
          /\ h.pet.affection >= g.pet.affection
          /\ h.unlockedTemplateIds = g.unlockedTemplateIds \cup NewUnlocks(cared)
          /\ cared.templates = g.templates
          /\ cared.unlockedTemplateIds = g.unlockedTemplateIds
      BY <2>3, <2>4, <2>6, <2>8
    <3>2. /\ h.pet.affection \in Nat /\ g.pet.affection \in Nat
          /\ \A t \in g.templates : UnlockLevel[t] \in Nat
      BY <1>0, <2>8, TemplatesAssumption, RulesAssumption DEF Game, Pet
    <3>3. NewUnlocks(cared) = {t \in g.templates \ g.unlockedTemplateIds :
                                 UnlockLevel[t] > 0 /\ h.pet.affection >= UnlockLevel[t]}
      BY <3>1 DEF NewUnlocks
    <3>4. RightUnlocks(g)
      BY DEF SteadyGame
    <3> HIDE DEF NewUnlocks
    <3>5. QED
      BY <3>1, <3>2, <3>3, <3>4 DEF RightUnlocks
  <2>10. PaidCare(h)
    <3>1. /\ TotalCareMoments(h.life) = TotalCareMoments(g.life) + 1
          /\ Cardinality(h.items) = Cardinality(g.items) - 1
          /\ h.nextItemId = g.nextItemId
      <4>1. TotalCareMoments(RecordCare(g.life, kind, g.dayCount))
              = TotalCareMoments(g.life) + 1
        BY <2>2, CareIsOneMoment
      <4>2. h.life = RecordCare(g.life, kind, g.dayCount)
        BY <2>6, <2>8
      <4>3. QED
        BY <2>3, <2>4, <2>6, <2>8, <4>1, <4>2
    <3>2. /\ TotalCareMoments(g.life) \in Int /\ Cardinality(g.items) \in Nat
          /\ PaidCare(g)
      BY <2>2, FS_CardinalityType
         DEF Life, TotalCareMoments, CareKinds, SteadyGame
    <3>3. QED
      BY <3>1, <3>2 DEF PaidCare
  <2>11. WholeStage(h) /\ IsFiniteSet(h.items)
    BY <2>3, <2>4, <2>6, <2>8 DEF WholeStage
  <2>12. /\ KnownItems(h) /\ RightTime(h) /\ RightSky(h) /\ RightMood(h)
         /\ SoundLife(h.life, h.dayCount)
    BY <2>3, <2>4, <2>5, <2>6, <2>8
       DEF SteadyGame, KnownItems, RightTime, RightSky, RightMood
  <2>13. NothingForgotten(h)
    <3>1. NewUnlocks(cared) \subseteq g.templates /\ NothingForgotten(g)
      BY <2>3, <2>4, <2>6 DEF NewUnlocks, SteadyGame
    <3>2. h.life.discoveredFormIds = g.life.discoveredFormIds
      BY <2>2, <2>6, <2>8 DEF RecordCare, ReviewEligibility, Life
    <3>3. QED
      BY <2>3, <2>4, <2>6, <2>8, <3>1, <3>2 DEF NothingForgotten
  <2>14. Keeps(g, h)
    BY <2>8, <2>9, <2>10, <2>11, <2>12, <2>13 DEF Keeps, SteadyGame
  <2>15. /\ h.pet.position = g.pet.position /\ h.tickCount = g.tickCount
         /\ h.dayCount = g.dayCount /\ h.nextItemId = g.nextItemId
         /\ h.items = g.items \ {i}
         /\ h.life = RecordCare(g.life, CareKindOf[i.templateId], g.dayCount)
    BY <2>3, <2>4, <2>6, <2>8
  <2>16. QED
    BY <2>2, <2>14, <2>15
<1>3. QED
  BY <1>1, <1>2

----------------------------------------------------------------------------
(* Transformations and dates. *)

\* A transformation is no care.
LEMMA CompletionIsSound ==
  ASSUME NEW g, SteadyGame(g)
  PROVE  LET h == CompleteTransformation(g) IN
         /\ Keeps(g, h)
         /\ h.pet.position = g.pet.position /\ h.tickCount = g.tickCount
         /\ h.dayCount = g.dayCount /\ h.nextItemId = g.nextItemId
         /\ h.life = CompleteQueuedTransformation(g.life, g.dayCount)
         /\ h.life.moments = g.life.moments
<1>0. SteadyGame(g) /\ g \in Game /\ g.life \in Life /\ g.dayCount \in Nat
  BY DEF SteadyGame, Game
<1>1. CASE g.life.pendingTransformationFormId = None
  BY <1>0, <1>1 DEF CompleteTransformation, CompleteQueuedTransformation, Keeps
<1>2. CASE g.life.pendingTransformationFormId # None
  <2> DEFINE l == CompleteQueuedTransformation(g.life, g.dayCount)
             s == [g EXCEPT !.life = l]
             h == CompleteTransformation(g)
  <2>1. SoundLife(l, g.dayCount)
    BY <1>0, CompleteIsSound DEF SteadyGame
  <2>2. Remembers(l, g.life)
    BY <1>0 DEF Remembers, CompleteQueuedTransformation, Life
  <2>3. h = SyncActivityPhase(s)
    BY <1>2 DEF CompleteTransformation
  <2> HIDE DEF l
  <2>4. /\ SteadyGame(s) /\ (RightMood(g) => RightMood(s))
        /\ s.life = l
        /\ s.tickCount = g.tickCount /\ s.dayCount = g.dayCount
        /\ s.pet = g.pet /\ s.nextItemId = g.nextItemId
    BY <1>0, <2>1, <2>2, NewLifeIsTakenOver
  <2> HIDE DEF s, h
  <2>5. Keeps(g, h)
    BY <2>3, <2>4, SyncIsSteady DEF Keeps
  <2>6. /\ h.life = s.life /\ h.tickCount = s.tickCount /\ h.dayCount = s.dayCount
        /\ h.pet = s.pet /\ h.nextItemId = s.nextItemId
    BY <2>3, <2>4 DEF SyncActivityPhase, SteadyGame, Game
  <2>7. QED
    BY <2>2, <2>4, <2>5, <2>6 DEF l, h, Remembers
<1>3. QED
  BY <1>1, <1>2

\* Nor is a look at the date.
LEMMA ObservingIsSound ==
  ASSUME NEW g, SteadyGame(g), NEW date \in Dates
  PROVE  LET h == [g EXCEPT !.life = Observe(@, date)] IN
         /\ Keeps(g, h)
         /\ h.pet.position = g.pet.position /\ h.tickCount = g.tickCount
         /\ h.dayCount = g.dayCount /\ h.nextItemId = g.nextItemId
         /\ h.life = Observe(g.life, date)
         /\ h.life.moments = g.life.moments
<1> DEFINE l == Observe(g.life, date)
<1>0. SteadyGame(g) /\ g \in Game /\ g.life \in Life /\ g.dayCount \in Nat
  BY DEF SteadyGame, Game
<1>1. SoundLife(l, g.dayCount)
  BY <1>0, ObserveIsSound DEF SteadyGame
<1>2. Remembers(l, g.life)
  <2> DEFINE adopted == Adopt(g.life, date)
             key     == EventKeyFor(adopted, date)
             settled == LeavePastEvent(adopted, key)
  <2>1. SoundLife(adopted, g.dayCount) /\ Remembers(adopted, g.life)
    BY <1>0, AdoptIsSound DEF SteadyGame, Adopt, Life, Remembers
  <2> HIDE DEF adopted, key
  <2>2. Remembers(settled, adopted)
    BY <2>1 DEF LeavePastEvent, FinishCalendarEvent, SoundLife, Life, Remembers
  <2>3. settled \in Life
    BY <1>0, <2>1, FinishIsSound DEF LeavePastEvent, SoundLife
  <2> HIDE DEF settled
  <2>4. Remembers(NoteDate(settled, date, key), settled)
    BY <2>3 DEF NoteDate, QueueCalendarTransformation, Life, Remembers
  <2> USE DEF adopted, key, settled
  <2>5. QED
    BY <2>1, <2>2, <2>4 DEF Observe, Remembers
<1>3. [g EXCEPT !.life = Observe(@, date)] = [g EXCEPT !.life = l]
  BY <1>0 DEF Game
<1> HIDE DEF l
<1>4. QED
  BY <1>0, <1>1, <1>2, <1>3, NewLifeIsTakenOver DEF Keeps, l, Remembers

----------------------------------------------------------------------------
(* Walking all the way at once. *)

\* Every non-empty set of natural numbers has a least one.
LEMMA LeastNatural ==
  ASSUME NEW T \in SUBSET Nat, T # {}
  PROVE  \E n \in T : \A m \in T : n <= m
<1> DEFINE Less == OpToRel(<, Nat)
<1>1. \A m, n \in Nat : m < n => <<m, n>> \in Less
  BY DEF OpToRel
<1>2. IsWellFoundedOn(Less, Nat)
  BY NatLessThanWellFounded
<1> HIDE DEF Less
<1>3. PICK n \in T : \A m \in T : ~ (<<m, n>> \in Less)
  BY <1>2, WFMin
<1>4. ASSUME NEW m \in T
      PROVE  n <= m
  <2>1. m \in Nat /\ n \in Nat /\ ~ (m < n)
    BY <1>1, <1>3
  <2>2. QED
    BY <2>1
<1>5. QED
  BY <1>4

\* Induction, for a set of natural numbers.
LEMMA AllNaturals ==
  ASSUME NEW T \in SUBSET Nat, 0 \in T, \A n \in T : n + 1 \in T
  PROVE  T = Nat
<1> SUFFICES ASSUME Nat \ T # {}
             PROVE  FALSE
  OBVIOUS
<1>1. PICK n \in Nat \ T : \A m \in Nat \ T : n <= m
  BY LeastNatural
<1>2. n # 0 /\ n - 1 \in T
  BY <1>1
<1>3. QED
  BY <1>1, <1>2

\* The games after n ticks of a walk, for each n, as RollAll defines them.
IsRolled(f, g, k) ==
  f = [n \in 0 .. k |-> IF n = 0 THEN {g} ELSE UNION {Roll(h) : h \in f[n - 1]}]

LEMMA RollingIsDefined ==
  ASSUME NEW g, NEW k \in Nat
  PROVE  \E f : IsRolled(f, g, k)
<1> DEFINE T == {m \in Nat : \E f : IsRolled(f, g, m)}
<1>1. 0 \in T
  <2>1. IsRolled([n \in 0 .. 0 |-> {g}], g, 0)
    BY DEF IsRolled
  <2>2. QED
    BY <2>1
<1>2. ASSUME NEW m \in T
      PROVE  m + 1 \in T
  <2>1. PICK f : IsRolled(f, g, m)
    OBVIOUS
  <2> DEFINE last == UNION {Roll(h) : h \in f[m]}
             next == [n \in 0 .. m + 1 |-> IF n <= m THEN f[n] ELSE last]
  <2>2. \A n \in 0 .. m : f[n] = IF n = 0 THEN {g} ELSE UNION {Roll(h) : h \in f[n - 1]}
    BY <2>1 DEF IsRolled
  <2> HIDE DEF last
  <2>3. /\ \A n \in 0 .. m : next[n] = f[n]
        /\ next[m + 1] = last
    OBVIOUS
  <2>4. ASSUME NEW n \in 0 .. m + 1
        PROVE  next[n] = IF n = 0 THEN {g} ELSE UNION {Roll(h) : h \in next[n - 1]}
    <3>1. CASE n = 0
      <4>1. 0 \in 0 .. m
        OBVIOUS
      <4>2. next[0] = f[0] /\ f[0] = {g}
        BY <2>2, <2>3, <4>1
      <4>3. QED
        BY <3>1, <4>2
    <3>2. CASE n \in 1 .. m
      <4>1. n - 1 \in 0 .. m /\ n \in 0 .. m /\ n # 0
        BY <3>2
      <4>2. next[n] = f[n] /\ next[n - 1] = f[n - 1]
        BY <2>3, <4>1
      <4>3. QED
        BY <2>2, <4>1, <4>2
    <3>3. CASE n = m + 1
      <4>1. next[m] = f[m] /\ n # 0 /\ n - 1 = m
        BY <2>3, <3>3
      <4>2. QED
        BY <2>3, <3>3, <4>1 DEF last
    <3>4. QED
      BY <3>1, <3>2, <3>3
  <2>5. IsRolled(next, g, m + 1)
    BY <2>4 DEF IsRolled
  <2>6. QED
    BY <2>5
<1>3. T = Nat
  BY <1>1, <1>2, AllNaturals
<1>4. QED
  BY <1>3

\* A game that a walk of n ticks at most may have come to: the stage and the care
\* are what they were, and the pet is nearer by every tick made, or has arrived.
OnTheWay(g, n, h) ==
  /\ SoundGame(h)
  /\ h.items = g.items /\ h.selectedItemId = g.selectedItemId
  /\ h.nextItemId = g.nextItemId /\ h.life.moments = g.life.moments
  /\ h.tickCount - g.tickCount \in 0 .. n
  /\ Distance(g.pet.position, h.pet.position) <= h.tickCount - g.tickCount
  /\ \A i \in ItemsWithId(g, g.selectedItemId) :
       /\ \/ InReach(h.pet.position, i.position)
          \/ h.tickCount = g.tickCount + n
       /\ Distance(h.pet.position, i.position) + (h.tickCount - g.tickCount)
            <= Distance(g.pet.position, i.position)

\* One more tick, or none at the selected item or without one.
LEMMA RollingGoesOn ==
  ASSUME NEW g, SoundGame(g), NEW n \in Nat, NEW h, OnTheWay(g, n, h),
         NEW next \in Roll(h)
  PROVE  OnTheWay(g, n + 1, next)
<1> DEFINE made == h.tickCount - g.tickCount
<1>0. /\ SoundGame(h) /\ SteadyGame(h) /\ g \in Game /\ h \in Game
      /\ g.pet.position \in Cells /\ h.pet.position \in Cells
      /\ g.tickCount \in Nat /\ h.tickCount \in Nat
      /\ made \in 0 .. n
      /\ h.items = g.items /\ h.selectedItemId = g.selectedItemId
  BY DEF OnTheWay, SoundGame, SteadyGame, Game, Pet
<1>1. ItemsWithId(h, h.selectedItemId) = ItemsWithId(g, g.selectedItemId)
  BY <1>0 DEF ItemsWithId
<1>2. \A i, j \in ItemsWithId(g, g.selectedItemId) : i = j
  BY DEF ItemsWithId, SoundGame, SteadyGame, WholeStage
<1>3. CASE SelectedIsGone(h) \/ AtSelected(h)
  <2>1. next = h
    BY <1>3 DEF Roll
  <2>2. \A i \in ItemsWithId(g, g.selectedItemId) : InReach(h.pet.position, i.position)
    BY <1>1, <1>2, <1>3 DEF SelectedIsGone, AtSelected
  <2>3. QED
    BY <1>0, <2>1, <2>2 DEF OnTheWay
<1>4. CASE ~ (SelectedIsGone(h) \/ AtSelected(h))
  <2>1. next \in Tick(h)
    BY <1>4 DEF Roll
  <2>2. /\ SoundGame(next)
        /\ next.tickCount = h.tickCount + 1
        /\ Distance(h.pet.position, next.pet.position) <= 1
        /\ \A i \in ItemsWithId(h, h.selectedItemId) :
             \/ InReach(h.pet.position, i.position)
             \/ Distance(next.pet.position, i.position)
                  < Distance(h.pet.position, i.position)
        /\ next.items = h.items /\ next.selectedItemId = h.selectedItemId
        /\ next.nextItemId = h.nextItemId
        /\ next.life.moments = h.life.moments
    BY <1>0, <2>1, TickIsSound DEF SoundGame, Keeps
  <2>3. next.pet.position \in Cells
    BY <2>2 DEF SoundGame, SteadyGame, Game, Pet
  <2>4. Distance(g.pet.position, next.pet.position) <= made + 1
    <3>1. Distance(g.pet.position, h.pet.position) <= made
      BY DEF OnTheWay
    <3>2. QED
      BY <1>0, <2>2, <2>3, <3>1, WaysAddUp, RulesAssumption
  <2>5. ASSUME NEW i \in ItemsWithId(g, g.selectedItemId)
        PROVE  /\ \/ InReach(next.pet.position, i.position)
                  \/ next.tickCount = g.tickCount + (n + 1)
               /\ Distance(next.pet.position, i.position) + (made + 1)
                    <= Distance(g.pet.position, i.position)
    <3>1. i.position \in Cells
      BY <1>0 DEF ItemsWithId, Game, Item
    <3>2. ~ InReach(h.pet.position, i.position)
      BY <1>1, <1>4 DEF AtSelected
    <3>3. /\ h.tickCount = g.tickCount + n
          /\ Distance(h.pet.position, i.position) + made
               <= Distance(g.pet.position, i.position)
      BY <3>2 DEF OnTheWay
    <3>4. Distance(next.pet.position, i.position) < Distance(h.pet.position, i.position)
      BY <1>1, <2>2, <3>2
    <3>5. /\ Distance(next.pet.position, i.position) \in Int
          /\ Distance(h.pet.position, i.position) \in Int
          /\ Distance(g.pet.position, i.position) \in Int
      BY <1>0, <2>3, <3>1, WaysAddUp
    <3>6. QED
      BY <1>0, <2>2, <3>3, <3>4, <3>5
  <2>6. QED
    BY <1>0, <2>2, <2>4, <2>5 DEF OnTheWay
<1>5. QED
  BY <1>3, <1>4

\* Before the walk.
LEMMA RollingBegins ==
  ASSUME NEW g, SoundGame(g)
  PROVE  OnTheWay(g, 0, g)
<1>1. /\ g.pet.position \in Cells /\ g.tickCount \in Nat
      /\ \A i \in g.items : i.position \in Cells
  BY DEF SoundGame, SteadyGame, Game, Pet, Item
<1>2. \A i \in ItemsWithId(g, g.selectedItemId) :
        Distance(g.pet.position, i.position) \in Int
  BY <1>1, WaysAddUp DEF ItemsWithId
<1>3. QED
  BY <1>1, <1>2, StayingIsNoWalk DEF OnTheWay

\* The steps allowed are enough: no cell of the grid is that far away.
LEMMA RollingArrives ==
  ASSUME NEW g, SoundGame(g), NEW h \in RollAll(g)
  PROVE  /\ OnTheWay(g, MaxSteps, h)
         /\ \A i \in ItemsWithId(g, g.selectedItemId) :
              InReach(h.pet.position, i.position)
<1>1. MaxSteps \in Nat /\ MaxSteps > GridWidth + GridHeight - 2
  BY RulesAssumption DEF MaxSteps
<1> DEFINE rolled == CHOOSE f : IsRolled(f, g, MaxSteps)
<1>2. IsRolled(rolled, g, MaxSteps)
  BY <1>1, RollingIsDefined
<1>3. h \in rolled[MaxSteps]
  BY DEF RollAll, IsRolled
<1> HIDE DEF rolled
<1> DEFINE T == {n \in Nat : n <= MaxSteps => \A k \in rolled[n] : OnTheWay(g, n, k)}
<1>4. \A n \in 0 .. MaxSteps :
        rolled[n] = IF n = 0 THEN {g} ELSE UNION {Roll(k) : k \in rolled[n - 1]}
  BY <1>2 DEF IsRolled
<1>5. 0 \in T
  <2>1. 0 \in 0 .. MaxSteps
    BY <1>1
  <2>2. rolled[0] = {g}
    BY <1>4, <2>1
  <2>3. QED
    BY <2>2, RollingBegins
<1>6. ASSUME NEW n \in T
      PROVE  n + 1 \in T
  <2> SUFFICES ASSUME n + 1 <= MaxSteps, NEW k \in rolled[n + 1]
               PROVE  OnTheWay(g, n + 1, k)
    OBVIOUS
  <2>1. n + 1 \in 0 .. MaxSteps /\ n + 1 # 0 /\ (n + 1) - 1 = n
    BY <1>1
  <2>2. rolled[n + 1] = UNION {Roll(j) : j \in rolled[n]}
    BY <1>4, <2>1
  <2>3. PICK j \in rolled[n] : k \in Roll(j)
    BY <2>2
  <2>4. OnTheWay(g, n, j)
    BY <1>1
  <2>5. QED
    BY <2>3, <2>4, RollingGoesOn
<1>7. T = Nat
  BY <1>5, <1>6, AllNaturals
<1>8. OnTheWay(g, MaxSteps, h)
  BY <1>1, <1>3, <1>7
<1>9. ASSUME NEW i \in ItemsWithId(g, g.selectedItemId)
      PROVE  InReach(h.pet.position, i.position)
  <2>1. /\ g.pet.position \in Cells /\ h.pet.position \in Cells /\ i.position \in Cells
        /\ g.tickCount \in Nat
    BY <1>8 DEF OnTheWay, SoundGame, SteadyGame, Game, Pet, Item, ItemsWithId
  <2>2. /\ Distance(g.pet.position, i.position) \in 0 .. GridWidth + GridHeight - 2
        /\ Distance(h.pet.position, i.position) \in 0 .. GridWidth + GridHeight - 2
    BY <2>1, WaysAddUp
  <2>3. /\ \/ InReach(h.pet.position, i.position)
           \/ h.tickCount = g.tickCount + MaxSteps
        /\ Distance(h.pet.position, i.position) + (h.tickCount - g.tickCount)
             <= Distance(g.pet.position, i.position)
    BY <1>8 DEF OnTheWay
  <2>4. QED
    BY <1>1, <2>1, <2>2, <2>3, RulesAssumption
<1>10. QED
  BY <1>8, <1>9

\* What a walk to the selected item leaves alone, and how it ends.
Walked(g, h) ==
  /\ SoundGame(h)
  /\ h.items = g.items /\ h.selectedItemId = g.selectedItemId
  /\ h.nextItemId = g.nextItemId /\ h.life.moments = g.life.moments
  /\ Distance(g.pet.position, h.pet.position) <= h.tickCount - g.tickCount
  /\ \A i \in ItemsWithId(g, g.selectedItemId) :
       /\ InReach(h.pet.position, i.position)
       /\ h.tickCount # g.tickCount
            => \/ InReach(g.pet.position, i.position)
               \/ Distance(h.pet.position, i.position)
                    < Distance(g.pet.position, i.position)

\* _handleAdvanceToSelectedItem, or one tick beside the item or without one.
LEMMA AdvanceWalks ==
  ASSUME NEW g, SoundGame(g), NEW h \in AdvanceToSelectedItem(g)
  PROVE  Walked(g, h)
<1>0. /\ SteadyGame(g) /\ g.pet.position \in Cells /\ g.tickCount \in Nat
      /\ \A i \in g.items : i.position \in Cells
      /\ \A i, j \in ItemsWithId(g, g.selectedItemId) : i = j
  BY DEF SoundGame, SteadyGame, WholeStage, Game, Pet, Item, ItemsWithId
<1>1. CASE SelectedIsGone(g) \/ AtSelected(g)
  <2>1. h \in Tick(g)
    BY <1>1 DEF AdvanceToSelectedItem
  <2>2. \A i \in ItemsWithId(g, g.selectedItemId) : InReach(g.pet.position, i.position)
    BY <1>0, <1>1 DEF SelectedIsGone, AtSelected
  <2>3. /\ SoundGame(h)
        /\ h.tickCount = g.tickCount + 1
        /\ Distance(g.pet.position, h.pet.position) <= 1
        /\ \A i \in ItemsWithId(g, g.selectedItemId) :
             \/ InReach(g.pet.position, i.position) /\ h.pet.position = g.pet.position
             \/ Distance(h.pet.position, i.position)
                  < Distance(g.pet.position, i.position)
        /\ h.items = g.items /\ h.selectedItemId = g.selectedItemId
        /\ h.nextItemId = g.nextItemId
        /\ h.life.moments = g.life.moments
    BY <1>0, <2>1, TickIsSound DEF SoundGame, Keeps
  <2>4. h.pet.position \in Cells
    BY <2>3 DEF SoundGame, SteadyGame, Game, Pet
  <2>5. ASSUME NEW i \in ItemsWithId(g, g.selectedItemId)
        PROVE  InReach(h.pet.position, i.position)
    <3>1. i.position \in Cells
      BY <1>0 DEF ItemsWithId
    <3>2. /\ Distance(h.pet.position, i.position) \in Int
          /\ Distance(g.pet.position, i.position) \in Int
      BY <1>0, <2>4, <3>1, WaysAddUp
    <3>3. QED
      BY <2>2, <2>3, <3>2 DEF InReach
  <2>6. QED
    BY <1>0, <2>2, <2>3, <2>5 DEF Walked
<1>2. CASE ~ (SelectedIsGone(g) \/ AtSelected(g))
  <2>1. PICK k \in RollAll(g) :
          h = IF AtSelected(k) THEN SyncActivityPhase(RefreshPetState(k)) ELSE k
    BY <1>2 DEF AdvanceToSelectedItem
  <2>2. /\ OnTheWay(g, MaxSteps, k)
        /\ \A i \in ItemsWithId(g, g.selectedItemId) :
             InReach(k.pet.position, i.position)
    BY RollingArrives
  <2>3. SoundGame(k) /\ SteadyGame(k) /\ k \in Game /\ k.tickCount \in Nat
    BY <2>2 DEF OnTheWay, SoundGame, SteadyGame, Game
  <2>4. /\ SoundGame(h)
        /\ h.items = k.items /\ h.selectedItemId = k.selectedItemId
        /\ h.nextItemId = k.nextItemId /\ h.life = k.life
        /\ h.tickCount = k.tickCount /\ h.pet.position = k.pet.position
    <3>1. CASE h = k
      BY <2>3, <3>1
    <3>2. CASE h = SyncActivityPhase(RefreshPetState(k))
      <4>1. SoundGame(h)
        BY <2>3, <3>2, RefreshIsSteady, SyncIsSteady DEF SoundGame
      <4>2. QED
        BY <2>3, <3>2, <4>1 DEF SyncActivityPhase, RefreshPetState, Game, Pet
    <3>3. QED
      BY <2>1, <3>1, <3>2
  <2>5. k.pet.position \in Cells
    BY <2>3 DEF Game, Pet
  <2>6. ASSUME NEW i \in ItemsWithId(g, g.selectedItemId),
               k.tickCount # g.tickCount
        PROVE  Distance(k.pet.position, i.position) < Distance(g.pet.position, i.position)
    <3>1. i.position \in Cells
      BY <1>0 DEF ItemsWithId
    <3>2. /\ Distance(k.pet.position, i.position) \in Int
          /\ Distance(g.pet.position, i.position) \in Int
      BY <1>0, <2>5, <3>1, WaysAddUp
    <3>3. /\ k.tickCount - g.tickCount \in 0 .. MaxSteps
          /\ Distance(k.pet.position, i.position) + (k.tickCount - g.tickCount)
               <= Distance(g.pet.position, i.position)
      BY <2>2 DEF OnTheWay
    <3>4. QED
      BY <1>0, <2>3, <2>6, <3>2, <3>3
  <2>7. QED
    BY <2>2, <2>4, <2>6 DEF OnTheWay, Walked
<1>3. QED
  BY <1>1, <1>2

\* Where "when ready" acts from: beside what is selected.
LEMMA BesideIsWalked ==
  ASSUME NEW g, SoundGame(g), g.selectedItemId # None, NEW h \in BesideSelected(g)
  PROVE  /\ Walked(g, h)
         /\ InReachOfSelected(h)
         /\ \A i \in ItemsWithId(g, g.selectedItemId) :
              InteractionCandidates(h, h.selectedItemId) = {i}
<1>0. /\ SteadyGame(g) /\ g.pet.position \in Cells /\ g.tickCount \in Nat
      /\ \A i, j \in ItemsWithId(g, g.selectedItemId) : i = j
      /\ ItemsWithId(g, g.selectedItemId) # {}
  BY DEF SoundGame, SteadyGame, WholeStage, Game, Pet, Item, ItemsWithId
<1>1. CASE InReachOfSelected(g)
  <2>1. h = g
    BY <1>1 DEF BesideSelected
  <2>2. \A i \in ItemsWithId(g, g.selectedItemId) : InReach(g.pet.position, i.position)
    BY <1>0, <1>1 DEF InReachOfSelected, InteractionCandidates
  <2>3. Distance(g.pet.position, g.pet.position) = 0
    BY <1>0, StayingIsNoWalk
  <2>4. Walked(g, h)
    BY <1>0, <2>1, <2>2, <2>3 DEF Walked
  <2>5. \A i \in ItemsWithId(g, g.selectedItemId) :
          InteractionCandidates(h, h.selectedItemId) = {i}
    BY <1>0, <2>1, <2>2 DEF InteractionCandidates
  <2>6. QED
    BY <1>1, <2>1, <2>4, <2>5
<1>2. CASE ~ InReachOfSelected(g)
  <2>1. Walked(g, h)
    BY <1>2, AdvanceWalks DEF BesideSelected
  <2>2. /\ h.selectedItemId = g.selectedItemId
        /\ ItemsWithId(h, h.selectedItemId) = ItemsWithId(g, g.selectedItemId)
        /\ \A i \in ItemsWithId(g, g.selectedItemId) :
             InReach(h.pet.position, i.position)
    BY <2>1 DEF Walked, ItemsWithId
  <2>3. \A i \in ItemsWithId(g, g.selectedItemId) :
          InteractionCandidates(h, h.selectedItemId) = {i}
    BY <1>0, <2>2 DEF InteractionCandidates
  <2>4. QED
    BY <1>0, <2>1, <2>3 DEF InReachOfSelected
<1>3. QED
  BY <1>1, <1>2

\* _handleUseSelectedItemWhenReady: the selected item leaves the stage in reach of
\* the pet, and its care is recorded once.
LEMMA UseWhenReadyUses ==
  ASSUME NEW g, SoundGame(g), NEW h \in UseSelectedItemWhenReady(g)
  PROVE  /\ SoundGame(h)
         /\ h.nextItemId = g.nextItemId
         /\ Distance(g.pet.position, h.pet.position) <= h.tickCount - g.tickCount
         /\ g.selectedItemId = None => h.life = g.life /\ h.tickCount = g.tickCount
         /\ g.selectedItemId # None => ItemsWithId(g, g.selectedItemId) # {}
         /\ \A i \in ItemsWithId(g, g.selectedItemId) :
              /\ i \in g.items
              /\ h.items = g.items \ {i}
              /\ InReach(h.pet.position, i.position)
              /\ h.life.moments
                   = [g.life.moments EXCEPT ![CareKindOf[i.templateId]] = @ + 1]
              /\ h.tickCount # g.tickCount
                   => \/ InReach(g.pet.position, i.position)
                      \/ Distance(h.pet.position, i.position)
                           < Distance(g.pet.position, i.position)
<1>0. /\ SteadyGame(g) /\ g \in Game
      /\ g.pet.position \in Cells /\ g.tickCount \in Nat
      /\ g.selectedItemId # None => ItemsWithId(g, g.selectedItemId) # {}
      /\ \A i, j \in ItemsWithId(g, g.selectedItemId) : i = j
  BY DEF SoundGame, SteadyGame, WholeStage, Game, Pet, Item, ItemsWithId
<1>1. CASE g.selectedItemId = None
  <2>1. h = Reject(g)
    BY <1>1 DEF UseSelectedItemWhenReady
  <2>2. ItemsWithId(g, g.selectedItemId) = {}
    BY <1>0, <1>1, TemplatesAssumption DEF ItemsWithId, Game, Item
  <2>3. Keeps(g, h)
    BY <1>0, <2>1, RejectIsSound
  <2>4. /\ h.nextItemId = g.nextItemId /\ h.life = g.life
        /\ h.tickCount = g.tickCount /\ h.pet.position = g.pet.position
    BY <1>0, <2>1 DEF Reject, RefreshPetState, Game, Pet
  <2>5. Distance(g.pet.position, g.pet.position) = 0
    BY <1>0, StayingIsNoWalk
  <2>6. QED
    BY <1>0, <1>1, <2>2, <2>3, <2>4, <2>5 DEF SoundGame, Keeps
<1>2. CASE g.selectedItemId # None
  <2>1. PICK k \in BesideSelected(g) :
          h \in IF InReachOfSelected(k) THEN Use(k, k.selectedItemId) ELSE {k}
    BY <1>2 DEF UseSelectedItemWhenReady
  <2>2. PICK i \in ItemsWithId(g, g.selectedItemId) : TRUE
    BY <1>0, <1>2
  <2>3. Walked(g, k) /\ InReachOfSelected(k)
    BY <1>2, BesideIsWalked
  <2>4. InteractionCandidates(k, k.selectedItemId) = {i}
    BY <1>2, BesideIsWalked
  <2>5. h \in Use(k, k.selectedItemId)
    BY <2>1, <2>3
  <2>6. /\ SoundGame(k) /\ SteadyGame(k) /\ k.life \in Life
        /\ k.items = g.items /\ k.nextItemId = g.nextItemId
        /\ k.life.moments = g.life.moments
    BY <2>3 DEF Walked, SoundGame, SteadyGame, Game
  <2>7. /\ Keeps(k, h)
        /\ h.pet.position = k.pet.position /\ h.tickCount = k.tickCount
        /\ h.nextItemId = k.nextItemId
        /\ i \in k.items /\ h.items = k.items \ {i}
        /\ InReach(k.pet.position, i.position)
        /\ i.templateId \in AllTemplates
        /\ h.life = RecordCare(k.life, CareKindOf[i.templateId], k.dayCount)
    BY <2>4, <2>5, <2>6, UseIsSound
  <2>8. h.life.moments = [g.life.moments EXCEPT ![CareKindOf[i.templateId]] = @ + 1]
    <3>1. CareKindOf[i.templateId] \in CareKinds
      BY <2>7, TemplatesAssumption
    <3>2. QED
      BY <2>6, <2>7, <3>1, CareIsOneMoment
  <2>9. SoundGame(h)
    BY <2>6, <2>7 DEF SoundGame, Keeps
  <2>10. /\ Distance(g.pet.position, h.pet.position) <= h.tickCount - g.tickCount
         /\ h.tickCount # g.tickCount
              => \/ InReach(g.pet.position, i.position)
                 \/ Distance(h.pet.position, i.position)
                      < Distance(g.pet.position, i.position)
    BY <2>3, <2>7 DEF Walked
  <2>11. \A j \in ItemsWithId(g, g.selectedItemId) : j = i
    BY <1>0
  <2>12. QED
    BY <1>0, <1>2, <2>6, <2>7, <2>8, <2>9, <2>10, <2>11
<1>3. QED
  BY <1>1, <1>2

\* _handleInspectSelectedItemWhenReady walks, and is no care.
LEMMA InspectWhenReadyWalks ==
  ASSUME NEW g, SoundGame(g), NEW h \in InspectSelectedItemWhenReady(g)
  PROVE  /\ SoundGame(h)
         /\ h.nextItemId = g.nextItemId
         /\ h.life.moments = g.life.moments
         /\ Distance(g.pet.position, h.pet.position) <= h.tickCount - g.tickCount
         /\ \A i \in ItemsWithId(g, g.selectedItemId) :
              h.tickCount # g.tickCount
                => \/ InReach(g.pet.position, i.position)
                   \/ Distance(h.pet.position, i.position)
                        < Distance(g.pet.position, i.position)
<1>0. /\ SteadyGame(g) /\ g \in Game
      /\ g.pet.position \in Cells /\ g.tickCount \in Nat
  BY DEF SoundGame, SteadyGame, Game, Pet
<1>1. CASE g.selectedItemId = None
  <2>1. h = Reject(g)
    BY <1>1 DEF InspectSelectedItemWhenReady
  <2>2. Keeps(g, h)
    BY <1>0, <2>1, RejectIsSound
  <2>3. /\ h.nextItemId = g.nextItemId /\ h.life = g.life
        /\ h.tickCount = g.tickCount /\ h.pet.position = g.pet.position
    BY <1>0, <2>1 DEF Reject, RefreshPetState, Game, Pet
  <2>4. Distance(g.pet.position, g.pet.position) = 0
    BY <1>0, StayingIsNoWalk
  <2>5. QED
    BY <1>0, <2>2, <2>3, <2>4 DEF SoundGame, Keeps
<1>2. CASE g.selectedItemId # None
  <2>1. PICK k \in BesideSelected(g) :
          h \in IF InReachOfSelected(k) THEN Inspect(k, k.selectedItemId) ELSE {k}
    BY <1>2 DEF InspectSelectedItemWhenReady
  <2>2. Walked(g, k) /\ InReachOfSelected(k)
    BY <1>2, BesideIsWalked
  <2>3. h \in Inspect(k, k.selectedItemId)
    BY <2>1, <2>2
  <2>4. SoundGame(k) /\ SteadyGame(k)
    BY <2>2 DEF Walked, SoundGame
  <2>5. /\ Keeps(k, h)
        /\ h.pet.position = k.pet.position /\ h.tickCount = k.tickCount
        /\ h.life = k.life /\ h.nextItemId = k.nextItemId
    BY <2>3, <2>4, InspectIsSound
  <2>6. QED
    BY <2>2, <2>4, <2>5 DEF Walked, SoundGame, Keeps
<1>3. QED
  BY <1>1, <1>2

=============================================================================
