# Chatty-Pet in TLA+

Chatty-Pet is a Flutter toy: a pet on a small grid, items to give it, a slow
collection of forms it may turn into, and a tab where a bundled language model
answers as Chatty.  This directory models what the program does between the
taps: the Dart reducer and its long-term memory, the room that saves, restores and
animates it, and the conversation that runs over the Dart event loop, Android's
main thread, one thread per request and the C++ engine.

## Inventory

| component | state | operations | interacts with | hard part |
|---|---|---|---|---|
| life state (`core/chatty_life_state.dart`) | forms, care counters, queue, costume, dates | recordCare, reviewEligibility, queue…, complete…, finish… | reducer, calendar | several owners rewrite one record in any order |
| forms (`core/chatty_forms.dart`) | – | weighted draw | reducer | draws during an event |
| calendar events (`core/chatty_calendar_events.dart`) | – | observe | app shell | the date jumps both ways; late completions |
| pet rules, grid (`core/pet_rules.dart`, `core/grid.dart`) | – | clamp, mood, hour, step | reducer | boundaries |
| reducer (`core/reducer.dart`) | the game | one handler per action | everything | stale ids, walks of many ticks |
| starter datapack, custom items (`content/`, `core/custom_item_factory.dart`) | templates | newGame, make | reducer | unlock levels |
| app shell (`app/chatty_pet_app.dart`) | game, `_animating`, `_presentingTransformationFormId`, `_loading` | dispatch, walk, present, load, reset | reducer, persistence, sound | everything between an `await` and what follows |
| persistence, codec (`app/game_persistence.dart`, `core/game_state_codec.dart`) | one preferences key | load, save, clear | app shell | overlapping saves, restart, repair |
| talk panel (`ui/chatty_talk_panel.dart`, `app/chatty_talk_service.dart`) | request, draft, timer | send, stop, time out, events | bridge | late, doubled and dropped events; disposal |
| inference bridge (Kotlin) | active request, sink | start, cancel, callbacks | panel, engine | two threads on one variable |
| native engine (`llama_engine_stub.cpp`) | model, context, sampler, mutex, cancel flag, UTF-8 cache | load, unload, stream, cancel | bridge | cancel against reset; loads that fail halfway; a memory that outlives its request |
| model file (`prepareModel` in `app/chatty_talk_service.dart`) | the installed file, a temporary one | prepare | talk panel | crashes and overlapping calls between delete, write and rename |
| reply report (`ui/report_chatty_reply_sheet.dart`, `core/ai_report_service.dart`) | sending | submit | a web service | timeout after acceptance |
| activity box, soundscape | reaction, player, idle timer | react, play | app shell | overlapping reactions |
| llama.cpp, platform wrappers, screens | – | – | – | not modelled: third party, generated, rendering |

What makes them correct, in one line each: a costume can always be taken off and
nothing unearned or already seen is shown (life, calendar); the stage never
refers to what is gone and care is paid with items (reducer); one ending for
each question and an ending for every question (panel); one generation at a
time, and quiet after Stop (bridge, engine); what was cleared stays cleared and
what was saved comes back (app shell, persistence).  `PROJECT.json` lists the
hazards with their lines.

## Modules

    LifeState ── LifeCycle                             lives
        └── Reducer ── Play ── Approach                games; Play implements LifeCycle
    PetRules ──┘  │      └──── AppShell                the room over the device's store
                  └─ SaveCodec ───┘
    InferenceBridge ── TalkSession                     TalkSession implements TalkTurns
    NativeEngine                                       what the engine keeps
    ModelInstall                                       how its model gets on the device

    LifeStateProofs ── LifeCycleProofs
        └── ReducerProofs ── PlayProofs                Play and Approach
                   └──────── AppShellProofs
    TalkSessionProofs    NativeEngineProofs    ModelInstallProofs

* **LifeState** has the immutable life record and every method on it as an
  operator from lives to lives, with the draw of a form and `observe`.
  **LifeCycle** is the machine around it: care, a new game day, a shown
  transformation, a look at the date, and the device's date jumping freely.  It
  is also the abstract specification of what the rest may do to a life.
* **PetRules** and **Reducer** are the game.  A handler is an operator from a
  game to the set of games it may become; the set stands for the cell a seed
  picks, the order a sort leaves equal items in, and the day's random draw.  An
  action of **Play** is one dispatched action; ids in `Select`, `Use`,
  `Inspect` and `Remove` may be stale, as widgets and the app hold them across
  other actions.  **Approach** adds the three actions that loop over ticks
  inside the reducer.
* **SaveCodec** is the encoding: a save is a record with a field for each JSON key,
  and decoding gives every missing key its default, drops what has no template
  and clamps what is out of range.
* **AppShell** is the room around the game, the state of
  `_ChattyPetHomePageState`: loading with its two seconds, dispatch, the animated
  walk, the presentation of a queued form, the look at the date, the three ways to
  clear a save (several may wait for their replies at once, and the room goes on
  meanwhile: only the dialog of the reset is modal, and it is gone by then), and the end of the process at any moment.  A step is one turn of
  Dart's event loop; what the code writes before its first `await` and what it
  writes after it are different steps.
* **InferenceBridge** has Android's main thread (calls from Dart in order, its
  own queue of posted events), a thread per accepted request, and the engine's
  mutex and cancel flag.  A step is what happens between two points where
  another thread can look: loading, the reset of the cancel flag, the look at that
  flag and the rest of a round, clearing `activeRequestId`, posting, leaving the mutex, and the
  `if (!started)` branch, again in two steps.
* **TalkSession** puts the panel in front of it.  A continuation of `_send` runs
  to its next `await` in one step.  Panels open and close, because a tab's page is
  disposed when it is left.  **TalkTurns** is what the child sees: a question is
  asked, ended once, or left.
* **NativeEngine** is the same engine from inside the mutex: what a call makes,
  keeps and frees, the tokens in the context's memory, the batches of a prompt
  and the cache that cuts the text at whole characters.  InferenceBridge has its
  threads, NativeEngine its data; each abstracts the other's part to
  success, failure and cancellation.
* **ModelInstall** is `prepareModel`, await by await, for several calls over one
  file system.

`PROJECT.json` maps every definition to its lines.  A module's operators under
"Mutation" are plausible wrong versions of the definition that follows; each makes
one property fail, which shows that the property is about the code.

### Abstractions

Speech, recent lines, the event log and the contents of an activity moment are
left out; the phase of its sky is kept.  `ClearSpeech` changes nothing else, and a
greeting (in AppShell, where its save matters) nothing but that phase.  Item
`item_N` is N, and items form a set.  An occurrence key `"event:yyyy-MM-dd"` is a
pair.  The weighted draw may return any candidate, since each has a positive
weight; the 35-in-100 roll may go either way.

In AppShell the preferences open at their own time and then carry out writes in
the order in which they were called, which is what `SharedPreferences` does with
the calls of one process; a process that ends loses what has not arrived.  Which of
two running timers fires first is left open.  `_checkCalendarEvent` may save once
more a game that it copied without a change; that second, equal write is left out.

Request `q` carries the identifier of question `q`, where the code makes a fresh
UUID.  The event "started" is read by nothing.  The engine's calls into llama.cpp
succeed or fail; the model file may be missing or refused at any call.  A round of
InferenceBridge always writes a token; that some keep it in the cache is in
NativeEngine.
`activeRequestId` is a plain field that two threads write: the model gives it
sequentially consistent reads and writes, which is the mildest reading of that
race, and still finds the finding below.  In NativeEngine a byte is its class (a
lead of two, three or four, a continuation, ...), since `is_valid_utf8` tells no
more apart, and every token has bytes: an empty string is sent to Java as null
(`llama_engine_stub.cpp:290`), which `onNativeToken` refuses with an exception, and
what the native code does with an exception pending is undefined.  A round of
NativeEngine looks at the flag and writes its token in one step, as its data do not
depend on a cancel in between; InferenceBridge has these as two steps.  In
ModelInstall a file is its length and the set of blocks in it that are the asset's.
`writeAsBytes` is one call of the code and several steps here, since the system may
carry out any part of it before a crash.  An older model is one of another length:
`prepareModel` compares lengths only, so an older file of the same length would be
taken for the new one by any run of the code.

The bounds, all of them constants, are `MaxDay`, `MaxMoments` (LifeCycle),
`MaxSpawns`, `MaxTicks` (Play, AppShell), `MaxWalks`, `MaxWrites`, `MaxClearings` (AppShell),
`MaxTokens`, `MaxPanels` and the set `Questions` (TalkSession), `MaxPrompt`,
`MaxTokens`, `MaxRequests` (NativeEngine), the set `Calls` and `MaxTogether`
(ModelInstall).

## Runs

| run | instance | shows |
|---|---|---|
| `life_cycle` | 2 ordinary and 2 event forms, 3 dates (plain, fixed event, birthday of the first), 5 days, 4 moments, thresholds 3/2/1, cooldown 2 | the invariants and action properties of a life |
| `life_cycle_lost` | the same | violation: a queued ordinary surprise is dropped |
| `stage` | 2 by 3 cells, 2 items ever, a toy, a snack unlocked at affection 1 by a toy worth 2, a custom item, 4 ticks of a 4-tick day | the stage, clock, mood, unlocks, care ledger, walks |
| `play_lives` | 2 by 1 cells, 2 items, 8 ticks, a calendar with an event | Play implements LifeCycle |
| `app_shell` | 4 by 1 cells, a toy and a custom item, 1 spawn, 1 tick, 1 walk, 1 save under way when the player acts, 2 clears at once, 2 dates, saves of an interrupted app and of an old version, fairness | the world in play is the world saved; it is restored; surprises are not stranded; the room opens; a reset starts fresh |
| `talk_session` | 2 questions, 1 token, 2 panels | streams, draft, timer, and TalkTurns |
| `talk_live` | 2 questions, 1 token, 1 panel, fairness | thoughts, bridge and threads end |
| `talk_stop` | 1 question, 2 tokens | violation: Stop is taken back |
| `talk_two` | 3 questions | violation: two generations run at once |
| `model_install` | 3 calls one after another, an asset of 3 blocks, no file or an older one | an undisturbed call leaves the whole model, over crashes and failures |
| `model_install_twice` | the same with 2 calls at once | violation: a file of the right length with a hole |
| `native_engine` | 2 presets, batches of 2, prompts up to 3, a context of 6, 4 rounds, 5 tokens that cut characters in every way, 2 requests | nothing leaks, the memory is the request's, replies are whole |

Why the bounds are enough.  A life's thresholds are lowered so that five days
hold two cooldowns and a varied day; two event forms and one ordinary form in
the queue, on stage and underneath are all the overlaps the slots allow.  On the
stage two items make every choice between nearest, pursued and selected, and the
grid is long enough for a walk of two ticks, also over the start of a day.
In the conversation an event or a reply of the previous question, of the current
one, and of a request whose panel is gone can be on their way at once; a third
question is only needed to have two requests running.

In the room `MaxWrites` limits when the player acts and when the date changes: saves
and replies under way for an action, anything under way for a clear or a new date.
What timers, loads and late replies write comes on top of it, so several saves and
removals are under way at once, and actions fall between a removal and its reply.
Two clears at once have every pair of ways in either order.  One walk overlaps with a presentation, a clear and the date; the save
of an interrupted app starts with a form in the queue, so a presentation needs no
days of care first, and the look at the date brings a second one.  A walk needs one
tick before the state in which it may end; its further ticks are turns of the same
kind.  What more games, walks and writes could do is proved, not checked.

A context of six tokens is filled by a prompt of three and four rounds, a prompt of
three takes two batches of two, and the second request finds the memory, the cache
and the handles of the first.  Two calls suffice for the overlap of
`model_install_twice`; the third then trusts what they left.

Deadlock is not checked in the talk and install runs: with all questions asked or
all calls made and everything delivered the instance is over.

Fairness in `talk_live`: Dart's event loop delivers what has arrived, a due timer
fires, the copying of the model file ends one way or the other, the main looper
takes its next call or event, and each request's thread runs.  The child is under
no obligation: neither Send, Stop nor leaving the panel is fair.  A generation
has at most `MaxTokens` rounds, each ended by llama.cpp returning.  A weakly fair
thread is enough to enter the engine in this instance because a waiting thread's
rival leaves the mutex for ever; the code's mutex promises no more.

Fairness in `app_shell`: as long as some timer of the app is running, one fires.
That is one condition for the load's timeout, the presentations and the walks
together; it neither orders them nor asks anything of the storage, which may never
open, of the player, or of the process, which may end again and again.

## Findings

1. `queueCalendarTransformation` drops a queued ordinary surprise, which the
   comment on `queueOrdinaryTransformation` says is not lost
   (`QueuedSurpriseIsKept`).
2. The cancel flag is cleared by the request that it should stop, so a Stop
   during loading is lost and the request goes on to begin its rounds
   (`StoppedRequestsAreQuiet`; one token after a Stop would be no violation, since a
   round that has looked at the flag ends with its token).  The child sees an answer
   put down, the phone goes on for up to forty tokens, and the next question is
   refused meanwhile.
3. A failed generation clears `activeRequestId` twice; the second time it may
   forget its successor (`OneGenerationAtATime`).  The mutex still keeps the
   engine to one request, so the third waits where it should have been refused.
4. Two overlapping calls of `prepareModel` write to one temporary file.  If one
   opens, and so truncates, it before the other writes its last block, the file has
   the asset's length with a hole at its beginning; the other renames it, and if the
   process ends before the hole is filled, every later call trusts the length
   (`UndisturbedModelIsWhole`).

Observations that no run states, because they are modelled as they are or because
no text of the repository says what should happen:

* `_handleUse` takes a toy off the stage like a snack (`reducer.dart:509`), and
  `test/core/reducer_interaction_test.dart:39` expects it to; `V0_1_ACCEPTANCE.md:14`
  says that toy items remain after play.  `Consume` follows the code, and no property
  sides with either text: `CareIsPaidWithItems` leaves toys and play out, and in
  `CareMeansContact` and `UseWhenReadyUsesTheSelected` a toy that was used may be gone
  or still there (`IsUsedUp`).
* After "Clear saved game" and "Clear all private app data" a walk or a
  presentation that is still running may save the old world once more
  (`chatty_pet_app.dart:515`); only the reset saves the fresh one after its removal.
  `SavedIsShown` excepts the fresh world for that reason.  The same holds of an action
  between a removal and its reply: its save comes after the removal, and the fresh
  world is shown over it.
* A load that outlives its two seconds is given up, and the first action saves the
  fresh game over the old one (`chatty_pet_app.dart:232`).
* While one form is presented, the date may replace it in the queue; the animation
  shows one form and the completion takes the other (`chatty_pet_app.dart:312`).
* One overlong character makes the reply as a whole a placeholder, and a stray byte
  keeps back everything that follows it (`llama_engine_stub.cpp:395` and `:404`).
* The text at `chatty_pet_app.dart:1859` says that the model is not copied;
  `prepareModel` copies it.

## Proofs

Eight modules, all checked to the last leaf.  TLC evaluates the assumptions
on the constants in the runs.

**Lives.**  `LifeCycleProofs` proves every property of `life_cycle`, for all sets of
forms, dates and events, all thresholds and without a bound that matters: `MaxDay`
and `MaxMoments` are arbitrary naturals.  The argument: `SoundLife(life, day)` is
inductive and holds of a new life, and each operation of `LifeState` preserves it
(one lemma per operation in `LifeStateProofs`).  It is the conjunction of the five
invariants with one strengthening, needed because "varied days do not exceed days
of care" does not survive a day becoming varied: `UnvariedDayIsUncounted` says that
while today has seen fewer than two kinds of care, some day of care is not counted
as varied.  The two action properties follow from the invariant and from what
`Observe` returns.  Assumed: costumes are not ordinary forms, null is none of the
values, each event has a costume, and the thresholds are naturals
(`FormsAssumption`, `EventsAssumption`, `ThresholdsAssumption`,
`BoundsAssumption`).

**Games.**  `PlayProofs` proves the type invariant, the six invariants and the three
action properties that `stage` checks of Play, and that Play implements LifeCycle.
`ReducerProofs` carries the argument: `SoundGame(g)` is a property of a game, and
there is one lemma per handler that says which part of it the handler keeps.  Two
parts do not hold halfway through a handler, the mood and the sky, which are
refreshed last; `SteadyGame` is what holds even then, and `Keeps(g, h)` says that a
handler leaves a steady game and spoils neither.  `NothingForgotten` is the
strengthening that no run states: the datapack's templates stay known, what is
unlocked is known, and the first form stays discovered.  It is what makes the unlock
rule and the save inductive.  The care ledger is proved of every item as the code pays
for it, toys too; `CareIsPaidWithItems` claims less and follows (`PaidCareIsPaidForAll`).  The refinement needs `SoundLife`: a tick turns the day
by one exactly when LifeCycle's day turns, which is the arithmetic of quotients at
the start of `ReducerProofs`.  Assumed: a grid with a cell, a day of a multiple of
four ticks, known templates with a care kind and effects, and ids of custom
templates that are not the datapack's (`RulesAssumption`, `TemplatesAssumption`,
`PlayBoundsAssumption`).

**Walks.**  The three actions of Approach iterate ticks, so `PlayProofs` needs an
induction over their number.  The library's induction theorem takes a predicate as a
parameter and cannot be used; but a *set* of naturals that has 0 and, with n, n + 1 is
all of them, since a set of others would have a least element, which is
`WellFoundedInduction`'s `WFMin` (`LeastNatural`, `AllNaturals`).  With it
`RollingIsDefined` shows that `rolled[n]`, the games n ticks later, exists as a
function; `OnTheWay` is what holds of each of them (the pet is in reach, or n ticks nearer
by n steps), and `RollingArrives` that `MaxSteps` ticks suffice on any grid, because each
tick of a walk is `SelectionLeads`.  That gives `WalksArrive`, `UseWhenReadyUsesTheSelected`, the
seven invariants of Play for ApproachSpec, and that a walk with its use is still one
care at most: nothing is assumed beyond what Play's proofs assume, and nothing bounds
the grid.

**The room.**  `AppShellProofs` proves the four invariants and the action property
that `app_shell` checks.  `GameIsRestored` is the round trip: decoding what is
encoded gives back every steady game.  `ShellInv` adds to `SavedIsShown` and
`OnlyAnEventWaits` that every save under way is that of a steady game, and that a
room that loads has done nothing yet: without the first nothing is known of the disk
after a restart, without the second a late load could overwrite a game in play.  Two
assumptions belong to the theorems rather than to the constants: null is no JSON
object and none of the ways to clear (`NullIsNothingElse`), and what a first start
finds on the device is the save of a steady game (`DeviceHoldsWorlds`), which holds
of the saves in `MCAppShell`.  It excludes the save of a version whose datapack
unlocked templates at other levels, which the code would restore as it is.
`BusyRoomIsMoving` is what is behind `RoomOpens`: a room that is busy has a walk or a
presentation with a timer that still runs.  It needs none of the two assumptions.

**The model file.**  `ModelInstallProofs` proves the types for any overlap of calls,
and that an undisturbed call leaves the whole model when calls do not overlap, for
any size, any number of calls, crashes and failures.  The invariant is
`InstalledIsWhole` (what has the asset's length at the destination is the asset)
with `TemporaryGrows` (the temporary file holds just the blocks written so far) and
`OneCallAtATime`.  `model_install_twice` shows why the last is needed.

**The engine.**  `NativeEngineProofs` proves `EngineIsWhole` from how far a load has
come in each phase, `MemoryIsOfTheRequest` from `Placed`, which ties the memory
to the position, and the types from `CallTyped`, which bounds the position by the
prompt and a token for each round; that the memory stays within the context is the
cardinality of what `Decode` adds.  `ReplyAlwaysWhole` is the property that needs an
induction over data.  `FoldIsDefined` and `FoldGoesOn` show, by the same induction on a
set, that a left fold exists as a function and takes one step for each element
appended, for any step; `ScanGoesOn`, `StrictScanGoesOn` and `HeardGoesOn` are that for
`is_valid_utf8`, for `from_bytes` and for what the child hears.  From them follow
`StrictOfConcat` (after a whole text the reading of what follows starts afresh, after a
broken one nothing helps) and `ReadingsAgree` (where `from_bytes` finds nothing broken
and no NUL is, `is_valid_utf8` counts the same).  The invariant `ReplyInv` says that what
was generated is what was shown and what is held back (`RepliesLoseNothing`, for any
bytes whatever), that what is shown is whole and is what was heard (`ShownIsHeard`, while
the bytes are well-formed so far), and that the cache never holds a text that
could be shown (`HeldBackOrOver`): without the last a character could stay in the cache
although it is complete.

**The conversation.**  `TalkSessionProofs` proves the types, the order of the streams,
that a draft is its question's, that a thought is timed, and that TalkSession
implements TalkTurns, for any questions, tokens and panels.  The invariant,
`SessionInv`, has six parts that need one another.  `OneThought`: the panel waits for
one question at most, which makes the choice in `Talking` unique.  `Protocol`: the
call that starts a question, the reply to it and the events of its thread come one
after the other, each where the one before has been taken.  `InOrder`: the relation
`MayFollow` holds between any message and any later one, over both queues; it numbers
the tokens, which `StreamsAreOrdered` alone does not.  `Listening`: an open panel is
heard before a request of its own begins, so none of that request's events is dropped.
`NothingMissing`: the draft and the tokens on their way are all that the thread has
written.  The last two are why the draft has no gap although events that find no
listener are lost: they are only ever lost to a question nobody waits for.
Beside it, `HoldersAreInside` says that the holder of the mutex and the thread in the
engine are the same.  From it follow `EngineServesOne` (one request is inside, also when
`talk_two` has two of them running), `MutexIsGivenBack`, and `StopIsKeptWhileGenerating`,
the other half of finding 2: what `talk_stop` loses is lost before the first round,
afterwards a request that has been told to stop finishes the round it is in and begins
no other, since no thread but the one that generates is where it could clear the flag.
`BusyBridgeIsAtWork` is what is behind `BridgeIsFreed`: a bridge that is busy has a thread
that still has to clear `activeRequestId`.  `NoAnswerIsLost` is the same for `TurnsEnd`:
while `_send` awaits the bridge, its call or the reply to it is on its way.  Assumed: null
is no question, and the bounds are naturals (`BridgeAssumption`, `PanelsAssumption`).

Only model-checked: liveness, that is `RoomOpens`, `TurnsEnd`, `BridgeIsFreed` and
`ThreadsFinish`.  Liveness under fairness is out of the prover's reach.  The four findings
are counterexamples that TLC finds; there is nothing to prove of them.

## Not modelled

* llama.cpp and ggml (`android/app/src/main/cpp/llama_upstream`) are vendored.  They
  are 98 of each hundred lines of the repository's code, so the lines mapped here are a
  small share of the whole although they cover the reducer, the life, the
  room, the talk panel, the bridge and the engine's own file.  The generated
  platform runners are left out for the same reason.
* The prompt and the filter of replies (`chatty_talk_prompt.dart`) are pattern
  matching on text without state.
* The reply report makes one request with a timeout; whether a report that timed out
  was stored is decided by the web service.
* The soundscape, the reactions over the activity box, the spoken lines and the event
  log feed nothing back into the game.
* Screens render a game; what they can ask for are the actions of Play and AppShell.
* Two panels that listen at once, during a layout change: which of them the platform
  channel serves is decided inside Flutter.
* The debug preview of forms, which release builds do not have.

What is left that could be done is a model of the soundscape's player and of its idle
timer.
