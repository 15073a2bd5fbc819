------------------------------ MODULE AppShell ------------------------------
(***************************************************************************)
(* The toy room's state (_ChattyPetHomePageState in                        *)
(* lib/app/chatty_pet_app.dart) over GamePersistence and the device's      *)
(* preferences: loading with a timeout, actions, the animated walk, the    *)
(* presentation of a queued form, saves nobody waits for, the three ways   *)
(* to clear a save, and the end of the app at any moment.                  *)
(*                                                                         *)
(* A step is one turn of Dart's event loop: a tap, a timer, a reply.  A    *)
(* walk waits 260 ms between its ticks and a presentation takes 1700 ms;   *)
(* which of two running timers fires first is left open, as a walk may be  *)
(* longer or shorter than a presentation.                                  *)
(***************************************************************************)
EXTENDS Play, SaveCodec, Sequences

CONSTANTS
  Clearings,       (* How the player may clear the save: see Confirm.        *)
  OldSaves,        (* What a first start may find on the device, or None.    *)
  MaxWalks,        (* Bound on the walks that run at once.                   *)
  MaxWrites,       (* Bound on what is under way when the player acts or the *)
                   (* date changes: see Underway, Confirm, ShellDateChanges. *)
  MaxClearings     (* Bound on the clears that wait for a reply at once.     *)

Purposes == {"advance", "use", "inspect"}

ASSUME ShellBoundsAssumption ==
  /\ Clearings \subseteq {"clear", "erase", "reset"}
  /\ MaxWalks \in Nat
  /\ {MaxWrites, MaxClearings} \subseteq Nat

VARIABLES
  loading,         (* _loading                                               *)
  animating,       (* _animating                                             *)
  presenting,      (* _presentingTransformationFormId; its timer is running  *)
  walks,           (* Walks between two ticks, by what they are for          *)
  clearing,        (* The clears that wait for their replies, in order       *)
  cleared,         (* How many of these replies have come                    *)
  store,           (* The preferences: still opening, or open                *)
  writes,          (* Saves and removals on their way, in order              *)
  disk             (* The save on the device, or None                        *)

roomVars  == <<loading, animating, presenting, walks, clearing, cleared>>
storeVars == <<store, writes, disk>>
shellVars == <<game, today, roomVars, storeVars>>

\* What is awaited: the save removed, for one of three purposes, and all preferences.
Clears == {"clear", "erase", "reset", "eraseAll"}

\* A save of any shape that a version of the app has written.
IsSave(json) == FromJson(json) \in Game

ShellTypeOK ==
  /\ TypeOK
  /\ loading \in BOOLEAN
  /\ animating \in BOOLEAN
  /\ presenting \in Forms \cup {None}
  /\ walks \in [Purposes -> 0 .. MaxWalks]
  /\ clearing \in Seq(Clears)
  /\ cleared \in Nat
  /\ store \in {"opening", "open"}
  /\ \A i \in DOMAIN writes : \/ writes[i].op = "remove"
                              \/ writes[i].op = "save" /\ IsSave(writes[i].json)
  /\ disk = None \/ IsSave(disk)

NoWalks == [p \in Purposes |-> 0]

\* The state of a page that has just been made, in a new process.
Fresh ==
  /\ game = NewGame
  /\ loading = TRUE
  /\ animating = FALSE
  /\ presenting = None
  /\ walks = NoWalks
  /\ clearing = <<>>
  /\ cleared = 0
  /\ store = "opening"
  /\ writes = <<>>

ShellInit ==
  /\ Fresh
  /\ today \in Dates
  /\ disk \in OldSaves \cup {None}

----------------------------------------------------------------------------
(* Saving, and the look at the date after every change. *)

Save(g) == [op |-> "save", json |-> ToJson(g)]

Remove == [op |-> "remove"]

Observed(g) == [g EXCEPT !.life = Observe(@, today)]

\* Mutation: what the date brings is not saved.
SavesNothing(g, seen) == <<>>

\* _checkCalendarEvent saves again what it changed.  (It may also save once
\* more what it copied without a change, which writes the same value twice.)
SavesOfObserving(g, seen) == IF seen = g THEN <<>> ELSE <<Save(seen)>>

\* _presentQueuedTransformation: what is queued is presented, unless something
\* is being presented.
Present(after, busy) ==
  IF after.life.pendingTransformationFormId # None /\ presenting = None
    THEN /\ presenting' = after.life.pendingTransformationFormId
         /\ animating' = TRUE
    ELSE /\ animating' = busy
         /\ UNCHANGED presenting

\* _applyAction; busy is _animating if no presentation begins.
ApplyAction(outcomes, busy) ==
  \E g \in outcomes : \E seen \in {Observed(g)} :
    /\ game' = seen
    /\ writes' = writes \o <<Save(g)>> \o SavesOfObserving(g, seen)
    /\ Present(seen, busy)

----------------------------------------------------------------------------
(* Starting. *)

\* Mutation: what a save left in the queue waits.
LoadedWithoutPresenting(g) ==
  /\ loading' = FALSE
  /\ \E seen \in {Observed(g)} :
       /\ game' = seen
       /\ writes' = writes \o SavesOfObserving(g, seen)
  /\ UNCHANGED <<today, walks, clearing, cleared, animating, presenting>>

\* The rest of _loadSavedGame, with the game it found or the fresh one.
Loaded(g) ==
  /\ loading' = FALSE
  /\ \E seen \in {Observed(g)} :
       /\ game' = seen
       /\ writes' = writes \o SavesOfObserving(g, seen)
       /\ Present(seen, animating)
  /\ UNCHANGED <<today, walks, clearing, cleared>>

\* The preferences have been read; a load that still waits has its reply.
StoreOpens ==
  /\ store = "opening"
  /\ store' = "open"
  /\ UNCHANGED disk
  /\ IF loading
       THEN Loaded(IF disk = None THEN NewGame ELSE FromJson(disk))
       ELSE UNCHANGED <<game, today, roomVars, writes>>

\* Mutation: only a failed load gives up.
LoadFails ==
  /\ loading
  /\ store = "open"
  /\ Loaded(NewGame)
  /\ UNCHANGED <<store, disk>>

\* Two seconds are over, or the load failed.
LoadGivesUp ==
  /\ loading
  /\ Loaded(NewGame)
  /\ UNCHANGED <<store, disk>>

----------------------------------------------------------------------------
(* The player's actions. *)

\* Saves on their way to the device, and replies on their way back.
Underway == Cardinality({i \in DOMAIN writes : writes[i].op = "save"}) + cleared

\* _dispatch does nothing while something moves.  It is not told of a clear: the
\* reset's dialog is gone and the sheet can be dismissed before the reply comes.
CanDispatch ==
  /\ ~loading
  /\ ~animating
  /\ Underway < MaxWrites

WalkIsOver == SelectedIsGone(game) \/ AtSelected(game)

Interaction(purpose) ==
  IF purpose = "use" THEN Use(game, game.selectedItemId)
                     ELSE Inspect(game, game.selectedItemId)

\* A greeting changes words and the activity moment, with the sky it shows.
Greet(g) == SyncActivityPhase(g)

\* An action the reducer carries out at once.  The panel asks for a tick, an
\* inspection or a use without a walk only where none is needed.
Dispatch ==
  /\ CanDispatch
  /\ \/ game.tickCount < MaxTicks /\ WalkIsOver /\ ApplyAction(Tick(game), FALSE)
     \/ ApplyAction({Greet(game)}, FALSE)
     \/ /\ game.nextItemId <= MaxSpawns
        /\ \E template \in AllTemplates : ApplyAction(Spawn(game, template), FALSE)
     \/ \E template \in CustomTemplates :
          ApplyAction({CreateCustomTemplate(game, template)}, FALSE)
     \/ \E id \in ItemIds : \/ ApplyAction({SelectItem(game, id)}, FALSE)
                            \/ ApplyAction({RemoveStageItem(game, id)}, FALSE)
     \/ ApplyAction({ClearStage(game)}, FALSE)
     \/ \E purpose \in {"use", "inspect"} :
          AtSelected(game) /\ ApplyAction(Interaction(purpose), FALSE)
  /\ UNCHANGED <<today, loading, walks, clearing, cleared, store, disk>>

\* Scoot, or Use or Inspect on an item out of reach: the first tick at once.
StartWalk(purpose) ==
  /\ CanDispatch
  /\ game.tickCount < MaxTicks
  /\ ~WalkIsOver
  /\ walks["advance"] + walks["use"] + walks["inspect"] < MaxWalks
  /\ walks' = [walks EXCEPT ![purpose] = @ + 1]
  /\ ApplyAction(Tick(game), TRUE)
  /\ UNCHANGED <<today, loading, clearing, cleared, store, disk>>

\* Mutation: the walk leaves _animating as it is.
WalkOnBusy(purpose) ==
  /\ walks[purpose] > 0
  /\ IF WalkIsOver
       THEN /\ walks' = [walks EXCEPT ![purpose] = @ - 1]
            /\ UNCHANGED <<game, writes, presenting, animating>>
       ELSE /\ ApplyAction(Tick(game), animating)
            /\ UNCHANGED walks
  /\ UNCHANGED <<today, loading, clearing, cleared, store, disk>>

\* 260 ms later: another tick, or the end of the walk and what it was for.
WalkOn(purpose) ==
  /\ walks[purpose] > 0
  /\ IF WalkIsOver
       THEN /\ walks' = [walks EXCEPT ![purpose] = @ - 1]
            /\ IF purpose = "advance" \/ SelectedIsGone(game)
                 THEN /\ animating' = FALSE
                      /\ UNCHANGED <<game, writes, presenting>>
                 ELSE ApplyAction(Interaction(purpose), FALSE)
       ELSE /\ ApplyAction(Tick(game), animating)
            /\ UNCHANGED walks
  /\ UNCHANGED <<today, loading, clearing, cleared, store, disk>>

\* The animation has run: whatever is queued now is completed.
PresentationEnds ==
  /\ presenting # None
  /\ presenting' = None
  /\ animating' = FALSE
  /\ \E g \in {CompleteTransformation(game)} : \E seen \in {Observed(g)} :
       /\ game' = seen
       /\ writes' = writes \o <<Save(g)>> \o SavesOfObserving(g, seen)
  /\ UNCHANGED <<today, loading, walks, clearing, cleared, store, disk>>

----------------------------------------------------------------------------
(* Clearing the save: "Clear saved game", "Clear all private app data" and  *)
(* "Reset".  Another clear may be confirmed while one is awaited; as writes *)
(* are in order, so are the replies.                                        *)

Confirm(how) ==
  /\ ~loading
  /\ Len(clearing) < MaxClearings
  /\ Len(writes) < MaxWrites
  /\ clearing' = Append(clearing, how)
  /\ writes' = Append(writes, Remove)
  /\ UNCHANGED <<game, today, loading, animating, presenting, walks, cleared, store,
                 disk>>

\* The clear awaited longest has its reply.
Replied(ways) ==
  /\ clearing # <<>>
  /\ Head(clearing) \in ways
  /\ cleared > 0
  /\ cleared' = cleared - 1

\* All preferences are cleared after the save is.
EraseAll ==
  /\ Replied({"erase"})
  /\ clearing' = Append(Tail(clearing), "eraseAll")
  /\ writes' = Append(writes, Remove)
  /\ UNCHANGED <<game, today, loading, animating, presenting, walks, store, disk>>

\* Mutation: a reset saves nothing, like the other two.
StartOverUnsaved ==
  /\ Replied({"clear", "eraseAll", "reset"})
  /\ clearing' = Tail(clearing)
  /\ game' = NewGame
  /\ UNCHANGED <<today, loading, animating, presenting, walks, storeVars>>

\* Only a reset saves the fresh game.
StartOver ==
  /\ Replied({"clear", "eraseAll", "reset"})
  /\ clearing' = Tail(clearing)
  /\ game' = NewGame
  /\ writes' = IF Head(clearing) = "reset" THEN Append(writes, Save(NewGame)) ELSE writes
  /\ UNCHANGED <<today, loading, animating, presenting, walks, store, disk>>

----------------------------------------------------------------------------
(* The device. *)

WriteReachesDisk ==
  /\ store = "open"
  /\ writes # <<>>
  /\ writes' = Tail(writes)
  /\ disk' = IF Head(writes).op = "save" THEN Head(writes).json ELSE None
  /\ cleared' = IF Head(writes).op = "remove" THEN cleared + 1 ELSE cleared
  /\ UNCHANGED <<game, today, loading, animating, presenting, walks, clearing, store>>

\* The app is closed or killed, and opened again: what is on its way is lost.
Restart ==
  /\ game' = NewGame
  /\ loading' = TRUE
  /\ animating' = FALSE
  /\ presenting' = None
  /\ walks' = NoWalks
  /\ clearing' = <<>>
  /\ cleared' = 0
  /\ store' = "opening"
  /\ writes' = <<>>
  /\ UNCHANGED <<today, disk>>

\* The date may change during a walk or a presentation, but not, within the bound,
\* while much is on its way to the device.
ShellDateChanges ==
  /\ Len(writes) + Len(clearing) < MaxWrites
  /\ DateChanges
  /\ UNCHANGED <<roomVars, storeVars>>

ShellNext ==
  \/ StoreOpens
  \/ LoadGivesUp
  \/ Dispatch
  \/ \E purpose \in Purposes : StartWalk(purpose) \/ WalkOn(purpose)
  \/ PresentationEnds
  \/ \E how \in Clearings : Confirm(how)
  \/ EraseAll
  \/ StartOver
  \/ WriteReachesDisk
  \/ Restart
  \/ ShellDateChanges

ShellSpec == ShellInit /\ [][ShellNext]_shellVars

\* A timer of the app fires at last: nothing is assumed of the order in which
\* several do, of the device's storage or of the player.
TimerFires ==
  \/ LoadGivesUp
  \/ PresentationEnds
  \/ \E purpose \in Purposes : WalkOn(purpose)

FairShellSpec == ShellSpec /\ WF_shellVars(TimerFires)

----------------------------------------------------------------------------
(* Properties. *)

\* What the disk will hold when all that is on its way has arrived.
LastWritten ==
  IF writes = <<>> THEN disk
  ELSE IF writes[Len(writes)].op = "save" THEN writes[Len(writes)].json
  ELSE None

\* The world in play is the world being saved, whatever overlaps with whatever:
\* every path that changes the game, a tick of a walk, a completion, a look at the
\* date, a late reply to a clear, ends with that game as the last write under way,
\* from which a restart would restore it.  Only a world just begun may be unsaved.
SavedIsShown ==
  ~loading /\ clearing = <<>> /\ game # NewGame
    => LastWritten # None /\ FromJson(LastWritten) = game

\* PLAYTEST_QA_CHECKLIST.md:49, "Save restore preserves needs, items, unlocks, and
\* current state cleanly": reading back what is saved now would give the game as it
\* is, with its clock, its queue of surprises and what Chatty pursues.
SaveRestoresTheGame == FromJson(ToJson(game)) = game

\* A queued form is presented as soon as it is seen, after an action, a walk's tick
\* or a restart.  Only an event that the very completion of another form brought
\* stays in the queue without an animation, until the next action.
OnlyAnEventWaits ==
  ~loading /\ presenting = None /\ game.life.pendingTransformationFormId # None
    => game.life.pendingCalendarEventKey # None

\* chatty_pet_app.dart:240, "Never strand the toy room behind a failed local-storage
\* read", and behind nothing else: the room opens even if the storage never answers,
\* each walk arrives and each presentation ends, also when they overlap or when the
\* item or the world disappears under them.
RoomOpens ==
  /\ loading ~> ~loading
  /\ animating ~> ~animating

\* PLAYTEST_QA_CHECKLIST.md:51, "Reset fully clears local progress and starts fresh":
\* when a reset has come back, a fresh world is what the device will hold, though the
\* old one may have been saved again in the meantime, or other clears are awaited.
ResetStartsFresh ==
  [][ (clearing # <<>> /\ Head(clearing) = "reset" /\ clearing' = Tail(clearing) /\ ~loading')
        => LastWritten' = ToJson(NewGame) ]_shellVars

=============================================================================
