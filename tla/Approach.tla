------------------------------ MODULE Approach -----------------------------
(***************************************************************************)
(* Play with the three actions that the reducer carries out as a walk of   *)
(* many ticks at once.  The app replaces them by single ticks while an     *)
(* item is selected and out of reach; tests and other callers do not.      *)
(***************************************************************************)
EXTENDS Play

DoAdvance ==
  /\ game.tickCount < MaxTicks
  /\ game' \in AdvanceToSelectedItem(game)
  /\ UNCHANGED today

DoUseWhenReady ==
  /\ game.tickCount < MaxTicks
  /\ game' \in UseSelectedItemWhenReady(game)
  /\ UNCHANGED today

DoInspectWhenReady ==
  /\ game.tickCount < MaxTicks
  /\ game' \in InspectSelectedItemWhenReady(game)
  /\ UNCHANGED today

ApproachNext == Next \/ DoAdvance \/ DoUseWhenReady \/ DoInspectWhenReady

ApproachSpec == Init /\ [][ApproachNext]_vars

----------------------------------------------------------------------------
(* Properties. *)

\* One request is enough: as long as something is selected, "walk there" ends
\* beside it, whatever else lies on the stage, what the pet pursued and whichever
\* mornings pass on the way.  The number of steps allowed never cuts a walk off.
WalksArrive ==
  [][ DoAdvance
        => \A i \in ItemsWithId(game, game.selectedItemId) :
             InReach(game'.pet.position, i.position) ]_vars

\* "Use when ready" always uses the selected item, and only that one: it is used up,
\* which takes what is not a toy off the stage, and its care is recorded once.
UseWhenReadyUsesTheSelected ==
  [][ DoUseWhenReady
        => \A i \in ItemsWithId(game, game.selectedItemId) :
             /\ IsUsedUp(i)
             /\ game'.life.moments
                  = [game.life.moments EXCEPT ![CareKindOf[i.templateId]] = @ + 1] ]_vars

=============================================================================
