------------------------------ MODULE TalkTurns -----------------------------
(***************************************************************************)
(* What Talk to Chatty promises the child: one question at a time, each    *)
(* with one ending, and an ending to wait for as long as the panel stays   *)
(* open.                                                                   *)
(***************************************************************************)
EXTENDS Naturals, Sequences

CONSTANTS Questions, None

VARIABLES
  talking,         (* The question Chatty thinks about, or None.  *)
  endings          (* endings[q]: how question q was ended.       *)

turnVars == <<talking, endings>>

\* Answered by the model; a friendly answer after 35 s; put down by Stop; lost by
\* the engine; refused before it began.
Endings == {"answered", "tangled", "stopped", "lost", "refused"}

TurnsTypeOK ==
  /\ talking \in Questions \cup {None}
  /\ endings \in [Questions -> Seq(Endings)]

Init ==
  /\ talking = None
  /\ endings = [q \in Questions |-> <<>>]

Ask(q) ==
  /\ talking = None
  /\ endings[q] = <<>>
  /\ talking' = q
  /\ UNCHANGED endings

End ==
  /\ talking # None
  /\ talking' = None
  /\ \E how \in Endings : endings' = [endings EXCEPT ![talking] = Append(@, how)]

\* The panel is closed with the conversation in it.
Leave ==
  /\ talking' = None
  /\ UNCHANGED endings

Next == (\E q \in Questions : Ask(q)) \/ End \/ Leave

Spec == Init /\ [][Next]_turnVars

----------------------------------------------------------------------------
\* No question is ended twice, and one that is thought about is not ended yet.
OneEndingEach ==
  \A q \in Questions : Len(endings[q]) <= IF q = talking THEN 0 ELSE 1

\* A question that is thought about is ended, or the panel is left.
EveryTurnEnds == talking # None ~> talking = None

=============================================================================
