---------------------------- MODULE ModelInstall ----------------------------
(***************************************************************************)
(* How the language model comes out of the app's package                   *)
(* (ChattyTalkService.prepareModel in lib/app/chatty_talk_service.dart):   *)
(* every question first makes sure that a file of the asset's length is at *)
(* the destination, and copies the asset there if not.                     *)
(*                                                                         *)
(* A step is what happens between two awaits.  A panel that is closed does *)
(* not stop its call, and the next panel makes one of its own, so calls    *)
(* may overlap.  The asset is a number of blocks, written one by one; a    *)
(* file is its length and the blocks in it that are the asset's.           *)
(***************************************************************************)
EXTENDS Naturals, FiniteSets, FiniteSetsExt

CONSTANTS
  Calls,           (* The calls ever made.                              *)
  MaxTogether,     (* Bound on the calls under way at once.             *)
  Blocks,          (* The length of the asset.                          *)
  OldLengths,      (* Lengths of a model that an older app has left.    *)
  Old,             (* That model's file.                                *)
  None             (* No file                                           *)

ASSUME InstallAssumption ==
  /\ MaxTogether \in Nat
  /\ Blocks \in Nat \ {0}
  /\ OldLengths \subseteq Nat \ {Blocks}
  /\ Old \notin Calls
  /\ None \notin Calls \cup {Old}

VARIABLES
  step,            (* Where a call is.                                  *)
  handle,          (* The file a call has opened for writing, or None.  *)
  written,         (* The blocks it has written.                        *)
  alone,           (* No other call was under way since it began.       *)
  file,            (* The contents of the files ever made.              *)
  destination,     (* The file of that name, or None.                   *)
  temporary        (* The file of that name with ".installing", or None.*)

vars == <<step, handle, written, alone, file, destination, temporary>>

\* A file is known by the call that created it.
Files == Calls \cup {Old}

Steps == {"unborn", "looking", "measuring", "clearing", "removing", "opening",
          "writing", "checking", "replacing", "renaming", "ready", "failed", "lost"}

Contents == [length : Nat, good : SUBSET (1 .. Blocks)]

Whole(f) == f # None /\ file[f] = [length |-> Blocks, good |-> 1 .. Blocks]

TypeOK ==
  /\ step \in [Calls -> Steps]
  /\ handle \in [Calls -> Files \cup {None}]
  /\ written \in [Calls -> 0 .. Blocks]
  /\ alone \in [Calls -> BOOLEAN]
  /\ file \in [Files -> Contents]
  /\ destination \in Files \cup {None}
  /\ temporary \in Files \cup {None}
  /\ destination = temporary => destination = None

Empty == [length |-> 0, good |-> {}]

Init ==
  /\ step = [c \in Calls |-> "unborn"]
  /\ handle = [c \in Calls |-> None]
  /\ written = [c \in Calls |-> 0]
  /\ alone = [c \in Calls |-> FALSE]
  /\ temporary = None
  /\ \/ /\ destination = None
        /\ file = [f \in Files |-> Empty]
     \/ /\ destination = Old
        /\ \E n \in OldLengths :
             file = [f \in Files |-> IF f = Old THEN [length |-> n, good |-> {}]
                                                ELSE Empty]

----------------------------------------------------------------------------

Underway == {c \in Calls : step[c] \notin {"unborn", "ready", "failed", "lost"}}

At(c, where) == step[c] = where

Goes(c, where) == step' = [step EXCEPT ![c] = where]

\* Steps that look at the files, and do not change them.
FilesUnchanged == UNCHANGED <<handle, written, alone, file, destination, temporary>>

Call(c) ==
  /\ At(c, "unborn")
  /\ Cardinality(Underway) < MaxTogether
  /\ Goes(c, "looking")
  /\ alone' = [d \in Calls |-> IF d = c THEN Underway = {}
                                        ELSE alone[d] /\ d \notin Underway]
  /\ UNCHANGED <<handle, written, file, destination, temporary>>

\* await destination.exists()
LookForModel(c) ==
  /\ At(c, "looking")
  /\ Goes(c, IF destination = None THEN "clearing" ELSE "measuring")
  /\ FilesUnchanged

\* Mutation: any model there is will do.
TrustModel(c) ==
  /\ At(c, "measuring")
  /\ Goes(c, IF destination = None THEN "failed" ELSE "ready")
  /\ FilesUnchanged

\* await destination.length(), which fails if the file has gone.
MeasureModel(c) ==
  /\ At(c, "measuring")
  /\ Goes(c, IF destination = None THEN "failed"
             ELSE IF file[destination].length = Blocks THEN "ready"
             ELSE "clearing")
  /\ FilesUnchanged

\* await temporary.exists()
LookForTemporary(c) ==
  /\ At(c, "clearing")
  /\ Goes(c, IF temporary = None THEN "opening" ELSE "removing")
  /\ FilesUnchanged

\* await temporary.delete(): whoever still writes to the file goes on doing so.
RemoveTemporary(c) ==
  /\ At(c, "removing")
  /\ Goes(c, IF temporary = None THEN "failed" ELSE "opening")
  /\ temporary' = None
  /\ UNCHANGED <<handle, written, alone, file, destination>>

\* writeAsBytes opens the file, and empties the one it finds.
OpenTemporary(c) ==
  /\ At(c, "opening")
  /\ Goes(c, "writing")
  /\ LET f == IF temporary = None THEN c ELSE temporary
     IN  /\ temporary' = f
         /\ handle' = [handle EXCEPT ![c] = f]
         /\ file' = [file EXCEPT ![f] = Empty]
  /\ UNCHANGED <<written, alone, destination>>

\* The asset's blocks in turn, each at its place.
WriteBlock(c) ==
  LET n == written[c] + 1
  IN  /\ At(c, "writing")
      /\ Goes(c, IF n = Blocks THEN "checking" ELSE "writing")
      /\ written' = [written EXCEPT ![c] = n]
      /\ file' = [file EXCEPT ![handle[c]] =
                    [length |-> Max({@.length, n}), good |-> @.good \cup {n}]]
      /\ UNCHANGED <<handle, alone, destination, temporary>>

\* await destination.exists(), once more
LookForOldModel(c) ==
  /\ At(c, "checking")
  /\ Goes(c, IF destination = None THEN "renaming" ELSE "replacing")
  /\ FilesUnchanged

\* await destination.delete()
RemoveOldModel(c) ==
  /\ At(c, "replacing")
  /\ Goes(c, IF destination = None THEN "failed" ELSE "renaming")
  /\ destination' = None
  /\ UNCHANGED <<handle, written, alone, file, temporary>>

\* Mutation: the temporary file is copied, and stays.
LinkTemporary(c) ==
  /\ At(c, "renaming")
  /\ Goes(c, IF temporary = None THEN "failed" ELSE "ready")
  /\ destination' = IF temporary = None THEN destination ELSE temporary
  /\ UNCHANGED <<handle, written, alone, file, temporary>>

\* await temporary.rename(...): whatever bears the name by now.
RenameTemporary(c) ==
  /\ At(c, "renaming")
  /\ Goes(c, IF temporary = None THEN "failed" ELSE "ready")
  /\ destination' = IF temporary = None THEN destination ELSE temporary
  /\ temporary' = None
  /\ UNCHANGED <<handle, written, alone, file>>

\* Storage is full, or access fails: the call ends with an exception.
Fail(c) ==
  /\ c \in Underway
  /\ Goes(c, "failed")
  /\ FilesUnchanged

\* The app ends at any moment; the files stay.
Crash ==
  /\ Underway # {}
  /\ step' = [c \in Calls |-> IF c \in Underway THEN "lost" ELSE step[c]]
  /\ FilesUnchanged

CallSteps(c) ==
  \/ Call(c)
  \/ LookForModel(c)
  \/ MeasureModel(c)
  \/ LookForTemporary(c)
  \/ RemoveTemporary(c)
  \/ OpenTemporary(c)
  \/ WriteBlock(c)
  \/ LookForOldModel(c)
  \/ RemoveOldModel(c)
  \/ RenameTemporary(c)
  \/ Fail(c)

Next == Crash \/ \E c \in Calls : CallSteps(c)

Spec == Init /\ [][Next]_vars

----------------------------------------------------------------------------
(* What the engine is given. *)

\* chatty_talk_panel.dart:144 asks the child to "try again in a moment" when a
\* question fails: whatever became of the calls before, crashed or failed halfway, a
\* call that no other disturbs ends with an exception or with the whole model.
UndisturbedModelIsWhole ==
  [][ \A c \in Calls : alone[c] /\ ~At(c, "ready") /\ step'[c] = "ready"
                          => Whole(destination)' ]_vars

=============================================================================
