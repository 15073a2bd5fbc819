------------------------- MODULE ModelInstallProofs -------------------------
(***************************************************************************)
(* Calls that follow one another install the whole model, whatever crashes *)
(* and fails: for any number of calls, any length of the asset and any     *)
(* lengths of an older model.  Calls that overlap do not, as a run shows.  *)
(***************************************************************************)
EXTENDS ModelInstall, FiniteSetTheorems, TLAPS

Early == {"unborn", "looking", "measuring", "clearing", "removing", "opening"}

Late == {"checking", "replacing", "renaming"}

\* A call's own file is nowhere before it is opened.
UnopenedIsNowhere ==
  \A c \in Calls : step[c] \in Early => /\ destination # c
                                        /\ temporary # c
                                        /\ written[c] = 0

\* A call that writes has something left to write.
WritingHasMore ==
  \A c \in Calls : step[c] = "writing" => written[c] < Blocks

TypeInv == TypeOK /\ UnopenedIsNowhere /\ WritingHasMore

OneCallAtATime ==
  \A c, d \in Underway : c = d

\* The length of what is installed can be trusted.
InstalledIsWhole ==
  destination # None /\ file[destination].length = Blocks => Whole(destination)

\* The call under way writes to the temporary file, in order from its beginning.
TemporaryGrows ==
  \A c \in Calls :
    /\ step[c] = "writing" =>
         /\ temporary # None
         /\ handle[c] = temporary
         /\ file[temporary] = [length |-> written[c], good |-> 1 .. written[c]]
    /\ step[c] \in Late => Whole(temporary)

InstallInv ==
  /\ TypeInv
  /\ OneCallAtATime
  /\ InstalledIsWhole
  /\ TemporaryGrows

\* A file is as long as the longer of what it was and where it is written to.
LEMMA MaxOfTwo ==
  ASSUME NEW m \in Nat, NEW n \in Nat
  PROVE  /\ Max({m, n}) \in {m, n}
         /\ Max({m, n}) >= m
         /\ Max({m, n}) >= n
<1>1. \E x \in {m, n} : \A y \in {m, n} : x >= y
  <2>1. CASE m >= n
    BY <2>1
  <2>2. CASE n >= m
    BY <2>2
  <2>3. QED
    BY <2>1, <2>2
<1>2. QED
  BY <1>1 DEF Max

\* Nothing is installed but, perhaps, an older model.
LEMMA TypesBegin == Init => TypeInv
<1> SUFFICES ASSUME Init
             PROVE  TypeInv
  OBVIOUS
<1>1. Empty \in Contents
  BY DEF Empty, Contents
<1>2. \A n \in OldLengths : [length |-> n, good |-> {}] \in Contents
  BY InstallAssumption DEF Contents
<1>3. file \in [Files -> Contents]
  BY <1>1, <1>2 DEF Init
<1>4. /\ step = [c \in Calls |-> "unborn"]
      /\ handle = [c \in Calls |-> None]
      /\ written = [c \in Calls |-> 0]
      /\ alone = [c \in Calls |-> FALSE]
      /\ temporary = None
      /\ destination \in {None, Old}
  BY DEF Init
<1>5. TypeOK
  BY <1>3, <1>4, InstallAssumption DEF TypeOK, Steps, Files
<1>6. QED
  BY <1>4, <1>5, InstallAssumption DEF TypeInv, UnopenedIsNowhere, WritingHasMore

\* No step, of however many calls at once, leaves the types.
LEMMA TypesStay ==
  ASSUME TypeInv, [Next]_vars
  PROVE  TypeInv'
<1> USE InstallAssumption
    DEF TypeInv, TypeOK, UnopenedIsNowhere, WritingHasMore, Early, Steps, Files
<1>1. ASSUME NEW c \in Calls, Call(c)
      PROVE  TypeInv'
  BY <1>1 DEF Call, At, Goes
<1>2. ASSUME NEW c \in Calls,
             \/ LookForModel(c) \/ MeasureModel(c) \/ LookForTemporary(c)
             \/ LookForOldModel(c) \/ Fail(c)
      PROVE  TypeInv'
  BY <1>2 DEF LookForModel, MeasureModel, LookForTemporary, LookForOldModel, Fail,
              Underway, FilesUnchanged, At, Goes
<1>3. ASSUME NEW c \in Calls, RemoveTemporary(c)
      PROVE  TypeInv'
  BY <1>3 DEF RemoveTemporary, At, Goes
<1>4. ASSUME NEW c \in Calls, OpenTemporary(c)
      PROVE  TypeInv'
  BY <1>4 DEF OpenTemporary, Empty, Contents, At, Goes
<1>5. ASSUME NEW c \in Calls, WriteBlock(c)
      PROVE  TypeInv'
  <2> DEFINE n == written[c] + 1
             g == [length |-> Max({file[handle[c]].length, n}),
                   good   |-> file[handle[c]].good \cup {n}]
  <2>1. n \in 1 .. Blocks
    BY <1>5 DEF WriteBlock, At
  <2>2. file' = [file EXCEPT ![handle[c]] = g]
    BY <1>5 DEF WriteBlock
  <2>3. handle[c] \in Files => g \in Contents
    <3> SUFFICES ASSUME handle[c] \in Files
                 PROVE  g \in Contents
      OBVIOUS
    <3>1. /\ file[handle[c]].length \in Nat
          /\ file[handle[c]].good \in SUBSET (1 .. Blocks)
      BY DEF Contents
    <3>2. Max({file[handle[c]].length, n}) \in Nat
      BY <2>1, <3>1, MaxOfTwo
    <3>3. QED
      BY <2>1, <3>1, <3>2 DEF Contents
  <2>4. file' \in [Files -> Contents]
    BY <2>2, <2>3
  <2>5. /\ written' = [written EXCEPT ![c] = n]
        /\ step' = [step EXCEPT ![c] = IF n = Blocks THEN "checking" ELSE "writing"]
        /\ step[c] = "writing"
        /\ UNCHANGED <<handle, alone, destination, temporary>>
    BY <1>5 DEF WriteBlock, At, Goes
  <2> HIDE DEF n, g
  <2>6. n # Blocks => n < Blocks
    BY <2>1
  <2>7. TypeOK'
    BY <2>1, <2>4, <2>5
  <2>8. UnopenedIsNowhere'
    BY <2>5
  <2>9. WritingHasMore'
    BY <2>1, <2>5, <2>6
  <2>10. QED
    BY <2>7, <2>8, <2>9
<1>6. ASSUME NEW c \in Calls, RemoveOldModel(c)
      PROVE  TypeInv'
  BY <1>6 DEF RemoveOldModel, At, Goes
<1>7. ASSUME NEW c \in Calls, RenameTemporary(c)
      PROVE  TypeInv'
  BY <1>7 DEF RenameTemporary, At, Goes
<1>8. CASE Crash
  BY <1>8 DEF Crash, FilesUnchanged, Underway
<1>9. CASE UNCHANGED vars
  BY <1>9 DEF vars
<1>10. QED
  BY <1>1, <1>2, <1>3, <1>4, <1>5, <1>6, <1>7, <1>8, <1>9 DEF Next, CallSteps

----------------------------------------------------------------------------
(* One call at a time. *)

\* A call that finds no room for another begins alone.
LEMMA CallBeginsAlone ==
  ASSUME IsFiniteSet(Calls), MaxTogether = 1, NEW c \in Calls, Call(c)
  PROVE  Underway = {}
<1>1. IsFiniteSet(Underway)
  BY FS_Subset DEF Underway
<1>2. Cardinality(Underway) < 1
  BY DEF Call
<1>3. Cardinality(Underway) = 0
  BY <1>1, <1>2, FS_CardinalityType
<1>4. QED
  BY <1>1, <1>3, FS_EmptySet

\* An older model has not the asset's length.
LEMMA InstallBegins == Init => InstallInv
<1> SUFFICES ASSUME Init
             PROVE  InstallInv
  OBVIOUS
<1>1. TypeInv
  BY TypesBegin
<1>2. OneCallAtATime /\ TemporaryGrows
  BY DEF Init, OneCallAtATime, Underway, TemporaryGrows, Late
<1>3. InstalledIsWhole
  BY InstallAssumption DEF Init, InstalledIsWhole, Files
<1>4. QED
  BY <1>1, <1>2, <1>3 DEF InstallInv

\* What one undisturbed call does to the files.
LEMMA InstallStays ==
  ASSUME IsFiniteSet(Calls), MaxTogether = 1, InstallInv, [Next]_vars
  PROVE  InstallInv'
<1>1. TypeInv'
  BY TypesStay DEF InstallInv
<1> USE InstallAssumption
<1> USE DEF InstallInv, TypeInv, TypeOK, OneCallAtATime, InstalledIsWhole, TemporaryGrows,
            Whole, Underway, Late, Files, Steps
<1>2. ASSUME NEW c \in Calls, Call(c)
      PROVE  InstallInv'
  <2>1. Underway = {}
    BY <1>2, CallBeginsAlone
  <2>2. QED
    BY <1>1, <1>2, <2>1 DEF Call, At, Goes
<1>3. ASSUME NEW c \in Calls,
             LookForModel(c) \/ MeasureModel(c) \/ LookForTemporary(c) \/ Fail(c)
      PROVE  InstallInv'
  <2>1. /\ FilesUnchanged
        /\ c \in Underway
        /\ \E where \in Steps \ ({"writing"} \cup Late) : Goes(c, where)
    BY <1>3 DEF LookForModel, MeasureModel, LookForTemporary, Fail, At
  <2>2. OneCallAtATime'
    BY <2>1 DEF Goes
  <2>3. InstalledIsWhole'
    BY <2>1 DEF FilesUnchanged
  <2>4. TemporaryGrows'
    BY <2>1 DEF FilesUnchanged, Goes
  <2>5. QED
    BY <1>1, <2>2, <2>3, <2>4
<1>4. ASSUME NEW c \in Calls, RemoveTemporary(c)
      PROVE  InstallInv'
  <2>1. OneCallAtATime'
    BY <1>4 DEF RemoveTemporary, At, Goes
  <2>2. InstalledIsWhole'
    BY <1>4 DEF RemoveTemporary, At, Goes
  <2>3. TemporaryGrows'
    BY <1>4 DEF RemoveTemporary, At, Goes
  <2>4. QED
    BY <1>1, <2>1, <2>2, <2>3
<1>5. ASSUME NEW c \in Calls, OpenTemporary(c)
      PROVE  InstallInv'
  <2>1. OneCallAtATime'
    BY <1>5 DEF OpenTemporary, Empty, At, Goes, UnopenedIsNowhere, Early
  <2>2. InstalledIsWhole'
    BY <1>5 DEF OpenTemporary, Empty, At, Goes, UnopenedIsNowhere, Early
  <2>3. TemporaryGrows'
    <3>1. /\ temporary' \in Files
          /\ handle' = [handle EXCEPT ![c] = temporary']
          /\ file' = [file EXCEPT ![temporary'] = Empty]
          /\ step' = [step EXCEPT ![c] = "writing"]
          /\ written' = written
          /\ written[c] = 0
      BY <1>5 DEF OpenTemporary, At, Goes, UnopenedIsNowhere, Early
    <3>2. file'[temporary'] = [length |-> 0, good |-> 1 .. 0]
      BY <3>1 DEF Empty
    <3>3. \A d \in Calls : d # c => step'[d] \notin {"writing"} \cup Late
      BY <1>5, <3>1 DEF OpenTemporary, At
    <3>4. QED
      BY <3>1, <3>2, <3>3
  <2>4. QED
    BY <1>1, <2>1, <2>2, <2>3
<1>6. ASSUME NEW c \in Calls, WriteBlock(c)
      PROVE  InstallInv'
  <2>1. OneCallAtATime'
    BY <1>6 DEF WriteBlock, At, Goes
  <2>2. InstalledIsWhole'
    BY <1>6, MaxOfTwo DEF WriteBlock, At, Goes
  <2>3. TemporaryGrows'
    <3> DEFINE n == written[c] + 1
    <3>1. /\ temporary \in Files
          /\ handle[c] = temporary
          /\ written[c] \in 0 .. Blocks - 1
          /\ file[temporary] = [length |-> written[c], good |-> 1 .. written[c]]
      BY <1>6 DEF WriteBlock, At, WritingHasMore
    <3>2. Max({written[c], n}) = n
      BY <3>1, MaxOfTwo
    <3>3. /\ temporary' = temporary /\ handle' = handle
          /\ written' = [written EXCEPT ![c] = n]
          /\ step' = [step EXCEPT ![c] = IF n = Blocks THEN "checking" ELSE "writing"]
      BY <1>6 DEF WriteBlock, At, Goes
    <3>4. file'[temporary] = [length |-> n, good |-> 1 .. n]
      <4>1. file' = [file EXCEPT ![temporary] =
                       [length |-> Max({@.length, n}), good |-> @.good \cup {n}]]
        BY <1>6, <3>1 DEF WriteBlock
      <4>2. (1 .. written[c]) \cup {n} = 1 .. n
        BY <3>1
      <4>3. file'[temporary] = [length |-> Max({file[temporary].length, n}),
                                good   |-> file[temporary].good \cup {n}]
        BY <3>1, <4>1
      <4>4. /\ file[temporary].length = written[c]
            /\ file[temporary].good = 1 .. written[c]
        BY <3>1
      <4>5. QED
        BY <3>2, <4>2, <4>3, <4>4
    <3>5. \A d \in Calls : d # c => step'[d] \notin {"writing"} \cup Late
      BY <1>6, <3>3 DEF WriteBlock, At
    <3> HIDE DEF n
    <3>6. QED
      BY <3>1, <3>3, <3>4, <3>5
  <2>4. QED
    BY <1>1, <2>1, <2>2, <2>3
<1>7. ASSUME NEW c \in Calls, LookForOldModel(c)
      PROVE  InstallInv'
  BY <1>1, <1>7 DEF LookForOldModel, FilesUnchanged, At, Goes
<1>8. ASSUME NEW c \in Calls, RemoveOldModel(c)
      PROVE  InstallInv'
  <2>1. OneCallAtATime'
    BY <1>8 DEF RemoveOldModel, At, Goes
  <2>2. InstalledIsWhole'
    BY <1>8 DEF RemoveOldModel, At, Goes
  <2>3. TemporaryGrows'
    BY <1>8 DEF RemoveOldModel, At, Goes
  <2>4. QED
    BY <1>1, <2>1, <2>2, <2>3
<1>9. ASSUME NEW c \in Calls, RenameTemporary(c)
      PROVE  InstallInv'
  <2>1. OneCallAtATime'
    BY <1>9 DEF RenameTemporary, At, Goes
  <2>2. InstalledIsWhole'
    BY <1>9 DEF RenameTemporary, At, Goes
  <2>3. TemporaryGrows'
    BY <1>9 DEF RenameTemporary, At, Goes
  <2>4. QED
    BY <1>1, <2>1, <2>2, <2>3
<1>10. CASE Crash
  BY <1>1, <1>10 DEF Crash, FilesUnchanged
<1>11. CASE UNCHANGED vars
  BY <1>1, <1>11 DEF vars
<1>12. QED
  BY <1>2, <1>3, <1>4, <1>5, <1>6, <1>7, <1>8, <1>9, <1>10, <1>11 DEF Next, CallSteps

\* A file is known by one name, none has a block too many, and a call that goes on
\* writing has blocks left: however many calls of prepareModel overlap.
THEOREM InstallTyped == Spec => []TypeOK
<1>1. TypeInv /\ [Next]_vars => TypeInv'
  BY TypesStay
<1>2. TypeInv => TypeOK
  BY DEF TypeInv
<1>3. QED
  BY TypesBegin, <1>1, <1>2, PTL DEF Spec

\* What is at the destination and has the asset's length is the asset, after any
\* number of calls, crashes and failures, as long as calls do not overlap.
THEOREM InstalledCanBeTrusted ==
  ASSUME IsFiniteSet(Calls), MaxTogether = 1
  PROVE  Spec => []InstallInv
<1>1. InstallInv /\ [Next]_vars => InstallInv'
  BY InstallStays
<1>2. QED
  BY InstallBegins, <1>1, PTL DEF Spec

\* A call of prepareModel that ends well, and that no other call overlapped, leaves
\* the whole model at the path it returns.
THEOREM UndisturbedModelAlwaysWhole ==
  ASSUME IsFiniteSet(Calls), MaxTogether = 1
  PROVE  Spec => UndisturbedModelIsWhole
<1>1. ASSUME InstallInv, InstallInv', [Next]_vars,
             NEW c \in Calls, alone[c], ~At(c, "ready"), step'[c] = "ready"
      PROVE  Whole(destination)'
  <2>1. \/ MeasureModel(c)
        \/ RenameTemporary(c)
    <3> USE DEF InstallInv, TypeInv, TypeOK, At, Goes
    <3>1. ASSUME NEW d \in Calls, CallSteps(d)
          PROVE  MeasureModel(c) \/ RenameTemporary(c)
      BY <1>1, <3>1 DEF CallSteps, Call, LookForModel, MeasureModel, LookForTemporary,
           RemoveTemporary, OpenTemporary, WriteBlock, LookForOldModel, RemoveOldModel,
           RenameTemporary, Fail
    <3>2. CASE Crash
      BY <1>1, <3>2 DEF Crash
    <3>3. CASE UNCHANGED vars
      BY <1>1, <3>3 DEF vars
    <3>4. QED
      BY <1>1, <3>1, <3>2, <3>3 DEF Next
  <2>2. CASE MeasureModel(c)
    BY <1>1, <2>2 DEF MeasureModel, InstallInv, TypeInv, TypeOK, InstalledIsWhole, Whole,
                      FilesUnchanged, At, Goes
  <2>3. CASE RenameTemporary(c)
    BY <1>1, <2>3 DEF RenameTemporary, InstallInv, TypeInv, TypeOK, TemporaryGrows, Late,
                      Whole, At, Goes
  <2>4. QED
    BY <2>1, <2>2, <2>3
<1>2. InstallInv /\ InstallInv' /\ [Next]_vars
        => [ \A c \in Calls : alone[c] /\ ~At(c, "ready") /\ step'[c] = "ready"
                                => Whole(destination)' ]_vars
  BY <1>1
<1>3. QED
  BY InstalledCanBeTrusted, <1>2, PTL DEF Spec, UndisturbedModelIsWhole

=============================================================================
