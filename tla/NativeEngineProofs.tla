------------------------- MODULE NativeEngineProofs -------------------------
(***************************************************************************)
(* The engine leaks nothing, stays within its context, draws a reply from  *)
(* its own request and loses no byte of it, for any presets, vocabulary,   *)
(* batch size, context size and bounds.                                    *)
(***************************************************************************)
EXTENDS NativeEngine, FiniteSetTheorems, SequenceTheorems, NaturalsInduction,
        WellFoundedInduction, TLAPS

Phases == {"idle", "entered", "loading", "modelOnly", "ready", "prompt", "generating",
           "ending"}

\* What llama.cpp was made to allocate is what the globals point to.
NothingLeaks ==
  /\ held \subseteq Handles
  /\ live = [h \in Handles |-> IF h \in held THEN 1 ELSE 0]

\* All or nothing, and the sampler only with the rest.
AllOrNothing ==
  /\ held \cap Core \in {{}, Core}
  /\ loaded # None <=> Core \subseteq held
  /\ "sampler" \in held => Core \subseteq held

\* How far a load has come, where a call is inside it.
LoadProceeds ==
  /\ phase \in Phases
  /\ phase \in {"idle", "entered"} => AllOrNothing
  /\ phase = "loading" => held = {} /\ loaded = None
  /\ phase = "modelOnly" => held = {"model"} /\ loaded = None
  /\ phase \in {"ready", "prompt", "generating", "ending"}
       => Core \subseteq held /\ loaded # None
  /\ phase # "idle" => call.preset \in Presets

EngineInv == NothingLeaks /\ LoadProceeds

\* A library that has just been loaded holds nothing.
LEMMA EngineBegins == Init => EngineInv
BY DEF Init, EngineInv, NothingLeaks, LoadProceeds, AllOrNothing, Handles, Core, Phases

\* One step for each action of the engine.
LEMMA EngineStays ==
  ASSUME EngineInv, [Next]_vars
  PROVE  EngineInv'
<1> USE EngineAssumption
<1> USE DEF EngineInv, NothingLeaks, LoadProceeds, AllOrNothing, Handles, Core, Phases
<1>1. ASSUME NEW preset \in Presets, NEW length \in 0 .. MaxPrompt,
             StartGeneration(preset, length)
      PROVE  EngineInv'
  BY <1>1 DEF StartGeneration, handleVars
<1>2. ASSUME NEW preset \in Presets, LoadModel(preset)
      PROVE  EngineInv'
  BY <1>2 DEF LoadModel, handleVars
<1>3. CASE UnloadModel
  BY <1>3 DEF UnloadModel, Unload, Release, callVars
<1>4. CASE LoadLocked
  <2>1. CASE loaded = call.preset /\ {"model", "context"} \subseteq held
    BY <1>4, <2>1 DEF LoadLocked, CallUnchanged, handleVars
  <2>2. CASE ~(loaded = call.preset /\ {"model", "context"} \subseteq held)
    <3>1. /\ held' = {} /\ loaded' = None
          /\ phase' = "loading" /\ call' = call /\ phase = "entered"
          /\ live' = [h \in Handles |-> IF h \in Handles \cap held THEN live[h] - 1
                                                                  ELSE live[h]]
      BY <1>4, <2>2 DEF LoadLocked, Unload, Release, CallUnchanged
    <3>2. NothingLeaks'
      BY <3>1
    <3>3. LoadProceeds'
      BY <3>1
    <3>4. QED
      BY <3>2, <3>3
  <2>3. QED
    BY <2>1, <2>2
<1>5. CASE LoadFromFile
  <2>1. CASE Acquire({"model"}) /\ phase' = "modelOnly"
    BY <1>5, <2>1 DEF LoadFromFile, Acquire, CallUnchanged
  <2>2. CASE phase' = "idle" /\ UNCHANGED <<held, live>>
    BY <1>5, <2>2 DEF LoadFromFile, CallUnchanged
  <2>3. QED
    BY <1>5, <2>1, <2>2 DEF LoadFromFile, LoadEndsInFailure, EndsInFailure
<1>6. CASE InitFromModel
  BY <1>6 DEF InitFromModel, Acquire, CallUnchanged
<1>7. CASE FailToInit
  BY <1>7 DEF FailToInit, Unload, Release, LoadEndsInFailure, EndsInFailure, CallUnchanged
<1>8. CASE BeginStream
  <2>1. /\ phase = "ready"
        /\ phase' \in {"idle", "prompt"}
        /\ loaded' = loaded /\ call' = call
    BY <1>8 DEF BeginStream, EndsInFailure, CallUnchanged
  <2>2. \/ /\ held' = held \cup {"sampler"}
           /\ live' = [live EXCEPT !["sampler"] =
                         IF "sampler" \in held THEN @ ELSE @ + 1]
        \/ /\ held' = held \ {"sampler"}
           /\ live' = [h \in Handles |-> IF h \in {"sampler"} \cap held
                                            THEN live[h] - 1 ELSE live[h]]
    BY <1>8 DEF BeginStream, Release
  <2>3. NothingLeaks'
    <3>1. CASE /\ held' = held \cup {"sampler"}
               /\ live' = [live EXCEPT !["sampler"] =
                             IF "sampler" \in held THEN @ ELSE @ + 1]
      <4>1. \A h \in Handles :
              live'[h] = IF h = "sampler" THEN 1 ELSE live[h]
        BY <3>1
      <4>2. QED
        BY <3>1, <4>1
    <3>2. CASE /\ held' = held \ {"sampler"}
               /\ live' = [h \in Handles |-> IF h \in {"sampler"} \cap held
                                                THEN live[h] - 1 ELSE live[h]]
      BY <3>2
    <3>3. QED
      BY <2>2, <3>1, <3>2
  <2>4. LoadProceeds'
    BY <2>1, <2>2
  <2>5. QED
    BY <2>3, <2>4
<1>9. CASE DecodeBatch
  BY <1>9 DEF DecodeBatch, DecodeFails, EndsInFailure, handleVars
<1>10. ASSUME NEW token \in Tokens, Round(token)
       PROVE  EngineInv'
  BY <1>10 DEF Round, DecodeFails, EndsInFailure, handleVars
<1>11. CASE StreamCancelled \/ Complete
  BY <1>11 DEF StreamCancelled, Complete, CallUnchanged, handleVars
<1>12. CASE RequestCancel \/ UNCHANGED vars
  BY <1>12 DEF RequestCancel, vars, handleVars, callVars
<1>13. QED
  BY <1>1, <1>2, <1>3, <1>4, <1>5, <1>6, <1>7, <1>8, <1>9, <1>10, <1>11, <1>12 DEF Next

\* Whatever fails and whatever follows what, load_model_locked, unload_locked and
\* stream_completion_locked free what they made, once, and leave all or nothing.
THEOREM EngineAlwaysWhole == Spec => []EngineIsWhole
<1>1. EngineInv => EngineIsWhole
  BY DEF EngineInv, NothingLeaks, LoadProceeds, AllOrNothing, EngineIsWhole
<1>2. EngineInv /\ [Next]_vars => EngineInv'
  BY EngineStays
<1>3. QED
  BY EngineBegins, <1>1, <1>2, PTL DEF Spec

----------------------------------------------------------------------------
(* The context's memory. *)

\* A call to generate has its prompt until it ends, and positions begin at it.
Placed ==
  /\ phase \in Phases
  /\ position \in Nat
  /\ phase # "idle" => call.op = "load" \/ call.prompt \in Nat
  /\ phase \in {"ready", "prompt", "generating", "ending"} => call.prompt \in Nat
  /\ phase \in {"entered", "loading", "modelOnly", "ready"} => position = 0
  /\ phase = "prompt" => position < call.prompt

MemoryInv == Placed /\ MemoryIsOfTheRequest

\* A batch is what is left of the prompt, or as much as a batch holds.
LEMMA MinOfTwo ==
  ASSUME NEW m \in Nat, NEW n \in Nat
  PROVE  Min({m, n}) \in {m, n} /\ Min({m, n}) <= m /\ Min({m, n}) <= n
<1>1. \E x \in {m, n} : \A y \in {m, n} : x <= y
  <2>1. CASE m <= n
    BY <2>1
  <2>2. CASE n <= m
    BY <2>2
  <2>3. QED
    BY <2>1, <2>2
<1>2. QED
  BY <1>1 DEF Min

\* Tokens decoded in turn leave no gap.
LEMMA DecodeExtends ==
  ASSUME MemoryInv, phase \in {"prompt", "generating"}, NEW n \in Nat, Decode(n)
  PROVE  /\ position' = position + n
         /\ memory' = (0 .. position' - 1) \X {request}
<1>1. position' = position + n /\ position \in Nat
  BY DEF Decode, MemoryInv, Placed
<1>2. memory' = ((0 .. position - 1) \cup (position .. position + n - 1)) \X {request}
  BY DEF Decode, MemoryInv, MemoryIsOfTheRequest
<1>3. (0 .. position - 1) \cup (position .. position + n - 1) = 0 .. position' - 1
  BY <1>1
<1>4. QED
  BY <1>1, <1>2, <1>3

\* One step for each action: only a decode fills the memory, only a new stream and the
\* freeing of the context empty it.
LEMMA MemoryStays ==
  ASSUME MemoryInv, [Next]_vars
  PROVE  MemoryInv'
<1> USE EngineAssumption
<1> USE DEF MemoryInv, Placed, MemoryIsOfTheRequest, Phases
<1>1. ASSUME NEW preset \in Presets, NEW length \in 0 .. MaxPrompt,
             StartGeneration(preset, length)
      PROVE  MemoryInv'
  BY <1>1 DEF StartGeneration, Fresh, handleVars
<1>2. ASSUME NEW preset \in Presets, LoadModel(preset)
      PROVE  MemoryInv'
  BY <1>2 DEF LoadModel, Fresh, handleVars
<1>3. CASE UnloadModel
  BY <1>3 DEF UnloadModel, callVars
<1>4. CASE LoadLocked
  BY <1>4 DEF LoadLocked, CallUnchanged, handleVars
<1>5. CASE LoadFromFile
  BY <1>5 DEF LoadFromFile, LoadEndsInFailure, EndsInFailure, CallUnchanged
<1>6. CASE InitFromModel
  BY <1>6 DEF InitFromModel, CallUnchanged
<1>7. CASE FailToInit
  BY <1>7 DEF FailToInit, LoadEndsInFailure, EndsInFailure, CallUnchanged
<1>8. CASE BeginStream
  BY <1>8 DEF BeginStream, EndsInFailure, CallUnchanged
<1>9. CASE DecodeBatch
  <2> DEFINE n == Min({BatchSize, call.prompt - position})
  <2>1. CASE DecodeFails
    BY <1>9, <2>1 DEF DecodeBatch, DecodeFails, EndsInFailure
  <2>2. CASE /\ Decode(n)
             /\ phase' = IF position' = call.prompt THEN "generating" ELSE "prompt"
    <3>1. call.prompt - position \in Nat /\ phase = "prompt"
      BY <1>9 DEF DecodeBatch
    <3>2. n \in Nat /\ n <= call.prompt - position
      BY <3>1, MinOfTwo
    <3>3. /\ position' = position + n
          /\ memory' = (0 .. position' - 1) \X {request}
      BY <2>2, <3>1, <3>2, DecodeExtends
    <3>4. request' = request /\ call' = call
      BY <1>9 DEF DecodeBatch
    <3> HIDE DEF n
    <3>5. QED
      BY <2>2, <3>1, <3>2, <3>3, <3>4
  <2>3. QED
    BY <1>9, <2>1, <2>2 DEF DecodeBatch
<1>10. ASSUME NEW token \in Tokens, Round(token)
       PROVE  MemoryInv'
  <2>1. phase = "generating" /\ request' = request /\ call' = call
    BY <1>10 DEF Round
  <2>2. CASE phase' = "ending" /\ UNCHANGED <<memory, position>>
    BY <2>1, <2>2
  <2>3. CASE Decode(1) /\ UNCHANGED phase
    <3>1. /\ position' = position + 1
          /\ memory' = (0 .. position' - 1) \X {request}
      BY <2>1, <2>3, DecodeExtends
    <3>2. QED
      BY <2>1, <2>3, <3>1
  <2>4. CASE DecodeFails
    BY <2>1, <2>4 DEF DecodeFails, EndsInFailure
  <2>5. QED
    BY <1>10, <2>2, <2>3, <2>4 DEF Round
<1>11. CASE StreamCancelled \/ Complete
  BY <1>11 DEF StreamCancelled, Complete, CallUnchanged
<1>12. CASE RequestCancel \/ UNCHANGED vars
  BY <1>12 DEF RequestCancel, vars, callVars
<1>13. QED
  BY <1>1, <1>2, <1>3, <1>4, <1>5, <1>6, <1>7, <1>8, <1>9, <1>10, <1>11, <1>12 DEF Next

\* stream_completion_locked clears the memory of whatever the request before it left,
\* and places each token after the one before.
THEOREM MemoryAlwaysOfTheRequest == Spec => []MemoryIsOfTheRequest
<1>1. Init => MemoryInv
  BY DEF Init, MemoryInv, Placed, MemoryIsOfTheRequest, Phases
<1>2. MemoryInv /\ [Next]_vars => MemoryInv'
  BY MemoryStays
<1>3. MemoryInv => MemoryIsOfTheRequest
  BY DEF MemoryInv
<1>4. QED
  BY <1>1, <1>2, <1>3, PTL DEF Spec

----------------------------------------------------------------------------
(* The types. *)

Generations == [op : {"generate"}, preset : Presets, prompt : 0 .. MaxPrompt]
Loads       == [op : {"load"}, preset : Presets]

\* The text of a reply and the messages about it.
TextTyped ==
  /\ generated \in Seq(Bytes)
  /\ utf8Cache \in Seq(Bytes)
  /\ assembled \in Seq(Bytes)
  /\ sent \in Seq(Messages)

\* What the context's memory may hold.
MemoryTyped ==
  /\ memory \subseteq (0 .. MaxPrompt + MaxTokens) \X (1 .. MaxRequests)
  /\ Cardinality(memory) <= ContextSize

\* How far a call is, and what bounds its position: the prompt, then a token a round.
CallTyped ==
  /\ phase \in Phases
  /\ call \in Generations \cup Loads \cup {None}
  /\ request \in 0 .. MaxRequests
  /\ position \in 0 .. MaxPrompt + MaxTokens
  /\ round \in 0 .. MaxTokens
  /\ phase # "idle" => call \in Generations \cup Loads
  /\ phase \in {"ready", "prompt", "generating", "ending"} => call \in Generations
  /\ phase # "idle" /\ call \in Generations => request >= 1
  /\ phase \in {"entered", "loading", "modelOnly", "ready"} => position = 0 /\ round = 0
  /\ phase = "prompt" => position <= call.prompt /\ round = 0
  /\ phase = "generating" => position <= call.prompt + round

FlagTyped == loaded \in Presets \cup {None} /\ cancelRequested \in BOOLEAN

TypedInv == TextTyped /\ MemoryTyped /\ CallTyped /\ FlagTyped

\* The empty memory fits.
LEMMA EmptyMemoryFits == memory = {} => MemoryTyped
BY FS_EmptySet, EngineAssumption DEF MemoryTyped

\* A decode that finds room leaves the memory within the context.
LEMMA DecodeFits ==
  ASSUME MemoryTyped, request \in 1 .. MaxRequests, position \in Nat, NEW n \in Nat,
         position + n <= MaxPrompt + MaxTokens, Decode(n)
  PROVE  MemoryTyped'
<1> DEFINE new == (position .. position + n - 1) \X {request}
<1>1. {ContextSize, MaxPrompt, MaxTokens, MaxRequests} \subseteq Nat
  BY EngineAssumption
<1>2. memory' = memory \cup new /\ Cardinality(memory) + n <= ContextSize
  BY DEF Decode
<1>3. new \subseteq (0 .. MaxPrompt + MaxTokens) \X (1 .. MaxRequests)
  BY <1>1
<1>4. IsFiniteSet(memory)
  <2>1. IsFiniteSet(0 .. MaxPrompt + MaxTokens) /\ IsFiniteSet(1 .. MaxRequests)
    BY <1>1, FS_Interval
  <2>2. IsFiniteSet((0 .. MaxPrompt + MaxTokens) \X (1 .. MaxRequests))
    BY <2>1, FS_Product
  <2>3. QED
    BY <2>2, FS_Subset DEF MemoryTyped
<1>5. IsFiniteSet(new) /\ Cardinality(new) = n
  <2>1. /\ IsFiniteSet(position .. position + n - 1)
        /\ Cardinality(position .. position + n - 1) = n
    <3>1. position \in Int /\ position + n - 1 \in Int
      OBVIOUS
    <3>2. QED
      BY <3>1, FS_Interval
  <2>2. IsFiniteSet({request}) /\ Cardinality({request}) = 1
    BY FS_Singleton
  <2> DEFINE places == position .. position + n - 1
             owner == {request}
  <2>3. /\ IsFiniteSet(places) /\ Cardinality(places) = n
        /\ IsFiniteSet(owner) /\ Cardinality(owner) = 1
    BY <2>1, <2>2
  <2>4. new = places \X owner
    OBVIOUS
  <2> HIDE DEF places, owner, new
  <2>5. IsFiniteSet(new) /\ Cardinality(new) = n * 1
    BY <2>3, <2>4, FS_Product
  <2>6. QED
    BY <2>5
<1> HIDE DEF new
<1>6. Cardinality(memory \cup new) = Cardinality(memory) + n - Cardinality(memory \cap new)
  BY <1>4, <1>5, FS_Union
<1>7. Cardinality(memory) \in Nat /\ Cardinality(memory \cap new) \in Nat
  BY <1>4, FS_CardinalityType, FS_Subset
<1>8. Cardinality(memory') <= ContextSize
  BY <1>1, <1>2, <1>6, <1>7
<1>9. QED
  BY <1>2, <1>3, <1>8 DEF MemoryTyped

\* Showing a token's bytes keeps the types of the text.
LEMMA ShowKeepsTypes ==
  ASSUME TextTyped, NEW bytes \in Seq(Bytes), Show(bytes), generated' = generated \o bytes
  PROVE  TextTyped'
<1> DEFINE text == utf8Cache \o bytes
<1>1. text \in Seq(Bytes) /\ generated' \in Seq(Bytes)
  BY DEF TextTyped
<1>2. ToJavaString(text) \in Seq(Bytes) \cup Placeholders
  BY <1>1 DEF ToJavaString, Placeholders
<1>3. [type |-> "token", text |-> ToJavaString(text)] \in Messages
  BY <1>2 DEF Messages
<1>4. \/ /\ assembled' = assembled \o text /\ utf8Cache' = <<>>
         /\ sent' = Append(sent, [type |-> "token", text |-> ToJavaString(text)])
      \/ utf8Cache' = text /\ UNCHANGED <<assembled, sent>>
  BY DEF Show, Say
<1> DEFINE message == [type |-> "token", text |-> ToJavaString(text)]
<1> HIDE DEF text
<1>5. /\ assembled \o text \in Seq(Bytes) /\ <<>> \in Seq(Bytes)
      /\ Append(sent, message) \in Seq(Messages)
  <2>1. message \in Messages /\ sent \in Seq(Messages) /\ assembled \in Seq(Bytes)
    BY <1>3 DEF TextTyped
  <2> HIDE DEF message
  <2>2. QED
    BY <1>1, <2>1
<1> HIDE DEF message
<1>6. \/ /\ assembled' = assembled \o text /\ utf8Cache' = <<>>
         /\ sent' = Append(sent, message)
      \/ utf8Cache' = text /\ UNCHANGED <<assembled, sent>>
  BY <1>4 DEF message
<1>7. QED
  BY <1>1, <1>5, <1>6 DEF TextTyped

\* A message without a text joins those sent.
LEMMA PlainMessage ==
  ASSUME TextTyped, NEW how \in {"failed", "cancelled"}, UNCHANGED textVars,
         sent' = sent \/ Say([type |-> how])
  PROVE  TextTyped'
<1>1. [type |-> how] \in Messages
  BY DEF Messages
<1> DEFINE message == [type |-> how]
<1>2. message \in Messages /\ sent \in Seq(Messages) /\ sent' \in {sent, Append(sent, message)}
  BY <1>1 DEF TextTyped, Say
<1> HIDE DEF message
<1>3. sent' \in Seq(Messages)
  BY <1>2
<1>4. QED
  BY <1>3 DEF TextTyped, textVars


\* One step for each action.
LEMMA TypedStays ==
  ASSUME TypedInv, [Next]_vars
  PROVE  TypedInv'
<1>0. /\ TextTyped /\ MemoryTyped /\ CallTyped /\ FlagTyped
      /\ {ContextSize, MaxPrompt, MaxTokens, MaxRequests} \subseteq Nat
      /\ BatchSize \in Nat
  BY EngineAssumption DEF TypedInv
<1>1. UNCHANGED <<textVars, sent>> => TextTyped'
  BY <1>0 DEF TextTyped, textVars
<1>2. UNCHANGED memory => MemoryTyped'
  BY <1>0 DEF MemoryTyped
<1>3. memory' = {} => MemoryTyped'
  BY <1>0, FS_EmptySet DEF MemoryTyped
<1>4. Fresh => TextTyped'
  BY DEF Fresh, TextTyped
<1>5. ASSUME NEW preset \in Presets, NEW length \in 0 .. MaxPrompt,
             StartGeneration(preset, length)
      PROVE  TypedInv'
  <2>1. [op |-> "generate", preset |-> preset, prompt |-> length] \in Generations
    BY DEF Generations
  <2>2. CallTyped'
    BY <1>0, <1>5, <2>1 DEF StartGeneration, Fresh, CallTyped, Phases
  <2>3. QED
    BY <1>0, <1>2, <1>4, <1>5, <2>2 DEF StartGeneration, TypedInv, FlagTyped, handleVars
<1>6. ASSUME NEW preset \in Presets, LoadModel(preset)
      PROVE  TypedInv'
  <2>1. /\ [op |-> "load", preset |-> preset] \in Loads
        /\ [op |-> "load", preset |-> preset] \notin Generations
    BY DEF Loads, Generations
  <2>2. CallTyped'
    BY <1>0, <1>6, <2>1 DEF LoadModel, Fresh, CallTyped, Phases
  <2>3. QED
    BY <1>0, <1>2, <1>4, <1>6, <2>2 DEF LoadModel, TypedInv, FlagTyped, handleVars
<1>7. CASE UnloadModel
  <2>1. CallTyped'
    BY <1>0, <1>7 DEF UnloadModel, callVars, CallTyped
  <2>2. QED
    BY <1>0, <1>1, <1>3, <1>7, <2>1 DEF UnloadModel, Unload, TypedInv, FlagTyped
\* A step of a load: the text is at most the news that it failed.
<1>8. ASSUME CallUnchanged, FlagTyped', MemoryTyped', CallTyped',
             sent' = sent \/ Say([type |-> "failed"])
      PROVE  TypedInv'
  BY <1>0, <1>8, PlainMessage DEF TypedInv, CallUnchanged, textVars
<1>9. phase \in {"entered", "loading", "modelOnly"} => call.preset \in Presets
  BY <1>0 DEF CallTyped, Generations, Loads
<1>10. phase \in {"entered", "loading", "modelOnly"} /\ call.op # "load" => call \in Generations
  BY <1>0 DEF CallTyped, Loads
<1>11. ASSUME phase \in {"entered", "loading", "modelOnly"}, CallUnchanged,
              \/ phase' \in {"idle", "loading", "modelOnly"}
              \/ phase' = "ready" /\ call.op # "load"
       PROVE  CallTyped'
  BY <1>0, <1>10, <1>11 DEF CallTyped, CallUnchanged, Phases
<1>12. CASE LoadLocked
  <2>1. FlagTyped' /\ MemoryTyped'
    BY <1>0, <1>2, <1>3, <1>12 DEF LoadLocked, Unload, FlagTyped, handleVars
  <2>2. CallTyped'
    BY <1>11, <1>12 DEF LoadLocked
  <2>3. QED
    BY <1>8, <1>12, <2>1, <2>2 DEF LoadLocked
<1>13. CASE LoadFromFile
  <2>1. FlagTyped' /\ MemoryTyped'
    BY <1>0, <1>2, <1>13 DEF LoadFromFile, FlagTyped
  <2>2. CallTyped'
    BY <1>11, <1>13 DEF LoadFromFile, LoadEndsInFailure, EndsInFailure
  <2>3. QED
    BY <1>8, <1>13, <2>1, <2>2 DEF LoadFromFile, LoadEndsInFailure, EndsInFailure
<1>14. CASE InitFromModel
  <2>1. FlagTyped' /\ MemoryTyped'
    BY <1>0, <1>2, <1>9, <1>14 DEF InitFromModel, FlagTyped
  <2>2. CallTyped'
    BY <1>11, <1>14 DEF InitFromModel
  <2>3. QED
    BY <1>8, <1>14, <2>1, <2>2 DEF InitFromModel
<1>15. CASE FailToInit
  <2>1. FlagTyped' /\ MemoryTyped'
    BY <1>0, <1>3, <1>15 DEF FailToInit, Unload, FlagTyped
  <2>2. CallTyped'
    BY <1>11, <1>15 DEF FailToInit, LoadEndsInFailure, EndsInFailure
  <2>3. QED
    BY <1>8, <1>15, <2>1, <2>2 DEF FailToInit, LoadEndsInFailure, EndsInFailure
<1>16. CASE BeginStream
  <2>1. /\ phase = "ready" /\ CallUnchanged /\ cancelRequested' = FALSE /\ loaded' = loaded
        /\ memory' \in {memory, {}}
        /\ \/ phase' = "prompt" /\ UNCHANGED sent
           \/ phase' = "idle" /\ Say([type |-> "failed"])
    BY <1>16 DEF BeginStream, EndsInFailure
  <2>2. FlagTyped' /\ MemoryTyped'
    BY <1>0, <1>2, <1>3, <2>1 DEF FlagTyped
  <2>3. call.prompt \in Nat
    BY <1>0, <2>1 DEF CallTyped, Generations
  <2>4. CallTyped'
    BY <1>0, <2>1, <2>3 DEF CallTyped, CallUnchanged, Phases
  <2>5. QED
    BY <1>8, <2>1, <2>2, <2>4
<1>17. CASE DecodeBatch
  <2> DEFINE n == Min({BatchSize, call.prompt - position})
  <2>1. /\ phase = "prompt" /\ call \in Generations /\ round = 0
        /\ position \in Nat /\ position <= call.prompt /\ request \in 1 .. MaxRequests
        /\ call.prompt \in 0 .. MaxPrompt
        /\ UNCHANGED <<handleVars, call, request, textVars, round, cancelRequested>>
    BY <1>0, <1>17 DEF DecodeBatch, CallTyped, Generations
  <2>2. FlagTyped'
    BY <1>0, <2>1 DEF FlagTyped, handleVars
  <2>3. CASE DecodeFails
    <3>1. phase' = "idle" /\ UNCHANGED <<memory, position>> /\ Say([type |-> "failed"])
      BY <2>3 DEF DecodeFails, EndsInFailure
    <3>2. CallTyped'
      BY <1>0, <2>1, <3>1 DEF CallTyped, Phases
    <3>3. QED
      BY <1>0, <1>2, <2>1, <2>2, <3>1, <3>2, PlainMessage DEF TypedInv
  <2>4. CASE /\ Decode(n)
             /\ phase' = IF position' = call.prompt THEN "generating" ELSE "prompt"
             /\ UNCHANGED sent
    <3>1. call.prompt - position \in Nat
      BY <2>1
    <3>2. n \in Nat /\ n <= call.prompt - position
      BY <1>0, <3>1, MinOfTwo
    <3> HIDE DEF n
    <3>3. position' = position + n /\ position' <= call.prompt /\ position' \in Nat
          /\ position + n <= MaxPrompt + MaxTokens
      BY <1>0, <2>1, <2>4, <3>2 DEF Decode
    <3>4. MemoryTyped'
      BY <1>0, <2>1, <2>4, <3>2, <3>3, DecodeFits
    <3>5. CallTyped'
      BY <1>0, <2>1, <2>4, <3>3 DEF CallTyped, Phases
    <3>6. QED
      BY <1>1, <2>1, <2>2, <2>4, <3>4, <3>5 DEF TypedInv
  <2>5. QED
    BY <1>17, <2>3, <2>4 DEF DecodeBatch
<1>18. ASSUME NEW token \in Tokens, Round(token)
       PROVE  TypedInv'
  <2>1. /\ phase = "generating" /\ call \in Generations /\ round' = round + 1
        /\ round \in Nat /\ round < MaxTokens
        /\ position \in Nat /\ position <= call.prompt + round
        /\ request \in 1 .. MaxRequests
        /\ call.prompt \in 0 .. MaxPrompt
        /\ UNCHANGED <<handleVars, call, request, cancelRequested>>
    BY <1>0, <1>18 DEF Round, HasRounds, CallTyped, Generations
  <2>2. FlagTyped'
    BY <1>0, <2>1 DEF FlagTyped, handleVars
  <2>3. ASSUME phase' \in {"idle", "ending"}, UNCHANGED position
        PROVE  CallTyped'
    BY <1>0, <2>1, <2>3 DEF CallTyped, Phases
  <2>4. CASE phase' = "ending" /\ UNCHANGED <<textVars, memory, position, sent>>
    BY <1>1, <1>2, <2>2, <2>3, <2>4 DEF TypedInv
  <2>5. CASE /\ Decode(1)
             /\ generated' = generated \o Piece[token]
             /\ Show(Piece[token])
             /\ UNCHANGED phase
    <3>1. Piece[token] \in Seq(Bytes)
      BY EngineAssumption
    <3>2. TextTyped'
      BY <1>0, <2>5, <3>1, ShowKeepsTypes
    <3>3. position' = position + 1 /\ position + 1 <= MaxPrompt + MaxTokens
      BY <1>0, <2>1, <2>5 DEF Decode
    <3>4. MemoryTyped'
      BY <1>0, <2>1, <2>5, <3>3, DecodeFits
    <3>5. CallTyped'
      BY <1>0, <2>1, <2>5, <3>3 DEF CallTyped, Phases
    <3>6. QED
      BY <2>2, <3>2, <3>4, <3>5 DEF TypedInv
  <2>6. CASE DecodeFails /\ UNCHANGED textVars
    <3>1. phase' = "idle" /\ UNCHANGED <<memory, position>> /\ Say([type |-> "failed"])
      BY <2>6 DEF DecodeFails, EndsInFailure
    <3>2. QED
      BY <1>0, <1>2, <2>2, <2>3, <2>6, <3>1, PlainMessage DEF TypedInv
  <2>7. QED
    BY <1>18, <2>4, <2>5, <2>6 DEF Round
<1>19. ASSUME phase \in {"generating", "ending"}, phase' = "idle", CallUnchanged,
              UNCHANGED <<handleVars, memory, cancelRequested>>
       PROVE  CallTyped' /\ FlagTyped' /\ MemoryTyped'
  BY <1>0, <1>2, <1>19 DEF CallTyped, FlagTyped, CallUnchanged, handleVars, Phases
<1>20. CASE StreamCancelled
  BY <1>0, <1>19, <1>20, PlainMessage DEF StreamCancelled, TypedInv, CallUnchanged, textVars
<1>21. CASE Complete
  <2> DEFINE message == [type |-> "completed",
                         text |-> IF assembled = <<>> THEN NothingVisible
                                                           ELSE ToJavaString(assembled)]
  <2>1. message \in Messages
    BY <1>0 DEF Messages, TextTyped, ToJavaString, Placeholders
  <2>2. sent' = Append(sent, message) /\ sent \in Seq(Messages) /\ UNCHANGED textVars
    BY <1>0, <1>21 DEF Complete, Say, TextTyped, CallUnchanged, textVars
  <2> HIDE DEF message
  <2>3. sent' \in Seq(Messages)
    BY <2>1, <2>2
  <2>4. TextTyped'
    BY <1>0, <2>2, <2>3 DEF TextTyped, textVars
  <2>5. QED
    BY <1>19, <1>21, <2>4 DEF Complete, TypedInv
<1>22. CASE RequestCancel
  <2>1. CallTyped' /\ FlagTyped'
    BY <1>0, <1>22 DEF RequestCancel, CallTyped, FlagTyped, handleVars, callVars
  <2>2. QED
    BY <1>1, <1>2, <1>22, <2>1 DEF RequestCancel, TypedInv
<1>23. CASE UNCHANGED vars
  <2>1. CallTyped' /\ FlagTyped'
    BY <1>0, <1>23 DEF vars, CallTyped, FlagTyped, handleVars, callVars
  <2>2. QED
    BY <1>1, <1>2, <1>23, <2>1 DEF vars, TypedInv
<1>24. QED
  BY <1>5, <1>6, <1>7, <1>12, <1>13, <1>14, <1>15, <1>16, <1>17, <1>18, <1>20, <1>21, <1>22,
     <1>23 DEF Next

\* A library that has just been loaded has said nothing and remembers nothing.
LEMMA TypesBegin == Init => TypedInv
<1>1. SUFFICES ASSUME Init PROVE TypedInv
  OBVIOUS
<1>2. <<>> \in Seq(Bytes) /\ <<>> \in Seq(Messages)
  OBVIOUS
<1>3. TextTyped /\ FlagTyped
  BY <1>1, <1>2 DEF Init, TextTyped, FlagTyped
<1>4. MemoryTyped
  BY <1>1, EmptyMemoryFits DEF Init
<1>5. CallTyped
  BY <1>1, EngineAssumption DEF Init, CallTyped, Phases
<1>6. QED
  BY <1>3, <1>4, <1>5 DEF TypedInv

\* No prompt, round or load takes the engine out of its types, and what is decoded fits
\* into the context.
THEOREM EngineTyped == Spec => []TypeOK
<1>1. Init => TypedInv
  BY TypesBegin
<1>2. TypedInv /\ [Next]_vars => TypedInv'
  BY TypedStays
<1>3. EngineInv /\ TypedInv => TypeOK
  BY DEF EngineInv, NothingLeaks, TypedInv, TextTyped, MemoryTyped, CallTyped, FlagTyped,
         Phases, Generations, Loads, TypeOK
<1>4. EngineInv /\ [Next]_vars => EngineInv'
  BY EngineStays
<1>5. QED
  BY EngineBegins, <1>1, <1>2, <1>3, <1>4, PTL DEF Spec

----------------------------------------------------------------------------
(* The text between the cache and the reply. *)

\* What was generated is the reply so far and what the cache holds back.
NothingIsLost == assembled \o utf8Cache = generated

\* Showing moves bytes from the cache to the reply.
LEMMA ShowLosesNothing ==
  ASSUME TextTyped, NothingIsLost, NEW bytes \in Seq(Bytes), Show(bytes),
         generated' = generated \o bytes
  PROVE  NothingIsLost'
<1>1. assembled \in Seq(Bytes) /\ utf8Cache \in Seq(Bytes)
  BY DEF TextTyped
<1>2. generated' = assembled \o (utf8Cache \o bytes)
  <2>1. generated = assembled \o utf8Cache
    BY DEF NothingIsLost
  <2>2. (assembled \o utf8Cache) \o bytes = assembled \o (utf8Cache \o bytes)
    <3> DEFINE B == Bytes
    <3>1. assembled \in Seq(B) /\ utf8Cache \in Seq(B) /\ bytes \in Seq(B)
      BY <1>1
    <3> HIDE DEF B
    <3>2. \A s, t, u \in Seq(B) : (s \o t) \o u = s \o (t \o u)
      BY ConcatAssociative
    <3>3. QED
      BY <3>1, <3>2
  <2>3. QED
    BY <2>1, <2>2
<1>3. assembled \o (utf8Cache \o bytes) \in Seq(Bytes)
  BY <1>1
<1>4. \/ assembled' = assembled \o (utf8Cache \o bytes) /\ utf8Cache' = <<>>
      \/ utf8Cache' = utf8Cache \o bytes /\ UNCHANGED assembled
  BY DEF Show
<1>5. QED
  BY <1>2, <1>3, <1>4, ConcatEmptySeq DEF NothingIsLost

\* Of each token drawn and decoded every byte is in the reply or in the cache, wherever
\* it cuts a character.
THEOREM RepliesLoseNothing == Spec => []NothingIsLost
<1>1. Init => NothingIsLost
  <2>1. <<>> \o <<>> = <<>>
    OBVIOUS
  <2>2. QED
    BY <2>1 DEF Init, NothingIsLost
<1>2. TypedInv /\ NothingIsLost /\ [Next]_vars => NothingIsLost'
  <2>1. SUFFICES ASSUME TextTyped, NothingIsLost, [Next]_vars PROVE NothingIsLost'
    BY DEF TypedInv
  <2>2. CASE UNCHANGED textVars
    BY <2>1, <2>2 DEF textVars, NothingIsLost
  <2>3. CASE Fresh
    <3>1. <<>> \o <<>> = <<>>
      OBVIOUS
    <3>2. QED
      BY <2>3, <3>1 DEF Fresh, NothingIsLost
  <2>4. ASSUME NEW token \in Tokens, Round(token)
        PROVE  NothingIsLost'
    <3>1. Piece[token] \in Seq(Bytes)
      BY EngineAssumption
    <3>2. CASE generated' = generated \o Piece[token] /\ Show(Piece[token])
      BY <2>1, <3>1, <3>2, ShowLosesNothing
    <3>3. QED
      BY <2>2, <2>4, <3>2 DEF Round, textVars
  <2>5. QED
    BY <2>1, <2>2, <2>3, <2>4
       DEF Next, StartGeneration, LoadModel, UnloadModel, LoadLocked, LoadFromFile,
           InitFromModel, FailToInit, BeginStream, DecodeBatch, StreamCancelled, Complete,
           RequestCancel, CallUnchanged, vars
<1>3. Init => TypedInv
  BY TypesBegin
<1>4. TypedInv /\ [Next]_vars => TypedInv'
  BY TypedStays
<1>5. QED
  BY <1>1, <1>2, <1>3, <1>4, PTL DEF Spec

----------------------------------------------------------------------------
(* Induction. *)

\* Every non-empty set of natural numbers has a least one.
LEMMA LeastNatural ==
  ASSUME NEW T \in SUBSET Nat, T # {}
  PROVE  \E n \in T : \A m \in T : n <= m
<1> DEFINE Less == OpToRel(<, Nat)
<1>1. \A m, n \in Nat : m < n => <<m, n>> \in Less
  BY DEF OpToRel
<1>2. IsWellFoundedOn(Less, Nat)
  BY NatLessThanWellFounded
<1> HIDE DEF Less
<1>3. PICK n \in T : \A m \in T : ~ (<<m, n>> \in Less)
  BY <1>2, WFMin
<1>4. ASSUME NEW m \in T
      PROVE  n <= m
  <2>1. m \in Nat /\ n \in Nat /\ ~ (m < n)
    BY <1>1, <1>3
  <2>2. QED
    BY <2>1
<1>5. QED
  BY <1>4

\* Induction, for a set of natural numbers.
LEMMA AllNaturals ==
  ASSUME NEW T \in SUBSET Nat, 0 \in T, \A n \in T : n + 1 \in T
  PROVE  T = Nat
<1> SUFFICES ASSUME Nat \ T # {}
             PROVE  FALSE
  OBVIOUS
<1>1. PICK n \in Nat \ T : \A m \in Nat \ T : n <= m
  BY LeastNatural
<1>2. n # 0 /\ n - 1 \in T
  BY <1>1
<1>3. QED
  BY <1>1, <1>2


----------------------------------------------------------------------------
(* Folds. *)

\* A set of positions has a last one.
LEMMA LastPosition ==
  ASSUME NEW n \in Nat, NEW s \in SUBSET (1 .. n), s # {}
  PROVE  /\ Max(s) \in s
         /\ \A y \in s : y <= Max(s)
<1> DEFINE T == {m \in Nat : \E x \in s : m = n - x}
<1>1. T \in SUBSET Nat
  OBVIOUS
<1>2. T # {}
  <2>1. PICK x \in s : TRUE
    OBVIOUS
  <2>2. x \in 1 .. n /\ n - x \in Nat
    BY <2>1
  <2>3. n - x \in T
    BY <2>1, <2>2
  <2>4. QED
    BY <2>3
<1>3. PICK t \in T : \A u \in T : t <= u
  <2> HIDE DEF T
  <2>1. QED
    BY <1>1, <1>2, LeastNatural
<1>4. PICK x \in s : t = n - x
  BY <1>3
<1>5. ASSUME NEW y \in s
      PROVE  x >= y
  <2>1. x \in 1 .. n /\ y \in 1 .. n
    OBVIOUS
  <2>2. n - y \in T
    BY <2>1
  <2>3. n - x <= n - y
    BY <1>3, <1>4, <2>2
  <2>4. QED
    BY <2>1, <2>3
<1>6. \E z \in s : \A y \in s : z >= y
  BY <1>5
<1>7. Max(s) \in s /\ \A y \in s : Max(s) >= y
  BY <1>6 DEF Max
<1>8. ASSUME NEW y \in s
      PROVE  y <= Max(s)
  <2>1. y \in 1 .. n /\ Max(s) \in 1 .. n /\ Max(s) >= y
    BY <1>7
  <2>2. QED
    BY <2>1
<1>9. QED
  BY <1>7, <1>8

\* The first k positions without the last of them.
LEMMA PrefixOfPositions ==
  ASSUME NEW k \in Nat \ {0}
  PROVE  Max(1 .. k) = k /\ (1 .. k) \ {Max(1 .. k)} = 1 .. k - 1
<1>1. k \in Nat /\ k \in 1 .. k /\ 1 .. k \in SUBSET (1 .. k) /\ 1 .. k # {}
  OBVIOUS
<1>2. Max(1 .. k) \in 1 .. k /\ \A y \in 1 .. k : y <= Max(1 .. k)
  BY <1>1, LastPosition
<1>3. k <= Max(1 .. k)
  BY <1>1, <1>2
<1>4. Max(1 .. k) = k
  BY <1>2, <1>3
<1>5. (1 .. k) \ {k} = 1 .. k - 1
  OBVIOUS
<1>6. QED
  BY <1>4, <1>5

\* What a fold has come to at each set of positions: all of it, or as far as it stays
\* among the results.
FoldsTo(f, S, base, step, q) ==
  /\ f \in [SUBSET (1 .. Len(q)) -> S]
  /\ \A s \in SUBSET (1 .. Len(q)) :
       f[s] = IF s = {} THEN base ELSE step[<<f[s \ {Max(s)}], q[Max(s)]>>]

Proceeds(f, S, base, step, q) ==
  /\ f[{}] = base
  /\ \A s \in SUBSET (1 .. Len(q)) :
       s # {} /\ f[s \ {Max(s)}] \in S
         => f[s] = step[<<f[s \ {Max(s)}], q[Max(s)]>>]

\* Over q and one more element, g goes a step further than f.
TakesAStep(f, g, S, step, q, b) ==
  /\ f[DOMAIN q] \in S
  /\ g[DOMAIN Append(q, b)] = step[<<f[DOMAIN q], b>>]

\* A fold is defined, whatever the step.
LEMMA FoldIsDefined ==
  ASSUME NEW S, NEW A, NEW base \in S, NEW step \in [S \X A -> S], NEW q \in Seq(A)
  PROVE  \E f : FoldsTo(f, S, base, step, q)
<1> DEFINE Folds(f, m) ==
             /\ f \in [SUBSET (1 .. m) -> S]
             /\ \A s \in SUBSET (1 .. m) :
                  f[s] = IF s = {} THEN base ELSE step[<<f[s \ {Max(s)}], q[Max(s)]>>]
           T == {m \in Nat : m <= Len(q) => \E f : Folds(f, m)}
<1>1. 0 \in T
  <2> DEFINE f == [s \in SUBSET (1 .. 0) |-> base]
  <2>1. 1 .. 0 = {} 
    OBVIOUS
  <2>2. \A s \in SUBSET (1 .. 0) : s = {} /\ f[s] = base
    BY <2>1
  <2>3. f \in [SUBSET (1 .. 0) -> S]
    OBVIOUS
  <2>4. Folds(f, 0)
    BY <2>2, <2>3
  <2> HIDE DEF Folds
  <2>5. QED
    BY <2>4
<1>2. ASSUME NEW m \in T
      PROVE  m + 1 \in T
  <2>1. m \in Nat
    OBVIOUS
  <2> SUFFICES ASSUME m + 1 <= Len(q)
               PROVE  \E f : Folds(f, m + 1)
    <3> HIDE DEF Folds
    <3>1. QED
      BY <2>1
  <2>2. Len(q) \in Nat /\ m <= Len(q) /\ q[m + 1] \in A
    BY <2>1
  <2>3. PICK f : Folds(f, m)
    BY <2>2
  <2> DEFINE next == [s \in SUBSET (1 .. m + 1) |->
                        IF m + 1 \in s THEN step[<<f[s \ {m + 1}], q[m + 1]>>] ELSE f[s]]
  <2>4. ASSUME NEW s \in SUBSET (1 .. m + 1)
        PROVE  /\ next[s] \in S
               /\ next[s] = IF s = {} THEN base
                            ELSE step[<<next[s \ {Max(s)}], q[Max(s)]>>]
    <3>1. CASE m + 1 \in s
      <4>1. Max(s) = m + 1
        <5>1. s # {} /\ m + 1 \in Nat
          BY <2>1, <3>1
        <5>2. Max(s) \in s /\ m + 1 <= Max(s)
          BY <3>1, <5>1, LastPosition
        <5>3. Max(s) \in 1 .. m + 1
          BY <5>2
        <5>4. QED
          BY <2>1, <5>2, <5>3
      <4>2. s \ {m + 1} \in SUBSET (1 .. m) /\ s \ {m + 1} \in SUBSET (1 .. m + 1)
        BY <2>1
      <4>3. /\ next[s] = step[<<f[s \ {m + 1}], q[m + 1]>>]
            /\ next[s \ {m + 1}] = f[s \ {m + 1}]
        BY <3>1, <4>2
      <4>4. f[s \ {m + 1}] \in S
        BY <2>3, <4>2
      <4> HIDE DEF next
      <4>5. next[s] \in S
        BY <2>2, <4>3, <4>4
      <4>6. s # {} /\ next[s] = step[<<next[s \ {Max(s)}], q[Max(s)]>>]
        BY <3>1, <4>1, <4>3
      <4>7. QED
        BY <4>5, <4>6
    <3>2. CASE m + 1 \notin s
      <4>1. s \in SUBSET (1 .. m)
        <5>1. \A x \in 1 .. m + 1 : x # m + 1 => x \in 1 .. m
          BY <2>1
        <5>2. QED
          BY <3>2, <5>1
      <4>2. s \ {Max(s)} \in SUBSET (1 .. m) /\ s \ {Max(s)} \in SUBSET (1 .. m + 1)
        BY <4>1
      <4>3. next[s] = f[s] /\ next[s \ {Max(s)}] = f[s \ {Max(s)}]
        BY <3>2, <4>2
      <4> HIDE DEF next
      <4>4. QED
        BY <2>3, <4>1, <4>2, <4>3
    <3>3. QED
      BY <3>1, <3>2
  <2>5. next \in [SUBSET (1 .. m + 1) -> S]
    <3>1. next = [s \in SUBSET (1 .. m + 1) |-> next[s]]
      OBVIOUS
    <3> HIDE DEF next
    <3>2. QED
      BY <2>4, <3>1
  <2> HIDE DEF next
  <2>6. Folds(next, m + 1)
    BY <2>4, <2>5
  <2> HIDE DEF Folds
  <2>7. QED
    BY <2>6
<1>3. T \in SUBSET Nat
  OBVIOUS
<1>4. T = Nat
  <2> HIDE DEF T
  <2>1. QED
    BY <1>1, <1>2, <1>3, AllNaturals
<1>5. Len(q) \in T /\ Len(q) <= Len(q)
  <2> HIDE DEF T
  <2>1. QED
    BY <1>4
<1>6. \E f : Folds(f, Len(q))
  <2> HIDE DEF Folds
  <2>1. QED
    BY <1>5
<1>7. QED
  BY <1>6 DEF FoldsTo

\* A fold over one more element takes one more step.
LEMMA FoldGoesOn ==
  ASSUME NEW S, NEW A, NEW base \in S, NEW step \in [S \X A -> S],
         NEW q \in Seq(A), NEW b \in A, NEW f, NEW g,
         Proceeds(f, S, base, step, q), Proceeds(g, S, base, step, Append(q, b))
  PROVE  TakesAStep(f, g, S, step, q, b)
<1> DEFINE next == Append(q, b)
           T == {k \in Nat : k <= Len(q) => f[1 .. k] \in S /\ g[1 .. k] = f[1 .. k]}
<1>1. /\ Len(q) \in Nat
      /\ \A k \in 1 .. Len(q) : q[k] \in A /\ next[k] = q[k]
      /\ next[Len(q) + 1] = b /\ Len(next) = Len(q) + 1
  OBVIOUS
<1> HIDE DEF next
<1>2. ASSUME NEW k \in 1 .. Len(q), f[1 .. k - 1] \in S
      PROVE  f[1 .. k] = step[<<f[1 .. k - 1], q[k]>>]
  <2>1. Max(1 .. k) = k /\ (1 .. k) \ {Max(1 .. k)} = 1 .. k - 1
    <3>1. k \in Nat \ {0}
      BY <1>1
    <3>2. QED
      BY <3>1, PrefixOfPositions
  <2>2. 1 .. k \in SUBSET (1 .. Len(q)) /\ 1 .. k # {}
    <3>1. k \in 1 .. k /\ \A x \in 1 .. k : x \in 1 .. Len(q)
      BY <1>1
    <3>2. QED
      BY <3>1
  <2>3. f[1 .. k] = step[<<f[(1 .. k) \ {Max(1 .. k)}], q[Max(1 .. k)]>>]
    BY <1>2, <2>1, <2>2 DEF Proceeds
  <2>4. QED
    BY <2>1, <2>3
<1>3. ASSUME NEW k \in 1 .. Len(q) + 1, g[1 .. k - 1] \in S
      PROVE  g[1 .. k] = step[<<g[1 .. k - 1], next[k]>>]
  <2>1. Max(1 .. k) = k /\ (1 .. k) \ {Max(1 .. k)} = 1 .. k - 1
    <3>1. k \in Nat \ {0}
      BY <1>1
    <3>2. QED
      BY <3>1, PrefixOfPositions
  <2>2. 1 .. k \in SUBSET (1 .. Len(q) + 1) /\ 1 .. k # {}
    <3>1. k \in 1 .. k /\ \A x \in 1 .. k : x \in 1 .. Len(q) + 1
      BY <1>1
    <3>2. QED
      BY <3>1
  <2>3. g[1 .. k] = step[<<g[(1 .. k) \ {Max(1 .. k)}], next[Max(1 .. k)]>>]
    BY <1>1, <1>3, <2>1, <2>2 DEF Proceeds, next
  <2>4. QED
    BY <2>1, <2>3
<1>4. 0 \in T
  <2>1. 1 .. 0 = {}
    OBVIOUS
  <2>2. f[1 .. 0] \in S /\ g[1 .. 0] = f[1 .. 0]
    BY <2>1 DEF Proceeds
  <2>3. QED
    BY <2>2
<1>5. ASSUME NEW k \in T
      PROVE  k + 1 \in T
  <2>1. k \in Nat /\ (k <= Len(q) => f[1 .. k] \in S /\ g[1 .. k] = f[1 .. k])
    OBVIOUS
  <2>2. ASSUME k + 1 <= Len(q)
        PROVE  f[1 .. k + 1] \in S /\ g[1 .. k + 1] = f[1 .. k + 1]
    <3>1. /\ k <= Len(q) /\ (k + 1) - 1 = k
          /\ k + 1 \in 1 .. Len(q) /\ k + 1 \in 1 .. Len(q) + 1
      BY <1>1, <2>1, <2>2
    <3>2. q[k + 1] \in A /\ next[k + 1] = q[k + 1]
      BY <1>1, <3>1
    <3>3. f[1 .. k] \in S /\ g[1 .. k] = f[1 .. k]
      BY <2>1, <3>1
    <3>4. f[1 .. k + 1] = step[<<f[1 .. k], q[k + 1]>>]
      BY <1>2, <3>1, <3>3
    <3>5. g[1 .. k + 1] = step[<<g[1 .. k], next[k + 1]>>]
      BY <1>3, <3>1, <3>3
    <3>6. QED
      BY <3>2, <3>3, <3>4, <3>5
  <2>3. k + 1 \in Nat
    BY <2>1
  <2>4. QED
    BY <2>2, <2>3
<1>6. T \in SUBSET Nat
  OBVIOUS
<1>7. T = Nat
  <2> HIDE DEF T
  <2>1. QED
    BY <1>4, <1>5, <1>6, AllNaturals
<1>8. f[1 .. Len(q)] \in S /\ g[1 .. Len(q)] = f[1 .. Len(q)]
  <2>1. Len(q) \in T
    BY <1>1, <1>7
  <2>2. QED
    BY <1>1, <2>1
<1>9. g[1 .. Len(q) + 1] = step[<<g[1 .. Len(q)], next[Len(q) + 1]>>]
  <2>1. Len(q) + 1 \in 1 .. Len(q) + 1 /\ (Len(q) + 1) - 1 = Len(q)
    BY <1>1
  <2>2. QED
    BY <1>3, <1>8, <2>1
<1>10. DOMAIN q = 1 .. Len(q) /\ DOMAIN next = 1 .. Len(q) + 1
  BY <1>1 DEF next
<1>11. QED
  BY <1>1, <1>8, <1>9, <1>10 DEF next, TakesAStep

----------------------------------------------------------------------------
(* The text, a byte at a time. *)

Dues == {-2, -1, 0, 1, 2, 3}

Due(text) == FoldLeft(Scan, 0, text)

Strict(text) == FoldLeft(StrictScan, 0, text)

Hear(messages) == FoldLeft(Heard, <<>>, messages)

\* The messages that say bytes of the reply, or nothing of it.
Sayings == {m \in Messages : m.type = "token" => m.text \in Seq(Bytes)}

\* The steps of is_valid_utf8 and of from_bytes stay among the counts and the two ends.
LEMMA ScanTyped ==
  ASSUME NEW due \in Dues, NEW byte \in Bytes
  PROVE  Scan(due, byte) \in Dues /\ StrictScan(due, byte) \in Dues
BY DEF Scan, StrictScan, Dues, Bytes, Follow, Broken, Over

\* What is heard of a reply is bytes.
LEMMA HeardTyped ==
  ASSUME NEW text \in Seq(Bytes), NEW m \in Sayings
  PROVE  Heard(text, m) \in Seq(Bytes)
BY DEF Heard, Sayings


\* is_valid_utf8 reads a text byte by byte.
LEMMA ScanGoesOn ==
  ASSUME NEW q \in Seq(Bytes), NEW b \in Bytes
  PROVE  /\ Due(<<>>) = 0
         /\ Due(q) \in Dues
         /\ Due(Append(q, b)) = Scan(Due(q), b)
<1> DEFINE Folds(f, p) ==
             f = [s \in SUBSET DOMAIN p |->
                    IF s = {} THEN 0 ELSE Scan(f[s \ {Max(s)}], p[Max(s)])]
           G(p) == CHOOSE f : Folds(f, p)
           step == [x \in Dues \X Bytes |-> Scan(x[1], x[2])]
<1>1. \A p : Due(p) = G(p)[DOMAIN p]
  BY DEF Due, FoldLeft, MapThenFoldSet
<1>2. step \in [Dues \X Bytes -> Dues]
  BY ScanTyped
<1>3. \A x \in Dues, y \in Bytes : step[<<x, y>>] = Scan(x, y)
  OBVIOUS
<1>4. 0 \in Dues
  BY DEF Dues
<1> HIDE DEF step
<1>5. ASSUME NEW p \in Seq(Bytes)
      PROVE  \E f : Folds(f, p)
  <2>1. PICK f : FoldsTo(f, Dues, 0, step, p)
    BY <1>2, <1>4, FoldIsDefined
  <2>2. ASSUME NEW s \in SUBSET (1 .. Len(p)), s # {}
        PROVE  f[s] = Scan(f[s \ {Max(s)}], p[Max(s)])
    <3>1. Len(p) \in Nat
      OBVIOUS
    <3>2. Max(s) \in s
      BY <2>2, <3>1, LastPosition
    <3>3. Max(s) \in 1 .. Len(p) /\ s \ {Max(s)} \in SUBSET (1 .. Len(p))
      BY <3>2
    <3>4. p[Max(s)] \in Bytes /\ f[s \ {Max(s)}] \in Dues
      BY <2>1, <3>3 DEF FoldsTo
    <3>5. QED
      BY <1>3, <2>1, <2>2, <3>4 DEF FoldsTo
  <2>3. DOMAIN p = 1 .. Len(p)
    OBVIOUS
  <2>4. Folds(f, p)
    BY <2>1, <2>2, <2>3 DEF FoldsTo
  <2> HIDE DEF Folds
  <2>5. QED
    BY <2>4
<1>6. ASSUME NEW p \in Seq(Bytes)
      PROVE  Proceeds(G(p), Dues, 0, step, p)
  <2>1. Folds(G(p), p)
    <3> HIDE DEF Folds
    <3>1. QED
      BY <1>5
  <2>2. DOMAIN p = 1 .. Len(p)
    OBVIOUS
  <2> HIDE DEF G
  <2>3. ASSUME NEW s \in SUBSET (1 .. Len(p)), s # {}, G(p)[s \ {Max(s)}] \in Dues
        PROVE  G(p)[s] = step[<<G(p)[s \ {Max(s)}], p[Max(s)]>>]
    <3>1. Len(p) \in Nat
      OBVIOUS
    <3>2. Max(s) \in s
      BY <2>3, <3>1, LastPosition
    <3>3. p[Max(s)] \in Bytes
      <4>1. Max(s) \in 1 .. Len(p)
        BY <3>2
      <4>2. QED
        BY <4>1
    <3>4. G(p)[s] = Scan(G(p)[s \ {Max(s)}], p[Max(s)])
      BY <2>1, <2>2, <2>3
    <3>5. QED
      BY <1>3, <2>3, <3>3, <3>4
  <2>4. G(p)[{}] = 0
    BY <2>1
  <2>5. QED
    BY <2>3, <2>4 DEF Proceeds
<1> HIDE DEF G
<1>7. Append(q, b) \in Seq(Bytes)
  OBVIOUS
<1>8. /\ G(q)[DOMAIN q] \in Dues
      /\ G(Append(q, b))[DOMAIN Append(q, b)] = step[<<G(q)[DOMAIN q], b>>]
  <2> DEFINE f == G(q)
             g == G(Append(q, b))
  <2>1. Proceeds(f, Dues, 0, step, q)
    BY <1>6
  <2>2. Proceeds(g, Dues, 0, step, Append(q, b))
    BY <1>6, <1>7
  <2> HIDE DEF f, g
  <2>3. TakesAStep(f, g, Dues, step, q, b)
    BY <1>2, <1>4, <2>1, <2>2, FoldGoesOn
  <2>4. QED
    BY <2>3 DEF f, g, TakesAStep
<1>9. Due(<<>>) = 0
  <2>1. <<>> \in Seq(Bytes) /\ DOMAIN <<>> = {}
    OBVIOUS
  <2>2. QED
    BY <1>1, <1>6, <2>1 DEF Proceeds
<1>10. QED
  BY <1>1, <1>3, <1>8, <1>9


\* So does from_bytes.
LEMMA StrictScanGoesOn ==
  ASSUME NEW q \in Seq(Bytes), NEW b \in Bytes
  PROVE  /\ Strict(<<>>) = 0
         /\ Strict(q) \in Dues
         /\ Strict(Append(q, b)) = StrictScan(Strict(q), b)
<1> DEFINE Folds(f, p) ==
             f = [s \in SUBSET DOMAIN p |->
                    IF s = {} THEN 0 ELSE StrictScan(f[s \ {Max(s)}], p[Max(s)])]
           G(p) == CHOOSE f : Folds(f, p)
           step == [x \in Dues \X Bytes |-> StrictScan(x[1], x[2])]
<1>1. \A p : Strict(p) = G(p)[DOMAIN p]
  BY DEF Strict, FoldLeft, MapThenFoldSet
<1>2. step \in [Dues \X Bytes -> Dues]
  BY ScanTyped
<1>3. \A x \in Dues, y \in Bytes : step[<<x, y>>] = StrictScan(x, y)
  OBVIOUS
<1>4. 0 \in Dues
  BY DEF Dues
<1> HIDE DEF step
<1>5. ASSUME NEW p \in Seq(Bytes)
      PROVE  \E f : Folds(f, p)
  <2>1. PICK f : FoldsTo(f, Dues, 0, step, p)
    BY <1>2, <1>4, FoldIsDefined
  <2>2. ASSUME NEW s \in SUBSET (1 .. Len(p)), s # {}
        PROVE  f[s] = StrictScan(f[s \ {Max(s)}], p[Max(s)])
    <3>1. Len(p) \in Nat
      OBVIOUS
    <3>2. Max(s) \in s
      BY <2>2, <3>1, LastPosition
    <3>3. Max(s) \in 1 .. Len(p) /\ s \ {Max(s)} \in SUBSET (1 .. Len(p))
      BY <3>2
    <3>4. p[Max(s)] \in Bytes /\ f[s \ {Max(s)}] \in Dues
      BY <2>1, <3>3 DEF FoldsTo
    <3>5. QED
      BY <1>3, <2>1, <2>2, <3>4 DEF FoldsTo
  <2>3. DOMAIN p = 1 .. Len(p)
    OBVIOUS
  <2>4. Folds(f, p)
    BY <2>1, <2>2, <2>3 DEF FoldsTo
  <2> HIDE DEF Folds
  <2>5. QED
    BY <2>4
<1>6. ASSUME NEW p \in Seq(Bytes)
      PROVE  Proceeds(G(p), Dues, 0, step, p)
  <2>1. Folds(G(p), p)
    <3> HIDE DEF Folds
    <3>1. QED
      BY <1>5
  <2>2. DOMAIN p = 1 .. Len(p)
    OBVIOUS
  <2> HIDE DEF G
  <2>3. ASSUME NEW s \in SUBSET (1 .. Len(p)), s # {}, G(p)[s \ {Max(s)}] \in Dues
        PROVE  G(p)[s] = step[<<G(p)[s \ {Max(s)}], p[Max(s)]>>]
    <3>1. Len(p) \in Nat
      OBVIOUS
    <3>2. Max(s) \in s
      BY <2>3, <3>1, LastPosition
    <3>3. p[Max(s)] \in Bytes
      <4>1. Max(s) \in 1 .. Len(p)
        BY <3>2
      <4>2. QED
        BY <4>1
    <3>4. G(p)[s] = StrictScan(G(p)[s \ {Max(s)}], p[Max(s)])
      BY <2>1, <2>2, <2>3
    <3>5. QED
      BY <1>3, <2>3, <3>3, <3>4
  <2>4. G(p)[{}] = 0
    BY <2>1
  <2>5. QED
    BY <2>3, <2>4 DEF Proceeds
<1> HIDE DEF G
<1>7. Append(q, b) \in Seq(Bytes)
  OBVIOUS
<1>8. /\ G(q)[DOMAIN q] \in Dues
      /\ G(Append(q, b))[DOMAIN Append(q, b)] = step[<<G(q)[DOMAIN q], b>>]
  <2> DEFINE f == G(q)
             g == G(Append(q, b))
  <2>1. Proceeds(f, Dues, 0, step, q)
    BY <1>6
  <2>2. Proceeds(g, Dues, 0, step, Append(q, b))
    BY <1>6, <1>7
  <2> HIDE DEF f, g
  <2>3. TakesAStep(f, g, Dues, step, q, b)
    BY <1>2, <1>4, <2>1, <2>2, FoldGoesOn
  <2>4. QED
    BY <2>3 DEF f, g, TakesAStep
<1>9. Strict(<<>>) = 0
  <2>1. <<>> \in Seq(Bytes) /\ DOMAIN <<>> = {}
    OBVIOUS
  <2>2. QED
    BY <1>1, <1>6, <2>1 DEF Proceeds
<1>10. QED
  BY <1>1, <1>3, <1>8, <1>9


\* The child hears a reply message by message.
LEMMA HeardGoesOn ==
  ASSUME NEW q \in Seq(Sayings), NEW b \in Sayings
  PROVE  /\ Hear(<<>>) = <<>>
         /\ Hear(q) \in Seq(Bytes)
         /\ Hear(Append(q, b)) = Heard(Hear(q), b)
<1> DEFINE Folds(f, p) ==
             f = [s \in SUBSET DOMAIN p |->
                    IF s = {} THEN <<>> ELSE Heard(f[s \ {Max(s)}], p[Max(s)])]
           G(p) == CHOOSE f : Folds(f, p)
           step == [x \in Seq(Bytes) \X Sayings |-> Heard(x[1], x[2])]
<1>1. \A p : Hear(p) = G(p)[DOMAIN p]
  BY DEF Hear, FoldLeft, MapThenFoldSet
<1>2. step \in [Seq(Bytes) \X Sayings -> Seq(Bytes)]
  BY HeardTyped
<1>3. \A x \in Seq(Bytes), y \in Sayings : step[<<x, y>>] = Heard(x, y)
  OBVIOUS
<1>4. <<>> \in Seq(Bytes)
  BY EmptySeq
<1> HIDE DEF step
<1>5. ASSUME NEW p \in Seq(Sayings)
      PROVE  \E f : Folds(f, p)
  <2>1. PICK f : FoldsTo(f, Seq(Bytes), <<>>, step, p)
    BY <1>2, <1>4, FoldIsDefined
  <2>2. ASSUME NEW s \in SUBSET (1 .. Len(p)), s # {}
        PROVE  f[s] = Heard(f[s \ {Max(s)}], p[Max(s)])
    <3>1. Len(p) \in Nat
      OBVIOUS
    <3>2. Max(s) \in s
      BY <2>2, <3>1, LastPosition
    <3>3. Max(s) \in 1 .. Len(p) /\ s \ {Max(s)} \in SUBSET (1 .. Len(p))
      BY <3>2
    <3>4. p[Max(s)] \in Sayings /\ f[s \ {Max(s)}] \in Seq(Bytes)
      BY <2>1, <3>3 DEF FoldsTo
    <3>5. QED
      BY <1>3, <2>1, <2>2, <3>4 DEF FoldsTo
  <2>3. DOMAIN p = 1 .. Len(p)
    OBVIOUS
  <2>4. Folds(f, p)
    BY <2>1, <2>2, <2>3 DEF FoldsTo
  <2> HIDE DEF Folds
  <2>5. QED
    BY <2>4
<1>6. ASSUME NEW p \in Seq(Sayings)
      PROVE  Proceeds(G(p), Seq(Bytes), <<>>, step, p)
  <2>1. Folds(G(p), p)
    <3> HIDE DEF Folds
    <3>1. QED
      BY <1>5
  <2>2. DOMAIN p = 1 .. Len(p)
    OBVIOUS
  <2> HIDE DEF G
  <2>3. ASSUME NEW s \in SUBSET (1 .. Len(p)), s # {}, G(p)[s \ {Max(s)}] \in Seq(Bytes)
        PROVE  G(p)[s] = step[<<G(p)[s \ {Max(s)}], p[Max(s)]>>]
    <3>1. Len(p) \in Nat
      OBVIOUS
    <3>2. Max(s) \in s
      BY <2>3, <3>1, LastPosition
    <3>3. p[Max(s)] \in Sayings
      <4>1. Max(s) \in 1 .. Len(p)
        BY <3>2
      <4>2. QED
        BY <4>1
    <3>4. G(p)[s] = Heard(G(p)[s \ {Max(s)}], p[Max(s)])
      BY <2>1, <2>2, <2>3
    <3>5. QED
      BY <1>3, <2>3, <3>3, <3>4
  <2>4. G(p)[{}] = <<>>
    BY <2>1
  <2>5. QED
    BY <2>3, <2>4 DEF Proceeds
<1> HIDE DEF G
<1>7. Append(q, b) \in Seq(Sayings)
  OBVIOUS
<1>8. /\ G(q)[DOMAIN q] \in Seq(Bytes)
      /\ G(Append(q, b))[DOMAIN Append(q, b)] = step[<<G(q)[DOMAIN q], b>>]
  <2> DEFINE f == G(q)
             g == G(Append(q, b))
  <2>1. Proceeds(f, Seq(Bytes), <<>>, step, q)
    BY <1>6
  <2>2. Proceeds(g, Seq(Bytes), <<>>, step, Append(q, b))
    BY <1>6, <1>7
  <2> HIDE DEF f, g
  <2>3. TakesAStep(f, g, Seq(Bytes), step, q, b)
    BY <1>2, <1>4, <2>1, <2>2, FoldGoesOn
  <2>4. QED
    BY <2>3 DEF f, g, TakesAStep
<1>9. Hear(<<>>) = <<>>
  <2>1. <<>> \in Seq(Sayings) /\ DOMAIN <<>> = {}
    OBVIOUS
  <2>2. QED
    BY <1>1, <1>6, <2>1 DEF Proceeds
<1>10. QED
  BY <1>1, <1>3, <1>8, <1>9

\* Induction, for a set of sequences.
LEMMA AllSequences ==
  ASSUME NEW A, NEW T \in SUBSET Seq(A), <<>> \in T,
         \A q \in T, b \in A : Append(q, b) \in T
  PROVE  T = Seq(A)
<1> DEFINE N == {n \in Nat : \A q \in Seq(A) : Len(q) = n => q \in T}
<1>1. 0 \in N
  <2>1. ASSUME NEW q \in Seq(A), Len(q) = 0
        PROVE  q \in T
    <3>1. q = <<>>
      BY <2>1, EmptySeq
    <3>2. QED
      BY <3>1
  <2>2. QED
    BY <2>1
<1>2. ASSUME NEW n \in N
      PROVE  n + 1 \in N
  <2>1. n \in Nat /\ \A q \in Seq(A) : Len(q) = n => q \in T
    OBVIOUS
  <2>2. ASSUME NEW q \in Seq(A), Len(q) = n + 1
        PROVE  q \in T
    <3>1. q # <<>>
      BY <2>1, <2>2
    <3>2. PICK p \in Seq(A), b \in A : q = Append(p, b)
      BY <3>1, SequenceEmptyOrAppend
    <3>3. Len(q) = Len(p) + 1 /\ Len(p) \in Nat
      BY <3>2
    <3>4. Len(p) = n
      BY <2>1, <2>2, <3>3
    <3>5. QED
      BY <2>1, <3>2, <3>4
  <2>3. n + 1 \in Nat
    BY <2>1
  <2>4. QED
    BY <2>2, <2>3
<1>3. N \in SUBSET Nat
  OBVIOUS
<1>4. N = Nat
  <2> HIDE DEF N
  <2>1. QED
    BY <1>1, <1>2, <1>3, AllNaturals
<1>5. ASSUME NEW q \in Seq(A)
      PROVE  q \in T
  <2>1. Len(q) \in N
    BY <1>4
  <2>2. QED
    BY <2>1
<1>6. QED
  BY <1>5

\* A concatenation grows at its end.
LEMMA ConcatAppend ==
  ASSUME NEW A, NEW s \in Seq(A), NEW t \in Seq(A), NEW b \in A
  PROVE  s \o Append(t, b) = Append(s \o t, b) /\ s \o <<>> = s /\ s \o t \in Seq(A)
OBVIOUS

\* After a whole text, from_bytes reads what follows as if it began there; after a
\* broken one it reads nothing more.
LEMMA StrictOfConcat ==
  ASSUME NEW t \in Seq(Bytes), NEW u \in Seq(Bytes)
  PROVE  /\ Strict(t) = 0 => Strict(t \o u) = Strict(u)
         /\ Strict(t) < 0 => Strict(t \o u) < 0
<1> DEFINE T == {v \in Seq(Bytes) : /\ Strict(t) = 0 => Strict(t \o v) = Strict(v)
                                    /\ Strict(t) < 0 => Strict(t \o v) < 0}
<1>1. Strict(<<>>) = 0 /\ Strict(t) \in Dues
  BY StrictScanGoesOn DEF Bytes
<1>2. <<>> \in T
  <2>1. t \o <<>> = t /\ <<>> \in Seq(Bytes)
    OBVIOUS
  <2>2. QED
    BY <1>1, <2>1
<1>3. ASSUME NEW v \in T, NEW b \in Bytes
      PROVE  Append(v, b) \in T
  <2>1. v \in Seq(Bytes) /\ t \o v \in Seq(Bytes) /\ Append(v, b) \in Seq(Bytes)
    OBVIOUS
  <2>2. t \o Append(v, b) = Append(t \o v, b)
    BY <2>1, ConcatAppend
  <2>3. /\ Strict(t \o Append(v, b)) = StrictScan(Strict(t \o v), b)
        /\ Strict(Append(v, b)) = StrictScan(Strict(v), b)
        /\ Strict(t \o v) \in Dues
    BY <2>1, <2>2, StrictScanGoesOn
  <2>4. Strict(t \o v) < 0 => StrictScan(Strict(t \o v), b) < 0
    BY <2>3 DEF StrictScan, Scan, Dues
  <2>5. /\ Strict(t) = 0 => Strict(t \o v) = Strict(v)
        /\ Strict(t) < 0 => Strict(t \o v) < 0
    OBVIOUS
  <2>6. QED
    BY <2>1, <2>3, <2>4, <2>5
<1>4. T \in SUBSET Seq(Bytes)
  OBVIOUS
<1>5. T = Seq(Bytes)
  <2> HIDE DEF T
  <2>1. QED
    BY <1>2, <1>3, <1>4, AllSequences
<1>6. QED
  BY <1>5

\* A text that a few continuations make whole is not broken.
LEMMA SoundIsStrict ==
  ASSUME NEW t \in Seq(Bytes), IsSound(t)
  PROVE  Strict(t) >= 0
<1>1. PICK n \in 0 .. 3 : IsConvertible(t \o [i \in 1 .. n |-> "continuation"])
  BY DEF IsSound
<1>2. [i \in 1 .. n |-> "continuation"] \in Seq(Bytes)
  <2>1. n \in Nat /\ "continuation" \in Bytes
    BY DEF Bytes
  <2> HIDE DEF Bytes
  <2>2. QED
    BY <2>1
<1>3. ~(Strict(t) < 0)
  BY <1>1, <1>2, StrictOfConcat DEF IsConvertible, Strict
<1>4. Strict(t) \in Dues
  BY StrictScanGoesOn DEF Bytes
<1>5. QED
  BY <1>3, <1>4 DEF Dues

\* Where from_bytes finds nothing broken and no NUL is, both readings agree.
LEMMA ReadingsAgree ==
  ASSUME NEW t \in Seq(Bytes), "nul" \notin Range(t), Strict(t) >= 0
  PROVE  Due(t) = Strict(t)
<1> DEFINE T == {v \in Seq(Bytes) : "nul" \notin Range(v) /\ Strict(v) >= 0
                                      => Due(v) = Strict(v)}
<1>1. <<>> \in T
  <2>1. Due(<<>>) = 0 /\ Strict(<<>>) = 0 /\ <<>> \in Seq(Bytes)
    BY ScanGoesOn, StrictScanGoesOn DEF Bytes
  <2>2. QED
    BY <2>1
<1>2. ASSUME NEW v \in T, NEW b \in Bytes
      PROVE  Append(v, b) \in T
  <2>1. v \in Seq(Bytes) /\ Append(v, b) \in Seq(Bytes)
    OBVIOUS
  <2>2. /\ Strict(Append(v, b)) = StrictScan(Strict(v), b)
        /\ Due(Append(v, b)) = Scan(Due(v), b)
        /\ Strict(v) \in Dues
    BY <2>1, ScanGoesOn, StrictScanGoesOn
  <2>3. ASSUME "nul" \notin Range(Append(v, b)), Strict(Append(v, b)) >= 0
        PROVE  Due(Append(v, b)) = Strict(Append(v, b))
    <3>1. "nul" \notin Range(v) /\ b # "nul"
      <4>1. /\ \A i \in DOMAIN v : i \in DOMAIN Append(v, b) /\ Append(v, b)[i] = v[i]
            /\ Len(v) + 1 \in DOMAIN Append(v, b) /\ Append(v, b)[Len(v) + 1] = b
        BY <2>1
      <4>2. QED
        BY <2>3, <4>1 DEF Range
    <3>2. StrictScan(Strict(v), b) >= 0
      BY <2>2, <2>3
    <3>3. Strict(v) >= 0 /\ Scan(Strict(v), b) = StrictScan(Strict(v), b)
      BY <2>2, <3>1, <3>2 DEF StrictScan, Scan, Dues, Broken
    <3>4. Due(v) = Strict(v)
      BY <3>1, <3>3
    <3>5. QED
      BY <2>2, <3>3, <3>4
  <2>4. QED
    BY <2>1, <2>3
<1>3. T \in SUBSET Seq(Bytes)
  OBVIOUS
<1>4. T = Seq(Bytes)
  <2> HIDE DEF T
  <2>1. QED
    BY <1>1, <1>2, <1>3, AllSequences
<1>5. QED
  BY <1>4

----------------------------------------------------------------------------
(* What the child reads of a reply. *)

\* Tokens whose bytes so far are, or will be, well-formed text.
Wholesome == Strict(generated) >= 0 /\ "nul" \notin Range(generated)

\* As long as they are, what is shown is whole and what is heard is what is shown.
ShownIsHeard ==
  Wholesome =>
    /\ Strict(assembled) = 0
    /\ sent \in Seq(Sayings)
    /\ Hear(sent) = assembled
    /\ \A i \in DOMAIN sent : sent[i].type = "completed" /\ assembled # <<>>
                                => sent[i].text = assembled

\* The cache holds back nothing that could be shown, and a reply ends with the call.
HeldBackOrOver ==
  /\ utf8Cache = <<>> \/ ~IsValidUtf8(utf8Cache)
  /\ \A i \in DOMAIN sent : sent[i].type = "completed" => phase = "idle"

ReplyInv == NothingIsLost /\ ShownIsHeard /\ HeldBackOrOver

\* The words in place of a reply are not bytes of one.
LEMMA PlaceholdersAreNoText == \A text \in Seq(Bytes) : text \notin Placeholders
<1>1. "nothing visible" \notin Bytes /\ "encoding error" \notin Bytes
  BY DEF Bytes
<1>2. ASSUME NEW text \in Seq(Bytes)
      PROVE  text # NothingVisible /\ text # EncodingError
  <2>1. \A w : text = <<w>> => w \in Bytes
    <3>1. \A w : Len(<<w>>) = 1 /\ <<w>>[1] = w
      OBVIOUS
    <3>2. Len(text) = 1 => text[1] \in Bytes
      OBVIOUS
    <3>3. QED
      BY <3>1, <3>2
  <2>2. QED
    BY <1>1, <2>1 DEF NothingVisible, EncodingError
<1>3. QED
  BY <1>2 DEF Placeholders

\* A message joins those heard.
LEMMA OneMoreMessage ==
  ASSUME NEW messages \in Seq(Sayings), NEW message \in Sayings
  PROVE  /\ Append(messages, message) \in Seq(Sayings)
         /\ Hear(Append(messages, message)) = Heard(Hear(messages), message)
         /\ \A i \in DOMAIN Append(messages, message) :
              \/ i \in DOMAIN messages /\ Append(messages, message)[i] = messages[i]
              \/ Append(messages, message)[i] = message
BY HeardGoesOn

\* Of nothing, nothing is due and nothing is heard.
LEMMA NothingIsHeardYet == Strict(<<>>) = 0 /\ Hear(<<>>) = <<>>
<1>1. "ascii" \in Bytes /\ [type |-> "failed"] \in Sayings
  BY DEF Bytes, Sayings, Messages
<1>2. <<>> \in Seq(Bytes) /\ <<>> \in Seq(Sayings)
  OBVIOUS
<1>3. QED
  BY <1>1, <1>2, StrictScanGoesOn, HeardGoesOn

\* Nothing has been said of a new reply.
LEMMA ReplyBegins ==
  ASSUME generated' = <<>>, utf8Cache' = <<>>, assembled' = <<>>, sent' = <<>>
  PROVE  ReplyInv'
<1>1. /\ <<>> \o <<>> = <<>> /\ <<>> \in Seq(Sayings) /\ DOMAIN <<>> = {}
  OBVIOUS
<1>2. Strict(<<>>) = 0 /\ Hear(<<>>) = <<>>
  BY NothingIsHeardYet
<1>3. QED
  BY <1>1, <1>2 DEF ReplyInv, NothingIsLost, ShownIsHeard, HeldBackOrOver

\* A step that leaves the text alone, and may say something other than a token.
LEMMA ReplyIsToldOn ==
  ASSUME ReplyInv, TextTyped, phase # "idle", UNCHANGED textVars,
         NEW message \in Messages, message.type # "token", Say(message),
         message.type = "completed" => phase' = "idle",
         message.type = "completed" /\ assembled # <<>> /\ Strict(assembled) = 0
           => message.text = assembled
  PROVE  ReplyInv'
<1>1. sent' = Append(sent, message) /\ sent \in Seq(Messages)
  BY DEF Say, TextTyped
<1>2. \A i \in DOMAIN sent' : \/ i \in DOMAIN sent /\ sent'[i] = sent[i]
                              \/ sent'[i] = message
  BY <1>1
<1>3. /\ UNCHANGED <<generated, utf8Cache, assembled>>
      /\ NothingIsLost /\ ShownIsHeard /\ HeldBackOrOver
  BY DEF textVars, ReplyInv
<1>4. HeldBackOrOver'
  BY <1>2, <1>3 DEF HeldBackOrOver
<1>5. ASSUME Wholesome'
      PROVE  /\ Strict(assembled') = 0
             /\ sent' \in Seq(Sayings)
             /\ Hear(sent') = assembled'
             /\ \A i \in DOMAIN sent' : sent'[i].type = "completed" /\ assembled' # <<>>
                                          => sent'[i].text = assembled'
  <2>1. Wholesome
    BY <1>3, <1>5 DEF Wholesome
  <2>2. /\ Strict(assembled) = 0 /\ sent \in Seq(Sayings) /\ Hear(sent) = assembled
        /\ \A i \in DOMAIN sent : sent[i].type = "completed" /\ assembled # <<>>
                                    => sent[i].text = assembled
    BY <1>3, <2>1 DEF ShownIsHeard
  <2>3. message \in Sayings /\ Heard(assembled, message) = assembled
    BY DEF Sayings, Heard
  <2>4. sent' \in Seq(Sayings) /\ Hear(sent') = assembled
    BY <1>1, <2>2, <2>3, OneMoreMessage
  <2>5. QED
    BY <1>2, <1>3, <2>2, <2>4
<1>6. QED
  BY <1>3, <1>4, <1>5 DEF ReplyInv, NothingIsLost, ShownIsHeard

\* A token's bytes are shown as far as they end a character.
LEMMA ReplyIsShown ==
  ASSUME ReplyInv, TextTyped, phase = "generating", phase' = phase,
         NEW bytes \in Seq(Bytes), Show(bytes), generated' = generated \o bytes
  PROVE  ReplyInv'
<1> DEFINE text == utf8Cache \o bytes
<1>1. /\ NothingIsLost /\ ShownIsHeard /\ HeldBackOrOver
      /\ generated \in Seq(Bytes) /\ utf8Cache \in Seq(Bytes)
      /\ assembled \in Seq(Bytes) /\ sent \in Seq(Messages)
      /\ text \in Seq(Bytes)
  BY DEF ReplyInv, TextTyped
<1>2. NothingIsLost'
  BY <1>1, ShowLosesNothing
<1>3. \/ /\ IsValidUtf8(text)
         /\ assembled' = assembled \o text /\ utf8Cache' = <<>>
         /\ sent' = Append(sent, [type |-> "token", text |-> ToJavaString(text)])
      \/ /\ ~IsValidUtf8(text)
         /\ utf8Cache' = text /\ UNCHANGED <<assembled, sent>>
  BY DEF Show, Say
<1> HIDE DEF text
<1>4. generated' = assembled \o text /\ generated' \in Seq(Bytes)
  <2>1. (assembled \o utf8Cache) \o bytes = assembled \o text
    <3> DEFINE B == Bytes
    <3>1. assembled \in Seq(B) /\ utf8Cache \in Seq(B) /\ bytes \in Seq(B)
      BY <1>1
    <3> HIDE DEF B
    <3>2. \A s, t, u \in Seq(B) : (s \o t) \o u = s \o (t \o u)
      BY ConcatAssociative
    <3>3. QED
      BY <3>1, <3>2 DEF text
  <2>2. QED
    BY <1>1, <2>1 DEF NothingIsLost
<1>5. HeldBackOrOver'
  <2>1. \A i \in DOMAIN sent : sent[i].type # "completed"
    BY <1>1 DEF HeldBackOrOver
  <2>2. \A i \in DOMAIN sent' : sent'[i].type # "completed"
    <3>1. CASE sent' = sent
      BY <2>1, <3>1
    <3>2. CASE sent' = Append(sent, [type |-> "token", text |-> ToJavaString(text)])
      <4> DEFINE m == [type |-> "token", text |-> ToJavaString(text)]
      <4>1. m.type # "completed"
        OBVIOUS
      <4> HIDE DEF m
      <4>2. sent' = Append(sent, m)
        BY <3>2 DEF m
      <4>3. \A i \in DOMAIN sent' : \/ i \in DOMAIN sent /\ sent'[i] = sent[i]
                                    \/ sent'[i] = m
        BY <1>1, <4>2
      <4>4. QED
        BY <2>1, <4>1, <4>3
    <3>3. QED
      BY <1>3, <3>1, <3>2
  <2>3. QED
    BY <1>3, <2>2 DEF HeldBackOrOver
<1>6. ASSUME Wholesome'
      PROVE  /\ Strict(assembled') = 0
             /\ sent' \in Seq(Sayings)
             /\ Hear(sent') = assembled'
  <2>1. Strict(generated) >= 0
    <3>1. Strict(generated) < 0 => Strict(generated \o bytes) < 0
      BY <1>1, StrictOfConcat
    <3>2. Strict(generated \o bytes) >= 0
      BY <1>6 DEF Wholesome
    <3>3. Strict(generated) \in Dues /\ Strict(generated \o bytes) \in Dues
      <4>1. generated \in Seq(Bytes) /\ generated \o bytes \in Seq(Bytes)
        BY <1>1, ConcatAppend
      <4>2. "ascii" \in Bytes
        BY DEF Bytes
      <4>3. QED
        BY <4>1, <4>2, StrictScanGoesOn
    <3>4. QED
      BY <3>1, <3>2, <3>3 DEF Dues
  <2>2. Range(generated') = Range(generated) \cup Range(bytes)
    BY <1>1, RangeConcatenation
  <2>3. Wholesome
    BY <1>6, <2>1, <2>2 DEF Wholesome
  <2>4. Strict(assembled) = 0 /\ sent \in Seq(Sayings) /\ Hear(sent) = assembled
    BY <1>1, <2>3 DEF ShownIsHeard
  <2>5. CASE ~IsValidUtf8(text)
    BY <1>3, <2>4, <2>5
  <2>6. CASE IsValidUtf8(text)
    <3>1. Strict(generated') = Strict(text)
      BY <1>1, <1>4, <2>4, StrictOfConcat
    <3>2. "nul" \notin Range(text)
      <4>1. Range(generated') = Range(assembled) \cup Range(text)
        BY <1>1, <1>4, RangeConcatenation
      <4>2. QED
        BY <1>6, <4>1 DEF Wholesome
    <3>3. Strict(text) >= 0 /\ Due(text) = Strict(text)
      BY <1>1, <1>6, <3>1, <3>2, ReadingsAgree DEF Wholesome
    <3>4. Strict(text) = 0
      BY <2>6, <3>3 DEF IsValidUtf8, Due, Over
    <3>5. ToJavaString(text) = text
      BY <3>4 DEF ToJavaString, IsConvertible, Strict
    <3> DEFINE m == [type |-> "token", text |-> text]
    <3>6. m \in Sayings /\ Heard(assembled, m) = assembled \o text
      BY <1>1 DEF Sayings, Messages, Heard
    <3>7. sent' = Append(sent, m) /\ assembled' = assembled \o text
      BY <1>3, <2>6, <3>5
    <3> HIDE DEF m
    <3>8. sent' \in Seq(Sayings) /\ Hear(sent') = assembled'
      BY <2>4, <3>6, <3>7, OneMoreMessage
    <3>9. Strict(assembled') = 0
      BY <1>4, <3>1, <3>4, <3>7
    <3>10. QED
      BY <3>8, <3>9
  <2>7. QED
    BY <2>5, <2>6
<1>7. \A i \in DOMAIN sent' : sent'[i].type # "completed"
  BY <1>5 DEF HeldBackOrOver
<1>8. QED
  BY <1>2, <1>5, <1>6, <1>7 DEF ReplyInv, ShownIsHeard

\* One step for each kind of action.
LEMMA ReplyStays ==
  ASSUME ReplyInv, TypedInv, [Next]_vars
  PROVE  ReplyInv'
<1>1. TextTyped
  BY DEF TypedInv
<1>2. ASSUME UNCHANGED <<textVars, sent>>, phase # "idle" \/ phase' = phase
      PROVE  ReplyInv'
  BY <1>2 DEF textVars, ReplyInv, NothingIsLost, ShownIsHeard, HeldBackOrOver, Wholesome
<1>3. ASSUME phase # "idle", UNCHANGED textVars,
             Say([type |-> "failed"]) \/ Say([type |-> "cancelled"])
      PROVE  ReplyInv'
  <2>1. /\ [type |-> "failed"] \in Messages /\ [type |-> "cancelled"] \in Messages
        /\ [type |-> "failed"].type = "failed" /\ [type |-> "cancelled"].type = "cancelled"
    BY DEF Messages
  <2>2. QED
    BY <1>1, <1>3, <2>1, ReplyIsToldOn
<1>4. CASE Fresh
  BY <1>4, ReplyBegins DEF Fresh
<1>5. ASSUME NEW token \in Tokens, Round(token)
      PROVE  ReplyInv'
  <2>1. phase = "generating" /\ Piece[token] \in Seq(Bytes)
    BY <1>5, EngineAssumption DEF Round
  <2>2. CASE UNCHANGED <<textVars, sent>>
    BY <1>2, <2>1, <2>2
  <2>3. CASE generated' = generated \o Piece[token] /\ Show(Piece[token]) /\ UNCHANGED phase
    BY <1>1, <2>1, <2>3, ReplyIsShown
  <2>4. CASE DecodeFails /\ UNCHANGED textVars
    BY <1>3, <2>1, <2>4 DEF DecodeFails, EndsInFailure
  <2>5. QED
    BY <1>5, <2>2, <2>3, <2>4 DEF Round
<1>6. CASE Complete
  <2> DEFINE m == [type |-> "completed",
                   text |-> IF assembled = <<>> THEN NothingVisible
                                                ELSE ToJavaString(assembled)]
  <2>1. phase # "idle" /\ phase' = "idle" /\ UNCHANGED textVars /\ Say(m)
    BY <1>6 DEF Complete, CallUnchanged, textVars
  <2>2. m \in Messages /\ m.type = "completed"
    BY <1>1 DEF Messages, TextTyped, ToJavaString, Placeholders
  <2>3. assembled # <<>> /\ Strict(assembled) = 0 => m.text = assembled
    BY DEF ToJavaString, IsConvertible, Strict
  <2> HIDE DEF m
  <2>4. QED
    BY <1>1, <2>1, <2>2, <2>3, ReplyIsToldOn
<1>7. CASE DecodeBatch \/ StreamCancelled
  BY <1>2, <1>3, <1>7
     DEF DecodeBatch, DecodeFails, EndsInFailure, StreamCancelled, CallUnchanged
<1>8. CASE LoadLocked \/ LoadFromFile \/ InitFromModel \/ FailToInit \/ BeginStream
  BY <1>2, <1>3, <1>8
     DEF LoadLocked, LoadFromFile, InitFromModel, FailToInit, BeginStream,
         LoadEndsInFailure, EndsInFailure, CallUnchanged
<1>9. CASE UnloadModel \/ RequestCancel \/ UNCHANGED vars
  BY <1>2, <1>9 DEF UnloadModel, RequestCancel, vars, callVars
<1>10. QED
  BY <1>4, <1>5, <1>6, <1>7, <1>8, <1>9 DEF Next, StartGeneration, LoadModel

\* What the property says of the reply follows.
LEMMA ReplyInvIsWhole == ReplyInv /\ TypedInv => ReplyIsWhole
<1> SUFFICES ASSUME ReplyInv, TypedInv
             PROVE  ReplyIsWhole
  OBVIOUS
<1>1. /\ NothingIsLost /\ ShownIsHeard /\ HeldBackOrOver
      /\ generated \in Seq(Bytes) /\ utf8Cache \in Seq(Bytes)
      /\ assembled \in Seq(Bytes)
  BY DEF ReplyInv, TypedInv, TextTyped
<1>2. ASSUME IsSound(generated), "nul" \notin Range(generated)
      PROVE  /\ \A i \in DOMAIN sent :
                  sent[i].type = "token" => sent[i].text \notin Placeholders
             /\ Streamed = assembled
             /\ IsConvertible(generated) => utf8Cache = <<>>
             /\ \A i \in DOMAIN sent : sent[i].type = "completed" /\ assembled # <<>>
                                         => sent[i].text = assembled
  <2>1. Wholesome
    BY <1>1, <1>2, SoundIsStrict DEF Wholesome
  <2>2. /\ Strict(assembled) = 0
        /\ sent \in Seq(Sayings)
        /\ Hear(sent) = assembled
        /\ \A i \in DOMAIN sent : sent[i].type = "completed" /\ assembled # <<>>
                                    => sent[i].text = assembled
    BY <1>1, <2>1 DEF ShownIsHeard
  <2>3. \A i \in DOMAIN sent : sent[i].type = "token" => sent[i].text \notin Placeholders
    <3>1. \A i \in DOMAIN sent : sent[i] \in Sayings
      BY <2>2
    <3>2. QED
      BY <3>1, PlaceholdersAreNoText DEF Sayings
  <2>4. ASSUME IsConvertible(generated)
        PROVE  utf8Cache = <<>>
    <3>1. Strict(utf8Cache) = Strict(generated) /\ Strict(generated) = 0
      BY <1>1, <2>2, <2>4, StrictOfConcat DEF NothingIsLost, IsConvertible, Strict
    <3>2. Range(generated) = Range(assembled) \cup Range(utf8Cache)
      BY <1>1, RangeConcatenation DEF NothingIsLost
    <3>3. Due(utf8Cache) = 0
      BY <1>1, <1>2, <3>1, <3>2, ReadingsAgree
    <3>4. QED
      BY <1>1, <3>3 DEF HeldBackOrOver, IsValidUtf8, Due
  <2>5. QED
    BY <2>2, <2>3, <2>4 DEF Streamed, Hear
<1>3. QED
  BY <1>1, <1>2 DEF ReplyIsWhole, NothingIsLost

\* Wherever the tokens cut the characters, and however the call ends, the tokens that
\* the callbacks carry are whole, together they are the reply, and the reply that
\* completes is what they said.
THEOREM ReplyAlwaysWhole == Spec => []ReplyIsWhole
<1>1. Init => ReplyInv
  <2>1. SUFFICES ASSUME Init PROVE ReplyInv
    OBVIOUS
  <2>2. <<>> \o <<>> = <<>> /\ <<>> \in Seq(Sayings) /\ DOMAIN <<>> = {}
    OBVIOUS
  <2>3. Strict(<<>>) = 0 /\ Hear(<<>>) = <<>>
    BY NothingIsHeardYet
  <2>4. QED
    BY <2>1, <2>2, <2>3
       DEF Init, ReplyInv, NothingIsLost, ShownIsHeard, HeldBackOrOver
<1>2. ReplyInv /\ TypedInv /\ [Next]_vars => ReplyInv'
  BY ReplyStays
<1>3. Init => TypedInv
  BY TypesBegin
<1>4. TypedInv /\ [Next]_vars => TypedInv'
  BY TypedStays
<1>5. QED
  BY <1>1, <1>2, <1>3, <1>4, ReplyInvIsWhole, PTL DEF Spec

=============================================================================
