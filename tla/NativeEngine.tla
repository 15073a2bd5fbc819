---------------------------- MODULE NativeEngine ----------------------------
(***************************************************************************)
(* What llama_engine_stub.cpp keeps of llama.cpp between and during the    *)
(* calls into it: the model and what belongs to it, the tokens in the      *)
(* context's memory, and the text of a reply, cut at whole characters.     *)
(*                                                                         *)
(* A call holds g_mutex from its first step to its last, so calls follow   *)
(* one another; only the cancel flag is written meanwhile.  llama.cpp is   *)
(* external: a call into it succeeds or fails.  A byte is its class.       *)
(*                                                                         *)
(* The app starts generations with one preset; loading ahead and unloading *)
(* are offered by the library and modelled for what they are.              *)
(***************************************************************************)
EXTENDS Integers, Sequences, FiniteSets, SequencesExt

CONSTANTS
  Presets,         (* A model file, a context size and a number of layers.   *)
  Tokens,          (* What the sampler may draw.                             *)
  EndTokens,       (* Tokens that end a generation.                          *)
  Piece,           (* The bytes of a token.                                  *)
  BatchSize,       (* kDefaultBatchSize: 512                                 *)
  ContextSize,     (* Tokens that a context's memory holds: 1024 in the app. *)
  MaxPrompt,       (* Bound on the tokens of a prompt.                       *)
  MaxTokens,       (* Rounds of a generation: 40 in the app.                 *)
  MaxRequests,     (* Bound on the calls to generate.                        *)
  None

\* "overlong" leads two bytes like "lead2", but no well-formed text has it.
Bytes == {"ascii", "lead2", "lead3", "lead4", "overlong", "continuation", "nul",
          "other"}

\* Every token has text: an empty string goes to Java as null, which onNativeToken
\* does not take, and what follows an exception that is pending is undefined.
ASSUME EngineAssumption ==
  /\ EndTokens \subseteq Tokens
  /\ \A t \in Tokens : Piece[t] \in Seq(Bytes) /\ Piece[t] # <<>>
  /\ BatchSize \in Nat \ {0}
  /\ {ContextSize, MaxPrompt, MaxTokens, MaxRequests} \subseteq Nat
  /\ None \notin Presets

VARIABLES
  held,            (* What the globals point to.                             *)
  live,            (* How many of each were made and not freed.              *)
  loaded,          (* The preset of g_loaded_*, or None.                     *)
  memory,          (* <<position, request>> of the tokens in the context.    *)
  phase,           (* Where the call under way is.                           *)
  call,            (* The call under way or the last one, or None.           *)
  request,         (* The number of the last call to generate.               *)
  position,        (* Tokens decoded: of the prompt, then current_position.  *)
  round,           (* i                                                      *)
  generated,       (* The bytes of all tokens drawn, for the properties.     *)
  utf8Cache,       (* utf8_cache                                             *)
  assembled,       (* assembled                                              *)
  sent,            (* The messages to Java for this request.                 *)
  cancelRequested  (* g_cancel_requested                                     *)

handleVars == <<held, live, loaded>>
callVars   == <<phase, call, request>>
textVars   == <<generated, utf8Cache, assembled>>
vars == <<handleVars, callVars, textVars, memory, position, round, sent,
          cancelRequested>>

Handles == {"model", "context", "batch", "templates", "sampler"}

\* What a loaded model comes with.
Core == Handles \ {"sampler"}

\* "(no visible response)" and "(encoding error)": words, told from a reply's bytes.
NothingVisible == <<"nothing visible">>
EncodingError  == <<"encoding error">>
Placeholders   == {NothingVisible, EncodingError}

Messages == [type : {"token", "completed"}, text : Seq(Bytes) \cup Placeholders]
              \cup [type : {"failed", "cancelled"}]

TypeOK ==
  /\ held \subseteq Handles
  /\ live \in [Handles -> Nat]
  /\ loaded \in Presets \cup {None}
  /\ memory \subseteq (0 .. MaxPrompt + MaxTokens) \X (1 .. MaxRequests)
  /\ Cardinality(memory) <= ContextSize
  /\ phase \in {"idle", "entered", "loading", "modelOnly", "ready", "prompt",
                "generating", "ending"}
  /\ call \in [op : {"generate"}, preset : Presets, prompt : 0 .. MaxPrompt]
                \cup [op : {"load"}, preset : Presets] \cup {None}
  /\ request \in 0 .. MaxRequests
  /\ position \in 0 .. MaxPrompt + MaxTokens
  /\ round \in 0 .. MaxTokens
  /\ generated \in Seq(Bytes)
  /\ utf8Cache \in Seq(Bytes)
  /\ assembled \in Seq(Bytes)
  /\ sent \in Seq(Messages)
  /\ cancelRequested \in BOOLEAN

Init ==
  /\ held = {}
  /\ live = [h \in Handles |-> 0]
  /\ loaded = None
  /\ memory = {}
  /\ phase = "idle"
  /\ call = None
  /\ request = 0
  /\ position = 0
  /\ round = 0
  /\ generated = <<>>
  /\ utf8Cache = <<>>
  /\ assembled = <<>>
  /\ sent = <<>>
  /\ cancelRequested = FALSE

----------------------------------------------------------------------------
(* is_valid_utf8, a byte at a time: how many continuations are due. *)

Broken == -1
Over   == -2   \* a NUL ends a C string

Follow == [ascii |-> 0, lead2 |-> 1, overlong |-> 1, lead3 |-> 2, lead4 |-> 3,
           nul |-> Over, continuation |-> Broken, other |-> Broken]

Scan(due, byte) ==
  IF due < 0 THEN due
  ELSE IF due = 0 THEN Follow[byte]
  ELSE IF byte = "continuation" THEN due - 1
  ELSE Broken

\* Mutation: a character may end in the middle.
IsHarmless(text) == FoldLeft(Scan, 0, text) # Broken

IsValidUtf8(text) == FoldLeft(Scan, 0, text) \in {0, Over}

\* from_bytes refuses an overlong character and takes a NUL for one.
StrictScan(due, byte) ==
  IF due = 0 /\ byte = "overlong" THEN Broken
  ELSE IF due = 0 /\ byte = "nul" THEN 0
  ELSE Scan(due, byte)

IsConvertible(text) == FoldLeft(StrictScan, 0, text) = 0

\* utf8_to_jstring
ToJavaString(text) == IF IsConvertible(text) THEN text ELSE EncodingError

----------------------------------------------------------------------------
(* Loading and unloading. *)

Acquire(things) ==
  /\ held' = held \cup things
  /\ live' = [h \in Handles |-> IF h \in things THEN live[h] + 1 ELSE live[h]]

Release(things) ==
  /\ held' = held \ things
  /\ live' = [h \in Handles |-> IF h \in things \cap held THEN live[h] - 1 ELSE live[h]]

\* unload_locked; the memory goes with the context.
Unload ==
  /\ Release(Handles)
  /\ loaded' = None
  /\ memory' = {}
  /\ cancelRequested' = FALSE

Fresh ==
  /\ position' = 0
  /\ round' = 0
  /\ generated' = <<>>
  /\ utf8Cache' = <<>>
  /\ assembled' = <<>>
  /\ sent' = <<>>

\* nativeStartGeneration up to the lock.
StartGeneration(preset, length) ==
  /\ phase = "idle"
  /\ request < MaxRequests
  /\ phase' = "entered"
  /\ request' = request + 1
  /\ call' = [op |-> "generate", preset |-> preset, prompt |-> length]
  /\ Fresh
  /\ UNCHANGED <<handleVars, memory, cancelRequested>>

\* nativeLoadModel
LoadModel(preset) ==
  /\ phase = "idle"
  /\ phase' = "entered"
  /\ call' = [op |-> "load", preset |-> preset]
  /\ Fresh
  /\ UNCHANGED <<handleVars, memory, request, cancelRequested>>

\* nativeUnloadModel
UnloadModel ==
  /\ phase = "idle"
  /\ Unload
  /\ UNCHANGED <<callVars, textVars, position, round, sent>>

CallUnchanged == UNCHANGED <<call, request, textVars, position, round>>

\* load_model_locked: what is loaded is kept if it is what is asked for.
LoadLocked ==
  /\ phase = "entered"
  /\ IF loaded = call.preset /\ {"model", "context"} \subseteq held
       THEN /\ phase' = IF call.op = "load" THEN "idle" ELSE "ready"
            /\ UNCHANGED <<handleVars, memory, cancelRequested>>
       ELSE /\ phase' = "loading"
            /\ Unload
  /\ CallUnchanged
  /\ UNCHANGED sent

Say(message) == sent' = Append(sent, message)

EndsInFailure ==
  /\ phase' = "idle"
  /\ Say([type |-> "failed"])

\* A call to generate says that the load failed, one to load returns false.
LoadEndsInFailure ==
  \/ call.op = "generate" /\ EndsInFailure
  \/ call.op = "load" /\ phase' = "idle" /\ UNCHANGED sent

LoadFromFile ==
  /\ phase = "loading"
  /\ \/ Acquire({"model"}) /\ phase' = "modelOnly" /\ UNCHANGED sent
     \/ LoadEndsInFailure /\ UNCHANGED <<held, live>>
  /\ CallUnchanged
  /\ UNCHANGED <<loaded, memory, cancelRequested>>

\* A context, and then the batch and the templates, which cannot fail.
InitFromModel ==
  /\ phase = "modelOnly"
  /\ Acquire(Core \ {"model"})
  /\ loaded' = call.preset
  /\ phase' = IF call.op = "load" THEN "idle" ELSE "ready"
  /\ CallUnchanged
  /\ UNCHANGED <<memory, sent, cancelRequested>>

\* Mutation: the model stays without a context.
ForgetContext ==
  /\ phase = "modelOnly"
  /\ LoadEndsInFailure
  /\ CallUnchanged
  /\ UNCHANGED <<handleVars, memory, cancelRequested>>

\* No context: the model is unloaded again.
FailToInit ==
  /\ phase = "modelOnly"
  /\ Unload
  /\ LoadEndsInFailure
  /\ CallUnchanged

----------------------------------------------------------------------------
(* Generating. *)

\* Mutation: the memory of the last request is kept.
BeginStreamRemembering ==
  /\ phase = "ready"
  /\ cancelRequested' = FALSE
  /\ held' = held \cup {"sampler"}
  /\ live' = [live EXCEPT !["sampler"] = 1]
  /\ phase' = "prompt"
  /\ UNCHANGED <<loaded, memory, sent>>
  /\ CallUnchanged

\* stream_completion_locked makes a new sampler, clears the memory and reads the
\* prompt; it fails without a sampler or without a token.
BeginStream ==
  /\ phase = "ready"
  /\ cancelRequested' = FALSE
  /\ \/ /\ held' = held \cup {"sampler"}
        /\ live' = [live EXCEPT !["sampler"] = IF "sampler" \in held THEN @ ELSE @ + 1]
        /\ memory' = {}
        /\ IF call.prompt = 0 THEN EndsInFailure
                              ELSE phase' = "prompt" /\ UNCHANGED sent
     \/ /\ Release({"sampler"})
        /\ EndsInFailure
        /\ UNCHANGED memory
  /\ UNCHANGED loaded
  /\ CallUnchanged

\* llama_decode of the next n tokens; it may also fail with room to spare.
Decode(n) ==
  /\ Cardinality(memory) + n <= ContextSize
  /\ memory' = memory \cup ((position .. position + n - 1) \X {request})
  /\ position' = position + n

DecodeFails ==
  /\ EndsInFailure
  /\ UNCHANGED <<memory, position>>

\* decode_tokens, a batch of the prompt at a time.
DecodeBatch ==
  /\ phase = "prompt"
  /\ \/ /\ Decode(Min({BatchSize, call.prompt - position}))
        /\ phase' = IF position' = call.prompt THEN "generating" ELSE "prompt"
        /\ UNCHANGED sent
     \/ DecodeFails
  /\ UNCHANGED <<handleVars, call, request, textVars, round, cancelRequested>>

\* A token's bytes are shown once they end with a whole character.
Show(bytes) ==
  LET text == utf8Cache \o bytes
  IN  IF IsValidUtf8(text)
        THEN /\ assembled' = assembled \o text
             /\ utf8Cache' = <<>>
             /\ Say([type |-> "token", text |-> ToJavaString(text)])
        ELSE /\ utf8Cache' = text
             /\ UNCHANGED <<assembled, sent>>

\* Mutation: one round too many.
HasAnotherRound == round <= MaxTokens

HasRounds == round < MaxTokens

\* A round: a token that does not end the reply is decoded and shown.  What it writes
\* does not depend on a cancel during the round; InferenceBridge has the two apart.
Round(token) ==
  /\ phase = "generating"
  /\ HasRounds
  /\ ~cancelRequested
  /\ round' = round + 1
  /\ IF token \in EndTokens
       THEN /\ phase' = "ending"
            /\ UNCHANGED <<textVars, memory, position, sent>>
       ELSE \/ /\ Decode(1)
               /\ generated' = generated \o Piece[token]
               /\ Show(Piece[token])
               /\ UNCHANGED phase
            \/ DecodeFails /\ UNCHANGED textVars
  /\ UNCHANGED <<handleVars, call, request, cancelRequested>>

StreamCancelled ==
  /\ phase = "generating"
  /\ HasRounds
  /\ cancelRequested
  /\ phase' = "idle"
  /\ Say([type |-> "cancelled"])
  /\ CallUnchanged
  /\ UNCHANGED <<handleVars, memory, cancelRequested>>

\* What the cache still holds is not shown.
Complete ==
  /\ \/ phase = "ending"
     \/ phase = "generating" /\ ~HasRounds
  /\ phase' = "idle"
  /\ Say([type |-> "completed",
          text |-> IF assembled = <<>> THEN NothingVisible
                                            ELSE ToJavaString(assembled)])
  /\ CallUnchanged
  /\ UNCHANGED <<handleVars, memory, cancelRequested>>

\* nativeRequestCancel, which takes no lock.
RequestCancel ==
  /\ cancelRequested' = TRUE
  /\ UNCHANGED <<handleVars, callVars, textVars, memory, position, round, sent>>

Next ==
  \/ \E preset \in Presets :
       \/ \E length \in 0 .. MaxPrompt : StartGeneration(preset, length)
       \/ LoadModel(preset)
  \/ UnloadModel
  \/ LoadLocked
  \/ LoadFromFile
  \/ InitFromModel
  \/ FailToInit
  \/ BeginStream
  \/ DecodeBatch
  \/ \E token \in Tokens : Round(token)
  \/ StreamCancelled
  \/ Complete
  \/ RequestCancel

Spec == Init /\ [][Next]_vars

----------------------------------------------------------------------------
(* What must hold of the engine. *)

\* Whatever step of a load fails, and whichever preset follows which, nothing is
\* leaked or freed twice; and between two calls the engine has a model with all that
\* belongs to it, of the preset it says, or nothing.
EngineIsWhole ==
  /\ \A h \in Handles : live[h] = IF h \in held THEN 1 ELSE 0
  /\ phase = "idle" => /\ held \cap Core \in {{}, Core}
                       /\ loaded # None <=> Core \subseteq held
                       /\ "sampler" \in held => Core \subseteq held

\* A reply is drawn from the prompt of its own request and from what it has said so
\* far, each token at its place, however the requests before it ended.
MemoryIsOfTheRequest ==
  /\ phase \in {"prompt", "generating", "ending"}
       => memory = (0 .. position - 1) \X {request}
  /\ phase \in {"generating", "ending"} => position >= call.prompt

\* Whole characters so far, and perhaps the beginning of one more.
IsSound(text) == \E n \in 0 .. 3 :
  IsConvertible(text \o [i \in 1 .. n |-> "continuation"])

\* What the token messages have said, put together.
Heard(text, message) ==
  IF message.type = "token" THEN text \o message.text ELSE text

Streamed == FoldLeft(Heard, <<>>, sent)

\* Tokens end inside characters, the messages must not: nothing generated is lost
\* between the cache and the reply, and as long as the tokens make well-formed
\* text, the child reads each character once it is whole, and the completed reply
\* is the text streamed before it.
ReplyIsWhole ==
  /\ assembled \o utf8Cache = generated
  /\ IsSound(generated) /\ "nul" \notin Range(generated) =>
       /\ \A i \in DOMAIN sent :
            sent[i].type = "token" => sent[i].text \notin Placeholders
       /\ Streamed = assembled
       /\ IsConvertible(generated) => utf8Cache = <<>>
       /\ \A i \in DOMAIN sent : sent[i].type = "completed" /\ assembled # <<>>
                                   => sent[i].text = assembled

=============================================================================
