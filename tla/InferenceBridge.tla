--------------------------- MODULE InferenceBridge -------------------------
(***************************************************************************)
(* The Android side of Talk to Chatty: InferenceBridge.kt on the main      *)
(* thread, one thread per accepted request, and llama_engine_stub.cpp      *)
(* under its mutex.  Calls come from Dart and replies and events go back   *)
(* to it over queues in order; an event first waits in the main thread's   *)
(* own queue.  The request of question q is q: the code makes a fresh UUID *)
(* for each.  The "started" event, which nothing reads, is left out.       *)
(***************************************************************************)
EXTENDS Naturals, Sequences, FiniteSets

CONSTANTS
  Questions,       (* What is ever sent to Chatty. *)
  MaxTokens,       (* 40 in the code.              *)
  None             (* null                         *)

ASSUME BridgeAssumption ==
  /\ MaxTokens \in Nat
  /\ None \notin Questions

VARIABLES
  calls,           (* Dart to native, in order.                              *)
  deliveries,      (* Native to Dart, in order.                              *)
  posted,          (* Events waiting in the Android main thread's queue.     *)
  sink,            (* eventSink # null                                       *)
  active,          (* activeRequestId                                        *)
  step,            (* Where the thread of a request is.                      *)
  outcome,         (* How its generation ended.                              *)
  rounds,          (* Rounds of its generation loop.                         *)
  engineLock,      (* The holder of g_mutex, or None.                        *)
  cancelRequested, (* g_cancel_requested                                     *)
  modelLoaded,     (* g_model and g_context are set.                         *)
  library          (* libraryLoaded: the JNI library could be loaded.        *)

threadVars == <<step, outcome, rounds, engineLock, modelLoaded>>
bridgeVars == <<calls, deliveries, posted, sink, active, cancelRequested, library,
                threadVars>>

Steps == {"unborn", "locking", "loading", "loaded", "generating", "drawing",
          "ending", "cleared", "posted", "unstarted", "unstartedCleared", "done"}
Outcomes == {"completed", "failed", "cancelled"}

Calls      == [op : {"start", "cancel"}, question : Questions]
                \cup [op : {"listen", "unlisten"}]
Replies    == [type : {"accepted", "refused"}, question : Questions]
Events     == [type : {"token"}, question : Questions, number : 1 .. MaxTokens]
                \cup [type : Outcomes, question : Questions]

BridgeTypeOK ==
  /\ calls \in Seq(Calls)
  /\ deliveries \in Seq(Replies \cup Events)
  /\ posted \in Seq(Events)
  /\ sink \in BOOLEAN
  /\ active \in Questions \cup {None}
  /\ step \in [Questions -> Steps]
  /\ outcome \in [Questions -> Outcomes \cup {None}]
  /\ rounds \in [Questions -> 0 .. MaxTokens]
  /\ engineLock \in Questions \cup {None}
  /\ cancelRequested \in BOOLEAN
  /\ modelLoaded \in BOOLEAN
  /\ library \in BOOLEAN

BridgeInit ==
  /\ calls = <<>>
  /\ deliveries = <<>>
  /\ posted = <<>>
  /\ sink = FALSE
  /\ active = None
  /\ step = [q \in Questions |-> "unborn"]
  /\ outcome = [q \in Questions |-> None]
  /\ rounds = [q \in Questions |-> 0]
  /\ engineLock = None
  /\ cancelRequested = FALSE
  /\ modelLoaded = FALSE
  /\ library \in BOOLEAN

----------------------------------------------------------------------------
(* The main thread. *)

Deliver(message) == deliveries' = Append(deliveries, message)

\* The next call from Dart.
Called(op) == calls # <<>> /\ Head(calls).op = op /\ calls' = Tail(calls)

\* The model file is missing or too big, or another generation is active.
RefuseGeneration ==
  /\ Called("start")
  /\ Deliver([type |-> "refused", question |-> Head(calls).question])
  /\ UNCHANGED <<posted, sink, active, cancelRequested, library, threadVars>>

AcceptGeneration ==
  /\ Called("start")
  /\ active = None
  /\ active' = Head(calls).question
  /\ step' = [step EXCEPT ![Head(calls).question] = "locking"]
  /\ Deliver([type |-> "accepted", question |-> Head(calls).question])
  /\ UNCHANGED <<posted, sink, cancelRequested, library, outcome, rounds,
                 engineLock, modelLoaded>>

CancelGeneration ==
  /\ Called("cancel")
  /\ cancelRequested' = (cancelRequested \/ active = Head(calls).question)
  /\ UNCHANGED <<deliveries, posted, sink, active, library, threadVars>>

AttachSink ==
  /\ \/ Called("listen")   /\ sink' = TRUE
     \/ Called("unlisten") /\ sink' = FALSE
  /\ UNCHANGED <<deliveries, posted, active, cancelRequested, library, threadVars>>

\* Mutation: an event overtakes the ones posted before it.
EmitLatest ==
  /\ posted # <<>>
  /\ posted' = SubSeq(posted, 1, Len(posted) - 1)
  /\ deliveries' = IF sink THEN Append(deliveries, posted[Len(posted)]) ELSE deliveries
  /\ UNCHANGED <<calls, sink, active, cancelRequested, library, threadVars>>

\* A posted event reaches the sink there is now, if there is one.
Emit ==
  /\ posted # <<>>
  /\ posted' = Tail(posted)
  /\ deliveries' = IF sink THEN Append(deliveries, Head(posted)) ELSE deliveries
  /\ UNCHANGED <<calls, sink, active, cancelRequested, library, threadVars>>

MainThread ==
  RefuseGeneration \/ AcceptGeneration \/ CancelGeneration \/ AttachSink \/ Emit

----------------------------------------------------------------------------
(* The thread of request q. *)

At(q, where) == step[q] = where

Goes(q, where) == step' = [step EXCEPT ![q] = where]

Ends(q, how) ==
  /\ Goes(q, "ending")
  /\ outcome' = [outcome EXCEPT ![q] = how]

Post(event) == posted' = Append(posted, event)

\* Without the library nothing is called back.
GiveUpWithoutLibrary(q) ==
  /\ At(q, "locking")
  /\ ~library
  /\ Goes(q, "unstarted")
  /\ UNCHANGED <<calls, deliveries, posted, sink, active, cancelRequested, library,
                 outcome, rounds, engineLock, modelLoaded>>

\* load_model_locked keeps a loaded model; else it unloads first, which takes a
\* cancel back.
EnterEngine(q) ==
  /\ At(q, "locking")
  /\ library
  /\ engineLock = None
  /\ engineLock' = q
  /\ IF modelLoaded
       THEN Goes(q, "loaded") /\ UNCHANGED cancelRequested
       ELSE Goes(q, "loading") /\ cancelRequested' = FALSE
  /\ UNCHANGED <<calls, deliveries, posted, sink, active, library, outcome, rounds,
                 modelLoaded>>

LoadModel(q) ==
  /\ At(q, "loading")
  /\ Goes(q, "loaded")
  /\ modelLoaded' = TRUE
  /\ UNCHANGED <<calls, deliveries, posted, sink, active, cancelRequested, library,
                 outcome, rounds, engineLock>>

\* No model, or a model and no context: then it is unloaded again.
FailToLoad(q) ==
  /\ At(q, "loading")
  /\ Ends(q, "failed")
  /\ cancelRequested' \in {cancelRequested, FALSE}
  /\ UNCHANGED <<calls, deliveries, posted, sink, active, library, rounds,
                 engineLock, modelLoaded>>

\* stream_completion_locked takes a cancel back before it reads the prompt.
StartStream(q) ==
  /\ At(q, "loaded")
  /\ cancelRequested' = FALSE
  /\ \/ Goes(q, "generating") /\ UNCHANGED outcome
     \/ Ends(q, "failed")
  /\ UNCHANGED <<calls, deliveries, posted, sink, active, library, rounds,
                 engineLock, modelLoaded>>

\* Mutation: one round too many.
BeginOneMore(q) ==
  /\ At(q, "generating")
  /\ rounds[q] <= MaxTokens
  /\ ~cancelRequested
  /\ Goes(q, "drawing")
  /\ UNCHANGED <<calls, deliveries, posted, sink, active, cancelRequested, library,
                 outcome, rounds, engineLock, modelLoaded>>

\* A round begins with a look at the flag, which a cancel may set right after it.
BeginRound(q) ==
  /\ At(q, "generating")
  /\ rounds[q] < MaxTokens
  /\ ~cancelRequested
  /\ Goes(q, "drawing")
  /\ UNCHANGED <<calls, deliveries, posted, sink, active, cancelRequested, library,
                 outcome, rounds, engineLock, modelLoaded>>

\* It ends with a token, the end of the reply or a failure.
Generate(q) ==
  /\ At(q, "drawing")
  /\ \/ /\ Goes(q, "generating")
        /\ rounds' = [rounds EXCEPT ![q] = @ + 1]
        /\ Post([type |-> "token", question |-> q, number |-> rounds[q] + 1])
        /\ UNCHANGED outcome
     \/ /\ \/ Ends(q, "completed")
           \/ Ends(q, "failed")
        /\ UNCHANGED <<rounds, posted>>
  /\ UNCHANGED <<calls, deliveries, sink, active, cancelRequested, library,
                 engineLock, modelLoaded>>

\* The round that sees the flag, or that there is none left.
StopGenerating(q) ==
  /\ At(q, "generating")
  /\ \/ rounds[q] = MaxTokens /\ Ends(q, "completed")
     \/ rounds[q] < MaxTokens /\ cancelRequested /\ Ends(q, "cancelled")
  /\ UNCHANGED <<calls, deliveries, posted, sink, active, cancelRequested, library,
                 rounds, engineLock, modelLoaded>>

\* Mutation: the callback only emits.
EndAndKeepActive(q) ==
  /\ At(q, "ending")
  /\ Goes(q, "cleared")
  /\ UNCHANGED <<calls, deliveries, posted, sink, active, cancelRequested, library,
                 outcome, rounds, engineLock, modelLoaded>>

\* onCompleted, onFailed and onCancelled: two steps on the request's thread.
ClearActive(q) ==
  /\ At(q, "ending")
  /\ Goes(q, "cleared")
  /\ active' = None
  /\ UNCHANGED <<calls, deliveries, posted, sink, cancelRequested, library, outcome,
                 rounds, engineLock, modelLoaded>>

PostOutcome(q) ==
  /\ At(q, "cleared")
  /\ Goes(q, "posted")
  /\ Post([type |-> outcome[q], question |-> q])
  /\ UNCHANGED <<calls, deliveries, sink, active, cancelRequested, library, outcome,
                 rounds, engineLock, modelLoaded>>

\* Mutation: a failed generation keeps the mutex.
LeaveEngineLocked(q) ==
  /\ At(q, "posted")
  /\ engineLock' = IF outcome[q] = "failed" THEN engineLock ELSE None
  /\ Goes(q, IF outcome[q] = "failed" THEN "unstarted" ELSE "done")
  /\ UNCHANGED <<calls, deliveries, posted, sink, active, cancelRequested, library,
                 outcome, rounds, modelLoaded>>

\* The engine is left, and says whether the generation worked.
LeaveEngine(q) ==
  /\ At(q, "posted")
  /\ engineLock' = None
  /\ Goes(q, IF outcome[q] = "failed" THEN "unstarted" ELSE "done")
  /\ UNCHANGED <<calls, deliveries, posted, sink, active, cancelRequested, library,
                 outcome, rounds, modelLoaded>>

\* "if (!started)": whoever is active now is cleared.
ClearUnstarted(q) ==
  /\ At(q, "unstarted")
  /\ Goes(q, "unstartedCleared")
  /\ active' = None
  /\ UNCHANGED <<calls, deliveries, posted, sink, cancelRequested, library, outcome,
                 rounds, engineLock, modelLoaded>>

PostUnstarted(q) ==
  /\ At(q, "unstartedCleared")
  /\ Goes(q, "done")
  /\ Post([type |-> "failed", question |-> q])
  /\ UNCHANGED <<calls, deliveries, sink, active, cancelRequested, library, outcome,
                 rounds, engineLock, modelLoaded>>

Thread(q) ==
  \/ GiveUpWithoutLibrary(q)
  \/ EnterEngine(q)
  \/ LoadModel(q)
  \/ FailToLoad(q)
  \/ StartStream(q)
  \/ BeginRound(q)
  \/ Generate(q)
  \/ StopGenerating(q)
  \/ ClearActive(q)
  \/ PostOutcome(q)
  \/ LeaveEngine(q)
  \/ ClearUnstarted(q)
  \/ PostUnstarted(q)

BridgeNext == MainThread \/ \E q \in Questions : Thread(q)

----------------------------------------------------------------------------
(* What the Android side promises. *)

\* The engine serves one request at a time: its holder is the only one inside.
InEngine(q) == step[q] \in {"loading", "loaded", "generating", "drawing", "ending",
                            "cleared", "posted"}

\* What is on its way to Dart, oldest first.
OnItsWay == deliveries \o posted

\* In the stream of a request no token comes after the end, and nothing comes
\* before the reply that accepts it.
StreamsAreOrdered ==
  \A i, j \in DOMAIN OnItsWay :
    i < j /\ OnItsWay[i].question = OnItsWay[j].question
      => /\ OnItsWay[j].type = "token" => OnItsWay[i].type \in {"accepted", "token"}
         /\ OnItsWay[j].type \notin {"accepted", "refused"}

\* A request is generating: from its acceptance to its end.
Running(q) == step[q] \in {"locking", "loading", "loaded", "generating", "drawing"}

\* InferenceBridge.kt:86-91 refuses with "Another local generation is already
\* running.": no request is accepted while another one runs.
OneGenerationAtATime ==
  \A p, q \in Questions : Running(p) /\ Running(q) => p = q

=============================================================================
