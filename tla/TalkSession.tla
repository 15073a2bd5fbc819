----------------------------- MODULE TalkSession ---------------------------
(***************************************************************************)
(* Talk to Chatty from the panel to the engine: _ChattyTalkPanelState      *)
(* (lib/ui/chatty_talk_panel.dart) with ChattyTalkService, over the bridge *)
(* of InferenceBridge.  On a phone the panel is a tab's page: leaving the  *)
(* tab disposes it in the middle of anything, coming back makes a new one. *)
(*                                                                         *)
(* Messages that the panel answers by itself (an unsuitable topic, a rude  *)
(* word) change nothing here and are left out.                             *)
(***************************************************************************)
EXTENDS InferenceBridge

CONSTANT MaxPanels   (* Bound on the panels ever opened. *)

ASSUME PanelsAssumption == MaxPanels \in Nat

VARIABLES
  open,            (* A panel is mounted.                              *)
  panel,           (* The number of the last panel opened.             *)
  asker,           (* The panel that sent a question, or 0.            *)
  sending,         (* Where _send is with a question.                  *)
  preparing,       (* _preparing                                       *)
  requestId,       (* _requestId                                       *)
  draft,           (* _draft: <<question, number>> of each token.      *)
  timer,           (* The request of the armed _thinkingTimeout        *)
  endings          (* How a question was ended for the child.          *)

panelVars   == <<open, panel, preparing, requestId, draft, timer>>
sessionVars == <<panelVars, asker, sending, endings>>
vars        == <<bridgeVars, sessionVars>>

TypeOK ==
  /\ BridgeTypeOK
  /\ open \in BOOLEAN
  /\ panel \in 0 .. MaxPanels
  /\ asker \in [Questions -> 0 .. MaxPanels]
  /\ sending \in [Questions -> {"unasked", "preparing", "starting", "over"}]
  /\ preparing \in BOOLEAN
  /\ requestId \in Questions \cup {None}
  /\ draft \in Seq(Questions \X (1 .. MaxTokens))
  /\ timer \in Questions \cup {None}
  /\ endings \in [Questions -> Seq({"answered", "tangled", "stopped", "lost", "refused"})]

Init ==
  /\ BridgeInit
  /\ open = FALSE
  /\ panel = 0
  /\ asker = [q \in Questions |-> 0]
  /\ sending = [q \in Questions |-> "unasked"]
  /\ preparing = FALSE
  /\ requestId = None
  /\ draft = <<>>
  /\ timer = None
  /\ endings = [q \in Questions |-> <<>>]

----------------------------------------------------------------------------
(* Dart's event loop. *)

Call(call) == calls' = Append(calls, call)

\* The native side as a step of the panel leaves it, but for the calls.
NativeUnchanged ==
  UNCHANGED <<deliveries, posted, sink, active, cancelRequested, library, threadVars>>

IsThinking == requestId # None \/ preparing

\* The panel that asked q is the one on screen: "mounted" in its State.
Mounted(q) == open /\ asker[q] = panel

Ended(q, how) == endings' = [endings EXCEPT ![q] = Append(@, how)]

\* A State begins and ends with nothing in it.
Blank ==
  /\ preparing' = FALSE
  /\ requestId' = None
  /\ draft' = <<>>
  /\ timer' = None

\* initState
OpenPanel ==
  /\ ~open
  /\ panel < MaxPanels
  /\ open' = TRUE
  /\ panel' = panel + 1
  /\ Blank
  /\ Call([op |-> "listen"])
  /\ NativeUnchanged
  /\ UNCHANGED <<asker, sending, endings>>

\* dispose: the timer and the subscription are cancelled, the request is not.
ClosePanel ==
  /\ open
  /\ open' = FALSE
  /\ Blank
  /\ Call([op |-> "unlisten"])
  /\ NativeUnchanged
  /\ UNCHANGED <<panel, asker, sending, endings>>

\* _send up to the wait for the model file.
Send(q) ==
  /\ open
  /\ ~IsThinking
  /\ sending[q] = "unasked"
  /\ sending' = [sending EXCEPT ![q] = "preparing"]
  /\ asker' = [asker EXCEPT ![q] = panel]
  /\ preparing' = TRUE
  /\ draft' = <<>>
  /\ UNCHANGED <<bridgeVars, open, panel, requestId, timer, endings>>

\* prepareModel is done and begin is called, mounted or not.
Begin(q) ==
  /\ sending[q] = "preparing"
  /\ sending' = [sending EXCEPT ![q] = "starting"]
  /\ Call([op |-> "start", question |-> q])
  /\ NativeUnchanged
  /\ UNCHANGED <<panelVars, asker, endings>>

\* Mutation: the error is swallowed.
SendFailsSilently(q) == UNCHANGED sessionVars

\* _send's catch.
SendFails(q) ==
  /\ sending' = [sending EXCEPT ![q] = "over"]
  /\ IF Mounted(q)
       THEN /\ preparing' = FALSE
            /\ timer' = None
            /\ Ended(q, "refused")
       ELSE UNCHANGED <<preparing, timer, endings>>
  /\ UNCHANGED <<open, panel, asker, requestId, draft>>

ModelFails(q) ==
  /\ sending[q] = "preparing"
  /\ SendFails(q)
  /\ UNCHANGED bridgeVars

\* Mutation: an accepted request is not timed.
StartsUntimed(q) ==
  /\ sending' = [sending EXCEPT ![q] = "over"]
  /\ IF Mounted(q)
       THEN /\ preparing' = FALSE
            /\ requestId' = q
       ELSE UNCHANGED <<preparing, requestId>>
  /\ UNCHANGED <<open, panel, asker, draft, timer, endings>>

\* The rest of _send after an accepting reply.
Starts(q) ==
  /\ sending' = [sending EXCEPT ![q] = "over"]
  /\ IF Mounted(q)
       THEN /\ preparing' = FALSE
            /\ requestId' = q
            /\ timer' = q
       ELSE UNCHANGED <<preparing, requestId, timer>>
  /\ UNCHANGED <<open, panel, asker, draft, endings>>

\* What every ending of a request does to the panel.
Settle(q, how) ==
  /\ requestId' = None
  /\ draft' = <<>>
  /\ timer' = None
  /\ Ended(q, how)
  /\ UNCHANGED <<open, panel, asker, sending, preparing>>

\* Mutation: the request of an event is not compared.
HandleAnyEvent(event) ==
  IF ~open \/ requestId = None
    THEN UNCHANGED sessionVars
    ELSE \/ /\ event.type = "token"
            /\ draft' = Append(draft, <<event.question, event.number>>)
            /\ UNCHANGED <<open, panel, asker, sending, preparing, requestId, timer,
                           endings>>
         \/ event.type = "completed" /\ Settle(requestId, "answered")
         \/ event.type \in {"failed", "cancelled"} /\ Settle(requestId, "lost")

\* _handleEvent
HandleEvent(event) ==
  IF ~open \/ requestId # event.question
    THEN UNCHANGED sessionVars
    ELSE \/ /\ event.type = "token"
            /\ draft' = Append(draft, <<event.question, event.number>>)
            /\ UNCHANGED <<open, panel, asker, sending, preparing, requestId, timer,
                           endings>>
         \/ event.type = "completed" /\ Settle(requestId, "answered")
         \/ event.type \in {"failed", "cancelled"} /\ Settle(requestId, "lost")

\* The next reply or event from the native side.
Receive ==
  /\ deliveries # <<>>
  /\ deliveries' = Tail(deliveries)
  /\ LET message == Head(deliveries) IN
       \/ message.type = "accepted" /\ Starts(message.question)
       \/ message.type = "refused" /\ SendFails(message.question)
       \/ message.type \notin {"accepted", "refused"} /\ HandleEvent(message)
  /\ UNCHANGED <<calls, posted, sink, active, cancelRequested, library, threadVars>>

\* Mutation: Stop asks the native side and waits for its event.
StopAndWait ==
  /\ requestId # None
  /\ Ended(requestId, "stopped")
  /\ Call([op |-> "cancel", question |-> requestId])
  /\ NativeUnchanged
  /\ UNCHANGED <<panelVars, asker, sending>>

\* _cancelThinking
Stop ==
  /\ requestId # None
  /\ Settle(requestId, "stopped")
  /\ Call([op |-> "cancel", question |-> requestId])
  /\ NativeUnchanged

\* _timeoutThinking, when the timer of 35 s fires.
TimeOut ==
  /\ timer # None
  /\ IF requestId = timer
       THEN /\ Settle(requestId, "tangled")
            /\ Call([op |-> "cancel", question |-> requestId])
       ELSE /\ timer' = None
            /\ UNCHANGED <<calls, open, panel, preparing, requestId, draft, asker,
                           sending, endings>>
  /\ NativeUnchanged

Panel ==
  \/ OpenPanel
  \/ ClosePanel
  \/ \E q \in Questions : Send(q) \/ Begin(q) \/ ModelFails(q)
  \/ Receive
  \/ Stop
  \/ TimeOut

Next ==
  \/ Panel
  \/ BridgeNext /\ UNCHANGED sessionVars

Spec == Init /\ [][Next]_vars

\* The child need not do anything.  Everything else goes on: Dart's event loop
\* and its timer, the wait for the model file, Android's main thread, and each
\* request's thread, whose loop has at most MaxTokens rounds.
Fairness ==
  /\ WF_vars(Receive)
  /\ WF_vars(TimeOut)
  /\ \A q \in Questions : WF_vars(Begin(q) \/ ModelFails(q))
  /\ WF_vars(MainThread /\ UNCHANGED sessionVars)
  /\ \A q \in Questions : WF_vars(Thread(q) /\ UNCHANGED sessionVars)

FairSpec == Spec /\ Fairness

----------------------------------------------------------------------------
(* Properties. *)

\* The draft on screen is what the native side wrote for the question being
\* thought about, from its first token, without a gap or a repetition.
DraftIsOfTheQuestion ==
  \A i \in DOMAIN draft : draft[i] = <<requestId, i>>

\* A panel that thinks is being timed; nothing else ends a thought whose events
\* never come.
ThoughtsAreTimed == requestId # None => timer = requestId

\* The question the panel thinks about, from _send to its end.
Talking ==
  IF requestId # None THEN requestId
  ELSE IF preparing
    THEN CHOOSE q \in Questions : /\ Mounted(q)
                                  /\ sending[q] \in {"preparing", "starting"}
    ELSE None

\* Whatever is late, doubled, dropped or still running natively, the child sees
\* one ending of each question.
Turns == INSTANCE TalkTurns WITH talking <- Talking

TurnsSpec == Turns!Spec

\* A panel never thinks for ever: the model file, the bridge's reply, an event, the
\* timer or the child ends it.
TurnsEnd == Turns!EveryTurnEnds

\* However a request ended for the child, the bridge becomes free for the next.
BridgeIsFreed == active # None ~> active = None

\* No thread is left in the engine or before it.
ThreadsFinish ==
  \A q \in Questions : step[q] # "unborn" ~> step[q] = "done"

\* chatty_talk_panel.dart:159-161: on Stop "the native bridge is also asked to
\* stop".  Once the bridge has taken the cancel of the active request, the request
\* begins no further round: at most the token of the round it is in still comes.
StoppedRequestsAreQuiet ==
  [][ \A q \in Questions :
        /\ active = q
        /\ endings[q] = <<"stopped">>
        /\ \A i \in DOMAIN calls : calls[i] # [op |-> "cancel", question |-> q]
        => ~(At(q, "generating") /\ At(q, "drawing")') ]_vars

=============================================================================
