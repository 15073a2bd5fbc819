------------------------- MODULE TalkSessionProofs -------------------------
(***************************************************************************)
(* The panel over the bridge is the conversation of TalkTurns, streams are *)
(* in order and a draft is its question's, for any questions, tokens and   *)
(* panels, whatever is late, dropped or disposed.                          *)
(***************************************************************************)
EXTENDS TalkSession, SequenceTheorems, TLAPS

----------------------------------------------------------------------------
(* The inductive invariant. *)

Among(s) == {s[i] : i \in DOMAIN s}

\* Replies and events on their way to the panel.
Heard == Among(deliveries) \cup Among(posted)

IsStart(call, q) == call.op = "start" /\ call.question = q

IsReply(m) == m.type \in {"accepted", "refused"}

\* An end of q's stream has been posted, or will be.
Over(q) == step[q] \in {"posted", "unstarted", "unstartedCleared", "done"}

Pending(q) == sending[q] \in {"preparing", "starting"}

\* The types, an outcome for every generation that has one, and a round only where one is
\* left.
Typed ==
  /\ TypeOK
  /\ \A q \in Questions : step[q] \in {"ending", "cleared", "posted"} => outcome[q] \in Outcomes
  /\ \A q \in Questions : step[q] = "drawing" => rounds[q] < MaxTokens

\* The panel and what it has sent: one question at a time, on the panel that is open.
OneThought ==
  /\ \A q \in Questions : asker[q] <= panel
  /\ preparing => \E q \in Questions : Mounted(q) /\ Pending(q)
  /\ \A q \in Questions : Mounted(q) /\ Pending(q) => preparing
  /\ \A p, q \in Questions : Mounted(p) /\ Pending(p) /\ Mounted(q) /\ Pending(q) => p = q
  /\ requestId # None => /\ ~preparing
                         /\ Mounted(requestId)
                         /\ sending[requestId] = "over"
                         /\ endings[requestId] = <<>>
  /\ \A q \in Questions : sending[q] # "over" => endings[q] = <<>>
  /\ \A q \in Questions : Len(endings[q]) <= 1
  /\ timer = requestId
  /\ requestId = None => draft = <<>>

\* How far a question is: the call to start it, then the reply to that call, then
\* the events of its thread.
Protocol ==
  /\ \A q \in Questions :
       sending[q] \in {"unasked", "preparing"} =>
         /\ step[q] = "unborn"
         /\ \A call \in Among(calls) : ~IsStart(call, q)
         /\ \A m \in Heard : m.question # q
  /\ \A call \in Among(calls) :
       call.op = "start" =>
         /\ sending[call.question] = "starting"
         /\ step[call.question] = "unborn"
         /\ \A m \in Heard : m.question # call.question
  /\ \A m \in Heard :
       /\ IsReply(m) => sending[m.question] = "starting"
       /\ m.type = "refused" => step[m.question] = "unborn"
       /\ m.type # "refused" => step[m.question] # "unborn"
       /\ m.type \in Outcomes => Over(m.question)
       /\ m.type = "token" => m.number <= rounds[m.question]
  /\ \A q \in Questions : step[q] = "unborn" => rounds[q] = 0
  /\ \A q \in Questions :
       sending[q] = "starting" /\ step[q] # "unborn"
         => [type |-> "accepted", question |-> q] \in Among(deliveries)

\* Message n may come after message m.
MayFollow(m, n) ==
  m.question = n.question =>
    /\ ~IsReply(n)
    /\ n.type = "token" => /\ m.type \in {"accepted", "token"}
                           /\ m.type = "token" => m.number < n.number

Ordered(s) == \A i, j \in DOMAIN s : i < j => MayFollow(s[i], s[j])

InOrder ==
  /\ Ordered(deliveries)
  /\ Ordered(posted)
  /\ \A m \in Among(deliveries), n \in Among(posted) : MayFollow(m, n)

IsListening(call) == call.op \in {"listen", "unlisten"}

\* An open panel is heard as soon as the calls on their way have arrived, and the
\* request of a question on it begins after that and sees no change of it.
Listening ==
  /\ open =>
       \/ \E i \in DOMAIN calls : /\ calls[i].op = "listen"
                                  /\ \A j \in DOMAIN calls : i < j => calls[j].op # "unlisten"
       \/ sink /\ \A call \in Among(calls) : call.op # "unlisten"
  /\ \A i, j \in DOMAIN calls :
       i < j /\ calls[i].op = "start" =>
         /\ ~IsStart(calls[j], calls[i].question)
         /\ Mounted(calls[i].question) => ~IsListening(calls[j])
  /\ \A q \in Questions :
       Mounted(q) /\ step[q] # "unborn" => \A call \in Among(calls) : ~IsListening(call)

\* What the panel on screen waits for.
Awaited(q) ==
  /\ Mounted(q)
  /\ sending[q] = "starting" \/ requestId = q
  /\ step[q] # "unborn"

Token(q, n) == [type |-> "token", question |-> q, number |-> n]

\* The draft and the tokens on their way are all that was written, each once.
NothingMissing ==
  /\ DraftIsOfTheQuestion
  /\ \A q \in Questions : Awaited(q) =>
       /\ Len(draft) <= rounds[q]
       /\ \A n \in Len(draft) + 1 .. rounds[q] : Token(q, n) \in Heard
       /\ \A m \in Heard : m.type = "token" /\ m.question = q => Len(draft) < m.number

SessionInv ==
  /\ Typed
  /\ OneThought
  /\ Protocol
  /\ InOrder
  /\ Listening
  /\ NothingMissing

----------------------------------------------------------------------------
(* Sequences by their elements. *)

\* Appending adds an element after the others.
LEMMA AppendAdds ==
  ASSUME NEW S, NEW s \in Seq(S), NEW e \in S
  PROVE  /\ Append(s, e) \in Seq(S)
         /\ Among(Append(s, e)) = Among(s) \cup {e}
<1>1. /\ Append(s, e) \in Seq(S) /\ Len(Append(s, e)) = Len(s) + 1 /\ Len(s) \in Nat
      /\ \A i \in 1 .. Len(s) : Append(s, e)[i] = s[i]
      /\ Append(s, e)[Len(s) + 1] = e
      /\ DOMAIN s = 1 .. Len(s) /\ DOMAIN Append(s, e) = 1 .. Len(s) + 1
  OBVIOUS
<1>2. 1 .. Len(s) + 1 = (1 .. Len(s)) \cup {Len(s) + 1}
  BY <1>1
<1>3. QED
  BY <1>1, <1>2 DEF Among

\* Taking the first away leaves the others.
LEMMA TailDrops ==
  ASSUME NEW S, NEW s \in Seq(S), s # <<>>
  PROVE  /\ Tail(s) \in Seq(S) /\ Head(s) \in S
         /\ Among(s) = Among(Tail(s)) \cup {Head(s)}
<1>1. Len(s) \in Nat /\ Len(s) >= 1
  BY EmptySeq
<1>2. /\ Tail(s) \in Seq(S) /\ Len(Tail(s)) = Len(s) - 1
      /\ Head(s) = s[1]
      /\ \A i \in 1 .. Len(s) - 1 : Tail(s)[i] = s[i + 1]
      /\ DOMAIN s = 1 .. Len(s) /\ DOMAIN Tail(s) = 1 .. Len(s) - 1
  BY <1>1
<1>3. ASSUME NEW x \in Among(s) PROVE x \in Among(Tail(s)) \cup {Head(s)}
  <2>1. PICK i \in 1 .. Len(s) : x = s[i]
    BY <1>2 DEF Among
  <2>2. CASE i = 1
    BY <1>2, <2>1, <2>2
  <2>3. CASE i # 1
    <3>1. i - 1 \in 1 .. Len(s) - 1 /\ Tail(s)[i - 1] = x
      BY <1>1, <1>2, <2>1, <2>3
    <3>2. QED
      BY <1>2, <3>1 DEF Among
  <2>4. QED
    BY <2>2, <2>3
<1>4. Head(s) \in Among(s)
  BY <1>1, <1>2 DEF Among
<1>5. ASSUME NEW x \in Among(Tail(s)) PROVE x \in Among(s)
  <2>1. PICK i \in 1 .. Len(s) - 1 : x = Tail(s)[i]
    BY <1>2 DEF Among
  <2>2. i + 1 \in 1 .. Len(s) /\ x = s[i + 1]
    BY <1>1, <1>2, <2>1
  <2>3. QED
    BY <1>2, <2>2 DEF Among
<1>6. Head(s) \in S
  BY <1>1, <1>2
<1>7. QED
  BY <1>2, <1>3, <1>4, <1>5, <1>6

\* What is among the elements of a sequence over S is in S.
LEMMA AmongIsWithin ==
  ASSUME NEW S, NEW s \in Seq(S)
  PROVE  Among(s) \subseteq S
BY DEF Among

\* Nothing is among the elements of the empty sequence.
LEMMA EmptyHasNone == Among(<<>>) = {}
BY DEF Among

\* An order is kept by appending what may follow all.
LEMMA AppendedInOrder ==
  ASSUME NEW S, NEW s \in Seq(S), NEW e \in S, Ordered(s),
         \A m \in Among(s) : MayFollow(m, e)
  PROVE  Ordered(Append(s, e))
<1>1. /\ Len(Append(s, e)) = Len(s) + 1 /\ Len(s) \in Nat
      /\ \A i \in 1 .. Len(s) : Append(s, e)[i] = s[i]
      /\ Append(s, e)[Len(s) + 1] = e
      /\ DOMAIN s = 1 .. Len(s) /\ DOMAIN Append(s, e) = 1 .. Len(s) + 1
  OBVIOUS
<1>2. ASSUME NEW i \in 1 .. Len(s) + 1, NEW j \in 1 .. Len(s) + 1, i < j
      PROVE  MayFollow(Append(s, e)[i], Append(s, e)[j])
  <2>1. i \in 1 .. Len(s) /\ Append(s, e)[i] = s[i]
    BY <1>1, <1>2
  <2>2. CASE j = Len(s) + 1
    <3>1. s[i] \in Among(s)
      BY <1>1, <2>1 DEF Among
    <3>2. QED
      BY <1>1, <2>1, <2>2, <3>1
  <2>3. CASE j # Len(s) + 1
    <3>1. j \in 1 .. Len(s) /\ Append(s, e)[j] = s[j]
      BY <1>1, <2>3
    <3>2. QED
      BY <1>1, <1>2, <2>1, <3>1 DEF Ordered
  <2>4. QED
    BY <2>2, <2>3
<1>3. QED
  BY <1>1, <1>2 DEF Ordered

\* The first of an ordered sequence may be followed by all others.
LEMMA TailInOrder ==
  ASSUME NEW S, NEW s \in Seq(S), s # <<>>, Ordered(s)
  PROVE  /\ Ordered(Tail(s))
         /\ \A m \in Among(Tail(s)) : MayFollow(Head(s), m)
<1>1. Len(s) \in Nat /\ Len(s) >= 1
  BY EmptySeq
<1>2. /\ Head(s) = s[1]
      /\ \A i \in 1 .. Len(s) - 1 : Tail(s)[i] = s[i + 1]
      /\ DOMAIN s = 1 .. Len(s) /\ DOMAIN Tail(s) = 1 .. Len(s) - 1
  BY <1>1
<1>3. ASSUME NEW i \in 1 .. Len(s) - 1, NEW j \in 1 .. Len(s) - 1, i < j
      PROVE  MayFollow(Tail(s)[i], Tail(s)[j])
  <2>1. i + 1 \in 1 .. Len(s) /\ j + 1 \in 1 .. Len(s) /\ i + 1 < j + 1
    BY <1>1, <1>3
  <2>2. QED
    BY <1>2, <2>1 DEF Ordered
<1>4. ASSUME NEW m \in Among(Tail(s)) PROVE MayFollow(Head(s), m)
  <2>1. PICK i \in 1 .. Len(s) - 1 : m = Tail(s)[i]
    BY <1>2 DEF Among
  <2>2. i + 1 \in 1 .. Len(s) /\ 1 \in 1 .. Len(s) /\ 1 < i + 1 /\ m = s[i + 1]
    BY <1>1, <1>2, <2>1
  <2>3. QED
    BY <1>2, <2>2 DEF Ordered
<1>5. QED
  BY <1>2, <1>3, <1>4 DEF Ordered

----------------------------------------------------------------------------
(* What the steps have in common. *)

\* A thread posts nothing, its next token, or how it ended; it never goes back.
ThreadShape(q) ==
  /\ UNCHANGED <<calls, deliveries, sink>>
  /\ step[q] # "unborn"
  /\ \A p \in Questions : /\ step'[p] = "unborn" <=> step[p] = "unborn"
                          /\ Over(p) => Over(p)'
  /\ \/ UNCHANGED <<posted, rounds>>
     \/ /\ step[q] = "drawing"
        /\ Token(q, rounds[q] + 1) \in Events
        /\ rounds' = [rounds EXCEPT ![q] = @ + 1]
        /\ posted' = Append(posted, Token(q, rounds[q] + 1))
     \/ /\ UNCHANGED rounds
        /\ Over(q)'
        /\ \E how \in Outcomes : posted' = Append(posted, [type |-> how, question |-> q])

\* Each step of a thread has that shape and keeps the types.
LEMMA ThreadsHaveShape ==
  ASSUME Typed, NEW q \in Questions, Thread(q)
  PROVE  /\ ThreadShape(q)
         /\ BridgeTypeOK'
         /\ \A p \in Questions : step'[p] \in {"ending", "cleared", "posted"} => outcome'[p] \in Outcomes
         /\ \A p \in Questions : step'[p] = "drawing" => rounds'[p] < MaxTokens
<1>0. /\ BridgeTypeOK
      /\ \A p \in Questions : step[p] \in {"ending", "cleared", "posted"} => outcome[p] \in Outcomes
      /\ \A p \in Questions : step[p] = "drawing" => rounds[p] < MaxTokens
      /\ MaxTokens \in Nat /\ None \notin Questions
  BY BridgeAssumption DEF Typed, TypeOK
<1> USE DEF BridgeTypeOK, ThreadShape, Over, At, Goes, Steps, threadVars
<1>1. CASE GiveUpWithoutLibrary(q)
  BY <1>0, <1>1 DEF GiveUpWithoutLibrary
<1>2. CASE EnterEngine(q)
  BY <1>0, <1>2 DEF EnterEngine
<1>3. CASE LoadModel(q)
  BY <1>0, <1>3 DEF LoadModel
<1>4. CASE FailToLoad(q)
  BY <1>0, <1>4 DEF FailToLoad, Ends, Outcomes
<1>5. CASE StartStream(q)
  BY <1>0, <1>5 DEF StartStream, Ends, Outcomes
<1>6. CASE Generate(q)
  <2>1. CASE /\ rounds' = [rounds EXCEPT ![q] = @ + 1]
             /\ Post([type |-> "token", question |-> q, number |-> rounds[q] + 1])
             /\ Goes(q, "generating") /\ UNCHANGED outcome
    <3>1. Token(q, rounds[q] + 1) \in Events
      BY <1>0, <1>6 DEF Generate, Events, Token
    <3>2. posted' = Append(posted, Token(q, rounds[q] + 1))
      BY <2>1 DEF Post, Token
    <3>3. posted' \in Seq(Events)
      BY <1>0, <3>1, <3>2
    <3>4. QED
      BY <1>0, <1>6, <2>1, <3>1, <3>2, <3>3 DEF Generate
  <2>2. CASE UNCHANGED <<rounds, posted>>
    BY <1>0, <1>6, <2>2 DEF Generate, Ends, Outcomes
  <2>3. QED
    BY <1>6, <2>1, <2>2 DEF Generate
<1>7. CASE StopGenerating(q)
  BY <1>0, <1>7 DEF StopGenerating, Ends, Outcomes
<1>8. CASE ClearActive(q)
  BY <1>0, <1>8 DEF ClearActive
<1>9. CASE PostOutcome(q)
  <2>1. outcome[q] \in Outcomes
    BY <1>0, <1>9 DEF PostOutcome
  <2>2. [type |-> outcome[q], question |-> q] \in Events
    BY <2>1 DEF Events
  <2>3. posted' = Append(posted, [type |-> outcome[q], question |-> q])
    BY <1>9 DEF PostOutcome, Post
  <2>4. posted' \in Seq(Events)
    BY <1>0, <2>2, <2>3
  <2>5. QED
    BY <1>0, <1>9, <2>1, <2>3, <2>4 DEF PostOutcome
<1>10. CASE LeaveEngine(q)
  BY <1>0, <1>10 DEF LeaveEngine
<1>11. CASE ClearUnstarted(q)
  BY <1>0, <1>11 DEF ClearUnstarted
<1>12. CASE PostUnstarted(q)
  <2>1. [type |-> "failed", question |-> q] \in Events /\ "failed" \in Outcomes
    BY DEF Events, Outcomes
  <2>2. posted' = Append(posted, [type |-> "failed", question |-> q])
    BY <1>12 DEF PostUnstarted, Post
  <2>3. posted' \in Seq(Events)
    BY <1>0, <2>1, <2>2
  <2>4. QED
    BY <1>0, <1>12, <2>1, <2>2, <2>3 DEF PostUnstarted
<1>13. CASE BeginRound(q)
  BY <1>0, <1>13 DEF BeginRound
<1>14. QED
  BY <1>1, <1>2, <1>3, <1>4, <1>5, <1>6, <1>7, <1>8, <1>9, <1>10, <1>11, <1>12, <1>13
     DEF Thread

\* The main thread keeps the types of the bridge.
LEMMA MainThreadKeepsTypes ==
  ASSUME Typed, MainThread
  PROVE  /\ BridgeTypeOK'
         /\ UNCHANGED <<outcome, rounds>>
         /\ \A p \in Questions : step'[p] = step[p] \/ step'[p] = "locking"
<1>0. BridgeTypeOK /\ calls \in Seq(Calls) /\ posted \in Seq(Events)
      /\ deliveries \in Seq(Replies \cup Events)
  BY DEF Typed, TypeOK, BridgeTypeOK
<1>1. ASSUME NEW op, Called(op)
      PROVE  /\ Head(calls) \in Calls /\ Head(calls).op = op /\ calls' \in Seq(Calls)
             /\ op \in {"start", "cancel"} => Head(calls).question \in Questions
  <2>1. calls # <<>> /\ calls' = Tail(calls) /\ Head(calls).op = op
    BY <1>1 DEF Called
  <2>2. Head(calls) \in Calls /\ Tail(calls) \in Seq(Calls)
    BY <1>0, <2>1, TailDrops
  <2>3. QED
    BY <2>1, <2>2 DEF Calls
<1>2. CASE RefuseGeneration
  <2>1. [type |-> "refused", question |-> Head(calls).question] \in Replies
    BY <1>1, <1>2 DEF RefuseGeneration, Replies
  <2>2. deliveries' \in Seq(Replies \cup Events)
    BY <1>0, <1>2, <2>1 DEF RefuseGeneration, Deliver
  <2>3. calls' \in Seq(Calls)
    BY <1>1, <1>2 DEF RefuseGeneration
  <2>4. QED
    BY <1>0, <1>2, <2>2, <2>3 DEF RefuseGeneration, threadVars, BridgeTypeOK
<1>3. CASE AcceptGeneration
  <2>1. /\ [type |-> "accepted", question |-> Head(calls).question] \in Replies
        /\ Head(calls).question \in Questions
    BY <1>1, <1>3 DEF AcceptGeneration, Replies
  <2>2. deliveries' \in Seq(Replies \cup Events)
    BY <1>0, <1>3, <2>1 DEF AcceptGeneration, Deliver
  <2>3. calls' \in Seq(Calls)
    BY <1>1, <1>3 DEF AcceptGeneration
  <2>4. \A p \in Questions :
          step'[p] = step[p] \/ (p = Head(calls).question /\ step'[p] = "locking")
    BY <1>0, <1>3 DEF AcceptGeneration, BridgeTypeOK
  <2>5. QED
    BY <1>0, <1>3, <2>1, <2>2, <2>3, <2>4 DEF AcceptGeneration, BridgeTypeOK, Steps
<1>4. CASE CancelGeneration
  <2>1. calls' \in Seq(Calls)
    BY <1>1, <1>4 DEF CancelGeneration
  <2>2. cancelRequested' \in BOOLEAN
    BY <1>0, <1>4 DEF CancelGeneration, BridgeTypeOK
  <2>3. QED
    BY <1>0, <1>4, <2>1, <2>2 DEF CancelGeneration, threadVars, BridgeTypeOK
<1>5. CASE AttachSink
  <2>1. calls' \in Seq(Calls) /\ sink' \in BOOLEAN
    BY <1>1, <1>5 DEF AttachSink
  <2>2. QED
    BY <1>0, <1>5, <2>1 DEF AttachSink, threadVars, BridgeTypeOK
<1>6. CASE Emit
  <2>1. Head(posted) \in Events /\ posted' \in Seq(Events)
    BY <1>0, <1>6, TailDrops DEF Emit
  <2>2. deliveries' \in Seq(Replies \cup Events)
    BY <1>0, <1>6, <2>1 DEF Emit
  <2>3. QED
    BY <1>0, <1>6, <2>1, <2>2 DEF Emit, threadVars, BridgeTypeOK
<1>7. QED
  BY <1>2, <1>3, <1>4, <1>5, <1>6 DEF MainThread

\* A call from the panel is one the bridge knows, and changes nothing else there.
LEMMA CallKeepsTypes ==
  ASSUME Typed, NEW call \in Calls, Call(call), NativeUnchanged
  PROVE  BridgeTypeOK'
<1>1. calls' \in Seq(Calls)
  BY DEF Typed, TypeOK, BridgeTypeOK, Call
<1>2. QED
  BY <1>1 DEF Typed, TypeOK, BridgeTypeOK, NativeUnchanged, threadVars

\* What is on its way to the panel.
LEMMA FirstMessage ==
  ASSUME Typed, deliveries # <<>>
  PROVE  LET m == Head(deliveries) IN
         /\ m \in Replies \cup Events
         /\ m.question \in Questions
         /\ m.type \in {"accepted", "refused", "token"} \cup Outcomes
         /\ m.type = "token" => m.number \in 1 .. MaxTokens /\ m = Token(m.question, m.number)
         /\ IsReply(m) => m = [type |-> m.type, question |-> m.question]
         /\ Tail(deliveries) \in Seq(Replies \cup Events)
<1>1. deliveries \in Seq(Replies \cup Events)
  BY DEF Typed, TypeOK, BridgeTypeOK
<1>2. /\ Head(deliveries) \in Replies \cup Events
      /\ Tail(deliveries) \in Seq(Replies \cup Events)
  BY <1>1, TailDrops
<1>3. QED
  BY <1>2 DEF Replies, Events, Outcomes, Token, IsReply

\* Ending a question for the child.
LEMMA SettleKeepsTypes ==
  ASSUME TypeOK, NEW how \in {"answered", "tangled", "stopped", "lost"},
         requestId # None, Settle(requestId, how), BridgeTypeOK'
  PROVE  TypeOK'
<1>1. endings[requestId] \in Seq({"answered", "tangled", "stopped", "lost", "refused"})
  BY DEF TypeOK
<1>2. endings' \in [Questions -> Seq({"answered", "tangled", "stopped", "lost", "refused"})]
  BY <1>1 DEF Settle, Ended, TypeOK
<1>3. <<>> \in Seq(Questions \X (1 .. MaxTokens))
  OBVIOUS
<1>4. QED
  BY <1>2, <1>3 DEF Settle, TypeOK

\* So does a failure before the request was accepted.
LEMMA FailureKeepsTypes ==
  ASSUME TypeOK, NEW q \in Questions, SendFails(q), BridgeTypeOK'
  PROVE  TypeOK'
<1>1. endings[q] \in Seq({"answered", "tangled", "stopped", "lost", "refused"})
  BY DEF TypeOK
<1>2. Append(endings[q], "refused")
        \in Seq({"answered", "tangled", "stopped", "lost", "refused"})
  BY <1>1
<1>3. endings' = endings \/ endings' = [endings EXCEPT ![q] = Append(endings[q], "refused")]
  BY DEF SendFails, Ended
<1>4. endings' \in [Questions -> Seq({"answered", "tangled", "stopped", "lost", "refused"})]
  BY <1>2, <1>3 DEF TypeOK
<1>5. preparing' \in BOOLEAN /\ timer' \in Questions \cup {None}
  BY DEF SendFails, TypeOK
<1>6. QED
  BY <1>4, <1>5 DEF SendFails, TypeOK

\* A message changes the panel only, and keeps its types.
LEMMA ReceiveKeepsTypes ==
  ASSUME Typed, Receive
  PROVE  Typed'
<1> DEFINE m == Head(deliveries)
<1>1. /\ deliveries # <<>> /\ deliveries' = Tail(deliveries)
      /\ UNCHANGED <<calls, posted, sink, active, cancelRequested, library, threadVars>>
  BY DEF Receive
<1>2. /\ m.question \in Questions
      /\ m.type = "token" => m.number \in 1 .. MaxTokens
      /\ Tail(deliveries) \in Seq(Replies \cup Events)
  BY <1>1, FirstMessage
<1>3. BridgeTypeOK'
  BY <1>1, <1>2 DEF Typed, TypeOK, BridgeTypeOK, threadVars
<1>4. TypeOK
  BY DEF Typed
<1> HIDE DEF m
<1>5. TypeOK'
  <2>1. CASE m.type = "accepted" /\ Starts(m.question)
    BY <1>2, <1>3, <1>4, <2>1 DEF Starts, TypeOK
  <2>2. CASE m.type = "refused" /\ SendFails(m.question)
    BY <1>2, <1>3, <1>4, <2>2, FailureKeepsTypes
  <2>3. CASE HandleEvent(m)
    <3>1. CASE UNCHANGED sessionVars
      BY <1>3, <1>4, <3>1 DEF sessionVars, panelVars, TypeOK
    <3>2. CASE /\ open /\ requestId = m.question /\ m.type = "token"
               /\ draft' = Append(draft, <<m.question, m.number>>)
               /\ UNCHANGED <<open, panel, asker, sending, preparing, requestId, timer,
                              endings>>
      <4>1. draft' \in Seq(Questions \X (1 .. MaxTokens))
        BY <1>2, <1>4, <3>2 DEF TypeOK
      <4>2. QED
        BY <1>3, <1>4, <3>2, <4>1 DEF TypeOK
    <3>3. CASE \E how \in {"answered", "lost"} : requestId # None /\ Settle(requestId, how)
      BY <1>3, <1>4, <3>3, SettleKeepsTypes
    <3>4. requestId = m.question => requestId # None
      BY <1>2, BridgeAssumption
    <3>5. QED
      BY <2>3, <3>1, <3>2, <3>3, <3>4 DEF HandleEvent
  <2>4. QED
    BY <2>1, <2>2, <2>3 DEF Receive, m
<1>6. QED
  BY <1>1, <1>5 DEF Typed, threadVars

\* Every step keeps the types.
LEMMA TypesStay ==
  ASSUME Typed, [Next]_vars
  PROVE  Typed'
<1>0. TypeOK
  BY DEF Typed
<1>1. CASE BridgeNext /\ UNCHANGED sessionVars
  <2>1. CASE MainThread
    <3>1. BridgeTypeOK' /\ UNCHANGED <<outcome, rounds>>
          /\ \A p \in Questions : step'[p] = step[p] \/ step'[p] = "locking"
      BY <2>1, MainThreadKeepsTypes
    <3>2. QED
      BY <1>1, <3>1 DEF Typed, TypeOK, sessionVars, panelVars
  <2>2. ASSUME NEW q \in Questions, Thread(q)
        PROVE  Typed'
    BY <1>1, <2>2, ThreadsHaveShape DEF Typed, TypeOK, sessionVars, panelVars
  <2>3. QED
    BY <1>1, <2>1, <2>2 DEF BridgeNext
<1>2. CASE OpenPanel
  <2>1. [op |-> "listen"] \in Calls
    BY DEF Calls
  <2>2. BridgeTypeOK'
    BY <1>2, <2>1, CallKeepsTypes DEF OpenPanel
  <2>3. <<>> \in Seq(Questions \X (1 .. MaxTokens)) /\ panel' \in 0 .. MaxPanels
    BY <1>0, <1>2, PanelsAssumption DEF OpenPanel, TypeOK
  <2>4. QED
    BY <1>0, <1>2, <2>2, <2>3
       DEF OpenPanel, Blank, Typed, TypeOK, NativeUnchanged, threadVars
<1>3. CASE ClosePanel
  <2>1. [op |-> "unlisten"] \in Calls
    BY DEF Calls
  <2>2. BridgeTypeOK'
    BY <1>3, <2>1, CallKeepsTypes DEF ClosePanel
  <2>3. <<>> \in Seq(Questions \X (1 .. MaxTokens))
    OBVIOUS
  <2>4. QED
    BY <1>0, <1>3, <2>2, <2>3 DEF ClosePanel, Blank, Typed, TypeOK, NativeUnchanged, threadVars
<1>4. ASSUME NEW q \in Questions, Send(q)
      PROVE  Typed'
  <2>1. BridgeTypeOK'
    BY <1>0, <1>4 DEF Send, TypeOK, BridgeTypeOK, bridgeVars, threadVars
  <2>2. QED
    BY <1>0, <1>4, <2>1 DEF Send, Typed, TypeOK, bridgeVars, threadVars
<1>5. ASSUME NEW q \in Questions, Begin(q)
      PROVE  Typed'
  <2>1. [op |-> "start", question |-> q] \in Calls
    BY DEF Calls
  <2>2. BridgeTypeOK'
    BY <1>5, <2>1, CallKeepsTypes DEF Begin
  <2>3. QED
    BY <1>0, <1>5, <2>2 DEF Begin, Typed, TypeOK, panelVars, NativeUnchanged, threadVars
<1>6. ASSUME NEW q \in Questions, ModelFails(q)
      PROVE  Typed'
  <2>1. BridgeTypeOK'
    BY <1>0, <1>6 DEF ModelFails, TypeOK, BridgeTypeOK, bridgeVars, threadVars
  <2>2. TypeOK'
    BY <1>0, <1>6, <2>1, FailureKeepsTypes DEF ModelFails
  <2>3. QED
    BY <1>6, <2>2 DEF ModelFails, Typed, bridgeVars, threadVars
<1>7. CASE Receive
  BY <1>7, ReceiveKeepsTypes
<1>8. CASE Stop
  <2>1. [op |-> "cancel", question |-> requestId] \in Calls
    BY <1>0, <1>8 DEF Stop, Calls, TypeOK
  <2>2. BridgeTypeOK'
    BY <1>8, <2>1, CallKeepsTypes DEF Stop
  <2>3. TypeOK'
    BY <1>0, <1>8, <2>2, SettleKeepsTypes DEF Stop
  <2>4. QED
    BY <1>8, <2>3 DEF Stop, Typed, NativeUnchanged, threadVars
<1>9. CASE TimeOut
  <2>1. CASE requestId = timer
    <3>1. requestId # None /\ Settle(requestId, "tangled")
          /\ Call([op |-> "cancel", question |-> requestId]) /\ NativeUnchanged
      BY <1>9, <2>1 DEF TimeOut
    <3>2. [op |-> "cancel", question |-> requestId] \in Calls
      BY <1>0, <3>1 DEF Calls, TypeOK
    <3>3. BridgeTypeOK'
      BY <3>1, <3>2, CallKeepsTypes
    <3>4. TypeOK'
      BY <1>0, <3>1, <3>3, SettleKeepsTypes
    <3>5. QED
      BY <3>1, <3>4 DEF Typed, NativeUnchanged, threadVars
  <2>2. CASE requestId # timer
    <3>1. BridgeTypeOK'
      BY <1>0, <1>9, <2>2 DEF TimeOut, TypeOK, BridgeTypeOK, NativeUnchanged, threadVars
    <3>2. QED
      BY <1>0, <1>9, <2>2, <3>1 DEF TimeOut, Typed, TypeOK, NativeUnchanged, threadVars
  <2>3. QED
    BY <2>1, <2>2
<1>10. CASE UNCHANGED vars
  BY <1>0, <1>10
     DEF vars, bridgeVars, threadVars, sessionVars, panelVars, Typed, TypeOK, BridgeTypeOK
<1>11. QED
  BY <1>1, <1>2, <1>3, <1>4, <1>5, <1>6, <1>7, <1>8, <1>9, <1>10 DEF Next, Panel


\* What is on its way in both directions.
LEMMA HeardIsTyped ==
  ASSUME Typed
  PROVE  /\ Heard \subseteq Replies \cup Events
         /\ \A m \in Heard : /\ m.question \in Questions
                             /\ m.type \in {"accepted", "refused", "token"} \cup Outcomes
                             /\ m.type = "token" => m.number \in Nat
<1>1. deliveries \in Seq(Replies \cup Events) /\ posted \in Seq(Events) /\ MaxTokens \in Nat
  BY BridgeAssumption DEF Typed, TypeOK, BridgeTypeOK
<1>2. Heard \subseteq Replies \cup Events
  BY <1>1, AmongIsWithin DEF Heard
<1>3. QED
  BY <1>1, <1>2 DEF Replies, Events, Outcomes

\* A call that starts a request names its question.
LEMMA CallsAreTyped ==
  ASSUME Typed
  PROVE  \A call \in Among(calls) : /\ call \in Calls
                                    /\ call.op = "start" => call.question \in Questions
<1>1. calls \in Seq(Calls)
  BY DEF Typed, TypeOK, BridgeTypeOK
<1>2. Among(calls) \subseteq Calls
  BY <1>1, AmongIsWithin
<1>3. QED
  BY <1>2 DEF Calls
----------------------------------------------------------------------------
(* One thought at a time. *)

\* What a message may be to the panel: the start of a request that was asked for, its
\* refusal, a token of the request, its end, or nothing.
LEMMA MessageShapes ==
  ASSUME Typed, Protocol, Receive
  PROVE  LET m == Head(deliveries) IN
         /\ m.question \in Questions
         /\ \/ m.type = "accepted" /\ sending[m.question] = "starting" /\ Starts(m.question)
            \/ m.type = "refused" /\ sending[m.question] = "starting" /\ SendFails(m.question)
            \/ /\ ~IsReply(m)
               /\ ~open \/ requestId # m.question
               /\ UNCHANGED sessionVars
            \/ /\ open /\ requestId = m.question /\ requestId # None
               /\ m.type = "token" /\ m.number \in 1 .. MaxTokens
               /\ m = Token(m.question, m.number)
               /\ draft' = Append(draft, <<m.question, m.number>>)
               /\ UNCHANGED <<open, panel, asker, sending, preparing, requestId, timer,
                              endings>>
            \/ /\ ~IsReply(m) /\ open /\ requestId = m.question /\ requestId # None
               /\ \E how \in {"answered", "lost"} : Settle(requestId, how)
<1> DEFINE m == Head(deliveries)
<1>1. deliveries # <<>> /\ deliveries \in Seq(Replies \cup Events)
  BY DEF Receive, Typed, TypeOK, BridgeTypeOK
<1>2. /\ m.question \in Questions
      /\ m.type = "token" => m.number \in 1 .. MaxTokens /\ m = Token(m.question, m.number)
  BY <1>1, FirstMessage
<1>3. m \in Heard
  BY <1>1, TailDrops DEF Heard
<1>4. IsReply(m) => sending[m.question] = "starting"
  BY <1>3 DEF Protocol
<1>5. m.question # None
  BY <1>2, BridgeAssumption
<1>6. \/ m.type = "accepted" /\ Starts(m.question)
      \/ m.type = "refused" /\ SendFails(m.question)
      \/ m.type \notin {"accepted", "refused"} /\ HandleEvent(m)
  BY DEF Receive
<1> HIDE DEF m
<1>7. QED
  BY <1>2, <1>4, <1>5, <1>6 DEF HandleEvent, IsReply, m

\* A request that ends is the one thought about, and the panel is blank again.
LEMMA SettlingEndsTheThought ==
  ASSUME TypeOK, OneThought, NEW how \in {"answered", "tangled", "stopped", "lost"},
         requestId # None, Settle(requestId, how)
  PROVE  OneThought'
<1>1. /\ requestId \in Questions /\ ~preparing /\ sending[requestId] = "over"
      /\ endings[requestId] = <<>>
      /\ endings \in [Questions -> Seq({"answered", "tangled", "stopped", "lost", "refused"})]
  BY DEF OneThought, TypeOK
<1>2. endings' = [endings EXCEPT ![requestId] = <<how>>]
  BY <1>1 DEF Settle, Ended
<1>3. /\ requestId' = None /\ draft' = <<>> /\ timer' = None
      /\ UNCHANGED <<open, panel, asker, sending, preparing>>
  BY DEF Settle
<1>4. \A q \in Questions : sending'[q] # "over" => endings'[q] = <<>>
  BY <1>1, <1>2, <1>3 DEF OneThought
<1>5. \A q \in Questions : Len(endings'[q]) <= 1
  BY <1>1, <1>2 DEF OneThought
<1>6. QED
  BY <1>1, <1>3, <1>4, <1>5 DEF OneThought, Mounted, Pending

\* So is a question that was refused.
LEMMA FailingEndsTheThought ==
  ASSUME TypeOK, OneThought, NEW q \in Questions, Pending(q), SendFails(q)
  PROVE  OneThought'
<1>1. /\ endings[q] = <<>> /\ sending[q] # "over"
      /\ endings \in [Questions -> Seq({"answered", "tangled", "stopped", "lost", "refused"})]
      /\ sending \in [Questions -> {"unasked", "preparing", "starting", "over"}]
  BY DEF OneThought, TypeOK, Pending
<1>2. /\ sending' = [sending EXCEPT ![q] = "over"]
      /\ UNCHANGED <<open, panel, asker, requestId, draft>>
  BY DEF SendFails
<1>3. CASE Mounted(q)
  <2>1. preparing
    BY <1>3 DEF OneThought
  <2>2. /\ preparing' = FALSE /\ timer' = None
        /\ endings' = [endings EXCEPT ![q] = <<"refused">>]
    BY <1>1, <1>3 DEF SendFails, Ended
  <2>3. requestId = None
    BY <2>1 DEF OneThought
  <2>4. \A p \in Questions : ~(Mounted(p)' /\ Pending(p)')
    BY <1>1, <1>2, <1>3 DEF OneThought, Mounted, Pending
  <2>5. \A p \in Questions : /\ sending'[p] # "over" => endings'[p] = <<>>
                             /\ Len(endings'[p]) <= 1
    BY <1>1, <1>2, <2>2 DEF OneThought
  <2>6. QED
    BY <1>2, <2>2, <2>3, <2>4, <2>5 DEF OneThought
<1>4. CASE ~Mounted(q)
  <2>1. UNCHANGED <<preparing, timer, endings>>
    BY <1>4 DEF SendFails
  <2>2. requestId # q
    BY <1>1, BridgeAssumption DEF OneThought
  <2>3. \A p \in Questions : /\ Mounted(p)' <=> Mounted(p)
                             /\ Mounted(p) => (Pending(p)' <=> Pending(p))
    BY <1>1, <1>2, <1>4 DEF Mounted, Pending
  <2>4. requestId # None => requestId \in Questions /\ sending'[requestId] = "over"
    BY <1>1, <1>2 DEF OneThought, TypeOK
  <2>5. \A p \in Questions : sending'[p] # "over" => endings'[p] = <<>>
    BY <1>1, <1>2, <2>1 DEF OneThought
  <2>6. QED
    BY <1>2, <2>1, <2>3, <2>4, <2>5 DEF OneThought, Mounted
<1>5. QED
  BY <1>3, <1>4

\* The request of a panel that is still open becomes its thought.
LEMMA StartingKeepsTheThought ==
  ASSUME TypeOK, OneThought, NEW q \in Questions, sending[q] = "starting", Starts(q)
  PROVE  OneThought'
<1>1. /\ endings[q] = <<>> /\ q # None
      /\ sending \in [Questions -> {"unasked", "preparing", "starting", "over"}]
  BY BridgeAssumption DEF OneThought, TypeOK
<1>2. /\ sending' = [sending EXCEPT ![q] = "over"]
      /\ UNCHANGED <<open, panel, asker, draft, endings>>
  BY DEF Starts
<1>3. CASE Mounted(q)
  <2>1. preparing /\ requestId = None /\ draft = <<>>
    BY <1>3 DEF OneThought, Pending
  <2>2. preparing' = FALSE /\ requestId' = q /\ timer' = q
    BY <1>3 DEF Starts
  <2>3. \A p \in Questions : ~(Mounted(p)' /\ Pending(p)')
    BY <1>1, <1>2, <1>3 DEF OneThought, Mounted, Pending
  <2>4. Mounted(q)' /\ sending'[q] = "over"
    BY <1>1, <1>2, <1>3 DEF Mounted
  <2>5. QED
    BY <1>1, <1>2, <2>1, <2>2, <2>3, <2>4 DEF OneThought
<1>4. CASE ~Mounted(q)
  <2>1. UNCHANGED <<preparing, requestId, timer>>
    BY <1>4 DEF Starts
  <2>2. \A p \in Questions : /\ Mounted(p)' <=> Mounted(p)
                             /\ Mounted(p) => (Pending(p)' <=> Pending(p))
    BY <1>1, <1>2, <1>4 DEF Mounted, Pending
  <2>3. requestId # None => requestId \in Questions /\ sending'[requestId] = "over"
    BY <1>1, <1>2 DEF OneThought, TypeOK
  <2>4. QED
    BY <1>1, <1>2, <2>1, <2>2, <2>3 DEF OneThought, Mounted
<1>5. QED
  BY <1>3, <1>4

\* One step for each action of the panel.
LEMMA OneThoughtStays ==
  ASSUME Typed, OneThought, Protocol, [Next]_vars
  PROVE  OneThought'
<1>0. TypeOK /\ None \notin Questions
      /\ sending \in [Questions -> {"unasked", "preparing", "starting", "over"}]
      /\ asker \in [Questions -> 0 .. MaxPanels] /\ panel \in 0 .. MaxPanels
  BY BridgeAssumption DEF Typed, TypeOK
<1>1. CASE UNCHANGED sessionVars
  BY <1>1 DEF sessionVars, panelVars, OneThought, Mounted, Pending
<1>2. CASE OpenPanel
  <2>1. \A q \in Questions : asker'[q] <= panel' /\ ~Mounted(q)'
    BY <1>0, <1>2, PanelsAssumption DEF OpenPanel, OneThought, Mounted
  <2>2. QED
    BY <1>2, <2>1 DEF OpenPanel, Blank, OneThought
<1>3. CASE ClosePanel
  <2>1. \A q \in Questions : ~Mounted(q)'
    BY <1>3 DEF ClosePanel, Mounted
  <2>2. QED
    BY <1>3, <2>1 DEF ClosePanel, Blank, OneThought
<1>4. ASSUME NEW q \in Questions, Send(q)
      PROVE  OneThought'
  <2>1. /\ sending' = [sending EXCEPT ![q] = "preparing"]
        /\ asker' = [asker EXCEPT ![q] = panel]
        /\ preparing' = TRUE /\ draft' = <<>>
        /\ open /\ requestId = None /\ ~preparing /\ sending[q] = "unasked"
        /\ UNCHANGED <<open, panel, requestId, timer, endings>>
    BY <1>4 DEF Send, IsThinking
  <2>2. Mounted(q)' /\ Pending(q)'
    BY <1>0, <2>1 DEF Mounted, Pending
  <2>3. \A p \in Questions : Mounted(p)' /\ Pending(p)' => p = q
    BY <1>0, <2>1 DEF OneThought, Mounted, Pending
  <2>4. \A p \in Questions : asker'[p] <= panel'
    BY <1>0, <2>1, PanelsAssumption DEF OneThought
  <2>5. \A p \in Questions : sending'[p] # "over" => endings'[p] = <<>>
    BY <1>0, <2>1 DEF OneThought
  <2>6. QED
    BY <2>1, <2>2, <2>3, <2>4, <2>5 DEF OneThought
<1>5. ASSUME NEW q \in Questions, Begin(q)
      PROVE  OneThought'
  <2>1. \A p \in Questions : /\ Pending(p)' <=> Pending(p)
                             /\ sending'[p] = "over" <=> sending[p] = "over"
    BY <1>0, <1>5 DEF Begin, Pending
  <2>2. requestId \in Questions \cup {None}
    BY <1>0 DEF TypeOK
  <2>3. QED
    BY <1>5, <2>1, <2>2 DEF Begin, panelVars, OneThought, Mounted
<1>6. ASSUME NEW q \in Questions, ModelFails(q)
      PROVE  OneThought'
  BY <1>0, <1>6, FailingEndsTheThought DEF ModelFails, Pending
<1>7. CASE Receive
  <2> DEFINE m == Head(deliveries)
  <2>1. m.question \in Questions
    BY <1>7, MessageShapes
  <2>2. CASE m.type = "accepted" /\ sending[m.question] = "starting" /\ Starts(m.question)
    BY <1>0, <2>1, <2>2, StartingKeepsTheThought
  <2>3. CASE m.type = "refused" /\ sending[m.question] = "starting" /\ SendFails(m.question)
    BY <1>0, <2>1, <2>3, FailingEndsTheThought DEF Pending
  <2>4. CASE /\ requestId # None
             /\ UNCHANGED <<open, panel, asker, sending, preparing, requestId, timer,
                            endings>>
    BY <2>4 DEF OneThought, Mounted, Pending
  <2>5. CASE requestId # None /\ \E how \in {"answered", "lost"} : Settle(requestId, how)
    BY <1>0, <2>5, SettlingEndsTheThought
  <2> HIDE DEF m
  <2>6. QED
    BY <1>1, <1>7, <2>2, <2>3, <2>4, <2>5, MessageShapes DEF m
<1>8. CASE Stop
  BY <1>0, <1>8, SettlingEndsTheThought DEF Stop
<1>9. CASE TimeOut
  <2>1. requestId = timer /\ requestId # None
    BY <1>9 DEF TimeOut, OneThought
  <2>2. QED
    BY <1>0, <1>9, <2>1, SettlingEndsTheThought DEF TimeOut
<1>10. CASE UNCHANGED vars
  BY <1>1, <1>10 DEF vars
<1>11. QED
  BY <1>1, <1>2, <1>3, <1>4, <1>5, <1>6, <1>7, <1>8, <1>9, <1>10 DEF Next, Panel


----------------------------------------------------------------------------
(* The protocol: a call, its reply, the events. *)

\* A new call that starts nothing, or a call taken by the bridge, leaves it as it is.
LEMMA OtherCallsKeepProtocol ==
  ASSUME Protocol, UNCHANGED <<deliveries, posted, step, rounds, sending>>,
         \A call \in Among(calls)' : call.op = "start" => call \in Among(calls)
  PROVE  Protocol'
BY DEF Protocol, Heard, Over, IsStart

\* What a thread posts is of a question that was started.
LEMMA ThreadsKeepProtocol ==
  ASSUME Typed, Protocol, NEW q \in Questions, ThreadShape(q), UNCHANGED sending
  PROVE  Protocol'
<1>1. /\ UNCHANGED <<calls, deliveries>>
      /\ step[q] # "unborn"
      /\ \A p \in Questions : /\ step'[p] = "unborn" <=> step[p] = "unborn"
                              /\ Over(p) => Over(p)'
      /\ posted \in Seq(Events) /\ rounds \in [Questions -> 0 .. MaxTokens]
      /\ MaxTokens \in Nat
  BY BridgeAssumption DEF ThreadShape, Typed, TypeOK, BridgeTypeOK
<1>2. \A m \in Heard : m.question \in Questions /\ (m.type = "token" => m.number \in Nat)
  BY <1>1, HeardIsTyped
<1>3. \A call \in Among(calls) : call.op = "start" => call.question \in Questions
  BY CallsAreTyped
<1>4. \A p \in Questions : /\ rounds'[p] \in Nat /\ rounds[p] <= rounds'[p]
                           /\ p # q => rounds'[p] = rounds[p]
  BY <1>1 DEF ThreadShape
<1>5. \A m \in Heard' : \/ m \in Heard
                        \/ m = Token(q, rounds'[q])
                        \/ Over(q)' /\ \E how \in Outcomes : m = [type |-> how, question |-> q]
  <2>1. CASE UNCHANGED posted
    BY <1>1, <2>1 DEF Heard
  <2>2. CASE /\ Token(q, rounds[q] + 1) \in Events
             /\ rounds' = [rounds EXCEPT ![q] = @ + 1]
             /\ posted' = Append(posted, Token(q, rounds[q] + 1))
    <3>1. Among(posted') = Among(posted) \cup {Token(q, rounds[q] + 1)}
      BY <1>1, <2>2, AppendAdds
    <3>2. rounds'[q] = rounds[q] + 1
      BY <1>1, <2>2
    <3>3. QED
      BY <1>1, <3>1, <3>2 DEF Heard
  <2>3. CASE Over(q)' /\ \E how \in Outcomes :
               posted' = Append(posted, [type |-> how, question |-> q])
    <3>1. PICK how \in Outcomes : posted' = Append(posted, [type |-> how, question |-> q])
      BY <2>3
    <3>2. [type |-> how, question |-> q] \in Events
      BY DEF Events
    <3>3. Among(posted') = Among(posted) \cup {[type |-> how, question |-> q]}
      BY <1>1, <3>1, <3>2, AppendAdds
    <3>4. QED
      BY <1>1, <2>3, <3>3 DEF Heard
  <2>4. QED
    BY <2>1, <2>2, <2>3 DEF ThreadShape
<1>6. \A m \in Heard' : m \notin Heard =>
        /\ m.question = q /\ ~IsReply(m)
        /\ m.type \in Outcomes => Over(q)'
        /\ m.type = "token" => m.number <= rounds'[q]
  BY <1>1, <1>4, <1>5 DEF Token, IsReply, Outcomes
<1>7. \A m \in Heard' : m.question \in Questions
  BY <1>2, <1>6
<1>8. \A p \in Questions :
        sending'[p] \in {"unasked", "preparing"} =>
          /\ step'[p] = "unborn"
          /\ \A call \in Among(calls)' : ~IsStart(call, p)
          /\ \A m \in Heard' : m.question # p
  BY <1>1, <1>6 DEF Protocol
<1>9. \A call \in Among(calls)' : call.op = "start" =>
         /\ sending'[call.question] = "starting"
         /\ step'[call.question] = "unborn"
         /\ \A m \in Heard' : m.question # call.question
  BY <1>1, <1>3, <1>6 DEF Protocol
<1>10. \A m \in Heard' :
         /\ IsReply(m) => sending'[m.question] = "starting"
         /\ m.type = "refused" => step'[m.question] = "unborn"
         /\ m.type # "refused" => step'[m.question] # "unborn"
         /\ m.type \in Outcomes => Over(m.question)'
         /\ m.type = "token" => m.number <= rounds'[m.question]
  <2> SUFFICES ASSUME NEW m \in Heard'
               PROVE  /\ IsReply(m) => sending'[m.question] = "starting"
                      /\ m.type = "refused" => step'[m.question] = "unborn"
                      /\ m.type # "refused" => step'[m.question] # "unborn"
                      /\ m.type \in Outcomes => Over(m.question)'
                      /\ m.type = "token" => m.number <= rounds'[m.question]
    OBVIOUS
  <2>1. CASE m \in Heard
    <3>1. m.question \in Questions
      BY <1>7
    <3>2. m.type = "token" =>
            m.number \in Nat /\ m.number <= rounds[m.question]
            /\ rounds[m.question] <= rounds'[m.question]
            /\ rounds[m.question] \in Nat /\ rounds'[m.question] \in Nat
      BY <1>1, <1>2, <1>4, <2>1, <3>1 DEF Protocol, ThreadShape
    <3>3. m.type = "token" => m.number <= rounds'[m.question]
      BY <3>2
    <3>4. QED
      BY <1>1, <2>1, <3>1, <3>3 DEF Protocol
  <2>2. CASE m \notin Heard
    BY <1>1, <1>6, <2>2 DEF IsReply
  <2>3. QED
    BY <2>1, <2>2
<1>11. \A p \in Questions : step'[p] = "unborn" => rounds'[p] = 0
  BY <1>1, <1>4 DEF Protocol
<1>12. \A p \in Questions :
         sending'[p] = "starting" /\ step'[p] # "unborn"
           => [type |-> "accepted", question |-> p] \in Among(deliveries)'
  BY <1>1 DEF Protocol
<1>13. QED
  BY <1>8, <1>9, <1>10, <1>11, <1>12 DEF Protocol

\* The call the bridge takes next, and those that wait behind it.
LEMMA FirstCall ==
  ASSUME Typed, NEW op, Called(op)
  PROVE  /\ Head(calls).op = op
         /\ calls # <<>> /\ calls' = Tail(calls)
         /\ op = "start" => Head(calls).question \in Questions
         /\ Among(calls) = Among(calls') \cup {Head(calls)}
<1>1. calls \in Seq(Calls) /\ calls # <<>> /\ calls' = Tail(calls) /\ Head(calls).op = op
  BY DEF Typed, TypeOK, BridgeTypeOK, Called
<1>2. Head(calls) \in Calls /\ Among(calls) = Among(calls') \cup {Head(calls)}
  BY <1>1, TailDrops
<1>3. QED
  BY <1>1, <1>2 DEF Calls

\* No second call starts the question of the first.
LEMMA StartsOnce ==
  ASSUME Typed, Listening, Called("start")
  PROVE  \A call \in Among(calls') : call.op = "start" => call.question # Head(calls).question
<1>1. calls \in Seq(Calls) /\ calls # <<>> /\ calls' = Tail(calls) /\ Head(calls).op = "start"
  BY DEF Typed, TypeOK, BridgeTypeOK, Called
<1>2. Len(calls) \in Nat /\ Len(calls) >= 1
  BY <1>1, EmptySeq
<1>3. /\ Head(calls) = calls[1]
      /\ \A i \in 1 .. Len(calls) - 1 : calls'[i] = calls[i + 1]
      /\ DOMAIN calls = 1 .. Len(calls) /\ DOMAIN calls' = 1 .. Len(calls) - 1
  BY <1>1, <1>2
<1>4. SUFFICES ASSUME NEW i \in 1 .. Len(calls) - 1, calls'[i].op = "start"
               PROVE  calls'[i].question # Head(calls).question
  BY <1>3 DEF Among
<1>5. 1 \in 1 .. Len(calls) /\ i + 1 \in 1 .. Len(calls) /\ 1 < i + 1
  BY <1>2
<1>6. ~IsStart(calls[i + 1], calls[1].question)
  BY <1>1, <1>3, <1>5 DEF Listening
<1>7. QED
  BY <1>3, <1>4, <1>6 DEF IsStart

\* The reply to a call of q is the first thing that is heard of it.
LEMMA RepliesKeepProtocol ==
  ASSUME Typed, Protocol, Listening, Called("start"),
         NEW how \in {"accepted", "refused"},
         Deliver([type |-> how, question |-> Head(calls).question]),
         UNCHANGED <<posted, rounds, sending>>,
         how = "refused" => UNCHANGED step,
         how = "accepted" => step' = [step EXCEPT ![Head(calls).question] = "locking"]
  PROVE  Protocol'
<1> DEFINE q == Head(calls).question
           reply == [type |-> how, question |-> q]
<1>1. /\ q \in Questions
      /\ Head(calls) \in Among(calls)
      /\ Among(calls') \subseteq Among(calls)
      /\ Head(calls).op = "start"
  BY FirstCall
<1>2. sending[q] = "starting" /\ step[q] = "unborn" /\ \A m \in Heard : m.question # q
  BY <1>1 DEF Protocol
<1>3. \A call \in Among(calls') : call.op = "start" => call.question # q
  BY StartsOnce
<1>4. reply \in Replies /\ deliveries \in Seq(Replies \cup Events)
  BY <1>1 DEF Replies, Typed, TypeOK, BridgeTypeOK
<1>5. Among(deliveries') = Among(deliveries) \cup {reply}
  BY <1>4, AppendAdds DEF Deliver
<1>6. Heard' = Heard \cup {reply}
  BY <1>5 DEF Heard
<1>7. step \in [Questions -> Steps] /\ \A p \in Questions : p # q => step'[p] = step[p]
  BY <1>1 DEF Typed, TypeOK, BridgeTypeOK
<1>8. step'[q] = IF how = "accepted" THEN "locking" ELSE "unborn"
  BY <1>1, <1>2, <1>7
<1>9. /\ reply.question = q /\ reply.type = how /\ IsReply(reply)
      /\ reply.type \notin Outcomes /\ reply.type # "token"
  BY DEF IsReply, Outcomes
<1>10. \A m \in Heard : m.question \in Questions
  BY HeardIsTyped
<1>11. \A call \in Among(calls) : call.op = "start" => call.question \in Questions
  BY CallsAreTyped
<1> HIDE DEF q, reply
<1>12. \A p \in Questions :
         sending'[p] \in {"unasked", "preparing"} =>
           /\ step'[p] = "unborn"
           /\ \A call \in Among(calls') : ~IsStart(call, p)
           /\ \A m \in Heard' : m.question # p
  BY <1>1, <1>2, <1>6, <1>7, <1>9 DEF Protocol
<1>13. \A call \in Among(calls') : call.op = "start" =>
          /\ sending'[call.question] = "starting"
          /\ step'[call.question] = "unborn"
          /\ \A m \in Heard' : m.question # call.question
  BY <1>1, <1>3, <1>6, <1>7, <1>9, <1>11 DEF Protocol
<1>14. \A m \in Heard' :
          /\ IsReply(m) => sending'[m.question] = "starting"
          /\ m.type = "refused" => step'[m.question] = "unborn"
          /\ m.type # "refused" => step'[m.question] # "unborn"
          /\ m.type \in Outcomes => Over(m.question)'
          /\ m.type = "token" => m.number <= rounds'[m.question]
  BY <1>2, <1>6, <1>7, <1>8, <1>9, <1>10 DEF Protocol, Over
<1>15. \A p \in Questions : step'[p] = "unborn" => rounds'[p] = 0
  BY <1>2, <1>7 DEF Protocol
<1>16. \A p \in Questions :
          sending'[p] = "starting" /\ step'[p] # "unborn"
            => [type |-> "accepted", question |-> p] \in Among(deliveries')
  BY <1>2, <1>5, <1>7, <1>8 DEF Protocol, reply
<1>17. QED
  BY <1>12, <1>13, <1>14, <1>15, <1>16 DEF Protocol

\* An event reaches the panel's queue or is lost.
LEMMA EmittingHeard ==
  ASSUME Typed, Emit
  PROVE  /\ Heard' \subseteq Heard
         /\ Among(deliveries) \subseteq Among(deliveries')
         /\ sink => Heard' = Heard
         /\ posted # <<>> /\ Head(posted) \in Among(posted) /\ Head(posted) \in Events
         /\ Among(posted) = Among(posted') \cup {Head(posted)}
         /\ deliveries' = deliveries
              \/ (deliveries' = Append(deliveries, Head(posted))
                  /\ Among(deliveries') = Among(deliveries) \cup {Head(posted)})
<1>1. /\ posted \in Seq(Events) /\ posted # <<>> /\ posted' = Tail(posted)
      /\ deliveries \in Seq(Replies \cup Events)
  BY DEF Typed, TypeOK, BridgeTypeOK, Emit
<1>2. Head(posted) \in Events /\ Among(posted) = Among(posted') \cup {Head(posted)}
  BY <1>1, TailDrops
<1>3. CASE sink
  <2>1. deliveries' = Append(deliveries, Head(posted))
    BY <1>3 DEF Emit
  <2>2. Among(deliveries') = Among(deliveries) \cup {Head(posted)}
    BY <1>1, <1>2, <2>1, AppendAdds
  <2>3. QED
    BY <1>1, <1>2, <2>1, <2>2 DEF Heard
<1>4. CASE ~sink
  BY <1>1, <1>2, <1>4 DEF Heard, Emit
<1>5. QED
  BY <1>3, <1>4

\* So does each step of the main thread.
LEMMA MainThreadKeepsProtocol ==
  ASSUME Typed, Protocol, Listening, MainThread, UNCHANGED sending
  PROVE  Protocol'
<1>1. CASE RefuseGeneration
  BY <1>1, RepliesKeepProtocol DEF RefuseGeneration, threadVars
<1>2. CASE AcceptGeneration
  BY <1>2, RepliesKeepProtocol DEF AcceptGeneration
<1>3. ASSUME NEW op, Called(op), UNCHANGED <<deliveries, posted, step, rounds>>
      PROVE  Protocol'
  <2>1. Among(calls') \subseteq Among(calls)
    BY <1>3, FirstCall
  <2>2. QED
    BY <1>3, <2>1, OtherCallsKeepProtocol DEF Among
<1>4. CASE CancelGeneration
  BY <1>3, <1>4 DEF CancelGeneration, threadVars
<1>5. CASE AttachSink
  BY <1>3, <1>5 DEF AttachSink, threadVars
<1>6. CASE Emit
  <2>1. /\ UNCHANGED <<calls, step, rounds>>
        /\ Heard' \subseteq Heard /\ Among(deliveries) \subseteq Among(deliveries')
    BY <1>6, EmittingHeard DEF Emit, threadVars
  <2>2. \A m \in Heard : m.question \in Questions
    BY HeardIsTyped
  <2>3. QED
    BY <2>1, <2>2 DEF Protocol, Over
<1>7. QED
  BY <1>1, <1>2, <1>4, <1>5, <1>6 DEF MainThread

\* The panel takes the oldest message; those behind it may follow it.
LEMMA HearingTheFirst ==
  ASSUME Typed, InOrder, Receive
  PROVE  LET m == Head(deliveries) IN
         /\ Among(deliveries) = Among(deliveries') \cup {m}
         /\ Heard = Heard' \cup {m}
         /\ \A n \in Heard' : MayFollow(m, n)
         /\ UNCHANGED <<calls, posted, sink, step, rounds>>
<1>1. /\ deliveries \in Seq(Replies \cup Events) /\ deliveries # <<>>
      /\ deliveries' = Tail(deliveries)
      /\ UNCHANGED <<calls, posted, sink, step, rounds>>
  BY DEF Typed, TypeOK, BridgeTypeOK, Receive, threadVars
<1>2. Among(deliveries) = Among(deliveries') \cup {Head(deliveries)}
  BY <1>1, TailDrops
<1>3. \A n \in Among(deliveries') : MayFollow(Head(deliveries), n)
  BY <1>1, TailInOrder DEF InOrder
<1>4. \A n \in Among(posted) : MayFollow(Head(deliveries), n)
  BY <1>2 DEF InOrder
<1>5. QED
  BY <1>1, <1>2, <1>3, <1>4 DEF Heard

\* A reply is heard once, and an event changes no sending.
LEMMA ReceiveKeepsProtocol ==
  ASSUME Typed, Protocol, InOrder, Receive
  PROVE  Protocol'
<1> DEFINE m == Head(deliveries)
<1>1. /\ Among(deliveries) = Among(deliveries') \cup {m}
      /\ Heard = Heard' \cup {m}
      /\ \A n \in Heard' : MayFollow(m, n)
      /\ UNCHANGED <<calls, posted, step, rounds>>
  BY HearingTheFirst
<1>2. m.question \in Questions
  BY MessageShapes
<1>3. \/ IsReply(m) /\ sending' = [sending EXCEPT ![m.question] = "over"]
      \/ ~IsReply(m) /\ UNCHANGED sending
  BY MessageShapes DEF Starts, SendFails, Settle, sessionVars, IsReply
<1>4. \A n \in Heard : n.question \in Questions
  BY HeardIsTyped
<1>5. sending \in [Questions -> {"unasked", "preparing", "starting", "over"}]
  BY DEF Typed, TypeOK
<1>6. \A call \in Among(calls) : call.op = "start" => call.question \in Questions
  BY CallsAreTyped
<1> HIDE DEF m
<1>7. CASE ~IsReply(m) /\ UNCHANGED sending
  <2>1. \A p \in Questions :
          sending[p] = "starting" /\ step[p] # "unborn"
            => [type |-> "accepted", question |-> p] \in Among(deliveries')
    BY <1>1, <1>7 DEF Protocol, IsReply
  <2>2. QED
    BY <1>1, <1>7, <2>1 DEF Protocol, Over
<1>8. CASE IsReply(m) /\ sending' = [sending EXCEPT ![m.question] = "over"]
  <2>1. \A p \in Questions : p # m.question => sending'[p] = sending[p]
    BY <1>5, <1>8
  <2>2. sending'[m.question] = "over"
    BY <1>2, <1>5, <1>8
  <2>3. \A n \in Heard' : IsReply(n) => n.question # m.question
    BY <1>1 DEF MayFollow
  <2>4. \A call \in Among(calls) : call.op = "start" => call.question # m.question
    BY <1>1 DEF Protocol
  <2>5. \A p \in Questions :
          sending'[p] \in {"unasked", "preparing"} => sending'[p] = sending[p]
    BY <2>1, <2>2
  <2>6. \A p \in Questions :
          sending'[p] = "starting" /\ step[p] # "unborn"
            => [type |-> "accepted", question |-> p] \in Among(deliveries')
    BY <1>1, <2>1, <2>2 DEF Protocol
  <2>7. \A n \in Heard' : IsReply(n) => sending'[n.question] = "starting"
    BY <1>1, <1>4, <2>1, <2>3 DEF Protocol
  <2>8. \A call \in Among(calls) : call.op = "start" => sending'[call.question] = "starting"
    BY <1>6, <2>1, <2>4 DEF Protocol
  <2>9. QED
    BY <1>1, <2>5, <2>6, <2>7, <2>8 DEF Protocol, Over
<1>9. QED
  BY <1>3, <1>7, <1>8

\* A call of the panel joins those on their way.
LEMMA CallJoins ==
  ASSUME Typed, NEW call \in Calls, Call(call)
  PROVE  Among(calls') = Among(calls) \cup {call}
BY AppendAdds DEF Typed, TypeOK, BridgeTypeOK, Call

\* Every step keeps the protocol.
LEMMA ProtocolStays ==
  ASSUME Typed, OneThought, Protocol, InOrder, Listening, [Next]_vars
  PROVE  Protocol'
<1>0. /\ sending \in [Questions -> {"unasked", "preparing", "starting", "over"}]
      /\ requestId \in Questions \cup {None}
  BY DEF Typed, TypeOK
<1>1. CASE MainThread /\ UNCHANGED sessionVars
  BY <1>1, MainThreadKeepsProtocol DEF sessionVars
<1>2. ASSUME NEW q \in Questions, Thread(q), UNCHANGED sessionVars
      PROVE  Protocol'
  BY <1>2, ThreadsHaveShape, ThreadsKeepProtocol DEF sessionVars
<1>3. ASSUME NEW call \in Calls, call.op # "start", Call(call), NativeUnchanged,
             UNCHANGED sending
      PROVE  Protocol'
  BY <1>3, CallJoins, OtherCallsKeepProtocol DEF NativeUnchanged, threadVars
<1>4. CASE OpenPanel
  <2>1. [op |-> "listen"] \in Calls
    BY DEF Calls
  <2>2. QED
    BY <1>3, <1>4, <2>1 DEF OpenPanel
<1>5. CASE ClosePanel
  <2>1. [op |-> "unlisten"] \in Calls
    BY DEF Calls
  <2>2. QED
    BY <1>3, <1>5, <2>1 DEF ClosePanel
<1>6. ASSUME NEW q \in Questions, Send(q)
      PROVE  Protocol'
  <2>1. /\ sending[q] = "unasked" /\ sending' = [sending EXCEPT ![q] = "preparing"]
        /\ UNCHANGED <<calls, deliveries, posted, step, rounds>>
    BY <1>6 DEF Send, bridgeVars, threadVars
  <2>2. \A p \in Questions :
          /\ sending'[p] = "starting" <=> sending[p] = "starting"
          /\ sending'[p] \in {"unasked", "preparing"} => sending[p] \in {"unasked", "preparing"}
    BY <1>0, <2>1
  <2>3. \A m \in Heard : m.question \in Questions
    BY HeardIsTyped
  <2>4. \A call \in Among(calls) : call.op = "start" => call.question \in Questions
    BY CallsAreTyped
  <2>5. QED
    BY <2>1, <2>2, <2>3, <2>4 DEF Protocol, Heard, Over
<1>7. ASSUME NEW q \in Questions, Begin(q)
      PROVE  Protocol'
  <2> DEFINE call == [op |-> "start", question |-> q]
  <2>1. /\ sending[q] = "preparing" /\ sending' = [sending EXCEPT ![q] = "starting"]
        /\ UNCHANGED <<deliveries, posted, step, rounds>>
    BY <1>7 DEF Begin, NativeUnchanged, threadVars
  <2>2. call \in Calls
    BY DEF Calls
  <2>3. Among(calls') = Among(calls) \cup {call}
    BY <1>7, <2>2, CallJoins DEF Begin
  <2>4. call.question = q /\ call.op = "start"
    OBVIOUS
  <2>5. /\ sending'[q] = "starting"
        /\ \A p \in Questions : p # q => sending'[p] = sending[p]
    BY <1>0, <2>1
  <2>6. \A m \in Heard : m.question \in Questions /\ m.question # q
    BY <2>1, HeardIsTyped DEF Protocol
  <2>7. \A c \in Among(calls) : c.op = "start" => c.question \in Questions
    BY CallsAreTyped
  <2>8. step[q] = "unborn"
    BY <2>1 DEF Protocol
  <2>9. Heard' = Heard
    BY <2>1 DEF Heard
  <2> HIDE DEF call
  <2>10. \A p \in Questions :
           sending'[p] \in {"unasked", "preparing"} =>
             /\ step[p] = "unborn"
             /\ \A c \in Among(calls') : ~IsStart(c, p)
             /\ \A m \in Heard : m.question # p
    BY <2>3, <2>4, <2>5 DEF Protocol, IsStart
  <2>11. \A c \in Among(calls') : c.op = "start" =>
            /\ sending'[c.question] = "starting"
            /\ step[c.question] = "unborn"
            /\ \A m \in Heard : m.question # c.question
    BY <2>3, <2>4, <2>5, <2>6, <2>7, <2>8 DEF Protocol
  <2>12. \A m \in Heard : IsReply(m) => sending'[m.question] = "starting"
    BY <2>5, <2>6 DEF Protocol
  <2>13. \A p \in Questions :
           sending'[p] = "starting" /\ step[p] # "unborn"
             => [type |-> "accepted", question |-> p] \in Among(deliveries)
    BY <2>5, <2>8 DEF Protocol
  <2>14. QED
    BY <2>1, <2>9, <2>10, <2>11, <2>12, <2>13 DEF Protocol, Over
<1>8. ASSUME NEW q \in Questions, ModelFails(q)
      PROVE  Protocol'
  <2>1. /\ sending[q] = "preparing" /\ sending' = [sending EXCEPT ![q] = "over"]
        /\ UNCHANGED <<calls, deliveries, posted, step, rounds>>
    BY <1>8 DEF ModelFails, SendFails, bridgeVars, threadVars
  <2>2. \A p \in Questions :
          /\ sending'[p] = "starting" <=> sending[p] = "starting"
          /\ sending'[p] \in {"unasked", "preparing"} => sending[p] \in {"unasked", "preparing"}
    BY <1>0, <2>1
  <2>3. \A m \in Heard : m.question \in Questions
    BY HeardIsTyped
  <2>4. \A call \in Among(calls) : call.op = "start" => call.question \in Questions
    BY CallsAreTyped
  <2>5. QED
    BY <2>1, <2>2, <2>3, <2>4 DEF Protocol, Heard, Over
<1>9. CASE Receive
  BY <1>9, ReceiveKeepsProtocol
<1>10. CASE Stop
  <2>1. [op |-> "cancel", question |-> requestId] \in Calls
    BY <1>0, <1>10 DEF Stop, Calls
  <2>2. QED
    BY <1>3, <1>10, <2>1 DEF Stop, Settle
<1>11. CASE TimeOut
  <2>1. requestId = timer /\ requestId # None
    BY <1>11 DEF TimeOut, OneThought
  <2>2. [op |-> "cancel", question |-> requestId] \in Calls
    BY <1>0, <2>1 DEF Calls
  <2>3. QED
    BY <1>3, <1>11, <2>1, <2>2 DEF TimeOut, Settle
<1>12. CASE UNCHANGED vars
  BY <1>12, OtherCallsKeepProtocol DEF vars, bridgeVars, threadVars, sessionVars, Among
<1>13. QED
  BY <1>1, <1>2, <1>4, <1>5, <1>6, <1>7, <1>8, <1>9, <1>10, <1>11, <1>12
     DEF Next, Panel, BridgeNext

----------------------------------------------------------------------------
(* The order of the streams. *)

\* A thread posts its tokens in turn, and its end after them.
LEMMA ThreadsKeepOrder ==
  ASSUME Typed, Protocol, InOrder, NEW q \in Questions, ThreadShape(q)
  PROVE  InOrder'
<1>1. /\ posted \in Seq(Events) /\ deliveries \in Seq(Replies \cup Events)
      /\ deliveries' = deliveries
      /\ rounds \in [Questions -> 0 .. MaxTokens] /\ MaxTokens \in Nat
  BY BridgeAssumption DEF Typed, TypeOK, BridgeTypeOK, ThreadShape
<1>2. ASSUME NEW e \in Events, posted' = Append(posted, e), \A m \in Heard : MayFollow(m, e)
      PROVE  InOrder'
  <2>1. Ordered(posted')
    BY <1>1, <1>2, AppendedInOrder DEF InOrder, Heard
  <2>2. Among(posted') = Among(posted) \cup {e}
    BY <1>1, <1>2, AppendAdds
  <2>3. QED
    BY <1>1, <1>2, <2>1, <2>2 DEF InOrder, Heard
<1>3. CASE UNCHANGED posted
  BY <1>1, <1>3 DEF InOrder
<1>4. CASE /\ step[q] = "drawing"
           /\ Token(q, rounds[q] + 1) \in Events
           /\ posted' = Append(posted, Token(q, rounds[q] + 1))
  <2>1. ASSUME NEW m \in Heard
        PROVE  MayFollow(m, Token(q, rounds[q] + 1))
    <3>1. SUFFICES ASSUME m.question = q
                   PROVE  /\ m.type \in {"accepted", "token"}
                          /\ m.type = "token" => m.number < rounds[q] + 1
      BY DEF MayFollow, Token, IsReply
    <3>2. /\ m.type \in {"accepted", "refused", "token"} \cup Outcomes
          /\ m.type = "token" => m.number \in Nat
      BY HeardIsTyped
    <3>3. m.type # "refused" /\ m.type \notin Outcomes
      BY <1>4, <3>1 DEF Protocol, Over
    <3>4. m.type = "token" => m.number <= rounds[q]
      BY <3>1 DEF Protocol
    <3>5. rounds[q] \in Nat
      BY <1>1
    <3>6. QED
      BY <3>2, <3>3, <3>4, <3>5
  <2>2. QED
    BY <1>2, <1>4, <2>1
<1>5. ASSUME NEW how \in Outcomes,
             posted' = Append(posted, [type |-> how, question |-> q])
      PROVE  InOrder'
  <2>1. [type |-> how, question |-> q] \in Events
    BY DEF Events
  <2>2. \A m : MayFollow(m, [type |-> how, question |-> q])
    BY DEF MayFollow, IsReply, Outcomes
  <2>3. QED
    BY <1>2, <1>5, <2>1, <2>2
<1>6. QED
  BY <1>3, <1>4, <1>5 DEF ThreadShape

\* A reply is the first message of its question.
LEMMA RepliesKeepOrder ==
  ASSUME Typed, Protocol, InOrder, Called("start"), NEW how \in {"accepted", "refused"},
         Deliver([type |-> how, question |-> Head(calls).question]), UNCHANGED posted
  PROVE  InOrder'
<1> DEFINE reply == [type |-> how, question |-> Head(calls).question]
<1>1. /\ Head(calls).question \in Questions
      /\ Head(calls) \in Among(calls) /\ Head(calls).op = "start"
  BY FirstCall
<1>2. \A m \in Heard : m.question # reply.question
  BY <1>1 DEF Protocol
<1>3. reply \in Replies \cup Events /\ deliveries \in Seq(Replies \cup Events)
  BY <1>1 DEF Replies, Typed, TypeOK, BridgeTypeOK
<1>4. deliveries' = Append(deliveries, reply)
  BY DEF Deliver
<1>5. Among(deliveries') = Among(deliveries) \cup {reply}
  BY <1>3, <1>4, AppendAdds
<1> HIDE DEF reply
<1>6. \A m \in Heard : MayFollow(m, reply) /\ MayFollow(reply, m)
  BY <1>2 DEF MayFollow
<1>7. Ordered(deliveries')
  BY <1>3, <1>4, <1>6, AppendedInOrder DEF InOrder, Heard
<1>8. QED
  BY <1>5, <1>6, <1>7 DEF InOrder, Heard

\* Every step keeps the order.
LEMMA InOrderStays ==
  ASSUME Typed, Protocol, InOrder, [Next]_vars
  PROVE  InOrder'
<1>1. CASE UNCHANGED <<deliveries, posted>>
  BY <1>1 DEF InOrder
<1>2. CASE RefuseGeneration
  BY <1>2, RepliesKeepOrder DEF RefuseGeneration
<1>3. CASE AcceptGeneration
  BY <1>3, RepliesKeepOrder DEF AcceptGeneration
<1>4. CASE Emit
  <2>1. /\ Among(posted) = Among(posted') \cup {Head(posted)}
        /\ posted \in Seq(Events) /\ posted # <<>> /\ posted' = Tail(posted)
        /\ deliveries \in Seq(Replies \cup Events)
        /\ Head(posted) \in Replies \cup Events
    BY <1>4, EmittingHeard DEF Emit, Typed, TypeOK, BridgeTypeOK
  <2>2. Ordered(posted') /\ \A m \in Among(posted') : MayFollow(Head(posted), m)
    BY <2>1, TailInOrder DEF InOrder
  <2>3. \A m \in Among(deliveries) : MayFollow(m, Head(posted))
    BY <2>1 DEF InOrder
  <2>4. Ordered(Append(deliveries, Head(posted)))
    BY <2>1, <2>3, AppendedInOrder DEF InOrder
  <2>5. \/ deliveries' = deliveries
        \/ /\ deliveries' = Append(deliveries, Head(posted))
           /\ Among(deliveries') = Among(deliveries) \cup {Head(posted)}
    BY <1>4, EmittingHeard
  <2>6. \A m \in Among(deliveries) \cup {Head(posted)}, n \in Among(posted') : MayFollow(m, n)
    BY <2>1, <2>2 DEF InOrder
  <2>7. QED
    BY <2>2, <2>4, <2>5, <2>6 DEF InOrder
<1>5. ASSUME NEW q \in Questions, Thread(q)
      PROVE  InOrder'
  BY <1>5, ThreadsHaveShape, ThreadsKeepOrder
<1>6. CASE Receive
  <2>1. /\ deliveries \in Seq(Replies \cup Events) /\ deliveries # <<>>
        /\ deliveries' = Tail(deliveries) /\ posted' = posted
    BY <1>6 DEF Receive, Typed, TypeOK, BridgeTypeOK
  <2>2. Ordered(deliveries') /\ Among(deliveries') \subseteq Among(deliveries)
    BY <2>1, TailInOrder, TailDrops DEF InOrder
  <2>3. QED
    BY <2>1, <2>2 DEF InOrder
<1>7. QED
  BY <1>1, <1>2, <1>3, <1>4, <1>5, <1>6
     DEF Next, Panel, BridgeNext, MainThread, CancelGeneration, AttachSink, OpenPanel,
         ClosePanel, Send, Begin, ModelFails, Stop, TimeOut, NativeUnchanged, vars, bridgeVars

----------------------------------------------------------------------------
(* Who is listening. *)

\* A call taken by the bridge, with the sink it leaves.
LEMMA TakingKeepsListening ==
  ASSUME Typed, Listening, NEW op, Called(op),
         UNCHANGED <<open, panel, asker>>,
         \/ op \in {"start", "cancel"} /\ UNCHANGED sink
         \/ op = "listen" /\ sink'
         \/ op = "unlisten",
         \A q \in Questions : \/ step'[q] = "unborn" <=> step[q] = "unborn"
                              \/ op = "start" /\ q = Head(calls).question
  PROVE  Listening'
<1>1. calls \in Seq(Calls) /\ calls # <<>> /\ calls' = Tail(calls) /\ Head(calls).op = op
  BY DEF Typed, TypeOK, BridgeTypeOK, Called
<1>2. Len(calls) \in Nat /\ Len(calls) >= 1
  BY <1>1, EmptySeq
<1>3. /\ Head(calls) = calls[1]
      /\ \A i \in 1 .. Len(calls) - 1 : calls'[i] = calls[i + 1]
      /\ DOMAIN calls = 1 .. Len(calls) /\ DOMAIN calls' = 1 .. Len(calls) - 1
  BY <1>1, <1>2
<1>4. \A i \in 1 .. Len(calls) - 1 : i + 1 \in 1 .. Len(calls) /\ 1 < i + 1
  BY <1>2
<1>5. Among(calls') \subseteq Among(calls)
  BY FirstCall
<1>6. ASSUME open
      PROVE  \/ \E i \in DOMAIN calls' : /\ calls'[i].op = "listen"
                                         /\ \A j \in DOMAIN calls' : i < j => calls'[j].op # "unlisten"
             \/ sink' /\ \A call \in Among(calls') : call.op # "unlisten"
  <2>1. CASE sink /\ \A call \in Among(calls) : call.op # "unlisten"
    <3>1. op # "unlisten"
      BY <1>1, <1>2, <1>3, <2>1 DEF Among
    <3>2. QED
      BY <1>5, <2>1, <3>1
  <2>2. ASSUME NEW i \in DOMAIN calls, calls[i].op = "listen",
               \A j \in DOMAIN calls : i < j => calls[j].op # "unlisten"
        PROVE  \/ \E k \in DOMAIN calls' : /\ calls'[k].op = "listen"
                                           /\ \A j \in DOMAIN calls' : k < j => calls'[j].op # "unlisten"
               \/ sink' /\ \A call \in Among(calls') : call.op # "unlisten"
    <3>1. CASE i = 1
      <4>1. op = "listen" /\ sink'
        BY <1>1, <1>3, <2>2, <3>1
      <4>2. \A j \in DOMAIN calls' : calls'[j].op # "unlisten"
        BY <1>3, <1>4, <2>2, <3>1
      <4>3. QED
        BY <4>1, <4>2 DEF Among
    <3>2. CASE i # 1
      <4>1. i - 1 \in 1 .. Len(calls) - 1 /\ (i - 1) + 1 = i
        BY <1>2, <1>3, <2>2, <3>2
      <4>2. calls'[i - 1].op = "listen"
        BY <1>3, <2>2, <4>1
      <4>3. \A j \in 1 .. Len(calls) - 1 : i - 1 < j => calls'[j].op # "unlisten"
        <5>1. \A j \in 1 .. Len(calls) - 1 : i - 1 < j => i < j + 1
          BY <1>2, <1>3
        <5>2. QED
          BY <1>3, <1>4, <2>2, <5>1
      <4>4. QED
        BY <1>3, <4>1, <4>2, <4>3
    <3>3. QED
      BY <3>1, <3>2
  <2>3. QED
    BY <1>6, <2>1, <2>2 DEF Listening
<1>7. \A i, j \in DOMAIN calls' :
        i < j /\ calls'[i].op = "start" =>
          /\ ~IsStart(calls'[j], calls'[i].question)
          /\ Mounted(calls'[i].question) => ~IsListening(calls'[j])
  <2>1. SUFFICES ASSUME NEW i \in 1 .. Len(calls) - 1, NEW j \in 1 .. Len(calls) - 1,
                        i < j, calls'[i].op = "start"
                 PROVE  /\ ~IsStart(calls'[j], calls'[i].question)
                        /\ Mounted(calls'[i].question) => ~IsListening(calls'[j])
    BY <1>3
  <2>2. i + 1 \in DOMAIN calls /\ j + 1 \in DOMAIN calls /\ i + 1 < j + 1
    BY <1>2, <1>3, <2>1
  <2>3. QED
    BY <1>3, <2>1, <2>2 DEF Listening
<1>8. ASSUME NEW q \in Questions, Mounted(q), step'[q] # "unborn", NEW call \in Among(calls')
      PROVE  ~IsListening(call)
  <2>1. CASE step[q] # "unborn"
    BY <1>5, <1>8, <2>1 DEF Listening
  <2>2. CASE step[q] = "unborn"
    <3>1. op = "start" /\ q = Head(calls).question
      BY <1>8, <2>2
    <3>2. PICK j \in 1 .. Len(calls) - 1 : call = calls'[j]
      BY <1>3, <1>8 DEF Among
    <3>3. j + 1 \in DOMAIN calls /\ 1 \in DOMAIN calls /\ 1 < j + 1 /\ call = calls[j + 1]
      BY <1>2, <1>3, <1>4, <3>2
    <3>4. QED
      BY <1>1, <1>3, <1>8, <3>1, <3>3 DEF Listening
  <2>3. QED
    BY <2>1, <2>2
<1>9. \A q : Mounted(q)' <=> Mounted(q)
  BY DEF Mounted
<1>10. QED
  BY <1>6, <1>7, <1>8, <1>9 DEF Listening

\* A call that is no change of the listener waits behind the others.
LEMMA CallingKeepsListening ==
  ASSUME Typed, Listening, NEW call \in Calls, Call(call), ~IsListening(call),
         call.op = "start" => \A c \in Among(calls) : ~IsStart(c, call.question),
         UNCHANGED <<open, panel, asker, sink, step>>
  PROVE  Listening'
<1>1. calls \in Seq(Calls) /\ calls' = Append(calls, call)
  BY DEF Typed, TypeOK, BridgeTypeOK, Call
<1>2. /\ Len(calls) \in Nat
      /\ \A i \in 1 .. Len(calls) : calls'[i] = calls[i]
      /\ calls'[Len(calls) + 1] = call
      /\ DOMAIN calls = 1 .. Len(calls) /\ DOMAIN calls' = 1 .. Len(calls) + 1
  BY <1>1
<1>3. 1 .. Len(calls) + 1 = (1 .. Len(calls)) \cup {Len(calls) + 1}
  BY <1>2
<1>4. Among(calls') = Among(calls) \cup {call}
  BY CallJoins
<1>5. call.op # "listen" /\ call.op # "unlisten"
  BY DEF IsListening
<1>6. ASSUME open
      PROVE  \/ \E i \in DOMAIN calls' : /\ calls'[i].op = "listen"
                                         /\ \A j \in DOMAIN calls' : i < j => calls'[j].op # "unlisten"
             \/ sink' /\ \A c \in Among(calls') : c.op # "unlisten"
  <2>1. CASE sink /\ \A c \in Among(calls) : c.op # "unlisten"
    BY <1>4, <1>5, <2>1
  <2>2. CASE \E i \in DOMAIN calls : /\ calls[i].op = "listen"
                                     /\ \A j \in DOMAIN calls : i < j => calls[j].op # "unlisten"
    BY <1>2, <1>3, <1>5, <2>2
  <2>3. QED
    BY <1>6, <2>1, <2>2 DEF Listening
<1>7. ASSUME NEW i \in DOMAIN calls', NEW j \in DOMAIN calls', i < j, calls'[i].op = "start"
      PROVE  /\ ~IsStart(calls'[j], calls'[i].question)
             /\ Mounted(calls'[i].question) => ~IsListening(calls'[j])
  <2>1. i \in DOMAIN calls /\ calls'[i] = calls[i]
    BY <1>2, <1>7
  <2>2. CASE j \in DOMAIN calls
    BY <1>2, <1>7, <2>1, <2>2 DEF Listening
  <2>3. CASE j = Len(calls) + 1
    <3>1. calls[i] \in Among(calls)
      BY <2>1 DEF Among
    <3>2. call.op = "start" => call.question # calls[i].question
      BY <1>7, <2>1, <3>1 DEF IsStart
    <3>3. QED
      BY <1>2, <2>1, <2>3, <3>2 DEF IsStart
  <2>4. QED
    BY <1>2, <1>3, <2>2, <2>3
<1>8. \A q \in Questions :
        Mounted(q) /\ step[q] # "unborn" => \A c \in Among(calls') : ~IsListening(c)
  BY <1>4 DEF Listening
<1>9. \A q : Mounted(q)' <=> Mounted(q)
  BY DEF Mounted
<1>10. QED
  BY <1>6, <1>7, <1>8, <1>9 DEF Listening

\* Nothing of an earlier panel is on the new one.
LEMMA OpeningListens ==
  ASSUME Typed, OneThought, Listening, OpenPanel
  PROVE  Listening'
<1> DEFINE call == [op |-> "listen"]
<1>1. /\ calls \in Seq(Calls) /\ call \in Calls
      /\ calls' = Append(calls, call)
  BY DEF Typed, TypeOK, BridgeTypeOK, OpenPanel, Call, Calls
<1>2. /\ Len(calls) \in Nat
      /\ \A i \in 1 .. Len(calls) : calls'[i] = calls[i]
      /\ calls'[Len(calls) + 1] = call
      /\ DOMAIN calls = 1 .. Len(calls) /\ DOMAIN calls' = 1 .. Len(calls) + 1
  BY <1>1
<1>3. \A q \in Questions : ~Mounted(q)'
  <2>1. \A q \in Questions : asker[q] <= panel /\ asker[q] \in Nat
    BY PanelsAssumption DEF OneThought, Typed, TypeOK
  <2>2. panel \in Nat /\ panel' = panel + 1 /\ UNCHANGED asker
    BY PanelsAssumption DEF OpenPanel, Typed, TypeOK
  <2>3. QED
    BY <2>1, <2>2 DEF Mounted
<1>4. \A i \in DOMAIN calls : calls[i].op = "start" => calls[i].question \in Questions
  BY CallsAreTyped DEF Among
<1>5. \E i \in DOMAIN calls' : /\ calls'[i].op = "listen"
                               /\ \A j \in DOMAIN calls' : i < j => calls'[j].op # "unlisten"
  <2>1. Len(calls) + 1 \in DOMAIN calls' /\ calls'[Len(calls) + 1].op = "listen"
    BY <1>2
  <2>2. \A j \in DOMAIN calls' : ~(Len(calls) + 1 < j)
    BY <1>2
  <2>3. QED
    BY <2>1, <2>2
<1>6. ASSUME NEW i \in DOMAIN calls', NEW j \in DOMAIN calls', i < j, calls'[i].op = "start"
      PROVE  /\ ~IsStart(calls'[j], calls'[i].question)
             /\ ~Mounted(calls[i].question)'
  <2>1. i \in DOMAIN calls /\ calls'[i] = calls[i]
    BY <1>2, <1>6
  <2>2. ~Mounted(calls[i].question)'
    BY <1>3, <1>4, <1>6, <2>1 DEF Mounted
  <2>3. CASE j \in DOMAIN calls
    BY <1>2, <1>6, <2>1, <2>2, <2>3 DEF Listening
  <2>4. CASE j = Len(calls) + 1
    BY <1>2, <2>2, <2>4 DEF IsStart
  <2>5. QED
    BY <1>2, <2>3, <2>4
<1>7. QED
  BY <1>3, <1>5, <1>6 DEF Listening

\* With no panel nobody need listen.
LEMMA ClosingIsQuiet ==
  ASSUME Typed, Listening, ClosePanel
  PROVE  Listening'
<1> DEFINE call == [op |-> "unlisten"]
<1>1. /\ calls \in Seq(Calls) /\ call \in Calls
      /\ calls' = Append(calls, call)
  BY DEF Typed, TypeOK, BridgeTypeOK, ClosePanel, Call, Calls
<1>2. /\ Len(calls) \in Nat
      /\ \A i \in 1 .. Len(calls) : calls'[i] = calls[i]
      /\ calls'[Len(calls) + 1] = call
      /\ DOMAIN calls = 1 .. Len(calls) /\ DOMAIN calls' = 1 .. Len(calls) + 1
  BY <1>1
<1>3. ~open' /\ \A q : ~Mounted(q)'
  BY DEF ClosePanel, Mounted
<1>4. ASSUME NEW i \in DOMAIN calls', NEW j \in DOMAIN calls', i < j, calls'[i].op = "start"
      PROVE  ~IsStart(calls'[j], calls'[i].question)
  <2>1. i \in DOMAIN calls /\ calls'[i] = calls[i]
    BY <1>2, <1>4
  <2>2. CASE j \in DOMAIN calls
    BY <1>2, <1>4, <2>1, <2>2 DEF Listening
  <2>3. CASE j = Len(calls) + 1
    BY <1>2, <2>3 DEF IsStart
  <2>4. QED
    BY <1>2, <2>2, <2>3
<1>5. QED
  BY <1>3, <1>4 DEF Listening

\* Every step keeps the listener.
LEMMA ListeningStays ==
  ASSUME Typed, OneThought, Protocol, Listening, [Next]_vars
  PROVE  Listening'
<1>0. /\ asker \in [Questions -> 0 .. MaxPanels]
      /\ requestId \in Questions \cup {None}
      /\ step \in [Questions -> Steps]
  BY DEF Typed, TypeOK, BridgeTypeOK
<1>1. CASE UNCHANGED <<calls, sink, open, panel, asker, step>>
  BY <1>1 DEF Listening, Mounted
<1>2. CASE MainThread /\ UNCHANGED sessionVars
  <2>1. UNCHANGED <<open, panel, asker>>
    BY <1>2 DEF sessionVars, panelVars
  <2>2. CASE RefuseGeneration
    BY <2>1, <2>2, TakingKeepsListening DEF RefuseGeneration, threadVars
  <2>3. CASE AcceptGeneration
    <3>1. \A q \in Questions : q # Head(calls).question => step'[q] = step[q]
      BY <1>0, <2>3 DEF AcceptGeneration
    <3>2. QED
      BY <2>1, <2>3, <3>1, TakingKeepsListening DEF AcceptGeneration
  <2>4. CASE CancelGeneration
    BY <2>1, <2>4, TakingKeepsListening DEF CancelGeneration, threadVars
  <2>5. CASE AttachSink
    BY <2>1, <2>5, TakingKeepsListening DEF AttachSink, threadVars
  <2>6. CASE Emit
    BY <1>1, <2>1, <2>6 DEF Emit, threadVars
  <2>7. QED
    BY <1>2, <2>2, <2>3, <2>4, <2>5, <2>6 DEF MainThread
<1>3. ASSUME NEW q \in Questions, Thread(q), UNCHANGED sessionVars
      PROVE  Listening'
  <2>1. /\ UNCHANGED <<calls, sink, open, panel, asker>>
        /\ \A p \in Questions : step'[p] = "unborn" <=> step[p] = "unborn"
    BY <1>3, ThreadsHaveShape DEF ThreadShape, sessionVars, panelVars
  <2>2. QED
    BY <2>1 DEF Listening, Mounted
<1>4. CASE OpenPanel
  BY <1>4, OpeningListens
<1>5. CASE ClosePanel
  BY <1>5, ClosingIsQuiet
<1>6. ASSUME NEW q \in Questions, Send(q)
      PROVE  Listening'
  <2>1. /\ sending[q] = "unasked" /\ asker' = [asker EXCEPT ![q] = panel]
        /\ UNCHANGED <<calls, sink, open, panel, step>>
    BY <1>6 DEF Send, bridgeVars, threadVars
  <2>2. step[q] = "unborn" /\ \A call \in Among(calls) : ~IsStart(call, q)
    BY <2>1 DEF Protocol
  <2>3. \A p \in Questions : p # q => (Mounted(p)' <=> Mounted(p))
    BY <1>0, <2>1 DEF Mounted
  <2>4. \A i \in DOMAIN calls :
          calls[i].op = "start" => calls[i].question \in Questions /\ calls[i].question # q
    BY <2>2, CallsAreTyped DEF Among, IsStart
  <2>5. QED
    BY <2>1, <2>2, <2>3, <2>4 DEF Listening
<1>7. ASSUME NEW q \in Questions, Begin(q)
      PROVE  Listening'
  <2> DEFINE call == [op |-> "start", question |-> q]
  <2>1. /\ call \in Calls /\ call.question = q /\ call.op = "start"
        /\ sending[q] = "preparing"
        /\ Call(call)
        /\ UNCHANGED <<open, panel, asker, sink, step>>
    BY <1>7 DEF Calls, Begin, NativeUnchanged, threadVars, panelVars
  <2>2. \A c \in Among(calls) : ~IsStart(c, q)
    BY <2>1 DEF Protocol
  <2> HIDE DEF call
  <2>3. QED
    BY <2>1, <2>2, CallingKeepsListening DEF IsListening
<1>8. ASSUME NEW q \in Questions, ModelFails(q)
      PROVE  Listening'
  BY <1>1, <1>8 DEF ModelFails, SendFails, bridgeVars, threadVars
<1>9. CASE Receive
  <2>1. UNCHANGED <<open, panel, asker>>
    BY <1>9 DEF Receive, Starts, SendFails, HandleEvent, Settle, sessionVars, panelVars
  <2>2. QED
    BY <1>1, <1>9, <2>1 DEF Receive, threadVars
<1>10. ASSUME requestId # None, NEW how, Settle(requestId, how),
              Call([op |-> "cancel", question |-> requestId]), NativeUnchanged
       PROVE  Listening'
  <2> DEFINE call == [op |-> "cancel", question |-> requestId]
  <2>1. call \in Calls /\ call.op = "cancel" /\ Call(call)
    BY <1>0, <1>10 DEF Calls
  <2>2. UNCHANGED <<open, panel, asker, sink, step>>
    BY <1>10 DEF Settle, NativeUnchanged, threadVars
  <2> HIDE DEF call
  <2>3. QED
    BY <2>1, <2>2, CallingKeepsListening DEF IsListening
<1>11. CASE Stop
  BY <1>10, <1>11 DEF Stop
<1>12. CASE TimeOut
  <2>1. requestId = timer /\ requestId # None
    BY <1>12 DEF TimeOut, OneThought
  <2>2. QED
    BY <1>10, <1>12, <2>1 DEF TimeOut
<1>13. CASE UNCHANGED vars
  BY <1>1, <1>13 DEF vars, bridgeVars, threadVars, sessionVars, panelVars
<1>14. QED
  BY <1>2, <1>3, <1>4, <1>5, <1>6, <1>7, <1>8, <1>9, <1>11, <1>12, <1>13
     DEF Next, Panel, BridgeNext

----------------------------------------------------------------------------
(* Nothing is missing from what the panel waits for. *)

\* What is waited for belongs to the panel's only thought.
LEMMA AwaitedAlone ==
  ASSUME OneThought, NEW p \in Questions, Awaited(p)
  PROVE  /\ open /\ Mounted(p) /\ step[p] # "unborn"
         /\ requestId # None => p = requestId
         /\ requestId = None => sending[p] = "starting" /\ preparing
         /\ \A q \in Questions : Awaited(q) => q = p
BY BridgeAssumption DEF OneThought, Awaited, Mounted, Pending

\* With no question awaited and none thought about, there is nothing to miss.
LEMMA NoneAwaited ==
  ASSUME draft' = <<>>, \A q \in Questions : ~Awaited(q)'
  PROVE  NothingMissing'
BY DEF NothingMissing, DraftIsOfTheQuestion

\* A settled request leaves no question awaited.
LEMMA SettledAwaitsNothing ==
  ASSUME Typed, OneThought, requestId # None, NEW how, Settle(requestId, how), UNCHANGED step
  PROVE  NothingMissing'
<1>1. /\ ~preparing /\ requestId' = None /\ draft' = <<>>
      /\ UNCHANGED <<open, panel, asker, sending, step>>
  BY DEF OneThought, Settle
<1>2. \A q \in Questions : ~Awaited(q)'
  BY <1>1, BridgeAssumption DEF OneThought, Awaited, Mounted, Pending
<1>3. QED
  BY <1>1, <1>2, NoneAwaited

\* A thread writes the token that comes next.
LEMMA ThreadsMissNothing ==
  ASSUME Typed, Protocol, NothingMissing, NEW q \in Questions, ThreadShape(q),
         UNCHANGED sessionVars
  PROVE  NothingMissing'
<1>1. /\ posted \in Seq(Events) /\ deliveries' = deliveries
      /\ rounds \in [Questions -> 0 .. MaxTokens] /\ MaxTokens \in Nat
      /\ draft \in Seq(Questions \X (1 .. MaxTokens))
      /\ \A p \in Questions : step'[p] = "unborn" <=> step[p] = "unborn"
  BY BridgeAssumption DEF Typed, TypeOK, BridgeTypeOK, ThreadShape
<1>2. /\ UNCHANGED <<requestId, draft, sending>>
      /\ \A p \in Questions : Awaited(p)' <=> Awaited(p)
  BY <1>1 DEF sessionVars, panelVars, Awaited, Mounted
<1>3. DraftIsOfTheQuestion'
  BY <1>2 DEF NothingMissing, DraftIsOfTheQuestion
<1>4. CASE UNCHANGED <<posted, rounds>>
  BY <1>1, <1>2, <1>3, <1>4 DEF NothingMissing, Heard
<1>5. CASE /\ Token(q, rounds[q] + 1) \in Events
           /\ rounds' = [rounds EXCEPT ![q] = @ + 1]
           /\ posted' = Append(posted, Token(q, rounds[q] + 1))
  <2>1. Heard' = Heard \cup {Token(q, rounds[q] + 1)}
    BY <1>1, <1>5, AppendAdds DEF Heard
  <2>2. /\ rounds'[q] = rounds[q] + 1 /\ rounds[q] \in Nat /\ Len(draft) \in Nat
        /\ \A p \in Questions : p # q => rounds'[p] = rounds[p]
    BY <1>1, <1>5
  <2>3. Token(q, rounds[q] + 1).question = q /\ Token(q, rounds[q] + 1).number = rounds[q] + 1
    BY DEF Token
  <2>4. ASSUME NEW p \in Questions, Awaited(p)
        PROVE  /\ Len(draft) <= rounds'[p]
               /\ \A n \in Len(draft) + 1 .. rounds'[p] : Token(p, n) \in Heard'
               /\ \A m \in Heard' : m.type = "token" /\ m.question = p => Len(draft) < m.number
    <3>1. /\ Len(draft) <= rounds[p]
          /\ \A n \in Len(draft) + 1 .. rounds[p] : Token(p, n) \in Heard
          /\ \A m \in Heard : m.type = "token" /\ m.question = p => Len(draft) < m.number
      BY <2>4 DEF NothingMissing
    <3>2. CASE p = q
      <4>1. \A n \in Len(draft) + 1 .. rounds'[q] :
              n \in Len(draft) + 1 .. rounds[q] \/ n = rounds[q] + 1
        BY <2>2
      <4>2. Len(draft) < rounds[q] + 1 /\ Len(draft) <= rounds'[q]
        BY <2>2, <3>1, <3>2
      <4>3. QED
        BY <2>1, <2>3, <3>1, <3>2, <4>1, <4>2
    <3>3. CASE p # q
      BY <2>1, <2>2, <2>3, <3>1, <3>3
    <3>4. QED
      BY <3>2, <3>3
  <2>5. QED
    BY <1>2, <1>3, <2>4 DEF NothingMissing
<1>6. ASSUME UNCHANGED rounds, NEW how \in Outcomes,
             posted' = Append(posted, [type |-> how, question |-> q])
      PROVE  NothingMissing'
  <2>1. [type |-> how, question |-> q] \in Events /\ how # "token"
    BY DEF Events, Outcomes
  <2>2. Heard' = Heard \cup {[type |-> how, question |-> q]}
    BY <1>1, <1>6, <2>1, AppendAdds DEF Heard
  <2>3. QED
    BY <1>2, <1>3, <1>6, <2>1, <2>2 DEF NothingMissing
<1>7. QED
  BY <1>4, <1>5, <1>6 DEF ThreadShape

\* An accepted request has written nothing; an awaited one is listened to.
LEMMA MainThreadMissesNothing ==
  ASSUME Typed, OneThought, Protocol, Listening, NothingMissing, MainThread,
         UNCHANGED sessionVars
  PROVE  NothingMissing'
<1>1. UNCHANGED <<open, panel, asker, sending, requestId, draft>>
  BY DEF sessionVars, panelVars
<1>2. DraftIsOfTheQuestion'
  BY <1>1 DEF NothingMissing, DraftIsOfTheQuestion
<1>3. CASE UNCHANGED <<deliveries, posted, step, rounds>>
  BY <1>1, <1>2, <1>3 DEF NothingMissing, Awaited, Mounted, Heard
<1>4. ASSUME NEW how \in {"accepted", "refused"}, Called("start"),
             Deliver([type |-> how, question |-> Head(calls).question])
      PROVE  Heard \cup {[type |-> how, question |-> Head(calls).question]}
               = Among(deliveries') \cup Among(posted)
  <2>1. Head(calls).question \in Questions /\ deliveries \in Seq(Replies \cup Events)
    BY <1>4, FirstCall DEF Typed, TypeOK, BridgeTypeOK
  <2>2. [type |-> how, question |-> Head(calls).question] \in Replies
    BY <2>1 DEF Replies
  <2>3. QED
    BY <1>4, <2>1, <2>2, AppendAdds DEF Deliver, Heard
<1>5. CASE RefuseGeneration
  <2>1. Heard' = Heard \cup {[type |-> "refused", question |-> Head(calls).question]}
    BY <1>4, <1>5 DEF RefuseGeneration, Heard
  <2>2. UNCHANGED <<step, rounds>>
    BY <1>5 DEF RefuseGeneration, threadVars
  <2>3. QED
    BY <1>1, <1>2, <2>1, <2>2 DEF NothingMissing, Awaited, Mounted
<1>6. CASE AcceptGeneration
  <2> DEFINE q == Head(calls).question
             reply == [type |-> "accepted", question |-> q]
  <2>1. Heard' = Heard \cup {reply} /\ reply.type # "token"
    BY <1>4, <1>6 DEF AcceptGeneration, Heard
  <2>2. q \in Questions /\ Head(calls) \in Among(calls) /\ Head(calls).op = "start"
    BY <1>6, FirstCall DEF AcceptGeneration
  <2>3. /\ sending[q] = "starting" /\ rounds[q] = 0
        /\ \A m \in Heard : m.question # q
    BY <2>2 DEF Protocol
  <2>4. /\ UNCHANGED rounds
        /\ \A p \in Questions : p # q => step'[p] = step[p]
    BY <1>6 DEF AcceptGeneration, Typed, TypeOK, BridgeTypeOK
  <2> HIDE DEF q, reply
  <2>5. ASSUME NEW p \in Questions, Awaited(p)'
        PROVE  /\ Len(draft) <= rounds[p]
               /\ \A n \in Len(draft) + 1 .. rounds[p] : Token(p, n) \in Heard'
               /\ \A m \in Heard' : m.type = "token" /\ m.question = p => Len(draft) < m.number
    <3>1. CASE p = q
      <4>1. preparing
        BY <1>1, <2>3, <2>5, <3>1 DEF OneThought, Awaited, Mounted, Pending
      <4>2. draft = <<>>
        BY <4>1 DEF OneThought
      <4>3. Len(draft) = 0 /\ \A n \in Len(draft) + 1 .. 0 : FALSE
        BY <4>2
      <4>4. QED
        BY <2>1, <2>3, <3>1, <4>3
    <3>2. CASE p # q
      <4>1. Awaited(p)
        BY <1>1, <2>4, <2>5, <3>2 DEF Awaited, Mounted
      <4>2. QED
        BY <2>1, <4>1 DEF NothingMissing
    <3>3. QED
      BY <3>1, <3>2
  <2>6. QED
    BY <1>1, <1>2, <2>4, <2>5 DEF NothingMissing
<1>7. CASE Emit
  <2>1. /\ UNCHANGED <<step, rounds>>
        /\ \A p \in Questions : Awaited(p)' <=> Awaited(p)
    BY <1>1, <1>7 DEF Emit, threadVars, Awaited, Mounted
  <2>2. ASSUME NEW p \in Questions, Awaited(p)
        PROVE  Heard' = Heard
    <3>1. open /\ Mounted(p) /\ step[p] # "unborn"
      BY <2>2 DEF Awaited, Mounted
    <3>2. \A call \in Among(calls) : ~IsListening(call)
      BY <3>1 DEF Listening
    <3>3. ~ \E i \in DOMAIN calls : calls[i].op = "listen"
      BY <3>2 DEF Among, IsListening
    <3>4. sink
      BY <3>1, <3>3 DEF Listening
    <3>5. QED
      BY <1>7, <3>4, EmittingHeard
  <2>3. QED
    BY <1>1, <1>2, <2>1, <2>2 DEF NothingMissing
<1>8. QED
  BY <1>3, <1>5, <1>6, <1>7 DEF MainThread, CancelGeneration, AttachSink, threadVars

\* What is heard next of the awaited request is the token after those in the draft.
LEMMA NextTokenJoins ==
  ASSUME Typed, OneThought, Protocol, InOrder, NothingMissing, Receive,
         open, requestId # None,
         Head(deliveries) = Token(requestId, Head(deliveries).number),
         draft' = Append(draft, <<requestId, Head(deliveries).number>>),
         UNCHANGED <<open, panel, asker, sending, requestId>>
  PROVE  NothingMissing'
<1> DEFINE q == requestId
           m == Head(deliveries)
<1>1. /\ Heard = Heard' \cup {m}
      /\ \A n \in Heard' : MayFollow(m, n)
      /\ UNCHANGED <<step, rounds>>
  BY HearingTheFirst
<1>2. m \in Heard /\ m.question = q /\ m.type = "token" /\ ~IsReply(m)
  BY <1>1 DEF Token, IsReply
<1>3. q \in Questions /\ rounds[q] \in Nat /\ m.number \in Nat
  BY <1>2, HeardIsTyped, BridgeAssumption DEF Typed, TypeOK, BridgeTypeOK
<1>4. m.number <= rounds[q] /\ step[q] # "unborn"
  BY <1>2 DEF Protocol
<1>5. Awaited(q)
  BY <1>4 DEF OneThought, Awaited
<1>6. draft \in Seq(Questions \X (1 .. MaxTokens)) /\ Len(draft) \in Nat
  BY DEF Typed, TypeOK
<1>7. /\ Len(draft) < m.number
      /\ \A n \in Len(draft) + 1 .. rounds[q] : Token(q, n) \in Heard
  BY <1>2, <1>3, <1>5 DEF NothingMissing
<1> HIDE DEF q, m
<1>8. \A n : /\ Token(q, n).question = q /\ Token(q, n).type = "token"
             /\ Token(q, n).number = n
  BY DEF Token
<1>9. \A n \in Heard' : n.type = "token" /\ n.question = q => m.number < n.number
  BY <1>1, <1>2 DEF MayFollow
<1>10. m.number = Len(draft) + 1
  <2>1. SUFFICES ASSUME Len(draft) + 1 < m.number
                 PROVE  FALSE
    BY <1>3, <1>6, <1>7
  <2>2. Len(draft) + 1 \in Len(draft) + 1 .. rounds[q]
    BY <1>3, <1>4, <1>6, <2>1
  <2>3. Token(q, Len(draft) + 1) \in Heard' \cup {m}
    BY <1>1, <1>7, <2>2
  <2>4. Token(q, Len(draft) + 1) # m
    BY <1>3, <1>6, <1>8, <2>1
  <2>5. m.number < Len(draft) + 1
    BY <1>8, <1>9, <2>3, <2>4
  <2>6. QED
    BY <1>3, <1>6, <2>1, <2>5
<1>11. /\ Len(draft') = Len(draft) + 1
       /\ DOMAIN draft' = 1 .. Len(draft) + 1 /\ DOMAIN draft = 1 .. Len(draft)
       /\ \A i \in 1 .. Len(draft) : draft'[i] = draft[i]
       /\ draft'[Len(draft) + 1] = <<q, m.number>>
  BY <1>6 DEF q, m
<1>12. DraftIsOfTheQuestion'
  <2>1. \A i \in 1 .. Len(draft) : draft[i] = <<q, i>>
    BY <1>11 DEF NothingMissing, DraftIsOfTheQuestion, q
  <2>2. \A i \in 1 .. Len(draft) + 1 : i \in 1 .. Len(draft) \/ i = Len(draft) + 1
    BY <1>6
  <2>3. \A i \in DOMAIN draft' : draft'[i] = <<q, i>>
    BY <1>10, <1>11, <2>1, <2>2
  <2>4. QED
    BY <2>3 DEF DraftIsOfTheQuestion, q
<1>13. \A p \in Questions : Awaited(p)' => p = q
  BY <1>1, <1>3, <1>5, AwaitedAlone DEF Awaited, Mounted, q
<1>14. Len(draft') <= rounds[q]
  BY <1>3, <1>4, <1>6, <1>10, <1>11
<1>15. \A n \in Len(draft') + 1 .. rounds[q] : Token(q, n) \in Heard'
  <2>1. SUFFICES ASSUME NEW n \in Len(draft') + 1 .. rounds[q]
                 PROVE  Token(q, n) \in Heard'
    OBVIOUS
  <2>2. n \in Len(draft) + 1 .. rounds[q] /\ n # m.number
    BY <1>3, <1>6, <1>10, <1>11, <2>1
  <2>3. QED
    BY <1>1, <1>7, <1>8, <2>2
<1>16. \A n \in Heard' : n.type = "token" /\ n.question = q => Len(draft') < n.number
  BY <1>9, <1>10, <1>11
<1>17. QED
  BY <1>1, <1>12, <1>13, <1>14, <1>15, <1>16 DEF NothingMissing

\* Nothing is missing after what the panel hears.
LEMMA ReceiveMissesNothing ==
  ASSUME Typed, OneThought, Protocol, InOrder, NothingMissing, Receive
  PROVE  NothingMissing'
<1> DEFINE m == Head(deliveries)
<1>1. /\ Among(deliveries) = Among(deliveries') \cup {m}
      /\ Heard = Heard' \cup {m}
      /\ \A n \in Heard' : MayFollow(m, n)
      /\ UNCHANGED <<step, rounds>>
  BY HearingTheFirst
<1>2. /\ m.question \in Questions
      /\ m.type = "refused" => step[m.question] = "unborn"
      /\ m.type = "accepted" => step[m.question] # "unborn"
  <2>1. m.question \in Questions
    BY MessageShapes
  <2>2. QED
    BY <1>1, <2>1 DEF Protocol
<1>3. sending \in [Questions -> {"unasked", "preparing", "starting", "over"}]
      /\ None \notin Questions
  BY BridgeAssumption DEF Typed, TypeOK
<1>4. \A p \in Questions : \A n : /\ Token(p, n).question = p
                                  /\ Token(p, n).type = "token"
  BY DEF Token
\* Nothing but m has been taken, and m is no token of a question still awaited.
<1>5. ASSUME DraftIsOfTheQuestion',
             \A p \in Questions : Awaited(p)' => /\ Awaited(p)
                                                 /\ draft' = draft
                                                 /\ m.type # "token" \/ m.question # p
      PROVE  NothingMissing'
  <2>1. ASSUME NEW p \in Questions, Awaited(p)'
        PROVE  /\ Len(draft') <= rounds[p]
               /\ \A n \in Len(draft') + 1 .. rounds[p] : Token(p, n) \in Heard'
               /\ \A n \in Heard' : n.type = "token" /\ n.question = p => Len(draft') < n.number
    <3>1. Awaited(p) /\ draft' = draft /\ (m.type # "token" \/ m.question # p)
      BY <1>5, <2>1
    <3>2. \A n : Token(p, n) # m
      BY <1>4, <3>1
    <3>3. QED
      BY <1>1, <3>1, <3>2 DEF NothingMissing
  <2>2. QED
    BY <1>1, <1>5, <2>1 DEF NothingMissing
<1> HIDE DEF m
<1>6. CASE m.type = "accepted" /\ sending[m.question] = "starting" /\ Starts(m.question)
  <2>1. /\ sending' = [sending EXCEPT ![m.question] = "over"]
        /\ UNCHANGED <<open, panel, asker, draft>>
    BY <1>6 DEF Starts
  <2>2. CASE Mounted(m.question)
    <3>1. requestId' = m.question
      BY <1>6, <2>2 DEF Starts
    <3>2. Awaited(m.question)
      BY <1>2, <1>6, <2>2 DEF Awaited
    <3>3. preparing /\ requestId = None /\ draft = <<>>
      BY <1>2, <1>6, <2>2 DEF OneThought, Pending
    <3>4. \A p \in Questions : Awaited(p)' => p = m.question
      <4>1. SUFFICES ASSUME NEW p \in Questions, Awaited(p)', p # m.question
                     PROVE  FALSE
        OBVIOUS
      <4>2. Mounted(p) /\ sending[p] = "starting"
        BY <1>3, <2>1, <3>1, <4>1 DEF Awaited, Mounted
      <4>3. QED
        BY <1>2, <1>6, <2>2, <4>1, <4>2 DEF OneThought, Pending
    <3>5. DraftIsOfTheQuestion'
      BY <2>1, <3>3 DEF DraftIsOfTheQuestion
    <3>6. QED
      BY <1>5, <1>6, <2>1, <3>2, <3>4, <3>5
  <2>3. CASE ~Mounted(m.question)
    <3>1. requestId' = requestId
      BY <2>3, <1>6 DEF Starts
    <3>2. \A p \in Questions : Awaited(p)' => Awaited(p)
      BY <1>1, <1>2, <1>3, <2>1, <2>3, <3>1 DEF Awaited, Mounted
    <3>3. DraftIsOfTheQuestion'
      BY <2>1, <3>1 DEF NothingMissing, DraftIsOfTheQuestion
    <3>4. QED
      BY <1>5, <1>6, <2>1, <3>2, <3>3
  <2>4. QED
    BY <2>2, <2>3
<1>7. CASE m.type = "refused" /\ sending[m.question] = "starting" /\ SendFails(m.question)
  <2>1. /\ sending' = [sending EXCEPT ![m.question] = "over"]
        /\ UNCHANGED <<open, panel, asker, draft, requestId>>
    BY <1>7 DEF SendFails
  <2>2. \A p \in Questions : Awaited(p)' => Awaited(p)
    BY <1>1, <1>2, <1>3, <1>7, <2>1 DEF Awaited, Mounted
  <2>3. DraftIsOfTheQuestion'
    BY <2>1 DEF NothingMissing, DraftIsOfTheQuestion
  <2>4. QED
    BY <1>5, <1>7, <2>1, <2>2, <2>3
<1>8. CASE ~IsReply(m) /\ (~open \/ requestId # m.question) /\ UNCHANGED sessionVars
  <2>1. UNCHANGED <<open, panel, asker, draft, requestId, sending>>
    BY <1>8 DEF sessionVars, panelVars
  <2>2. \A p \in Questions : Awaited(p)' => Awaited(p)
    BY <1>1, <2>1 DEF Awaited, Mounted
  <2>3. DraftIsOfTheQuestion'
    BY <2>1 DEF NothingMissing, DraftIsOfTheQuestion
  <2>4. ~Awaited(m.question)
    <3>1. SUFFICES ASSUME Awaited(m.question) PROVE FALSE
      OBVIOUS
    <3>2. sending[m.question] = "starting" /\ step[m.question] # "unborn"
      BY <1>8, <3>1 DEF Awaited, Mounted
    <3>3. [type |-> "accepted", question |-> m.question] \in Among(deliveries)
      BY <1>2, <3>2 DEF Protocol
    <3>4. [type |-> "accepted", question |-> m.question] \in Heard'
      BY <1>1, <1>8, <3>3 DEF IsReply, Heard
    <3>5. QED
      BY <1>1, <3>4 DEF MayFollow, IsReply
  <2>5. QED
    BY <1>5, <2>1, <2>2, <2>3, <2>4
<1>9. CASE /\ open /\ requestId = m.question /\ requestId # None
           /\ m = Token(m.question, m.number)
           /\ draft' = Append(draft, <<m.question, m.number>>)
           /\ UNCHANGED <<open, panel, asker, sending, preparing, requestId, timer, endings>>
  BY <1>9, NextTokenJoins DEF m
<1>10. CASE requestId # None /\ \E how \in {"answered", "lost"} : Settle(requestId, how)
  BY <1>1, <1>10, SettledAwaitsNothing
<1>11. QED
  BY <1>6, <1>7, <1>8, <1>9, <1>10, MessageShapes DEF m

\* Every step keeps that nothing is missing.
LEMMA NothingMissingStays ==
  ASSUME Typed, OneThought, Protocol, InOrder, Listening, NothingMissing, [Next]_vars
  PROVE  NothingMissing'
<1>0. /\ sending \in [Questions -> {"unasked", "preparing", "starting", "over"}]
      /\ asker \in [Questions -> 0 .. MaxPanels] /\ panel \in 0 .. MaxPanels
      /\ None \notin Questions
  BY BridgeAssumption DEF Typed, TypeOK
<1>1. CASE MainThread /\ UNCHANGED sessionVars
  BY <1>1, MainThreadMissesNothing
<1>2. ASSUME NEW q \in Questions, Thread(q), UNCHANGED sessionVars
      PROVE  NothingMissing'
  BY <1>2, ThreadsHaveShape, ThreadsMissNothing
<1>3. CASE OpenPanel
  <2>1. \A q \in Questions : ~Mounted(q)'
    BY <1>0, <1>3, PanelsAssumption DEF OpenPanel, OneThought, Mounted
  <2>2. QED
    BY <1>3, <2>1, NoneAwaited DEF OpenPanel, Blank, Awaited
<1>4. CASE ClosePanel
  <2>1. \A q \in Questions : ~Mounted(q)'
    BY <1>4 DEF ClosePanel, Mounted
  <2>2. QED
    BY <1>4, <2>1, NoneAwaited DEF ClosePanel, Blank, Awaited
<1>5. ASSUME NEW q \in Questions, Send(q)
      PROVE  NothingMissing'
  <2>1. /\ sending' = [sending EXCEPT ![q] = "preparing"]
        /\ asker' = [asker EXCEPT ![q] = panel]
        /\ draft' = <<>> /\ requestId' = None /\ ~preparing
        /\ UNCHANGED <<open, panel>>
    BY <1>5 DEF Send, IsThinking
  <2>2. sending'[q] # "starting"
    BY <1>0, <2>1
  <2>3. \A p \in Questions : p # q => ~(Mounted(p)' /\ sending'[p] = "starting")
    BY <1>0, <2>1 DEF OneThought, Mounted, Pending
  <2>4. \A p \in Questions : ~Awaited(p)'
    BY <1>0, <2>1, <2>2, <2>3 DEF Awaited
  <2>5. QED
    BY <2>1, <2>4, NoneAwaited
<1>6. ASSUME NEW q \in Questions, step[q] = "unborn",
             \A p \in Questions : p # q => sending'[p] = sending[p],
             UNCHANGED <<open, panel, asker, requestId, draft, deliveries, posted, step, rounds>>
      PROVE  NothingMissing'
  <2>1. \A p \in Questions : Awaited(p)' => Awaited(p)
    BY <1>6 DEF Awaited, Mounted
  <2>2. DraftIsOfTheQuestion'
    BY <1>6 DEF NothingMissing, DraftIsOfTheQuestion
  <2>3. QED
    BY <1>6, <2>1, <2>2 DEF NothingMissing, Heard
<1>7. ASSUME NEW q \in Questions, Begin(q)
      PROVE  NothingMissing'
  <2>1. step[q] = "unborn"
    BY <1>7 DEF Begin, Protocol
  <2>2. QED
    BY <1>0, <1>6, <1>7, <2>1 DEF Begin, NativeUnchanged, threadVars, panelVars
<1>8. ASSUME NEW q \in Questions, ModelFails(q)
      PROVE  NothingMissing'
  <2>1. step[q] = "unborn"
    BY <1>8 DEF ModelFails, Protocol
  <2>2. QED
    BY <1>0, <1>6, <1>8, <2>1 DEF ModelFails, SendFails, bridgeVars, threadVars
<1>9. CASE Receive
  BY <1>9, ReceiveMissesNothing
<1>10. CASE Stop
  BY <1>10, SettledAwaitsNothing DEF Stop, NativeUnchanged, threadVars
<1>11. CASE TimeOut
  <2>1. requestId = timer /\ requestId # None
    BY <1>11 DEF TimeOut, OneThought
  <2>2. QED
    BY <1>11, <2>1, SettledAwaitsNothing DEF TimeOut, NativeUnchanged, threadVars
<1>12. CASE UNCHANGED vars
  BY <1>12 DEF vars, bridgeVars, threadVars, sessionVars, panelVars, NothingMissing,
               DraftIsOfTheQuestion, Awaited, Mounted, Heard
<1>13. QED
  BY <1>1, <1>2, <1>3, <1>4, <1>5, <1>7, <1>8, <1>9, <1>10, <1>11, <1>12
     DEF Next, Panel, BridgeNext

----------------------------------------------------------------------------
(* The session is sound. *)

\* Nothing has been sent, and nobody is heard.
LEMMA SessionBegins == Init => SessionInv
<1> SUFFICES ASSUME Init PROVE SessionInv
  OBVIOUS
<1> USE DEF Init, BridgeInit
<1>1. TypeOK
  <2>1. /\ <<>> \in Seq(Calls) /\ <<>> \in Seq(Replies \cup Events) /\ <<>> \in Seq(Events)
        /\ <<>> \in Seq(Questions \X (1 .. MaxTokens))
        /\ <<>> \in Seq({"answered", "tangled", "stopped", "lost", "refused"})
    OBVIOUS
  <2>2. 0 \in 0 .. MaxTokens /\ 0 \in 0 .. MaxPanels
    BY BridgeAssumption, PanelsAssumption
  <2>3. BridgeTypeOK
    BY <2>1, <2>2 DEF BridgeTypeOK, Steps
  <2>4. QED
    BY <2>1, <2>2, <2>3 DEF TypeOK
<1>2. Typed
  BY <1>1 DEF Typed
<1>3. Among(calls) = {} /\ Among(deliveries) = {} /\ Heard = {}
  BY EmptyHasNone DEF Heard
<1>4. OneThought
  BY PanelsAssumption DEF OneThought, Mounted, Pending
<1>5. Protocol
  BY <1>3 DEF Protocol
<1>6. DOMAIN deliveries = {} /\ DOMAIN posted = {} /\ DOMAIN calls = {} /\ DOMAIN draft = {}
  OBVIOUS
<1>7. InOrder
  BY <1>3, <1>6 DEF InOrder, Ordered
<1>8. Listening
  BY <1>3, <1>6 DEF Listening, Mounted
<1>9. NothingMissing
  BY <1>6 DEF NothingMissing, DraftIsOfTheQuestion, Awaited, Mounted
<1>10. QED
  BY <1>2, <1>4, <1>5, <1>7, <1>8, <1>9 DEF SessionInv

\* What every reachable state of the session keeps.
LEMMA SessionIsSound == Spec => []SessionInv
<1>1. Init => SessionInv
  BY SessionBegins
<1>2. SessionInv /\ [Next]_vars => SessionInv'
  <2>1. SUFFICES ASSUME SessionInv, [Next]_vars PROVE SessionInv'
    OBVIOUS
  <2>2. Typed /\ OneThought /\ Protocol /\ InOrder /\ Listening /\ NothingMissing
    BY <2>1 DEF SessionInv
  <2>3. Typed'
    BY <2>1, <2>2, TypesStay
  <2>4. OneThought'
    BY <2>1, <2>2, OneThoughtStays
  <2>5. Protocol'
    BY <2>1, <2>2, ProtocolStays
  <2>6. InOrder'
    BY <2>1, <2>2, InOrderStays
  <2>7. Listening'
    BY <2>1, <2>2, ListeningStays
  <2>8. NothingMissing'
    BY <2>1, <2>2, NothingMissingStays
  <2>9. QED
    BY <2>3, <2>4, <2>5, <2>6, <2>7, <2>8 DEF SessionInv
<1>3. QED
  BY <1>1, <1>2, PTL DEF Spec

\* Panel, calls, engine and events stay of their types.
THEOREM SessionTyped == Spec => []TypeOK
<1>1. SessionInv => TypeOK
  BY DEF SessionInv, Typed
<1>2. QED
  BY <1>1, SessionIsSound, PTL

\* Whatever is stopped, lost or late: what the child reads grows by the tokens of the
\* question asked, in turn, with none missing and none twice.
THEOREM DraftAlwaysOfTheQuestion == Spec => []DraftIsOfTheQuestion
<1>1. SessionInv => DraftIsOfTheQuestion
  BY DEF SessionInv, NothingMissing
<1>2. QED
  BY <1>1, SessionIsSound, PTL

\* A panel never thinks without the timer that would end it.
THEOREM ThoughtsAlwaysTimed == Spec => []ThoughtsAreTimed
<1>1. SessionInv => ThoughtsAreTimed
  BY DEF SessionInv, OneThought, ThoughtsAreTimed
<1>2. QED
  BY <1>1, SessionIsSound, PTL

\* Over threads, the main thread's queue and Dart's, a stream keeps its order, though
\* the engine's threads of several requests post into it.
THEOREM StreamsAlwaysOrdered == Spec => []StreamsAreOrdered
<1>1. SessionInv => StreamsAreOrdered
  <2>1. SUFFICES ASSUME SessionInv PROVE StreamsAreOrdered
    OBVIOUS
  <2>2. deliveries \in Seq(Replies \cup Events) /\ posted \in Seq(Replies \cup Events) /\ InOrder
    BY <2>1 DEF SessionInv, Typed, TypeOK, BridgeTypeOK
  <2> DEFINE d == Len(deliveries)
             p == Len(posted)
  <2>3. /\ d \in Nat /\ p \in Nat
        /\ DOMAIN OnItsWay = 1 .. d + p
        /\ \A i \in 1 .. d + p : OnItsWay[i] = IF i <= d THEN deliveries[i] ELSE posted[i - d]
        /\ DOMAIN deliveries = 1 .. d /\ DOMAIN posted = 1 .. p
    BY <2>2 DEF OnItsWay
  <2> HIDE DEF d, p
  <2>4. ASSUME NEW i \in 1 .. d + p, NEW j \in 1 .. d + p, i < j
        PROVE  MayFollow(OnItsWay[i], OnItsWay[j])
    <3>1. CASE j <= d
      <4>1. i \in 1 .. d /\ j \in 1 .. d
        BY <2>3, <2>4, <3>1
      <4>2. OnItsWay[i] = deliveries[i] /\ OnItsWay[j] = deliveries[j]
        BY <2>3, <2>4, <4>1
      <4>3. QED
        BY <2>2, <2>3, <2>4, <4>1, <4>2 DEF InOrder, Ordered
    <3>2. CASE i <= d /\ ~(j <= d)
      <4>1. i \in 1 .. d /\ j - d \in 1 .. p
        BY <2>3, <2>4, <3>2
      <4>2. OnItsWay[i] \in Among(deliveries) /\ OnItsWay[j] \in Among(posted)
        BY <2>3, <2>4, <3>2, <4>1 DEF Among
      <4>3. QED
        BY <2>2, <4>2 DEF InOrder
    <3>3. CASE ~(i <= d)
      <4>1. i - d \in 1 .. p /\ j - d \in 1 .. p /\ i - d < j - d /\ ~(j <= d)
        BY <2>3, <2>4, <3>3
      <4>2. OnItsWay[i] = posted[i - d] /\ OnItsWay[j] = posted[j - d]
        BY <2>3, <2>4, <3>3, <4>1
      <4>3. QED
        BY <2>2, <2>3, <4>1, <4>2 DEF InOrder, Ordered
    <3>4. QED
      BY <3>1, <3>2, <3>3
  <2>5. QED
    BY <2>3, <2>4 DEF StreamsAreOrdered, MayFollow, IsReply
<1>2. QED
  BY <1>1, SessionIsSound, PTL

----------------------------------------------------------------------------
(* The engine's mutex. *)

\* Who is in the engine holds the mutex, and who holds it is in the engine.
HoldersAreInside == \A q \in Questions : InEngine(q) <=> engineLock = q

\* A thread enters with the mutex and leaves before it gives it back.
LEMMA ThreadsHoldTheMutex ==
  ASSUME BridgeTypeOK, HoldersAreInside, NEW q \in Questions, Thread(q)
  PROVE  HoldersAreInside'
<1>0. step \in [Questions -> Steps] /\ None \notin Questions
  BY BridgeAssumption DEF BridgeTypeOK
<1> USE DEF HoldersAreInside, InEngine, At, Goes, Ends
<1>1. CASE GiveUpWithoutLibrary(q)
  BY <1>0, <1>1 DEF GiveUpWithoutLibrary
<1>2. CASE EnterEngine(q)
  BY <1>0, <1>2 DEF EnterEngine
<1>3. CASE LoadModel(q)
  BY <1>0, <1>3 DEF LoadModel
<1>4. CASE FailToLoad(q)
  BY <1>0, <1>4 DEF FailToLoad
<1>5. CASE StartStream(q)
  BY <1>0, <1>5 DEF StartStream
<1>6. CASE Generate(q)
  BY <1>0, <1>6 DEF Generate
<1>7. CASE StopGenerating(q)
  BY <1>0, <1>7 DEF StopGenerating
<1>8. CASE ClearActive(q)
  BY <1>0, <1>8 DEF ClearActive
<1>9. CASE PostOutcome(q)
  BY <1>0, <1>9 DEF PostOutcome
<1>10. CASE LeaveEngine(q)
  BY <1>0, <1>10 DEF LeaveEngine
<1>11. CASE ClearUnstarted(q)
  BY <1>0, <1>11 DEF ClearUnstarted
<1>12. CASE PostUnstarted(q)
  BY <1>0, <1>12 DEF PostUnstarted
<1>13. CASE BeginRound(q)
  BY <1>0, <1>13 DEF BeginRound
<1>14. QED
  BY <1>1, <1>2, <1>3, <1>4, <1>5, <1>6, <1>7, <1>8, <1>9, <1>10, <1>11, <1>12, <1>13
     DEF Thread

\* The mutex keeps everybody else out.
LEMMA HoldersStayInside == Spec => []HoldersAreInside
<1>1. Init => HoldersAreInside
  BY BridgeAssumption DEF Init, BridgeInit, HoldersAreInside, InEngine
<1>2. SessionInv /\ HoldersAreInside /\ [Next]_vars => HoldersAreInside'
  <2>1. SUFFICES ASSUME Typed, BridgeTypeOK, Protocol, HoldersAreInside, [Next]_vars
                 PROVE  HoldersAreInside'
    BY DEF SessionInv, Typed, TypeOK
  <2>2. ASSUME NEW q \in Questions, Thread(q)
        PROVE  HoldersAreInside'
    BY <2>1, <2>2, ThreadsHoldTheMutex
  <2>3. CASE AcceptGeneration
    <3>1. Head(calls).question \in Questions /\ step[Head(calls).question] = "unborn"
      <4>1. /\ Head(calls).question \in Questions
            /\ Head(calls) \in Among(calls) /\ Head(calls).op = "start"
        BY <2>1, <2>3, FirstCall DEF AcceptGeneration
      <4>2. QED
        BY <2>1, <4>1 DEF Protocol
    <3>2. \A q \in Questions :
            step'[q] = IF q = Head(calls).question THEN "locking" ELSE step[q]
      BY <2>1, <2>3 DEF AcceptGeneration, BridgeTypeOK
    <3>3. \A q \in Questions : InEngine(q)' <=> InEngine(q)
      BY <3>1, <3>2 DEF InEngine
    <3>4. QED
      BY <2>1, <2>3, <3>3 DEF AcceptGeneration, HoldersAreInside
  <2>4. CASE UNCHANGED <<step, engineLock>>
    BY <2>1, <2>4 DEF HoldersAreInside, InEngine
  <2>5. QED
    BY <2>1, <2>2, <2>3, <2>4
       DEF Next, Panel, BridgeNext, MainThread, RefuseGeneration, CancelGeneration,
           AttachSink, Emit, OpenPanel, ClosePanel, Send, Begin, ModelFails, Receive, Stop,
           TimeOut, NativeUnchanged, vars, bridgeVars, threadVars
<1>3. QED
  BY <1>1, <1>2, SessionIsSound, PTL DEF Spec

\* Though two requests may be under way at once, the engine works for one of them.
THEOREM EngineServesOne ==
  Spec => [](\A p, q \in Questions : InEngine(p) /\ InEngine(q) => p = q)
<1>1. HoldersAreInside => \A p, q \in Questions : InEngine(p) /\ InEngine(q) => p = q
  BY DEF HoldersAreInside
<1>2. QED
  BY <1>1, HoldersStayInside, PTL

\* Whoever holds the mutex is in the engine, on its way out again: each end of a request,
\* its failures too, gives the mutex back.  That it gets there is ThreadsFinish.
THEOREM MutexIsGivenBack ==
  Spec => [](engineLock # None => engineLock \in Questions /\ InEngine(engineLock))
<1>1. TypeOK /\ HoldersAreInside
        => (engineLock # None => engineLock \in Questions /\ InEngine(engineLock))
  BY DEF TypeOK, BridgeTypeOK, HoldersAreInside
<1>2. QED
  BY <1>1, HoldersStayInside, SessionTyped, PTL

\* A request generates with the flag set: it begins no further round, and goes on with
\* the flag set or ends.  Only the round it is in may still write a token.
StopsForGood(q) ==
  step[q] \in {"generating", "drawing"} /\ cancelRequested =>
    \/ /\ step'[q] \in {step[q], "generating"} /\ cancelRequested'
       /\ step'[q] = step[q] => rounds'[q] = rounds[q]
    \/ /\ step'[q] = "ending" /\ rounds'[q] = rounds[q]
       /\ step[q] = "generating" => outcome'[q] \in {"cancelled", "completed"}

\* The other threads wait for the mutex before they touch the flag.
LEMMA ThreadsLeaveTheFlag ==
  ASSUME BridgeTypeOK, HoldersAreInside, NEW q \in Questions, NEW p \in Questions, Thread(p)
  PROVE  StopsForGood(q)
<1> SUFFICES ASSUME step[q] \in {"generating", "drawing"}, cancelRequested
             PROVE  \/ /\ step'[q] \in {step[q], "generating"} /\ cancelRequested'
                       /\ step'[q] = step[q] => rounds'[q] = rounds[q]
                    \/ /\ step'[q] = "ending" /\ rounds'[q] = rounds[q]
                       /\ step[q] = "generating" => outcome'[q] \in {"cancelled", "completed"}
  BY DEF StopsForGood
<1>1. /\ step \in [Questions -> Steps] /\ rounds \in [Questions -> 0 .. MaxTokens]
      /\ outcome \in [Questions -> Outcomes \cup {None}]
      /\ None \notin Questions /\ engineLock = q
      /\ \A r \in Questions : InEngine(r) => r = q
  BY BridgeAssumption DEF BridgeTypeOK, HoldersAreInside, InEngine
<1>2. CASE p = q
  <2>1. StopGenerating(q) \/ Generate(q)
    BY <1>2
       DEF Thread, GiveUpWithoutLibrary, EnterEngine, LoadModel, FailToLoad, StartStream,
           BeginRound, ClearActive, PostOutcome, LeaveEngine, ClearUnstarted, PostUnstarted,
           At
  <2>2. QED
    BY <1>1, <2>1 DEF StopGenerating, Generate, Ends, Goes, At
<1>3. CASE p # q
  <2>1. step[p] \in {"locking", "unstarted", "unstartedCleared"}
    BY <1>1, <1>3
       DEF Thread, GiveUpWithoutLibrary, EnterEngine, LoadModel, FailToLoad, StartStream,
           BeginRound, Generate, StopGenerating, ClearActive, PostOutcome, LeaveEngine,
           ClearUnstarted, PostUnstarted, At, InEngine
  <2>2. GiveUpWithoutLibrary(p) \/ ClearUnstarted(p) \/ PostUnstarted(p)
    BY <1>1, <2>1
       DEF Thread, EnterEngine, LoadModel, FailToLoad, StartStream, BeginRound, Generate,
           StopGenerating, ClearActive, PostOutcome, LeaveEngine, At
  <2>3. UNCHANGED <<rounds, cancelRequested>> /\ step'[q] = step[q]
    BY <1>1, <1>3, <2>2 DEF GiveUpWithoutLibrary, ClearUnstarted, PostUnstarted, Goes
  <2>4. QED
    BY <2>3
<1>4. QED
  BY <1>2, <1>3

\* talk_stop loses a Stop that comes while the model loads.  From the first round on none is
\* lost: stream_completion_locked reads the flag at the head of each round, and whoever else
\* would clear it waits for the mutex.
THEOREM StopIsKeptWhileGenerating ==
  Spec => [][\A q \in Questions : StopsForGood(q)]_vars
<1>1. SessionInv /\ HoldersAreInside /\ [Next]_vars
        => [\A q \in Questions : StopsForGood(q)]_vars
  <2>1. SUFFICES ASSUME Typed, BridgeTypeOK, Protocol, HoldersAreInside, Next,
                        NEW q \in Questions
                 PROVE  StopsForGood(q)
    BY DEF SessionInv, Typed, TypeOK
  <2>2. ASSUME NEW p \in Questions, Thread(p)
        PROVE  StopsForGood(q)
    BY <2>1, <2>2, ThreadsLeaveTheFlag
  <2>3. CASE AcceptGeneration
    <3>1. /\ Head(calls).question \in Questions
          /\ Head(calls) \in Among(calls) /\ Head(calls).op = "start"
      BY <2>1, <2>3, FirstCall DEF AcceptGeneration
    <3>2. step[Head(calls).question] = "unborn"
      BY <2>1, <3>1 DEF Protocol
    <3>3. step[q] \in {"generating", "drawing"} => step'[q] = step[q]
      BY <2>1, <2>3, <3>2 DEF AcceptGeneration, BridgeTypeOK
    <3>4. QED
      BY <2>3, <3>3 DEF AcceptGeneration, StopsForGood
  <2>4. CASE CancelGeneration
    <3>1. UNCHANGED <<step, rounds>> /\ (cancelRequested => cancelRequested')
      BY <2>4 DEF CancelGeneration, threadVars
    <3>2. QED
      BY <2>1, <3>1 DEF StopsForGood
  <2>5. CASE UNCHANGED <<step, rounds, cancelRequested>>
    BY <2>1, <2>5 DEF StopsForGood
  <2>6. QED
    BY <2>1, <2>2, <2>3, <2>4, <2>5
       DEF Next, Panel, BridgeNext, MainThread, RefuseGeneration,
           AttachSink, Emit, OpenPanel, ClosePanel, Send, Begin, ModelFails, Receive, Stop,
           TimeOut, NativeUnchanged, vars, bridgeVars, threadVars
<1>2. QED
  BY <1>1, HoldersStayInside, SessionIsSound, PTL DEF Spec

\* Who the bridge takes for active has a thread that has not yet said that it is done.
BusyHasAThread ==
  active # None =>
    step[active] \in {"locking", "loading", "loaded", "generating", "drawing", "ending",
                      "unstarted"}

\* A thread that goes on from one of these is the active one's until it clears the field.
LEMMA ThreadsKeepTheBridgeHonest ==
  ASSUME BridgeTypeOK, BusyHasAThread, NEW q \in Questions, Thread(q)
  PROVE  BusyHasAThread'
<1>0. /\ step \in [Questions -> Steps] /\ active \in Questions \cup {None}
      /\ None \notin Questions
  BY BridgeAssumption DEF BridgeTypeOK
<1> USE DEF BusyHasAThread, At, Goes, Ends
<1>1. CASE GiveUpWithoutLibrary(q) \/ EnterEngine(q) \/ LoadModel(q)
  BY <1>0, <1>1 DEF GiveUpWithoutLibrary, EnterEngine, LoadModel
<1>2. CASE FailToLoad(q) \/ StartStream(q)
  BY <1>0, <1>2 DEF FailToLoad, StartStream
<1>3. CASE BeginRound(q) \/ Generate(q) \/ StopGenerating(q)
  BY <1>0, <1>3 DEF BeginRound, Generate, StopGenerating
<1>4. CASE ClearActive(q) \/ ClearUnstarted(q)
  BY <1>0, <1>4 DEF ClearActive, ClearUnstarted
<1>5. CASE PostOutcome(q) \/ LeaveEngine(q) \/ PostUnstarted(q)
  BY <1>0, <1>5 DEF PostOutcome, LeaveEngine, PostUnstarted
<1>6. QED
  BY <1>1, <1>2, <1>3, <1>4, <1>5 DEF Thread

\* The bridge never refuses the next question on account of a request that is over: whatever
\* ended it, its thread clears activeRequestId before it is done.  That it gets there is
\* BridgeIsFreed.
THEOREM BusyBridgeIsAtWork == Spec => []BusyHasAThread
<1>1. Init => BusyHasAThread
  BY DEF Init, BridgeInit, BusyHasAThread
<1>2. SessionInv /\ BusyHasAThread /\ [Next]_vars => BusyHasAThread'
  <2>1. SUFFICES ASSUME Typed, BridgeTypeOK, BusyHasAThread, [Next]_vars
                 PROVE  BusyHasAThread'
    BY DEF SessionInv, Typed, TypeOK
  <2>2. ASSUME NEW q \in Questions, Thread(q)
        PROVE  BusyHasAThread'
    BY <2>1, <2>2, ThreadsKeepTheBridgeHonest
  <2>3. CASE AcceptGeneration
    <3>1. Head(calls).question \in Questions
      BY <2>1, <2>3, FirstCall DEF AcceptGeneration
    <3>2. QED
      BY <2>1, <2>3, <3>1 DEF AcceptGeneration, BridgeTypeOK, BusyHasAThread
  <2>4. CASE UNCHANGED <<step, active>>
    BY <2>1, <2>4 DEF BusyHasAThread
  <2>5. QED
    BY <2>1, <2>2, <2>3, <2>4
       DEF Next, Panel, BridgeNext, MainThread, RefuseGeneration, CancelGeneration,
           AttachSink, Emit, OpenPanel, ClosePanel, Send, Begin, ModelFails, Receive, Stop,
           TimeOut, NativeUnchanged, vars, bridgeVars, threadVars
<1>3. QED
  BY <1>1, <1>2, SessionIsSound, PTL DEF Spec

\* A request that was sent is asked for still, or answered.
AnswersAreOnTheirWay ==
  \A q \in Questions : sending[q] = "starting" =>
    \/ \E call \in Among(calls) : IsStart(call, q)
    \/ \E m \in Among(deliveries) : IsReply(m) /\ m.question = q

\* What only adds to the calls or to the deliveries loses no answer.
LEMMA AddingKeepsAnswers ==
  ASSUME AnswersAreOnTheirWay, UNCHANGED sending,
         Among(calls) \subseteq Among(calls'), Among(deliveries) \subseteq Among(deliveries')
  PROVE  AnswersAreOnTheirWay'
BY DEF AnswersAreOnTheirWay

\* The main thread answers the call that it takes, and drops no other.
LEMMA MainThreadAnswers ==
  ASSUME Typed, AnswersAreOnTheirWay, MainThread, UNCHANGED sending
  PROVE  AnswersAreOnTheirWay'
<1>0. deliveries \in Seq(Replies \cup Events) /\ posted \in Seq(Events)
  BY DEF Typed, TypeOK, BridgeTypeOK
<1>1. ASSUME NEW how \in {"accepted", "refused"}, Called("start"),
             Deliver([type |-> how, question |-> Head(calls).question])
      PROVE  AnswersAreOnTheirWay'
  <2>1. Head(calls).question \in Questions /\ Among(calls) = Among(calls') \cup {Head(calls)}
    BY <1>1, FirstCall
  <2> DEFINE reply == [type |-> how, question |-> Head(calls).question]
  <2>2. reply \in Replies \cup Events
    BY <2>1 DEF Replies
  <2>3. Among(deliveries') = Among(deliveries) \cup {reply}
    BY <1>0, <1>1, <2>2, AppendAdds DEF Deliver
  <2>4. reply \in Among(deliveries') /\ IsReply(reply)
        /\ reply.question = Head(calls).question
    BY <2>3 DEF IsReply
  <2> HIDE DEF reply
  <2>5. QED
    BY <2>1, <2>3, <2>4 DEF AnswersAreOnTheirWay, IsStart
<1>2. CASE CancelGeneration \/ AttachSink
  <2>1. PICK op \in {"cancel", "listen", "unlisten"} : Called(op)
    BY <1>2 DEF CancelGeneration, AttachSink
  <2>2. Among(calls) = Among(calls') \cup {Head(calls)} /\ Head(calls).op # "start"
    BY <2>1, FirstCall
  <2>3. UNCHANGED deliveries
    BY <1>2 DEF CancelGeneration, AttachSink
  <2>4. QED
    BY <2>2, <2>3 DEF AnswersAreOnTheirWay, IsStart
<1>3. CASE Emit
  <2>1. Head(posted) \in Replies \cup Events
    BY <1>0, <1>3, TailDrops DEF Emit
  <2>2. Among(deliveries) \subseteq Among(deliveries')
    BY <1>0, <1>3, <2>1, AppendAdds DEF Emit
  <2>3. QED
    BY <1>3, <2>2, AddingKeepsAnswers DEF Emit
<1>4. QED
  BY <1>1, <1>2, <1>3 DEF MainThread, RefuseGeneration, AcceptGeneration

\* A reply ends the wait of its own question only.
LEMMA ReceivingKeepsAnswers ==
  ASSUME Typed, Protocol, InOrder, AnswersAreOnTheirWay, Receive
  PROVE  AnswersAreOnTheirWay'
<1> DEFINE m == Head(deliveries)
<1>1. Among(deliveries) = Among(deliveries') \cup {m} /\ UNCHANGED calls
  BY HearingTheFirst
<1>2. /\ m.question \in Questions
      /\ sending \in [Questions -> {"unasked", "preparing", "starting", "over"}]
  BY MessageShapes DEF Typed, TypeOK
<1>3. \/ IsReply(m) /\ sending' = [sending EXCEPT ![m.question] = "over"]
      \/ ~IsReply(m) /\ UNCHANGED sending
  BY MessageShapes DEF Starts, SendFails, Settle, sessionVars, IsReply
<1> HIDE DEF m
<1>4. QED
  BY <1>1, <1>2, <1>3 DEF AnswersAreOnTheirWay

\* No wait for the bridge is in vain: while _send awaits begin, its call is before the
\* bridge or the reply to it is on its way back, however many panels have come and gone
\* since.  That the wait ends is a part of TurnsEnd.
THEOREM NoAnswerIsLost == Spec => []AnswersAreOnTheirWay
<1>1. Init => AnswersAreOnTheirWay
  BY DEF Init, AnswersAreOnTheirWay
<1>2. SessionInv /\ AnswersAreOnTheirWay /\ [Next]_vars => AnswersAreOnTheirWay'
  <2>1. SUFFICES ASSUME Typed, Protocol, InOrder, AnswersAreOnTheirWay, [Next]_vars
                 PROVE  AnswersAreOnTheirWay'
    BY DEF SessionInv
  <2>2. /\ sending \in [Questions -> {"unasked", "preparing", "starting", "over"}]
        /\ requestId \in Questions \cup {None}
        /\ timer \in Questions \cup {None}
    BY <2>1 DEF Typed, TypeOK
  <2>3. CASE MainThread /\ UNCHANGED sessionVars
    BY <2>1, <2>3, MainThreadAnswers DEF sessionVars
  <2>4. ASSUME NEW q \in Questions, Thread(q), UNCHANGED sessionVars
        PROVE  AnswersAreOnTheirWay'
    BY <2>1, <2>4, ThreadsHaveShape, AddingKeepsAnswers DEF ThreadShape, sessionVars
  <2>5. CASE Receive
    BY <2>1, <2>5, ReceivingKeepsAnswers
  <2>6. ASSUME NEW call \in Calls, Call(call), NativeUnchanged, UNCHANGED sending
        PROVE  AnswersAreOnTheirWay'
    BY <2>1, <2>6, CallJoins, AddingKeepsAnswers DEF NativeUnchanged
  <2>7. CASE OpenPanel \/ ClosePanel
    <3>1. [op |-> "listen"] \in Calls /\ [op |-> "unlisten"] \in Calls
      BY DEF Calls
    <3>2. QED
      BY <2>6, <2>7, <3>1 DEF OpenPanel, ClosePanel
  <2>8. ASSUME NEW q \in Questions, Begin(q)
        PROVE  AnswersAreOnTheirWay'
    <3> DEFINE start == [op |-> "start", question |-> q]
    <3>1. start \in Calls /\ IsStart(start, q)
      BY DEF Calls, IsStart
    <3>2. Among(calls') = Among(calls) \cup {start} /\ UNCHANGED deliveries
      BY <2>1, <2>8, <3>1, CallJoins DEF Begin, NativeUnchanged
    <3>3. sending' = [sending EXCEPT ![q] = "starting"]
      BY <2>8 DEF Begin
    <3> HIDE DEF start
    <3>4. QED
      BY <2>1, <2>2, <3>1, <3>2, <3>3 DEF AnswersAreOnTheirWay
  <2>9. ASSUME NEW q \in Questions, Send(q) \/ ModelFails(q)
        PROVE  AnswersAreOnTheirWay'
    <3>1. /\ UNCHANGED <<calls, deliveries>>
          /\ \A p \in Questions : sending'[p] = "starting" => sending[p] = "starting"
      BY <2>2, <2>9 DEF Send, ModelFails, SendFails, bridgeVars
    <3>2. QED
      BY <2>1, <3>1 DEF AnswersAreOnTheirWay
  <2>10. CASE Stop
    <3>1. [op |-> "cancel", question |-> requestId] \in Calls
      BY <2>2, <2>10 DEF Stop, Calls
    <3>2. QED
      BY <2>6, <2>10, <3>1 DEF Stop, Settle
  <2>11. CASE TimeOut
    <3>1. CASE requestId = timer
      <4>1. [op |-> "cancel", question |-> requestId] \in Calls
        BY <2>2, <2>11, <3>1 DEF TimeOut, Calls
      <4>2. QED
        BY <2>6, <2>11, <3>1, <4>1 DEF TimeOut, Settle
    <3>2. CASE requestId # timer
      BY <2>1, <2>11, <3>2, AddingKeepsAnswers DEF TimeOut, NativeUnchanged
    <3>3. QED
      BY <3>1, <3>2
  <2>12. CASE UNCHANGED vars
    BY <2>1, <2>12, AddingKeepsAnswers DEF vars, bridgeVars, sessionVars
  <2>13. QED
    BY <2>1, <2>3, <2>4, <2>5, <2>7, <2>8, <2>9, <2>10, <2>11, <2>12
       DEF Next, Panel, BridgeNext
<1>3. QED
  BY <1>1, <1>2, SessionIsSound, PTL DEF Spec

----------------------------------------------------------------------------
(* The session is a conversation of TalkTurns. *)

\* What the panel talks about is one question, however it is chosen.
OneTopic ==
  /\ requestId # None => Talking = requestId
  /\ \A q \in Questions : Mounted(q) /\ Pending(q) => Talking = q
  /\ requestId = None /\ ~preparing => Talking = None
  /\ requestId = None /\ preparing => /\ Talking \in Questions
                                      /\ Mounted(Talking) /\ Pending(Talking)

\* A sound session talks about one question at most.
LEMMA OneTopicAtATime == SessionInv => OneTopic
<1> SUFFICES ASSUME SessionInv PROVE OneTopic
  OBVIOUS
<1>1. OneThought
  BY DEF SessionInv
<1>2. requestId = None /\ preparing =>
        /\ Talking \in Questions
        /\ Mounted(Talking) /\ Pending(Talking)
  BY <1>1 DEF OneThought, Talking, Pending
<1>3. requestId # None => Talking = requestId
  BY DEF Talking
<1>4. requestId = None /\ ~preparing => Talking = None
  BY DEF Talking
<1>5. \A q \in Questions : Mounted(q) /\ Pending(q) => Talking = q
  BY <1>1, <1>2 DEF OneThought
<1>6. QED
  BY <1>2, <1>3, <1>4, <1>5 DEF OneTopic

\* A step that ends no thought and begins none.
LEMMA TopicStays ==
  ASSUME OneTopic, OneTopic', UNCHANGED <<requestId, preparing>>,
         \A q \in Questions : Mounted(q) /\ Pending(q) => Mounted(q)' /\ Pending(q)'
  PROVE  Talking' = Talking
BY DEF OneTopic

\* A settled request ends the conversation about it.
LEMMA SettlingEndsTheTurn ==
  ASSUME SessionInv, OneTopic, OneTopic', requestId # None,
         NEW how \in {"answered", "tangled", "stopped", "lost"}, Settle(requestId, how)
  PROVE  Turns!End
<1>1. ~preparing /\ requestId' = None /\ preparing' = preparing
  BY DEF SessionInv, OneThought, Settle
<1>2. Talking = requestId /\ Talking' = None
  BY <1>1 DEF OneTopic
<1>3. endings' = [endings EXCEPT ![Talking] = Append(@, how)]
  BY <1>2 DEF Settle, Ended
<1>4. QED
  BY <1>2, <1>3 DEF Turns!End, Turns!Endings

\* A failure ends it too, if the panel of the question is still there.
LEMMA FailingEndsTheTurn ==
  ASSUME SessionInv, OneTopic, OneTopic', NEW q \in Questions, Pending(q), SendFails(q)
  PROVE  Turns!End \/ UNCHANGED <<Talking, endings>>
<1>1. /\ sending \in [Questions -> {"unasked", "preparing", "starting", "over"}]
      /\ None \notin Questions
      /\ OneThought
  BY BridgeAssumption DEF SessionInv, Typed, TypeOK
<1>2. sending' = [sending EXCEPT ![q] = "over"] /\ UNCHANGED <<open, panel, asker, requestId>>
  BY DEF SendFails
<1>3. CASE Mounted(q)
  <2>1. preparing /\ requestId = None /\ ~preparing' /\ requestId' = None
    BY <1>1, <1>2, <1>3 DEF OneThought, SendFails
  <2>2. Talking = q /\ Talking' = None
    BY <1>3, <2>1 DEF OneTopic
  <2>3. endings' = [endings EXCEPT ![Talking] = Append(@, "refused")]
    BY <1>3, <2>2 DEF SendFails, Ended
  <2>4. QED
    BY <1>1, <2>2, <2>3 DEF Turns!End, Turns!Endings
<1>4. CASE ~Mounted(q)
  <2>1. UNCHANGED <<preparing, endings>>
    BY <1>4 DEF SendFails
  <2>2. \A p \in Questions : Mounted(p) /\ Pending(p) => Mounted(p)' /\ Pending(p)'
    BY <1>1, <1>2, <1>4 DEF Mounted, Pending
  <2>3. QED
    BY <1>2, <2>1, <2>2, TopicStays
<1>5. QED
  BY <1>3, <1>4

\* Every step is one of the conversation or none.
LEMMA StepsAreTurns ==
  ASSUME SessionInv, OneTopic, OneTopic', [Next]_vars
  PROVE  [Turns!Next]_Turns!turnVars
<1>0. /\ Typed /\ OneThought /\ Protocol
      /\ sending \in [Questions -> {"unasked", "preparing", "starting", "over"}]
      /\ asker \in [Questions -> 0 .. MaxPanels]
      /\ None \notin Questions
  BY BridgeAssumption DEF SessionInv, Typed, TypeOK
<1> USE DEF Turns!turnVars
<1>1. CASE UNCHANGED sessionVars
  <2>1. \A q \in Questions : Mounted(q) /\ Pending(q) => Mounted(q)' /\ Pending(q)'
    BY <1>1 DEF sessionVars, panelVars, Mounted, Pending
  <2>2. QED
    BY <1>1, <2>1, TopicStays DEF sessionVars, panelVars
<1>2. CASE OpenPanel \/ ClosePanel
  <2>1. requestId' = None /\ ~preparing' /\ UNCHANGED endings
    BY <1>2 DEF OpenPanel, ClosePanel, Blank
  <2>2. Talking' = None
    BY <2>1 DEF OneTopic
  <2>3. QED
    BY <2>1, <2>2 DEF Turns!Next, Turns!Leave
<1>3. ASSUME NEW q \in Questions, Send(q)
      PROVE  Turns!Ask(q)
  <2>1. /\ sending[q] = "unasked" /\ sending' = [sending EXCEPT ![q] = "preparing"]
        /\ asker' = [asker EXCEPT ![q] = panel]
        /\ open /\ requestId = None /\ ~preparing
        /\ UNCHANGED <<open, panel, endings>>
    BY <1>3 DEF Send, IsThinking
  <2>2. Talking = None /\ endings[q] = <<>>
    BY <1>0, <2>1 DEF OneTopic, OneThought
  <2>3. Mounted(q)' /\ Pending(q)'
    BY <1>0, <2>1 DEF Mounted, Pending
  <2>4. Talking' = q
    BY <2>3 DEF OneTopic
  <2>5. QED
    BY <2>1, <2>2, <2>4 DEF Turns!Ask
<1>4. ASSUME NEW q \in Questions, Begin(q)
      PROVE  UNCHANGED <<Talking, endings>>
  <2>1. \A p \in Questions : Mounted(p) /\ Pending(p) => Mounted(p)' /\ Pending(p)'
    BY <1>0, <1>4 DEF Begin, panelVars, Mounted, Pending
  <2>2. QED
    BY <1>4, <2>1, TopicStays DEF Begin, panelVars
<1>5. ASSUME NEW q \in Questions, ModelFails(q)
      PROVE  Turns!End \/ UNCHANGED <<Talking, endings>>
  BY <1>5, FailingEndsTheTurn DEF ModelFails, Pending
<1>6. CASE Receive
  <2> DEFINE m == Head(deliveries)
  <2>1. m.question \in Questions
    BY <1>0, <1>6, MessageShapes
  <2>2. CASE m.type = "refused" /\ sending[m.question] = "starting" /\ SendFails(m.question)
    BY <2>1, <2>2, FailingEndsTheTurn DEF Pending, Turns!Next
  <2>3. CASE sending[m.question] = "starting" /\ Starts(m.question)
    <3>1. /\ sending' = [sending EXCEPT ![m.question] = "over"]
          /\ UNCHANGED <<open, panel, asker, endings>>
      BY <2>3 DEF Starts
    <3>2. CASE Mounted(m.question)
      <4>1. Talking = m.question
        BY <2>1, <2>3, <3>2 DEF OneTopic, Pending
      <4>2. requestId' = m.question
        BY <2>3, <3>2 DEF Starts
      <4>3. Talking' = m.question
        BY <1>0, <2>1, <4>2 DEF OneTopic
      <4>4. QED
        BY <3>1, <4>1, <4>3
    <3>3. CASE ~Mounted(m.question)
      <4>1. UNCHANGED <<requestId, preparing>>
        BY <2>3, <3>3 DEF Starts
      <4>2. \A p \in Questions : Mounted(p) /\ Pending(p) => Mounted(p)' /\ Pending(p)'
        BY <1>0, <3>1, <3>3 DEF Mounted, Pending
      <4>3. QED
        BY <3>1, <4>1, <4>2, TopicStays
    <3>4. QED
      BY <3>2, <3>3
  <2>4. CASE UNCHANGED <<open, panel, asker, sending, preparing, requestId, timer, endings>>
    <3>1. \A p \in Questions : Mounted(p) /\ Pending(p) => Mounted(p)' /\ Pending(p)'
      BY <2>4 DEF Mounted, Pending
    <3>2. QED
      BY <2>4, <3>1, TopicStays
  <2>5. CASE requestId # None /\ \E how \in {"answered", "lost"} : Settle(requestId, how)
    BY <2>5, SettlingEndsTheTurn DEF Turns!Next
  <2> HIDE DEF m
  <2>6. QED
    BY <1>0, <1>1, <1>6, <2>2, <2>3, <2>4, <2>5, MessageShapes DEF m
<1>7. CASE Stop
  BY <1>7, SettlingEndsTheTurn DEF Stop, Turns!Next
<1>8. CASE TimeOut
  <2>1. requestId = timer /\ requestId # None
    BY <1>0, <1>8 DEF TimeOut, OneThought
  <2>2. QED
    BY <1>8, <2>1, SettlingEndsTheTurn DEF TimeOut, Turns!Next
<1>9. CASE UNCHANGED vars
  BY <1>1, <1>9 DEF vars
<1>10. QED
  BY <1>1, <1>2, <1>3, <1>4, <1>5, <1>6, <1>7, <1>8, <1>9 DEF Next, Panel, Turns!Next

\* Under the queues, threads, timers and panels the child has the conversation of
\* TalkTurns: one question at a time, and one ending of it.
THEOREM SessionImplementsTurns == Spec => TurnsSpec
<1>1. Init => Turns!Init
  BY DEF Init, Turns!Init, Talking
<1>2. SessionInv => OneTopic
  BY OneTopicAtATime
<1>3. SessionInv /\ OneTopic /\ OneTopic' /\ [Next]_vars => [Turns!Next]_Turns!turnVars
  BY StepsAreTurns
<1>4. QED
  BY <1>1, <1>2, <1>3, SessionIsSound, PTL DEF Spec, TurnsSpec, Turns!Spec

\* However often the child asks, stops, waits or leaves, no question is ended twice, and
\* the one thought about is not ended yet.
THEOREM QuestionsEndOnce == Spec => []Turns!OneEndingEach
<1>1. SessionInv => Turns!OneEndingEach
  <2>1. SUFFICES ASSUME SessionInv, OneTopic, NEW q \in Questions
                 PROVE  Len(endings[q]) <= IF q = Talking THEN 0 ELSE 1
    BY OneTopicAtATime DEF Turns!OneEndingEach
  <2>2. OneThought /\ None \notin Questions
    BY <2>1, BridgeAssumption DEF SessionInv
  <2>3. CASE q = Talking
    <3>1. endings[q] = <<>>
      BY <2>1, <2>2, <2>3 DEF OneTopic, OneThought, Pending
    <3>2. QED
      BY <2>3, <3>1
  <2>4. CASE q # Talking
    BY <2>2, <2>4 DEF OneThought
  <2>5. QED
    BY <2>3, <2>4
<1>2. QED
  BY <1>1, SessionIsSound, PTL

=============================================================================
