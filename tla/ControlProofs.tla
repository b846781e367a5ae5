--------------------------- MODULE ControlProofs ----------------------------
(***************************************************************************)
(* Safety of ControlPlane for every number of HTTP tasks, every capacity   *)
(* of EVENT_CHAN and every combination of hazards.                         *)
(***************************************************************************)
EXTENDS ControlPlane, SequenceTheorems, TLAPS

---------------------------------------------------------------------------
\* The inductive invariant.

\* A request that asks was made by a client that asks such questions.
QuestionsAreAsked ==
    \A t \in Asking : req[t].op \in Questions \cap Asks[t]

\* What event_handler_task would answer now has been observed.
AnswerObserved == \A t \in Asking : Answer(SignalOf(t)) \in seen[t]

CInv ==
    /\ TypeOK
    /\ QuestionsAreAsked
    /\ AnswerObserved
    /\ AnswersAreFresh

\* The steps of Next that power the device up or down, those of a route, and
\* those of the radio.
PowerStep == Boot \/ PowerLoss \/ PowerLossWhileSaving
TaskStep(t) == Order(t) \/ Ask(t) \/ Send(t) \/ SendQuestion(t) \/ Poll(t) \/ Timeout(t)

---------------------------------------------------------------------------

LEMMA InitCInv == Init => CInv
<1> SUFFICES ASSUME Init PROVE CInv
    OBVIOUS
<1>1. Asking = {}
    BY DEF Init, Asking
<1>2. NoRequest \in [op : Questions \cup Orders, cfg : Contents]
    BY DEF NoRequest, Questions, Contents
<1>3. TypeOK
    <2>1. chan \in Seq([cmd : Commands, cfg : Contents]) /\ Len(chan) <= Capacity
        BY ControlAssumption DEF Init
    <2>2. QED
        BY <2>1, <1>2 DEF Init, TypeOK, Waiting, Contents
<1>4. QED
    BY <1>1, <1>3 DEF CInv, QuestionsAreAsked, AnswerObserved, AnswersAreFresh

LEMMA BlankCInv ==
    ASSUME TypeOK, Blank, on' \in BOOLEAN, flash' \in Contents, config' \in Contents,
           chan' \in Seq([cmd : Commands, cfg : Contents]), Len(chan') <= Capacity
    PROVE  CInv'
<1>1. Asking' = {}
    BY DEF Blank, Asking
<1>2. NoRequest \in [op : Questions \cup Orders, cfg : Contents]
    BY DEF NoRequest, Questions, Contents
<1>3. TypeOK'
    BY <1>2 DEF Blank, TypeOK, Waiting, Contents
<1>4. QED
    BY <1>1, <1>3 DEF CInv, QuestionsAreAsked, AnswerObserved, AnswersAreFresh

---------------------------------------------------------------------------
\* EVENT_CHAN

LEMMA AppendWithin ==
    ASSUME NEW S, NEW q \in Seq(S), NEW e \in S, NEW n \in Nat, Len(q) < n
    PROVE  Append(q, e) \in Seq(S) /\ Len(Append(q, e)) <= n
BY AppendProperties, LenProperties

LEMMA SingletonWithin ==
    ASSUME NEW S, NEW e \in S, NEW n \in Nat \ {0}
    PROVE  <<e>> \in Seq(S) /\ Len(<<e>>) <= n
OBVIOUS

LEMMA TailWithin ==
    ASSUME NEW S, NEW q \in Seq(S), q # <<>>, NEW n \in Nat, Len(q) <= n
    PROVE  Head(q) \in S /\ Tail(q) \in Seq(S) /\ Len(Tail(q)) <= n
BY HeadTailProperties, LenProperties

LEMMA SendType ==
    ASSUME TypeOK, NEW c \in [cmd : Commands, cfg : Contents], Len(chan) < Capacity,
           chan' = Append(chan, c)
    PROVE  chan' \in Seq([cmd : Commands, cfg : Contents]) /\ Len(chan') <= Capacity
BY AppendWithin, ControlAssumption DEF TypeOK

LEMMA ReceiveType ==
    ASSUME TypeOK, NEW cmd, Receive(cmd)
    PROVE  /\ chan' \in Seq([cmd : Commands, cfg : Contents]) /\ Len(chan') <= Capacity
           /\ Head(chan) \in [cmd : Commands, cfg : Contents]
BY TailWithin, ControlAssumption DEF TypeOK, Receive

LEMMA CommandType ==
    ASSUME TypeOK, NEW t \in Tasks, pc[t] \in SendPhases
    PROVE  Command(t) \in [cmd : Commands, cfg : Contents]
BY DEF TypeOK, SendPhases, Command, Question, Event, Commands, Contents

---------------------------------------------------------------------------
\* Power

LEMMA PowerStepCInv == ASSUME CInv, PowerStep PROVE CInv'
<1>1. CASE Boot
    <2>1. chan' \in Seq([cmd : Commands, cfg : Contents]) /\ Len(chan') <= Capacity
        <3>1. Event("Connect", NoConfig) \in [cmd : Commands, cfg : Contents]
            BY DEF Event, Commands, Contents
        <3>2. CASE flash = NoConfig
            BY <1>1, <3>2, ControlAssumption DEF Boot
        <3>3. CASE flash # NoConfig
            BY <1>1, <3>3, <3>1, SingletonWithin, ControlAssumption DEF Boot
        <3>4. QED
            BY <3>2, <3>3
    <2>2. QED
        BY <1>1, <2>1, BlankCInv DEF Boot, CInv, TypeOK
<1>2. ASSUME chan' = <<>>
      PROVE  chan' \in Seq([cmd : Commands, cfg : Contents]) /\ Len(chan') <= Capacity
    BY <1>2, ControlAssumption
<1>3. CASE PowerLoss
    BY <1>2, <1>3, BlankCInv DEF PowerLoss, CInv, TypeOK, Contents
<1>4. CASE PowerLossWhileSaving
    <2>1. flash' \in Contents
        BY <1>4, ControlAssumption DEF PowerLossWhileSaving, Contents
    <2>2. QED
        BY <1>2, <1>4, <2>1, BlankCInv DEF PowerLossWhileSaving, CInv, Contents
<1>5. QED
    BY <1>1, <1>3, <1>4 DEF PowerStep

---------------------------------------------------------------------------
\* The routes

LEMMA TakeCInv ==
    ASSUME CInv, NEW t \in Asking, Take(t), UNCHANGED <<on, radio, flash, orders>>,
           chan' \in Seq([cmd : Commands, cfg : Contents]), Len(chan') <= Capacity
    PROVE  CInv'
<1>1. t \in Tasks /\ SignalOf(t) \in Signals
    BY DEF Asking, SignalOf, Signals
<1>2. NoRequest \in [op : Questions \cup Orders, cfg : Contents]
    BY DEF NoRequest, Questions, Contents
<1>3. TypeOK'
    BY <1>1, <1>2 DEF CInv, TypeOK, Take, Finish, Expected, Goto, Waiting, radio, orders
<1>4. /\ Asking' = Asking \ {t}
      /\ \A u \in Asking' : /\ req'[u] = req[u] /\ SignalOf(u)' = SignalOf(u)
                            /\ seen'[u] = seen[u]
    BY <1>1 DEF CInv, TypeOK, Take, Finish, Expected, Goto, Asking, SignalOf
<1>5. \A u \in Asking' : value'[SignalOf(u)] \in {Nothing, value[SignalOf(u)]}
    BY <1>1, <1>4 DEF CInv, TypeOK, Take, SignalOf, Signals
<1>6. QED
    BY <1>3, <1>4, <1>5 DEF CInv, QuestionsAreAsked, AnswerObserved, AnswersAreFresh, Answer, radio

LEMMA RegisterCInv ==
    ASSUME CInv, NEW t \in Asking, Register(t), UNCHANGED <<on, radio, flash, orders>>,
           chan' \in Seq([cmd : Commands, cfg : Contents]), Len(chan') <= Capacity
    PROVE  CInv'
<1>1. t \in Tasks /\ SignalOf(t) \in Signals
    BY DEF Asking, SignalOf, Signals
<1>2. Waiting' = Waiting \cup {t}
    BY <1>1 DEF CInv, TypeOK, Register, Goto, Waiting
<1>3. TypeOK'
    BY <1>1, <1>2 DEF CInv, TypeOK, Register, Goto, radio, expected, orders
<1>4. Asking' = Asking /\ \A u \in Tasks : SignalOf(u)' = SignalOf(u)
    BY <1>1 DEF CInv, TypeOK, Register, Goto, Asking, SignalOf
<1>5. QED
    BY <1>3, <1>4 DEF CInv, QuestionsAreAsked, AnswerObserved, AnswersAreFresh, Answer,
                      Register, Asking, radio, expected

\* Tasks that start or end an order, and those that time out, leave the signals alone.
LEMMA OrderlyCInv ==
    ASSUME CInv, TypeOK', NEW t \in Tasks, t \notin Asking',
           \A u \in Tasks \ {t} : pc'[u] = pc[u] /\ req'[u] = req[u] /\ seen'[u] = seen[u],
           UNCHANGED <<value, link, flash>>
    PROVE  CInv'
<1>1. /\ Asking' = Asking \ {t}
      /\ \A u \in Asking' : /\ req'[u] = req[u] /\ SignalOf(u)' = SignalOf(u)
                            /\ seen'[u] = seen[u]
    BY DEF Asking, SignalOf
<1>2. QED
    BY <1>1 DEF CInv, QuestionsAreAsked, AnswerObserved, AnswersAreFresh, Answer

LEMMA OrderCInv == ASSUME CInv, NEW t \in Tasks, Order(t) PROVE CInv'
<1> USE DEF Order, Goto
<1>1. PICK op \in Orders \cap Asks[t], c \in Configs :
          /\ req' = [req EXCEPT ![t] = [op |-> op, cfg |-> c]]
          /\ pc' = [pc EXCEPT ![t] = IF op = "set-config" THEN "SetConfig" ELSE "WriteConfigToFlash"]
    OBVIOUS
<1>2. [op |-> op, cfg |-> c] \in [op : Questions \cup Orders, cfg : Contents]
    BY DEF Contents
<1>3. Waiting' = Waiting
    BY <1>1 DEF CInv, TypeOK, Waiting
<1>4. TypeOK'
    BY <1>1, <1>2, <1>3 DEF CInv, TypeOK, SendPhases, radio, history, signal, expected, orders
<1>5. t \notin Asking'
    BY <1>1 DEF CInv, TypeOK, Asking
<1>6. QED
    BY <1>1, <1>4, <1>5, OrderlyCInv DEF CInv, TypeOK, signal, radio, history, expected

LEMMA AskCInv == ASSUME CInv, NEW t \in Tasks, Ask(t) PROVE CInv'
<1> USE DEF Ask, Await, Goto
<1>1. PICK op \in Questions \cap Asks[t] :
          LET s == IF op = "status" THEN "STATUS" ELSE "FLASH_DATA" IN
          /\ req' = [req EXCEPT ![t] = [op |-> op, cfg |-> NoConfig]]
          /\ value' = [value EXCEPT ![s] = Nothing]
          /\ waker' = [waker EXCEPT ![s] = NoTask]
          /\ seen' = [seen EXCEPT ![t] = {Answer(s)}]
    OBVIOUS
<1>2. [op |-> op, cfg |-> NoConfig] \in [op : Questions \cup Orders, cfg : Contents]
    BY DEF Contents
<1>3. Waiting' = Waiting /\ Asking' = Asking \cup {t}
    BY DEF CInv, TypeOK, Waiting, Asking
<1>4. SignalOf(t)' = IF op = "status" THEN "STATUS" ELSE "FLASH_DATA"
    BY <1>1 DEF CInv, TypeOK, SignalOf
<1>5. \A u \in Tasks \ {t} : req'[u] = req[u] /\ SignalOf(u)' = SignalOf(u) /\ seen'[u] = seen[u]
    BY <1>1 DEF CInv, TypeOK, SignalOf
<1>6. seen'[t] = {Answer(SignalOf(t)')} /\ value'[SignalOf(t)'] = Nothing
    BY <1>1, <1>4 DEF CInv, TypeOK, Signals
<1>7. \A s \in Signals : value'[s] \in {Nothing, value[s]} /\ Answer(s)' = Answer(s)
    BY <1>1 DEF CInv, TypeOK, Answer, radio
<1>8. Answer("STATUS") \in Contents /\ Answer("FLASH_DATA") \in Contents
    BY DEF CInv, TypeOK, Answer
<1>9. TypeOK'
    BY <1>1, <1>2, <1>3, <1>8 DEF CInv, TypeOK, SendPhases, Signals, radio
<1>10. QuestionsAreAsked'
    BY <1>1, <1>3, <1>5 DEF CInv, TypeOK, QuestionsAreAsked
<1>11. AnswerObserved'
    BY <1>3, <1>4, <1>5, <1>6, <1>7 DEF CInv, AnswerObserved, Asking, SignalOf, Signals
<1>12. AnswersAreFresh'
    <2>1. \A u \in Asking \ {t} : SignalOf(u) \in Signals /\ u \in Tasks
        BY DEF Asking, SignalOf, Signals
    <2>2. QED
        BY <1>3, <1>5, <1>6, <1>7, <2>1 DEF CInv, AnswersAreFresh
<1>13. QED
    BY <1>9, <1>10, <1>11, <1>12 DEF CInv

LEMMA SendCInv == ASSUME CInv, NEW t \in Tasks, Send(t) PROVE CInv'
<1> USE DEF Send, Sent
<1>1. chan' \in Seq([cmd : Commands, cfg : Contents]) /\ Len(chan') <= Capacity
    BY SendType, CommandType DEF CInv
<1>2. NoRequest \in [op : Questions \cup Orders, cfg : Contents]
    BY DEF NoRequest, Questions, Contents
<1>3. /\ pc' \in [Tasks -> SendPhases \cup {"idle", "wait"}] /\ pc'[t] \in {"Connect", "idle"}
      /\ req' \in [Tasks -> [op : Questions \cup Orders, cfg : Contents]]
      /\ \A u \in Tasks \ {t} : pc'[u] = pc[u] /\ req'[u] = req[u]
    BY <1>2 DEF CInv, TypeOK, Finish, Goto, SendPhases
<1>4. pc[t] # "wait" /\ Waiting' = Waiting
    BY <1>3 DEF Waiting, SendPhases
<1>5. /\ saved' \in Contents /\ recent' \subseteq Contents /\ cut' \in BOOLEAN
      /\ due' \in [Tasks -> SUBSET Contents]
    BY ControlAssumption DEF CInv, TypeOK, Confirms, Contents
<1>6. TypeOK'
    BY <1>1, <1>3, <1>4, <1>5 DEF CInv, TypeOK, signal, radio
<1>7. t \notin Asking'
    BY <1>3 DEF Asking
<1>8. QED
    BY <1>3, <1>6, <1>7, OrderlyCInv DEF signal, radio

LEMMA SendQuestionCInv == ASSUME CInv, NEW t \in Tasks, SendQuestion(t) PROVE CInv'
<1>1. t \in Asking
    BY DEF SendQuestion, Asking
<1>2. chan' \in Seq([cmd : Commands, cfg : Contents]) /\ Len(chan') <= Capacity
    BY SendType, CommandType DEF CInv, SendQuestion, SendPhases
<1>3. QED
    BY <1>1, <1>2, TakeCInv, RegisterCInv DEF SendQuestion

LEMMA PollCInv == ASSUME CInv, NEW t \in Tasks, Poll(t) PROVE CInv'
<1>1. t \in Asking
    BY DEF Poll, Asking
<1>2. chan' \in Seq([cmd : Commands, cfg : Contents]) /\ Len(chan') <= Capacity
    BY DEF CInv, TypeOK, Poll
<1>3. QED
    BY <1>1, <1>2, TakeCInv, RegisterCInv DEF Poll

LEMMA TimeoutCInv == ASSUME CInv, NEW t \in Tasks, Timeout(t) PROVE CInv'
<1>1. chan' \in Seq([cmd : Commands, cfg : Contents]) /\ Len(chan') <= Capacity
    BY DEF CInv, TypeOK, Timeout
<1>2. CASE pc[t] = "wait" /\ Take(t)
    <2>1. UNCHANGED cut
        BY <1>2 DEF CInv, TypeOK, Timeout
    <2>2. QED
        BY <1>1, <1>2, <2>1, TakeCInv DEF Timeout, Asking, orders
<1>3. CASE Finish(t) /\ Expected(t) /\ woken' = woken \ {t} /\ UNCHANGED signal
    <2>1. NoRequest \in [op : Questions \cup Orders, cfg : Contents]
        BY DEF NoRequest, Questions, Contents
    <2>2. TypeOK'
        BY <1>1, <1>3, <2>1 DEF CInv, TypeOK, Timeout, Finish, Expected, Goto, Waiting, signal, radio
    <2>3. t \notin Asking'
        BY <1>3 DEF CInv, TypeOK, Finish, Goto, Asking
    <2>4. \A u \in Tasks \ {t} : pc'[u] = pc[u] /\ req'[u] = req[u] /\ seen'[u] = seen[u]
        BY <1>3 DEF CInv, TypeOK, Finish, Expected, Goto
    <2>5. QED
        BY <2>2, <2>3, <2>4, <1>3, OrderlyCInv DEF Timeout, signal, radio
<1>4. QED
    BY <1>2, <1>3 DEF Timeout

LEMMA TaskStepCInv == ASSUME CInv, NEW t \in Tasks, TaskStep(t) PROVE CInv'
BY OrderCInv, AskCInv, SendCInv, SendQuestionCInv, PollCInv, TimeoutCInv DEF TaskStep

---------------------------------------------------------------------------
\* event_handler_task and the radio

\* Steps that change neither what a question would be answered with nor a
\* signal or a request.
LEMMA QuietCInv ==
    ASSUME CInv, UNCHANGED <<on, signal, tasks, link, flash, history>>,
           handler' \in {"select", "connecting", "settling"}, config' \in Contents,
           chan' \in Seq([cmd : Commands, cfg : Contents]), Len(chan') <= Capacity
    PROVE  CInv'
BY DEF CInv, TypeOK, QuestionsAreAsked, AnswerObserved, AnswersAreFresh, Asking, Waiting,
       SignalOf, Answer, signal, tasks, history, expected, orders

\* Steps that change it and record that.
LEMMA ObserveCInv ==
    ASSUME CInv, Observe, UNCHANGED <<on, signal, tasks, config>>,
           handler' \in {"select", "connecting", "settling"},
           link' \in Contents, flash' \in Contents,
           chan' \in Seq([cmd : Commands, cfg : Contents]), Len(chan') <= Capacity
    PROVE  CInv'
<1>1. Asking' = Asking /\ Waiting' = Waiting /\ \A t \in Tasks : SignalOf(t)' = SignalOf(t)
    BY DEF Asking, Waiting, SignalOf, tasks
<1>2. \A t \in Tasks : Answer(SignalOf(t))' \in Contents
    BY DEF Answer
<1>3. seen' = [t \in Tasks |-> IF t \in Asking THEN seen[t] \cup {Answer(SignalOf(t))'} ELSE seen[t]]
    BY DEF Observe
<1>4. seen' \in [Tasks -> SUBSET Contents]
    BY <1>2, <1>3 DEF CInv, TypeOK
<1>5. \A t \in Asking : Answer(SignalOf(t))' \in seen'[t] /\ seen[t] \subseteq seen'[t]
    BY <1>3 DEF Asking
<1>6. TypeOK'
    BY <1>1, <1>4 DEF CInv, TypeOK, Observe, signal, tasks, orders
<1>7. AnswersAreFresh'
    BY <1>1, <1>5 DEF CInv, AnswersAreFresh, signal, Asking
<1>8. QED
    BY <1>1, <1>5, <1>6, <1>7 DEF CInv, QuestionsAreAsked, AnswerObserved, tasks

LEMMA ReplyCInv ==
    ASSUME CInv, NEW cmd, NEW s \in Signals, Reply(cmd, s)
    PROVE  CInv'
<1> USE DEF Reply, SignalAnswer
<1>1. chan' \in Seq([cmd : Commands, cfg : Contents]) /\ Len(chan') <= Capacity
    BY ReceiveType DEF CInv
<1>2. Asking' = Asking /\ Waiting' = Waiting /\ \A t \in Tasks : SignalOf(t)' = SignalOf(t)
    BY DEF Asking, Waiting, SignalOf
<1>3. Answer(s) \in Contents /\ \A x \in Signals : Answer(x)' = Answer(x)
    BY DEF CInv, TypeOK, Answer, radio
<1>4. TypeOK'
    BY <1>1, <1>2, <1>3 DEF CInv, TypeOK, radio, history, expected, orders
<1>5. \A x \in Signals : value'[x] \in {value[x], Answer(x)}
    BY DEF CInv, TypeOK
<1>6. \A t \in Asking : SignalOf(t) \in Signals
    BY DEF SignalOf, Signals
<1>7. AnswersAreFresh'
    BY <1>2, <1>5, <1>6 DEF CInv, AnswersAreFresh, AnswerObserved, history, expected, Asking
<1>8. QED
    BY <1>2, <1>3, <1>4, <1>6, <1>7 DEF CInv, QuestionsAreAsked, AnswerObserved, history, expected, Asking

LEMMA HandlerStepCInv == ASSUME CInv, HandlerStep \/ LinkDrops PROVE CInv'
<1>1. CASE GetStatus
    BY <1>1, ReplyCInv DEF GetStatus, Signals
<1>2. CASE GetFlashData
    BY <1>2, ReplyCInv DEF GetFlashData, Signals
<1>3. CASE SetConfig
    <2>1. Head(chan).cfg \in Contents
        BY <1>3, ReceiveType DEF CInv, SetConfig
    <2>2. config' \in Contents
        BY <1>3, <2>1 DEF CInv, TypeOK, SetConfig
    <2>3. QED
        BY <1>3, <2>2, ReceiveType, QuietCInv DEF CInv, TypeOK, SetConfig
<1>4. CASE WriteConfigToFlash
    <2>1. Head(chan).cfg \in Contents
        BY <1>4, ReceiveType DEF CInv, WriteConfigToFlash
    <2>2. flash' \in Contents
        BY <1>4, <2>1 DEF CInv, TypeOK, WriteConfigToFlash
    <2>3. QED
        BY <1>4, <2>2, ReceiveType, ObserveCInv DEF CInv, TypeOK, WriteConfigToFlash, radio
<1>5. CASE Connect
    BY <1>5, ReceiveType, QuietCInv DEF CInv, TypeOK, Connect
<1>6. CASE Connected
    BY <1>6, ObserveCInv DEF CInv, TypeOK, Connected
<1>7. CASE ConnectFails
    BY <1>7, ObserveCInv DEF CInv, TypeOK, ConnectFails, Contents
<1>8. CASE Settled
    BY <1>8, QuietCInv DEF CInv, TypeOK, Settled
<1>9. CASE LinkDrops
    BY <1>9, ObserveCInv DEF CInv, TypeOK, LinkDrops, Contents
<1>10. QED
    BY <1>1, <1>2, <1>3, <1>4, <1>5, <1>6, <1>7, <1>8, <1>9 DEF HandlerStep

---------------------------------------------------------------------------

LEMMA StutterCInv == ASSUME CInv, UNCHANGED vars PROVE CInv'
BY QuietCInv DEF CInv, TypeOK, vars, signal, tasks, history, expected, orders

LEMMA NextCInv == CInv /\ [Next]_vars => CInv'
BY PowerStepCInv, TaskStepCInv, HandlerStepCInv, StutterCInv DEF Next, PowerStep, TaskStep

\* Every variable of the control plane stays in its type; EVENT_CHAN never
\* holds more than its capacity, and only waiting tasks are woken.
THEOREM ControlTypeCorrect == Spec => []TypeOK
<1>1. CInv => TypeOK
    BY DEF CInv
<1>2. QED
    BY <1>1, InitCInv, NextCInv, PTL DEF Spec

\* For any number of tasks, whatever they ask and whichever of them time out:
\* reset() keeps out of the signals all answers that were older than the
\* question which finds them there.
THEOREM AnswersAreFreshTheorem == Spec => []AnswersAreFresh
<1>1. CInv => AnswersAreFresh
    BY DEF CInv
<1>2. QED
    BY <1>1, InitCInv, NextCInv, PTL DEF Spec

---------------------------------------------------------------------------
\* What is queued behind what in EVENT_CHAN.

\* An event of K is queued behind place i, anywhere if i = 0.
After(K, i) == \E j \in DOMAIN chan : j > i /\ chan[j] \in K
\* The channel holds an event of K that none of L is queued behind.
Last(K, L) == \E i \in DOMAIN chan : chan[i] \in K /\ ~After(L, i)
\* No event of L is queued behind one of K.
Final(K, L) == \A i \in DOMAIN chan : chan[i] \in K => ~After(L, i)

Appends(e) == chan' = Append(chan, e)

LEMMA Appended ==
    ASSUME TypeOK, NEW e, Appends(e)
    PROVE  /\ Len(chan) \in Nat /\ DOMAIN chan = 1 .. Len(chan)
           /\ DOMAIN chan' = 1 .. Len(chan) + 1 /\ chan'[Len(chan) + 1] = e
           /\ \A i \in 1 .. Len(chan) : chan'[i] = chan[i]
BY AppendProperties, LenProperties DEF TypeOK, Appends

LEMMA Received ==
    ASSUME TypeOK, NEW cmd, Receive(cmd)
    PROVE  /\ Len(chan) \in Nat \ {0} /\ DOMAIN chan = 1 .. Len(chan)
           /\ DOMAIN chan' = 1 .. Len(chan) - 1 /\ Head(chan) = chan[1]
           /\ \A i \in 1 .. Len(chan) - 1 : chan'[i] = chan[i + 1]
<1>1. chan \in Seq([cmd : Commands, cfg : Contents]) /\ chan # <<>> /\ chan' = Tail(chan)
    BY DEF TypeOK, Receive
<1>2. Len(chan) \in Nat \ {0} /\ DOMAIN chan = 1 .. Len(chan)
    BY <1>1, LenProperties, EmptySeq
<1>3. Len(chan') = Len(chan) - 1 /\ DOMAIN chan' = 1 .. Len(chan')
    BY <1>1, HeadTailProperties, LenProperties
<1>4. Head(chan) = chan[1] /\ \A i \in 1 .. Len(chan) - 1 : chan'[i] = chan[i + 1]
    BY <1>1, <1>2
<1>5. QED
    BY <1>2, <1>3, <1>4

LEMMA AfterAppend ==
    ASSUME TypeOK, NEW e, Appends(e), NEW K, NEW i \in 0 .. Len(chan)
    PROVE  After(K, i)' <=> After(K, i) \/ e \in K
<1> DEFINE n == Len(chan)
<1>1. /\ n \in Nat /\ DOMAIN chan = 1 .. n /\ DOMAIN chan' = 1 .. n + 1 /\ chan'[n + 1] = e
      /\ \A j \in 1 .. n : chan'[j] = chan[j]
    BY Appended
<1> HIDE DEF n
<1>2. ASSUME e \in K PROVE After(K, i)'
    <2>1. n + 1 \in DOMAIN chan' /\ n + 1 > i /\ chan'[n + 1] \in K
        BY <1>1, <1>2 DEF n
    <2>2. QED
        BY <2>1 DEF After
<1>3. ASSUME After(K, i) PROVE After(K, i)'
    BY <1>1, <1>3 DEF After
<1>4. ASSUME After(K, i)' PROVE After(K, i) \/ e \in K
    <2>1. PICK j \in 1 .. n + 1 : j > i /\ chan'[j] \in K
        BY <1>1, <1>4 DEF After
    <2>2. CASE j = n + 1
        BY <1>1, <2>1, <2>2
    <2>3. CASE j \in 1 .. n
        BY <1>1, <2>1, <2>3 DEF After
    <2>4. QED
        BY <1>1, <2>1, <2>2, <2>3
<1>5. QED
    BY <1>2, <1>3, <1>4

LEMMA AfterReceive ==
    ASSUME TypeOK, NEW cmd, Receive(cmd), NEW K, NEW i \in Nat
    PROVE  After(K, i)' <=> After(K, i + 1)
<1> DEFINE n == Len(chan)
<1>1. /\ n \in Nat \ {0} /\ DOMAIN chan = 1 .. n /\ DOMAIN chan' = 1 .. n - 1
      /\ \A j \in 1 .. n - 1 : chan'[j] = chan[j + 1]
    BY Received
<1> HIDE DEF n
<1>2. ASSUME After(K, i)' PROVE After(K, i + 1)
    <2>1. PICK j \in 1 .. n - 1 : j > i /\ chan'[j] \in K
        BY <1>1, <1>2 DEF After
    <2>2. j + 1 \in 1 .. n /\ j + 1 > i + 1 /\ chan[j + 1] \in K
        BY <1>1, <2>1
    <2>3. QED
        BY <1>1, <2>2 DEF After
<1>3. ASSUME After(K, i + 1) PROVE After(K, i)'
    <2>1. PICK j \in 1 .. n : j > i + 1 /\ chan[j] \in K
        BY <1>1, <1>3 DEF After
    <2>2. j - 1 \in 1 .. n - 1 /\ j - 1 > i /\ chan'[j - 1] = chan[(j - 1) + 1]
        BY <1>1, <2>1
    <2>3. QED
        BY <1>1, <2>1, <2>2 DEF After
<1>4. QED
    BY <1>2, <1>3

\* The head leaves the channel, and the rest stays.
LEMMA AfterHead ==
    ASSUME TypeOK, NEW cmd, Receive(cmd), NEW K
    PROVE  After(K, 0) <=> Head(chan) \in K \/ After(K, 0)'
<1>1. After(K, 0)' <=> After(K, 1)
    BY AfterReceive
<1>2. Len(chan) \in Nat \ {0} /\ DOMAIN chan = 1 .. Len(chan) /\ Head(chan) = chan[1]
    BY Received
<1>3. \A j \in DOMAIN chan : j > 0 <=> j = 1 \/ j > 1
    BY <1>2
<1>4. QED
    BY <1>1, <1>2, <1>3 DEF After

LEMMA LastAppend ==
    ASSUME TypeOK, NEW e, Appends(e), NEW K, NEW L
    PROVE  (e \in K \/ (Last(K, L) /\ e \notin L)) => Last(K, L)'
<1>1. /\ Len(chan) \in Nat /\ DOMAIN chan = 1 .. Len(chan)
      /\ DOMAIN chan' = 1 .. Len(chan) + 1 /\ chan'[Len(chan) + 1] = e
      /\ \A i \in 1 .. Len(chan) : chan'[i] = chan[i]
    BY Appended
<1>2. ASSUME e \in K PROVE Last(K, L)'
    <2>1. PICK n \in Nat : n = Len(chan) + 1
        BY <1>1
    <2>2. n \in DOMAIN chan' /\ chan'[n] \in K /\ ~\E j \in DOMAIN chan' : j > n
        BY <1>1, <1>2, <2>1
    <2>3. ~After(L, n)'
        BY <2>2 DEF After
    <2>4. QED
        BY <2>2, <2>3 DEF Last
<1>3. ASSUME Last(K, L), e \notin L PROVE Last(K, L)'
    <2>1. PICK i \in 1 .. Len(chan) : chan[i] \in K /\ ~After(L, i)
        BY <1>1, <1>3 DEF Last
    <2>2. ~After(L, i)'
        BY <1>1, <1>3, <2>1, AfterAppend
    <2>3. i \in DOMAIN chan' /\ chan'[i] \in K
        BY <1>1, <2>1
    <2>4. QED
        BY <2>2, <2>3 DEF Last
<1>4. QED
    BY <1>2, <1>3

LEMMA LastReceive ==
    ASSUME TypeOK, NEW cmd, Receive(cmd), NEW K, NEW L, Last(K, L)
    PROVE  Last(K, L)' \/ (Head(chan) \in K /\ ~After(L, 0)')
<1>1. /\ Len(chan) \in Nat \ {0} /\ DOMAIN chan = 1 .. Len(chan)
      /\ DOMAIN chan' = 1 .. Len(chan) - 1 /\ Head(chan) = chan[1]
      /\ \A i \in 1 .. Len(chan) - 1 : chan'[i] = chan[i + 1]
    BY Received
<1>2. PICK i \in 1 .. Len(chan) : chan[i] \in K /\ ~After(L, i)
    BY <1>1 DEF Last
<1>3. CASE i = 1
    BY <1>1, <1>2, <1>3, AfterReceive
<1>4. CASE i # 1
    <2>1. i - 1 \in 1 .. Len(chan) - 1 /\ (i - 1) + 1 = i /\ i - 1 \in Nat
        BY <1>1, <1>4
    <2>2. chan'[i - 1] = chan[i]
        BY <1>1, <2>1
    <2>3. ~After(L, i - 1)'
        BY <1>2, <2>1, AfterReceive
    <2>4. QED
        BY <1>1, <1>2, <2>1, <2>2, <2>3 DEF Last
<1>5. QED
    BY <1>3, <1>4

LEMMA LastIsThere == ASSUME TypeOK, NEW K, NEW L, Last(K, L) PROVE After(K, 0)
<1>1. \A i \in DOMAIN chan : i > 0
    BY LenProperties DEF TypeOK
<1>2. QED
    BY <1>1 DEF Last, After

LEMMA FinalAppend ==
    ASSUME TypeOK, NEW e, Appends(e), NEW K, NEW L, Final(K, L), e \in L => ~After(K, 0)
    PROVE  Final(K, L)'
<1>1. /\ Len(chan) \in Nat /\ DOMAIN chan = 1 .. Len(chan)
      /\ DOMAIN chan' = 1 .. Len(chan) + 1
      /\ \A i \in 1 .. Len(chan) : chan'[i] = chan[i]
    BY Appended
<1>2. SUFFICES ASSUME NEW i \in 1 .. Len(chan) + 1, chan'[i] \in K PROVE ~After(L, i)'
    BY <1>1 DEF Final
<1>3. CASE i \in 1 .. Len(chan)
    <2>1. chan[i] \in K /\ ~After(L, i)
        BY <1>1, <1>2, <1>3 DEF Final
    <2>2. After(K, 0)
        BY <1>1, <1>3, <2>1 DEF After
    <2>3. QED
        BY <1>1, <1>3, <2>1, <2>2, AfterAppend
<1>4. CASE i = Len(chan) + 1
    BY <1>1, <1>4 DEF After
<1>5. QED
    BY <1>1, <1>3, <1>4

LEMMA FinalReceive ==
    ASSUME TypeOK, NEW cmd, Receive(cmd), NEW K, NEW L, Final(K, L)
    PROVE  Final(K, L)' /\ (Head(chan) \in K => ~After(L, 0)')
<1>1. /\ Len(chan) \in Nat \ {0} /\ DOMAIN chan = 1 .. Len(chan)
      /\ DOMAIN chan' = 1 .. Len(chan) - 1 /\ Head(chan) = chan[1]
      /\ \A i \in 1 .. Len(chan) - 1 : chan'[i] = chan[i + 1]
    BY Received
<1>2. ASSUME NEW i \in 1 .. Len(chan) - 1, chan'[i] \in K PROVE ~After(L, i)'
    <2>1. i + 1 \in DOMAIN chan /\ chan[i + 1] \in K /\ i \in Nat
        BY <1>1, <1>2
    <2>2. QED
        BY <2>1, AfterReceive DEF Final
<1>3. ASSUME Head(chan) \in K PROVE ~After(L, 0)'
    <2>1. ~After(L, 1)
        BY <1>1, <1>3 DEF Final
    <2>2. QED
        BY <2>1, AfterReceive
<1>4. QED
    BY <1>1, <1>2, <1>3 DEF Final

---------------------------------------------------------------------------
\* What is sent is received.

LEMMA QueuedAppend ==
    ASSUME TypeOK, NEW c, Appends(c), NEW e
    PROVE  Queued(e)' <=> Queued(e) \/ e = c
BY Appended DEF Queued

LEMMA QueuedReceive ==
    ASSUME TypeOK, NEW cmd, Receive(cmd), NEW e, Queued(e)
    PROVE  Queued(e)' \/ e = Head(chan)
<1>1. /\ Len(chan) \in Nat \ {0} /\ DOMAIN chan = 1 .. Len(chan)
      /\ DOMAIN chan' = 1 .. Len(chan) - 1 /\ Head(chan) = chan[1]
      /\ \A i \in 1 .. Len(chan) - 1 : chan'[i] = chan[i + 1]
    BY Received
<1>2. PICK i \in 1 .. Len(chan) : chan[i] = e
    BY <1>1 DEF Queued
<1>3. CASE i = 1
    BY <1>1, <1>2, <1>3
<1>4. CASE i # 1
    <2>1. i - 1 \in 1 .. Len(chan) - 1 /\ (i - 1) + 1 = i
        BY <1>1, <1>4
    <2>2. i - 1 \in DOMAIN chan' /\ chan'[i - 1] = e
        BY <1>1, <1>2, <2>1
    <2>3. QED
        BY <2>2 DEF Queued
<1>5. QED
    BY <1>3, <1>4

\* No route takes anything out of the channel.
LEMMA TaskStepQueues ==
    ASSUME TypeOK, NEW t \in Tasks, TaskStep(t), NEW e, Queued(e)
    PROVE  Queued(e)'
<1>1. UNCHANGED chan \/ Appends(Command(t))
    BY DEF TaskStep, Order, Ask, Send, SendQuestion, Poll, Timeout, Appends
<1>2. CASE UNCHANGED chan
    BY <1>2 DEF Queued
<1>3. CASE Appends(Command(t))
    BY <1>3, QueuedAppend
<1>4. QED
    BY <1>1, <1>2, <1>3

---------------------------------------------------------------------------
\* Who waits for a signal, and what for.

\* A task that comes to wait has registered its waker, with an empty signal.
LEMMA ComesToWait ==
    ASSUME CInv, NEW t \in Tasks, TaskStep(t), t \in Waiting'
    PROVE  /\ Register(t) /\ (SendQuestion(t) \/ Poll(t)) /\ SignalOf(t)' = SignalOf(t)
           /\ waker'[SignalOf(t)] = t /\ value'[SignalOf(t)] = Nothing
<1>1. (SendQuestion(t) \/ Poll(t)) /\ Register(t)
    BY DEF CInv, TypeOK, TaskStep, Order, Ask, Await, Send, Sent, SendQuestion, Poll, Timeout, Take, Finish,
           Goto, Waiting
<1>2. SignalOf(t) \in Signals
    BY DEF SignalOf, Signals
<1>3. QED
    BY <1>1, <1>2 DEF CInv, TypeOK, Register, SignalOf

\* A step of u leaves the other tasks where they are.
LEMMA OthersStay ==
    ASSUME CInv, NEW u \in Tasks, TaskStep(u), NEW t \in Tasks \ {u}
    PROVE  /\ pc'[t] = pc[t] /\ req'[t] = req[t] /\ SignalOf(t)' = SignalOf(t)
           /\ t \in Waiting' <=> t \in Waiting
<1>1. pc'[t] = pc[t] /\ req'[t] = req[t]
    BY DEF CInv, TypeOK, TaskStep, Order, Ask, Await, Send, Sent, SendQuestion, Poll, Timeout, Take,
           Register, Finish, Goto
<1>2. QED
    BY <1>1 DEF SignalOf, Waiting

\* A question resets its own signal and leaves the other one alone.
LEMMA AskResets ==
    ASSUME CInv, NEW u \in Tasks, Ask(u)
    PROVE  \E s \in Signals : /\ Resets(u, s)
                              /\ value' = [value EXCEPT ![s] = Nothing]
                              /\ waker' = [waker EXCEPT ![s] = NoTask]
<1>1. PICK op \in Questions \cap Asks[u] :
          LET s == IF op = "status" THEN "STATUS" ELSE "FLASH_DATA" IN
          /\ req' = [req EXCEPT ![u] = [op |-> op, cfg |-> NoConfig]]
          /\ value' = [value EXCEPT ![s] = Nothing]
          /\ waker' = [waker EXCEPT ![s] = NoTask]
    BY DEF Ask
<1>2. PICK s \in Signals : s = IF op = "status" THEN "STATUS" ELSE "FLASH_DATA"
    BY DEF Signals
<1>3. pc[u] = "idle" /\ pc'[u] = "ask" /\ req'[u].op = op
    BY <1>1 DEF Ask, Await, Goto, CInv, TypeOK
<1>4. SignalOf(u)' = s
    BY <1>2, <1>3 DEF SignalOf
<1>5. QED
    BY <1>1, <1>2, <1>3, <1>4 DEF Resets

LEMMA OthersKeepRemembered ==
    ASSUME CInv, NEW u \in Tasks, TaskStep(u), NEW t \in Waiting, t # u, Remembered(t),
           ~Resets(u, SignalOf(t))
    PROVE  Remembered(t)'
<1>1. t \in Tasks /\ SignalOf(t) \in Signals /\ SignalOf(u) \in Signals
    BY DEF Waiting, SignalOf, Signals
<1>2. SignalOf(t)' = SignalOf(t)
    BY <1>1, OthersStay
<1>3. ASSUME woken \ {u} \subseteq woken', UNCHANGED waker,
             value[SignalOf(t)] = Nothing => value'[SignalOf(t)] = Nothing
      PROVE  Remembered(t)'
    BY <1>2, <1>3 DEF Remembered
<1>4. CASE Ask(u)
    <2>1. PICK s \in Signals : /\ Resets(u, s)
                               /\ value' = [value EXCEPT ![s] = Nothing]
                               /\ waker' = [waker EXCEPT ![s] = NoTask]
        BY <1>4, AskResets
    <2>2. s # SignalOf(t)
        BY <2>1
    <2>3. QED
        BY <1>1, <1>2, <1>4, <2>1, <2>2 DEF Remembered, Ask, CInv, TypeOK
<1>5. CASE Order(u) \/ Send(u)
    BY <1>3, <1>5 DEF Order, Send, Sent, signal
<1>6. CASE Take(u)
    BY <1>1, <1>3, <1>6 DEF Take, CInv, TypeOK
<1>7. CASE Register(u)
    <2>1. CASE waker[SignalOf(u)] = t
        BY <2>1, <1>7 DEF Register, Remembered
    <2>2. CASE waker[SignalOf(u)] # t
        <3>1. waker[SignalOf(t)] = t => waker'[SignalOf(t)] = t
            BY <1>1, <1>7, <2>2 DEF Register, CInv, TypeOK
        <3>2. QED
            BY <1>2, <1>7, <3>1 DEF Register, Remembered
    <2>3. QED
        BY <2>1, <2>2
<1>8. CASE woken' = woken \ {u} /\ UNCHANGED signal
    BY <1>3, <1>8 DEF signal
<1>9. QED
    BY <1>4, <1>5, <1>6, <1>7, <1>8 DEF TaskStep, SendQuestion, Poll, Timeout

LEMMA HandlerKeepsRemembered ==
    ASSUME CInv, HandlerStep \/ LinkDrops, NEW t \in Waiting, Remembered(t)
    PROVE  Remembered(t)'
<1>1. SignalOf(t) \in Signals
    BY DEF SignalOf, Signals
<1>2. ASSUME NEW cmd, NEW s \in Signals, Reply(cmd, s) PROVE Remembered(t)'
    <2>1. SignalOf(t)' = SignalOf(t) /\ woken \subseteq woken'
        BY <1>2 DEF Reply, SignalAnswer, SignalOf
    <2>2. CASE SignalOf(t) = s
        BY <1>2, <2>1, <2>2 DEF Remembered, Reply, SignalAnswer
    <2>3. CASE SignalOf(t) # s
        BY <1>1, <1>2, <2>1, <2>3 DEF Remembered, Reply, SignalAnswer, CInv, TypeOK
    <2>4. QED
        BY <2>2, <2>3
<1>3. CASE GetStatus \/ GetFlashData
    BY <1>2, <1>3 DEF GetStatus, GetFlashData, Signals
<1>4. CASE ~(GetStatus \/ GetFlashData)
    <2>1. UNCHANGED <<signal, tasks>>
        BY <1>4 DEF HandlerStep, SetConfig, WriteConfigToFlash, Connect, Connected, ConnectFails,
                    Settled, LinkDrops
    <2>2. QED
        BY <2>1 DEF Remembered, SignalOf, signal, tasks
<1>5. QED
    BY <1>3, <1>4

\* For any number of tasks that share the signals, whatever times out and
\* whatever is answered late: a waiting task loses its wake-up only when a
\* question of another task resets the signal it waits for.
THEOREM ForgottenOnlyByResetTheorem == Spec => ForgottenOnlyByReset
<1>1. CInv /\ [Next]_vars =>
          [\A t \in Forgotten' \ Forgotten : \E u \in Tasks \ {t} : Resets(u, SignalOf(t))]_vars
    <2> SUFFICES ASSUME CInv, Next, NEW t \in Tasks, t \in Forgotten', t \notin Forgotten
                 PROVE  \E u \in Tasks \ {t} : Resets(u, SignalOf(t))
        BY DEF Forgotten, Waiting
    <2>1. t \in Waiting' /\ ~Remembered(t)'
        BY DEF Forgotten
    <2>2. t \in Waiting => Remembered(t)
        BY DEF Forgotten
    <2>3. ~PowerStep
        BY <2>1 DEF PowerStep, Boot, PowerLoss, PowerLossWhileSaving, Blank, Waiting
    <2>4. ASSUME NEW u \in Tasks, TaskStep(u) PROVE u # t /\ Resets(u, SignalOf(t))
        <3>1. u # t
            BY <2>1, <2>4, ComesToWait DEF Remembered
        <3>2. t \in Waiting
            BY <2>1, <2>4, <3>1, OthersStay
        <3>3. QED
            BY <2>1, <2>2, <2>4, <3>1, <3>2, OthersKeepRemembered
    <2>5. ~(HandlerStep \/ LinkDrops)
        <3>1. ASSUME HandlerStep \/ LinkDrops PROVE UNCHANGED pc
            BY <3>1 DEF HandlerStep, GetStatus, GetFlashData, Reply, SetConfig, WriteConfigToFlash,
                        Connect, Connected, ConnectFails, Settled, LinkDrops, tasks
        <3>2. QED
            BY <2>1, <2>2, <3>1, HandlerKeepsRemembered DEF Waiting
    <2>6. QED
        BY <2>3, <2>4, <2>5 DEF Next, PowerStep, TaskStep
<1>2. QED
    BY <1>1, InitCInv, NextCInv, PTL DEF Spec, ForgottenOnlyByReset

\* What a waiting task waits for.
Served(t) == Queued(Question(t)) \/ value[SignalOf(t)] # Nothing

LEMMA OthersStayServed ==
    ASSUME CInv, NEW u \in Tasks, TaskStep(u), NEW t \in Waiting, t # u, Served(t),
           ~Resets(u, SignalOf(t)), ~Takes(u, SignalOf(t))
    PROVE  Served(t)'
<1>1. TypeOK /\ t \in Tasks /\ SignalOf(t) \in Signals /\ SignalOf(u) \in Signals
    BY DEF CInv, Waiting, SignalOf, Signals
<1>2. SignalOf(t)' = SignalOf(t) /\ req'[t] = req[t]
    BY <1>1, OthersStay
<1>3. CASE Queued(Question(t))
    <2>1. PICK e : e = Question(t)
        OBVIOUS
    <2>2. Question(t)' = e
        BY <1>2, <2>1 DEF Question
    <2>3. Queued(e)'
        BY <1>1, <1>3, <2>1, TaskStepQueues
    <2>4. QED
        BY <2>2, <2>3 DEF Served, Queued
<1>4. ASSUME value'[SignalOf(t)] = value[SignalOf(t)], value[SignalOf(t)] # Nothing
      PROVE  Served(t)'
    BY <1>2, <1>4 DEF Served
<1>5. CASE value[SignalOf(t)] # Nothing
    <2>1. CASE Ask(u)
        <3>1. PICK s \in Signals : Resets(u, s) /\ value' = [value EXCEPT ![s] = Nothing]
            BY <2>1, AskResets
        <3>2. s # SignalOf(t)
            BY <3>1
        <3>3. value'[SignalOf(t)] = value[SignalOf(t)]
            BY <1>1, <3>1, <3>2 DEF TypeOK
        <3>4. QED
            BY <1>4, <1>5, <3>3
    <2>2. CASE u \in Asking /\ Take(u)
        <3>1. pc'[u] = "idle"
            BY <1>1, <2>2 DEF Take, Finish, Goto, TypeOK
        <3>2. SignalOf(u) # SignalOf(t)
            BY <1>5, <2>2, <3>1 DEF Takes
        <3>3. value'[SignalOf(t)] = value[SignalOf(t)]
            BY <1>1, <2>2, <3>2 DEF Take, TypeOK
        <3>4. QED
            BY <1>4, <1>5, <3>3
    <2>3. CASE UNCHANGED value
        BY <1>4, <1>5, <2>3
    <2>4. QED
        BY <2>1, <2>2, <2>3
        DEF TaskStep, Order, Send, Sent, SendQuestion, Poll, Timeout, Register, Asking, signal
<1>6. QED
    BY <1>3, <1>5 DEF Served

\* event_handler_task receives one command and answers at most the question
\* that this command asks.
LEMMA HandlerServes ==
    ASSUME CInv, HandlerStep \/ LinkDrops, NEW u \in Waiting, Served(u)
    PROVE  Served(u)'
<1>1. TypeOK /\ UNCHANGED <<pc, req>>
    BY DEF CInv, HandlerStep, GetStatus, GetFlashData, Reply, SetConfig, WriteConfigToFlash, Connect,
           Connected, ConnectFails, Settled, LinkDrops, tasks
<1>2. SignalOf(u)' = SignalOf(u) /\ SignalOf(u) \in Signals /\ u \in Tasks
    BY <1>1 DEF SignalOf, Signals, Waiting
<1>3. PICK e : e = Question(u)
    OBVIOUS
<1>4. Question(u)' = e /\ (Queued(Question(u))' <=> Queued(e)')
    BY <1>1, <1>3 DEF Question, Queued
<1>5. /\ Queued(e) \/ value[SignalOf(u)] # Nothing
      /\ e.cmd = IF SignalOf(u) = "STATUS" THEN "GetStatus" ELSE "GetFlashData"
    BY <1>3 DEF Served, Question, Event, SignalOf
<1>6. ASSUME NEW cmd, Receive(cmd), e.cmd # cmd PROVE Queued(e) => Queued(e)'
    BY <1>1, <1>6, QueuedReceive DEF Receive
<1>7. ASSUME NEW cmd, NEW s \in Signals, Reply(cmd, s), SignalOf(u) = s \/ e.cmd # cmd
      PROVE  Served(u)'
    <2>1. Receive(cmd) /\ value' = [value EXCEPT ![s] = Answer(s)]
        BY <1>7 DEF Reply, SignalAnswer
    <2>2. Answer(s) # Nothing
        BY <1>1, ControlAssumption DEF Answer, TypeOK, Contents
    <2>3. CASE SignalOf(u) = s
        BY <1>1, <1>2, <2>1, <2>2, <2>3 DEF TypeOK, Served
    <2>4. CASE SignalOf(u) # s
        BY <1>1, <1>2, <1>4, <1>5, <1>6, <1>7, <2>1, <2>4 DEF TypeOK, Served
    <2>5. QED
        BY <2>3, <2>4
<1>8. CASE GetStatus
    BY <1>5, <1>7, <1>8 DEF GetStatus, Signals
<1>9. CASE GetFlashData
    BY <1>2, <1>5, <1>7, <1>9 DEF GetFlashData, Signals
<1>10. CASE SetConfig \/ WriteConfigToFlash \/ Connect
    <2>1. UNCHANGED value /\ \E cmd \in {"SetConfig", "WriteConfigToFlash", "Connect"} : Receive(cmd)
        BY <1>10 DEF SetConfig, WriteConfigToFlash, Connect, signal
    <2>2. QED
        BY <1>2, <1>4, <1>5, <1>6, <2>1 DEF Served
<1>11. CASE Connected \/ ConnectFails \/ Settled \/ LinkDrops
    <2>1. UNCHANGED <<value, chan>>
        BY <1>11 DEF Connected, ConnectFails, Settled, LinkDrops, signal
    <2>2. Queued(e) => Queued(e)'
        BY <2>1 DEF Queued
    <2>3. QED
        BY <1>2, <1>4, <1>5, <2>1, <2>2 DEF Served
<1>12. QED
    BY <1>8, <1>9, <1>10, <1>11 DEF HandlerStep

\* For any number of tasks that share the signals and any hazards: a waiting
\* task has its question in EVENT_CHAN or an answer in the signal until another
\* task takes that answer or resets the signal; no question is lost on its way.
THEOREM LostOnlyToAnotherTheorem == Spec => LostOnlyToAnother
<1>1. CInv /\ [Next]_vars =>
          [\A t \in Unserved' \ Unserved :
               \E u \in Tasks \ {t} : Resets(u, SignalOf(t)) \/ Takes(u, SignalOf(t))]_vars
    <2> SUFFICES ASSUME CInv, Next, NEW t \in Tasks, t \in Unserved', t \notin Unserved
                 PROVE  \E u \in Tasks \ {t} : Resets(u, SignalOf(t)) \/ Takes(u, SignalOf(t))
        BY DEF Unserved, Waiting
    <2>1. t \in Waiting' /\ ~Served(t)'
        BY DEF Unserved, Served
    <2>2. t \in Waiting => Served(t)
        BY DEF Unserved, Served
    <2>3. ~PowerStep
        BY <2>1 DEF PowerStep, Boot, PowerLoss, PowerLossWhileSaving, Blank, Waiting
    <2>4. ~TaskStep(t)
        <3> SUFFICES ASSUME TaskStep(t) PROVE FALSE
            OBVIOUS
        <3>1. Register(t) /\ (SendQuestion(t) \/ Poll(t)) /\ TypeOK
            BY <2>1, ComesToWait DEF CInv
        <3>2. PICK e : e = Question(t)
            OBVIOUS
        <3>3. Question(t)' = e
            BY <3>1, <3>2 DEF Register, Question
        <3>4. CASE SendQuestion(t)
            <4>1. Appends(e)
                BY <3>2, <3>4 DEF SendQuestion, Appends, Command
            <4>2. Queued(e)'
                BY <3>1, <4>1, QueuedAppend
            <4>3. QED
                BY <2>1, <3>3, <4>2 DEF Served, Queued
        <3>5. CASE Poll(t)
            <4>1. Queued(e)
                BY <2>2, <3>1, <3>2, <3>5 DEF Poll, Register, Waiting, Served
            <4>2. QED
                BY <2>1, <3>3, <3>5, <4>1 DEF Poll, Served, Queued
        <3>6. QED
            BY <3>1, <3>4, <3>5
    <2>5. ASSUME NEW u \in Tasks, TaskStep(u)
          PROVE  u # t /\ (Resets(u, SignalOf(t)) \/ Takes(u, SignalOf(t)))
        <3>1. u # t
            BY <2>4, <2>5
        <3>2. t \in Waiting
            BY <2>1, <2>5, <3>1, OthersStay
        <3>3. QED
            BY <2>1, <2>2, <2>5, <3>1, <3>2, OthersStayServed
    <2>6. ~(HandlerStep \/ LinkDrops)
        <3>1. ASSUME HandlerStep \/ LinkDrops PROVE UNCHANGED pc
            BY <3>1 DEF HandlerStep, GetStatus, GetFlashData, Reply, SetConfig, WriteConfigToFlash,
                        Connect, Connected, ConnectFails, Settled, LinkDrops, tasks
        <3>2. QED
            BY <2>1, <2>2, <3>1, HandlerServes DEF Waiting
    <2>7. QED
        BY <2>3, <2>5, <2>6 DEF Next, PowerStep, TaskStep
<1>2. QED
    BY <1>1, InitCInv, NextCInv, PTL DEF Spec, LostOnlyToAnother

---------------------------------------------------------------------------
\* The station follows the configuration if the radio obeys, but for requests
\* that are cut short between their two sends.

RadioObeys == "wifi" \notin Hazards

SetEvents == [cmd : {"SetConfig"}, cfg : Contents]
ConnectEvents == [cmd : {"Connect"}, cfg : Contents]
UnsetEvents == [cmd : {"SetConfig"}, cfg : {NoConfig}]

\* A connect comes after the last configuration: a request is about to send
\* it, or it is queued, or it is being carried out or has been; or the request
\* timed out before it sent it.
ConnectFollows ==
    \/ cut
    \/ \E t \in Tasks : pc[t] = "Connect"
    \/ Last(ConnectEvents, SetEvents)
    \/ ~After(SetEvents, 0) /\ (handler = "connecting" \/ link = config)

\* /set-config sends what its client has sent, never an empty configuration.
SetsConfigs ==
    /\ \A t \in Tasks : pc[t] = "SetConfig" => req[t].cfg \in Configs
    /\ ~After(UnsetEvents, 0)

Unconfigured == config = NoConfig => link = NoConfig

SInv == CInv /\ ConnectFollows /\ SetsConfigs /\ Unconfigured

LEMMA EventKinds ==
    ASSUME NEW e \in [cmd : Commands, cfg : Contents]
    PROVE  /\ e \in SetEvents <=> e.cmd = "SetConfig"
           /\ e \in ConnectEvents <=> e.cmd = "Connect"
           /\ e \in UnsetEvents <=> e.cmd = "SetConfig" /\ e.cfg = NoConfig
BY DEF SetEvents, ConnectEvents, UnsetEvents, Contents

LEMMA EmptyAfter ==
    /\ chan = <<>> => \A K, i : ~After(K, i)
    /\ chan' = <<>> => \A K, i : ~After(K, i)'
BY DEF After

LEMMA InitSInv == Init => SInv
<1> SUFFICES ASSUME Init PROVE SInv
    OBVIOUS
<1>1. \A K : ~After(K, 0)
    BY EmptyAfter DEF Init
<1>2. QED
    BY <1>1, InitCInv DEF Init, SInv, ConnectFollows, SetsConfigs, Unconfigured

LEMMA PowerSInv == ASSUME SInv, PowerStep PROVE SInv'
<1>1. CInv' /\ \A t \in Tasks : pc'[t] = "idle"
    BY PowerStepCInv DEF SInv, PowerStep, Boot, PowerLoss, PowerLossWhileSaving, Blank
<1>2. Unconfigured'
    BY DEF PowerStep, Boot, PowerLoss, PowerLossWhileSaving, Blank, Unconfigured
<1>3. CASE chan' = <<>> /\ link' = config'
    BY <1>1, <1>2, <1>3, EmptyAfter DEF SInv, ConnectFollows, SetsConfigs
<1>4. CASE chan' = <<Event("Connect", NoConfig)>>
    <2>1. DOMAIN chan' = {1} /\ chan'[1] = [cmd |-> "Connect", cfg |-> NoConfig]
        BY <1>4 DEF Event
    <2>2. /\ chan'[1] \in ConnectEvents /\ chan'[1] \notin UnsetEvents /\ chan'[1] \notin SetEvents
        BY <2>1 DEF ConnectEvents, UnsetEvents, SetEvents, Contents
    <2>3. Last(ConnectEvents, SetEvents)' /\ ~After(UnsetEvents, 0)'
        BY <2>1, <2>2 DEF Last, After
    <2>4. QED
        BY <1>1, <1>2, <2>3 DEF SInv, ConnectFollows, SetsConfigs
<1>5. QED
    BY <1>3, <1>4 DEF PowerStep, Boot, PowerLoss, PowerLossWhileSaving, Blank

\* A step of a request that sends nothing.
LEMMA RequestSInv ==
    ASSUME SInv, CInv', UNCHANGED <<chan, radio>>, cut => cut',
           \A t \in Tasks : /\ pc[t] = "Connect" => pc'[t] = "Connect" \/ cut'
                            /\ pc'[t] = "SetConfig" => req'[t].cfg \in Configs
    PROVE  SInv'
<1>1. \A K, L, i : (After(K, i)' <=> After(K, i)) /\ (Last(K, L)' <=> Last(K, L))
    BY DEF After, Last
<1>2. QED
    BY <1>1 DEF SInv, ConnectFollows, SetsConfigs, Unconfigured, radio

LEMMA SendSInv == ASSUME SInv, NEW t \in Tasks, Send(t) PROVE SInv'
<1>1. CInv' /\ TypeOK /\ Appends(Command(t)) /\ UNCHANGED radio
    BY SendCInv DEF SInv, CInv, Send, Sent, Appends
<1>2. /\ pc[t] \in {"SetConfig", "Connect", "WriteConfigToFlash"}
      /\ pc[t] = "WriteConfigToFlash" => cut' = cut
      /\ pc'[t] = IF pc[t] = "SetConfig" THEN "Connect" ELSE "idle"
      /\ \A u \in Tasks \ {t} : pc'[u] = pc[u] /\ req'[u] = req[u]
    BY DEF Send, Sent, Finish, Goto, SendPhases, SInv, CInv, TypeOK
<1>3. /\ Command(t) \in [cmd : Commands, cfg : Contents]
      /\ Command(t).cmd = pc[t]
      /\ pc[t] = "SetConfig" => Command(t).cfg = req[t].cfg
    BY <1>1, <1>2, CommandType DEF Command, Question, Event, SendPhases
<1>4. SetsConfigs'
    <2>1. Command(t) \notin UnsetEvents
        BY <1>2, <1>3, EventKinds, ControlAssumption DEF SInv, SetsConfigs
    <2>2. ~After(UnsetEvents, 0)'
        <3>1. 0 \in 0 .. Len(chan)
            BY <1>1, Appended
        <3>2. QED
            BY <1>1, <2>1, <3>1, AfterAppend DEF SInv, SetsConfigs
    <2>3. QED
        BY <1>2, <2>2 DEF SInv, SetsConfigs
<1>5. ConnectFollows'
    <2>1. CASE pc[t] = "SetConfig"
        BY <1>2, <2>1 DEF ConnectFollows
    <2>2. CASE pc[t] = "Connect"
        <3>1. Command(t) \in ConnectEvents
            BY <1>3, <2>2, EventKinds
        <3>2. QED
            BY <1>1, <3>1, LastAppend DEF ConnectFollows
    <2>3. CASE pc[t] = "WriteConfigToFlash"
        <3>1. Command(t) \notin SetEvents
            BY <1>3, <2>3, EventKinds
        <3>2. Last(ConnectEvents, SetEvents) => Last(ConnectEvents, SetEvents)'
            BY <1>1, <3>1, LastAppend
        <3>3. ~After(SetEvents, 0) => ~After(SetEvents, 0)'
            <4>1. 0 \in 0 .. Len(chan)
                BY <1>1, Appended
            <4>2. QED
                BY <1>1, <3>1, <4>1, AfterAppend
        <3>4. QED
            BY <1>1, <1>2, <2>3, <3>2, <3>3 DEF SInv, ConnectFollows, radio
    <2>4. QED
        BY <1>2, <2>1, <2>2, <2>3
<1>6. QED
    BY <1>1, <1>4, <1>5 DEF SInv, Unconfigured, radio

LEMMA SendQuestionSInv == ASSUME SInv, NEW t \in Tasks, SendQuestion(t) PROVE SInv'
<1>1. CInv' /\ TypeOK /\ Appends(Command(t)) /\ UNCHANGED <<radio, cut>> /\ pc[t] = "ask"
    BY SendQuestionCInv DEF SInv, CInv, SendQuestion, Appends, orders
<1>2. /\ pc'[t] \in {"idle", "wait"}
      /\ \A u \in Tasks \ {t} : pc'[u] = pc[u] /\ req'[u] = req[u]
    BY DEF SendQuestion, Take, Register, Finish, Goto, SInv, CInv, TypeOK
<1>3. Command(t) \in [cmd : Commands, cfg : Contents] /\ Command(t).cmd # "SetConfig"
    BY <1>1, CommandType DEF Command, Question, Event, SendPhases
<1>4. Command(t) \notin SetEvents /\ Command(t) \notin UnsetEvents
    BY <1>3, EventKinds
<1>5. 0 \in 0 .. Len(chan)
    BY <1>1, Appended
<1>6. /\ ~After(SetEvents, 0) => ~After(SetEvents, 0)'
      /\ ~After(UnsetEvents, 0) => ~After(UnsetEvents, 0)'
      /\ Last(ConnectEvents, SetEvents) => Last(ConnectEvents, SetEvents)'
    BY <1>1, <1>4, <1>5, AfterAppend, LastAppend
<1>7. QED
    BY <1>1, <1>2, <1>6 DEF SInv, ConnectFollows, SetsConfigs, Unconfigured, radio

LEMMA TaskStepSInv == ASSUME SInv, NEW t \in Tasks, TaskStep(t) PROVE SInv'
<1>1. CInv'
    BY TaskStepCInv DEF SInv
<1>2. CASE Order(t) \/ Ask(t) \/ Poll(t) \/ Timeout(t)
    <2>1. cut => cut'
        BY <1>2 DEF Order, Ask, Await, Poll, Timeout, history, orders
    <2>2. \A u \in Tasks : pc[u] = "Connect" => pc'[u] = "Connect" \/ cut'
        BY <1>2 DEF Order, Ask, Await, Poll, Timeout, Take, Register, Finish, Goto, SInv, CInv, TypeOK
    <2>3. \A u \in Tasks : pc'[u] = "SetConfig" => req'[u].cfg \in Configs
        BY <1>2
        DEF Order, Ask, Await, Poll, Timeout, Take, Register, Finish, Goto, SInv, CInv, TypeOK,
            SetsConfigs
    <2>4. QED
        BY <1>1, <1>2, <2>1, <2>2, <2>3, RequestSInv DEF Order, Ask, Poll, Timeout
<1>3. QED
    BY <1>2, SendSInv, SendQuestionSInv DEF TaskStep

\* An event other than SetConfig is received.
LEMMA ReceiveSInv ==
    ASSUME SInv, CInv', NEW cmd, Receive(cmd), cmd # "SetConfig",
           UNCHANGED <<pc, req, config, link, cut>>,
           IF cmd = "Connect" THEN handler' = "connecting" ELSE UNCHANGED handler
    PROVE  SInv'
<1>1. TypeOK /\ Head(chan) \in [cmd : Commands, cfg : Contents] /\ Head(chan).cmd = cmd
    BY ReceiveType DEF SInv, CInv, Receive
<1>2. Head(chan) \notin SetEvents /\ (Head(chan) \in ConnectEvents <=> cmd = "Connect")
    BY <1>1, EventKinds
<1>3. /\ ~After(SetEvents, 0) => ~After(SetEvents, 0)'
      /\ ~After(UnsetEvents, 0) => ~After(UnsetEvents, 0)'
    BY <1>1, AfterHead
<1>4. Last(ConnectEvents, SetEvents) =>
          Last(ConnectEvents, SetEvents)' \/ (handler' = "connecting" /\ ~After(SetEvents, 0)')
    BY <1>1, <1>2, LastReceive
<1>5. ConnectFollows'
    BY <1>3, <1>4 DEF SInv, ConnectFollows, Receive
<1>6. QED
    BY <1>3, <1>5 DEF SInv, SetsConfigs, Unconfigured

LEMMA SetConfigSInv == ASSUME SInv, CInv', SetConfig PROVE SInv'
<1>1. TypeOK /\ Head(chan) \in [cmd : Commands, cfg : Contents] /\ Head(chan).cmd = "SetConfig"
    BY ReceiveType DEF SInv, CInv, SetConfig, Receive
<1>2. Receive("SetConfig") /\ Head(chan) \in SetEvents /\ Head(chan) \notin ConnectEvents
    BY <1>1, EventKinds DEF SetConfig
<1>3. After(SetEvents, 0) /\ Head(chan) \notin UnsetEvents
    BY <1>1, <1>2, AfterHead DEF SInv, SetsConfigs
<1>4. ConnectFollows'
    BY <1>1, <1>2, <1>3, LastReceive DEF SInv, ConnectFollows, SetConfig, tasks, history, orders
<1>5. SetsConfigs'
    BY <1>1, <1>2, AfterHead DEF SInv, SetsConfigs, SetConfig, tasks
<1>6. Unconfigured'
    BY <1>1, <1>3, EventKinds DEF SInv, Unconfigured, SetConfig
<1>7. QED
    BY <1>4, <1>5, <1>6 DEF SInv

\* The radio connects, or has nothing to connect to, or waits.
LEMMA RadioSInv ==
    ASSUME SInv, CInv', UNCHANGED <<chan, pc, req, config, cut>>,
           link' = config \/ (handler # "connecting" /\ UNCHANGED link)
    PROVE  SInv'
<1>1. \A K, L, i : (After(K, i)' <=> After(K, i)) /\ (Last(K, L)' <=> Last(K, L))
    BY DEF After, Last
<1>2. QED
    BY <1>1 DEF SInv, ConnectFollows, SetsConfigs, Unconfigured

LEMMA HandlerSInv ==
    ASSUME RadioObeys, SInv, HandlerStep \/ LinkDrops
    PROVE  SInv'
<1>1. CInv'
    BY HandlerStepCInv DEF SInv
<1>2. CASE GetStatus \/ GetFlashData
    BY <1>1, <1>2, ReceiveSInv DEF GetStatus, GetFlashData, Reply, radio, history, orders
<1>3. CASE SetConfig
    BY <1>1, <1>3, SetConfigSInv
<1>4. CASE WriteConfigToFlash
    BY <1>1, <1>4, ReceiveSInv DEF WriteConfigToFlash, tasks, radio, Observe, orders
<1>5. CASE Connect
    BY <1>1, <1>5, ReceiveSInv DEF Connect, tasks, history, orders
<1>6. CASE Connected \/ Settled
    BY <1>1, <1>6, RadioSInv DEF Connected, Settled, tasks, Observe, history, orders
<1>7. CASE ConnectFails
    BY <1>1, <1>7, RadioSInv DEF ConnectFails, tasks, RadioObeys, SInv, Unconfigured, Observe, orders
<1>8. ~LinkDrops
    BY DEF LinkDrops, RadioObeys
<1>9. QED
    BY <1>2, <1>3, <1>4, <1>5, <1>6, <1>7, <1>8 DEF HandlerStep

LEMMA NextSInv == ASSUME RadioObeys PROVE SInv /\ [Next]_vars => SInv'
<1> SUFFICES ASSUME SInv, [Next]_vars PROVE SInv'
    OBVIOUS
<1>1. CASE UNCHANGED vars
    <2>1. \A t \in Tasks : /\ pc[t] = "Connect" => pc'[t] = "Connect"
                           /\ pc'[t] = "SetConfig" => req'[t].cfg \in Configs
        BY <1>1 DEF vars, SInv, SetsConfigs
    <2>2. QED
        BY <1>1, <2>1, StutterCInv, RequestSInv DEF vars, radio, SInv
<1>2. QED
    BY <1>1, PowerSInv, TaskStepSInv, HandlerSInv DEF Next, PowerStep, TaskStep

\* While the radio obeys, for any number of tasks and whatever they set at the
\* same time: once every order is carried out the station is in the network
\* that was configured last, power failures included and timeouts too, but for
\* one between the two sends that no later Connect has made up for.
THEOREM StationFollowsConfigTheorem ==
    ASSUME RadioObeys
    PROVE  Spec => []StationFollowsConfig
<1>1. SInv => StationFollowsConfig
    <2> SUFFICES ASSUME SInv, chan = <<>>, handler # "connecting", ~cut,
                        \A t \in Tasks : pc[t] \notin {"SetConfig", "Connect"}
                 PROVE  link = config
        BY DEF StationFollowsConfig
    <2>1. ~Last(ConnectEvents, SetEvents)
        BY EmptyAfter, LastIsThere DEF SInv, CInv
    <2>2. QED
        BY <2>1 DEF SInv, ConnectFollows
<1>2. SInv /\ [Next]_vars => SInv'
    BY NextSInv
<1>3. QED
    BY <1>1, <1>2, InitSInv, PTL DEF Spec

---------------------------------------------------------------------------
\* What the readers of the stored configuration get.

ReadEvents == [cmd : {"GetFlashData"}, cfg : Contents]
\* The writes that save() carries out, those of contents in D, and the others.
WriteEvents == [cmd : {"WriteConfigToFlash"}, cfg : Fits]
WritesOf(D) == {e \in WriteEvents : e.cfg \in D}
Stale(D) == {e \in WriteEvents : e.cfg \notin D}

\* c is the last write in the channel, or in the flash and no write is queued.
Stored(c) ==
    \/ Last(WritesOf({c}), WriteEvents)
    \/ flash = c /\ ~After(WriteEvents, 0)

\* The flash holds a content in D when a read is answered, now or later: it
\* does already, or it will before the first read in the channel, and from then
\* on only contents in D are written.
Covers(D) ==
    \/ flash \in D /\ ~After(Stale(D), 0)
    \/ \E p \in DOMAIN chan :
           /\ chan[p] \in WritesOf(D) /\ ~After(Stale(D), p)
           /\ \A i \in DOMAIN chan : chan[i] \in ReadEvents => i > p

Reading == {t \in Asking : req[t].op = "get-flash-data"}

RInv ==
    /\ CInv /\ Stored(saved) /\ Covers(recent)
    /\ \A t \in Reading : Covers(due[t]) /\ value["FLASH_DATA"] \in due[t] \cup {Nothing}

LEMMA AccessKinds ==
    ASSUME NEW e \in [cmd : Commands, cfg : Contents]
    PROVE  /\ e \in ReadEvents <=> e.cmd = "GetFlashData"
           /\ e \in WriteEvents <=> e.cmd = "WriteConfigToFlash" /\ e.cfg \in Fits
BY DEF ReadEvents, WriteEvents

\* What receiving an event does to the flash.
Writes == flash' = IF Head(chan) \in WriteEvents THEN Head(chan).cfg ELSE flash

LEMMA CoversAppend ==
    ASSUME TypeOK, NEW e, Appends(e), UNCHANGED flash, NEW D, NEW E, Covers(D), D \subseteq E,
           e \in WriteEvents => e.cfg \in E
    PROVE  Covers(E)'
<1>1. /\ Len(chan) \in Nat /\ DOMAIN chan = 1 .. Len(chan)
      /\ DOMAIN chan' = 1 .. Len(chan) + 1 /\ chan'[Len(chan) + 1] = e
      /\ \A i \in 1 .. Len(chan) : chan'[i] = chan[i]
    BY Appended
<1>2. Stale(E) \subseteq Stale(D) /\ WritesOf(D) \subseteq WritesOf(E) /\ e \notin Stale(E)
    BY DEF Stale, WritesOf
<1>3. ASSUME NEW i \in 0 .. Len(chan), ~After(Stale(D), i) PROVE ~After(Stale(E), i)'
    <2>1. ~After(Stale(E), i)
        BY <1>2, <1>3 DEF After
    <2>2. QED
        BY <1>2, <2>1, AfterAppend
<1>4. CASE flash \in D /\ ~After(Stale(D), 0)
    <2>1. 0 \in 0 .. Len(chan)
        BY <1>1
    <2>2. QED
        BY <1>3, <1>4, <2>1 DEF Covers
<1>5. ASSUME NEW p \in DOMAIN chan, chan[p] \in WritesOf(D), ~After(Stale(D), p),
             \A i \in DOMAIN chan : chan[i] \in ReadEvents => i > p
      PROVE  Covers(E)'
    <2>1. p \in 0 .. Len(chan) /\ p \in DOMAIN chan' /\ chan'[p] \in WritesOf(E)
        BY <1>1, <1>2, <1>5
    <2>2. \A i \in DOMAIN chan' : chan'[i] \in ReadEvents => i > p
        BY <1>1, <1>5, <2>1
    <2>3. QED
        BY <1>3, <1>5, <2>1, <2>2 DEF Covers
<1>6. QED
    BY <1>4, <1>5 DEF Covers

LEMMA CoversReceive ==
    ASSUME TypeOK, NEW cmd, Receive(cmd), Writes, NEW D, Covers(D)
    PROVE  Covers(D)'
<1>1. /\ Len(chan) \in Nat \ {0} /\ DOMAIN chan = 1 .. Len(chan)
      /\ DOMAIN chan' = 1 .. Len(chan) - 1 /\ Head(chan) = chan[1]
      /\ \A i \in 1 .. Len(chan) - 1 : chan'[i] = chan[i + 1]
    BY Received
<1>2. CASE flash \in D /\ ~After(Stale(D), 0)
    <2>1. Head(chan) \notin Stale(D) /\ ~After(Stale(D), 0)'
        BY <1>2, AfterHead
    <2>2. QED
        BY <1>2, <2>1 DEF Covers, Stale, Writes
<1>3. ASSUME NEW p \in DOMAIN chan, chan[p] \in WritesOf(D), ~After(Stale(D), p),
             \A i \in DOMAIN chan : chan[i] \in ReadEvents => i > p
      PROVE  Covers(D)'
    <2>1. CASE p = 1
        <3>1. flash' \in D
            BY <1>1, <1>3, <2>1 DEF Writes, WritesOf
        <3>2. ~After(Stale(D), 0)'
            BY <1>3, <2>1, AfterReceive
        <3>3. QED
            BY <3>1, <3>2 DEF Covers
    <2>2. CASE p # 1
        <3>1. p - 1 \in DOMAIN chan' /\ (p - 1) + 1 = p /\ p - 1 \in Nat
            BY <1>1, <2>2
        <3>2. chan'[p - 1] \in WritesOf(D) /\ ~After(Stale(D), p - 1)'
            BY <1>1, <1>3, <3>1, AfterReceive
        <3>3. ASSUME NEW i \in DOMAIN chan', chan'[i] \in ReadEvents PROVE i > p - 1
            <4>1. i + 1 \in DOMAIN chan /\ chan[i + 1] \in ReadEvents
                BY <1>1, <3>3
            <4>2. QED
                BY <1>1, <1>3, <4>1
        <3>4. QED
            BY <3>1, <3>2, <3>3 DEF Covers
    <2>3. QED
        BY <2>1, <2>2
<1>4. QED
    BY <1>2, <1>3 DEF Covers

\* A read that is received now finds a content in D.
LEMMA CoversRead ==
    ASSUME TypeOK, Receive("GetFlashData"), NEW D, Covers(D)
    PROVE  flash \in D
<1>1. DOMAIN chan = 1 .. Len(chan) /\ Len(chan) \in Nat \ {0} /\ Head(chan) = chan[1]
    BY Received
<1>2. chan[1] \in ReadEvents
    BY <1>1, ReceiveType, AccessKinds DEF Receive
<1>3. ~\E p \in DOMAIN chan : \A i \in DOMAIN chan : chan[i] \in ReadEvents => i > p
    BY <1>1, <1>2
<1>4. QED
    BY <1>3 DEF Covers

\* Without reads on their way, the last write is all that matters.
LEMMA StoredCovers ==
    ASSUME TypeOK, NEW c, Stored(c), \A i \in DOMAIN chan : chan[i].cmd # "GetFlashData"
    PROVE  Covers({c})
<1>1. \A i \in DOMAIN chan : chan[i] \notin ReadEvents
    BY DEF ReadEvents
<1>2. \A i : ~After(WriteEvents, i) => ~After(Stale({c}), i)
    BY DEF After, Stale
<1>3. QED
    BY <1>1, <1>2 DEF Stored, Covers, Last

LEMMA StoredAppend ==
    ASSUME TypeOK, NEW e, Appends(e), UNCHANGED flash, NEW c,
           IF e \in WriteEvents THEN e.cfg = c ELSE Stored(c)
    PROVE  Stored(c)'
<1>1. CASE e \in WriteEvents
    <2>1. e \in WritesOf({c})
        BY <1>1 DEF WritesOf
    <2>2. QED
        BY <2>1, LastAppend DEF Stored
<1>2. CASE e \notin WriteEvents
    <2>1. 0 \in 0 .. Len(chan)
        BY Appended
    <2>2. ~After(WriteEvents, 0) => ~After(WriteEvents, 0)'
        BY <1>2, <2>1, AfterAppend
    <2>3. Last(WritesOf({c}), WriteEvents) => Last(WritesOf({c}), WriteEvents)'
        BY <1>2, LastAppend
    <2>4. QED
        BY <1>2, <2>2, <2>3 DEF Stored
<1>3. QED
    BY <1>1, <1>2

LEMMA StoredReceive ==
    ASSUME TypeOK, NEW cmd, Receive(cmd), Writes, NEW c, Stored(c)
    PROVE  Stored(c)'
<1>1. CASE Last(WritesOf({c}), WriteEvents)
    <2>1. \/ Last(WritesOf({c}), WriteEvents)'
          \/ Head(chan) \in WritesOf({c}) /\ ~After(WriteEvents, 0)'
        BY <1>1, LastReceive
    <2>2. Head(chan) \in WritesOf({c}) => flash' = c
        BY DEF WritesOf, Writes
    <2>3. QED
        BY <2>1, <2>2 DEF Stored
<1>2. CASE flash = c /\ ~After(WriteEvents, 0)
    BY <1>2, AfterHead DEF Stored, Writes
<1>3. QED
    BY <1>1, <1>2 DEF Stored

---------------------------------------------------------------------------

LEMMA QuietReads ==
    ASSUME RInv, CInv', UNCHANGED <<chan, flash, saved, recent>>, Reading' \subseteq Reading,
           \A t \in Reading' : due'[t] = due[t],
           value'["FLASH_DATA"] \in {Nothing, value["FLASH_DATA"]}
    PROVE  RInv'
<1>1. \A K, i : After(K, i)' <=> After(K, i)
    BY DEF After
<1>2. \A D : Covers(D) => Covers(D)'
    BY <1>1 DEF Covers
<1>3. Stored(saved)' /\ Covers(recent)'
    BY <1>1 DEF RInv, Stored, Covers, Last
<1>4. ASSUME NEW t \in Reading' PROVE Covers(due[t])' /\ value'["FLASH_DATA"] \in due'[t] \cup {Nothing}
    <2>1. PICK D : D = due[t]
        OBVIOUS
    <2>2. Covers(D) /\ value["FLASH_DATA"] \in D \cup {Nothing} /\ due'[t] = D
        BY <2>1, <1>4 DEF RInv
    <2>3. Covers(due[t])' <=> Covers(D)'
        BY <2>2 DEF Covers
    <2>4. QED
        BY <1>2, <2>2, <2>3
<1>5. QED
    BY <1>3, <1>4 DEF RInv

\* An event is sent; if it is a write, everyone who asks may see it.
LEMMA AppendReads ==
    ASSUME RInv, CInv', NEW e, Appends(e), UNCHANGED flash, Reading' \subseteq Reading,
           value'["FLASH_DATA"] \in {Nothing, value["FLASH_DATA"]},
           NEW C, C = IF e \in WriteEvents THEN {e.cfg} ELSE {},
           saved' = IF e \in WriteEvents THEN e.cfg ELSE saved,
           recent' = recent \cup C, \A t \in Reading' : due'[t] = due[t] \cup C
    PROVE  RInv'
<1>1. TypeOK
    BY DEF RInv, CInv
<1>2. Stored(saved)'
    <2>1. PICK c : c = saved'
        OBVIOUS
    <2>2. Stored(c)'
        <3>1. e \notin WriteEvents => Stored(c)
            BY <2>1 DEF RInv
        <3>2. QED
            BY <1>1, <2>1, <3>1, StoredAppend
    <2>3. QED
        BY <2>1, <2>2 DEF Stored
<1>3. ASSUME NEW D, Covers(D) PROVE Covers(D \cup C)'
    BY <1>1, <1>3, CoversAppend
<1>4. Covers(recent)'
    <2>1. PICK D : D = recent
        OBVIOUS
    <2>2. Covers(D \cup C)' /\ recent' = D \cup C
        BY <1>3, <2>1 DEF RInv
    <2>3. QED
        BY <2>2 DEF Covers
<1>5. ASSUME NEW t \in Reading' PROVE Covers(due[t])' /\ value'["FLASH_DATA"] \in due'[t] \cup {Nothing}
    <2>1. PICK D : D = due[t]
        OBVIOUS
    <2>2. Covers(D) /\ value["FLASH_DATA"] \in D \cup {Nothing} /\ due'[t] = D \cup C
        BY <2>1, <1>5 DEF RInv
    <2>3. Covers(D \cup C)'
        BY <1>3, <2>2
    <2>4. Covers(due[t])'
        BY <2>2, <2>3 DEF Covers
    <2>5. QED
        BY <2>2, <2>4
<1>6. QED
    BY <1>2, <1>4, <1>5 DEF RInv

LEMMA ReceiveReads ==
    ASSUME RInv, CInv', NEW cmd, Receive(cmd), Writes, UNCHANGED <<pc, req, saved, recent, due>>,
           value'["FLASH_DATA"] = IF cmd = "GetFlashData" THEN flash ELSE value["FLASH_DATA"]
    PROVE  RInv'
<1>1. TypeOK
    BY DEF RInv, CInv
<1>2. Stored(saved)'
    <2>1. PICK c : c = saved
        OBVIOUS
    <2>2. Stored(c)'
        BY <1>1, <2>1, StoredReceive DEF RInv
    <2>3. QED
        BY <2>1, <2>2 DEF Stored
<1>3. Covers(recent)'
    <2>1. PICK D : D = recent
        OBVIOUS
    <2>2. Covers(D)'
        BY <1>1, <2>1, CoversReceive DEF RInv
    <2>3. QED
        BY <2>1, <2>2 DEF Covers
<1>4. ASSUME NEW t \in Reading' PROVE Covers(due[t])' /\ value'["FLASH_DATA"] \in due'[t] \cup {Nothing}
    <2>1. PICK D : D = due[t]
        OBVIOUS
    <2>2. Covers(D) /\ value["FLASH_DATA"] \in D \cup {Nothing}
        BY <1>4, <2>1 DEF RInv, Reading, Asking
    <2>3. Covers(due[t])'
        <3>1. Covers(D)'
            BY <1>1, <2>2, CoversReceive
        <3>2. QED
            BY <2>1, <3>1 DEF Covers
    <2>4. cmd = "GetFlashData" => flash \in D
        BY <1>1, <2>2, CoversRead
    <2>5. QED
        BY <2>1, <2>2, <2>3, <2>4
<1>5. QED
    BY <1>2, <1>3, <1>4 DEF RInv

LEMMA InitRInv == Init => RInv
<1> SUFFICES ASSUME Init PROVE RInv
    OBVIOUS
<1>1. \A K : ~After(K, 0)
    BY EmptyAfter DEF Init
<1>2. Reading = {}
    BY DEF Init, Reading, Asking
<1>3. QED
    BY <1>1, <1>2, InitCInv DEF Init, RInv, Stored, Covers

LEMMA PowerReads == ASSUME RInv, PowerStep PROVE RInv'
<1>1. CInv' /\ Reading' = {} /\ saved' = flash' /\ recent' = {flash'}
    BY PowerStepCInv
    DEF RInv, PowerStep, Boot, PowerLoss, PowerLossWhileSaving, Blank, Reading, Asking
<1>2. chan' = <<>> \/ (DOMAIN chan' = {1} /\ chan'[1] = Event("Connect", NoConfig))
    BY DEF PowerStep, Boot, PowerLoss, PowerLossWhileSaving
<1>3. ASSUME NEW K, K \subseteq WriteEvents PROVE ~After(K, 0)'
    BY <1>2, <1>3 DEF After, WriteEvents, Event
<1>4. \A D : Stale(D) \subseteq WriteEvents
    BY DEF Stale
<1>5. Stored(saved)'
    BY <1>1, <1>3 DEF Stored
<1>6. Covers(recent)'
    <2>1. PICK D : D = recent'
        OBVIOUS
    <2>2. ~After(Stale(D), 0)' /\ flash' \in D
        BY <1>1, <1>3, <1>4, <2>1
    <2>3. QED
        BY <2>1, <2>2 DEF Covers, After, Stale
<1>7. QED
    BY <1>1, <1>5, <1>6 DEF RInv

LEMMA AskReads == ASSUME RInv, NEW t \in Tasks, Ask(t) PROVE RInv'
<1>1. CInv' /\ TypeOK
    BY AskCInv DEF RInv, CInv
<1>2. /\ UNCHANGED <<chan, flash, saved>> /\ pc[t] = "idle"
      /\ due' = [due EXCEPT ![t] = recent']
      /\ recent' = IF \E i \in DOMAIN chan : chan[i].cmd = "GetFlashData" THEN recent ELSE {saved}
    BY DEF Ask, Await
<1>3. \A K, i : After(K, i)' <=> After(K, i)
    BY <1>2 DEF After
<1>4. \A D : Covers(D)' <=> Covers(D)
    BY <1>2, <1>3 DEF Covers
<1>5. PICK R : R = recent'
    OBVIOUS
<1>6. Covers(R)
    BY <1>1, <1>2, <1>5, StoredCovers DEF RInv
<1>7. Covers(R)' /\ Covers(recent)'
    BY <1>4, <1>5, <1>6 DEF Covers
<1>8. Stored(saved)'
    BY <1>2, <1>3 DEF RInv, Stored, Last
<1>9. \E s \in Signals : SignalOf(t)' = s /\ value' = [value EXCEPT ![s] = Nothing]
    BY AskResets DEF RInv, Resets
<1>10. ASSUME NEW u \in Reading' PROVE Covers(due[u])' /\ value'["FLASH_DATA"] \in due'[u] \cup {Nothing}
    <2>1. CASE u = t
        <3>1. SignalOf(t)' = "FLASH_DATA"
            BY <2>1 DEF Reading, SignalOf
        <3>2. value'["FLASH_DATA"] = Nothing
            BY <1>1, <1>9, <3>1 DEF TypeOK, Signals
        <3>3. due'[u] = R
            BY <1>1, <1>2, <1>5, <2>1 DEF TypeOK
        <3>4. QED
            BY <1>7, <3>2, <3>3 DEF Covers
    <2>2. CASE u # t
        <3>1. u \in Reading
            BY <1>1, <2>2 DEF Ask, Await, Goto, Reading, Asking, TypeOK
        <3>2. due'[u] = due[u] /\ value'["FLASH_DATA"] \in {Nothing, value["FLASH_DATA"]}
            BY <1>1, <1>2, <1>9, <2>2, <3>1 DEF TypeOK, Reading, Asking, Signals
        <3>3. PICK D : D = due[u]
            OBVIOUS
        <3>4. Covers(D)' /\ due'[u] = D
            BY <1>4, <3>1, <3>2, <3>3 DEF RInv
        <3>5. Covers(due[u])'
            BY <3>4 DEF Covers
        <3>6. QED
            BY <3>1, <3>2, <3>5 DEF RInv
    <2>3. QED
        BY <2>1, <2>2
<1>11. QED
    BY <1>1, <1>7, <1>8, <1>10 DEF RInv

LEMMA SendReads == ASSUME RInv, NEW t \in Tasks, Send(t) PROVE RInv'
<1>1. CInv' /\ TypeOK
    BY SendCInv DEF RInv, CInv
<1>2. PICK e : e = Command(t)
    OBVIOUS
<1>3. Appends(e) /\ UNCHANGED <<flash, value>>
    BY <1>2 DEF Send, Sent, Appends, signal
<1>4. /\ e \in [cmd : Commands, cfg : Contents]
      /\ e.cmd = pc[t] /\ (pc[t] = "WriteConfigToFlash" => e.cfg = req[t].cfg)
    BY <1>1, <1>2, CommandType DEF Send, SendPhases, Command, Event
<1>5. e \in WriteEvents <=> Confirms(t)
    BY <1>4, AccessKinds DEF Confirms
<1>6. pc[t] \notin {"ask", "wait"} /\ Reading' \subseteq Reading
    BY <1>1 DEF Send, Sent, SendPhases, Finish, Goto, Reading, Asking, TypeOK
<1>7. PICK C : C = IF e \in WriteEvents THEN {e.cfg} ELSE {}
    OBVIOUS
<1>8. /\ saved' = IF e \in WriteEvents THEN e.cfg ELSE saved
      /\ recent' = recent \cup C
    BY <1>4, <1>5, <1>7 DEF Send, Sent, Confirms
<1>9. \A u \in Reading' : due'[u] = due[u] \cup C
    <2>1. \A u \in Reading' : u \in Tasks /\ u \in Asking
        BY <1>6 DEF Reading, Asking
    <2>2. QED
        BY <1>4, <1>5, <1>7, <2>1 DEF Send, Sent, Confirms
<1>10. QED
    BY <1>1, <1>3, <1>6, <1>7, <1>8, <1>9, AppendReads

\* A task that takes an answer, waits on or goes away.
LEMMA EndsReading ==
    ASSUME RInv, CInv', NEW t \in Tasks, TaskStep(t), ~Order(t), ~Ask(t), ~Send(t)
    PROVE  /\ Reading' \subseteq Reading /\ \A u \in Reading' : due'[u] = due[u]
           /\ value'["FLASH_DATA"] \in {Nothing, value["FLASH_DATA"]}
           /\ UNCHANGED <<flash, saved, recent>>
<1>1. TypeOK /\ SignalOf(t) \in Signals
    BY DEF RInv, CInv, SignalOf, Signals
<1>2. CASE (SendQuestion(t) \/ Poll(t) \/ Timeout(t)) /\ Take(t)
    BY <1>1, <1>2
    DEF SendQuestion, Poll, Timeout, Take, Finish, Expected, Goto, Reading, Asking, TypeOK, Signals,
        orders
<1>3. CASE (SendQuestion(t) \/ Poll(t)) /\ Register(t)
    BY <1>1, <1>3
    DEF SendQuestion, Poll, Register, Goto, Reading, Asking, TypeOK, expected, orders
<1>4. CASE Timeout(t) /\ Finish(t) /\ Expected(t) /\ UNCHANGED signal
    BY <1>1, <1>4
    DEF Timeout, Finish, Expected, Goto, Reading, Asking, TypeOK, signal
<1>5. QED
    BY <1>2, <1>3, <1>4 DEF TaskStep, SendQuestion, Poll, Timeout

LEMMA TaskStepReads == ASSUME RInv, NEW t \in Tasks, TaskStep(t) PROVE RInv'
<1>1. CInv' /\ TypeOK /\ CInv
    BY TaskStepCInv DEF RInv, CInv
<1>2. CASE Order(t)
    BY <1>1, <1>2, QuietReads
    DEF Order, Goto, Reading, Asking, TypeOK, signal, history, expected, orders
<1>3. CASE SendQuestion(t) /\ ~Order(t) /\ ~Ask(t) /\ ~Send(t)
    <2>1. PICK e : e = Command(t)
        OBVIOUS
    <2>2. Appends(e) /\ pc[t] = "ask"
        BY <1>3, <2>1 DEF SendQuestion, Appends
    <2>3. e \notin WriteEvents
        BY <2>1, <2>2 DEF Command, Question, Event, WriteEvents
    <2>4. PICK C : C = {}
        OBVIOUS
    <2>5. QED
        BY <1>1, <1>3, <2>2, <2>3, <2>4, EndsReading, AppendReads
<1>4. CASE (Poll(t) \/ Timeout(t)) /\ ~Order(t) /\ ~Ask(t) /\ ~Send(t)
    <2>1. UNCHANGED chan
        BY <1>4 DEF Poll, Timeout
    <2>2. QED
        BY <1>1, <1>4, <2>1, EndsReading, QuietReads
<1>5. QED
    BY <1>2, <1>3, <1>4, AskReads, SendReads DEF TaskStep

LEMMA HandlerReads == ASSUME RInv, HandlerStep \/ LinkDrops PROVE RInv'
<1>1. CInv' /\ TypeOK
    BY HandlerStepCInv DEF RInv, CInv
<1>2. ASSUME NEW cmd \in {"GetStatus", "GetFlashData", "SetConfig", "Connect"}, Receive(cmd),
             UNCHANGED flash
      PROVE  Writes
    BY <1>2 DEF Receive, Writes, WriteEvents
<1>3. CASE GetStatus
    <2>1. value'["FLASH_DATA"] = value["FLASH_DATA"]
        BY <1>1, <1>3 DEF GetStatus, Reply, SignalAnswer, TypeOK, Signals
    <2>2. QED
        BY <1>1, <1>2, <1>3, <2>1, ReceiveReads
        DEF GetStatus, Reply, history, expected, orders
<1>4. CASE GetFlashData
    <2>1. value'["FLASH_DATA"] = flash
        BY <1>1, <1>4 DEF GetFlashData, Reply, SignalAnswer, Answer, TypeOK, Signals
    <2>2. QED
        BY <1>1, <1>2, <1>4, <2>1, ReceiveReads
        DEF GetFlashData, Reply, history, expected, orders
<1>5. CASE SetConfig \/ Connect
    BY <1>1, <1>2, <1>5, ReceiveReads
    DEF SetConfig, Connect, signal, tasks, history, expected, orders
<1>6. CASE WriteConfigToFlash
    <2>1. Head(chan) \in [cmd : Commands, cfg : Contents] /\ Head(chan).cmd = "WriteConfigToFlash"
        BY <1>1, <1>6, ReceiveType DEF WriteConfigToFlash, Receive
    <2>2. Writes
        BY <1>6, <2>1, AccessKinds DEF WriteConfigToFlash, Writes
    <2>3. QED
        BY <1>1, <1>6, <2>2, ReceiveReads DEF WriteConfigToFlash, Observe, signal, tasks, orders
<1>7. CASE Connected \/ ConnectFails \/ Settled \/ LinkDrops
    BY <1>1, <1>7, QuietReads
    DEF Connected, ConnectFails, Settled, LinkDrops, Observe, Reading, Asking, signal, tasks,
        history, expected, orders
<1>8. QED
    BY <1>3, <1>4, <1>5, <1>6, <1>7 DEF HandlerStep

LEMMA NextRInv == RInv /\ [Next]_vars => RInv'
<1> SUFFICES ASSUME RInv, [Next]_vars PROVE RInv'
    OBVIOUS
<1>1. CASE UNCHANGED vars
    <2>1. CInv'
        BY <1>1, StutterCInv DEF RInv
    <2>2. QED
        BY <1>1, <2>1, QuietReads DEF vars, Reading, Asking
<1>2. QED
    BY <1>1, PowerReads, TaskStepReads, HandlerReads DEF Next, PowerStep, TaskStep

\* For any number of readers and writers, any capacity and any hazards: what a
\* read returns is no older than the last configuration that was confirmed
\* before the reads that were then on their way were asked for.
THEOREM ReadsSeeConfirmedWritesTheorem == Spec => []ReadsSeeConfirmedWrites
<1>1. RInv => ReadsSeeConfirmedWrites
    BY DEF RInv, Reading, ReadsSeeConfirmedWrites
<1>2. QED
    BY <1>1, InitRInv, NextRInv, PTL DEF Spec

\* A device that is off has neither requests nor commands.
OffIsEmpty == ~on => chan = <<>> /\ \A t \in Tasks : pc[t] = "idle"

LEMMA OffStep == OffIsEmpty /\ [Next]_vars => OffIsEmpty'
<1> SUFFICES ASSUME OffIsEmpty, [Next]_vars PROVE OffIsEmpty'
    OBVIOUS
<1>1. CASE PowerStep
    BY <1>1 DEF PowerStep, Boot, PowerLoss, PowerLossWhileSaving, Blank, OffIsEmpty
<1>2. ASSUME NEW t \in Tasks, TaskStep(t) PROVE OffIsEmpty'
    <2>1. on /\ on' = on
        BY <1>2 DEF TaskStep, Order, Ask, Send, Sent, SendQuestion, Poll, Timeout, SendPhases, OffIsEmpty
    <2>2. QED
        BY <2>1 DEF OffIsEmpty
<1>3. CASE HandlerStep \/ LinkDrops \/ UNCHANGED vars
    <2>1. UNCHANGED <<on, pc>> /\ (on \/ UNCHANGED chan)
        BY <1>3
        DEF HandlerStep, GetStatus, GetFlashData, Reply, SetConfig, WriteConfigToFlash, Connect,
            Connected, ConnectFails, Settled, LinkDrops, Receive, tasks, vars
    <2>2. QED
        BY <2>1 DEF OffIsEmpty
<1>4. QED
    BY <1>1, <1>2, <1>3 DEF Next, PowerStep, TaskStep

\* For any hazards: a confirmed configuration that fits leaves the channel only
\* into the flash, or when the power fails.
THEOREM ConfirmedUntilWrittenTheorem == Spec => ConfirmedUntilWritten
<1>1. TypeOK /\ OffIsEmpty /\ [Next]_vars =>
          [\A c \in Fits : Confirmed(c) /\ ~Confirmed(c)' => flash' = c \/ ~on']_vars
    <2> SUFFICES ASSUME TypeOK, OffIsEmpty, Next, NEW c \in Fits, Confirmed(c), ~Confirmed(c)'
                 PROVE  flash' = c \/ ~on'
        OBVIOUS
    <2> DEFINE e == Event("WriteConfigToFlash", c)
    <2>1. Queued(e) /\ ~Queued(e)'
        BY DEF Confirmed
    <2>2. ~UNCHANGED chan
        BY <2>1 DEF Queued
    <2>3. ASSUME NEW cmd, Receive(cmd) PROVE Head(chan) = e /\ cmd = "WriteConfigToFlash"
        <3>1. Head(chan) = e
            BY <2>1, <2>3, QueuedReceive
        <3>2. QED
            BY <2>3, <3>1 DEF Receive, Event
    <2>4. CASE PowerStep
        <3>1. ~Boot
            BY <2>1 DEF Boot, OffIsEmpty, Queued
        <3>2. QED
            BY <2>4, <3>1 DEF PowerStep, PowerLoss, PowerLossWhileSaving
    <2>5. ~\E t \in Tasks : TaskStep(t)
        BY <2>1, TaskStepQueues
    <2>6. CASE HandlerStep \/ LinkDrops
        <3>1. WriteConfigToFlash
            BY <2>2, <2>3, <2>6
            DEF HandlerStep, GetStatus, GetFlashData, Reply, SetConfig, Connect, Connected,
                ConnectFails, Settled, LinkDrops
        <3>2. Head(chan).cfg = c
            BY <2>3, <3>1 DEF WriteConfigToFlash, Event
        <3>3. QED
            BY <3>1, <3>2 DEF WriteConfigToFlash
    <2>7. QED
        BY <2>4, <2>5, <2>6 DEF Next, PowerStep, TaskStep
<1>2. Init => OffIsEmpty
    BY DEF Init, OffIsEmpty
<1>3. QED
    BY <1>1, <1>2, OffStep, ControlTypeCorrect, PTL DEF Spec, ConfirmedUntilWritten

\* For any hazards: the stored configuration disappears only in a power failure
\* that interrupts save().
THEOREM OnlyInterruptedSavesEraseTheorem == Spec => OnlyInterruptedSavesErase
<1>1. [Next]_vars => [flash # NoConfig /\ flash' = NoConfig => ~on']_vars
    <2> SUFFICES ASSUME Next, flash # NoConfig, flash' = NoConfig
                 PROVE  ~on'
        OBVIOUS
    <2>1. CASE PowerStep
        BY <2>1 DEF PowerStep, Boot, PowerLoss, PowerLossWhileSaving
    <2>2. ASSUME NEW t \in Tasks, TaskStep(t) PROVE UNCHANGED flash
        BY <2>2 DEF TaskStep, Order, Ask, Send, Sent, SendQuestion, Poll, Timeout
    <2>3. ~WriteConfigToFlash
        BY ControlAssumption DEF WriteConfigToFlash
    <2>4. CASE HandlerStep \/ LinkDrops
        BY <2>3, <2>4
        DEF HandlerStep, GetStatus, GetFlashData, Reply, SetConfig, Connect, Connected,
            ConnectFails, Settled, LinkDrops
    <2>5. QED
        BY <2>1, <2>2, <2>4 DEF Next, PowerStep, TaskStep
<1>2. QED
    BY <1>1, PTL DEF Spec, OnlyInterruptedSavesErase
=============================================================================
