---------------------------- MODULE ControlPlane ----------------------------
(***************************************************************************)
(* The Wi-Fi routes of actual/src/router.rs, the event handler of          *)
(* actual/src/event_handler.rs and the station configuration in flash.     *)
(* A route sends commands through EVENT_CHAN; /status, /print-alloc and    *)
(* /get-flash-data then wait for a static signal that all HTTP tasks       *)
(* share.  A signal keeps one value and the waker of one task.             *)
(***************************************************************************)
EXTENDS Naturals, Sequences

CONSTANTS
    Tasks,      \* the HTTP tasks
    NoTask,     \* no waker is registered
    Configs,    \* what clients send: a network name and its password
    Fits,       \* those that postcard serialises into 256 bytes
    NoConfig,   \* erased flash, or a station that is not connected
    Nothing,    \* a signal without a value
    Asks,       \* the routes each task's clients use
    Capacity,   \* the capacity of EVENT_CHAN (2 in the code)
    Hazards     \* what may go wrong, a subset of HazardKinds

HazardKinds == {"timeout",  \* the 10 s with_timeout around serve() expires
                "wifi",     \* the radio refuses, or the link drops
                "power"}    \* the device loses its power

Signals == {"STATUS", "FLASH_DATA"}
Questions == {"status", "get-flash-data"}   \* /print-alloc asks as /status does
Orders == {"set-config", "write-to-flash"}

ASSUME ControlAssumption ==
    /\ NoTask \notin Tasks
    /\ Fits \subseteq Configs /\ NoConfig \notin Configs
    /\ Nothing \notin Configs \cup {NoConfig}
    /\ Asks \in [Tasks -> SUBSET (Questions \cup Orders)]
    /\ Capacity \in Nat \ {0}
    /\ Hazards \subseteq HazardKinds

VARIABLES
    on,         \* the device runs
    chan,       \* EVENT_CHAN
    value,      \* the value in each signal
    waker,      \* the task each signal will wake
    woken,      \* waiting tasks that the executor is going to poll
    pc,         \* where each task's request is suspended
    req,        \* the request each task serves
    handler,    \* where event_handler_task is suspended
    config,     \* the station configuration of the Wi-Fi controller
    link,       \* the network the station is connected to
    flash,      \* what StaConfigManager::load would return
    seen,       \* history: what a question could have been answered so far
    saved,      \* history: the last fitting configuration confirmed as written
    recent,     \* history: those confirmed since the reads in EVENT_CHAN were asked
    due,        \* history: what each reader of the stored configuration may get
    cut         \* history: a timeout after the last SetConfig kept back its Connect

vars == <<on, chan, value, waker, woken, pc, req, handler, config, link, flash,
          seen, saved, recent, due, cut>>
signal == <<value, waker>>
tasks == <<pc, req, woken>>
radio == <<handler, config, link>>
expected == <<seen, due>>
orders == <<saved, recent, cut>>
history == <<expected, orders>>

Contents == Configs \cup {NoConfig}
Commands == {"SetConfig", "Connect", "WriteConfigToFlash", "GetStatus", "GetFlashData"}
Event(cmd, c) == [cmd |-> cmd, cfg |-> c]
SendPhases == {"SetConfig", "Connect", "WriteConfigToFlash", "ask"}
Asking == {t \in Tasks : pc[t] \in {"ask", "wait"}}
Waiting == {t \in Tasks : pc[t] = "wait"}

\* A request has sent e, and event_handler_task has not received it.
Queued(e) == \E i \in DOMAIN chan : chan[i] = e

SignalOf(t) == IF req[t].op = "status" THEN "STATUS" ELSE "FLASH_DATA"
\* What event_handler_task puts into a signal.
Answer(s) == IF s = "STATUS" THEN link ELSE flash

TypeOK ==
    /\ on \in BOOLEAN
    /\ chan \in Seq([cmd : Commands, cfg : Contents]) /\ Len(chan) <= Capacity
    /\ value \in [Signals -> Contents \cup {Nothing}]
    /\ waker \in [Signals -> Tasks \cup {NoTask}]
    /\ woken \subseteq Waiting
    /\ pc \in [Tasks -> SendPhases \cup {"idle", "wait"}]
    /\ req \in [Tasks -> [op : Questions \cup Orders, cfg : Contents]]
    /\ handler \in {"select", "connecting", "settling"}
    /\ config \in Contents /\ link \in Contents /\ flash \in Contents
    /\ seen \in [Tasks -> SUBSET Contents] /\ due \in [Tasks -> SUBSET Contents]
    /\ saved \in Contents /\ recent \subseteq Contents /\ cut \in BOOLEAN

NoRequest == [op |-> "status", cfg |-> NoConfig]

\* The volatile state of a device that is off, and of one that just started.
Blank ==
    /\ value' = [s \in Signals |-> Nothing] /\ waker' = [s \in Signals |-> NoTask]
    /\ woken' = {} /\ pc' = [t \in Tasks |-> "idle"] /\ req' = [t \in Tasks |-> NoRequest]
    /\ handler' = "select" /\ link' = NoConfig
    /\ seen' = [t \in Tasks |-> {}] /\ due' = [t \in Tasks |-> {}]
    /\ saved' = flash' /\ recent' = {flash'} /\ cut' = FALSE

Init ==
    /\ on = FALSE /\ chan = <<>> /\ config = NoConfig /\ flash = NoConfig
    /\ value = [s \in Signals |-> Nothing] /\ waker = [s \in Signals |-> NoTask]
    /\ woken = {} /\ pc = [t \in Tasks |-> "idle"] /\ req = [t \in Tasks |-> NoRequest]
    /\ handler = "select" /\ link = NoConfig
    /\ seen = [t \in Tasks |-> {}] /\ due = [t \in Tasks |-> {}]
    /\ saved = NoConfig /\ recent = {NoConfig} /\ cut = FALSE

\* main(): the stored configuration is loaded, and Connect is queued before
\* event_handler_task and the HTTP tasks are spawned.  A start that panics
\* (main.rs:113 and 115 unwrap what the radio returns) leaves the device off.
Boot ==
    /\ ~on /\ on' = TRUE
    /\ config' = flash /\ UNCHANGED flash
    /\ chan' = IF flash = NoConfig THEN <<>> ELSE <<Event("Connect", NoConfig)>>
    /\ Blank

PowerLoss ==
    /\ on /\ "power" \in Hazards
    /\ on' = FALSE /\ chan' = <<>> /\ config' = NoConfig /\ UNCHANGED flash
    /\ Blank

---------------------------------------------------------------------------
\* The routes

Goto(t, phase) == pc' = [pc EXCEPT ![t] = phase]

\* /set-config and /write-to-flash carry a configuration.
Order(t) ==
    /\ on /\ pc[t] = "idle"
    /\ \E op \in Orders \cap Asks[t], c \in Configs :
           /\ req' = [req EXCEPT ![t] = [op |-> op, cfg |-> c]]
           /\ Goto(t, IF op = "set-config" THEN "SetConfig" ELSE "WriteConfigToFlash")
    /\ UNCHANGED <<on, chan, signal, woken, radio, flash, history>>

\* A read that is queued may be answered before what was confirmed after it.
Await(t) ==
    /\ Goto(t, "ask")
    /\ recent' = IF \E i \in DOMAIN chan : chan[i].cmd = "GetFlashData" THEN recent ELSE {saved}
    /\ due' = [due EXCEPT ![t] = recent']
    /\ UNCHANGED <<saved, cut>>

\* Mutant: the signal is not reset.
AskUnreset(t) ==
    /\ on /\ pc[t] = "idle"
    /\ \E op \in Questions \cap Asks[t] :
           LET s == IF op = "status" THEN "STATUS" ELSE "FLASH_DATA" IN
           /\ req' = [req EXCEPT ![t] = [op |-> op, cfg |-> NoConfig]]
           /\ seen' = [seen EXCEPT ![t] = {Answer(s)}]
    /\ Await(t)
    /\ UNCHANGED <<on, chan, signal, woken, radio, flash>>

\* The signal is reset: its value and the waker in it are gone.
Ask(t) ==
    /\ on /\ pc[t] = "idle"
    /\ \E op \in Questions \cap Asks[t] :
           LET s == IF op = "status" THEN "STATUS" ELSE "FLASH_DATA" IN
           /\ req' = [req EXCEPT ![t] = [op |-> op, cfg |-> NoConfig]]
           /\ value' = [value EXCEPT ![s] = Nothing]
           /\ waker' = [waker EXCEPT ![s] = NoTask]
           /\ seen' = [seen EXCEPT ![t] = {Answer(s)}]
    /\ Await(t)
    /\ UNCHANGED <<on, chan, woken, radio, flash>>

Finish(t) == Goto(t, "idle") /\ req' = [req EXCEPT ![t] = NoRequest]
Expected(t) == seen' = [seen EXCEPT ![t] = {}] /\ due' = [due EXCEPT ![t] = {}]

\* Signal::wait polled with a value in the signal: the route answers with it.
Take(t) ==
    /\ value[SignalOf(t)] # Nothing
    /\ value' = [value EXCEPT ![SignalOf(t)] = Nothing]
    /\ woken' = woken \ {t}
    /\ Finish(t) /\ Expected(t)
    /\ UNCHANGED waker

\* Polled without one: this task's waker replaces another one, which is woken.
Register(t) ==
    /\ value[SignalOf(t)] = Nothing
    /\ waker' = [waker EXCEPT ![SignalOf(t)] = t]
    /\ woken' = (woken \cup ({waker[SignalOf(t)]} \cap Waiting)) \ {t}
    /\ Goto(t, "wait")
    /\ UNCHANGED <<value, req, expected>>

\* The command that asks for what t's client wants to know.
Question(t) == Event(IF req[t].op = "status" THEN "GetStatus" ELSE "GetFlashData", NoConfig)

\* The command that a suspended request sends next.
Command(t) ==
    IF pc[t] = "ask" THEN Question(t)
    ELSE Event(pc[t], IF pc[t] = "Connect" THEN NoConfig ELSE req[t].cfg)

\* A client is told "wrote", and the configuration fits.
Confirms(t) == pc[t] = "WriteConfigToFlash" /\ req[t].cfg \in Fits

\* An order goes on after a send; the last one completes the request.
Sent(t) ==
    /\ IF pc[t] = "SetConfig" THEN Goto(t, "Connect") /\ UNCHANGED req ELSE Finish(t)
    /\ cut' = (cut /\ pc[t] # "Connect")
    /\ IF Confirms(t)
       THEN /\ saved' = req[t].cfg /\ recent' = recent \cup {req[t].cfg}
            /\ due' = [u \in Tasks |-> IF u \in Asking THEN due[u] \cup {req[t].cfg} ELSE due[u]]
       ELSE UNCHANGED <<saved, recent, due>>
    /\ UNCHANGED <<on, signal, woken, radio, flash, seen>>

\* Mutant: try_send, whose error is ignored.
SendTried(t) ==
    /\ pc[t] \in SendPhases \ {"ask"}
    /\ chan' = IF Len(chan) < Capacity THEN Append(chan, Command(t)) ELSE chan
    /\ Sent(t)

\* Mutant: a channel that does not wait for room.
SendUnbounded(t) ==
    /\ pc[t] \in SendPhases \ {"ask"} /\ Len(chan) <= Capacity
    /\ chan' = Append(chan, Command(t))
    /\ Sent(t)

\* Mutant: the connect is sent first.
SendConnectFirst(t) ==
    /\ pc[t] \in SendPhases \ {"ask"} /\ Len(chan) < Capacity
    /\ chan' = Append(chan, CASE pc[t] = "SetConfig" -> Event("Connect", NoConfig)
                              [] pc[t] = "Connect" -> Event("SetConfig", req[t].cfg)
                              [] OTHER -> Command(t))
    /\ Sent(t)

\* EVENT_CHAN.send(..).await of an order.
Send(t) ==
    /\ pc[t] \in SendPhases \ {"ask"} /\ Len(chan) < Capacity
    /\ chan' = Append(chan, Command(t))
    /\ Sent(t)

\* Mutant: try_send, whose error is ignored, and the signal is polled.
SendQuestionTried(t) ==
    /\ pc[t] = "ask"
    /\ chan' = IF Len(chan) < Capacity THEN Append(chan, Command(t)) ELSE chan
    /\ Take(t) \/ Register(t)
    /\ UNCHANGED <<on, radio, flash, orders>>

\* The question is sent, and the signal is polled for the first time.
SendQuestion(t) ==
    /\ pc[t] = "ask" /\ Len(chan) < Capacity
    /\ chan' = Append(chan, Command(t))
    /\ Take(t) \/ Register(t)
    /\ UNCHANGED <<on, radio, flash, orders>>

\* The executor polls a waiting task, whatever the reason.
Poll(t) ==
    /\ pc[t] = "wait"
    /\ Take(t) \/ Register(t)
    /\ UNCHANGED <<on, chan, radio, flash, orders>>

\* Mutant: the wait for a signal is not under the timer.
TimeoutSending(t) ==
    /\ "timeout" \in Hazards /\ pc[t] \in SendPhases /\ Len(chan) = Capacity
    /\ Finish(t) /\ Expected(t) /\ woken' = woken \ {t}
    /\ cut' = (cut \/ pc[t] = "Connect")
    /\ UNCHANGED <<on, chan, signal, radio, flash, saved, recent>>

\* with_timeout polls its future once more before it looks at the timer: what
\* can go on goes on.  A waker that the request left in a signal stays there.
Timeout(t) ==
    /\ "timeout" \in Hazards /\ pc[t] # "idle"
    /\ pc[t] \in SendPhases => Len(chan) = Capacity
    /\ \/ pc[t] = "wait" /\ Take(t)
       \/ /\ pc[t] = "wait" => value[SignalOf(t)] = Nothing
          /\ Finish(t) /\ Expected(t) /\ woken' = woken \ {t}
          /\ UNCHANGED signal
    /\ cut' = (cut \/ pc[t] = "Connect")
    /\ UNCHANGED <<on, chan, radio, flash, saved, recent>>

RouteStep(t) == Send(t) \/ SendQuestion(t) \/ (t \in woken /\ Poll(t))

---------------------------------------------------------------------------
\* event_handler_task

\* The command that select() returns, removed from EVENT_CHAN.
Receive(cmd) ==
    /\ on /\ handler = "select" /\ chan # <<>> /\ Head(chan).cmd = cmd
    /\ chan' = Tail(chan)

\* The answers that the questions in progress might get now.
Observe ==
    /\ seen' = [t \in Tasks |-> IF t \in Asking THEN seen[t] \cup {Answer(SignalOf(t))'}
                                                ELSE seen[t]]
    /\ UNCHANGED <<orders, due>>

\* Mutant: the value is stored and nobody is woken.
SignalSilently(s) ==
    /\ value' = [value EXCEPT ![s] = Answer(s)]
    /\ waker' = [waker EXCEPT ![s] = NoTask]
    /\ UNCHANGED woken

\* Signal::signal: the value takes the place of the waker, which is woken.
SignalAnswer(s) ==
    /\ value' = [value EXCEPT ![s] = Answer(s)]
    /\ waker' = [waker EXCEPT ![s] = NoTask]
    /\ woken' = woken \cup ({waker[s]} \cap Waiting)

Reply(cmd, s) ==
    /\ Receive(cmd)
    /\ SignalAnswer(s)
    /\ UNCHANGED <<on, pc, req, radio, flash, history>>

GetStatus == Reply("GetStatus", "STATUS")
GetFlashData == Reply("GetFlashData", "FLASH_DATA")

\* The controller may refuse a configuration; the error is printed.
SetConfig ==
    /\ Receive("SetConfig")
    /\ \/ config' = Head(chan).cfg
       \/ ("wifi" \in Hazards \/ Head(chan).cfg \notin Fits) /\ UNCHANGED config
    /\ UNCHANGED <<on, signal, tasks, handler, link, flash, history>>

\* Mutant: the sector is not erased, and flash memory only clears bits: one
\* configuration on top of another one is none.
WriteUnerased ==
    /\ Receive("WriteConfigToFlash")
    /\ flash' = IF Head(chan).cfg \in Fits
                THEN IF flash \in {NoConfig, Head(chan).cfg} THEN Head(chan).cfg ELSE NoConfig
                ELSE flash
    /\ UNCHANGED <<on, signal, tasks, radio>>
    /\ Observe

\* save(): a configuration that does not fit is dropped.
WriteConfigToFlash ==
    /\ Receive("WriteConfigToFlash")
    /\ flash' = IF Head(chan).cfg \in Fits THEN Head(chan).cfg ELSE flash
    /\ UNCHANGED <<on, signal, tasks, radio>>
    /\ Observe

\* The power fails after the erase, during the write, or right after it.
PowerLossWhileSaving ==
    /\ on /\ "power" \in Hazards
    /\ handler = "select" /\ chan # <<>> /\ Head(chan).cmd = "WriteConfigToFlash"
    /\ Head(chan).cfg \in Fits
    /\ flash' \in {NoConfig, Head(chan).cfg}
    /\ on' = FALSE /\ chan' = <<>> /\ config' = NoConfig
    /\ Blank

Connect ==
    /\ Receive("Connect")
    /\ handler' = "connecting"
    /\ UNCHANGED <<on, signal, tasks, config, link, flash, history>>

\* connect_async() joins the configured network; then Timer::after_secs(2).
Connected ==
    /\ on /\ handler = "connecting" /\ config # NoConfig
    /\ link' = config /\ handler' = "settling"
    /\ UNCHANGED <<on, chan, signal, tasks, config, flash>>
    /\ Observe

\* It fails, and the station may have left the network it was in.
ConnectFails ==
    /\ on /\ handler = "connecting" /\ ("wifi" \in Hazards \/ config = NoConfig)
    /\ link' \in {link, NoConfig} /\ handler' = "select"
    /\ UNCHANGED <<on, chan, signal, tasks, config, flash>>
    /\ Observe

Settled ==
    /\ handler = "settling" /\ handler' = "select"
    /\ UNCHANGED <<on, chan, signal, tasks, config, link, flash, history>>

\* Mutant: select() loses the command it has received.
LinkDropsWithCommand ==
    /\ "wifi" \in Hazards /\ link # NoConfig
    /\ link' = NoConfig
    /\ chan' = IF handler = "select" /\ chan # <<>> THEN Tail(chan) ELSE chan
    /\ UNCHANGED <<on, signal, tasks, handler, config, flash>>
    /\ Observe

\* wait_for_events() only prints.
LinkDrops ==
    /\ "wifi" \in Hazards /\ link # NoConfig
    /\ link' = NoConfig
    /\ UNCHANGED <<on, chan, signal, tasks, handler, config, flash>>
    /\ Observe

HandlerStep ==
    GetStatus \/ GetFlashData \/ SetConfig \/ WriteConfigToFlash
        \/ Connect \/ Connected \/ ConnectFails \/ Settled

Next ==
    \/ Boot \/ PowerLoss \/ PowerLossWhileSaving \/ HandlerStep \/ LinkDrops
    \/ \E t \in Tasks :
           Order(t) \/ Ask(t) \/ Send(t) \/ SendQuestion(t) \/ Poll(t) \/ Timeout(t)

Spec == Init /\ [][Next]_vars

\* The executor polls every task it has woken; the radio answers a connect.
LiveSpec ==
    /\ Spec /\ WF_vars(HandlerStep)
    /\ \A t \in Tasks : WF_vars(RouteStep(t))

---------------------------------------------------------------------------
\* Safety.  Whatever is in the signal that a client waits for was true at some
\* moment after it asked: reset() in router.rs keeps out answers to earlier
\* questions, those left behind by requests that timed out included.
AnswersAreFresh ==
    \A t \in Asking : value[SignalOf(t)] # Nothing => value[SignalOf(t)] \in seen[t]

\* A task that the executor is going to poll, or whose waker the signal holds
\* and will call with the next answer.
Remembered(t) == t \in woken \/ (waker[SignalOf(t)] = t /\ value[SignalOf(t)] = Nothing)
\* Tasks that wait and that no answer will wake.
Forgotten == {t \in Waiting : ~Remembered(t)}
\* Tasks that wait with neither their question in EVENT_CHAN nor an answer.
Unserved == {t \in Waiting : ~Queued(Question(t)) /\ value[SignalOf(t)] = Nothing}

\* A request of u resets the signal s; or it takes the answer in s.
Resets(u, s) == pc[u] = "idle" /\ pc'[u] = "ask" /\ SignalOf(u)' = s
Takes(u, s) == u \in Asking /\ SignalOf(u) = s /\ value[s] # Nothing /\ pc'[u] = "idle"

\* Action property: whatever tasks share a signal, time out and are answered
\* late, a waiting task loses its wake-up only when another task's question
\* resets the signal (router.rs:42, 49, 56); not when that task registers its
\* own waker, takes the answer or goes away.
ForgottenOnlyByReset ==
    [][\A t \in Forgotten' \ Forgotten :
           \E u \in Tasks \ {t} : Resets(u, SignalOf(t))]_vars

\* Action property: what a waiting task waits for, its question or an answer,
\* is lost only to another task that takes the answer out of the signal that
\* they share or resets it; not in EVENT_CHAN, and not to a request that ends.
LostOnlyToAnother ==
    [][\A t \in Unserved' \ Unserved :
           \E u \in Tasks \ {t} : Resets(u, SignalOf(t)) \/ Takes(u, SignalOf(t))]_vars

\* Safety: what a client of /get-flash-data is going to get is no older than the
\* last configuration that any client was told is written ("wrote", though it
\* is only queued) before it asked; if another read was in EVENT_CHAN then,
\* no older than the last one before that read was asked for.
ReadsSeeConfirmedWrites ==
    \A t \in Asking :
        (req[t].op = "get-flash-data" /\ value["FLASH_DATA"] # Nothing)
            => value["FLASH_DATA"] \in due[t]

\* Safety, while the radio obeys: when every order is carried out, the station
\* is connected with the configuration that was set last, although SetConfig
\* and Connect are two sends and those of several tasks mix; only a request
\* that timed out between its two sends prevents that, until the next Connect.
StationFollowsConfig ==
    (chan = <<>> /\ handler # "connecting" /\ ~cut
        /\ \A t \in Tasks : pc[t] \notin {"SetConfig", "Connect"}) => link = config

\* No other task's clients ask what t asks now.
AskedByOne(t) == \A u \in Tasks \ {t} : req[t].op \notin Asks[u]

\* Liveness: a question that got into the channel and that no other task asks
\* is answered, whatever the radio and the requests that share the channel do.
EveryQuestionAnswered ==
    \A t \in Tasks : (pc[t] = "wait" /\ AskedByOne(t)) ~> (pc[t] = "idle")

\* Liveness: two tasks that ask the same question take the answer or the
\* wake-up from each other (router.rs:42, 50, 56), and senders overtake each
\* other at a full channel; whoever is left over is ended by the timer.
TimerEndsWaiting ==
    \A t \in Tasks :
        WF_vars(Send(t) \/ SendQuestion(t) \/ Timeout(t))
            => ((pc[t] # "idle") ~> (pc[t] = "idle"))

\* /write-to-flash has told its client "wrote", and the command is on its way.
Confirmed(c) == Queued(Event("WriteConfigToFlash", c))

\* Action property: a confirmed configuration that fits leaves EVENT_CHAN only
\* into the flash, or because the device loses its power; in particular not
\* when the link drops while event_handler_task receives in select().
ConfirmedUntilWritten ==
    [][\A c \in Fits : Confirmed(c) /\ ~Confirmed(c)' => flash' = c \/ ~on']_vars

\* Action property: the stored configuration disappears only when the device
\* loses its power while save() erases and writes, never with a configuration
\* that save() refuses.
OnlyInterruptedSavesErase == [][flash # NoConfig /\ flash' = NoConfig => ~on']_vars

\* Liveness: a confirmed configuration that fits gets into the flash: select()
\* drops the future that receives from the channel, and no command with it.
FittingWritesArrive == \A c \in Fits : Confirmed(c) ~> (flash = c)

\* Liveness, what /write-to-flash tells its client ("wrote", router.rs:23); it
\* does so for a configuration that save() drops, too.
WroteMeansWritten == \A c \in Configs : Confirmed(c) ~> (flash = c)
=============================================================================
