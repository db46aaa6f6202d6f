--------------------------- MODULE EngineDownload ---------------------------
(***************************************************************************)
(* What the firmware does on timers: the download of the engine database   *)
(* (CanEngineDB, CanEngineDBStateMachine), the request for the power state *)
(* of the track (StopGoStateMachine), the two indicators, and the FreeRTOS *)
(* timer service with its command queue that all four share.               *)
(*                                                                         *)
(* The CAN central is the environment.  It answers a ping with the         *)
(* protocol of its engine list, a status request with a go or stop, and a  *)
(* config request with a stream, of which the first frame and the one that *)
(* completes it are kept apart.  An engine is a number from 1 on, in the   *)
(* order of the central's list.                                            *)
(***************************************************************************)
EXTENDS Integers, Sequences, FiniteSets

CONSTANTS
  NumEngines,   \* engines in the list of the central
  MaxEntries,   \* kMaxNumDbEntries
  Page,         \* kEngineBrowserEntries: engines in an answer of the Loknamen list
  MaxTries,     \* kMaxDownloadTries, kMaxRetries
  QueueLength,  \* configTIMER_QUEUE_LENGTH
  Environments  \* what the central and the user at the console do

\* The last page of the list fits: the code does not look at the end of the
\* table when it stores one.
ASSUME SizeAssumption ==
  /\ NumEngines \in Nat
  /\ Page \in Nat \ {0}
  /\ MaxEntries \in Nat /\ NumEngines + Page <= MaxEntries + 1
ASSUME BoundAssumption ==
  /\ MaxTries \in Nat
  /\ QueueLength \in Nat
ASSUME EnvironmentAssumption ==
  \* the protocol of the central (UNKNOWN: no central) and, as bounds, how often a
  \* timer comes before its answer and how many commands are typed
  Environments \subseteq [protocol : {"UNKNOWN", "LOKNAMEN", "LOKLISTE"}, late : Nat, commands : Nat]

VARIABLES
  \* ---- RoutingTask
  pc,         \* where the task is in its loop; "setup" before the scheduler runs
  notified,   \* its task notification value
  sg,         \* StopGoStateMachine
  ed,         \* CanEngineDBStateMachine
  protocol,   \* downloadProtocol_
  dbState,    \* dbState_
  db,         \* db_
  consumer,   \* the consumer that streamParser_ feeds
  receiving,  \* the parser has seen the first frame of a stream
  expecting,  \* RR32Can has a config request under way
  \* ---- indicators
  download,   \* StatusIndicator::canDbDownload
  startStop,  \* StartStopIndicator::state_
  \* ---- timer service
  active,     \* timers that run
  timerQ,     \* commands to the timer task
  \* ---- ConsoleTask
  console,    \* where it is in fetchEngineDB()
  typed,      \* commands typed so far
  \* ---- CAN
  canRx,      \* frames received and not yet handled
  env,        \* one of Environments
  requests,   \* requests the central has not answered
  sending,    \* the stream it is in the middle of
  late        \* timers that came before the answer so far

rrVars   == <<consumer, receiving, expecting>>
dbVars   == <<protocol, dbState, db, rrVars>>
ledVars  == <<download, startStop>>
tmVars   == <<active, timerQ>>
conVars  == <<console, typed>>
busVars  == <<canRx, env, requests, sending, late>>
vars == <<pc, notified, sg, ed, dbVars, ledVars, tmVars, conVars, busVars>>

-----------------------------------------------------------------------------
(***************************************************************************)
(* Timers.  Start() and Stop() put a command into the queue of the timer   *)
(* task and do not wait: with a full queue the command is lost.            *)
(* Start(period) changes the period, which starts the timer as well, and   *)
(* then starts it.                                                         *)
(***************************************************************************)
Timer == {"StopGo", "CanDb", "Status", "StartStop"}

Start(t)       == <<[timer |-> t, run |-> TRUE]>>
StartPeriod(t) == Start(t) \o Start(t)
Stop(t)        == <<[timer |-> t, run |-> FALSE]>>

Fits(q) == SubSeq(q, 1, IF Len(q) < QueueLength THEN Len(q) ELSE QueueLength)
Post(commands) == timerQ' = Fits(timerQ \o commands)

\* The timer runs once the queue is empty, if nothing else happens: its last
\* command decides.
WillRun(t) ==
  \/ /\ t \in active
     /\ \A i \in DOMAIN timerQ : timerQ[i].timer # t
  \/ \E i \in DOMAIN timerQ :
       /\ timerQ[i] = [timer |-> t, run |-> TRUE]
       /\ \A j \in (i + 1)..Len(timerQ) : timerQ[j].timer # t

\* StatusIndicator::setCanDbDownload(), clearCanDbDownload(): the commands of
\* setState() for the state that the flag leads to.
StatusCommands(on) == IF on THEN StartPeriod("Status") ELSE Stop("Status")

-----------------------------------------------------------------------------
(***************************************************************************)
(* The engine database and its requests.                                   *)
(***************************************************************************)
Engine == 1..NumEngines
None   == 0
Index  == 0..(MaxEntries - 1)
Free   == [name |-> None, full |-> None]
NoStream == [kind |-> "none", at |-> 0]

Request(kind, at) == [kind |-> kind, at |-> at]

Incomplete(d) == {i \in Index : d[i].name # None /\ d[i].full = None}
Least(S) == CHOOSE i \in S : \A j \in S : i <= j

\* Mutant: names are not compared.
hasEngineNever(e) == FALSE

\* hasEngine(): the search ends at the first free entry.
hasEngine(e) ==
  \E i \in Index : db[i].name = e /\ \A j \in 0..i : db[j].name # None

\* The request that streamParser_ is made ready for, and that is sent.
Ask(c, r) ==
  /\ consumer' = c
  /\ receiving' = FALSE
  /\ expecting' = TRUE
  /\ requests' = Append(requests, r)

\* fetchNextEngine() on the database d
fetchNextEngine(d) ==
  /\ db' = d
  /\ IF Incomplete(d) # {}
     THEN LET i == Least(Incomplete(d))
          IN  /\ dbState' = "DOWNLOADING"
              /\ Ask(Request("loco", i), Request("loco", d[i].name))
              /\ UNCHANGED <<download, timerQ>>
     ELSE /\ dbState' = "COMPLETE"
          /\ expecting' = FALSE
          /\ download' = FALSE
          /\ Post(StatusCommands(FALSE))
          /\ UNCHANGED <<consumer, receiving, requests>>

\* fetchEnginesFromOffset()
fetchEnginesFromOffset(offset) ==
  /\ dbState' = "DOWNLOADING"
  /\ Ask(Request("list", offset), Request("list", offset))

\* The loop of the state machine: AbortCurrentConfigRequest(), fetchEngineDB().
fetchEngineDB ==
  /\ db' = [i \in Index |-> Free]
  /\ \/ /\ protocol = "UNKNOWN"
        /\ expecting' = FALSE
        /\ UNCHANGED <<dbState, consumer, receiving, requests>>
     \/ /\ protocol = "LOKNAMEN"
        /\ fetchEnginesFromOffset(0)
     \/ /\ protocol = "LOKLISTE"
        /\ dbState' = "DOWNLOADING"
        /\ Ask(Request("lokliste", 0), Request("lokliste", 0))

\* The engines in a list answer from this offset; an answer to another request
\* has none of the keys the list consumer knows.
Names(answer) ==
  {e \in Engine : answer.kind = "list" /\ answer.at < e /\ e <= answer.at + Page}
Total(answer) == IF answer.kind = "list" THEN NumEngines ELSE 0

\* The place of an engine among these.
Rank(e, names) == Cardinality({f \in names : f < e})

\* Mutant: every page is stored at the start of the table.
StoredAtStart(names) ==
  [i \in Index |-> IF \E e \in names : i = Rank(e, names)
                   THEN [name |-> CHOOSE e \in names : i = Rank(e, names), full |-> None]
                   ELSE db[i]]

\* The engines of a page that are not known yet, stored from the offset of the
\* page on.
Stored(names) ==
  [i \in Index |-> IF \E e \in names : i = consumer.at + Rank(e, names)
                   THEN [name |-> CHOOSE e \in names : i = consumer.at + Rank(e, names),
                         full |-> None]
                   ELSE db[i]]

\* streamComplete() for the Loknamen list
ListComplete(answer) ==
  LET next == consumer.at + Page
      new  == Stored({e \in Names(answer) : ~hasEngine(e)})
  IN  \/ /\ next >= Total(answer)
         /\ fetchNextEngine(new)
      \/ /\ next < Total(answer)
         /\ db' = new
         /\ fetchEnginesFromOffset(next)
         /\ UNCHANGED <<download, timerQ>>

\* streamComplete() for the Lokliste, which names the engines in the table
ListeComplete(answer) ==
  fetchNextEngine(
    IF answer.kind # "lokliste" THEN db
    ELSE [i \in Index |-> IF i + 1 \in Engine THEN [db[i] EXCEPT !.name = i + 1] ELSE db[i]])

\* streamComplete() for the details of one engine
LocoComplete(answer) ==
  fetchNextEngine(IF answer.kind # "loco" THEN db
                  ELSE [db EXCEPT ![consumer.at].full = answer.at])

\* streamComplete()
streamComplete(answer) ==
  \/ consumer.kind = "list"     /\ ListComplete(answer)
  \/ consumer.kind = "lokliste" /\ ListeComplete(answer)
  \/ consumer.kind = "loco"     /\ LocoComplete(answer)

-----------------------------------------------------------------------------
(***************************************************************************)
(* Start-up, before the scheduler runs: setup() of main.cpp.               *)
(***************************************************************************)
\* Mutant: the status indicator is updated once more.
setupCommandsOneMore ==
  Stop("Status") \o Stop("Status") \o StartPeriod("StartStop") \o Start("StopGo")
    \o StatusCommands(TRUE) \o Start("CanDb")

\* The timer commands in their order: begin() of both indicators, then
\* startRequesting() of both state machines.
setupCommands ==
  Stop("Status") \o StartPeriod("StartStop") \o Start("StopGo")
    \o StatusCommands(TRUE) \o Start("CanDb")

setup ==
  /\ pc = "setup"
  /\ Post(setupCommands)
  /\ sg' = [state |-> "REQUESTING", tries |-> 0, expired |-> TRUE]
  /\ ed' = [state |-> "REQUESTING_PROTOCOL", tries |-> 0, expired |-> TRUE]
  /\ requests' = Append(requests, Request("ping", 0))
  /\ download' = TRUE
  /\ notified' = TRUE
  /\ pc' = "blocked"
  /\ UNCHANGED <<dbVars, startStop, active, conVars, canRx, env, sending, late>>

-----------------------------------------------------------------------------
(***************************************************************************)
(* RoutingTask.  Only the CAN receive interrupt runs between its steps:    *)
(* the timer task and the ConsoleTask have a lower priority.               *)
(***************************************************************************)
Wake ==
  /\ pc = "blocked"
  /\ notified
  /\ notified' = FALSE
  /\ pc' = "can"
  /\ UNCHANGED <<sg, ed, dbVars, ledVars, tmVars, conVars, busVars>>

\* setSystemState() of the indicator, then handlePacket() of stopGoStateM_.
StatusReceived ==
  /\ startStop' = "KNOWN"
  /\ sg' = [sg EXCEPT !.state = "IDLE"]
  /\ Post(Stop("StartStop") \o (IF sg.state # "IDLE" THEN Stop("StopGo") ELSE <<>>))
  /\ UNCHANGED <<ed, dbVars, download, requests>>

\* HandlePingResponse()
PingReceived ==
  /\ protocol' = Head(canRx).protocol
  /\ UNCHANGED <<sg, ed, dbState, db, rrVars, ledVars, timerQ, requests>>

\* The first frame of a stream: the parser reads it if a request is under way;
\* handlePacket() of canEngineDBStateM_ takes any stream for its own.
StreamStarts ==
  /\ receiving' = (receiving \/ expecting)
  /\ ed' = [ed EXCEPT !.state = IF @ = "IDLE" THEN @ ELSE "DOWNLOADING"]
  /\ UNCHANGED <<sg, protocol, dbState, db, consumer, expecting, ledVars, timerQ, requests>>

StreamEnds ==
  /\ UNCHANGED <<sg, ed, protocol, startStop>>
  /\ \/ /\ expecting /\ receiving
        /\ streamComplete(Head(canRx).of)
     \/ /\ ~(expecting /\ receiving)
        /\ UNCHANGED <<dbState, db, rrVars, download, timerQ, requests>>

\* processCAN(): one frame.
HandleFrame ==
  /\ pc = "can"
  /\ canRx # <<>>
  /\ LET k == Head(canRx).kind
     IN  \/ k = "go"    /\ StatusReceived
         \/ k = "ping"  /\ PingReceived
         \/ k = "first" /\ StreamStarts
         \/ k = "rest"  /\ StreamEnds
  /\ canRx' = Tail(canRx)
  /\ UNCHANGED <<pc, notified, active, conVars, env, sending, late>>

CanDone ==
  /\ pc = "can"
  /\ canRx = <<>>
  /\ pc' = "stopgo"
  /\ UNCHANGED <<notified, sg, ed, dbVars, ledVars, tmVars, conVars, busVars>>

\* stopGoStateM_.loop()
StopGoLoop ==
  /\ pc = "stopgo"
  /\ \/ /\ sg.expired /\ sg.state = "REQUESTING" /\ sg.tries < MaxTries
        /\ sg' = [sg EXCEPT !.tries = @ + 1, !.expired = FALSE]
        /\ requests' = Append(requests, Request("status", 0))
        /\ UNCHANGED timerQ
     \/ /\ sg.expired /\ sg.state = "REQUESTING" /\ sg.tries >= MaxTries
        /\ sg' = [sg EXCEPT !.state = "IDLE", !.expired = FALSE]
        /\ Post(Stop("StopGo"))
        /\ UNCHANGED requests
     \/ /\ ~(sg.expired /\ sg.state = "REQUESTING")
        /\ sg' = [sg EXCEPT !.expired = FALSE]
        /\ UNCHANGED <<requests, timerQ>>
  /\ pc' = "complete"
  /\ UNCHANGED <<notified, ed, dbVars, ledVars, active, conVars, canRx, env, sending, late>>

\* Mutant: the indicator is not told.
stopRequestingSilently ==
  /\ ed' = [ed EXCEPT !.state = "IDLE", !.expired = FALSE]
  /\ Post(Stop("CanDb"))
  /\ UNCHANGED download

\* Mutant: the timer stops, the state stays.
stopRequestingStays ==
  /\ ed' = [ed EXCEPT !.expired = FALSE]
  /\ Post(Stop("CanDb") \o StatusCommands(FALSE))
  /\ download' = FALSE

\* stopRequesting() of canEngineDBStateM_, called from its loop().
stopRequesting ==
  /\ ed' = [ed EXCEPT !.state = "IDLE", !.expired = FALSE]
  /\ Post(Stop("CanDb") \o StatusCommands(FALSE))
  /\ download' = FALSE

\* processStateMachines(): notifyEngineDBComplete()
NotifyComplete ==
  /\ pc = "complete"
  /\ pc' = "download"
  /\ \/ /\ dbState = "COMPLETE" /\ ed.state # "IDLE"
        /\ ed' = [ed EXCEPT !.state = "IDLE"]
        /\ Post(Stop("CanDb") \o StatusCommands(FALSE))
        /\ download' = FALSE
     \/ /\ ~(dbState = "COMPLETE" /\ ed.state # "IDLE")
        /\ UNCHANGED <<ed, download, timerQ>>
  /\ UNCHANGED <<notified, sg, dbVars, startStop, active, conVars, busVars>>

\* loop(), REQUESTING_PROTOCOL: as soon as the protocol is known the request for
\* the database starts.  The flag that startTimerImmediate() sets is reset at
\* the end of loop(), so that the first request waits for the timer.
LoopProtocol ==
  /\ ed.state = "REQUESTING_PROTOCOL"
  /\ \/ /\ protocol # "UNKNOWN"
        /\ ed' = [state |-> "REQUESTING", tries |-> 0, expired |-> FALSE]
        /\ download' = TRUE
        /\ Post(StatusCommands(TRUE) \o Start("CanDb"))
        /\ notified' = TRUE
     \/ /\ protocol = "UNKNOWN" /\ ed.tries < MaxTries
        /\ ed' = [ed EXCEPT !.tries = @ + 1, !.expired = FALSE]
        /\ UNCHANGED <<download, timerQ, notified>>
     \/ /\ protocol = "UNKNOWN" /\ ed.tries >= MaxTries
        /\ stopRequesting
        /\ UNCHANGED notified
  /\ UNCHANGED <<dbVars, requests>>

\* loop(), REQUESTING
LoopRequest ==
  /\ ed.state = "REQUESTING"
  /\ \/ /\ ed.tries < MaxTries
        /\ fetchEngineDB
        /\ ed' = [ed EXCEPT !.tries = @ + 1, !.expired = FALSE]
        /\ UNCHANGED <<protocol, download, timerQ>>
     \/ /\ ed.tries >= MaxTries
        /\ stopRequesting
        /\ UNCHANGED <<dbVars, requests>>
  /\ UNCHANGED notified

\* canEngineDBStateM_.loop(); while a download runs the timer has no effect.
DownloadLoop ==
  /\ pc = "download"
  /\ \/ ed.expired /\ LoopProtocol
     \/ ed.expired /\ LoopRequest
     \/ /\ ~ed.expired \/ ed.state \in {"IDLE", "DOWNLOADING"}
        /\ ed' = [ed EXCEPT !.expired = FALSE]
        /\ UNCHANGED <<notified, dbVars, download, timerQ, requests>>
  /\ pc' = "blocked"
  /\ UNCHANGED <<sg, startStop, active, conVars, canRx, env, sending, late>>

RoutingTask ==
  Wake \/ HandleFrame \/ CanDone \/ StopGoLoop \/ NotifyComplete \/ DownloadLoop

-----------------------------------------------------------------------------
(***************************************************************************)
(* The FreeRTOS timer task: it runs when the RoutingTask waits.  A timer   *)
(* that has expired may still call back with its stop in the queue.  The   *)
(* callbacks of the indicators only toggle their lamp.                     *)
(***************************************************************************)
Waits == pc = "blocked" /\ ~notified

TimerCommand ==
  /\ Waits
  /\ timerQ # <<>>
  /\ active' = IF Head(timerQ).run THEN active \cup {Head(timerQ).timer}
                                   ELSE active \ {Head(timerQ).timer}
  /\ timerQ' = Tail(timerQ)
  /\ UNCHANGED <<pc, notified, sg, ed, dbVars, ledVars, conVars, busVars>>

\* A timer comes before the answer as often as the environment has it.
Answered == requests = <<>> /\ sending = NoStream
InTime ==
  \/ Answered /\ UNCHANGED late
  \/ ~Answered /\ late < env.late /\ late' = late + 1

StopGoExpires ==
  /\ Waits
  /\ "StopGo" \in active
  /\ InTime
  /\ sg' = [sg EXCEPT !.expired = TRUE]
  /\ notified' = TRUE
  /\ UNCHANGED <<pc, ed, dbVars, ledVars, tmVars, conVars, canRx, env, requests, sending>>

CanDbExpires ==
  /\ Waits
  /\ "CanDb" \in active
  /\ \/ ed.state = "DOWNLOADING" /\ UNCHANGED late
     \/ ed.state # "DOWNLOADING" /\ InTime
  /\ ed' = [ed EXCEPT !.expired = TRUE]
  /\ notified' = TRUE
  /\ UNCHANGED <<pc, sg, dbVars, ledVars, tmVars, conVars, canRx, env, requests, sending>>

-----------------------------------------------------------------------------
(***************************************************************************)
(* The ConsoleTask runs when the others wait, and may be preempted at each *)
(* of these steps of run_app_download_enginedb_can().                      *)
(***************************************************************************)
ConsoleRuns == Waits /\ timerQ = <<>>

TypeDownload ==
  /\ ConsoleRuns
  /\ console = "idle" /\ typed < env.commands
  /\ download' = TRUE
  /\ Post(StatusCommands(TRUE))
  /\ console' = "clear"
  /\ typed' = typed + 1
  /\ UNCHANGED <<pc, notified, sg, ed, dbVars, startStop, active, busVars>>

\* fetchEngineDB(): clear()
ConsoleClear ==
  /\ ConsoleRuns
  /\ console = "clear"
  /\ db' = [i \in Index |-> Free]
  /\ console' = IF protocol = "UNKNOWN" THEN "idle" ELSE "parser"
  /\ UNCHANGED <<pc, notified, sg, ed, protocol, dbState, rrVars, ledVars, tmVars, typed, busVars>>

\* fetchEnginesFromOffset(), fetchLokliste(): the state and the stream parser
ConsoleParser ==
  /\ ConsoleRuns
  /\ console = "parser"
  /\ dbState' = "DOWNLOADING"
  /\ consumer' = Request(IF protocol = "LOKLISTE" THEN "lokliste" ELSE "list", 0)
  /\ receiving' = FALSE
  /\ console' = "request"
  /\ UNCHANGED <<pc, notified, sg, ed, protocol, db, expecting, ledVars, tmVars, typed, busVars>>

\* RequestEngineList(), RequestLokliste()
ConsoleRequest ==
  /\ ConsoleRuns
  /\ console = "request"
  /\ expecting' = TRUE
  /\ requests' = Append(requests, Request(IF protocol = "LOKLISTE" THEN "lokliste" ELSE "list", 0))
  /\ console' = "idle"
  /\ UNCHANGED <<pc, notified, sg, ed, protocol, dbState, db, consumer, receiving, ledVars, tmVars,
                 typed, canRx, env, sending, late>>

\* run_app_set_enginedb_protocol()
TypeProtocol(p) ==
  /\ ConsoleRuns
  /\ console = "idle" /\ typed < env.commands
  /\ protocol' = p
  /\ typed' = typed + 1
  /\ UNCHANGED <<pc, notified, sg, ed, dbState, db, rrVars, ledVars, tmVars, console, busVars>>

ConsoleTask ==
  \/ TypeDownload \/ ConsoleClear \/ ConsoleParser \/ ConsoleRequest
  \/ \E p \in {"UNKNOWN", "LOKNAMEN", "LOKLISTE"} : TypeProtocol(p)

-----------------------------------------------------------------------------
(***************************************************************************)
(* CAN: the receive interrupt and the central, which answers one request   *)
(* after the other, or none if its protocol is UNKNOWN.                    *)
(***************************************************************************)
Receive(frame) ==
  /\ canRx' = Append(canRx, frame)
  /\ notified' = TRUE

Answer ==
  /\ pc # "setup"
  /\ requests # <<>> /\ sending = NoStream
  /\ LET r == Head(requests)
     IN  \/ /\ env.protocol = "UNKNOWN"
            /\ UNCHANGED <<canRx, notified, sending>>
         \/ /\ env.protocol # "UNKNOWN" /\ r.kind = "ping"
            /\ Receive([kind |-> "ping", protocol |-> env.protocol])
            /\ UNCHANGED sending
         \/ /\ env.protocol # "UNKNOWN" /\ r.kind = "status"
            /\ Receive([kind |-> "go"])
            /\ UNCHANGED sending
         \/ /\ env.protocol # "UNKNOWN" /\ r.kind \in {"list", "lokliste", "loco"}
            /\ Receive([kind |-> "first", of |-> r])
            /\ sending' = r
  /\ requests' = Tail(requests)
  /\ UNCHANGED <<pc, sg, ed, dbVars, ledVars, tmVars, conVars, env, late>>

AnswerRest ==
  /\ sending # NoStream
  /\ Receive([kind |-> "rest", of |-> sending])
  /\ sending' = NoStream
  /\ UNCHANGED <<pc, sg, ed, dbVars, ledVars, tmVars, conVars, env, requests, late>>

\* Somebody switches the power of the track.
PowerSwitched ==
  /\ canRx = <<>> /\ sg.state # "IDLE"
  /\ Receive([kind |-> "go"])
  /\ UNCHANGED <<pc, sg, ed, dbVars, ledVars, tmVars, conVars, env, requests, sending, late>>

Can == Answer \/ AnswerRest \/ PowerSwitched

-----------------------------------------------------------------------------
Init ==
  /\ pc = "setup" /\ notified = FALSE
  /\ sg = [state |-> "IDLE", tries |-> 0, expired |-> FALSE]
  /\ ed = [state |-> "IDLE", tries |-> 0, expired |-> FALSE]
  /\ protocol = "UNKNOWN" /\ dbState = "EMPTY" /\ db = [i \in Index |-> Free]
  /\ consumer = NoStream /\ receiving = FALSE /\ expecting = FALSE
  /\ download = FALSE /\ startStop = "UNKNOWN"
  /\ active = {} /\ timerQ = <<>>
  /\ console = "idle" /\ typed = 0
  /\ canRx = <<>> /\ requests = <<>> /\ sending = NoStream /\ late = 0
  /\ env \in Environments

Next ==
  \/ setup \/ RoutingTask
  \/ TimerCommand \/ StopGoExpires \/ CanDbExpires
  \/ ConsoleTask
  \/ Can

Spec == Init /\ [][Next]_vars

\* The RoutingTask always runs; whenever it waits, again and again, the timer
\* task runs, each active timer expires once a second, and a console command
\* that was typed goes on; the central answers what it answers at all.
Fairness ==
  /\ WF_vars(setup) /\ WF_vars(RoutingTask) /\ SF_vars(TimerCommand)
  /\ SF_vars(StopGoExpires) /\ SF_vars(CanDbExpires)
  /\ WF_vars(Answer) /\ WF_vars(AnswerRest)
  /\ SF_vars(ConsoleClear \/ ConsoleParser \/ ConsoleRequest)
FairSpec == Spec /\ Fairness

-----------------------------------------------------------------------------
(***************************************************************************)
(* Properties.                                                             *)
(***************************************************************************)
\* Whatever commands to the timer task are lost in a full queue, a state machine
\* that needs its timer to repeat a request has it running, and an indicator
\* that has to blink has it too.  The queue is exactly as long as the start-up
\* needs.
ArmedWhenNeeded ==
  pc # "setup" =>
    /\ ed.state \in {"REQUESTING_PROTOCOL", "REQUESTING"} => WillRun("CanDb")
    /\ sg.state = "REQUESTING" => WillRun("StopGo")
    /\ download => WillRun("Status")
    /\ startStop = "UNKNOWN" => WillRun("StartStop")

\* With a central that answers in time and nobody at the console, a database
\* that counts as complete holds each engine of the central once, with its own
\* details, whatever the timers did meanwhile.
CompleteIsWhole ==
  dbState = "COMPLETE" /\ env.late = 0 /\ typed = 0 =>
    /\ \A e \in Engine : \E i \in Index : db[i].name = e
    /\ \A i \in Index : db[i].full = db[i].name

\* However late the answers are and however often the requests were repeated,
\* no engine is in the database twice.
NoEngineTwice ==
  typed = 0 => \A i, j \in Index : db[i].name # None /\ db[i].name = db[j].name => i = j

\* The indicator tells the user of a download as long as the state machine is
\* about one, and no longer; at the console it may be switched on besides.
IndicatorTells ==
  Waits => /\ ed.state # "IDLE" => download
           /\ download /\ typed = 0 => ed.state # "IDLE"

\* Both state machines come to rest, with or without a central; and with one
\* that answers in time the database is complete at the end.
ComesToRest ==
  /\ <>[](sg.state = "IDLE" /\ ed.state = "IDLE")
  /\ env.protocol # "UNKNOWN" /\ env.late = 0 => <>[](typed = 0 => dbState = "COMPLETE")
=============================================================================
