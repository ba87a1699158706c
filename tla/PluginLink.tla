----------------------------- MODULE PluginLink -----------------------------
(* The link between the trading terminal's plugin (QuantowerRiskPlugin) and  *)
(* the engine (core/platform_bridge.py, api/routes_platform.py): the         *)
(* plugin's web socket with its 30 s retry timers, the POSTs it falls back   *)
(* to, and the lists of positions and orders it sends.                       *)
(*                                                                           *)
(* A list is the number of changes it has seen.  TryConnectWsAsync is cut at *)
(* its await, a send at the socket; a message accepted by the socket is lost *)
(* when the socket breaks before the engine reads it.  The engine process    *)
(* may stop and start again with nothing in memory.                          *)
EXTENDS Naturals, Sequences

CONSTANTS
    Sockets,    \* 1 .. n: names for the client sockets that still matter
    MaxTimers,  \* bound on pending retry timers: a further one is not counted
    MaxChange,  \* per kind: bound on the changes of the list
    MaxFaults   \* bound on drops, failing calls, engine stops and plugin stops

ASSUME TimersAssumption == MaxTimers \in Nat \ {0}

VARIABLES
    plugin,     \* "off", "on" (OnRun) or "stopped" (OnStop)
    up,         \* the engine process runs
    connected,  \* _wsConnected
    ws,         \* _ws, 0 at first
    sock,       \* per socket: its state on the plugin's side
    attempts,   \* sockets whose ConnectAsync is awaited
    loops,      \* sockets whose ReceiveLoopAsync runs
    timers,     \* pending ScheduleReconnect tasks
    introduce,  \* ConnectAndIntroduceAsync awaits its first attempt
    requests,   \* sockets with an unread request_positions
    clients,    \* PlatformBridge._ws_clients
    wire,       \* per socket: messages the engine has not read
    posts,      \* POSTs in flight
    list,       \* per kind: the terminal's list
    known,      \* per kind: the engine's list
    faults      \* left

vars == <<plugin, up, connected, ws, sock, attempts, loops, timers, introduce,
          requests, clients, wire, posts, list, known, faults>>

Kinds == {"pos", "ord"}
Messages == UNION {[kind : {k}, seen : 0 .. MaxChange[k]] : k \in Kinds}

TypeOK ==
    /\ plugin \in {"off", "on", "stopped"} /\ up \in BOOLEAN /\ connected \in BOOLEAN
    /\ ws \in Sockets \cup {0}
    /\ sock \in [Sockets -> {"free", "connecting", "open", "dead"}]
    /\ {attempts, loops, requests, clients} \subseteq SUBSET Sockets
    /\ timers \in 0 .. MaxTimers /\ introduce \in BOOLEAN
    /\ wire \in [Sockets -> Seq(Messages)] /\ posts \subseteq Messages
    /\ \A k \in Kinds : {list[k], known[k]} \subseteq 0 .. MaxChange[k]
    /\ faults \in 0 .. MaxFaults

Init ==
    /\ plugin = "off" /\ up = TRUE /\ connected = FALSE /\ ws = 0
    /\ sock = [s \in Sockets |-> "free"]
    /\ attempts = {} /\ loops = {} /\ timers = 0 /\ introduce = FALSE
    /\ requests = {} /\ clients = {} /\ wire = [s \in Sockets |-> <<>>] /\ posts = {}
    /\ list = [k \in Kinds |-> 0] /\ known = [k \in Kinds |-> 0]
    /\ faults = MaxFaults

Fault == faults > 0 /\ faults' = faults - 1

-----------------------------------------------------------------------------
(* Connecting.                                                               *)

\* A name nothing refers to any more.
Unused == {s \in Sockets : /\ s \notin attempts \cup loops \cup clients \cup {ws}
                           /\ wire[s] = <<>>}
\* (Mutant: two tasks are scheduled.)
MutRetry == timers' = IF timers < MaxTimers THEN timers + 2 ELSE timers
Retry == timers' = IF timers < MaxTimers THEN timers + 1 ELSE timers

\* (Mutant: the replaced socket is left alone.)
MutTry(s) ==
    /\ s \in Unused /\ \A z \in Unused : s <= z
    /\ sock' = [sock EXCEPT ![s] = "connecting"]
    /\ ws' = s /\ attempts' = attempts \cup {s}

\* TryConnectWsAsync up to its await: the socket it replaces is disposed.
Try(s) ==
    /\ s \in Unused /\ \A z \in Unused : s <= z
    /\ sock' = [z \in Sockets |-> IF z = s THEN "connecting"
                                  ELSE IF z = ws THEN "dead" ELSE sock[z]]
    /\ ws' = s
    /\ attempts' = attempts \cup {s}

\* OnRun: event handlers attached, a new connection object, the first attempt.
OnRun ==
    /\ plugin = "off"
    /\ plugin' = "on" /\ introduce' = TRUE
    /\ \E s \in Sockets : Try(s)
    /\ UNCHANGED <<up, connected, loops, timers, requests, clients, wire, posts,
                   list, known, faults>>

\* (Mutant: the handler forgets to ask.)
MutHandleWs(s) ==
    /\ s \in attempts /\ sock[s] = "connecting" /\ up
    /\ sock' = [sock EXCEPT ![s] = "open"]
    /\ attempts' = attempts \ {s} /\ connected' = TRUE
    /\ loops' = loops \cup {s} /\ clients' = clients \cup {s}
    /\ UNCHANGED <<plugin, up, ws, timers, introduce, requests, wire, posts, list, known, faults>>

\* The engine accepts (handle_ws) and asks for the positions; push_risk_state
\* follows and changes nothing here.
AttemptSucceeds(s) ==
    /\ s \in attempts /\ sock[s] = "connecting" /\ up
    /\ sock' = [sock EXCEPT ![s] = "open"]
    /\ attempts' = attempts \ {s}
    /\ connected' = TRUE
    /\ loops' = loops \cup {s}
    /\ clients' = clients \cup {s}
    /\ requests' = requests \cup {s}
    /\ UNCHANGED <<plugin, up, ws, timers, introduce, wire, posts, list, known, faults>>

\* Refused, timed out, or disposed by a second attempt.
AttemptFails(s) ==
    /\ s \in attempts
    /\ \/ sock[s] = "dead" /\ UNCHANGED faults
       \/ sock[s] # "dead" /\ ~up /\ UNCHANGED faults
       \/ sock[s] # "dead" /\ up /\ Fault
    /\ sock' = [sock EXCEPT ![s] = "dead"]
    /\ attempts' = attempts \ {s}
    /\ connected' = FALSE
    /\ Retry
    /\ UNCHANGED <<plugin, up, ws, loops, introduce, requests, clients, wire, posts,
                   list, known>>

\* ScheduleReconnect's task after its delay.
TimerFires ==
    /\ timers > 0
    /\ timers' = timers - 1
    /\ \/ connected /\ UNCHANGED <<sock, ws, attempts>>
       \/ ~connected /\ \E s \in Sockets : Try(s)
    /\ UNCHANGED <<plugin, up, connected, loops, introduce, requests, clients, wire,
                   posts, list, known, faults>>

\* (Mutant: a normal close schedules nothing.)
MutLoopEnds(s) ==
    /\ s \in loops /\ sock[s] # "open"
    /\ loops' = loops \ {s} /\ connected' = FALSE
    /\ UNCHANGED <<plugin, up, ws, sock, attempts, timers, introduce, requests, clients,
                   wire, posts, list, known, faults>>

\* ReceiveLoopAsync leaves its loop: finally.
LoopEnds(s) ==
    /\ s \in loops /\ sock[s] # "open"
    /\ loops' = loops \ {s}
    /\ connected' = FALSE
    /\ Retry
    /\ UNCHANGED <<plugin, up, ws, sock, attempts, introduce, requests, clients, wire,
                   posts, list, known, faults>>

\* OnStop: handlers detached, Dispose; nothing of the object acts afterwards.
OnStop ==
    /\ plugin = "on" /\ Fault
    /\ plugin' = "stopped" /\ introduce' = FALSE /\ connected' = FALSE
    /\ sock' = [s \in Sockets |-> IF sock[s] = "free" THEN "free" ELSE "dead"]
    /\ attempts' = {} /\ loops' = {} /\ timers' = 0 /\ requests' = {}
    /\ UNCHANGED <<up, ws, clients, wire, posts, list, known>>

-----------------------------------------------------------------------------
(* Sending.  Every call is fire-and-forget.                                  *)

\* SendTextAsync on ms in order: all written, dropped because the socket is no
\* longer open, or the write throws.
SendText(ms) ==
    /\ UNCHANGED posts
    /\ \/ /\ sock[ws] = "open"
          /\ wire' = [wire EXCEPT ![ws] = @ \o ms]
          /\ UNCHANGED <<connected, timers, faults>>
       \/ /\ sock[ws] # "open"
          /\ UNCHANGED <<wire, connected, timers, faults>>
       \/ /\ sock[ws] = "open" /\ Fault
          /\ connected' = FALSE /\ Retry
          /\ UNCHANGED wire

\* PostRestAsync: started, or failing at once.
PostRest(ms) ==
    /\ posts' = IF up THEN posts \cup {ms[i] : i \in DOMAIN ms} ELSE posts
    /\ UNCHANGED <<wire, connected, timers, faults>>

Send(ms) == \/ connected /\ SendText(ms)
            \/ ~connected /\ PostRest(ms)

Snapshot(k) == [kind |-> k, seen |-> list[k]]

\* OnPositionChanged, OnOrderChanged while the plugin runs.
ListChanges(k) ==
    /\ list[k] < MaxChange[k]
    /\ list' = [list EXCEPT ![k] = @ + 1]
    /\ \/ /\ plugin = "on" /\ ws # 0
          /\ Send(<<[kind |-> k, seen |-> list[k] + 1]>>)
       \/ /\ plugin # "on"
          /\ UNCHANGED <<posts, wire, connected, timers, faults>>
    /\ UNCHANGED <<plugin, up, ws, sock, attempts, loops, introduce, requests, clients,
                   known>>

\* ConnectAndIntroduceAsync after its first attempt, whatever came of it: the
\* orders before the positions.
Introduce ==
    /\ introduce /\ attempts = {}
    /\ introduce' = FALSE
    /\ Send(<<Snapshot("ord"), Snapshot("pos")>>)
    /\ UNCHANGED <<plugin, up, ws, sock, attempts, loops, requests, clients, list, known>>

\* The receive loop reads request_positions.
PositionsRequested(s) ==
    /\ s \in loops /\ s \in requests /\ sock[s] = "open"
    /\ requests' = requests \ {s}
    /\ Send(<<Snapshot("pos")>>)
    /\ UNCHANGED <<plugin, up, ws, sock, attempts, loops, introduce, clients, list, known>>

-----------------------------------------------------------------------------
(* The engine and the network.                                               *)

Handle(m) == known' = [known EXCEPT ![m.kind] = m.seen]

\* handle_ws and _dispatch: one message of one client.
WireArrives(s) ==
    /\ up /\ s \in clients /\ wire[s] # <<>>
    /\ Handle(Head(wire[s]))
    /\ wire' = [wire EXCEPT ![s] = Tail(@)]
    /\ UNCHANGED <<plugin, up, connected, ws, sock, attempts, loops, timers, introduce,
                   requests, clients, posts, list, faults>>

\* platform_event, platform_positions: POSTs are handled in any order.
PostArrives(m) ==
    /\ up /\ m \in posts
    /\ Handle(m)
    /\ posts' = posts \ {m}
    /\ UNCHANGED <<plugin, up, connected, ws, sock, attempts, loops, timers, introduce,
                   requests, clients, wire, list, faults>>

PostLost(m) ==
    /\ m \in posts /\ Fault
    /\ posts' = posts \ {m}
    /\ UNCHANGED <<plugin, up, connected, ws, sock, attempts, loops, timers, introduce,
                   requests, clients, wire, list, known>>

\* The connection breaks with whatever is under way on it.
Drop(s) ==
    /\ sock[s] = "open" /\ Fault
    /\ sock' = [sock EXCEPT ![s] = "dead"]
    /\ wire' = [wire EXCEPT ![s] = <<>>]
    /\ requests' = requests \ {s}
    /\ UNCHANGED <<plugin, up, connected, ws, attempts, loops, timers, introduce,
                   clients, posts, list, known>>

\* handle_ws leaves its loop: what the socket still held is gone.
ClientLeaves(s) ==
    /\ up /\ s \in clients /\ sock[s] # "open"
    /\ clients' = clients \ {s}
    /\ wire' = [wire EXCEPT ![s] = <<>>]
    /\ requests' = requests \ {s}
    /\ UNCHANGED <<plugin, up, connected, ws, sock, attempts, loops, timers, introduce,
                   posts, list, known, faults>>

EngineStops ==
    /\ up /\ Fault
    /\ up' = FALSE
    /\ sock' = [s \in Sockets |-> IF sock[s] = "open" THEN "dead" ELSE sock[s]]
    /\ clients' = {} /\ requests' = {} /\ posts' = {}
    /\ wire' = [s \in Sockets |-> <<>>]
    /\ known' = [k \in Kinds |-> 0]
    /\ UNCHANGED <<plugin, connected, ws, attempts, loops, timers, introduce, list>>

EngineStarts ==
    /\ ~up /\ up' = TRUE
    /\ UNCHANGED <<plugin, connected, ws, sock, attempts, loops, timers, introduce,
                   requests, clients, wire, posts, list, known, faults>>

SocketStep(s) ==
    \/ AttemptSucceeds(s) \/ AttemptFails(s) \/ LoopEnds(s) \/ PositionsRequested(s)
    \/ WireArrives(s) \/ Drop(s) \/ ClientLeaves(s)

Next ==
    \/ OnRun \/ TimerFires \/ OnStop \/ Introduce \/ EngineStops \/ EngineStarts
    \/ \E k \in Kinds : ListChanges(k)
    \/ \E s \in Sockets : SocketStep(s)
    \/ \E m \in Messages : PostArrives(m) \/ PostLost(m)

Spec == Init /\ [][Next]_vars

\* Timers fire, calls return, tasks read what has arrived, and the engine is
\* started again.  Two timers may each replace the other's connection when they
\* fire, but they run for 30 s, which leaves time to connect and to read what
\* arrives (strong fairness).
Fairness ==
    /\ WF_vars(TimerFires) /\ WF_vars(Introduce) /\ WF_vars(EngineStarts)
    /\ \A s \in Sockets :
         /\ SF_vars(AttemptSucceeds(s)) /\ WF_vars(AttemptFails(s)) /\ WF_vars(LoopEnds(s))
         /\ SF_vars(PositionsRequested(s)) /\ SF_vars(WireArrives(s))
         /\ WF_vars(ClientLeaves(s))
    /\ \A m \in Messages : WF_vars(PostArrives(m))

LiveSpec == Spec /\ Fairness

-----------------------------------------------------------------------------
(* Properties.                                                               *)

\* A running plugin is never without a way back to the engine: it believes
\* itself connected only while a receive loop watches a socket, and otherwise
\* an attempt or a retry timer is pending.
NeverStranded ==
    plugin = "on" => IF connected THEN loops # {} ELSE attempts # {} \/ timers > 0

\* Connections do not pile up: at most one socket of the plugin is open, and
\* only the current one.
OneSocket == \A s \in Sockets : sock[s] \in {"open", "connecting"} => s = ws

Quiet == /\ plugin = "on" /\ ~connected /\ posts = {}
         /\ faults = 0 /\ list = MaxChange

\* Whatever was lost with sockets and POSTs or forgotten by a restarted engine,
\* once faults and changes are over a plugin that finds itself disconnected with
\* no POST under way brings the engine to hold the terminal's positions.  (A POST
\* under way may arrive after the new connection's list and replace it.)
Resyncs == Quiet ~> (known["pos"] = list["pos"])

\* The same of the orders does not hold: they are sent when they change and at
\* the plugin's start, and a restarted engine does not ask for them.
OrdersResync == Quiet ~> (known["ord"] = list["ord"])
=============================================================================
