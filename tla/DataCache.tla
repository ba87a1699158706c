------------------------------ MODULE DataCache ------------------------------
(***************************************************************************)
(* core/data_cache.py: the one place where the list of positions is         *)
(* written.  Three sources race for it: the exchange's user stream          *)
(* (ws_manager._apply_account_update), REST answers (exchange.              *)
(* fetch_positions, polled or forced after a fill) and the Quantower plugin *)
(* (platform_bridge).  The account balance, kept by the same rule under a   *)
(* version of its own, is left out.                                         *)
(*                                                                         *)
(* The exchange's history is a sequence of moves; what a message or a       *)
(* snapshot says is the number of moves it knows of, and a listed position  *)
(* is the number of the move that gave it its size.  One-way mode: a ticker *)
(* is flat, LONG or SHORT at the exchange.  The apply methods hold the lock *)
(* without awaiting anything, so each is one step.                          *)
(***************************************************************************)
EXTENDS Integers, Sequences

CONSTANTS Tickers,
          NoTicker,     \* of a move of the balance only: funding
          Pollers,      \* tasks that poll: account refresh loop, fallback loop
          Refreshers,   \* forced refreshes under way, trade_event_sem's slots
          Window,       \* _WS_PRIORITY_WINDOW_MS
          Latency,      \* a REST answer is applied at most this long after its reading
          Delay,        \* a pushed message is applied at most this long after its event
          MaxMoves,     \* bound on moves
          MoveBy,       \* the exchange moves until then
          MaxClock,     \* bound on the clock
          Faults        \* disturbances: "drop", "fail", "plugin"

ASSUME TimesAssumption ==
  /\ Window \in Nat /\ Latency \in Nat /\ Delay \in Nat
  /\ MoveBy \in Nat /\ MaxClock \in Nat /\ MaxMoves \in Nat
ASSUME NamesAssumption == NoTicker \notin Tickers /\ Pollers \intersect Refreshers = {}
ASSUME FaultsAssumption == Faults \subseteq {"drop", "fail", "plugin"}

Callers == Pollers \union Refreshers
Dirs == {"LONG", "SHORT"}

VARIABLES
  clock,     \* the engine's and the exchange's clocks agree
  moves,     \* exchange: [ticker, side, at] of every move so far
  stream,    \* user-data stream: [kind, n], oldest first
  list,      \* _positions: list[t][d], the move a listed position shows, or 0
  asof,      \* ghost: the moves the cache's information on a ticker knows of
  posVer,    \* _positions_version: source and timestamp
  call,      \* REST calls: where the caller is, the moves its answer knows of, when read
  pending,   \* forced refreshes created and not yet started
  plugin     \* platform_bridge.is_connected

exchange == <<moves>>
cache == <<list, asof, posVer>>
vars == <<clock, moves, stream, list, asof, posVer, call, pending, plugin>>

Idle == [pc |-> "idle", v |-> 0, at |-> 0]
Never == [src |-> "internal", at |-> 0]
Now == Len(moves)

Init ==
  /\ clock = 0 /\ moves = <<>> /\ stream = <<>>
  /\ list = [t \in Tickers |-> [d \in Dirs |-> 0]]
  /\ asof = [t \in Tickers |-> 0]
  /\ posVer = Never
  /\ call = [c \in Callers |-> Idle]
  /\ pending = 0 /\ plugin = "no"

(* The move a position list made from the first v moves shows for ticker t in  *)
(* direction d, 0 if it shows none.                                            *)
LastMoves(t, d, v) ==
  {i \in 1..v : /\ moves[i].ticker = t /\ moves[i].side = d
                /\ \A j \in i + 1 .. v : moves[j].ticker # t}
Shown(t, d, v) ==
  IF LastMoves(t, d, v) = {} THEN 0 ELSE CHOOSE i \in LastMoves(t, d, v) : TRUE

-----------------------------------------------------------------------------
(* The exchange: a fill opens, resizes, closes or turns a position and sends   *)
(* the account's update, then the order's.  A funding payment moves the        *)
(* balance alone.                                                              *)
Move(t, s) ==
  /\ clock <= MoveBy /\ Now < MaxMoves
  /\ s = "flat" => \E d \in Dirs : Shown(t, d, Now) # 0
  /\ moves' = Append(moves, [ticker |-> t, side |-> s, at |-> clock])
  /\ stream' = stream \o <<[kind |-> "account", n |-> Now + 1],
                           [kind |-> "trade", n |-> Now + 1]>>
  /\ UNCHANGED <<clock, cache, call, pending, plugin>>

Funding ==
  /\ clock <= MoveBy /\ Now < MaxMoves
  /\ moves' = Append(moves, [ticker |-> NoTicker, side |-> "flat", at |-> clock])
  /\ stream' = Append(stream, [kind |-> "account", n |-> Now + 1])
  /\ UNCHANGED <<clock, cache, call, pending, plugin>>

StreamDrops ==
  /\ "drop" \in Faults /\ stream # <<>>
  /\ stream' = <<>>
  /\ UNCHANGED <<clock, exchange, cache, call, pending, plugin>>

(* Time passes while every answer and message is within its bound. *)
Tick ==
  /\ clock < MaxClock
  /\ \A c \in Callers : call[c].pc = "asked" => clock < call[c].at + Latency
  /\ \A k \in 1..Len(stream) : clock < moves[stream[k].n].at + Delay
  /\ clock' = clock + 1
  /\ UNCHANGED <<exchange, stream, cache, call, pending, plugin>>

-----------------------------------------------------------------------------
(* The apply methods.                                                          *)

(* (Mutant: the age of the newer data is not looked at.) *)
MutAcceptsRestAlways(ver) == TRUE

(* (Mutant: REST never replaces pushed data.) *)
MutAcceptsRestNever(ver) == ver.src \in {"internal", "rest"}

(* _should_accept_position_update, for REST.                                   *)
AcceptsRest(ver) ==
  \/ ver.src \in {"internal", "rest"}
  \/ clock - ver.at >= Window

(* (Mutant: the version is stamped with the end of the window.) *)
MutReplaceStampsEnd(src, v) ==
  /\ list' = [t \in Tickers |-> [d \in Dirs |-> Shown(t, d, v)]]
  /\ asof' = [t \in Tickers |-> v]
  /\ posVer' = [src |-> src, at |-> clock + Window]

(* apply_position_snapshot: the whole list is replaced. *)
Replace(src, v) ==
  /\ list' = [t \in Tickers |-> [d \in Dirs |-> Shown(t, d, v)]]
  /\ asof' = [t \in Tickers |-> v]
  /\ posVer' = [src |-> src, at |-> clock]

(* parse_account_update: the sign of the amount, and nothing is not positive. *)
ParsedSide(s) == IF s = "LONG" THEN "LONG" ELSE "SHORT"

(* apply_position_update_incremental: the named position is set or removed;    *)
(* the version takes the event's own time, even if no position is named.       *)
AccountUpdate ==
  /\ stream # <<>> /\ Head(stream).kind = "account"
  /\ LET n == Head(stream).n
         m == moves[n]
     IN /\ stream' = Tail(stream)
        /\ posVer' = [src |-> "ws", at |-> m.at]
        /\ IF m.ticker \in Tickers
           THEN /\ list' = [list EXCEPT ![m.ticker][ParsedSide(m.side)] =
                              IF m.side = "flat" THEN 0 ELSE n]
                /\ asof' = [asof EXCEPT ![m.ticker] = n]
           ELSE UNCHANGED <<list, asof>>
  /\ UNCHANGED <<clock, exchange, call, pending, plugin>>

(* ORDER_TRADE_UPDATE with a fill: a forced refresh is created; while rate     *)
(* limited it returns at once.                                                 *)
TradeUpdate ==
  /\ stream # <<>> /\ Head(stream).kind = "trade"
  /\ stream' = Tail(stream)
  /\ \/ pending' = pending + 1
     \/ "fail" \in Faults /\ pending' = pending
  /\ UNCHANGED <<clock, exchange, cache, call, plugin>>

-----------------------------------------------------------------------------
(* fetch_positions: asked, read by the exchange, answered.                     *)

Ask(c) == call' = [call EXCEPT ![c] = [pc |-> "asked", v |-> Now, at |-> clock]]

StartPoll(c) ==
  /\ call[c].pc = "idle" /\ plugin = "no"
  /\ Ask(c)
  /\ UNCHANGED <<clock, exchange, stream, cache, pending, plugin>>

StartRefresh(c) ==
  /\ call[c].pc = "idle" /\ pending > 0
  /\ pending' = pending - 1
  /\ Ask(c)
  /\ UNCHANGED <<clock, exchange, stream, cache, plugin>>

Answer(c) ==
  /\ call[c].pc = "asked"
  /\ call' = [call EXCEPT ![c] = Idle]
  /\ IF c \in Refreshers \/ AcceptsRest(posVer) THEN Replace("rest", call[c].v)
                                               ELSE UNCHANGED <<list, asof, posVer>>
  /\ UNCHANGED <<clock, exchange, stream, pending, plugin>>

(* The call raises: logged, the caller gives up until its next turn. *)
CallFails(c) ==
  /\ "fail" \in Faults /\ call[c].pc # "idle"
  /\ call' = [call EXCEPT ![c] = Idle]
  /\ UNCHANGED <<clock, exchange, stream, cache, pending, plugin>>

-----------------------------------------------------------------------------
(* The plugin.                                                                 *)

PluginFlip ==
  /\ "plugin" \in Faults
  /\ plugin' = IF plugin = "no" THEN "yes" ELSE "no"
  /\ UNCHANGED <<clock, exchange, stream, cache, call, pending>>

(* What Quantower knew when it sent: all moves but some of the last Delay. *)
Knows(v) == \A i \in v + 1 .. Now : clock <= moves[i].at + Delay

(* _handle_position_snapshot: always accepted.                                 *)
PluginSnapshot(v) ==
  /\ plugin = "yes" /\ Knows(v)
  /\ Replace("platform", v)
  /\ UNCHANGED <<clock, exchange, stream, call, pending, plugin>>

(* _handle_fill: a forced refresh of its own. *)
PluginFill ==
  /\ plugin = "yes" /\ pending = 0 /\ Now > 0
  /\ pending' = pending + 1
  /\ UNCHANGED <<clock, exchange, stream, cache, call, plugin>>

-----------------------------------------------------------------------------
Next ==
  \/ Funding \/ StreamDrops \/ Tick
  \/ \E t \in Tickers, s \in Dirs \union {"flat"} : Move(t, s)
  \/ AccountUpdate \/ TradeUpdate
  \/ \E c \in Pollers : StartPoll(c)
  \/ \E c \in Refreshers : StartRefresh(c)
  \/ \E c \in Callers : Answer(c) \/ CallFails(c)
  \/ PluginFlip \/ PluginFill
  \/ \E v \in 0..Now : PluginSnapshot(v)

Spec == Init /\ [][Next]_vars

(* Time passes, the stream is read, calls end, and a task that keeps polling is *)
(* answered in the end, rate limits and errors in between.                     *)
LiveSpec ==
  /\ Spec
  /\ SF_vars(Tick) /\ WF_vars(AccountUpdate \/ TradeUpdate)
  /\ \A c \in Refreshers : WF_vars(Answer(c))
  /\ \A c \in Pollers : WF_vars(StartPoll(c)) /\ SF_vars(Answer(c))

-----------------------------------------------------------------------------
Sources == {"internal", "ws", "rest", "platform"}

Moves == [ticker : Tickers \union {NoTicker}, side : Dirs \union {"flat"}, at : 0..MaxClock]
Events == [kind : {"account", "trade"}, n : 1..Now]

(* TypeOK: the domain of every variable. *)
TypeOK ==
  /\ clock \in 0..MaxClock
  /\ moves \in Seq(Moves)
  /\ stream \in Seq(Events)
  /\ list \in [Tickers -> [Dirs -> 0..Now]]
  /\ asof \in [Tickers -> 0..Now]
  /\ posVer \in [src : Sources, at : 0..MaxClock]
  /\ call \in [Callers -> [pc : {"idle", "asked"}, v : 0..Now, at : 0..MaxClock]]
  /\ pending \in Nat
  /\ plugin \in {"yes", "no"}

(* PollKeepsNewer: a polled REST answer that replaces what the stream or the   *)
(* plugin said never knows less than what it replaces, on any ticker: what the *)
(* five-second window is for.                                                  *)
PollKeepsNewer ==
  [][\A c \in Pollers :
       Answer(c) /\ posVer.src \in {"ws", "platform"}
       => \A t \in Tickers : asof'[t] >= asof[t]]_vars

(* NoGhostPosition: a listed position has the direction the cache last heard   *)
(* its ticker has; a closed or turned position does not stay listed.           *)
NoGhostPosition ==
  \A t \in Tickers, d \in Dirs : list[t][d] # 0 => Shown(t, d, asof[t]) # 0

(* Converges: once the exchange is quiet and the plugin is gone, the cache     *)
(* shows the exchange's positions, whatever was lost before.                   *)
InSync == \A t \in Tickers, d \in Dirs : list[t][d] = Shown(t, d, Now)
Converges == <>[](plugin = "no") => <>[]InSync
=============================================================================
