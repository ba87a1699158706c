--------------------------- MODULE DataCache_proofs ---------------------------
(***************************************************************************)
(* What holds of the position cache for every set of tickers and callers    *)
(* and for every window, latency and delay.                                 *)
(***************************************************************************)
EXTENDS DataCache, SequenceTheorems, TLAPS

-----------------------------------------------------------------------------
(* Type correctness, with the fact it rests on: no move lies in the future.   *)

Past == \A i \in 1..Now : moves[i].at <= clock

Typed == TypeOK /\ Past

LEMMA ShownType ==
  ASSUME NEW t, NEW d, NEW v \in Nat
  PROVE  Shown(t, d, v) \in 0..v
<1>1. LastMoves(t, d, v) \subseteq 1..v
  BY DEF LastMoves
<1>2. CASE LastMoves(t, d, v) = {}
  BY <1>2 DEF Shown
<1>3. CASE LastMoves(t, d, v) # {}
  <2>1. Shown(t, d, v) \in LastMoves(t, d, v)
    BY <1>3 DEF Shown
  <2>2. QED
    BY <1>1, <2>1
<1>4. QED
  BY <1>2, <1>3

(* Replacing the list by what the first v moves show. *)
LEMMA ReplaceType ==
  ASSUME Typed, NEW src \in Sources, NEW v \in 0..Now, Replace(src, v), moves' = moves
  PROVE  /\ list' \in [Tickers -> [Dirs -> 0..Now']]
         /\ asof' \in [Tickers -> 0..Now']
         /\ posVer' \in [src : Sources, at : 0..MaxClock]
<1>1. Now \in Nat /\ Now' = Now /\ clock \in 0..MaxClock
  BY LenProperties DEF Typed, TypeOK, Now
<1>2. \A t, d : Shown(t, d, v) \in 0..Now
  <2>1. SUFFICES ASSUME NEW t, NEW d PROVE Shown(t, d, v) \in 0..Now
    OBVIOUS
  <2>2. v \in Nat /\ v <= Now
    BY <1>1
  <2>3. Shown(t, d, v) \in 0..v
    BY <2>2, ShownType
  <2>4. QED
    BY <1>1, <2>2, <2>3
<1>3. list' \in [Tickers -> [Dirs -> 0..Now]]
  BY <1>2 DEF Replace
<1>4. asof' \in [Tickers -> 0..Now] /\ posVer' \in [src : Sources, at : 0..MaxClock]
  BY <1>1 DEF Replace
<1>5. QED
  BY <1>1, <1>3, <1>4

(* One more move m at the exchange. *)
LEMMA MoreMoves ==
  ASSUME Typed, NEW m \in Moves, m.at = clock,
         moves' = Append(moves, m), clock' = clock, UNCHANGED cache, UNCHANGED call
  PROVE  /\ moves' \in Seq(Moves) /\ Now \in Nat /\ Now' = Now + 1
         /\ \A i \in 1..Now : moves'[i] = moves[i]
         /\ moves'[Now'] = m
         /\ Past'
         /\ list' \in [Tickers -> [Dirs -> 0..Now']]
         /\ asof' \in [Tickers -> 0..Now']
         /\ call' \in [Callers -> [pc : {"idle", "asked"}, v : 0..Now', at : 0..MaxClock]]
         /\ stream \in Seq(Events')
         /\ \A k \in {"account", "trade"} : [kind |-> k, n |-> Now'] \in Events'
<1>1. moves \in Seq(Moves) /\ Now \in Nat /\ clock \in Nat
  BY LenProperties, TimesAssumption DEF Typed, TypeOK, Now
<1>2. moves' \in Seq(Moves) /\ Now' = Now + 1 /\ moves'[Now'] = m
      /\ \A i \in 1..Now : moves'[i] = moves[i]
  BY <1>1, AppendProperties DEF Now
<1>3. Past'
  <2>1. SUFFICES ASSUME NEW i \in 1..Now' PROVE moves'[i].at <= clock'
    BY DEF Past
  <2>2. CASE i \in 1..Now
    BY <1>1, <1>2, <2>2 DEF Typed, Past
  <2>3. CASE i = Now'
    <3>1. moves'[i] = m
      BY <1>2, <2>3, Zenon
    <3>2. m.at <= clock'
      BY <1>1
    <3>3. QED
      BY <3>1, <3>2, Zenon
  <2>4. i \in Int /\ 1 <= i /\ i <= Now + 1
    BY <1>1, <1>2
  <2>5. i \in 1..Now \/ i = Now + 1
    BY <1>1, <2>4
  <2>6. QED
    BY <1>2, <2>2, <2>3, <2>5
<1>4. \A n \in 0..Now : n \in 0..Now'
  BY <1>1, <1>2
<1>5. list' \in [Tickers -> [Dirs -> 0..Now']] /\ asof' \in [Tickers -> 0..Now']
  BY <1>4 DEF Typed, TypeOK, cache
<1>6. call' \in [Callers -> [pc : {"idle", "asked"}, v : 0..Now', at : 0..MaxClock]]
  <2>1. [pc : {"idle", "asked"}, v : 0..Now, at : 0..MaxClock]
          \subseteq [pc : {"idle", "asked"}, v : 0..Now', at : 0..MaxClock]
    BY <1>4
  <2>2. QED
    BY <2>1 DEF Typed, TypeOK
<1>7. stream \in Seq(Events')
  <2>1. \A n \in 1..Now : n \in 1..Now'
    BY <1>1, <1>2
  <2>2. Events \subseteq Events'
    BY <2>1 DEF Events
  <2>3. QED
    BY <2>2, SeqMonotonic DEF Typed, TypeOK
<1>8. \A k \in {"account", "trade"} : [kind |-> k, n |-> Now'] \in Events'
  BY <1>1, <1>2 DEF Events
<1>9. QED
  BY <1>1, <1>2, <1>3, <1>5, <1>6, <1>7, <1>8

LEMMA MoveType ==
  ASSUME Typed, NEW t \in Tickers, NEW s \in Dirs \union {"flat"}, Move(t, s)
  PROVE  Typed'
<1> DEFINE m == [ticker |-> t, side |-> s, at |-> clock]
           new == <<[kind |-> "account", n |-> Now + 1], [kind |-> "trade", n |-> Now + 1]>>
<1>1. m \in Moves /\ m.at = clock
  BY DEF Typed, TypeOK, Moves
<1>2. moves' = Append(moves, m) /\ clock' = clock /\ UNCHANGED cache /\ UNCHANGED call
  BY DEF Move
<1>3. /\ moves' \in Seq(Moves) /\ Now' = Now + 1 /\ Past'
      /\ list' \in [Tickers -> [Dirs -> 0..Now']]
      /\ asof' \in [Tickers -> 0..Now']
      /\ call' \in [Callers -> [pc : {"idle", "asked"}, v : 0..Now', at : 0..MaxClock]]
      /\ stream \in Seq(Events')
      /\ \A k \in {"account", "trade"} : [kind |-> k, n |-> Now'] \in Events'
  BY <1>1, <1>2, MoreMoves
<1>4. new \in Seq(Events')
  BY <1>3
<1>5. stream' = stream \o new
  BY DEF Move
<1>6. stream' \in Seq(Events')
  BY <1>3, <1>4, <1>5, ConcatProperties
<1>7. posVer' = posVer /\ pending' = pending /\ plugin' = plugin
  BY DEF Move, cache
<1>8. Moves' = Moves
  BY DEF Moves
<1>9. QED
  BY <1>2, <1>3, <1>6, <1>7, <1>8 DEF Typed, TypeOK

LEMMA FundingType ==
  ASSUME Typed, Funding
  PROVE  Typed'
<1> DEFINE m == [ticker |-> NoTicker, side |-> "flat", at |-> clock]
<1>1. m \in Moves /\ m.at = clock
  BY DEF Typed, TypeOK, Moves
<1>2. moves' = Append(moves, m) /\ clock' = clock /\ UNCHANGED cache /\ UNCHANGED call
  BY DEF Funding
<1>3. /\ moves' \in Seq(Moves) /\ Now' = Now + 1 /\ Past'
      /\ list' \in [Tickers -> [Dirs -> 0..Now']]
      /\ asof' \in [Tickers -> 0..Now']
      /\ call' \in [Callers -> [pc : {"idle", "asked"}, v : 0..Now', at : 0..MaxClock]]
      /\ stream \in Seq(Events')
      /\ \A k \in {"account", "trade"} : [kind |-> k, n |-> Now'] \in Events'
  BY <1>1, <1>2, MoreMoves
<1>4. stream' = Append(stream, [kind |-> "account", n |-> Now'])
  BY <1>3 DEF Funding
<1>5. stream' \in Seq(Events')
  BY <1>3, <1>4, AppendProperties
<1>6. posVer' = posVer /\ pending' = pending /\ plugin' = plugin
  BY DEF Funding, cache
<1>7. Moves' = Moves
  BY DEF Moves
<1>8. QED
  BY <1>2, <1>3, <1>5, <1>6, <1>7 DEF Typed, TypeOK

LEMMA TypedStep == Typed /\ [Next]_vars => Typed'
<1> SUFFICES ASSUME Typed, [Next]_vars PROVE Typed'
  OBVIOUS
<1>0. /\ Moves' = Moves /\ Now \in Nat /\ clock \in 0..MaxClock /\ MaxClock \in Nat
      /\ (moves' = moves => Now' = Now /\ Events' = Events)
  BY LenProperties, TimesAssumption DEF Typed, TypeOK, Moves, Now, Events
<1>1. CASE Funding
  BY <1>1, FundingType
<1>2. ASSUME NEW t \in Tickers, NEW s \in Dirs \union {"flat"}, Move(t, s) PROVE Typed'
  BY <1>2, MoveType
<1>3. CASE StreamDrops
  <2>1. stream' \in Seq(Events')
    BY <1>0, <1>3, EmptySeq DEF StreamDrops, exchange
  <2>2. QED
    BY <1>0, <1>3, <2>1 DEF StreamDrops, exchange, cache, Typed, TypeOK, Past
<1>4. CASE Tick
  <2>1. clock' = clock + 1 /\ clock' \in 0..MaxClock
    BY <1>0, <1>4 DEF Tick
  <2>2. Past'
    <3>1. SUFFICES ASSUME NEW i \in 1..Now PROVE moves[i].at <= clock'
      BY <1>0, <1>4 DEF Tick, exchange, Past
    <3>2. moves[i] \in Moves
      BY <1>0, ElementOfSeq DEF Typed, TypeOK, Now
    <3>3. moves[i].at \in Int /\ moves[i].at <= clock
      BY <1>0, <3>2 DEF Typed, Past, Moves
    <3>4. QED
      BY <1>0, <2>1, <3>3
  <2>3. QED
    BY <1>0, <1>4, <2>1, <2>2 DEF Tick, exchange, cache, Typed, TypeOK
<1>5. CASE AccountUpdate
  <2> DEFINE n == Head(stream).n
  <2>1. stream' = Tail(stream) /\ UNCHANGED <<clock, moves, call, pending, plugin>>
    BY <1>5 DEF AccountUpdate, exchange
  <2>2. Head(stream) \in Events /\ stream' \in Seq(Events)
    BY <1>5, <2>1, HeadTailProperties DEF AccountUpdate, Typed, TypeOK
  <2>3. n \in 1..Now
    BY <2>2 DEF Events
  <2>4. moves[n] \in Moves
    BY <2>3, ElementOfSeq DEF Typed, TypeOK, Now
  <2>5. posVer' \in [src : Sources, at : 0..MaxClock]
    <3>1. posVer' = [src |-> "ws", at |-> moves[n].at]
      BY <1>5 DEF AccountUpdate
    <3>2. moves[n].at \in 0..MaxClock
      BY <2>4 DEF Moves
    <3>3. QED
      BY <3>1, <3>2 DEF Sources
  <2>6. list' \in [Tickers -> [Dirs -> 0..Now]] /\ asof' \in [Tickers -> 0..Now]
    <3>1. CASE moves[n].ticker \in Tickers
      <4>1. asof' = [asof EXCEPT ![moves[n].ticker] = n]
        BY <1>5, <3>1 DEF AccountUpdate
      <4>2. list' = [list EXCEPT ![moves[n].ticker][ParsedSide(moves[n].side)] =
                       IF moves[n].side = "flat" THEN 0 ELSE n]
        BY <1>5, <3>1 DEF AccountUpdate
      <4>3. n \in 0..Now /\ 0 \in 0..Now
        BY <1>0, <2>3
      <4>4. QED
        BY <4>1, <4>2, <4>3 DEF Typed, TypeOK
    <3>2. CASE moves[n].ticker \notin Tickers
      BY <1>5, <3>2 DEF AccountUpdate, Typed, TypeOK
    <3>3. QED
      BY <3>1, <3>2
  <2>7. QED
    BY <1>0, <2>1, <2>2, <2>5, <2>6 DEF Typed, TypeOK, Past
<1>6. CASE TradeUpdate
  <2>1. stream' \in Seq(Events)
    BY <1>6, HeadTailProperties DEF TradeUpdate, Typed, TypeOK
  <2>2. pending' \in Nat
    BY <1>6 DEF TradeUpdate, Typed, TypeOK
  <2>3. QED
    BY <1>0, <1>6, <2>1, <2>2 DEF TradeUpdate, exchange, cache, Typed, TypeOK, Past
<1>7. ASSUME NEW c \in Callers, Ask(c)
      PROVE  call' \in [Callers -> [pc : {"idle", "asked"}, v : 0..Now, at : 0..MaxClock]]
  <2>1. [pc |-> "asked", v |-> Now, at |-> clock]
          \in [pc : {"idle", "asked"}, v : 0..Now, at : 0..MaxClock]
    BY <1>0
  <2>2. QED
    BY <1>7, <2>1 DEF Ask, Typed, TypeOK
<1>8. ASSUME NEW c \in Pollers, StartPoll(c) PROVE Typed'
  BY <1>0, <1>7, <1>8 DEF StartPoll, exchange, cache, Callers, Typed, TypeOK, Past
<1>9. ASSUME NEW c \in Refreshers, StartRefresh(c) PROVE Typed'
  <2>1. pending' \in Nat
    BY <1>9 DEF StartRefresh, Typed, TypeOK
  <2>2. QED
    BY <1>0, <1>7, <1>9, <2>1 DEF StartRefresh, exchange, cache, Callers, Typed, TypeOK, Past
<1>10. ASSUME NEW c \in Callers, call' = [call EXCEPT ![c] = Idle]
       PROVE  call' \in [Callers -> [pc : {"idle", "asked"}, v : 0..Now, at : 0..MaxClock]]
  <2>1. Idle \in [pc : {"idle", "asked"}, v : 0..Now, at : 0..MaxClock]
    BY <1>0 DEF Idle
  <2>2. QED
    BY <1>10, <2>1 DEF Typed, TypeOK
<1>11. ASSUME NEW c \in Callers, Answer(c) PROVE Typed'
  <2>1. call' \in [Callers -> [pc : {"idle", "asked"}, v : 0..Now, at : 0..MaxClock]]
    BY <1>10, <1>11 DEF Answer
  <2>2. UNCHANGED <<clock, moves, stream, pending, plugin>>
    BY <1>11 DEF Answer, exchange
  <2>3. call[c].v \in 0..Now /\ "rest" \in Sources
    BY DEF Typed, TypeOK, Sources
  <2>4. Replace("rest", call[c].v) \/ UNCHANGED <<list, asof, posVer>>
    BY <1>11 DEF Answer
  <2>5. /\ list' \in [Tickers -> [Dirs -> 0..Now']] /\ asof' \in [Tickers -> 0..Now']
        /\ posVer' \in [src : Sources, at : 0..MaxClock]
    <3>1. CASE Replace("rest", call[c].v)
      BY <2>2, <2>3, <3>1, ReplaceType
    <3>2. CASE UNCHANGED <<list, asof, posVer>>
      BY <1>0, <2>2, <3>2 DEF Typed, TypeOK
    <3>3. QED
      BY <2>4, <3>1, <3>2
  <2>6. QED
    BY <1>0, <2>1, <2>2, <2>5 DEF Typed, TypeOK, Past
<1>12. ASSUME NEW c \in Callers, CallFails(c) PROVE Typed'
  BY <1>0, <1>10, <1>12 DEF CallFails, exchange, cache, Typed, TypeOK, Past
<1>13. CASE PluginFlip
  BY <1>0, <1>13 DEF PluginFlip, exchange, cache, Typed, TypeOK, Past
<1>14. CASE PluginFill
  <2>1. pending' \in Nat
    BY <1>14 DEF PluginFill, Typed, TypeOK
  <2>2. QED
    BY <1>0, <1>14, <2>1 DEF PluginFill, exchange, cache, Typed, TypeOK, Past
<1>15. ASSUME NEW v \in 0..Now, PluginSnapshot(v) PROVE Typed'
  <2>1. UNCHANGED <<clock, moves, stream, call, pending, plugin>> /\ Replace("platform", v)
    BY <1>15 DEF PluginSnapshot, exchange
  <2>2. /\ list' \in [Tickers -> [Dirs -> 0..Now']] /\ asof' \in [Tickers -> 0..Now']
        /\ posVer' \in [src : Sources, at : 0..MaxClock]
    BY <2>1, ReplaceType DEF Sources
  <2>3. QED
    BY <1>0, <2>1, <2>2 DEF Typed, TypeOK, Past
<1>16. CASE UNCHANGED vars
  BY <1>0, <1>16 DEF vars, exchange, cache, Typed, TypeOK, Past
<1>17. QED
  BY <1>1, <1>2, <1>3, <1>4, <1>5, <1>6, <1>8, <1>9, <1>11, <1>12, <1>13, <1>14, <1>15, <1>16
     DEF Next

LEMMA TypedInit == Init => Typed
<1> SUFFICES ASSUME Init PROVE Typed
  OBVIOUS
<1>1. Now = 0 /\ moves \in Seq(Moves) /\ stream \in Seq(Events)
  BY EmptySeq DEF Init, Now
<1>2. 0 \in 0..MaxClock
  BY TimesAssumption
<1>3. QED
  BY <1>1, <1>2 DEF Init, Typed, TypeOK, Past, Idle, Never, Sources

(* Every variable of the cache stays in its domain. *)
THEOREM TypeCorrect == Spec => []TypeOK
<1>1. Typed => TypeOK
  BY DEF Typed
<1>2. QED
  BY <1>1, TypedInit, TypedStep, PTL DEF Spec

-----------------------------------------------------------------------------
(* The priority window *)

(* A REST answer is at most Latency old and knows every earlier move. *)
CallsKnow ==
  \A c \in Callers : call[c].pc = "asked" =>
    /\ call[c].at <= clock /\ clock <= call[c].at + Latency
    /\ \A i \in call[c].v + 1 .. Now : moves[i].at >= call[c].at

(* A pushed message is at most Delay old. *)
StreamRecent == \A k \in 1..Len(stream) : clock <= moves[stream[k].n].at + Delay

(* What the cache knows of a ticker is at most Delay newer than the stamp of the *)
(* pushed data last applied, whichever ticker that was about.                     *)
StampRecent ==
  posVer.src \in {"ws", "platform"} =>
    \A t \in Tickers : asof[t] > 0 => moves[asof[t]].at <= posVer.at + Delay

Timed == CallsKnow /\ StreamRecent /\ StampRecent

LEMMA TimedInit == Init => Timed
<1> SUFFICES ASSUME Init PROVE Timed
  OBVIOUS
<1>1. Len(stream) = 0
  BY EmptySeq DEF Init
<1>2. CallsKnow /\ StampRecent
  BY DEF Init, CallsKnow, StampRecent, Idle, Never
<1>3. StreamRecent
  BY <1>1 DEF StreamRecent
<1>4. QED
  BY <1>2, <1>3 DEF Timed

(* One more move disturbs none of it: the calls under way were made before it.   *)
LEMMA TimedMove ==
  ASSUME Typed, Timed, NEW m \in Moves, m.at = clock,
         moves' = Append(moves, m), clock' = clock, UNCHANGED cache, UNCHANGED call
  PROVE  /\ CallsKnow' /\ StampRecent'
         /\ \A k \in 1..Len(stream) : clock <= moves'[stream[k].n].at + Delay
         /\ clock <= moves'[Now'].at + Delay
<1>1. /\ Now \in Nat /\ Now' = Now + 1 /\ moves'[Now'] = m
      /\ \A i \in 1..Now : moves'[i] = moves[i]
  BY MoreMoves
<1>2. clock \in Nat /\ Delay \in Nat /\ stream \in Seq(Events) /\ m.at = clock
  BY TimesAssumption DEF Typed, TypeOK
<1>3. CallsKnow'
  <2>1. SUFFICES ASSUME NEW c \in Callers, call[c].pc = "asked"
                 PROVE  /\ call[c].at <= clock /\ clock <= call[c].at + Latency
                        /\ \A i \in call[c].v + 1 .. Now' : moves'[i].at >= call[c].at
    BY Zenon DEF CallsKnow
  <2>2. /\ call[c].at <= clock /\ clock <= call[c].at + Latency
        /\ \A i \in call[c].v + 1 .. Now : moves[i].at >= call[c].at
    BY <2>1 DEF Timed, CallsKnow
  <2>3. call[c].v \in Nat /\ call[c].at \in Nat
    BY <1>1 DEF Typed, TypeOK
  <2>4. ASSUME NEW i \in call[c].v + 1 .. Now' PROVE moves'[i].at >= call[c].at
    <3>1. i \in Int /\ call[c].v + 1 <= i /\ i <= Now + 1
      BY <1>1, <2>3
    <3>2. CASE i <= Now
      <4>1. i \in 1..Now /\ i \in call[c].v + 1 .. Now
        BY <1>1, <2>3, <3>1, <3>2
      <4>2. moves'[i] = moves[i] /\ moves[i].at >= call[c].at
        BY <1>1, <2>2, <4>1
      <4>3. QED
        BY <4>2, Zenon
    <3>3. CASE i = Now + 1
      <4>1. moves'[i] = m
        BY <1>1, <3>3, Zenon
      <4>2. m.at >= call[c].at
        BY <1>2, <2>2, <2>3
      <4>3. QED
        BY <4>1, <4>2, Zenon
    <3>4. i <= Now \/ i = Now + 1
      BY <1>1, <3>1
    <3>5. QED
      BY <3>2, <3>3, <3>4, Zenon
  <2>5. QED
    BY <2>2, <2>4
<1>4. StampRecent'
  <2>1. SUFFICES ASSUME posVer.src \in {"ws", "platform"}, NEW t \in Tickers, asof[t] > 0
                 PROVE  moves'[asof[t]].at <= posVer.at + Delay
    BY DEF StampRecent, cache
  <2>2. asof[t] \in 1..Now
    BY <1>1, <2>1 DEF Typed, TypeOK
  <2>3. moves'[asof[t]] = moves[asof[t]]
    BY <1>1, <2>2
  <2>4. moves[asof[t]].at <= posVer.at + Delay
    BY <2>1 DEF Timed, StampRecent
  <2>5. QED
    BY <2>3, <2>4, Zenon
<1>5. ASSUME NEW k \in 1..Len(stream) PROVE clock <= moves'[stream[k].n].at + Delay
  <2>1. stream[k] \in Events
    BY <1>2, ElementOfSeq
  <2>2. moves'[stream[k].n] = moves[stream[k].n]
    BY <1>1, <2>1 DEF Events
  <2>3. clock <= moves[stream[k].n].at + Delay
    BY DEF Timed, StreamRecent
  <2>4. QED
    BY <2>2, <2>3, Zenon
<1>6. clock <= moves'[Now'].at + Delay
  <2>1. clock <= m.at + Delay
    BY <1>2
  <2>2. QED
    BY <1>1, <2>1, Zenon
<1>7. QED
  BY <1>3, <1>4, <1>5, <1>6

(* The stream after a move: what was in flight, then elements about the move.     *)
LEMMA StreamMove ==
  ASSUME NEW S, stream \in Seq(S), NEW new \in Seq(S), stream' = stream \o new,
         clock' = clock,
         \A k \in 1..Len(stream) : clock <= moves'[stream[k].n].at + Delay,
         \A k \in 1..Len(new) : clock <= moves'[new[k].n].at + Delay
  PROVE  StreamRecent'
<1>1. /\ Len(stream') = Len(stream) + Len(new) /\ Len(stream) \in Nat /\ Len(new) \in Nat
      /\ \A i \in 1 .. Len(stream) + Len(new) :
           stream'[i] = IF i <= Len(stream) THEN stream[i] ELSE new[i - Len(stream)]
  BY ConcatProperties, LenProperties
<1>2. ASSUME NEW k \in 1..Len(stream') PROVE clock <= moves'[stream'[k].n].at + Delay
  <2>1. k \in 1..Len(stream) + Len(new) /\ k \in Int
    BY <1>1
  <2>2. CASE k <= Len(stream)
    <3>1. stream'[k] = stream[k] /\ k \in 1..Len(stream)
      BY <1>1, <2>1, <2>2
    <3>2. QED
      BY <3>1, Zenon
  <2>3. CASE ~(k <= Len(stream))
    <3>1. stream'[k] = new[k - Len(stream)] /\ k - Len(stream) \in 1..Len(new)
      BY <1>1, <2>1, <2>3
    <3>2. QED
      BY <3>1, Zenon
  <2>4. QED
    BY <2>2, <2>3
<1>3. QED
  BY <1>2 DEF StreamRecent

LEMMA TimedStep == Typed /\ Typed' /\ Timed /\ [Next]_vars => Timed'
<1> SUFFICES ASSUME Typed, Typed', Timed, [Next]_vars PROVE Timed'
  OBVIOUS
<1>0. /\ Now \in Nat /\ clock \in Nat /\ Latency \in Nat /\ Delay \in Nat
      /\ stream \in Seq(Events) /\ (moves' = moves => Now' = Now)
  BY LenProperties, TimesAssumption DEF Typed, TypeOK, Now
<1>a. ASSUME UNCHANGED <<clock, moves, call>> PROVE CallsKnow'
  BY <1>0, <1>a DEF Timed, CallsKnow
<1>b. ASSUME UNCHANGED <<clock, moves, stream>> PROVE StreamRecent'
  BY <1>b DEF Timed, StreamRecent
<1>c. ASSUME UNCHANGED <<moves, asof, posVer>> PROVE StampRecent'
  BY <1>c DEF Timed, StampRecent
<1>1. CASE Funding
  <2> DEFINE m == [ticker |-> NoTicker, side |-> "flat", at |-> clock]
             e == [kind |-> "account", n |-> Now + 1]
  <2>1. m \in Moves /\ m.at = clock
    BY DEF Typed, TypeOK, Moves
  <2>2. /\ moves' = Append(moves, m) /\ clock' = clock /\ UNCHANGED cache /\ UNCHANGED call
        /\ stream' = Append(stream, e)
    BY <1>1 DEF Funding
  <2>3. /\ CallsKnow' /\ StampRecent' /\ stream \in Seq(Events') /\ e \in Events'
        /\ \A k \in 1..Len(stream) : clock <= moves'[stream[k].n].at + Delay
        /\ clock <= moves'[Now'].at + Delay /\ Now' = Now + 1
    BY <2>1, <2>2, MoreMoves, TimedMove
  <2>4. stream' = stream \o <<e>> /\ <<e>> \in Seq(Events')
    BY <2>2, <2>3, AppendIsConcat
  <2>5. \A k \in 1..Len(<<e>>) : clock <= moves'[<<e>>[k].n].at + Delay
    <3>1. Len(<<e>>) = 1 /\ <<e>>[1] = e /\ e.n = Now'
      BY <2>3
    <3>2. \A k \in 1..Len(<<e>>) : <<e>>[k].n = Now'
      BY <3>1
    <3>3. QED
      BY <2>3, <3>2, Zenon
  <2>6. StreamRecent'
    BY <2>2, <2>3, <2>4, <2>5, StreamMove
  <2>7. QED
    BY <2>3, <2>6 DEF Timed
<1>2. ASSUME NEW t \in Tickers, NEW s \in Dirs \union {"flat"}, Move(t, s) PROVE Timed'
  <2> DEFINE m == [ticker |-> t, side |-> s, at |-> clock]
             e == [kind |-> "account", n |-> Now + 1]
             f == [kind |-> "trade", n |-> Now + 1]
  <2>1. m \in Moves /\ m.at = clock
    BY DEF Typed, TypeOK, Moves
  <2>2. /\ moves' = Append(moves, m) /\ clock' = clock /\ UNCHANGED cache /\ UNCHANGED call
        /\ stream' = stream \o <<e, f>>
    BY <1>2 DEF Move
  <2>3. /\ CallsKnow' /\ StampRecent' /\ stream \in Seq(Events') /\ e \in Events' /\ f \in Events'
        /\ \A k \in 1..Len(stream) : clock <= moves'[stream[k].n].at + Delay
        /\ clock <= moves'[Now'].at + Delay /\ Now' = Now + 1
    BY <2>1, <2>2, MoreMoves, TimedMove
  <2>4. <<e, f>> \in Seq(Events')
    BY <2>3
  <2>5. \A k \in 1..Len(<<e, f>>) : clock <= moves'[<<e, f>>[k].n].at + Delay
    <3>1. Len(<<e, f>>) = 2 /\ <<e, f>>[1] = e /\ <<e, f>>[2] = f /\ e.n = Now' /\ f.n = Now'
      BY <2>3
    <3>2. \A k \in 1..Len(<<e, f>>) : <<e, f>>[k].n = Now'
      BY <3>1
    <3>3. QED
      BY <2>3, <3>2, Zenon
  <2>6. StreamRecent'
    BY <2>2, <2>3, <2>4, <2>5, StreamMove
  <2>7. QED
    BY <2>3, <2>6 DEF Timed
<1>3. CASE StreamDrops
  <2>1. Len(stream') = 0
    BY <1>3, EmptySeq DEF StreamDrops
  <2>2. StreamRecent'
    BY <2>1 DEF StreamRecent
  <2>3. QED
    BY <1>3, <1>a, <1>c, <2>2 DEF StreamDrops, exchange, cache, Timed
<1>4. CASE Tick
  <2>1. UNCHANGED <<moves, stream, list, asof, posVer, call>> /\ clock' = clock + 1
    BY <1>4 DEF Tick, exchange, cache
  <2>2. CallsKnow'
    <3>1. SUFFICES ASSUME NEW c \in Callers, call[c].pc = "asked"
                   PROVE  /\ call[c].at <= clock + 1 /\ clock + 1 <= call[c].at + Latency
                          /\ \A i \in call[c].v + 1 .. Now : moves[i].at >= call[c].at
      BY <1>0, <2>1, Zenon DEF CallsKnow
    <3>2. /\ call[c].at <= clock /\ clock <= call[c].at + Latency
          /\ \A i \in call[c].v + 1 .. Now : moves[i].at >= call[c].at
      BY <3>1 DEF Timed, CallsKnow
    <3>3. clock < call[c].at + Latency
      BY <1>4, <3>1 DEF Tick
    <3>4. call[c].at \in Nat
      BY DEF Typed, TypeOK
    <3>5. QED
      BY <1>0, <3>2, <3>3, <3>4
  <2>3. StreamRecent'
    <3>1. SUFFICES ASSUME NEW k \in 1..Len(stream)
                   PROVE  clock + 1 <= moves[stream[k].n].at + Delay
      BY <2>1 DEF StreamRecent
    <3>2. clock < moves[stream[k].n].at + Delay
      BY <1>4 DEF Tick
    <3>3. moves[stream[k].n].at \in Nat
      <4>1. stream[k] \in Events
        BY <1>0, ElementOfSeq
      <4>2. moves[stream[k].n] \in Moves
        BY <4>1, ElementOfSeq DEF Events, Typed, TypeOK, Now
      <4>3. QED
        BY <4>2 DEF Moves
    <3>4. QED
      BY <1>0, <3>2, <3>3
  <2>4. QED
    BY <1>c, <2>1, <2>2, <2>3 DEF Timed
<1>5. CASE AccountUpdate
  <2> DEFINE n == Head(stream).n
  <2>1. stream' = Tail(stream) /\ UNCHANGED <<clock, moves, call>>
        /\ stream # <<>> /\ posVer' = [src |-> "ws", at |-> moves[n].at]
    BY <1>5 DEF AccountUpdate, exchange
  <2>2. Head(stream) = stream[1] /\ 1 \in 1..Len(stream) /\ n \in 1..Now
    <3>1. Head(stream) \in Events /\ Len(stream) \in Nat /\ Len(stream) # 0
      BY <1>0, <2>1, HeadTailProperties, LenProperties, EmptySeq
    <3>2. QED
      BY <3>1 DEF Events
  <2>3. StreamRecent'
    BY <1>0, <2>1, HeadTailProperties DEF Timed, StreamRecent
  <2>4. clock <= moves[n].at + Delay
    BY <2>2 DEF Timed, StreamRecent
  <2>5. StampRecent'
    <3>1. SUFFICES ASSUME NEW t \in Tickers, asof'[t] > 0
                   PROVE  moves[asof'[t]].at <= moves[n].at + Delay
      BY <2>1 DEF StampRecent
    <3>2. asof'[t] \in 1..Now
      BY <1>0, <2>1, <3>1 DEF Typed, TypeOK
    <3>3. moves[asof'[t]].at <= clock
      BY <3>2 DEF Typed, Past
    <3>4. moves[asof'[t]].at \in Int /\ moves[n].at \in Int
      <4>1. moves[asof'[t]] \in Moves /\ moves[n] \in Moves
        BY <2>2, <3>2, ElementOfSeq DEF Typed, TypeOK, Now
      <4>2. QED
        BY <4>1 DEF Moves
    <3>5. QED
      BY <1>0, <2>4, <3>3, <3>4
  <2>6. QED
    BY <1>a, <2>1, <2>3, <2>5 DEF Timed
<1>6. CASE TradeUpdate
  <2>1. StreamRecent'
    BY <1>0, <1>6, HeadTailProperties DEF TradeUpdate, exchange, Timed, StreamRecent
  <2>2. QED
    BY <1>6, <1>a, <1>c, <2>1 DEF TradeUpdate, exchange, cache, Timed
<1>7. ASSUME NEW c \in Callers, Ask(c), UNCHANGED <<clock, moves>> PROVE CallsKnow'
  <2>1. call' = [call EXCEPT ![c] = [pc |-> "asked", v |-> Now, at |-> clock]]
    BY <1>7 DEF Ask
  <2>2. call'[c] = [pc |-> "asked", v |-> Now, at |-> clock]
        /\ \A b \in Callers \ {c} : call'[b] = call[b]
    BY <2>1 DEF Typed, TypeOK
  <2>3. \A i \in Now + 1 .. Now : FALSE
    BY <1>0
  <2>4. /\ call'[c].at <= clock /\ clock <= call'[c].at + Latency
        /\ \A i \in call'[c].v + 1 .. Now : moves[i].at >= call'[c].at
    BY <1>0, <2>2, <2>3
  <2>5. QED
    BY <1>0, <1>7, <2>2, <2>4 DEF Timed, CallsKnow
<1>8. ASSUME NEW c \in Pollers, StartPoll(c) PROVE Timed'
  BY <1>7, <1>8, <1>b, <1>c DEF StartPoll, exchange, cache, Callers, Timed
<1>9. ASSUME NEW c \in Refreshers, StartRefresh(c) PROVE Timed'
  BY <1>7, <1>9, <1>b, <1>c DEF StartRefresh, exchange, cache, Callers, Timed
<1>10. ASSUME NEW c \in Callers, call' = [call EXCEPT ![c] = Idle], UNCHANGED <<clock, moves>>
       PROVE  CallsKnow'
  <2>1. call'[c].pc = "idle" /\ \A b \in Callers \ {c} : call'[b] = call[b]
    BY <1>10 DEF Idle, Typed, TypeOK
  <2>2. QED
    BY <1>0, <1>10, <2>1 DEF Timed, CallsKnow
<1>11. ASSUME NEW c \in Callers, Answer(c) PROVE Timed'
  <2>1. CallsKnow' /\ StreamRecent'
    BY <1>10, <1>11, <1>b DEF Answer, exchange
  <2>2. StampRecent'
    BY <1>11, <1>c DEF Answer, exchange, Replace, StampRecent
  <2>3. QED
    BY <2>1, <2>2 DEF Timed
<1>12. ASSUME NEW c \in Callers, CallFails(c) PROVE Timed'
  BY <1>10, <1>12, <1>b, <1>c DEF CallFails, exchange, cache, Timed
<1>13. CASE PluginFlip \/ PluginFill
  BY <1>13, <1>a, <1>b, <1>c DEF PluginFlip, PluginFill, exchange, cache, Timed
<1>14. ASSUME NEW v \in 0..Now, PluginSnapshot(v) PROVE Timed'
  <2>1. UNCHANGED <<clock, moves, stream, call>> /\ Replace("platform", v)
    BY <1>14 DEF PluginSnapshot, exchange
  <2>2. StampRecent'
    <3>1. SUFFICES ASSUME NEW t \in Tickers, asof'[t] > 0
                   PROVE  moves[asof'[t]].at <= clock + Delay
      BY <2>1 DEF StampRecent, Replace
    <3>2. asof'[t] = v
      BY <2>1 DEF Replace
    <3>3. v \in 1..Now
      BY <1>0, <3>1, <3>2
    <3>4. moves[v].at <= clock
      BY <3>3 DEF Typed, Past
    <3>5. moves[v].at \in Int
      <4>1. moves[v] \in Moves
        BY <3>3, ElementOfSeq DEF Typed, TypeOK, Now
      <4>2. QED
        BY <4>1 DEF Moves
    <3>6. QED
      BY <1>0, <3>2, <3>4, <3>5
  <2>3. QED
    BY <1>a, <1>b, <2>1, <2>2 DEF Timed
<1>15. CASE UNCHANGED vars
  BY <1>15, <1>a, <1>b, <1>c DEF vars, exchange, cache, Timed
<1>16. QED
  BY <1>1, <1>2, <1>3, <1>4, <1>5, <1>6, <1>8, <1>9, <1>11, <1>12, <1>13, <1>14, <1>15
     DEF Next

(* One polled answer: it is accepted over pushed data only when the window is     *)
(* over, and then everything the cache knows was known to the exchange when the   *)
(* answer was read.                                                               *)
LEMMA AnswerKnowsMore ==
  ASSUME Latency + Delay < Window, Typed, Timed, NEW c \in Pollers, Answer(c),
         posVer.src \in {"ws", "platform"}, NEW t \in Tickers
  PROVE  asof'[t] >= asof[t]
<1>0. /\ Now \in Nat /\ clock \in Nat /\ Latency \in Nat /\ Delay \in Nat /\ Window \in Nat
      /\ posVer.at \in Nat /\ asof[t] \in 0..Now /\ c \in Callers
      /\ call[c].v \in Nat /\ call[c].at \in Nat
  BY LenProperties, TimesAssumption DEF Typed, TypeOK, Now, Callers
<1>1. CASE UNCHANGED <<list, asof, posVer>>
  BY <1>0, <1>1
<1>2. CASE ~ UNCHANGED <<list, asof, posVer>>
  <2>1. Replace("rest", call[c].v) /\ (c \in Refreshers \/ AcceptsRest(posVer)) /\ call[c].pc = "asked"
    BY <1>2 DEF Answer
  <2>2. clock - posVer.at >= Window
    BY <2>1, NamesAssumption DEF AcceptsRest
  <2>3. asof'[t] = call[c].v
    BY <2>1 DEF Replace
  <2>4. ASSUME asof[t] > call[c].v PROVE FALSE
    <3>1. asof[t] \in call[c].v + 1 .. Now /\ asof[t] > 0 /\ asof[t] \in 1..Now
      BY <1>0, <2>4
    <3>2. moves[asof[t]].at >= call[c].at /\ clock <= call[c].at + Latency
      BY <1>0, <2>1, <3>1 DEF Timed, CallsKnow
    <3>3. moves[asof[t]].at <= posVer.at + Delay
      BY <3>1 DEF Timed, StampRecent
    <3>4. moves[asof[t]].at \in Int
      <4>1. moves[asof[t]] \in Moves
        BY <3>1, ElementOfSeq DEF Typed, TypeOK, Now
      <4>2. QED
        BY <4>1 DEF Moves
    <3>5. QED
      BY <1>0, <2>2, <3>2, <3>3, <3>4
  <2>5. QED
    BY <1>0, <2>3, <2>4
<1>3. QED
  BY <1>1, <1>2

(* The priority window does what it is for, whatever the disturbances: if it is   *)
(* longer than an answer's latency and a message's delay together, a polled answer *)
(* never replaces pushed data by older data.                                       *)
THEOREM WindowSuffices ==
  ASSUME Latency + Delay < Window
  PROVE  Spec => PollKeepsNewer
<1>1. Spec => [](Typed /\ Timed)
  BY TypedInit, TypedStep, TimedInit, TimedStep, PTL DEF Spec
<1>2. Typed /\ Timed /\ [Next]_vars
        => [\A c \in Pollers :
              Answer(c) /\ posVer.src \in {"ws", "platform"}
              => \A t \in Tickers : asof'[t] >= asof[t]]_vars
  BY AnswerKnowsMore
<1>3. QED
  BY <1>1, <1>2, PTL DEF Spec, PollKeepsNewer
=============================================================================
