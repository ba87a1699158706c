--------------------------- MODULE Dispatch_proofs ---------------------------
(***************************************************************************)
(* What holds of the event bus and trade_event_sem for any trades, callers *)
(* and number of permits: the semaphore is balanced, the bus keeps every   *)
(* event and its place, and the startup backfill leaves no row behind.     *)
(***************************************************************************)
EXTENDS Dispatch, FiniteSetTheorems, SequenceTheorems, TLAPS

(* Where a task may be; the workers of backfill_all begin with backfill_all.   *)
Places == {"idle", "settle", "wait", "history", "rows", "call"}
Placed ==
    /\ pc \in [Tasks -> Places]
    /\ backfill \in {"history", "workers", "done"}
    /\ backfill = "history" => \A s \in Symbols : pc[s] = "idle"

LEMMA Apart ==
  /\ "bus" \in Tasks /\ Symbols \subseteq Tasks /\ Callers \subseteq Tasks
  /\ "bus" \notin Symbols /\ "bus" \notin Callers /\ Symbols \cap Callers = {}
  BY DispatchAssumption DEF Tasks

(* Holding a permit *)
Holds == {"history", "rows", "call"}

LEMMA HoldingIs == Holding = {p \in Tasks : pc[p] \in Holds}
  BY DEF Holding, Holds

-----------------------------------------------------------------------------
(* The semaphore *)

Counted == permits \in Int /\ IsFiniteSet(Holding) /\ Balanced
SemInv == Placed /\ Counted

LEMMA SemInit == Init => SemInv
<1> SUFFICES ASSUME Init PROVE SemInv
  OBVIOUS
<1>1. Placed
  BY Apart DEF Init, Placed, Places
<1>2. Holding = {}
  BY DEF Init, Holding
<1>3. permits = Permits /\ Permits \in Nat
  BY DispatchAssumption DEF Init
<1>4. QED
  BY <1>1, <1>2, <1>3, FS_EmptySet DEF SemInv, Counted, Balanced

(* A step that changes neither the permits nor who holds one. *)
LEMMA SameHolders ==
  ASSUME Counted, permits' = permits, Holding' = Holding
  PROVE  Counted'
  BY DEF Counted, Balanced

(* A task moves between two places that hold no permit, or two that do. *)
LEMMA MoveHolding ==
  ASSUME Placed, NEW p \in Tasks, NEW to \in Places, pc' = [pc EXCEPT ![p] = to],
         pc[p] \in Holds <=> to \in Holds
  PROVE  Holding' = Holding
  BY HoldingIs DEF Placed, Holding, Holds

(* It takes a permit. *)
LEMMA TakeHolding ==
  ASSUME SemInv, NEW p \in Tasks, NEW to \in Holds, pc[p] = "wait", 
         pc' = [pc EXCEPT ![p] = to], permits' = permits - 1
  PROVE  Counted'
<1>1. Holding' = Holding \cup {p} /\ p \notin Holding
  BY DEF SemInv, Placed, Holding, Holds
<1>2. /\ IsFiniteSet(Holding \cup {p})
      /\ Cardinality(Holding \cup {p}) = Cardinality(Holding) + 1
  BY <1>1, FS_AddElement DEF SemInv, Counted
<1>3. Cardinality(Holding) \in Nat
  BY FS_CardinalityType DEF SemInv, Counted
<1>4. permits + Cardinality(Holding) = Permits /\ permits \in Int
  BY DEF SemInv, Counted, Balanced
<1>5. permits' + Cardinality(Holding') = Permits /\ permits' \in Int
  BY <1>1, <1>2, <1>3, <1>4
<1>6. QED
  BY <1>1, <1>2, <1>5 DEF Counted, Balanced

(* It gives its permit back. *)
LEMMA GiveHolding ==
  ASSUME SemInv, NEW p \in Tasks, pc[p] \in Holds, Release(p)
  PROVE  Counted'
<1>1. Holding' = Holding \ {p} /\ p \in Holding
  BY DEF SemInv, Placed, Holding, Holds, Release
<1>2. /\ IsFiniteSet(Holding \ {p})
      /\ Cardinality(Holding \ {p}) = Cardinality(Holding) - 1
  BY <1>1, FS_RemoveElement DEF SemInv, Counted
<1>3. Cardinality(Holding) \in Nat
  BY FS_CardinalityType DEF SemInv, Counted
<1>4. permits + Cardinality(Holding) = Permits /\ permits \in Int /\ permits' = permits + 1
  BY DEF SemInv, Counted, Balanced, Release
<1>5. permits' + Cardinality(Holding') = Permits /\ permits' \in Int
  BY <1>1, <1>2, <1>3, <1>4
<1>6. QED
  BY <1>1, <1>2, <1>5 DEF Counted, Balanced

(* One step of the tasks: where they are afterwards. *)
LEMMA PlacedMove ==
  ASSUME Placed, NEW p \in Tasks, NEW to \in Places, pc' = [pc EXCEPT ![p] = to],
         backfill' = backfill, backfill = "history" => p \notin Symbols \/ to = "idle"
  PROVE  Placed'
<1>1. pc' \in [Tasks -> Places]
  BY DEF Placed
<1>2. ASSUME backfill' = "history", NEW s \in Symbols
      PROVE  pc'[s] = "idle"
  BY <1>2, Apart DEF Placed
<1>3. QED
  BY <1>1, <1>2 DEF Placed

(* What each action of a single task does to pc. *)
LEMMA SemBus ==
  ASSUME SemInv, BusStep
  PROVE  SemInv'
<1>1. Placed /\ Counted
  BY DEF SemInv
<1>2. \E to \in Places : /\ pc' = [pc EXCEPT !["bus"] = to]
                         /\ pc["bus"] \in Holds <=> to \in Holds
  <2>1. CASE Dispatch
    BY <2>1 DEF Dispatch, Places, Holds
  <2>2. CASE SettleEnds
    BY <2>2 DEF SettleEnds, Places, Holds
  <2>3. CASE History
    BY <2>3 DEF History, Places, Holds
  <2>4. QED
    BY <2>1, <2>2, <2>3 DEF BusStep
<1>3. permits' = permits /\ backfill' = backfill
  BY DEF BusStep, Dispatch, SettleEnds, History
<1>4. QED
  BY <1>1, <1>2, <1>3, Apart, MoveHolding, SameHolders, PlacedMove DEF SemInv

LEMMA SemAcquire ==
  ASSUME SemInv, NEW p \in Tasks, Acquire(p)
  PROVE  SemInv'
<1>1. PICK to \in Holds : pc' = [pc EXCEPT ![p] = to]
  BY DEF Acquire, Holds
<1>2. pc[p] = "wait" /\ permits' = permits - 1 /\ backfill' = backfill
  BY DEF Acquire
<1>3. Counted'
  BY <1>1, <1>2, TakeHolding
<1>4. backfill = "history" => p \notin Symbols
  BY <1>2 DEF SemInv, Placed
<1>5. Placed'
  BY <1>1, <1>2, <1>4, PlacedMove DEF SemInv, Holds, Places
<1>6. QED
  BY <1>3, <1>5 DEF SemInv

LEMMA SemRelease ==
  ASSUME SemInv, NEW p \in Tasks, pc[p] \in Holds, Release(p), backfill' = backfill
  PROVE  SemInv'
<1>1. pc' = [pc EXCEPT ![p] = "idle"]
  BY DEF Release
<1>2. Placed'
  BY <1>1, PlacedMove DEF SemInv, Places
<1>3. QED
  BY <1>2, GiveHolding DEF SemInv

(* A step that leaves pc, permits and backfill alone. *)
LEMMA SemKept ==
  ASSUME SemInv, UNCHANGED <<pc, permits, backfill>>
  PROVE  SemInv'
  BY SameHolders DEF SemInv, Placed, Holding

LEMMA SemTask ==
  ASSUME SemInv, NEW p \in Tasks,
         \/ Acquire(p) \/ RowStep(p) \/ RowsRaise(p)
         \/ \E t \in Trades, limited \in BOOLEAN : RowFails(p, t, limited)
  PROVE  SemInv'
<1>1. CASE Acquire(p)
  BY <1>1, SemAcquire
<1>2. CASE RowsEnd(p)
  BY <1>2, SemRelease DEF RowsEnd, Holds
<1>3. CASE RowsRaise(p)
  BY <1>3, SemRelease DEF RowsRaise, ReleaseOnError, Holds
<1>4. ASSUME NEW t \in Trades, RowDone(p, t)
      PROVE  SemInv'
  BY <1>4, SemKept DEF RowDone
<1>5. ASSUME NEW t \in Trades, NEW limited \in BOOLEAN, RowFails(p, t, limited)
      PROVE  SemInv'
  BY <1>5, SemKept DEF RowFails
<1>6. QED
  BY <1>1, <1>2, <1>3, <1>4, <1>5 DEF RowStep

LEMMA SemBackfill ==
  ASSUME SemInv, BackfillStarts \/ BackfillEnds
  PROVE  SemInv'
<1>1. CASE BackfillStarts
  <2>1. permits' = permits /\ backfill' = "workers"
    BY <1>1 DEF BackfillStarts
  <2>2. pc' \in [Tasks -> Places]
    BY <1>1 DEF BackfillStarts, SemInv, Placed, Places
  <2>3. Holding' = Holding
    BY <1>1 DEF BackfillStarts, SemInv, Placed, Holding
  <2>4. QED
    BY <2>1, <2>2, <2>3, SameHolders DEF SemInv, Placed
<1>2. CASE BackfillEnds
  <2>1. pc' = pc /\ permits' = permits /\ backfill' = "done"
    BY <1>2 DEF BackfillEnds
  <2>2. Holding' = Holding
    BY <2>1 DEF Holding
  <2>3. QED
    BY <2>1, <2>2, SameHolders DEF SemInv, Placed
<1>3. QED
  BY <1>1, <1>2

LEMMA SemCaller ==
  ASSUME SemInv, NEW c \in Callers,
         \/ CallStarts(c) \/ CallEnds(c)
         \/ \E limited \in BOOLEAN : CallFails(c, limited)
  PROVE  SemInv'
<1>0. c \in Tasks /\ c \notin Symbols
  BY Apart
<1>1. CASE CallStarts(c)
  <2>1. pc' = [pc EXCEPT ![c] = "wait"] /\ pc[c] = "idle"
        /\ permits' = permits /\ backfill' = backfill
    BY <1>1 DEF CallStarts
  <2>2. Placed'
    BY <1>0, <2>1, PlacedMove DEF SemInv, Places
  <2>3. Holding' = Holding
    BY <1>0, <2>1, MoveHolding DEF SemInv, Places, Holds
  <2>4. QED
    BY <2>1, <2>2, <2>3, SameHolders DEF SemInv
<1>2. CASE CallEnds(c)
  BY <1>0, <1>2, SemRelease DEF CallEnds, Holds
<1>3. ASSUME NEW limited \in BOOLEAN, CallFails(c, limited)
      PROVE  SemInv'
  BY <1>0, <1>3, SemRelease DEF CallFails, ReleaseOnError, Holds
<1>4. QED
  BY <1>1, <1>2, <1>3

LEMMA SemStep == SemInv /\ [Next]_vars => SemInv'
<1> SUFFICES ASSUME SemInv, [Next]_vars PROVE SemInv'
  OBVIOUS
<1>1. ASSUME NEW t \in Trades, LightEvent(t) \/ TradeCloses(t) \/ Settles(t)
      PROVE  SemInv'
  BY <1>1, SemKept DEF LightEvent, TradeCloses, Settles
<1>2. CASE PauseEnds \/ UNCHANGED vars
  BY <1>2, SemKept DEF PauseEnds, vars
<1>3. QED
  BY <1>1, <1>2, SemBus, SemTask, SemBackfill, SemCaller DEF Next

(* Whatever fails, pauses or gives up between taking and returning it, no      *)
(* permit of trade_event_sem is lost or returned twice.                        *)
THEOREM SemaphoreBalanced == Spec => []Balanced
<1>1. SemInv => Balanced
  BY DEF SemInv, Counted
<1>2. QED
  BY SemInit, SemStep, <1>1, PTL DEF Spec

-----------------------------------------------------------------------------
(* The order of the bus *)

(* An idle bus is dispatching nothing. *)
Lines ==
    /\ {published, queue, current, handled} \subseteq Seq(Events)
    /\ pc \in [Tasks -> Places]
    /\ pc["bus"] = "idle" => current = <<>>
LineInv == Lines /\ InOrder

LEMMA LineInit == Init => LineInv
<1> SUFFICES ASSUME Init PROVE LineInv
  OBVIOUS
<1>1. <<>> \in Seq(Events) /\ <<>> \o <<>> \o <<>> = <<>>
  BY EmptySeq, ConcatEmptySeq
<1>2. QED
  BY <1>1, Apart DEF Init, LineInv, Lines, InOrder, Places

(* A step that does not touch the queue; the bus may move between places that  *)
(* are not idle.                                                               *)
LEMMA LineKept ==
  ASSUME LineInv, UNCHANGED <<published, queue, current, handled>>,
         pc' \in [Tasks -> Places], pc'["bus"] = "idle" => pc["bus"] = "idle"
  PROVE  LineInv'
  BY DEF LineInv, Lines, InOrder

(* An event goes to the end of the queue. *)
LEMMA LinePublish ==
  ASSUME LineInv, NEW e \in Events, Publish(e), UNCHANGED <<current, handled, pc>>
  PROVE  LineInv'
<1> DEFINE done == handled \o current
<1>1. done \in Seq(Events) /\ queue \in Seq(Events) /\ published \in Seq(Events)
  BY ConcatProperties DEF LineInv, Lines
<1>2. /\ Append(queue, e) = queue \o <<e>> /\ Append(published, e) = published \o <<e>>
      /\ <<e>> \in Seq(Events)
      /\ Append(queue, e) \in Seq(Events) /\ Append(published, e) \in Seq(Events)
  BY <1>1, AppendIsConcat, AppendProperties
<1>3. done \o (queue \o <<e>>) = (done \o queue) \o <<e>>
  BY <1>1, <1>2, ConcatAssociative
<1>4. published = done \o queue
  BY DEF LineInv, InOrder
<1>5. done' = done
  OBVIOUS
<1>6. done \o queue' = published'
  BY <1>2, <1>3, <1>4 DEF Publish
<1>7. InOrder'
  BY <1>5, <1>6 DEF InOrder
<1>8. Lines'
  BY <1>2 DEF Publish, LineInv, Lines
<1>9. QED
  BY <1>7, <1>8 DEF LineInv

(* The first event is taken: handled at once, or now being dispatched. *)
LEMMA LineDispatch ==
  ASSUME LineInv, Dispatch
  PROVE  LineInv'
<1>1. /\ queue \in Seq(Events) /\ handled \in Seq(Events) /\ current = <<>> /\ queue # <<>>
      /\ published = handled \o current \o queue /\ published' = published
      /\ published \in Seq(Events)
  BY DEF LineInv, Lines, InOrder, Dispatch
<1>2. PICK e, rest : e = Head(queue) /\ rest = Tail(queue)
  OBVIOUS
<1>3. /\ e \in Events /\ rest \in Seq(Events) /\ queue = <<e>> \o rest
      /\ <<e>> \in Seq(Events)
  BY <1>1, <1>2, HeadTailProperties, ConcatProperties
<1>4. handled \o current = handled
  BY <1>1, ConcatEmptySeq
<1>5. handled \o (<<e>> \o rest) = (handled \o <<e>>) \o rest
  BY <1>1, <1>3, ConcatAssociative
<1>6. \/ /\ queue' = rest /\ current' = <<e>> /\ handled' = handled
         /\ pc' = [pc EXCEPT !["bus"] = "settle"]
      \/ /\ queue' = rest /\ current' = <<>> /\ handled' = Append(handled, e)
         /\ pc' = [pc EXCEPT !["bus"] = "idle"]
  BY <1>2 DEF Dispatch
<1>7. CASE current' = <<e>> /\ queue' = rest /\ handled' = handled
           /\ pc' = [pc EXCEPT !["bus"] = "settle"]
  <2>1. InOrder'
    BY <1>1, <1>3, <1>4, <1>5, <1>7 DEF InOrder
  <2>2. Lines'
    BY <1>1, <1>3, <1>7, Apart DEF LineInv, Lines, Places
  <2>3. QED
    BY <2>1, <2>2 DEF LineInv
<1>8. CASE current' = <<>> /\ queue' = rest /\ handled' = Append(handled, e)
           /\ pc' = [pc EXCEPT !["bus"] = "idle"]
  <2>1. handled' = handled \o <<e>> /\ handled' \in Seq(Events)
    BY <1>1, <1>3, <1>8, AppendIsConcat, AppendProperties
  <2>2. handled' \o current' = handled'
    BY <1>8, <2>1, ConcatEmptySeq
  <2>3. InOrder'
    BY <1>1, <1>3, <1>4, <1>5, <1>8, <2>1, <2>2 DEF InOrder
  <2>4. <<>> \in Seq(Events)
    BY EmptySeq
  <2>5. Lines'
    BY <1>1, <1>3, <1>8, <2>1, <2>4, Apart DEF LineInv, Lines, Places
  <2>6. QED
    BY <2>3, <2>5 DEF LineInv
<1>9. QED
  BY <1>6, <1>7, <1>8

(* A permit given back: by the bus, whose event is then handled, or by another *)
(* task.                                                                       *)
LEMMA LineRelease ==
  ASSUME LineInv, NEW p \in Tasks, Release(p), UNCHANGED <<published, queue>>
  PROVE  LineInv'
<1>1. pc' = [pc EXCEPT ![p] = "idle"] /\ pc' \in [Tasks -> Places]
  BY DEF Release, LineInv, Lines, Places
<1>2. CASE p # "bus"
  BY <1>1, <1>2, LineKept, Apart DEF Release, LineInv, Lines
<1>3. CASE p = "bus"
  <2>1. handled' = handled \o current /\ current' = <<>>
    BY <1>3 DEF Release
  <2>2. handled' \in Seq(Events) /\ <<>> \in Seq(Events)
    BY <2>1, ConcatProperties, EmptySeq DEF LineInv, Lines
  <2>3. handled' \o current' = handled'
    BY <2>1, <2>2, ConcatEmptySeq
  <2>4. InOrder'
    BY <2>1, <2>3 DEF InOrder, LineInv
  <2>5. QED
    BY <1>1, <2>1, <2>2, <2>4 DEF LineInv, Lines
<1>4. QED
  BY <1>2, <1>3

LEMMA LineTask ==
  ASSUME LineInv, NEW p \in Tasks,
         \/ Acquire(p) \/ RowStep(p) \/ RowsRaise(p)
         \/ \E t \in Trades, limited \in BOOLEAN : RowFails(p, t, limited)
  PROVE  LineInv'
<1>1. CASE Acquire(p)
  <2>1. pc' \in [Tasks -> Places] /\ (pc'["bus"] = "idle" => pc["bus"] = "idle")
    BY <1>1, Apart DEF Acquire, LineInv, Lines, Places
  <2>2. QED
    BY <1>1, <2>1, LineKept DEF Acquire
<1>2. CASE RowsEnd(p)
  BY <1>2, LineRelease DEF RowsEnd
<1>3. CASE RowsRaise(p)
  BY <1>3, LineRelease DEF RowsRaise, ReleaseOnError
<1>4. ASSUME NEW t \in Trades, NEW limited \in BOOLEAN,
             RowDone(p, t) \/ RowFails(p, t, limited)
      PROVE  LineInv'
  BY <1>4, LineKept DEF RowDone, RowFails, LineInv, Lines
<1>5. QED
  BY <1>1, <1>2, <1>3, <1>4 DEF RowStep

LEMMA LineOther ==
  ASSUME LineInv, NEW c \in Callers,
         \/ CallStarts(c) \/ CallEnds(c)
         \/ \E limited \in BOOLEAN : CallFails(c, limited)
  PROVE  LineInv'
<1>1. CASE CallStarts(c)
  <2>1. pc' \in [Tasks -> Places] /\ pc'["bus"] = pc["bus"]
    BY <1>1, Apart DEF CallStarts, LineInv, Lines, Places
  <2>2. QED
    BY <1>1, <2>1, LineKept DEF CallStarts
<1>2. CASE CallEnds(c)
  BY <1>2, LineRelease, Apart DEF CallEnds
<1>3. ASSUME NEW limited \in BOOLEAN, CallFails(c, limited)
      PROVE  LineInv'
  BY <1>3, LineRelease, Apart DEF CallFails, ReleaseOnError
<1>4. QED
  BY <1>1, <1>2, <1>3

LEMMA LineStep == LineInv /\ [Next]_vars => LineInv'
<1> SUFFICES ASSUME LineInv, [Next]_vars PROVE LineInv'
  OBVIOUS
<1>1. ASSUME NEW t \in Trades, LightEvent(t) \/ TradeCloses(t)
      PROVE  LineInv'
  <2>1. [kind |-> "light", trade |-> t] \in Events /\ [kind |-> "trade", trade |-> t] \in Events
    BY DEF Events
  <2>2. QED
    BY <1>1, <2>1, LinePublish DEF LightEvent, TradeCloses
<1>2. ASSUME NEW t \in Trades, Settles(t)
      PROVE  LineInv'
  BY <1>2, LineKept DEF Settles, LineInv, Lines
<1>3. CASE Dispatch
  BY <1>3, LineDispatch
<1>4. CASE SettleEnds \/ History
  <2>1. pc' \in [Tasks -> Places] /\ pc'["bus"] # "idle"
    BY <1>4, Apart DEF SettleEnds, History, LineInv, Lines, Places
  <2>2. QED
    BY <1>4, <2>1, LineKept DEF SettleEnds, History
<1>5. CASE BackfillStarts
  <2>1. pc' \in [Tasks -> Places] /\ pc'["bus"] = pc["bus"]
    BY <1>5, Apart DEF BackfillStarts, LineInv, Lines, Places
  <2>2. QED
    BY <1>5, <2>1, LineKept DEF BackfillStarts
<1>6. CASE BackfillEnds \/ PauseEnds \/ UNCHANGED vars
  BY <1>6, LineKept DEF BackfillEnds, PauseEnds, vars, LineInv, Lines
<1>7. QED
  BY <1>1, <1>2, <1>3, <1>4, <1>5, <1>6, LineTask, LineOther DEF Next, BusStep

(* The bus loses, repeats and reorders no event, for any number of trades.     *)
THEOREM EventsInOrder == Spec => []InOrder
<1>1. LineInv => InOrder
  BY DEF LineInv
<1>2. QED
  BY LineInit, LineStep, <1>1, PTL DEF Spec

-----------------------------------------------------------------------------
(* The startup backfill *)

(* A row of an earlier session that is still to be calculated waits for the    *)
(* fetch, or for the worker of its ticker, who has it on its list.             *)
Awaited(t) ==
    /\ row[t] = "open"
    /\ \/ backfill = "history"
       \/ /\ backfill = "workers"
          /\ \/ pc[SymbolOf[t]] = "wait"
             \/ pc[SymbolOf[t]] = "rows" /\ t \in todo[SymbolOf[t]]

Filling ==
    /\ Placed /\ todo \in [Tasks -> SUBSET Trades] /\ missed \subseteq Trades
    /\ DOMAIN row = Trades /\ row = [t \in Trades |-> row[t]]
    /\ {disturbed, paused} \subseteq BOOLEAN
    /\ paused => disturbed
    /\ ~disturbed => \A t \in missed : row[t] = "done" \/ Awaited(t)

LEMMA FillInit == Init => Filling
<1> SUFFICES ASSUME Init PROVE Filling
  OBVIOUS
<1>1. Placed
  BY Apart DEF Init, Placed, Places
<1>2. QED
  BY <1>1 DEF Init, Filling, Awaited

(* One task moves and nothing it leaves behind was awaited from it.            *)
LEMMA FillMove ==
  ASSUME Filling, NEW p \in Tasks, NEW to \in Places, pc' = [pc EXCEPT ![p] = to],
         UNCHANGED <<backfill, missed>>, todo' \in [Tasks -> SUBSET Trades],
         backfill = "history" => p \notin Symbols \/ to = "idle",
         p \in Symbols => to = pc[p], 
         \A s \in Symbols : todo'[s] = todo[s],
         DOMAIN row' = Trades /\ row' = [t \in Trades |-> row'[t]],
         ~disturbed' => ~disturbed /\ \A t \in missed : row[t] \in {"open", "done"} => row'[t] = row[t],
         {disturbed', paused'} \subseteq BOOLEAN, paused' => disturbed'
  PROVE  Filling'
<1>1. Placed'
  BY PlacedMove DEF Filling
<1>2. ASSUME ~disturbed', NEW t \in missed
      PROVE  row'[t] = "done" \/ Awaited(t)'
  <2>1. row[t] = "done" \/ Awaited(t)
    BY <1>2 DEF Filling
  <2>2. SymbolOf[t] \in Symbols /\ SymbolOf[t] \in Tasks
    BY <1>2, Apart DEF Filling, Symbols
  <2>3. pc'[SymbolOf[t]] = pc[SymbolOf[t]] /\ todo'[SymbolOf[t]] = todo[SymbolOf[t]]
    BY <2>2 DEF Filling, Placed
  <2>4. row'[t] = row[t]
    BY <1>2, <2>1 DEF Awaited
  <2>5. QED
    BY <2>1, <2>3, <2>4 DEF Awaited
<1>3. QED
  BY <1>1, <1>2 DEF Filling

(* A step that moves nobody. *)
LEMMA FillStay ==
  ASSUME Filling, UNCHANGED <<pc, backfill, missed, todo>>,
         DOMAIN row' = Trades /\ row' = [t \in Trades |-> row'[t]],
         ~disturbed' => ~disturbed /\ \A t \in missed : row[t] \in {"open", "done"} => row'[t] = row[t],
         {disturbed', paused'} \subseteq BOOLEAN, paused' => disturbed'
  PROVE  Filling'
  BY DEF Filling, Awaited, Placed

LEMMA FillBus ==
  ASSUME Filling, BusStep
  PROVE  Filling'
<1>1. CASE Dispatch \/ SettleEnds
  <2>1. PICK to \in Places : pc' = [pc EXCEPT !["bus"] = to]
    BY <1>1 DEF Dispatch, SettleEnds, Places
  <2>2. /\ UNCHANGED <<backfill, missed, todo, row, paused>>
        /\ disturbed' \in BOOLEAN /\ (disturbed => disturbed')
    BY <1>1 DEF Dispatch, SettleEnds, Filling
  <2>3. QED
    BY <2>1, <2>2, Apart, FillMove DEF Filling
<1>2. CASE History
  <2>1. pc' = [pc EXCEPT !["bus"] = "rows"] /\ UNCHANGED <<backfill, missed, paused>>
    BY <1>2 DEF History
  <2>2. /\ todo' \in [Tasks -> SUBSET Trades]
        /\ \A s \in Symbols : todo'[s] = todo[s]
    BY <1>2, Apart DEF History, Filling
  <2>3. /\ DOMAIN row' = Trades /\ row' = [t \in Trades |-> row'[t]]
        /\ disturbed' \in BOOLEAN /\ (disturbed => disturbed')
        /\ \A t \in missed : row[t] \in {"open", "done"} => row'[t] = row[t]
    BY <1>2 DEF History, Filling, Fetched
  <2>4. QED
    BY <2>1, <2>2, <2>3, Apart, FillMove DEF Filling, Places
<1>3. QED
  BY <1>1, <1>2 DEF BusStep

(* A worker gets its turn: its list holds every row that is still open. *)
LEMMA FillAcquire ==
  ASSUME Filling, NEW p \in Tasks, Acquire(p)
  PROVE  Filling'
<1>1. PICK to \in Holds : pc' = [pc EXCEPT ![p] = to] /\ (p \in Symbols => to = "rows")
  BY Apart DEF Acquire, Holds
<1>2. /\ pc[p] = "wait" /\ UNCHANGED <<backfill, missed, row, paused, disturbed>>
      /\ todo' = [todo EXCEPT ![p] = IF p \in Symbols THEN Uncalculated(p) ELSE {}]
  BY DEF Acquire
<1>3. Placed'
  BY <1>1, <1>2, PlacedMove DEF Filling, Placed, Places, Holds
<1>4. todo' \in [Tasks -> SUBSET Trades]
  BY <1>2 DEF Filling, Uncalculated
<1>5. ASSUME ~disturbed, NEW t \in missed
      PROVE  row'[t] = "done" \/ Awaited(t)'
  <2>1. row[t] = "done" \/ Awaited(t)
    BY <1>5 DEF Filling
  <2>2. SymbolOf[t] \in Symbols /\ SymbolOf[t] \in Tasks /\ t \in Trades
    BY <1>5, Apart DEF Filling, Symbols
  <2>3. CASE p = SymbolOf[t] /\ row[t] # "done"
    <3>1. pc'[p] = "rows" /\ backfill = "workers"
      BY <1>1, <1>2, <2>1, <2>2, <2>3 DEF Filling, Placed, Awaited
    <3>2. t \in todo'[p]
      BY <1>2, <2>1, <2>2, <2>3 DEF Awaited, Uncalculated, Filling
    <3>3. QED
      BY <1>2, <2>1, <2>3, <3>1, <3>2 DEF Awaited
  <2>4. CASE p # SymbolOf[t]
    <3>1. pc'[SymbolOf[t]] = pc[SymbolOf[t]] /\ todo'[SymbolOf[t]] = todo[SymbolOf[t]]
      BY <1>1, <1>2, <2>2, <2>4 DEF Filling, Placed
    <3>2. QED
      BY <1>2, <2>1, <3>1 DEF Awaited
  <2>5. QED
    BY <1>2, <2>3, <2>4
<1>6. QED
  BY <1>2, <1>3, <1>4, <1>5 DEF Filling

(* A row is calculated, whoever does it. *)
LEMMA FillRowDone ==
  ASSUME Filling, NEW p \in Tasks, NEW t \in Trades, RowDone(p, t)
  PROVE  Filling'
<1>1. /\ UNCHANGED <<pc, backfill, missed, paused, disturbed>>
      /\ todo' = [todo EXCEPT ![p] = @ \ {t}] /\ row' = [row EXCEPT ![t] = "done"]
  BY DEF RowDone
<1>2. todo' \in [Tasks -> SUBSET Trades]
  BY <1>1 DEF Filling
<1>3. DOMAIN row' = Trades /\ row' = [u \in Trades |-> row'[u]]
  BY <1>1 DEF Filling
<1>4. ASSUME ~disturbed, NEW u \in missed
      PROVE  row'[u] = "done" \/ Awaited(u)'
  <2>1. CASE u = t
    BY <1>1, <2>1 DEF Filling
  <2>2. CASE u # t
    <3>1. row'[u] = row[u] /\ SymbolOf[u] \in Tasks /\ (row[u] = "done" \/ Awaited(u))
      BY <1>1, <1>4, <2>2, Apart DEF Filling, Symbols
    <3>2. u \in todo[SymbolOf[u]] => u \in todo'[SymbolOf[u]]
      BY <1>1, <2>2, <3>1 DEF Filling
    <3>3. QED
      BY <1>1, <3>1, <3>2 DEF Awaited
  <2>3. QED
    BY <2>1, <2>2
<1>5. QED
  BY <1>1, <1>2, <1>3, <1>4 DEF Filling, Placed

(* A task gives its permit back: without a fault its list is empty. *)
LEMMA FillRelease ==
  ASSUME Filling, NEW p \in Tasks, Release(p), pc[p] \in Holds,
         UNCHANGED <<backfill, missed, row>>,
         \/ todo' = todo \/ todo' = [todo EXCEPT ![p] = {}],
         disturbed => disturbed', disturbed' \in BOOLEAN,
         paused' \in BOOLEAN, paused' => disturbed',
         p \in Symbols /\ ~disturbed' => todo[p] = {}
  PROVE  Filling'
<1>1. pc' = [pc EXCEPT ![p] = "idle"]
  BY DEF Release
<1>2. Placed'
  BY <1>1, PlacedMove DEF Filling, Places
<1>3. todo' \in [Tasks -> SUBSET Trades]
  BY DEF Filling
<1>4. ASSUME ~disturbed', NEW t \in missed
      PROVE  row'[t] = "done" \/ Awaited(t)'
  <2>1. row[t] = "done" \/ Awaited(t)
    BY <1>4 DEF Filling
  <2>2. SymbolOf[t] \in Symbols /\ SymbolOf[t] \in Tasks
    BY <1>4, Apart DEF Filling, Symbols
  <2>3. CASE p = SymbolOf[t]
    <3>1. backfill # "history" /\ pc[p] # "wait" /\ t \notin todo[p]
      BY <1>4, <2>2, <2>3 DEF Filling, Placed, Holds
    <3>2. QED
      BY <2>1, <2>3, <3>1 DEF Awaited
  <2>4. CASE p # SymbolOf[t]
    <3>1. pc'[SymbolOf[t]] = pc[SymbolOf[t]] /\ todo'[SymbolOf[t]] = todo[SymbolOf[t]]
      BY <1>1, <2>2, <2>4 DEF Filling, Placed
    <3>2. QED
      BY <2>1, <3>1 DEF Awaited
  <2>5. QED
    BY <2>3, <2>4
<1>5. QED
  BY <1>2, <1>3, <1>4 DEF Filling

LEMMA FillTask ==
  ASSUME Filling, NEW p \in Tasks,
         \/ Acquire(p) \/ RowStep(p) \/ RowsRaise(p)
         \/ \E t \in Trades, limited \in BOOLEAN : RowFails(p, t, limited)
  PROVE  Filling'
<1>1. CASE Acquire(p)
  BY <1>1, FillAcquire
<1>2. CASE RowsEnd(p)
  <2>1. /\ pc[p] \in Holds /\ Release(p) /\ UNCHANGED <<backfill, missed, row, paused>>
        /\ todo' = [todo EXCEPT ![p] = {}] /\ disturbed' = (disturbed \/ todo[p] # {})
    BY <1>2 DEF RowsEnd, Holds
  <2>2. QED
    BY <2>1, FillRelease DEF Filling
<1>3. CASE RowsRaise(p)
  <2>1. /\ pc[p] \in Holds /\ Release(p) /\ UNCHANGED <<backfill, missed, row, paused>>
        /\ todo' = [todo EXCEPT ![p] = {}] /\ disturbed' = TRUE
    BY <1>3 DEF RowsRaise, ReleaseOnError, Holds
  <2>2. QED
    BY <2>1, FillRelease DEF Filling
<1>4. ASSUME NEW t \in Trades, RowDone(p, t)
      PROVE  Filling'
  BY <1>4, FillRowDone
<1>5. ASSUME NEW t \in Trades, NEW limited \in BOOLEAN, RowFails(p, t, limited)
      PROVE  Filling'
  BY <1>5 DEF RowFails, Filling, Placed
<1>6. QED
  BY <1>1, <1>2, <1>3, <1>4, <1>5 DEF RowStep

(* The fetch is over: every open row has a worker, unless it failed. *)
LEMMA FillBackfill ==
  ASSUME Filling, BackfillStarts \/ BackfillEnds
  PROVE  Filling'
<1>1. CASE BackfillStarts
  <2>1. /\ backfill = "history" /\ backfill' = "workers"
        /\ UNCHANGED <<todo, missed, paused>>
    BY <1>1 DEF BackfillStarts
  <2>2. pc' \in [Tasks -> Places]
    BY <1>1 DEF BackfillStarts, Filling, Placed, Places
  <2>3. /\ DOMAIN row' = Trades /\ row' = [t \in Trades |-> row'[t]]
        /\ disturbed' \in BOOLEAN /\ (disturbed => disturbed')
        /\ \A t \in missed : row[t] \in {"open", "done"} => row'[t] = row[t]
    BY <1>1 DEF BackfillStarts, Filling, Fetched
  <2>4. ASSUME ~disturbed', NEW t \in missed
        PROVE  row'[t] = "done" \/ Awaited(t)'
    <3>1. row'[t] \in {"open", "done"} /\ t \in Trades /\ ~paused
      BY <2>3, <2>4 DEF Filling, Awaited
    <3>2. SymbolOf[t] \in Symbols /\ SymbolOf[t] \in Tasks
      BY <3>1, Apart DEF Symbols
    <3>3. row'[t] = "open" => pc'[SymbolOf[t]] = "wait"
      BY <1>1, <3>1, <3>2 DEF BackfillStarts
    <3>4. QED
      BY <2>1, <3>1, <3>3 DEF Awaited
  <2>5. QED
    BY <2>1, <2>2, <2>3, <2>4 DEF Filling, Placed
<1>2. CASE BackfillEnds
  <2>1. /\ backfill = "workers" /\ backfill' = "done"
        /\ \A s \in Symbols : pc[s] = "idle"
        /\ UNCHANGED <<pc, todo, missed, row, paused, disturbed>>
    BY <1>2 DEF BackfillEnds
  <2>2. ASSUME ~disturbed, NEW t \in missed
        PROVE  row[t] = "done"
    BY <2>1, <2>2 DEF Filling, Awaited, Symbols
  <2>3. QED
    BY <2>1, <2>2 DEF Filling, Placed
<1>3. QED
  BY <1>1, <1>2

LEMMA FillCaller ==
  ASSUME Filling, NEW c \in Callers,
         \/ CallStarts(c) \/ CallEnds(c)
         \/ \E limited \in BOOLEAN : CallFails(c, limited)
  PROVE  Filling'
<1>0. c \in Tasks /\ c \notin Symbols
  BY Apart
<1>1. CASE CallStarts(c)
  <2>1. pc' = [pc EXCEPT ![c] = "wait"]
        /\ UNCHANGED <<backfill, missed, todo, row, paused, disturbed>>
    BY <1>1 DEF CallStarts
  <2>2. QED
    BY <1>0, <2>1, FillMove DEF Filling, Places
<1>2. CASE CallEnds(c)
  BY <1>0, <1>2, FillRelease DEF CallEnds, Holds, Filling
<1>3. ASSUME NEW limited \in BOOLEAN, CallFails(c, limited)
      PROVE  Filling'
  <2>1. /\ pc[c] \in Holds /\ Release(c) /\ UNCHANGED <<backfill, missed, row, todo>>
        /\ disturbed' = (disturbed \/ limited) /\ paused' = (paused \/ limited)
    BY <1>3 DEF CallFails, ReleaseOnError, Holds
  <2>2. QED
    BY <1>0, <2>1, FillRelease DEF Filling
<1>4. QED
  BY <1>1, <1>2, <1>3

LEMMA FillStep == Filling /\ [Next]_vars => Filling'
<1> SUFFICES ASSUME Filling, [Next]_vars PROVE Filling'
  OBVIOUS
<1>1. ASSUME NEW t \in Trades, LightEvent(t) \/ TradeCloses(t) \/ Settles(t)
      PROVE  Filling'
  <2>1. UNCHANGED <<pc, backfill, missed, todo, disturbed, paused>>
    BY <1>1 DEF LightEvent, TradeCloses, Settles
  <2>2. /\ DOMAIN row' = Trades /\ row' = [u \in Trades |-> row'[u]]
        /\ \A u \in missed : row[u] \in {"open", "done"} => row'[u] = row[u]
    BY <1>1 DEF LightEvent, TradeCloses, Settles, Filling
  <2>3. QED
    BY <2>1, <2>2, FillStay DEF Filling
<1>2. CASE PauseEnds
  <2>1. UNCHANGED <<pc, backfill, missed, todo, disturbed, row>> /\ paused' = FALSE
    BY <1>2 DEF PauseEnds
  <2>2. QED
    BY <2>1, FillStay DEF Filling
<1>3. CASE UNCHANGED vars
  <2>1. UNCHANGED <<pc, backfill, missed, todo, disturbed, row, paused>>
    BY <1>3 DEF vars
  <2>2. QED
    BY <2>1, FillStay DEF Filling
<1>4. QED
  BY <1>1, <1>2, <1>3, FillBus, FillTask, FillBackfill, FillCaller DEF Next

(* The startup backfill calculates every row of an earlier session, with close *)
(* events and callers running beside it, unless something failed or paused.    *)
THEOREM BackfillIsComplete == Spec => []BackfillComplete
<1>1. Filling => BackfillComplete
  BY DEF Filling, Awaited, BackfillComplete
<1>2. QED
  BY FillInit, FillStep, <1>1, PTL DEF Spec
=============================================================================
