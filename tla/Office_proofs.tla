---------------------------- MODULE Office_proofs ----------------------------
(***************************************************************************)
(* What holds, for all values of the constants, of the plugin's link and   *)
(* of what the engine keeps for itself: the machines of Office, each       *)
(* proved as it is alone and then as a part of OfficeSpec.                 *)
(***************************************************************************)
EXTENDS PluginLink, Office, SequenceTheorems, FiniteSetTheorems, WellFoundedInduction, TLAPS


-----------------------------------------------------------------------------
(* The plugin's link, for every number of sockets and every bound on changes *)
(* and faults, as long as at least one retry timer is counted.               *)

(* The timers pending are a number, and scheduling one leaves at least one. *)
Timers == timers \in Nat

LEMMA RetryCounts ==
  ASSUME Timers, Retry
  PROVE  timers' \in Nat /\ timers' > 0
  BY TimersAssumption DEF Timers, Retry

(* What a send does to the link: nothing, or it ends the connection and        *)
(* schedules a retry.                                                          *)
LEMMA SendEffect ==
  ASSUME Timers, NEW ms, Send(ms)
  PROVE  \/ connected' = connected /\ timers' = timers
         \/ connected' = FALSE /\ timers' \in Nat /\ timers' > 0
<1>1. CASE SendText(ms)
  BY <1>1, RetryCounts DEF SendText
<1>2. CASE PostRest(ms)
  BY <1>2 DEF PostRest
<1>3. QED
  BY <1>1, <1>2 DEF Send

(* A new attempt is pending, whatever socket it replaces. *)
LEMMA TryEffect ==
  ASSUME NEW s \in Sockets, Try(s)
  PROVE  /\ attempts' # {} /\ ws' = s
         /\ sock' = [z \in Sockets |-> IF z = s THEN "connecting"
                                       ELSE IF z = ws THEN "dead" ELSE sock[z]]
  BY DEF Try

-----------------------------------------------------------------------------
(* The way back to the engine.  A plugin that has not been started has       *)
(* nothing pending: without this, that OnRun starts without a connection     *)
(* would not be known.                                                       *)

AtRest == plugin = "off" => ~connected /\ attempts = {} /\ loops = {}
                            /\ timers = 0 /\ ~introduce
Stranding == Timers /\ AtRest /\ NeverStranded

LEMMA StrandingInit == Init => Stranding
  BY DEF Init, Stranding, Timers, AtRest, NeverStranded

(* The steps that leave the plugin, its connection, attempts and loops alone. *)
LEMMA StrandingKept ==
  ASSUME Stranding, UNCHANGED <<plugin, connected, loops, timers, attempts, introduce>>
  PROVE  Stranding'
  BY DEF Stranding, Timers, AtRest, NeverStranded

(* A send of a plugin that has been started, while its attempts and loops stay. *)
LEMMA StrandingSend ==
  ASSUME Stranding, plugin # "off", NEW ms, Send(ms), UNCHANGED <<plugin, loops, attempts>>
  PROVE  Stranding'
<1>1. \/ connected' = connected /\ timers' = timers
      \/ connected' = FALSE /\ timers' \in Nat /\ timers' > 0
  BY SendEffect DEF Stranding
<1>2. QED
  BY <1>1 DEF Stranding, Timers, AtRest, NeverStranded

(* One step of one socket. *)
LEMMA StrandingSocket ==
  ASSUME Stranding, NEW s \in Sockets, SocketStep(s)
  PROVE  Stranding'
<1>1. CASE AttemptSucceeds(s)
  BY <1>1 DEF AttemptSucceeds, Stranding, Timers, AtRest, NeverStranded
<1>2. CASE AttemptFails(s)
  <2>1. timers' \in Nat /\ timers' > 0
    BY <1>2, RetryCounts DEF AttemptFails, Stranding
  <2>2. QED
    BY <1>2, <2>1 DEF AttemptFails, Stranding, Timers, AtRest, NeverStranded
<1>3. CASE LoopEnds(s)
  <2>1. timers' \in Nat /\ timers' > 0
    BY <1>3, RetryCounts DEF LoopEnds, Stranding
  <2>2. QED
    BY <1>3, <2>1 DEF LoopEnds, Stranding, Timers, AtRest, NeverStranded
<1>4. CASE PositionsRequested(s)
  <2>1. plugin # "off"
    BY <1>4 DEF PositionsRequested, Stranding, AtRest
  <2>2. QED
    BY <1>4, <2>1, StrandingSend DEF PositionsRequested
<1>5. CASE WireArrives(s)
  BY <1>5, StrandingKept DEF WireArrives
<1>6. CASE Drop(s)
  BY <1>6, StrandingKept DEF Drop
<1>7. CASE ClientLeaves(s)
  BY <1>7, StrandingKept DEF ClientLeaves
<1>8. QED
  BY <1>1, <1>2, <1>3, <1>4, <1>5, <1>6, <1>7 DEF SocketStep

LEMMA StrandingStep == Stranding /\ [Next]_vars => Stranding'
<1> SUFFICES ASSUME Stranding, [Next]_vars PROVE Stranding'
  OBVIOUS
<1>1. CASE OnRun
  <2>1. PICK s \in Sockets : Try(s)
    BY <1>1 DEF OnRun
  <2>2. attempts' # {}
    BY <2>1, TryEffect
  <2>3. QED
    BY <1>1, <2>2 DEF OnRun, Stranding, Timers, AtRest, NeverStranded
<1>2. CASE TimerFires
  <2>1. CASE connected /\ UNCHANGED <<sock, ws, attempts>>
    BY <1>2, <2>1 DEF TimerFires, Stranding, Timers, AtRest, NeverStranded
  <2>2. CASE ~connected /\ \E s \in Sockets : Try(s)
    <3>1. PICK s \in Sockets : Try(s)
      BY <2>2
    <3>2. attempts' # {}
      BY <3>1, TryEffect
    <3>3. QED
      BY <1>2, <2>2, <3>2 DEF TimerFires, Stranding, Timers, AtRest, NeverStranded
  <2>3. QED
    BY <1>2, <2>1, <2>2 DEF TimerFires
<1>3. CASE OnStop
  BY <1>3 DEF OnStop, Stranding, Timers, AtRest, NeverStranded
<1>4. CASE Introduce
  <2>1. plugin # "off"
    BY <1>4 DEF Introduce, Stranding, AtRest
  <2>2. QED
    BY <1>4, <2>1, StrandingSend DEF Introduce
<1>5. CASE EngineStops
  BY <1>5, StrandingKept DEF EngineStops
<1>6. CASE EngineStarts
  BY <1>6, StrandingKept DEF EngineStarts
<1>7. ASSUME NEW k \in Kinds, ListChanges(k)
      PROVE  Stranding'
  <2>1. CASE plugin = "on" /\ Send(<<[kind |-> k, seen |-> list[k] + 1]>>)
    BY <1>7, <2>1, StrandingSend DEF ListChanges
  <2>2. CASE UNCHANGED <<posts, wire, connected, timers, faults>>
    BY <1>7, <2>2, StrandingKept DEF ListChanges
  <2>3. QED
    BY <1>7, <2>1, <2>2 DEF ListChanges
<1>8. ASSUME NEW m \in Messages, PostArrives(m) \/ PostLost(m)
      PROVE  Stranding'
  BY <1>8, StrandingKept DEF PostArrives, PostLost
<1>9. CASE UNCHANGED vars
  BY <1>9, StrandingKept DEF vars
<1>10. QED
  BY <1>1, <1>2, <1>3, <1>4, <1>5, <1>6, <1>7, <1>8, <1>9, StrandingSocket DEF Next

(* A running plugin is never left without a receive loop, an attempt or a      *)
(* retry timer, however often its sockets, its attempts and the engine fail.   *)
THEOREM PluginNeverStranded == Spec => []NeverStranded
<1>1. Stranding => NeverStranded
  BY DEF Stranding
<1>2. QED
  BY StrandingInit, StrandingStep, <1>1, PTL DEF Spec

-----------------------------------------------------------------------------
(* One socket *)

Shapes == {"free", "connecting", "open", "dead"}
Single == sock \in [Sockets -> Shapes] /\ OneSocket

LEMMA SingleInit == Init => Single
  BY DEF Init, Single, OneSocket, Shapes

LEMMA SingleKept ==
  ASSUME Single, UNCHANGED <<sock, ws>>
  PROVE  Single'
  BY DEF Single, OneSocket

LEMMA SingleTry ==
  ASSUME Single, NEW s \in Sockets, Try(s)
  PROVE  Single'
<1>1. sock' \in [Sockets -> Shapes]
  BY TryEffect DEF Single, Shapes
<1>2. OneSocket'
  <2> SUFFICES ASSUME NEW z \in Sockets, sock'[z] \in {"open", "connecting"}
               PROVE  z = ws'
    BY DEF OneSocket
  <2>1. CASE z = s
    BY <2>1, TryEffect
  <2>2. CASE z # s
    <3>1. z # ws /\ sock'[z] = sock[z]
      BY <2>2, TryEffect
    <3>2. QED
      BY <3>1 DEF Single, OneSocket
  <2>3. QED
    BY <2>1, <2>2
<1>3. QED
  BY <1>1, <1>2 DEF Single

(* A socket opens only while it is the current one; every other change of a    *)
(* socket makes it dead.                                                       *)
LEMMA SingleSocket ==
  ASSUME Single, NEW s \in Sockets, SocketStep(s)
  PROVE  Single'
<1>1. CASE AttemptSucceeds(s)
  BY <1>1 DEF AttemptSucceeds, Single, OneSocket, Shapes
<1>2. CASE AttemptFails(s)
  BY <1>2 DEF AttemptFails, Single, OneSocket, Shapes
<1>3. CASE Drop(s)
  BY <1>3 DEF Drop, Single, OneSocket, Shapes
<1>4. CASE LoopEnds(s) \/ PositionsRequested(s) \/ WireArrives(s) \/ ClientLeaves(s)
  BY <1>4, SingleKept DEF LoopEnds, PositionsRequested, WireArrives, ClientLeaves
<1>5. QED
  BY <1>1, <1>2, <1>3, <1>4 DEF SocketStep

LEMMA SingleStep == Single /\ [Next]_vars => Single'
<1> SUFFICES ASSUME Single, [Next]_vars PROVE Single'
  OBVIOUS
<1>1. CASE OnRun
  BY <1>1, SingleTry DEF OnRun
<1>2. CASE TimerFires
  BY <1>2, SingleTry, SingleKept DEF TimerFires
<1>3. CASE OnStop
  BY <1>3 DEF OnStop, Single, OneSocket, Shapes
<1>4. CASE EngineStops
  BY <1>4 DEF EngineStops, Single, OneSocket, Shapes
<1>5. CASE EngineStarts \/ Introduce
  BY <1>5, SingleKept DEF EngineStarts, Introduce
<1>6. ASSUME NEW k \in Kinds, ListChanges(k)
      PROVE  Single'
  BY <1>6, SingleKept DEF ListChanges
<1>7. ASSUME NEW m \in Messages, PostArrives(m) \/ PostLost(m)
      PROVE  Single'
  BY <1>7, SingleKept DEF PostArrives, PostLost
<1>8. CASE UNCHANGED vars
  BY <1>8, SingleKept DEF vars
<1>9. QED
  BY <1>1, <1>2, <1>3, <1>4, <1>5, <1>6, <1>7, <1>8, SingleSocket DEF Next

(* However many retry timers fire, at most the current socket is open or being *)
(* opened.                                                                     *)
THEOREM PluginOneSocket == Spec => []OneSocket
<1>1. Single => OneSocket
  BY DEF Single
<1>2. QED
  BY SingleInit, SingleStep, <1>1, PTL DEF Spec

-----------------------------------------------------------------------------
(* Calculation links (Links).  Linked holds between any two messages: an    *)
(* enrichment reads the links of all orders and writes its own at once.     *)

(* A fill is one of an entry or of an exit. *)
OrdersKnown == OrderOf \in [Executions -> Entries \cup Exits]

OrderRows == [known : BOOLEAN, pos : Positions \cup {0}, tp : Triggers \cup {0},
              sl : Triggers \cup {0}, calc : Nat]
ExitRows == [known : BOOLEAN, pos : Positions \cup {0}, price : Triggers \cup {0}]
FillTypes == {"", "entry", "manual"} \cup {Kind[x] : x \in Exits}
FillRows == [known : BOOLEAN, calc : Nat, type : FillTypes]
Handled ==
    ({"entry"} \X Entries \X (Positions \cup {0})) \cup ({"exit"} \X Exits \X (Positions \cup {0}))
      \cup ({"fill"} \X Executions \X {0})

LinksShape ==
    /\ plans \in Seq(Plans) /\ aged \in Nat
    /\ entries \in [Entries -> OrderRows] /\ exits \in [Exits -> ExitRows]
    /\ filled \in [Executions -> FillRows] /\ tasks \subseteq Handled
    /\ \A o \in Entries : entries[o].calc <= Len(plans)

Linked == LinksShape /\ L!OneOrderEach /\ L!FillsFollow

-----------------------------------------------------------------------------

LEMMA NewestMatch ==
  ASSUME NEW n \in Nat, NEW S, S \subseteq 1 .. n, S # {}
  PROVE  (CHOOSE c \in S : \A d \in S : d <= c) \in S
<1> DEFINE Dist == {n - c : c \in S}
<1>1. Dist \subseteq Nat /\ Dist # {}
  <2>1. \A c \in S : n - c \in Nat
    OBVIOUS
  <2>2. QED
    BY <2>1
<1>2. PICK x \in Dist : \A y \in Dist : ~(<<y, x>> \in OpToRel(<, Nat))
  BY <1>1, NatLessThanWellFounded, WFMin
<1>3. \A y \in Dist : ~(y < x)
  BY <1>1, <1>2 DEF OpToRel
<1>4. PICK c \in S : x = n - c
  OBVIOUS
<1>5. \A d \in S : d <= c
  <2> TAKE d \in S
  <2>0. n - d \in Dist
    OBVIOUS
  <2>1. ~(n - d < n - c)
    BY <1>3, <1>4, <2>0
  <2>2. QED
    BY <2>1
<1>6. QED
  BY <1>5

(* A calculation is found once: what an order gets is its own or nobody's.     *)
LEMMA CorrelatedIs ==
  ASSUME LinksShape, NEW o \in Entries, NEW row \in OrderRows, row.calc <= Len(plans)
  PROVE  /\ L!Correlated(o, row) \in 0 .. Len(plans)
         /\ row.calc # 0 => L!Correlated(o, row) = row.calc
         /\ row.calc = 0 /\ L!Correlated(o, row) # 0 =>
              \A p \in Entries : entries[p].calc # L!Correlated(o, row)
<1> DEFINE found == L!Matching(o, row.tp, row.sl)
           c == CHOOSE x \in found : \A d \in found : d <= x
<1>1. Len(plans) \in Nat /\ aged \in Nat /\ row.calc \in Nat
  BY LenProperties DEF LinksShape, OrderRows
<1>2. found \subseteq 1 .. Len(plans) /\ \A x \in found : \A p \in Entries : entries[p].calc # x
  BY <1>1 DEF L!Matching
<1>3. L!Correlated(o, row) = IF row.calc # 0 \/ row.tp = 0 \/ row.sl = 0 \/ found = {} THEN row.calc ELSE c
  BY DEF L!Correlated
<1> HIDE DEF found
<1>4. found # {} => c \in found
  BY <1>1, <1>2, NewestMatch
<1> HIDE DEF c
<1>5. CASE row.calc # 0 \/ row.tp = 0 \/ row.sl = 0 \/ found = {}
  BY <1>1, <1>3, <1>5
<1>6. CASE ~(row.calc # 0 \/ row.tp = 0 \/ row.sl = 0 \/ found = {})
  <2>1. L!Correlated(o, row) = c /\ c \in found
    BY <1>3, <1>4, <1>6
  <2>2. QED
    BY <1>1, <1>2, <1>6, <2>1
<1>7. QED
  BY <1>5, <1>6

(* One order's row is written: its calculation stays, or is found.             *)
Rewritten(o, r) ==
    /\ entries' = [entries EXCEPT ![o] = r]
    /\ r \in OrderRows /\ r.calc <= Len(plans)
    /\ entries[o].calc # 0 => r.calc = entries[o].calc
    /\ r.calc # 0 /\ entries[o].calc = 0 => \A p \in Entries : entries[p].calc # r.calc

LEMMA EnrichedWrites ==
  ASSUME LinksShape, NEW o \in Entries, NEW place, L!Enriched(o, place)
  PROVE  \E r \in OrderRows : Rewritten(o, r)
<1>1. PICK tp \in L!TriggersOf("tp", place, entries[o].tp), sl \in L!TriggersOf("sl", place, entries[o].sl) :
        LET row == [entries[o] EXCEPT !.tp = tp, !.sl = sl]
        IN  entries' = [entries EXCEPT ![o] = [row EXCEPT !.calc = L!Correlated(o, row)]]
  BY DEF L!Enriched
<1> DEFINE row == [entries[o] EXCEPT !.tp = tp, !.sl = sl]
<1>2. tp \in Triggers \cup {0} /\ sl \in Triggers \cup {0}
  <2>1. entries[o] \in OrderRows
    BY DEF LinksShape
  <2>2. \A kind, old : old \in Triggers \cup {0} => L!TriggersOf(kind, place, old) \subseteq Triggers \cup {0}
    BY DEF L!TriggersOf, LinksShape, ExitRows
  <2>3. entries[o].tp \in Triggers \cup {0} /\ entries[o].sl \in Triggers \cup {0}
    BY <2>1 DEF OrderRows
  <2>4. QED
    BY <1>1, <2>2, <2>3
<1>3. row \in OrderRows /\ row.calc = entries[o].calc
  <2>1. entries[o] \in OrderRows
    BY DEF LinksShape
  <2>2. QED
    BY <1>2, <2>1 DEF OrderRows
<1> HIDE DEF row
<1> DEFINE c == L!Correlated(o, row)
           r == [row EXCEPT !.calc = c]
<1>4. row.calc <= Len(plans) /\ Len(plans) \in Nat
  BY <1>3, LenProperties DEF LinksShape
<1>5. /\ c \in 0 .. Len(plans)
      /\ row.calc # 0 => c = row.calc
      /\ row.calc = 0 /\ c # 0 => \A p \in Entries : entries[p].calc # c
  BY <1>3, <1>4, CorrelatedIs
<1>6. entries' = [entries EXCEPT ![o] = r]
  BY <1>1 DEF row
<1> HIDE DEF c
<1>7. r \in OrderRows /\ r.calc = c
  BY <1>3, <1>4, <1>5 DEF OrderRows
<1> HIDE DEF r
<1>8. Rewritten(o, r)
  BY <1>3, <1>4, <1>5, <1>6, <1>7 DEF Rewritten
<1>9. QED
  BY <1>7, <1>8

(* What a written row leaves: the calculations of the orders that have one.    *)
LEMMA RewrittenKeeps ==
  ASSUME LinksShape, L!OneOrderEach, NEW o \in Entries, NEW r, Rewritten(o, r)
  PROVE  /\ entries' \in [Entries -> OrderRows]
         /\ \A p \in Entries : entries'[p].calc <= Len(plans)
         /\ L!OneOrderEach'
         /\ \A p \in Entries : entries[p].calc # 0 => entries'[p].calc = entries[p].calc
<1>1. entries \in [Entries -> OrderRows]
  BY DEF LinksShape
<1>2. entries'[o] = r /\ \A p \in Entries : p # o => entries'[p] = entries[p]
  BY <1>1 DEF Rewritten
<1>3. entries' \in [Entries -> OrderRows] /\ \A p \in Entries : entries'[p].calc <= Len(plans)
  BY <1>1, <1>2 DEF Rewritten, LinksShape
<1>4. \A p \in Entries : entries[p].calc # 0 => entries'[p].calc = entries[p].calc
  BY <1>2 DEF Rewritten
<1>5. ASSUME NEW p \in Entries, NEW q \in Entries,
             entries'[p].calc # 0, entries'[p].calc = entries'[q].calc
      PROVE  p = q
  <2>1. CASE p # o /\ q # o
    BY <1>2, <1>5, <2>1 DEF L!OneOrderEach
  <2>2. CASE p = o /\ q # o
    BY <1>2, <1>5, <2>2 DEF L!OneOrderEach, Rewritten
  <2>3. CASE p # o /\ q = o
    BY <1>2, <1>5, <2>3 DEF L!OneOrderEach, Rewritten
  <2>4. QED
    BY <2>1, <2>2, <2>3
<1>6. L!OneOrderEach'
  BY <1>5 DEF L!OneOrderEach
<1>7. QED
  BY <1>3, <1>4, <1>6

(* A row of an order that changes nothing but what the exchange said of it.    *)
LEMMA RowWritten ==
  ASSUME LinksShape, NEW o \in Entries, NEW r \in OrderRows, r.calc = entries[o].calc,
         entries' = [entries EXCEPT ![o] = r]
  PROVE  Rewritten(o, r)
  BY DEF Rewritten, LinksShape

(* What a step that writes one order's row and no fill leaves.                 *)
LEMMA RewrittenStep ==
  ASSUME Linked, NEW o \in Entries, NEW r, Rewritten(o, r),
         plans' = plans, aged' = aged, filled' = filled,
         exits' \in [Exits -> ExitRows], tasks' \subseteq Handled
  PROVE  Linked' /\ \A p \in Entries : entries[p].calc # 0 => entries'[p].calc = entries[p].calc
<1>1. LinksShape /\ L!OneOrderEach /\ L!FillsFollow
  BY DEF Linked
<1>2. /\ entries' \in [Entries -> OrderRows]
      /\ \A p \in Entries : entries'[p].calc <= Len(plans)
      /\ L!OneOrderEach'
      /\ \A p \in Entries : entries[p].calc # 0 => entries'[p].calc = entries[p].calc
  BY <1>1, RewrittenKeeps
<1>3. LinksShape'
  BY <1>1, <1>2 DEF LinksShape
<1>4. L!FillsFollow'
  BY <1>1, <1>2 DEF L!FillsFollow
<1>5. QED
  BY <1>2, <1>3, <1>4 DEF Linked

LinksStayed == \A p \in Entries : entries[p].calc # 0 => entries'[p].calc = entries[p].calc

LEMMA EntryWritten ==
  ASSUME Linked, NEW o \in Entries, NEW place \in Positions \cup {0},
         L!UpsertEntry(o, place) \/ L!SnapshotEntry(o, place)
  PROVE  Linked' /\ LinksStayed
<1> DEFINE new == [entries[o] EXCEPT !.known = TRUE, !.pos = place]
<1>1. entries[o] \in OrderRows /\ entries \in [Entries -> OrderRows]
  BY DEF Linked, LinksShape
<1>2. new \in OrderRows /\ new.calc = entries[o].calc
  BY <1>1 DEF OrderRows
<1>3. PICK r \in OrderRows : entries' = [entries EXCEPT ![o] = r] /\ r.calc = entries[o].calc
  <2>1. CASE L!UpsertEntry(o, place)
    <3>1. PICK newer \in {entries[o].known, FALSE} :
            entries' = [entries EXCEPT ![o] = IF newer THEN @ ELSE [@ EXCEPT !.known = TRUE, !.pos = place]]
      BY <2>1 DEF L!UpsertEntry
    <3>2. entries' = [entries EXCEPT ![o] = IF newer THEN entries[o] ELSE new]
      BY <1>1, <3>1
    <3> HIDE DEF new
    <3>3. newer \in BOOLEAN
      BY <1>1, <3>1 DEF OrderRows
    <3>4. CASE newer
      BY <1>1, <3>2, <3>4
    <3>5. CASE ~newer
      BY <1>2, <3>2, <3>5
    <3>6. QED
      BY <3>3, <3>4, <3>5
  <2>2. CASE L!SnapshotEntry(o, place)
    <3>1. entries' = [entries EXCEPT ![o].known = TRUE, ![o].pos = place]
      BY <2>2 DEF L!SnapshotEntry
    <3>2. entries' = [entries EXCEPT ![o] = new]
      BY <1>1, <3>1 DEF OrderRows
    <3> HIDE DEF new
    <3>3. QED
      BY <1>2, <3>2
  <2>3. QED
    BY <2>1, <2>2
<1>4. Rewritten(o, r)
  BY <1>3, RowWritten DEF Linked
<1>5. tasks' \subseteq Handled
  BY DEF L!UpsertEntry, L!SnapshotEntry, L!Message, Handled, Linked, LinksShape
<1>6. UNCHANGED <<plans, aged, filled, exits>> /\ exits \in [Exits -> ExitRows]
  BY DEF L!UpsertEntry, L!SnapshotEntry, Linked, LinksShape
<1>7. QED
  BY <1>4, <1>5, <1>6, RewrittenStep DEF LinksStayed

LEMMA EntryEnriched ==
  ASSUME Linked, NEW t \in tasks, L!EnrichEntry(t) \/ L!EnrichParent(t)
  PROVE  Linked' /\ LinksStayed
<1>1. t \in Handled /\ LinksShape
  BY DEF Linked, LinksShape
<1>2. CASE UNCHANGED entries
  <2>1. UNCHANGED <<plans, aged, filled, exits, entries>> /\ tasks' \subseteq tasks
    BY <1>2 DEF L!EnrichEntry, L!EnrichParent
  <2>2. QED
    BY <2>1 DEF Linked, LinksShape, L!OneOrderEach, L!FillsFollow, LinksStayed
<1>3. CASE \E o \in Entries : \E place : L!Enriched(o, place)
  <2>1. PICK o \in Entries : \E place : L!Enriched(o, place)
    BY <1>3
  <2>0. PICK place : L!Enriched(o, place)
    BY <2>1
  <2>2. PICK r \in OrderRows : Rewritten(o, r)
    BY <1>1, <2>0, EnrichedWrites
  <2>3. UNCHANGED <<plans, aged, filled, exits>> /\ tasks' \subseteq Handled /\ exits \in [Exits -> ExitRows]
    BY <1>1 DEF L!EnrichEntry, L!EnrichParent, LinksShape
  <2>4. QED
    BY <2>2, <2>3, RewrittenStep DEF LinksStayed
<1>4. CASE L!EnrichEntry(t)
  <2>1. t[2] \in Entries /\ L!Enriched(t[2], t[3])
    BY <1>1, <1>4 DEF L!EnrichEntry, Handled
  <2>2. QED
    BY <1>3, <2>1
<1>5. CASE L!EnrichParent(t)
  BY <1>2, <1>3, <1>5 DEF L!EnrichParent
<1>6. QED
  BY <1>4, <1>5

(* A fill's row gets its order's calculation or keeps its own.                 *)
LEMMA FillWritten ==
  ASSUME Linked, NEW f \in Executions, NEW r \in FillRows, filled' = [filled EXCEPT ![f] = r],
         UNCHANGED <<plans, aged, entries, exits>>, tasks' \subseteq Handled,
         r.calc # 0 => OrderOf[f] \in Entries /\ entries[OrderOf[f]].calc = r.calc
  PROVE  Linked' /\ LinksStayed
<1>1. filled' \in [Executions -> FillRows] /\ filled'[f] = r /\ \A g \in Executions : g # f => filled'[g] = filled[g]
  BY DEF Linked, LinksShape
<1>2. L!FillsFollow'
  BY <1>1 DEF Linked, L!FillsFollow
<1>3. QED
  BY <1>1, <1>2 DEF Linked, LinksShape, L!OneOrderEach, LinksStayed

LEMMA FillArrives ==
  ASSUME OrdersKnown, Linked,
         \/ \E f \in Executions : L!UpsertFill(f)
         \/ \E t \in tasks : L!EnrichFill(t)
  PROVE  Linked' /\ LinksStayed
<1>1. CASE \E f \in Executions : L!UpsertFill(f)
  <2>1. PICK f \in Executions : L!UpsertFill(f)
    BY <1>1
  <2> DEFINE r == [filled[f] EXCEPT !.known = TRUE]
  <2>2. filled[f] \in FillRows /\ filled \in [Executions -> FillRows]
    BY DEF Linked, LinksShape
  <2>3. r \in FillRows /\ r.calc = filled[f].calc
    BY <2>2 DEF FillRows
  <2>4. filled' = [filled EXCEPT ![f] = r]
    BY <2>1 DEF L!UpsertFill
  <2> HIDE DEF r
  <2>5. UNCHANGED <<plans, aged, entries, exits>> /\ tasks' \subseteq Handled
    BY <2>1 DEF L!UpsertFill, L!Message, Handled, Linked, LinksShape
  <2>6. r.calc # 0 => OrderOf[f] \in Entries /\ entries[OrderOf[f]].calc = r.calc
    BY <2>3 DEF Linked, L!FillsFollow
  <2>7. QED
    BY <2>3, <2>4, <2>5, <2>6, FillWritten
<1>2. CASE \E t \in tasks : L!EnrichFill(t)
  <2>1. PICK t \in tasks : L!EnrichFill(t)
    BY <1>2
  <2> DEFINE f == t[2]
             r == [filled[f] EXCEPT !.calc = L!Propagated(f), !.type = L!Classified(f)]
  <2>2. f \in Executions
    BY <2>1 DEF L!EnrichFill, Linked, LinksShape, Handled
  <2>3. filled[f] \in FillRows /\ filled \in [Executions -> FillRows]
    BY <2>2 DEF Linked, LinksShape
  <2>4. filled' = [filled EXCEPT ![f] = r]
    BY <2>1, <2>3 DEF L!EnrichFill, FillRows
  <2>5. UNCHANGED <<plans, aged, entries, exits>> /\ tasks' \subseteq Handled
    BY <2>1 DEF L!EnrichFill, Linked, LinksShape
  <2> HIDE DEF f
  <2>6. L!Propagated(f) \in Nat
    BY <2>2, <2>3 DEF L!Propagated, FillRows, Linked, LinksShape, OrderRows
  <2>7. L!Classified(f) \in FillTypes
    BY <2>2 DEF L!Classified, FillTypes, OrdersKnown
  <2>8. L!Propagated(f) # 0 => OrderOf[f] \in Entries /\ entries[OrderOf[f]].calc = L!Propagated(f)
    BY <2>2 DEF L!Propagated, Linked, L!FillsFollow
  <2>9. r \in FillRows /\ r.calc = L!Propagated(f)
    BY <2>3, <2>6, <2>7 DEF FillRows
  <2> HIDE DEF r
  <2>10. QED
    BY <2>2, <2>4, <2>5, <2>8, <2>9, FillWritten
<1>3. QED
  BY <1>1, <1>2

(* A link set by hand: the order has none yet, and so have its fills.          *)
LEMMA HandLinked ==
  ASSUME Linked, NEW o \in Entries, NEW c \in L!PlanIds, L!Confirm(o, c)
  PROVE  Linked' /\ LinksStayed
<1>1. LinksShape /\ L!OneOrderEach /\ L!FillsFollow /\ c \in Nat /\ c # 0 /\ c <= Len(plans)
  BY LenProperties DEF Linked, LinksShape, L!PlanIds
<1> DEFINE r == [entries[o] EXCEPT !.calc = c]
<1>2. entries[o] \in OrderRows
  BY <1>1 DEF LinksShape
<1>3. r \in OrderRows /\ r.calc = c
  BY <1>1, <1>2 DEF OrderRows
<1>4. entries' = [entries EXCEPT ![o] = r]
  BY DEF L!Confirm
<1> HIDE DEF r
<1>5. entries[o].calc = 0 /\ \A p \in Entries : entries[p].calc # c
  BY DEF L!Confirm
<1>6. Rewritten(o, r)
  BY <1>1, <1>3, <1>4, <1>5 DEF Rewritten
<1>7. /\ entries' \in [Entries -> OrderRows]
      /\ \A p \in Entries : entries'[p].calc <= Len(plans)
      /\ L!OneOrderEach'
      /\ \A p \in Entries : entries[p].calc # 0 => entries'[p].calc = entries[p].calc
  BY <1>1, <1>6, RewrittenKeeps
<1>8. entries'[o].calc = c
  BY <1>1, <1>3, <1>4 DEF LinksShape
<1> DEFINE Theirs(f) == filled[f].known /\ OrderOf[f] = o
<1>9. filled' = [f \in Executions |-> IF Theirs(f) THEN [filled[f] EXCEPT !.calc = c] ELSE filled[f]]
  BY DEF L!Confirm
<1> HIDE DEF Theirs
<1>10. ASSUME NEW f \in Executions
       PROVE  /\ filled'[f] \in FillRows
              /\ Theirs(f) => filled'[f].calc = c
              /\ ~Theirs(f) => filled'[f].calc = filled[f].calc
  <2>1. filled[f] \in FillRows
    BY <1>1 DEF LinksShape
  <2>2. CASE Theirs(f)
    <3>1. filled'[f] = [filled[f] EXCEPT !.calc = c]
      BY <1>9, <2>2
    <3>2. QED
      BY <1>1, <2>1, <2>2, <3>1 DEF FillRows
  <2>3. CASE ~Theirs(f)
    BY <1>9, <2>1, <2>3
  <2>4. QED
    BY <2>2, <2>3
<1>11. filled' \in [Executions -> FillRows]
  BY <1>9, <1>10
<1>12. ASSUME NEW f \in Executions, filled'[f].calc # 0
       PROVE  OrderOf[f] \in Entries /\ entries'[OrderOf[f]].calc = filled'[f].calc
  <2>1. CASE Theirs(f)
    BY <1>8, <1>10, <2>1 DEF Theirs
  <2>2. CASE ~Theirs(f)
    BY <1>1, <1>7, <1>10, <1>12, <2>2 DEF L!FillsFollow
  <2>3. QED
    BY <2>1, <2>2
<1>13. UNCHANGED <<plans, aged, exits, tasks>>
  BY DEF L!Confirm
<1>14. LinksShape'
  BY <1>1, <1>7, <1>11, <1>13 DEF LinksShape
<1>15. L!FillsFollow'
  BY <1>12 DEF L!FillsFollow
<1>16. QED
  BY <1>7, <1>14, <1>15 DEF Linked, LinksStayed

LEMMA LinkedStep == ASSUME OrdersKnown, Linked, [L!Next]_(L!vars) PROVE Linked' /\ LinksStayed
<1>1. CASE \E p \in Plans : L!Save(p)
  <2>1. PICK p \in Plans : L!Save(p)
    BY <1>1
  <2>2. plans \in Seq(Plans) /\ \A o \in Entries : entries[o].calc <= Len(plans) /\ entries[o].calc \in Nat
    BY DEF Linked, LinksShape, OrderRows
  <2>3. plans' \in Seq(Plans) /\ Len(plans') = Len(plans) + 1 /\ Len(plans) \in Nat
    BY <2>1, <2>2, AppendProperties, LenProperties DEF L!Save
  <2>4. \A o \in Entries : entries[o].calc <= Len(plans')
    BY <2>2, <2>3
  <2>5. UNCHANGED <<aged, entries, exits, filled, tasks>>
    BY <2>1 DEF L!Save
  <2>6. QED
    BY <2>3, <2>4, <2>5 DEF Linked, LinksShape, L!OneOrderEach, L!FillsFollow, LinksStayed
<1>2. CASE L!Age
  BY <1>2 DEF L!Age, Linked, LinksShape, L!OneOrderEach, L!FillsFollow, LinksStayed
<1>3. CASE \E o \in Entries, place \in Positions \cup {0} : L!UpsertEntry(o, place) \/ L!SnapshotEntry(o, place)
  BY <1>3, EntryWritten
<1>4. CASE \E x \in Exits, price \in Triggers, place \in Positions \cup {0} :
            L!UpsertExit(x, price, place) \/ L!SnapshotExit(x, price, place)
  <2>1. PICK x \in Exits, price \in Triggers, place \in Positions \cup {0} :
          L!UpsertExit(x, price, place) \/ L!SnapshotExit(x, price, place)
    BY <1>4
  <2> DEFINE new == [known |-> TRUE, price |-> price, pos |-> place]
  <2>2. PICK newer : exits' = [exits EXCEPT ![x] = IF newer THEN exits[x] ELSE new]
    <3>1. CASE L!UpsertExit(x, price, place)
      BY <3>1 DEF L!UpsertExit
    <3>2. CASE L!SnapshotExit(x, price, place)
      <4>1. exits' = [exits EXCEPT ![x] = IF FALSE THEN exits[x] ELSE new]
        BY <3>2 DEF L!SnapshotExit
      <4>2. QED
        BY <4>1
    <3>3. QED
      BY <2>1, <3>1, <3>2
  <2>3. new \in ExitRows /\ exits \in [Exits -> ExitRows] /\ exits[x] \in ExitRows
    BY DEF ExitRows, Linked, LinksShape
  <2> HIDE DEF new
  <2>4. exits' \in [Exits -> ExitRows]
    BY <2>2, <2>3
  <2>5. UNCHANGED <<plans, aged, entries, filled>> /\ tasks' \subseteq Handled
    BY <2>1 DEF L!UpsertExit, L!SnapshotExit, L!Message, Handled, Linked, LinksShape
  <2>6. QED
    BY <2>4, <2>5 DEF Linked, LinksShape, L!OneOrderEach, L!FillsFollow, LinksStayed
<1>5. CASE \/ \E f \in Executions : L!UpsertFill(f)
           \/ \E t \in tasks : L!EnrichFill(t)
  BY <1>5, FillArrives
<1>6. CASE \E t \in tasks : L!EnrichEntry(t) \/ L!EnrichParent(t)
  BY <1>6, EntryEnriched
<1>7. CASE \E o \in Entries, c \in L!PlanIds : L!Confirm(o, c)
  BY <1>7, HandLinked
<1>8. CASE UNCHANGED L!vars
  BY <1>8 DEF L!vars, Linked, LinksShape, L!OneOrderEach, L!FillsFollow, LinksStayed
<1>9. QED
  BY <1>1, <1>2, <1>3, <1>4, <1>5, <1>6, <1>7, <1>8 DEF L!Next

LEMMA LinkedInit == L!Init => Linked
<1> SUFFICES ASSUME L!Init PROVE Linked
  OBVIOUS
<1>1. L!NoRow \in OrderRows /\ L!NoExit \in ExitRows /\ L!NoFill \in FillRows
  BY DEF L!NoRow, L!NoExit, L!NoFill, OrderRows, ExitRows, FillRows, FillTypes
<1>2. plans \in Seq(Plans) /\ Len(plans) = 0
  BY EmptySeq DEF L!Init
<1>3. entries = [o \in Entries |-> L!NoRow] /\ exits = [x \in Exits |-> L!NoExit]
      /\ filled = [f \in Executions |-> L!NoFill] /\ L!NoRow.calc = 0 /\ L!NoFill.calc = 0
  BY DEF L!Init, L!NoRow, L!NoFill
<1>4. LinksShape
  BY <1>1, <1>2, <1>3 DEF L!Init, LinksShape
<1>5. L!OneOrderEach /\ L!FillsFollow
  BY <1>3 DEF L!OneOrderEach, L!FillsFollow
<1>6. QED
  BY <1>4, <1>5 DEF Linked

(* Whatever order messages, retries and links by hand come in, a calculation is *)
(* the plan of one order for good, and fills have their order's.               *)
THEOREM OnePlanOneOrder ==
  ASSUME OrdersKnown
  PROVE  L!Spec => [](L!OneOrderEach /\ L!FillsFollow) /\ L!LinksStay
<1>1. Linked /\ [L!Next]_(L!vars) => Linked' /\ LinksStayed
  BY LinkedStep
<1>2. Linked => L!OneOrderEach /\ L!FillsFollow
  BY DEF Linked
<1>3. LinksStayed => [\A o \in Entries : entries[o].calc # 0 => entries'[o].calc = entries[o].calc]_(L!vars)
  BY DEF LinksStayed
<1>4. QED
  BY <1>1, <1>2, <1>3, LinkedInit, PTL DEF L!Spec, L!LinksStay

-----------------------------------------------------------------------------
(* The data directory (DataDir).  Stored says where the rows of each item are *)
(* at every stage of the split; Migrated, which scripts the runner has come *)
(* to on each file, since division gives every script and file one place.   *)

(* The accounts are finitely many, the scripts a sequence of kinds.            *)
FilesKnown == IsFiniteSet(FileAccounts) /\ Scripts \in Seq({"seed", "rebuild", "guarded", "column"})

(* A module's copies of operators of the library are those operators.          *)
LEMMA CardinalityOfFiles == ASSUME NEW S PROVE D!Cardinality(S) = Cardinality(S)
  BY DEF D!Cardinality, Cardinality

LEMMA InjectiveOfFiles == ASSUME NEW f PROVE D!IsInjective(f) = IsInjective(f)
  BY DEF D!IsInjective, IsInjective

(* The list of the account files has every account.                            *)
LEMMA Listed ==
  ASSUME NEW S, IsFiniteSet(S)
  PROVE  /\ D!SetToSeq(S) \in Seq(S)
         /\ \A a \in S : \E i \in 1 .. Len(D!SetToSeq(S)) : D!SetToSeq(S)[i] = a
<1> DEFINE n == Cardinality(S)
           s == D!SetToSeq(S)
<1>1. n \in Nat /\ ExistsBijection(1 .. n, S)
  BY FS_CardinalityType
<1>2. \E f \in [1 .. n -> S] : IsInjective(f)
  BY <1>1 DEF ExistsBijection, Bijection, Injection
<1>3. s \in [1 .. n -> S] /\ IsInjective(s)
  BY <1>2, CardinalityOfFiles, InjectiveOfFiles DEF D!SetToSeq
<1> HIDE DEF s
<1>4. IsFiniteSet(1 .. n) /\ Cardinality(1 .. n) = n
  BY <1>1, FS_Interval
<1>5. s \in Injection(1 .. n, S)
  BY <1>3 DEF Injection
<1>6. s \in Surjection(1 .. n, S)
  BY <1>4, <1>5, FS_Injection
<1>7. s \in Seq(S) /\ Len(s) = n
  BY <1>1, <1>3, LenProperties, SeqDef
<1>8. \A a \in S : \E i \in 1 .. n : s[i] = a
  BY <1>3, <1>6 DEF Surjection
<1>9. QED
  BY <1>7, <1>8 DEF s

LEMMA FilesListed ==
  ASSUME FilesKnown
  PROVE  /\ D!Files \in Seq(FileAccounts) /\ Len(D!Files) \in Nat /\ DOMAIN D!Files = 1 .. Len(D!Files)
         /\ \A i \in 1 .. Len(D!Files) : D!Files[i] \in FileAccounts
         /\ \A a \in FileAccounts : \E i \in 1 .. Len(D!Files) : D!Files[i] = a
<1>1. D!Files \in Seq(FileAccounts) /\ \A a \in FileAccounts : \E i \in 1 .. Len(D!Files) : D!Files[i] = a
  BY Listed DEF D!Files, FilesKnown
<1>2. QED
  BY <1>1, LenProperties, ElementOfSeq

LEMMA OrderListed ==
  ASSUME FilesKnown
  PROVE  /\ DOMAIN D!Order = 1 .. Len(D!Order) /\ Len(D!Order) \in Nat
         /\ \A n \in 1 .. Len(D!Order) : D!Order[n] \in D!Targets
         /\ \A t \in D!Targets : \E n \in 1 .. Len(D!Order) : D!Order[n] = t
<1> DEFINE s == D!SetToSeq(FileAccounts)
           g == <<"global">>
           b == <<"bars">>
           k == Len(s)
<1>1. /\ s \in Seq(D!Targets) /\ k \in Nat /\ \A i \in 1 .. k : s[i] \in FileAccounts
      /\ \A a \in FileAccounts : \E i \in 1 .. k : s[i] = a
  <2>1. s \in Seq(FileAccounts) /\ \A a \in FileAccounts : \E i \in 1 .. k : s[i] = a
    BY Listed DEF FilesKnown
  <2>2. s \in Seq(D!Targets)
    <3>1. k \in Nat /\ s \in [1 .. k -> FileAccounts]
      BY <2>1, LenProperties
    <3>2. s \in [1 .. k -> D!Targets]
      BY <3>1 DEF D!Targets
    <3>3. QED
      BY <3>1, <3>2, SeqDef
  <2>3. QED
    BY <2>1, <2>2, LenProperties, ElementOfSeq
<1>2. g \in Seq(D!Targets) /\ b \in Seq(D!Targets) /\ Len(g) = 1 /\ Len(b) = 1 /\ g[1] = "global" /\ b[1] = "bars"
  BY DEF D!Targets
<1> HIDE DEF s, g, b
<1> DEFINE gs == g \o s
<1>3. /\ gs \in Seq(D!Targets) /\ Len(gs) = 1 + k
      /\ \A i \in 1 .. 1 + k : gs[i] = IF i <= 1 THEN g[i] ELSE s[i - 1]
  BY <1>1, <1>2, ConcatProperties
<1> HIDE DEF gs
<1>4. /\ gs \o b \in Seq(D!Targets) /\ Len(gs \o b) = 1 + k + 1
      /\ \A i \in 1 .. 1 + k + 1 : (gs \o b)[i] = IF i <= 1 + k THEN gs[i] ELSE b[i - (1 + k)]
  <2>1. /\ gs \o b \in Seq(D!Targets) /\ Len(gs \o b) = Len(gs) + Len(b)
        /\ \A i \in 1 .. Len(gs) + Len(b) : (gs \o b)[i] = IF i <= Len(gs) THEN gs[i] ELSE b[i - Len(gs)]
    BY <1>2, <1>3, ConcatProperties
  <2> DEFINE o == gs \o b
  <2> HIDE DEF o
  <2>2. o \in Seq(D!Targets) /\ Len(o) = Len(gs) + Len(b)
        /\ \A i \in 1 .. Len(gs) + Len(b) : o[i] = IF i <= Len(gs) THEN gs[i] ELSE b[i - Len(gs)]
    BY <2>1 DEF o
  <2>3. Len(gs) + Len(b) = 1 + k + 1
    BY <1>1, <1>2, <1>3
  <2>4. o \in Seq(D!Targets) /\ Len(o) = 1 + k + 1
        /\ \A i \in 1 .. 1 + k + 1 : o[i] = IF i <= 1 + k THEN gs[i] ELSE b[i - (1 + k)]
    BY <1>1, <1>2, <1>3, <2>2, <2>3
  <2>5. QED
    BY <2>4 DEF o
<1>5. D!Order = gs \o b
  BY DEF D!Order, gs, g, s, b
<1> DEFINE o == D!Order
<1>6. /\ o \in Seq(D!Targets) /\ Len(o) = k + 2
      /\ o[1] = "global" /\ o[k + 2] = "bars" /\ \A i \in 1 .. k : o[i + 1] = s[i]
  BY <1>1, <1>2, <1>3, <1>4, <1>5
<1> HIDE DEF o
<1>7. ASSUME NEW t \in D!Targets PROVE \E n \in 1 .. k + 2 : o[n] = t
  <2>1. CASE t \in FileAccounts
    <3>1. PICK i \in 1 .. k : s[i] = t
      BY <1>1, <2>1
    <3>2. i + 1 \in 1 .. k + 2 /\ o[i + 1] = t
      BY <1>1, <1>6, <3>1
    <3>3. QED
      BY <3>2
  <2>2. CASE t = "global"
    BY <1>1, <1>6, <2>2
  <2>3. CASE t = "bars"
    BY <1>1, <1>6, <2>3
  <2>4. QED
    BY <2>1, <2>2, <2>3 DEF D!Targets
<1>8. DOMAIN o = 1 .. Len(o) /\ Len(o) \in Nat /\ \A n \in 1 .. Len(o) : o[n] \in D!Targets
  BY <1>6, LenProperties, ElementOfSeq
<1>9. QED
  BY <1>6, <1>7, <1>8 DEF o

-----------------------------------------------------------------------------
(* The rows *)

Stages == {"off", "copy", "fill", "rename", "mark", "migrate", "log", "convert", "on"}
Versions == [there : BOOLEAN, rows : [D!Items -> Nat]]

(* Before there is a backup the combined file has every newest row.  What the  *)
(* split has passed is copied.                                                 *)
Stored ==
    /\ legacy \in Versions /\ backup \in Versions
    /\ copy \in [D!Targets -> Nat] /\ last \in [D!Items -> Nat] /\ clock \in Nat
    /\ at \in Nat /\ \A i \in D!Items : last[i] > 0
    /\ ~backup.there => \A i \in D!Items : legacy.rows[i] = last[i]
    /\ \A t \in D!Targets : backup.rows[t] > 0 => copy[t] > 0
    /\ pc \in {"copy", "fill"} =>
         /\ legacy.there /\ at > 0
         /\ \A n \in 1 .. Len(D!Order) : n < at /\ legacy.rows[D!Order[n]] > 0 => copy[D!Order[n]] > 0
    /\ pc = "fill" => at \in 1 .. Len(D!Order)
    /\ D!NothingLost

LEMMA StoredInit == FilesKnown /\ D!Init => Stored
<1> SUFFICES ASSUME D!Init PROVE Stored
  OBVIOUS
<1>1. D!Targets \subseteq D!Items
  BY DEF D!Items
<1>2. legacy \in Versions /\ backup \in Versions /\ copy \in [D!Targets -> Nat] /\ last \in [D!Items -> Nat]
  BY DEF D!Init, Versions
<1>3. /\ marker \in BOOLEAN /\ backup.there = marker /\ pc = "off" /\ clock = 1 /\ at = 0
      /\ \A i \in D!Items : last[i] = 1 /\ legacy.rows[i] = (IF marker THEN 0 ELSE 1)
                          /\ backup.rows[i] = (IF marker THEN 1 ELSE 0)
      /\ \A t \in D!Targets : copy[t] = IF marker THEN 1 ELSE 0
  BY DEF D!Init
<1>4. QED
  BY <1>1, <1>2, <1>3 DEF Stored, D!NothingLost

(* Steps of the split and of the engine that write no rows.                    *)
LEMMA StoredKept ==
  ASSUME FilesKnown, Stored, UNCHANGED <<legacy, backup, copy, last, clock>>,
         at' \in Nat, pc' \notin {"copy", "fill"} \/ UNCHANGED <<pc, at>>
  PROVE  Stored'
  BY DEF Stored, D!NothingLost

LEMMA StoredStep == FilesKnown /\ Stored /\ [D!Next]_(D!vars) => Stored'
<1> SUFFICES ASSUME FilesKnown, Stored, [D!Next]_(D!vars) PROVE Stored'
  OBVIOUS
<1>0. /\ at \in Nat /\ 0 \in Nat /\ 1 \in Nat /\ at + 1 \in Nat /\ D!Targets \subseteq D!Items
  BY DEF Stored, D!Items
<1>1. CASE D!SplitStarts
  BY <1>0, <1>1 DEF D!SplitStarts, Stored, D!Go, D!Kept, D!files, D!accts, D!NothingLost
<1>2. CASE D!Opens
  <2>1. UNCHANGED <<legacy, backup, copy, last, clock>> /\ pc = "copy" /\ pc' = "fill" /\ at' = at
    BY <1>2 DEF D!Opens, D!Go, D!Kept
  <2>2. at \in 1 .. Len(D!Order)
    BY <1>2, OrderListed DEF D!Opens
  <2>3. QED
    BY <2>1, <2>2 DEF Stored, D!NothingLost
<1>3. CASE D!Fills
  <2> DEFINE t == D!Order[at]
  <2>1. /\ pc = "fill" /\ pc' = "copy" /\ at' = at + 1 /\ UNCHANGED <<legacy, backup, last, clock>>
        /\ copy' = [copy EXCEPT ![t] = IF copy[t] = 0 THEN legacy.rows[t] ELSE copy[t]]
    BY <1>3 DEF D!Fills, D!Go, D!Kept, Stored
  <2>2. at \in 1 .. Len(D!Order) /\ t \in D!Targets /\ t \in D!Items
    BY <1>0, <2>1, OrderListed DEF Stored
  <2>3. legacy.rows[t] \in Nat /\ copy[t] \in Nat /\ copy \in [D!Targets -> Nat]
    BY <2>2 DEF Stored, Versions
  <2> HIDE DEF t
  <2>4. /\ copy' \in [D!Targets -> Nat]
        /\ copy'[t] = IF copy[t] = 0 THEN legacy.rows[t] ELSE copy[t]
        /\ \A u \in D!Targets : u # t => copy'[u] = copy[u]
    BY <2>1, <2>2, <2>3
  <2>5. \A u \in D!Targets : copy[u] > 0 => copy'[u] > 0 /\ copy'[u] = copy[u]
    BY <2>3, <2>4
  <2>6. D!NothingLost'
    BY <1>0, <2>1, <2>3, <2>5 DEF D!NothingLost, Stored
  <2>7. \A n \in 1 .. Len(D!Order) : n < at + 1 /\ legacy.rows[D!Order[n]] > 0 => copy'[D!Order[n]] > 0
    <3> SUFFICES ASSUME NEW n \in 1 .. Len(D!Order), n < at + 1, legacy.rows[D!Order[n]] > 0
                 PROVE  copy'[D!Order[n]] > 0
      OBVIOUS
    <3>1. CASE n = at
      BY <2>2, <2>3, <2>4, <3>1 DEF t
    <3>2. CASE n < at
      BY <1>0, <2>1, <2>5, <3>2, OrderListed DEF Stored
    <3>3. QED
      BY <1>0, <3>1, <3>2, OrderListed
  <2>8. \A u \in D!Targets : backup.rows[u] > 0 => copy'[u] > 0
    BY <2>5 DEF Stored
  <2>9. QED
    BY <1>0, <2>1, <2>4, <2>6, <2>7, <2>8 DEF Stored
<1>4. CASE D!Renames
  <2>1. /\ pc = "copy" /\ pc' = "mark" /\ at' = 0 /\ UNCHANGED <<copy, last, clock>>
        /\ at \notin 1 .. Len(D!Order) /\ at > 0 /\ legacy.there
    BY <1>4, OrderListed DEF D!Renames, D!Go, D!Kept, Stored
  <2>2. CASE UNCHANGED <<legacy, backup>>
    BY <1>0, <2>1, <2>2, StoredKept
  <2>3. CASE ~backup.there /\ backup' = legacy /\ legacy' = [there |-> FALSE, rows |-> D!Empty]
    <3>1. ASSUME NEW t \in D!Targets, legacy.rows[t] > 0 PROVE copy[t] > 0
      <4>1. PICK n \in 1 .. Len(D!Order) : D!Order[n] = t
        BY OrderListed
      <4>2. n < at
        BY <1>0, <2>1, OrderListed
      <4>3. QED
        BY <2>1, <3>1, <4>1, <4>2 DEF Stored
    <3>2. legacy' \in Versions /\ backup' \in Versions /\ backup'.there
      BY <2>1, <2>3 DEF Stored, Versions, D!Empty
    <3>3. D!NothingLost'
      BY <2>1, <2>3 DEF Stored, D!NothingLost
    <3>4. QED
      BY <1>0, <2>1, <2>3, <3>1, <3>2, <3>3 DEF Stored
  <2>4. QED
    BY <1>4, <2>2, <2>3 DEF D!Renames
<1>5. CASE D!Marks
  BY <1>0, <1>5, StoredKept DEF D!Marks, D!Go, D!Kept
<1>6. CASE D!EngineStarts
  <2> DEFINE l == [legacy EXCEPT !.there = TRUE]
  <2>1. /\ legacy' = l /\ pc' \notin {"copy", "fill"} /\ at' \in Nat
        /\ UNCHANGED <<backup, copy, last, clock>>
    BY <1>6 DEF D!EngineStarts, D!Go, D!Kept
  <2>2. l \in Versions /\ l.rows = legacy.rows
    BY DEF Stored, Versions
  <2> HIDE DEF l
  <2>3. QED
    BY <2>1, <2>2 DEF Stored, D!NothingLost
<1>7. CASE \E i \in D!Items : D!Writes(i)
  <2>1. PICK i \in D!Items : D!Writes(i)
    BY <1>7
  <2> DEFINE l == [legacy EXCEPT !.rows[i] = clock + 1]
  <2>2. /\ legacy' = l /\ clock' = clock + 1 /\ last' = [last EXCEPT ![i] = clock + 1]
        /\ pc = "on" /\ UNCHANGED <<backup, copy, pc, at>>
    BY <2>1 DEF D!Writes
  <2>3. clock \in Nat /\ legacy \in Versions /\ last \in [D!Items -> Nat]
    BY DEF Stored
  <2>4. l \in Versions /\ l.rows[i] = clock + 1 /\ \A j \in D!Items : j # i => l.rows[j] = legacy.rows[j]
    BY <2>3 DEF Versions
  <2>5. last' \in [D!Items -> Nat] /\ last'[i] = clock + 1 /\ \A j \in D!Items : j # i => last'[j] = last[j]
    BY <2>2, <2>3
  <2> HIDE DEF l
  <2>6. D!NothingLost'
    BY <2>2, <2>4, <2>5 DEF D!NothingLost, Stored
  <2>7. \A j \in D!Items : last'[j] > 0
    BY <2>3, <2>5 DEF Stored
  <2>8. ~backup.there => \A j \in D!Items : l.rows[j] = last'[j]
    BY <2>4, <2>5 DEF Stored
  <2>9. QED
    BY <2>2, <2>3, <2>4, <2>5, <2>6, <2>7, <2>8 DEF Stored
<1>8. CASE \/ D!Crash \/ D!SkipsScript \/ D!ScriptRuns \/ D!ScriptFails \/ D!Logs \/ D!MigrationsEnd \/ D!Converts
           \/ D!Serves \/ D!Stops \/ \E f \in FileAccounts : D!UserSets(f)
  <2>1. UNCHANGED <<legacy, backup, copy, last, clock>> /\ at' \in Nat
        /\ (pc' \notin {"copy", "fill"} \/ UNCHANGED <<pc, at>>)
    BY <1>0, <1>8 DEF D!Crash, D!SkipsScript, D!ScriptRuns, D!ScriptFails, D!Logs, D!MigrationsEnd, D!Converts,
       D!Serves, D!Stops, D!UserSets, D!Go, D!Kept, D!files, D!accts
  <2>2. QED
    BY <2>1, StoredKept
<1>9. CASE UNCHANGED D!vars
  BY <1>0, <1>9, StoredKept DEF D!vars, D!files
<1>10. QED
  BY <1>1, <1>2, <1>3, <1>4, <1>5, <1>6, <1>7, <1>8, <1>9 DEF D!Next

(* Wherever the split and the engine die, no newest row is lost, and with the  *)
(* marker everything is in the split files.                                    *)
LEMMA RowsStay == ASSUME FilesKnown PROVE D!Spec => [](D!NothingLost /\ D!MarkerComplete)
<1>1. Stored => D!NothingLost /\ D!MarkerComplete
  BY DEF Stored, D!MarkerComplete
<1>2. QED
  BY <1>1, StoredInit, StoredStep, PTL DEF D!Spec

-----------------------------------------------------------------------------
(* Division *)

LEMMA Share ==
  ASSUME NEW a \in Int, NEW b \in Int, NEW l \in Int, a <= b, l >= 0
  PROVE  a * l <= b * l
  BY SMT

LEMMA Quotient ==
  ASSUME NEW l \in Nat, l > 0, NEW x \in Nat
  PROVE  /\ x \div l \in Nat /\ x % l \in 0 .. l - 1
         /\ x = (x \div l) * l + (x % l)
<1>1. x \div l \in Int
  OBVIOUS
<1>2. x % l \in 0 .. l - 1
  OBVIOUS
<1>0. x = l * (x \div l) + (x % l)
  BY SMT
<1>3. x = (x \div l) * l + (x % l)
  <2> DEFINE q == x \div l  m == x % l
  <2>1. q \in Int /\ m \in Int /\ x = l * q + m
    BY <1>0, <1>1, <1>2
  <2> HIDE DEF q, m
  <2>2. x = q * l + m
    BY <2>1
  <2>3. QED
    BY <2>2 DEF q, m
<1>4. x \div l \in Nat
  BY Z3
<1>5. QED
  BY <1>1, <1>2, <1>3, <1>4

LEMMA QuotientOnce ==
  ASSUME NEW l \in Nat, l > 0, NEW q \in Nat, NEW m \in 0 .. l - 1, NEW p \in Nat, NEW k \in 0 .. l - 1,
         q * l + m = p * l + k
  PROVE  q = p /\ m = k
<1>1. ~(q < p)
  <2> SUFFICES ASSUME q < p PROVE FALSE
    OBVIOUS
  <2>1. (q + 1) * l <= p * l
    BY Share
  <2>2. (q + 1) * l = q * l + l
    OBVIOUS
  <2>3. q * l \in Int /\ p * l \in Int
    OBVIOUS
  <2>4. QED
    BY <2>1, <2>2, <2>3
<1>2. ~(p < q)
  <2> SUFFICES ASSUME p < q PROVE FALSE
    OBVIOUS
  <2>1. (p + 1) * l <= q * l
    BY Share
  <2>2. (p + 1) * l = p * l + l
    OBVIOUS
  <2>3. q * l \in Int /\ p * l \in Int
    OBVIOUS
  <2>4. QED
    BY <2>1, <2>2, <2>3
<1>3. q = p
  BY <1>1, <1>2
<1>4. q * l \in Int /\ p * l = q * l
  BY <1>3
<1>5. QED
  BY <1>3, <1>4

LEMMA QuotientBound ==
  ASSUME NEW l \in Nat, NEW n \in Nat, NEW x \in Nat, x < n * l
  PROVE  l > 0 /\ x \div l < n
<1>1. l > 0
  <2> SUFFICES ASSUME l = 0 PROVE FALSE
    OBVIOUS
  <2>1. n * l = 0
    OBVIOUS
  <2>2. QED
    BY <2>1
<1>2. /\ x \div l \in Nat /\ x % l \in 0 .. l - 1
      /\ x = (x \div l) * l + (x % l)
  BY <1>1, Quotient
<1>3. ~(n <= x \div l)
  <2> DEFINE q == x \div l
  <2> SUFFICES ASSUME n <= q PROVE FALSE
    OBVIOUS
  <2>0. q \in Nat
    BY <1>2
  <2> HIDE DEF q
  <2>1. n * l <= q * l
    BY <2>0, Share
  <2> DEFINE nl == n * l  ql == q * l  m == x % l
  <2>2. ql \in Int /\ nl \in Int /\ m \in Int
    BY <2>0, <1>2
  <2>3. x = ql + m /\ m >= 0
    BY <1>2 DEF q
  <2>4. nl <= ql /\ x < nl
    BY <2>1
  <2> HIDE DEF nl, ql, m
  <2>5. QED
    BY <2>2, <2>3, <2>4
<1>4. QED
  BY <1>1, <1>2, <1>3

-----------------------------------------------------------------------------
(* The scripts *)

Slot == ((at - 1) % Len(D!Files)) + 1
Place(r, i) == Len(D!Files) * (r - 1) + i

(* The loops come to every script and file once.                               *)
LEMMA PairAt ==
  ASSUME FilesKnown, at \in Nat, at > 0, ~D!AllTried
  PROVE  /\ D!Numbers = 1 .. Len(Scripts) /\ D!ScriptAt \in D!Numbers
         /\ Slot \in 1 .. Len(D!Files) /\ D!FileAt = D!Files[Slot] /\ D!FileAt \in FileAccounts
         /\ \A r \in D!Numbers, i \in 1 .. Len(D!Files) : Place(r, i) = at => r = D!ScriptAt /\ i = Slot
         /\ \A r \in D!Numbers : r < D!ScriptAt => Place(r, Slot) < at
<1> DEFINE l == Len(D!Files)
           n == Len(Scripts)
           x == at - 1
           q == x \div l
           m == x % l
<1>1. /\ l \in Nat /\ n \in Nat /\ x \in Nat /\ D!Numbers = 1 .. n
      /\ \A i \in 1 .. l : D!Files[i] \in FileAccounts
  BY FilesListed, LenProperties DEF FilesKnown, D!Numbers
<1>2. x < n * l
  BY <1>1 DEF D!AllTried
<1>3. l > 0 /\ q < n
  BY <1>1, <1>2, QuotientBound
<1>4. q \in Nat /\ m \in 0 .. l - 1 /\ x = q * l + m
  BY <1>1, <1>3, Quotient
<1>5. D!ScriptAt = q + 1 /\ Slot = m + 1 /\ D!FileAt = D!Files[Slot]
  BY DEF D!ScriptAt, Slot, D!FileAt
<1> HIDE DEF q, m, l, n
<1>6. ASSUME NEW r \in D!Numbers, NEW i \in 1 .. l, l * (r - 1) + i = at
      PROVE  r = q + 1 /\ i = m + 1
  <2>1. r - 1 \in Nat /\ i - 1 \in 0 .. l - 1
    BY <1>1, <1>6
  <2> DEFINE p == r - 1  k == i - 1
  <2>2. p * l + k = q * l + m
    <3>1. l * p + i = at /\ i = k + 1
      BY <1>1, <1>6
    <3>2. l * p = p * l /\ l * p \in Int
      BY <1>1, <2>1
    <3> DEFINE pl == p * l  ql == q * l
    <3>3. pl \in Int /\ ql \in Int /\ pl + i = at /\ at - 1 = ql + m
      BY <1>1, <1>4, <3>1, <3>2
    <3> HIDE DEF pl, ql
    <3>4. pl + k = ql + m
      BY <1>4, <2>1, <3>3
    <3>5. QED
      BY <3>4 DEF pl, ql
  <2>3. q = p /\ m = k
    BY <1>1, <1>3, <1>4, <2>1, <2>2, QuotientOnce
  <2>4. QED
    BY <1>1, <2>1, <2>3
<1>7. ASSUME NEW r \in D!Numbers, r < q + 1 PROVE l * (r - 1) + (m + 1) < at
  <2> DEFINE p == r - 1
  <2>1. p \in Nat /\ p + 1 <= q
    BY <1>1, <1>4, <1>7
  <2>2. (p + 1) * l <= q * l
    BY <1>1, <1>4, <2>1, Share
  <2> DEFINE pl == l * p  ql == q * l
  <2>3. (p + 1) * l = pl + l /\ pl \in Int /\ ql \in Int
    BY <1>1, <1>4, <2>1
  <2>4. pl + l <= ql /\ x = ql + m
    BY <1>4, <2>2, <2>3
  <2> HIDE DEF pl, ql
  <2>5. pl + (m + 1) < at
    BY <1>1, <1>3, <1>4, <2>3, <2>4
  <2>6. QED
    BY <2>5 DEF pl
<1>8. Slot \in 1 .. l /\ D!ScriptAt \in D!Numbers
  BY <1>1, <1>3, <1>4, <1>5
<1>9. QED
  BY <1>1, <1>5, <1>6, <1>7, <1>8 DEF Place, l, n

(* Every pair the loops have passed failed, in this start, or is logged.       *)
TriedIn(n, those, logged) ==
    \A r \in D!Numbers, i \in 1 .. Len(D!Files) :
        Place(r, i) < n => D!Files[i] \in those \/ r \in logged[D!Files[i]]

(* The first script of a file that is not logged does not run.                 *)
Stuck(f) ==
    \A s \in D!Numbers :
        s \notin log[f] /\ (\A r \in D!Numbers : r < s => r \in log[f]) => ~D!Runs(s, f)

Thresholds == {"none", "null", "tuned", "user"}

Migrated ==
    /\ applied \in [FileAccounts -> SUBSET D!Numbers] /\ log \in [FileAccounts -> SUBSET D!Numbers]
    /\ thresholds \in [FileAccounts -> Thresholds] /\ converted \in [FileAccounts -> BOOLEAN]
    /\ failed \subseteq FileAccounts /\ at \in Nat /\ D!PrefixLogged
    /\ pc \in {"migrate", "log"} => at > 0 /\ TriedIn(at, failed, log)
    /\ \A f \in failed : Stuck(f)
    /\ pc = "log" => /\ ~D!AllTried /\ D!FileAt \notin failed /\ D!ScriptAt \in applied[D!FileAt]
                     /\ thresholds[D!FileAt] # "user"
    /\ pc = "convert" => /\ at > 0 /\ \A f \in FileAccounts : Stuck(f)
                         /\ \A i \in 1 .. Len(D!Files) : i < at => ~D!Convertible(D!Files[i])
    /\ pc = "on" /\ marker => \A f \in FileAccounts : Stuck(f) /\ ~D!Convertible(f)
    /\ \A f \in FileAccounts : thresholds[f] = "user" => Stuck(f) /\ converted[f]

KeptUser == \A f \in FileAccounts : thresholds[f] = "user" => thresholds'[f] = "user"

LEMMA EarlierLogged ==
  ASSUME FilesKnown, at \in Nat, at > 0, ~D!AllTried, TriedIn(at, failed, log), D!FileAt \notin failed
  PROVE  \A r \in D!Numbers : r < D!ScriptAt => r \in log[D!FileAt]
  BY PairAt DEF TriedIn

LEMMA NextTried ==
  ASSUME FilesKnown, at \in Nat, at > 0, ~D!AllTried, TriedIn(at, failed, log),
         NEW those, failed \subseteq those,
         NEW logged, \A f \in FileAccounts : log[f] \subseteq logged[f],
         D!FileAt \in those \/ D!ScriptAt \in logged[D!FileAt]
  PROVE  TriedIn(at + 1, those, logged)
<1> SUFFICES ASSUME NEW r \in D!Numbers, NEW i \in 1 .. Len(D!Files), Place(r, i) < at + 1
             PROVE  D!Files[i] \in those \/ r \in logged[D!Files[i]]
  BY DEF TriedIn
<1>1. Place(r, i) \in Int /\ D!Files[i] \in FileAccounts
  BY PairAt, FilesListed DEF Place
<1>2. CASE Place(r, i) < at
  BY <1>1, <1>2 DEF TriedIn
<1>3. CASE Place(r, i) = at
  BY <1>3, PairAt
<1>4. QED
  BY <1>1, <1>2, <1>3

LEMMA StuckKept ==
  ASSUME NEW f, tables' = tables, log'[f] = log[f], applied'[f] = applied[f], Stuck(f)
  PROVE  Stuck(f)'
  BY DEF Stuck, D!Runs

(* Steps that touch no account file and start no pass.                         *)
LEMMA MigratedKept ==
  ASSUME FilesKnown, Migrated, UNCHANGED <<D!accts, tables>>, failed' \subseteq failed, at' \in Nat,
         \/ pc' \in {"off", "copy", "fill", "mark"}
         \/ pc' = "on" /\ ~marker'
         \/ UNCHANGED <<pc, at, marker, failed>>
  PROVE  Migrated' /\ KeptUser
<1>1. UNCHANGED <<applied, log, thresholds, converted>>
  BY DEF D!accts
<1>2. \A f : Stuck(f) => Stuck(f)'
  BY <1>1, StuckKept
<1>3. \A f : D!Convertible(f)' <=> D!Convertible(f)
  BY <1>1 DEF D!Convertible
<1>4. D!PrefixLogged'
  BY <1>1 DEF Migrated, D!PrefixLogged
<1>5. UNCHANGED at => (D!AllTried' <=> D!AllTried) /\ D!FileAt' = D!FileAt /\ D!ScriptAt' = D!ScriptAt
  BY DEF D!AllTried, D!FileAt, D!ScriptAt, D!Files
<1>6. CASE pc' \in {"off", "copy", "fill", "mark"} \/ (pc' = "on" /\ ~marker')
  BY <1>1, <1>2, <1>4, <1>6 DEF Migrated, KeptUser
<1>7. CASE UNCHANGED <<pc, at, marker, failed>>
  <2>1. TriedIn(at', failed', log') <=> TriedIn(at, failed, log)
    BY <1>1, <1>7 DEF TriedIn, Place, D!Files, D!Numbers
  <2>2. D!Files' = D!Files
    BY DEF D!Files
  <2>3. QED
    BY <1>1, <1>2, <1>3, <1>4, <1>5, <1>7, <2>1, <2>2 DEF Migrated, KeptUser
<1>8. QED
  BY <1>6, <1>7

(* The files and what is in them but for the scripts stay in a pass.           *)
LEMMA ScriptSteps ==
  ASSUME FilesKnown, Migrated, D!SkipsScript \/ D!ScriptRuns \/ D!ScriptFails \/ D!Logs
  PROVE  Migrated' /\ KeptUser
<1>0. /\ at > 0 /\ TriedIn(at, failed, log) /\ ~D!AllTried /\ at \in Nat /\ at + 1 \in Nat /\ at + 1 > 0
      /\ UNCHANGED tables
  BY DEF Migrated, D!SkipsScript, D!Passes, D!ScriptRuns, D!ScriptFails, D!Logs, D!files
<1>1. D!ScriptAt \in D!Numbers /\ D!FileAt \in FileAccounts /\ \A r \in D!Numbers : r < D!ScriptAt => r \in Nat
  BY <1>0, PairAt
<1> DEFINE f == D!FileAt
           s == D!ScriptAt
<1>2. CASE D!SkipsScript
  <2>1. /\ pc = "migrate" /\ (f \in failed \/ s \in log[f])
        /\ pc' = "migrate" /\ at' = at + 1 /\ UNCHANGED <<failed, applied, log, thresholds, converted, marker>>
    BY <1>2 DEF D!SkipsScript, D!Passes, D!Go, D!files, D!accts
  <2>2. TriedIn(at + 1, failed, log)
    BY <1>0, <2>1, NextTried
  <2>3. TriedIn(at', failed', log')
    BY <2>1, <2>2 DEF TriedIn, Place, D!Files, D!Numbers
  <2>4. \A g : Stuck(g) => Stuck(g)'
    BY <1>0, <2>1, StuckKept
  <2>5. QED
    BY <1>0, <2>1, <2>3, <2>4 DEF Migrated, KeptUser, D!PrefixLogged
<1>3. CASE D!ScriptRuns
  <2>1. /\ pc = "migrate" /\ f \notin failed /\ s \notin log[f] /\ D!Runs(s, f)
        /\ applied' = [applied EXCEPT ![f] = applied[f] \cup {s}]
        /\ thresholds' = [thresholds EXCEPT ![f] = IF Scripts[s] = "rebuild" THEN "none" ELSE thresholds[f]]
        /\ pc' = "log" /\ at' = at /\ UNCHANGED <<failed, log, converted, marker>>
    BY <1>3 DEF D!ScriptRuns, D!Passes, D!Go, D!files, Migrated
  <2>2. ~Stuck(f)
    <3>1. \A r \in D!Numbers : r < s => r \in log[f]
      BY <1>0, <2>1, EarlierLogged
    <3>2. QED
      BY <1>1, <2>1, <3>1 DEF Stuck
  <2>3. /\ applied' \in [FileAccounts -> SUBSET D!Numbers] /\ s \in applied'[f] /\ applied[f] \subseteq applied'[f]
        /\ \A g \in FileAccounts : g # f => applied'[g] = applied[g]
    BY <1>1, <2>1 DEF Migrated
  <2>4. /\ thresholds' \in [FileAccounts -> Thresholds] /\ thresholds'[f] # "user"
        /\ \A g \in FileAccounts : g # f => thresholds'[g] = thresholds[g]
    <3>1. thresholds[f] # "user" /\ thresholds \in [FileAccounts -> Thresholds]
      BY <1>1, <2>2 DEF Migrated
    <3>2. QED
      BY <1>1, <2>1, <3>1 DEF Thresholds
  <2>5. \A g \in FileAccounts : Stuck(g) => g # f /\ Stuck(g)'
    BY <1>0, <2>1, <2>2, <2>3, StuckKept
  <2>6. D!FileAt' = f /\ D!ScriptAt' = s /\ ~D!AllTried'
    BY <1>0, <2>1 DEF D!FileAt, D!ScriptAt, D!AllTried, D!Files
  <2>7. TriedIn(at', failed', log')
    BY <1>0, <2>1 DEF TriedIn, Place, D!Files, D!Numbers
  <2>8. D!PrefixLogged'
    <3>1. \A g \in FileAccounts : log[g] \subseteq applied'[g]
      BY <1>1, <2>3 DEF Migrated, D!PrefixLogged
    <3>2. QED
      BY <2>1, <3>1 DEF Migrated, D!PrefixLogged
  <2>9. \A g \in FileAccounts : thresholds'[g] = "user" => Stuck(g)' /\ converted'[g]
    BY <2>1, <2>4, <2>5 DEF Migrated
  <2>10. \A g \in failed' : Stuck(g)'
    BY <2>1, <2>5 DEF Migrated
  <2>11. KeptUser
    BY <1>1, <2>2, <2>4 DEF Migrated, KeptUser
  <2> HIDE DEF f, s
  <2>12. Migrated'
    BY <1>0, <2>1, <2>3, <2>4, <2>6, <2>7, <2>8, <2>9, <2>10 DEF Migrated
  <2>13. QED
    BY <2>11, <2>12
<1>4. CASE D!ScriptFails
  <2>1. /\ pc = "migrate" /\ f \notin failed /\ s \notin log[f] /\ ~D!Runs(s, f)
        /\ failed' = failed \cup {f} /\ pc' = "migrate" /\ at' = at + 1
        /\ UNCHANGED <<applied, log, thresholds, converted, marker>>
    BY <1>4 DEF D!ScriptFails, D!Passes, D!Go, D!files, D!accts
  <2>2. Stuck(f)
    <3> SUFFICES ASSUME NEW t \in D!Numbers, t \notin log[f], \A r \in D!Numbers : r < t => r \in log[f]
                 PROVE  ~D!Runs(t, f)
      BY DEF Stuck
    <3>1. \A r \in D!Numbers : r < s => r \in log[f]
      BY <1>0, <2>1, EarlierLogged
    <3>2. t \in Int /\ s \in Int
      BY <1>0, <1>1, PairAt
    <3>3. t = s
      BY <1>1, <2>1, <3>1, <3>2
    <3>4. QED
      BY <2>1, <3>3
  <2>3. TriedIn(at + 1, failed', log)
    BY <1>0, <2>1, NextTried
  <2>4. TriedIn(at', failed', log')
    BY <2>1, <2>3 DEF TriedIn, Place, D!Files, D!Numbers
  <2>5. \A g : Stuck(g) => Stuck(g)'
    BY <1>0, <2>1, StuckKept
  <2>6. \A g \in failed' : Stuck(g)'
    BY <2>1, <2>2, <2>5 DEF Migrated
  <2>7. failed' \subseteq FileAccounts
    BY <1>1, <2>1 DEF Migrated
  <2>8. QED
    BY <1>0, <2>1, <2>4, <2>5, <2>6, <2>7 DEF Migrated, KeptUser, D!PrefixLogged
<1>5. CASE D!Logs
  <2>1. /\ pc = "log" /\ log' = [log EXCEPT ![f] = log[f] \cup {s}]
        /\ pc' = "migrate" /\ at' = at + 1 /\ UNCHANGED <<failed, applied, thresholds, converted, marker>>
        /\ f \notin failed /\ s \in applied[f] /\ thresholds[f] # "user"
    BY <1>5 DEF D!Logs, D!Go, D!files, Migrated
  <2>2. /\ log' \in [FileAccounts -> SUBSET D!Numbers] /\ log'[f] = log[f] \cup {s}
        /\ \A g \in FileAccounts : g # f => log'[g] = log[g]
    BY <1>1, <2>1 DEF Migrated
  <2>3. TriedIn(at + 1, failed, log')
    <3>1. \A g \in FileAccounts : log[g] \subseteq log'[g]
      BY <2>2
    <3>2. s \in log'[f]
      BY <2>2
    <3>3. QED
      BY <1>0, <3>1, <3>2, NextTried
  <2>4. TriedIn(at', failed', log')
    BY <2>1, <2>3 DEF TriedIn, Place, D!Files, D!Numbers
  <2>5. D!PrefixLogged'
    <3> SUFFICES ASSUME NEW g \in FileAccounts
                 PROVE  /\ \A t \in log'[g] : 1 .. t \subseteq log'[g]
                        /\ log'[g] \subseteq applied[g]
      BY <2>1 DEF D!PrefixLogged
    <3>1. CASE g # f
      BY <2>2, <3>1 DEF Migrated, D!PrefixLogged
    <3>2. CASE g = f
      <4>1. \A r \in D!Numbers : r < s => r \in log[f]
        BY <1>0, <2>1, EarlierLogged
      <4>2. 1 .. s \subseteq log'[f]
        BY <1>0, <1>1, <2>2, <4>1, PairAt, LenProperties DEF FilesKnown
      <4>3. \A t \in log[f] : 1 .. t \subseteq log'[f]
        BY <1>1, <2>2 DEF Migrated, D!PrefixLogged
      <4>4. log'[f] \subseteq applied[f]
        BY <1>1, <2>1, <2>2 DEF Migrated, D!PrefixLogged
      <4>5. QED
        BY <2>2, <3>2, <4>2, <4>3, <4>4
    <3>3. QED
      BY <3>1, <3>2
  <2>6. \A g \in FileAccounts : Stuck(g) /\ g # f => Stuck(g)'
    BY <1>0, <2>1, <2>2, StuckKept
  <2>7. \A g \in FileAccounts : thresholds'[g] = "user" => Stuck(g)' /\ converted'[g]
    BY <2>1, <2>6 DEF Migrated
  <2>8. \A g \in failed' : Stuck(g)'
    BY <2>1, <2>6 DEF Migrated
  <2> HIDE DEF f, s
  <2>9. QED
    BY <1>0, <2>1, <2>2, <2>4, <2>5, <2>7, <2>8 DEF Migrated, KeptUser
<1>6. QED
  BY <1>2, <1>3, <1>4, <1>5

(* After a whole pass no file has a script left that runs.                     *)
LEMMA PassEnds ==
  ASSUME FilesKnown, Migrated, D!MigrationsEnd
  PROVE  Migrated' /\ KeptUser
<1>1. /\ at > 0 /\ TriedIn(at, failed, log) /\ D!AllTried /\ pc' = "convert" /\ at' = 1
      /\ UNCHANGED <<applied, log, thresholds, converted, failed, tables, marker>>
  BY DEF D!MigrationsEnd, Migrated, D!Go, D!files, D!accts
<1>2. ASSUME NEW f \in FileAccounts PROVE Stuck(f)
  <2>1. CASE f \in failed
    BY <2>1 DEF Migrated
  <2>2. CASE f \notin failed
    <3>1. PICK i \in 1 .. Len(D!Files) : D!Files[i] = f
      BY FilesListed
    <3>2. ASSUME NEW r \in D!Numbers PROVE r \in log[f]
      <4> DEFINE l == Len(D!Files)
                 n == Len(Scripts)
      <4>1. l \in Nat /\ n \in Nat /\ r \in 1 .. n /\ at > n * l /\ at \in Nat
        BY <1>1, FilesListed, LenProperties DEF D!AllTried, D!Numbers, FilesKnown, Migrated
      <4>2. l * (r - 1) + i <= n * l
        <5> DEFINE p == r - 1
        <5>1. p \in Nat /\ p + 1 <= n
          BY <4>1
        <5>2. (p + 1) * l <= n * l
          BY <4>1, <5>1, Share
        <5> DEFINE pl == l * p  nl == n * l
        <5>3. (p + 1) * l = pl + l /\ pl \in Int /\ nl \in Int /\ l \in Int /\ i <= l /\ i \in Int
          BY <3>1, <4>1, <5>1
        <5>4. pl + l <= nl
          BY <5>2, <5>3
        <5> HIDE DEF pl, nl, l
        <5>5. pl + i <= nl
          BY <5>3, <5>4
        <5>6. QED
          BY <5>5 DEF pl, nl
      <4> DEFINE nl == n * l  place == l * (r - 1) + i
      <4>3. place <= nl /\ nl < at /\ nl \in Int /\ place \in Int
        BY <4>1, <4>2
      <4> HIDE DEF nl, place
      <4>4. place < at
        BY <4>1, <4>3
      <4>5. Place(r, i) < at
        BY <4>4 DEF place, Place
      <4>6. QED
        BY <1>1, <2>2, <3>1, <4>5 DEF TriedIn
    <3>3. QED
      BY <3>2 DEF Stuck
  <2>3. QED
    BY <2>1, <2>2
<1>3. \A f \in FileAccounts : Stuck(f)'
  BY <1>1, <1>2, StuckKept
<1>4. \A i \in 1 .. Len(D!Files') : ~(i < 1)
  BY FilesListed DEF D!Files
<1>5. QED
  BY <1>1, <1>3, <1>4 DEF Migrated, KeptUser, D!PrefixLogged

LEMMA ConversionSteps ==
  ASSUME FilesKnown, Migrated, D!Converts \/ D!Serves \/ \E f \in FileAccounts : D!UserSets(f)
  PROVE  Migrated' /\ KeptUser
<1>1. CASE D!Converts
  <2> DEFINE f == D!Files[at]
  <2>1. /\ pc = "convert" /\ at \in 1 .. Len(D!Files) /\ f \in FileAccounts /\ pc' = "convert" /\ at' = at + 1
        /\ at' \in Nat /\ at' > 0
        /\ UNCHANGED <<applied, log, failed, tables, marker>>
    BY <1>1, FilesListed DEF D!Converts, D!Go, D!files
  <2>2. \/ /\ D!Convertible(f) /\ converted' = [converted EXCEPT ![f] = TRUE]
           /\ thresholds' = [thresholds EXCEPT ![f] = IF legacy.rows["params"] > 0 THEN "tuned" ELSE "null"]
        \/ ~D!Convertible(f) /\ UNCHANGED <<thresholds, converted>>
    BY <1>1 DEF D!Converts
  <2> HIDE DEF f
  <2>3. /\ thresholds' \in [FileAccounts -> Thresholds] /\ converted' \in [FileAccounts -> BOOLEAN]
        /\ \A g \in FileAccounts : g # f => thresholds'[g] = thresholds[g] /\ converted'[g] = converted[g]
        /\ D!Convertible(f) => converted'[f] /\ thresholds'[f] # "user"
        /\ ~D!Convertible(f) => thresholds'[f] = thresholds[f] /\ converted'[f] = converted[f]
    BY <2>1, <2>2 DEF Migrated, Thresholds
  <2>4. \A g \in FileAccounts : g = f \/ ~D!Convertible(g) => ~D!Convertible(g)'
    BY <2>1, <2>3 DEF D!Convertible
  <2>5. \A g : Stuck(g) => Stuck(g)'
    BY <2>1, StuckKept
  <2>6. \A g \in FileAccounts : thresholds[g] = "user" => thresholds'[g] = "user" /\ converted'[g]
    BY <2>1, <2>3 DEF Migrated, D!Convertible
  <2>7. \A g \in FileAccounts : thresholds'[g] = "user" => Stuck(g)' /\ converted'[g]
    BY <2>1, <2>3, <2>5, <2>6 DEF Migrated
  <2>8. D!Files' = D!Files
    BY DEF D!Files
  <2>9. \A i \in 1 .. Len(D!Files) : i < at + 1 => ~D!Convertible(D!Files[i])'
    <3> SUFFICES ASSUME NEW i \in 1 .. Len(D!Files), i < at + 1 PROVE ~D!Convertible(D!Files[i])'
      OBVIOUS
    <3>1. CASE i = at
      <4>1. ASSUME NEW g \in FileAccounts, g = f PROVE ~D!Convertible(g)'
        BY <2>4, <4>1
      <4>2. D!Files'[i] = f
        BY <2>8, <3>1 DEF f
      <4>3. QED
        BY <2>1, <4>1, <4>2
    <3>2. CASE i < at
      <4>1. ~D!Convertible(D!Files[i]) /\ D!Files[i] \in FileAccounts
        BY <2>1, <3>2, FilesListed DEF Migrated
      <4>2. ASSUME NEW g \in FileAccounts, ~D!Convertible(g) PROVE ~D!Convertible(g)'
        BY <2>4, <4>2
      <4>3. QED
        BY <2>8, <4>1, <4>2
    <3>3. QED
      BY <2>1, <3>1, <3>2, FilesListed
  <2>10. QED
    BY <2>1, <2>3, <2>5, <2>6, <2>7, <2>8, <2>9 DEF Migrated, KeptUser, D!PrefixLogged
<1>2. CASE D!Serves
  <2>1. /\ pc = "convert" /\ at \notin 1 .. Len(D!Files) /\ pc' = "on" /\ at' = 0 /\ failed' = {}
        /\ UNCHANGED <<applied, log, thresholds, converted, tables, marker>>
    BY <1>2, FilesListed DEF D!Serves, D!Go, D!files, D!accts
  <2>2. ASSUME NEW f \in FileAccounts PROVE ~D!Convertible(f)
    <3>1. PICK i \in 1 .. Len(D!Files) : D!Files[i] = f
      BY FilesListed
    <3>2. i < at
      BY <2>1, FilesListed DEF Migrated
    <3>3. QED
      BY <2>1, <3>1, <3>2 DEF Migrated
  <2>3. \A f : Stuck(f) => Stuck(f)'
    BY <2>1, StuckKept
  <2>4. \A f \in FileAccounts : ~D!Convertible(f)'
    BY <2>1, <2>2 DEF D!Convertible
  <2>5. QED
    BY <2>1, <2>3, <2>4 DEF Migrated, KeptUser, D!PrefixLogged
<1>3. CASE \E f \in FileAccounts : D!UserSets(f)
  <2>1. PICK f \in FileAccounts : D!UserSets(f)
    BY <1>3
  <2>2. /\ pc = "on" /\ marker /\ tables[f] /\ \E s \in applied[f] : Scripts[s] = "rebuild"
        /\ thresholds' = [thresholds EXCEPT ![f] = "user"]
        /\ UNCHANGED <<applied, log, converted, pc, at, failed, tables, marker>>
    BY <2>1 DEF D!UserSets, D!files
  <2>3. converted[f] /\ Stuck(f)
    BY <2>2 DEF Migrated, D!Convertible
  <2>4. /\ thresholds' \in [FileAccounts -> Thresholds] /\ thresholds'[f] = "user"
        /\ \A g \in FileAccounts : g # f => thresholds'[g] = thresholds[g]
    BY <2>2 DEF Migrated, Thresholds
  <2>5. \A g : Stuck(g) => Stuck(g)'
    BY <2>2, StuckKept
  <2>6. \A g : D!Convertible(g)' <=> D!Convertible(g)
    BY <2>2 DEF D!Convertible
  <2>7. \A g \in FileAccounts : thresholds'[g] = "user" => Stuck(g)' /\ converted'[g]
    BY <2>2, <2>3, <2>4, <2>5 DEF Migrated
  <2>8. QED
    BY <2>2, <2>4, <2>5, <2>6, <2>7 DEF Migrated, KeptUser, D!PrefixLogged
<1>4. QED
  BY <1>1, <1>2, <1>3

LEMMA MigratedStep == FilesKnown /\ Migrated /\ [D!Next]_(D!vars) => Migrated' /\ KeptUser
<1> SUFFICES ASSUME FilesKnown, Migrated, [D!Next]_(D!vars) PROVE Migrated' /\ KeptUser
  OBVIOUS
<1>0. at \in Nat /\ 0 \in Nat /\ 1 \in Nat /\ at + 1 \in Nat
  BY DEF Migrated
<1>1. CASE D!Crash \/ D!SplitStarts \/ D!Opens \/ D!Fills \/ D!Renames \/ D!Marks \/ D!Stops
            \/ (\E i \in D!Items : D!Writes(i)) \/ UNCHANGED D!vars
  <2>1. /\ UNCHANGED <<D!accts, tables>> /\ failed' \subseteq failed /\ at' \in Nat
        /\ \/ pc' \in {"off", "copy", "fill", "mark"}
           \/ UNCHANGED <<pc, at, marker, failed>>
    BY <1>0, <1>1 DEF D!Crash, D!SplitStarts, D!Opens, D!Fills, D!Renames, D!Marks, D!Stops, D!Writes, D!Go, D!files, D!vars
  <2>2. QED
    BY <2>1, MigratedKept
<1>2. CASE D!EngineStarts
  <2>1. UNCHANGED <<D!accts, tables, marker, failed>> /\ at' \in Nat
    BY <1>0, <1>2 DEF D!EngineStarts, D!Go
  <2>2. CASE ~marker
    BY <1>2, <2>1, <2>2, MigratedKept DEF D!EngineStarts, D!Go
  <2>3. CASE marker
    <3>1. pc' = "migrate" /\ at' = 1 /\ UNCHANGED <<applied, log, thresholds, converted>>
      BY <1>2, <2>1, <2>3 DEF D!EngineStarts, D!Go, D!accts
    <3>2. \A r \in D!Numbers, i \in 1 .. Len(D!Files) : ~(Place(r, i) < 1)
      <4> SUFFICES ASSUME NEW r \in D!Numbers, NEW i \in 1 .. Len(D!Files) PROVE ~(Place(r, i) < 1)
        OBVIOUS
      <4>1. r - 1 \in Nat /\ Len(D!Files) \in Nat
        BY FilesListed, LenProperties DEF D!Numbers, FilesKnown
      <4>2. Len(D!Files) * (r - 1) \in Nat
        BY <4>1
      <4>3. QED
        BY <4>2 DEF Place
    <3>3. TriedIn(1, failed, log)
      BY <3>2 DEF TriedIn
    <3>4. TriedIn(at', failed', log')
      BY <2>1, <3>1, <3>3 DEF TriedIn, Place, D!Files, D!Numbers
    <3>5. \A f : Stuck(f) => Stuck(f)'
      BY <2>1, <3>1, StuckKept
    <3>6. QED
      BY <2>1, <3>1, <3>4, <3>5 DEF Migrated, KeptUser, D!PrefixLogged
  <2>4. QED
    BY <2>2, <2>3
<1>3. CASE D!SkipsScript \/ D!ScriptRuns \/ D!ScriptFails \/ D!Logs
  BY <1>3, ScriptSteps
<1>4. CASE D!MigrationsEnd
  BY <1>4, PassEnds
<1>5. CASE D!Converts \/ D!Serves \/ \E f \in FileAccounts : D!UserSets(f)
  BY <1>5, ConversionSteps
<1>6. QED
  BY <1>1, <1>2, <1>3, <1>4, <1>5 DEF D!Next

LEMMA MigratedInit == FilesKnown /\ D!Init => Migrated
  BY DEF D!Init, Migrated, D!PrefixLogged, Thresholds

(* On each account file the migrations succeed in their order; no migration    *)
(* and no conversion replaces what the user has set.                           *)
LEMMA ScriptsInOrder == ASSUME FilesKnown PROVE D!Spec => []D!PrefixLogged /\ D!UserKept
<1>1. Migrated => D!PrefixLogged
  BY DEF Migrated
<1>2. KeptUser => [\A f \in FileAccounts : thresholds[f] = "user" => thresholds'[f] = "user"]_(D!vars)
  BY DEF KeptUser
<1>3. QED
  BY <1>1, <1>2, MigratedInit, MigratedStep, PTL DEF D!Spec, D!UserKept

(* Whatever dies between two writes.                                           *)
THEOREM FilesStayWhole ==
  ASSUME FilesKnown
  PROVE  D!Spec => [](D!NothingLost /\ D!MarkerComplete /\ D!PrefixLogged) /\ D!UserKept
  BY RowsStay, ScriptsInOrder, PTL

-----------------------------------------------------------------------------
(* Back-test sessions (Backtest).  Placed orders the positions of a symbol; *)
(* Funded says that what the stop of the only open position loses is in the *)
(* equity, and that those who are alone now were so before.                 *)

(* This module's copy of Cardinality, too, is that of the library.             *)
LEMMA CardinalityOfTest == ASSUME NEW S PROVE T!Cardinality(S) = Cardinality(S)
  BY DEF T!Cardinality, Cardinality

(* Symbols are numbered; what a position risks is a share of the equity, and   *)
(* with its fee still less than all of it.                                     *)
TestKnown ==
    /\ T!Cardinality(Symbols) \in Nat \ {0} /\ Symbols = 1 .. T!Cardinality(Symbols)
    /\ Bars \in Nat /\ Initial \in Nat \ {0} /\ Reward \in Nat /\ Sizes \subseteq Nat
    /\ RiskDen \in Nat \ {0} /\ FeeDen \in Nat \ {0}
    /\ \A k \in Sizes : FeeDen + k < RiskDen * FeeDen

LEMMA RiskLeaves ==
  ASSUME NEW e \in Nat, NEW l \in Nat, NEW k \in Nat, NEW R \in Nat, NEW F \in Nat,
         R > 0, F > 0, F + k < R * F, l > 0, l <= e \div R
  PROVE  /\ (k * l) \div F \in Nat
         /\ l + ((k * l) \div F) < e
<1> DEFINE q == (k * l) \div F
           A == F + k
           B == R * F
<1>0. k * l \in Nat
  OBVIOUS
<1>1. q \in Nat /\ k * l = q * F + ((k * l) % F) /\ (k * l) % F \in Nat
  BY <1>0, Quotient
<1>2. A \in Nat /\ B \in Nat /\ A + 1 <= B
  OBVIOUS
<1>3. (A + 1) * l <= B * l
  BY <1>2, Share
<1>4. (e \div R) * R <= e
  <2> DEFINE d == e \div R
             m == e % R
             dR == d * R
  <2>1. d \in Nat /\ m \in 0 .. R - 1 /\ e = dR + m
    BY Quotient
  <2>2. dR \in Int
    BY <2>1
  <2> HIDE DEF dR, m
  <2>3. dR <= e
    BY <2>1, <2>2
  <2>4. QED
    BY <2>3 DEF dR
<1>5. l * R <= (e \div R) * R
  <2>1. e \div R \in Int
    OBVIOUS
  <2>2. QED
    BY <2>1, Share
<1>6. l * R <= e
  <2> DEFINE a == l * R
             b == (e \div R) * R
  <2>1. a \in Int /\ b \in Int /\ a <= b /\ b <= e
    BY <1>4, <1>5
  <2> HIDE DEF a, b
  <2>2. a <= e
    BY <2>1
  <2>3. QED
    BY <2>2 DEF a
<1> HIDE DEF q
<1>7. ASSUME e <= l + q PROVE FALSE
  <2>1. l * R <= l + q /\ l * R \in Int
    BY <1>1, <1>6, <1>7
  <2>2. (l * R) * F <= (l + q) * F
    BY <1>1, <2>1, Share
  <2>3. (l + q) * F = l * F + q * F /\ (l * R) * F = B * l /\ A * l = l * F + k * l
        /\ (A + 1) * l = A * l + l
    BY <1>1, <1>2
  <2> DEFINE bl == B * l  al == A * l  lf == l * F  qf == q * F  kl == k * l  m == (k * l) % F
  <2>4. bl \in Int /\ al \in Int /\ lf \in Int /\ qf \in Int /\ kl \in Int /\ m \in Nat
    BY <1>1, <1>2
  <2>5. /\ bl <= lf + qf /\ al = lf + kl /\ al + l <= bl /\ kl = qf + m
    BY <1>1, <1>3, <2>2, <2>3
  <2> HIDE DEF bl, al, lf, qf, kl, m, A, B
  <2>6. QED
    BY <2>4, <2>5
<1>8. QED
  BY <1>1, <1>7 DEF q

Places == [size : Nat, loss : Nat, since : Nat]
Trades == [symbol : Symbols, entry : Nat, exit : Nat, reason : {"sl", "tp", "end_of_data"}]
Books == [open : [Symbols -> Places], equity : Int, trades : SUBSET Trades]

(* Where positions lie among the events: one that is open was opened before    *)
(* the next event and after its symbol's trades, which follow each other.      *)
Placed(b, e) ==
    /\ \A s \in Symbols : b.open[s] # T!Flat =>
          /\ b.open[s].since < e
          /\ \A t \in b.trades : t.symbol = s => t.exit <= b.open[s].since
    /\ \A t \in b.trades :
          /\ t.entry < t.exit /\ t.exit <= e
          /\ \A u \in b.trades : t.symbol = u.symbol /\ t # u => t.exit <= u.entry \/ u.exit <= t.entry

(* What Lives and Alone say of a book at an event.                             *)
LivesOf(b, e) ==
    {<<t.symbol, t.entry, t.exit>> : t \in b.trades}
      \cup {<<s, b.open[s].since, e>> : s \in {o \in Symbols : b.open[o] # T!Flat}}
AloneIn(lives) == \A x, y \in lives : x # y => x[3] <= y[2] \/ y[3] <= x[2]

(* What the stop of an open position loses, with its fee, leaves something.    *)
Funded(b, e) ==
    AloneIn(LivesOf(b, e)) =>
        /\ b.equity > 0
        /\ \A s \in Symbols : b.open[s] # T!Flat =>
              b.open[s].loss + (b.open[s].size \div FeeDen) < b.equity

LEMMA OfferIs ==
  ASSUME TestKnown, NEW b \in Books, event \in Nat, NEW s \in Symbols, NEW chosen \in T!Offers(b, s)
  PROVE  /\ chosen \in Places /\ chosen.since = event /\ b.open[s] = T!Flat
         /\ b.equity > 0 /\ chosen.loss + (chosen.size \div FeeDen) < b.equity
<1>1. PICK k \in Sizes, l \in {1, T!Risk(b)} : chosen = [size |-> k * l, loss |-> l, since |-> event]
  BY DEF T!Offers
<1>2. b.open[s] = T!Flat /\ b.equity > 0 /\ b.equity \in Nat /\ l \in 1 .. (b.equity \div RiskDen)
  BY <1>1 DEF T!Offers, T!Risk, Books
<1>3. k \in Nat /\ RiskDen \in Nat \ {0} /\ FeeDen \in Nat \ {0} /\ FeeDen + k < RiskDen * FeeDen
  BY <1>1 DEF TestKnown
<1>4. l \in Nat /\ l > 0 /\ l <= b.equity \div RiskDen
  <2>1. b.equity \div RiskDen \in Int
    BY <1>2, <1>3, Quotient
  <2>2. QED
    BY <1>2, <2>1
<1>5. l + ((k * l) \div FeeDen) < b.equity
  BY <1>2, <1>3, <1>4, RiskLeaves
<1>6. k * l \in Nat
  BY <1>3, <1>4
<1>7. QED
  BY <1>1, <1>2, <1>4, <1>5, <1>6 DEF Places

-----------------------------------------------------------------------------
(* Closing and opening keep the order of positions.                          *)

Closes(b, c, s, reason, gross) ==
    /\ c \in Books
    /\ c.open[s] = T!Flat /\ \A o \in Symbols : o # s => c.open[o] = b.open[o]
    /\ c.trades = b.trades \cup {[symbol |-> s, entry |-> b.open[s].since,
                                   exit |-> event, reason |-> reason]}
    /\ c.equity = b.equity + (gross - (b.open[s].size \div FeeDen))
    /\ b.open[s].size \div FeeDen \in Nat

With(b, s, chosen) == [b EXCEPT !.open[s] = chosen]
Takes(b, c, s, chosen) ==
    /\ c \in Books /\ c.equity = b.equity /\ c.trades = b.trades
    /\ c.open[s] = chosen /\ \A o \in Symbols : o # s => c.open[o] = b.open[o]

LEMMA ClosedIs ==
  ASSUME TestKnown, event \in Nat, NEW b \in Books, NEW s \in Symbols, NEW reason \in {"sl", "tp", "end_of_data"},
         NEW gross \in Int
  PROVE  Closes(b, T!Closed(b, s, reason, gross), s, reason, gross)
<1> DEFINE c == T!Closed(b, s, reason, gross)
           fee == b.open[s].size \div FeeDen
           gone == [b.open EXCEPT ![s] = T!Flat]
           more == [symbol |-> s, entry |-> b.open[s].since, exit |-> event, reason |-> reason]
<1>1. b.open \in [Symbols -> Places] /\ b.open[s] \in Places /\ b.equity \in Int /\ b.trades \subseteq Trades
  BY DEF Books
<1>2. fee \in Nat
  <2>1. b.open[s].size \in Nat /\ FeeDen \in Nat /\ FeeDen > 0
    BY <1>1 DEF Places, TestKnown
  <2>2. QED
    BY <2>1, Quotient
<1>3. T!Flat \in Places
  BY DEF T!Flat, Places
<1>4. /\ gone \in [Symbols -> Places] /\ gone[s] = T!Flat
      /\ \A o \in Symbols : o # s => gone[o] = b.open[o]
  BY <1>1, <1>3
<1>5. more \in Trades
  BY <1>1 DEF Trades, Places
<1> HIDE DEF fee, gone, more
<1>6. c = [open |-> gone, equity |-> b.equity + (gross - fee), trades |-> b.trades \cup {more}]
  BY DEF T!Closed, fee, gone, more
<1>7. c \in Books
  <2>1. b.equity + (gross - fee) \in Int
    BY <1>1, <1>2
  <2>2. b.trades \cup {more} \in SUBSET Trades
    BY <1>1, <1>5
  <2>3. QED
    BY <1>4, <1>6, <2>1, <2>2 DEF Books
<1> HIDE DEF c
<1>8. QED
  BY <1>2, <1>4, <1>6, <1>7 DEF c, fee, more, Closes

LEMMA ClosedPlaced ==
  ASSUME TestKnown, event \in Nat, NEW b \in Books, NEW s \in Symbols, NEW reason \in {"sl", "tp", "end_of_data"},
         NEW c, NEW gross, Placed(b, event), b.open[s] # T!Flat, Closes(b, c, s, reason, gross)
  PROVE  Placed(c, event)
<1> DEFINE n == [symbol |-> s, entry |-> b.open[s].since, exit |-> event, reason |-> reason]
<1>1. n.symbol = s /\ n.entry = b.open[s].since /\ n.exit = event
  OBVIOUS
<1>2. b.open[s].since \in Nat /\ b.open[s].since < event
  BY DEF Books, Places, Placed
<1>3. \A t \in b.trades : t.symbol = s => t.exit <= n.entry
  BY <1>1 DEF Placed
<1>4. /\ \A t \in c.trades : t \in b.trades \/ t = n
      /\ c.open[s] = T!Flat /\ \A o \in Symbols : o # s => c.open[o] = b.open[o]
  BY DEF Closes
<1> HIDE DEF n
<1>5. ASSUME NEW o \in Symbols, c.open[o] # T!Flat
      PROVE  /\ c.open[o].since < event
             /\ \A t \in c.trades : t.symbol = o => t.exit <= c.open[o].since
  <2>1. o # s /\ c.open[o] = b.open[o]
    BY <1>4, <1>5
  <2>2. QED
    BY <1>1, <1>4, <1>5, <2>1 DEF Placed
<1>6. ASSUME NEW t \in c.trades
      PROVE  /\ t.entry < t.exit /\ t.exit <= event
             /\ \A u \in c.trades : t.symbol = u.symbol /\ t # u => t.exit <= u.entry \/ u.exit <= t.entry
  <2>1. t.entry < t.exit /\ t.exit <= event
    BY <1>1, <1>2, <1>4 DEF Placed
  <2>2. ASSUME NEW u \in c.trades, t.symbol = u.symbol, t # u
        PROVE  t.exit <= u.entry \/ u.exit <= t.entry
    <3>1. CASE t = n
      BY <1>1, <1>3, <1>4, <2>2, <3>1
    <3>2. CASE u = n
      BY <1>1, <1>3, <1>4, <2>2, <3>2
    <3>3. CASE t # n /\ u # n
      BY <1>4, <2>2, <3>3 DEF Placed
    <3>4. QED
      BY <3>1, <3>2, <3>3
  <2>3. QED
    BY <2>1, <2>2
<1>7. QED
  BY <1>5, <1>6 DEF Placed

LEMMA LaterPlaced ==
  ASSUME NEW b \in Books, NEW e \in Nat, Placed(b, e)
  PROVE  Placed(b, e + 1)
<1>1. \A s \in Symbols : b.open[s].since \in Nat
  BY DEF Books, Places
<1>2. \A t \in b.trades : t.exit \in Nat
  BY DEF Books, Trades
<1>3. QED
  BY <1>1, <1>2 DEF Placed

LEMMA OpenedIs ==
  ASSUME TestKnown, event \in Nat, NEW b \in Books, NEW s \in Symbols, NEW chosen \in T!Offers(b, s)
  PROVE  Takes(b, With(b, s, chosen), s, chosen)
<1>1. chosen \in Places
  BY OfferIs
<1>2. QED
  BY <1>1 DEF Books, Takes, With

LEMMA OpenedPlaced ==
  ASSUME TestKnown, event \in Nat, NEW b \in Books, NEW s \in Symbols, NEW chosen \in T!Offers(b, s),
         Placed(b, event)
  PROVE  Placed(With(b, s, chosen), event + 1)
<1> DEFINE c == With(b, s, chosen)
<1>1. /\ c \in Books /\ c.trades = b.trades
      /\ c.open[s] = chosen /\ \A o \in Symbols : o # s => c.open[o] = b.open[o]
  BY OpenedIs DEF Takes
<1>2. chosen.since = event
  BY OfferIs
<1>3. Placed(b, event + 1)
  BY LaterPlaced
<1>4. \A t \in b.trades : t.exit <= event
  BY DEF Placed
<1> HIDE DEF c
<1>5. QED
  BY <1>1, <1>2, <1>3, <1>4 DEF Placed, c

-----------------------------------------------------------------------------
(* Lives.                                                                    *)

LEMMA LifeTyped ==
  ASSUME NEW b \in Books, NEW e \in Nat, NEW x \in LivesOf(b, e)
  PROVE  x[1] \in Symbols /\ x[2] \in Nat /\ x[3] \in Nat
<1>1. CASE \E t \in b.trades : x = <<t.symbol, t.entry, t.exit>>
  BY <1>1 DEF Books, Trades
<1>2. CASE \E s \in Symbols : x = <<s, b.open[s].since, e>>
  BY <1>2 DEF Books, Places
<1>3. QED
  BY <1>1, <1>2 DEF LivesOf

(* A life is known by its symbol and its start.                                *)
LEMMA StartsDiffer ==
  ASSUME NEW b \in Books, NEW e \in Nat, Placed(b, e), NEW x \in LivesOf(b, e), NEW y \in LivesOf(b, e),
         x[1] = y[1], x[2] = y[2]
  PROVE  x = y
<1>1. \A t \in b.trades : t.entry \in Nat /\ t.exit \in Nat /\ t.entry < t.exit
  BY DEF Books, Trades, Placed
<1>2. \A s \in Symbols : b.open[s].since \in Nat
  BY DEF Books, Places
<1>3. ASSUME NEW t \in b.trades, NEW s \in Symbols, b.open[s] # T!Flat, t.symbol = s, t.entry = b.open[s].since
      PROVE  FALSE
  BY <1>1, <1>2, <1>3 DEF Placed
<1>4. ASSUME NEW t \in b.trades, NEW u \in b.trades, t.symbol = u.symbol, t.entry = u.entry
      PROVE  t = u
  BY <1>1, <1>4 DEF Placed
<1>5. \/ \E t \in b.trades : x = <<t.symbol, t.entry, t.exit>>
      \/ \E s \in Symbols : b.open[s] # T!Flat /\ x = <<s, b.open[s].since, e>>
  BY DEF LivesOf
<1>6. \/ \E t \in b.trades : y = <<t.symbol, t.entry, t.exit>>
      \/ \E s \in Symbols : b.open[s] # T!Flat /\ y = <<s, b.open[s].since, e>>
  BY DEF LivesOf
<1>7. QED
  BY <1>3, <1>4, <1>5, <1>6

(* Lives that only grow longer and more were alone before if they are now.     *)
LEMMA AloneBefore ==
  ASSUME NEW b \in Books, NEW e \in Nat, Placed(b, e), NEW c \in Books, NEW f \in Nat,
         \A x \in LivesOf(b, e) : \E y \in LivesOf(c, f) : y[1] = x[1] /\ y[2] = x[2] /\ x[3] <= y[3],
         AloneIn(LivesOf(c, f))
  PROVE  AloneIn(LivesOf(b, e))
<1> SUFFICES ASSUME NEW x \in LivesOf(b, e), NEW y \in LivesOf(b, e), x # y
             PROVE  x[3] <= y[2] \/ y[3] <= x[2]
  BY DEF AloneIn
<1>1. PICK u \in LivesOf(c, f) : u[1] = x[1] /\ u[2] = x[2] /\ x[3] <= u[3]
  OBVIOUS
<1>2. PICK v \in LivesOf(c, f) : v[1] = y[1] /\ v[2] = y[2] /\ y[3] <= v[3]
  OBVIOUS
<1>3. u # v
  BY <1>1, <1>2, StartsDiffer
<1>4. u[3] <= v[2] \/ v[3] <= u[2]
  BY <1>3 DEF AloneIn
<1>5. x[2] \in Nat /\ x[3] \in Nat /\ y[2] \in Nat /\ y[3] \in Nat /\ u[3] \in Nat /\ v[3] \in Nat
  BY LifeTyped
<1>6. QED
  BY <1>1, <1>2, <1>4, <1>5

-----------------------------------------------------------------------------
(* The equity.                                                               *)

LEMMA LaterFunded ==
  ASSUME NEW b \in Books, NEW e \in Nat, Placed(b, e), Funded(b, e)
  PROVE  Funded(b, e + 1)
<1>1. ASSUME NEW x \in LivesOf(b, e)
      PROVE  \E y \in LivesOf(b, e + 1) : y[1] = x[1] /\ y[2] = x[2] /\ x[3] <= y[3]
  <2>1. CASE \E t \in b.trades : x = <<t.symbol, t.entry, t.exit>>
    <3>1. x \in LivesOf(b, e + 1) /\ x[3] \in Nat
      BY <2>1, LifeTyped DEF LivesOf
    <3>2. QED
      BY <3>1
  <2>2. CASE \E s \in Symbols : b.open[s] # T!Flat /\ x = <<s, b.open[s].since, e>>
    <3>1. PICK s \in Symbols : b.open[s] # T!Flat /\ x = <<s, b.open[s].since, e>>
      BY <2>2
    <3>2. <<s, b.open[s].since, e + 1>> \in LivesOf(b, e + 1)
      BY <3>1 DEF LivesOf
    <3>3. QED
      BY <3>1, <3>2
  <2>3. QED
    BY <2>1, <2>2 DEF LivesOf
<1>2. AloneIn(LivesOf(b, e + 1)) => AloneIn(LivesOf(b, e))
  BY <1>1, AloneBefore
<1>3. QED
  BY <1>2 DEF Funded

(* The position that closes is the only one, when lives are alone: the stop    *)
(* loses what it was sized to.                                                 *)
LEMMA ClosedFunded ==
  ASSUME TestKnown, event \in Nat, NEW b \in Books, NEW s \in Symbols, NEW reason \in {"sl", "tp"},
         NEW gross \in Int, gross >= -b.open[s].loss,
         Placed(b, event), Funded(b, event), b.open[s] # T!Flat
  PROVE  Funded(T!Closed(b, s, reason, gross), event + 1)
<1> DEFINE c == T!Closed(b, s, reason, gross)
           n == [symbol |-> s, entry |-> b.open[s].since, exit |-> event, reason |-> reason]
           fee == b.open[s].size \div FeeDen
<1>0. Closes(b, c, s, reason, gross)
  BY ClosedIs
<1> HIDE DEF c
<1>1. /\ c \in Books
      /\ c.open[s] = T!Flat /\ \A o \in Symbols : o # s => c.open[o] = b.open[o]
      /\ c.trades = b.trades \cup {n}
      /\ c.equity = b.equity + (gross - fee) /\ fee \in Nat
  BY <1>0 DEF Closes
<1>2. <<s, b.open[s].since, event>> \in LivesOf(c, event + 1)
  <2>1. n \in c.trades /\ n.symbol = s /\ n.entry = b.open[s].since /\ n.exit = event
    BY <1>1
  <2> HIDE DEF n
  <2>2. <<n.symbol, n.entry, n.exit>> \in LivesOf(c, event + 1)
    BY <2>1 DEF LivesOf
  <2>3. QED
    BY <2>1, <2>2
<1>3. \A o \in Symbols : o # s /\ b.open[o] # T!Flat => <<o, b.open[o].since, event + 1>> \in LivesOf(c, event + 1)
  BY <1>1 DEF LivesOf
<1>4. \A t \in b.trades : <<t.symbol, t.entry, t.exit>> \in LivesOf(c, event + 1)
  BY <1>1 DEF LivesOf
<1> HIDE DEF n, fee
<1>5. ASSUME NEW x \in LivesOf(b, event)
      PROVE  \E y \in LivesOf(c, event + 1) : y[1] = x[1] /\ y[2] = x[2] /\ x[3] <= y[3]
  <2>1. CASE \E t \in b.trades : x = <<t.symbol, t.entry, t.exit>>
    BY <1>4, <2>1, LifeTyped
  <2>2. CASE x = <<s, b.open[s].since, event>>
    BY <1>2, <2>2
  <2>3. CASE \E o \in Symbols : o # s /\ b.open[o] # T!Flat /\ x = <<o, b.open[o].since, event>>
    <3>1. PICK o \in Symbols : o # s /\ b.open[o] # T!Flat /\ x = <<o, b.open[o].since, event>>
      BY <2>3
    <3> DEFINE y == <<o, b.open[o].since, event + 1>>
    <3>2. y \in LivesOf(c, event + 1)
      BY <1>3, <3>1
    <3>3. y[1] = x[1] /\ y[2] = x[2] /\ x[3] <= y[3]
      BY <3>1
    <3>4. QED
      BY <3>2, <3>3
  <2>4. QED
    BY <2>1, <2>2, <2>3 DEF LivesOf
<1> SUFFICES ASSUME AloneIn(LivesOf(c, event + 1))
             PROVE  /\ c.equity > 0
                    /\ \A o \in Symbols : c.open[o] # T!Flat =>
                          c.open[o].loss + (c.open[o].size \div FeeDen) < c.equity
  BY DEF Funded, c
<1>6. AloneIn(LivesOf(b, event))
  BY <1>1, <1>5, AloneBefore
<1>7. b.equity \in Int /\ b.open[s].loss \in Nat /\ b.open[s].loss + fee < b.equity
  BY <1>6 DEF Funded, fee, Books, Places
<1>8. c.equity > 0
  BY <1>1, <1>7
<1>9. ASSUME NEW o \in Symbols, c.open[o] # T!Flat PROVE FALSE
  <2>1. o # s /\ b.open[o] # T!Flat
    BY <1>1, <1>9
  <2> DEFINE x == <<s, b.open[s].since, event>>
             y == <<o, b.open[o].since, event + 1>>
  <2>2. x \in LivesOf(c, event + 1) /\ y \in LivesOf(c, event + 1) /\ x # y
    BY <1>2, <1>3, <2>1
  <2>3. event <= b.open[o].since \/ event + 1 <= b.open[s].since
    BY <2>2 DEF AloneIn
  <2>4. b.open[o].since < event /\ b.open[s].since < event
    BY <2>1 DEF Placed
  <2>5. b.open[o].since \in Nat /\ b.open[s].since \in Nat
    BY DEF Books, Places
  <2>6. QED
    BY <2>3, <2>4, <2>5
<1>10. QED
  BY <1>8, <1>9

LEMMA OpenedFunded ==
  ASSUME TestKnown, event \in Nat, NEW b \in Books, NEW s \in Symbols, NEW chosen \in T!Offers(b, s),
         NEW e, Funded(b, e)
  PROVE  Funded(With(b, s, chosen), e)
<1> DEFINE c == With(b, s, chosen)
<1>1. /\ c.equity = b.equity /\ c.trades = b.trades
      /\ c.open[s] = chosen /\ \A o \in Symbols : o # s => c.open[o] = b.open[o]
  BY OpenedIs DEF Takes
<1>2. b.open[s] = T!Flat /\ chosen.loss + (chosen.size \div FeeDen) < b.equity
  BY OfferIs
<1> HIDE DEF c
<1>3. LivesOf(b, e) \subseteq LivesOf(c, e)
  BY <1>1, <1>2 DEF LivesOf
<1>4. AloneIn(LivesOf(c, e)) => AloneIn(LivesOf(b, e))
  BY <1>3 DEF AloneIn
<1>5. Funded(c, e)
  BY <1>1, <1>2, <1>4 DEF Funded
<1>6. QED
  BY <1>5 DEF c

(* What is open when the candles end becomes a trade of the same life, and the *)
(* scan's equity stays.                                                        *)
Holding(b, equity) == [b EXCEPT !.equity = equity]

LEMMA EndedFunded ==
  ASSUME TestKnown, event \in Nat, NEW b \in Books, NEW s \in Symbols, NEW gross \in Int,
         Placed(b, event), Funded(b, event), b.open[s] # T!Flat
  PROVE  LET c == Holding(T!Closed(b, s, "end_of_data", gross), b.equity)
         IN  c \in Books /\ Placed(c, event) /\ Funded(c, event)
<1> DEFINE d == T!Closed(b, s, "end_of_data", gross)
           c == Holding(d, b.equity)
           n == [symbol |-> s, entry |-> b.open[s].since, exit |-> event, reason |-> "end_of_data"]
<1>0. Closes(b, d, s, "end_of_data", gross)
  BY ClosedIs
<1>1. /\ d \in Books
      /\ d.open[s] = T!Flat /\ \A o \in Symbols : o # s => d.open[o] = b.open[o]
      /\ d.trades = b.trades \cup {n}
  BY <1>0 DEF Closes
<1> HIDE DEF d
<1>2. c \in Books /\ c.open = d.open /\ c.trades = d.trades /\ c.equity = b.equity
  BY <1>1 DEF Books, Holding
<1> HIDE DEF c
<1>3. Placed(c, event)
  <2>1. Placed(d, event)
    BY <1>0, ClosedPlaced
  <2>2. QED
    BY <1>2, <2>1 DEF Placed
<1>4. LivesOf(b, event) \subseteq LivesOf(c, event)
  <2>1. <<s, b.open[s].since, event>> \in LivesOf(c, event)
    <3>1. n \in c.trades /\ n.symbol = s /\ n.entry = b.open[s].since /\ n.exit = event
      BY <1>1, <1>2
    <3> HIDE DEF n
    <3>2. <<n.symbol, n.entry, n.exit>> \in LivesOf(c, event)
      BY <3>1 DEF LivesOf
    <3>3. QED
      BY <3>1, <3>2
  <2>2. QED
    BY <1>1, <1>2, <2>1 DEF LivesOf
<1>5. AloneIn(LivesOf(c, event)) => AloneIn(LivesOf(b, event))
  BY <1>4 DEF AloneIn
<1>6. \A o \in Symbols : c.open[o] # T!Flat => c.open[o] = b.open[o]
  BY <1>1, <1>2
<1>7. Funded(c, event)
  BY <1>2, <1>5, <1>6 DEF Funded
<1>8. QED
  BY <1>2, <1>3, <1>7 DEF c, d

-----------------------------------------------------------------------------
(* The steps.                                                                *)

Scanned == event \in Nat /\ book \in Books /\ Placed(book, event) /\ Funded(book, event)

LEMMA EmptyBook ==
  ASSUME TestKnown
  PROVE  T!Empty \in Books /\ Placed(T!Empty, 0) /\ Funded(T!Empty, 0)
<1>1. T!Empty \in Books /\ T!Empty.equity > 0 /\ T!Empty.trades = {} /\ \A s \in Symbols : T!Empty.open[s] = T!Flat
  BY DEF T!Empty, Books, T!Flat, Places, TestKnown
<1>2. QED
  BY <1>1 DEF Placed, Funded

LEMMA CandleScanned ==
  ASSUME TestKnown, Scanned, T!Candle
  PROVE  Scanned'
<1>1. T!Turn \in Symbols
  <2> DEFINE n == T!Cardinality(Symbols)
  <2>1. n \in Nat /\ n > 0 /\ Symbols = 1 .. n /\ event \in Nat
    BY DEF TestKnown, Scanned
  <2> HIDE DEF n
  <2>2. event % n \in 0 .. n - 1
    BY <2>1, Quotient
  <2>3. QED
    BY <2>1, <2>2 DEF T!Turn, n
<1> DEFINE s == T!Turn
<1>2. PICK exit \in {"none", "sl", "tp"} : book' \in T!Opened(T!Settled(book, T!Turn, exit), T!Turn)
  BY DEF T!Candle
<1> DEFINE b == T!Settled(book, T!Turn, exit)
<1>3. event \in Nat /\ event' = event + 1 /\ event + 1 \in Nat /\ book \in Books
  BY DEF T!Candle, Scanned
<1>4. b \in Books /\ Placed(b, event) /\ Funded(b, event + 1)
  <2>1. CASE book.open[T!Turn] = T!Flat \/ exit = "none"
    <3>1. b = book
      BY <2>1 DEF T!Settled
    <3>2. QED
      BY <1>3, <3>1, LaterFunded DEF Scanned
  <2>2. CASE book.open[T!Turn] # T!Flat /\ exit \in {"sl", "tp"}
    <3>1. PICK gross \in {-book.open[T!Turn].loss, Reward * book.open[T!Turn].loss} :
             b = T!Closed(book, T!Turn, exit, gross)
      <4>1. CASE exit = "sl"
        <5>1. b = T!Closed(book, T!Turn, exit, -book.open[T!Turn].loss)
          BY <2>2, <4>1 DEF T!Settled
        <5>2. QED
          BY <5>1
      <4>2. CASE exit = "tp"
        <5>1. b = T!Closed(book, T!Turn, exit, Reward * book.open[T!Turn].loss)
          BY <2>2, <4>2 DEF T!Settled
        <5>2. QED
          BY <5>1
      <4>3. QED
        BY <2>2, <4>1, <4>2
    <3>2. book.open[T!Turn].loss \in Nat /\ Reward \in Nat
      BY <1>1, <1>3 DEF Books, Places, TestKnown
    <3>3. gross \in Int /\ gross >= -book.open[T!Turn].loss
      <4> DEFINE l == book.open[T!Turn].loss
      <4>1. Reward * l \in Nat /\ l \in Nat
        BY <3>2
      <4> HIDE DEF l
      <4>2. gross \in {-l, Reward * l}
        BY <3>1 DEF l
      <4>3. QED
        BY <4>1, <4>2 DEF l
    <3>4. Closes(book, b, T!Turn, exit, gross)
      BY <1>1, <1>3, <2>2, <3>1, <3>3, ClosedIs
    <3> HIDE DEF b
    <3>5. b \in Books /\ Placed(b, event)
      BY <1>1, <1>3, <2>2, <3>4, ClosedPlaced DEF Scanned, Closes
    <3>6. Funded(b, event + 1)
      BY <1>1, <1>3, <2>2, <3>1, <3>3, ClosedFunded DEF Scanned
    <3>7. QED
      BY <3>5, <3>6
  <2>3. QED
    BY <2>1, <2>2
<1> HIDE DEF b
<1>5. b \in Books /\ (book' = b \/ \E chosen \in T!Offers(b, T!Turn) : book' = With(b, T!Turn, chosen))
  BY <1>2, <1>4 DEF T!Opened, With, b
<1>6. book' \in Books /\ Placed(book', event + 1) /\ Funded(book', event + 1)
  <2>1. CASE book' = b
    BY <1>3, <1>4, <2>1, LaterPlaced
  <2>2. CASE \E chosen \in T!Offers(b, T!Turn) : book' = With(b, T!Turn, chosen)
    <3>1. PICK chosen \in T!Offers(b, T!Turn) : book' = With(b, T!Turn, chosen)
      BY <2>2
    <3>2. book' \in Books
      BY <1>1, <1>3, <1>4, <3>1, OpenedIs DEF Takes
    <3>3. Placed(book', event + 1)
      BY <1>1, <1>3, <1>4, <3>1, OpenedPlaced
    <3>4. Funded(book', event + 1)
      BY <1>1, <1>3, <1>4, <3>1, OpenedFunded
    <3>5. QED
      BY <3>2, <3>3, <3>4
  <2>3. QED
    BY <1>5, <2>1, <2>2
<1>7. QED
  BY <1>3, <1>6 DEF Scanned

LEMMA ScannedStep == TestKnown /\ Scanned /\ [T!Next]_(T!vars) => Scanned'
<1> SUFFICES ASSUME TestKnown, Scanned, [T!Next]_(T!vars) PROVE Scanned'
  OBVIOUS
<1>1. CASE UNCHANGED <<event, book>>
  BY <1>1 DEF Scanned
<1>2. CASE T!Candle
  BY <1>2, CandleScanned
<1>3. CASE T!ForceClose
  <2>1. CASE UNCHANGED book
    BY <1>1, <1>3, <2>1 DEF T!ForceClose
  <2>2. CASE \E s \in Symbols :
              /\ book.open[s] # T!Flat
              /\ \E gross \in {-book.open[s].loss, 0, Reward * book.open[s].loss} :
                   book' = [T!Closed(book, s, "end_of_data", gross) EXCEPT !.equity = book.equity]
    <3>0. PICK s \in Symbols :
            /\ book.open[s] # T!Flat
            /\ \E gross \in {-book.open[s].loss, 0, Reward * book.open[s].loss} :
                 book' = [T!Closed(book, s, "end_of_data", gross) EXCEPT !.equity = book.equity]
      BY <2>2
    <3>1. PICK gross \in {-book.open[s].loss, 0, Reward * book.open[s].loss} :
            book' = Holding(T!Closed(book, s, "end_of_data", gross), book.equity)
      BY <3>0 DEF Holding
    <3>2. gross \in Int
      <4> DEFINE l == book.open[s].loss
      <4>1. l \in Nat /\ Reward \in Nat
        BY DEF Scanned, Books, Places, TestKnown
      <4> HIDE DEF l
      <4>2. gross \in {-l, 0, Reward * l}
        BY <3>1 DEF l
      <4>3. QED
        BY <4>1, <4>2
    <3>3. book' \in Books /\ Placed(book', event) /\ Funded(book', event)
      BY <3>0, <3>1, <3>2, EndedFunded DEF Scanned
    <3>4. event' = event
      BY <1>3 DEF T!ForceClose
    <3>5. QED
      BY <3>3, <3>4 DEF Scanned
  <2>3. QED
    BY <1>3, <2>1, <2>2 DEF T!ForceClose
<1>4. CASE T!Run
  <2>1. event' = 0 /\ book' = T!Empty
    BY <1>4 DEF T!Run
  <2>2. QED
    BY <2>1, EmptyBook DEF Scanned
<1>5. CASE T!Loads \/ T!StoresTrades \/ T!StoresCurve \/ T!Ends \/ T!Delete \/ T!Crash \/ UNCHANGED T!vars
  BY <1>1, <1>5 DEF T!Loads, T!StoresTrades, T!StoresCurve, T!Ends, T!Delete, T!Crash, T!vars
<1>6. QED
  BY <1>2, <1>3, <1>4, <1>5 DEF T!Next

-----------------------------------------------------------------------------
(* The rows: each insert is of the book, which no later step changes before  *)
(* the session is completed.                                                 *)

Reported ==
    /\ \E t, c : results = [trades |-> t, curve |-> c]
    /\ stage \in {"curve", "finish"} => results.trades = T!Cardinality(book.trades)
    /\ stage = "finish" => results.curve = T!Cardinality(book.trades)
    /\ status = "completed" => stage = "idle" /\ T!CompletedIsWhole

LEMMA ReportedStep == Reported /\ [T!Next]_(T!vars) => Reported'
<1> SUFFICES ASSUME Reported, [T!Next]_(T!vars) PROVE Reported'
  OBVIOUS
<1> USE DEF Reported, T!CompletedIsWhole
<1>1. CASE T!Candle
  BY <1>1 DEF T!Candle
<1>2. CASE T!ForceClose
  BY <1>2 DEF T!ForceClose
<1>3. CASE T!Run
  BY <1>3 DEF T!Run
<1>4. CASE T!Loads
  BY <1>4 DEF T!Loads
<1>5. CASE T!StoresTrades
  BY <1>5 DEF T!StoresTrades
<1>6. CASE T!StoresCurve
  BY <1>6 DEF T!StoresCurve
<1>7. CASE T!Ends
  <2>1. CASE status' # "completed"
    BY <1>7, <2>1 DEF T!Ends
  <2>2. CASE status' = "completed"
    <3>1. stage = "finish"
      BY <1>7, <2>2 DEF T!Ends
    <3>2. results = [trades |-> T!Cardinality(book.trades), curve |-> T!Cardinality(book.trades)]
      BY <3>1
    <3>3. QED
      BY <1>7, <3>2 DEF T!Ends
  <2>3. QED
    BY <2>1, <2>2
<1>8. CASE T!Delete
  BY <1>8 DEF T!Delete, T!Nothing
<1>9. CASE T!Crash
  BY <1>9 DEF T!Crash
<1>10. CASE UNCHANGED T!vars
  BY <1>10 DEF T!vars
<1>11. QED
  BY <1>1, <1>2, <1>3, <1>4, <1>5, <1>6, <1>7, <1>8, <1>9, <1>10 DEF T!Next

(* A session's trades lie after their entries and one after the other, one     *)
(* position at a time never takes all of the equity, and a completed session   *)
(* has its rows.                                                               *)
THEOREM TestStaysSound ==
  ASSUME TestKnown
  PROVE  T!Spec => []T!NoLookAhead /\ []T!Solvent /\ []T!CompletedIsWhole
<1>1. T!Init => Scanned /\ Reported
  <2>1. T!Init => Scanned
    BY EmptyBook DEF T!Init, Scanned
  <2>2. T!Init => Reported
    BY DEF T!Init, Reported, T!Nothing
  <2>3. QED
    BY <2>1, <2>2
<1>2. Scanned /\ Reported /\ [T!Next]_(T!vars) => Scanned' /\ Reported'
  BY ScannedStep, ReportedStep
<1>3. Scanned => T!NoLookAhead
  BY DEF Scanned, Placed, T!NoLookAhead
<1>4. Scanned => T!Solvent
  <2>1. T!Lives = LivesOf(book, event)
    BY DEF T!Lives, LivesOf
  <2>2. T!Alone <=> AloneIn(LivesOf(book, event))
    BY <2>1 DEF T!Alone, AloneIn
  <2>3. QED
    BY <2>2 DEF Scanned, Funded, T!Solvent
<1>5. Reported => T!CompletedIsWhole
  BY DEF Reported, T!CompletedIsWhole
<1>6. QED
  BY <1>1, <1>2, <1>3, <1>4, <1>5, PTL DEF T!Spec

-----------------------------------------------------------------------------
(* Fills (Ledger).  Balanced holds after every fill, for the sources that can *)
(* be trusted in the mode: each tells the direction of the position.         *)

(* What is proved is about fills of an opening, a reduction or a reversal: the *)
(* sides and flags that each source is given.                                  *)
Booking ==
    /\ mode \in {"one-way", "hedge"} /\ pos \in [G!Dirs -> Int]
    /\ ledger \in [G!Sources -> [G!Dirs -> Int]]

Trusted == IF mode = "hedge" THEN {"plugin", "binance", "bybit"} ELSE {"plugin"}

Balanced == Booking /\ G!LedgerHolds /\ G!NoFalseClose

FillOf(d, q, impact, pnl) ==
    [side |-> G!SideOf(d, impact = "open"), pside |-> G!Idx(d), qty |-> q, pnl |-> pnl,
     impact |-> impact]

(* A trusted source tells the direction of the position, and whether the fill  *)
(* closes.                                                                     *)
LEMMA TrustedReport ==
  ASSUME mode \in {"one-way", "hedge"}, NEW s \in Trusted, NEW d \in G!Dirs, NEW q, NEW impact \in {"open", "close"}, NEW pnl
  PROVE  G!Reported(s, FillOf(d, q, impact, pnl)) = [dir |-> d, close |-> impact = "close"]
<1> DEFINE f == FillOf(d, q, impact, pnl)
<1>1. d = "LONG" \/ d = "SHORT"
  BY DEF G!Dirs
<1>2. f.side = G!SideOf(d, impact = "open") /\ f.pside = G!Idx(d) /\ f.impact = impact
  BY DEF FillOf
<1> HIDE DEF f
<1>3. CASE s = "plugin"
  <2>1. G!PluginFill(f) = [dir |-> d, close |-> impact = "close"]
    BY <1>1, <1>2 DEF G!PluginFill, G!SideOf
  <2>2. G!Snapshotted(f, G!PluginFill(f), cached) = G!PluginFill(f)
    BY <2>1 DEF G!Snapshotted
  <2>3. G!Reported(s, f) = G!Snapshotted(f, G!PluginFill(f), cached)
    BY <1>3 DEF G!Reported
  <2>4. QED
    BY <2>1, <2>2, <2>3 DEF f
<1>4. CASE s \in {"binance", "bybit"} /\ mode = "hedge"
  <2>1. f.pside = d /\ f.pside # "BOTH"
    BY <1>1, <1>2, <1>4 DEF G!Idx
  <2>2. G!Closes(f.side, d) = (impact = "close")
    BY <1>1, <1>2 DEF G!Closes, G!SideOf
  <2>3. G!Reported(s, f) = [dir |-> f.pside, close |-> G!Closes(f.side, f.pside)]
    BY <1>4, <2>1 DEF G!Reported, G!BinanceFill, G!BybitFill
  <2>4. QED
    BY <2>1, <2>2, <2>3 DEF f
<1>5. QED
  BY <1>3, <1>4 DEF Trusted

(* An opening fill, which realizes nothing, is reported as closing by no source. *)
LEMMA OpeningReport ==
  ASSUME mode \in {"one-way", "hedge"}, NEW s \in G!Sources, NEW d \in G!Dirs, NEW q
  PROVE  G!Reported(s, FillOf(d, q, "open", 0)).close = FALSE
<1> DEFINE f == FillOf(d, q, "open", 0)
<1> SUFFICES G!Reported(s, f).close = FALSE
  OBVIOUS
<1>1. d = "LONG" \/ d = "SHORT"
  BY DEF G!Dirs
<1>2. /\ f.side = G!SideOf(d, TRUE) /\ f.pside = G!Idx(d) /\ f.pnl = 0 /\ f.impact = "open"
  BY DEF FillOf, G!SideOf
<1>3. ~G!Closes(G!SideOf(d, TRUE), d) /\ G!Idx(d) \in {d, "BOTH"} /\ d # "BOTH"
  BY <1>1 DEF G!Closes, G!SideOf, G!Idx
<1>4. f.pside # "BOTH" => G!Closes(f.side, f.pside) = FALSE
  <2> SUFFICES ASSUME f.pside # "BOTH" PROVE ~G!Closes(f.side, f.pside)
    BY DEF G!Closes
  <2>1. f.pside = d /\ f.side = G!SideOf(d, TRUE)
    BY <1>2, <1>3
  <2> HIDE DEF f
  <2>2. QED
    BY <2>1, <1>3
<1>5. s \in Trusted => G!Reported(s, f) = [dir |-> d, close |-> FALSE]
  <2> SUFFICES ASSUME s \in Trusted PROVE G!Reported(s, f) = [dir |-> d, close |-> FALSE]
    OBVIOUS
  <2>1. G!Reported(s, f) = [dir |-> d, close |-> "open" = "close"]
    BY TrustedReport
  <2> HIDE DEF f
  <2>2. QED
    BY <2>1
<1> HIDE DEF f
<1>6. CASE s = "plugin"
  <2>1. G!Reported(s, f) = [dir |-> d, close |-> FALSE]
    BY <1>5, <1>6 DEF Trusted
  <2>2. QED
    BY <2>1
<1>7. CASE s = "binance"
  <2> DEFINE closes == IF f.pside # "BOTH" THEN G!Closes(f.side, f.pside) ELSE f.pnl # 0
  <2>1. closes = FALSE
    BY <1>2, <1>4
  <2>2. G!Reported(s, f) = [dir |-> f.pside, close |-> closes]
    BY <1>7 DEF G!Reported, G!BinanceFill
  <2> HIDE DEF closes
  <2>3. G!Reported(s, f) = [dir |-> f.pside, close |-> FALSE]
    BY <2>1, <2>2, Zenon
  <2>4. QED
    BY <2>3
<1>8. CASE s = "stream"
  <2>1. (f.pnl # 0) = FALSE
    BY <1>2
  <2>2. G!Reported(s, f) = [dir |-> f.pside, close |-> FALSE]
    BY <1>8, <2>1, Zenon DEF G!Reported, G!StreamFill
  <2>3. QED
    BY <2>2
<1>9. CASE s = "bybit"
  <2>1. CASE f.pside # "BOTH"
    <3>1. G!Reported(s, f) = [dir |-> f.pside, close |-> G!Closes(f.side, f.pside)]
      BY <1>9, <2>1 DEF G!Reported, G!BybitFill
    <3>2. QED
      BY <1>4, <2>1, <3>1
  <2>2. CASE f.pside = "BOTH"
    <3> DEFINE way == IF f.side = "BUY" THEN "LONG" ELSE "SHORT"
    <3>1. (f.pnl # 0) = FALSE
      BY <1>2
    <3>2. G!Reported(s, f) = [dir |-> way, close |-> f.pnl # 0]
      BY <1>9, <2>2 DEF G!Reported, G!BybitFill
    <3> HIDE DEF way
    <3>3. G!Reported(s, f) = [dir |-> way, close |-> FALSE]
      BY <3>1, <3>2, Zenon
    <3>4. QED
      BY <3>3
  <2>3. QED
    BY <2>1, <2>2
<1>10. CASE s = "mexc"
  <2>1. G!Reported(s, f) = [dir |-> "none", close |-> FALSE]
    BY <1>10 DEF G!Reported, G!MexcFill
  <2>2. QED
    BY <2>1
<1>11. QED
  BY <1>6, <1>7, <1>8, <1>9, <1>10 DEF G!Sources

(* The tally stay in Int, whatever is booked.                                   *)
LEMMA BookedSums ==
  ASSUME NEW tally \in [G!Dirs -> Int], NEW f, f.qty \in Int, NEW t
  PROVE  G!Booked(tally, f, t) \in [G!Dirs -> Int]
<1>1. \A d \in G!Dirs : tally[d] + (IF t.dir # d THEN 0 ELSE IF t.close THEN -f.qty ELSE f.qty) \in Int
  <2> TAKE d \in G!Dirs
  <2>1. tally[d] \in Int
    OBVIOUS
  <2>2. (IF t.dir # d THEN 0 ELSE IF t.close THEN -f.qty ELSE f.qty) \in Int
    OBVIOUS
  <2>3. QED
    BY <2>1, <2>2
<1>2. QED
  BY <1>1 DEF G!Booked

LEMMA LedgerTyped ==
  ASSUME Booking, NEW f, f.qty \in Int, NEW d, G!Report(f, d)
  PROVE  ledger' \in [G!Sources -> [G!Dirs -> Int]] /\ mode' = mode
<1>1. ledger' = [s \in G!Sources |-> G!Booked(ledger[s], f, G!Reported(s, f))] /\ mode' = mode
  BY DEF G!Report
<1>2. \A s \in G!Sources : G!Booked(ledger[s], f, G!Reported(s, f)) \in [G!Dirs -> Int]
  <2> TAKE s \in G!Sources
  <2>1. ledger[s] \in [G!Dirs -> Int]
    BY DEF Booking
  <2>2. QED
    BY <2>1, BookedSums
<1>3. QED
  BY <1>1, <1>2

(* An opening or a reduction moves the tally of the trusted as it moves the     *)
(* position.                                                                   *)
LEMMA SumsFollow ==
  ASSUME Balanced, NEW d \in G!Dirs, NEW q \in Int, NEW impact \in {"open", "close"}, NEW pnl, NEW way,
         pos' = [pos EXCEPT ![d] = @ + (IF impact = "open" THEN q ELSE -q)],
         G!Report(FillOf(d, q, impact, pnl), way), reversed' = reversed
  PROVE  Booking' /\ G!LedgerHolds'
<1> DEFINE f == FillOf(d, q, impact, pnl)
<1>0. f.qty = q
  BY DEF FillOf
<1>1. /\ ledger' = [s \in G!Sources |-> G!Booked(ledger[s], f, G!Reported(s, f))] /\ mode' = mode
      /\ mode \in {"one-way", "hedge"} /\ pos \in [G!Dirs -> Int]
  BY DEF G!Report, Balanced, Booking
<1>2. Booking'
  <2>1. ledger' \in [G!Sources -> [G!Dirs -> Int]]
    BY <1>0, LedgerTyped DEF Balanced
  <2>2. pos' \in [G!Dirs -> Int]
    BY <1>1
  <2>3. QED
    BY <1>1, <2>1, <2>2 DEF Booking
<1>3. ASSUME ~reversed, NEW s \in Trusted PROVE ledger'[s] = pos'
  <2>1. s \in G!Sources /\ ledger[s] = pos
    BY <1>3 DEF Balanced, G!LedgerHolds, Trusted, G!Sources
  <2>2. G!Reported(s, f) = [dir |-> d, close |-> impact = "close"]
    BY <1>1, TrustedReport
  <2> HIDE DEF f
  <2>3. ledger'[s] = G!Booked(pos, f, [dir |-> d, close |-> impact = "close"])
    BY <1>1, <2>1, <2>2
  <2>4. G!Booked(pos, f, [dir |-> d, close |-> impact = "close"])
          = [x \in G!Dirs |-> pos[x] + (IF d # x THEN 0 ELSE IF impact = "close" THEN -f.qty ELSE f.qty)]
    BY DEF G!Booked
  <2>5. \A x \in G!Dirs : pos[x] + (IF d # x THEN 0 ELSE IF impact = "close" THEN -f.qty ELSE f.qty) = pos'[x]
    BY <1>0, <1>1 DEF f
  <2>6. pos' = [x \in G!Dirs |-> pos'[x]]
    BY <1>1
  <2>7. QED
    BY <2>3, <2>4, <2>5, <2>6
<1>4. G!LedgerHolds'
  BY <1>1, <1>3 DEF G!LedgerHolds, Trusted
<1>5. QED
  BY <1>2, <1>4

LEMMA BalancedStep == ASSUME MaxQty \in Nat PROVE Balanced /\ [G!Next]_(G!vars) => Balanced'
<1> SUFFICES ASSUME Balanced, [G!Next]_(G!vars) PROVE Balanced'
  OBVIOUS
<1>0. mode \in {"one-way", "hedge"} /\ pos \in [G!Dirs -> Int]
  BY DEF Balanced, Booking
<1>1. ASSUME NEW d \in G!Dirs, NEW q \in 1 .. MaxQty, G!Opens(d, q) PROVE Balanced'
  <2> DEFINE f == FillOf(d, q, "open", 0)
  <2>0. f = [side |-> G!SideOf(d, TRUE), pside |-> G!Idx(d), qty |-> q, pnl |-> 0, impact |-> "open"]
    BY DEF FillOf, G!SideOf
  <2> HIDE DEF f
  <2>1. q \in Int /\ G!Report(f, d) /\ pos' = [pos EXCEPT ![d] = @ + q] /\ reversed' = reversed
    BY <1>1, <2>0 DEF G!Opens
  <2> USE DEF f
  <2>2. Booking' /\ G!LedgerHolds'
    <3>1. pos' = [pos EXCEPT ![d] = @ + (IF "open" = "open" THEN q ELSE -q)]
      BY <2>1
    <3>2. QED
      BY <2>1, <3>1, SumsFollow
  <2>3. lastFill' = [s \in G!Sources \cup {"truth"} |->
                  IF s = "truth" THEN [dir |-> d, close |-> f.impact # "open"] ELSE G!Reported(s, f)]
    BY <2>1 DEF G!Report
  <2>4. \A s \in G!Sources : G!Reported(s, f).close = FALSE
    BY <1>0, OpeningReport
  <2> HIDE DEF f
  <2>5. G!NoFalseClose'
    BY <2>3, <2>4 DEF G!NoFalseClose, G!Sources
  <2>6. QED
    BY <2>2, <2>5 DEF Balanced
<1>2. ASSUME NEW d \in G!Dirs, NEW q \in 1 .. MaxQty, NEW pnl \in {-1, 0, 1}, G!Reduces(d, q, pnl) PROVE Balanced'
  <2> DEFINE f == FillOf(d, q, "close", pnl)
  <2>0. f = [side |-> G!SideOf(d, FALSE), pside |-> G!Idx(d), qty |-> q, pnl |-> pnl, impact |-> "close"]
    BY DEF FillOf, G!SideOf
  <2> HIDE DEF f
  <2>1. q \in Int /\ G!Report(f, d) /\ pos' = [pos EXCEPT ![d] = @ - q] /\ reversed' = reversed
    BY <1>2, <2>0 DEF G!Reduces
  <2> USE DEF f
  <2>2. Booking' /\ G!LedgerHolds'
    <3>1. pos' = [pos EXCEPT ![d] = @ + (IF "close" = "open" THEN q ELSE -q)]
      <4>1. pos[d] - q = pos[d] + (-q)
        BY <1>0, <2>1
      <4>2. QED
        BY <2>1, <4>1
    <3>2. QED
      BY <2>1, <3>1, SumsFollow
  <2>3. lastFill' = [s \in G!Sources \cup {"truth"} |->
                  IF s = "truth" THEN [dir |-> d, close |-> f.impact # "open"] ELSE G!Reported(s, f)]
    BY <2>1 DEF G!Report
  <2>4. f.impact # "open"
    BY DEF FillOf
  <2> HIDE DEF f
  <2>5. G!NoFalseClose'
    BY <2>3, <2>4 DEF G!NoFalseClose, G!Sources
  <2>6. QED
    BY <2>2, <2>5 DEF Balanced
<1>3. ASSUME NEW d \in G!Dirs, NEW q \in 1 .. MaxQty, NEW pnl \in {-1, 0, 1}, G!Reverses(d, q, pnl) PROVE Balanced'
  <2> DEFINE f == [side |-> G!SideOf(d, FALSE), pside |-> "BOTH", qty |-> q, pnl |-> pnl, impact |-> "reverse"]
  <2>1. /\ q \in Int /\ f.qty = q /\ f.impact = "reverse" /\ G!Report(f, d)
        /\ pos' = [x \in G!Dirs |-> IF x = d THEN 0 ELSE q - pos[d]] /\ reversed' = TRUE
    BY <1>3 DEF G!Reverses
  <2> HIDE DEF f
  <2>2. Booking'
    <3>1. ledger' \in [G!Sources -> [G!Dirs -> Int]] /\ mode' = mode
      BY <2>1, LedgerTyped DEF Balanced
    <3>2. pos' \in [G!Dirs -> Int]
      BY <1>0, <2>1
    <3>3. QED
      BY <1>0, <3>1, <3>2 DEF Booking
  <2>3. lastFill' = [s \in G!Sources \cup {"truth"} |->
                  IF s = "truth" THEN [dir |-> d, close |-> f.impact # "open"] ELSE G!Reported(s, f)]
    BY <2>1 DEF G!Report
  <2>4. G!NoFalseClose'
    BY <2>1, <2>3 DEF G!NoFalseClose, G!Sources
  <2>5. G!LedgerHolds'
    BY <2>1 DEF G!LedgerHolds
  <2>6. QED
    BY <2>2, <2>4, <2>5 DEF Balanced
<1>4. CASE G!Refreshes \/ UNCHANGED G!vars
  <2>1. UNCHANGED <<mode, pos, ledger, lastFill, reversed>>
    BY <1>4 DEF G!Refreshes, G!vars
  <2>2. QED
    BY <2>1 DEF Balanced, Booking, G!LedgerHolds, G!NoFalseClose
<1>5. QED
  BY <1>1, <1>2, <1>3, <1>4 DEF G!Next

(* In hedge mode three sources book what is held, in one-way mode the plugin   *)
(* does until a fill goes through zero; an opening fill closes nothing.        *)
THEOREM BooksBalance == ASSUME MaxQty \in Nat PROVE G!Spec => [](G!LedgerHolds /\ G!NoFalseClose)
<1>1. G!Init => Balanced
  <2> SUFFICES ASSUME G!Init PROVE Balanced
    OBVIOUS
  <2>1. pos \in [G!Dirs -> Int] /\ ledger = [s \in G!Sources |-> pos]
    BY DEF G!Init
  <2>2. Booking
    BY <2>1 DEF G!Init, Booking
  <2>3. G!LedgerHolds
    BY <2>1 DEF G!LedgerHolds, G!Sources
  <2>4. G!NoFalseClose
    BY DEF G!Init, G!NoFalseClose, G!None
  <2>5. QED
    BY <2>2, <2>3, <2>4 DEF Balanced
<1>2. Balanced => G!LedgerHolds /\ G!NoFalseClose
  BY DEF Balanced
<1>3. QED
  BY <1>1, <1>2, BalancedStep, PTL DEF G!Spec

-----------------------------------------------------------------------------
(* Trade history (History).  Recorded says what the rows are of: a fill that  *)
(* has a row never meets it in an upsert, or its opening time would be lost.  *)

(* What the rows are: a row of the plugin has the time, the type and the       *)
(* direction of its trade, opens when its trade does exactly if that is an     *)
(* opening one, and was calculated over the life it shows; a fetched row is of *)
(* a closing trade of its time and has the direction of the position.          *)
Trade == [time : Nat \ {0}, side : {"BUY", "SELL"}, held : Int]

Shaped(r) ==
    r = [key |-> r.key, time |-> r.time, pnl |-> r.pnl, income |-> r.income, dir |-> r.dir,
         open |-> r.open, done |-> r.done]

PluginRow(r) ==
    \E i \in DOMAIN made :
        /\ r.key = <<"qt", i>> /\ r.time = made[i].time /\ r.pnl = H!Closes(made[i])
        /\ r.dir = H!Dir(made[i]) /\ (H!Closes(made[i]) <=> r.open # r.time)
        /\ r.done > 0 => r.open = r.done

FetchedRow(r) ==
    /\ r.key = <<"rest", r.time>>
    /\ \E i \in DOMAIN made : /\ made[i].time = r.time /\ H!Closes(made[i])
                                /\ (r.dir = "LONG") = (made[i].held > 0)

RowTrue(r) == Shaped(r) /\ (PluginRow(r) \/ FetchedRow(r))

Recorded ==
    /\ now \in Nat \ {0} /\ made \in Seq(Trade) /\ sending \in Seq(DOMAIN made)
    /\ handling \subseteq {i \in DOMAIN made : H!Closes(made[i])}
    /\ \A r \in history : RowTrue(r)
    /\ \A r \in fetching.rows : Shaped(r) /\ FetchedRow(r)

LEMMA RowsTell == Recorded => H!LifeKept /\ H!RestDirTrue
<1> SUFFICES ASSUME Recorded PROVE H!LifeKept /\ H!RestDirTrue
  OBVIOUS
<1>1. ASSUME NEW r \in history PROVE PluginRow(r) \/ FetchedRow(r)
  BY <1>1 DEF Recorded, RowTrue
<1>2. H!LifeKept
  <2> SUFFICES ASSUME NEW r \in history, r.key[1] = "qt", r.done > 0 PROVE r.open = r.done
    BY DEF H!LifeKept
  <2>1. ~FetchedRow(r)
    BY DEF FetchedRow
  <2>2. PluginRow(r)
    BY <1>1, <2>1
  <2>3. QED
    BY <2>2 DEF PluginRow
<1>3. H!RestDirTrue
  <2> SUFFICES ASSUME NEW r \in history, r.key[1] = "rest"
               PROVE  \E i \in DOMAIN made : /\ made[i].time = r.time /\ H!Closes(made[i])
                                               /\ (r.dir = "LONG") = (made[i].held > 0)
    BY DEF H!RestDirTrue
  <2>1. ~PluginRow(r)
    BY DEF PluginRow
  <2>2. FetchedRow(r)
    BY <1>1, <2>1
  <2>3. QED
    BY <2>2 DEF FetchedRow
<1>4. QED
  BY <1>2, <1>3

(* What Upsert makes of a row and the new one of its key.                      *)
Taking(a, b) == [a EXCEPT !.income = b.income, !.dir = b.dir, !.open = b.open]

LEMMA TakenRow ==
  ASSUME NEW a, Shaped(a), NEW b
  PROVE  LET y == Taking(a, b)
         IN  /\ Shaped(y) /\ y.key = a.key /\ y.time = a.time /\ y.pnl = a.pnl
             /\ y.dir = b.dir /\ y.open = b.open /\ y.done = a.done
<1> DEFINE y == Taking(a, b)
<1>1. y = [[[a EXCEPT !.income = b.income] EXCEPT !.dir = b.dir] EXCEPT !.open = b.open]
  BY DEF Taking
<1> DEFINE u == [a EXCEPT !.income = b.income]
<1>2. /\ Shaped(u) /\ u.key = a.key /\ u.time = a.time /\ u.pnl = a.pnl /\ u.dir = a.dir
      /\ u.open = a.open /\ u.done = a.done
  BY DEF Shaped
<1> DEFINE v == [u EXCEPT !.dir = b.dir]
<1> HIDE DEF u
<1>3. /\ Shaped(v) /\ v.key = a.key /\ v.time = a.time /\ v.pnl = a.pnl /\ v.dir = b.dir
      /\ v.open = a.open /\ v.done = a.done
  BY <1>2 DEF Shaped
<1> HIDE DEF v
<1>4. y = [v EXCEPT !.open = b.open]
  BY <1>1 DEF u, v
<1> HIDE DEF y
<1>5. /\ Shaped(y) /\ y.key = a.key /\ y.time = a.time /\ y.pnl = a.pnl /\ y.dir = b.dir
      /\ y.open = b.open /\ y.done = a.done
  BY <1>3, <1>4 DEF Shaped
<1>6. QED
  BY <1>5 DEF y

(* A row that goes into a table stays as it is, is new, or takes the income,   *)
(* direction and opening time of the new one of its key.                       *)
LEMMA UpsertedRow ==
  ASSUME NEW table, NEW new, NEW y \in H!Upsert(table, new)
  PROVE  \/ y \in table
         \/ y \in new /\ \A x \in table : x.key # y.key
         \/ \E a \in table, b \in new :
              a.key = b.key /\ y = Taking(a, b)
<1> DEFINE pairs == {q \in table \X new : q[1].key = q[2].key}
<1>1. CASE y \in {[p[1] EXCEPT !.income = p[2].income, !.dir = p[2].dir, !.open = p[2].open] : p \in pairs}
  <2>1. PICK p \in pairs : y = [p[1] EXCEPT !.income = p[2].income, !.dir = p[2].dir, !.open = p[2].open]
    BY <1>1
  <2>2. p[1] \in table /\ p[2] \in new /\ p[1].key = p[2].key
    OBVIOUS
  <2>3. y = Taking(p[1], p[2])
    BY <2>1 DEF Taking
  <2>4. QED
    BY <2>2, <2>3
<1>2. QED
  BY <1>1 DEF H!Upsert

(* The direction a closing exit shows is the position's.                       *)
LEMMA ExitSide ==
  ASSUME NEW t \in Trade, H!Closes(t)
  PROVE  (H!RestDir(t) = "LONG") = (t.held > 0)
<1>1. t.side \in {"BUY", "SELL"} /\ t.held \in Int
  BY DEF Trade
<1>2. CASE t.side = "BUY"
  BY <1>1, <1>2 DEF H!Closes, H!RestDir
<1>3. CASE t.side = "SELL"
  BY <1>1, <1>3 DEF H!Closes, H!RestDir
<1>4. QED
  BY <1>1, <1>2, <1>3

LEMMA RestRowsTrue ==
  ASSUME made \in Seq(Trade), NEW r \in H!RestRows
  PROVE  Shaped(r) /\ FetchedRow(r)
<1> DEFINE closing == {i \in DOMAIN made : H!Closes(made[i])}
<1> DEFINE latest == {i \in closing : \A j \in closing : made[j].time = made[i].time => j <= i}
<1>1. PICK i \in latest :
        r = [key |-> <<"rest", made[i].time>>, time |-> made[i].time, pnl |-> TRUE,
             income |-> 1, dir |-> H!RestDir(made[i]), open |-> H!FifoOpen(i), done |-> 0]
  BY DEF H!RestRows
<1>2. i \in DOMAIN made /\ H!Closes(made[i]) /\ made[i] \in Trade
  OBVIOUS
<1>3. r.key = <<"rest", r.time>> /\ r.time = made[i].time /\ r.dir = H!RestDir(made[i])
  BY <1>1
<1>4. Shaped(r)
  BY <1>1 DEF Shaped
<1>5. (r.dir = "LONG") = (made[i].held > 0)
  BY <1>2, <1>3, ExitSide
<1>6. QED
  BY <1>2, <1>3, <1>4, <1>5 DEF FetchedRow

(* Trades are only added; what is said of the rows stays.                      *)
LEMMA TradeAdded ==
  ASSUME Recorded, NEW side \in {"BUY", "SELL"}, H!Trades(side)
  PROVE  Recorded'
<1> DEFINE t == [time |-> now, side |-> side, held |-> H!Held]
<1>1. /\ made' = Append(made, t) /\ made \in Seq(Trade)
      /\ UNCHANGED <<now, sending, handling, fetching, history>>
  BY DEF H!Trades, Recorded
<1>2. t \in Trade
  <2>1. H!Held \in Int
    <3>1. CASE made = <<>>
      BY <3>1 DEF H!Held
    <3>2. CASE made # <<>>
      <4>1. H!Last(made) \in Trade
        <5>1. Len(made) \in 1 .. Len(made) /\ H!Last(made) = made[Len(made)]
          BY <1>1, <3>2 DEF H!Last
        <5>2. QED
          BY <1>1, <5>1
      <4>2. H!Last(made).held \in Int /\ H!Signed(H!Last(made)) \in Int
        BY <4>1 DEF Trade, H!Signed
      <4>3. QED
        BY <3>2, <4>2 DEF H!Held
    <3>3. QED
      BY <3>1, <3>2
  <2> HIDE DEF H!Held
  <2>2. QED
    BY <2>1 DEF Trade, Recorded
<1> HIDE DEF t
<1>3. /\ made' \in Seq(Trade) /\ DOMAIN made \subseteq DOMAIN made'
      /\ \A i \in DOMAIN made : made'[i] = made[i]
  BY <1>1, <1>2
<1>4. sending' \in Seq(DOMAIN made')
  <2>1. sending \in Seq(DOMAIN made)
    BY DEF Recorded
  <2>2. QED
    BY <1>1, <1>3, <2>1
<1>5. \A i \in DOMAIN made : H!Closes(made[i])' = H!Closes(made[i])
  BY <1>3 DEF H!Closes
<1>6. handling' \subseteq {i \in DOMAIN made : H!Closes(made[i])}'
  BY <1>1, <1>3, <1>5 DEF Recorded
<1>7. ASSUME NEW r, PluginRow(r) PROVE PluginRow(r)'
  <2>1. PICK i \in DOMAIN made :
        /\ r.key = <<"qt", i>> /\ r.time = made[i].time /\ r.pnl = H!Closes(made[i])
        /\ r.dir = H!Dir(made[i]) /\ (H!Closes(made[i]) <=> r.open # r.time)
        /\ r.done > 0 => r.open = r.done
    BY <1>7 DEF PluginRow
  <2>2. i \in DOMAIN made' /\ made'[i] = made[i]
    BY <1>3
  <2>3. QED
    BY <2>1, <2>2 DEF PluginRow, H!Closes, H!Dir
<1>8. ASSUME NEW r, FetchedRow(r) PROVE FetchedRow(r)'
  BY <1>3, <1>8 DEF FetchedRow, H!Closes
<1>9. \A r \in history' : RowTrue(r)'
  BY <1>1, <1>7, <1>8 DEF Recorded, RowTrue, Shaped
<1>10. \A r \in fetching'.rows : Shaped(r)' /\ FetchedRow(r)'
  BY <1>1, <1>8 DEF Recorded, Shaped
<1>11. QED
  BY <1>1, <1>3, <1>4, <1>6, <1>9, <1>10 DEF Recorded

(* A step that leaves the trades alone leaves what is said of a row alone.     *)
LEMMA RowStays ==
  ASSUME made' = made
  PROVE  /\ \A r : RowTrue(r)' <=> RowTrue(r)
         /\ \A r : FetchedRow(r)' <=> FetchedRow(r)
         /\ \A r : Shaped(r)' <=> Shaped(r)
  BY DEF RowTrue, Shaped, PluginRow, FetchedRow, H!Closes, H!Dir

LEMMA FillHandled == ASSUME Recorded, H!HandlesFill PROVE Recorded'
<1> DEFINE i == Head(sending)
<1>1. /\ made \in Seq(Trade) /\ sending \in Seq(DOMAIN made) /\ sending # <<>>
      /\ i \in DOMAIN made /\ sending' \in Seq(DOMAIN made)
      /\ UNCHANGED <<now, made, fetching>>
  BY DEF Recorded, H!HandlesFill
<1>2. handling' \subseteq {j \in DOMAIN made : H!Closes(made[j])}
  <2>1. handling' = IF H!Closes(made[i]) THEN {i} ELSE {}
    BY DEF H!HandlesFill
  <2>2. QED
    BY <1>1, <2>1
<1>3. \A r \in history : RowTrue(r)
  BY DEF Recorded
<1>4. \/ H!Mergeable(i) = {} /\ history' = H!Upsert(history, {H!QtRow(i)})
      \/ \E r \in H!Mergeable(i) : history' = H!Stored(i, r)
  BY DEF H!HandlesFill
<1> HIDE DEF i
<1>5. ASSUME NEW y \in history' PROVE RowTrue(y)
  <2>1. CASE y \in history
    BY <1>3, <2>1
  <2>2. CASE \E r \in H!Mergeable(i) : y = [r EXCEPT !.income = @ + 1]
    <3>1. PICK r \in history : y = [r EXCEPT !.income = @ + 1]
      BY <2>2 DEF H!Mergeable
    <3>2. RowTrue(r) /\ Shaped(r)
      BY <1>3 DEF RowTrue
    <3>3. /\ Shaped(y) /\ y.key = r.key /\ y.time = r.time /\ y.pnl = r.pnl /\ y.dir = r.dir
          /\ y.open = r.open /\ y.done = r.done
      BY <3>1, <3>2 DEF Shaped
    <3>4. QED
      BY <3>2, <3>3 DEF RowTrue, PluginRow, FetchedRow
  <2>3. ASSUME H!Mergeable(i) = {}, y \in H!Upsert(history, {H!QtRow(i)}) PROVE RowTrue(y)
    <3> DEFINE n == H!QtRow(i)
    <3>0. made[i] \in Trade
      BY <1>1
    <3>1. n = [key |-> <<"qt", i>>, time |-> made[i].time, pnl |-> H!Closes(made[i]),
               income |-> IF H!Closes(made[i]) THEN 1 ELSE 0, dir |-> H!Dir(made[i]),
               open |-> IF H!Closes(made[i]) THEN 0 ELSE made[i].time, done |-> 0]
      BY DEF H!QtRow
    <3> HIDE DEF n
    <3>2. /\ Shaped(n) /\ n.key = <<"qt", i>> /\ n.time = made[i].time /\ n.done = 0
          /\ n.dir = H!Dir(made[i])
          /\ n.open = IF H!Closes(made[i]) THEN 0 ELSE made[i].time
      BY <3>1 DEF Shaped
    <3>3. n.pnl = H!Closes(made[i])
      BY <3>1, Zenon
    <3>4. CASE y \in history
      BY <1>3, <3>4
    <3>5. CASE y = n
      <4>1. made[i].time # 0
        BY <3>0 DEF Trade
      <4>2. H!Closes(made[i]) <=> n.open # n.time
        BY <3>2, <4>1
      <4>3. ~(n.done > 0)
        BY <3>2
      <4>4. PluginRow(n)
        BY <1>1, <3>2, <3>3, <4>2, <4>3 DEF PluginRow
      <4>5. QED
        BY <3>2, <3>5, <4>4 DEF RowTrue
    <3>6. ASSUME NEW a \in history, a.key = n.key, y = Taking(a, n)
          PROVE  RowTrue(y)
      <4>1. Shaped(a) /\ PluginRow(a)
        <5>1. RowTrue(a) /\ a.key = <<"qt", i>>
          BY <1>3, <3>2, <3>6
        <5>2. ~FetchedRow(a)
          BY <5>1 DEF FetchedRow
        <5>3. QED
          BY <5>1, <5>2 DEF RowTrue
      <4>2. /\ a.time = made[i].time /\ a.pnl = H!Closes(made[i]) /\ a.dir = H!Dir(made[i])
            /\ (H!Closes(made[i]) <=> a.open # a.time) /\ (a.done > 0 => a.open = a.done)
        BY <3>2, <3>6, <4>1 DEF PluginRow
      <4>3. ~H!Closes(made[i])
        BY <2>3, <4>2 DEF H!Mergeable
      <4>4. n.dir = a.dir /\ n.open = a.open
        BY <3>2, <4>2, <4>3
      <4>5. /\ Shaped(y) /\ y.key = a.key /\ y.time = a.time /\ y.pnl = a.pnl /\ y.dir = a.dir
            /\ y.open = a.open /\ y.done = a.done
        BY <3>6, <4>1, <4>4, TakenRow
      <4>6. QED
        BY <4>1, <4>5 DEF RowTrue, PluginRow
    <3>7. \/ y \in history
          \/ y = n
          \/ \E a \in history : /\ a.key = n.key
                            /\ y = Taking(a, n)
      <4>1. y \in H!Upsert(history, {n})
        BY <2>3 DEF n
      <4>2. \/ y \in history
            \/ y \in {n}
            \/ \E a \in history, b \in {n} :
                 a.key = b.key /\ y = Taking(a, b)
        BY <4>1, UpsertedRow
      <4>3. QED
        BY <4>2
    <3>8. QED
      BY <3>4, <3>5, <3>6, <3>7
  <2>4. QED
    BY <1>4, <2>1, <2>2, <2>3 DEF H!Stored
<1>6. QED
  BY <1>1, <1>2, <1>5, RowStays DEF Recorded

(* The opening time found for a closing fill is not that of the fill.          *)
LEMMA OpenElsewhere == ASSUME NEW t, H!OpenOf(t) # 0 PROVE H!OpenOf(t) # t
  BY DEF H!OpenOf

LEMMA OpenResolved == ASSUME Recorded, NEW i \in handling, H!ResolvesOpen(i) PROVE Recorded'
<1> DEFINE o == H!OpenOf(made[i].time)
<1>1. /\ handling' = {} /\ UNCHANGED <<now, made, sending, fetching>>
      /\ history' = {IF H!Resolvable(r, i) THEN [r EXCEPT !.open = o] ELSE r : r \in history}
      /\ H!Closes(made[i])
  BY DEF H!ResolvesOpen, Recorded
<1> HIDE DEF o
<1>2. \A r \in history : RowTrue(r)
  BY DEF Recorded
<1>3. ASSUME NEW r \in history, H!Resolvable(r, i) PROVE RowTrue([r EXCEPT !.open = o])
  <2> DEFINE y == [r EXCEPT !.open = o]
  <2>1. /\ r.key = <<"qt", i>> /\ r.open \in {0, made[i].time} /\ o # 0
    BY <1>3 DEF H!Resolvable, o
  <2>2. o # made[i].time
    BY <2>1, OpenElsewhere DEF o
  <2>3. Shaped(r) /\ PluginRow(r)
    <3>1. ~FetchedRow(r)
      BY <2>1 DEF FetchedRow
    <3>2. QED
      BY <1>2, <3>1 DEF RowTrue
  <2>4. /\ i \in DOMAIN made /\ r.time = made[i].time /\ r.pnl = H!Closes(made[i]) /\ r.dir = H!Dir(made[i])
        /\ r.open # r.time /\ (r.done > 0 => r.open = r.done)
    <3>1. PICK j \in DOMAIN made :
          /\ r.key = <<"qt", j>> /\ r.time = made[j].time /\ r.pnl = H!Closes(made[j])
          /\ r.dir = H!Dir(made[j]) /\ (H!Closes(made[j]) <=> r.open # r.time)
          /\ r.done > 0 => r.open = r.done
      BY <2>3 DEF PluginRow
    <3>2. j = i
      BY <2>1, <3>1
    <3>3. QED
      BY <1>1, <3>1, <3>2
  <2>5. ~(r.done > 0)
    BY <2>1, <2>4
  <2>6. /\ Shaped(y) /\ y.key = r.key /\ y.time = r.time /\ y.pnl = r.pnl /\ y.dir = r.dir
        /\ y.open = o /\ y.done = r.done
    BY <2>3 DEF Shaped
  <2> HIDE DEF y
  <2>7. PluginRow(y)
    BY <1>1, <2>1, <2>2, <2>4, <2>5, <2>6 DEF PluginRow
  <2>8. QED
    BY <2>6, <2>7 DEF RowTrue, y
<1>4. \A y \in history' : RowTrue(y)
  BY <1>1, <1>2, <1>3
<1>5. QED
  BY <1>1, <1>4, RowStays DEF Recorded

LEMMA FetchEnded == ASSUME Recorded, H!FetchEnds PROVE Recorded'
<1>1. /\ UNCHANGED <<now, made, sending, handling>> /\ fetching'.rows = {}
      /\ history' = H!Upsert(history, fetching.rows) \/ history' = history
  BY DEF H!FetchEnds
<1>2. \A r \in history : RowTrue(r)
  BY DEF Recorded
<1>3. \A r \in fetching.rows : Shaped(r) /\ FetchedRow(r)
  BY DEF Recorded
<1>4. ASSUME NEW a \in history, NEW b \in fetching.rows, a.key = b.key
      PROVE  RowTrue(Taking(a, b))
  <2> DEFINE y == Taking(a, b)
  <2>1. b.key = <<"rest", b.time>> /\ FetchedRow(b)
    BY <1>3 DEF FetchedRow
  <2>2. ~PluginRow(a)
    BY <1>4, <2>1 DEF PluginRow
  <2>3. Shaped(a) /\ FetchedRow(a)
    BY <1>2, <2>2 DEF RowTrue
  <2>4. a.time = b.time
    BY <1>4, <2>1, <2>3 DEF FetchedRow
  <2>5. Shaped(y) /\ y.key = b.key /\ y.time = b.time /\ y.dir = b.dir
    BY <1>4, <2>3, <2>4, TakenRow
  <2> HIDE DEF y
  <2>6. FetchedRow(y)
    BY <2>1, <2>5 DEF FetchedRow
  <2>7. QED
    BY <2>5, <2>6 DEF RowTrue, y
<1>5. \A y \in H!Upsert(history, fetching.rows) : RowTrue(y)
  <2> TAKE y \in H!Upsert(history, fetching.rows)
  <2>1. CASE y \in history \/ y \in fetching.rows
    BY <1>2, <1>3, <2>1 DEF RowTrue
  <2>2. \/ y \in history
        \/ y \in fetching.rows
        \/ \E a \in history, b \in fetching.rows :
             a.key = b.key /\ y = Taking(a, b)
    BY UpsertedRow
  <2>3. QED
    BY <1>4, <2>1, <2>2
<1>6. \A y \in history' : RowTrue(y)
  BY <1>1, <1>2, <1>5
<1>7. QED
  BY <1>1, <1>6, RowStays DEF Recorded

LEMMA RowReconciled == ASSUME Recorded, NEW r \in history, H!Reconciles(r) PROVE Recorded'
<1> DEFINE y == [r EXCEPT !.done = r.open]
<1>1. /\ UNCHANGED <<now, made, sending, handling, fetching>>
      /\ history' = (history \ {r}) \cup {y}
  BY DEF H!Reconciles
<1>2. \A x \in history : RowTrue(x)
  BY DEF Recorded
<1>3. Shaped(r) /\ (PluginRow(r) \/ FetchedRow(r))
  BY <1>2 DEF RowTrue
<1>4. /\ Shaped(y) /\ y.key = r.key /\ y.time = r.time /\ y.pnl = r.pnl /\ y.dir = r.dir
      /\ y.open = r.open /\ y.done = r.open
  BY <1>3 DEF Shaped
<1> HIDE DEF y
<1>5. PluginRow(r) => PluginRow(y)
  BY <1>4 DEF PluginRow
<1>6. FetchedRow(r) => FetchedRow(y)
  BY <1>4 DEF FetchedRow
<1>7. \A x \in history' : RowTrue(x)
  BY <1>1, <1>2, <1>3, <1>4, <1>5, <1>6 DEF RowTrue
<1>8. QED
  BY <1>1, <1>7, RowStays DEF Recorded

LEMMA RecordedStep == Recorded /\ [H!Next]_(H!vars) => Recorded'
<1> SUFFICES ASSUME Recorded, [H!Next]_(H!vars) PROVE Recorded'
  OBVIOUS
<1>1. CASE H!Passes
  <2>1. now' \in Nat \ {0} /\ UNCHANGED <<made, sending, handling, fetching, history>>
    BY <1>1 DEF H!Passes, Recorded
  <2>2. QED
    BY <2>1, RowStays DEF Recorded
<1>2. CASE H!PluginStarts \/ H!PluginStops
  <2>1. UNCHANGED <<now, made, handling, fetching, history>>
    BY <1>2 DEF H!PluginStarts, H!PluginStops
  <2>2. sending' \in Seq(DOMAIN made)
    <3>1. CASE H!PluginStops
      BY <3>1 DEF H!PluginStops
    <3>2. CASE H!PluginStarts
      <4>1. made \in Seq(Trade)
        BY DEF Recorded
      <4>2. DOMAIN made = 1 .. Len(made) /\ Len(made) \in Nat
        BY <4>1
      <4>3. sending' = [j \in 1 .. Len(made) |-> j]
        BY <3>2, <4>2 DEF H!PluginStarts
      <4>4. QED
        BY <4>2, <4>3
    <3>3. QED
      BY <1>2, <3>1, <3>2
  <2>3. QED
    BY <2>1, <2>2, RowStays DEF Recorded
<1>3. CASE H!HandlesFill
  BY <1>3, FillHandled
<1>4. CASE H!FetchStarts
  <2>1. UNCHANGED <<now, made, sending, handling, history>> /\ fetching'.rows = H!RestRows
    BY <1>4 DEF H!FetchStarts
  <2>2. \A r \in fetching'.rows : Shaped(r) /\ FetchedRow(r)
    BY <2>1, RestRowsTrue DEF Recorded
  <2>3. QED
    BY <2>1, <2>2, RowStays DEF Recorded
<1>5. CASE H!FetchEnds
  BY <1>5, FetchEnded
<1>6. ASSUME NEW side \in {"BUY", "SELL"}, H!Trades(side) PROVE Recorded'
  BY <1>6, TradeAdded
<1>7. ASSUME NEW i \in handling, H!ResolvesOpen(i) PROVE Recorded'
  BY <1>7, OpenResolved
<1>8. ASSUME NEW r \in history, H!Reconciles(r) PROVE Recorded'
  BY <1>8, RowReconciled
<1>9. CASE UNCHANGED H!vars
  <2>1. UNCHANGED <<now, made, sending, handling, fetching, history>>
    BY <1>9 DEF H!vars
  <2>2. QED
    BY <2>1, RowStays DEF Recorded
<1>10. QED
  BY <1>1, <1>2, <1>3, <1>4, <1>5, <1>6, <1>7, <1>8, <1>9 DEF H!Next

(* A trade is calculated over the life its row shows, and a fetched row has    *)
(* the direction of the position.                                              *)
THEOREM HistoryStaysTrue == H!Spec => [](H!LifeKept /\ H!RestDirTrue)
<1>1. H!Init => Recorded
  <2> SUFFICES ASSUME H!Init PROVE Recorded
    OBVIOUS
  <2>1. now = 1 /\ made = <<>> /\ sending = <<>> /\ handling = {} /\ history = {} /\ fetching.rows = {}
    BY DEF H!Init
  <2>2. QED
    BY <2>1 DEF Recorded
<1>2. QED
  BY <1>1, RecordedStep, RowsTell, PTL DEF H!Spec

-----------------------------------------------------------------------------
(* The plugin's first start (History).  First says where it stands: of the     *)
(* trades up to number n those after k are still to come, and those before are *)
(* counted, each in the row of one trade.                                      *)

(* What is counted in a row: the closing ones of the first k trades that went  *)
(* into the row of trade number m.                                             *)
ClosingOnes(k) == {i \in 1 .. k : H!Closes(made[i])}
InRow(key, k, into) == {i \in ClosingOnes(k) : key = <<"qt", into[i]>>}

(* Of the first k trades sent, and no other, the rows are.                     *)
OfFirst(k) ==
    /\ \A r \in history : Shaped(r) /\ \E j \in 1 .. k : r.key = <<"qt", j>>
    /\ \A r, s \in history : r.key = s.key => r = s

Booked(k, into) ==
    /\ into \in [1 .. k -> 1 .. k]
    /\ \A i \in ClosingOnes(k) : \E r \in history :
          r.key = <<"qt", into[i]>> /\ r.time = made[i].time /\ r.dir = H!Dir(made[i])
    /\ \A r \in history : r.income = Cardinality(InRow(r.key, k, into))

(* The plugin's first start: trades up to n are sent, of which k have come.    *)
FirstUpTo(n, k) ==
    /\ sending = [j \in 1 .. n - k |-> k + j]
    /\ OfFirst(k) /\ \E into : Booked(k, into)

First ==
    /\ made \in Seq(Trade) /\ starts \in Nat
    /\ starts = 0 => ~brings /\ sending = <<>> /\ handling = {} /\ (~fetched => history = {})
    /\ starts = 1 /\ brings /\ ~fetched =>
         \E n \in 0 .. Len(made) : \E k \in 0 .. n : FirstUpTo(n, k)

LEMMA CardinalityOfPast == ASSUME NEW S PROVE H!Cardinality(S) = Cardinality(S)
  BY DEF H!Cardinality, Cardinality

(* With nothing left to send, all that were sent are counted.                  *)
LEMMA FirstTold == First => H!FirstStartExact
<1> SUFFICES ASSUME First, starts = 1, brings, sending = <<>>, ~fetched
             PROVE  \E n \in 0 .. Len(made) : \E into \in [1 .. n -> 1 .. n] : H!CountedIn(n, into)
  BY DEF H!FirstStartExact
<1>0. PICK n \in 0 .. Len(made) : \E k \in 0 .. n : FirstUpTo(n, k)
  BY DEF First
<1>1. PICK k \in 0 .. n : FirstUpTo(n, k)
  BY <1>0
<1>2. PICK into : Booked(k, into)
  BY <1>1 DEF FirstUpTo
<1>3. Len(made) \in Nat /\ n \in Int /\ k \in Int
  BY DEF First
<1>4. k = n
  <2>1. sending = [j \in 1 .. n - k |-> k + j]
    BY <1>1 DEF FirstUpTo
  <2>2. Len(sending) = n - k
    BY <1>3, <2>1
  <2>3. Len(sending) = 0
    OBVIOUS
  <2> QED
    BY <1>3, <2>2, <2>3
<1>5. H!CountedIn(k, into)
  <2> DEFINE closing == {i \in 1 .. k : H!Closes(made[i])}
  <2>1. closing = ClosingOnes(k)
    BY DEF ClosingOnes
  <2>2. ASSUME NEW r \in history
        PROVE  r.income = Cardinality({i \in closing : r.key = <<"qt", into[i]>>})
    <3>1. r.income = Cardinality(InRow(r.key, k, into))
      BY <1>2 DEF Booked
    <3>2. InRow(r.key, k, into) = {i \in closing : r.key = <<"qt", into[i]>>}
      BY <2>1 DEF InRow
    <3> QED
      BY <3>1, <3>2
  <2>3. \A i \in closing : \E r \in history :
          r.key = <<"qt", into[i]>> /\ r.time = made[i].time /\ r.dir = H!Dir(made[i])
    BY <1>2, <2>1 DEF Booked
  <2> HIDE DEF closing
  <2>4. /\ \A i \in closing : \E r \in history :
              r.key = <<"qt", into[i]>> /\ r.time = made[i].time /\ r.dir = H!Dir(made[i])
        /\ \A r \in history : r.income = Cardinality({i \in closing : r.key = <<"qt", into[i]>>})
    BY <2>2, <2>3, Zenon
  <2> QED
    BY <2>4, CardinalityOfPast DEF H!CountedIn, closing
<1> QED
  BY <1>1, <1>2, <1>4, <1>5 DEF Booked

(* Rows that keep their key, time, direction and income count what they did.   *)
AsOld(y, r) == Shaped(y) /\ y.key = r.key /\ y.time = r.time /\ y.dir = r.dir /\ y.income = r.income

Carried ==
    /\ \A y \in history' : \E r \in history : AsOld(y, r)
    /\ \A r \in history : \E y \in history' : AsOld(y, r)
    /\ (\A y, z \in history : y.key = z.key => y = z) => \A y, z \in history' : y.key = z.key => y = z

(* Later trades leave the earlier ones as they are.                            *)
LEMMA ClosingStays ==
  ASSUME NEW k \in Nat, \A i \in 1 .. k : made'[i] = made[i]
  PROVE  /\ ClosingOnes(k)' = ClosingOnes(k)
         /\ \A key, into : InRow(key, k, into)' = InRow(key, k, into)
<1>1. ClosingOnes(k)' = ClosingOnes(k)
  BY DEF ClosingOnes, H!Closes
<1> QED
  BY <1>1 DEF InRow

LEMMA CountsStay ==
  ASSUME NEW k \in Nat, NEW into, OfFirst(k), Booked(k, into), Carried, \A i \in 1 .. k : made'[i] = made[i]
  PROVE  OfFirst(k)' /\ Booked(k, into)'
<1>1. OfFirst(k)'
  <2>1. ASSUME NEW y \in history' PROVE Shaped(y)' /\ \E j \in 1 .. k : y.key = <<"qt", j>>
    <3>1. PICK r \in history : AsOld(y, r)
      BY DEF Carried
    <3> QED
      BY <3>1 DEF AsOld, OfFirst, Shaped
  <2> QED
    BY <2>1 DEF OfFirst, Carried
<1>2. \A i \in ClosingOnes(k)' : \E y \in history' :
         y.key = <<"qt", into[i]>> /\ y.time = made'[i].time /\ y.dir = H!Dir(made[i])'
  <2> TAKE i \in ClosingOnes(k)'
  <2>1. i \in ClosingOnes(k) /\ made'[i] = made[i] /\ H!Dir(made[i])' = H!Dir(made[i])
    BY ClosingStays DEF ClosingOnes, H!Dir
  <2>2. PICK r \in history : r.key = <<"qt", into[i]>> /\ r.time = made[i].time /\ r.dir = H!Dir(made[i])
    BY <2>1 DEF Booked
  <2>3. PICK y \in history' : AsOld(y, r)
    BY DEF Carried
  <2> QED
    BY <2>1, <2>2, <2>3 DEF AsOld
<1>3. ASSUME NEW y \in history' PROVE y.income = Cardinality(InRow(y.key, k, into)')
  <2>1. PICK r \in history : AsOld(y, r)
    BY DEF Carried
  <2>2. InRow(y.key, k, into)' = InRow(y.key, k, into)
    BY ClosingStays
  <2>3. r.income = Cardinality(InRow(r.key, k, into)) /\ y.key = r.key /\ y.income = r.income
    BY <2>1 DEF Booked, AsOld
  <2> QED
    BY <2>2, <2>3
<1>4. into \in [1 .. k -> 1 .. k]
  BY DEF Booked
<1> QED
  BY <1>1, <1>2, <1>3, <1>4 DEF Booked

(* Trade number k + 1 goes into the row of number m.                           *)
Wider(k, m, into) == [j \in 1 .. k + 1 |-> IF j = k + 1 THEN m ELSE into[j]]

(* A trade that is not yet counted is counted in the row it goes into.         *)
LEMMA OneMore ==
  ASSUME NEW k \in Nat, NEW into \in [1 .. k -> 1 .. k], NEW m \in 1 .. k + 1, H!Closes(made[k + 1])
  PROVE  LET wider == Wider(k, m, into)
         IN  /\ wider \in [1 .. k + 1 -> 1 .. k + 1]
             /\ Cardinality(InRow(<<"qt", m>>, k + 1, wider)) = Cardinality(InRow(<<"qt", m>>, k, into)) + 1
             /\ Cardinality(InRow(<<"qt", m>>, k, into)) \in Nat
             /\ \A key : key # <<"qt", m>> => InRow(key, k + 1, wider) = InRow(key, k, into)
             /\ \A i \in ClosingOnes(k) : wider[i] = into[i]
             /\ wider[k + 1] = m
             /\ ClosingOnes(k + 1) = ClosingOnes(k) \cup {k + 1}
<1> DEFINE wider == Wider(k, m, into)
<1>1. wider \in [1 .. k + 1 -> 1 .. k + 1]
  BY DEF Wider
<1>2. wider[k + 1] = m /\ \A i \in 1 .. k : wider[i] = into[i] /\ i # k + 1
  BY DEF Wider
<1> HIDE DEF wider
<1>3. ClosingOnes(k + 1) = ClosingOnes(k) \cup {k + 1}
  <2>1. 1 .. k + 1 = (1 .. k) \cup {k + 1}
    OBVIOUS
  <2> QED
    BY <2>1 DEF ClosingOnes
<1>4. \A i \in ClosingOnes(k) : i \in 1 .. k
  BY DEF ClosingOnes
<1>5. \A key : InRow(key, k + 1, wider) = InRow(key, k, into) \cup (IF key = <<"qt", m>> THEN {k + 1} ELSE {})
  BY <1>2, <1>3, <1>4 DEF InRow
<1> DEFINE in == InRow(<<"qt", m>>, k, into)
<1>6. IsFiniteSet(in) /\ Cardinality(in) \in Nat
  <2>1. in \in SUBSET (1 .. k)
    BY <1>4 DEF InRow
  <2>2. IsFiniteSet(1 .. k)
    BY FS_Interval
  <2> HIDE DEF in
  <2>3. IsFiniteSet(in)
    BY <2>1, <2>2, FS_Subset
  <2> QED
    BY <2>3, FS_CardinalityType
<1>7. k + 1 \notin in
  BY <1>2, <1>4 DEF InRow
<1>8. InRow(<<"qt", m>>, k + 1, wider) = in \cup {k + 1}
  BY <1>5
<1> HIDE DEF in
<1>9. Cardinality(in \cup {k + 1}) = Cardinality(in) + 1
  BY <1>6, <1>7, FS_AddElement
<1>10. \A key : key # <<"qt", m>> => InRow(key, k + 1, wider) = InRow(key, k, into)
  BY <1>5
<1>11. \A i \in ClosingOnes(k) : wider[i] = into[i]
  BY <1>2, <1>4
<1>12. Cardinality(InRow(<<"qt", m>>, k + 1, wider)) = Cardinality(InRow(<<"qt", m>>, k, into)) + 1
  BY <1>8, <1>9 DEF in
<1>13. Cardinality(InRow(<<"qt", m>>, k, into)) \in Nat
  BY <1>6 DEF in
<1> QED
  BY <1>1, <1>2, <1>3, <1>10, <1>11, <1>12, <1>13 DEF wider

(* Said of the table as it will be, with the trades as they are.               *)
LEMMA BookedNow ==
  ASSUME NEW k, NEW w, made' = made, w \in [1 .. k -> 1 .. k],
         \A r \in history' : r.income = Cardinality(InRow(r.key, k, w)),
         \A i \in ClosingOnes(k) : \E r \in history' :
            r.key = <<"qt", w[i]>> /\ r.time = made[i].time /\ r.dir = H!Dir(made[i])
  PROVE  Booked(k, w)'
  BY DEF Booked, InRow, ClosingOnes, H!Closes, H!Dir

(* An opening trade is counted nowhere.                                        *)
LEMMA NoMore ==
  ASSUME NEW k \in Nat, NEW into \in [1 .. k -> 1 .. k], ~H!Closes(made[k + 1])
  PROVE  LET wider == Wider(k, k + 1, into)
         IN  /\ wider \in [1 .. k + 1 -> 1 .. k + 1]
             /\ \A key : InRow(key, k + 1, wider) = InRow(key, k, into)
             /\ \A i \in ClosingOnes(k) : wider[i] = into[i]
             /\ ClosingOnes(k + 1) = ClosingOnes(k)
<1> DEFINE wider == Wider(k, k + 1, into)
<1>1. wider \in [1 .. k + 1 -> 1 .. k + 1]
  BY DEF Wider
<1>2. \A i \in 1 .. k : wider[i] = into[i]
  BY DEF Wider
<1> HIDE DEF wider
<1>3. ClosingOnes(k + 1) = ClosingOnes(k)
  <2>1. 1 .. k + 1 = (1 .. k) \cup {k + 1}
    OBVIOUS
  <2> QED
    BY <2>1 DEF ClosingOnes
<1>4. \A i \in ClosingOnes(k) : i \in 1 .. k
  BY DEF ClosingOnes
<1>5. \A key : InRow(key, k + 1, wider) = InRow(key, k, into)
  BY <1>2, <1>3, <1>4 DEF InRow
<1> QED
  BY <1>1, <1>2, <1>3, <1>4, <1>5 DEF wider

(* In the row of a trade that has not come nothing is counted.                 *)
LEMMA NothingYet ==
  ASSUME NEW k \in Nat, NEW into \in [1 .. k -> 1 .. k]
  PROVE  Cardinality(InRow(<<"qt", k + 1>>, k, into)) = 0
<1>1. \A i \in ClosingOnes(k) : i \in 1 .. k
  BY DEF ClosingOnes
<1>2. InRow(<<"qt", k + 1>>, k, into) = {}
  <2> SUFFICES ASSUME NEW i \in ClosingOnes(k), <<"qt", k + 1>> = <<"qt", into[i]>> PROVE FALSE
    BY DEF InRow
  <2>1. into[i] \in 1 .. k
    BY <1>1
  <2> QED
    BY <2>1
<1> QED
  BY <1>2, FS_EmptySet

(* A fill without a row to be added to gets a row of its own.                  *)
LEMMA OwnRow ==
  ASSUME NEW k \in Nat, NEW into, OfFirst(k), Booked(k, into),
         history' = H!Upsert(history, {H!QtRow(k + 1)}), made' = made
  PROVE  OfFirst(k + 1)' /\ \E w : Booked(k + 1, w)'
<1> DEFINE q == H!QtRow(k + 1)
           t == made[k + 1]
           w == Wider(k, k + 1, into)
<1>1. /\ q.key = <<"qt", k + 1>> /\ q.time = t.time /\ q.dir = H!Dir(t) /\ Shaped(q)
      /\ q.income = IF H!Closes(t) THEN 1 ELSE 0
  BY DEF H!QtRow, Shaped
<1> HIDE DEF q
<1>2. \A r \in history : r.key # q.key
  BY <1>1 DEF OfFirst
<1>3. history' = history \cup {q}
  <2>1. \A y \in H!Upsert(history, {q}) : y \in history \cup {q}
    <3> TAKE y \in H!Upsert(history, {q})
    <3>1. \/ y \in history
          \/ y \in {q} /\ \A x \in history : x.key # y.key
          \/ \E a \in history, b \in {q} : a.key = b.key /\ y = Taking(a, b)
      BY UpsertedRow
    <3> QED
      BY <1>2, <3>1
  <2>2. history \subseteq H!Upsert(history, {q}) /\ q \in H!Upsert(history, {q})
    BY <1>2 DEF H!Upsert
  <2> QED
    BY <2>1, <2>2 DEF q
<1>4. OfFirst(k + 1)'
  <2>1. \A r \in history' : Shaped(r)' /\ \E j \in 1 .. k + 1 : r.key = <<"qt", j>>
    <3> TAKE r \in history'
    <3>1. CASE r \in history
      BY <3>1 DEF OfFirst, Shaped
    <3>2. CASE r = q
      BY <1>1, <3>2 DEF Shaped
    <3> QED
      BY <1>3, <3>1, <3>2
  <2>2. \A r, s \in history' : r.key = s.key => r = s
    BY <1>2, <1>3 DEF OfFirst
  <2> QED
    BY <2>1, <2>2 DEF OfFirst
<1>5. /\ into \in [1 .. k -> 1 .. k]
      /\ \A i \in ClosingOnes(k) : \E r \in history :
            r.key = <<"qt", into[i]>> /\ r.time = made[i].time /\ r.dir = H!Dir(made[i])
      /\ \A r \in history : r.income = Cardinality(InRow(r.key, k, into))
  BY DEF Booked
<1>6. Cardinality(InRow(q.key, k, into)) = 0
  BY <1>1, <1>5, NothingYet
<1> HIDE DEF w
<1>8. CASE H!Closes(t)
  <2>1. /\ w \in [1 .. k + 1 -> 1 .. k + 1]
        /\ Cardinality(InRow(q.key, k + 1, w)) = Cardinality(InRow(q.key, k, into)) + 1
        /\ \A key : key # q.key => InRow(key, k + 1, w) = InRow(key, k, into)
        /\ \A i \in ClosingOnes(k) : w[i] = into[i]
        /\ w[k + 1] = k + 1 /\ ClosingOnes(k + 1) = ClosingOnes(k) \cup {k + 1}
    <3>1. PICK m \in 1 .. k + 1 : m = k + 1
      OBVIOUS
    <3>2. /\ Wider(k, m, into) \in [1 .. k + 1 -> 1 .. k + 1]
          /\ Cardinality(InRow(<<"qt", m>>, k + 1, Wider(k, m, into))) = Cardinality(InRow(<<"qt", m>>, k, into)) + 1
          /\ \A key : key # <<"qt", m>> => InRow(key, k + 1, Wider(k, m, into)) = InRow(key, k, into)
          /\ \A i \in ClosingOnes(k) : Wider(k, m, into)[i] = into[i]
          /\ Wider(k, m, into)[k + 1] = m /\ ClosingOnes(k + 1) = ClosingOnes(k) \cup {k + 1}
      <4>1. into \in [1 .. k -> 1 .. k] /\ H!Closes(made[k + 1])
        BY <1>5, <1>8
      <4> QED
        BY <4>1, OneMore
    <3>3. Wider(k, m, into) = w
      BY <3>1 DEF w
    <3> QED
      BY <1>1, <3>1, <3>2, <3>3
  <2>2. \A r \in history' : r.income = Cardinality(InRow(r.key, k + 1, w))
    <3>1. \A r \in history : r.income = Cardinality(InRow(r.key, k + 1, w))
      BY <1>2, <1>5, <2>1
    <3>2. q.income = Cardinality(InRow(q.key, k + 1, w))
      BY <1>1, <1>6, <1>8, <2>1
    <3> QED
      BY <1>3, <3>1, <3>2
  <2>3. \A i \in ClosingOnes(k + 1) : \E r \in history' :
          r.key = <<"qt", w[i]>> /\ r.time = made[i].time /\ r.dir = H!Dir(made[i])
    BY <1>1, <1>3, <1>5, <2>1
  <2> QED
    BY <1>4, <2>1, <2>2, <2>3, BookedNow
<1>9. CASE ~H!Closes(t)
  <2>1. /\ w \in [1 .. k + 1 -> 1 .. k + 1]
        /\ \A key : InRow(key, k + 1, w) = InRow(key, k, into)
        /\ \A i \in ClosingOnes(k) : w[i] = into[i]
        /\ ClosingOnes(k + 1) = ClosingOnes(k)
    BY <1>5, <1>9, NoMore DEF w
  <2>2. \A r \in history' : r.income = Cardinality(InRow(r.key, k + 1, w))
    BY <1>1, <1>2, <1>3, <1>5, <1>6, <1>9, <2>1
  <2>3. \A i \in ClosingOnes(k + 1) : \E r \in history' :
          r.key = <<"qt", w[i]>> /\ r.time = made[i].time /\ r.dir = H!Dir(made[i])
    BY <1>3, <1>5, <2>1
  <2> QED
    BY <1>4, <2>1, <2>2, <2>3, BookedNow
<1> QED
  BY <1>8, <1>9

(* A closing fill that finds a row of its time and direction is counted there. *)
LEMMA SharedRow ==
  ASSUME NEW k \in Nat, NEW into, OfFirst(k), Booked(k, into),
         NEW r \in H!Mergeable(k + 1), history' = H!Stored(k + 1, r), made' = made
  PROVE  OfFirst(k + 1)' /\ \E w : Booked(k + 1, w)'
<1> DEFINE t == made[k + 1]
           y == [r EXCEPT !.income = @ + 1]
<1>1. r \in history /\ H!Closes(t) /\ r.time = t.time /\ r.dir = H!Dir(t)
  BY DEF H!Mergeable
<1>2. history' = (history \ {r}) \cup {y}
  BY DEF H!Stored
<1>3. PICK m \in 1 .. k : r.key = <<"qt", m>>
  BY <1>1 DEF OfFirst
<1> DEFINE w == Wider(k, m, into)
<1>4. Shaped(r) /\ r.income \in Nat
  <2>1. into \in [1 .. k -> 1 .. k] /\ r.income = Cardinality(InRow(<<"qt", m>>, k, into))
    BY <1>1, <1>3 DEF Booked
  <2>2. InRow(<<"qt", m>>, k, into) \in SUBSET (1 .. k)
    BY DEF InRow, ClosingOnes
  <2>3. IsFiniteSet(1 .. k)
    BY FS_Interval
  <2>4. IsFiniteSet(InRow(<<"qt", m>>, k, into))
    BY <2>2, <2>3, FS_Subset
  <2> QED
    BY <1>1, <2>1, <2>4, FS_CardinalityType DEF OfFirst
<1>5. Shaped(y) /\ y.key = r.key /\ y.time = r.time /\ y.dir = r.dir /\ y.income = r.income + 1
  BY <1>4 DEF Shaped
<1> HIDE DEF y
<1>6. \A x \in history : x.key = r.key => x = r
  BY <1>1 DEF OfFirst
<1>7. OfFirst(k + 1)'
  <2>1. \A x \in history' : Shaped(x)' /\ \E j \in 1 .. k + 1 : x.key = <<"qt", j>>
    <3> TAKE x \in history'
    <3>1. CASE x \in history
      BY <3>1 DEF OfFirst, Shaped
    <3>2. CASE x = y
      BY <1>3, <1>5, <3>2 DEF Shaped
    <3> QED
      BY <1>2, <3>1, <3>2
  <2>2. \A x, z \in history' : x.key = z.key => x = z
    BY <1>2, <1>5, <1>6 DEF OfFirst
  <2> QED
    BY <2>1, <2>2 DEF OfFirst
<1>8. /\ into \in [1 .. k -> 1 .. k]
      /\ \A i \in ClosingOnes(k) : \E x \in history :
            x.key = <<"qt", into[i]>> /\ x.time = made[i].time /\ x.dir = H!Dir(made[i])
      /\ \A x \in history : x.income = Cardinality(InRow(x.key, k, into))
  BY DEF Booked
<1> HIDE DEF w
<1>9. /\ w \in [1 .. k + 1 -> 1 .. k + 1]
      /\ Cardinality(InRow(r.key, k + 1, w)) = Cardinality(InRow(r.key, k, into)) + 1
      /\ \A key : key # r.key => InRow(key, k + 1, w) = InRow(key, k, into)
      /\ \A i \in ClosingOnes(k) : w[i] = into[i]
      /\ w[k + 1] = m /\ ClosingOnes(k + 1) = ClosingOnes(k) \cup {k + 1}
  <2>1. m \in 1 .. k + 1
    BY <1>3
  <2>2. /\ w \in [1 .. k + 1 -> 1 .. k + 1]
        /\ Cardinality(InRow(<<"qt", m>>, k + 1, w)) = Cardinality(InRow(<<"qt", m>>, k, into)) + 1
        /\ \A key : key # <<"qt", m>> => InRow(key, k + 1, w) = InRow(key, k, into)
        /\ \A i \in ClosingOnes(k) : w[i] = into[i]
        /\ w[k + 1] = m /\ ClosingOnes(k + 1) = ClosingOnes(k) \cup {k + 1}
    BY <1>1, <1>8, <2>1, OneMore DEF w
  <2> QED
    BY <1>3, <2>2
<1>10. \A x \in history' : x.income = Cardinality(InRow(x.key, k + 1, w))
  BY <1>1, <1>2, <1>5, <1>6, <1>8, <1>9
<1>11. \A i \in ClosingOnes(k + 1) : \E x \in history' :
         x.key = <<"qt", w[i]>> /\ x.time = made[i].time /\ x.dir = H!Dir(made[i])
  <2> TAKE i \in ClosingOnes(k + 1)
  <2>1. CASE i = k + 1
    BY <1>1, <1>2, <1>3, <1>5, <1>9, <2>1
  <2>2. CASE i \in ClosingOnes(k)
    <3>1. PICK x \in history : x.key = <<"qt", into[i]>> /\ x.time = made[i].time /\ x.dir = H!Dir(made[i])
      BY <1>8, <2>2
    <3> QED
      BY <1>2, <1>5, <1>9, <2>2, <3>1
  <2> QED
    BY <1>9, <2>1, <2>2
<1>12. Booked(k + 1, w)'
  BY <1>9, <1>10, <1>11, BookedNow
<1> QED
  BY <1>7, <1>12

(* The fills that are sent come in the order of their numbers.                 *)
LEMMA FillCounted == ASSUME First, H!HandlesFill PROVE First'
<1> DEFINE i == Head(sending)
<1>1. /\ sending # <<>> /\ sending' = Tail(sending) /\ UNCHANGED <<made, brings, starts, fetched>>
      /\ \/ H!Mergeable(i) = {} /\ history' = H!Upsert(history, {H!QtRow(i)})
         \/ \E r \in H!Mergeable(i) : history' = H!Stored(i, r)
  BY DEF H!HandlesFill
<1>2. made \in Seq(Trade) /\ Len(made) \in Nat /\ starts \in Nat /\ starts # 0
  BY <1>1 DEF First
<1> SUFFICES ASSUME starts = 1, brings, ~fetched
             PROVE  \E n \in 0 .. Len(made) : \E k \in 0 .. n : FirstUpTo(n, k)'
  BY <1>1, <1>2 DEF First
<1>3. PICK n \in 0 .. Len(made) : \E k \in 0 .. n : FirstUpTo(n, k)
  BY DEF First
<1>4. PICK k \in 0 .. n : FirstUpTo(n, k)
  BY <1>3
<1>5. PICK into : Booked(k, into)
  BY <1>4 DEF FirstUpTo
<1>6. OfFirst(k) /\ sending = [j \in 1 .. n - k |-> k + j]
  BY <1>4 DEF FirstUpTo
<1>7. n \in Nat /\ k \in Nat /\ k <= n
  BY <1>2
<1>8. Len(sending) = n - k /\ n - k > 0
  <2>1. Len(sending) = n - k
    BY <1>6, <1>7
  <2>2. Len(sending) # 0
    <3>1. sending \in Seq(Nat)
      BY <1>6, <1>7
    <3> QED
      BY <1>1, <3>1
  <2> QED
    BY <1>7, <2>1, <2>2
<1>9. i = k + 1 /\ k + 1 \in 0 .. n
  BY <1>6, <1>7, <1>8
<1>10. sending' = [j \in 1 .. n - (k + 1) |-> (k + 1) + j]
  <2>1. sending \in Seq(Int)
    BY <1>6, <1>7
  <2>2. Tail(sending) = [j \in 1 .. Len(sending) - 1 |-> sending[j + 1]]
    <3>1. Tail(sending) \in Seq(Int) /\ Len(Tail(sending)) = Len(sending) - 1
          /\ \A j \in 1 .. Len(Tail(sending)) : Tail(sending)[j] = sending[j + 1]
      BY <1>1, <2>1, HeadTailProperties
    <3>2. Tail(sending) = [j \in 1 .. Len(Tail(sending)) |-> Tail(sending)[j]]
      <4> DEFINE s == Tail(sending)
      <4>1. s \in Seq(Int)
        BY <3>1
      <4> HIDE DEF s
      <4>2. s = [j \in 1 .. Len(s) |-> s[j]]
        BY <4>1
      <4> QED
        BY <4>2 DEF s
    <3> QED
      BY <3>1, <3>2
  <2>3. \A j \in 1 .. n - (k + 1) : sending[j + 1] = (k + 1) + j
    BY <1>6, <1>7
  <2>4. Len(sending) - 1 = n - (k + 1)
    BY <1>7, <1>8
  <2>5. [j \in 1 .. n - (k + 1) |-> sending[j + 1]] = [j \in 1 .. n - (k + 1) |-> (k + 1) + j]
    BY <2>3, Zenon
  <2> QED
    BY <1>1, <2>2, <2>4, <2>5
<1> HIDE DEF i
<1>11. OfFirst(k + 1)' /\ \E w : Booked(k + 1, w)'
  <2>1. CASE history' = H!Upsert(history, {H!QtRow(i)})
    BY <1>1, <1>5, <1>6, <1>7, <1>9, <2>1, OwnRow
  <2>2. CASE \E r \in H!Mergeable(i) : history' = H!Stored(i, r)
    <3>1. PICK r \in H!Mergeable(k + 1) : history' = H!Stored(k + 1, r)
      BY <1>9, <2>2
    <3> QED
      BY <1>1, <1>5, <1>6, <1>7, <3>1, SharedRow
  <2> QED
    BY <1>1, <2>1, <2>2
<1>12. FirstUpTo(n, k + 1)'
  BY <1>10, <1>11 DEF FirstUpTo
<1> QED
  BY <1>1, <1>9, <1>12

(* A step that sends nothing and leaves the start alone counts what was.       *)
LEMMA FirstCarried ==
  ASSUME First, Carried, made' \in Seq(Trade), Len(made') >= Len(made), \A i \in 1 .. Len(made) : made'[i] = made[i],
         UNCHANGED <<brings, sending, starts, fetched>>, starts = 0 => handling' = {}
  PROVE  First'
<1>1. made \in Seq(Trade) /\ Len(made) \in Nat /\ Len(made') \in Nat /\ starts \in Nat
  BY DEF First
<1>2. starts' = 0 => ~brings' /\ sending' = <<>> /\ handling' = {} /\ (~fetched' => history' = {})
  BY DEF First, Carried
<1>3. ASSUME starts' = 1, brings', ~fetched'
      PROVE  \E n \in 0 .. Len(made') : \E k \in 0 .. n : FirstUpTo(n, k)'
  <2>1. PICK n \in 0 .. Len(made) : \E k \in 0 .. n : FirstUpTo(n, k)
    BY <1>3 DEF First
  <2>2. PICK k \in 0 .. n : FirstUpTo(n, k)
    BY <2>1
  <2>3. PICK into : Booked(k, into)
    BY <2>2 DEF FirstUpTo
  <2>4. OfFirst(k) /\ k \in Nat /\ n \in 0 .. Len(made') /\ \A i \in 1 .. k : made'[i] = made[i]
    BY <1>1, <2>2 DEF FirstUpTo
  <2>5. OfFirst(k)' /\ Booked(k, into)'
    BY <2>3, <2>4, CountsStay
  <2>6. FirstUpTo(n, k)'
    BY <2>2, <2>5 DEF FirstUpTo
  <2> QED
    BY <2>4, <2>6
<1> QED
  BY <1>1, <1>2, <1>3 DEF First

(* A fetch that ends well ends what is said of the first start.                *)
LEMMA FirstStep == First /\ Recorded /\ [H!Next]_(H!vars) => First'
<1> SUFFICES ASSUME First, Recorded, [H!Next]_(H!vars) PROVE First'
  OBVIOUS
<1>1. made \in Seq(Trade) /\ Len(made) \in Nat /\ starts \in Nat
  BY DEF First
<1>2. \A r \in history : Shaped(r)
  BY DEF Recorded, RowTrue
<1>3. history' = history => Carried
  BY <1>2 DEF Carried, AsOld
<1>4. UNCHANGED <<made, history, brings, sending, starts, fetched>> /\ (starts = 0 => handling' = {}) => First'
  BY <1>1, <1>3, FirstCarried
<1>5. CASE H!Passes \/ H!FetchStarts \/ UNCHANGED H!vars
  BY <1>4, <1>5 DEF H!Passes, H!FetchStarts, H!vars, First
<1>6. CASE H!PluginStarts
  <2>1. /\ ~brings /\ starts' = starts + 1 /\ brings' /\ sending' = [j \in DOMAIN made |-> j]
        /\ UNCHANGED <<made, handling, history, fetched>>
    BY <1>6 DEF H!PluginStarts
  <2>2. CASE starts = 0 /\ ~fetched
    <3>1. history' = {}
      BY <2>1, <2>2 DEF First
    <3>2. sending' = [j \in 1 .. Len(made) - 0 |-> 0 + j]
      <4>1. DOMAIN made = 1 .. Len(made) - 0
        BY <1>1
      <4>2. [j \in 1 .. Len(made) - 0 |-> j] = [j \in 1 .. Len(made) - 0 |-> 0 + j]
        OBVIOUS
      <4> QED
        BY <2>1, <4>1, <4>2
    <3>3. OfFirst(0)'
      BY <3>1 DEF OfFirst
    <3>4. Booked(0, <<>>)'
      <4>1. ClosingOnes(0)' = {}
        BY DEF ClosingOnes
      <4>2. <<>> \in [1 .. 0 -> 1 .. 0]
        OBVIOUS
      <4> QED
        BY <3>1, <4>1, <4>2 DEF Booked
    <3>5. FirstUpTo(Len(made), 0)'
      BY <2>1, <3>2, <3>3, <3>4 DEF FirstUpTo
    <3>6. Len(made) \in 0 .. Len(made) /\ 0 \in 0 .. Len(made)
      BY <1>1
    <3> QED
      BY <1>1, <2>1, <2>2, <3>5, <3>6 DEF First
  <2>3. CASE starts > 0 \/ fetched
    BY <1>1, <2>1, <2>3 DEF First
  <2> QED
    BY <1>1, <2>2, <2>3
<1>7. CASE H!PluginStops
  <2>1. brings /\ ~brings' /\ UNCHANGED <<made, handling, history, starts, fetched>>
    BY <1>7 DEF H!PluginStops
  <2> QED
    BY <1>1, <2>1 DEF First
<1>8. CASE H!HandlesFill
  BY <1>8, FillCounted
<1>9. CASE H!FetchEnds
  <2>1. /\ UNCHANGED <<made, brings, sending, handling, starts>>
        /\ \/ fetched'
           \/ history' = history /\ fetched' = fetched
    BY <1>9 DEF H!FetchEnds
  <2>2. CASE fetched'
    BY <1>1, <2>1, <2>2 DEF First
  <2>3. CASE history' = history /\ fetched' = fetched
    <3>1. starts = 0 => handling' = {}
      BY <2>1 DEF First
    <3> QED
      BY <1>4, <2>1, <2>3, <3>1
  <2> QED
    BY <2>1, <2>2, <2>3
<1>10. ASSUME NEW side \in {"BUY", "SELL"}, H!Trades(side) PROVE First'
  <2>1. UNCHANGED <<brings, sending, handling, history, starts, fetched>> /\ made' \in Seq(Trade)
    BY <1>10, TradeAdded DEF H!Trades, Recorded
  <2>2. \E t : made' = Append(made, t)
    BY <1>10 DEF H!Trades
  <2>3. Len(made') >= Len(made) /\ \A i \in 1 .. Len(made) : made'[i] = made[i]
    BY <1>1, <2>2
  <2>4. starts = 0 => handling' = {}
    BY <2>1 DEF First
  <2> QED
    BY <1>3, <2>1, <2>3, <2>4, FirstCarried
<1>11. ASSUME NEW i \in handling, H!ResolvesOpen(i) PROVE First'
  <2> DEFINE o == H!OpenOf(made[i].time)
             F(r) == IF H!Resolvable(r, i) THEN [r EXCEPT !.open = o] ELSE r
  <2>1. handling' = {} /\ history' = {F(r) : r \in history} /\ UNCHANGED <<made, brings, sending, starts, fetched>>
    BY <1>11 DEF H!ResolvesOpen
  <2> HIDE DEF o
  <2>2. \A r \in history : AsOld(F(r), r)
    BY <1>2 DEF Shaped, AsOld
  <2> HIDE DEF F
  <2>3. Carried
    BY <2>1, <2>2 DEF Carried, AsOld
  <2> QED
    BY <1>1, <2>1, <2>3, FirstCarried
<1>12. ASSUME NEW r \in history, H!Reconciles(r) PROVE First'
  <2> DEFINE y == [r EXCEPT !.done = r.open]
  <2>1. history' = (history \ {r}) \cup {y} /\ UNCHANGED <<made, brings, sending, handling, starts, fetched>>
    BY <1>12 DEF H!Reconciles
  <2>2. AsOld(y, r)
    BY <1>2 DEF Shaped, AsOld
  <2> HIDE DEF y
  <2>3. \A x \in history : AsOld(x, x)
    BY <1>2 DEF AsOld
  <2>4. Carried
    BY <2>1, <2>2, <2>3 DEF Carried, AsOld
  <2>5. starts = 0 => handling' = {}
    BY <2>1 DEF First
  <2> QED
    BY <1>1, <2>1, <2>4, <2>5, FirstCarried
<1> QED
  BY <1>5, <1>6, <1>7, <1>8, <1>9, <1>10, <1>11, <1>12 DEF H!Next

(* At the plugin's first start each closing fill is counted once, in a row of  *)
(* its time and direction (platform_bridge.py, db_exchange.py).                *)
THEOREM FirstStartIsExact == H!Spec => []H!FirstStartExact
<1>1. H!Init => First /\ Recorded
  <2> SUFFICES ASSUME H!Init PROVE First /\ Recorded
    OBVIOUS
  <2>1. now = 1 /\ made = <<>> /\ sending = <<>> /\ handling = {} /\ history = {} /\ fetching.rows = {}
        /\ starts = 0 /\ brings = FALSE
    BY DEF H!Init
  <2>2. Recorded
    BY <2>1 DEF Recorded
  <2>3. First
    BY <2>1 DEF First
  <2>4. QED
    BY <2>2, <2>3
<1>2. First /\ Recorded /\ [H!Next]_(H!vars) => (First /\ Recorded)'
  BY FirstStep, RecordedStep
<1>3. QED
  BY <1>1, <1>2, FirstTold, PTL DEF H!Spec

-----------------------------------------------------------------------------
(* The machines as parts of Office *)

(* Another machine's step leaves the files alone.                              *)
LEMMA OfficeRunsFiles == OfficeSpec => D!Spec
<1>1. OfficeInit => D!Init
  BY DEF OfficeInit
<1>2. [OfficeNext]_office => [D!Next]_(D!vars)
  BY DEF OfficeNext, FilesMove, LinksMove, SumsMove, PastMoves, TestMoves, office, dir, D!vars, D!files, D!accts
<1>3. QED
  BY <1>1, <1>2, PTL DEF OfficeSpec, D!Spec

(* Whatever crashes, the newest rows of every item are in some file, with the  *)
(* marker every item is in its split file, migrations succeed in their order   *)
(* on each file, and thresholds set by the user are never replaced             *)
(* (000_split_databases.py, runner.py, convert_thresholds.py).                 *)
THEOREM OfficeFilesWhole == OfficeSpec => FilesWhole
<1>1. FilesKnown
  BY FilesAssumption DEF FilesKnown
<1>2. QED
  BY <1>1, OfficeRunsFiles, FilesStayWhole, PTL DEF FilesWhole

(* Another machine's step leaves the links alone.                              *)
LEMMA OfficeRunsLinks == OfficeSpec => L!Spec
<1>1. OfficeInit => L!Init
  BY DEF OfficeInit
<1>2. [OfficeNext]_office => [L!Next]_(L!vars)
  BY DEF OfficeNext, FilesMove, LinksMove, SumsMove, PastMoves, TestMoves, office, links, L!vars
<1>3. QED
  BY <1>1, <1>2, PTL DEF OfficeSpec, L!Spec

(* A calculation is the plan of one order, whose fills follow it, for good,    *)
(* however messages overlap (order_enrichment.py, order_manager.py).           *)
THEOREM OfficeLinksHold == OfficeSpec => LinksHold
<1>1. OrdersKnown
  BY OrdersAssumption DEF OrdersKnown
<1>2. QED
  BY <1>1, OfficeRunsLinks, OnePlanOneOrder, PTL DEF LinksHold

(* Another machine's step leaves the sums alone.                               *)
LEMMA OfficeRunsSums == OfficeSpec => G!Spec
<1>1. OfficeInit => G!Init
  BY DEF OfficeInit
<1>2. [OfficeNext]_office => [G!Next]_(G!vars)
  BY DEF OfficeNext, FilesMove, LinksMove, SumsMove, PastMoves, TestMoves, office, sums, G!vars
<1>3. QED
  BY <1>1, <1>2, PTL DEF OfficeSpec, G!Spec

(* The open and close flags of the sources that give the position's direction  *)
(* add up to the position until a fill goes through zero, and no opening fill  *)
(* is taken for a closing one (the adapters, RiskEngineEventMapper.cs,         *)
(* position_snapshot.py).                                                      *)
THEOREM OfficeSourcesAgree == OfficeSpec => []SourcesAgree
<1>1. G!LedgerHolds /\ G!NoFalseClose => SourcesAgree
  BY DEF SourcesAgree
<1>2. QED
  BY <1>1, QtyAssumption, OfficeRunsSums, BooksBalance, PTL

(* Another machine's step leaves the history alone.                            *)
LEMMA OfficeRunsPast == OfficeSpec => H!Spec
<1>1. OfficeInit => H!Init
  BY DEF OfficeInit
<1>2. [OfficeNext]_office => [H!Next]_(H!vars)
  BY DEF OfficeNext, FilesMove, LinksMove, SumsMove, PastMoves, TestMoves, office, past, H!vars
<1>3. QED
  BY <1>1, <1>2, PTL DEF OfficeSpec, H!Spec

(* At the plugin's first start each closing fill is counted once, a calculated *)
(* trade keeps the opening time it was calculated from, and a fetched row has  *)
(* the direction of the position (platform_bridge.py, exchange_income.py,      *)
(* db_exchange.py).                                                            *)
THEOREM OfficeHistoryTrue == OfficeSpec => []HistoryTrue
<1>1. H!FirstStartExact /\ H!LifeKept /\ H!RestDirTrue => HistoryTrue
  BY DEF HistoryTrue
<1>2. QED
  BY <1>1, OfficeRunsPast, HistoryStaysTrue, FirstStartIsExact, PTL

(* Another machine's step leaves the back-test alone.                          *)
LEMMA OfficeRunsTest == OfficeSpec => T!Spec
<1>1. OfficeInit => T!Init
  BY DEF OfficeInit
<1>2. [OfficeNext]_office => [T!Next]_(T!vars)
  BY DEF OfficeNext, FilesMove, LinksMove, SumsMove, PastMoves, TestMoves, office, test, T!vars
<1>3. QED
  BY <1>1, <1>2, PTL DEF OfficeSpec, T!Spec

(* No trade is judged by the candle of its entry, one position at a time never *)
(* loses the whole equity, and a completed session has all its rows            *)
(* (backtest_runner.py).                                                       *)
THEOREM OfficeTestSound == OfficeSpec => []TestSound
<1>1. T!NoLookAhead /\ T!Solvent /\ T!CompletedIsWhole => TestSound
  BY DEF TestSound
<1>2. TestKnown
  <2>1. Cardinality(Symbols) \in Nat /\ Cardinality(Symbols) # 0
    BY TestAssumption, FS_CardinalityType, FS_EmptySet
  <2>2. T!Cardinality(Symbols) = Cardinality(Symbols)
    BY CardinalityOfTest
  <2>3. QED
    BY <2>1, <2>2, TestAssumption DEF TestKnown
<1>3. QED
  BY <1>1, <1>2, OfficeRunsTest, TestStaysSound, PTL
=============================================================================
