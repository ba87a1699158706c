--------------------------- MODULE CloseRows_proofs ---------------------------
(***************************************************************************)
(* Theorems about CloseRows: type correctness; no fill is counted twice      *)
(* while the plugin is the only source and an order's fills arrive before    *)
(* its timer; and, whatever else happens, rows never lose a fill as long as  *)
(* a build is quick.  Both need fills apart in time: the exchange stamps a   *)
(* later fill with a later millisecond.                                      *)
(***************************************************************************)
EXTENDS MCCloseRows, TLAPS, WellFoundedInduction

TimesApart == \A f, g \in Fills : f < g => At[f] < At[g]

(* Every set of closing fills has a last one. *)
LEMMA Greatest ==
  ASSUME NEW S \in SUBSET Fills, S # {}
  PROVE  \E f \in S : \A g \in S : g <= f
<1> DEFINE T == {N - f : f \in S}
<1>1. N \in Nat
  BY FillsAssumption
<1>2. S \subseteq Int /\ \A f \in S : 1 <= f /\ f <= N
  BY <1>1 DEF Fills
<1>3. T \subseteq Nat
  BY <1>1, <1>2
<1>4. T # {}
  OBVIOUS
<1>5. PICK x \in T : \A y \in T : ~(<<y, x>> \in OpToRel(<, Nat))
  BY <1>3, <1>4, NatLessThanWellFounded, WFMin
<1>6. \A y \in T : ~(y < x)
  BY <1>3, <1>5 DEF OpToRel
<1>7. PICK f \in S : x = N - f
  OBVIOUS
<1>8. \A g \in S : g <= f
  <2> TAKE g \in S
  <2>1. N - g \in T
    OBVIOUS
  <2>2. ~(N - g < N - f)
    BY <1>6, <1>7, <2>1
  <2> QED
    BY <1>1, <1>2, <2>2
<1> QED
  BY <1>8

LEMMA ClosingIsFill == Closing \subseteq Fills /\ 1 \in Fills /\ Fills \ Closing = {1}
  BY FillsAssumption DEF Fills, Closing

(* The exit time of a row over S is the time of a fill of S, and S's latest. *)
LEMMA LastIsLatest ==
  ASSUME NEW S \in SUBSET Closing, S # {}
  PROVE  \E f \in S : Last(S) = At[f] /\ \A g \in S : At[g] <= Last(S)
<1>1. S \in SUBSET Fills
  BY ClosingIsFill
<1>2. PICK f \in S : \A g \in S : g <= f
  BY <1>1, Greatest
<1>3. \A g \in S : At[g] <= At[f]
  BY <1>1, <1>2, TimesAssumption DEF Fills
<1>4. \E t \in {At[g] : g \in S} : \A g \in S : At[g] <= t
  BY <1>3
<1>5. Last(S) \in {At[g] : g \in S} /\ \A g \in S : At[g] <= Last(S)
  BY <1>4 DEF Last
<1> QED
  BY <1>5

LEMMA SameTimeSameFill ==
  ASSUME TimesApart, NEW f \in Fills, NEW g \in Fills, At[f] = At[g]
  PROVE  f = g
<1>1. f \in Int /\ g \in Int
  BY FillsAssumption DEF Fills
<1>2. At[f] \in Int /\ At[g] \in Int
  BY TimesAssumption DEF Fills
<1>3. ~(f < g) /\ ~(g < f)
  BY <1>2 DEF TimesApart
<1> QED
  BY <1>1, <1>3

(* Two rows with one exit time share the fill that ended them. *)
LEMMA LastShared ==
  ASSUME TimesApart, NEW S \in SUBSET Closing, NEW T \in SUBSET Closing,
         S # {}, T # {}, Last(S) = Last(T)
  PROVE  \E f \in S \intersect T : Last(S) = At[f]
<1>1. PICK f \in S : Last(S) = At[f]
  BY LastIsLatest
<1>2. PICK g \in T : Last(T) = At[g]
  BY LastIsLatest
<1>3. f = g
  BY <1>1, <1>2, ClosingIsFill, SameTimeSameFill
<1> QED
  BY <1>1, <1>3

-----------------------------------------------------------------------------
(* What the engine knows of the fills it works on: a fill is stored once it has *)
(* been executed and never leaves the table, a timer or a build is for a stored *)
(* closing fill.                                                               *)
Present(f) == table[f] # "absent"

Stored ==
  /\ \A f \in outbox : f <= executed
  /\ \A f \in Fills : Present(f) => f <= executed
  /\ \A t \in timers : t.kind = "fill" => t.fill \in Closing /\ Present(t.fill)
  /\ \A b \in builds : Present(b.fill)

(* What a build has read: closing fills of its order, its own fill among them. *)
Reads ==
  \A b \in builds : b.at = "write" =>
    /\ b.fill \in b.closes
    /\ b.closes \subseteq FillsOf(OrderOf[b.fill])
    /\ \A f \in b.closes : Present(f)

(* What a row says: it ends with its latest fill, all its fills are stored, and, *)
(* unless the back-fill wrote it, they are of one order.                         *)
Rows ==
  /\ \A r \in rows : /\ r.covers # {} /\ r.exit = Last(r.covers)
                     /\ \A f \in r.covers : Present(f)
                     /\ r.pid # "bf" => \E o \in Closing : r.covers \subseteq FillsOf(o)
  /\ \A r, s \in rows : r.pid = s.pid /\ r.exit = s.exit => r = s

IInv == TypeOK /\ Stored /\ Reads /\ Rows

LEMMA InitIInv == Init => IInv
<1> SUFFICES ASSUME Init PROVE IInv
  OBVIOUS
<1> USE DEF Init
<1>1. TypeOK
  BY FillsAssumption DEF TypeOK, Ids
<1>2. Stored /\ Reads /\ Rows
  BY DEF Stored, Reads, Rows, Present
<1> QED
  BY <1>1, <1>2 DEF IInv

LEMMA FillsOfClosing == \A o : FillsOf(o) \in SUBSET Closing
  BY DEF FillsOf

LEMMA NewBuild ==
  ASSUME NEW f \in Closing, NEW pid \in Ids
  PROVE  /\ Build(f, pid) \in BuildTypes
         /\ Build(f, pid).fill = f /\ Build(f, pid).pid = pid /\ Build(f, pid).at = "opens"
  BY DEF Build, BuildTypes

LEMMA OpensRead ==
  ASSUME NEW b \in BuildTypes, NEW e \in Times \union {0}
  PROVE  LET c == [b EXCEPT !.at = "closes", !.entry = e]
         IN c \in BuildTypes /\ c.fill = b.fill /\ c.at = "closes" /\ c.pid = b.pid
  BY DEF BuildTypes

LEMMA ClosesRead ==
  ASSUME NEW b \in BuildTypes, NEW S \in SUBSET Closing
  PROVE  LET c == [b EXCEPT !.at = "write", !.closes = S]
         IN c \in BuildTypes /\ c.fill = b.fill /\ c.at = "write" /\ c.closes = S
            /\ c.pid = b.pid
  BY DEF BuildTypes

LEMMA BuildFields ==
  ASSUME NEW b \in BuildTypes
  PROVE  b.fill \in Closing /\ b.pid \in Ids /\ b.entry \in Times \union {0}
         /\ b.closes \in SUBSET Closing /\ b.at \in {"opens", "closes", "write"}
  BY DEF BuildTypes

LEMMA RowFields ==
  ASSUME NEW pid \in {"P", "blank", "bf"}, NEW e \in Times \union {0},
         NEW S \in SUBSET Closing, S # {}
  PROVE  LET r == Row(pid, e, Last(S), S)
         IN r \in RowTypes /\ r.pid = pid /\ r.exit = Last(S) /\ r.covers = S
<1>1. Last(S) \in Times
  BY LastIsLatest, ClosingIsFill DEF Times
<1> QED
  BY <1>1 DEF Row, RowTypes

(* Replacing keeps one row per key, while the table only grows. *)
LEMMA ReplaceKeeps ==
  ASSUME NEW row, row \in RowTypes, rows \subseteq RowTypes, Rows,
         row.covers # {}, row.exit = Last(row.covers), \A f \in row.covers : Present(f)',
         row.pid # "bf" => \E o \in Closing : row.covers \subseteq FillsOf(o),
         rows' = Replace(row), \A f \in Fills : Present(f) => Present(f)'
  PROVE  rows' \subseteq RowTypes /\ Rows'
<1>1. \A r \in rows' : r = row \/ (r \in rows /\ (r.pid # row.pid \/ r.exit # row.exit))
  BY DEF Replace
<1>2. rows' \subseteq RowTypes
  BY <1>1
<1>3. \A r \in rows : r.covers \subseteq Fills
  BY ClosingIsFill DEF RowTypes
<1>4. \A r \in rows' : /\ r.covers # {} /\ r.exit = Last(r.covers)
                       /\ \A f \in r.covers : Present(f)'
                       /\ r.pid # "bf" => \E o \in Closing : r.covers \subseteq FillsOf(o)
  BY <1>1, <1>3 DEF Rows
<1>5. \A r, s \in rows' : r.pid = s.pid /\ r.exit = s.exit => r = s
  BY <1>1 DEF Rows
<1> QED
  BY <1>2, <1>4, <1>5 DEF Rows

-----------------------------------------------------------------------------
(* A fill that becomes stored disturbs nothing that was known. *)
LEMMA StoredMore ==
  ASSUME IInv, table' \in [Fills -> Ids \union {"absent"}],
         \A f \in Fills : Present(f) => Present(f)',
         UNCHANGED <<rows, builds>>
  PROVE  Reads' /\ Rows' /\ \A b \in builds' : Present(b.fill)'
<1>1. \A b \in builds : b.closes \subseteq Fills /\ b.fill \in Fills
  BY BuildFields, ClosingIsFill DEF IInv, TypeOK
<1>2. \A r \in rows : r.covers \subseteq Fills
  BY ClosingIsFill DEF IInv, TypeOK, RowTypes
<1>3. Reads'
  BY <1>1 DEF IInv, Reads
<1>4. Rows'
  BY <1>2 DEF IInv, Rows
<1> QED
  BY <1>1, <1>3, <1>4 DEF IInv, Stored

LEMMA ExecuteStep == IInv /\ Execute => IInv'
<1> SUFFICES ASSUME IInv, Execute PROVE IInv'
  OBVIOUS
<1> USE DEF IInv, Execute
<1>1. executed \in Nat /\ N \in Nat /\ executed + 1 \in 0..N /\ executed + 1 \in Fills
  BY FillsAssumption DEF TypeOK, Fills
<1>2. TypeOK'
  BY <1>1 DEF TypeOK
<1>3. Stored'
  <2>1. \A f \in outbox : f \in Int
    BY DEF TypeOK, Fills
  <2>2. \A f \in outbox' : f <= executed'
    BY <1>1, <2>1 DEF Stored
  <2>3. \A f \in Fills : Present(f)' => f <= executed'
    BY <1>1 DEF Stored, Present, Fills
  <2> QED
    BY <2>2, <2>3 DEF Stored, Present
<1>4. Reads' /\ Rows'
  BY DEF Reads, Rows, Present
<1> QED
  BY <1>2, <1>3, <1>4

LEMMA PluginFillStep == ASSUME NEW f \in Fills PROVE IInv /\ PluginFill(f) => IInv'
<1> SUFFICES ASSUME IInv, PluginFill(f) PROVE IInv'
  OBVIOUS
<1> USE DEF IInv, PluginFill
<1> DEFINE t == [kind |-> "fill", fill |-> f, pid |-> "P"]
<1>1. table \in [Fills -> Ids \union {"absent"}]
  BY DEF TypeOK
<1>2. table' \in [Fills -> Ids \union {"absent"}] /\ table'[f] = "P"
      /\ \A g \in Fills : g # f => table'[g] = table[g]
  BY <1>1 DEF Ids
<1>3. \A g \in Fills : Present(g) => Present(g)'
  BY <1>2 DEF Present
<1>4. timers' \subseteq timers \union {t} /\ (f \notin Closing => timers' = timers)
  OBVIOUS
<1>5. TypeOK'
  <2>1. timers' \subseteq TimerTypes
    BY <1>4 DEF TypeOK, TimerTypes, Ids
  <2>2. held' \in Ids \union {"gone"}
    BY DEF RefreshAfterFill, TypeOK, Ids
  <2> QED
    BY <1>2, <2>1, <2>2 DEF TypeOK
<1>6. Reads' /\ Rows' /\ \A b \in builds' : Present(b.fill)'
  BY <1>2, <1>3, StoredMore
<1>7. Stored'
  <2>1. \A g \in Fills : Present(g)' => g <= executed'
    BY <1>2 DEF Stored, Present
  <2>2. \A u \in timers' : u.kind = "fill" => u.fill \in Closing /\ Present(u.fill)'
    <3> SUFFICES ASSUME NEW u \in timers', u.kind = "fill"
                 PROVE  u.fill \in Closing /\ Present(u.fill)'
      OBVIOUS
    <3>1. CASE u \in timers
      BY <3>1, <1>3, ClosingIsFill DEF Stored
    <3>2. CASE u = t /\ f \in Closing
      BY <3>2, <1>2 DEF Present
    <3> QED
      BY <1>4, <3>1, <3>2
  <2> QED
    BY <1>6, <2>1, <2>2 DEF Stored
<1> QED
  BY <1>5, <1>6, <1>7

LEMMA UpsertBlankStep == ASSUME NEW f \in Fills PROVE IInv /\ UpsertBlank(f) => IInv'
<1> SUFFICES ASSUME IInv, UpsertBlank(f) PROVE IInv'
  OBVIOUS
<1> USE DEF IInv, UpsertBlank
<1>1. table \in [Fills -> Ids \union {"absent"}]
  BY DEF TypeOK
<1>2. table' \in [Fills -> Ids \union {"absent"}] /\ table'[f] = "blank"
      /\ \A g \in Fills : g # f => table'[g] = table[g]
  BY <1>1 DEF Ids
<1>3. \A g \in Fills : Present(g) => Present(g)'
  BY <1>2 DEF Present
<1>4. TypeOK'
  BY <1>2 DEF TypeOK
<1>5. Reads' /\ Rows' /\ \A b \in builds' : Present(b.fill)'
  BY <1>2, <1>3, StoredMore
<1>6. Stored'
  <2>1. \A g \in Fills : Present(g)' => g <= executed'
    BY <1>2 DEF Stored, Present
  <2> QED
    BY <1>3, <1>5, <2>1, ClosingIsFill DEF Stored
<1> QED
  BY <1>4, <1>5, <1>6

LEMMA SnapshotStep == IInv /\ PluginSnapshot => IInv'
<1> SUFFICES ASSUME IInv, PluginSnapshot PROVE IInv'
  OBVIOUS
<1> USE DEF IInv, PluginSnapshot
<1> DEFINE t == [kind |-> "final", fill |-> 1, pid |-> held]
<1>1. timers' \subseteq timers \union {t} /\ (held = "gone" => timers' = timers)
  OBVIOUS
<1>2. TypeOK'
  <2>1. timers' \subseteq TimerTypes
    BY <1>1, ClosingIsFill DEF TypeOK, TimerTypes
  <2> QED
    BY <2>1 DEF TypeOK, Ids
<1>3. Stored'
  BY <1>1 DEF Stored, Present
<1>4. Reads' /\ Rows'
  BY DEF Reads, Rows, Present
<1> QED
  BY <1>2, <1>3, <1>4

LEMMA CrashStep == IInv /\ Crash => IInv'
<1> SUFFICES ASSUME IInv, Crash PROVE IInv'
  OBVIOUS
<1> USE DEF IInv, Crash
<1>1. TypeOK'
  BY DEF TypeOK
<1>2. Stored' /\ Reads' /\ Rows'
  BY DEF Stored, Reads, Rows, Present
<1> QED
  BY <1>1, <1>2

-----------------------------------------------------------------------------
(* Builds that start or advance for stored fills, the rest of the state alone. *)
LEMMA BuildsChange ==
  ASSUME IInv, timers' \subseteq timers, builds' \subseteq BuildTypes,
         \A b \in builds' : Present(b.fill), Reads',
         UNCHANGED <<executed, outbox, table, held, rows, phase>>
  PROVE  IInv'
<1> USE DEF IInv
<1>1. TypeOK'
  BY DEF TypeOK
<1>2. Stored'
  BY DEF Stored, Present
<1>3. Rows'
  BY DEF Rows, Present
<1> QED
  BY <1>1, <1>2, <1>3

LEMMA StartBuildStep == ASSUME NEW t \in timers PROVE IInv /\ StartBuild(t) => IInv'
<1> SUFFICES ASSUME IInv, StartBuild(t) PROVE IInv'
  OBVIOUS
<1> USE DEF IInv, StartBuild
<1>1. t.fill \in Closing /\ Present(t.fill) /\ t.pid \in Ids
  BY DEF Stored, TypeOK, TimerTypes
<1> DEFINE c == Build(t.fill, t.pid)
<1>2. c \in BuildTypes /\ c.fill = t.fill /\ c.at = "opens"
  BY <1>1, NewBuild
<1> HIDE DEF c
<1>3. builds' = builds \union {c}
  BY DEF c
<1>4. builds' \subseteq BuildTypes /\ \A b \in builds' : Present(b.fill)
  BY <1>1, <1>2, <1>3 DEF TypeOK, Stored
<1>5. Reads'
  BY <1>2, <1>3 DEF Reads, Present
<1> QED
  BY <1>4, <1>5, BuildsChange

LEMMA FinalCheckStep == ASSUME NEW t \in timers PROVE IInv /\ FinalCheck(t) => IInv'
<1> SUFFICES ASSUME IInv, FinalCheck(t) PROVE IInv'
  OBVIOUS
<1> USE DEF IInv
<1>1. \A b \in builds' : b \in builds
        \/ \E f \in Unrecorded(t.pid) : b = Build(f, table[f])
  BY DEF FinalCheck
<1>2. t.pid \in Ids
  BY DEF TypeOK, TimerTypes
<1>3. \A f \in Unrecorded(t.pid) : f \in Closing /\ table[f] \in Ids /\ Present(f)
  BY <1>2 DEF Unrecorded, Present, Ids
<1>4. \A b \in builds' : b \in builds
        \/ (b \in BuildTypes /\ Present(b.fill) /\ b.at = "opens")
  <2> TAKE b \in builds'
  <2>1. CASE b \in builds
    BY <2>1
  <2>2. CASE \E f \in Unrecorded(t.pid) : b = Build(f, table[f])
    <3>1. PICK f \in Unrecorded(t.pid) : b = Build(f, table[f])
      BY <2>2
    <3> QED
      BY <1>3, <3>1, NewBuild
  <2> QED
    BY <1>1, <2>1, <2>2
<1>5. builds' \subseteq BuildTypes /\ \A b \in builds' : Present(b.fill)
  BY <1>4 DEF TypeOK, Stored
<1>6. Reads'
  BY <1>4 DEF Reads, Present, FinalCheck
<1> QED
  BY <1>5, <1>6, BuildsChange DEF FinalCheck

LEMMA ReadOpensStep == ASSUME NEW b \in builds PROVE IInv /\ ReadOpens(b) => IInv'
<1> SUFFICES ASSUME IInv, ReadOpens(b) PROVE IInv'
  OBVIOUS
<1> USE DEF IInv, ReadOpens
<1>1. b \in BuildTypes
  BY DEF TypeOK
<1>2. PICK e \in (IF Opening(b.pid) = {} THEN {0} ELSE {At[1]}) :
        builds' = (builds \ {b}) \union {[b EXCEPT !.at = "closes", !.entry = e]}
  OBVIOUS
<1>3. e \in Times \union {0}
  BY ClosingIsFill DEF Times
<1> DEFINE c == [b EXCEPT !.at = "closes", !.entry = e]
<1>4. c \in BuildTypes /\ c.fill = b.fill /\ c.at = "closes"
  BY <1>1, <1>3, OpensRead
<1> HIDE DEF c
<1>5. builds' = (builds \ {b}) \union {c}
  BY <1>2 DEF c
<1>6. builds' \subseteq BuildTypes /\ \A d \in builds' : Present(d.fill)
  BY <1>4, <1>5 DEF TypeOK, Stored
<1>7. Reads'
  BY <1>4, <1>5 DEF Reads, Present
<1> QED
  BY <1>6, <1>7, BuildsChange

LEMMA ReadClosesStep == ASSUME NEW b \in builds PROVE IInv /\ ReadCloses(b) => IInv'
<1> SUFFICES ASSUME IInv, ReadCloses(b) PROVE IInv'
  OBVIOUS
<1> USE DEF IInv
<1> DEFINE S == {f \in FillsOf(OrderOf[b.fill]) : table[f] # "absent"}
           c == [b EXCEPT !.at = "write", !.closes = S]
<1>1. b \in BuildTypes /\ Present(b.fill) /\ b.fill \in Closing
  BY BuildFields DEF TypeOK, Stored
<1>2. S \in SUBSET Closing /\ S \subseteq FillsOf(OrderOf[b.fill]) /\ b.fill \in S
      /\ \A f \in S : Present(f)
  BY <1>1 DEF FillsOf, Present
<1>3. builds' = (builds \ {b}) \union {c}
  BY DEF ReadCloses
<1> HIDE DEF S
<1>4. c \in BuildTypes /\ c.fill = b.fill /\ c.at = "write" /\ c.closes = S
  BY <1>1, <1>2, ClosesRead
<1> HIDE DEF c
<1>5. builds' \subseteq BuildTypes /\ \A d \in builds' : Present(d.fill)
  BY <1>1, <1>3, <1>4 DEF TypeOK, Stored
<1>6. Reads'
  BY <1>2, <1>3, <1>4 DEF Reads, Present, ReadCloses
<1> QED
  BY <1>5, <1>6, BuildsChange DEF ReadCloses

LEMMA BuildFailsStep == ASSUME NEW b \in builds PROVE IInv /\ BuildFails(b) => IInv'
<1> SUFFICES ASSUME IInv, BuildFails(b) PROVE IInv'
  OBVIOUS
<1> USE DEF IInv, BuildFails
<1>1. builds' \subseteq BuildTypes /\ \A d \in builds' : Present(d.fill)
  BY DEF TypeOK, Stored
<1>2. Reads'
  BY DEF Reads, Present
<1> QED
  BY <1>1, <1>2, BuildsChange

(* The row a build writes. *)
LEMMA WrittenRow ==
  ASSUME IInv, NEW b \in builds, b.at = "write"
  PROVE  LET row == Row(b.pid, b.entry, Last(b.closes), b.closes)
         IN /\ row \in RowTypes /\ row.pid = b.pid /\ row.pid # "bf"
            /\ row.covers = b.closes /\ row.covers # {} /\ row.exit = Last(row.covers)
            /\ row.covers \subseteq FillsOf(OrderOf[b.fill])
            /\ \A f \in row.covers : Present(f)
<1>1. b \in BuildTypes
  BY DEF IInv, TypeOK
<1>2. b.pid \in {"P", "blank", "bf"} /\ b.pid # "bf" /\ b.entry \in Times \union {0}
      /\ b.closes \in SUBSET Closing
  BY <1>1, BuildFields DEF Ids
<1>3. b.closes # {} /\ b.closes \subseteq FillsOf(OrderOf[b.fill])
      /\ \A f \in b.closes : Present(f)
  BY DEF IInv, Reads
<1> DEFINE row == Row(b.pid, b.entry, Last(b.closes), b.closes)
<1>4. row \in RowTypes /\ row.pid = b.pid /\ row.exit = Last(b.closes) /\ row.covers = b.closes
  BY <1>2, <1>3, RowFields
<1> HIDE DEF row
<1>5. /\ row \in RowTypes /\ row.pid = b.pid /\ row.pid # "bf"
      /\ row.covers = b.closes /\ row.covers # {} /\ row.exit = Last(row.covers)
      /\ row.covers \subseteq FillsOf(OrderOf[b.fill])
      /\ \A f \in row.covers : Present(f)
  BY <1>2, <1>3, <1>4
<1> QED
  BY <1>5 DEF row

LEMMA WriteRowStep == ASSUME NEW b \in builds PROVE IInv /\ WriteRow(b) => IInv'
<1> SUFFICES ASSUME IInv, WriteRow(b) PROVE IInv'
  OBVIOUS
<1> DEFINE row == Row(b.pid, b.entry, Last(b.closes), b.closes)
<1>1. b.at = "write" /\ rows' = Replace(row) /\ builds' = builds \ {b}
      /\ UNCHANGED <<executed, outbox, table, held, timers, phase>>
  BY DEF WriteRow
<1>2. /\ row \in RowTypes /\ row.pid # "bf" /\ row.covers # {}
      /\ row.exit = Last(row.covers) /\ \A f \in row.covers : Present(f)
      /\ row.covers \subseteq FillsOf(OrderOf[b.fill])
  BY <1>1, WrittenRow
<1> HIDE DEF row
<1>3. OrderOf[b.fill] \in Closing
  BY BuildFields, OrdersAssumption DEF IInv, TypeOK, Closing
<1>4. rows' \subseteq RowTypes /\ Rows'
  <2>1. \A f : Present(f)' = Present(f)
    BY <1>1 DEF Present
  <2>2. rows \subseteq RowTypes /\ Rows
    BY DEF IInv, TypeOK
  <2> QED
    BY <1>1, <1>2, <1>3, <2>1, <2>2, ReplaceKeeps
<1>5. TypeOK'
  BY <1>1, <1>4 DEF IInv, TypeOK
<1>6. Stored' /\ Reads'
  BY <1>1 DEF IInv, Stored, Reads, Present
<1> QED
  BY <1>4, <1>5, <1>6 DEF IInv

-----------------------------------------------------------------------------
(* The back-fill's row sums up every closing fill executed so far. *)
Closed == {f \in Closing : f <= executed}

LEMMA BackfillRow ==
  ASSUME Closed # {}
  PROVE  LET row == Row("bf", At[1], Last(Closed), Closed)
         IN row \in RowTypes /\ row.pid = "bf" /\ row.exit = Last(Closed) /\ row.covers = Closed
<1>1. Closed \in SUBSET Closing
  BY DEF Closed
<1>2. At[1] \in Times \union {0}
  BY ClosingIsFill DEF Times
<1> QED
  BY <1>1, <1>2, RowFields

LEMMA BackfillTable ==
  ASSUME TypeOK, Backfill
  PROVE  /\ table' \in [Fills -> Ids \union {"absent"}]
         /\ \A f \in Fills : Present(f) => Present(f)'
         /\ \A f \in Fills : f <= executed => Present(f)'
         /\ \A f \in Fills : Present(f)' => Present(f) \/ f <= executed
         /\ executed' = executed
<1>1. table \in [Fills -> Ids \union {"absent"}]
  BY DEF TypeOK
<1>2. table' = [f \in Fills |-> IF f <= executed /\ table[f] = "absent"
                                  THEN "blank" ELSE table[f]]
  BY DEF Backfill
<1> QED
  BY <1>1, <1>2 DEF Ids, Present, Backfill

LEMMA BackfillStep == IInv /\ Backfill => IInv'
<1> SUFFICES ASSUME IInv, Backfill PROVE IInv'
  OBVIOUS
<1>1. /\ table' \in [Fills -> Ids \union {"absent"}]
      /\ \A f \in Fills : Present(f) => Present(f)'
      /\ \A f \in Fills : f <= executed => Present(f)'
      /\ \A f \in Fills : Present(f)' => Present(f) \/ f <= executed
      /\ executed' = executed
  BY BackfillTable DEF IInv
<1>2. rows' \subseteq RowTypes /\ Rows'
  <2>1. CASE Closed = {}
    <3>1. rows' = rows
      BY <2>1 DEF Backfill, Closed
    <3>2. \A r \in rows : r.covers \subseteq Fills
      BY ClosingIsFill DEF IInv, TypeOK, RowTypes
    <3> QED
      BY <1>1, <3>1, <3>2 DEF IInv, TypeOK, Rows
  <2>2. CASE Closed # {}
    <3> DEFINE row == Row("bf", At[1], Last(Closed), Closed)
    <3>1. rows' = Replace(row)
      BY <2>2 DEF Backfill, Closed
    <3>2. row \in RowTypes /\ row.pid = "bf" /\ row.exit = Last(Closed) /\ row.covers = Closed
      BY <2>2, BackfillRow
    <3> HIDE DEF row
    <3>3. \A f \in row.covers : Present(f)'
      BY <1>1, <3>2, ClosingIsFill DEF Closed
    <3>4. rows \subseteq RowTypes /\ Rows
      BY DEF IInv, TypeOK
    <3> QED
      BY <1>1, <2>2, <3>1, <3>2, <3>3, <3>4, ReplaceKeeps
  <2> QED
    BY <2>1, <2>2
<1>3. UNCHANGED <<executed, outbox, timers, builds>>
  BY DEF Backfill
<1>4. TypeOK'
  BY <1>1, <1>2, <1>3 DEF IInv, TypeOK, Backfill, Ids
<1>5. Stored' /\ Reads'
  <2>1. \A b \in builds : b.fill \in Fills /\ b.closes \subseteq Fills
    BY BuildFields, ClosingIsFill DEF IInv, TypeOK
  <2>2. Stored'
    BY <1>1, <1>3, <2>1, ClosingIsFill DEF IInv, Stored
  <2>3. Reads'
    BY <1>1, <1>3, <2>1 DEF IInv, Reads
  <2> QED
    BY <2>2, <2>3
<1> QED
  BY <1>2, <1>4, <1>5 DEF IInv

LEMMA StutterStep == IInv /\ UNCHANGED vars => IInv'
  BY DEF IInv, vars, TypeOK, Stored, Reads, Rows, Present

LEMMA NextStep == IInv /\ [Next]_vars => IInv'
<1> SUFFICES ASSUME IInv, [Next]_vars PROVE IInv'
  OBVIOUS
<1>1. ASSUME NEW f \in Fills, PluginFill(f) \/ RestSync(f) \/ StreamFill(f) PROVE IInv'
  BY <1>1, PluginFillStep, UpsertBlankStep DEF RestSync, StreamFill
<1>2. ASSUME NEW t \in timers, StartBuild(t) \/ FinalCheck(t) PROVE IInv'
  BY <1>2, StartBuildStep, FinalCheckStep
<1>3. ASSUME NEW b \in builds, ReadOpens(b) \/ ReadCloses(b) \/ WriteRow(b) \/ BuildFails(b)
      PROVE IInv'
  BY <1>3, ReadOpensStep, ReadClosesStep, WriteRowStep, BuildFailsStep
<1>4. CASE Execute \/ PluginSnapshot \/ Crash \/ Backfill
  BY <1>4, ExecuteStep, SnapshotStep, CrashStep, BackfillStep
<1>5. CASE UNCHANGED vars
  BY <1>5, StutterStep
<1> QED
  BY <1>1, <1>2, <1>3, <1>4, <1>5 DEF Next

THEOREM Invariant == Spec => []IInv
<1>1. Init => IInv
  BY InitIInv
<1>2. IInv /\ [Next]_vars => IInv'
  BY NextStep
<1> QED
  BY <1>1, <1>2, PTL DEF Spec

(* Every variable keeps its domain, whatever goes wrong. *)
THEOREM TypeCorrect == Spec => []TypeOK
<1>1. IInv => TypeOK
  BY DEF IInv
<1> QED
  BY <1>1, Invariant, PTL

-----------------------------------------------------------------------------
(* With the plugin as the only source, no crash, and every fill of an order in  *)
(* before the order's timer fires, a build sees its whole order.               *)
PluginOnly == Faults \subseteq {"fail", "limited"}

Whole ==
  /\ phase = "up"
  /\ \A f \in Fills : f <= executed => f \in outbox \/ Present(f)
  /\ \A f \in Fills : table[f] # "blank"
  /\ held # "gone" => executed >= 1
  /\ \A t \in timers : /\ t.kind = "fill" => t.pid = "P"
                       /\ t.kind = "final" => executed = N
  /\ \A b \in builds : /\ b.pid = "P"
                       /\ \A f \in FillsOf(OrderOf[b.fill]) : Present(f)
                       /\ b.at = "write" => b.closes = FillsOf(OrderOf[b.fill])
  /\ \A r \in rows : r.pid = "P" /\ \E o \in Closing : r.covers = FillsOf(o)

LEMMA InitWhole == Init => Whole
<1> SUFFICES ASSUME Init PROVE Whole
  OBVIOUS
<1>1. \A f \in Fills : ~(f <= executed)
  BY FillsAssumption DEF Init, Fills
<1> QED
  BY <1>1 DEF Init, Whole

LEMMA WholeExecute == IInv /\ Whole /\ Execute => Whole'
<1> SUFFICES ASSUME IInv, Whole, Execute PROVE Whole'
  OBVIOUS
<1>1. executed \in Nat /\ N \in Nat /\ executed' = executed + 1 /\ executed < N
      /\ UNCHANGED <<table, held, rows, timers, builds, phase>>
  BY FillsAssumption DEF Execute, IInv, TypeOK
<1>2. outbox' = outbox \union {executed + 1}
  BY DEF Whole, Execute
<1>3. \A f \in Fills : f <= executed' => f \in outbox' \/ Present(f)'
  BY <1>1, <1>2 DEF Whole, Present, Fills
<1>4. \A t \in timers' : t.kind # "final"
  BY <1>1 DEF Whole
<1> QED
  BY <1>1, <1>3, <1>4 DEF Whole, Present

LEMMA WholePluginFill ==
  ASSUME NEW f \in Fills PROVE IInv /\ Whole /\ PluginFill(f) => Whole'
<1> SUFFICES ASSUME IInv, Whole, PluginFill(f) PROVE Whole'
  OBVIOUS
<1> DEFINE t == [kind |-> "fill", fill |-> f, pid |-> "P"]
<1>1. table'[f] = "P" /\ \A g \in Fills : g # f => table'[g] = table[g]
  BY DEF PluginFill, IInv, TypeOK
<1>2. \A g \in Fills : Present(g) => Present(g)'
  BY <1>1 DEF Present
<1>3. outbox' = outbox \ {f} /\ UNCHANGED <<executed, rows, builds, phase>>
  BY DEF PluginFill
<1>4. \A g \in Fills : g <= executed' => g \in outbox' \/ Present(g)'
  BY <1>1, <1>2, <1>3 DEF Whole, Present
<1>5. \A g \in Fills : table'[g] # "blank"
  BY <1>1 DEF Whole
<1>6. held' # "gone" => executed' >= 1
  BY <1>3, FillsAssumption DEF Whole, PluginFill, RefreshAfterFill, OpenAtExchange
<1>7. \A u \in timers' : (u.kind = "fill" => u.pid = "P")
                         /\ (u.kind = "final" => executed' = N)
  <2>1. \A u \in timers' : u \in timers \/ u = t
    BY DEF PluginFill
  <2> QED
    BY <1>3, <2>1 DEF Whole
<1>8. \A b \in builds' : \A g \in FillsOf(OrderOf[b.fill]) : Present(g)'
  BY <1>2, <1>3, FillsOfClosing, ClosingIsFill DEF Whole
<1> QED
  BY <1>3, <1>4, <1>5, <1>6, <1>7, <1>8 DEF Whole

LEMMA WholeSnapshot == IInv /\ Whole /\ PluginSnapshot => Whole'
<1> SUFFICES ASSUME IInv, Whole, PluginSnapshot PROVE Whole'
  OBVIOUS
<1> DEFINE t == [kind |-> "final", fill |-> 1, pid |-> held]
<1>1. UNCHANGED <<executed, outbox, table, rows, builds, phase>>
  BY DEF PluginSnapshot
<1>2. executed \in 0..N /\ N \in Nat
  BY FillsAssumption DEF IInv, TypeOK
<1>3. held' # "gone" => executed >= 1
  BY <1>2 DEF PluginSnapshot, OpenAtExchange
<1>4. \A u \in timers' : u \in timers \/ (u = t /\ held # "gone" /\ ~OpenAtExchange)
  BY DEF PluginSnapshot
<1>5. held # "gone" /\ ~OpenAtExchange => executed = N
  BY <1>2 DEF Whole, OpenAtExchange
<1>6. \A u \in timers' : (u.kind = "fill" => u.pid = "P")
                         /\ (u.kind = "final" => executed' = N)
  BY <1>1, <1>4, <1>5 DEF Whole
<1> QED
  BY <1>1, <1>3, <1>6 DEF Whole, Present

(* Builds that start: of whole orders, under the plugin's id. *)
LEMMA WholeStart ==
  ASSUME IInv, Whole, timers' \subseteq timers,
         UNCHANGED <<executed, outbox, table, held, rows, phase>>,
         \A b \in builds' : b \in builds \/
           (b.pid = "P" /\ b.at = "opens" /\ \A f \in FillsOf(OrderOf[b.fill]) : Present(f))
  PROVE  Whole'
  BY DEF Whole, Present

LEMMA WholeStartBuild ==
  ASSUME PluginOnly, NEW t \in timers PROVE IInv /\ Whole /\ StartBuild(t) => Whole'
<1> SUFFICES ASSUME IInv, Whole, StartBuild(t) PROVE Whole'
  OBVIOUS
<1>1. t.fill \in Closing /\ t.pid = "P" /\ t.pid \in Ids
  BY DEF IInv, Stored, Whole, StartBuild, Ids
<1>2. \A f \in FillsOf(OrderOf[t.fill]) : Present(f)
  <2>1. outbox = {} /\ \A f \in FillsOf(OrderOf[t.fill]) : f <= executed
    BY DEF StartBuild, Settled, PluginOnly
  <2> QED
    BY <2>1, FillsOfClosing, ClosingIsFill DEF Whole
<1> DEFINE c == Build(t.fill, t.pid)
<1>3. c.fill = t.fill /\ c.pid = "P" /\ c.at = "opens"
  BY <1>1, NewBuild
<1> HIDE DEF c
<1>4. builds' = builds \union {c}
  BY DEF StartBuild, c
<1> QED
  BY <1>2, <1>3, <1>4, WholeStart DEF StartBuild

LEMMA WholeFinalCheck ==
  ASSUME PluginOnly, NEW t \in timers PROVE IInv /\ Whole /\ FinalCheck(t) => Whole'
<1> SUFFICES ASSUME IInv, Whole, FinalCheck(t) PROVE Whole'
  OBVIOUS
<1>1. t.pid \in Ids /\ executed = N /\ outbox = {}
  BY DEF IInv, TypeOK, TimerTypes, Whole, FinalCheck, Settled, PluginOnly
<1>2. \A f \in Fills : Present(f)
  BY <1>1, FillsAssumption DEF Whole, Fills
<1>3. \A f \in Unrecorded(t.pid) : f \in Closing /\ table[f] = "P" /\ table[f] \in Ids
  BY <1>1, ClosingIsFill DEF Unrecorded, Whole, Ids
<1>4. \A b \in builds' : b \in builds \/ \E f \in Unrecorded(t.pid) : b = Build(f, table[f])
  BY DEF FinalCheck
<1>5. \A b \in builds' : b \in builds \/ (b.pid = "P" /\ b.at = "opens")
  BY <1>3, <1>4, NewBuild
<1>6. \A b : \A f \in FillsOf(OrderOf[b.fill]) : Present(f)
  BY <1>2, FillsOfClosing, ClosingIsFill
<1> QED
  BY <1>5, <1>6, WholeStart DEF FinalCheck

LEMMA WholeReadOpens ==
  ASSUME NEW b \in builds PROVE IInv /\ Whole /\ ReadOpens(b) => Whole'
<1> SUFFICES ASSUME IInv, Whole, ReadOpens(b) PROVE Whole'
  OBVIOUS
<1>1. PICK e \in (IF Opening(b.pid) = {} THEN {0} ELSE {At[1]}) :
        builds' = (builds \ {b}) \union {[b EXCEPT !.at = "closes", !.entry = e]}
  BY DEF ReadOpens
<1>2. e \in Times \union {0}
  BY ClosingIsFill DEF Times
<1> DEFINE c == [b EXCEPT !.at = "closes", !.entry = e]
<1>3. c.fill = b.fill /\ c.at = "closes" /\ c.pid = b.pid
  BY <1>2, OpensRead DEF IInv, TypeOK
<1> HIDE DEF c
<1>4. builds' = (builds \ {b}) \union {c}
  BY <1>1 DEF c
<1> QED
  BY <1>3, <1>4 DEF Whole, Present, ReadOpens

LEMMA WholeReadCloses ==
  ASSUME NEW b \in builds PROVE IInv /\ Whole /\ ReadCloses(b) => Whole'
<1> SUFFICES ASSUME IInv, Whole, ReadCloses(b) PROVE Whole'
  OBVIOUS
<1> DEFINE S == {f \in FillsOf(OrderOf[b.fill]) : table[f] # "absent"}
           c == [b EXCEPT !.at = "write", !.closes = S]
<1>1. S = FillsOf(OrderOf[b.fill])
  BY DEF Whole, Present
<1>2. S \in SUBSET Closing
  BY FillsOfClosing
<1>3. builds' = (builds \ {b}) \union {c}
  BY DEF ReadCloses
<1> HIDE DEF S
<1>4. c.fill = b.fill /\ c.at = "write" /\ c.pid = b.pid /\ c.closes = S
  BY <1>2, ClosesRead DEF IInv, TypeOK
<1> HIDE DEF c
<1>5. UNCHANGED <<executed, outbox, table, held, rows, timers, phase>>
  BY DEF ReadCloses
<1>6. \A d \in builds' : /\ d.pid = "P"
                         /\ \A f \in FillsOf(OrderOf[d.fill]) : Present(f)
                         /\ d.at = "write" => d.closes = FillsOf(OrderOf[d.fill])
  BY <1>1, <1>3, <1>4 DEF Whole
<1> QED
  BY <1>5, <1>6 DEF Whole, Present

LEMMA WholeWriteRow ==
  ASSUME NEW b \in builds PROVE IInv /\ Whole /\ WriteRow(b) => Whole'
<1> SUFFICES ASSUME IInv, Whole, WriteRow(b) PROVE Whole'
  OBVIOUS
<1> DEFINE row == Row(b.pid, b.entry, Last(b.closes), b.closes)
<1>1. b.at = "write" /\ rows' = Replace(row) /\ builds' = builds \ {b}
      /\ UNCHANGED <<executed, outbox, table, held, timers, phase>>
  BY DEF WriteRow
<1>2. row.pid = "P" /\ row.covers = FillsOf(OrderOf[b.fill])
  BY <1>1, WrittenRow DEF Whole
<1> HIDE DEF row
<1>3. OrderOf[b.fill] \in Closing
  BY BuildFields, OrdersAssumption DEF IInv, TypeOK, Closing
<1>4. \A r \in rows' : r.pid = "P" /\ \E o \in Closing : r.covers = FillsOf(o)
  BY <1>1, <1>2, <1>3 DEF Whole, Replace
<1> QED
  BY <1>1, <1>4 DEF Whole, Present

LEMMA WholeNext == ASSUME PluginOnly PROVE IInv /\ Whole /\ [Next]_vars => Whole'
<1> SUFFICES ASSUME IInv, Whole, [Next]_vars PROVE Whole'
  OBVIOUS
<1>1. ASSUME NEW f \in Fills, PluginFill(f) \/ RestSync(f) \/ StreamFill(f) PROVE Whole'
  BY <1>1, WholePluginFill DEF RestSync, StreamFill, PluginOnly
<1>2. ASSUME NEW t \in timers, StartBuild(t) \/ FinalCheck(t) PROVE Whole'
  BY <1>2, WholeStartBuild, WholeFinalCheck
<1>3. ASSUME NEW b \in builds, ReadOpens(b) \/ ReadCloses(b) \/ WriteRow(b) PROVE Whole'
  BY <1>3, WholeReadOpens, WholeReadCloses, WholeWriteRow
<1>4. ASSUME NEW b \in builds, BuildFails(b) PROVE Whole'
  BY <1>4 DEF BuildFails, Whole, Present
<1>5. CASE Execute \/ PluginSnapshot
  BY <1>5, WholeExecute, WholeSnapshot
<1>6. CASE Crash \/ Backfill
  BY <1>6 DEF Crash, Backfill, Whole, PluginOnly
<1>7. CASE UNCHANGED vars
  BY <1>7 DEF vars, Whole, Present
<1> QED
  BY <1>1, <1>2, <1>3, <1>4, <1>5, <1>6, <1>7 DEF Next

LEMMA WholeCountsOnce == IInv /\ Whole => NoDoubleCount
<1> SUFFICES ASSUME IInv, Whole, NEW r \in rows, NEW s \in rows,
                    r.covers \intersect s.covers # {}
             PROVE  r = s
  BY DEF NoDoubleCount
<1>1. PICK o \in Closing : r.covers = FillsOf(o)
  BY DEF Whole
<1>2. PICK p \in Closing : s.covers = FillsOf(p)
  BY DEF Whole
<1>3. r.covers = s.covers
  BY <1>1, <1>2 DEF FillsOf
<1>4. r.exit = s.exit /\ r.pid = s.pid
  BY <1>3 DEF IInv, Rows, Whole
<1> QED
  BY <1>4 DEF IInv, Rows

(* NoDoubleCount: with the plugin as the only source of fills, an order's fills in *)
(* before its timer, and any number of failing builds and skipped refreshes, a     *)
(* closing fill is summed up by at most one row.                                   *)
THEOREM CountedOnce ==
  ASSUME PluginOnly
  PROVE  Spec => []NoDoubleCount
<1>1. Init => Whole
  BY InitWhole
<1>2. IInv /\ Whole /\ [Next]_vars => Whole'
  BY WholeNext
<1>3. IInv /\ Whole => NoDoubleCount
  BY WholeCountsOnce
<1> QED
  BY <1>1, <1>2, <1>3, Invariant, PTL DEF Spec

(* CountedOnceInSession: the same of the scene of that name, beside the other.   *)
THEOREM CountedOnceInScene ==
  ASSUME PluginOnly
  PROVE  ScenesSpec => []CountedOnceInSession
<1> DEFINE Counts == scene = "session" => IInv /\ Whole
<1>1. ScenesInit => Counts
  BY InitIInv, InitWhole DEF ScenesInit
<1>2. Counts /\ [ScenesNext]_<<scene, vars>> => Counts'
  <2> SUFFICES ASSUME Counts, [ScenesNext]_<<scene, vars>>, scene' = "session"
               PROVE  IInv' /\ Whole'
    OBVIOUS
  <2>1. scene = "session" /\ [Next]_vars
    BY DEF ScenesNext, In
  <2>2. QED
    BY <2>1, NextStep, WholeNext
<1>3. Counts => CountedOnceInSession
  BY WholeCountsOnce DEF CountedOnceInSession
<1> QED
  BY <1>1, <1>2, <1>3, PTL DEF ScenesSpec

-----------------------------------------------------------------------------
(* With builds that end before anything else reaches the engine, what a build  *)
(* read is all there is of its order when it writes.                           *)
NotSlow == "slow" \notin Faults

Fresh ==
  /\ phase = "starting" => builds = {} /\ timers = {}
  /\ \A b \in builds : b.at = "write" =>
       \A f \in FillsOf(OrderOf[b.fill]) : Present(f) => f \in b.closes

LEMMA FreshOpens ==
  ASSUME NEW b \in builds PROVE IInv /\ Fresh /\ ReadOpens(b) => Fresh'
<1> SUFFICES ASSUME IInv, Fresh, ReadOpens(b) PROVE Fresh'
  OBVIOUS
<1>1. PICK e \in (IF Opening(b.pid) = {} THEN {0} ELSE {At[1]}) :
        builds' = (builds \ {b}) \union {[b EXCEPT !.at = "closes", !.entry = e]}
  BY DEF ReadOpens
<1>2. e \in Times \union {0}
  BY ClosingIsFill DEF Times
<1> DEFINE c == [b EXCEPT !.at = "closes", !.entry = e]
<1>3. c.at = "closes"
  BY <1>2, OpensRead DEF IInv, TypeOK
<1> HIDE DEF c
<1>4. builds' = (builds \ {b}) \union {c} /\ UNCHANGED <<table, timers, phase>>
  BY <1>1 DEF c, ReadOpens
<1> QED
  BY <1>3, <1>4 DEF Fresh, Present

LEMMA FreshCloses ==
  ASSUME NEW b \in builds PROVE IInv /\ Fresh /\ ReadCloses(b) => Fresh'
<1> SUFFICES ASSUME IInv, Fresh, ReadCloses(b) PROVE Fresh'
  OBVIOUS
<1> DEFINE S == {f \in FillsOf(OrderOf[b.fill]) : table[f] # "absent"}
           c == [b EXCEPT !.at = "write", !.closes = S]
<1>1. \A f \in FillsOf(OrderOf[b.fill]) : Present(f) => f \in S
  BY DEF Present
<1>2. S \in SUBSET Closing
  BY FillsOfClosing
<1>3. builds' = (builds \ {b}) \union {c} /\ UNCHANGED <<table, timers, phase>>
  BY DEF ReadCloses
<1> HIDE DEF S
<1>4. c.fill = b.fill /\ c.closes = S
  BY <1>2, ClosesRead DEF IInv, TypeOK
<1> HIDE DEF c
<1>5. phase' = "starting" => builds' = {} /\ timers' = {}
  BY <1>3 DEF Fresh
<1>6. \A d \in builds' : d.at = "write" =>
        \A f \in FillsOf(OrderOf[d.fill]) : Present(f) => f \in d.closes
  BY <1>1, <1>3, <1>4 DEF Fresh
<1> QED
  BY <1>3, <1>5, <1>6 DEF Fresh, Present

LEMMA FreshStart ==
  ASSUME NEW t \in timers PROVE IInv /\ Fresh /\ (StartBuild(t) \/ FinalCheck(t)) => Fresh'
<1> SUFFICES ASSUME IInv, Fresh, StartBuild(t) \/ FinalCheck(t) PROVE Fresh'
  OBVIOUS
<1>1. UNCHANGED <<table, phase>> /\ phase # "starting"
  BY DEF StartBuild, FinalCheck, Fresh
<1>2. \A b \in builds' : b \in builds \/ b.at = "opens"
  <2>1. \A f, p : Build(f, p).at = "opens"
    BY DEF Build
  <2> QED
    BY <2>1 DEF StartBuild, FinalCheck
<1> QED
  BY <1>1, <1>2 DEF Fresh, Present

LEMMA FreshNext == ASSUME NotSlow PROVE IInv /\ Fresh /\ [Next]_vars => Fresh'
<1> SUFFICES ASSUME IInv, Fresh, [Next]_vars PROVE Fresh'
  OBVIOUS
<1>1. ASSUME NEW f \in Fills, PluginFill(f) \/ RestSync(f) \/ StreamFill(f) PROVE Fresh'
  BY <1>1 DEF Fresh, PluginFill, RestSync, StreamFill, UpsertBlank, Quick, NotSlow
<1>2. ASSUME NEW t \in timers, StartBuild(t) \/ FinalCheck(t) PROVE Fresh'
  BY <1>2, FreshStart
<1>3. ASSUME NEW b \in builds, ReadOpens(b) \/ ReadCloses(b) PROVE Fresh'
  BY <1>3, FreshOpens, FreshCloses
<1>4. ASSUME NEW b \in builds, WriteRow(b) \/ BuildFails(b) PROVE Fresh'
  BY <1>4 DEF WriteRow, BuildFails, Fresh, Present
<1>5. CASE Execute \/ PluginSnapshot
  BY <1>5 DEF Execute, PluginSnapshot, Quick, NotSlow, Fresh
<1>6. CASE Crash \/ Backfill
  BY <1>6 DEF Crash, Backfill, Fresh
<1>7. CASE UNCHANGED vars
  BY <1>7 DEF vars, Fresh, Present
<1> QED
  BY <1>1, <1>2, <1>3, <1>4, <1>5, <1>6, <1>7 DEF Next

(* The row a build writes holds every fill of the row it replaces. *)
LEMMA WriteKeeps ==
  ASSUME TimesApart, NEW b \in builds, IInv, Fresh, WriteRow(b), NEW f, Covered(f)
  PROVE  Covered(f)'
<1> DEFINE row == Row(b.pid, b.entry, Last(b.closes), b.closes)
<1>1. b.at = "write" /\ rows' = Replace(row)
  BY DEF WriteRow
<1>2. /\ row.pid # "bf" /\ row.covers = b.closes /\ row.covers # {}
      /\ row.exit = Last(row.covers) /\ row.covers \subseteq FillsOf(OrderOf[b.fill])
  BY <1>1, WrittenRow
<1> HIDE DEF row
<1>3. PICK r \in rows : f \in r.covers
  BY DEF Covered
<1>4. CASE r.pid = row.pid /\ r.exit = row.exit
  <2>1. /\ r.covers \in SUBSET Closing /\ r.covers # {} /\ r.exit = Last(r.covers)
        /\ \A g \in r.covers : Present(g)
        /\ \E o \in Closing : r.covers \subseteq FillsOf(o)
    BY <1>2, <1>4 DEF IInv, TypeOK, RowTypes, Rows
  <2>2. row.covers \in SUBSET Closing
    BY <1>2, FillsOfClosing
  <2>3. PICK g \in r.covers \intersect row.covers : TRUE
    BY <1>2, <1>4, <2>1, <2>2, LastShared
  <2>4. OrderOf[f] = OrderOf[b.fill] /\ f \in Closing
    BY <1>2, <1>3, <2>1, <2>3 DEF FillsOf
  <2>5. f \in row.covers
    BY <1>1, <1>2, <1>3, <2>1, <2>4 DEF Fresh, FillsOf
  <2> QED
    BY <1>1, <2>5 DEF Covered, Replace
<1>5. CASE ~(r.pid = row.pid /\ r.exit = row.exit)
  BY <1>1, <1>3, <1>5 DEF Covered, Replace
<1> QED
  BY <1>4, <1>5

LEMMA BackfillKeeps ==
  ASSUME IInv, Backfill, NEW f, Covered(f) PROVE Covered(f)'
<1>1. PICK r \in rows : f \in r.covers
  BY DEF Covered
<1>2. f \in Closed
  BY <1>1, ClosingIsFill DEF IInv, TypeOK, RowTypes, Rows, Stored, Closed
<1> DEFINE row == Row("bf", At[1], Last(Closed), Closed)
<1>3. row.covers = Closed
  BY <1>2, BackfillRow
<1>4. rows' = Replace(row)
  BY <1>2 DEF Backfill, Closed
<1> HIDE DEF row
<1> QED
  BY <1>2, <1>3, <1>4 DEF Covered, Replace

(* CoveredStays: with fills apart in time and builds quick, no row that is       *)
(* rewritten loses a fill, through late and failed builds, REST and stream       *)
(* upserts, crashes and back-fills.                                              *)
THEOREM NothingLost ==
  ASSUME TimesApart, NotSlow
  PROVE  Spec => CoveredStays
<1>1. Init => Fresh
  BY DEF Init, Fresh
<1>2. IInv /\ Fresh /\ [Next]_vars => Fresh'
  BY FreshNext
<1>3. IInv /\ Fresh /\ [Next]_vars => [\A f \in Closing : Covered(f) => Covered(f)']_vars
  <2> SUFFICES ASSUME IInv, Fresh, Next, NEW f \in Closing, Covered(f) PROVE Covered(f)'
    OBVIOUS
  <2>1. ASSUME NEW b \in builds, WriteRow(b) PROVE Covered(f)'
    BY <2>1, WriteKeeps
  <2>2. CASE Backfill
    BY <2>2, BackfillKeeps
  <2>3. CASE UNCHANGED rows
    BY <2>3 DEF Covered
  <2>4. \/ UNCHANGED rows \/ Backfill \/ \E b \in builds : WriteRow(b)
    BY DEF Next, Execute, PluginSnapshot, Crash, PluginFill, RestSync, StreamFill,
           UpsertBlank, StartBuild, FinalCheck, ReadOpens, ReadCloses, BuildFails
  <2> QED
    BY <2>1, <2>2, <2>3, <2>4
<1> QED
  BY <1>1, <1>2, <1>3, Invariant, PTL DEF Spec, CoveredStays
=============================================================================
