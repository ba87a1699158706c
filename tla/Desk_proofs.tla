----------------------------- MODULE Desk_proofs -----------------------------
(***************************************************************************)
(* What holds, for all values of the constants, of what the engine keeps   *)
(* beside orders and positions: the account's money, and the machines of   *)
(* Desk, each proved as it is alone and then as a part of DeskSpec.        *)
(***************************************************************************)
EXTENDS Desk, SequenceTheorems, FiniteSetTheorems, WellFoundedInduction, TLAPS

-----------------------------------------------------------------------------
(* The account's money (Balances).  That the balance settles needs an answer *)
(* and a message to take less time than the window in which pushed figures   *)
(* keep polled ones out.                                                     *)

Accounts == [bal : Nat, eq : Int, bod : Int, max : Int, min : Int]
Answers == [wallet : Nat, lot : Nat, gain : Int, age : Nat]
Versions == [source : {"internal", "rest", "stream", "platform"}, age : Nat]

Parameters ==
    /\ Wallets \subseteq Nat /\ Prices \subseteq Nat
    /\ Window \in Nat /\ Latency \in Nat

Types ==
    /\ wallet \in Nat /\ lot \in Nat /\ price \in Nat /\ today \in Int
    /\ sent \in Seq(Answers) /\ asked \subseteq Answers
    /\ acc \in Accounts /\ held \in Nat /\ ver \in Versions
    /\ reading \in [eq : Int, clean : BOOLEAN]

-----------------------------------------------------------------------------
(* The operators *)

LEMMA MaxInt == ASSUME NEW a \in Int, NEW b \in Int
                PROVE  MaxOf(a, b) \in Int /\ MaxOf(a, b) >= a /\ MaxOf(a, b) >= b
  BY DEF MaxOf

LEMMA MaxNat == ASSUME NEW a \in Int PROVE MaxOf(0, a) \in Nat
  BY DEF MaxOf

LEMMA MinInt == ASSUME NEW a \in Int, NEW b \in Int
                PROVE  MinOf(a, b) \in Int /\ MinOf(a, b) <= a /\ MinOf(a, b) <= b
  BY DEF MinOf

LEMMA GainInt == ASSUME NEW l \in Nat, NEW p \in Nat PROVE Gain(l, p) \in Int
  BY DEF Gain

(* A recalculation changes the extremes only, which then enclose the equity. *)
LEMMA RecalculatedAccount ==
  ASSUME NEW a \in Accounts
  PROVE  /\ Recalculated(a) \in Accounts
         /\ Recalculated(a).bal = a.bal /\ Recalculated(a).eq = a.eq /\ Recalculated(a).bod = a.bod
         /\ Recalculated(a).min <= a.eq /\ a.eq <= Recalculated(a).max
<1>1. a.max \in Int /\ a.min \in Int /\ a.eq \in Int
  BY DEF Accounts
<1>2. MaxOf(a.max, a.eq) \in Int /\ a.eq <= MaxOf(a.max, a.eq)
  BY <1>1, MaxInt
<1>3. MinOf(a.min, a.eq) \in Int /\ MinOf(a.min, a.eq) <= a.eq
  BY <1>1, MinInt
<1> DEFINE most == MaxOf(a.max, a.eq)
           least == IF a.min > 0 THEN MinOf(a.min, a.eq) ELSE a.eq
<1>4. least \in Int /\ least <= a.eq /\ most \in Int /\ a.eq <= most
  BY <1>1, <1>2, <1>3
<1>5. Recalculated(a) = [a EXCEPT !.max = most, !.min = least]
  BY DEF Recalculated
<1> HIDE DEF most, least
<1>6. QED
  BY <1>4, <1>5 DEF Accounts

(* A message ages by one, up to a bound. *)
LEMMA OlderAnswer ==
  ASSUME NEW x \in Answers, NEW most \in Nat, x.age < most
  PROVE  /\ Older(x, most) \in Answers /\ Older(x, most).age = x.age + 1
         /\ Older(x, most).wallet = x.wallet /\ Older(x, most).lot = x.lot
  BY DEF Older, Answers, MinOf

LEMMA OlderVersion ==
  ASSUME NEW v \in Versions, NEW most \in Nat
  PROVE  /\ Older(v, most) \in Versions /\ Older(v, most).age <= v.age + 1
         /\ Older(v, most).source = v.source
  BY DEF Older, Versions, MinOf

LEMMA MessageIs ==
  ASSUME Types, NEW w \in Nat, NEW l \in Nat
  PROVE  /\ Message(w, l) \in Answers /\ Message(w, l).age = 0
         /\ Message(w, l).wallet = w /\ Message(w, l).lot = l
<1>1. Gain(l, price) \in Int
  BY GainInt DEF Types
<1>2. QED
  BY <1>1 DEF Message, Answers

LEMMA MarkedAccount ==
  ASSUME NEW a \in Accounts, NEW g \in Int
  PROVE  Marked(a, g) \in Accounts /\ Marked(a, g).bal = a.bal /\ Marked(a, g).bod = a.bod
<1>1. MaxOf(0, a.bal + g) \in Nat
  BY MaxNat DEF Accounts
<1>2. QED
  BY <1>1 DEF Marked, Accounts

-----------------------------------------------------------------------------
(* Types *)

LEMMA TypesInit == ASSUME Parameters PROVE Init => Types
<1> SUFFICES ASSUME Init PROVE Types
  OBVIOUS
<1>1. <<>> \in Seq(Answers)
  BY EmptySeq
<1>2. NoMoney \in Accounts /\ Internal \in Versions /\ Idle \in [eq : Int, clean : BOOLEAN]
  BY DEF NoMoney, Accounts, Internal, Versions, Idle
<1>3. wallet \in Nat /\ price \in Nat
  BY DEF Init, Parameters
<1>4. QED
  BY <1>1, <1>2, <1>3 DEF Init, Types

(* What a trade or a transfer leaves. *)
LEMMA BooksEffect ==
  ASSUME Types, NEW w \in Nat, NEW l \in Nat, Books(w, l)
  PROVE  /\ wallet' = w /\ lot' = l /\ today' = today + w - wallet
         /\ \E m \in Answers : /\ m.wallet = w /\ m.lot = l /\ m.age = 0
                               /\ sent' = Append(sent, m)
         /\ reading' = [reading EXCEPT !.clean = FALSE]
         /\ UNCHANGED <<price, asked, acc, held, ver, sound>>
<1>1. sent' = Append(sent, Message(w, l))
  BY DEF Books
<1>2. QED
  BY <1>1, MessageIs DEF Books

(* Buying, selling and transferring are such. *)
LEMMA TradesBook ==
  ASSUME Types, Buys \/ Sells \/ Transfers
  PROVE  \E w \in Nat, l \in Nat : Books(w, l)
<1>1. CASE Buys
  BY <1>1 DEF Buys, Types
<1>2. CASE Sells
  <2>1. Gain(lot, price) \in Int
    BY GainInt DEF Types
  <2>2. wallet + Gain(lot, price) \in Int
    BY <2>1 DEF Types
  <2>3. MaxOf(0, wallet + Gain(lot, price)) \in Nat
    BY <2>2, MaxNat
  <2>4. QED
    BY <1>2, <2>3 DEF Sells
<1>3. CASE Transfers
  BY <1>3 DEF Transfers, Types
<1>4. QED
  BY <1>1, <1>2, <1>3

LEMMA TypesBooks ==
  ASSUME Types, Buys \/ Sells \/ Transfers
  PROVE  Types'
<1>1. PICK w \in Nat, l \in Nat : Books(w, l)
  BY TradesBook
<1>2. PICK m \in Answers : sent' = Append(sent, m)
  BY <1>1, BooksEffect
<1>3. sent' \in Seq(Answers)
  BY <1>2, AppendProperties DEF Types
<1>4. /\ wallet' = w /\ lot' = l /\ today' = today + w - wallet
      /\ reading' = [reading EXCEPT !.clean = FALSE]
      /\ UNCHANGED <<price, asked, acc, held, ver, sound>>
  BY <1>1, BooksEffect
<1>5. reading' \in [eq : Int, clean : BOOLEAN]
  BY <1>4 DEF Types
<1>6. QED
  BY <1>3, <1>4, <1>5 DEF Types

(* What a tick does to the messages. *)
LEMMA TickEffect ==
  ASSUME Parameters, Types, Tick
  PROVE  /\ sent' \in Seq(Answers) /\ Len(sent') = Len(sent)
         /\ \A i \in 1 .. Len(sent) : /\ sent'[i].age = sent[i].age + 1
                                      /\ sent'[i].wallet = sent[i].wallet
                                      /\ sent'[i].lot = sent[i].lot
         /\ asked' \subseteq Answers
         /\ \A x \in asked' : /\ x.age <= Latency
                              /\ \E y \in asked : /\ x.age = y.age + 1
                                                  /\ x.wallet = y.wallet /\ x.lot = y.lot
         /\ ver' \in Versions /\ ver'.source = ver.source /\ ver'.age <= ver.age + 1
         /\ ver = Internal => ver' = Internal
         /\ UNCHANGED <<wallet, lot, price, today, acc, held, reading, sound>>
<1>0. sent \in Seq(Answers) /\ asked \subseteq Answers /\ ver \in Versions
      /\ Latency \in Nat /\ Window \in Nat
  BY DEF Types, Parameters
<1>1. \A i \in 1 .. Len(sent) : sent[i] \in Answers /\ sent[i].age < Latency
  <2>1. DOMAIN sent = 1 .. Len(sent) /\ \A i \in 1 .. Len(sent) : sent[i] \in Answers
    BY <1>0, LenProperties, ElementOfSeq
  <2>2. \A i \in 1 .. Len(sent) : sent[i] \in Range(sent)
    BY <2>1 DEF Range
  <2>3. QED
    BY <2>1, <2>2 DEF Tick
<1>2. sent' = [i \in 1 .. Len(sent) |-> Older(sent[i], Latency)]
  BY <1>0, LenProperties DEF Tick
<1>3. \A i \in 1 .. Len(sent) : /\ Older(sent[i], Latency) \in Answers
                                /\ Older(sent[i], Latency).age = sent[i].age + 1
                                /\ Older(sent[i], Latency).wallet = sent[i].wallet
                                /\ Older(sent[i], Latency).lot = sent[i].lot
  BY <1>0, <1>1, OlderAnswer
<1>4. Len(sent) \in Nat
  BY <1>0, LenProperties
<1>5. sent' \in Seq(Answers) /\ Len(sent') = Len(sent)
  BY <1>2, <1>3, <1>4
<1>6. \A y \in asked : /\ Older(y, Latency) \in Answers
                       /\ Older(y, Latency).age = y.age + 1 /\ y.age < Latency
                       /\ Older(y, Latency).wallet = y.wallet /\ Older(y, Latency).lot = y.lot
  BY <1>0, OlderAnswer DEF Tick
<1>7. asked' = {Older(y, Latency) : y \in asked}
  BY DEF Tick
<1>8. /\ asked' \subseteq Answers
      /\ \A x \in asked' : /\ x.age <= Latency
                           /\ \E y \in asked : /\ x.age = y.age + 1
                                               /\ x.wallet = y.wallet /\ x.lot = y.lot
  <2>1. \A y \in asked : y.age \in Nat /\ y.age + 1 <= Latency
    BY <1>0, <1>6 DEF Answers
  <2>2. QED
    BY <1>6, <1>7, <2>1
<1>9. /\ ver' \in Versions /\ ver'.source = ver.source /\ ver'.age <= ver.age + 1
      /\ ver = Internal => ver' = Internal
  <2>1. CASE ver.source = "internal"
    BY <1>0, <2>1 DEF Tick, Versions
  <2>2. CASE ver.source # "internal"
    BY <1>0, <2>2, OlderVersion DEF Tick, Internal
  <2>3. QED
    BY <2>1, <2>2
<1>10. QED
  BY <1>2, <1>3, <1>5, <1>8, <1>9 DEF Tick, exchange

(* Writing balance and equity. *)
LEMMA Written ==
  ASSUME NEW a \in Accounts, NEW b \in Nat, NEW e \in Int
  PROVE  /\ [a EXCEPT !.bal = b, !.eq = e] \in Accounts
         /\ [a EXCEPT !.bal = b, !.eq = e].bal = b
         /\ [a EXCEPT !.bal = b, !.eq = e].eq = e
         /\ [a EXCEPT !.bal = b, !.eq = e].bod = a.bod
<1>1. [a EXCEPT !.bal = b] \in Accounts
  BY DEF Accounts
<1>2. [a EXCEPT !.bal = b, !.eq = e] = [[a EXCEPT !.bal = b] EXCEPT !.eq = e]
  BY DEF Accounts
<1>3. QED
  BY <1>1, <1>2 DEF Accounts

LEMMA AnswerAccount ==
  ASSUME Types, NEW s \in asked
  PROVE  LET a == [acc EXCEPT !.bal = s.wallet, !.eq = s.wallet]
             b == IF a.bod = 0 THEN [a EXCEPT !.bod = a.eq, !.max = a.eq, !.min = a.eq] ELSE a
         IN  /\ b \in Accounts /\ b.bal = s.wallet /\ b.eq = s.wallet
             /\ b.bod = IF acc.bod = 0 THEN s.wallet ELSE acc.bod
<1>1. acc \in Accounts /\ s.wallet \in Nat
  BY DEF Types, Answers
<1> DEFINE a == [acc EXCEPT !.bal = s.wallet, !.eq = s.wallet]
<1>2. a \in Accounts /\ a.bal = s.wallet /\ a.eq = s.wallet /\ a.bod = acc.bod
  <2>1. s.wallet \in Int
    BY <1>1
  <2>2. /\ [acc EXCEPT !.bal = s.wallet] \in Accounts
        /\ [acc EXCEPT !.bal = s.wallet].bal = s.wallet
        /\ [acc EXCEPT !.bal = s.wallet].bod = acc.bod
    BY <1>1 DEF Accounts
  <2>3. a = [[acc EXCEPT !.bal = s.wallet] EXCEPT !.eq = s.wallet]
    BY <1>1 DEF Accounts
  <2> HIDE DEF a
  <2>4. QED
    BY <2>1, <2>2, <2>3 DEF Accounts
<1> HIDE DEF a
<1>3. CASE a.bod = 0
  BY <1>1, <1>2, <1>3 DEF Accounts, a
<1>4. CASE a.bod # 0
  BY <1>2, <1>4 DEF a
<1>5. QED
  BY <1>3, <1>4

(* What an answer does: nothing, or it is taken. *)
LEMMA AnswerEffect ==
  ASSUME Types, NEW s \in asked, Answer(s)
  PROVE  /\ asked' = asked \ {s}
         /\ UNCHANGED <<wallet, lot, price, today, sent, reading>>
         /\ \/ UNCHANGED <<acc, held, ver, sound>>
            \/ /\ ShouldAccept("rest")
               /\ acc' \in Accounts /\ acc'.bal = s.wallet /\ held' = s.lot
               /\ acc'.min <= acc'.eq /\ acc'.eq <= acc'.max
               /\ acc'.bod = IF acc.bod = 0 THEN s.wallet ELSE acc.bod
               /\ ver' = [source |-> "rest", age |-> 0]
               /\ sound' = IF acc.bod = 0 THEN s.wallet = wallet /\ today = 0 ELSE sound
<1> DEFINE a == [acc EXCEPT !.bal = s.wallet, !.eq = s.wallet]
           b == IF a.bod = 0 THEN [a EXCEPT !.bod = a.eq, !.max = a.eq, !.min = a.eq] ELSE a
<1>1. /\ b \in Accounts /\ b.bal = s.wallet /\ b.eq = s.wallet
      /\ b.bod = IF acc.bod = 0 THEN s.wallet ELSE acc.bod
  BY AnswerAccount
<1>2. CASE ShouldAccept("rest")
  <2>1. /\ acc' = Recalculated(b) /\ held' = s.lot /\ ver' = [source |-> "rest", age |-> 0]
        /\ sound' = IF acc.bod = 0 THEN s.wallet = wallet /\ today = 0 ELSE sound
    BY <1>2 DEF Answer
  <2> HIDE DEF b
  <2>2. /\ acc' \in Accounts /\ acc'.bal = b.bal /\ acc'.eq = b.eq /\ acc'.bod = b.bod
        /\ acc'.min <= b.eq /\ b.eq <= acc'.max
    BY <1>1, <2>1, RecalculatedAccount
  <2>3. asked' = asked \ {s} /\ UNCHANGED <<wallet, lot, price, today, sent, reading>>
    BY DEF Answer, exchange
  <2>4. QED
    BY <1>1, <1>2, <2>1, <2>2, <2>3
<1>3. CASE ~ShouldAccept("rest")
  BY <1>3 DEF Answer, exchange
<1>4. QED
  BY <1>2, <1>3

(* What a message does. *)
LEMMA DeliverEffect ==
  ASSUME Types, Deliver
  PROVE  /\ sent # <<>> /\ sent' = Tail(sent) /\ held' = Head(sent).lot
         /\ Head(sent) \in Answers
         /\ acc' \in Accounts /\ acc'.bal = Head(sent).wallet /\ acc'.bod = acc.bod
         /\ acc'.min <= acc'.eq /\ acc'.eq <= acc'.max
         /\ \/ ver' = [source |-> "stream", age |-> Head(sent).age]
            \/ ver' = [source |-> "platform", age |-> 0]
         /\ UNCHANGED <<wallet, lot, price, today, asked, reading, sound>>
<1> DEFINE e == Head(sent)
<1>1. sent # <<>> /\ sent' = Tail(sent) /\ held' = e.lot
      /\ UNCHANGED <<wallet, lot, price, today, asked, reading, sound>>
  BY DEF Deliver, exchange
<1>2. e \in Answers
  BY <1>1, HeadTailProperties DEF Types
<1> DEFINE a == [acc EXCEPT !.bal = e.wallet]
           b == [acc EXCEPT !.bal = e.wallet, !.eq = e.wallet + e.gain]
<1>7. acc \in Accounts /\ e.wallet \in Nat /\ e.wallet + e.gain \in Int
  BY <1>2 DEF Types, Answers
<1>8. a \in Accounts /\ a.bal = e.wallet /\ a.bod = acc.bod
  BY <1>7 DEF Accounts
<1>3. /\ a \in Accounts /\ a.bal = e.wallet /\ a.bod = acc.bod
      /\ b \in Accounts /\ b.bal = e.wallet /\ b.bod = acc.bod
  BY <1>7, <1>8, Written
<1>4. \/ acc' = Recalculated(a) /\ ver' = [source |-> "stream", age |-> e.age]
      \/ acc' = Recalculated(b) /\ ver' = [source |-> "platform", age |-> 0]
  BY DEF Deliver, Streamed, Pushed
<1> HIDE DEF a, b, e
<1>5. /\ acc' \in Accounts /\ acc'.bal = e.wallet /\ acc'.bod = acc.bod
      /\ acc'.min <= acc'.eq /\ acc'.eq <= acc'.max
  BY <1>3, <1>4, RecalculatedAccount
<1>6. QED
  BY <1>1, <1>2, <1>4, <1>5 DEF e

(* What a mark price does. *)
LEMMA MarkEffect ==
  ASSUME Types, Mark
  PROVE  /\ acc' \in Accounts /\ acc'.bal = acc.bal /\ acc'.bod = acc.bod
         /\ acc'.eq = Marked(acc, Gain(held, price)).eq
         /\ acc'.min <= acc'.eq /\ acc'.eq <= acc'.max
         /\ UNCHANGED <<wallet, lot, price, today, sent, asked, held, ver, reading, sound>>
<1> DEFINE m == Marked(acc, Gain(held, price))
<1>1. Gain(held, price) \in Int
  BY GainInt DEF Types
<1>2. m \in Accounts /\ m.bal = acc.bal /\ m.bod = acc.bod
  BY <1>1, MarkedAccount DEF Types
<1>3. /\ acc' = Recalculated(m)
      /\ UNCHANGED <<wallet, lot, price, today, sent, asked, held, ver, reading, sound>>
  BY DEF Mark, exchange
<1> HIDE DEF m
<1>4. QED
  BY <1>2, <1>3, RecalculatedAccount DEF m

(* What the midnight reset does. *)
LEMMA MidnightEffect ==
  ASSUME Types, Midnight
  PROVE  /\ acc' \in Accounts /\ acc'.bal = acc.bal /\ acc'.bod = acc.eq /\ acc'.eq = acc.eq
         /\ acc'.min <= acc'.eq /\ acc'.eq <= acc'.max
         /\ today' = 0 /\ sound' = (acc.eq = wallet)
         /\ reading' = [reading EXCEPT !.clean = FALSE]
         /\ UNCHANGED <<wallet, lot, price, sent, asked, held, ver>>
<1>1. acc \in Accounts /\ acc' = [acc EXCEPT !.bod = acc.eq, !.max = acc.eq, !.min = acc.eq]
  BY DEF Midnight, Reset, Types
<1>2. /\ acc' \in Accounts /\ acc'.bal = acc.bal /\ acc'.bod = acc.eq /\ acc'.eq = acc.eq
      /\ acc'.min = acc.eq /\ acc'.max = acc.eq /\ acc.eq \in Int
  BY <1>1 DEF Accounts
<1>3. /\ today' = 0 /\ sound' = (acc.eq = wallet)
      /\ reading' = [reading EXCEPT !.clean = FALSE]
      /\ UNCHANGED <<wallet, lot, price, sent, asked, held, ver>>
  BY DEF Midnight
<1>4. QED
  BY <1>2, <1>3

(* What the start of day from the income does. *)
LEMMA BodEffect ==
  ASSUME Types, BodApplies
  PROVE  /\ acc' \in Accounts /\ acc'.bal = acc.bal /\ acc'.eq = acc.eq
         /\ acc'.bod = reading.eq - today
         /\ acc'.min <= acc'.eq /\ acc'.eq <= acc'.max
         /\ sound' = reading.clean /\ reading' = Idle
         /\ UNCHANGED <<wallet, lot, price, today, sent, asked, held, ver>>
<1> DEFINE a == [acc EXCEPT !.bod = reading.eq - today]
<1>1. a \in Accounts /\ a.bal = acc.bal /\ a.eq = acc.eq /\ a.bod = reading.eq - today
  BY DEF Types, Accounts
<1>2. acc' = Recalculated(a)
  BY DEF BodApplies, Bod
<1> HIDE DEF a
<1>3. /\ acc' \in Accounts /\ acc'.bal = a.bal /\ acc'.eq = a.eq /\ acc'.bod = a.bod
      /\ acc'.min <= acc'.eq /\ acc'.eq <= acc'.max
  BY <1>1, <1>2, RecalculatedAccount
<1>4. sound' = reading.clean /\ reading' = Idle
      /\ UNCHANGED <<wallet, lot, price, today, sent, asked, held, ver>>
  BY DEF BodApplies, exchange
<1>5. QED
  BY <1>1, <1>3, <1>4

(* The steps that write nothing but requests, prices and the reading.          *)
LEMMA AskEffect ==
  ASSUME Types, Ask
  PROVE  /\ \E m \in Answers : /\ m.wallet = wallet /\ m.lot = lot /\ m.age = 0
                               /\ asked' = asked \cup {m}
         /\ UNCHANGED <<wallet, lot, price, today, sent, acc, held, ver, reading, sound>>
<1>1. asked' = asked \cup {Message(wallet, lot)} /\ wallet \in Nat /\ lot \in Nat
  BY DEF Ask, Types
<1>2. QED
  BY <1>1, MessageIs DEF Ask, exchange

LEMMA BodStartsEffect ==
  ASSUME Types, BodStarts
  PROVE  /\ reading' = [eq |-> acc.eq, clean |-> acc.eq = wallet]
         /\ reading' \in [eq : Int, clean : BOOLEAN]
         /\ UNCHANGED <<wallet, lot, price, today, sent, asked, acc, held, ver, sound>>
  BY DEF BodStarts, exchange, Types, Accounts

LEMMA RestartEffect ==
  ASSUME Types, Restart
  PROVE  /\ sent' = <<>> /\ <<>> \in Seq(Answers) /\ asked' = {}
         /\ held' = 0 /\ ver' = Internal /\ Internal \in Versions
         /\ reading' = Idle /\ Idle \in [eq : Int, clean : BOOLEAN] /\ sound' = FALSE
         /\ UNCHANGED <<wallet, lot, price, today, acc>>
  BY EmptySeq DEF Restart, Internal, Versions, Idle

LEMMA TypesStep == ASSUME Parameters PROVE Types /\ [Next]_vars => Types'
<1> SUFFICES ASSUME Types, [Next]_vars PROVE Types'
  OBVIOUS
<1>1. CASE Buys \/ Sells \/ Transfers
  BY <1>1, TypesBooks
<1>2. CASE PriceMoves
  BY <1>2 DEF PriceMoves, Types, Parameters
<1>3. CASE Tick
  BY <1>3, TickEffect DEF Types
<1>4. CASE Ask
  BY <1>4, AskEffect DEF Types
<1>5. CASE Deliver
  <2>1. Tail(sent) \in Seq(Answers)
    BY <1>5, DeliverEffect, HeadTailProperties DEF Types
  <2>2. Head(sent) \in Answers /\ sent' = Tail(sent) /\ held' = Head(sent).lot /\ acc' \in Accounts
    BY <1>5, DeliverEffect
  <2>3. ver' \in Versions
    BY <1>5, DeliverEffect DEF Versions, Answers
  <2>4. UNCHANGED <<wallet, lot, price, today, asked, reading>>
    BY <1>5, DeliverEffect
  <2>5. QED
    BY <2>1, <2>2, <2>3, <2>4 DEF Types, Answers
<1>6. CASE Mark
  BY <1>6, MarkEffect DEF Types
<1>0. Idle \in [eq : Int, clean : BOOLEAN]
  BY DEF Idle
<1>7. CASE Midnight
  <2>1. /\ acc' \in Accounts /\ today' = 0 /\ reading' = [reading EXCEPT !.clean = FALSE]
        /\ UNCHANGED <<wallet, lot, price, sent, asked, held, ver>>
    BY <1>7, MidnightEffect
  <2>2. reading' \in [eq : Int, clean : BOOLEAN]
    BY <2>1 DEF Types
  <2>3. QED
    BY <2>1, <2>2 DEF Types
<1>8. CASE BodStarts
  <2>1. /\ reading' \in [eq : Int, clean : BOOLEAN]
        /\ UNCHANGED <<wallet, lot, price, today, sent, asked, acc, held, ver>>
    BY <1>8, BodStartsEffect
  <2>2. QED
    BY <2>1 DEF Types
<1>9. CASE BodApplies
  <2>1. /\ acc' \in Accounts /\ reading' = Idle
        /\ UNCHANGED <<wallet, lot, price, today, sent, asked, held, ver>>
    BY <1>9, BodEffect
  <2>2. QED
    BY <1>0, <2>1 DEF Types
<1>10. CASE BodFails
  <2>1. reading' = Idle /\ UNCHANGED <<wallet, lot, price, today, sent, asked, acc, held, ver>>
    BY <1>10 DEF BodFails, exchange
  <2>2. QED
    BY <1>0, <2>1 DEF Types
<1>11. CASE Restart
  <2>1. /\ sent' = <<>> /\ <<>> \in Seq(Answers) /\ asked' = {} /\ held' = 0
        /\ ver' \in Versions /\ reading' = Idle
        /\ UNCHANGED <<wallet, lot, price, today, acc>>
    BY <1>11, RestartEffect
  <2>2. QED
    BY <1>0, <2>1 DEF Types
<1>12. ASSUME NEW s \in asked, Answer(s)
       PROVE  Types'
  <2>1. asked' \subseteq Answers /\ s \in Answers
    BY <1>12, AnswerEffect DEF Types
  <2>2. acc' \in Accounts /\ held' \in Nat /\ ver' \in Versions
    BY <1>12, <2>1, AnswerEffect DEF Types, Answers, Versions
  <2>3. UNCHANGED <<wallet, lot, price, today, sent, reading>>
    BY <1>12, AnswerEffect
  <2>4. QED
    BY <2>1, <2>2, <2>3 DEF Types
<1>13. ASSUME NEW s \in asked, AskFails(s)
       PROVE  Types'
  BY <1>13 DEF AskFails, exchange, Types
<1>14. CASE UNCHANGED vars
  BY <1>14 DEF vars, Types
<1>15. QED
  BY <1>1, <1>2, <1>3, <1>4, <1>5, <1>6, <1>7, <1>8, <1>9, <1>10, <1>11, <1>12, <1>13,
     <1>14 DEF Next

-----------------------------------------------------------------------------
(* The extremes *)

Enclosed == Types /\ acc.min <= acc.eq /\ acc.eq <= acc.max

LEMMA EnclosedStep == ASSUME Parameters PROVE Enclosed /\ [Next]_vars => Enclosed'
<1> SUFFICES ASSUME Enclosed, [Next]_vars PROVE Enclosed'
  OBVIOUS
<1>0. Types /\ Types'
  BY TypesStep DEF Enclosed
<1>1. CASE acc' = acc
  BY <1>0, <1>1 DEF Enclosed
<1>2. CASE Buys \/ Sells \/ Transfers
  BY <1>0, <1>1, <1>2, TradesBook, BooksEffect
<1>3. CASE Deliver \/ Mark \/ Midnight \/ BodApplies
  BY <1>0, <1>3, DeliverEffect, MarkEffect, MidnightEffect, BodEffect DEF Enclosed
<1>4. ASSUME NEW s \in asked, Answer(s)
      PROVE  Enclosed'
  BY <1>0, <1>1, <1>4, AnswerEffect DEF Enclosed
<1>5. CASE PriceMoves \/ Tick \/ Ask \/ BodStarts \/ BodFails \/ Restart \/ UNCHANGED vars
  BY <1>1, <1>5 DEF PriceMoves, Tick, Ask, BodStarts, BodFails, Restart, vars
<1>6. ASSUME NEW s \in asked, AskFails(s)
      PROVE  Enclosed'
  BY <1>1, <1>6 DEF AskFails
<1>7. QED
  BY <1>2, <1>3, <1>4, <1>5, <1>6 DEF Next

(* The day's extremes enclose the equity, whatever wrote it last. *)
THEOREM ExtremesEnclose == ASSUME Parameters PROVE Spec => []Within
<1>1. Init => Enclosed
  <2> SUFFICES ASSUME Init PROVE Enclosed
    OBVIOUS
  <2>1. Types
    BY TypesInit
  <2>2. QED
    BY <2>1 DEF Init, Enclosed, NoMoney
<1>2. Enclosed /\ [Next]_vars => Enclosed'
  BY EnclosedStep
<1>3. Enclosed => Within
  BY DEF Enclosed, Within
<1>4. QED
  BY <1>1, <1>2, <1>3, PTL DEF Spec

-----------------------------------------------------------------------------
(* The start of day *)

Dated ==
    /\ Types
    /\ sound => acc.bod = wallet - today
    /\ reading.clean => reading.eq = wallet

LEMMA DatedStep == ASSUME Parameters PROVE Dated /\ [Next]_vars => Dated'
<1> SUFFICES ASSUME Dated, [Next]_vars PROVE Dated'
  OBVIOUS
<1>0. Types /\ Types' /\ wallet \in Int /\ today \in Int
  BY TypesStep DEF Dated, Types
<1>1. CASE UNCHANGED <<wallet, today, reading, sound>> /\ acc'.bod = acc.bod
  BY <1>0, <1>1 DEF Dated
<1>2. CASE Buys \/ Sells \/ Transfers
  <2>1. PICK w \in Nat, l \in Nat : Books(w, l)
    BY <1>0, <1>2, TradesBook
  <2>2. /\ wallet' = w /\ today' = today + w - wallet
        /\ UNCHANGED <<acc, sound>> /\ reading' = [reading EXCEPT !.clean = FALSE]
    BY <1>0, <2>1, BooksEffect
  <2>3. ~reading'.clean
    BY <1>0, <2>2 DEF Types
  <2>4. QED
    BY <1>0, <2>2, <2>3 DEF Dated
<1>3. CASE Deliver \/ Mark
  BY <1>0, <1>1, <1>3, DeliverEffect, MarkEffect
<1>4. CASE Midnight
  <2>1. /\ acc'.bod = acc.eq /\ today' = 0 /\ (sound' <=> acc.eq = wallet)
        /\ wallet' = wallet /\ reading' = [reading EXCEPT !.clean = FALSE]
    BY <1>0, <1>4, MidnightEffect
  <2>2. ~reading'.clean
    BY <1>0, <2>1 DEF Types
  <2>3. QED
    BY <1>0, <2>1, <2>2 DEF Dated
<1>5. CASE BodStarts
  <2>1. /\ (reading'.clean <=> acc.eq = wallet) /\ reading'.eq = acc.eq
        /\ UNCHANGED <<wallet, today, acc, sound>>
    BY <1>0, <1>5, BodStartsEffect
  <2>2. QED
    BY <1>0, <2>1 DEF Dated
<1>6. CASE BodApplies
  <2>1. /\ acc'.bod = reading.eq - today /\ (sound' <=> reading.clean)
        /\ reading' = Idle /\ UNCHANGED <<wallet, today>>
    BY <1>0, <1>6, BodEffect
  <2>2. QED
    BY <1>0, <2>1 DEF Dated, Idle
<1>7. CASE BodFails \/ Restart
  <2>1. reading' = Idle /\ UNCHANGED <<wallet, today, acc>> /\ (sound' => sound)
    BY <1>7 DEF BodFails, Restart, exchange
  <2>2. QED
    BY <1>0, <2>1 DEF Dated, Idle
<1>8. ASSUME NEW s \in asked, Answer(s)
      PROVE  Dated'
  <2>1. CASE UNCHANGED <<acc, held, ver, sound>>
    BY <1>0, <1>1, <1>8, <2>1, AnswerEffect
  <2>2. CASE /\ acc'.bod = IF acc.bod = 0 THEN s.wallet ELSE acc.bod
             /\ sound' = IF acc.bod = 0 THEN s.wallet = wallet /\ today = 0 ELSE sound
    <3>1. UNCHANGED <<wallet, today, reading>>
      BY <1>0, <1>8, AnswerEffect
    <3>2. CASE acc.bod = 0
      <4>1. acc'.bod = s.wallet /\ (sound' <=> s.wallet = wallet /\ today = 0)
        BY <2>2, <3>2
      <4>2. QED
        BY <1>0, <3>1, <4>1 DEF Dated
    <3>3. CASE acc.bod # 0
      BY <1>0, <2>2, <3>1, <3>3 DEF Dated
    <3>4. QED
      BY <3>2, <3>3
  <2>3. QED
    BY <1>0, <1>8, <2>1, <2>2, AnswerEffect
<1>9. ASSUME NEW s \in asked, AskFails(s)
      PROVE  Dated'
  BY <1>1, <1>9 DEF AskFails, exchange
<1>10. CASE PriceMoves \/ Tick \/ Ask \/ UNCHANGED vars
  BY <1>1, <1>10 DEF PriceMoves, Tick, Ask, exchange, vars
<1>11. QED
  BY <1>2, <1>3, <1>4, <1>5, <1>6, <1>7, <1>8, <1>9, <1>10 DEF Next

(* With a start of day read from the wallet alone, the day's result of an       *)
(* account without open gains is the day's income.                              *)
THEOREM DayIsIncome == ASSUME Parameters PROVE Spec => []DayFromIncome
<1>1. Init => Dated
  <2> SUFFICES ASSUME Init PROVE Dated
    OBVIOUS
  <2>1. Types
    BY TypesInit
  <2>2. QED
    BY <2>1 DEF Init, Dated, Idle
<1>2. Dated /\ [Next]_vars => Dated'
  BY DatedStep
<1>3. Dated => DayFromIncome
  BY DEF Dated, DayFromIncome, DailyPnl, Types, Accounts
<1>4. QED
  BY <1>1, <1>2, <1>3, PTL DEF Spec

-----------------------------------------------------------------------------
(* The balance *)

Fresh(x) == x.wallet = wallet /\ x.lot = lot
Newest == sent[Len(sent)]

(* The newest message on its way has the exchange's figures; with none on its  *)
(* way the engine has them.  An answer that does not is older than that        *)
(* message, or than the version it left.                                       *)
OnItsWay ==
    sent # <<>> => /\ Fresh(Newest)
                   /\ \A x \in asked : Fresh(x) \/ Newest.age <= x.age
AllHere ==
    sent = <<>> =>
        /\ ver # Internal => acc.bal = wallet /\ held = lot
        /\ \A x \in asked : Fresh(x) \/ (ver.source \in {"stream", "platform"} /\ ver.age <= x.age)
Timely ==
    /\ Types
    /\ \A x \in asked : x.age <= Latency
    /\ ver.source = "internal" => ver = Internal
    /\ OnItsWay /\ AllHere

(* With a window longer than the latency, an answer that is taken while nothing *)
(* is on its way is fresh, and so is every other one.                           *)
LEMMA TakenIsFresh ==
  ASSUME Parameters, Latency < Window, Timely, ShouldAccept("rest"), sent = <<>>,
         NEW x \in asked
  PROVE  Fresh(x)
<1>1. x.age \in Nat /\ x.age <= Latency /\ ver.age \in Nat
  BY DEF Timely, Types, Answers, Versions
<1>2. Fresh(x) \/ (ver.source \in {"stream", "platform"} /\ ver.age <= x.age)
  BY DEF Timely, AllHere
<1>3. ver.source \in {"stream", "platform"} => ver.age >= Window
  BY DEF ShouldAccept
<1>4. QED
  BY <1>1, <1>2, <1>3 DEF Parameters

LEMMA TimelyBooks ==
  ASSUME Timely, Buys \/ Sells \/ Transfers, Types'
  PROVE  Timely'
<1>0. Types
  BY DEF Timely
<1>1. PICK w \in Nat, l \in Nat : Books(w, l)
  BY <1>0, TradesBook
<1>2. PICK m \in Answers : /\ m.wallet = w /\ m.lot = l /\ m.age = 0
                           /\ sent' = Append(sent, m)
  BY <1>0, <1>1, BooksEffect
<1>3. wallet' = w /\ lot' = l /\ UNCHANGED <<asked, acc, held, ver>>
  BY <1>0, <1>1, BooksEffect
<1>4. sent' # <<>> /\ Newest' = m
  <2>1. sent \in Seq(Answers)
    BY <1>0 DEF Types
  <2>2. /\ Append(sent, m) # <<>>
        /\ Append(sent, m)[Len(Append(sent, m))] = m
    BY <2>1, AppendProperties
  <2>3. QED
    BY <1>2, <2>2 DEF Newest
<1>5. \A x \in asked' : x.age >= 0 /\ x.age <= Latency
  BY <1>0, <1>3 DEF Timely, Types, Answers
<1>6. QED
  BY <1>2, <1>3, <1>4, <1>5 DEF Timely, OnItsWay, AllHere, Fresh

LEMMA TimelyTick ==
  ASSUME Parameters, Timely, Tick, Types'
  PROVE  Timely'
<1>0. Types /\ sent \in Seq(Answers) /\ sent' \in Seq(Answers) /\ Len(sent) \in Nat
  BY LenProperties DEF Timely, Types
<1>1. /\ Len(sent') = Len(sent)
      /\ \A i \in 1 .. Len(sent) : /\ sent'[i].age = sent[i].age + 1
                                   /\ sent'[i].wallet = sent[i].wallet
                                   /\ sent'[i].lot = sent[i].lot
  BY <1>0, TickEffect
<1>2. \A x \in asked' : /\ x.age <= Latency
                        /\ \E y \in asked : /\ x.age = y.age + 1
                                            /\ x.wallet = y.wallet /\ x.lot = y.lot
  BY <1>0, TickEffect
<1>3. /\ ver'.source = ver.source /\ ver'.age <= ver.age + 1
      /\ ver = Internal => ver' = Internal
      /\ UNCHANGED <<wallet, lot, acc, held>>
  BY <1>0, TickEffect
<1>4. \A y \in asked : y.age \in Nat
  BY <1>0 DEF Types, Answers
<1>5. sent = <<>> <=> sent' = <<>>
  BY <1>0, <1>1, EmptySeq
<1>6. ver.source = "internal" => ver = Internal /\ ver' = Internal
  BY <1>3 DEF Timely
<1>7. OnItsWay'
  <2> SUFFICES ASSUME sent' # <<>>
               PROVE  /\ Fresh(Newest)'
                      /\ \A x \in asked' : Fresh(x)' \/ Newest'.age <= x.age
    BY DEF OnItsWay
  <2>1. Len(sent) \in 1 .. Len(sent)
    BY <1>0, <1>5, EmptySeq
  <2>2. /\ Newest'.age = Newest.age + 1 /\ Newest'.wallet = Newest.wallet
        /\ Newest'.lot = Newest.lot /\ Newest \in Answers
    BY <1>0, <1>1, <2>1, ElementOfSeq DEF Newest
  <2>3. Fresh(Newest) /\ \A y \in asked : Fresh(y) \/ Newest.age <= y.age
    BY <1>5 DEF Timely, OnItsWay
  <2>4. Fresh(Newest)'
    BY <1>3, <2>2, <2>3 DEF Fresh
  <2>5. ASSUME NEW x \in asked'
        PROVE  Fresh(x)' \/ Newest'.age <= x.age
    <3>1. PICK y \in asked : x.age = y.age + 1 /\ x.wallet = y.wallet /\ x.lot = y.lot
      BY <1>2
    <3>2. CASE Fresh(y)
      BY <1>3, <3>1, <3>2 DEF Fresh
    <3>3. CASE Newest.age <= y.age
      BY <1>4, <2>2, <3>1, <3>3 DEF Answers
    <3>4. QED
      BY <2>3, <3>2, <3>3
  <2>6. QED
    BY <2>4, <2>5
<1>8. AllHere'
  <2> SUFFICES ASSUME sent' = <<>>
               PROVE  /\ ver' # Internal => acc'.bal = wallet' /\ held' = lot'
                      /\ \A x \in asked' :
                           Fresh(x)' \/ (ver'.source \in {"stream", "platform"} /\ ver'.age <= x.age)
    BY DEF AllHere
  <2>1. /\ ver # Internal => acc.bal = wallet /\ held = lot
        /\ \A y \in asked :
             Fresh(y) \/ (ver.source \in {"stream", "platform"} /\ ver.age <= y.age)
    BY <1>5 DEF Timely, AllHere
  <2>2. ASSUME NEW x \in asked'
        PROVE  Fresh(x)' \/ (ver'.source \in {"stream", "platform"} /\ ver'.age <= x.age)
    <3>1. PICK y \in asked : x.age = y.age + 1 /\ x.wallet = y.wallet /\ x.lot = y.lot
      BY <1>2
    <3>2. CASE Fresh(y)
      BY <1>3, <3>1, <3>2 DEF Fresh
    <3>3. CASE ver.source \in {"stream", "platform"} /\ ver.age <= y.age
      <4>1. ver.age \in Nat /\ ver'.age \in Nat
        BY <1>0 DEF Types, Versions
      <4>2. QED
        BY <1>3, <1>4, <3>1, <3>3, <4>1
    <3>4. QED
      BY <2>1, <3>2, <3>3
  <2>3. ver' # Internal => ver # Internal
    BY <1>3
  <2>4. QED
    BY <1>3, <2>1, <2>2, <2>3
<1>9. QED
  BY <1>2, <1>3, <1>6, <1>7, <1>8 DEF Timely

LEMMA TimelyDeliver ==
  ASSUME Timely, Deliver, Types'
  PROVE  Timely'
<1>0. Types
  BY DEF Timely
<1>1. /\ sent # <<>> /\ sent' = Tail(sent) /\ held' = Head(sent).lot
      /\ acc'.bal = Head(sent).wallet /\ UNCHANGED <<wallet, lot, asked>>
      /\ ver'.source \in {"stream", "platform"} /\ ver'.age \in {0, Head(sent).age}
  BY <1>0, DeliverEffect
<1>2. Fresh(Newest) /\ \A x \in asked : Fresh(x) \/ Newest.age <= x.age
  BY <1>1 DEF Timely, OnItsWay
<1>3. \A x \in asked : x.age \in Nat
  BY <1>0 DEF Types, Answers
<1>4. /\ sent \in Seq(Answers) /\ Len(sent) \in Nat \ {0}
      /\ Head(sent) = sent[1] /\ Tail(sent) \in Seq(Answers)
      /\ Len(Tail(sent)) = Len(sent) - 1
      /\ \A i \in 1 .. Len(Tail(sent)) : Tail(sent)[i] = sent[i + 1]
  BY <1>0, <1>1, HeadTailProperties, EmptySeq DEF Types
<1>5. CASE sent' = <<>>
  <2>1. Newest = Head(sent)
    <3>1. Len(<<>>) = 0
      BY EmptySeq
    <3>2. Tail(sent) = <<>>
      BY <1>1, <1>5
    <3>3. Len(Tail(sent)) = 0
      BY <3>1, <3>2, Zenon
    <3>4. Len(sent) \in Int /\ Len(Tail(sent)) = Len(sent) - 1
      BY <1>4
    <3>5. \A n \in Int : n - 1 = 0 => n = 1
      OBVIOUS
    <3>6. Len(sent) - 1 = 0
      BY <3>3, <3>4, Zenon
    <3>7. Len(sent) = 1
      BY <3>4, <3>5, <3>6, Zenon
    <3>8. QED
      BY <1>4, <3>7 DEF Newest
  <2>2. AllHere' /\ OnItsWay'
    BY <1>1, <1>2, <1>3, <1>5, <2>1 DEF AllHere, OnItsWay, Fresh
  <2>3. QED
    BY <1>1, <2>2 DEF Timely
<1>6. CASE sent' # <<>>
  <2>1. Newest' = Newest
    BY <1>1, <1>4, <1>6, EmptySeq DEF Newest
  <2>2. AllHere' /\ OnItsWay'
    BY <1>1, <1>2, <1>6, <2>1 DEF AllHere, OnItsWay, Fresh
  <2>3. QED
    BY <1>1, <2>2 DEF Timely
<1>7. QED
  BY <1>5, <1>6

LEMMA TimelyAnswer ==
  ASSUME Parameters, Latency < Window, Timely, NEW s \in asked, Answer(s), Types'
  PROVE  Timely'
<1>0. Types
  BY DEF Timely
<1>1. asked' = asked \ {s} /\ UNCHANGED <<wallet, lot, sent>>
  BY <1>0, AnswerEffect
<1>2. CASE UNCHANGED <<acc, held, ver, sound>>
  BY <1>1, <1>2 DEF Timely, OnItsWay, AllHere, Fresh, Newest
<1>3. CASE /\ ShouldAccept("rest") /\ acc'.bal = s.wallet /\ held' = s.lot
           /\ ver' = [source |-> "rest", age |-> 0]
  <2>1. sent = <<>> => \A x \in asked : Fresh(x)
    BY <1>3, TakenIsFresh
  <2>2. OnItsWay' /\ AllHere'
    BY <1>1, <1>3, <2>1 DEF Timely, OnItsWay, AllHere, Fresh, Newest
  <2>3. QED
    BY <1>1, <1>3, <2>2 DEF Timely
<1>4. QED
  BY <1>0, <1>2, <1>3, AnswerEffect

(* A step that touches neither money nor messages. *)
LEMMA TimelyKept ==
  ASSUME Timely, Types', UNCHANGED <<wallet, lot, sent, asked, held, ver>>, acc'.bal = acc.bal
  PROVE  Timely'
  BY DEF Timely, OnItsWay, AllHere, Fresh, Newest

LEMMA TimelyStep ==
  ASSUME Parameters, Latency < Window
  PROVE  Timely /\ [Next]_vars => Timely'
<1> SUFFICES ASSUME Timely, [Next]_vars PROVE Timely'
  OBVIOUS
<1>0. Types /\ Types'
  BY TypesStep DEF Timely
<1>1. CASE Buys \/ Sells \/ Transfers
  BY <1>0, <1>1, TimelyBooks
<1>2. CASE Tick
  BY <1>0, <1>2, TimelyTick
<1>3. CASE Deliver
  BY <1>0, <1>3, TimelyDeliver
<1>4. ASSUME NEW s \in asked, Answer(s)
      PROVE  Timely'
  BY <1>0, <1>4, TimelyAnswer
<1>5. CASE Ask
  <2>1. PICK m \in Answers : /\ m.wallet = wallet /\ m.lot = lot /\ m.age = 0
                             /\ asked' = asked \cup {m}
    BY <1>0, <1>5, AskEffect
  <2>2. UNCHANGED <<wallet, lot, sent, acc, held, ver>>
    BY <1>0, <1>5, AskEffect
  <2>3. QED
    BY <1>0, <2>1, <2>2 DEF Timely, OnItsWay, AllHere, Fresh, Newest, Parameters
<1>6. CASE Restart
  BY <1>0, <1>6, RestartEffect DEF Timely, OnItsWay, AllHere, Internal
<1>7. CASE Mark \/ Midnight \/ BodApplies
  BY <1>0, <1>7, MarkEffect, MidnightEffect, BodEffect, TimelyKept
<1>8. CASE PriceMoves \/ BodStarts \/ BodFails \/ UNCHANGED vars
  BY <1>0, <1>8, TimelyKept DEF PriceMoves, BodStarts, BodFails, exchange, vars
<1>9. ASSUME NEW s \in asked, AskFails(s)
      PROVE  Timely'
  <2>1. asked' = asked \ {s} /\ UNCHANGED <<wallet, lot, sent, acc, held, ver>>
    BY <1>9 DEF AskFails, exchange
  <2>2. QED
    BY <1>0, <2>1 DEF Timely, OnItsWay, AllHere, Fresh, Newest
<1>10. QED
  BY <1>1, <1>2, <1>3, <1>4, <1>5, <1>6, <1>7, <1>8, <1>9 DEF Next

LEMMA TimelyInit == ASSUME Parameters PROVE Init => Timely
<1> SUFFICES ASSUME Init PROVE Timely
  OBVIOUS
<1>1. Types
  BY TypesInit
<1>2. sent = <<>> /\ asked = {} /\ ver = Internal
  BY DEF Init
<1>3. QED
  BY <1>1, <1>2 DEF Timely, OnItsWay, AllHere

(* If answers and messages take less time than the window, the balance is the  *)
(* exchange's once nothing is on its way, for any number of trades, requests,  *)
(* failures and restarts.                                                      *)
THEOREM BalanceIsTheExchanges ==
  ASSUME Parameters, Latency < Window
  PROVE  Spec => []BalanceSettles
<1>1. Init => Timely
  BY TimelyInit
<1>2. Timely /\ [Next]_vars => Timely'
  BY TimelyStep
<1>3. Timely => BalanceSettles
  BY DEF Timely, AllHere, BalanceSettles, Settled
<1>4. QED
  BY <1>1, <1>2, <1>3, PTL DEF Spec

(* Then a mark price makes the equity whole. *)
THEOREM MarkMakesWhole ==
  ASSUME Parameters, Latency < Window
  PROVE  Spec => EquityWhole
<1>1. Init => Timely
  BY TimelyInit
<1>2. Timely /\ [Next]_vars => Timely'
  BY TimelyStep
<1>3. Timely => [Mark /\ Settled /\ wallet > 0 => acc'.eq = MaxOf(0, wallet + Gain(lot, price))]_vars
  <2> SUFFICES ASSUME Timely, Mark, Settled, wallet > 0
               PROVE  acc'.eq = MaxOf(0, wallet + Gain(lot, price))
    OBVIOUS
  <2>1. acc.bal = wallet /\ held = lot /\ acc \in Accounts
    BY DEF Timely, AllHere, Settled, Types
  <2>2. acc'.eq = Marked(acc, Gain(held, price)).eq
    BY MarkEffect DEF Timely
  <2>3. Marked(acc, Gain(held, price)).eq = MaxOf(0, acc.bal + Gain(held, price))
    <3>1. acc.bal > 0
      BY <2>1
    <3>2. Marked(acc, Gain(held, price)) = [acc EXCEPT !.eq = MaxOf(0, acc.bal + Gain(held, price))]
      BY <3>1 DEF Marked
    <3>3. QED
      BY <2>1, <3>2 DEF Accounts
  <2>4. QED
    BY <2>1, <2>2, <2>3
<1>4. QED
  BY <1>1, <1>2, <1>3, PTL DEF Spec, EquityWhole

(* So everything MoneyTrue says of balance, extremes, day's result and equity holds. *)
THEOREM MoneyIsTrue ==
  ASSUME Parameters, Latency < Window
  PROVE  Spec => MoneyTrue
<1>1. Spec => []Within
  BY ExtremesEnclose
<1>2. Spec => []DayFromIncome
  BY DayIsIncome
<1>3. Spec => []BalanceSettles
  BY BalanceIsTheExchanges
<1>4. Spec => EquityWhole
  BY MarkMakesWhole
<1>5. QED
  BY <1>1, <1>2, <1>3, <1>4, PTL DEF MoneyTrue

-----------------------------------------------------------------------------
(* The candles (BarStore).  Fetching says that a request has left no hole up *)
(* to what it has passed: an answer has every candle there is from its start *)
(* to its last, and the next page starts behind that.                       *)

(* A module's copy of an operator of the library is that operator.             *)
LEMMA CardinalityOfBars == ASSUME NEW S PROVE B!Cardinality(S) = Cardinality(S)
  BY DEF B!Cardinality, Cardinality

(* The adapters' pages are of more than one candle. *)
BarsTyped == Days \subseteq Int /\ Page \in Nat /\ Page > 1

(* A range that ends somewhere and has something in it has a last element.     *)
LEMMA GreatestInt ==
  ASSUME NEW n \in Int, NEW S, S \subseteq Int, S # {}, \A c \in S : c <= n
  PROVE  \E x \in S : \A y \in S : x >= y
<1> DEFINE Dist == {n - c : c \in S}
<1>1. Dist \subseteq Nat /\ Dist # {}
  <2>1. \A c \in S : c \in Int /\ c <= n
    OBVIOUS
  <2>2. \A c \in S : n - c \in Nat
    BY <2>1
  <2>3. QED
    BY <2>2
<1>2. PICK x \in Dist : \A y \in Dist : ~(<<y, x>> \in OpToRel(<, Nat))
  BY <1>1, NatLessThanWellFounded, WFMin
<1>3. \A y \in Dist : ~(y < x)
  BY <1>1, <1>2 DEF OpToRel
<1>4. PICK c \in S : x = n - c
  OBVIOUS
<1>5. \A d \in S : c >= d
  <2> TAKE d \in S
  <2>1. n - d \in Dist
    OBVIOUS
  <2>2. ~(n - d < n - c)
    BY <1>3, <1>4, <2>1
  <2> QED
    BY <2>2
<1> QED
  BY <1>5

LEMMA MaxIs ==
  ASSUME NEW n \in Int, NEW S, S \subseteq Int, S # {}, \A c \in S : c <= n
  PROVE  B!Max(S) \in S /\ \A y \in S : B!Max(S) >= y
  BY GreatestInt DEF B!Max

LEMMA MaxOfTwo ==
  ASSUME NEW a \in Int, NEW b \in Int
  PROVE  B!Max({a, b}) \in Int
<1>1. \E n \in Int : a <= n /\ b <= n
  <2>1. CASE a <= b
    BY <2>1
  <2>2. CASE b <= a
    BY <2>2
  <2>3. QED
    BY <2>1, <2>2
<1>2. PICK n \in Int : \A c \in {a, b} : c <= n
  BY <1>1
<1>3. B!Max({a, b}) \in {a, b}
  BY <1>2, MaxIs
<1>4. QED
  BY <1>3

(* A page is the candles from where it starts, as many as a page has.          *)
LEMMA PageIs ==
  ASSUME BarsTyped, candle \in Nat, NEW since \in Int
  PROVE  LET lo == IF since > 1 THEN since ELSE 1
         IN  B!Answer(since) = {c \in lo .. candle : c < lo + Page}
<1> DEFINE lo == IF since > 1 THEN since ELSE 1
           rest == {c \in 1 .. candle : c >= since}
<1>1. lo \in Int /\ rest = lo .. candle
  OBVIOUS
<1>2. ASSUME NEW c \in rest
      PROVE  Cardinality({b \in rest : b < c}) = c - lo
  <2>1. {b \in rest : b < c} = lo .. c - 1 /\ c \in Int /\ lo <= c
    BY <1>1
  <2> HIDE DEF lo, rest
  <2>2. Cardinality(lo .. c - 1) = IF lo > c - 1 THEN 0 ELSE c - 1 - lo + 1
    BY <1>1, <2>1, FS_Interval
  <2>3. Cardinality({b \in rest : b < c}) = Cardinality(lo .. c - 1)
    BY <2>1
  <2>4. QED
    BY <1>1, <2>1, <2>2, <2>3
<1>3. B!Answer(since) = {c \in rest : Cardinality({b \in rest : b < c}) < Page}
  BY CardinalityOfBars DEF B!Answer
<1> HIDE DEF lo, rest
<1>4. \A c \in rest : c - lo < Page <=> c < lo + Page
  BY <1>1 DEF BarsTyped
<1>5. B!Answer(since) = {c \in rest : c < lo + Page}
  BY <1>2, <1>3, <1>4
<1>6. QED
  BY <1>1, <1>5 DEF lo

(* Its last candle, and when it is short of a whole page.                      *)
LEMMA PageFacts ==
  ASSUME BarsTyped, candle \in Nat, NEW since \in Int, B!Answer(since) # {}
  PROVE  LET page == B!Answer(since) IN
         /\ page \subseteq 1 .. candle /\ B!Max(page) \in page
         /\ B!Max(page) \in Int /\ B!Max(page) <= candle /\ since <= B!Max(page)
         /\ \A c \in 1 .. B!Max(page) : since <= c => c \in page
         /\ B!Max(page) = since \/ Cardinality(page) < Page => B!Max(page) = candle
<1> DEFINE page == B!Answer(since)
           lo == IF since > 1 THEN since ELSE 1
<1>1. page = {c \in lo .. candle : c < lo + Page} /\ lo \in Int
  BY PageIs
<1>2. Page \in Nat /\ Page > 1
  BY DEF BarsTyped
<1>3. page \subseteq Int /\ \A c \in page : c <= candle
  BY <1>1
<1>4. B!Max(page) \in page /\ \A c \in page : B!Max(page) >= c
  BY <1>3, MaxIs
<1> DEFINE top == B!Max(page)
<1>5. top \in lo .. candle /\ top < lo + Page
  BY <1>1, <1>4
<1> HIDE DEF top
<1>6. \A c \in 1 .. top : since <= c => c \in page
  BY <1>1, <1>2, <1>5
<1>7. top = candle \/ top = lo + Page - 1
  <2>1. CASE top < candle /\ top + 1 < lo + Page
    <3>1. top + 1 \in page
      BY <1>1, <1>2, <1>5, <2>1
    <3>2. QED
      BY <1>4, <1>5, <3>1 DEF top
  <2>2. QED
    BY <1>1, <1>2, <1>5, <2>1
<1>8. CASE top = candle
  BY <1>1, <1>4, <1>5, <1>6, <1>8 DEF top
<1>9. CASE top = lo + Page - 1
  <2>1. page = lo .. top
    BY <1>1, <1>2, <1>5, <1>9
  <2>2. Cardinality(page) = Page
    <3> HIDE DEF page, lo
    <3>1. top \in Int /\ lo \in Int
      BY <1>1, <1>5
    <3>2. Cardinality(lo .. top) = IF lo > top THEN 0 ELSE top - lo + 1
      BY <3>1, FS_Interval
    <3>3. QED
      BY <1>2, <1>9, <2>1, <3>1, <3>2
  <2>3. top # since
    BY <1>1, <1>2, <1>5, <1>9
  <2>4. QED
    BY <1>1, <1>2, <1>4, <1>5, <1>6, <2>2, <2>3 DEF top
<1>10. QED
  BY <1>7, <1>8, <1>9

-----------------------------------------------------------------------------
Requests == [pc : {"none", "fetch", "done", "failed"}, days : Int, from : Int, until : Int,
             since : Int, tries : Int]

(* How far a request has come without leaving a hole. *)
Passed(j) == CASE job[j].pc = "fetch" -> job[j].since - 1
               [] job[j].pc = "done" -> job[j].until
               [] OTHER -> 0
HasPassed(j) ==
    \A c \in Int : 1 <= c /\ c <= Passed(j) /\ job[j].from <= c /\ c <= job[j].until => c \in stored

Fetching ==
    /\ candle \in Nat \ {0} /\ stored \subseteq 1 .. candle
    /\ job \in [Jobs -> Requests]
    /\ \A j \in Jobs : job[j].pc = "fetch" => job[j].until <= candle
    /\ \A j \in Jobs : HasPassed(j)

LEMMA FetchingInit == B!Init => Fetching
<1> SUFFICES ASSUME B!Init PROVE Fetching
  OBVIOUS
<1>1. candle = 1 /\ stored = {} /\ job = [j \in Jobs |-> B!NoJob]
  BY DEF B!Init
<1>2. B!NoJob \in Requests /\ B!NoJob.pc = "none"
  BY DEF B!NoJob, Requests
<1>3. ASSUME NEW j \in Jobs PROVE Passed(j) = 0
  BY <1>1, <1>2 DEF Passed
<1>4. QED
  BY <1>1, <1>2, <1>3 DEF Fetching, HasPassed

(* What a request has passed stays passed while the store only grows.          *)
LEMMA OthersKeep ==
  ASSUME NEW j \in Jobs, HasPassed(j), stored \subseteq stored', UNCHANGED job[j]
  PROVE  HasPassed(j)'
  BY DEF HasPassed, Passed

LEMMA FetchingStarts ==
  ASSUME BarsTyped, Fetching, NEW j \in Jobs, NEW d \in Days, B!Starts(j, d)
  PROVE  Fetching'
<1> DEFINE since == B!FetchSince(candle - d)
           r == [pc |-> "fetch", days |-> d, from |-> since, until |-> candle, since |-> since,
                 tries |-> 0]
<1>1. job' = [job EXCEPT ![j] = r] /\ UNCHANGED <<candle, stored>>
  BY DEF B!Starts
<1>2. d \in Int /\ candle \in Int /\ stored \subseteq 1 .. candle /\ job \in [Jobs -> Requests]
  BY DEF BarsTyped, Fetching
<1>3. since \in Int
  <2>1. CASE stored = {}
    BY <1>2, <2>1 DEF B!FetchSince
  <2>2. CASE stored # {}
    <3>0. stored \subseteq Int /\ \A c \in stored : c <= candle
      BY <1>2
    <3>1. B!Max(stored) \in Int
      BY <1>2, <2>2, <3>0, MaxIs
    <3>2. candle - d \in Int /\ B!Max(stored) - 2 \in Int
      BY <1>2, <3>1
    <3>3. B!Max({candle - d, B!Max(stored) - 2}) \in Int
      BY <3>2, MaxOfTwo
    <3>4. QED
      BY <1>2, <3>3 DEF B!FetchSince
  <2>3. QED
    BY <2>1, <2>2
<1> HIDE DEF since
<1>4. r \in Requests
  BY <1>2, <1>3 DEF Requests
<1>5. job' \in [Jobs -> Requests] /\ job'[j] = r /\ \A i \in Jobs : i # j => job'[i] = job[i]
  BY <1>1, <1>2, <1>4
<1>6. HasPassed(j)'
  BY <1>3, <1>5 DEF HasPassed, Passed
<1>7. ASSUME NEW i \in Jobs, i # j PROVE HasPassed(i)'
  BY <1>1, <1>5, <1>7, OthersKeep DEF Fetching
<1>8. \A i \in Jobs : job'[i].pc = "fetch" => job'[i].until <= candle
  BY <1>2, <1>5 DEF Fetching
<1>9. QED
  BY <1>1, <1>2, <1>5, <1>6, <1>7, <1>8 DEF Fetching

Forward(q, p, s) == [q EXCEPT !.pc = p, !.since = s, !.tries = 0]

LEMMA NextPage ==
  ASSUME NEW q \in Requests, NEW p \in {"fetch", "done"}, NEW s \in Int
  PROVE  LET r == Forward(q, p, s) IN
         r \in Requests /\ r.pc = p /\ r.since = s /\ r.until = q.until /\ r.from = q.from
<1> DEFINE a == [q EXCEPT !.pc = p]
           b == [a EXCEPT !.since = s]
<1>1. a \in Requests /\ a.pc = p /\ a.until = q.until /\ a.from = q.from
  BY DEF Requests
<1> HIDE DEF a
<1>2. b \in Requests /\ b.pc = p /\ b.since = s /\ b.until = q.until /\ b.from = q.from
  BY <1>1 DEF Requests
<1> HIDE DEF b
<1>3. Forward(q, p, s) = [b EXCEPT !.tries = 0]
  BY DEF a, b, Forward
<1>4. QED
  BY <1>2, <1>3 DEF Requests

LEMMA FetchingStores ==
  ASSUME BarsTyped, Fetching, NEW j \in Jobs, B!Stores(j)
  PROVE  Fetching'
<1> DEFINE since == job[j].since
           until == job[j].until
           page == B!Answer(since)
<1>1. /\ job[j].pc = "fetch" /\ candle' = candle /\ candle \in Nat /\ stored \subseteq 1 .. candle
      /\ job \in [Jobs -> Requests] /\ until <= candle /\ HasPassed(j)
  BY DEF B!Stores, Fetching
<1>2. since \in Int /\ until \in Int /\ job[j].from \in Int
  BY <1>1 DEF Requests
<1>3. \A c \in Int : 1 <= c /\ c < since /\ job[j].from <= c /\ c <= until => c \in stored
  BY <1>1, <1>2 DEF HasPassed, Passed
<1>4. CASE page = {}
  <2>1. job' = [job EXCEPT ![j].pc = "done"] /\ stored' = stored
    BY <1>4 DEF B!Stores
  <2>2. /\ job' \in [Jobs -> Requests] /\ \A i \in Jobs : i # j => job'[i] = job[i]
        /\ job'[j].pc = "done" /\ job'[j].until = until /\ job'[j].from = job[j].from
    BY <1>1, <2>1 DEF Requests
  <2>3. \A c \in 1 .. candle : c < since
    <3> DEFINE lo == IF since > 1 THEN since ELSE 1
    <3>1. page = {c \in lo .. candle : c < lo + Page}
      BY <1>1, <1>2, PageIs
    <3>2. lo \in Int /\ lo < lo + Page
      BY <1>2 DEF BarsTyped
    <3>3. lo > candle
      BY <1>1, <1>4, <3>1, <3>2
    <3>4. QED
      BY <1>1, <1>2, <3>3
  <2>4. \A c \in Int : 1 <= c /\ c <= until => c < since
    BY <1>1, <1>2, <2>3
  <2>5. HasPassed(j)'
    BY <1>3, <2>1, <2>2, <2>4 DEF HasPassed, Passed
  <2>6. ASSUME NEW i \in Jobs, i # j PROVE HasPassed(i)'
    BY <2>1, <2>2, <2>6, OthersKeep DEF Fetching
  <2>7. \A i \in Jobs : job'[i].pc = "fetch" => job'[i].until <= candle
    BY <2>2 DEF Fetching
  <2>8. QED
    BY <1>1, <2>1, <2>2, <2>5, <2>6, <2>7 DEF Fetching
<1>5. CASE page # {}
  <2> DEFINE top == B!Max(page)
             p == IF B!GoesOn(j, page) THEN "fetch" ELSE "done"
             s == IF top > since THEN B!NextSince(page) ELSE since
  <2>1. /\ page \subseteq 1 .. candle /\ top \in Int /\ top <= candle /\ since <= top
        /\ \A c \in 1 .. top : since <= c => c \in page
        /\ top = since \/ Cardinality(page) < Page => top = candle
    BY <1>1, <1>2, <1>5, PageFacts
  <2> DEFINE r == Forward(job[j], p, s)
  <2>2. stored' = stored \cup page /\ job' = [job EXCEPT ![j] = r]
    <3>1. /\ stored' = stored \cup page
          /\ job' = [job EXCEPT ![j].pc = p,
                                ![j].since = IF B!Max(page) > @ THEN B!NextSince(page) ELSE @,
                                ![j].tries = 0]
      BY <1>5 DEF B!Stores
    <3>2. job \in [Jobs -> Requests] /\ job[j] \in Requests
      BY <1>1
    <3>3. QED
      BY <3>1, <3>2 DEF Requests, Forward
  <2>3. /\ p \in {"fetch", "done"} /\ s \in Int
        /\ p = "fetch" => s = top + 1
        /\ p = "done" => top = candle \/ top >= until
    <3>0. IsFiniteSet(1 .. candle) /\ page \in SUBSET (1 .. candle)
      BY <1>1, <2>1, FS_Interval
    <3> HIDE DEF page
    <3>1. Cardinality(page) \in Nat
      BY <3>0, FS_Subset, FS_CardinalityType
    <3> USE DEF page
    <3>2. QED
      BY <1>1, <1>2, <2>1, <3>1, CardinalityOfBars DEF B!GoesOn, B!NextSince, BarsTyped
  <2> HIDE DEF top, p, s
  <2>10. /\ r \in Requests /\ r.pc = p /\ r.since = s
         /\ r.until = until /\ r.from = job[j].from
    <3>1. job[j] \in Requests /\ p \in {"fetch", "done"} /\ s \in Int
      BY <1>1, <2>3
    <3>2. QED
      BY <3>1, NextPage
  <2> HIDE DEF r
  <2>4. /\ job' \in [Jobs -> Requests] /\ \A i \in Jobs : i # j => job'[i] = job[i]
        /\ job'[j].pc = p /\ job'[j].since = s
        /\ job'[j].until = until /\ job'[j].from = job[j].from
    BY <1>1, <2>2, <2>10
  <2>5. \A c \in Int : 1 <= c /\ c <= top /\ job[j].from <= c /\ c <= until => c \in stored'
    <3> TAKE c \in Int
    <3> HAVE 1 <= c /\ c <= top /\ job[j].from <= c /\ c <= until
    <3>1. CASE c < since
      BY <1>3, <2>2, <3>1
    <3>2. CASE since <= c
      BY <2>1, <2>2, <3>2
    <3>3. QED
      BY <1>2, <3>1, <3>2
  <2>6. HasPassed(j)'
    <3>1. CASE p = "fetch"
      BY <2>1, <2>3, <2>4, <2>5, <3>1 DEF HasPassed, Passed
    <3>2. CASE p = "done"
      <4>1. \A c \in Int : c <= until => c <= top
        BY <1>1, <1>2, <2>1, <2>3, <3>2
      <4>2. QED
        BY <2>4, <2>5, <3>2, <4>1 DEF HasPassed, Passed
    <3>3. QED
      BY <2>3, <3>1, <3>2
  <2>7. ASSUME NEW i \in Jobs, i # j PROVE HasPassed(i)'
    BY <2>2, <2>4, <2>7, OthersKeep DEF Fetching
  <2>8. \A i \in Jobs : job'[i].pc = "fetch" => job'[i].until <= candle
    BY <1>1, <2>4 DEF Fetching
  <2>9. QED
    BY <1>1, <2>1, <2>2, <2>4, <2>6, <2>7, <2>8 DEF Fetching
<1>6. QED
  BY <1>4, <1>5

LEMMA FetchingStep == ASSUME BarsTyped, Fetching, [B!Next]_(B!vars) PROVE Fetching'
<1>0. job \in [Jobs -> Requests] /\ candle \in Nat \ {0}
  BY DEF Fetching
<1>1. CASE B!Passes
  <2>1. candle' = candle + 1 /\ UNCHANGED <<stored, job>>
    BY <1>1 DEF B!Passes
  <2>2. ASSUME NEW j \in Jobs PROVE HasPassed(j)'
    BY <2>1, OthersKeep DEF Fetching
  <2>3. \A j \in Jobs : job[j].until \in Int
    BY <1>0 DEF Requests
  <2>4. /\ candle' \in Nat \ {0} /\ stored' \subseteq 1 .. candle'
        /\ \A j \in Jobs : job'[j].pc = "fetch" => job'[j].until <= candle'
    BY <1>0, <2>1, <2>3 DEF Fetching
  <2>5. QED
    BY <2>1, <2>2, <2>4 DEF Fetching
<1>2. ASSUME NEW j \in Jobs, B!Retries(j) \/ B!Fails(j) PROVE Fetching'
  <2>1. /\ job' \in [Jobs -> Requests] /\ \A i \in Jobs : i # j => job'[i] = job[i]
        /\ job'[j].pc = job[j].pc \/ job'[j].pc = "failed"
        /\ job'[j].since = job[j].since /\ job'[j].until = job[j].until
        /\ job'[j].from = job[j].from /\ UNCHANGED <<candle, stored>> /\ job[j].pc = "fetch"
    BY <1>0, <1>2 DEF B!Retries, B!Fails, Requests
  <2>2. HasPassed(j)'
    <3>1. HasPassed(j)
      BY DEF Fetching
    <3>2. CASE job'[j].pc = "fetch"
      BY <2>1, <3>1, <3>2 DEF HasPassed, Passed
    <3>3. CASE job'[j].pc = "failed"
      BY <2>1, <3>3 DEF HasPassed, Passed
    <3>4. QED
      BY <2>1, <3>2, <3>3
  <2>3. ASSUME NEW i \in Jobs, i # j PROVE HasPassed(i)'
    BY <2>1, <2>3, OthersKeep DEF Fetching
  <2>4. \A i \in Jobs : job'[i].pc = "fetch" => job'[i].until <= candle
    BY <2>1 DEF Fetching
  <2>5. QED
    BY <2>1, <2>2, <2>3, <2>4 DEF Fetching
<1>3. CASE UNCHANGED B!vars
  BY <1>3 DEF B!vars, Fetching, HasPassed, Passed
<1>4. QED
  BY <1>1, <1>2, <1>3, FetchingStarts, FetchingStores DEF B!Next

LEMMA FetchingIsWhole == Fetching => B!RangeFetched
<1> SUFFICES ASSUME Fetching, NEW j \in Jobs
             PROVE  {c \in 1 .. Passed(j) : job[j].from <= c /\ c <= job[j].until} \subseteq stored
  BY DEF B!RangeFetched, Passed
<1>1. HasPassed(j)
  BY DEF Fetching
<1>2. Passed(j) \in Int
  BY DEF Passed, Fetching, Requests
<1>3. QED
  BY <1>1, <1>2 DEF HasPassed

THEOREM FetchLeavesNoHole == ASSUME BarsTyped PROVE B!Spec => []B!RangeFetched
<1>1. Fetching /\ [B!Next]_(B!vars) => Fetching'
  BY FetchingStep
<1>2. QED
  BY <1>1, FetchingInit, FetchingIsWhole, PTL DEF B!Spec

-----------------------------------------------------------------------------
(* The account registry (Accounts).  Stage relates the setting, the memory  *)
(* and the account whose parameters are in force at every stage of a switch; *)
(* Pending says that what the file has and the cache has not is what the    *)
(* requests on their way still bring.                                       *)

Numbered == Ids \subseteq Nat \ {0} /\ 1 \in Ids

LEMMA LeastId ==
  ASSUME Numbered, NEW X, X \subseteq Ids, X # {}
  PROVE  \E a \in X : \A b \in X : a <= b
<1> DEFINE Less == {ss \in Nat \X Nat : ss[1] < ss[2]}
<1>1. IsWellFoundedOn(Less, Nat)
  BY NatLessThanWellFounded DEF OpToRel
<1>2. X \subseteq Nat
  BY DEF Numbered
<1>3. PICK x \in X : \A y \in X : ~ (<<y, x>> \in Less)
  BY <1>1, <1>2, WFMin
<1>4. ASSUME NEW y \in Nat, NEW z \in Nat, y < z
      PROVE  <<y, z>> \in Less
  BY <1>4
<1> HIDE DEF Less
<1>5. \A y \in X : ~(y < x)
  BY <1>2, <1>3, <1>4
<1>6. \A y \in X : x <= y
  BY <1>2, <1>3, <1>5
<1>7. QED
  BY <1>3, <1>6

LEMMA ChosenLeast ==
  ASSUME Numbered, NEW X, X \subseteq Ids, X # {}
  PROVE  (CHOOSE a \in X : \A b \in X : a <= b) \in X
  BY LeastId

(* Taking a request off the list. *)
LEMMA RemoveAtSeq ==
  ASSUME NEW S, NEW s \in Seq(S), NEW i \in 1 .. Len(s)
  PROVE  A!RemoveAt(s, i) \in Seq(S)
<1>1. Len(s) \in Nat /\ \A j \in 1 .. Len(s) : s[j] \in S
  BY LenProperties, ElementOfSeq
<1>2. SubSeq(s, 1, i - 1) \in Seq(S)
  BY <1>1, SubSeqProperties
<1>3. SubSeq(s, i + 1, Len(s)) \in Seq(S)
  BY <1>1, SubSeqProperties
<1>4. QED
  BY <1>2, <1>3, ConcatProperties DEF A!RemoveAt

-----------------------------------------------------------------------------
(* The shape of the state *)

ParSets == [of : Ids, n : Nat]
Rows == [there : BOOLEAN, key : A!Keys \cup {"blank"}, par : ParSets]
Stages == {"idle", "stop", "set", "reinit", "unset", "again"}

(* A request between its two writes is about an id below n, and carries what   *)
(* belongs to that id.                                                         *)
AddJobs(n) == {w \in [kind : {"add"}, id : Ids, key : A!Keys, par : ParSets] :
                 w.id < n /\ w.par.of = w.id}
DeleteJobs(n) == {w \in [kind : {"delete"}, id : Ids] : w.id < n}
KeyJobs(n) == {w \in [kind : {"key"}, id : Ids, key : A!Keys] : w.id < n}
ParJobs(n) == {w \in [kind : {"par"}, id : Ids, par : ParSets] : w.id < n /\ w.par.of = w.id}
Requested(n) == AddJobs(n) \cup DeleteJobs(n) \cup KeyJobs(n) \cup ParJobs(n)

(* A table holds of every id what is its own, and nothing of an id not given   *)
(* out yet.                                                                    *)
Table(t, n) ==
    /\ t \in [Ids -> Rows]
    /\ \A a \in Ids : t[a].par.of = a /\ (t[a].there => a < n)

Shaped ==
    /\ Table(rows, next) /\ Table(cache, next)
    /\ next \in Nat /\ 1 < next
    /\ setting \in Ids /\ setting < next /\ active \in Ids /\ active < next
    /\ work \in Seq(Requested(next))
    /\ switch \in [pc : Stages, from : Ids, to : Ids]
    /\ switch.from < next /\ switch.to < next
    /\ saved \in Nat

LEMMA AbsentRow ==
  ASSUME NEW a \in Ids
  PROVE  A!Absent(a) \in Rows /\ A!Absent(a).par.of = a /\ ~A!Absent(a).there
  BY DEF A!Absent, A!Default, Rows, ParSets

LEMMA JobsGrow ==
  ASSUME NEW n \in Nat, Numbered, NEW s \in Seq(Requested(n))
  PROVE  s \in Seq(Requested(n + 1))
<1>1. Requested(n) \subseteq Requested(n + 1)
  <2>1. \A a \in Ids : a < n => a < n + 1
    BY DEF Numbered
  <2>2. AddJobs(n) \subseteq AddJobs(n + 1)
    BY <2>1 DEF AddJobs
  <2>3. DeleteJobs(n) \subseteq DeleteJobs(n + 1)
    BY <2>1 DEF DeleteJobs
  <2>4. KeyJobs(n) \subseteq KeyJobs(n + 1)
    BY <2>1 DEF KeyJobs
  <2>5. ParJobs(n) \subseteq ParJobs(n + 1)
    BY <2>1 DEF ParJobs
  <2>6. QED
    BY <2>2, <2>3, <2>4, <2>5 DEF Requested
<1>2. QED
  BY <1>1, SeqMonotonic

LEMMA JobFacts ==
  ASSUME NEW n, NEW w \in Requested(n)
  PROVE  /\ w.id \in Ids /\ w.id < n
         /\ w.kind = "add" => w.key \in A!Keys /\ w.par \in ParSets /\ w.par.of = w.id
         /\ w.kind = "key" => w.key \in A!Keys
         /\ w.kind = "par" => w.par \in ParSets /\ w.par.of = w.id
  BY DEF Requested, AddJobs, DeleteJobs, KeyJobs, ParJobs

(* The request taken off the list, and the list it leaves. *)
LEMMA EndEffect ==
  ASSUME Shaped, NEW i, A!End(i)
  PROVE  work[i] \in Requested(next) /\ work' \in Seq(Requested(next))
<1>1. work \in Seq(Requested(next)) /\ i \in DOMAIN work /\ work' = A!RemoveAt(work, i)
  BY DEF Shaped, A!End
<1>2. i \in 1 .. Len(work)
  BY <1>1, LenProperties
<1>3. QED
  BY <1>1, <1>2, ElementOfSeq, RemoveAtSeq

(* A request put on it. *)
LEMMA BeginEffect ==
  ASSUME Shaped, NEW w \in Requested(next), A!Begin(w)
  PROVE  work' \in Seq(Requested(next))
  BY AppendProperties DEF Shaped, A!Begin

(* Changing one row of a table. *)
LEMMA TableRow ==
  ASSUME NEW t, NEW n, Table(t, n), NEW a \in Ids, NEW r \in Rows,
         r.par.of = a, r.there => a < n
  PROVE  Table([t EXCEPT ![a] = r], n)
  BY DEF Table

(* A table below the next id stays one when the next id grows. *)
LEMMA TableGrows ==
  ASSUME Numbered, NEW n \in Nat, NEW t, Table(t, n)
  PROVE  Table(t, n + 1)
<1>1. \A a \in Ids : a < n => a < n + 1
  BY DEF Numbered
<1>2. t \in [Ids -> Rows] /\ \A a \in Ids : t[a].par.of = a
  BY DEF Table
<1>3. \A a \in Ids : t[a].there => a < n
  BY DEF Table
<1>4. \A a \in Ids : t[a].there => a < n + 1
  BY <1>1, <1>3
<1>5. QED
  BY <1>2, <1>4 DEF Table

LEMMA TableKey ==
  ASSUME NEW t, NEW n, Table(t, n), NEW a \in Ids, NEW k \in A!Keys
  PROVE  Table([t EXCEPT ![a].key = k], n)
<1>1. [t[a] EXCEPT !.key = k] \in Rows /\ [t[a] EXCEPT !.key = k].par = t[a].par
      /\ [t[a] EXCEPT !.key = k].there = t[a].there
  BY DEF Table, Rows
<1>2. [t EXCEPT ![a].key = k] = [t EXCEPT ![a] = [t[a] EXCEPT !.key = k]]
  BY DEF Table
<1>3. QED
  BY <1>1, <1>2 DEF Table

LEMMA TablePar ==
  ASSUME NEW t, NEW n, Table(t, n), NEW a \in Ids, NEW p \in ParSets, p.of = a
  PROVE  Table([t EXCEPT ![a].par = p], n)
<1>1. [t[a] EXCEPT !.par = p] \in Rows /\ [t[a] EXCEPT !.par = p].par = p
      /\ [t[a] EXCEPT !.par = p].there = t[a].there
  BY DEF Table, Rows
<1>2. [t EXCEPT ![a].par = p] = [t EXCEPT ![a] = [t[a] EXCEPT !.par = p]]
  BY DEF Table
<1>3. QED
  BY <1>1, <1>2 DEF Table

-----------------------------------------------------------------------------
(* Every step keeps the shape *)

LEMMA ShapedInit == ASSUME Numbered PROVE A!Init => Shaped
<1> SUFFICES ASSUME A!Init PROVE Shaped
  OBVIOUS
<1>1. PICK k \in [Ids -> A!Keys], m \in Ids :
        /\ rows = [a \in Ids |-> IF a <= m THEN [there |-> TRUE, key |-> k[a], par |-> A!Default(a)]
                                 ELSE A!Absent(a)]
        /\ next = m + 1
  BY DEF A!Init
<1>2. next \in Nat /\ 1 < next
  BY <1>1 DEF Numbered
<1>3. ASSUME NEW a \in Ids
      PROVE  rows[a] \in Rows /\ rows[a].par.of = a /\ (rows[a].there => a < next)
  <2>1. CASE a <= m
    BY <1>1, <2>1 DEF A!Default, Rows, ParSets, Numbered
  <2>2. CASE ~(a <= m)
    BY <1>1, <2>2, AbsentRow
  <2>3. QED
    BY <2>1, <2>2
<1>4. Table(rows, next)
  BY <1>1, <1>3 DEF Table
<1>5. Table(cache, next)
  BY AbsentRow DEF A!Init, Table
<1>6. /\ setting = 1 /\ active = 1 /\ work = <<>> /\ saved = 0
      /\ switch = [pc |-> "idle", from |-> 1, to |-> 1] /\ <<>> \in Seq(Requested(next))
  BY EmptySeq DEF A!Init
<1>7. switch \in [pc : Stages, from : Ids, to : Ids] /\ switch.from = 1 /\ switch.to = 1
  BY <1>6 DEF Stages, Numbered
<1>8. QED
  BY <1>2, <1>4, <1>5, <1>6, <1>7 DEF Shaped, Numbered

(* The account a start makes active is one that may be. *)
LEMMA LoadEffect ==
  ASSUME Numbered, Shaped, A!LoadAll
  PROVE  /\ Table(cache', next) /\ active' \in Ids /\ active' < next
         /\ rows[setting].there => active' = setting
         /\ live' = cache'[active'].par
<1>1. PICK garbled \in SUBSET {a \in Ids : rows[a].there} :
        cache' = [a \in Ids |-> IF a \in garbled THEN [rows[a] EXCEPT !.key = "blank"]
                                ELSE rows[a]]
  BY DEF A!LoadAll
<1>2. ASSUME NEW a \in Ids
      PROVE  /\ cache'[a] \in Rows /\ cache'[a].par.of = a
             /\ cache'[a].there => a < next
  <2>1. rows[a] \in Rows /\ rows[a].par.of = a /\ (rows[a].there => a < next)
    BY DEF Shaped, Table
  <2>2. CASE a \in garbled
    BY <1>1, <2>1, <2>2 DEF Rows
  <2>3. CASE a \notin garbled
    BY <1>1, <2>1, <2>3
  <2>4. QED
    BY <2>2, <2>3
<1>3. Table(cache', next)
  BY <1>1, <1>2 DEF Table
<1> DEFINE found == {a \in Ids : rows[a].there}
           least == CHOOSE a \in found : \A b \in found : a <= b
<1>4. active' = IF setting \in found THEN setting ELSE IF found # {} THEN least ELSE 1
  BY DEF A!LoadAll
<1>5. found # {} => least \in found
  <2>1. found \subseteq Ids
    OBVIOUS
  <2> HIDE DEF found
  <2>2. QED
    BY <2>1, ChosenLeast
<1>6. active' \in Ids /\ active' < next
  <2>1. \A a \in found : a \in Ids /\ a < next
    BY DEF Shaped, Table
  <2>2. 1 \in Ids /\ 1 < next
    BY DEF Shaped, Numbered
  <2> HIDE DEF found, least
  <2>3. active' \in found \/ active' = 1
    BY <1>4, <1>5
  <2>4. QED
    BY <2>1, <2>2, <2>3
<1>7. live' = cache'[active'].par
  BY DEF A!LoadAll
<1>8. rows[setting].there => active' = setting
  BY <1>4 DEF Shaped
<1>9. QED
  BY <1>3, <1>6, <1>7, <1>8

(* A request's first write. *)
LEMMA ShapedStores ==
  ASSUME Numbered, Shaped,
         \/ \E k \in A!Keys : A!AddStores(k) \/ \E a \in Ids : A!KeyStores(a, k)
         \/ \E a \in Ids : A!DeleteStores(a) \/ A!ParStores(a)
         \/ A!ParamsPosted
  PROVE  Shaped'
<1>0. Table(rows, next) /\ Table(cache, next) /\ next \in Nat
  BY DEF Shaped
<1>1. ASSUME NEW k \in A!Keys, A!AddStores(k)
      PROVE  Shaped'
  <2> DEFINE r == [there |-> TRUE, key |-> k, par |-> A!Default(next)]
             w == [kind |-> "add", id |-> next, key |-> k, par |-> A!Default(next)]
  <2>1. next \in Ids /\ next' = next + 1 /\ rows' = [rows EXCEPT ![next] = r]
        /\ UNCHANGED <<setting, cache, active, switch, saved>>
    BY <1>1 DEF A!AddStores, A!counts
  <2>2. A!Default(next) \in ParSets /\ A!Default(next).of = next
    BY <2>1 DEF A!Default, ParSets
  <2>3. Table(rows, next + 1) /\ Table(cache, next + 1)
    BY <1>0, TableGrows
  <2>4. r \in Rows /\ r.par.of = next /\ next < next + 1
    BY <1>0, <2>1, <2>2 DEF Rows
  <2>5. Table(rows', next')
    BY <2>1, <2>3, <2>4, TableRow
  <2>6. w \in Requested(next + 1)
    BY <1>0, <2>1, <2>2 DEF Requested, AddJobs
  <2>7. work \in Seq(Requested(next + 1))
    BY <1>0, JobsGrow DEF Shaped
  <2>8. work' = Append(work, w)
    BY <1>1 DEF A!AddStores, A!Begin
  <2>9. work' \in Seq(Requested(next'))
    BY <2>1, <2>6, <2>7, <2>8, AppendProperties
  <2>10. \A a \in Ids : a < next => a < next + 1
    BY <1>0 DEF Numbered
  <2>11. /\ next' \in Nat /\ 1 < next' /\ setting' < next' /\ active' < next'
         /\ switch'.from < next' /\ switch'.to < next'
    <3>1. switch.from \in Ids /\ switch.to \in Ids /\ setting \in Ids /\ active \in Ids
      BY DEF Shaped
    <3>2. switch.from < next /\ switch.to < next /\ setting < next /\ active < next
      BY DEF Shaped
    <3>3. /\ setting < next + 1 /\ active < next + 1
          /\ switch.from < next + 1 /\ switch.to < next + 1
      BY <2>10, <3>1, <3>2
    <3>4. next + 1 \in Nat /\ 1 < next + 1
      BY <1>0 DEF Shaped
    <3>5. QED
      BY <2>1, <3>3, <3>4, Zenon
  <2>12. Table(cache', next')
    BY <2>1, <2>3
  <2> HIDE DEF r, w
  <2>13. QED
    BY <2>1, <2>5, <2>9, <2>11, <2>12 DEF Shaped
<1>2. ASSUME NEW k \in A!Keys, NEW a \in Ids, A!KeyStores(a, k)
      PROVE  Shaped'
  <2>1. [kind |-> "key", id |-> a, key |-> k] \in Requested(next)
    BY <1>0, <1>2 DEF A!KeyStores, Table, Requested, KeyJobs
  <2>2. work' \in Seq(Requested(next))
    BY <1>2, <2>1, BeginEffect DEF A!KeyStores
  <2>3. Table(rows', next)
    BY <1>0, <1>2, TableKey DEF A!KeyStores
  <2>4. UNCHANGED <<setting, next, cache, active, switch, saved>>
    BY <1>2 DEF A!KeyStores, A!counts
  <2>5. QED
    BY <2>2, <2>3, <2>4 DEF Shaped
<1>3. ASSUME NEW a \in Ids, A!DeleteStores(a)
      PROVE  Shaped'
  <2>1. [kind |-> "delete", id |-> a] \in Requested(next)
    BY <1>0, <1>3 DEF A!DeleteStores, Table, Requested, DeleteJobs
  <2>2. work' \in Seq(Requested(next))
    BY <1>3, <2>1, BeginEffect DEF A!DeleteStores
  <2>3. Table(rows', next)
    BY <1>0, <1>3, TableRow, AbsentRow DEF A!DeleteStores
  <2>4. UNCHANGED <<setting, next, cache, active, switch, saved>>
    BY <1>3 DEF A!DeleteStores, A!counts
  <2>5. QED
    BY <2>2, <2>3, <2>4 DEF Shaped
<1>4. ASSUME NEW a \in Ids, A!ParStores(a)
      PROVE  Shaped'
  <2> DEFINE p == [of |-> a, n |-> saved']
  <2>1. /\ saved' = saved + 1 /\ rows[a].there /\ rows' = [rows EXCEPT ![a].par = p]
        /\ A!Begin([kind |-> "par", id |-> a, par |-> p])
        /\ UNCHANGED <<setting, next, cache, active, switch>>
    BY <1>4 DEF A!ParStores
  <2>2. p \in ParSets /\ p.of = a /\ saved' \in Nat
    BY <2>1 DEF ParSets, Shaped
  <2>3. [kind |-> "par", id |-> a, par |-> p] \in Requested(next)
    BY <1>0, <2>1, <2>2 DEF Table, Requested, ParJobs
  <2>4. work' \in Seq(Requested(next))
    BY <2>1, <2>3, BeginEffect
  <2>5. Table(rows', next)
    BY <1>0, <2>1, <2>2, TablePar
  <2>6. QED
    BY <2>1, <2>2, <2>4, <2>5 DEF Shaped
<1>5. CASE A!ParamsPosted
  <2> DEFINE p == [of |-> active, n |-> saved']
  <2>0. active \in Ids
    BY DEF Shaped
  <2>1. /\ saved' = saved + 1 /\ rows[active].there /\ rows' = [rows EXCEPT ![active].par = p]
        /\ A!Begin([kind |-> "par", id |-> active, par |-> p])
        /\ UNCHANGED <<setting, next, cache, active, switch>>
    BY <1>5 DEF A!ParamsPosted
  <2>2. p \in ParSets /\ p.of = active /\ saved' \in Nat
    BY <2>0, <2>1 DEF ParSets, Shaped
  <2>3. [kind |-> "par", id |-> active, par |-> p] \in Requested(next)
    BY <1>0, <2>0, <2>1, <2>2 DEF Table, Requested, ParJobs
  <2>4. work' \in Seq(Requested(next))
    BY <2>1, <2>3, BeginEffect
  <2>5. Table(rows', next)
    BY <1>0, <2>0, <2>1, <2>2, TablePar
  <2>6. QED
    BY <2>1, <2>2, <2>4, <2>5 DEF Shaped
<1>6. QED
  BY <1>1, <1>2, <1>3, <1>4, <1>5

(* A request's second write. *)
LEMMA ShapedCaches ==
  ASSUME Shaped, NEW i, A!AddCaches(i) \/ A!DeleteCaches(i) \/ A!KeyCaches(i) \/ A!ParCaches(i)
  PROVE  Shaped'
<1> DEFINE w == work[i]
<1>1. w \in Requested(next) /\ work' \in Seq(Requested(next))
  BY EndEffect DEF A!AddCaches, A!DeleteCaches, A!KeyCaches, A!ParCaches
<1>2. w.id \in Ids /\ w.id < next
  BY <1>1, JobFacts
<1>3. Table(cache, next)
  BY DEF Shaped
<1>4. Table(cache', next)
  <2>1. CASE A!AddCaches(i)
    <3> DEFINE r == [there |-> TRUE, key |-> w.key, par |-> w.par]
    <3>1. w.kind = "add" /\ cache' = [cache EXCEPT ![w.id] = r]
      BY <2>1 DEF A!AddCaches
    <3>2. w.key \in A!Keys /\ w.par \in ParSets /\ w.par.of = w.id
      BY <1>1, <3>1, JobFacts
    <3>3. r \in Rows /\ r.par.of = w.id
      BY <3>2 DEF Rows
    <3>4. QED
      BY <1>2, <1>3, <3>1, <3>3, TableRow
  <2>2. CASE A!DeleteCaches(i)
    <3>1. cache' = [cache EXCEPT ![w.id] = A!Absent(w.id)]
      BY <2>2 DEF A!DeleteCaches
    <3>2. QED
      BY <1>2, <1>3, <3>1, TableRow, AbsentRow
  <2>3. CASE A!KeyCaches(i)
    <3>1. w.key \in A!Keys
      BY <1>1, <2>3, JobFacts DEF A!KeyCaches
    <3>2. cache' = [cache EXCEPT ![w.id].key = w.key] \/ cache' = cache
      BY <2>3 DEF A!KeyCaches
    <3>3. QED
      BY <1>2, <1>3, <3>1, <3>2, TableKey
  <2>4. CASE A!ParCaches(i)
    <3>1. w.par \in ParSets /\ w.par.of = w.id
      BY <1>1, <2>4, JobFacts DEF A!ParCaches
    <3>2. cache' = [cache EXCEPT ![w.id].par = w.par] \/ cache' = cache
      BY <2>4 DEF A!ParCaches
    <3>3. QED
      BY <1>2, <1>3, <3>1, <3>2, TablePar
  <2>5. QED
    BY <2>1, <2>2, <2>3, <2>4
<1>5. UNCHANGED <<rows, setting, next, active, switch, saved>>
  BY DEF A!AddCaches, A!DeleteCaches, A!KeyCaches, A!ParCaches, A!stored, A!counts
<1>6. QED
  BY <1>1, <1>4, <1>5 DEF Shaped

(* The switch, the periodic refresh, a start and a crash. *)
Switching ==
    \/ \E b \in Ids : A!SwitchStarts(b)
    \/ A!SwitchStores \/ A!SwitchActivates \/ A!ReinitEnds \/ A!ReinitFails \/ A!RollsBack

LEMMA ShapedSwitch == ASSUME Shaped, Switching PROVE Shaped'
<1>0. /\ UNCHANGED <<rows, next, cache, work, saved>>
  BY DEF Switching, A!SwitchStarts, A!SwitchStores, A!SwitchActivates, A!ReinitEnds, A!ReinitFails,
         A!RollsBack, A!stored, A!counts
<1>1. ASSUME NEW b \in Ids, A!SwitchStarts(b)
      PROVE  Shaped'
  <2>1. switch' = [pc |-> "stop", from |-> active, to |-> b] /\ cache[b].there
        /\ UNCHANGED <<setting, active>>
    BY <1>1 DEF A!SwitchStarts, A!stored, A!Known
  <2>2. active \in Ids /\ active < next /\ b < next
    BY <2>1 DEF Shaped, Table
  <2>3. switch' \in [pc : Stages, from : Ids, to : Ids] /\ switch'.from < next
        /\ switch'.to < next
    BY <2>1, <2>2 DEF Stages
  <2>4. QED
    BY <1>0, <2>1, <2>3 DEF Shaped
<1>2. ASSUME NEW step \in Stages, A!Go(step)
      PROVE  /\ switch' \in [pc : Stages, from : Ids, to : Ids]
             /\ switch'.from < next /\ switch'.to < next
  BY <1>2 DEF A!Go, Shaped
<1>3. "set" \in Stages /\ "reinit" \in Stages /\ "unset" \in Stages /\ "again" \in Stages
  BY DEF Stages
<1>4. CASE A!SwitchStores
  <2>1. A!Go("set") /\ setting' = switch.to /\ UNCHANGED active
    BY <1>4 DEF A!SwitchStores
  <2>2. QED
    BY <1>0, <1>2, <1>3, <2>1 DEF Shaped
<1>5. CASE A!SwitchActivates
  <2>1. A!Go("reinit") /\ active' = switch.to /\ UNCHANGED setting
    BY <1>5 DEF A!SwitchActivates, A!stored
  <2>2. QED
    BY <1>0, <1>2, <1>3, <2>1 DEF Shaped
<1>6. CASE A!ReinitEnds
  <2>1. /\ switch' = [switch EXCEPT !.pc = "idle", !.from = active, !.to = active]
        /\ UNCHANGED <<setting, active>>
    BY <1>6 DEF A!ReinitEnds, A!Ended, A!stored
  <2>2. active \in Ids /\ active < next /\ switch \in [pc : Stages, from : Ids, to : Ids]
    BY DEF Shaped
  <2>3. switch' \in [pc : Stages, from : Ids, to : Ids] /\ switch'.from < next
        /\ switch'.to < next
    BY <2>1, <2>2 DEF Stages
  <2>4. QED
    BY <1>0, <2>1, <2>3 DEF Shaped
<1>7. CASE A!ReinitFails
  <2>1. A!Go("unset") /\ setting' = switch.from /\ UNCHANGED active
    BY <1>7 DEF A!ReinitFails
  <2>2. QED
    BY <1>0, <1>2, <1>3, <2>1 DEF Shaped
<1>8. CASE A!RollsBack
  <2>1. A!Go("again") /\ active' = switch.from /\ UNCHANGED setting
    BY <1>8 DEF A!RollsBack, A!stored
  <2>2. QED
    BY <1>0, <1>2, <1>3, <2>1 DEF Shaped
<1>9. QED
  BY <1>1, <1>4, <1>5, <1>6, <1>7, <1>8 DEF Switching

LEMMA ShapedRest ==
  ASSUME Numbered, Shaped, A!LoadAll \/ A!Crash \/ A!RefreshStarts \/ A!RefreshEnds
  PROVE  Shaped'
<1>1. CASE A!LoadAll
  <2>1. Table(cache', next) /\ active' \in Ids /\ active' < next
    BY <1>1, LoadEffect
  <2>2. UNCHANGED <<rows, setting, next, work, switch, saved>>
    BY <1>1 DEF A!LoadAll, A!stored, A!counts
  <2>3. QED
    BY <2>1, <2>2 DEF Shaped
<1>2. CASE A!Crash
  <2>1. /\ work' = <<>> /\ cache' = [a \in Ids |-> A!Absent(a)] /\ active' = 1
        /\ switch' = [pc |-> "idle", from |-> 1, to |-> 1]
        /\ UNCHANGED <<rows, setting, next, saved>>
    BY <1>2 DEF A!Crash, A!stored
  <2>2. Table(cache', next)
    BY <2>1, AbsentRow DEF Table
  <2>3. <<>> \in Seq(Requested(next))
    BY EmptySeq
  <2>4. switch' \in [pc : Stages, from : Ids, to : Ids] /\ switch'.from = 1 /\ switch'.to = 1
    BY <2>1 DEF Stages, Numbered
  <2>5. QED
    BY <2>1, <2>2, <2>3, <2>4 DEF Shaped, Numbered
<1>3. CASE A!RefreshStarts \/ A!RefreshEnds
  <2>1. UNCHANGED <<rows, cache, setting, next, active, work, switch, saved>>
    BY <1>3 DEF A!RefreshStarts, A!RefreshEnds, A!stored, A!counts
  <2>2. QED
    BY <2>1 DEF Shaped
<1>4. QED
  BY <1>1, <1>2, <1>3

LEMMA ShapedStep == ASSUME Numbered, Shaped, [A!Next]_(A!vars) PROVE Shaped'
<1>1. CASE A!Requests
  BY <1>1, ShapedStores, ShapedCaches DEF A!Requests
<1>2. CASE Switching
  BY <1>2, ShapedSwitch
<1>3. CASE A!LoadAll \/ A!Crash \/ A!RefreshStarts \/ A!RefreshEnds
  BY <1>3, ShapedRest
<1>4. CASE UNCHANGED A!vars
  BY <1>4 DEF Shaped, A!vars
<1>5. QED
  BY <1>1, <1>2, <1>3, <1>4 DEF A!Next, Switching

-----------------------------------------------------------------------------
(* Which account the file, the memory and the switch name *)

(* The setting is written before the memory at every stage of a switch, and an *)
(* account that is not there any more binds nothing.                           *)
Stage ==
    /\ up => /\ switch.pc \in {"idle", "stop"} /\ rows[setting].there => setting = active
             /\ switch.pc = "stop" => switch.from = active
             /\ switch.pc = "set" => setting = switch.to /\ active = switch.from
             /\ switch.pc = "reinit" => setting = switch.to /\ active = switch.to
             /\ switch.pc = "unset" => setting = switch.from
             /\ switch.pc = "again" => setting = switch.from /\ active = switch.from
    /\ ~up => switch.pc = "idle"

(* Between the reset and the activation the set in force is the account's that *)
(* comes, at every other stage the active one's.                               *)
Own ==
    up /\ ~crossed =>
        live.of = IF switch.pc = "set" THEN switch.to ELSE active

(* No request brings back the account the setting names.                       *)
LEMMA RequestRows ==
  ASSUME Numbered, Shaped, A!Requests
  PROVE  /\ UNCHANGED <<setting, up, active, switch>>
         /\ rows'[setting].there => rows[setting].there
<1>0. setting \in Ids /\ setting < next /\ next \in Nat /\ Table(rows, next)
      /\ active \in Ids
  BY DEF Shaped
<1>1. ASSUME NEW k \in A!Keys, A!AddStores(k)
      PROVE  /\ UNCHANGED <<setting, up, active, switch>>
             /\ rows'[setting].there => rows[setting].there
  <2>1. setting # next
    BY <1>0 DEF Numbered
  <2>2. rows'[setting] = rows[setting]
    BY <1>0, <1>1, <2>1 DEF A!AddStores, Table
  <2>3. QED
    BY <1>1, <2>2 DEF A!AddStores
<1>2. ASSUME NEW k \in A!Keys, NEW a \in Ids, A!KeyStores(a, k)
      PROVE  /\ UNCHANGED <<setting, up, active, switch>>
             /\ rows'[setting].there => rows[setting].there
  <2>1. rows'[setting].there = rows[setting].there
    BY <1>0, <1>2 DEF A!KeyStores, Table, Rows
  <2>2. QED
    BY <1>2, <2>1 DEF A!KeyStores
<1>3. ASSUME NEW a \in Ids, A!DeleteStores(a)
      PROVE  /\ UNCHANGED <<setting, up, active, switch>>
             /\ rows'[setting].there => rows[setting].there
  <2>1. rows'[setting] = IF setting = a THEN A!Absent(a) ELSE rows[setting]
    BY <1>0, <1>3 DEF A!DeleteStores, Table
  <2>2. QED
    BY <1>3, <2>1, AbsentRow DEF A!DeleteStores
<1>4. ASSUME NEW a \in Ids, A!ParStores(a)
      PROVE  /\ UNCHANGED <<setting, up, active, switch>>
             /\ rows'[setting].there => rows[setting].there
  <2>1. rows'[setting].there = rows[setting].there
    BY <1>0, <1>4 DEF A!ParStores, Table, Rows
  <2>2. QED
    BY <1>4, <2>1 DEF A!ParStores
<1>5. CASE A!ParamsPosted
  <2>1. rows'[setting].there = rows[setting].there
    BY <1>0, <1>5 DEF A!ParamsPosted, Table, Rows
  <2>2. QED
    BY <1>5, <2>1 DEF A!ParamsPosted
<1>6. ASSUME NEW i, A!AddCaches(i) \/ A!DeleteCaches(i) \/ A!KeyCaches(i) \/ A!ParCaches(i)
      PROVE  /\ UNCHANGED <<setting, up, active, switch>>
             /\ rows'[setting].there => rows[setting].there
  BY <1>6 DEF A!AddCaches, A!DeleteCaches, A!KeyCaches, A!ParCaches, A!stored
<1>7. QED
  BY <1>1, <1>2, <1>3, <1>4, <1>5, <1>6 DEF A!Requests

LEMMA StageStep == ASSUME Numbered, Shaped, Stage, [A!Next]_(A!vars) PROVE Stage'
<1>0. switch \in [pc : Stages, from : Ids, to : Ids]
  BY DEF Shaped
<1>1. CASE A!LoadAll
  <2>1. rows[setting].there => active' = setting
    BY <1>1, LoadEffect
  <2>2. switch.pc = "idle" /\ UNCHANGED <<rows, setting, switch>>
    BY <1>1 DEF A!LoadAll, Stage, A!stored
  <2>3. QED
    BY <2>1, <2>2 DEF Stage
<1>2. CASE A!Crash
  BY <1>2 DEF A!Crash, Stage
<1>3. CASE A!Requests
  <2>1. UNCHANGED <<setting, up, active, switch>>
    BY <1>3, RequestRows
  <2>2. rows'[setting].there => rows[setting].there
    BY <1>3, RequestRows
  <2>3. QED
    BY <2>1, <2>2 DEF Stage
<1>4. ASSUME NEW b \in Ids, A!SwitchStarts(b)
      PROVE  Stage'
  BY <1>4 DEF A!SwitchStarts, A!At, Stage, A!stored
<1>5. CASE A!SwitchStores
  BY <1>0, <1>5 DEF A!SwitchStores, A!At, A!Go, Stage
<1>6. CASE A!SwitchActivates
  BY <1>0, <1>6 DEF A!SwitchActivates, A!At, A!Go, Stage, A!stored
<1>7. CASE A!ReinitEnds
  BY <1>0, <1>7 DEF A!ReinitEnds, A!Ended, A!At, Stage, A!stored
<1>8. CASE A!ReinitFails
  BY <1>0, <1>8 DEF A!ReinitFails, A!At, A!Go, Stage
<1>9. CASE A!RollsBack
  BY <1>0, <1>9 DEF A!RollsBack, A!At, A!Go, Stage, A!stored
<1>10. CASE A!RefreshStarts \/ A!RefreshEnds
  BY <1>10 DEF A!RefreshStarts, A!RefreshEnds, Stage, A!stored
<1>11. CASE UNCHANGED A!vars
  BY <1>11 DEF Stage, A!vars
<1>12. QED
  BY <1>1, <1>2, <1>3, <1>4, <1>5, <1>6, <1>7, <1>8, <1>9, <1>10, <1>11 DEF A!Next

(* Outside a switch a restart would resume with the account active now, unless *)
(* the one the file names has been deleted: for any number of accounts, any    *)
(* requests and any crashes.                                                   *)
THEOREM ResumesWithTheActive == ASSUME Numbered PROVE A!Spec => []A!RestartResumes
<1>1. A!Init => Shaped /\ Stage
  <2>1. A!Init => Stage
    BY DEF A!Init, Stage
  <2>2. QED
    BY <2>1, ShapedInit
<1>2. Shaped /\ Stage /\ [A!Next]_(A!vars) => Shaped' /\ Stage'
  BY ShapedStep, StageStep
<1>3. Shaped /\ Stage => A!RestartResumes
  BY DEF Stage, A!RestartResumes, A!Idle
<1>4. QED
  BY <1>1, <1>2, <1>3, PTL DEF A!Spec

LEMMA OwnStep == ASSUME Numbered, Shaped, Stage, Own, [A!Next]_(A!vars) PROVE Own'
<1>0. /\ switch \in [pc : Stages, from : Ids, to : Ids] /\ active \in Ids
      /\ \A a \in Ids : cache[a].par.of = a
  BY DEF Shaped, Table
<1>1. CASE A!LoadAll
  <2>1. live' = cache'[active'].par /\ Table(cache', next) /\ active' \in Ids
    BY <1>1, LoadEffect
  <2>2. live'.of = active'
    BY <2>1 DEF Table
  <2>3. switch'.pc = "idle"
    BY <1>1 DEF A!LoadAll, Stage
  <2>4. QED
    BY <2>2, <2>3 DEF Own
<1>2. CASE A!Crash
  BY <1>2 DEF A!Crash, Own
<1>3. CASE A!Requests
  <2>1. ASSUME NEW k \in A!Keys, A!AddStores(k) \/ \E a \in Ids : A!KeyStores(a, k)
        PROVE  Own'
    BY <2>1 DEF A!AddStores, A!KeyStores, Own, A!counts
  <2>2. ASSUME NEW a \in Ids, A!DeleteStores(a) \/ A!ParStores(a)
        PROVE  Own'
    BY <2>2 DEF A!DeleteStores, A!ParStores, Own, A!counts
  <2>3. CASE A!ParamsPosted
    BY <2>3 DEF A!ParamsPosted, Own
  <2>4. ASSUME NEW i, A!AddCaches(i) \/ A!DeleteCaches(i) \/ A!KeyCaches(i)
        PROVE  Own'
    BY <2>4 DEF A!AddCaches, A!DeleteCaches, A!KeyCaches, Own, A!counts
  <2>5. ASSUME NEW i, A!ParCaches(i)
        PROVE  Own'
    <3> DEFINE w == work[i]
    <3>1. w \in Requested(next)
      BY <2>5, EndEffect DEF A!ParCaches
    <3>2. w.par.of = w.id
      BY <2>5, <3>1, JobFacts DEF A!ParCaches
    <3>3. /\ live' = IF w.id = active THEN w.par ELSE live
          /\ crossed' = (crossed \/ (w.id = active /\ switch.pc = "set"))
          /\ UNCHANGED <<up, active, switch>>
      BY <2>5 DEF A!ParCaches, A!stored
    <3> HIDE DEF w
    <3>4. QED
      BY <3>2, <3>3 DEF Own
  <2>6. QED
    BY <1>3, <2>1, <2>2, <2>3, <2>4, <2>5 DEF A!Requests
<1>4. ASSUME NEW b \in Ids, A!SwitchStarts(b)
      PROVE  Own'
  BY <1>4 DEF A!SwitchStarts, A!At, Own, A!counts
<1>5. CASE A!SwitchStores
  BY <1>0, <1>5 DEF A!SwitchStores, A!Go, Own
<1>6. CASE A!SwitchActivates
  BY <1>0, <1>6 DEF A!SwitchActivates, A!At, A!Go, Own, A!counts
<1>7. CASE A!ReinitEnds
  BY <1>0, <1>7 DEF A!ReinitEnds, A!Ended, A!At, Own, A!counts
<1>8. CASE A!ReinitFails
  BY <1>0, <1>8 DEF A!ReinitFails, A!At, A!Go, Own, A!counts
<1>9. CASE A!RollsBack
  BY <1>0, <1>9 DEF A!RollsBack, A!Go, Own, A!counts
<1>10. CASE A!RefreshStarts \/ A!RefreshEnds
  BY <1>10 DEF A!RefreshStarts, A!RefreshEnds, Own, A!counts
<1>11. CASE UNCHANGED A!vars
  BY <1>11 DEF Own, A!vars
<1>12. QED
  BY <1>1, <1>2, <1>3, <1>4, <1>5, <1>6, <1>7, <1>8, <1>9, <1>10, <1>11 DEF A!Next

(* Outside a switch the parameters in force are those of the active account,   *)
(* unless some were saved between the reset of a switch and its activation.    *)
THEOREM ParametersAreItsOwn == ASSUME Numbered PROVE A!Spec => []A!LiveIsOwn
<1>1. A!Init => Shaped /\ Stage /\ Own
  <2>1. A!Init => Stage /\ Own
    BY DEF A!Init, Stage, Own
  <2>2. QED
    BY <2>1, ShapedInit
<1>2. Shaped /\ Stage /\ Own /\ [A!Next]_(A!vars) => Shaped' /\ Stage' /\ Own'
  BY ShapedStep, StageStep, OwnStep
<1>3. Shaped /\ Own => A!LiveIsOwn
  BY DEF Own, A!LiveIsOwn, A!Idle
<1>4. QED
  BY <1>1, <1>2, <1>3, PTL DEF A!Spec

-----------------------------------------------------------------------------
(* What the requests on their way still have to bring *)

Of(i, kind, a) == work[i].kind = kind /\ work[i].id = a
(* No request of the kind for the account is left, or none after i.            *)
None(kind, a) == \A i \in 1 .. Len(work) : ~Of(i, kind, a)
LastOf(i, kind, a) == Of(i, kind, a) /\ \A j \in 1 .. Len(work) : j > i => ~Of(j, kind, a)

(* A new account is not in the cache and nothing else is on its way for it; a  *)
(* deleted one has no row any more; the last key and the last parameters on    *)
(* their way to an account that exists are those of its row.                   *)
Brings(i, a) ==
    /\ Of(i, "add", a) => /\ rows[a].there /\ ~cache[a].there
                          /\ rows[a].key = work[i].key /\ rows[a].par = work[i].par
                          /\ \A j \in 1 .. Len(work) : j # i => work[j].id # a
    /\ Of(i, "delete", a) => ~rows[a].there
    /\ LastOf(i, "key", a) /\ rows[a].there => rows[a].key = work[i].key
    /\ LastOf(i, "par", a) /\ rows[a].there => rows[a].par = work[i].par

(* What nothing is on its way for is in the cache as it is in the row.         *)
Brought(a) ==
    /\ None("add", a) /\ None("delete", a) => cache[a].there = rows[a].there
    /\ rows[a].there /\ cache[a].there =>
         /\ None("key", a) => cache[a].key \in {rows[a].key, "blank"}
         /\ None("par", a) => cache[a].par = rows[a].par

Gone(a) == /\ ~rows[a].there => rows[a] = A!Absent(a)
           /\ ~cache[a].there => cache[a] = A!Absent(a)

Follows(a) == Brought(a) /\ \A i \in 1 .. Len(work) : Brings(i, a)

Pending ==
    /\ \A a \in Ids : Gone(a)
    /\ up => \A a \in Ids : Follows(a)
    /\ ~up => work = <<>>

LEMMA PendingInit == A!Init => Pending
<1> SUFFICES ASSUME A!Init PROVE Pending
  OBVIOUS
<1>1. PICK k \in [Ids -> A!Keys], m \in Ids :
        rows = [a \in Ids |-> IF a <= m THEN [there |-> TRUE, key |-> k[a], par |-> A!Default(a)]
                              ELSE A!Absent(a)]
  BY DEF A!Init
<1>2. ASSUME NEW a \in Ids PROVE Gone(a)
  <2>1. rows[a].there \/ rows[a] = A!Absent(a)
    BY <1>1
  <2>2. cache[a] = A!Absent(a)
    BY DEF A!Init
  <2>3. QED
    BY <2>1, <2>2 DEF Gone
<1>3. QED
  BY <1>2 DEF A!Init, Pending

(* The list with a request taken off: the others in their order. *)
LEMMA Removed ==
  ASSUME Shaped, NEW i, A!End(i)
  PROVE  /\ i \in 1 .. Len(work) /\ Len(work) \in Nat /\ Len(work') = Len(work) - 1
         /\ \A j \in 1 .. Len(work') : work'[j] = work[IF j < i THEN j ELSE j + 1]
         /\ \A j \in 1 .. i - 1 : ~Of(j, work[i].kind, work[i].id)
<1> DEFINE S == Requested(next)
           n == Len(work)
           front == SubSeq(work, 1, i - 1)
           back == SubSeq(work, i + 1, n)
<1>1. work \in Seq(S) /\ i \in DOMAIN work /\ work' = front \o back
  BY DEF Shaped, A!End, A!RemoveAt
<1>2. n \in Nat /\ i \in 1 .. n /\ \A j \in 1 .. n : work[j] \in S
  BY <1>1, LenProperties, ElementOfSeq
<1>3. /\ front \in Seq(S) /\ Len(front) = i - 1
      /\ \A j \in 1 .. i - 1 : front[j] = work[j]
  <2>1. \A j \in 1 .. i - 1 : work[j] \in S
    BY <1>2
  <2>2. /\ front \in Seq(S) /\ Len(front) = IF 1 <= i - 1 THEN i - 1 - 1 + 1 ELSE 0
        /\ \A j \in 1 .. i - 1 - 1 + 1 : front[j] = work[1 + j - 1]
    BY <1>2, <2>1, SubSeqProperties
  <2>3. QED
    BY <1>2, <2>2
<1>4. /\ back \in Seq(S) /\ Len(back) = n - i
      /\ \A j \in 1 .. n - i : back[j] = work[i + j]
  <2>1. \A j \in i + 1 .. n : work[j] \in S
    BY <1>2
  <2>2. /\ back \in Seq(S) /\ Len(back) = IF i + 1 <= n THEN n - (i + 1) + 1 ELSE 0
        /\ \A j \in 1 .. n - (i + 1) + 1 : back[j] = work[(i + 1) + j - 1]
    BY <1>2, <2>1, SubSeqProperties
  <2>3. QED
    BY <1>2, <2>2
<1> HIDE DEF S, n, front, back
<1>5. /\ Len(work') = Len(front) + Len(back)
      /\ \A j \in 1 .. Len(front) + Len(back) :
           work'[j] = IF j <= Len(front) THEN front[j] ELSE back[j - Len(front)]
  BY <1>1, <1>3, <1>4, ConcatProperties
<1>6. Len(work') = n - 1
  BY <1>2, <1>3, <1>4, <1>5
<1>7. ASSUME NEW j \in 1 .. Len(work')
      PROVE  work'[j] = work[IF j < i THEN j ELSE j + 1]
  <2>1. CASE j < i
    BY <1>2, <1>3, <1>4, <1>5, <1>6, <2>1
  <2>2. CASE ~(j < i)
    <3>1. work'[j] = back[j - (i - 1)] /\ j - (i - 1) \in 1 .. n - i
      BY <1>2, <1>3, <1>4, <1>5, <1>6, <2>2
    <3>2. i + (j - (i - 1)) = j + 1
      BY <1>2, <1>6, <2>2
    <3>3. QED
      BY <1>4, <2>2, <3>1, <3>2
  <2>3. QED
    BY <2>1, <2>2
<1>8. \A j \in 1 .. i - 1 : ~Of(j, work[i].kind, work[i].id)
  BY DEF A!End, Of
<1>9. QED
  BY <1>2, <1>6, <1>7, <1>8 DEF n

LEMMA Appended ==
  ASSUME Shaped, NEW w, NEW n \in Nat, w \in Requested(n), work \in Seq(Requested(n)), A!Begin(w)
  PROVE  /\ Len(work) \in Nat /\ Len(work') = Len(work) + 1
         /\ \A j \in 1 .. Len(work) : work'[j] = work[j]
         /\ work'[Len(work) + 1] = w
  BY AppendProperties, LenProperties DEF A!Begin

(* A request for one account changes nothing that is on its way for another.   *)
LEMMA OthersAppended ==
  ASSUME NEW a, Follows(a), NEW w, w.id # a,
         UNCHANGED <<rows[a], cache[a]>>,
         Len(work) \in Nat, Len(work') = Len(work) + 1,
         \A j \in 1 .. Len(work) : work'[j] = work[j],
         work'[Len(work) + 1] = w
  PROVE  Follows(a)'
<1> DEFINE n == Len(work)
<1>1. \A j \in 1 .. n + 1 : \A kind : Of(j, kind, a)' <=> (j \in 1 .. n /\ Of(j, kind, a))
  BY DEF Of
<1>2. \A kind : None(kind, a)' <=> None(kind, a)
  BY <1>1 DEF None
<1>3. \A j \in 1 .. n : \A kind : LastOf(j, kind, a)' <=> LastOf(j, kind, a)
  BY <1>1 DEF LastOf
<1>4. Brought(a)'
  BY <1>2 DEF Follows, Brought
<1>5. ASSUME NEW i \in 1 .. n PROVE Brings(i, a)'
  BY <1>1, <1>3 DEF Follows, Brings
<1>6. ASSUME NEW i, i = n + 1 PROVE Brings(i, a)'
  BY <1>6 DEF Brings, LastOf, Of
<1>7. \A i \in 1 .. Len(work') : i \in 1 .. n \/ i = n + 1
  OBVIOUS
<1>8. QED
  BY <1>4, <1>5, <1>6, <1>7 DEF Follows

LEMMA OthersRemoved ==
  ASSUME NEW a, Follows(a), UNCHANGED <<rows[a], cache[a]>>,
         NEW i, i \in 1 .. Len(work), work[i].id # a,
         Len(work) \in Nat, Len(work') = Len(work) - 1,
         \A j \in 1 .. Len(work') : work'[j] = work[IF j < i THEN j ELSE j + 1]
  PROVE  Follows(a)'
<1> DEFINE n == Len(work)
           Was(j) == IF j < i THEN j ELSE j + 1
<1>1. \A j \in 1 .. n - 1 : Was(j) \in 1 .. n /\ work'[j] = work[Was(j)]
  OBVIOUS
<1>2. ASSUME NEW k \in 1 .. n, k # i
      PROVE  \E j \in 1 .. n - 1 : Was(j) = k
  <2>1. CASE k < i
    <3>1. k \in 1 .. n - 1 /\ Was(k) = k
      BY <2>1
    <3>2. QED
      BY <3>1
  <2>2. CASE k > i
    <3>1. k - 1 \in 1 .. n - 1 /\ Was(k - 1) = k
      BY <2>2
    <3>2. QED
      BY <3>1
  <2>3. QED
    BY <1>2, <2>1, <2>2
<1>3. \A j, l \in 1 .. n - 1 : j > l <=> Was(j) > Was(l)
  OBVIOUS
<1>0. \A j, l \in 1 .. n - 1 : j # l => Was(j) # Was(l)
  OBVIOUS
<1>9. \A j \in 1 .. n - 1 : Was(j) # i
  OBVIOUS
<1> HIDE DEF Was
<1>4. \A j \in 1 .. n - 1 : \A kind : Of(j, kind, a)' <=> Of(Was(j), kind, a)
  BY <1>1 DEF Of
<1>5. \A kind : ~Of(i, kind, a)
  BY DEF Of
<1>6. ASSUME NEW kind PROVE None(kind, a)' <=> None(kind, a)
  BY <1>1, <1>2, <1>4, <1>5 DEF None
<1>7. ASSUME NEW j \in 1 .. n - 1, NEW kind PROVE LastOf(j, kind, a)' <=> LastOf(Was(j), kind, a)
  <2>1. ASSUME LastOf(j, kind, a)', NEW k \in 1 .. n, k > Was(j)
        PROVE  ~Of(k, kind, a)
    <3>1. CASE k = i
      BY <1>5, <3>1
    <3>2. CASE k # i
      <4>1. PICK l \in 1 .. n - 1 : Was(l) = k
        BY <1>2, <3>2
      <4>2. l > j
        BY <1>3, <2>1, <4>1
      <4>3. QED
        BY <1>4, <2>1, <4>1, <4>2 DEF LastOf
    <3>3. QED
      BY <3>1, <3>2
  <2>2. ASSUME LastOf(Was(j), kind, a), NEW l \in 1 .. n - 1, l > j
        PROVE  ~Of(l, kind, a)'
    BY <1>1, <1>3, <1>4, <2>2 DEF LastOf
  <2>3. QED
    BY <1>4, <2>1, <2>2 DEF LastOf
<1>8. Brought(a)'
  BY <1>6 DEF Follows, Brought
<1>10. ASSUME NEW j \in 1 .. n - 1 PROVE Brings(j, a)'
  <2>1. Brings(Was(j), a)
    BY <1>1 DEF Follows
  <2>2. Of(Was(j), "add", a) => \A l \in 1 .. n - 1 : l # j => work'[l].id # a
    BY <1>0, <1>1, <2>1 DEF Brings
  <2>3. QED
    BY <1>1, <1>4, <1>7, <2>1, <2>2 DEF Brings
<1>11. QED
  BY <1>8, <1>10 DEF Follows

(* Every step keeps it *)

LEMMA PendingAdd ==
  ASSUME Numbered, Shaped, Pending, NEW k \in A!Keys, A!AddStores(k)
  PROVE  Pending'
<1> DEFINE r == [there |-> TRUE, key |-> k, par |-> A!Default(next)]
           w == [kind |-> "add", id |-> next, key |-> k, par |-> A!Default(next)]
           n == Len(work)
<1>1. /\ next \in Ids /\ next' = next + 1 /\ rows' = [rows EXCEPT ![next] = r]
      /\ A!Begin(w) /\ cache' = cache /\ up' = up /\ up
  BY DEF A!AddStores, A!Begin
<1>2. w \in Requested(next + 1) /\ work \in Seq(Requested(next + 1)) /\ next + 1 \in Nat
  <2>1. A!Default(next) \in ParSets /\ A!Default(next).of = next
    BY <1>1 DEF A!Default, ParSets
  <2>2. w \in Requested(next + 1)
    BY <1>1, <2>1 DEF Requested, AddJobs, Shaped
  <2>3. QED
    BY <2>2, JobsGrow DEF Shaped
<1>3. /\ n \in Nat /\ Len(work') = n + 1 /\ work'[n + 1] = w
      /\ \A j \in 1 .. n : work'[j] = work[j]
  BY <1>1, <1>2, Appended
<1>4. rows \in [Ids -> Rows] /\ ~rows[next].there /\ ~cache[next].there
  BY <1>1 DEF Shaped, Table, Numbered
<1>5. ASSUME NEW a \in Ids PROVE Gone(a)'
  BY <1>1, <1>4 DEF Pending, Gone
<1>6. ASSUME NEW a \in Ids, a # next PROVE Follows(a)'
  <2>1. w.id # a /\ UNCHANGED <<rows[a], cache[a]>>
    BY <1>1, <1>4, <1>6
  <2>2. Follows(a)
    BY <1>1 DEF Pending
  <2> HIDE DEF w, n
  <2>3. QED
    BY <1>3, <2>1, <2>2, OthersAppended DEF n
<1>7. ASSUME NEW a \in Ids, a = next PROVE Follows(a)'
  <2>1. \A j \in 1 .. n : work[j].id # a
    <3>1. \A j \in 1 .. n : work[j] \in Requested(next)
      BY <1>3, ElementOfSeq DEF Shaped
    <3>2. QED
      BY <1>1, <1>7, <3>1, JobFacts DEF Numbered
  <2>2. rows'[a] = r /\ ~cache'[a].there
    BY <1>1, <1>4, <1>7
  <2>3. \A j \in 1 .. Len(work') : j = n + 1 \/ (j \in 1 .. n /\ work'[j].id # a)
    BY <1>3, <2>1
  <2>4. n + 1 \in 1 .. Len(work')
    BY <1>3
  <2>5. ~None("add", a)'
    BY <1>3, <1>7, <2>4 DEF None, Of
  <2>6. Brought(a)'
    BY <2>2, <2>5 DEF Brought
  <2>7. ASSUME NEW i \in 1 .. n PROVE Brings(i, a)'
    BY <1>3, <2>1, <2>3, <2>7 DEF Brings, LastOf, Of
  <2>8. ASSUME NEW i, i = n + 1 PROVE Brings(i, a)'
    BY <1>3, <1>7, <2>2, <2>3, <2>8 DEF Brings, LastOf, Of
  <2>9. QED
    BY <2>3, <2>6, <2>7, <2>8 DEF Follows
<1>8. QED
  BY <1>1, <1>5, <1>6, <1>7 DEF Pending

(* A request on the row of an account that is there and in the cache. *)
LEMMA NoAdd ==
  ASSUME Shaped, Pending, up, NEW a \in Ids, cache[a].there \/ ~rows[a].there,
         NEW i \in 1 .. Len(work)
  PROVE  ~Of(i, "add", a)
  BY DEF Pending, Follows, Brings

LEMMA NoDelete ==
  ASSUME Shaped, Pending, up, NEW a \in Ids, rows[a].there, NEW i \in 1 .. Len(work)
  PROVE  ~Of(i, "delete", a)
  BY DEF Pending, Follows, Brings

LEMMA PendingDelete ==
  ASSUME Numbered, Shaped, Pending, NEW d \in Ids, A!DeleteStores(d)
  PROVE  Pending'
<1> DEFINE w == [kind |-> "delete", id |-> d]
           n == Len(work)
<1>1. /\ rows' = [rows EXCEPT ![d] = A!Absent(d)] /\ cache[d].there /\ rows[d].there
      /\ A!Begin(w) /\ cache' = cache /\ up' = up /\ up /\ next' = next
  BY DEF A!DeleteStores, A!Begin, A!Known
<1>2. w \in Requested(next) /\ work \in Seq(Requested(next)) /\ next \in Nat
      /\ rows \in [Ids -> Rows]
  BY <1>1 DEF Requested, DeleteJobs, Shaped, Table
<1>3. /\ n \in Nat /\ Len(work') = n + 1 /\ work'[n + 1] = w
      /\ \A j \in 1 .. n : work'[j] = work[j]
  BY <1>1, <1>2, Appended
<1>5. ASSUME NEW a \in Ids PROVE Gone(a)'
  BY <1>1, <1>2 DEF Pending, Gone
<1>6. ASSUME NEW a \in Ids, a # d PROVE Follows(a)'
  <2>1. w.id # a /\ UNCHANGED <<rows[a], cache[a]>>
    BY <1>1, <1>2, <1>6
  <2>2. Follows(a)
    BY <1>1 DEF Pending
  <2> HIDE DEF w, n
  <2>3. QED
    BY <1>3, <2>1, <2>2, OthersAppended DEF n
<1>7. Follows(d)'
  <2>1. ~rows'[d].there
    BY <1>1, <1>2, AbsentRow
  <2>2. ~None("delete", d)'
    <3>1. n + 1 \in 1 .. Len(work')
      BY <1>3
    <3>2. QED
      BY <1>3, <3>1 DEF None, Of
  <2>3. \A i \in 1 .. n : ~Of(i, "add", d)
    BY <1>1, NoAdd
  <2>4. \A i \in 1 .. Len(work') : ~Of(i, "add", d)'
    BY <1>3, <2>3 DEF Of
  <2>5. QED
    BY <2>1, <2>2, <2>4 DEF Follows, Brought, Brings
<1>8. QED
  BY <1>1, <1>5, <1>6, <1>7 DEF Pending

(* A new key or new parameters for a row that is there and in the cache. *)
LEMMA PendingUpdate ==
  ASSUME Numbered, Shaped, Pending, up, NEW d \in Ids, NEW w \in KeyJobs(next) \cup ParJobs(next),
         w.id = d, A!Begin(w), rows[d].there, cache[d].there,
         rows' = [rows EXCEPT ![d] = IF w.kind = "key" THEN [rows[d] EXCEPT !.key = w.key]
                                     ELSE [rows[d] EXCEPT !.par = w.par]],
         UNCHANGED <<cache, up, next>>
  PROVE  Pending'
<1> DEFINE n == Len(work)
<1>2. w \in Requested(next) /\ work \in Seq(Requested(next)) /\ next \in Nat
      /\ rows \in [Ids -> Rows]
  BY DEF Requested, Shaped, Table
<1>3. /\ n \in Nat /\ Len(work') = n + 1 /\ work'[n + 1] = w
      /\ \A j \in 1 .. n : work'[j] = work[j]
  BY <1>2, Appended
<1>4. /\ rows'[d].there
      /\ w.kind \in {"key", "par"}
      /\ w.kind = "key" => rows'[d].key = w.key /\ rows'[d].par = rows[d].par
      /\ w.kind = "par" => rows'[d].par = w.par /\ rows'[d].key = rows[d].key
  BY <1>2 DEF Rows, KeyJobs, ParJobs
<1>5. ASSUME NEW a \in Ids PROVE Gone(a)'
  BY <1>2, <1>4 DEF Pending, Gone
<1>6. ASSUME NEW a \in Ids, a # d PROVE Follows(a)'
  <2>1. w.id # a /\ UNCHANGED <<rows[a], cache[a]>>
    BY <1>2, <1>6
  <2>2. Follows(a)
    BY DEF Pending
  <2> HIDE DEF n
  <2>3. QED
    BY <1>3, <2>1, <2>2, OthersAppended DEF n
<1>7. Follows(d)'
  <2>1. \A i \in 1 .. n : ~Of(i, "add", d) /\ ~Of(i, "delete", d)
    BY NoAdd, NoDelete
  <2>2. \A i \in 1 .. Len(work') : ~Of(i, "add", d)' /\ ~Of(i, "delete", d)'
    BY <1>3, <1>4, <2>1 DEF Of
  <2>3. \A kind, i : i \in 1 .. n => (Of(i, kind, d)' <=> Of(i, kind, d))
    BY <1>3 DEF Of
  <2>4. \A kind, i : i = n + 1 => (Of(i, kind, d)' <=> kind = w.kind)
    BY <1>3 DEF Of
  <2>5. /\ 1 .. Len(work') = 1 .. n \cup {n + 1} /\ \A i \in 1 .. n : n + 1 > i /\ i # n + 1
        /\ n + 1 \notin 1 .. n
    BY <1>3
  <2>6. ASSUME NEW kind, kind # w.kind
        PROVE  /\ None(kind, d)' => None(kind, d)
               /\ \A i \in 1 .. n : LastOf(i, kind, d)' => LastOf(i, kind, d)
    <3>1. \A i \in 1 .. n : i \in 1 .. Len(work') /\ (Of(i, kind, d)' <=> Of(i, kind, d))
      BY <2>3, <2>5
    <3>2. QED
      BY <3>1 DEF None, LastOf
  <2>7. ~None(w.kind, d)' /\ \A i \in 1 .. n : ~LastOf(i, w.kind, d)'
    <3>0. n + 1 \in 1 .. Len(work') /\ work'[n + 1] = w
      BY <1>3, <2>5
    <3>1. ~None(w.kind, d)'
      BY <3>0 DEF None, Of
    <3>2. \A i \in 1 .. n : ~LastOf(i, w.kind, d)'
      BY <3>0, <2>5 DEF LastOf, Of
    <3>3. QED
      BY <3>1, <3>2
  <2>8. Follows(d)
    BY DEF Pending
  <2>9. Brought(d)'
    BY <1>4, <2>1, <2>6, <2>7, <2>8 DEF Follows, Brought, None
  <2>10. ASSUME NEW i \in 1 .. n PROVE Brings(i, d)'
    BY <1>3, <1>4, <2>2, <2>5, <2>6, <2>7, <2>8 DEF Follows, Brings
  <2>11. ASSUME NEW i, i = n + 1 PROVE Brings(i, d)'
    BY <1>3, <1>4, <2>2, <2>4, <2>5, <2>11 DEF Brings, LastOf
  <2>12. QED
    BY <2>5, <2>9, <2>10, <2>11 DEF Follows
<1>8. QED
  BY <1>5, <1>6, <1>7 DEF Pending

(* A request's second write: the entry of its account, and its place on the list. *)
LEMMA PendingCaches ==
  ASSUME Shaped, Pending, NEW i, A!AddCaches(i) \/ A!DeleteCaches(i) \/ A!KeyCaches(i) \/ A!ParCaches(i)
  PROVE  Pending'
<1> DEFINE w == work[i]
           n == Len(work)
           Was(j) == IF j < i THEN j ELSE j + 1
<1>1. /\ A!End(i) /\ up /\ UNCHANGED <<rows, up, next>>
  BY DEF A!AddCaches, A!DeleteCaches, A!KeyCaches, A!ParCaches, A!End, A!stored
<1>2. /\ i \in 1 .. n /\ n \in Nat /\ Len(work') = n - 1
      /\ \A j \in 1 .. n - 1 : work'[j] = work[Was(j)]
      /\ \A j \in 1 .. i - 1 : ~Of(j, w.kind, w.id)
  BY <1>1, Removed
<1>3. w \in Requested(next) /\ w.id \in Ids
  BY <1>1, EndEffect, JobFacts
<1>4. /\ cache \in [Ids -> Rows] /\ rows \in [Ids -> Rows]
      /\ \A a \in Ids : Gone(a) /\ Follows(a)
  BY <1>1 DEF Pending, Shaped, Table
<1>5. \A a \in Ids : a # w.id => cache'[a] = cache[a]
  BY <1>3, <1>4 DEF A!AddCaches, A!DeleteCaches, A!KeyCaches, A!ParCaches
<1>6. ASSUME NEW a \in Ids, a # w.id PROVE Follows(a)' /\ Gone(a)'
  <2>1. work[i].id # a /\ UNCHANGED <<rows[a], cache[a]>> /\ Follows(a) /\ Gone(a)
    BY <1>1, <1>4, <1>5, <1>6
  <2>2. Follows(a)'
    BY <1>2, <2>1, OthersRemoved
  <2>3. Gone(a)'
    BY <2>1 DEF Gone, A!Absent, A!Default
  <2>4. QED
    BY <2>2, <2>3
<1>7. /\ \A j \in 1 .. n - 1 : Was(j) \in 1 .. n /\ Was(j) # i /\ work'[j] = work[Was(j)]
      /\ \A j, l \in 1 .. n - 1 : (j > l <=> Was(j) > Was(l)) /\ (j # l => Was(j) # Was(l))
      /\ \A j \in 1 .. n - 1 : i > Was(j) => Was(j) \in 1 .. i - 1
  BY <1>2
<1>8. ASSUME NEW k \in 1 .. n, k # i
      PROVE  \E j \in 1 .. n - 1 : Was(j) = k
  <2>1. CASE k < i
    <3>1. k \in 1 .. n - 1 /\ Was(k) = k
      BY <1>2, <2>1
    <3>2. QED
      BY <3>1
  <2>2. CASE k > i
    <3>1. k - 1 \in 1 .. n - 1 /\ Was(k - 1) = k
      BY <1>2, <2>2
    <3>2. QED
      BY <3>1
  <2>3. QED
    BY <1>2, <1>8, <2>1, <2>2
<1>9. i \in 1 .. n /\ Len(work') = n - 1
  BY <1>2
<1> HIDE DEF Was
<1>10. \A j \in 1 .. n - 1 : \A kind, a : Of(j, kind, a)' <=> Of(Was(j), kind, a)
  BY <1>7 DEF Of
(* The last one that is left was the last one before. *)
<1>11. ASSUME NEW j \in 1 .. n - 1, NEW kind, NEW a, LastOf(j, kind, a)'
       PROVE  LastOf(Was(j), kind, a)
  <2>1. Of(Was(j), kind, a)
    BY <1>10, <1>11 DEF LastOf
  <2>2. ASSUME NEW k \in 1 .. n, k > Was(j)
        PROVE  ~Of(k, kind, a)
    <3>1. CASE k = i
      <4>1. Was(j) \in 1 .. i - 1
        BY <1>7, <2>2, <3>1
      <4>2. Of(i, kind, a) => kind = w.kind /\ a = w.id
        BY DEF Of
      <4>3. QED
        BY <1>2, <2>1, <3>1, <4>1, <4>2
    <3>2. CASE k # i
      <4>1. PICK l \in 1 .. n - 1 : Was(l) = k
        BY <1>8, <3>2
      <4>2. l > j
        BY <1>7, <2>2, <4>1
      <4>3. ~Of(l, kind, a)'
        BY <1>9, <1>11, <4>2 DEF LastOf
      <4>4. QED
        BY <1>10, <4>1, <4>3
    <3>3. QED
      BY <3>1, <3>2
  <2>3. QED
    BY <2>1, <2>2 DEF LastOf
<1>12. ASSUME NEW kind, NEW a, None(kind, a)', kind # w.kind \/ a # w.id
       PROVE  None(kind, a)
  <2>1. ~Of(i, kind, a)
    BY <1>12 DEF Of
  <2>2. \A k \in 1 .. n : k # i => ~Of(k, kind, a)
    BY <1>8, <1>9, <1>10, <1>12 DEF None
  <2>3. QED
    BY <2>1, <2>2 DEF None
(* With none of its kind left it was the last one. *)
<1>13. ASSUME NEW kind, NEW a, kind = w.kind, a = w.id, None(kind, a)'
       PROVE  LastOf(i, kind, a)
  <2>1. ASSUME NEW k \in 1 .. n, k > i
        PROVE  ~Of(k, kind, a)
    <3>1. PICK l \in 1 .. n - 1 : Was(l) = k
      BY <1>2, <1>8, <2>1
    <3>2. ~Of(l, kind, a)'
      BY <1>9, <1>13 DEF None
    <3>3. QED
      BY <1>10, <3>1, <3>2
  <2>2. Of(i, kind, a)
    BY <1>13 DEF Of
  <2>3. QED
    BY <2>1, <2>2 DEF LastOf
<1>14. ASSUME NEW d, d = w.id PROVE Follows(d)' /\ Gone(d)'
  <2>0. d \in Ids /\ Follows(d) /\ Gone(d) /\ Of(i, w.kind, d) /\ rows'[d] = rows[d] /\ Brings(i, d)
    BY <1>1, <1>3, <1>4, <1>9, <1>14 DEF Of, Follows
  <2>1. CASE A!AddCaches(i)
    <3>1. /\ w.kind = "add" /\ cache'[d] = [there |-> TRUE, key |-> w.key, par |-> w.par]
      BY <1>4, <1>14, <2>0, <2>1 DEF A!AddCaches
    <3>2. /\ rows[d].there /\ rows[d].key = w.key /\ rows[d].par = w.par
          /\ \A j \in 1 .. n : j # i => work[j].id # d
      BY <2>0, <3>1 DEF Brings
    <3>3. \A j \in 1 .. n - 1 : \A kind : ~Of(j, kind, d)'
      BY <1>7, <1>10, <3>2 DEF Of
    <3>4. \A j \in 1 .. n - 1 : Brings(j, d)'
      BY <3>3 DEF Brings, LastOf
    <3>0. cache'[d].there /\ cache'[d].key = rows[d].key /\ cache'[d].par = rows[d].par
      BY <3>1, <3>2
    <3>5. Brought(d)'
      BY <2>0, <3>0, <3>2 DEF Brought
    <3>6. Gone(d)'
      BY <2>0, <3>0, <3>2 DEF Gone
    <3>7. QED
      BY <1>9, <3>4, <3>5, <3>6 DEF Follows
  <2>2. CASE A!DeleteCaches(i)
    <3>1. /\ w.kind = "delete" /\ cache'[d] = A!Absent(d)
      BY <1>4, <1>14, <2>0, <2>2 DEF A!DeleteCaches
    <3>2. ~rows[d].there /\ ~A!Absent(d).there
      BY <2>0, <3>1, AbsentRow DEF Brings
    <3>3. \A j \in 1 .. n - 1 : ~Of(j, "add", d)'
      BY <1>1, <1>7, <1>10, <2>0, <3>2, NoAdd
    <3>4. \A j \in 1 .. n - 1 : Brings(j, d)'
      BY <2>0, <3>2, <3>3 DEF Brings
    <3>0. rows[d] = A!Absent(d)
      BY <2>0, <3>2 DEF Gone
    <3>5. Brought(d)'
      BY <2>0, <3>0, <3>1, <3>2 DEF Brought
    <3>6. Gone(d)'
      BY <2>0, <3>1, <3>2 DEF Gone, A!Absent, A!Default
    <3>7. QED
      BY <1>9, <3>4, <3>5, <3>6 DEF Follows
  <2>3. CASE A!KeyCaches(i) \/ A!ParCaches(i)
    <3>1. /\ w.kind \in {"key", "par"} /\ cache'[d].there = cache[d].there
          /\ w.kind = "key" => /\ cache'[d].par = cache[d].par
                               /\ cache[d].there => cache'[d].key = w.key
          /\ w.kind = "par" => /\ cache'[d].key = cache[d].key
                               /\ cache[d].there => cache'[d].par = w.par
          /\ ~cache[d].there => cache'[d] = cache[d]
      <4>1. cache[d] \in Rows
        BY <1>4, <2>0
      <4>2. CASE A!KeyCaches(i)
        BY <1>4, <1>14, <2>0, <4>1, <4>2 DEF A!KeyCaches, A!Known, Rows
      <4>3. CASE A!ParCaches(i)
        BY <1>4, <1>14, <2>0, <4>1, <4>3 DEF A!ParCaches, A!Known, Rows
      <4>4. QED
        BY <2>3, <4>2, <4>3
    <3>2. Gone(d)'
      BY <2>0, <3>1 DEF Gone, A!Absent, A!Default
    <3>3. ASSUME NEW j \in 1 .. n - 1 PROVE Brings(j, d)'
      <4>1. Was(j) \in 1 .. n /\ work'[j] = work[Was(j)] /\ Brings(Was(j), d)
        BY <1>7, <2>0 DEF Follows
      <4>2. ~Of(j, "add", d)'
        <5>1. ASSUME Of(Was(j), "add", d) PROVE FALSE
          <6>1. work[i].id # d
            BY <1>7, <1>9, <4>1, <5>1 DEF Brings
          <6>2. QED
            BY <1>14, <6>1
        <5>2. QED
          BY <1>10, <5>1
      <4>3. \A kind : LastOf(j, kind, d)' => LastOf(Was(j), kind, d)
        BY <1>11
      <4>4. QED
        BY <1>10, <2>0, <4>1, <4>2, <4>3 DEF Brings
    <3>4. Brought(d)'
      <4>0. Brought(d)
        BY <2>0 DEF Follows
      <4>1. w.kind # "add" /\ w.kind # "delete"
        BY <3>1
      <4>2. None("add", d)' /\ None("delete", d)' => cache'[d].there = rows[d].there
        BY <1>12, <3>1, <4>0, <4>1 DEF Brought
      <4>3. ASSUME rows[d].there, cache[d].there, None("key", d)'
            PROVE  cache'[d].key \in {rows[d].key, "blank"}
        <5>1. CASE w.kind = "key"
          <6>1. LastOf(i, "key", d)
            BY <1>13, <1>14, <4>3, <5>1
          <6>2. rows[d].key = w.key
            BY <2>0, <4>3, <6>1 DEF Brings
          <6>3. QED
            BY <3>1, <4>3, <5>1, <6>2
        <5>2. CASE w.kind # "key"
          <6>1. None("key", d)
            BY <1>12, <4>3, <5>2
          <6>2. QED
            BY <3>1, <4>0, <4>3, <5>2, <6>1 DEF Brought
        <5>3. QED
          BY <5>1, <5>2
      <4>4. ASSUME rows[d].there, cache[d].there, None("par", d)'
            PROVE  cache'[d].par = rows[d].par
        <5>1. CASE w.kind = "par"
          <6>1. LastOf(i, "par", d)
            BY <1>13, <1>14, <4>4, <5>1
          <6>2. rows[d].par = w.par
            BY <2>0, <4>4, <6>1 DEF Brings
          <6>3. QED
            BY <3>1, <4>4, <5>1, <6>2
        <5>2. CASE w.kind # "par"
          <6>1. None("par", d)
            BY <1>12, <4>4, <5>2
          <6>2. QED
            BY <3>1, <4>0, <4>4, <5>2, <6>1 DEF Brought
        <5>3. QED
          BY <5>1, <5>2
      <4>5. QED
        BY <2>0, <3>1, <4>2, <4>3, <4>4 DEF Brought
    <3>5. QED
      BY <1>9, <3>2, <3>3, <3>4 DEF Follows
  <2>4. QED
    BY <2>1, <2>2, <2>3
<1>15. QED
  BY <1>1, <1>6, <1>14 DEF Pending

LEMMA PendingStep == ASSUME Numbered, Shaped, Pending, [A!Next]_(A!vars) PROVE Pending'
<1>1. ASSUME NEW k \in A!Keys, A!AddStores(k) PROVE Pending'
  BY <1>1, PendingAdd
<1>2. ASSUME NEW k \in A!Keys, NEW a \in Ids, A!KeyStores(a, k) PROVE Pending'
  <2> DEFINE w == [kind |-> "key", id |-> a, key |-> k]
  <2>1. /\ A!Begin(w) /\ up /\ cache[a].there /\ rows[a].there
        /\ rows' = [rows EXCEPT ![a].key = k] /\ UNCHANGED <<cache, up, next>>
    BY <1>2 DEF A!KeyStores, A!Known, A!Begin
  <2>2. w \in KeyJobs(next) /\ w.kind = "key" /\ w.key = k /\ w.id = a
    BY <2>1 DEF KeyJobs, Shaped, Table
  <2>3. rows' = [rows EXCEPT ![a] = [rows[a] EXCEPT !.key = k]]
    BY <2>1 DEF Shaped, Table
  <2> HIDE DEF w
  <2>4. QED
    BY <2>1, <2>2, <2>3, PendingUpdate
<1>3. ASSUME NEW a \in Ids, A!DeleteStores(a) PROVE Pending'
  BY <1>3, PendingDelete
<1>4. ASSUME NEW a \in Ids, NEW p \in ParSets, p.of = a, up, rows[a].there, cache[a].there,
             rows' = [rows EXCEPT ![a].par = p],
             A!Begin([kind |-> "par", id |-> a, par |-> p]), UNCHANGED <<cache, up, next>>
      PROVE  Pending'
  <2> DEFINE w == [kind |-> "par", id |-> a, par |-> p]
  <2>1. w \in ParJobs(next) /\ w.kind = "par" /\ w.par = p /\ w.id = a
    BY <1>4 DEF ParJobs, Shaped, Table
  <2>2. rows' = [rows EXCEPT ![a] = [rows[a] EXCEPT !.par = p]]
    BY <1>4 DEF Shaped, Table
  <2>3. A!Begin(w)
    BY <1>4
  <2> HIDE DEF w
  <2>4. QED
    BY <1>4, <2>1, <2>2, <2>3, PendingUpdate
<1>5. saved \in Nat /\ active \in Ids
  BY DEF Shaped
<1>6. ASSUME NEW a \in Ids, A!ParStores(a) PROVE Pending'
  <2> DEFINE p == [of |-> a, n |-> saved']
  <2>1. p \in ParSets /\ p.of = a
    BY <1>5, <1>6 DEF A!ParStores, ParSets
  <2>2. /\ rows' = [rows EXCEPT ![a].par = p] /\ A!Begin([kind |-> "par", id |-> a, par |-> p])
        /\ UNCHANGED <<cache, up, next>> /\ up /\ rows[a].there /\ cache[a].there
    BY <1>6 DEF A!ParStores, A!Known, A!Begin
  <2> HIDE DEF p
  <2>3. QED
    BY <1>4, <2>1, <2>2
<1>7. CASE A!ParamsPosted
  <2> DEFINE p == [of |-> active, n |-> saved']
  <2>1. p \in ParSets /\ p.of = active
    BY <1>5, <1>7 DEF A!ParamsPosted, ParSets
  <2>2. /\ rows' = [rows EXCEPT ![active].par = p]
        /\ A!Begin([kind |-> "par", id |-> active, par |-> p])
        /\ UNCHANGED <<cache, up, next>> /\ up /\ rows[active].there /\ cache[active].there
    BY <1>7 DEF A!ParamsPosted, A!Known, A!Begin
  <2> HIDE DEF p
  <2>3. QED
    BY <1>4, <1>5, <2>1, <2>2
<1>8. CASE A!Requests
  BY <1>1, <1>2, <1>3, <1>6, <1>7, <1>8, PendingCaches DEF A!Requests
<1>9. CASE A!LoadAll
  <2>0. PICK garbled \in SUBSET {a \in Ids : rows[a].there} :
          cache' = [a \in Ids |-> IF a \in garbled THEN [rows[a] EXCEPT !.key = "blank"]
                                  ELSE rows[a]]
    BY <1>9 DEF A!LoadAll
  <2>1. /\ ~up /\ up' /\ work' = <<>> /\ UNCHANGED <<rows, work>> /\ rows \in [Ids -> Rows]
    BY <1>9 DEF A!LoadAll, A!stored, Pending, Shaped, Table
  <2>2. ASSUME NEW a \in Ids
        PROVE  cache'[a].there = rows[a].there /\ cache'[a].par = rows[a].par
               /\ cache'[a].key \in {rows[a].key, "blank"}
               /\ (~rows[a].there => cache'[a] = rows[a])
    BY <2>0, <2>1 DEF Rows
  <2>3. ASSUME NEW a \in Ids PROVE Gone(a)'
    BY <2>1, <2>2 DEF Pending, Gone, A!Absent, A!Default
  <2>4. ASSUME NEW a \in Ids PROVE Follows(a)'
    <3>1. Len(work') = 0
      BY <2>1
    <3>2. Brought(a)'
      BY <2>1, <2>2 DEF Brought
    <3>3. QED
      BY <3>1, <3>2 DEF Follows
  <2>5. QED
    BY <2>1, <2>3, <2>4 DEF Pending
<1>10. CASE A!Crash
  <2>1. ~up' /\ work' = <<>> /\ cache' = [a \in Ids |-> A!Absent(a)] /\ rows' = rows
    BY <1>10 DEF A!Crash, A!stored
  <2>2. ASSUME NEW a \in Ids PROVE Gone(a)'
    BY <2>1 DEF Pending, Gone, A!Absent, A!Default
  <2>3. QED
    BY <2>1, <2>2 DEF Pending
<1>11. CASE Switching \/ A!RefreshStarts \/ A!RefreshEnds \/ UNCHANGED A!vars
  <2>1. UNCHANGED <<rows, cache, work, up>>
    BY <1>11 DEF Switching, A!SwitchStarts, A!SwitchStores, A!SwitchActivates, A!ReinitEnds,
       A!ReinitFails, A!RollsBack, A!RefreshStarts, A!RefreshEnds, A!stored, A!vars
  <2>2. QED
    BY <2>1 DEF Pending, Gone, Follows, Brought, Brings, LastOf, None, Of
<1>12. QED
  BY <1>8, <1>9, <1>10, <1>11 DEF A!Next, Switching

(* With no request between its two writes the cache holds what the file holds.  *)
THEOREM CacheFollowsFile == ASSUME Numbered PROVE A!Spec => []A!CacheIsStored
<1>1. A!Init => Shaped /\ Pending
  BY ShapedInit, PendingInit
<1>2. Shaped /\ Pending /\ [A!Next]_(A!vars) => Shaped' /\ Pending'
  BY ShapedStep, PendingStep
<1>3. Shaped /\ Pending => A!CacheIsStored
  <2> SUFFICES ASSUME Shaped, Pending, up, work = <<>>, NEW a \in Ids
               PROVE  /\ cache[a].there = rows[a].there /\ cache[a].par = rows[a].par
                      /\ cache[a].key \in {rows[a].key, "blank"}
    BY DEF A!CacheIsStored
  <2>1. \A kind : None(kind, a)
    BY DEF None
  <2>2. cache[a].there = rows[a].there /\ (rows[a].there => cache[a].par = rows[a].par
                                             /\ cache[a].key \in {rows[a].key, "blank"})
    BY <2>1 DEF Pending, Follows, Brought
  <2>3. ~rows[a].there => rows[a] = A!Absent(a) /\ cache[a] = A!Absent(a)
    BY <2>2 DEF Pending, Gone
  <2>4. QED
    BY <2>2, <2>3
<1>4. QED
  BY <1>1, <1>2, <1>3, PTL DEF A!Spec

-----------------------------------------------------------------------------
(* Alerts (Monitor).  An open event is among the newest of the buffer, so   *)
(* what a cycle of four kinds pushes out is resolved or emitted again.      *)

(* The buffer holds more than the kinds of one cycle. *)
RoomForAll == Buffer \in Nat /\ Buffer >= 4

AlertKinds == {"regime_stale", "plugin_disconnected", "reconciler_backlog", "db_unreachable"}
AlertEvents == [kind : AlertKinds, resolved : BOOLEAN]

(* The kind has an open event among the m + 1 newest. *)
Late(evs, kind, m) ==
    \E i \in 1 .. Len(evs) : i + m >= Len(evs) /\ evs[i].kind = kind /\ ~evs[i].resolved

LEMMA OpenLate ==
  ASSUME NEW evs \in Seq(AlertEvents), NEW kind
  PROVE  /\ M!Open(evs, kind) <=> \E i \in 1 .. Len(evs) : evs[i].kind = kind /\ ~evs[i].resolved
         /\ \A m \in Nat : Late(evs, kind, m) => M!Open(evs, kind)
  BY LenProperties DEF M!Open, Late

(* The newest elements of a sequence. *)
LEMMA NewestOf ==
  ASSUME NEW S, NEW s \in Seq(S), NEW m \in 1 .. Len(s)
  PROVE  /\ SubSeq(s, m, Len(s)) \in Seq(S) /\ Len(SubSeq(s, m, Len(s))) = Len(s) - m + 1
         /\ \A i \in 1 .. Len(s) - m + 1 : SubSeq(s, m, Len(s))[i] = s[m + i - 1]
<1> DEFINE n == Len(s)
<1>1. n \in Int /\ m \in Int /\ m <= n /\ \A i \in m .. n : s[i] \in S
  BY LenProperties, ElementOfSeq
<1> HIDE DEF n
<1>2. /\ SubSeq(s, m, n) \in Seq(S) /\ Len(SubSeq(s, m, n)) = IF m <= n THEN n - m + 1 ELSE 0
      /\ \A i \in 1 .. n - m + 1 : SubSeq(s, m, n)[i] = s[m + i - 1]
  BY <1>1, SubSeqProperties
<1>3. QED
  BY <1>1, <1>2 DEF n

(* An event is put at the end; what is left of the others keeps its order.      *)
LEMMA Emitted ==
  ASSUME RoomForAll, NEW evs \in Seq(AlertEvents), NEW kind \in AlertKinds
  PROVE  /\ M!Emit(evs, kind) \in Seq(AlertEvents)
         /\ Late(M!Emit(evs, kind), kind, 0) \/ M!Open(evs, kind)
         /\ \A k : k # kind /\ M!Open(M!Emit(evs, kind), k) => M!Open(evs, k)
         /\ \A k, m : k # kind /\ m \in 0 .. 2 /\ Late(evs, k, m) => Late(M!Emit(evs, kind), k, m + 1)
<1> DEFINE new == [kind |-> kind, resolved |-> FALSE]
           more == Append(evs, new)
           n == Len(evs)
           from == IF n + 1 > Buffer THEN n + 1 - Buffer + 1 ELSE 1
           left == SubSeq(more, from, n + 1)
<1>1. n \in Nat /\ \A i \in 1 .. n : evs[i] \in AlertEvents
  BY LenProperties, ElementOfSeq
<1>2. new \in AlertEvents
  BY DEF AlertEvents
<1>3. /\ more \in Seq(AlertEvents) /\ Len(more) = n + 1 /\ more[n + 1] = new
      /\ \A i \in 1 .. n : more[i] = evs[i]
  BY <1>2, AppendProperties
<1>4. CASE M!Open(evs, kind)
  <2>1. M!Emit(evs, kind) = evs
    BY <1>4 DEF M!Emit
  <2>2. \A k, m : m \in 0 .. 2 /\ Late(evs, k, m) => Late(evs, k, m + 1)
    BY <1>1 DEF Late
  <2>3. QED
    BY <1>4, <2>1, <2>2
<1>5. CASE ~M!Open(evs, kind)
  <2>1. M!Emit(evs, kind) = left
    <3>1. Len(more) = n + 1 /\ n + 1 \in Nat /\ Buffer \in Nat /\ 1 \in Nat
      BY <1>1, <1>3 DEF RoomForAll
    <3>2. (IF n + 1 > Buffer THEN n + 1 - Buffer + 1 ELSE 1) = from
      OBVIOUS
    <3>3. (IF Len(more) > Buffer THEN Len(more) - Buffer + 1 ELSE 1) = from
      BY <3>1, <3>2
    <3> HIDE DEF from
    <3>4. M!Emit(evs, kind) = SubSeq(more, IF Len(more) > Buffer THEN Len(more) - Buffer + 1 ELSE 1, Len(more))
      BY <1>5 DEF M!Emit
    <3>5. M!Emit(evs, kind) = SubSeq(more, from, n + 1)
      BY <3>1, <3>3, <3>4, Zenon
    <3>6. QED
      BY <3>5
  <2>2. from \in 1 .. n + 1 /\ n + 1 - from + 1 <= Buffer /\ (from = 1 \/ n + 1 - from + 1 = Buffer)
    BY <1>1 DEF RoomForAll
  <2> HIDE DEF from, more, new, n
  <2>3. /\ left \in Seq(AlertEvents) /\ Len(left) = n + 1 - from + 1
        /\ \A i \in 1 .. n + 1 - from + 1 : left[i] = more[from + i - 1]
    <3>1. from \in 1 .. Len(more) /\ more \in Seq(AlertEvents)
      BY <1>3, <2>2
    <3>2. /\ SubSeq(more, from, Len(more)) \in Seq(AlertEvents)
          /\ Len(SubSeq(more, from, Len(more))) = Len(more) - from + 1
          /\ \A i \in 1 .. Len(more) - from + 1 : SubSeq(more, from, Len(more))[i] = more[from + i - 1]
      BY <3>1, NewestOf
    <3>3. Len(more) = n + 1
      BY <1>3
    <3>4. QED
      <4>1. left = SubSeq(more, from, Len(more))
        BY <3>3
      <4> HIDE DEF left
      <4>2. left \in Seq(AlertEvents) /\ Len(left) = Len(more) - from + 1
            /\ \A i \in 1 .. Len(more) - from + 1 : left[i] = more[from + i - 1]
        BY <3>2, <4>1, Zenon
      <4>3. n + 1 \in Int /\ from \in Int
        BY <1>1, <2>2
      <4>4. Len(more) - from + 1 = n + 1 - from + 1
        BY <1>1, <3>3, <4>3
      <4>5. QED
        BY <4>2, <4>4
  <2> DEFINE l == n + 1 - from + 1
  <2>4. l \in 1 .. n + 1 /\ Len(left) = l /\ left[l] = new
    BY <1>1, <1>3, <2>2, <2>3
  <2>5. \A i \in 1 .. l - 1 : left[i] = evs[from + i - 1] /\ from + i - 1 \in 1 .. n
    BY <1>1, <1>3, <2>2, <2>3
  <2>6. new.kind = kind /\ ~new.resolved
    BY DEF new
  <2> HIDE DEF left
  <2>7. Late(left, kind, 0)
    BY <2>4, <2>6 DEF Late
  <2>8. ASSUME NEW k, k # kind, M!Open(left, k)
        PROVE  M!Open(evs, k)
    <3>1. PICK i \in 1 .. l : left[i].kind = k /\ ~left[i].resolved
      BY <2>3, <2>4, <2>8, OpenLate
    <3>2. i # l
      BY <2>4, <2>6, <2>8, <3>1
    <3>3. i \in 1 .. l - 1
      BY <2>4, <3>2
    <3>4. QED
      BY <2>5, <3>1, <3>3, OpenLate DEF n
  <2>9. ASSUME NEW k, NEW m \in 0 .. 2, k # kind, Late(evs, k, m)
        PROVE  Late(left, k, m + 1)
    <3>1. PICK i \in 1 .. n : i + m >= n /\ evs[i].kind = k /\ ~evs[i].resolved
      BY <2>9 DEF Late, n
    <3>2. i >= from
      BY <1>1, <2>2, <3>1 DEF RoomForAll
    <3> DEFINE j == i - from + 1
    <3>3. j \in 1 .. l - 1 /\ j + (m + 1) >= l /\ from + j - 1 = i
      BY <1>1, <2>2, <3>1, <3>2
    <3> HIDE DEF j
    <3>4. left[j] = evs[i]
      BY <2>5, <3>3
    <3>5. j \in 1 .. Len(left) /\ j + (m + 1) >= Len(left)
      BY <2>4, <3>3
    <3>6. QED
      BY <3>1, <3>4, <3>5 DEF Late
  <2>10. QED
    BY <2>1, <2>3, <2>7, <2>8, <2>9
<1>6. QED
  BY <1>4, <1>5

LEMMA Resolved ==
  ASSUME NEW evs \in Seq(AlertEvents), NEW kind \in AlertKinds
  PROVE  /\ M!Resolve(evs, kind) \in Seq(AlertEvents) /\ ~M!Open(M!Resolve(evs, kind), kind)
         /\ \A k : k # kind /\ M!Open(M!Resolve(evs, kind), k) => M!Open(evs, k)
         /\ \A k, m : k # kind /\ m \in Nat /\ Late(evs, k, m) => Late(M!Resolve(evs, kind), k, m)
<1> DEFINE n == Len(evs)
           res == M!Resolve(evs, kind)
<1>1. n \in Nat /\ DOMAIN evs = 1 .. n /\ \A i \in 1 .. n : evs[i] \in AlertEvents
  BY LenProperties, ElementOfSeq
<1>2. res = [i \in 1 .. n |-> IF evs[i].kind = kind THEN [evs[i] EXCEPT !.resolved = TRUE] ELSE evs[i]]
  BY <1>1 DEF M!Resolve
<1>3. \A i \in 1 .. n : /\ res[i] \in AlertEvents /\ res[i].kind = evs[i].kind
                        /\ evs[i].kind = kind => res[i].resolved
                        /\ evs[i].kind # kind => res[i] = evs[i]
  BY <1>1, <1>2 DEF AlertEvents
<1>4. res \in [1 .. n -> AlertEvents]
  BY <1>2, <1>3
<1> HIDE DEF res, n
<1>5. res \in Seq(AlertEvents) /\ Len(res) = n
  BY <1>1, <1>4, LenProperties, SeqDef
<1>6. ~M!Open(res, kind) /\ \A k : k # kind /\ M!Open(res, k) => M!Open(evs, k)
  BY <1>3, <1>5, OpenLate DEF n
<1>7. \A k, m : k # kind /\ m \in Nat /\ Late(evs, k, m) => Late(res, k, m)
  BY <1>3, <1>5 DEF Late, n
<1>8. QED
  BY <1>5, <1>6, <1>7 DEF res

(* One check: its own kind, and the others.                                    *)
OwnCheck(s, t, x) ==
    /\ M!Decides(x) /\ M!Holds(x) => Late(t, x, 0) \/ M!Open(s, x)
    /\ M!Decides(x) /\ ~M!Holds(x) => ~M!Open(t, x)
    /\ \A y : y # x /\ M!Open(t, y) => M!Open(s, y)
    /\ \A y, m : y # x /\ m \in 0 .. 2 /\ Late(s, y, m) => Late(t, y, m + 1)

LEMMA CheckedOwn ==
  ASSUME RoomForAll, NEW evs \in Seq(AlertEvents), NEW kind \in AlertKinds
  PROVE  M!Checked(evs, kind) \in Seq(AlertEvents) /\ OwnCheck(evs, M!Checked(evs, kind), kind)
<1>1. \A k, m : m \in 0 .. 2 /\ Late(evs, k, m) => Late(evs, k, m + 1)
  BY LenProperties DEF Late
<1>2. CASE ~M!Decides(kind)
  BY <1>1, <1>2 DEF M!Checked, OwnCheck
<1>3. CASE M!Decides(kind) /\ M!Holds(kind)
  BY <1>3, Emitted DEF M!Checked, OwnCheck
<1>4. CASE M!Decides(kind) /\ ~M!Holds(kind)
  <2>1. M!Checked(evs, kind) = M!Resolve(evs, kind)
    BY <1>4 DEF M!Checked
  <2>2. M!Resolve(evs, kind) \in Seq(AlertEvents)
    BY Resolved
  <2>3. \A k, m : m \in 0 .. 2 /\ Late(M!Resolve(evs, kind), k, m) => Late(M!Resolve(evs, kind), k, m + 1)
    BY <2>2, LenProperties DEF Late
  <2>4. /\ ~M!Open(M!Resolve(evs, kind), kind)
        /\ \A k : k # kind /\ M!Open(M!Resolve(evs, kind), k) => M!Open(evs, k)
        /\ \A k, m : k # kind /\ m \in Nat /\ Late(evs, k, m) => Late(M!Resolve(evs, kind), k, m)
    BY Resolved
  <2>5. \A k, m : k # kind /\ m \in 0 .. 2 /\ Late(evs, k, m) => Late(M!Resolve(evs, kind), k, m + 1)
    BY <2>3, <2>4
  <2>6. QED
    BY <1>4, <2>1, <2>2, <2>4, <2>5 DEF OwnCheck
<1>5. QED
  BY <1>2, <1>3, <1>4

LEMMA BufferStep == ASSUME RoomForAll, events \in Seq(AlertEvents), [M!Next]_(M!vars)
                    PROVE  events' \in Seq(AlertEvents)
<1>1. CASE M!Cycle
  <2>1. \A evs \in Seq(AlertEvents), kind \in AlertKinds : M!Checked(evs, kind) \in Seq(AlertEvents)
    BY CheckedOwn
  <2>2. {"regime_stale", "plugin_disconnected", "reconciler_backlog", "db_unreachable"} \subseteq AlertKinds
    BY DEF AlertKinds
  <2>3. events' = M!Checked(M!Checked(M!Checked(M!Checked(events, "regime_stale"), "plugin_disconnected"),
                                  "reconciler_backlog"), "db_unreachable")
    BY <1>1 DEF M!Cycle
  <2>4. QED
    BY <2>1, <2>2, <2>3
<1>2. CASE M!Changes \/ UNCHANGED M!vars
  BY <1>2 DEF M!Changes, M!vars
<1>3. CASE M!Restart
  BY <1>3, EmptySeq DEF M!Restart
<1>4. QED
  BY <1>1, <1>2, <1>3 DEF M!Next

LEMMA CycleFollows ==
  ASSUME RoomForAll, events \in Seq(AlertEvents), M!Cycle, NEW k \in M!Kinds, M!Decides(k)
  PROVE  IF M!Holds(k) THEN M!Open(events, k) \/ M!Open(events', k) ELSE ~M!Open(events', k)
<1> DEFINE a == "regime_stale"  b == "plugin_disconnected"
           c == "reconciler_backlog"  d == "db_unreachable"
           e0 == events
           e1 == M!Checked(e0, a)
           e2 == M!Checked(e1, b)
           e3 == M!Checked(e2, c)
           e4 == M!Checked(e3, d)
<1>1. events' = e4 /\ k \in {a, b, c, d}
  BY DEF M!Cycle, M!Kinds
<1>2. e0 \in Seq(AlertEvents) /\ {a, b, c, d} \subseteq AlertKinds
  BY DEF AlertKinds
<1>0. \A evs \in Seq(AlertEvents), kind \in AlertKinds :
        M!Checked(evs, kind) \in Seq(AlertEvents) /\ OwnCheck(evs, M!Checked(evs, kind), kind)
  BY CheckedOwn
<1>3. e1 \in Seq(AlertEvents)
  BY <1>0, <1>2, <1>2
<1>4. e2 \in Seq(AlertEvents)
  BY <1>0, <1>2, <1>3
<1>5. e3 \in Seq(AlertEvents)
  BY <1>0, <1>2, <1>4
<1>6. e4 \in Seq(AlertEvents)
  BY <1>0, <1>2, <1>5
<1>7. OwnCheck(e0, e1, a)
  BY <1>0, <1>2, <1>2
<1>8. OwnCheck(e1, e2, b)
  BY <1>0, <1>2, <1>3
<1>9. OwnCheck(e2, e3, c)
  BY <1>0, <1>2, <1>4
<1>10. OwnCheck(e3, e4, d)
  BY <1>0, <1>2, <1>5
<1>11. \A m \in Nat : Late(e4, k, m) => M!Open(e4, k)
  BY <1>6, OpenLate
<1> HIDE DEF e0, e1, e2, e3, e4
<1>12. CASE k = a
  BY <1>1, <1>7, <1>8, <1>9, <1>10, <1>11, <1>12 DEF e0, OwnCheck
<1>13. CASE k = b
  BY <1>1, <1>7, <1>8, <1>9, <1>10, <1>11, <1>13 DEF e0, OwnCheck
<1>14. CASE k = c
  BY <1>1, <1>7, <1>8, <1>9, <1>10, <1>11, <1>14 DEF e0, OwnCheck
<1>15. CASE k = d
  BY <1>1, <1>7, <1>8, <1>9, <1>10, <1>11, <1>15 DEF e0, OwnCheck
<1>16. QED
  BY <1>1, <1>12, <1>13, <1>14, <1>15

THEOREM AlertsFollowConditions == ASSUME RoomForAll PROVE M!Spec => M!AlertsFollow
<1>1. M!Init => events \in Seq(AlertEvents)
  BY EmptySeq DEF M!Init
<1>2. events \in Seq(AlertEvents) /\ [M!Next]_(M!vars) => (events \in Seq(AlertEvents))'
  BY BufferStep
<1>3. events \in Seq(AlertEvents) /\ [M!Next]_(M!vars) =>
        [M!Cycle => \A k \in M!Kinds : M!Decides(k) =>
           IF M!Holds(k) THEN M!Open(events, k) \/ M!Open(events', k) ELSE ~M!Open(events', k)]_(M!vars)
  BY CycleFollows
<1>4. QED
  BY <1>1, <1>2, <1>3, PTL DEF M!Spec, M!AlertsFollow

-----------------------------------------------------------------------------
(* The machines as parts of Desk *)

(* Another machine's step leaves the candles alone.                            *)
LEMMA DeskRunsBars == DeskSpec => B!Spec
<1>1. DeskInit => B!Init
  BY DEF DeskInit
<1>2. [DeskNext]_desk => [B!Next]_(B!vars)
  BY DEF DeskNext, MoneyMoves, RegistryMoves, BarsMove, AlertsMove, desk, bars, B!vars
<1>3. QED
  BY <1>1, <1>2, PTL DEF DeskSpec, B!Spec

(* However pages, ranges, failures and other fetches fall, a fetch leaves no   *)
(* hole in the candles it has passed (ohlcv_fetcher.py, db_ohlcv.py).          *)
THEOREM DeskPagesWhole == DeskSpec => []PagesWhole
<1>1. B!RangeFetched => PagesWhole
  BY DEF PagesWhole
<1>2. BarsTyped
  BY PageAssumption DEF BarsTyped
<1>3. QED
  BY <1>1, <1>2, DeskRunsBars, FetchLeavesNoHole, PTL

(* Another machine's step leaves the registry alone.                           *)
LEMMA DeskRunsRegistry == DeskSpec => A!Spec
<1>1. DeskInit => A!Init
  BY DEF DeskInit
<1>2. [DeskNext]_desk => [A!Next]_(A!vars)
  BY DEF DeskNext, MoneyMoves, RegistryMoves, BarsMove, AlertsMove, desk, registry, A!vars
<1>3. QED
  BY <1>1, <1>2, PTL DEF DeskSpec, A!Spec

(* The registry's cache holds what its file holds, a restart resumes with the  *)
(* account that is active now, and the parameters in force are that account's, *)
(* through overlapping requests, failing switches and crashes                  *)
(* (account_registry.py).                                                      *)
THEOREM DeskRegistryHolds == DeskSpec => []RegistryHolds
<1>1. A!CacheIsStored /\ A!RestartResumes /\ A!LiveIsOwn => RegistryHolds
  BY DEF RegistryHolds
<1>2. Numbered
  BY IdsAssumption DEF Numbered
<1>3. QED
  BY <1>1, <1>2, DeskRunsRegistry, CacheFollowsFile, ResumesWithTheActive, ParametersAreItsOwn, PTL

(* Another machine's step leaves the alerts alone.                             *)
LEMMA DeskRunsAlerts == DeskSpec => M!Spec
<1>1. DeskInit => M!Init
  BY DEF DeskInit
<1>2. [DeskNext]_desk => [M!Next]_(M!vars)
  BY DEF DeskNext, MoneyMoves, RegistryMoves, BarsMove, AlertsMove, desk, alerts, M!vars
<1>3. QED
  BY <1>1, <1>2, PTL DEF DeskSpec, M!Spec

(* Over cycles, restarts and a ring buffer that forgets, a condition that      *)
(* holds is shown, and one that does not is not (monitoring.py).               *)
THEOREM DeskAlertsFollow == DeskSpec => AlertsFollow
<1>1. RoomForAll
  BY BufferAssumption DEF RoomForAll
<1>2. QED
  BY <1>1, DeskRunsAlerts, AlertsFollowConditions, PTL DEF AlertsFollow
=============================================================================
