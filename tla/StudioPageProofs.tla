-------------------------- MODULE StudioPageProofs --------------------------
(***************************************************************************)
(* What holds of the page for any orders, any number of clicks, reloads    *)
(* and restarts of the server: one decision counts, the page tells the     *)
(* truth about it, and the newest runs are kept.                           *)
(***************************************************************************)
EXTENDS StudioPage, WellFoundedInduction, TLAPS

(* What the loop over lists of runs makes of them is shown by induction    *)
(* over its rounds, stated for a set of numbers.                           *)

LEMMA Induction ==
    ASSUME NEW S, 0 \in S, \A n \in Nat : n \in S => n + 1 \in S
    PROVE  Nat \subseteq S
  <1> SUFFICES ASSUME Nat \ S # {} PROVE FALSE
    OBVIOUS
  <1>1. IsWellFoundedOn(OpToRel(<, Nat), Nat)
    BY NatLessThanWellFounded
  <1>2. \E n \in Nat \ S : \A m \in Nat \ S : ~(<<m, n>> \in OpToRel(<, Nat))
    BY <1>1, WFMin
  <1>3. PICK n \in Nat \ S : \A m \in Nat \ S : ~(m < n)
    BY <1>2 DEF OpToRel
  <1> QED
    BY <1>3

\* f[i] is the list after the first i rounds.
IsLoop(f, start, entries, n) ==
    f = [i \in 0..n |-> IF i = 0 THEN start ELSE Listed(f[i - 1], entries[i])]

LEMMA LoopEnds == ASSUME NEW start, NEW entries, NEW n \in Nat PROVE \E f : IsLoop(f, start, entries, n)
  <1> DEFINE S == {k \in Nat : \E f : IsLoop(f, start, entries, k)}
  <1>1. 0 \in S
    <2> DEFINE g == [i \in 0..0 |-> start]
    <2>1. g = [i \in 0..0 |-> IF i = 0 THEN start ELSE Listed(g[i - 1], entries[i])]
      OBVIOUS
    <2> QED
      BY <2>1 DEF IsLoop
  <1>2. ASSUME NEW k \in Nat, k \in S PROVE k + 1 \in S
    <2>1. PICK f : IsLoop(f, start, entries, k)
      BY <1>2
    <2> DEFINE g == [i \in 0..(k + 1) |-> IF i = k + 1 THEN Listed(f[k], entries[i]) ELSE f[i]]
    <2>2. \A i \in 0..k : f[i] = IF i = 0 THEN start ELSE Listed(f[i - 1], entries[i])
      BY <2>1 DEF IsLoop
    <2>3. \A i \in 0..(k + 1) : g[i] = IF i = 0 THEN start ELSE Listed(g[i - 1], entries[i])
      BY <2>2
    <2>4. g = [i \in 0..(k + 1) |-> IF i = 0 THEN start ELSE Listed(g[i - 1], entries[i])]
      BY <2>3
    <2>5. IsLoop(g, start, entries, k + 1)
      BY <2>4 DEF IsLoop
    <2> HIDE DEF g
    <2> QED
      BY <2>5
  <1> HIDE DEF S
  <1>3. n \in S
    BY <1>1, <1>2, Induction
  <1> QED
    BY <1>3 DEF S

LEMMA MergedIsLoop ==
    ASSUME NEW start, NEW entries, Len(entries) \in Nat
    PROVE  \E f : IsLoop(f, start, entries, Len(entries)) /\ Merged(start, entries) = f[Len(entries)]
  <1> DEFINE taken == CHOOSE f : IsLoop(f, start, entries, Len(entries))
  <1>1. IsLoop(taken, start, entries, Len(entries))
    <2>1. \E f : IsLoop(f, start, entries, Len(entries))
      BY LoopEnds
    <2> QED
      BY <2>1, Zenon
  <1>2. Merged(start, entries) = taken[Len(entries)]
    BY Zenon DEF Merged, IsLoop
  <1> QED
    BY <1>1, <1>2

\* Among the first n entries, p comes before any o.
Ahead(entries, n, p, o) == \E k \in 1..n : entries[k] = p /\ \A m \in 1..k : entries[m] # o

\* What the loop has made of the first n entries: each run at most once, in the order in
\* which they first come, and only for want of room is one left out, for the sake of
\* those that come before it.
TakenFrom(list, entries, n) ==
    /\ list \in Seq(Orders) /\ Len(list) <= Keep
    /\ \A i \in DOMAIN list : \E k \in 1..n : entries[k] = list[i]
    /\ \A i, j \in DOMAIN list : i < j => Ahead(entries, n, list[i], list[j])
    /\ \A k \in 1..n : entries[k] \notin Range(list) =>
          Len(list) = Keep /\ \A i \in DOMAIN list : Ahead(entries, n, list[i], entries[k])

LEMMA RoundTakes ==
    ASSUME NEW entries \in Seq(Orders), NEW n \in Nat, n < Len(entries),
           NEW list, TakenFrom(list, entries, n)
    PROVE  TakenFrom(Listed(list, entries[n + 1]), entries, n + 1)
  <1> DEFINE o == entries[n + 1]
  <1>1. \A p, q : Ahead(entries, n, p, q) => Ahead(entries, n + 1, p, q)
    BY DEF Ahead
  <1>2. o \in Orders
    OBVIOUS
  <1>3. list \in Seq(Orders) /\ Len(list) \in Nat /\ DOMAIN list = 1..Len(list)
    BY DEF TakenFrom
  <1>4. CASE o \in Range(list)
    <2>1. Listed(list, o) = list
      BY <1>4 DEF Listed
    <2>2. \A i \in DOMAIN list : \E k \in 1..(n + 1) : entries[k] = list[i]
      BY DEF TakenFrom
    <2>3. \A k \in 1..(n + 1) : entries[k] \notin Range(list) => k \in 1..n
      BY <1>4
    <2> QED
      BY <1>1, <2>1, <2>2, <2>3 DEF TakenFrom
  <1>5. CASE o \notin Range(list) /\ Len(list) = Keep
    <2>1. Listed(list, o) = list
      BY <1>5 DEF Listed
    <2>2. \A i \in DOMAIN list : \E k \in 1..(n + 1) : entries[k] = list[i]
      BY DEF TakenFrom
    <2>3. ASSUME NEW i \in DOMAIN list PROVE Ahead(entries, n + 1, list[i], o)
      <3>1. CASE \E k \in 1..n : entries[k] = o
        BY <1>1, <1>5, <3>1 DEF TakenFrom
      <3>2. CASE \A k \in 1..n : entries[k] # o
        <4>1. PICK k \in 1..n : entries[k] = list[i]
          BY DEF TakenFrom
        <4>2. k \in 1..(n + 1) /\ \A m \in 1..k : entries[m] # o
          BY <3>2
        <4> QED
          BY <4>1, <4>2 DEF Ahead
      <3> QED
        BY <3>1, <3>2
    <2>4. \A k \in 1..(n + 1) : k \in 1..n \/ entries[k] = o
      OBVIOUS
    <2> QED
      BY <1>1, <1>5, <2>1, <2>2, <2>3, <2>4 DEF TakenFrom
  <1>6. CASE o \notin Range(list) /\ Len(list) # Keep
    <2> DEFINE longer == Append(list, o)
    <2>1. Listed(list, o) = longer
      BY <1>6 DEF Listed
    <2>2. /\ longer \in Seq(Orders) /\ Len(longer) = Len(list) + 1 /\ Len(longer) <= Keep
          /\ DOMAIN longer = 1..(Len(list) + 1) /\ longer[Len(list) + 1] = o
          /\ \A i \in DOMAIN list : longer[i] = list[i]
      <3>1. Keep \in Nat /\ Len(list) <= Keep /\ Len(list) # Keep
        BY <1>6, StudioAssumption DEF TakenFrom
      <3>2. Len(list) + 1 <= Keep
        <4>1. \A a, b \in Nat : a <= b /\ a # b => a + 1 <= b
          OBVIOUS
        <4> QED
          BY <1>3, <3>1, <4>1, Zenon
      <3>3. /\ longer \in Seq(Orders) /\ Len(longer) = Len(list) + 1
            /\ longer[Len(list) + 1] = o /\ \A i \in 1..Len(list) : longer[i] = list[i]
        BY <1>2, <1>3
      <3>4. DOMAIN longer = 1..(Len(list) + 1)
        BY <1>3, <3>3
      <3> QED
        BY <1>3, <3>2, <3>3, <3>4
    <2>3. \A k \in 1..n : entries[k] \in Range(list)
      BY <1>6 DEF TakenFrom
    <2>4. \A k \in 1..(n + 1) : \E i \in DOMAIN longer : longer[i] = entries[k]
      <3>1. ASSUME NEW k \in 1..n PROVE \E i \in DOMAIN longer : longer[i] = entries[k]
        <4>1. PICK i \in DOMAIN list : list[i] = entries[k]
          BY <2>3 DEF Range
        <4> QED
          BY <1>3, <2>2, <4>1
      <3>2. ASSUME NEW k \in 1..(n + 1), k \notin 1..n
            PROVE  \E i \in DOMAIN longer : longer[i] = entries[k]
        BY <1>3, <2>2, <3>2
      <3> QED
        BY <3>1, <3>2
    <2>5. \A i \in DOMAIN longer : \E k \in 1..(n + 1) : entries[k] = longer[i]
      BY <1>3, <2>2 DEF TakenFrom
    <2>6. ASSUME NEW i \in DOMAIN longer, NEW j \in DOMAIN longer, i < j
          PROVE  Ahead(entries, n + 1, longer[i], longer[j])
      <3>1. CASE j \in DOMAIN list
        BY <1>1, <1>3, <2>2, <2>6, <3>1 DEF TakenFrom
      <3>2. CASE j = Len(list) + 1
        <4>1. i \in DOMAIN list /\ longer[i] = list[i] /\ longer[j] = o
          BY <1>3, <2>2, <2>6, <3>2
        <4>2. PICK k \in 1..n : entries[k] = list[i]
          BY <4>1 DEF TakenFrom
        <4>3. k \in 1..(n + 1) /\ \A m \in 1..k : entries[m] # o
          BY <1>6, <2>3
        <4> QED
          BY <4>1, <4>2, <4>3 DEF Ahead
      <3> QED
        BY <1>3, <2>2, <3>1, <3>2
    <2> HIDE DEF longer
    <2> QED
      BY <2>1, <2>2, <2>4, <2>5, <2>6 DEF TakenFrom, Range
  <1> QED
    BY <1>4, <1>5, <1>6

LEMMA ListFacts ==
    ASSUME NEW list \in Seq(Orders)
    PROVE  /\ Len(list) \in Nat /\ DOMAIN list = 1..Len(list)
           /\ \A i \in DOMAIN list : list[i] \in Orders /\ list[i] \in Range(list)
           /\ \A o \in Range(list) : \E i \in DOMAIN list : list[i] = o
  BY DEF Range

LEMMA JoinFacts ==
    ASSUME NEW a \in Seq(Orders), NEW b \in Seq(Orders)
    PROVE  /\ a \o b \in Seq(Orders) /\ Len(a \o b) = Len(a) + Len(b)
           /\ Len(a) \in Nat /\ Len(b) \in Nat
           /\ DOMAIN (a \o b) = 1..(Len(a) + Len(b))
           /\ \A i \in 1..Len(a) : (a \o b)[i] = a[i]
           /\ \A i \in 1..Len(b) : (a \o b)[Len(a) + i] = b[i]
  <1>1. /\ a \o b \in Seq(Orders) /\ Len(a \o b) = Len(a) + Len(b)
        /\ Len(a) \in Nat /\ Len(b) \in Nat
    OBVIOUS
  <1>2. \A i \in 1..Len(a) : (a \o b)[i] = a[i]
    OBVIOUS
  <1>3. \A i \in 1..Len(b) : (a \o b)[Len(a) + i] = b[i]
    OBVIOUS
  <1> QED
    BY <1>1, <1>2, <1>3, ListFacts

\* The rounds of the loop one by one.
LEMMA MergedRounds ==
    ASSUME NEW start, NEW entries \in Seq(Orders)
    PROVE  \E f : /\ f[0] = start /\ Merged(start, entries) = f[Len(entries)]
                  /\ \A i \in 1..Len(entries) : f[i] = Listed(f[i - 1], entries[i])
  <1>1. Len(entries) \in Nat
    OBVIOUS
  <1>2. PICK f : IsLoop(f, start, entries, Len(entries)) /\ Merged(start, entries) = f[Len(entries)]
    BY <1>1, MergedIsLoop
  <1>3. \A i \in 0..Len(entries) : f[i] = IF i = 0 THEN start ELSE Listed(f[i - 1], entries[i])
    BY <1>2 DEF IsLoop
  <1>4. f[0] = start /\ \A i \in 1..Len(entries) : f[i] = Listed(f[i - 1], entries[i])
    BY <1>1, <1>3
  <1> QED
    BY <1>2, <1>4

LEMMA MergedTakes ==
    ASSUME NEW start \in Seq(Orders), NEW entries \in Seq(Orders),
           IsInjective(start), Len(start) <= Keep
    PROVE  TakenFrom(Merged(start, entries), start \o entries, Len(start) + Len(entries))
  <1> DEFINE all == start \o entries
             l == Len(start)
  <1>1. PICK f : /\ f[0] = start /\ Merged(start, entries) = f[Len(entries)]
                 /\ \A i \in 1..Len(entries) : f[i] = Listed(f[i - 1], entries[i])
    BY MergedRounds
  <1>2. /\ all \in Seq(Orders) /\ Len(all) = l + Len(entries) /\ l \in Nat /\ Len(entries) \in Nat
        /\ \A i \in 1..l : all[i] = start[i]
        /\ \A i \in 1..Len(entries) : all[l + i] = entries[i]
        /\ DOMAIN start = 1..l
    BY JoinFacts, ListFacts
  <1> HIDE DEF all, l
  <1> DEFINE S == {n \in Nat : n <= Len(entries) => TakenFrom(f[n], all, l + n)}
  <1>3. 0 \in S
    <2>1. \A i, j \in 1..l : i < j => Ahead(all, l, start[i], start[j])
      <3> SUFFICES ASSUME NEW i \in 1..l, NEW j \in 1..l, i < j
                   PROVE  Ahead(all, l, start[i], start[j])
        OBVIOUS
      <3>1. \A m \in 1..i : m \in 1..l /\ m # j
        BY <1>2
      <3>2. \A m \in 1..i : all[m] # start[j]
        BY <1>2, <3>1 DEF IsInjective
      <3> QED
        BY <1>2, <3>2 DEF Ahead
    <2>2. \A k \in 1..l : all[k] \in Range(start)
      BY <1>2 DEF Range
    <2>3. TakenFrom(start, all, l)
      BY <1>2, <2>1, <2>2 DEF TakenFrom, l
    <2> QED
      BY <1>1, <1>2, <2>3
  <1>4. ASSUME NEW n \in Nat, n \in S PROVE n + 1 \in S
    <2>1. ASSUME n + 1 <= Len(entries) PROVE TakenFrom(f[n + 1], all, l + (n + 1))
      <3>1. n + 1 \in 1..Len(entries) /\ n + 1 - 1 = n /\ n <= Len(entries)
        BY <1>2, <2>1
      <3>2. /\ TakenFrom(f[n], all, l + n) /\ f[n + 1] = Listed(f[n], entries[n + 1])
            /\ entries[n + 1] = all[l + (n + 1)]
        BY <1>1, <1>2, <1>4, <3>1
      <3>3. l + n \in Nat /\ l + n < Len(all) /\ l + n + 1 = l + (n + 1)
        BY <1>2, <2>1
      <3> QED
        BY <1>2, <3>2, <3>3, RoundTakes
    <2> QED
      BY <2>1
  <1> HIDE DEF S
  <1>5. Len(entries) \in S
    BY <1>2, <1>3, <1>4, Induction
  <1> QED
    BY <1>1, <1>5 DEF S, all, l

LEMMA SameSeq ==
    ASSUME NEW a \in Seq(Orders), NEW b \in Seq(Orders), Len(a) = Len(b),
           \A i \in 1..Len(a) : a[i] = b[i]
    PROVE  a = b
  OBVIOUS

\* With room for all, and nothing twice, the loop only appends.
LEMMA MergedWhole ==
    ASSUME NEW start \in Seq(Orders), NEW entries \in Seq(Orders),
           IsInjective(start \o entries), Len(start \o entries) <= Keep
    PROVE  Merged(start, entries) = start \o entries
  <1> DEFINE all == start \o entries
             l == Len(start)
             Copied(list, n) == /\ list \in Seq(Orders) /\ Len(list) = l + n
                                /\ \A i \in 1..(l + n) : list[i] = all[i]
  <1>1. PICK f : /\ f[0] = start /\ Merged(start, entries) = f[Len(entries)]
                 /\ \A i \in 1..Len(entries) : f[i] = Listed(f[i - 1], entries[i])
    BY MergedRounds
  <1>2. /\ all \in Seq(Orders) /\ Len(all) = l + Len(entries) /\ l \in Nat /\ Len(entries) \in Nat
        /\ \A i \in 1..l : all[i] = start[i]
        /\ \A i \in 1..Len(entries) : all[l + i] = entries[i]
        /\ DOMAIN all = 1..(l + Len(entries)) /\ Keep \in Nat
    BY JoinFacts, StudioAssumption
  <1>3. \A i, j \in 1..(l + Len(entries)) : all[i] = all[j] => i = j
    BY <1>2 DEF IsInjective
  <1>4. l + Len(entries) <= Keep
    BY <1>2
  <1> HIDE DEF all, l
  <1> DEFINE S == {n \in Nat : n <= Len(entries) => Copied(f[n], n)}
  <1>5. 0 \in S
    <2>1. l + 0 = l /\ Len(start) = l
      BY <1>2 DEF l
    <2> QED
      BY <1>1, <1>2, <2>1
  <1>6. ASSUME NEW n \in Nat, n \in S PROVE n + 1 \in S
    <2>1. ASSUME n + 1 <= Len(entries) PROVE Copied(f[n + 1], n + 1)
      <3>1. n + 1 \in 1..Len(entries) /\ n + 1 - 1 = n /\ n <= Len(entries)
        BY <1>2, <2>1
      <3> DEFINE o == entries[n + 1]
                 list == f[n]
      <3>2. Copied(list, n) /\ f[n + 1] = Listed(list, o) /\ o = all[l + (n + 1)] /\ o \in Orders
        BY <1>1, <1>2, <1>6, <3>1
      <3> HIDE DEF list, o
      <3>3. DOMAIN list = 1..(l + n)
        BY <3>2, ListFacts
      <3>4. o \notin Range(list)
        <4>1. ASSUME NEW i \in 1..(l + n) PROVE list[i] # o
          <5>1. i \in 1..(l + Len(entries)) /\ l + (n + 1) \in 1..(l + Len(entries)) /\ i # l + (n + 1)
            BY <1>2, <3>1
          <5> QED
            BY <1>3, <3>2, <5>1
        <4> QED
          BY <3>3, <4>1 DEF Range
      <3>5. l + n # Keep
        BY <1>2, <1>4, <2>1
      <3>6. f[n + 1] = Append(list, o)
        BY <3>2, <3>4, <3>5 DEF Listed
      <3>7. /\ Append(list, o) \in Seq(Orders) /\ Len(Append(list, o)) = l + n + 1
            /\ \A i \in 1..(l + n) : Append(list, o)[i] = list[i]
            /\ Append(list, o)[l + n + 1] = o
        BY <1>2, <3>2
      <3>8. l + n + 1 = l + (n + 1) /\ \A i \in 1..(l + (n + 1)) : i \in 1..(l + n) \/ i = l + n + 1
        BY <1>2
      <3> QED
        BY <3>2, <3>6, <3>7, <3>8
    <2> QED
      BY <2>1
  <1> HIDE DEF S
  <1>7. Len(entries) \in S
    BY <1>2, <1>5, <1>6, Induction
  <1>8. Copied(Merged(start, entries), Len(entries))
    BY <1>1, <1>7 DEF S
  <1>9. Merged(start, entries) = all
    BY <1>2, <1>8, SameSeq
  <1> QED
    BY <1>9 DEF all
-----------------------------------------------------------------------------
(* Decisions.                                                              *)

Pages == {"loading", "listing", "listed", "ready", "broken", "unlisted"}

\* Clicks that are for an order; those the page itself still has to do with.
OnItsWay == {"posted", "orphan", "ok", "error", "polling"}
Followed == {"posted", "ok", "error", "polling"}

\* The types of what decisions depend on.
DecisionsTyped ==
    /\ gate \in [Orders -> Gates]
    /\ recorded \in [Orders -> Clicks \cup {None}]
    /\ page \in Pages /\ selected \in Orders \cup {None}
    /\ shown \subseteq Orders /\ sent \subseteq Orders
    /\ click \in [Clicks -> [run : Orders \cup {None},
                             at : {"unused", "posted", "orphan", "ok", "error", "polling", "done"}]]

\* A click aims at an order, and a gate that took one is over for good.
ClicksAim == \A c \in Clicks : click[c].at \in OnItsWay => click[c].run \in Orders
TakenIsOver == \A o \in Orders : recorded[o] # None => gate[o] = "over"
TakenIsMine == \A c \in Clicks : click[c].at \in {"ok", "polling"} => recorded[click[c].run] = c

\* A page that lists nothing has nothing selected, and one that never had anything
\* selected follows no click and says nothing.
FreshPage ==
    /\ runs = <<>> => selected = None
    /\ selected = None =>
          /\ sent = {} /\ feedback = Silent
          /\ \A c \in Clicks : click[c].at \notin Followed

\* What is asked for has not begun.
InboundUnborn == \A o \in Orders : o \in inbound => gate[o] = "unborn"

\* What may be said.
Fitting(said) ==
    /\ said \in [run : Orders \cup {None}, text : {"none", "sent", "error"}]
    /\ said.text = "sent" => said.run \in Orders /\ recorded[said.run] # None

SaysTheTruth == Fitting(feedback) /\ \A o \in sent : recorded[o] # None

SInv ==
    /\ DecisionsTyped
    /\ ClicksAim /\ TakenIsOver /\ TakenIsMine
    /\ InboundUnborn /\ FreshPage /\ SaysTheTruth

LEMMA SilentFits == Fitting(Silent)
  BY DEF Fitting, Silent

LEMMA RenderedFits ==
    ASSUME SInv, NEW run, NEW waiting, NEW left, Fitting(left)
    PROVE  Fitting(Rendered(run, waiting, left))
  <1>1. CASE run \in sent \cap waiting
    <2>1. run \in Orders /\ recorded[run] # None
      BY <1>1 DEF SInv, SaysTheTruth, DecisionsTyped
    <2> QED
      BY <1>1, <2>1 DEF Rendered, Fitting
  <1>2. CASE run \notin sent \cap waiting
    BY <1>2 DEF Rendered
  <1> QED
    BY <1>1, <1>2

LEMMA SaysFits ==
    ASSUME SInv, NEW c \in Clicks, NEW text \in {"error", "sent"},
           click[c].at \in OnItsWay, text = "sent" => recorded[click[c].run] # None
    PROVE  Fitting(Says(c, text))
  BY DEF SInv, SaysTheTruth, ClicksAim, Fitting, Says

LEMMA InitSInv == Init => SInv
  BY SilentFits DEF Init, SInv, DecisionsTyped, Pages, Gates, ClicksAim, TakenIsOver, TakenIsMine,
         InboundUnborn, FreshPage, SaysTheTruth, Unused, Silent, OnItsWay, Followed

\* Nothing changes of what decisions depend on, but how far init is, and which
\* orders are asked for.
LEMMA QuietInv ==
    ASSUME SInv, UNCHANGED <<orderVars, runs, selected, clickVars, feedback>>, page' \in Pages,
           shown' \subseteq shown, \A o \in inbound' : o \in inbound \/ gate[o] = "unborn"
    PROVE  SInv'
  BY DEF SInv, DecisionsTyped, ClicksAim, TakenIsOver, TakenIsMine, InboundUnborn, FreshPage,
         SaysTheTruth, Fitting, orderVars, clickVars

\* Orders go on.
LEMMA GateMovesInv ==
    ASSUME SInv, NEW o \in Orders, ServerStarts(o) \/ OrderMoves(o) PROVE SInv'
  <1>1. /\ UNCHANGED <<recorded, page, runs, selected, shown, clickVars, feedback>>
        /\ inbound' \subseteq inbound /\ gate[o] # "over"
        /\ \E g \in Gates : gate' = [gate EXCEPT ![o] = g]
        /\ o \notin inbound'
    <2>1. CASE ServerStarts(o)
      BY <2>1 DEF ServerStarts, SInv, InboundUnborn, listVars, loadVars, Gates
    <2>2. CASE OrderMoves(o)
      BY <2>2 DEF OrderMoves, SInv, InboundUnborn, listVars, loadVars, startVars, Gates
    <2> QED
      BY <2>1, <2>2
  <1>2. gate' \in [Orders -> Gates] /\ \A p \in Orders \ {o} : gate'[p] = gate[p]
    BY <1>1 DEF SInv, DecisionsTyped
  <1>3. DecisionsTyped' /\ ClicksAim' /\ TakenIsMine' /\ FreshPage' /\ SaysTheTruth'
    BY <1>1, <1>2
       DEF SInv, DecisionsTyped, ClicksAim, TakenIsMine, FreshPage, SaysTheTruth, Fitting, clickVars
  <1>4. TakenIsOver' /\ InboundUnborn'
    BY <1>1, <1>2 DEF SInv, TakenIsOver, InboundUnborn
  <1> QED
    BY <1>3, <1>4 DEF SInv

\* A run is selected or shown anew; what the page says from then on is true.
LEMMA SelectedInv ==
    ASSUME SInv, UNCHANGED <<orderVars, inbound, click, sent>>, page' \in Pages,
           shown' \subseteq Orders, Fitting(feedback'), selected' \in Orders \cup {None},
           runs' = <<>> => selected' = None,
           selected' = None => selected = None /\ feedback' = Silent
    PROVE  SInv'
  BY DEF SInv, DecisionsTyped, ClicksAim, TakenIsOver, TakenIsMine, InboundUnborn, FreshPage,
         SaysTheTruth, Fitting, orderVars

\* What a page says that has nothing selected.
LEMMA RenderedNothing ==
    ASSUME SInv, selected = None, NEW run, NEW waiting
    PROVE  Rendered(run, waiting, feedback) = Silent
  BY DEF Rendered, SInv, FreshPage

LEMMA PageStepInv ==
    ASSUME SInv, NEW o \in Orders, Refresh(o) \/ Select(o)
    PROVE  SInv'
  <1>1. runs # <<>> /\ UNCHANGED <<orderVars, inbound, click, sent, page, runs>> /\ page \in Pages
    BY DEF Refresh, Select, SInv, DecisionsTyped, listVars, loadVars, startVars, clickVars, Range
  <1>2. CASE Refresh(o)
    <2>1. Fitting(feedback') /\ selected' = selected
      BY <1>2, RenderedFits DEF Refresh, listVars, SInv, SaysTheTruth
    <2>2. shown' \subseteq Orders
      BY <1>2 DEF Refresh, SInv, DecisionsTyped
    <2>3. selected = None => feedback' = Silent
      BY <1>2, RenderedNothing DEF Refresh
    <2> QED
      BY <1>1, <2>1, <2>2, <2>3, SelectedInv DEF SInv, DecisionsTyped
  <1>3. CASE Select(o)
    <2>1. Fitting(feedback') /\ selected' = o /\ o # None
      BY <1>3, SilentFits, RenderedFits, StudioAssumption DEF Select
    <2> QED
      BY <1>1, <1>3, <2>1, SelectedInv DEF Select, SInv, DecisionsTyped
  <1> QED
    BY <1>2, <1>3

LEMMA StartedInv ==
    ASSUME SInv, NEW o \in Orders, Started(o), runs' # <<>>
    PROVE  SInv'
  <1>1. UNCHANGED <<orderVars, inbound, click, sent, page>> /\ selected' = o /\ o # None
    BY StudioAssumption DEF Started, loadVars, clickVars
  <1>2. Fitting(feedback') /\ shown' \subseteq Orders
    BY SilentFits, RenderedFits DEF Started, SInv, DecisionsTyped
  <1> QED
    BY <1>1, <1>2, SelectedInv DEF SInv, DecisionsTyped

LEMMA ListArrivesInv ==
    ASSUME SInv, ListArrives, Range(runs') \subseteq Orders, runs' = <<>> => runs = <<>>,
           runs' # <<>> => Range(runs') # {}
    PROVE  SInv'
  <1>1. /\ UNCHANGED <<orderVars, inbound, click, sent, shown>> /\ page' \in Pages
        /\ selected' \in Orders \cup {None} /\ feedback' = Rendered(selected', shown, feedback)
        /\ selected' = None => runs' = <<>>
        /\ runs' = <<>> => selected' = None
    BY StudioAssumption DEF ListArrives, startVars, clickVars, Pages
  <1>2. Fitting(feedback')
    BY <1>1, RenderedFits DEF SInv, SaysTheTruth
  <1>3. selected' = None => selected = None /\ feedback' = Silent
    BY <1>1, RenderedNothing DEF SInv, FreshPage
  <1> QED
    BY <1>1, <1>2, <1>3, SelectedInv DEF SInv, DecisionsTyped

LEMMA NoListInv ==
    ASSUME SInv, NoList PROVE SInv'
  <1>1. /\ UNCHANGED <<orderVars, inbound, click, sent, shown, runs, selected>> /\ page' \in Pages
        /\ feedback' = Rendered(selected, shown, feedback)
    BY DEF NoList, clickVars, Pages
  <1>2. Fitting(feedback')
    BY <1>1, RenderedFits DEF SInv, SaysTheTruth
  <1>3. selected = None => feedback' = Silent
    BY <1>1, RenderedNothing
  <1> QED
    BY <1>1, <1>2, <1>3, SelectedInv DEF SInv, DecisionsTyped, FreshPage

LEMMA ReloadInv == SInv /\ Reload => SInv'
  <1> SUFFICES ASSUME SInv, Reload PROVE SInv'
    OBVIOUS
  <1>1. /\ UNCHANGED <<orderVars, inbound>> /\ page' \in Pages /\ shown' = {}
        /\ selected' = None /\ sent' = {}
        /\ feedback' = Silent
        /\ click' = [c \in Clicks |-> IF click[c] = Unused THEN Unused ELSE Abandoned(c)]
    BY DEF Reload, Pages
  <1>2. ASSUME NEW c \in Clicks
        PROVE  /\ click'[c] \in [run : Orders \cup {None},
                      at : {"unused", "posted", "orphan", "ok", "error", "polling", "done"}]
               /\ click'[c].at \in {"unused", "orphan", "done"}
               /\ click'[c].at = "orphan" => click'[c].run \in Orders
    <2>1. CASE click[c] = Unused
      BY <1>1, <2>1 DEF Unused
    <2>2. CASE click[c] # Unused /\ click[c].at \in {"posted", "orphan"}
      <3>1. click'[c] = [run |-> click[c].run, at |-> "orphan"] /\ click[c].run \in Orders
        BY <1>1, <2>2 DEF Abandoned, SInv, DecisionsTyped, ClicksAim, OnItsWay
      <3> QED
        BY <3>1
    <2>3. CASE click[c] # Unused /\ click[c].at \notin {"posted", "orphan"}
      BY <1>1, <2>3 DEF Abandoned, Done
    <2> QED
      BY <2>1, <2>2, <2>3
  <1>3. DecisionsTyped'
    BY <1>1, <1>2 DEF SInv, DecisionsTyped, orderVars
  <1>4. ClicksAim' /\ TakenIsMine' /\ FreshPage'
    BY <1>1, <1>2 DEF ClicksAim, TakenIsMine, FreshPage, OnItsWay, Followed
  <1>5. TakenIsOver' /\ InboundUnborn' /\ SaysTheTruth'
    BY <1>1, SilentFits DEF SInv, TakenIsOver, InboundUnborn, SaysTheTruth, Fitting, orderVars
  <1> QED
    BY <1>3, <1>4, <1>5 DEF SInv

\* One click goes on, while its page follows it.
LEMMA ClickGoesOnInv ==
    ASSUME SInv, NEW c \in Clicks, selected # None, NEW o \in Orders \cup {None},
           NEW at \in {"posted", "orphan", "ok", "error", "polling", "done"},
           click' = [click EXCEPT ![c] = [run |-> o, at |-> at]],
           at # "done" => o \in Orders, at \in {"ok", "polling"} => recorded[o] = c,
           UNCHANGED <<orderVars, inbound, page, runs, selected, shown>>,
           sent' \subseteq Orders, \A p \in sent' : recorded[p] # None,
           Fitting(feedback')
    PROVE  SInv'
  <1>1. /\ click' \in [Clicks -> [run : Orders \cup {None},
                     at : {"unused", "posted", "orphan", "ok", "error", "polling", "done"}]]
        /\ click'[c] = [run |-> o, at |-> at]
        /\ \A d \in Clicks \ {c} : click'[d] = click[d]
    BY DEF SInv, DecisionsTyped
  <1>2. ClicksAim' /\ TakenIsMine'
    BY <1>1 DEF SInv, ClicksAim, TakenIsMine, OnItsWay, orderVars
  <1>3. DecisionsTyped' /\ FreshPage'
    BY <1>1 DEF SInv, DecisionsTyped, FreshPage, orderVars
  <1>4. TakenIsOver' /\ InboundUnborn' /\ SaysTheTruth'
    BY DEF SInv, TakenIsOver, InboundUnborn, SaysTheTruth, Fitting, orderVars
  <1> QED
    BY <1>2, <1>3, <1>4 DEF SInv

LEMMA ClickShape ==
    ASSUME SInv, NEW c \in Clicks, click[c].at \in OnItsWay
    PROVE  /\ click[c] = [run |-> click[c].run, at |-> click[c].at] /\ click[c].run \in Orders
           /\ click[c].at \in Followed => selected # None
  BY DEF SInv, DecisionsTyped, ClicksAim, FreshPage, Followed

LEMMA FollowedInv ==
    ASSUME SInv, NEW c \in Clicks, Decide(c) \/ Answered(c)
    PROVE  SInv'
  <1>1. CASE Decide(c)
    <2>1. /\ selected \in Orders /\ selected # None
          /\ click' = [click EXCEPT ![c] = [run |-> selected, at |-> "posted"]]
      BY <1>1, StudioAssumption DEF Decide, SInv, DecisionsTyped
    <2>2. /\ UNCHANGED <<orderVars, inbound, page, runs, selected, shown, sent>>
          /\ Fitting(feedback')
      BY <1>1, SilentFits DEF Decide, startVars, listVars, loadVars
    <2> QED
      BY <2>1, <2>2, ClickGoesOnInv DEF SInv, DecisionsTyped, SaysTheTruth
  <1>2. CASE DecisionSent(c)
    <2>1. /\ click[c].at = "ok" /\ sent' = sent \cup {click[c].run} /\ feedback' = Says(c, "sent")
          /\ UNCHANGED <<orderVars, inbound, page, runs, selected, shown>>
          /\ click' = [click EXCEPT ![c].at = "polling"]
      BY <1>2 DEF DecisionSent, startVars, listVars, loadVars
    <2>2. /\ click[c] = [run |-> click[c].run, at |-> "ok"] /\ click[c].run \in Orders
          /\ selected # None /\ recorded[click[c].run] = c /\ c # None
      BY <2>1, ClickShape, StudioAssumption DEF OnItsWay, Followed, SInv, TakenIsMine
    <2>3. click' = [click EXCEPT ![c] = [run |-> click[c].run, at |-> "polling"]]
      <3>1. [click[c] EXCEPT !.at = "polling"] = [run |-> click[c].run, at |-> "polling"]
        BY <2>2
      <3> QED
        BY <2>1, <3>1
    <2>4. Fitting(feedback')
      BY <2>1, <2>2, SaysFits DEF OnItsWay
    <2>5. sent' \subseteq Orders /\ \A p \in sent' : recorded[p] # None
      BY <2>1, <2>2 DEF SInv, DecisionsTyped, SaysTheTruth
    <2> QED
      BY <2>1, <2>2, <2>3, <2>4, <2>5, ClickGoesOnInv
  <1>3. CASE DecisionPolled(c)
    <2>1. /\ click[c].at = "polling" /\ feedback' = Rendered(selected, shown, feedback)
          /\ UNCHANGED <<orderVars, inbound, page, runs, selected, shown, sent>>
          /\ click' = [click EXCEPT ![c] = [run |-> None, at |-> "done"]]
      BY <1>3 DEF DecisionPolled, startVars, listVars, loadVars, Done
    <2>2. selected # None /\ Fitting(feedback')
      BY <2>1, ClickShape, RenderedFits DEF OnItsWay, Followed, SInv, SaysTheTruth
    <2> QED
      BY <2>1, <2>2, ClickGoesOnInv DEF SInv, DecisionsTyped, SaysTheTruth
  <1>4. CASE DecisionFails(c)
    <2>1. /\ click[c].at \in {"posted", "ok", "error"} /\ click' = [click EXCEPT ![c] = Abandoned(c)]
          /\ UNCHANGED <<orderVars, inbound, page, runs, selected, shown, sent>>
          /\ feedback' = Rendered(selected, shown, Says(c, "error"))
      BY <1>4 DEF DecisionFails, startVars, listVars, loadVars
    <2>2. /\ click[c] = [run |-> click[c].run, at |-> click[c].at] /\ click[c].run \in Orders
          /\ selected # None
      BY <2>1, ClickShape DEF OnItsWay, Followed
    <2>3. Fitting(feedback')
      BY <2>1, SaysFits, RenderedFits DEF OnItsWay
    <2>4. CASE click[c].at = "posted"
      <3>1. click' = [click EXCEPT ![c] = [run |-> click[c].run, at |-> "orphan"]]
        <4>1. [click[c] EXCEPT !.at = "orphan"] = [run |-> click[c].run, at |-> "orphan"]
          BY <2>2
        <4> QED
          BY <2>1, <2>4, <4>1 DEF Abandoned
      <3> QED
        BY <2>1, <2>2, <2>3, <3>1, ClickGoesOnInv DEF SInv, DecisionsTyped, SaysTheTruth
    <2>5. CASE click[c].at # "posted"
      <3>1. click' = [click EXCEPT ![c] = [run |-> None, at |-> "done"]]
        BY <2>1, <2>5 DEF Abandoned, Done
      <3> QED
        BY <2>1, <2>2, <2>3, <3>1, ClickGoesOnInv DEF SInv, DecisionsTyped, SaysTheTruth
    <2> QED
      BY <2>4, <2>5
  <1> QED
    BY <1>1, <1>2, <1>3, <1>4 DEF Answered

LEMMA ServerDecidesInv ==
    ASSUME SInv, NEW c \in Clicks, ServerDecides(c)
    PROVE  SInv'
  <1> DEFINE o == click[c].run
  <1>1. /\ click[c].at \in {"posted", "orphan"} /\ o \in Orders
        /\ click[c] = [run |-> o, at |-> click[c].at] /\ c # None
        /\ click[c].at = "posted" => selected # None
    BY ClickShape, StudioAssumption DEF ServerDecides, OnItsWay, Followed
  <1>2. /\ UNCHANGED <<inbound, page, runs, selected, shown, sent, feedback>>
        /\ \/ /\ gate[o] = "open" /\ recorded' = [recorded EXCEPT ![o] = c]
              /\ gate' = [gate EXCEPT ![o] = "over"] /\ Outcome(c, "ok")
           \/ UNCHANGED orderVars /\ Outcome(c, "error")
    BY DEF ServerDecides, startVars, listVars, loadVars
  <1>3. /\ recorded' \in [Orders -> Clicks \cup {None}] /\ gate' \in [Orders -> Gates]
        /\ \A p \in Orders : recorded[p] # None => recorded'[p] = recorded[p]
        /\ \A p \in Orders : gate'[p] = gate[p] \/ (p = o /\ gate[o] = "open" /\ gate'[o] = "over")
        /\ \A p \in Orders : recorded'[p] = recorded[p] \/ (p = o /\ gate'[o] = "over")
    <2>1. CASE /\ gate[o] = "open" /\ recorded' = [recorded EXCEPT ![o] = c]
               /\ gate' = [gate EXCEPT ![o] = "over"]
      <3>1. recorded \in [Orders -> Clicks \cup {None}] /\ gate \in [Orders -> Gates]
        BY DEF SInv, DecisionsTyped
      <3>2. recorded[o] = None
        BY <1>1, <2>1 DEF SInv, TakenIsOver
      <3> QED
        BY <1>1, <2>1, <3>1, <3>2 DEF Gates
    <2>2. CASE UNCHANGED orderVars
      <3>1. gate' = gate /\ recorded' = recorded
        BY <2>2 DEF orderVars
      <3>2. recorded \in [Orders -> Clicks \cup {None}] /\ gate \in [Orders -> Gates]
        BY DEF SInv, DecisionsTyped
      <3> QED
        BY <3>1, <3>2
    <2> QED
      BY <1>2, <2>1, <2>2
  <1>4. /\ click' \in [Clicks -> [run : Orders \cup {None},
                     at : {"unused", "posted", "orphan", "ok", "error", "polling", "done"}]]
        /\ \A d \in Clicks \ {c} : click'[d] = click[d]
        /\ click'[c].at \in {"ok", "error", "done"} /\ (click'[c].at # "done" => selected # None)
        /\ click'[c].at # "done" => click'[c].run = o
        /\ click'[c].at = "ok" => recorded'[o] = c
    <2>1. ASSUME NEW result \in {"ok", "error"}, Outcome(c, result)
          PROVE  click' = [click EXCEPT ![c] = IF click[c].at = "posted" THEN [run |-> o, at |-> result]
                                              ELSE [run |-> None, at |-> "done"]]
      <3>1. [click[c] EXCEPT !.at = result] = [run |-> o, at |-> result]
        BY <1>1
      <3> QED
        BY <2>1, <3>1 DEF Outcome, Done
    <2>2. CASE Outcome(c, "ok") /\ recorded' = [recorded EXCEPT ![o] = c]
      BY <1>1, <2>1, <2>2 DEF SInv, DecisionsTyped
    <2>3. CASE Outcome(c, "error")
      BY <1>1, <2>1, <2>3 DEF SInv, DecisionsTyped
    <2> QED
      BY <1>2, <2>2, <2>3
  <1>5. DecisionsTyped'
    BY <1>2, <1>3, <1>4 DEF SInv, DecisionsTyped
  <1>6. ClicksAim'
    BY <1>1, <1>4 DEF SInv, ClicksAim, OnItsWay
  <1>7. TakenIsMine'
    <2> SUFFICES ASSUME NEW d \in Clicks, click'[d].at \in {"ok", "polling"}
                 PROVE  recorded'[click'[d].run] = d
      BY DEF TakenIsMine
    <2>1. CASE d = c
      BY <1>4, <2>1
    <2>2. CASE d # c
      <3>1. click'[d] = click[d] /\ recorded[click[d].run] = d /\ click[d].run \in Orders /\ d # None
        BY <1>4, <2>2, StudioAssumption DEF SInv, TakenIsMine, ClicksAim, OnItsWay
      <3> QED
        BY <1>3, <3>1
    <2> QED
      BY <2>1, <2>2
  <1>8. TakenIsOver' /\ InboundUnborn'
    BY <1>2, <1>3 DEF SInv, TakenIsOver, InboundUnborn
  <1>9. FreshPage'
    BY <1>2, <1>4 DEF SInv, FreshPage, Followed
  <1>10. SaysTheTruth'
    BY <1>2, <1>3 DEF SInv, DecisionsTyped, SaysTheTruth, Fitting
  <1> QED
    BY <1>5, <1>6, <1>7, <1>8, <1>9, <1>10 DEF SInv

-----------------------------------------------------------------------------
(* The run lists.                                                          *)

\* Runs the server has started, each once.
Drawn(list) ==
    /\ list \in Seq(Orders) /\ Len(list) <= Keep /\ IsInjective(list)
    /\ Range(list) \subseteq Range(born)

\* An order is born when it leaves "unborn", and once.
BornOnce ==
    /\ born \in Seq(Orders) /\ IsInjective(born)
    /\ \A o \in Orders : o \in Range(born) <=> gate[o] # "unborn"

\* The server's list is the end of what it has started, backwards.
ServerIsTail ==
    /\ server \in Seq(Orders) /\ Len(server) <= Keep /\ Len(server) <= Len(born)
    /\ \A i \in DOMAIN server : server[i] = born[Len(born) + 1 - i]

\* What the server answered init with leaves out, of the runs that init had read from
\* the storage, only older ones.
ListedFits ==
    /\ NewestFirst(listed)
    /\ \A o \in Range(stored) \ Range(listed), p \in Range(listed) : Younger(p, o)
    /\ page \in {"loading", "listing"} => listed = <<>>

\* What a ready page lists is what it has stored.
PageIsSaved == page = "ready" => runs = store

\* Until its list is there, a page that was not asked for an order early lists nothing,
\* awaits no order, and has read what is still stored.
NothingYet ==
    ~early /\ page # "ready" =>
        /\ runs = <<>> /\ starting = None
        /\ page \in {"listing", "listed"} => stored = store

\* The order that a ready page was asked for is younger than all that it lists.
StartsNewest ==
    ~early /\ starting # None /\ gate[starting] # "unborn" =>
        \A p \in Range(runs) : Younger(starting, p)

PageTyped ==
    /\ starting \in Orders \cup {None} /\ inbound \subseteq Orders
    /\ loading \in BOOLEAN /\ disabled \in BOOLEAN /\ early \in BOOLEAN
    /\ busy \in BOOLEAN
    /\ reloads \in 0..MaxReloads /\ restarts \in 0..MaxRestarts

ListInv ==
    /\ BornOnce /\ ServerIsTail
    /\ Drawn(runs) /\ Drawn(store) /\ Drawn(stored) /\ Drawn(listed)
    /\ ListedFits /\ PageIsSaved /\ NothingYet /\ StartsNewest

LInv == SInv /\ PageTyped /\ ListInv

LEMMA EmptyList ==
    Drawn(<<>>) /\ NewestFirst(<<>>) /\ Range(<<>>) = {}
  <1>1. <<>> \in Seq(Orders) /\ Len(<<>>) = 0 /\ DOMAIN <<>> = {}
    OBVIOUS
  <1>2. Range(<<>>) = {}
    BY <1>1 DEF Range
  <1> QED
    BY <1>1, <1>2, StudioAssumption DEF Drawn, NewestFirst, IsInjective

LEMMA NobodyIsYounger == BornOnce => \A o : ~Younger(o, o)
  BY ListFacts DEF BornOnce, Younger, IsInjective

\* Nothing stands twice in what init's loop makes, and nothing new.
LEMMA MergedDrawn ==
    ASSUME NEW start, NEW entries \in Seq(Orders), Drawn(start), Range(entries) \subseteq Range(born)
    PROVE  /\ Drawn(Merged(start, entries))
           /\ start # <<>> => Merged(start, entries) # <<>>
           /\ \A o \in Range(start) \cup Range(entries) :
                 o \notin Range(Merged(start, entries)) => Len(Merged(start, entries)) = Keep
  <1> DEFINE list == Merged(start, entries)
             all == start \o entries
             n == Len(start) + Len(entries)
  <1>1. start \in Seq(Orders) /\ IsInjective(start) /\ Len(start) <= Keep /\ Keep \in Nat \ {0}
    BY StudioAssumption DEF Drawn
  <1>2. TakenFrom(list, all, n)
    BY <1>1, MergedTakes
  <1>3. /\ Len(start) \in Nat /\ Len(entries) \in Nat
        /\ \A i \in 1..Len(start) : all[i] = start[i]
        /\ \A i \in 1..Len(entries) : all[Len(start) + i] = entries[i]
        /\ DOMAIN start = 1..Len(start) /\ DOMAIN entries = 1..Len(entries)
    BY <1>1, JoinFacts, ListFacts
  <1> HIDE DEF list, all
  <1>4. list \in Seq(Orders) /\ Len(list) <= Keep /\ DOMAIN list = 1..Len(list) /\ Len(list) \in Nat
    BY <1>2, ListFacts DEF TakenFrom
  <1>5. \A p : ~Ahead(all, n, p, p)
    <2> SUFFICES ASSUME NEW p, Ahead(all, n, p, p) PROVE FALSE
      OBVIOUS
    <2>1. PICK k \in 1..n : all[k] = p /\ \A m \in 1..k : all[m] # p
      BY DEF Ahead
    <2> QED
      BY <1>3, <2>1
  <1>6. IsInjective(list)
    <2> SUFFICES ASSUME NEW i \in 1..Len(list), NEW j \in 1..Len(list), list[i] = list[j]
                 PROVE  i = j
      BY <1>4 DEF IsInjective
    <2>1. ~(i < j) /\ ~(j < i)
      BY <1>2, <1>4, <1>5 DEF TakenFrom
    <2> QED
      BY <1>4, <2>1
  <1>7. \A k \in 1..n : all[k] \in Range(born)
    <2> SUFFICES ASSUME NEW k \in 1..n PROVE all[k] \in Range(born)
      OBVIOUS
    <2>1. CASE k \in 1..Len(start)
      BY <1>3, <2>1 DEF Drawn, Range
    <2>2. CASE k \notin 1..Len(start)
      <3>1. k - Len(start) \in 1..Len(entries) /\ Len(start) + (k - Len(start)) = k
        BY <1>3, <2>2
      <3> QED
        BY <1>3, <3>1 DEF Range
    <2> QED
      BY <2>1, <2>2
  <1>8. Range(list) \subseteq Range(born)
    BY <1>2, <1>7 DEF TakenFrom, Range
  <1>9. \A o \in Range(start) \cup Range(entries) : \E k \in 1..n : all[k] = o
    <2>1. \A o \in Range(start) : \E k \in 1..n : all[k] = o
      BY <1>3 DEF Range
    <2>2. ASSUME NEW o \in Range(entries) PROVE \E k \in 1..n : all[k] = o
      <3>1. PICK i \in 1..Len(entries) : entries[i] = o
        BY <1>3 DEF Range
      <3>2. Len(start) + i \in 1..n
        BY <1>3
      <3> QED
        BY <1>3, <3>1, <3>2
    <2> QED
      BY <2>1, <2>2
  <1>10. \A o \in Range(start) \cup Range(entries) : o \notin Range(list) => Len(list) = Keep
    BY <1>2, <1>9 DEF TakenFrom
  <1>11. start # <<>> => list # <<>>
    <2>1. ASSUME start # <<>>, list = <<>> PROVE FALSE
      <3>1. Len(start) # 0
        BY <1>1, <2>1
      <3>2. 1 \in DOMAIN start
        BY <1>3, <3>1
      <3>3. start[1] \in Range(start) /\ Range(list) = {} /\ Len(list) = 0
        BY <2>1, <3>2, EmptyList DEF Range
      <3> QED
        BY <1>1, <1>10, <3>3
    <2> QED
      BY <2>1
  <1> QED
    BY <1>4, <1>6, <1>8, <1>10, <1>11 DEF Drawn, list

\* What init is given: the server's runs, then the stored ones.
LEMMA EntriesDrawn ==
    ASSUME Drawn(listed), Drawn(stored)
    PROVE  /\ listed \o stored \in Seq(Orders)
           /\ Range(listed \o stored) = Range(listed) \cup Range(stored)
  <1>1. listed \in Seq(Orders) /\ stored \in Seq(Orders)
    BY DEF Drawn
  <1>2. /\ listed \o stored \in Seq(Orders) /\ Len(listed) \in Nat /\ Len(stored) \in Nat
        /\ DOMAIN (listed \o stored) = 1..(Len(listed) + Len(stored))
        /\ \A i \in 1..Len(listed) : (listed \o stored)[i] = listed[i]
        /\ \A i \in 1..Len(stored) : (listed \o stored)[Len(listed) + i] = stored[i]
        /\ DOMAIN listed = 1..Len(listed) /\ DOMAIN stored = 1..Len(stored)
    BY <1>1, JoinFacts, ListFacts
  <1> DEFINE all == listed \o stored
  <1> HIDE DEF all
  <1>3. ASSUME NEW k \in DOMAIN all PROVE all[k] \in Range(listed) \cup Range(stored)
    <2>1. CASE k \in 1..Len(listed)
      BY <1>2, <2>1 DEF all, Range
    <2>2. CASE k \notin 1..Len(listed)
      <3>1. k - Len(listed) \in 1..Len(stored) /\ Len(listed) + (k - Len(listed)) = k
        BY <1>2, <2>2 DEF all
      <3> QED
        BY <1>2, <3>1 DEF all, Range
    <2> QED
      BY <2>1, <2>2
  <1>4. ASSUME NEW o \in Range(listed) \cup Range(stored) PROVE o \in Range(all)
    <2>1. CASE o \in Range(listed)
      <3>1. PICK i \in 1..Len(listed) : listed[i] = o
        BY <1>2, <2>1 DEF Range
      <3>2. i \in DOMAIN all /\ all[i] = o
        BY <1>2, <3>1 DEF all
      <3> QED
        BY <3>2 DEF Range
    <2>2. CASE o \in Range(stored)
      <3>1. PICK i \in 1..Len(stored) : stored[i] = o
        BY <1>2, <2>2 DEF Range
      <3>2. Len(listed) + i \in DOMAIN all /\ all[Len(listed) + i] = o
        BY <1>2, <3>1 DEF all
      <3> QED
        BY <3>2 DEF Range
    <2> QED
      BY <2>1, <2>2
  <1>5. Range(all) = Range(listed) \cup Range(stored)
    BY <1>3, <1>4 DEF Range
  <1> QED
    BY <1>2, <1>5 DEF all

\* A run that comes ahead in what init is given is the younger one.
LEMMA AheadIsYounger ==
    ASSUME Drawn(listed), Drawn(stored), ListedFits, NewestFirst(stored),
           NEW p, NEW o \in Range(listed) \cup Range(stored),
           Ahead(listed \o stored, Len(listed) + Len(stored), p, o)
    PROVE  Younger(p, o)
  <1> DEFINE entries == listed \o stored
             s == Len(listed)
             t == Len(stored)
  <1>1. /\ s \in Nat /\ t \in Nat /\ DOMAIN listed = 1..s /\ DOMAIN stored = 1..t
        /\ \A i \in 1..s : entries[i] = listed[i]
        /\ \A i \in 1..t : entries[s + i] = stored[i]
    BY JoinFacts, ListFacts DEF Drawn
  <1>2. PICK k \in 1..(s + t) : entries[k] = p /\ \A m \in 1..k : entries[m] # o
    BY DEF Ahead
  <1> HIDE DEF entries, s, t
  <1>3. CASE k \in 1..s /\ o \in Range(listed)
    <2>1. PICK m \in 1..s : listed[m] = o
      BY <1>1, <1>3 DEF Range
    <2>2. k < m
      BY <1>1, <1>2, <1>3, <2>1
    <2> QED
      BY <1>1, <1>2, <1>3, <2>1, <2>2 DEF ListedFits, NewestFirst
  <1>4. CASE k \in 1..s /\ o \notin Range(listed)
    <2>1. p \in Range(listed)
      BY <1>1, <1>2, <1>4 DEF Range
    <2> QED
      BY <1>4, <2>1 DEF ListedFits
  <1>5. CASE k \notin 1..s
    <2>1. k - s \in 1..t /\ s + (k - s) = k
      BY <1>1, <1>2, <1>5
    <2>2. o \notin Range(listed)
      <3>1. \A m \in 1..s : m \in 1..k
        BY <1>1, <1>2, <1>5
      <3> QED
        BY <1>1, <1>2, <3>1 DEF Range
    <2>3. PICK m \in 1..t : stored[m] = o
      BY <1>1, <2>2 DEF Range
    <2>4. s + m \in Nat /\ entries[s + m] = o /\ stored[k - s] = p
      BY <1>1, <1>2, <2>1, <2>3
    <2>5. k - s < m
      BY <1>1, <1>2, <2>1, <2>3, <2>4
    <2> QED
      BY <1>1, <2>1, <2>3, <2>4, <2>5 DEF NewestFirst
  <1> QED
    BY <1>3, <1>4, <1>5

\* What init makes of both lists, on a page without runs, has the newest in front, and
\* leaves out only older ones.
LEMMA MergeKeepsOrder ==
    ASSUME Drawn(listed), Drawn(stored), ListedFits, NewestFirst(stored), runs = <<>>
    PROVE  /\ NewestFirst(MergedRuns)
           /\ \A o \in Range(stored) : o \notin Range(MergedRuns) =>
                 /\ Len(MergedRuns) = Keep
                 /\ \A p \in Range(MergedRuns) : Younger(p, o)
  <1> DEFINE entries == listed \o stored
             n == Len(listed) + Len(stored)
             list == MergedRuns
  <1>1. /\ entries \in Seq(Orders) /\ Len(entries) = n /\ DOMAIN entries = 1..n /\ n \in Nat
        /\ Range(entries) = Range(listed) \cup Range(stored)
    BY EntriesDrawn, JoinFacts DEF Drawn
  <1>2. TakenFrom(list, entries, n)
    <2>1. <<>> \o entries = entries /\ Len(<<>>) = 0 /\ <<>> \in Seq(Orders)
      BY <1>1
    <2>2. IsInjective(<<>>) /\ Len(<<>>) <= Keep
      BY EmptyList DEF Drawn
    <2>3. TakenFrom(Merged(<<>>, entries), <<>> \o entries, Len(<<>>) + Len(entries))
      BY <1>1, <2>1, <2>2, MergedTakes
    <2>4. Len(<<>>) + Len(entries) = n
      BY <1>1, <2>1
    <2> QED
      BY <2>1, <2>3, <2>4 DEF MergedRuns
  <1>3. \A p, o : o \in Range(entries) /\ Ahead(entries, n, p, o) => Younger(p, o)
    BY <1>1, AheadIsYounger
  <1> HIDE DEF list, entries, n
  <1>4. list \in Seq(Orders) /\ DOMAIN list = 1..Len(list) /\ Len(list) \in Nat
    BY <1>2, ListFacts DEF TakenFrom
  <1>5. \A i \in DOMAIN list : list[i] \in Range(entries)
    BY <1>1, <1>2 DEF TakenFrom, Range
  <1>6. NewestFirst(list)
    BY <1>2, <1>3, <1>5 DEF TakenFrom, NewestFirst
  <1>7. ASSUME NEW o \in Range(stored), o \notin Range(list)
        PROVE  Len(list) = Keep /\ \A p \in Range(list) : Younger(p, o)
    <2>1. PICK k \in 1..n : entries[k] = o
      BY <1>1 DEF Range
    <2>2. Len(list) = Keep /\ \A i \in DOMAIN list : Ahead(entries, n, list[i], o)
      BY <1>2, <1>7, <2>1 DEF TakenFrom
    <2>3. \A i \in DOMAIN list : Younger(list[i], o)
      BY <1>1, <1>3, <2>2
    <2> QED
      BY <2>2, <2>3 DEF Range
  <1> QED
    BY <1>6, <1>7 DEF list
LEMMA InitLInv == Init => LInv
  <1> SUFFICES ASSUME Init PROVE LInv
    OBVIOUS
  <1>1. <<>> \in Seq(Orders) /\ Len(<<>>) = 0 /\ DOMAIN <<>> = {} /\ Range(<<>>) = {}
    BY EmptyList
  <1>2. BornOnce /\ ServerIsTail
    BY <1>1, StudioAssumption DEF Init, BornOnce, ServerIsTail, IsInjective
  <1>3. Drawn(runs) /\ Drawn(store) /\ Drawn(stored) /\ Drawn(listed)
    BY EmptyList DEF Init
  <1>4. ListedFits /\ PageIsSaved /\ NothingYet /\ StartsNewest
    BY EmptyList DEF Init, ListedFits, PageIsSaved, NothingYet, StartsNewest
  <1>5. PageTyped
    <2>1. 0 \in 0..MaxReloads /\ 0 \in 0..MaxRestarts
      BY StudioAssumption
    <2> QED
      BY <2>1 DEF Init, PageTyped
  <1> QED
    BY <1>2, <1>3, <1>4, <1>5, InitSInv DEF LInv, ListInv

\* As long as nothing is born, what is born stays so and in its order.
LEMMA SameBirths ==
    ASSUME LInv, UNCHANGED born, \A o \in Orders : gate'[o] = "unborn" <=> gate[o] = "unborn",
           server' = server \/ server' = <<>>
    PROVE  BornOnce' /\ ServerIsTail' /\ \A p, q : Younger(p, q)' <=> Younger(p, q)
  <1>1. \A p, q : Younger(p, q)' <=> Younger(p, q)
    BY DEF Younger
  <1>2. BornOnce'
    BY DEF LInv, ListInv, BornOnce
  <1>3. CASE server' = server
    BY <1>1, <1>2, <1>3 DEF LInv, ListInv, ServerIsTail
  <1>4. CASE server' = <<>>
    <2>1. <<>> \in Seq(Orders) /\ Len(<<>>) = 0 /\ DOMAIN <<>> = {} /\ Len(born) \in Nat /\ Keep \in Nat
      BY StudioAssumption DEF LInv, ListInv, BornOnce
    <2>2. ServerIsTail'
      BY <1>4, <2>1 DEF ServerIsTail
    <2> QED
      BY <1>1, <1>2, <2>2
  <1> QED
    BY <1>3, <1>4

\* The page lets its lists be, whatever becomes of the decisions.
LEMMA QuietLists ==
    ASSUME LInv, UNCHANGED <<born, loadVars, runs, store, early>>,
           \A o \in Orders : gate'[o] = "unborn" <=> gate[o] = "unborn",
           server' = server \/ server' = <<>>,
           starting' = starting \/ starting' = None
    PROVE  ListInv'
  <1>1. BornOnce' /\ ServerIsTail' /\ \A p, q : Younger(p, q)' <=> Younger(p, q)
    BY SameBirths
  <1>2. UNCHANGED <<born, page, stored, listed, runs, store, early>>
    BY DEF loadVars
  <1>3. Drawn(runs)' /\ Drawn(store)' /\ Drawn(stored)' /\ Drawn(listed)'
    BY <1>2 DEF LInv, ListInv, Drawn
  <1>4. ListedFits'
    BY <1>1, <1>2 DEF LInv, ListInv, ListedFits, NewestFirst
  <1>5. PageIsSaved' /\ NothingYet'
    BY <1>2 DEF LInv, ListInv, PageIsSaved, NothingYet
  <1>6. StartsNewest'
    <2>1. CASE starting' = None
      BY <2>1 DEF StartsNewest
    <2>2. CASE starting' = starting
      BY <1>1, <1>2, <2>2 DEF LInv, ListInv, StartsNewest, PageTyped
    <2> QED
      BY <2>1, <2>2
  <1> QED
    BY <1>1, <1>3, <1>4, <1>5, <1>6 DEF ListInv

\* The page moves on with lists that it has; it selects, asks for or shows no order.
LEMMA PageMovesLists ==
    ASSUME LInv, UNCHANGED <<born, gate, server, store>>,
           \/ MetaArrives \/ MetaFails \/ ListFails \/ Reload \/ \E o \in Orders : StartOrder(o)
    PROVE  ListInv'
  <1>1. BornOnce' /\ ServerIsTail' /\ \A p, q : Younger(p, q)' <=> Younger(p, q)
    BY SameBirths
  <1>2. CASE MetaArrives
    <2>1. /\ page = "loading" /\ page' = "listing" /\ stored' = store
          /\ UNCHANGED <<runs, listed, early, starting>> /\ listed = <<>>
      BY <1>2 DEF MetaArrives, listVars, startVars, formVars, LInv, ListInv, ListedFits
    <2>2. Drawn(runs)' /\ Drawn(store)' /\ Drawn(stored)' /\ Drawn(listed)'
      BY <2>1 DEF LInv, ListInv, Drawn
    <2>3. ListedFits'
      BY <1>1, <2>1, EmptyList DEF LInv, ListInv, ListedFits, NewestFirst
    <2>4. PageIsSaved' /\ NothingYet' /\ StartsNewest'
      BY <1>1, <2>1 DEF LInv, ListInv, PageIsSaved, NothingYet, StartsNewest
    <2> QED
      BY <1>1, <2>2, <2>3, <2>4 DEF ListInv
  <1>3. CASE MetaFails \/ ListFails
    <2>1. /\ page' \in {"broken", "unlisted"} /\ page # "ready"
          /\ UNCHANGED <<runs, early, starting>>
          /\ UNCHANGED <<stored, listed>> \/ (stored' = <<>> /\ listed' = <<>>)
      BY <1>3 DEF MetaFails, ListFails, NoList, listVars
    <2>2. Drawn(runs)' /\ Drawn(store)' /\ Drawn(stored)' /\ Drawn(listed)'
      BY <2>1, EmptyList DEF LInv, ListInv, Drawn
    <2>3. ListedFits'
      BY <1>1, <2>1, EmptyList DEF LInv, ListInv, ListedFits, NewestFirst
    <2>4. PageIsSaved' /\ NothingYet' /\ StartsNewest'
      BY <1>1, <2>1 DEF LInv, ListInv, PageIsSaved, NothingYet, StartsNewest
    <2> QED
      BY <1>1, <2>2, <2>3, <2>4 DEF ListInv
  <1>4. CASE Reload
    <2>1. /\ page' = "loading" /\ runs' = <<>> /\ stored' = <<>> /\ listed' = <<>>
          /\ starting' = None
      BY <1>4 DEF Reload
    <2>2. Drawn(runs)' /\ Drawn(store)' /\ Drawn(stored)' /\ Drawn(listed)'
      BY <2>1, EmptyList DEF LInv, ListInv, Drawn
    <2>3. ListedFits'
      BY <2>1, EmptyList DEF ListedFits, NewestFirst
    <2>4. PageIsSaved' /\ NothingYet' /\ StartsNewest'
      BY <2>1 DEF PageIsSaved, NothingYet, StartsNewest
    <2> QED
      BY <1>1, <2>2, <2>3, <2>4 DEF ListInv
  <1>5. ASSUME NEW o \in Orders, StartOrder(o) PROVE ListInv'
    <2>1. /\ UNCHANGED <<page, stored, listed, runs>> /\ starting' = o /\ gate'[o] = "unborn"
          /\ early' = (page # "ready")
      BY <1>5 DEF StartOrder, loadVars, listVars
    <2>2. Drawn(runs)' /\ Drawn(store)' /\ Drawn(stored)' /\ Drawn(listed)'
      BY <2>1 DEF LInv, ListInv, Drawn
    <2>3. ListedFits'
      BY <1>1, <2>1 DEF LInv, ListInv, ListedFits, NewestFirst
    <2>4. PageIsSaved' /\ NothingYet' /\ StartsNewest'
      BY <2>1 DEF LInv, ListInv, PageIsSaved, NothingYet, StartsNewest
    <2> QED
      BY <1>1, <2>2, <2>3, <2>4 DEF ListInv
  <1> QED
    BY <1>2, <1>3, <1>4, <1>5

LEMMA TailFacts ==
    ASSUME BornOnce, ServerIsTail, NEW i \in 1..Len(server)
    PROVE  /\ Len(born) + 1 - i \in 1..Len(born)
           /\ server[i] = born[Len(born) + 1 - i]
  <1>1. /\ Len(server) \in Nat /\ Len(born) \in Nat /\ Len(server) <= Len(born)
        /\ DOMAIN server = 1..Len(server)
    BY ListFacts DEF BornOnce, ServerIsTail
  <1>2. Len(born) + 1 - i \in 1..Len(born)
    BY <1>1
  <1>3. server[i] = born[Len(born) + 1 - i]
    BY <1>1, Zenon DEF ServerIsTail
  <1> QED
    BY <1>2, <1>3

\* The server's list has the newest in front, and leaves out only older ones.
LEMMA ServersOrder ==
    ASSUME BornOnce, ServerIsTail
    PROVE  /\ Drawn(server) /\ NewestFirst(server)
           /\ \A o \in Range(born) \ Range(server), p \in Range(server) : Younger(p, o)
  <1> DEFINE s == Len(server)
             b == Len(born)
  <1>1. /\ s \in Nat /\ DOMAIN server = 1..s /\ b \in Nat /\ DOMAIN born = 1..b /\ s <= b
        /\ server \in Seq(Orders) /\ s <= Keep
    BY ListFacts DEF ServerIsTail, BornOnce
  <1>2. \A i \in 1..s : b + 1 - i \in 1..b /\ server[i] = born[b + 1 - i]
    BY TailFacts
  <1> HIDE DEF s, b
  <1>3. ASSUME NEW i \in 1..s, NEW j \in 1..s, i < j PROVE Younger(server[i], server[j])
    <2>1. b + 1 - j < b + 1 - i
      BY <1>1, <1>3
    <2> QED
      BY <1>1, <1>2, <2>1 DEF Younger
  <1>4. NewestFirst(server)
    BY <1>1, <1>3 DEF NewestFirst
  <1>5. IsInjective(server)
    <2>1. ASSUME NEW i \in 1..s, NEW j \in 1..s, server[i] = server[j] PROVE i = j
      <3>1. ~(i < j) /\ ~(j < i)
        BY <1>3, <2>1, NobodyIsYounger
      <3> QED
        BY <1>1, <3>1
    <2> QED
      BY <1>1, <2>1 DEF IsInjective
  <1>6. Range(server) \subseteq Range(born)
    BY <1>1, <1>2 DEF Range
  <1>7. ASSUME NEW o \in Range(born) \ Range(server), NEW p \in Range(server) PROVE Younger(p, o)
    <2>1. PICK x \in 1..b : born[x] = o
      BY <1>1 DEF Range
    <2>2. PICK k \in 1..s : server[k] = p
      BY <1>1 DEF Range
    <2>3. x <= b - s
      <3>1. ASSUME x > b - s PROVE FALSE
        <4>1. b + 1 - x \in 1..s /\ b + 1 - (b + 1 - x) = x
          BY <1>1, <3>1
        <4>2. server[b + 1 - x] = o
          BY <1>2, <2>1, <4>1
        <4> QED
          BY <1>1, <1>7, <4>1, <4>2 DEF Range
      <3> QED
        BY <1>1, <3>1
    <2>4. x < b + 1 - k /\ b + 1 - k \in 1..b /\ born[b + 1 - k] = p
      BY <1>1, <1>2, <2>2, <2>3
    <2> QED
      BY <1>1, <2>1, <2>4 DEF Younger
  <1> QED
    BY <1>1, <1>4, <1>5, <1>6, <1>7 DEF Drawn, s

LEMMA ServerListsLists ==
    ASSUME LInv, ServerLists PROVE ListInv'
  <1>1. /\ UNCHANGED <<born, gate, server, store, stored, runs, early, starting>>
        /\ page = "listing" /\ page' = "listed" /\ listed' = server
    BY DEF ServerLists, orderVars, listVars, startVars, formVars
  <1>2. BornOnce' /\ ServerIsTail' /\ \A p, q : Younger(p, q)' <=> Younger(p, q)
    BY <1>1, SameBirths
  <1>3. /\ Drawn(server) /\ NewestFirst(server)
        /\ \A o \in Range(born) \ Range(server), p \in Range(server) : Younger(p, o)
    BY ServersOrder DEF LInv, ListInv
  <1>4. Drawn(runs)' /\ Drawn(store)' /\ Drawn(stored)' /\ Drawn(listed)'
    BY <1>1, <1>3 DEF LInv, ListInv, Drawn
  <1>5. ListedFits'
    BY <1>1, <1>2, <1>3 DEF LInv, ListInv, ListedFits, NewestFirst, Drawn
  <1>6. PageIsSaved' /\ NothingYet' /\ StartsNewest'
    BY <1>1, <1>2 DEF LInv, ListInv, PageIsSaved, NothingYet, StartsNewest
  <1> QED
    BY <1>2, <1>4, <1>5, <1>6 DEF ListInv

LEMMA MergedRunsDrawn ==
    ASSUME LInv
    PROVE  /\ Drawn(MergedRuns) /\ (MergedRuns = <<>> => runs = <<>>)
           /\ \A o \in Range(stored) : o \notin Range(MergedRuns) => Len(MergedRuns) = Keep
  <1>1. /\ Drawn(runs) /\ listed \o stored \in Seq(Orders) /\ Range(listed \o stored) \subseteq Range(born)
        /\ Range(stored) \subseteq Range(listed \o stored)
    BY EntriesDrawn DEF LInv, ListInv, Drawn
  <1> QED
    BY <1>1, MergedDrawn DEF MergedRuns

LEMMA ListArrivesLists ==
    ASSUME LInv, ListArrives PROVE ListInv'
  <1>1. /\ UNCHANGED <<born, gate, server, early, starting>> /\ page = "listed" /\ page' = "ready"
        /\ runs' = MergedRuns /\ store' = MergedRuns /\ stored' = <<>> /\ listed' = <<>>
    BY DEF ListArrives, orderVars, startVars, formVars
  <1>2. BornOnce' /\ ServerIsTail'
    BY <1>1, SameBirths
  <1>3. Drawn(runs)' /\ Drawn(store)' /\ Drawn(stored)' /\ Drawn(listed)'
    BY <1>1, MergedRunsDrawn, EmptyList DEF Drawn
  <1>4. ListedFits' /\ PageIsSaved' /\ NothingYet'
    BY <1>1, EmptyList DEF ListedFits, NewestFirst, PageIsSaved, NothingYet
  <1>5. StartsNewest'
    BY <1>1 DEF LInv, ListInv, NothingYet, StartsNewest
  <1> QED
    BY <1>2, <1>3, <1>4, <1>5 DEF ListInv

\* A list with one more in front of it.
LEMMA Prepended ==
    ASSUME NEW o \in Orders, NEW list \in Seq(Orders)
    PROVE  /\ <<o>> \o list \in Seq(Orders) /\ Len(<<o>> \o list) = Len(list) + 1
           /\ DOMAIN (<<o>> \o list) = 1..(Len(list) + 1)
           /\ (<<o>> \o list)[1] = o
           /\ \A i \in 1..Len(list) : (<<o>> \o list)[i + 1] = list[i]
           /\ \A i \in 2..(Len(list) + 1) : i - 1 \in DOMAIN list /\ (<<o>> \o list)[i] = list[i - 1]
  <1>1. /\ <<o>> \o list \in Seq(Orders) /\ Len(<<o>> \o list) = Len(list) + 1
        /\ (<<o>> \o list)[1] = o /\ Len(list) \in Nat /\ DOMAIN list = 1..Len(list)
    OBVIOUS
  <1>2. \A i \in 2..(Len(list) + 1) : i - 1 \in DOMAIN list /\ (<<o>> \o list)[i] = list[i - 1]
    BY <1>1
  <1>3. \A i \in 1..Len(list) : (<<o>> \o list)[i + 1] = list[i]
    BY <1>1
  <1>4. DOMAIN (<<o>> \o list) = 1..(Len(list) + 1)
    BY <1>1, ListFacts
  <1> QED
    BY <1>1, <1>2, <1>3, <1>4

LEMMA FirstOfFacts ==
    ASSUME NEW list \in Seq(Orders), NEW n \in Nat
    PROVE  /\ FirstOf(list, n) \in Seq(Orders)
           /\ Len(FirstOf(list, n)) = IF Len(list) < n THEN Len(list) ELSE n
           /\ \A i \in 1..Len(FirstOf(list, n)) : FirstOf(list, n)[i] = list[i]
           /\ Range(FirstOf(list, n)) \subseteq Range(list)
  <1> DEFINE m == IF Len(list) < n THEN Len(list) ELSE n
  <1>1. Len(list) \in Nat
    OBVIOUS
  <1>2. m \in Nat /\ m <= Len(list)
    BY <1>1
  <1>3. FirstOf(list, n) = SubSeq(list, 1, m)
    BY DEF FirstOf
  <1> HIDE DEF m
  <1>4. /\ SubSeq(list, 1, m) \in Seq(Orders) /\ Len(SubSeq(list, 1, m)) = m
        /\ \A i \in 1..m : SubSeq(list, 1, m)[i] = list[i]
    BY <1>1, <1>2
  <1>5. DOMAIN SubSeq(list, 1, m) = 1..m /\ DOMAIN list = 1..Len(list)
    BY <1>4, ListFacts
  <1>6. Range(SubSeq(list, 1, m)) \subseteq Range(list)
    BY <1>1, <1>2, <1>4, <1>5 DEF Range
  <1> QED
    BY <1>3, <1>4, <1>6 DEF m

LEMMA NewestFacts ==
    ASSUME NEW list \in Seq(Orders)
    PROVE  /\ Newest(list) \in Seq(Orders)
           /\ Len(Newest(list)) = IF Len(list) < Keep THEN Len(list) ELSE Keep
           /\ \A i \in 1..Len(Newest(list)) : Newest(list)[i] = list[i]
  BY FirstOfFacts, StudioAssumption DEF Newest

\* What an answered start makes of any list.
LEMMA FrontedDrawn ==
    ASSUME NEW o \in Range(born), BornOnce, Drawn(runs)
    PROVE  Drawn(Fronted(o, runs)) /\ Fronted(o, runs) # <<>>
  <1>1. Keep - 1 \in Nat /\ 1 <= Keep /\ runs \in Seq(Orders) /\ o \in Orders
    BY StudioAssumption DEF Drawn, BornOnce, Range
  <1>2. FirstOf(runs, Keep - 1) \in Seq(Orders) /\ Range(FirstOf(runs, Keep - 1)) \subseteq Range(born)
    BY <1>1, FirstOfFacts DEF Drawn
  <1>3. Drawn(<<o>>) /\ <<o>> # <<>>
    <2>1. /\ <<o>> \in Seq(Orders) /\ Len(<<o>>) = 1 /\ DOMAIN <<o>> = {1} /\ <<o>>[1] = o
      BY <1>1
    <2>2. Range(<<o>>) = {o} /\ IsInjective(<<o>>)
      BY <2>1 DEF Range, IsInjective
    <2> QED
      BY <1>1, <2>1, <2>2 DEF Drawn
  <1> QED
    BY <1>2, <1>3, MergedDrawn DEF Fronted

\* In front of a list without it, the order pushes out at most the last.
LEMMA FrontedIsNewest ==
    ASSUME NEW o \in Orders, Drawn(runs), o \notin Range(runs)
    PROVE  Fronted(o, runs) = Newest(<<o>> \o runs)
  <1> DEFINE short == FirstOf(runs, Keep - 1)
             r == Len(runs)
  <1>1. Keep - 1 \in Nat /\ Keep \in Nat /\ runs \in Seq(Orders) /\ r \in Nat /\ DOMAIN runs = 1..r
    BY StudioAssumption, ListFacts DEF Drawn
  <1>2. /\ short \in Seq(Orders) /\ Len(short) = IF r < Keep - 1 THEN r ELSE Keep - 1
        /\ \A i \in 1..Len(short) : short[i] = runs[i]
    BY <1>1, FirstOfFacts
  <1> HIDE DEF short, r
  <1> DEFINE all == <<o>> \o short
             most == Newest(<<o>> \o runs)
  <1>3. /\ all \in Seq(Orders) /\ Len(all) = Len(short) + 1 /\ all[1] = o
        /\ DOMAIN all = 1..(Len(short) + 1) /\ Len(short) \in Nat
        /\ \A i \in 2..(Len(short) + 1) : i - 1 \in 1..Len(short) /\ all[i] = short[i - 1]
    BY <1>2, Prepended, ListFacts
  <1>4. /\ <<o>> \o runs \in Seq(Orders) /\ Len(<<o>> \o runs) = r + 1 /\ (<<o>> \o runs)[1] = o
        /\ \A i \in 2..(r + 1) : (<<o>> \o runs)[i] = runs[i - 1]
    BY <1>1, Prepended DEF r
  <1>5. /\ most \in Seq(Orders) /\ Len(most) = IF r + 1 < Keep THEN r + 1 ELSE Keep
        /\ \A i \in 1..Len(most) : most[i] = (<<o>> \o runs)[i]
    BY <1>4, NewestFacts
  <1> HIDE DEF all, most
  <1>6. Len(all) <= Keep /\ Len(short) <= r /\ Len(most) = Len(all)
    BY <1>1, <1>2, <1>3, <1>5
  <1>7. IsInjective(all)
    <2> SUFFICES ASSUME NEW i \in 1..(Len(short) + 1), NEW j \in 1..(Len(short) + 1), all[i] = all[j]
                 PROVE  i = j
      BY <1>3 DEF IsInjective
    <2>1. ASSUME NEW k \in 2..(Len(short) + 1)
          PROVE  k - 1 \in DOMAIN runs /\ all[k] = runs[k - 1] /\ all[k] # o
      <3>1. k - 1 \in 1..Len(short) /\ all[k] = short[k - 1]
        BY <1>3
      <3>2. k - 1 \in DOMAIN runs
        BY <1>1, <1>3, <1>6, <3>1
      <3>3. all[k] = runs[k - 1]
        BY <1>2, <3>1
      <3> QED
        BY <3>2, <3>3 DEF Range
    <2>2. CASE i = 1 \/ j = 1
      BY <1>3, <2>1, <2>2
    <2>3. CASE i # 1 /\ j # 1
      <3>1. i \in 2..(Len(short) + 1) /\ j \in 2..(Len(short) + 1)
        BY <1>3, <2>3
      <3>2. i - 1 = j - 1
        BY <2>1, <3>1 DEF Drawn, IsInjective
      <3> QED
        BY <1>3, <3>2
    <2> QED
      BY <2>2, <2>3
  <1>8. Fronted(o, runs) = all
    <2>1. <<o>> \in Seq(Orders) /\ Fronted(o, runs) = Merged(<<o>>, short)
      BY DEF Fronted, short
    <2>2. IsInjective(<<o>> \o short) /\ Len(<<o>> \o short) <= Keep
      BY <1>6, <1>7 DEF all
    <2>3. Merged(<<o>>, short) = <<o>> \o short
      BY <1>2, <2>1, <2>2, MergedWhole
    <2> QED
      BY <2>1, <2>3 DEF all
  <1>9. \A i \in 1..Len(all) : all[i] = most[i]
    <2> SUFFICES ASSUME NEW i \in 1..Len(all) PROVE all[i] = most[i]
      OBVIOUS
    <2>1. CASE i = 1
      BY <1>3, <1>4, <1>5, <1>6, <2>1
    <2>2. CASE i # 1
      <3>1. i \in 2..(Len(short) + 1) /\ i \in 2..(r + 1)
        BY <1>1, <1>3, <1>6, <2>2
      <3> QED
        BY <1>2, <1>3, <1>4, <1>5, <1>6, <3>1
    <2> QED
      BY <2>1, <2>2
  <1> QED
    BY <1>3, <1>5, <1>6, <1>8, <1>9, SameSeq DEF most

\* Cutting a list that has the newest in front costs only the oldest, for want of room.
LEMMA NewestKeepsOrder ==
    ASSUME NEW list \in Seq(Orders), NewestFirst(list)
    PROVE  /\ NewestFirst(Newest(list)) /\ Range(Newest(list)) \subseteq Range(list)
           /\ \A o \in Range(list) : o \notin Range(Newest(list)) =>
                 /\ Len(Newest(list)) = Keep
                 /\ \A p \in Range(Newest(list)) : Younger(p, o)
  <1> DEFINE short == Newest(list)
  <1>1. /\ short \in Seq(Orders) /\ Len(short) \in Nat /\ DOMAIN short = 1..Len(short)
        /\ Len(list) \in Nat /\ DOMAIN list = 1..Len(list) /\ Keep \in Nat
        /\ Len(short) = IF Len(list) < Keep THEN Len(list) ELSE Keep
        /\ \A i \in 1..Len(short) : short[i] = list[i]
    BY NewestFacts, ListFacts, StudioAssumption
  <1> HIDE DEF short
  <1>2. Len(short) <= Keep /\ DOMAIN short \subseteq DOMAIN list
    BY <1>1
  <1>3. Range(short) \subseteq Range(list)
    BY <1>1, <1>2 DEF Range
  <1>4. \A i, j \in DOMAIN short : i < j => Younger(short[i], short[j])
    BY <1>1, <1>2 DEF NewestFirst
  <1>5. ASSUME NEW o \in Range(list), o \notin Range(short)
        PROVE  Len(short) = Keep /\ \A p \in Range(short) : Younger(p, o)
    <2>1. PICK k \in DOMAIN list : list[k] = o
      BY ListFacts
    <2>2. k \notin DOMAIN short
      BY <1>1, <1>5, <2>1 DEF Range
    <2>3. Len(short) = Keep /\ \A i \in DOMAIN short : i < k
      <3>1. k \in 1..Len(list) /\ k \notin 1..Len(short)
        BY <1>1, <2>1, <2>2
      <3>2. Len(short) < k /\ Len(short) < Len(list)
        BY <1>1, <3>1
      <3>3. Len(short) = Keep
        <4>1. Len(short) = IF Len(list) < Keep THEN Len(list) ELSE Keep
          BY <1>1
        <4>2. \A m, n \in Nat : ~(m < n /\ m = n)
          OBVIOUS
        <4>3. Len(short) # Len(list)
          BY <1>1, <3>2, <4>2, Zenon
        <4> QED
          BY <4>1, <4>3, Zenon
      <3>4. \A i \in 1..Len(short) : i < k
        BY <1>1, <3>1, <3>2
      <3> QED
        BY <1>1, <3>3, <3>4
    <2>4. \A i \in DOMAIN short : Younger(short[i], o)
      BY <1>1, <1>2, <2>1, <2>3 DEF NewestFirst
    <2> QED
      BY <2>3, <2>4 DEF Range
  <1> QED
    BY <1>1, <1>2, <1>3, <1>4, <1>5 DEF NewestFirst, short

\* What an answered start makes of the list: the new order in front, and the oldest
\* one out if there is no room.
LEMMA StartedList ==
    ASSUME LInv, NEW o \in Orders, Started(o), ~early, NewestFirst(store)
    PROVE  /\ NewestFirst(runs')
           /\ \A p \in Range(store) : p \notin Range(runs') =>
                 Len(runs') = Keep /\ \A q \in Range(runs') : Younger(q, p)
  <1> DEFINE list == <<o>> \o runs
  <1>1. starting = o /\ gate[o] # "unborn" /\ o # None /\ runs' = Fronted(o, runs)
    BY StudioAssumption DEF Started
  <1>2. runs = store /\ NewestFirst(runs) /\ runs \in Seq(Orders)
    BY <1>1 DEF LInv, ListInv, PageIsSaved, NothingYet, Drawn
  <1>3. \A p \in Range(runs) : Younger(o, p)
    BY <1>1 DEF LInv, ListInv, StartsNewest
  <1>4. /\ list \in Seq(Orders) /\ DOMAIN list = 1..(Len(runs) + 1) /\ list[1] = o
        /\ \A i \in 1..Len(runs) : list[i + 1] = runs[i]
        /\ \A i \in 2..(Len(runs) + 1) : i - 1 \in DOMAIN runs /\ list[i] = runs[i - 1]
        /\ Len(runs) \in Nat /\ DOMAIN runs = 1..Len(runs)
    BY <1>2, Prepended, ListFacts
  <1> HIDE DEF list
  <1>5. Range(runs) \subseteq Range(list)
    <2>1. \A i \in DOMAIN runs : i + 1 \in DOMAIN list /\ list[i + 1] = runs[i]
      BY <1>4
    <2> QED
      BY <2>1 DEF Range
  <1>6. ASSUME NEW i \in DOMAIN list, NEW j \in DOMAIN list, i < j PROVE Younger(list[i], list[j])
    <2>1. j \in 2..(Len(runs) + 1) /\ list[j] = runs[j - 1] /\ j - 1 \in DOMAIN runs
      BY <1>4, <1>6
    <2>2. CASE i = 1
      BY <1>3, <1>4, <2>1, <2>2 DEF Range
    <2>3. CASE i # 1
      <3>1. i \in 2..(Len(runs) + 1) /\ i - 1 < j - 1
        BY <1>4, <1>6, <2>3
      <3> QED
        BY <1>2, <1>4, <2>1, <3>1 DEF NewestFirst
    <2> QED
      BY <2>2, <2>3
  <1>7. /\ NewestFirst(Newest(list))
        /\ \A p \in Range(list) : p \notin Range(Newest(list)) =>
              Len(Newest(list)) = Keep /\ \A q \in Range(Newest(list)) : Younger(q, p)
    BY <1>4, <1>6, NewestKeepsOrder DEF NewestFirst
  <1>8. runs' = Newest(list)
    BY <1>1, <1>3, FrontedIsNewest, NobodyIsYounger DEF LInv, ListInv, list
  <1> QED
    BY <1>2, <1>5, <1>7, <1>8

\* Even if it was not in order, it loses a run only for want of room.
LEMMA StartedRoom ==
    ASSUME LInv, NEW o \in Orders, Started(o), ~early, NEW p \in Range(runs), p \notin Range(runs')
    PROVE  Len(runs') = Keep
  <1> DEFINE list == <<o>> \o runs
  <1>1. starting = o /\ gate[o] # "unborn" /\ o # None /\ runs' = Fronted(o, runs)
    BY StudioAssumption DEF Started
  <1>2. \A q \in Range(runs) : Younger(o, q)
    BY <1>1 DEF LInv, ListInv, StartsNewest
  <1>3. runs' = Newest(list)
    BY <1>1, <1>2, FrontedIsNewest, NobodyIsYounger DEF LInv, ListInv
  <1>4. /\ runs \in Seq(Orders) /\ Len(runs) \in Nat /\ DOMAIN runs = 1..Len(runs)
        /\ list \in Seq(Orders) /\ Len(list) = Len(runs) + 1
        /\ \A i \in 1..Len(runs) : list[i + 1] = runs[i]
    BY Prepended, ListFacts DEF LInv, ListInv, Drawn
  <1> HIDE DEF list
  <1>5. /\ runs' \in Seq(Orders) /\ Len(runs') = IF Len(list) < Keep THEN Len(list) ELSE Keep
        /\ \A i \in 1..Len(runs') : runs'[i] = list[i]
    BY <1>3, <1>4, NewestFacts
  <1>6. PICK i \in 1..Len(runs) : runs[i] = p
    BY <1>4 DEF Range
  <1>7. CASE Len(list) < Keep
    <2>1. Len(runs') = Len(runs) + 1 /\ DOMAIN runs' = 1..Len(runs')
      BY <1>4, <1>5, <1>7, ListFacts
    <2>2. i + 1 \in DOMAIN runs'
      BY <1>4, <2>1
    <2>3. runs'[i + 1] = p
      BY <1>4, <1>5, <1>6, <2>1, <2>2
    <2> QED
      BY <2>2, <2>3 DEF Range
  <1>8. CASE ~(Len(list) < Keep)
    BY <1>5, <1>8
  <1> QED
    BY <1>7, <1>8

LEMMA StartedLists ==
    ASSUME LInv, NEW o \in Orders, Started(o)
    PROVE  ListInv' /\ runs' # <<>>
  <1>1. /\ UNCHANGED <<born, gate, server, page, stored, listed, early>>
        /\ starting = o /\ o # None /\ starting' = None
        /\ runs' = Fronted(o, runs) /\ store' = runs' /\ o \in Range(born)
    BY StudioAssumption DEF Started, orderVars, loadVars, LInv, ListInv, BornOnce
  <1>2. BornOnce' /\ ServerIsTail' /\ \A p, q : Younger(p, q)' <=> Younger(p, q)
    BY <1>1, SameBirths
  <1>3. Drawn(Fronted(o, runs)) /\ Fronted(o, runs) # <<>>
    BY <1>1, FrontedDrawn DEF LInv, ListInv
  <1>4. Drawn(runs)' /\ Drawn(store)' /\ Drawn(stored)' /\ Drawn(listed)'
    BY <1>1, <1>3 DEF LInv, ListInv, Drawn
  <1>5. ListedFits'
    BY <1>1, <1>2 DEF LInv, ListInv, ListedFits, NewestFirst
  <1>6. PageIsSaved' /\ NothingYet' /\ StartsNewest'
    BY <1>1 DEF LInv, ListInv, PageIsSaved, NothingYet, StartsNewest
  <1> QED
    BY <1>1, <1>2, <1>3, <1>4, <1>5, <1>6 DEF ListInv

\* A birth makes nobody older than it was, and is the youngest.
LEMMA ServerStartsLists ==
    ASSUME LInv, NEW o \in Orders, ServerStarts(o)
    PROVE  ListInv'
  <1> DEFINE b == Len(born)
  <1>1. /\ gate[o] = "unborn" /\ gate' = [gate EXCEPT ![o] = "before"] /\ gate \in [Orders -> Gates]
        /\ born' = Append(born, o) /\ server' = Newest(<<o>> \o server)
        /\ UNCHANGED <<page, runs, store, stored, listed, starting, early>>
    BY DEF ServerStarts, listVars, loadVars, formVars, LInv, SInv, InboundUnborn, DecisionsTyped
  <1>2. /\ born \in Seq(Orders) /\ b \in Nat /\ DOMAIN born = 1..b /\ o \notin Range(born)
        /\ IsInjective(born)
    BY <1>1, ListFacts DEF LInv, ListInv, BornOnce
  <1>3. /\ born' \in Seq(Orders) /\ Len(born') = b + 1 /\ born'[b + 1] = o
        /\ \A i \in 1..b : born'[i] = born[i]
    BY <1>1, <1>2
  <1>4. DOMAIN born' = 1..(b + 1)
    BY <1>3, ListFacts
  <1> HIDE DEF b
  <1>5. \A p, q : Younger(p, q) => Younger(p, q)'
    <2> SUFFICES ASSUME NEW p, NEW q, Younger(p, q) PROVE Younger(p, q)'
      OBVIOUS
    <2>1. PICK i, j \in 1..b : i < j /\ born[i] = q /\ born[j] = p
      BY <1>2 DEF Younger
    <2>2. i \in DOMAIN born' /\ j \in DOMAIN born' /\ born'[i] = q /\ born'[j] = p
      BY <1>2, <1>3, <1>4, <2>1
    <2> QED
      BY <2>1, <2>2 DEF Younger
  <1>6. \A p \in Range(born) : Younger(o, p)' /\ p \in Range(born')
    <2> SUFFICES ASSUME NEW p \in Range(born) PROVE Younger(o, p)' /\ p \in Range(born')
      OBVIOUS
    <2>1. PICK i \in 1..b : born[i] = p
      BY <1>2 DEF Range
    <2>2. i \in DOMAIN born' /\ b + 1 \in DOMAIN born' /\ i < b + 1 /\ born'[i] = p
      BY <1>2, <1>3, <1>4, <2>1
    <2> QED
      BY <1>3, <2>2 DEF Younger, Range
  <1>7. BornOnce'
    <2>1. ASSUME NEW i \in 1..(b + 1), NEW j \in 1..(b + 1), born'[i] = born'[j] PROVE i = j
      <3>1. \A k \in 1..b : born[k] # o
        BY <1>2 DEF Range
      <3>2. CASE i \in 1..b /\ j \in 1..b
        BY <1>2, <1>3, <2>1, <3>2 DEF IsInjective
      <3>3. CASE i = b + 1 \/ j = b + 1
        BY <1>2, <1>3, <2>1, <3>1, <3>3
      <3> QED
        BY <1>2, <3>2, <3>3
    <2>2. IsInjective(born')
      BY <1>4, <2>1 DEF IsInjective
    <2>3. o \in Range(born')
      BY <1>2, <1>3, <1>4 DEF Range
    <2>4. \A p \in Range(born') : p = o \/ p \in Range(born)
      BY <1>2, <1>3, <1>4 DEF Range
    <2>5. \A p \in Orders : p \in Range(born') <=> gate'[p] # "unborn"
      BY <1>1, <1>6, <2>3, <2>4 DEF LInv, ListInv, BornOnce
    <2> QED
      BY <1>3, <2>2, <2>5 DEF BornOnce
  <1>8. ServerIsTail'
    <2> DEFINE list == <<o>> \o server
    <2>1. /\ server \in Seq(Orders) /\ Len(server) \in Nat /\ Len(server) <= b /\ Keep \in Nat
          /\ DOMAIN server = 1..Len(server)
      BY ListFacts, StudioAssumption DEF LInv, ListInv, ServerIsTail, b
    <2>2. /\ list \in Seq(Orders) /\ Len(list) = Len(server) + 1 /\ list[1] = o
          /\ \A i \in 2..(Len(server) + 1) : i - 1 \in DOMAIN server /\ list[i] = server[i - 1]
      BY <2>1, Prepended
    <2>3. /\ server' \in Seq(Orders) /\ Len(server') = IF Len(list) < Keep THEN Len(list) ELSE Keep
          /\ \A i \in 1..Len(server') : server'[i] = list[i]
      BY <1>1, <2>2, NewestFacts
    <2> HIDE DEF list
    <2>4. /\ Len(server') \in Nat /\ Len(server') <= Keep /\ Len(server') <= b + 1
          /\ Len(server') <= Len(server) + 1
      BY <1>2, <2>1, <2>2, <2>3
    <2>5. ASSUME NEW i \in 1..Len(server') PROVE server'[i] = born'[b + 1 + 1 - i]
      <3>1. CASE i = 1
        <4>1. b + 1 + 1 - i = b + 1
          BY <1>2, <3>1
        <4> QED
          BY <1>3, <2>2, <2>3, <3>1, <4>1
      <3>2. CASE i # 1
        <4>1. i \in 2..(Len(server) + 1) /\ i - 1 \in 1..Len(server)
          BY <2>1, <2>4, <3>2
        <4>2. server'[i] = server[i - 1]
          BY <2>2, <2>3, <4>1
        <4>3. b + 1 - (i - 1) \in 1..b /\ server[i - 1] = born[b + 1 - (i - 1)]
          BY <4>1, TailFacts DEF LInv, ListInv, b
        <4>4. b + 1 - (i - 1) = b + 1 + 1 - i
          BY <1>2, <2>1, <4>1
        <4> QED
          BY <1>3, <4>2, <4>3, <4>4
      <3> QED
        BY <3>1, <3>2
    <2>6. DOMAIN server' = 1..Len(server')
      BY <2>3, ListFacts
    <2> QED
      BY <1>3, <2>3, <2>4, <2>5, <2>6 DEF ServerIsTail
  <1>9. Drawn(runs)' /\ Drawn(store)' /\ Drawn(stored)' /\ Drawn(listed)'
    <2>1. Range(born) \subseteq Range(born')
      BY <1>6
    <2> QED
      BY <1>1, <2>1 DEF LInv, ListInv, Drawn
  <1>10. ListedFits' /\ PageIsSaved' /\ NothingYet'
    BY <1>1, <1>5 DEF LInv, ListInv, ListedFits, NewestFirst, PageIsSaved, NothingYet
  <1>11. StartsNewest'
    <2>1. CASE starting = None
      BY <1>1, <2>1 DEF StartsNewest
    <2>2. CASE starting = o
      <3>1. Range(runs) \subseteq Range(born)
        BY DEF LInv, ListInv, Drawn
      <3> QED
        BY <1>1, <1>6, <2>2, <3>1 DEF StartsNewest
    <2>3. CASE starting \notin {None, o}
      <3>1. starting \in Orders /\ gate'[starting] = gate[starting]
        BY <1>1, <2>3 DEF LInv, PageTyped
      <3> QED
        BY <1>1, <1>5, <3>1 DEF LInv, ListInv, StartsNewest
    <2> QED
      BY <2>1, <2>2, <2>3
  <1> QED
    BY <1>7, <1>8, <1>9, <1>10, <1>11 DEF ListInv

LEMMA NextListInv == LInv /\ [Next]_vars => ListInv'
  <1> SUFFICES ASSUME LInv, [Next]_vars PROVE ListInv'
    OBVIOUS
  <1>1. gate \in [Orders -> Gates]
    BY DEF LInv, SInv, DecisionsTyped
  <1>2. CASE UNCHANGED vars
    BY <1>2, QuietLists DEF vars, orderVars, listVars, startVars, formVars
  <1>3. CASE MetaArrives \/ MetaFails \/ ListFails \/ Reload \/ \E o \in Orders : StartOrder(o)
    <2>1. UNCHANGED <<born, gate, server, store>>
      BY <1>3 DEF MetaArrives, MetaFails, ListFails, NoList, Reload, StartOrder, orderVars, listVars
    <2> QED
      BY <1>3, <2>1, PageMovesLists
  <1>4. CASE ServerLists
    BY <1>4, ServerListsLists
  <1>5. CASE ListArrives
    BY <1>5, ListArrivesLists
  <1>6. CASE ServerRestarts
    BY <1>6, QuietLists DEF ServerRestarts, orderVars, listVars, startVars, formVars
  <1>7. CASE StartPolled
    BY <1>7, QuietLists DEF StartPolled, orderVars, listVars
  <1>8. ASSUME NEW o \in Orders, StartFails(o) \/ Refresh(o) \/ Select(o) PROVE ListInv'
    BY <1>8, QuietLists DEF StartFails, Refresh, Select, orderVars, listVars, startVars, formVars
  <1>9. ASSUME NEW o \in Orders, OrderMoves(o) PROVE ListInv'
    <2>1. \A p \in Orders : gate'[p] = "unborn" <=> gate[p] = "unborn"
      BY <1>1, <1>9 DEF OrderMoves
    <2> QED
      BY <1>9, <2>1, QuietLists DEF OrderMoves, listVars, startVars, formVars
  <1>10. ASSUME NEW o \in Orders, Started(o) \/ ServerStarts(o) PROVE ListInv'
    BY <1>10, StartedLists, ServerStartsLists
  <1>11. ASSUME NEW c \in Clicks, Decide(c) \/ Answered(c) PROVE ListInv'
    BY <1>11, QuietLists
       DEF Decide, Answered, DecisionSent, DecisionPolled, DecisionFails, orderVars, listVars,
           startVars, formVars
  <1>12. ASSUME NEW c \in Clicks, ServerDecides(c) PROVE ListInv'
    <2>1. \A p \in Orders : gate'[p] = "unborn" <=> gate[p] = "unborn"
      BY <1>1, <1>12 DEF ServerDecides, orderVars
    <2> QED
      BY <1>12, <2>1, QuietLists DEF ServerDecides, listVars, startVars, formVars
  <1> QED
    BY <1>2, <1>3, <1>4, <1>5, <1>6, <1>7, <1>8, <1>9, <1>10, <1>11, <1>12 DEF Next

LEMMA NextSInv == LInv /\ [Next]_vars => SInv'
  <1> SUFFICES ASSUME LInv, SInv, [Next]_vars PROVE SInv'
    BY DEF LInv
  <1>1. CASE UNCHANGED vars
    BY <1>1, QuietInv DEF vars, listVars, loadVars, startVars, clickVars, SInv, DecisionsTyped
  <1>2. CASE MetaArrives \/ ServerLists \/ MetaFails
    <2>1. UNCHANGED <<orderVars, runs, selected, clickVars, feedback, shown, inbound>> /\ page' \in Pages
      BY <1>2 DEF MetaArrives, ServerLists, MetaFails, listVars, startVars, Pages
    <2> QED
      BY <2>1, QuietInv
  <1>3. CASE ListArrives
    <2>1. Drawn(MergedRuns) /\ (MergedRuns = <<>> => runs = <<>>) /\ runs' = MergedRuns
      BY <1>3, MergedRunsDrawn DEF ListArrives
    <2>2. MergedRuns \in Seq(Orders)
      BY <2>1 DEF Drawn
    <2>3. Range(MergedRuns) \subseteq Orders
      BY <2>2, ListFacts
    <2>4. MergedRuns # <<>> => Range(MergedRuns) # {}
      <3>1. ASSUME MergedRuns # <<>> PROVE MergedRuns[1] \in Range(MergedRuns)
        <4>1. 1 \in DOMAIN MergedRuns
          BY <2>2, <3>1
        <4> QED
          BY <4>1 DEF Range
      <3> QED
        BY <3>1
    <2> QED
      BY <1>3, <2>1, <2>3, <2>4, ListArrivesInv
  <1>4. CASE ListFails
    BY <1>4, NoListInv DEF ListFails
  <1>5. CASE ServerRestarts \/ StartPolled
    BY <1>5, QuietInv
       DEF ServerRestarts, StartPolled, listVars, loadVars, startVars, clickVars, SInv, DecisionsTyped
  <1>6. ASSUME NEW o \in Orders, StartOrder(o) \/ StartFails(o) PROVE SInv'
    BY <1>6, QuietInv DEF StartOrder, StartFails, listVars, loadVars, SInv, DecisionsTyped
  <1>7. ASSUME NEW o \in Orders, ServerStarts(o) \/ OrderMoves(o) PROVE SInv'
    BY <1>7, GateMovesInv
  <1>8. ASSUME NEW o \in Orders, Started(o) PROVE SInv'
    BY <1>8, StartedLists, StartedInv
  <1>9. ASSUME NEW o \in Orders, Refresh(o) \/ Select(o) PROVE SInv'
    BY <1>9, PageStepInv
  <1>10. CASE Reload
    BY <1>10, ReloadInv
  <1>11. ASSUME NEW c \in Clicks, Decide(c) \/ ServerDecides(c) \/ Answered(c) PROVE SInv'
    BY <1>11, FollowedInv, ServerDecidesInv
  <1> QED
    BY <1>1, <1>2, <1>3, <1>4, <1>5, <1>6, <1>7, <1>8, <1>9, <1>10, <1>11 DEF Next

LEMMA NextPageTyped == LInv /\ [Next]_vars => PageTyped'
  <1> SUFFICES ASSUME LInv, [Next]_vars PROVE PageTyped'
    OBVIOUS
  <1>1. PageTyped
    BY DEF LInv
  <1>2. CASE UNCHANGED vars
    BY <1>1, <1>2 DEF vars, startVars, formVars, clickVars, counts, PageTyped
  <1>3. CASE MetaArrives \/ ServerLists \/ ListArrives \/ MetaFails \/ ListFails \/ StartPolled
    BY <1>1, <1>3
       DEF MetaArrives, ServerLists, ListArrives, MetaFails, ListFails, NoList, StartPolled, StartOver,
           startVars, formVars, clickVars, counts, PageTyped
  <1>4. CASE Reload
    <2>1. reloads' \in 0..MaxReloads
      BY <1>1, <1>4, StudioAssumption DEF Reload, PageTyped
    <2> QED
      BY <1>1, <1>4, <2>1 DEF Reload, PageTyped
  <1>5. CASE ServerRestarts
    BY <1>1, <1>5, StudioAssumption DEF ServerRestarts, startVars, formVars, clickVars, PageTyped
  <1>6. ASSUME NEW o \in Orders,
               StartOrder(o) \/ ServerStarts(o) \/ Started(o) \/ StartFails(o)
               \/ OrderMoves(o) \/ Refresh(o) \/ Select(o)
        PROVE  PageTyped'
    BY <1>1, <1>6
       DEF StartOrder, ServerStarts, Started, StartFails, StartOver, OrderMoves, Refresh, Select,
           startVars, formVars, clickVars, counts, PageTyped
  <1>7. ASSUME NEW c \in Clicks, Decide(c) \/ ServerDecides(c) \/ Answered(c) PROVE PageTyped'
    BY <1>1, <1>7
       DEF Decide, ServerDecides, Answered, DecisionSent, DecisionPolled, DecisionFails,
           startVars, formVars, counts, PageTyped
  <1> QED
    BY <1>2, <1>3, <1>4, <1>5, <1>6, <1>7 DEF Next

LEMMA AlwaysLInv == Spec => []LInv
  <1>1. LInv /\ [Next]_vars => LInv'
    BY NextSInv, NextListInv, NextPageTyped DEF LInv
  <1> QED
    BY <1>1, InitLInv, PTL DEF Spec

-----------------------------------------------------------------------------

LEMMA ShortLists ==
    ASSUME NEW list \in Seq(Orders), Len(list) <= Keep
    PROVE  list \in Lists
  <1>1. Len(list) \in 0..Keep
    BY StudioAssumption
  <1>2. list \in [1..Len(list) -> Orders]
    OBVIOUS
  <1>3. \E m \in 0..Keep : list \in [1..m -> Orders]
    BY <1>1, <1>2
  <1> QED
    BY <1>3 DEF Lists, BoundedSeq, SeqOf

\* The state always has its type; no list is longer than 25 or names a run twice.
THEOREM StudioTyped == Spec => []TypeOK
  <1>1. LInv => TypeOK
    <2> SUFFICES ASSUME LInv PROVE TypeOK
      OBVIOUS
    <2>1. ASSUME NEW list, Drawn(list) PROVE list \in Lists /\ IsInjective(list)
      BY <2>1, ShortLists DEF Drawn
    <2>2. Drawn(runs) /\ Drawn(store) /\ Drawn(stored) /\ Drawn(listed) /\ Drawn(server)
      BY ServersOrder DEF LInv, ListInv
    <2> QED
      BY <2>1, <2>2
         DEF TypeOK, LInv, ListInv, BornOnce, PageTyped, SInv, DecisionsTyped, Pages, SaysTheTruth, Fitting
  <1> QED
    BY <1>1, AlwaysLInv, PTL

\* However many clicks are let out for one run, its gate keeps the first it took and
\* only that click is told so (studio.js decide, server.py decision).
THEOREM OneClickDecides == Spec => []OneDecisionCounts
  <1>1. LInv => OneDecisionCounts
    BY DEF LInv, SInv, TakenIsMine, OneDecisionCounts
  <1> QED
    BY <1>1, AlwaysLInv, PTL

LEMMA RenderedStays ==
    ASSUME NEW run, NEW waiting, NEW left, left.run \in {None, run}
    PROVE  Rendered(run, waiting, left).run \in {None, run}
  BY DEF Rendered

\* What the page says is true, and about the run it shows, whatever was selected, loaded
\* or answered in between, unless a list that init got late moves the selection (studio.js
\* init, decide, renderApproval).
THEOREM PageTellsTheTruth == Spec => FeedbackIsTrue
  <1>1. LInv => SaidIsTrue
    BY DEF LInv, SInv, SaysTheTruth, Fitting, SaidIsTrue
  <1>2. LInv /\ [Next]_vars => [SaidOfTheShown => SaidOfTheShown' \/ ListComesLate]_vars
    <2> SUFFICES ASSUME LInv, Next, SaidOfTheShown, ~ListComesLate PROVE SaidOfTheShown'
      BY DEF SaidOfTheShown, vars, listVars
    <2>1. CASE ListArrives
      <3>1. runs = <<>> /\ feedback' = Rendered(selected', shown, feedback)
        BY <2>1 DEF ListArrives, ListComesLate
      <3>2. feedback' = Silent
        BY <3>1, RenderedNothing DEF LInv, SInv, FreshPage
      <3> QED
        BY <3>2 DEF SaidOfTheShown, Silent
    <2>2. CASE ListFails
      <3>1. feedback' = Rendered(selected, shown, feedback) /\ selected' = selected
        BY <2>2 DEF ListFails, NoList
      <3> QED
        BY <3>1, RenderedStays DEF SaidOfTheShown
    <2>3. CASE Reload
      BY <2>3 DEF Reload, SaidOfTheShown, Silent
    <2>4. ASSUME NEW o \in Orders, Started(o) \/ Select(o) PROVE SaidOfTheShown'
      <3>1. Silent.run = None
        BY DEF Silent
      <3>2. selected' = o /\ feedback'.run \in {None, o}
        BY <2>4, <3>1, RenderedStays DEF Started, Select
      <3> QED
        BY <3>2 DEF SaidOfTheShown
    <2>5. ASSUME NEW o \in Orders, Refresh(o) PROVE SaidOfTheShown'
      <3>1. feedback' = Rendered(selected, shown', feedback) /\ selected' = selected
        BY <2>5 DEF Refresh, listVars
      <3> QED
        BY <3>1, RenderedStays DEF SaidOfTheShown
    <2>6. ASSUME NEW c \in Clicks, Decide(c) \/ Answered(c) PROVE SaidOfTheShown'
      <3>1. selected' = selected
        BY <2>6 DEF Decide, Answered, DecisionSent, DecisionPolled, DecisionFails, listVars
      <3>2. \A text : Says(c, text).run \in {None, selected}
        BY DEF Says, SaidOfTheShown
      <3>3. CASE Decide(c)
        BY <3>1, <3>3 DEF Decide, SaidOfTheShown, Silent
      <3>4. CASE DecisionSent(c)
        BY <3>1, <3>2, <3>4 DEF DecisionSent, SaidOfTheShown
      <3>5. CASE DecisionPolled(c)
        BY <3>1, <3>5, RenderedStays DEF DecisionPolled, SaidOfTheShown
      <3>6. CASE DecisionFails(c)
        BY <3>1, <3>2, <3>6, RenderedStays DEF DecisionFails, SaidOfTheShown
      <3> QED
        BY <2>6, <3>3, <3>4, <3>5, <3>6 DEF Answered
    <2>7. CASE UNCHANGED <<selected, feedback>>
      BY <2>7 DEF SaidOfTheShown
    <2>8. \/ MetaArrives \/ ServerLists \/ MetaFails \/ ServerRestarts \/ StartPolled
          \/ \E o \in Orders : StartOrder(o) \/ ServerStarts(o) \/ StartFails(o) \/ OrderMoves(o)
          \/ \E c \in Clicks : ServerDecides(c)
          => UNCHANGED <<selected, feedback>>
      BY DEF MetaArrives, ServerLists, MetaFails, ServerRestarts, StartPolled, StartOrder,
             ServerStarts, StartFails, OrderMoves, ServerDecides, listVars
    <2> QED
      BY <2>1, <2>2, <2>3, <2>4, <2>5, <2>6, <2>7, <2>8 DEF Next
  <1> QED
    BY <1>1, <1>2, AlwaysLInv, PTL DEF Spec, FeedbackIsTrue

\* A run leaves the browser's storage only for newer ones, and only when there is no
\* room, unless the page was asked for its last order before init had its list; and then
\* a list that still comes loses nothing that init had read (studio.js init, startOrder,
\* save; server.py start_order), for any number of orders, of runs kept, of reloads and
\* of restarts.
THEOREM NewestAreKept == Spec => StoreKeepsNewest
  <1> DEFINE gone == Range(store) \ Range(store')
             P == /\ ~early =>
                        /\ gone # {} => Len(store') = Keep
                        /\ NewestFirst(store) =>
                              /\ NewestFirst(store')
                              /\ \A o \in gone, p \in Range(store') : Younger(p, o)
                  /\ ListArrives /\ ~(Range(stored) \subseteq Range(store')) => Len(store') = Keep
  <1>1. LInv /\ [Next]_vars => [P]_store
    <2> SUFFICES ASSUME LInv, [Next]_vars, store' # store PROVE P
      OBVIOUS
    <2>1. CASE ListArrives
      <3>1. page = "listed" /\ store' = MergedRuns
        BY <2>1 DEF ListArrives
      <3>2. \A o \in Range(stored) : o \notin Range(store') => Len(store') = Keep
        BY <3>1, MergedRunsDrawn
      <3>3. ~early => stored = store /\ runs = <<>>
        BY <3>1 DEF LInv, ListInv, NothingYet
      <3>4. ~early /\ NewestFirst(store) =>
               NewestFirst(store') /\ \A o \in gone, p \in Range(store') : Younger(p, o)
        BY <3>1, <3>3, MergeKeepsOrder DEF LInv, ListInv
      <3> QED
        BY <3>2, <3>3, <3>4
    <2>2. ASSUME NEW o \in Orders, Started(o) PROVE P
      <3>1. store' = runs' /\ starting = o /\ o # None /\ ~ListArrives
        <4>1. page' = page /\ store' = runs' /\ starting = o
          BY <2>2 DEF Started, loadVars
        <4> QED
          BY <4>1, StudioAssumption DEF ListArrives
      <3>2. ~early => runs = store
        BY <3>1 DEF LInv, ListInv, PageIsSaved, NothingYet
      <3>3. ~early /\ gone # {} => Len(store') = Keep
        BY <2>2, <3>1, <3>2, StartedRoom
      <3> QED
        BY <2>2, <3>1, <3>3, StartedList
    <2> QED
      BY <2>1, <2>2
         DEF Next, MetaArrives, ServerLists, MetaFails, ListFails, NoList, Reload, ServerRestarts,
             StartOrder, ServerStarts, StartFails, StartPolled, OrderMoves, Refresh, Select, Decide,
             ServerDecides, Answered, DecisionSent, DecisionPolled, DecisionFails, listVars, vars
  <1> QED
    BY <1>1, AlwaysLInv, PTL DEF Spec, StoreKeepsNewest
=============================================================================
